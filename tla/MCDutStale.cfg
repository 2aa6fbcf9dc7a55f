SPECIFICATION Spec
CONSTANTS
  Requests <- MCReads
  ValidChannels = {1, 2}
  ValidFactors = {1, 2, 3}
  Unity = 1
  Retries = 2
  Patience = 1
  Duplicates = FALSE
  Cuts = FALSE
  Identity <- MCIdentity
  MaxTransactions = 3
  MaxSockets = 1
  MaxWorlds = 1
PROPERTY
  NoWrongMeasurement
CHECK_DEADLOCK FALSE
