SPECIFICATION Spec
CONSTANTS
  Requests <- MCRequests
  ValidChannels = {1, 2}
  ValidFactors = {1, 2, 3}
  Unity = 1
  Retries = 2
  Patience = 1
  Duplicates = FALSE
  Cuts = TRUE
  Identity <- MCIdentity
  MaxTransactions = 3
  MaxSockets = 2
  MaxWorlds = 0
INVARIANTS
  TypeOK
  AnswerFits
  StaleOnlyAfterRetry
  AckedCorrectionHolds
  ConnectedMeansIdentified
PROPERTY
  ImplementsService
CHECK_DEADLOCK FALSE
