SPECIFICATION FairSpec
CONSTANTS
  Requests <- MCMixed
  ValidChannels = {1, 2}
  ValidFactors = {1, 2, 3}
  Unity = 1
  Retries = 2
  Patience = 2
  Duplicates = TRUE
  Cuts = TRUE
  Identity <- MCIdentity
  MaxTransactions = 2
  MaxSockets = 1
  MaxWorlds = 1
INVARIANTS
  AnswerFits
  RepliesSurviveTheWire
  RequestsSurviveTheWire
PROPERTY
  EveryCallEnds
CHECK_DEADLOCK FALSE
