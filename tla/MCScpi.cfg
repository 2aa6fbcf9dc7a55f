SPECIFICATION Spec
CONSTANTS
  Transports = {"socket", "visa"}
  Commands = {"set", "query", "opc", "block", "unknown"}
  Payload <- MCPayload
  MaxCommands = 4
CHECK_DEADLOCK FALSE
INVARIANTS
  TypeOK
  AnswersInStep
  SilenceLeavesNoError
  SyncMeansExecuted
