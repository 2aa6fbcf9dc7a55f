SPECIFICATION Spec
CONSTANTS
  Transports = {"socket"}
  Commands = {"query", "block"}
  Payload <- MCPayload
  MaxCommands = 4
CHECK_DEADLOCK FALSE
INVARIANTS
  AnswersAreOwn
