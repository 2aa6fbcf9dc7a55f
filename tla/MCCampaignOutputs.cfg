\* An exception in a case of the script, and the outputs after its with block.
SPECIFICATION Spec
CONSTANTS
  Suites <- MCScripts
INVARIANTS
  OutputsOffOnTheWayOut
CHECK_DEADLOCK FALSE
