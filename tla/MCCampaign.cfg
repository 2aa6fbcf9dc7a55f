\* Robot suites, opened once or twice, and the script; refused and mixed racks.
SPECIFICATION Spec
CONSTANTS
  Suites <- MCSuites
INVARIANTS
  TypeOK
  GreenIsEarned
  GreenIsMeasured
  ReportAgreesWithVerdict
  UnwindsCleanly
  NoDriverIsStranded
  CasesSwitchOff
CHECK_DEADLOCK FALSE
