\* Every row against devices on both sides of its limits; a good device of a
\* trip case and of a line case with every combination of times and limits.
SPECIFICATION Spec
CONSTANTS
  Inf = 10000
  Sample = 2
  GateMargin = 4
  Detects = {0, 1, 2, 3, 4, 5, 7, 9}
  Sets = {0, 1, 2, 5}
  Holds = {0, 2, 5, 12}
  LineOuts = {1, 3, 6}
  DetectMins = {0, 3}
  DetectMaxs <- MCDetectMaxs
  SetMaxs <- MCSetMaxs
  HoldMins = {0, 2, 3}
  ReleaseMaxs = {2, 5}
  Trials <- MCTrials
  TimedTrials <- MCTimedTrials
  NominalTimes <- MCNominalTimes
  NominalLimits <- MCNominalLimits
  SweepSteps = 200
INVARIANTS
  TypeOK
  PassIsTrue
  GoodDevicePasses
  LateIsMeasured
  BracketPinsTripPoint
  LinePassMeans
  GoodDutPasses
  AnalogPointsSeparate
  DeadPathNeverGreen
CHECK_DEADLOCK FALSE
