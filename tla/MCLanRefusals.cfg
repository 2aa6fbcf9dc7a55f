SPECIFICATION Spec
CONSTANTS
  Channels = {1, 2}
  VoltageChannel = 1
  CurrentChannel = 2
  Levels <- MCLevels
  Offsets <- MCOffsets
  Orders = {3}
  HarmonicLevels <- MCHarmonicLevels
  Durations <- MCDurations
  Corrections = {10}
  Unity = 10
  VoltsToAmps = 1
  VoltsToKilovolts = 1
  LineInLow = 2
  LineInHigh = 4
  LineOutLow = 1
  LineOutHigh = 5
  LineHoleRide = 2
  OvercurrentTrigger = 2
  FastOvercurrentTrigger = 3
  HarmonicTrigger = 1
  NoChannel = 7
  Detectors <- MCDetectors
  NoDetector = "none"
  Quantities <- MCQuantities
  StrayReads = FALSE
  MaxCalls = 3
CHECK_DEADLOCK FALSE
INVARIANT
  SameRefusals
