SPECIFICATION Spec
CONSTANTS
  Keep = 3
  MaxBytes = 5
  Sizes <- MCSizes
  MaxRecords = 7
  MaxFaults = 2
  MaxCrashes = 2
CHECK_DEADLOCK FALSE
INVARIANT TypeOK
INVARIANT SizeBounded
PROPERTY TrailKept
PROPERTY ForgetsOnlyWhenFull
