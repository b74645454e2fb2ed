SPECIFICATION Spec
CONSTANTS
  Granularity = 2
  DeviceSizes = {1, 8, 9, 13}
  MaxRequest = 11
INVARIANTS ScanMatchesDefinition ShortOnlyIfFull
PROPERTIES NeverOverlaps ReserveTerminates
CHECK_DEADLOCK FALSE
