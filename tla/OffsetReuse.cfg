SPECIFICATION MCSpec
CONSTANTS
  Consumers = {1}
  Donors = {11}
  Regions = {1}
  DonorOf <- OneRegionEach
  RegionSize <- TwoGranules
  Granularity = 1
  NumSlots = 2
  Revokers = {rv1}
  Detector = det
  MayExit = {}
  MaxRequests = 2
  MaxRequestSize = 1
  MaxFaults = 0
  SlowGuest = FALSE
INVARIANTS CommittedKeepsSlot
