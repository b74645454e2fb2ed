SPECIFICATION MCFairSpec
CONSTANTS
  Consumers = {1}
  Donors = {11}
  Regions = {1}
  DonorOf <- OneRegionEach
  RegionSize <- TwoGranules
  Granularity = 1
  NumSlots = 2
  Revokers = {rv1}
  Detector = det
  MayExit = {1}
  MaxRequests = 1
  MaxRequestSize = 1
  MaxFaults = 0
  SlowGuest = TRUE
PROPERTIES ExitCompletes
