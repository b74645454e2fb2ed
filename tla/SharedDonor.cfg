SPECIFICATION MCSpec
CONSTANTS
  Consumers = {1, 2}
  Donors = {2}
  Regions = {1}
  DonorOf <- AllOfVm2
  RegionSize <- TwoGranules
  Granularity = 1
  NumSlots = 2
  Revokers = {rv1}
  Detector = det
  MayExit = {}
  MaxRequests = 2
  MaxRequestSize = 1
  MaxFaults = 0
  SlowGuest = FALSE
INVARIANTS Lifecycle CommitNeverPanics
