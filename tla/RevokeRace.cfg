SPECIFICATION MCSpec
CONSTANTS
  Consumers = {1}
  Donors = {11}
  Regions = {1}
  DonorOf <- OneRegionEach
  RegionSize <- TwoGranules
  Granularity = 2
  NumSlots = 2
  Revokers = {rv1}
  Detector = det
  MayExit = {}
  MaxRequests = 2
  MaxRequestSize = 2
  MaxFaults = 0
  SlowGuest = FALSE
INVARIANTS TypeOK DonatedCoversAllocations DonorAccountsBalance RevokeDebtRecorded
