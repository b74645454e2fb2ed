SPECIFICATION MCSpec
CONSTANTS
  Consumers = {1}
  Donors = {11, 12}
  Regions = {1, 2}
  DonorOf <- OneRegionEach
  RegionSize <- OneGranule
  Granularity = 1
  NumSlots = 2
  Revokers = {rv1}
  Detector = det
  MayExit = {}
  MaxRequests = 2
  MaxRequestSize = 1
  MaxFaults = 1
  SlowGuest = TRUE
INVARIANTS SlotsAreCommitted DonorAccountsBalance
PROPERTIES LoansAreHonoured
