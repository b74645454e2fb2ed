SPECIFICATION MCSpec
CONSTANTS
  Consumers = {1}
  Donors = {11}
  Regions = {1}
  DonorOf <- OneRegionEach
  RegionSize <- OneGranule
  Granularity = 1
  NumSlots = 1
  Revokers = {rv1}
  Detector = det
  MayExit = {1, 11}
  MaxRequests = 2
  MaxRequestSize = 1
  MaxFaults = 0
  SlowGuest = FALSE
INVARIANTS SingleReturner CommittedIsTracked NeverOverReturned
PROPERTIES LoansAreHonoured
