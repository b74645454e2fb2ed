SPECIFICATION FairSpec
CONSTANTS
  Paths = {1, 2}
  Vms = {1, 2, 3}
  PathOf <- TwoShare
  Consumers = {1, 2}
  Guests = {1, 2}
  MaxLinks = 2
INVARIANTS ThreadOwnsLink ServedByItsVm
PROPERTIES RemovedIsGone ListCatchesUp LinkIsFreed
CHECK_DEADLOCK FALSE
