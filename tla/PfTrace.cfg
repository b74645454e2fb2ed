SPECIFICATION Spec
CONSTANTS
  a1 = a1
  a2 = a2
  b1 = b1
  Threads = {a1, a2, b1}
  Tgid <- TwoProcesses
  MaxEntries = 1
  RingSize = 1
  MaxFaults = 5
SYMMETRY Alike
INVARIANTS ReportIsOwnFault EntryEndsWithFault
CHECK_DEADLOCK FALSE
