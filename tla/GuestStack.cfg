SPECIFICATION FairSpec
CONSTANTS
  Pids = {1, 2}
  MaxConns = 2
  MaxAsks = 2
  MAX_CLIENTS = 2
  Granularity = 2
  Offsets = {0, 2}
  Amounts = {0, 3, 7}
  SizeMax = 7
INVARIANTS TypeOK ResponseFindsRequest ReservedIsBacked StaysRegistered
PROPERTIES AnswerIsOwn PendingCompletes EndedIsForgotten
CHECK_DEADLOCK FALSE
