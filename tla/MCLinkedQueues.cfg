CONSTANTS
  Procs = {0, 1}
  Items = {v1, v2, v3}
  Threshold = 1
  Nodes = {n1, n2, n3}
  Impls = {"ms", "faa", "lcrq"}
  HPs = 2
  BUFFER_SIZE = 1
  NODE_SIZE = 2
  Tries = 1
  Spins = 0
  Segments = 3
  Tickets = 4
  OK = OK
  NULL = NULL
  TAKEN = TAKEN
  EMPTY = EMPTY
  NONE = NONE
  DEQUEUE = DEQUEUE
SPECIFICATION MCSpec
VIEW View
SYMMETRY Symmetry
CHECK_DEADLOCK FALSE
INVARIANTS LinearizableUntilStale MemoryIsSafe NothingPassedOver
