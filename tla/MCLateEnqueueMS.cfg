CONSTANTS
  Procs = {0, 1}
  Items = {1, 2, 3, 4}
  Threshold = 1
  Nodes = {n1, n2, n3, n4}
  Impls = {"ms"}
  HPs = 2
  BUFFER_SIZE = 1
  NODE_SIZE = 2
  Tries = 1
  Spins = 0
  Segments = 3
  Tickets = 4
  OK = OK
  NULL = NULL
  TAKEN = TAKEN
  EMPTY = EMPTY
  NONE = NONE
  DEQUEUE = DEQUEUE
SPECIFICATION LateSpec
VIEW View
SYMMETRY SameNodes
CHECK_DEADLOCK FALSE
INVARIANT Linearizable
