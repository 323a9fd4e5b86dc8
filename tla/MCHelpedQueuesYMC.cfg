CONSTANTS
  Impls = {"ymc"}
  Procs = {0, 1, 2}
  Items = {v1, v2, v3}
  Last = 3
  Elems = {w1}
  LastCell = 2
  PATIENCE = 1
  NULL = NULL
  NONE = NONE
  TAKEN = TAKEN
  TOP = TOP
  OK = OK
  EMPTY = EMPTY
  DEQUEUE = DEQUEUE
SPECIFICATION MCSpec
VIEW View
SYMMETRY Symmetry
CHECK_DEADLOCK FALSE
INVARIANT Linearizable
