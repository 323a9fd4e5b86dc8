CONSTANTS
  Impls = {"sbq", "ymc"}
  Procs = {0, 1}
  Items = {v1, v2, v3}
  Last = 3
  Elems = {w1, w2}
  LastCell = 4
  PATIENCE = 1
  NULL = NULL
  NONE = NONE
  TAKEN = TAKEN
  TOP = TOP
  OK = OK
  EMPTY = EMPTY
  DEQUEUE = DEQUEUE
SPECIFICATION MCSpec
VIEW View
SYMMETRY Symmetry
CHECK_DEADLOCK FALSE
INVARIANTS
  NothingPassedOver NodesInOrder TakenInOrder DeletesUnprotected
  LinearizableAlone CellsServeOnce
