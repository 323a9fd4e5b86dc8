CONSTANTS
  Procs = {p1, p2}
  Items = {v1, v2, v3}
  Enqueuers = {p1, p2}
  Dequeuers = {p1, p2}
  Baskets = {0, 1, 2}
  Segments = 3
  ARRAY_SIZE = 4
  NODE_SIZE = 1
  ARRAY_NODE_SIZE = 3
  Tickets = 3
  K = 2
  BOTTOM = BOTTOM
  TOP = TOP
  OK = OK
  FULL = FULL
  BASKET_CLOSED = BASKET_CLOSED
  OPEN = OPEN
  CLOSED = CLOSED
  EMPTY = EMPTY
  NONE = NONE
  NULL = NULL
  DEQUEUE = DEQUEUE
SPECIFICATION MCSpec
SYMMETRY Symmetry
VIEW View
INVARIANTS NoLossNoDuplicate TakenInOrder NothingBehindHead Linearizable BasketsAreConcurrent
