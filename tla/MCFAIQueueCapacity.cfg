CONSTANTS
  Procs = {p1, p2, p3}
  Enqueuers = {p1, p2}
  Dequeuers = {p3}
  Items = {v1, v2}
  Baskets = {0, 1}
  Capacity = 2
  K = 1
  MaxGroupedItems = 2
  BOTTOM = BOTTOM
  TOP = TOP
  OK = OK
  FULL = FULL
  BASKET_CLOSED = BASKET_CLOSED
  OPEN = OPEN
  CLOSED = CLOSED
  EMPTY = EMPTY
  NONE = NONE
  DEQUEUE = DEQUEUE
SPECIFICATION Spec
SYMMETRY Symmetry
INVARIANTS InBounds
