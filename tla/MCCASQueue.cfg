CONSTANTS
  N = 3
  Enqueuers = {0, 1}
  Dequeuers = {1, 2}
  Items = {v1, v2, v3}
  Baskets = {0, 1, 2}
  Capacity = 3
  MaxGroupedItems = 2
  BOTTOM = BOTTOM
  TOP = TOP
  OK = OK
  FULL = FULL
  BASKET_CLOSED = BASKET_CLOSED
  OPEN = OPEN
  CLOSED = CLOSED
  EMPTY = EMPTY
  NONE = NONE
  DEQUEUE = DEQUEUE
SPECIFICATION Spec
SYMMETRY Symmetry
VIEW View
INVARIANTS TypeOK NoLossNoDuplicate ClosedIsEmpty ExactIsLinearizable TailIsPaidFor NothingLeftBehind
PROPERTIES UsesBaskets
