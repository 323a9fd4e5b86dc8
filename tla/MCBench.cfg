CONSTANTS
  N = 2
  Ops = 2
  Watched = {1}
  K = 2
  BOTTOM = BOTTOM
  TOP = TOP
  OK = OK
  FULL = FULL
  BASKET_CLOSED = BASKET_CLOSED
  OPEN = OPEN
  CLOSED = CLOSED
  EMPTY = EMPTY
  NONE = NONE
  DEQUEUE = DEQUEUE
  Counters = 3
  Rounds = 2
  ITERATIONS = 8
  WindowSize = 3
  ThresholdNum = 1
  ThresholdDen = 20
  Times = {90, 100, 104, 130}
SPECIFICATION MCSpec
VIEW View
INVARIANTS EveryItemComesOut InBounds CountIsRight EarlyMeanIsSteady LeastVariation
PROPERTIES OperationsReturn
