CONSTANTS
  N = 3
  Size = 2
  GroupSize = 2
  MaxValue = 2
SPECIFICATION MCSpec
INVARIANT TypeOK
PROPERTIES ImplementObject OnlyGroupMatesLose RegistersOnlyGrow
