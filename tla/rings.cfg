SPECIFICATION MCSpec
CONSTANTS
  Size = 4
  Burst = 2
  MaxItem = 9
  Urgent = "producer"
  Ops <- AsyncOps
CHECK_DEADLOCK FALSE
INVARIANT TypeOK
PROPERTIES ImplementsFifo UsartNeverStale UsartDiscardLeavesEmpty
