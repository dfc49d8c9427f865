CONSTANTS
  t1 = t1
  t2 = t2
  t3 = t3
  t4 = t4
  t5 = t5
  t6 = t6
  None = None
  Task <- SixTasks
  Upchained <- SixInOrder
  NodeCount = 1
  Total <- AllOne
  SlotSize <- MCSlotSize
  InitCap = 1
  UnprocessedCap = 1
  PendingCap = 1
  ScheduledCap = 1
  OracleCap = 1
  ScheduleBound <- TwiceForTwo
SPECIFICATION FewOrManySpec
INVARIANT WedgeNeedsFullChannels
PROPERTY EveryTaskGoesOn
\* The bounded system stops when every schedule has been made.
CHECK_DEADLOCK FALSE
