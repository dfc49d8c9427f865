CONSTANTS
  n1 = n1
  n2 = n2
  i1 = i1
  i2 = i2
  h1 = h1
  h2 = h2
  t1 = t1
  t2 = t2
  t3 = t3
  None = None
  Node <- MCNode
  Item <- TwoItems
  Hash <- MCHash
  Task <- MCTask
  HashOf <- OwnHash
  TaskOf <- AllReliable
  SizeOf <- MCSizeOf
  Tracked <- MCTracked
  Reliable <- MCReliable
  Total <- MCTotal
  Unscheduled <- NoHash
  Announced <- NoTask
  Unregistered <- NoItem
  TimerRoom = 0
  StartEpoch <- MCStartEpoch
  EpochBound = 1
  Capacity = 3
SPECIFICATION Spec
PROPERTY AcceptedBySomeNode
\* The bounded system stops when every call, tick and timer has been used up.
CHECK_DEADLOCK FALSE
