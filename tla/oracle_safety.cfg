CONSTANTS
  t1 = t1
  s1 = s1
  s2 = s2
  None = None
  Task <- OneTask
  Slot <- TwoSlots
  TaskOf <- OneTaskOf
  Size <- MCSize
  Amounts <- MCAmounts
  MayFail <- OneMayFail
  Asked <- OneAsked
  MayMiss <- OneTask
  OddDataset <- OneTask
  EpochBound = 1
  CrashBound = 1
SPECIFICATION Spec
INVARIANTS CreditsMatchRows FinishedTaskIsComplete FinishedTwiceOnlyIfOverdelivered PanicsNeedARefusedRow RowsPointToTransactions EpochIdsAreFresh FirstScheduledIsConsistent
PROPERTIES GivenUpStaysGivenUp
CHECK_DEADLOCK FALSE
