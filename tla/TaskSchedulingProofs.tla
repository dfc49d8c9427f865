------------------------ MODULE TaskSchedulingProofs ------------------------
(* Facts about TaskScheduling for every set of tasks with their sizes, every *)
(* number of nodes and of schedules, and every capacity of the channels.     *)
EXTENDS TaskScheduling, FiniteSums, FiniteSetTheorems, TLAPS

-----------------------------------------------------------------------------
(* Facts about the data.                                                     *)

\* The greater of two numbers.
LEMMA MaxOfTwo ==
    ASSUME NEW a \in Int, NEW b \in Int
    PROVE  Max({a, b}) \in {a, b} /\ Max({a, b}) >= a /\ Max({a, b}) >= b
<1>1. \E x \in {a, b} : \A y \in {a, b} : x >= y
  OBVIOUS
<1> QED BY <1>1 DEF Max

\* The smaller of two numbers.
LEMMA MinOfTwo ==
    ASSUME NEW a \in Int, NEW b \in Int
    PROVE  Min({a, b}) \in {a, b}
<1>1. \E x \in {a, b} : \A y \in {a, b} : x =< y
  OBVIOUS
<1> QED BY <1>1 DEF Min

\* Every node is offered a number of rows, and never none.
LEMMA AdviceType ==
    ASSUME NEW n \in Node, NEW request \in Nat, NEW slotSize \in Nat
    PROVE  Advice(n, request, slotSize) \in Nat \ {0}
<1> USE SchedulingAssumption
<1>1. request \div NodeCount \in Int /\ request % NodeCount \in Nat /\ slotSize \in Int
  OBVIOUS
<1> DEFINE share == request \div NodeCount
           least == Min({share, slotSize})
           most == Max({1, least})
<1>2. share \in Int
  BY <1>1
<1> HIDE DEF share
<1>3. least \in {share, slotSize}
  BY <1>1, <1>2, MinOfTwo, Zenon
<1>4. least \in Int
  BY <1>1, <1>2, <1>3
<1> HIDE DEF least
<1>7. 1 \in Int
  OBVIOUS
<1>8. most \in {1, least} /\ most >= 1
  BY <1>4, <1>7, MaxOfTwo, Zenon
<1>5. request % NodeCount \in Nat
  BY <1>1
<1> HIDE DEF most
<1>6. Advice(n, request, slotSize) = most + (IF n = 0 THEN request % NodeCount ELSE 0)
  BY DEF Advice, most, least, share
<1> QED BY <1>4, <1>5, <1>6, <1>8

\* What a schedule offers to a node is a slot.
LEMMA SlotType ==
    ASSUME NEW schedule \in ScheduleOf, NEW n \in Node
    PROVE  SlotOf(schedule, n) \in Slot
<1>1. /\ schedule.task \in Task /\ schedule.size \in Nat /\ schedule.index \in Nat
      /\ SlotSize[schedule.task] \in Nat
  BY SchedulingAssumption DEF ScheduleOf
<1> QED BY <1>1, AdviceType DEF SlotOf, Slot

\* What a task lacks after its credits is a number.
LEMMA SizeAfterType ==
    ASSUME RecordType, NEW t \in Task, NEW n \in Nat
    PROVE  SizeAfter(t, n) \in Nat /\ SizeAfter(t, n) <= size[t]
<1> DEFINE rest == size[t] - n
<1>1. rest \in Int /\ 0 \in Int /\ size[t] \in Nat /\ rest <= size[t]
  BY DEF RecordType
<1>2. Max({0, rest}) \in {0, rest} /\ Max({0, rest}) >= 0
  BY <1>1, MaxOfTwo, Zenon
<1>3. SizeAfter(t, n) \in {0, rest} /\ SizeAfter(t, n) >= 0
  BY <1>2 DEF SizeAfter
<1> QED BY <1>1, <1>3

\* The request that a Tracker or a timer makes is one.
LEMMA RequestType == ASSUME RecordType, NEW t \in Task PROVE NextRequest(t) \in Request
  BY DEF RecordType, NextRequest, Request

\* The Scheduler copies the request, and numbers it with a natural number.
LEMMA ScheduleType ==
    ASSUME RecordType, NEW request \in Request
    PROVE  /\ request.task \in Task /\ request.size \in Nat
           /\ MakeSchedule(request) \in ScheduleOf
           /\ MakeSchedule(request).task = request.task
           /\ MakeSchedule(request).size = request.size
<1>1. request.task \in Task /\ request.size \in Nat
  BY DEF Request
<1>2. schedules[request.task] \in Int /\ schedules[request.task] + 1 \in Nat
  BY <1>1 DEF RecordType
<1> DEFINE last == schedules[request.task]
<1>3. 0 \in Int /\ last \in Int
  BY <1>2
<1>4. Max({0, last}) \in {0, last} /\ Max({0, last}) >= 0
  BY <1>3, MaxOfTwo, Zenon
<1>5. Max({0, last}) \in Nat
  BY <1>3, <1>4
<1> QED BY <1>1, <1>2, <1>5 DEF MakeSchedule, ScheduleOf

\* The request for what the nodes did not accept is one.
LEMMA RetryType ==
    ASSUME NEW schedule \in ScheduleOf PROVE RetryRequest(schedule) \in Request
  BY DEF ScheduleOf, RetryRequest, Request

\* A queue from which a message was taken, and one to which one was sent.
LEMMA TakeFacts ==
    ASSUME NEW S, NEW q \in Seq(S), NEW cap \in Nat, Len(q) <= cap, q # <<>>
    PROVE  /\ Head(q) \in S /\ InRoom(Tail(q), S, cap)
           /\ Len(Tail(q)) = Len(q) - 1 /\ Len(q) \in Nat \ {0}
           /\ Head(q) = q[1]
           /\ \A k \in 1 .. Len(Tail(q)) : Tail(q)[k] = q[k + 1]
  BY DEF InRoom

\* A channel that has room takes one more message.
LEMMA SendFacts ==
    ASSUME NEW S, NEW q \in Seq(S), NEW cap \in Nat, Len(q) < cap, NEW m \in S
    PROVE  /\ InRoom(Append(q, m), S, cap)
           /\ Len(Append(q, m)) = Len(q) + 1 /\ Len(q) \in Nat
           /\ \A k \in 1 .. Len(q) : Append(q, m)[k] = q[k]
           /\ Append(q, m)[Len(q) + 1] = m
  BY DEF InRoom

-----------------------------------------------------------------------------
(* Type correctness.                                                         *)

\* The first state.
LEMMA InitType == Init => TypeOK
<1> SUFFICES ASSUME Init PROVE TypeOK
  OBVIOUS
<1> USE SchedulingAssumption DEF Init, AtRest
<1>1. ChannelType
  BY DEF ChannelType, InRoom
<1>2. GoroutineType
  BY DEF GoroutineType
<1>3. /\ stored \in [Task -> Seq(Nat)] /\ size \in [Task -> Nat]
      /\ schedules \in [Task -> Int] /\ \A t \in Task : schedules[t] >= -1
  OBVIOUS
<1>4. replies \in [Node -> {"none", "accept", "reject"}]
  BY DEF NoReplies
<1>5. RecordType
  BY <1>3, <1>4 DEF RecordType
<1> QED BY <1>1, <1>2, <1>5 DEF TypeOK

\* What a step leaves alone keeps its type.
LEMMA TypeKept ==
    ASSUME TypeOK
    PROVE  /\ UNCHANGED <<upchained, initTasks, unprocessedTasks, pendingSchedules,
                          scheduledTasks, oracleSchedules>> => ChannelType'
           /\ UNCHANGED <<oracle, tracker, expire, scheduler, coordinator>> => GoroutineType'
           /\ UNCHANGED <<known, timers, retired, stored, size, schedules, replies,
                          unscheduled, running, crashed>> => RecordType'
  BY DEF TypeOK, ChannelType, GoroutineType, RecordType

\* A goroutine that is not idle has what its position needs.
LEMMA InHandType ==
    ASSUME TypeOK
    PROVE  /\ oracle # Idle => oracle.job \in Task /\ oracle = Busy(oracle.pc, oracle.job)
           /\ tracker # Idle => tracker.job \in Request /\ tracker.pc = "request"
           /\ expire.pc = "next" => expire.job \in Task /\ expire = Busy("next", expire.job)
           /\ expire.pc = "request" => expire.job \in Request
           /\ scheduler # Idle => scheduler.job \in ScheduleOf /\ scheduler.pc = "send"
           /\ coordinator # Idle => coordinator.job \in ScheduleOf
           /\ coordinator # Idle => coordinator.pc \in {"ask", "retry", "scheduled", "oracle"}
           /\ Idle.pc = "idle"
  BY DEF TypeOK, GoroutineType, Idle, Busy

\* The types, after a step of the Oracle,
LEMMA OracleKeepsType == TypeOK /\ OracleStep => TypeOK'
<1> SUFFICES ASSUME TypeOK, OracleStep PROVE TypeOK'
  OBVIOUS
<1> USE SchedulingAssumption, TypeKept DEF oracleVars, trackerVars, schedVars, coordVars, Alive
<1>1. CASE TakeInitTask
  <2>1. Head(upchained) \in Task /\ Tail(upchained) \in Seq(Task)
    BY <1>1 DEF TypeOK, ChannelType, TakeInitTask
  <2>2. ChannelType'
    BY <1>1, <2>1 DEF TypeOK, ChannelType, TakeInitTask
  <2>3. GoroutineType'
    BY <1>1, <2>1 DEF TypeOK, GoroutineType, TakeInitTask, Busy
  <2> QED BY <1>1, <2>2, <2>3 DEF TypeOK, TakeInitTask
<1>2. CASE SendInitTask
  <2>1. oracle.job \in Task
    BY <1>2, InHandType DEF SendInitTask
  <2>2. ChannelType'
    BY <1>2, <2>1, SendFacts DEF TypeOK, ChannelType, SendInitTask, InRoom
  <2>3. GoroutineType'
    BY <1>2, <2>1 DEF TypeOK, GoroutineType, SendInitTask, Busy
  <2> QED BY <1>2, <2>2, <2>3 DEF TypeOK, SendInitTask
<1>3. CASE SetTask
  <2>1. oracle.job \in Task
    BY <1>3, InHandType DEF SetTask
  <2>2. GoroutineType'
    BY <1>3 DEF TypeOK, GoroutineType, SetTask
  <2>3. RecordType'
    BY <1>3, <2>1 DEF TypeOK, RecordType, SetTask
  <2> QED BY <1>3, <2>2, <2>3 DEF TypeOK, SetTask
<1>4. CASE StoreSchedule
  <2> DEFINE m == Head(oracleSchedules)
  <2>1. m \in ScheduleOf /\ InRoom(Tail(oracleSchedules), ScheduleOf, OracleCap)
    BY <1>4, TakeFacts DEF TypeOK, ChannelType, StoreSchedule, InRoom
  <2>2. m.task \in Task /\ m.id \in Nat
    BY <2>1 DEF ScheduleOf
  <2>3. ChannelType'
    BY <1>4, <2>1 DEF TypeOK, ChannelType, StoreSchedule, InRoom
  <2>4. stored' \in [Task -> Seq(Nat)]
    BY SMTT(30), <1>4, <2>2 DEF TypeOK, RecordType, StoreSchedule
  <2>5. RecordType'
    BY <1>4, <2>4 DEF TypeOK, RecordType, StoreSchedule
  <2> QED BY <1>4, <2>3, <2>5 DEF TypeOK, StoreSchedule
<1> QED BY <1>1, <1>2, <1>3, <1>4 DEF OracleStep

\* of the Tracker,
LEMMA TrackerKeepsType == TypeOK /\ TrackerStep => TypeOK'
<1> SUFFICES ASSUME TypeOK, TrackerStep PROVE TypeOK'
  OBVIOUS
<1> USE SchedulingAssumption, TypeKept DEF oracleVars, trackerVars, schedVars, coordVars, Alive
<1>1. CASE TakeInit
  <2>1. Head(initTasks) \in Task /\ InRoom(Tail(initTasks), Task, InitCap)
    BY <1>1, TakeFacts DEF TypeOK, ChannelType, TakeInit, InRoom
  <2>2. ChannelType'
    BY <1>1, <2>1 DEF TypeOK, ChannelType, TakeInit
  <2>3. NextRequest(Head(initTasks)) \in Request
    BY <2>1, RequestType DEF TypeOK
  <2>4. GoroutineType'
    BY <1>1, <2>3 DEF TypeOK, GoroutineType, TakeInit, Busy
  <2> QED BY <1>1, <2>2, <2>4 DEF TypeOK, TakeInit
<1>2. CASE SendInitRequest
  <2>1. tracker.job \in Request
    BY <1>2, InHandType DEF SendInitRequest
  <2>2. ChannelType'
    BY <1>2, <2>1, SendFacts DEF TypeOK, ChannelType, SendInitRequest, InRoom
  <2>3. GoroutineType'
    BY <1>2 DEF TypeOK, GoroutineType, SendInitRequest
  <2> QED BY <1>2, <2>2, <2>3 DEF TypeOK, SendInitRequest
<1>3. CASE TakeScheduled
  <2>1. /\ Head(scheduledTasks) \in ScheduleOf
        /\ InRoom(Tail(scheduledTasks), ScheduleOf, ScheduledCap)
    BY <1>3, TakeFacts DEF TypeOK, ChannelType, TakeScheduled, InRoom
  <2>2. ChannelType'
    BY <1>3, <2>1 DEF TypeOK, ChannelType, TakeScheduled
  <2>3. RecordType'
    BY <1>3, <2>1 DEF TypeOK, RecordType, TakeScheduled, ScheduleOf
  <2> QED BY <1>3, <2>2, <2>3 DEF TypeOK, TakeScheduled
<1> QED BY <1>1, <1>2, <1>3 DEF TrackerStep

\* of its goroutine for the timers,
LEMMA CollectExpireKeepsType == TypeOK /\ CollectExpireStep => TypeOK'
<1> SUFFICES ASSUME TypeOK, CollectExpireStep PROVE TypeOK'
  OBVIOUS
<1> USE SchedulingAssumption, TypeKept DEF oracleVars, trackerVars, schedVars, coordVars, Alive
<1>1. ASSUME NEW t \in Task, ExpireTask(t) PROVE TypeOK'
  <2>1. GoroutineType'
    BY <1>1 DEF TypeOK, GoroutineType, ExpireTask, Busy
  <2>2. RecordType'
    BY <1>1 DEF TypeOK, RecordType, ExpireTask
  <2> QED BY <1>1, <2>1, <2>2 DEF TypeOK, ExpireTask
<1>2. CASE NextExpired
  <2>1. NextRequest(expire.job) \in Request
    BY <1>2, InHandType, RequestType DEF TypeOK, NextExpired
  <2>2. GoroutineType'
    BY <1>2, <2>1 DEF TypeOK, GoroutineType, NextExpired, Busy
  <2> QED BY <1>2, <2>2 DEF TypeOK, NextExpired
<1>3. CASE SendExpiredRequest
  <2>1. expire.job \in Request
    BY <1>3, InHandType DEF SendExpiredRequest
  <2>2. ChannelType'
    BY <1>3, <2>1, SendFacts DEF TypeOK, ChannelType, SendExpiredRequest, InRoom
  <2>3. GoroutineType'
    BY <1>3 DEF TypeOK, GoroutineType, SendExpiredRequest
  <2> QED BY <1>3, <2>2, <2>3 DEF TypeOK, SendExpiredRequest
<1> QED BY <1>1, <1>2, <1>3 DEF CollectExpireStep

\* of the Scheduler,
LEMMA SchedulerKeepsType == TypeOK /\ SchedulerStep => TypeOK'
<1> SUFFICES ASSUME TypeOK, SchedulerStep PROVE TypeOK'
  OBVIOUS
<1> USE SchedulingAssumption, TypeKept DEF oracleVars, trackerVars, schedVars, coordVars, Alive
<1>1. CASE Schedule
  <2> DEFINE request == Head(unprocessedTasks)
  <2>1. request \in Request /\ InRoom(Tail(unprocessedTasks), Request, UnprocessedCap)
    BY <1>1, TakeFacts DEF TypeOK, ChannelType, Schedule, InRoom
  <2>2. ChannelType'
    BY <1>1, <2>1 DEF TypeOK, ChannelType, Schedule
  <2>3. request.task \in Task /\ MakeSchedule(request) \in ScheduleOf
    BY <2>1, ScheduleType DEF TypeOK
  <2>4. GoroutineType'
    BY <1>1, <2>3 DEF TypeOK, GoroutineType, Schedule, Busy
  <2>5. schedules' \in [Task -> Int] /\ \A t \in Task : schedules'[t] >= -1
    <3>1. schedules' = [schedules EXCEPT ![request.task] = @ + 1]
      BY <1>1 DEF Schedule
    <3>2. schedules \in [Task -> Int] /\ \A t \in Task : schedules[t] >= -1
      BY DEF TypeOK, RecordType
    <3> HIDE DEF request
    <3> QED BY <2>3, <3>1, <3>2
  <2>6. RecordType'
    BY <1>1, <2>5 DEF TypeOK, RecordType, Schedule
  <2> QED BY <1>1, <2>2, <2>4, <2>6 DEF TypeOK, Schedule
<1>2. CASE SendSchedule
  <2>1. scheduler.job \in ScheduleOf
    BY <1>2, InHandType DEF SendSchedule
  <2>2. ChannelType'
    BY <1>2, <2>1, SendFacts DEF TypeOK, ChannelType, SendSchedule, InRoom
  <2>3. GoroutineType'
    BY <1>2 DEF TypeOK, GoroutineType, SendSchedule
  <2> QED BY <1>2, <2>2, <2>3 DEF TypeOK, SendSchedule
<1> QED BY <1>1, <1>2 DEF SchedulerStep

\* of the Coordinator,
LEMMA CoordinatorKeepsType == TypeOK /\ CoordinatorStep => TypeOK'
<1> SUFFICES ASSUME TypeOK, CoordinatorStep PROVE TypeOK'
  OBVIOUS
<1> USE SchedulingAssumption, TypeKept DEF oracleVars, trackerVars, schedVars, coordVars, Alive
<1>1. CASE OfferSlots
  <2>1. /\ Head(pendingSchedules) \in ScheduleOf
        /\ InRoom(Tail(pendingSchedules), ScheduleOf, PendingCap)
    BY <1>1, TakeFacts DEF TypeOK, ChannelType, OfferSlots, InRoom
  <2>2. ChannelType'
    BY <1>1, <2>1 DEF TypeOK, ChannelType, OfferSlots
  <2>3. GoroutineType'
    BY <1>1, <2>1 DEF TypeOK, GoroutineType, OfferSlots, Busy
  <2> QED BY <1>1, <2>2, <2>3 DEF TypeOK, OfferSlots
<1>2. CASE CountAnswers
  <2>1. coordinator.job \in ScheduleOf
    BY <1>2, InHandType DEF CountAnswers
  <2>2. GoroutineType'
    BY <1>2, <2>1 DEF TypeOK, GoroutineType, CountAnswers, Conclude, Busy
  <2>3. \A n \in Node : SlotOf(coordinator.job, n) \in Slot
    BY <2>1, SlotType
  <2>4. RecordType'
    BY <1>2, <2>3 DEF TypeOK, RecordType, CountAnswers, ReportRejected, Rejected
  <2> QED BY <1>2, <2>2, <2>4 DEF TypeOK, CountAnswers
<1>3. ASSUME Return PROVE NoReplies \in [Node -> {"none", "accept", "reject"}]
  BY DEF NoReplies
<1>4. CASE SendRetry
  <2>1. RetryRequest(coordinator.job) \in Request
    BY <1>4, InHandType, RetryType DEF SendRetry
  <2>2. ChannelType'
    BY <1>4, <2>1, SendFacts DEF TypeOK, ChannelType, SendRetry, InRoom
  <2>3. GoroutineType'
    BY <1>4 DEF TypeOK, GoroutineType, SendRetry, Return
  <2>4. RecordType'
    BY <1>4, <1>3 DEF TypeOK, RecordType, SendRetry, Return
  <2> QED BY <2>2, <2>3, <2>4 DEF TypeOK
<1>5. CASE SendScheduled
  <2>1. coordinator.job \in ScheduleOf
    BY <1>5, InHandType DEF SendScheduled
  <2>2. ChannelType'
    BY <1>5, <2>1, SendFacts DEF TypeOK, ChannelType, SendScheduled, InRoom
  <2>3. GoroutineType'
    BY <1>5, <2>1 DEF TypeOK, GoroutineType, SendScheduled, Busy
  <2> QED BY <1>5, <2>2, <2>3 DEF TypeOK, SendScheduled
<1>6. CASE SendOracleSchedule
  <2>1. coordinator.job \in ScheduleOf
    BY <1>6, InHandType DEF SendOracleSchedule
  <2>2. ChannelType'
    BY <1>6, <2>1, SendFacts DEF TypeOK, ChannelType, SendOracleSchedule, InRoom
  <2>3. GoroutineType'
    BY <1>6 DEF TypeOK, GoroutineType, SendOracleSchedule, Return
  <2>4. RecordType'
    BY <1>6, <1>3 DEF TypeOK, RecordType, SendOracleSchedule, Return
  <2> QED BY <2>2, <2>3, <2>4 DEF TypeOK
<1> QED BY <1>1, <1>2, <1>4, <1>5, <1>6 DEF CoordinatorStep

\* of the nodes and the EpochManager,
LEMMA NodesKeepType == TypeOK /\ (CallEnds \/ EpochManagerStep) => TypeOK'
<1> SUFFICES ASSUME TypeOK, CallEnds \/ EpochManagerStep PROVE TypeOK'
  OBVIOUS
<1> USE TypeKept DEF oracleVars, trackerVars, schedVars, coordVars, Alive
<1>1. ASSUME NEW n \in Node,
             NodeAccepts(n) \/ NodeRejects(n) \/ CallFails(n) \/ NoConnection(n)
      PROVE  TypeOK'
  <2> USE <1>1 DEF NodeAccepts, NodeRejects, CallFails, NoConnection, AskUnchanged
  <2>1. SlotOf(coordinator.job, n) \in Slot
    BY InHandType, SlotType DEF Asked
  <2>2. replies' \in [Node -> {"none", "accept", "reject"}]
    BY DEF TypeOK, RecordType, Answer
  <2>3. unscheduled' \subseteq Slot /\ running' \subseteq Slot
    BY <2>1 DEF TypeOK, RecordType
  <2>4. RecordType'
    BY <2>2, <2>3 DEF TypeOK, RecordType
  <2> QED BY <2>4 DEF TypeOK
<1>2. ASSUME NEW slot \in running, Credit(slot) PROVE TypeOK'
  <2>1. slot.task \in Task /\ slot.size \in Nat
    BY DEF TypeOK, RecordType, Slot
  <2>2. RecordType'
    BY <1>2, <2>1, SizeAfterType DEF TypeOK, RecordType, Credit
  <2> QED BY <1>2, <2>2 DEF TypeOK, Credit
<1> QED BY <1>1, <1>2 DEF CallEnds, EpochManagerStep

\* and so after every step.
LEMMA StepKeepsType == TypeOK /\ [Next]_vars => TypeOK'
<1> SUFFICES ASSUME TypeOK, [Next]_vars PROVE TypeOK'
  OBVIOUS
<1>1. CASE TaskMapFault
  BY <1>1, TypeKept DEF TaskMapFault, TypeOK, RecordType,
     oracleVars, trackerVars, schedVars, coordVars
<1>2. CASE UNCHANGED vars
  BY <1>2, TypeKept DEF TypeOK, vars, oracleVars, trackerVars, schedVars, coordVars
<1> QED
  BY <1>1, <1>2, OracleKeepsType, TrackerKeepsType, CollectExpireKeepsType,
     SchedulerKeepsType, CoordinatorKeepsType, NodesKeepType DEF Next

\* Every channel, goroutine and record of the scheduling keeps its type: no channel
\* ever holds more than it has room for, and a task never lacks a negative amount.
THEOREM SchedulingTypeCorrect == Spec => []TypeOK
<1>1. Init => TypeOK
  BY InitType
<1>2. TypeOK /\ [Next]_vars => TypeOK'
  BY StepKeepsType
<1> QED BY <1>1, <1>2, PTL DEF Spec

-----------------------------------------------------------------------------
(* What is asked for covers what is lacking.                                 *)

Covers(lack, request) == request.size >= lack[request.task]
CoversIn(lack, queue) == \A k \in 1 .. Len(queue) : Covers(lack, queue[k])

RequestsCover ==
    /\ CoversIn(size, unprocessedTasks) /\ CoversIn(size, pendingSchedules)
    /\ tracker # Idle => Covers(size, tracker.job)
    /\ expire.pc = "request" => Covers(size, expire.job)
    /\ scheduler # Idle => Covers(size, scheduler.job)
    /\ coordinator.pc \in {"ask", "retry"} => Covers(size, coordinator.job)

\* The property says the same of each channel and hand.
LEMMA CoverParts == ASSUME TypeOK PROVE RequestsCoverLack <=> RequestsCover
<1>1. /\ DOMAIN unprocessedTasks = 1 .. Len(unprocessedTasks)
      /\ DOMAIN pendingSchedules = 1 .. Len(pendingSchedules)
  BY DEF TypeOK, ChannelType, InRoom
<1> QED BY <1>1 DEF RequestsCoverLack, RequestsCover, CoversIn, Covers

\* A task lacks less and less.
LEMMA SizeNeverGrows ==
    ASSUME TypeOK, [Next]_vars
    PROVE  /\ size \in [Task -> Nat] /\ size' \in [Task -> Nat]
           /\ \A t \in Task : size'[t] <= size[t]
<1>1. size \in [Task -> Nat] /\ size' \in [Task -> Nat]
  BY StepKeepsType DEF TypeOK, RecordType
<1>2. CASE UNCHANGED size
  BY <1>1, <1>2
<1>3. ASSUME NEW slot \in running, Credit(slot), NEW t \in Task PROVE size'[t] <= size[t]
  <2>1. slot.task \in Task /\ slot.size \in Nat
    BY DEF TypeOK, RecordType, Slot
  <2>2. SizeAfter(slot.task, slot.size) <= size[slot.task]
    BY <2>1, SizeAfterType DEF TypeOK
  <2> QED BY <1>1, <1>3, <2>1, <2>2 DEF Credit
<1>4. CASE ~EpochManagerStep
  <2>1. UNCHANGED size
    BY <1>4 DEF Next, vars, OracleStep, TakeInitTask, SendInitTask, SetTask, StoreSchedule,
       TrackerStep, TakeInit, SendInitRequest, TakeScheduled, CollectExpireStep,
       ExpireTask, NextExpired, SendExpiredRequest, SchedulerStep, Schedule, SendSchedule,
       CoordinatorStep, OfferSlots, CountAnswers, SendRetry, SendScheduled,
       SendOracleSchedule, CallEnds, NodeAccepts, NodeRejects, CallFails, NoConnection,
       AskUnchanged, TaskMapFault
  <2> QED BY <1>2, <2>1
<1> QED BY <1>1, <1>3, <1>4 DEF EpochManagerStep

\* So what covered it once still does.
LEMMA CoverKept ==
    ASSUME NEW before \in [Task -> Nat], NEW after \in [Task -> Nat],
           \A t \in Task : after[t] <= before[t],
           NEW request \in Request \cup ScheduleOf, Covers(before, request)
    PROVE  Covers(after, request)
<1>1. request.task \in Task /\ request.size \in Nat
  BY DEF Request, ScheduleOf
<1> QED BY <1>1 DEF Covers

\* A channel that passes requests on keeps them large enough.
LEMMA QueueKept ==
    ASSUME NEW before \in [Task -> Nat], NEW after \in [Task -> Nat],
           \A t \in Task : after[t] <= before[t],
           NEW S \in {Request, ScheduleOf}, NEW q \in Seq(S), CoversIn(before, q)
    PROVE  /\ CoversIn(after, q)
           /\ q # <<>> => CoversIn(after, Tail(q)) /\ Covers(before, Head(q))
           /\ \A m \in S : Covers(after, m) => CoversIn(after, Append(q, m))
<1>1. CoversIn(after, q)
  <2>1. ASSUME NEW k \in 1 .. Len(q) PROVE Covers(after, q[k])
    <3>1. q[k] \in Request \cup ScheduleOf /\ Covers(before, q[k])
      BY DEF CoversIn
    <3> QED BY <3>1, CoverKept
  <2> QED BY <2>1 DEF CoversIn
<1>2. q # <<>> => \A k \in 1 .. Len(Tail(q)) : Tail(q)[k] = q[k + 1] /\ k + 1 \in 1 .. Len(q)
  OBVIOUS
<1>3. q # <<>> => Head(q) = q[1] /\ 1 \in 1 .. Len(q)
  OBVIOUS
<1>4. ASSUME NEW m \in S, Covers(after, m) PROVE CoversIn(after, Append(q, m))
  <2>1. ASSUME NEW k \in 1 .. Len(Append(q, m)) PROVE Covers(after, Append(q, m)[k])
    <3>1. \/ k \in 1 .. Len(q) /\ Append(q, m)[k] = q[k]
          \/ k = Len(q) + 1 /\ Append(q, m)[k] = m
      OBVIOUS
    <3>2. CASE k \in 1 .. Len(q) /\ Append(q, m)[k] = q[k]
      BY <1>1, <3>2 DEF CoversIn
    <3> QED BY <1>4, <3>1, <3>2
  <2> QED BY <2>1 DEF CoversIn
<1>5. q # <<>> => CoversIn(after, Tail(q))
  BY <1>1, <1>2 DEF CoversIn
<1>6. q # <<>> => Covers(before, Head(q))
  BY <1>3 DEF CoversIn
<1> QED BY <1>1, <1>4, <1>5, <1>6

\* A request made now is for all that the task lacks.
LEMMA NextCovers ==
    ASSUME TypeOK, NEW t \in Task PROVE Covers(size, NextRequest(t))
  BY DEF TypeOK, RecordType, Covers, NextRequest

\* The invariant step by step: requests are made for what is lacking, copied, and kept.
LEMMA CoverStep == TypeOK /\ RequestsCover /\ [Next]_vars => RequestsCover'
<1> SUFFICES ASSUME TypeOK, RequestsCover, [Next]_vars PROVE RequestsCover'
  OBVIOUS
<1> DEFINE After(request) == Covers(size', request)
<1>1. /\ unprocessedTasks \in Seq(Request) /\ pendingSchedules \in Seq(ScheduleOf)
      /\ CoversIn(size, unprocessedTasks) /\ CoversIn(size, pendingSchedules)
  BY DEF TypeOK, ChannelType, InRoom, RequestsCover
<1>2. \A request \in Request \cup ScheduleOf : Covers(size, request) => After(request)
  BY SizeNeverGrows, CoverKept
<1>3. /\ CoversIn(size', unprocessedTasks)
      /\ unprocessedTasks # <<>> => /\ CoversIn(size', Tail(unprocessedTasks))
                                    /\ Covers(size, Head(unprocessedTasks))
      /\ \A m \in Request : After(m) => CoversIn(size', Append(unprocessedTasks, m))
  BY <1>1, SizeNeverGrows, QueueKept
<1>4. /\ CoversIn(size', pendingSchedules)
      /\ pendingSchedules # <<>> => /\ CoversIn(size', Tail(pendingSchedules))
                                    /\ Covers(size, Head(pendingSchedules))
      /\ \A m \in ScheduleOf : After(m) => CoversIn(size', Append(pendingSchedules, m))
  BY <1>1, SizeNeverGrows, QueueKept
<1>5. /\ tracker # Idle => tracker.job \in Request /\ After(tracker.job)
      /\ expire.pc = "request" => expire.job \in Request /\ After(expire.job)
      /\ scheduler # Idle => scheduler.job \in ScheduleOf /\ After(scheduler.job)
      /\ coordinator.pc \in {"ask", "retry"} =>
            coordinator.job \in ScheduleOf /\ After(coordinator.job)
      /\ Idle.pc = "idle"
  BY <1>2, InHandType DEF RequestsCover
<1> HIDE DEF After
<1> USE DEF oracleVars, trackerVars, schedVars, coordVars
<1>6. CASE OracleStep
  BY <1>3, <1>4, <1>5, <1>6
  DEF OracleStep, TakeInitTask, SendInitTask, SetTask, StoreSchedule, RequestsCover, After
<1>7. CASE TrackerStep
  <2>1. CASE TakeInit
    <3>1. Head(initTasks) \in Task
      BY <2>1 DEF TypeOK, ChannelType, InRoom, TakeInit
    <3>2. /\ NextRequest(Head(initTasks)) \in Request
          /\ Covers(size, NextRequest(Head(initTasks)))
      BY <3>1, RequestType, NextCovers DEF TypeOK
    <3> QED BY <1>2, <1>3, <1>4, <1>5, <2>1, <3>2 DEF TakeInit, RequestsCover, After, Busy
  <2>2. CASE SendInitRequest
    BY <1>3, <1>4, <1>5, <2>2 DEF SendInitRequest, RequestsCover, After
  <2>3. CASE TakeScheduled
    BY <1>3, <1>4, <1>5, <2>3 DEF TakeScheduled, RequestsCover, After
  <2> QED BY <1>7, <2>1, <2>2, <2>3 DEF TrackerStep
<1>8. CASE CollectExpireStep
  <2>1. ASSUME NEW t \in Task, ExpireTask(t) PROVE RequestsCover'
    BY <1>3, <1>4, <1>5, <2>1 DEF ExpireTask, RequestsCover, After, Busy
  <2>2. CASE NextExpired
    <3>1. expire.job \in Task
      BY <2>2, InHandType DEF NextExpired
    <3>2. NextRequest(expire.job) \in Request /\ Covers(size, NextRequest(expire.job))
      BY <3>1, RequestType, NextCovers DEF TypeOK
    <3> QED BY <1>2, <1>3, <1>4, <1>5, <2>2, <3>2 DEF NextExpired, RequestsCover, After, Busy
  <2>3. CASE SendExpiredRequest
    BY <1>3, <1>4, <1>5, <2>3 DEF SendExpiredRequest, RequestsCover, After
  <2> QED BY <1>8, <2>1, <2>2, <2>3 DEF CollectExpireStep
<1>9. CASE SchedulerStep
  <2>1. CASE Schedule
    <3> DEFINE request == Head(unprocessedTasks)
    <3>1. request \in Request /\ Covers(size, request)
      BY <1>1, <1>3, <2>1 DEF Schedule
    <3>2. MakeSchedule(request) \in ScheduleOf /\ Covers(size, MakeSchedule(request))
      BY <3>1, ScheduleType DEF TypeOK, Covers
    <3>3. After(MakeSchedule(request))
      BY <1>2, <3>2 DEF After
    <3> QED BY <1>3, <1>4, <1>5, <2>1, <3>3 DEF Schedule, RequestsCover, After, Busy
  <2>2. CASE SendSchedule
    BY <1>3, <1>4, <1>5, <2>2 DEF SendSchedule, RequestsCover, After
  <2> QED BY <1>9, <2>1, <2>2 DEF SchedulerStep
<1>10. CASE CoordinatorStep
  <2>1. CASE OfferSlots
    <3>1. Head(pendingSchedules) \in ScheduleOf /\ Covers(size, Head(pendingSchedules))
      BY <1>1, <1>4, <2>1 DEF OfferSlots
    <3>2. After(Head(pendingSchedules))
      BY <1>2, <3>1 DEF After
    <3> QED BY <1>3, <1>4, <1>5, <2>1, <3>2 DEF OfferSlots, RequestsCover, After, Busy
  <2>2. CASE CountAnswers
    BY <1>3, <1>4, <1>5, <2>2 DEF CountAnswers, Conclude, RequestsCover, After, Busy
  <2>3. CASE SendRetry
    <3>1. RetryRequest(coordinator.job) \in Request /\ After(RetryRequest(coordinator.job))
      BY <1>5, <2>3, RetryType DEF SendRetry, RetryRequest, After, Covers
    <3> QED BY <1>3, <1>4, <1>5, <2>3, <3>1 DEF SendRetry, Return, RequestsCover, After
  <2>4. CASE SendScheduled
    BY <1>3, <1>4, <1>5, <2>4 DEF SendScheduled, RequestsCover, After, Busy
  <2>5. CASE SendOracleSchedule
    BY <1>3, <1>4, <1>5, <2>5 DEF SendOracleSchedule, Return, RequestsCover, After
  <2> QED BY <1>10, <2>1, <2>2, <2>3, <2>4, <2>5 DEF CoordinatorStep
<1>11. CASE CallEnds
  BY <1>3, <1>4, <1>5, <1>11 DEF CallEnds, NodeAccepts, NodeRejects, CallFails,
     NoConnection, AskUnchanged, RequestsCover, After
<1>12. CASE EpochManagerStep
  BY <1>3, <1>4, <1>5, <1>12 DEF EpochManagerStep, Credit, RequestsCover, After
<1>13. CASE TaskMapFault
  BY <1>3, <1>4, <1>5, <1>13 DEF TaskMapFault, RequestsCover, After
<1>14. CASE UNCHANGED vars
  BY <1>3, <1>4, <1>5, <1>14 DEF vars, RequestsCover, After
<1> QED BY <1>6, <1>7, <1>8, <1>9, <1>10, <1>11, <1>12, <1>13, <1>14 DEF Next

\* What the Scheduler is asked for, and what it offers to the nodes, is never less than
\* what the task still lacks, although slots of the task are credited while the
\* request is on its way and a timer makes its request in two steps.
THEOREM RequestsAlwaysCover == Spec => []RequestsCoverLack
<1>1. Init => RequestsCover
  BY DEF Init, AtRest, RequestsCover, CoversIn, Idle
<1>2. TypeOK /\ RequestsCover /\ [Next]_vars => RequestsCover'
  BY CoverStep
<1>3. TypeOK => (RequestsCoverLack <=> RequestsCover)
  BY CoverParts
<1> QED BY <1>1, <1>2, <1>3, SchedulingTypeCorrect, PTL DEF Spec

-----------------------------------------------------------------------------
(* What is reported as not scheduled.                                        *)

RejectedSlots == {SlotOf(coordinator.job, n) : n \in Rejected}

\* Between two schedules nothing is noted down; while the nodes are asked, only slots of
\* nodes without connection are.
Reported ==
    /\ coordinator = Idle => replies = NoReplies /\ unscheduled = {}
    /\ coordinator.pc = "ask" => unscheduled \subseteq RejectedSlots
    /\ ExactlyRejectedSlotsAreReported

\* Only the Coordinator and the ends of its calls touch what it notes down.
LEMMA OthersLeaveCoordinator ==
    ASSUME [Next]_vars, ~CoordinatorStep, ~CallEnds
    PROVE  UNCHANGED coordVars
  BY DEF Next, vars, OracleStep, TakeInitTask, SendInitTask, SetTask, StoreSchedule,
     TrackerStep, TakeInit, SendInitRequest, TakeScheduled, CollectExpireStep,
     ExpireTask, NextExpired, SendExpiredRequest, SchedulerStep, Schedule, SendSchedule,
     EpochManagerStep, Credit, TaskMapFault, coordVars

\* Every step keeps the failed slots reported.
LEMMA ReportStep == TypeOK /\ Reported /\ [Next]_vars => Reported'
<1> SUFFICES ASSUME TypeOK, Reported, [Next]_vars PROVE Reported'
  OBVIOUS
<1> USE DEF coordVars
<1>1. CASE UNCHANGED coordVars
  BY <1>1 DEF Reported, RejectedSlots, Rejected, ExactlyRejectedSlotsAreReported
<1>2. CASE OfferSlots
  BY <1>2 DEF OfferSlots, Reported, RejectedSlots, Rejected,
     ExactlyRejectedSlotsAreReported, Busy, Idle
<1>3. CASE CountAnswers
  <2>1. /\ coordinator.pc = "ask" /\ coordinator'.job = coordinator.job
        /\ coordinator' # Idle /\ coordinator'.pc # "ask" /\ replies' = replies
        /\ unscheduled' = unscheduled \cup RejectedSlots
    BY <1>3 DEF CountAnswers, Conclude, ReportRejected, RejectedSlots, Busy, Idle
  <2>2. RejectedSlots' = RejectedSlots
    BY <2>1 DEF RejectedSlots, Rejected
  <2> QED BY <2>1, <2>2 DEF Reported, RejectedSlots, ExactlyRejectedSlotsAreReported
<1>4. CASE SendRetry \/ SendOracleSchedule
  BY <1>4 DEF SendRetry, SendOracleSchedule, Return, Reported,
     ExactlyRejectedSlotsAreReported, Idle
<1>5. CASE SendScheduled
  <2>1. /\ coordinator.pc = "scheduled" /\ coordinator'.job = coordinator.job
        /\ coordinator' # Idle /\ coordinator'.pc = "oracle"
        /\ replies' = replies /\ unscheduled' = unscheduled
    BY <1>5 DEF SendScheduled, Busy, Idle
  <2> QED BY <2>1 DEF Reported, RejectedSlots, Rejected, ExactlyRejectedSlotsAreReported
<1>6. ASSUME NEW n \in Node,
             NodeAccepts(n) \/ NodeRejects(n) \/ CallFails(n) \/ NoConnection(n)
      PROVE  Reported'
  <2>1. /\ coordinator.pc = "ask" /\ coordinator' = coordinator /\ coordinator # Idle
        /\ replies[n] = "none"
        /\ \E reply \in {"accept", "reject"} :
              /\ replies' = [replies EXCEPT ![n] = reply]
              /\ \/ unscheduled' = unscheduled
                 \/ /\ reply = "reject"
                    /\ unscheduled' = unscheduled \cup {SlotOf(coordinator.job, n)}
    BY <1>6 DEF NodeAccepts, NodeRejects, CallFails, NoConnection, Asked, Answer,
       AskUnchanged, Idle
  <2>2. Rejected \subseteq Rejected' /\ (replies'[n] = "reject" => n \in Rejected')
    BY <2>1 DEF TypeOK, RecordType, Rejected
  <2>3. unscheduled' \subseteq RejectedSlots'
    BY <2>1, <2>2 DEF TypeOK, RecordType, Reported, RejectedSlots
  <2> QED BY <2>1, <2>3 DEF Reported, ExactlyRejectedSlotsAreReported
<1> QED BY <1>1, <1>2, <1>3, <1>4, <1>5, <1>6, OthersLeaveCoordinator
    DEF CoordinatorStep, CallEnds

\* Whatever mixture of refusals, failures and missing connections a schedule meets, the
\* EpochManager is told of exactly the slots that no node accepted.
THEOREM RejectedAreReported == Spec => []ExactlyRejectedSlotsAreReported
<1>1. Init => Reported
  BY DEF Init, AtRest, Reported, ExactlyRejectedSlotsAreReported, Idle
<1>2. TypeOK /\ Reported /\ [Next]_vars => Reported'
  BY ReportStep
<1>3. Reported => ExactlyRejectedSlotsAreReported
  BY DEF Reported
<1> QED BY <1>1, <1>2, <1>3, SchedulingTypeCorrect, PTL DEF Spec

-----------------------------------------------------------------------------
(* The Oracle knows the tasks whose schedules it stores.                     *)

\* Between SendInitTask and SetTask a task has reached the Tracker and not the database.
Announced == known \cup (IF oracle.pc = "setTask" THEN {oracle.job} ELSE {})

AllOf(queue, S) == \A k \in 1 .. Len(queue) : queue[k].task \in S

OnlyAnnounced ==
    /\ \A k \in 1 .. Len(initTasks) : initTasks[k] \in Announced
    /\ AllOf(unprocessedTasks, Announced) /\ AllOf(pendingSchedules, Announced)
    /\ AllOf(scheduledTasks, Announced) /\ AllOf(oracleSchedules, Announced)
    /\ timers \subseteq Announced
    /\ tracker # Idle => tracker.job.task \in Announced
    /\ expire.pc = "next" => expire.job \in Announced
    /\ expire.pc = "request" => expire.job.task \in Announced
    /\ scheduler # Idle => scheduler.job.task \in Announced
    /\ coordinator # Idle => coordinator.job.task \in Announced

\* What holds of all messages of a channel holds after one comes or goes.
LEMMA AllOfFacts ==
    ASSUME NEW S, NEW q \in Seq(S), NEW A, NEW B, A \subseteq B, AllOf(q, A)
    PROVE  /\ AllOf(q, B)
           /\ q # <<>> => AllOf(Tail(q), B) /\ Head(q).task \in A
           /\ \A m \in S : m.task \in B => AllOf(Append(q, m), B)
<1>1. q # <<>> => \A k \in 1 .. Len(Tail(q)) : Tail(q)[k] = q[k + 1] /\ k + 1 \in 1 .. Len(q)
  OBVIOUS
<1>2. q # <<>> => Head(q) = q[1] /\ 1 \in 1 .. Len(q)
  OBVIOUS
<1>3. ASSUME NEW m \in S, m.task \in B PROVE AllOf(Append(q, m), B)
  <2>1. ASSUME NEW k \in 1 .. Len(Append(q, m)) PROVE Append(q, m)[k].task \in B
    <3>1. \/ k \in 1 .. Len(q) /\ Append(q, m)[k] = q[k]
          \/ Append(q, m)[k] = m
      OBVIOUS
    <3> QED BY <1>3, <3>1 DEF AllOf
  <2> QED BY <2>1 DEF AllOf
<1> QED BY <1>1, <1>2, <1>3 DEF AllOf

KnownInv == OnlyAnnounced /\ SchedulesOfKnownTasks

\* A task that was announced stays so.
LEMMA AnnouncedGrows ==
    ASSUME TypeOK, [Next]_vars
    PROVE  /\ Announced \subseteq Announced' /\ known \subseteq known'
           /\ ~OracleStep => Announced' = Announced
<1> USE DEF Announced
<1>1. CASE ~OracleStep
  <2>1. UNCHANGED <<oracle, known>>
    BY <1>1 DEF Next, vars, oracleVars, TrackerStep, TakeInit, SendInitRequest,
       TakeScheduled, CollectExpireStep, ExpireTask, NextExpired, SendExpiredRequest,
       SchedulerStep, Schedule, SendSchedule, CoordinatorStep, OfferSlots, CountAnswers,
       SendRetry, SendScheduled, SendOracleSchedule, CallEnds, NodeAccepts, NodeRejects,
       CallFails, NoConnection, AskUnchanged, EpochManagerStep, Credit, TaskMapFault
  <2> QED BY <2>1
<1>2. CASE OracleStep
  BY <1>2 DEF OracleStep, TakeInitTask, SendInitTask, SetTask, StoreSchedule, Busy, Idle
<1> QED BY <1>1, <1>2

\* The invariant step by step: what is handed on was announced before.
LEMMA KnownStep == TypeOK /\ KnownInv /\ [Next]_vars => KnownInv'
<1> SUFFICES ASSUME TypeOK, KnownInv, [Next]_vars PROVE KnownInv'
  OBVIOUS
<1> DEFINE B == Announced'
<1>0. /\ Announced \subseteq B /\ known \subseteq known'
      /\ ~OracleStep => B = Announced
  BY AnnouncedGrows
<1>1. /\ unprocessedTasks \in Seq(Request) /\ pendingSchedules \in Seq(ScheduleOf)
      /\ scheduledTasks \in Seq(ScheduleOf) /\ oracleSchedules \in Seq(ScheduleOf)
  BY DEF TypeOK, ChannelType, InRoom
<1>2. /\ AllOf(unprocessedTasks, B)
      /\ unprocessedTasks # <<>> =>
            AllOf(Tail(unprocessedTasks), B) /\ Head(unprocessedTasks).task \in B
      /\ \A m \in Request : m.task \in B => AllOf(Append(unprocessedTasks, m), B)
  BY <1>0, <1>1, AllOfFacts DEF KnownInv, OnlyAnnounced
<1>3. /\ AllOf(pendingSchedules, B)
      /\ pendingSchedules # <<>> =>
            AllOf(Tail(pendingSchedules), B) /\ Head(pendingSchedules).task \in B
      /\ \A m \in ScheduleOf : m.task \in B => AllOf(Append(pendingSchedules, m), B)
  BY <1>0, <1>1, AllOfFacts DEF KnownInv, OnlyAnnounced
<1>4. /\ AllOf(scheduledTasks, B)
      /\ scheduledTasks # <<>> =>
            AllOf(Tail(scheduledTasks), B) /\ Head(scheduledTasks).task \in B
      /\ \A m \in ScheduleOf : m.task \in B => AllOf(Append(scheduledTasks, m), B)
  BY <1>0, <1>1, AllOfFacts DEF KnownInv, OnlyAnnounced
<1>5. /\ AllOf(oracleSchedules, B)
      /\ oracleSchedules # <<>> =>
            AllOf(Tail(oracleSchedules), B) /\ Head(oracleSchedules).task \in Announced
      /\ \A m \in ScheduleOf : m.task \in B => AllOf(Append(oracleSchedules, m), B)
  BY <1>0, <1>1, AllOfFacts DEF KnownInv, OnlyAnnounced
<1>6. /\ initTasks \in Seq(Task)
      /\ \A k \in 1 .. Len(initTasks) : initTasks[k] \in B
      /\ timers \subseteq B
      /\ tracker # Idle => tracker.job \in Request /\ tracker.job.task \in B
      /\ expire.pc = "next" => expire.job \in B
      /\ expire.pc = "request" => expire.job \in Request /\ expire.job.task \in B
      /\ scheduler # Idle => scheduler.job \in ScheduleOf /\ scheduler.job.task \in B
      /\ coordinator # Idle => coordinator.job \in ScheduleOf /\ coordinator.job.task \in B
      /\ Idle.pc = "idle"
  BY <1>0, InHandType DEF KnownInv, OnlyAnnounced, TypeOK, ChannelType, InRoom
<1>7. \A t \in Task : stored[t] # <<>> => t \in known'
  BY <1>0 DEF KnownInv, SchedulesOfKnownTasks
<1> USE <1>7 DEF KnownInv, OnlyAnnounced, SchedulesOfKnownTasks, B,
               oracleVars, trackerVars, schedVars, coordVars
<1>8. CASE OracleStep
  <2>1. CASE TakeInitTask
    BY <1>2, <1>3, <1>4, <1>5, <1>6, <2>1 DEF TakeInitTask
  <2>2. CASE SendInitTask
    <3>1. oracle.job \in Task /\ oracle.job \in B
      BY <2>2, InHandType DEF SendInitTask, Announced, Busy
    <3>2. \A k \in 1 .. Len(initTasks') : initTasks'[k] \in B
      BY <1>6, <2>2, <3>1 DEF SendInitTask
    <3> QED BY <1>2, <1>3, <1>4, <1>5, <1>6, <2>2, <3>2 DEF SendInitTask
  <2>3. CASE SetTask
    BY <1>2, <1>3, <1>4, <1>5, <1>6, <2>3 DEF SetTask
  <2>4. CASE StoreSchedule
    <3> DEFINE m == Head(oracleSchedules)
    <3>1. /\ oracleSchedules # <<>> /\ oracle = Idle /\ known' = known
          /\ stored' = [stored EXCEPT ![m.task] = Append(@, m.id)]
      BY <2>4 DEF StoreSchedule
    <3>2. m.task \in known
      BY <1>5, <1>6, <3>1 DEF Announced
    <3>3. \A t \in Task : stored'[t] # <<>> => t \in known'
      BY <3>1, <3>2 DEF TypeOK, RecordType
    <3> QED BY <1>2, <1>3, <1>4, <1>5, <1>6, <2>4, <3>3 DEF StoreSchedule
  <2> QED BY <1>8, <2>1, <2>2, <2>3, <2>4 DEF OracleStep
<1>9. CASE TrackerStep
  <2>1. CASE TakeInit
    <3>1. Head(initTasks) = initTasks[1] /\ 1 \in 1 .. Len(initTasks)
      BY <1>6, <2>1 DEF TakeInit
    <3>2. NextRequest(Head(initTasks)).task \in B
      BY <1>6, <3>1 DEF NextRequest
    <3>3. \A k \in 1 .. Len(initTasks') : initTasks'[k] \in B
      BY <1>6, <2>1 DEF TakeInit
    <3> QED BY <1>2, <1>3, <1>4, <1>5, <1>6, <2>1, <3>2, <3>3 DEF TakeInit, Busy
  <2>2. CASE SendInitRequest
    <3>1. tracker # Idle
      BY <1>6, <2>2 DEF SendInitRequest
    <3> QED BY <1>2, <1>3, <1>4, <1>5, <1>6, <2>2, <3>1 DEF SendInitRequest
  <2>3. CASE TakeScheduled
    BY <1>2, <1>3, <1>4, <1>5, <1>6, <2>3 DEF TakeScheduled
  <2> QED BY <1>9, <2>1, <2>2, <2>3 DEF TrackerStep
<1>10. CASE CollectExpireStep
  <2>1. ASSUME NEW t \in Task, ExpireTask(t) PROVE KnownInv'
    BY <1>2, <1>3, <1>4, <1>5, <1>6, <2>1 DEF ExpireTask, Busy
  <2>2. CASE NextExpired
    BY <1>2, <1>3, <1>4, <1>5, <1>6, <2>2 DEF NextExpired, NextRequest, Busy
  <2>3. CASE SendExpiredRequest
    BY <1>2, <1>3, <1>4, <1>5, <1>6, <2>3 DEF SendExpiredRequest
  <2> QED BY <1>10, <2>1, <2>2, <2>3 DEF CollectExpireStep
<1>11. CASE SchedulerStep
  <2>1. CASE Schedule
    BY <1>2, <1>3, <1>4, <1>5, <1>6, <2>1 DEF Schedule, MakeSchedule, Busy
  <2>2. CASE SendSchedule
    <3>1. scheduler # Idle
      BY <1>6, <2>2 DEF SendSchedule
    <3> QED BY <1>2, <1>3, <1>4, <1>5, <1>6, <2>2, <3>1 DEF SendSchedule
  <2> QED BY <1>11, <2>1, <2>2 DEF SchedulerStep
<1>12. CASE CoordinatorStep
  <2>1. CASE OfferSlots
    BY <1>2, <1>3, <1>4, <1>5, <1>6, <2>1 DEF OfferSlots, Busy
  <2>2. CASE CountAnswers
    <3>1. coordinator # Idle /\ coordinator'.job = coordinator.job
      BY <1>6, <2>2 DEF CountAnswers, Conclude, Busy
    <3> QED BY <1>2, <1>3, <1>4, <1>5, <1>6, <2>2, <3>1 DEF CountAnswers
  <2>3. CASE SendRetry
    <3>1. /\ RetryRequest(coordinator.job) \in Request
          /\ RetryRequest(coordinator.job).task \in B
      BY <1>6, <2>3, RetryType DEF SendRetry, RetryRequest
    <3> QED BY <1>2, <1>3, <1>4, <1>5, <1>6, <2>3, <3>1 DEF SendRetry, Return
  <2>4. CASE SendScheduled
    <3>1. coordinator # Idle /\ coordinator'.job = coordinator.job
      BY <1>6, <2>4 DEF SendScheduled, Busy
    <3> QED BY <1>2, <1>3, <1>4, <1>5, <1>6, <2>4, <3>1 DEF SendScheduled
  <2>5. CASE SendOracleSchedule
    <3>1. coordinator # Idle
      BY <1>6, <2>5 DEF SendOracleSchedule
    <3> QED BY <1>2, <1>3, <1>4, <1>5, <1>6, <2>5, <3>1 DEF SendOracleSchedule, Return
  <2> QED BY <1>12, <2>1, <2>2, <2>3, <2>4, <2>5 DEF CoordinatorStep
<1>13. CASE CallEnds
  BY <1>2, <1>3, <1>4, <1>5, <1>6, <1>13
  DEF CallEnds, NodeAccepts, NodeRejects, CallFails, NoConnection, AskUnchanged
<1>14. CASE EpochManagerStep
  BY <1>2, <1>3, <1>4, <1>5, <1>6, <1>14 DEF EpochManagerStep, Credit
<1>15. CASE TaskMapFault
  BY <1>2, <1>3, <1>4, <1>5, <1>6, <1>15 DEF TaskMapFault
<1>16. CASE UNCHANGED vars
  BY <1>2, <1>3, <1>4, <1>5, <1>6, <1>16 DEF vars
<1> QED
  BY <1>8, <1>9, <1>10, <1>11, <1>12, <1>13, <1>14, <1>15, <1>16 DEF Next

\* The Oracle never stores a schedule of a task it has not stored, although it hands a
\* task to the Tracker first: the schedule waits in a channel of the same goroutine.
THEOREM SchedulesAreOfKnownTasks == Spec => []SchedulesOfKnownTasks
<1>1. Init => KnownInv
  BY DEF Init, AtRest, KnownInv, OnlyAnnounced, SchedulesOfKnownTasks, AllOf, Idle
<1>2. TypeOK /\ KnownInv /\ [Next]_vars => KnownInv'
  BY KnownStep
<1>3. KnownInv => SchedulesOfKnownTasks
  BY DEF KnownInv
<1> QED BY <1>1, <1>2, <1>3, SchedulingTypeCorrect, PTL DEF Spec

-----------------------------------------------------------------------------
(* A task is in one place.                                                   *)

SignsOf(q) == {q[k] : k \in 1 .. Len(q)}
TasksOf(q) == {q[k].task : k \in 1 .. Len(q)}
SignsDiffer(q) == \A j, k \in 1 .. Len(q) : q[j] = q[k] => j = k
TasksDiffer(q) == \A j, k \in 1 .. Len(q) : q[j].task = q[k].task => j = k

\* A task is taken from a channel that holds each task once,
LEMMA SignTaken ==
    ASSUME NEW q \in Seq(Task), q # <<>>, SignsDiffer(q)
    PROVE  /\ Head(q) \in Task /\ Head(q) \in SignsOf(q)
           /\ SignsOf(Tail(q)) = SignsOf(q) \ {Head(q)} /\ SignsDiffer(Tail(q))
<1>1. /\ Len(q) \in Nat \ {0} /\ Len(Tail(q)) = Len(q) - 1 /\ Head(q) = q[1]
      /\ Head(q) \in Task /\ \A k \in 1 .. Len(q) - 1 : Tail(q)[k] = q[k + 1]
  OBVIOUS
<1>2. ASSUME NEW x \in SignsOf(Tail(q)) PROVE x \in SignsOf(q) /\ x # Head(q)
  <2>1. PICK k \in 1 .. Len(q) - 1 : x = Tail(q)[k]
    BY <1>1, <1>2 DEF SignsOf
  <2>2. k + 1 \in 1 .. Len(q) /\ x = q[k + 1] /\ 1 \in 1 .. Len(q) /\ k + 1 # 1
    BY <1>1, <2>1
  <2> QED BY <1>1, <2>2 DEF SignsOf, SignsDiffer
<1>3. ASSUME NEW x \in SignsOf(q), x # Head(q) PROVE x \in SignsOf(Tail(q))
  <2>1. PICK k \in 1 .. Len(q) : x = q[k]
    BY <1>3 DEF SignsOf
  <2>2. k - 1 \in 1 .. Len(q) - 1 /\ Tail(q)[k - 1] = q[k]
    BY <1>1, <1>3, <2>1
  <2> QED BY <1>1, <2>1, <2>2 DEF SignsOf
<1>4. Head(q) \in SignsOf(q) /\ SignsDiffer(Tail(q))
  BY <1>1 DEF SignsOf, SignsDiffer
<1> QED BY <1>1, <1>2, <1>3, <1>4

\* or put into one that does not hold it.
LEMMA SignSent ==
    ASSUME NEW q \in Seq(Task), NEW t \in Task, t \notin SignsOf(q), SignsDiffer(q)
    PROVE  SignsOf(Append(q, t)) = SignsOf(q) \cup {t} /\ SignsDiffer(Append(q, t))
<1>1. /\ Len(Append(q, t)) = Len(q) + 1 /\ Len(q) \in Nat
      /\ \A k \in 1 .. Len(q) : Append(q, t)[k] = q[k]
      /\ Append(q, t)[Len(q) + 1] = t
  OBVIOUS
<1>2. 1 .. Len(q) + 1 = 1 .. Len(q) \cup {Len(q) + 1}
  BY <1>1
<1>3. SignsOf(Append(q, t)) = SignsOf(q) \cup {t}
  BY <1>1, <1>2 DEF SignsOf
<1>4. SignsDiffer(Append(q, t))
  BY <1>1, <1>2 DEF SignsOf, SignsDiffer
<1> QED BY <1>3, <1>4

\* The same for a channel of requests or schedules that is read,
LEMMA TaskTaken ==
    ASSUME NEW S, NEW q \in Seq(S), q # <<>>, TasksDiffer(q)
    PROVE  /\ Head(q) \in S /\ Head(q).task \in TasksOf(q)
           /\ TasksOf(Tail(q)) = TasksOf(q) \ {Head(q).task} /\ TasksDiffer(Tail(q))
<1>1. /\ Len(q) \in Nat \ {0} /\ Len(Tail(q)) = Len(q) - 1 /\ Head(q) = q[1]
      /\ Head(q) \in S /\ \A k \in 1 .. Len(q) - 1 : Tail(q)[k] = q[k + 1]
  OBVIOUS
<1>2. ASSUME NEW x \in TasksOf(Tail(q)) PROVE x \in TasksOf(q) /\ x # Head(q).task
  <2>1. PICK k \in 1 .. Len(q) - 1 : x = Tail(q)[k].task
    BY <1>1, <1>2 DEF TasksOf
  <2>2. k + 1 \in 1 .. Len(q) /\ x = q[k + 1].task /\ 1 \in 1 .. Len(q) /\ k + 1 # 1
    BY <1>1, <2>1
  <2> QED BY <1>1, <2>2 DEF TasksOf, TasksDiffer
<1>3. ASSUME NEW x \in TasksOf(q), x # Head(q).task PROVE x \in TasksOf(Tail(q))
  <2>1. PICK k \in 1 .. Len(q) : x = q[k].task
    BY <1>3 DEF TasksOf
  <2>2. k - 1 \in 1 .. Len(q) - 1 /\ Tail(q)[k - 1] = q[k]
    BY <1>1, <1>3, <2>1
  <2> QED BY <1>1, <2>1, <2>2 DEF TasksOf
<1>4. Head(q).task \in TasksOf(q) /\ TasksDiffer(Tail(q))
  BY <1>1 DEF TasksOf, TasksDiffer
<1> QED BY <1>1, <1>2, <1>3, <1>4

\* and written.
LEMMA TaskSent ==
    ASSUME NEW S, NEW q \in Seq(S), NEW m \in S, m.task \notin TasksOf(q), TasksDiffer(q)
    PROVE  TasksOf(Append(q, m)) = TasksOf(q) \cup {m.task} /\ TasksDiffer(Append(q, m))
<1>1. /\ Len(Append(q, m)) = Len(q) + 1 /\ Len(q) \in Nat
      /\ \A k \in 1 .. Len(q) : Append(q, m)[k] = q[k]
      /\ Append(q, m)[Len(q) + 1] = m
  OBVIOUS
<1>2. 1 .. Len(q) + 1 = 1 .. Len(q) \cup {Len(q) + 1}
  BY <1>1
<1>3. TasksOf(Append(q, m)) = TasksOf(q) \cup {m.task}
  BY <1>1, <1>2 DEF TasksOf
<1>4. TasksDiffer(Append(q, m))
  BY <1>1, <1>2 DEF TasksOf, TasksDiffer
<1> QED BY <1>3, <1>4

\* The channels, the goroutines' hands (CollectExpire has two) and the end of a task.
Place == {"upchained", "oracle", "initTasks", "tracker", "unprocessedTasks", "scheduler",
          "pendingSchedules", "coordinator", "scheduledTasks", "timers", "check",
          "expire", "retired"}

OracleHand == IF oracle.pc = "initTask" THEN {oracle.job} ELSE {}
TrackerHand == IF tracker.pc = "request" THEN {tracker.job.task} ELSE {}
CheckHand == IF expire.pc = "next" THEN {expire.job} ELSE {}
ExpireHand == IF expire.pc = "request" THEN {expire.job.task} ELSE {}
SchedulerHand == IF scheduler.pc = "send" THEN {scheduler.job.task} ELSE {}
CoordinatorHand ==
    IF coordinator.pc \in {"ask", "retry", "scheduled"} THEN {coordinator.job.task} ELSE {}

\* What is in each place is what the function says is there: so no task is in two.
InPlace(where, p) == {t \in Task : where[t] = p}
PlacedBy(where) ==
    /\ SignsOf(upchained) = InPlace(where, "upchained")
    /\ OracleHand = InPlace(where, "oracle")
    /\ SignsOf(initTasks) = InPlace(where, "initTasks")
    /\ TrackerHand = InPlace(where, "tracker")
    /\ TasksOf(unprocessedTasks) = InPlace(where, "unprocessedTasks")
    /\ SchedulerHand = InPlace(where, "scheduler")
    /\ TasksOf(pendingSchedules) = InPlace(where, "pendingSchedules")
    /\ CoordinatorHand = InPlace(where, "coordinator")
    /\ TasksOf(scheduledTasks) = InPlace(where, "scheduledTasks")
    /\ timers = InPlace(where, "timers")
    /\ CheckHand = InPlace(where, "check")
    /\ ExpireHand = InPlace(where, "expire")
    /\ retired = InPlace(where, "retired")

NoRepeats ==
    /\ SignsDiffer(upchained) /\ SignsDiffer(initTasks)
    /\ TasksDiffer(unprocessedTasks) /\ TasksDiffer(pendingSchedules)
    /\ TasksDiffer(scheduledTasks)

PlaceInv ==
    /\ NoRepeats
    /\ \E where \in [Task -> Place] : PlacedBy(where)
    /\ \A t \in retired : size[t] = 0

\* A task that moves leaves one place and enters another.
LEMMA MoveFacts ==
    ASSUME NEW where \in [Task -> Place], NEW t \in Task, NEW a \in Place, NEW b \in Place,
           t \in InPlace(where, a), a # b
    PROVE  \E after \in [Task -> Place] :
               /\ InPlace(after, a) = InPlace(where, a) \ {t}
               /\ InPlace(after, b) = InPlace(where, b) \cup {t}
               /\ t \notin InPlace(where, b)
               /\ \A p \in Place \ {a, b} : InPlace(after, p) = InPlace(where, p)
<1> DEFINE after == [where EXCEPT ![t] = b]
<1>1. after \in [Task -> Place] /\ after[t] = b /\ where[t] = a
      /\ \A u \in Task \ {t} : after[u] = where[u]
  BY DEF InPlace
<1> HIDE DEF after
<1> QED BY <1>1 DEF InPlace

\* The steps that move a task, one by one along its way: from the chain to the Oracle,
LEMMA TakeInitTaskMoves ==
    ASSUME TypeOK, NoRepeats, NEW where \in [Task -> Place], PlacedBy(where), TakeInitTask
    PROVE  NoRepeats' /\ \E after \in [Task -> Place] : PlacedBy(after)'
<1>0. PICK t : t = Head(upchained)
  OBVIOUS
<1>1. /\ t \in Task /\ t \in SignsOf(upchained)
      /\ SignsOf(upchained') = SignsOf(upchained) \ {t} /\ SignsDiffer(upchained')
  BY <1>0, SignTaken DEF TakeInitTask, TypeOK, ChannelType, InRoom, NoRepeats
<1>2. /\ t \in InPlace(where, "upchained") /\ t \in Task
      /\ "upchained" \in Place /\ "oracle" \in Place /\ "upchained" # "oracle"
  BY <1>1 DEF PlacedBy, InPlace, Place
<1>3. PICK after \in [Task -> Place] :
      /\ InPlace(after, "upchained") = InPlace(where, "upchained") \ {t}
      /\ InPlace(after, "oracle") = InPlace(where, "oracle") \cup {t}
      /\ t \notin InPlace(where, "oracle")
      /\ \A p \in Place \ {"upchained", "oracle"} : InPlace(after, p) = InPlace(where, p)
  BY <1>2, MoveFacts
<1>4. OracleHand = {} /\ OracleHand' = {t}
  BY <1>0 DEF TakeInitTask, OracleHand, Busy, Idle
<1>5. PlacedBy(after)'
  BY <1>1, <1>3, <1>4 DEF PlacedBy, Place, TakeInitTask, Busy, Idle, OracleHand, TrackerHand,
     CheckHand, ExpireHand, SchedulerHand, CoordinatorHand,
     oracleVars, trackerVars, schedVars, coordVars
<1>6. NoRepeats'
  BY <1>1, <1>4 DEF NoRepeats, TakeInitTask, oracleVars, trackerVars, schedVars, coordVars
<1> QED BY <1>5, <1>6

\* to the Tracker's channel,
LEMMA SendInitTaskMoves ==
    ASSUME TypeOK, NoRepeats, NEW where \in [Task -> Place], PlacedBy(where), SendInitTask
    PROVE  NoRepeats' /\ \E after \in [Task -> Place] : PlacedBy(after)'
<1>0. PICK t : t = oracle.job
  OBVIOUS
<1>1. OracleHand = {t} /\ OracleHand' = {}
  BY <1>0 DEF SendInitTask, OracleHand, Busy, Idle
<1>2. /\ t \in InPlace(where, "oracle") /\ t \in Task
      /\ "oracle" \in Place /\ "initTasks" \in Place /\ "oracle" # "initTasks"
  BY <1>1 DEF PlacedBy, InPlace, Place
<1>3. PICK after \in [Task -> Place] :
      /\ InPlace(after, "oracle") = InPlace(where, "oracle") \ {t}
      /\ InPlace(after, "initTasks") = InPlace(where, "initTasks") \cup {t}
      /\ t \notin InPlace(where, "initTasks")
      /\ \A p \in Place \ {"oracle", "initTasks"} : InPlace(after, p) = InPlace(where, p)
  BY <1>2, MoveFacts
<1>4. SignsOf(initTasks') = SignsOf(initTasks) \cup {t} /\ SignsDiffer(initTasks')
  BY <1>0, <1>2, <1>3, SignSent DEF SendInitTask, TypeOK, ChannelType, InRoom, NoRepeats, PlacedBy
<1>5. PlacedBy(after)'
  BY <1>1, <1>3, <1>4 DEF PlacedBy, Place, SendInitTask, Busy, Idle, OracleHand, TrackerHand,
     CheckHand, ExpireHand, SchedulerHand, CoordinatorHand,
     oracleVars, trackerVars, schedVars, coordVars
<1>6. NoRepeats'
  BY <1>1, <1>4 DEF NoRepeats, SendInitTask, oracleVars, trackerVars, schedVars, coordVars
<1> QED BY <1>5, <1>6

\* into the Tracker,
LEMMA TakeInitMoves ==
    ASSUME TypeOK, NoRepeats, NEW where \in [Task -> Place], PlacedBy(where), TakeInit
    PROVE  NoRepeats' /\ \E after \in [Task -> Place] : PlacedBy(after)'
<1>0. PICK t : t = Head(initTasks)
  OBVIOUS
<1>1. /\ t \in Task /\ t \in SignsOf(initTasks)
      /\ SignsOf(initTasks') = SignsOf(initTasks) \ {t} /\ SignsDiffer(initTasks')
  BY <1>0, SignTaken DEF TakeInit, TypeOK, ChannelType, InRoom, NoRepeats
<1>2. /\ t \in InPlace(where, "initTasks") /\ t \in Task
      /\ "initTasks" \in Place /\ "tracker" \in Place /\ "initTasks" # "tracker"
  BY <1>1 DEF PlacedBy, InPlace, Place
<1>3. PICK after \in [Task -> Place] :
      /\ InPlace(after, "initTasks") = InPlace(where, "initTasks") \ {t}
      /\ InPlace(after, "tracker") = InPlace(where, "tracker") \cup {t}
      /\ t \notin InPlace(where, "tracker")
      /\ \A p \in Place \ {"initTasks", "tracker"} : InPlace(after, p) = InPlace(where, p)
  BY <1>2, MoveFacts
<1>4. TrackerHand = {} /\ TrackerHand' = {t}
  BY <1>0 DEF TakeInit, TrackerHand, Busy, Idle, NextRequest
<1>5. PlacedBy(after)'
  BY <1>1, <1>3, <1>4 DEF PlacedBy, Place, TakeInit, Busy, Idle, OracleHand, TrackerHand,
     CheckHand, ExpireHand, SchedulerHand, CoordinatorHand,
     oracleVars, trackerVars, schedVars, coordVars
<1>6. NoRepeats'
  BY <1>1, <1>4 DEF NoRepeats, TakeInit, oracleVars, trackerVars, schedVars, coordVars
<1> QED BY <1>5, <1>6

\* as a request to the Scheduler's channel,
LEMMA SendInitRequestMoves ==
    ASSUME TypeOK, NoRepeats, NEW where \in [Task -> Place], PlacedBy(where), SendInitRequest
    PROVE  NoRepeats' /\ \E after \in [Task -> Place] : PlacedBy(after)'
<1>0. PICK t : t = tracker.job.task
  OBVIOUS
<1>1. TrackerHand = {t} /\ TrackerHand' = {}
  BY <1>0 DEF SendInitRequest, TrackerHand, Busy, Idle
<1>2. /\ t \in InPlace(where, "tracker") /\ t \in Task
      /\ "tracker" \in Place /\ "unprocessedTasks" \in Place /\ "tracker" # "unprocessedTasks"
  BY <1>1 DEF PlacedBy, InPlace, Place
<1>3. PICK after \in [Task -> Place] :
      /\ InPlace(after, "tracker") = InPlace(where, "tracker") \ {t}
      /\ InPlace(after, "unprocessedTasks") = InPlace(where, "unprocessedTasks") \cup {t}
      /\ t \notin InPlace(where, "unprocessedTasks")
      /\ \A p \in Place \ {"tracker", "unprocessedTasks"} : InPlace(after, p) = InPlace(where, p)
  BY <1>2, MoveFacts
<1>4. /\ TasksOf(unprocessedTasks') = TasksOf(unprocessedTasks) \cup {t}
      /\ TasksDiffer(unprocessedTasks')
  <2>1. tracker.job \in Request /\ tracker.job.task = t
    BY <1>0, InHandType DEF SendInitRequest, Idle
  <2> QED BY <1>3, <2>1, TaskSent
      DEF SendInitRequest, TypeOK, ChannelType, InRoom, NoRepeats, PlacedBy
<1>5. PlacedBy(after)'
  BY <1>1, <1>3, <1>4 DEF PlacedBy, Place, SendInitRequest, Busy, Idle, OracleHand, TrackerHand,
     CheckHand, ExpireHand, SchedulerHand, CoordinatorHand,
     oracleVars, trackerVars, schedVars, coordVars
<1>6. NoRepeats'
  BY <1>1, <1>4 DEF NoRepeats, SendInitRequest, oracleVars, trackerVars, schedVars, coordVars
<1> QED BY <1>5, <1>6

\* back into the Tracker's timers,
LEMMA TakeScheduledMoves ==
    ASSUME TypeOK, NoRepeats, NEW where \in [Task -> Place], PlacedBy(where), TakeScheduled
    PROVE  NoRepeats' /\ \E after \in [Task -> Place] : PlacedBy(after)'
<1>0. PICK t : t = Head(scheduledTasks).task
  OBVIOUS
<1>1. /\ t \in TasksOf(scheduledTasks)
      /\ TasksOf(scheduledTasks') = TasksOf(scheduledTasks) \ {t} /\ TasksDiffer(scheduledTasks')
  BY <1>0, TaskTaken DEF TakeScheduled, TypeOK, ChannelType, InRoom, NoRepeats
<1>2. /\ t \in InPlace(where, "scheduledTasks") /\ t \in Task
      /\ "scheduledTasks" \in Place /\ "timers" \in Place /\ "scheduledTasks" # "timers"
  BY <1>1 DEF PlacedBy, InPlace, Place
<1>3. PICK after \in [Task -> Place] :
      /\ InPlace(after, "scheduledTasks") = InPlace(where, "scheduledTasks") \ {t}
      /\ InPlace(after, "timers") = InPlace(where, "timers") \cup {t}
      /\ t \notin InPlace(where, "timers")
      /\ \A p \in Place \ {"scheduledTasks", "timers"} : InPlace(after, p) = InPlace(where, p)
  BY <1>2, MoveFacts
<1>4. timers' = timers \cup {t}
  BY <1>0 DEF TakeScheduled
<1>5. PlacedBy(after)'
  BY <1>1, <1>3, <1>4 DEF PlacedBy, Place, TakeScheduled, Busy, Idle, OracleHand, TrackerHand,
     CheckHand, ExpireHand, SchedulerHand, CoordinatorHand,
     oracleVars, trackerVars, schedVars, coordVars
<1>6. NoRepeats'
  BY <1>1, <1>4 DEF NoRepeats, TakeScheduled, oracleVars, trackerVars, schedVars, coordVars
<1> QED BY <1>5, <1>6

\* when its timer has ended and it is not done, into the hand that asks for it again,
LEMMA NextExpiredMoves ==
    ASSUME TypeOK, NoRepeats, NEW where \in [Task -> Place], PlacedBy(where), NextExpired
    PROVE  NoRepeats' /\ \E after \in [Task -> Place] : PlacedBy(after)'
<1>0. PICK t : t = expire.job
  OBVIOUS
<1>1. CheckHand = {t} /\ CheckHand' = {}
  BY <1>0 DEF NextExpired, CheckHand, Busy, Idle, NextRequest
<1>2. /\ t \in InPlace(where, "check") /\ t \in Task
      /\ "check" \in Place /\ "expire" \in Place /\ "check" # "expire"
  BY <1>1 DEF PlacedBy, InPlace, Place
<1>3. PICK after \in [Task -> Place] :
      /\ InPlace(after, "check") = InPlace(where, "check") \ {t}
      /\ InPlace(after, "expire") = InPlace(where, "expire") \cup {t}
      /\ t \notin InPlace(where, "expire")
      /\ \A p \in Place \ {"check", "expire"} : InPlace(after, p) = InPlace(where, p)
  BY <1>2, MoveFacts
<1>4. ExpireHand = {} /\ ExpireHand' = {t}
  BY <1>0 DEF NextExpired, ExpireHand, Busy, Idle, NextRequest
<1>5. PlacedBy(after)'
  BY <1>1, <1>3, <1>4 DEF PlacedBy, Place, NextExpired, Busy, Idle, OracleHand, TrackerHand,
     CheckHand, ExpireHand, SchedulerHand, CoordinatorHand,
     oracleVars, trackerVars, schedVars, coordVars
<1>6. NoRepeats'
  BY <1>1, <1>4 DEF NoRepeats, NextExpired, oracleVars, trackerVars, schedVars, coordVars
<1> QED BY <1>5, <1>6

\* as a new request to the Scheduler's channel,
LEMMA SendExpiredRequestMoves ==
    ASSUME TypeOK, NoRepeats, NEW where \in [Task -> Place], PlacedBy(where), SendExpiredRequest
    PROVE  NoRepeats' /\ \E after \in [Task -> Place] : PlacedBy(after)'
<1>0. PICK t : t = expire.job.task
  OBVIOUS
<1>1. ExpireHand = {t} /\ ExpireHand' = {}
  BY <1>0 DEF SendExpiredRequest, ExpireHand, Busy, Idle
<1>2. /\ t \in InPlace(where, "expire") /\ t \in Task
      /\ "expire" \in Place /\ "unprocessedTasks" \in Place /\ "expire" # "unprocessedTasks"
  BY <1>1 DEF PlacedBy, InPlace, Place
<1>3. PICK after \in [Task -> Place] :
      /\ InPlace(after, "expire") = InPlace(where, "expire") \ {t}
      /\ InPlace(after, "unprocessedTasks") = InPlace(where, "unprocessedTasks") \cup {t}
      /\ t \notin InPlace(where, "unprocessedTasks")
      /\ \A p \in Place \ {"expire", "unprocessedTasks"} : InPlace(after, p) = InPlace(where, p)
  BY <1>2, MoveFacts
<1>4. /\ TasksOf(unprocessedTasks') = TasksOf(unprocessedTasks) \cup {t}
      /\ TasksDiffer(unprocessedTasks')
  <2>1. expire.job \in Request /\ expire.job.task = t
    BY <1>0, InHandType DEF SendExpiredRequest, Idle
  <2> QED BY <1>3, <2>1, TaskSent
      DEF SendExpiredRequest, TypeOK, ChannelType, InRoom, NoRepeats, PlacedBy
<1>5. PlacedBy(after)'
  BY <1>1, <1>3, <1>4 DEF PlacedBy, Place, SendExpiredRequest, Busy, Idle, OracleHand, TrackerHand,
     CheckHand, ExpireHand, SchedulerHand, CoordinatorHand,
     oracleVars, trackerVars, schedVars, coordVars
<1>6. NoRepeats'
  BY <1>1, <1>4 DEF NoRepeats, SendExpiredRequest, oracleVars, trackerVars, schedVars, coordVars
<1> QED BY <1>5, <1>6

\* into the Scheduler,
LEMMA ScheduleMoves ==
    ASSUME TypeOK, NoRepeats, NEW where \in [Task -> Place], PlacedBy(where), Schedule
    PROVE  NoRepeats' /\ \E after \in [Task -> Place] : PlacedBy(after)'
<1>0. PICK t : t = Head(unprocessedTasks).task
  OBVIOUS
<1>1. /\ t \in TasksOf(unprocessedTasks)
      /\ TasksOf(unprocessedTasks') = TasksOf(unprocessedTasks) \ {t} /\ TasksDiffer(unprocessedTasks')
  BY <1>0, TaskTaken DEF Schedule, TypeOK, ChannelType, InRoom, NoRepeats
<1>2. /\ t \in InPlace(where, "unprocessedTasks") /\ t \in Task
      /\ "unprocessedTasks" \in Place /\ "scheduler" \in Place /\ "unprocessedTasks" # "scheduler"
  BY <1>1 DEF PlacedBy, InPlace, Place
<1>3. PICK after \in [Task -> Place] :
      /\ InPlace(after, "unprocessedTasks") = InPlace(where, "unprocessedTasks") \ {t}
      /\ InPlace(after, "scheduler") = InPlace(where, "scheduler") \cup {t}
      /\ t \notin InPlace(where, "scheduler")
      /\ \A p \in Place \ {"unprocessedTasks", "scheduler"} : InPlace(after, p) = InPlace(where, p)
  BY <1>2, MoveFacts
<1>4. SchedulerHand = {} /\ SchedulerHand' = {t}
  BY <1>0 DEF Schedule, SchedulerHand, Busy, Idle, MakeSchedule
<1>5. PlacedBy(after)'
  BY <1>1, <1>3, <1>4 DEF PlacedBy, Place, Schedule, Busy, Idle, OracleHand, TrackerHand,
     CheckHand, ExpireHand, SchedulerHand, CoordinatorHand,
     oracleVars, trackerVars, schedVars, coordVars
<1>6. NoRepeats'
  BY <1>1, <1>4 DEF NoRepeats, Schedule, oracleVars, trackerVars, schedVars, coordVars
<1> QED BY <1>5, <1>6

\* to the Coordinator's channel,
LEMMA SendScheduleMoves ==
    ASSUME TypeOK, NoRepeats, NEW where \in [Task -> Place], PlacedBy(where), SendSchedule
    PROVE  NoRepeats' /\ \E after \in [Task -> Place] : PlacedBy(after)'
<1>0. PICK t : t = scheduler.job.task
  OBVIOUS
<1>1. SchedulerHand = {t} /\ SchedulerHand' = {}
  BY <1>0 DEF SendSchedule, SchedulerHand, Busy, Idle
<1>2. /\ t \in InPlace(where, "scheduler") /\ t \in Task
      /\ "scheduler" \in Place /\ "pendingSchedules" \in Place /\ "scheduler" # "pendingSchedules"
  BY <1>1 DEF PlacedBy, InPlace, Place
<1>3. PICK after \in [Task -> Place] :
      /\ InPlace(after, "scheduler") = InPlace(where, "scheduler") \ {t}
      /\ InPlace(after, "pendingSchedules") = InPlace(where, "pendingSchedules") \cup {t}
      /\ t \notin InPlace(where, "pendingSchedules")
      /\ \A p \in Place \ {"scheduler", "pendingSchedules"} : InPlace(after, p) = InPlace(where, p)
  BY <1>2, MoveFacts
<1>4. /\ TasksOf(pendingSchedules') = TasksOf(pendingSchedules) \cup {t}
      /\ TasksDiffer(pendingSchedules')
  <2>1. scheduler.job \in ScheduleOf /\ scheduler.job.task = t
    BY <1>0, InHandType DEF SendSchedule, Idle
  <2> QED BY <1>3, <2>1, TaskSent
      DEF SendSchedule, TypeOK, ChannelType, InRoom, NoRepeats, PlacedBy
<1>5. PlacedBy(after)'
  BY <1>1, <1>3, <1>4 DEF PlacedBy, Place, SendSchedule, Busy, Idle, OracleHand, TrackerHand,
     CheckHand, ExpireHand, SchedulerHand, CoordinatorHand,
     oracleVars, trackerVars, schedVars, coordVars
<1>6. NoRepeats'
  BY <1>1, <1>4 DEF NoRepeats, SendSchedule, oracleVars, trackerVars, schedVars, coordVars
<1> QED BY <1>5, <1>6

\* into the Coordinator,
LEMMA OfferSlotsMoves ==
    ASSUME TypeOK, NoRepeats, NEW where \in [Task -> Place], PlacedBy(where), OfferSlots
    PROVE  NoRepeats' /\ \E after \in [Task -> Place] : PlacedBy(after)'
<1>0. PICK t : t = Head(pendingSchedules).task
  OBVIOUS
<1>1. /\ t \in TasksOf(pendingSchedules)
      /\ TasksOf(pendingSchedules') = TasksOf(pendingSchedules) \ {t} /\ TasksDiffer(pendingSchedules')
  BY <1>0, TaskTaken DEF OfferSlots, TypeOK, ChannelType, InRoom, NoRepeats
<1>2. /\ t \in InPlace(where, "pendingSchedules") /\ t \in Task
      /\ "pendingSchedules" \in Place /\ "coordinator" \in Place /\ "pendingSchedules" # "coordinator"
  BY <1>1 DEF PlacedBy, InPlace, Place
<1>3. PICK after \in [Task -> Place] :
      /\ InPlace(after, "pendingSchedules") = InPlace(where, "pendingSchedules") \ {t}
      /\ InPlace(after, "coordinator") = InPlace(where, "coordinator") \cup {t}
      /\ t \notin InPlace(where, "coordinator")
      /\ \A p \in Place \ {"pendingSchedules", "coordinator"} : InPlace(after, p) = InPlace(where, p)
  BY <1>2, MoveFacts
<1>4. CoordinatorHand = {} /\ CoordinatorHand' = {t}
  BY <1>0 DEF OfferSlots, CoordinatorHand, Busy, Idle
<1>5. PlacedBy(after)'
  BY <1>1, <1>3, <1>4 DEF PlacedBy, Place, OfferSlots, Busy, Idle, OracleHand, TrackerHand,
     CheckHand, ExpireHand, SchedulerHand, CoordinatorHand,
     oracleVars, trackerVars, schedVars, coordVars
<1>6. NoRepeats'
  BY <1>1, <1>4 DEF NoRepeats, OfferSlots, oracleVars, trackerVars, schedVars, coordVars
<1> QED BY <1>5, <1>6

\* back to the Scheduler's channel,
LEMMA SendRetryMoves ==
    ASSUME TypeOK, NoRepeats, NEW where \in [Task -> Place], PlacedBy(where), SendRetry
    PROVE  NoRepeats' /\ \E after \in [Task -> Place] : PlacedBy(after)'
<1>0. PICK t : t = coordinator.job.task
  OBVIOUS
<1>1. CoordinatorHand = {t} /\ CoordinatorHand' = {}
  BY <1>0 DEF SendRetry, CoordinatorHand, Busy, Idle, RetryRequest, Return
<1>2. /\ t \in InPlace(where, "coordinator") /\ t \in Task
      /\ "coordinator" \in Place /\ "unprocessedTasks" \in Place /\ "coordinator" # "unprocessedTasks"
  BY <1>1 DEF PlacedBy, InPlace, Place
<1>3. PICK after \in [Task -> Place] :
      /\ InPlace(after, "coordinator") = InPlace(where, "coordinator") \ {t}
      /\ InPlace(after, "unprocessedTasks") = InPlace(where, "unprocessedTasks") \cup {t}
      /\ t \notin InPlace(where, "unprocessedTasks")
      /\ \A p \in Place \ {"coordinator", "unprocessedTasks"} : InPlace(after, p) = InPlace(where, p)
  BY <1>2, MoveFacts
<1>4. /\ TasksOf(unprocessedTasks') = TasksOf(unprocessedTasks) \cup {t}
      /\ TasksDiffer(unprocessedTasks')
  <2>1. RetryRequest(coordinator.job) \in Request /\ RetryRequest(coordinator.job).task = t
    BY <1>0, InHandType, RetryType DEF SendRetry, RetryRequest, Idle
  <2> QED BY <1>3, <2>1, TaskSent
      DEF SendRetry, TypeOK, ChannelType, InRoom, NoRepeats, PlacedBy
<1>5. PlacedBy(after)'
  BY <1>1, <1>3, <1>4 DEF PlacedBy, Place, SendRetry, Busy, Idle, OracleHand, TrackerHand,
     CheckHand, ExpireHand, SchedulerHand, CoordinatorHand,
     oracleVars, trackerVars, schedVars, coordVars, RetryRequest, Return
<1>6. NoRepeats'
  BY <1>1, <1>4 DEF NoRepeats, SendRetry, oracleVars, trackerVars, schedVars, coordVars
<1> QED BY <1>5, <1>6

\* to the Tracker's channel,
LEMMA SendScheduledMoves ==
    ASSUME TypeOK, NoRepeats, NEW where \in [Task -> Place], PlacedBy(where), SendScheduled
    PROVE  NoRepeats' /\ \E after \in [Task -> Place] : PlacedBy(after)'
<1>0. PICK t : t = coordinator.job.task
  OBVIOUS
<1>1. CoordinatorHand = {t} /\ CoordinatorHand' = {}
  BY <1>0 DEF SendScheduled, CoordinatorHand, Busy, Idle
<1>2. /\ t \in InPlace(where, "coordinator") /\ t \in Task
      /\ "coordinator" \in Place /\ "scheduledTasks" \in Place /\ "coordinator" # "scheduledTasks"
  BY <1>1 DEF PlacedBy, InPlace, Place
<1>3. PICK after \in [Task -> Place] :
      /\ InPlace(after, "coordinator") = InPlace(where, "coordinator") \ {t}
      /\ InPlace(after, "scheduledTasks") = InPlace(where, "scheduledTasks") \cup {t}
      /\ t \notin InPlace(where, "scheduledTasks")
      /\ \A p \in Place \ {"coordinator", "scheduledTasks"} : InPlace(after, p) = InPlace(where, p)
  BY <1>2, MoveFacts
<1>4. /\ TasksOf(scheduledTasks') = TasksOf(scheduledTasks) \cup {t}
      /\ TasksDiffer(scheduledTasks')
  <2>1. coordinator.job \in ScheduleOf /\ coordinator.job.task = t
    BY <1>0, InHandType DEF SendScheduled, Idle
  <2> QED BY <1>3, <2>1, TaskSent
      DEF SendScheduled, TypeOK, ChannelType, InRoom, NoRepeats, PlacedBy
<1>5. PlacedBy(after)'
  BY <1>1, <1>3, <1>4 DEF PlacedBy, Place, SendScheduled, Busy, Idle, OracleHand, TrackerHand,
     CheckHand, ExpireHand, SchedulerHand, CoordinatorHand,
     oracleVars, trackerVars, schedVars, coordVars
<1>6. NoRepeats'
  BY <1>1, <1>4 DEF NoRepeats, SendScheduled, oracleVars, trackerVars, schedVars, coordVars
<1> QED BY <1>5, <1>6

\* CollectExpire takes a task from its timer: it is done, or is looked at again.
LEMMA ExpireTaskMoves ==
    ASSUME TypeOK, NoRepeats, NEW where \in [Task -> Place], PlacedBy(where),
           NEW t \in Task, ExpireTask(t)
    PROVE  NoRepeats' /\ \E after \in [Task -> Place] : PlacedBy(after)'
<1>1. PICK b \in {"check", "retired"} : b = IF size[t] <= 0 THEN "retired" ELSE "check"
  OBVIOUS
<1>2. t \in InPlace(where, "timers") /\ "timers" \in Place /\ b \in Place /\ "timers" # b
  BY <1>1 DEF ExpireTask, PlacedBy, Place
<1>3. PICK after \in [Task -> Place] :
      /\ InPlace(after, "timers") = InPlace(where, "timers") \ {t}
      /\ InPlace(after, b) = InPlace(where, b) \cup {t}
      /\ \A p \in Place \ {"timers", b} : InPlace(after, p) = InPlace(where, p)
  BY <1>2, MoveFacts
<1>4. /\ timers' = timers \ {t} /\ CheckHand = {} /\ ExpireHand = {} /\ ExpireHand' = {}
      /\ b = "check" => CheckHand' = {t} /\ retired' = retired
      /\ b = "retired" => CheckHand' = {} /\ retired' = retired \cup {t}
  BY <1>1 DEF ExpireTask, CheckHand, ExpireHand, Busy, Idle
<1>5. PlacedBy(after)'
  BY SMTT(30), <1>1, <1>3, <1>4 DEF PlacedBy, Place, ExpireTask, OracleHand, TrackerHand,
     SchedulerHand, CoordinatorHand, oracleVars, trackerVars, schedVars, coordVars
<1>6. NoRepeats'
  BY DEF NoRepeats, ExpireTask, oracleVars, trackerVars, schedVars, coordVars
<1> QED BY <1>5, <1>6

\* The other steps move no task.
OtherStep ==
    \/ SetTask \/ StoreSchedule \/ CountAnswers \/ SendOracleSchedule
    \/ CallEnds \/ EpochManagerStep \/ TaskMapFault

\* All other steps leave every task where it is.
LEMMA OthersMoveNothing ==
    ASSUME OtherStep \/ UNCHANGED vars
    PROVE  /\ NoRepeats => NoRepeats'
           /\ \A where \in [Task -> Place] : PlacedBy(where) => PlacedBy(where)'
<1>1. /\ UNCHANGED <<upchained, initTasks, unprocessedTasks, pendingSchedules,
                     scheduledTasks, timers, tracker, expire, scheduler, retired>>
      /\ OracleHand' = OracleHand /\ CoordinatorHand' = CoordinatorHand
  <2> USE DEF OracleHand, CoordinatorHand, oracleVars, trackerVars, schedVars, coordVars
  <2>1. CASE SetTask
    BY <2>1 DEF SetTask, Idle
  <2>2. CASE StoreSchedule
    BY <2>2 DEF StoreSchedule
  <2>3. CASE CountAnswers
    BY <2>3 DEF CountAnswers, Conclude, Busy
  <2>4. CASE SendOracleSchedule
    BY <2>4 DEF SendOracleSchedule, Return, Idle
  <2>5. CASE CallEnds
    BY <2>5 DEF CallEnds, NodeAccepts, NodeRejects, CallFails, NoConnection, AskUnchanged
  <2>6. CASE EpochManagerStep \/ TaskMapFault \/ UNCHANGED vars
    BY <2>6 DEF EpochManagerStep, Credit, TaskMapFault, vars
  <2> QED BY <2>1, <2>2, <2>3, <2>4, <2>5, <2>6 DEF OtherStep
<1>2. NoRepeats => NoRepeats'
  BY <1>1 DEF NoRepeats
<1>3. ASSUME NEW where \in [Task -> Place], PlacedBy(where) PROVE PlacedBy(where)'
  BY <1>1, <1>3 DEF PlacedBy, TrackerHand, CheckHand, ExpireHand, SchedulerHand
<1> QED BY <1>2, <1>3

\* What is finished lacks nothing, now and later.
LEMMA RetiredStep ==
    ASSUME TypeOK, [Next]_vars, \A t \in retired : size[t] = 0
    PROVE  \A t \in retired' : size'[t] = 0
<1>1. ASSUME NEW t \in retired, t \in Task PROVE size'[t] = 0
  BY <1>1, SizeNeverGrows
<1>2. retired \subseteq Task
  BY DEF TypeOK, RecordType
<1>3. ASSUME NEW t \in Task, ExpireTask(t) PROVE \A u \in retired' : size'[u] = 0
  <2>1. size' = size /\ (retired' = retired \/ (retired' = retired \cup {t} /\ size[t] <= 0))
    BY <1>3 DEF ExpireTask
  <2> QED BY <2>1, SizeNeverGrows
<1>4. CASE ~\E t \in Task : ExpireTask(t)
  <2>1. retired' = retired
    BY <1>4 DEF Next, vars, OracleStep, TakeInitTask, SendInitTask, SetTask, StoreSchedule,
       TrackerStep, TakeInit, SendInitRequest, TakeScheduled, CollectExpireStep,
       NextExpired, SendExpiredRequest, SchedulerStep, Schedule, SendSchedule,
       CoordinatorStep, OfferSlots, CountAnswers, SendRetry, SendScheduled,
       SendOracleSchedule, CallEnds, NodeAccepts, NodeRejects, CallFails, NoConnection,
       AskUnchanged, EpochManagerStep, Credit, TaskMapFault, trackerVars
  <2> QED BY <1>1, <1>2, <2>1
<1> QED BY <1>3, <1>4

\* Every step keeps each task in one place.
LEMMA PlaceStep == TypeOK /\ PlaceInv /\ [Next]_vars => PlaceInv'
<1> SUFFICES ASSUME TypeOK, PlaceInv, [Next]_vars
             PROVE  NoRepeats' /\ \E after \in [Task -> Place] : PlacedBy(after)'
  BY RetiredStep DEF PlaceInv
<1>1. PICK where \in [Task -> Place] : PlacedBy(where)
  BY DEF PlaceInv
<1>2. NoRepeats
  BY DEF PlaceInv
<1>3. CASE OtherStep \/ UNCHANGED vars
  BY <1>1, <1>2, <1>3, OthersMoveNothing
<1>4. CASE OracleStep
  BY <1>1, <1>2, <1>3, <1>4, TakeInitTaskMoves, SendInitTaskMoves DEF OracleStep, OtherStep
<1>5. CASE TrackerStep
  BY <1>1, <1>2, <1>5, TakeInitMoves, SendInitRequestMoves, TakeScheduledMoves DEF TrackerStep
<1>6. CASE CollectExpireStep
  BY <1>1, <1>2, <1>6, NextExpiredMoves, SendExpiredRequestMoves, ExpireTaskMoves
  DEF CollectExpireStep
<1>7. CASE SchedulerStep
  BY <1>1, <1>2, <1>7, ScheduleMoves, SendScheduleMoves DEF SchedulerStep
<1>8. CASE CoordinatorStep
  BY <1>1, <1>2, <1>3, <1>8, OfferSlotsMoves, SendRetryMoves, SendScheduledMoves
  DEF CoordinatorStep, OtherStep
<1> QED BY <1>3, <1>4, <1>5, <1>6, <1>7, <1>8 DEF Next, OtherStep

\* At first every task is on the chain, once.
LEMMA PlaceInit == Init => PlaceInv
<1> SUFFICES ASSUME Init PROVE PlaceInv
  OBVIOUS
<1> USE DEF Init, AtRest
<1> DEFINE At(t) == {i \in DOMAIN Upchained : Upchained[i] = t}
<1>1. Upchained \in Seq(Task) /\ DOMAIN Upchained = 1 .. Len(Upchained) /\ Len(Upchained) \in Nat
  BY SchedulingAssumption
<1>2. ASSUME NEW t \in Task PROVE \E i : At(t) = {i}
  <2>1. IsFiniteSet(1 .. Len(Upchained))
    BY <1>1, FS_Interval
  <2>2. IsFiniteSet(At(t))
    BY <1>1, <2>1, FS_Subset
  <2>3. Cardinality(At(t)) = 1
    BY SchedulingAssumption
  <2> QED BY <2>2, <2>3, FS_Singleton
<1>3. SignsDiffer(upchained)
  <2>1. ASSUME NEW j \in 1 .. Len(Upchained), NEW k \in 1 .. Len(Upchained),
               Upchained[j] = Upchained[k]
        PROVE  j = k
    <3>1. Upchained[j] \in Task
      BY <1>1
    <3>2. j \in At(Upchained[j]) /\ k \in At(Upchained[j])
      BY <1>1, <2>1
    <3> QED BY <1>2, <3>1, <3>2
  <2> QED BY <2>1 DEF SignsDiffer
<1>4. SignsOf(upchained) = Task
  <2>1. ASSUME NEW t \in Task PROVE t \in SignsOf(Upchained)
    <3>1. PICK i : i \in At(t)
      BY <1>2
    <3> QED BY <1>1, <3>1 DEF SignsOf
  <2>2. SignsOf(Upchained) \subseteq Task
    BY <1>1 DEF SignsOf
  <2> QED BY <2>1, <2>2
<1>5. NoRepeats
  BY <1>3 DEF NoRepeats, SignsDiffer, TasksDiffer
<1> DEFINE where == [t \in Task |-> "upchained"]
<1>6. where \in [Task -> Place] /\ \A t \in Task : where[t] = "upchained"
  BY DEF Place
<1> HIDE DEF where
<1>7. PlacedBy(where)
  BY <1>4, <1>6 DEF PlacedBy, InPlace, SignsOf, TasksOf, OracleHand, TrackerHand, CheckHand,
     ExpireHand, SchedulerHand, CoordinatorHand, Idle
<1> QED BY <1>5, <1>6, <1>7 DEF PlaceInv

\* With that, the holders of a task are one, or none when it is done.
LEMMA HoldersOfTask ==
    ASSUME TypeOK, NoRepeats, NEW where \in [Task -> Place], PlacedBy(where), NEW t \in Task
    PROVE  IF t \in retired THEN Holders(t) = {} ELSE \E x : Holders(t) = {x}
<1> DEFINE Hands == {"oracle", "tracker", "timers", "check", "expire", "scheduler",
                     "coordinator"}
           Channels == {"upchained", "initTasks", "unprocessedTasks", "pendingSchedules",
                        "scheduledTasks"}
<1>1. DOMAIN InHand(t) = Hands /\ DOMAIN InChannel(t) = Channels
  BY DEF InHand, InChannel
<1>2. \A h \in Hands : InHand(t)[h] <=> where[t] = h
  <2>1. /\ oracle = Busy("initTask", t) <=> t \in OracleHand
        /\ (tracker # Idle /\ tracker.job.task = t) <=> t \in TrackerHand
        /\ expire = Busy("next", t) <=> t \in CheckHand
        /\ (expire.pc = "request" /\ expire.job.task = t) <=> t \in ExpireHand
        /\ (scheduler # Idle /\ scheduler.job.task = t) <=> t \in SchedulerHand
        /\ (/\ coordinator.pc \in {"ask", "retry", "scheduled"}
            /\ coordinator.job.task = t) <=> t \in CoordinatorHand
    BY DEF TypeOK, GoroutineType, OracleHand, TrackerHand, CheckHand, ExpireHand,
       SchedulerHand, CoordinatorHand, Busy, Idle
  <2>2. /\ t \in OracleHand <=> where[t] = "oracle"
        /\ t \in TrackerHand <=> where[t] = "tracker"
        /\ t \in timers <=> where[t] = "timers"
        /\ t \in CheckHand <=> where[t] = "check"
        /\ t \in ExpireHand <=> where[t] = "expire"
        /\ t \in SchedulerHand <=> where[t] = "scheduler"
        /\ t \in CoordinatorHand <=> where[t] = "coordinator"
    BY DEF PlacedBy, InPlace
  <2>3. /\ InHand(t)["oracle"] <=> oracle = Busy("initTask", t)
        /\ InHand(t)["tracker"] <=> (tracker # Idle /\ tracker.job.task = t)
        /\ InHand(t)["timers"] <=> t \in timers
        /\ InHand(t)["check"] <=> expire = Busy("next", t)
        /\ InHand(t)["expire"] <=> (expire.pc = "request" /\ expire.job.task = t)
        /\ InHand(t)["scheduler"] <=> (scheduler # Idle /\ scheduler.job.task = t)
        /\ InHand(t)["coordinator"] <=>
              (/\ coordinator.pc \in {"ask", "retry", "scheduled"}
               /\ coordinator.job.task = t)
    BY Zenon DEF InHand
  <2> QED BY <2>1, <2>2, <2>3
<1>3. \A c \in Channels : IF where[t] = c THEN \E i : InChannel(t)[c] = {i}
                                           ELSE InChannel(t)[c] = {}
  <2> DEFINE SignAt(q) == {i \in DOMAIN q : q[i] = t}
             TaskAt(q) == {i \in DOMAIN q : q[i].task = t}
  <2>1. ASSUME NEW q \in Seq(Task), SignsDiffer(q)
        PROVE  IF t \in SignsOf(q) THEN \E i : SignAt(q) = {i} ELSE SignAt(q) = {}
    <3>1. DOMAIN q = 1 .. Len(q)
      OBVIOUS
    <3>2. CASE t \in SignsOf(q)
      <4>1. PICK i \in 1 .. Len(q) : q[i] = t
        BY <3>2 DEF SignsOf
      <4>2. SignAt(q) = {i}
        BY <2>1, <3>1, <4>1 DEF SignsDiffer
      <4> QED BY <3>2, <4>2
    <3>3. CASE t \notin SignsOf(q)
      BY <3>1, <3>3 DEF SignsOf
    <3> QED BY <3>2, <3>3
  <2>2. ASSUME NEW S, NEW q \in Seq(S), TasksDiffer(q)
        PROVE  IF t \in TasksOf(q) THEN \E i : TaskAt(q) = {i} ELSE TaskAt(q) = {}
    <3>1. DOMAIN q = 1 .. Len(q)
      OBVIOUS
    <3>2. CASE t \in TasksOf(q)
      <4>1. PICK i \in 1 .. Len(q) : q[i].task = t
        BY <3>2 DEF TasksOf
      <4>2. TaskAt(q) = {i}
        BY <2>2, <3>1, <4>1 DEF TasksDiffer
      <4> QED BY <3>2, <4>2
    <3>3. CASE t \notin TasksOf(q)
      BY <3>1, <3>3 DEF TasksOf
    <3> QED BY <3>2, <3>3
  <2>3. /\ t \in SignsOf(upchained) <=> where[t] = "upchained"
        /\ t \in SignsOf(initTasks) <=> where[t] = "initTasks"
        /\ t \in TasksOf(unprocessedTasks) <=> where[t] = "unprocessedTasks"
        /\ t \in TasksOf(pendingSchedules) <=> where[t] = "pendingSchedules"
        /\ t \in TasksOf(scheduledTasks) <=> where[t] = "scheduledTasks"
    BY DEF PlacedBy, InPlace
  <2>4. /\ upchained \in Seq(Task) /\ initTasks \in Seq(Task)
        /\ unprocessedTasks \in Seq(Request) /\ pendingSchedules \in Seq(ScheduleOf)
        /\ scheduledTasks \in Seq(ScheduleOf)
    BY DEF TypeOK, ChannelType, InRoom
  <2>5. /\ InChannel(t)["upchained"] = SignAt(upchained)
        /\ InChannel(t)["initTasks"] = SignAt(initTasks)
        /\ InChannel(t)["unprocessedTasks"] = TaskAt(unprocessedTasks)
        /\ InChannel(t)["pendingSchedules"] = TaskAt(pendingSchedules)
        /\ InChannel(t)["scheduledTasks"] = TaskAt(scheduledTasks)
    BY DEF InChannel
  <2> HIDE DEF SignAt, TaskAt
  <2> QED BY <2>1, <2>2, <2>3, <2>4, <2>5 DEF NoRepeats
<1> HIDE DEF Hands, Channels
<1>4. Holders(t) = {<<h, 0>> : h \in {h \in Hands : where[t] = h}}
                      \cup UNION {{c} \X InChannel(t)[c] : c \in Channels}
  BY <1>1, <1>2 DEF Holders
<1>5. where[t] \in Place /\ (t \in retired <=> where[t] = "retired")
  BY DEF PlacedBy, InPlace
<1>6. /\ Place = Hands \cup Channels \cup {"retired"}
      /\ \A h \in Hands : h \notin Channels /\ h # "retired"
      /\ \A c \in Channels : c # "retired"
  BY DEF Place, Hands, Channels
<1>7. CASE where[t] \in Hands
  <2>1. \A c \in Channels : InChannel(t)[c] = {}
    BY <1>3, <1>6, <1>7
  <2>2. UNION {{c} \X InChannel(t)[c] : c \in Channels} = {}
    BY <2>1
  <2>3. {h \in Hands : where[t] = h} = {where[t]}
    BY <1>7
  <2>4. Holders(t) = {<<where[t], 0>>}
    BY <1>4, <2>2, <2>3
  <2> QED BY <1>5, <1>6, <1>7, <2>4
<1>8. CASE where[t] \in Channels
  <2>1. PICK i : InChannel(t)[where[t]] = {i}
    BY <1>3, <1>8
  <2>2. \A c \in Channels : c # where[t] => InChannel(t)[c] = {}
    BY <1>3
  <2>3. UNION {{c} \X InChannel(t)[c] : c \in Channels} = {<<where[t], i>>}
    <3>1. ASSUME NEW x \in UNION {{c} \X InChannel(t)[c] : c \in Channels}
          PROVE  x = <<where[t], i>>
      BY <2>1, <2>2
    <3>2. <<where[t], i>> \in {where[t]} \X InChannel(t)[where[t]]
      BY <2>1
    <3> QED BY <1>8, <3>1, <3>2
  <2>4. {h \in Hands : where[t] = h} = {}
    BY <1>6, <1>8
  <2>5. Holders(t) = {<<where[t], i>>}
    BY <1>4, <2>3, <2>4
  <2> QED BY <1>5, <1>6, <1>8, <2>5
<1>9. CASE where[t] = "retired"
  <2>1. \A c \in Channels : InChannel(t)[c] = {}
    BY <1>3, <1>6, <1>9
  <2>2. {h \in Hands : where[t] = h} = {}
    BY <1>6, <1>9
  <2>3. Holders(t) = {}
    BY <1>4, <2>1, <2>2
  <2> QED BY <1>5, <1>9, <2>3
<1> QED BY <1>5, <1>6, <1>7, <1>8, <1>9

\* What the property says, from such a function.
LEMMA PlaceMeaning == TypeOK /\ PlaceInv => TaskIsInOnePlace
<1> SUFFICES ASSUME TypeOK, PlaceInv, NEW t \in Task
             PROVE  /\ Cardinality(Holders(t)) = (IF t \in retired THEN 0 ELSE 1)
                    /\ t \in retired => size[t] = 0
  BY DEF TaskIsInOnePlace
<1>1. IF t \in retired THEN Holders(t) = {} ELSE \E x : Holders(t) = {x}
  BY HoldersOfTask DEF PlaceInv
<1>2. Cardinality(Holders(t)) = (IF t \in retired THEN 0 ELSE 1)
  BY <1>1, FS_EmptySet, FS_Singleton
<1> QED BY <1>2 DEF PlaceInv

\* From its transaction on, until it is finished, a task is in exactly one channel or
\* hand, whatever the nodes answer and however its timers fall: it is never lost, never
\* scheduled twice at a time, and given up only when nothing is lacking.
THEOREM TaskStaysInOnePlace == Spec => []TaskIsInOnePlace
<1>1. Init => PlaceInv
  BY PlaceInit
<1>2. TypeOK /\ PlaceInv /\ [Next]_vars => PlaceInv'
  BY PlaceStep
<1>3. TypeOK /\ PlaceInv => TaskIsInOnePlace
  BY PlaceMeaning
<1> QED BY <1>1, <1>2, <1>3, SchedulingTypeCorrect, PTL DEF Spec

-----------------------------------------------------------------------------
(* What it takes to wedge Scheduler and Coordinator.                         *)

\* Every task occurs on the chain, so there are finitely many.
LEMMA TasksAreFinite == IsFiniteSet(Task)
<1> USE SchedulingAssumption
<1>1. ASSUME NEW t \in Task PROVE \E i \in DOMAIN Upchained : Upchained[i] = t
  <2>1. Cardinality({i \in DOMAIN Upchained : Upchained[i] = t}) # 0
    OBVIOUS
  <2> QED BY <2>1, FS_EmptySet
<1>2. Upchained \in [1 .. Len(Upchained) -> Task] /\ DOMAIN Upchained = 1 .. Len(Upchained)
  OBVIOUS
<1>3. Upchained \in Surjection(1 .. Len(Upchained), Task)
  BY <1>1, <1>2, Zenon DEF Surjection
<1>4. Len(Upchained) \in Int /\ 1 \in Int
  OBVIOUS
<1>5. IsFiniteSet(1 .. Len(Upchained))
  BY <1>4, FS_Interval
<1> QED BY <1>3, <1>5, FS_Surjection

\* The tasks of two full channels and of two hands, each in a place of its own.
LEMMA FourPlaces ==
    ASSUME TypeOK, NoRepeats, NEW where \in [Task -> Place], PlacedBy(where), Wedged,
           NEW S, S = {t \in Task : where[t] # "retired"}
    PROVE  Cardinality(S) >= UnprocessedCap + PendingCap + 2
<1> DEFINE u == UnprocessedCap
           p == PendingCap
           extra == IF coordinator.pc = "retry" THEN "coordinator" ELSE "tracker"
           hand == IF coordinator.pc = "retry" THEN coordinator.job.task ELSE tracker.job.task
           n == u + p + 2
           f == [i \in 1 .. n |->
                   IF i <= u THEN unprocessedTasks[i].task
                   ELSE IF i <= u + p THEN pendingSchedules[i - u].task
                   ELSE IF i = u + p + 1 THEN scheduler.job.task ELSE hand]
<1>1. /\ u \in Nat /\ p \in Nat /\ n \in Nat
      /\ Len(unprocessedTasks) = u /\ Len(pendingSchedules) = p
  BY SchedulingAssumption DEF Wedged, TrackerWaits
<1>2. ASSUME NEW i \in 1 .. u
      PROVE  unprocessedTasks[i].task \in InPlace(where, "unprocessedTasks")
  BY <1>1 DEF PlacedBy, TasksOf
<1>3. ASSUME NEW i \in 1 .. p
      PROVE  pendingSchedules[i].task \in InPlace(where, "pendingSchedules")
  BY <1>1 DEF PlacedBy, TasksOf
<1>4. scheduler.job.task \in InPlace(where, "scheduler")
  BY DEF PlacedBy, SchedulerHand, Wedged
<1>5. hand \in InPlace(where, extra)
  BY DEF PlacedBy, CoordinatorHand, TrackerHand, Wedged, TrackerWaits
<1>6. /\ \A i, k \in 1 .. u : unprocessedTasks[i].task = unprocessedTasks[k].task => i = k
      /\ \A i, k \in 1 .. p : pendingSchedules[i].task = pendingSchedules[k].task => i = k
  BY <1>1 DEF NoRepeats, TasksDiffer
<1> HIDE DEF u, p, extra, hand
<1>7. extra \in {"coordinator", "tracker"}
  BY DEF extra
<1>8. ASSUME NEW i \in 1 .. n
      PROVE  /\ f[i] \in Task
             /\ i <= u => f[i] = unprocessedTasks[i].task /\ where[f[i]] = "unprocessedTasks"
             /\ u < i /\ i <= u + p =>
                    /\ i - u \in 1 .. p
                    /\ f[i] = pendingSchedules[i - u].task
                    /\ where[f[i]] = "pendingSchedules"
             /\ i = u + p + 1 => where[f[i]] = "scheduler"
             /\ i = u + p + 2 => where[f[i]] = extra
             /\ i <= u \/ (u < i /\ i <= u + p) \/ i = u + p + 1 \/ i = u + p + 2
  <2>1. CASE i <= u
    BY <1>1, <1>2, <2>1 DEF InPlace
  <2>2. CASE u < i /\ i <= u + p
    <3>1. i - u \in 1 .. p /\ ~(i <= u)
      BY <1>1, <2>2
    <3> QED BY <1>1, <1>3, <2>2, <3>1 DEF InPlace
  <2>3. CASE i = u + p + 1
    BY <1>1, <1>4, <2>3 DEF InPlace
  <2>4. CASE i = u + p + 2
    BY <1>1, <1>5, <2>4 DEF InPlace
  <2>5. i <= u \/ (u < i /\ i <= u + p) \/ i = u + p + 1 \/ i = u + p + 2
    BY <1>1
  <2> QED BY <1>1, <2>1, <2>2, <2>3, <2>4, <2>5
<1>15. f = [i \in 1 .. n |-> f[i]]
  OBVIOUS
<1> HIDE DEF f
<1>9. ASSUME NEW i \in 1 .. n PROVE f[i] \in S
  <2>1. where[f[i]] # "retired"
    BY <1>7, <1>8
  <2> QED BY <1>8, <2>1
<1>10. ASSUME NEW i \in 1 .. n, NEW k \in 1 .. n, f[i] = f[k] PROVE i = k
  <2>1. CASE i <= u
    <3>1. where[f[k]] = "unprocessedTasks"
      BY <1>8, <1>10, <2>1
    <3>2. k <= u
      BY <1>7, <1>8, <3>1
    <3> QED BY <1>1, <1>6, <1>8, <1>10, <2>1, <3>2
  <2>2. CASE u < i /\ i <= u + p
    <3>1. where[f[k]] = "pendingSchedules"
      BY <1>8, <1>10, <2>2
    <3>2. u < k /\ k <= u + p
      BY <1>7, <1>8, <3>1
    <3>3. i - u = k - u
      BY <1>6, <1>8, <1>10, <2>2, <3>2
    <3> QED BY <1>1, <3>3
  <2>3. CASE i = u + p + 1
    <3>1. where[f[k]] = "scheduler"
      BY <1>8, <1>10, <2>3
    <3> QED BY <1>7, <1>8, <2>3, <3>1
  <2>4. CASE i = u + p + 2
    <3>1. where[f[k]] = extra
      BY <1>8, <1>10, <2>4
    <3> QED BY <1>7, <1>8, <2>4, <3>1
  <2> QED BY <1>8, <2>1, <2>2, <2>3, <2>4
<1>11. f \in Injection(1 .. n, S)
  <2>1. f \in [1 .. n -> S] /\ DOMAIN f = 1 .. n
    BY <1>9, <1>15
  <2> QED BY <1>10, <2>1, Zenon DEF Injection, IsInjective
<1>12. IsFiniteSet(S)
  BY TasksAreFinite, FS_Subset
<1>13. Cardinality(1 .. n) = n
  BY <1>1, FS_Interval
<1>14. Cardinality(1 .. n) <= Cardinality(S)
  <2> HIDE DEF n
  <2> QED BY <1>11, <1>12, FS_Injection
<1> QED BY <1>13, <1>14 DEF u, p

\* Scheduler and Coordinator can block each other, directly, through the Tracker or
\* through Oracle and Tracker, only while as many tasks are on their way as the two
\* channels between them have room for, and two more.
THEOREM WedgeTakesFullChannels == Spec => []WedgeNeedsFullChannels
<1>1. Init => PlaceInv
  BY PlaceInit
<1>2. TypeOK /\ PlaceInv /\ [Next]_vars => PlaceInv'
  BY PlaceStep
<1>3. TypeOK /\ PlaceInv => WedgeNeedsFullChannels
  <2> SUFFICES ASSUME TypeOK, PlaceInv, Wedged
               PROVE  Cardinality({t \in Task : Holders(t) # {}})
                          >= UnprocessedCap + PendingCap + 2
    BY DEF WedgeNeedsFullChannels
  <2>1. PICK where \in [Task -> Place] : PlacedBy(where)
    BY DEF PlaceInv
  <2>2. ASSUME NEW t \in Task PROVE Holders(t) # {} <=> where[t] # "retired"
    <3>1. t \in retired <=> where[t] = "retired"
      BY <2>1 DEF PlacedBy, InPlace
    <3>2. IF t \in retired THEN Holders(t) = {} ELSE \E x : Holders(t) = {x}
      BY HoldersOfTask DEF PlaceInv
    <3> QED BY <3>1, <3>2
  <2>3. {t \in Task : Holders(t) # {}} = {t \in Task : where[t] # "retired"}
    BY <2>2
  <2> QED BY <2>1, <2>3, FourPlaces DEF PlaceInv
<1> QED BY <1>1, <1>2, <1>3, SchedulingTypeCorrect, PTL DEF Spec

-----------------------------------------------------------------------------
(* What a schedule offers.                                                   *)

\* The smaller of two numbers is below both.
LEMMA MinBelow ==
    ASSUME NEW a \in Int, NEW b \in Int
    PROVE  Min({a, b}) <= a /\ Min({a, b}) <= b
<1>1. \E x \in {a, b} : \A y \in {a, b} : x =< y
  OBVIOUS
<1> QED BY <1>1 DEF Min

\* As many times more.
LEMMA Larger ==
    ASSUME NEW n \in Nat, NEW a \in Nat, NEW b \in Nat, a >= b
    PROVE  n * a >= n * b
  OBVIOUS

\* A product of naturals is one.
LEMMA ProductIsNat ==
    ASSUME NEW n \in Nat, NEW a \in Nat
    PROVE  n * a \in Nat
  OBVIOUS

\* Division with a remainder.
LEMMA Division ==
    ASSUME NEW a \in Nat, NEW n \in Nat \ {0}
    PROVE  a \div n \in Nat /\ a % n \in Nat /\ a = n * (a \div n) + (a % n)
<1>1. a \div n \in Nat
  <2>1. a \div n \in Int
    OBVIOUS
  <2>2. a \div n >= 0
    OBVIOUS
  <2> QED BY <2>1, <2>2
<1>2. a % n \in Nat
  OBVIOUS
<1>3. a = n * (a \div n) + (a % n)
  OBVIOUS
<1> QED BY <1>1, <1>2, <1>3

\* Shares with a remainder make up the whole.
LEMMA SharesMakeUp ==
    ASSUME NEW request \in Nat
    PROVE  /\ request \div NodeCount \in Nat /\ request % NodeCount \in Nat
           /\ request = NodeCount * (request \div NodeCount) + (request % NodeCount)
<1>1. NodeCount \in Nat \ {0}
  BY SchedulingAssumption
<1> QED BY <1>1, Division

\* A node is offered the common share, and node 0 the remainder on top.
LEMMA AdviceIs ==
    ASSUME NEW request \in Nat, NEW slotSize \in Nat
    PROVE  \E share \in Nat :
              /\ share >= 1 /\ (share >= request \div NodeCount \/ share >= slotSize)
              /\ \A n \in Node : Advice(n, request, slotSize) =
                     share + (IF n = 0 THEN request % NodeCount ELSE 0)
<1> DEFINE quotient == request \div NodeCount
           least == Min({quotient, slotSize})
           share == Max({1, least})
<1>1. quotient \in Nat
  BY SharesMakeUp
<1> HIDE DEF quotient
<1>2. least \in {quotient, slotSize} /\ least \in Int
  BY <1>1, MinOfTwo
<1> HIDE DEF least
<1>3. share \in {1, least} /\ share >= 1 /\ share >= least
  BY <1>2, MaxOfTwo
<1> HIDE DEF share
<1>4. \A n \in Node : Advice(n, request, slotSize) =
          share + (IF n = 0 THEN request % NodeCount ELSE 0)
  BY DEF Advice, share, least, quotient
<1>5. share \in Nat /\ (share >= quotient \/ share >= slotSize)
  BY <1>1, <1>2, <1>3
<1> QED BY <1>3, <1>4, <1>5 DEF quotient

\* One slot for each node.
LEMMA SlotsOfNodes ==
    ASSUME NEW schedule
    PROVE  IsFiniteSet(SlotsOf(schedule)) /\ Cardinality(SlotsOf(schedule)) = NodeCount
<1>1. IsFiniteSet(Node) /\ Cardinality(Node) = NodeCount
  <2>1. NodeCount - 1 \in Int /\ ~(0 > NodeCount - 1) /\ (NodeCount - 1) - 0 + 1 = NodeCount
    BY SchedulingAssumption
  <2>2. /\ IsFiniteSet(0 .. NodeCount - 1)
        /\ Cardinality(0 .. NodeCount - 1) = (NodeCount - 1) - 0 + 1
    BY <2>1, FS_Interval
  <2> QED BY <2>1, <2>2 DEF Node
<1> DEFINE f == [n \in Node |-> SlotOf(schedule, n)]
<1>2. \A m, n \in Node : f[m] = f[n] => m = n
  <2>1. \A n \in Node : f[n].node = n
    BY DEF SlotOf
  <2> QED BY <2>1
<1>3. \A slot \in SlotsOf(schedule) : \E n \in Node : f[n] = slot
  BY DEF SlotsOf
<1>4. f \in [Node -> SlotsOf(schedule)]
  BY DEF SlotsOf
<1> HIDE DEF f
<1>5. f \in Bijection(Node, SlotsOf(schedule))
  BY <1>2, <1>3, <1>4 DEF Bijection, Injection, Surjection, IsInjective
<1>6. ExistsBijection(Node, SlotsOf(schedule))
  BY <1>5 DEF ExistsBijection
<1> QED BY <1>1, <1>6, FS_Bijection

\* Its slots add up to what was asked for, or to a full slot for every node.
LEMMA OfferMakesUp ==
    ASSUME NEW schedule \in ScheduleOf
    PROVE  LET sizes == [slot \in SlotsOf(schedule) |-> slot.size] IN
           /\ SumOf(sizes, SlotsOf(schedule)) >=
                  Min({schedule.size, NodeCount * SlotSize[schedule.task]})
           /\ \A slot \in SlotsOf(schedule) : slot.size > 0
<1> PICK request, slotSize : request = schedule.size /\ slotSize = SlotSize[schedule.task]
  OBVIOUS
<1>1. request \in Nat /\ slotSize \in Nat /\ NodeCount \in Nat \ {0} /\ 0 \in Node
  BY SchedulingAssumption DEF ScheduleOf, Node
<1> PICK q, r : q = request \div NodeCount /\ r = request % NodeCount
  OBVIOUS
<1>2. q \in Nat /\ r \in Nat /\ request = NodeCount * q + r
  BY <1>1, SharesMakeUp
<1>3. PICK share \in Nat :
          /\ share >= 1 /\ (share >= q \/ share >= slotSize)
          /\ \A n \in Node : Advice(n, request, slotSize) = share + (IF n = 0 THEN r ELSE 0)
  <2>1. PICK share \in Nat :
          /\ share >= 1 /\ (share >= request \div NodeCount \/ share >= slotSize)
          /\ \A n \in Node : Advice(n, request, slotSize) =
                 share + (IF n = 0 THEN request % NodeCount ELSE 0)
    <3>1. request \in Nat /\ slotSize \in Nat
      BY <1>1
    <3> QED BY <3>1, AdviceIs, Zenon
  <2>2. r = request % NodeCount /\ q = request \div NodeCount
    OBVIOUS
  <2> QED BY <2>1, <2>2, Zenon
<1> DEFINE first == SlotOf(schedule, 0)
           sizes == [slot \in SlotsOf(schedule) |-> slot.size]
           rest == SlotsOf(schedule) \ {first}
<1>4. \A n \in Node : SlotOf(schedule, n).size = share + (IF n = 0 THEN r ELSE 0)
  BY <1>3 DEF SlotOf
<1>5. \A slot \in SlotsOf(schedule) : sizes[slot] \in Nat /\ sizes[slot] >= share /\ slot.size > 0
  BY <1>2, <1>3, <1>4 DEF SlotsOf
<1>6. first \in SlotsOf(schedule) /\ sizes[first] = share + r
  BY <1>1, <1>4 DEF SlotsOf
<1>7. IsFiniteSet(SlotsOf(schedule)) /\ IsFiniteSet(rest) /\ Cardinality(rest) = NodeCount - 1
  BY <1>6, SlotsOfNodes, FS_RemoveElement
<1> HIDE DEF first, sizes
<1>8. SumOf(sizes, SlotsOf(schedule)) = share + r + SumOf(sizes, rest)
  BY <1>5, <1>6, <1>7, SumWithout
<1>9. SumOf(sizes, rest) \in Nat /\ SumOf(sizes, rest) >= share * (NodeCount - 1)
  BY <1>3, <1>5, <1>7, SumAtLeast, SumIsNat
<1> PICK sum : sum = SumOf(sizes, SlotsOf(schedule))
  OBVIOUS
<1>10. sum \in Nat /\ sum >= NodeCount * share + r
  <2> PICK others : others = SumOf(sizes, rest)
    OBVIOUS
  <2>1. /\ share + share * (NodeCount - 1) = NodeCount * share
        /\ NodeCount * share \in Nat /\ share * (NodeCount - 1) \in Nat
    BY <1>1, <1>3
  <2>2. sum = share + r + others /\ others \in Nat /\ others >= share * (NodeCount - 1)
    BY <1>8, <1>9
  <2> QED BY <1>2, <1>3, <2>1, <2>2
<1>11. sum >= request \/ sum >= NodeCount * slotSize
  <2>1. CASE share >= q
    <3>1. NodeCount * share >= NodeCount * q
      BY <1>1, <1>2, <1>3, <2>1, Larger
    <3>2. NodeCount * share \in Nat /\ NodeCount * q \in Nat
      BY <1>1, <1>2, <1>3, ProductIsNat
    <3> QED BY <1>2, <1>10, <3>1, <3>2
  <2>2. CASE share >= slotSize
    <3>1. NodeCount * share >= NodeCount * slotSize
      BY <1>1, <1>3, <2>2, Larger
    <3>2. NodeCount * share \in Nat /\ NodeCount * slotSize \in Nat
      BY <1>1, <1>2, <1>3, ProductIsNat
    <3> QED BY <1>2, <1>10, <3>1, <3>2
  <2> QED BY <1>3, <2>1, <2>2
<1>12. sum >= Min({request, NodeCount * slotSize})
  <2>1. NodeCount * slotSize \in Int /\ request \in Int
    BY <1>1
  <2> PICK full, less : full = NodeCount * slotSize /\ less = Min({request, full})
    OBVIOUS
  <2>2. less \in Int /\ less <= request /\ less <= full
    BY <2>1, MinBelow, MinOfTwo
  <2> QED BY <1>1, <1>10, <1>11, <2>1, <2>2
<1> QED BY <1>5, <1>12 DEF sizes

\* The sum that OfferIsEnough speaks of is the one FiniteSums knows.
LEMMA SumOfSizes ==
    ASSUME NEW schedule
    PROVE  MapThenSumSet(LAMBDA slot : slot.size, SlotsOf(schedule)) =
           SumOf([slot \in SlotsOf(schedule) |-> slot.size], SlotsOf(schedule))
<1> PICK S : S = SlotsOf(schedule)
  OBVIOUS
<1> DEFINE sizes == [slot \in S |-> slot.size]
           Adds(g) == g = [s \in SUBSET S |->
                             IF s = {} THEN 0 ELSE Least(s).size + g[s \ {Least(s)}]]
           sum == CHOOSE g : Adds(g)
<1>1. MapThenSumSet(LAMBDA slot : slot.size, S) = sum[S]
  BY DEF MapThenSumSet, MapThenFoldSet, Least
<1>2. ASSUME NEW g PROVE Adds(g) <=> Solves(sizes, S, g)
  <2>1. \A s \in SUBSET S : s # {} => sizes[Least(s)] = Least(s).size
    BY DEF Least
  <2> HIDE DEF sizes
  <2>2. \A s \in SUBSET S :
            (IF s = {} THEN 0 ELSE Least(s).size + g[s \ {Least(s)}]) = Plus(sizes, g, s)
    BY <2>1 DEF Plus
  <2> QED BY <2>2 DEF Solves
<1> HIDE DEF sizes
<1>0. IsFiniteSet(S)
  BY SlotsOfNodes
<1>3. PICK g : Solves(sizes, S, g)
  BY <1>0, SolutionExists
<1>4. Adds(sum)
  BY <1>2, <1>3
<1>5. Solves(sizes, S, CHOOSE h : Solves(sizes, S, h))
  BY <1>3
<1>6. Solves(sizes, S, sum)
  BY <1>2, <1>4
<1>7. sum[S] = (CHOOSE h : Solves(sizes, S, h))[S]
  BY <1>0, <1>5, <1>6, SolutionsAgree
<1>8. MapThenSumSet(LAMBDA slot : slot.size, S) = SumOf(sizes, S)
  BY <1>1, <1>7, SumIs
<1> QED BY <1>8 DEF sizes

\* Monitor.advice (Monitor/monitor.go) cuts each share at the slot size and gives the
\* remainder to node 0: for every number of nodes, every request and every slot size the
\* slots of a schedule add up to the request, unless every node has a full slot, and no
\* node is asked for nothing.
THEOREM OffersAreEnough == Spec => []OfferIsEnough
<1>1. TypeOK => OfferIsEnough
  <2> SUFFICES ASSUME TypeOK PROVE OfferIsEnough
    OBVIOUS
  <2>1. pendingSchedules \in Seq(ScheduleOf)
    BY DEF TypeOK, ChannelType, InRoom
  <2>2. \A i \in DOMAIN pendingSchedules : pendingSchedules[i] \in ScheduleOf
    BY <2>1
  <2> QED BY <2>2, SumOfSizes, OfferMakesUp DEF OfferIsEnough
<1> QED BY <1>1, SchedulingTypeCorrect, PTL
=============================================================================
