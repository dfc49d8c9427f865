--------------------------- MODULE TaskScheduling ---------------------------
(***************************************************************************)
(* How a synthesis task is scheduled, from the moment its transaction is   *)
(* on the chain: the Oracle goroutine hands it to the Tracker, the Tracker *)
(* to the Scheduler, the Scheduler splits it into one slot per node, the   *)
(* Coordinator offers the slots, and what was scheduled goes to the        *)
(* Tracker's timers and to the Oracle.  When its timer expires a task that *)
(* still lacks data starts again.  Every hand-over is a bounded channel,   *)
(* and these goroutines form cycles.                                       *)
(*                                                                         *)
(* The Monitor goroutine that answers an AdviceRequest never waits for     *)
(* anyone, so the Scheduler's request and its answer are one step.         *)
(***************************************************************************)
EXTENDS Integers, Sequences, FiniteSets, FiniteSetsExt

CONSTANTS
    Task,            \* task signs
    Upchained,       \* the order in which their transactions reach the chain
    NodeCount,       \* len(nodeStatus)
    Total,           \* the size a task was created with
    SlotSize,        \* the slot size a task was created with
    InitCap,         \* capacities of the channels InitTasks,
    UnprocessedCap,  \* UnprocessedTasks,
    PendingCap,      \* PendingSchedules,
    ScheduledCap,    \* ScheduledTasks
    OracleCap,       \* and OracleSchedules
    ScheduleBound,   \* bound of the model: schedules made of one task
    None             \* nothing in hand

ASSUME SchedulingAssumption ==
    /\ Upchained \in Seq(Task)
    /\ \A t \in Task : Cardinality({i \in DOMAIN Upchained : Upchained[i] = t}) = 1
    /\ NodeCount \in Nat \ {0}
    /\ Total \in [Task -> Nat]
    /\ SlotSize \in [Task -> Nat \ {0}]
    /\ {InitCap, UnprocessedCap, PendingCap, ScheduledCap, OracleCap} \subseteq Nat \ {0}
    /\ ScheduleBound \in [Task -> Nat]

VARIABLES
    upchained,        \* InitTaskTransactions that wait for the Oracle
    oracle,           \* where the Oracle's update goroutine is, and its task
    known,            \* tasks in the Oracle's database
    stored,           \* Task.Schedules: the ScheduleIDs in the order they came
    initTasks,        \* channel InitTasks
    tracker,          \* where Tracker.Start is, and the request in its hand
    size,             \* SynthTaskTrackItem.Size
    unprocessedTasks, \* channel UnprocessedTasks
    schedules,        \* Scheduler.schedules, -1 while a task has no entry
    scheduler,        \* the schedule in the Scheduler's hand
    pendingSchedules, \* channel PendingSchedules
    coordinator,      \* where sendSchedule is, and its schedule
    replies,          \* how the call of sendSchedule to each node has ended
    unscheduled,      \* slots of it sent to UnScheduledSlotChannel so far
    scheduledTasks,   \* channel ScheduledTasks
    oracleSchedules,  \* channel OracleSchedules
    timers,           \* tasks in the eliminators and their channels
    expire,           \* where CollectExpire is, and the request in its hand
    running,          \* slots a node is working on
    retired,          \* tasks CollectExpire found finished
    crashed           \* the process has died in a race on taskTracks

oracleVars  == <<upchained, oracle, known, stored>>
trackerVars == <<initTasks, tracker, timers, expire, retired>>
schedVars   == <<schedules, scheduler, pendingSchedules>>
coordVars   == <<coordinator, replies, unscheduled>>
vars == <<oracleVars, trackerVars, size, unprocessedTasks, schedVars, coordVars,
          scheduledTasks, oracleSchedules, running, crashed>>

Node == 0 .. NodeCount - 1
-----------------------------------------------------------------------------
(* Monitor.advice: every node the same share, cut at the slot size and never *)
(* 0; node 0 gets the remainder on top.                                      *)
\* (As in SlotLifecycle, a variant stands before the definition it varies and is
\* used nowhere.)
AdviceWithoutRemainder(n, request, slotSize) ==
    Max({1, Min({request \div NodeCount, slotSize})})

Advice(n, request, slotSize) ==
    Max({1, Min({request \div NodeCount, slotSize})})
        + (IF n = 0 THEN request % NodeCount ELSE 0)

\* SynthTaskTrackItem.Next: a request for what the task lacks now.
NextRequest(t) == [task |-> t, size |-> size[t]]

\* Scheduler.generateSynthSchedule.  The ScheduleID is read before the entry of
\* the task is made and counted up; the slot hashes carry the new count.
MakeSchedule(request) ==
    [task  |-> request.task,
     size  |-> request.size,
     id    |-> Max({0, schedules[request.task]}),
     index |-> schedules[request.task] + 1]

SlotOf(schedule, n) ==
    [task |-> schedule.task, index |-> schedule.index, node |-> n,
     size |-> Advice(n, schedule.size, SlotSize[schedule.task])]

SlotsOf(schedule) == {SlotOf(schedule, n) : n \in Node}

Idle == [pc |-> "idle", job |-> None]
Busy(pc, job) == [pc |-> pc, job |-> job]

\* Nothing runs in a process that has died.
Alive == ~crashed /\ crashed' = crashed

NoReplies == [n \in Node |-> "none"]

AtRest ==
    /\ oracle = Idle /\ known = {}
    /\ stored = [t \in Task |-> <<>>]
    /\ initTasks = <<>> /\ tracker = Idle
    /\ size = Total
    /\ unprocessedTasks = <<>>
    /\ schedules = [t \in Task |-> -1]
    /\ scheduler = Idle /\ pendingSchedules = <<>>
    /\ coordinator = Idle
    /\ replies = NoReplies
    /\ scheduledTasks = <<>> /\ oracleSchedules = <<>>
    /\ timers = {} /\ expire = Idle
    /\ unscheduled = {} /\ running = {} /\ retired = {}
    /\ crashed = FALSE

Init == upchained = Upchained /\ AtRest

-----------------------------------------------------------------------------
(* PersistedOracle.updateOracle: one goroutine, two channels.              *)

TakeInitTask ==
    /\ Alive
    /\ oracle = Idle /\ upchained # <<>>
    /\ oracle' = Busy("initTask", Head(upchained))
    /\ upchained' = Tail(upchained)
    /\ UNCHANGED <<known, stored, trackerVars, size, unprocessedTasks, schedVars,
                   coordVars, scheduledTasks, oracleSchedules, running>>

\* The Tracker hears of the task before the database does.
SendInitTask ==
    /\ Alive
    /\ oracle.pc = "initTask" /\ Len(initTasks) < InitCap
    /\ initTasks' = Append(initTasks, oracle.job)
    /\ oracle' = Busy("setTask", oracle.job)
    /\ UNCHANGED <<upchained, known, stored, tracker, timers, expire, retired, size,
                   unprocessedTasks, schedVars, coordVars, scheduledTasks,
                   oracleSchedules, running>>

SetTask ==
    /\ Alive
    /\ oracle.pc = "setTask"
    /\ known' = known \cup {oracle.job}
    /\ oracle' = Idle
    /\ UNCHANGED <<upchained, stored, trackerVars, size, unprocessedTasks, schedVars,
                   coordVars, scheduledTasks, oracleSchedules, running>>

\* UpdateScheduleInTask; it panics when the task is not in the database.
StoreScheduleAtAnyTime ==
    /\ Alive
    /\ oracleSchedules # <<>>
    /\ LET t == Head(oracleSchedules).task IN
        stored' = [stored EXCEPT ![t] = Append(@, Head(oracleSchedules).id)]
    /\ oracleSchedules' = Tail(oracleSchedules)
    /\ UNCHANGED <<upchained, oracle, known, trackerVars, size, unprocessedTasks, schedVars,
                   coordVars, scheduledTasks, running>>

StoreSchedule ==
    /\ Alive
    /\ oracle = Idle /\ oracleSchedules # <<>>
    /\ LET t == Head(oracleSchedules).task IN
        stored' = [stored EXCEPT ![t] = Append(@, Head(oracleSchedules).id)]
    /\ oracleSchedules' = Tail(oracleSchedules)
    /\ UNCHANGED <<upchained, oracle, known, trackerVars, size, unprocessedTasks, schedVars,
                   coordVars, scheduledTasks, running>>

-----------------------------------------------------------------------------
(* Tracker.Start: InitTask and UpdateTask.                                 *)

TakeInit ==
    /\ Alive
    /\ tracker = Idle /\ initTasks # <<>>
    /\ tracker' = Busy("request", NextRequest(Head(initTasks)))
    /\ initTasks' = Tail(initTasks)
    /\ UNCHANGED <<oracleVars, timers, expire, retired, size, unprocessedTasks, schedVars,
                   coordVars, scheduledTasks, oracleSchedules, running>>

SendInitRequestAgain ==
    /\ Alive
    /\ tracker.pc = "request" /\ Len(unprocessedTasks) < UnprocessedCap
    /\ unprocessedTasks' = Append(unprocessedTasks, tracker.job)
    /\ tracker' \in {Idle, tracker}
    /\ UNCHANGED <<oracleVars, initTasks, timers, expire, retired, size, schedVars,
                   coordVars, scheduledTasks, oracleSchedules, running>>

SendInitRequest ==
    /\ Alive
    /\ tracker.pc = "request" /\ Len(unprocessedTasks) < UnprocessedCap
    /\ unprocessedTasks' = Append(unprocessedTasks, tracker.job)
    /\ tracker' = Idle
    /\ UNCHANGED <<oracleVars, initTasks, timers, expire, retired, size, schedVars,
                   coordVars, scheduledTasks, oracleSchedules, running>>

TakeScheduledWithoutTimer ==
    /\ Alive
    /\ tracker = Idle /\ scheduledTasks # <<>>
    /\ scheduledTasks' = Tail(scheduledTasks)
    /\ UNCHANGED <<oracleVars, initTasks, tracker, timers, expire, retired, size, unprocessedTasks,
                   schedVars, coordVars, oracleSchedules, running>>

\* UpdateTask starts the timer of the task.
TakeScheduled ==
    /\ Alive
    /\ tracker = Idle /\ scheduledTasks # <<>>
    /\ timers' = timers \cup {Head(scheduledTasks).task}
    /\ scheduledTasks' = Tail(scheduledTasks)
    /\ UNCHANGED <<oracleVars, initTasks, tracker, expire, retired, size, unprocessedTasks,
                   schedVars, coordVars, oracleSchedules, running>>

-----------------------------------------------------------------------------
(* Tracker.CollectExpire, for the ExpireTask items.                        *)

\* IsFinish reads the size here, Next copies it later; meanwhile the EpochManager
\* may credit a slot.
ExpireTask(t) ==
    /\ Alive
    /\ expire = Idle /\ t \in timers
    /\ timers' = timers \ {t}
    /\ IF size[t] <= 0
       THEN retired' = retired \cup {t} /\ UNCHANGED expire
       ELSE expire' = Busy("next", t) /\ UNCHANGED retired
    /\ UNCHANGED <<oracleVars, initTasks, tracker, size, unprocessedTasks, schedVars,
                   coordVars, scheduledTasks, oracleSchedules, running>>

NextExpired ==
    /\ Alive
    /\ expire.pc = "next"
    /\ expire' = Busy("request", NextRequest(expire.job))
    /\ UNCHANGED <<oracleVars, initTasks, tracker, timers, retired, size, unprocessedTasks,
                   schedVars, coordVars, scheduledTasks, oracleSchedules, running>>

SendExpiredRequest ==
    /\ Alive
    /\ expire.pc = "request" /\ Len(unprocessedTasks) < UnprocessedCap
    /\ unprocessedTasks' = Append(unprocessedTasks, expire.job)
    /\ expire' = Idle
    /\ UNCHANGED <<oracleVars, initTasks, tracker, timers, retired, size, schedVars,
                   coordVars, scheduledTasks, oracleSchedules, running>>

-----------------------------------------------------------------------------
(* Scheduler.process.                                                      *)

Schedule ==
    /\ Alive
    /\ scheduler = Idle /\ unprocessedTasks # <<>>
    /\ LET request == Head(unprocessedTasks) IN
        /\ schedules[request.task] + 1 < ScheduleBound[request.task]
        /\ scheduler' = Busy("send", MakeSchedule(request))
        /\ schedules' = [schedules EXCEPT ![request.task] = @ + 1]
    /\ unprocessedTasks' = Tail(unprocessedTasks)
    /\ UNCHANGED <<oracleVars, trackerVars, size, pendingSchedules, coordVars,
                   scheduledTasks, oracleSchedules, running>>

SendSchedule ==
    /\ Alive
    /\ scheduler.pc = "send" /\ Len(pendingSchedules) < PendingCap
    /\ pendingSchedules' = Append(pendingSchedules, scheduler.job)
    /\ scheduler' = Idle
    /\ UNCHANGED <<oracleVars, trackerVars, size, unprocessedTasks, schedules, coordVars,
                   scheduledTasks, oracleSchedules, running>>

-----------------------------------------------------------------------------
(* Coordinator.sendSchedule.                                               *)

OfferSlots ==
    /\ Alive
    /\ coordinator = Idle /\ pendingSchedules # <<>>
    /\ coordinator' = Busy("ask", Head(pendingSchedules))
    /\ pendingSchedules' = Tail(pendingSchedules)
    /\ UNCHANGED <<oracleVars, trackerVars, size, unprocessedTasks, schedules, scheduler,
                   replies, unscheduled, scheduledTasks, oracleSchedules, running>>

Asked(n) == coordinator.pc = "ask" /\ replies[n] = "none"
Answer(n, reply) == replies' = [replies EXCEPT ![n] = reply]
AskUnchanged == UNCHANGED <<oracleVars, trackerVars, size, unprocessedTasks, schedVars,
                            coordinator, scheduledTasks, oracleSchedules>>

NodeAccepts(n) ==
    /\ Alive
    /\ Asked(n) /\ Answer(n, "accept")
    /\ running' = running \cup {SlotOf(coordinator.job, n)}
    /\ AskUnchanged /\ UNCHANGED unscheduled

\* The node refuses, or its answer names another task or node.
NodeRejects(n) ==
    /\ Alive
    /\ Asked(n) /\ Answer(n, "reject")
    /\ AskUnchanged /\ UNCHANGED <<unscheduled, running>>

\* The call times out or its answer is lost; the node may have taken the slot.
CallFails(n) ==
    /\ Alive
    /\ Asked(n) /\ Answer(n, "reject")
    /\ running' \in {running, running \cup {SlotOf(coordinator.job, n)}}
    /\ AskUnchanged /\ UNCHANGED unscheduled

\* No connection: the slot is reported here, and once more with the rejects.
NoConnection(n) ==
    /\ Alive
    /\ Asked(n) /\ Answer(n, "reject")
    /\ unscheduled' = unscheduled \cup {SlotOf(coordinator.job, n)}
    /\ AskUnchanged /\ UNCHANGED running

Rejected == {n \in Node : replies[n] = "reject"}
AcceptedSize(schedule) ==
    MapThenSumSet(LAMBDA n : SlotOf(schedule, n).size, {n \in Node : replies[n] = "accept"})

\* When every node has answered, the rejected slots are reported, and the whole
\* request is made again if nothing of it was accepted.
Conclude(schedule) ==
    IF Max({0, schedule.size - AcceptedSize(schedule)}) = schedule.size
    THEN coordinator' = Busy("retry", schedule)
    ELSE coordinator' = Busy("scheduled", schedule)

ReportNothing(schedule) == UNCHANGED unscheduled

ReportRejected(schedule) ==
    unscheduled' = unscheduled \cup {SlotOf(schedule, n) : n \in Rejected}

CountAnswers ==
    /\ Alive
    /\ coordinator.pc = "ask" /\ \A n \in Node : replies[n] # "none"
    /\ ReportRejected(coordinator.job)
    /\ Conclude(coordinator.job)
    /\ UNCHANGED <<oracleVars, trackerVars, size, unprocessedTasks, schedVars, replies,
                   scheduledTasks, oracleSchedules, running>>

\* sendSchedule returns; what it knew of the answers is gone.
Return == coordinator' = Idle /\ replies' = NoReplies /\ unscheduled' = {}

RetryAccepted(schedule) == [task |-> schedule.task, size |-> AcceptedSize(schedule)]

RetryRequest(schedule) == [task |-> schedule.task, size |-> schedule.size]

SendRetryFallsThrough ==
    /\ Alive
    /\ coordinator.pc = "retry" /\ Len(unprocessedTasks) < UnprocessedCap
    /\ unprocessedTasks' = Append(unprocessedTasks, RetryRequest(coordinator.job))
    /\ coordinator' = Busy("scheduled", coordinator.job)
    /\ UNCHANGED <<oracleVars, trackerVars, size, schedVars, replies, unscheduled,
                   scheduledTasks, oracleSchedules, running>>

SendRetry ==
    /\ Alive
    /\ coordinator.pc = "retry" /\ Len(unprocessedTasks) < UnprocessedCap
    /\ unprocessedTasks' = Append(unprocessedTasks, RetryRequest(coordinator.job))
    /\ Return
    /\ UNCHANGED <<oracleVars, trackerVars, size, schedVars, scheduledTasks,
                   oracleSchedules, running>>

SendScheduled ==
    /\ Alive
    /\ coordinator.pc = "scheduled" /\ Len(scheduledTasks) < ScheduledCap
    /\ scheduledTasks' = Append(scheduledTasks, coordinator.job)
    /\ coordinator' = Busy("oracle", coordinator.job)
    /\ UNCHANGED <<oracleVars, trackerVars, size, unprocessedTasks, schedVars, replies,
                   unscheduled, oracleSchedules, running>>

SendOracleSchedule ==
    /\ Alive
    /\ coordinator.pc = "oracle" /\ Len(oracleSchedules) < OracleCap
    /\ oracleSchedules' = Append(oracleSchedules, coordinator.job)
    /\ Return
    /\ UNCHANGED <<oracleVars, trackerVars, size, unprocessedTasks, schedVars,
                   scheduledTasks, running>>

-----------------------------------------------------------------------------
(* The nodes and the EpochManager: a slot that a node works on may be       *)
(* finalized at any later time, whatever the Coordinator made of the call.  *)

SizeAfterUnclamped(t, n) == size[t] - n

\* UnprocessedTask.Process.
SizeAfter(t, n) == Max({0, size[t] - n})

Credit(slot) ==
    /\ Alive
    /\ slot \in running
    /\ running' = running \ {slot}
    /\ size' = [size EXCEPT ![slot.task] = SizeAfter(slot.task, slot.size)]
    /\ UNCHANGED <<oracleVars, trackerVars, unprocessedTasks, schedVars, coordVars,
                   scheduledTasks, oracleSchedules>>

\* Tracker.InitTask writes the map taskTracks while CollectExpire or the
\* EpochManager reads it; the Go runtime may stop the process.
TaskMapFault ==
    /\ ~crashed
    /\ tracker = Idle /\ initTasks # <<>>
    /\ (expire = Idle /\ timers # {}) \/ running # {}
    /\ crashed' = TRUE
    /\ UNCHANGED <<oracleVars, trackerVars, size, unprocessedTasks, schedVars, coordVars,
                   scheduledTasks, oracleSchedules, running>>
-----------------------------------------------------------------------------
(* The goroutines.                                                          *)

OracleStep == TakeInitTask \/ SendInitTask \/ SetTask \/ StoreSchedule

TrackerStep == TakeInit \/ SendInitRequest \/ TakeScheduled

CollectExpireStep ==
    NextExpired \/ SendExpiredRequest \/ \E t \in Task : ExpireTask(t)

SchedulerStep == Schedule \/ SendSchedule

CoordinatorStep ==
    OfferSlots \/ CountAnswers \/ SendRetry \/ SendScheduled \/ SendOracleSchedule

\* A call is answered or times out after 5 seconds.
CallEnds ==
    \E n \in Node : NodeAccepts(n) \/ NodeRejects(n) \/ CallFails(n) \/ NoConnection(n)

EpochManagerStep == \E slot \in running : Credit(slot)

Next ==
    \/ OracleStep
    \/ TrackerStep
    \/ CollectExpireStep
    \/ SchedulerStep
    \/ CoordinatorStep
    \/ CallEnds
    \/ EpochManagerStep
    \/ TaskMapFault

Spec == Init /\ [][Next]_vars

\* The Go scheduler runs every goroutine that can go on; timers run out and calls
\* end.  Nothing obliges a node to deliver.
Fairness ==
    /\ WF_vars(OracleStep) /\ WF_vars(TrackerStep) /\ WF_vars(CollectExpireStep)
    /\ WF_vars(SchedulerStep) /\ WF_vars(CoordinatorStep) /\ WF_vars(CallEnds)

FairSpec == Spec /\ Fairness
-----------------------------------------------------------------------------
Request == [task : Task, size : Nat]
ScheduleOf == [task : Task, size : Nat, id : Nat, index : Nat]
Slot == [task : Task, index : Nat, node : Node, size : Nat]

InRoom(queue, S, cap) == queue \in Seq(S) /\ Len(queue) <= cap

ChannelType ==
    /\ upchained \in Seq(Task)
    /\ InRoom(initTasks, Task, InitCap)
    /\ InRoom(unprocessedTasks, Request, UnprocessedCap)
    /\ InRoom(pendingSchedules, ScheduleOf, PendingCap)
    /\ InRoom(scheduledTasks, ScheduleOf, ScheduledCap)
    /\ InRoom(oracleSchedules, ScheduleOf, OracleCap)

GoroutineType ==
    /\ oracle \in {Idle} \cup [pc : {"initTask", "setTask"}, job : Task]
    /\ tracker \in {Idle} \cup [pc : {"request"}, job : Request]
    /\ expire \in {Idle} \cup [pc : {"next"}, job : Task]
                        \cup [pc : {"request"}, job : Request]
    /\ scheduler \in {Idle} \cup [pc : {"send"}, job : ScheduleOf]
    /\ coordinator \in {Idle} \cup [pc : {"ask", "retry", "scheduled", "oracle"},
                                   job : ScheduleOf]

RecordType ==
    /\ known \subseteq Task /\ timers \subseteq Task /\ retired \subseteq Task
    /\ stored \in [Task -> Seq(Nat)] /\ size \in [Task -> Nat]
    /\ schedules \in [Task -> Int] /\ \A t \in Task : schedules[t] >= -1
    /\ replies \in [Node -> {"none", "accept", "reject"}]
    /\ unscheduled \subseteq Slot /\ running \subseteq Slot
    /\ crashed \in BOOLEAN

(* Every channel holds what its readers expect and no more than it has room *)
(* for, and each goroutine has something in hand exactly between taking and *)
(* handing over.                                                            *)
TypeOK == ChannelType /\ GoroutineType /\ RecordType

InHand(t) ==
    [oracle      |-> oracle = Busy("initTask", t),
     tracker     |-> tracker # Idle /\ tracker.job.task = t,
     timers      |-> t \in timers,
     check       |-> expire = Busy("next", t),
     expire      |-> expire.pc = "request" /\ expire.job.task = t,
     scheduler   |-> scheduler # Idle /\ scheduler.job.task = t,
     coordinator |-> /\ coordinator.pc \in {"ask", "retry", "scheduled"}
                     /\ coordinator.job.task = t]

InChannel(t) ==
    [upchained        |-> {i \in DOMAIN upchained : upchained[i] = t},
     initTasks        |-> {i \in DOMAIN initTasks : initTasks[i] = t},
     unprocessedTasks |-> {i \in DOMAIN unprocessedTasks : unprocessedTasks[i].task = t},
     pendingSchedules |-> {i \in DOMAIN pendingSchedules : pendingSchedules[i].task = t},
     scheduledTasks   |-> {i \in DOMAIN scheduledTasks : scheduledTasks[i].task = t}]

(* Where a task is on its way: the goroutines and the channels that will act *)
(* on it.                                                                    *)
Holders(t) ==
    {<<h, 0>> : h \in {h \in DOMAIN InHand(t) : InHand(t)[h]}}
        \cup UNION {{c} \X InChannel(t)[c] : c \in DOMAIN InChannel(t)}

(* A task whose transaction is on the chain is in exactly one place until it *)
(* is done: whatever the nodes answer it is neither lost, nor scheduled      *)
(* twice at a time, nor given up while it lacks data.                        *)
TaskIsInOnePlace ==
    \A t \in Task :
        /\ Cardinality(Holders(t)) = (IF t \in retired THEN 0 ELSE 1)
        /\ t \in retired => size[t] = 0

(* What is asked for on behalf of a task, however long ago the request was   *)
(* made, is at least what the task still lacks.                              *)
RequestsCoverLack ==
    LET Covers(request) == request.size >= size[request.task] IN
    /\ \A i \in DOMAIN unprocessedTasks : Covers(unprocessedTasks[i])
    /\ \A i \in DOMAIN pendingSchedules : Covers(pendingSchedules[i])
    /\ tracker # Idle => Covers(tracker.job)
    /\ expire.pc = "request" => Covers(expire.job)
    /\ scheduler # Idle => Covers(scheduler.job)
    /\ coordinator.pc \in {"ask", "retry"} => Covers(coordinator.job)

(* The slots a schedule offers add up to what was asked for, or to a full    *)
(* slot for every node if that is less; and every node gets something.       *)
OfferIsEnough ==
    \A i \in DOMAIN pendingSchedules :
        LET schedule == pendingSchedules[i]
            offered == MapThenSumSet(LAMBDA slot : slot.size, SlotsOf(schedule))
        IN /\ offered >= Min({schedule.size, NodeCount * SlotSize[schedule.task]})
           /\ \A slot \in SlotsOf(schedule) : slot.size > 0

(* When sendSchedule hands a schedule on, the slots of it that were reported  *)
(* to the EpochManager as not scheduled are exactly those no node accepted.   *)
ExactlyRejectedSlotsAreReported ==
    coordinator.pc \in {"retry", "scheduled", "oracle"} =>
        unscheduled = {SlotOf(coordinator.job, n) : n \in Rejected}

(* UpdateScheduleInTask never meets a task that SetTask has not been called   *)
(* for, although the Tracker hears of the task first.  This is about the      *)
(* order only: an insert the database refuses is in Persistence.              *)
SchedulesOfKnownTasks == \A t \in Task : stored[t] # <<>> => t \in known

\* The Scheduler waits for the Coordinator and the Coordinator for the Scheduler:
\* itself, or through the Tracker, or through the Oracle and the Tracker.
TrackerWaits == tracker.pc = "request" /\ Len(unprocessedTasks) = UnprocessedCap

Wedged ==
    /\ scheduler.pc = "send" /\ Len(pendingSchedules) = PendingCap
    /\ \/ coordinator.pc = "retry" /\ Len(unprocessedTasks) = UnprocessedCap
       \/ /\ coordinator.pc = "scheduled" /\ Len(scheduledTasks) = ScheduledCap
          /\ TrackerWaits
       \/ /\ coordinator.pc = "oracle" /\ Len(oracleSchedules) = OracleCap
          /\ oracle.pc = "initTask" /\ Len(initTasks) = InitCap
          /\ TrackerWaits

(* It takes as many tasks on their way as the two channels between Scheduler  *)
(* and Coordinator hold, and two more, to wedge them: with fewer unfinished   *)
(* tasks than that the service cannot come to a halt in this way.             *)
WedgeNeedsFullChannels ==
    Wedged => Cardinality({t \in Task : Holders(t) # {}}) >= UnprocessedCap + PendingCap + 2

\* The bound of the model stops the Scheduler at its next request.
BoundReached ==
    /\ scheduler = Idle /\ unprocessedTasks # <<>>
    /\ LET t == Head(unprocessedTasks).task IN schedules[t] + 1 = ScheduleBound[t]

(* No task comes to rest unfinished: in the end the chain is drained and      *)
(* every task the Oracle knows is found finished, or tasks are scheduled      *)
(* again and again until the bound of the model holds the Scheduler, unless   *)
(* Scheduler and Coordinator have wedged each other or the process has died.  *)
(* More the code does not promise: a node may refuse, or accept and never     *)
(* deliver, and a request of size 0 goes round while the nodes answer.        *)
EveryTaskGoesOn ==
    <>[](\/ upchained = <<>> /\ oracle = Idle /\ known \subseteq retired
         \/ Wedged \/ crashed \/ BoundReached)

(* What the comment in sendSchedule says: a task is given back to the        *)
(* Scheduler when no node accepts.                                           *)
OnlyRejectedIsRescheduled ==
    coordinator.pc = "retry" => \A n \in Node : replies[n] = "reject"

(* What Task.UpdateSchedule assumes: schedules come without repetition.      *)
ScheduleIdsAreDistinct ==
    \A t \in Task : \A i, j \in DOMAIN stored[t] : i # j => stored[t][i] # stored[t][j]
=============================================================================
