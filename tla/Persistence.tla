---------------------------- MODULE Persistence ----------------------------
(***************************************************************************)
(* What reaches the database.  The Oracle is one goroutine that stores the *)
(* schedules it hears of and the transactions that come back from the      *)
(* chain, each in several writes; the process may end between any two of   *)
(* them, and a new one recovers from the tables or starts afresh.          *)
(*                                                                         *)
(* The chain upper is what TransactionDelivery promises of it and          *)
(* ChainUpper keeps.  Scheduler, Coordinator, Tracker and EpochManager,    *)
(* detailed in TaskScheduling and SlotLifecycle, are here only what feeds  *)
(* it: one schedule per task, a credit per slot, epochs.                   *)
(***************************************************************************)
EXTENDS Integers, Sequences, FiniteSets, FiniteSetsExt

CONSTANTS
    None,        \* no transaction in hand
    Task, Slot,
    TaskOf,      \* the task of a slot
    Size,        \* the size of a task
    Amounts,     \* the amounts a node may report for a slot
    MayFail,     \* bound: slots that a schedule may report as failed
    Asked,       \* bound: slots a user asks for
    MayMiss,     \* bound: tasks whose row the database may refuse
    OddDataset,  \* bound: tasks whose dataset may be given as something but a text
    EpochBound,  \* bound on the epochs that end before each restart
    CrashBound   \* bound on the restarts

InitTx(t)       == <<"init", t, 0>>
ProcessTx(s, a) == <<"process", s, a>>
EpochTx(k)      == <<"epoch", k, 0>>

Tx == {InitTx(t) : t \in Task} \cup {EpochTx(k) : k \in 1 .. EpochBound * (CrashBound + 1)}
            \cup UNION {{ProcessTx(s, a) : a \in Amounts[s]} : s \in Slot}

ASSUME PersistenceAssumption ==
    /\ TaskOf \in [Slot -> Task] /\ Size \in [Task -> Nat \ {0}]
    /\ Amounts \in [Slot -> SUBSET Nat] /\ MayFail \subseteq Slot /\ Asked \subseteq Slot
    /\ MayMiss \subseteq Task /\ OddDataset \subseteq Task
    /\ EpochBound \in Nat /\ CrashBound \in Nat
    /\ None \notin Tx

VARIABLES
    handed, delivered, lost,  \* transactions, as in TransactionDelivery
    started,          \* tasks sent to InitTasks: Scheduler and Tracker know them
    schedule,         \* per task, how far its schedule is
    rejected,         \* slots whose schedule says Failed
    offered,          \* slots that nodes hold (they outlive the master)
    committed,        \* slots the Tracker holds
    oracleSchedules,  \* channel OracleSchedules
    record,           \* EpochManager.epochRecord, without Tasks
    initTasks,        \* channel EpochInitTaskChannel
    epochLog,         \* the record in each epoch transaction
    oracle,           \* what the Oracle is doing, with which transaction; after a panic
                      \* the tasks it is about
    monitor,          \* slots pending and finished in the node statistics
    db,               \* the tables
    finishes,         \* DateRecord: how often a task was counted as finished
    restarts,         \* how often the process was restarted
    overtaken,        \* history: slots whose row was there before their schedule
    torn,             \* history: process transactions cut short by a crash, and where
    missed            \* history: tasks whose row the database refused

Upper  == INSTANCE TransactionDelivery
upper  == <<handed, delivered, lost>>
nodes  == <<started, schedule, rejected, offered, committed, oracleSchedules>>
epochs == <<record, initTasks, epochLog>>
past   == <<restarts, overtaken, torn, missed>>
vars   == <<upper, nodes, epochs, oracle, monitor, db, finishes, past>>

NoRow   == [status |-> "none", task |-> FALSE, node |-> FALSE]
NoTask  == [status |-> "none", process |-> 0, scheduled |-> FALSE]
Idle    == [pc |-> "idle", tx |-> None, tasks |-> {}]
Doing(pc, tx) == [pc |-> pc, tx |-> tx, tasks |-> {}]
EmptyRecord(id) == [id |-> id, commits |-> {}, finalizes |-> {}, invalids |-> {}]
EmptyDb == [tasks |-> [t \in Task |-> NoTask], slots |-> [s \in Slot |-> NoRow],
            transactions |-> {}, epochs |-> {}]

Init ==
    /\ Upper!Init
    /\ started = {} /\ schedule = [t \in Task |-> "none"] /\ rejected = {}
    /\ offered = {} /\ committed = {} /\ oracleSchedules = <<>>
    /\ record = EmptyRecord(0) /\ initTasks = {} /\ epochLog = <<>>
    /\ oracle = Idle
    /\ monitor = [pending |-> {}, finished |-> {}]
    /\ db = EmptyDb /\ finishes = [t \in Task |-> 0]
    /\ restarts = 0 /\ overtaken = {} /\ torn = {} /\ missed = {}

Stored(t) == db.tasks[t].status # "none"
SlotsOf(t) == {s \in Slot : TaskOf[s] = t}

\* GetSlot is FirstOrCreate: asking for a slot leaves a row without a task.
WithRows(slots, asked) ==
    [s \in Slot |-> IF s \in asked /\ slots[s] = NoRow
                    THEN [NoRow EXCEPT !.status = "Processing"] ELSE slots[s]]

-----------------------------------------------------------------------------
(* What the rest of the master and the nodes do.                           *)

\* An HTTP request creates a task; its transaction waits for the chain.
CreateTask(t) ==
    /\ Upper!Hand(InitTx(t))
    /\ UNCHANGED <<nodes, epochs, oracle, monitor, db, finishes, past>>

\* The Coordinator offers the slots of a task to the nodes, which may deliver them
\* from then on.
Offer(t) ==
    /\ t \in started /\ schedule[t] = "none"
    /\ schedule' = [schedule EXCEPT ![t] = "offered"]
    /\ offered' = offered \cup SlotsOf(t)
    /\ UNCHANGED <<upper, started, rejected, committed, oracleSchedules, epochs, oracle,
                   monitor, db, finishes, past>>

\* When every node has answered or timed out, the slots that failed are reported to
\* the EpochManager, and the schedule to the Oracle unless all of them did.  A node
\* whose answer came too late holds its slot all the same.
SendSchedule(t, failed) ==
    /\ schedule[t] = "offered"
    /\ schedule' = [schedule EXCEPT ![t] = "sent"]
    /\ rejected' = rejected \cup failed
    /\ record' = [record EXCEPT !.invalids = @ \cup failed]
    /\ oracleSchedules' = IF failed = SlotsOf(t) THEN oracleSchedules
                          ELSE Append(oracleSchedules, t)
    /\ UNCHANGED <<upper, started, offered, committed, initTasks, epochLog,
                   oracle, monitor, db, finishes, past>>

CommitSlot(s) ==
    /\ s \in offered \ committed
    /\ committed' = committed \cup {s}
    /\ record' = [record EXCEPT !.commits = @ \cup {s}]
    /\ UNCHANGED <<upper, started, schedule, rejected, offered, oracleSchedules,
                   initTasks, epochLog, oracle, monitor, db, finishes, past>>

\* (Variant: Tracker.Commit does not look for the task.)
TracksAnyTask(t) == TRUE
Tracks(t) == t \in started

FinalizeSlot(s, a) ==
    /\ s \in committed /\ Tracks(TaskOf[s]) /\ a \in Amounts[s]
    /\ \A b \in Amounts[s] : ProcessTx(s, b) \notin handed
    /\ Upper!Hand(ProcessTx(s, a))
    /\ record' = [record EXCEPT !.finalizes = @ \cup {s}]
    /\ UNCHANGED <<nodes, initTasks, epochLog, oracle, monitor, db,
                   finishes, past>>

\* UpdateEpoch: the record is copied, a goroutine sends the copy, and the maps of
\* the record are replaced.  (All but Tasks, which the copies share.)
EpochTick ==
    /\ Len(epochLog) < EpochBound * (restarts + 1)
    /\ Upper!Hand(EpochTx(Len(epochLog) + 1))
    /\ epochLog' = Append(epochLog, record)
    /\ record' = EmptyRecord(record.id + 1)
    /\ UNCHANGED <<nodes, initTasks, oracle, monitor, db, finishes, past>>

\* The EpochManager takes a task from EpochInitTaskChannel and writes it into Tasks.
TakeInitTask(t) ==
    /\ t \in initTasks
    /\ initTasks' = initTasks \ {t}
    /\ UNCHANGED <<upper, nodes, record, epochLog, oracle, monitor, db, finishes, past>>

-----------------------------------------------------------------------------
(* The Oracle.                                                             *)

\* The process ends; why, and about which tasks, is kept.
Panic(why, about) == oracle' = [pc |-> why, tx |-> None, tasks |-> about]

\* (Variant: a row that exists is written anew.)
OverwriteRow(row, failed) ==
    [status |-> IF failed THEN "Failed" ELSE "Processing", task |-> TRUE, node |-> TRUE]

\* UpdateSlotFromSchedule: a row that exists gets the task but not the node, unless
\* the schedule says Failed, and then gets everything but the commit and the epoch.
ScheduledRow(row, failed) ==
    IF failed THEN [status |-> "Failed", task |-> TRUE, node |-> TRUE]
    ELSE IF row = NoRow THEN [status |-> "Processing", task |-> TRUE, node |-> TRUE]
    ELSE [row EXCEPT !.task = TRUE]

StoreSchedule ==
    /\ oracle.pc = "idle" /\ oracleSchedules # <<>>
    /\ LET t == Head(oracleSchedules) IN
         IF ~Stored(t)
         THEN Panic("unknown task", {t}) /\ UNCHANGED <<monitor, db, overtaken>>
         ELSE /\ db' = [db EXCEPT !.tasks[t].scheduled = TRUE,
                                  !.slots = [s \in Slot |-> IF s \in SlotsOf(t)
                                               THEN ScheduledRow(@[s], s \in rejected) ELSE @[s]]]
              /\ monitor' = [monitor EXCEPT !.pending = @ \cup (SlotsOf(t) \ rejected)]
              /\ overtaken' = overtaken \cup {s \in SlotsOf(t) : db.slots[s] # NoRow}
              /\ UNCHANGED oracle
    /\ oracleSchedules' = Tail(oracleSchedules)
    /\ UNCHANGED <<upper, started, schedule, rejected, offered, committed, epochs,
                   finishes, restarts, torn, missed>>

Take(tx, kind) ==
    /\ oracle.pc = "idle" /\ tx[1] = kind /\ Upper!Deliver(tx)

\* InitTaskTransaction: EpochManager and Scheduler hear of the task before the
\* transaction and the task are stored.
StartTask(tx) ==
    /\ Take(tx, "init")
    /\ initTasks' = initTasks \cup {tx[2]}
    /\ started' = started \cup {tx[2]}
    /\ oracle' = Doing("initTx", tx)
    /\ UNCHANGED <<schedule, rejected, offered, committed, oracleSchedules, record,
                   epochLog, monitor, db, finishes, past>>

\* (Variant: the transaction is not stored.)
SkipTransaction == db' = db
\* SetTransaction, before every row that refers to the transaction.
SetTransaction == db' = [db EXCEPT !.transactions = @ \cup {oracle.tx}]

StoreInitTx ==
    /\ oracle.pc = "initTx"
    /\ SetTransaction
    /\ oracle' = [oracle EXCEPT !.pc = "initTask"]
    /\ UNCHANGED <<upper, nodes, epochs, monitor, finishes, past>>

\* The error of the insert is dropped: the request checks no length, so a name may
\* be too long for its column.  Then the dataset is read, and the Oracle panics when
\* it is given but is not a text.
InsertTask(t) ==
    \/ /\ db' = [db EXCEPT !.tasks[t] = [NoTask EXCEPT !.status = "Processing"]]
       /\ UNCHANGED missed
    \/ t \in MayMiss /\ missed' = missed \cup {t} /\ UNCHANGED db

SetTask ==
    /\ oracle.pc = "initTask"
    /\ LET t == oracle.tx[2] IN
         /\ InsertTask(t)
         /\ \/ oracle' = Idle
            \/ t \in OddDataset /\ Panic("dataset", {t})
    /\ UNCHANGED <<upper, nodes, epochs, monitor, finishes, restarts, overtaken, torn>>

\* EpochRecordTransaction: the slots of the record are looked up, and for commits
\* and finalized slots also their tasks.  A row without a task finds any task, and
\* a nil one when there is none.
ReadEpoch(tx) ==
    /\ Take(tx, "epoch")
    /\ LET r      == epochLog[tx[2]]
           typed  == r.commits \cup r.finalizes
           rows   == WithRows(db.slots, typed \cup r.invalids)
           bare   == {s \in typed : ~rows[s].task}
       IN  IF bare # {} /\ \A t \in Task : ~Stored(t)
           THEN Panic("nil task", {TaskOf[s] : s \in bare}) /\ db' = [db EXCEPT !.slots = WithRows(@, typed)]
           ELSE oracle' = Doing("epochTx", tx) /\ db' = [db EXCEPT !.slots = rows]
    /\ UNCHANGED <<nodes, epochs, monitor, finishes, past>>

\* The loop over the shared map Tasks, whose tasks are left out; then the transaction
\* is stored.
StoreEpochTx ==
    /\ oracle.pc = "epochTx"
    /\ SetTransaction
    /\ oracle' = [oracle EXCEPT !.pc = "epoch"]
    /\ UNCHANGED <<upper, nodes, epochs, monitor, finishes, past>>

\* The EpochManager writes the map while the Oracle ranges over it.
MapFault ==
    /\ oracle.pc = "epochTx" /\ initTasks # {}
    /\ Panic("map fault", {})
    /\ UNCHANGED <<upper, nodes, epochs, monitor, db, finishes, past>>

\* SetEpoch: the primary key is the EpochID; a second one is an error that is only
\* logged.
SetEpoch ==
    /\ oracle.pc = "epoch"
    /\ LET id == epochLog[oracle.tx[2]].id IN
         db' = IF \E e \in db.epochs : e.id = id THEN db
               ELSE [db EXCEPT !.epochs = @ \cup {[id |-> id, tx |-> oracle.tx]}]
    /\ oracle' = Idle
    /\ UNCHANGED <<upper, nodes, epochs, monitor, finishes, past>>

\* (Variant: the slot is not taken from the pending ones.)
KeepPending(s) == monitor' = [monitor EXCEPT !.finished = @ \cup {s}]
\* Monitor: UpdateFinishSlot.
UpdateFinishSlot(s) ==
    monitor' = [pending |-> monitor.pending \ {s}, finished |-> monitor.finished \cup {s}]

\* TaskProcessTransaction: first the Monitor, then the transaction.
StartProcess(tx) ==
    /\ Take(tx, "process")
    /\ IF ~Stored(TaskOf[tx[2]])
       THEN Panic("unknown task", {TaskOf[tx[2]]}) /\ UNCHANGED <<monitor, db>>
       ELSE /\ UpdateFinishSlot(tx[2])
            /\ db' = [db EXCEPT !.transactions = @ \cup {tx}]
            /\ oracle' = Doing("slot", tx)
    /\ UNCHANGED <<nodes, epochs, finishes, past>>

SetSlotFinish ==
    /\ oracle.pc = "slot"
    /\ db' = [db EXCEPT !.slots = [WithRows(@, {oracle.tx[2]})
                                     EXCEPT ![oracle.tx[2]].status = "Finished"]]
    /\ oracle' = [oracle EXCEPT !.pc = "increment"]
    /\ UNCHANGED <<upper, nodes, epochs, monitor, finishes, past>>

\* (Variants: the progress is clamped as in the Tracker; the last slot is missed.)
ClampedProcess(t, amount) == Min({Size[t], db.tasks[t].process + amount})
NextProcess(t, amount) == db.tasks[t].process + amount

IsFinishWhenOver(t, process) == process > Size[t]
IsFinish(t, process) == process >= Size[t]

\* IncrementTaskProcessAndGet, in one database transaction.  HasbeenCollect is not
\* stored, so it is false in what comes back.
Increment ==
    /\ oracle.pc = "increment"
    /\ LET t == TaskOf[oracle.tx[2]]
           process == NextProcess(t, oracle.tx[3])
       IN  /\ db' = [db EXCEPT !.tasks[t].process = process]
           /\ oracle' = IF IsFinish(t, process) THEN [oracle EXCEPT !.pc = "finish"] ELSE Idle
    /\ UNCHANGED <<upper, nodes, epochs, monitor, finishes, past>>

UpdateTask ==
    /\ oracle.pc = "finish"
    /\ db' = [db EXCEPT !.tasks[TaskOf[oracle.tx[2]]].status = "Finished"]
    /\ oracle' = [oracle EXCEPT !.pc = "date"]
    /\ UNCHANGED <<upper, nodes, epochs, monitor, finishes, past>>

UpdateDateRecord ==
    /\ oracle.pc = "date"
    /\ finishes' = [finishes EXCEPT ![TaskOf[oracle.tx[2]]] = @ + 1]
    /\ oracle' = Idle
    /\ UNCHANGED <<upper, nodes, epochs, monitor, db, past>>

\* A query for a slot (SlotIntegrityVerification) goes through GetSlot too.
QuerySlot(s) ==
    /\ s \in Asked /\ db.slots[s] = NoRow
    /\ db' = [db EXCEPT !.slots = WithRows(@, {s})]
    /\ UNCHANGED <<upper, nodes, epochs, oracle, monitor, finishes, past>>

-----------------------------------------------------------------------------
(* Crash and restart.                                                      *)

GiveUp(row) == IF row.status = "Processing" THEN [row EXCEPT !.status = "Failed"] ELSE row

\* RecoverFromDataBase: what was processing has failed.
Recovered == [db EXCEPT !.slots = [s \in Slot |-> GiveUp(@[s])],
                        !.tasks = [t \in Task |-> GiveUp(@[t])]]

\* GetMaxEpochID, -1 for an empty table.
MaxEpochID(D) == IF D.epochs = {} THEN -1 ELSE Max({e.id : e \in D.epochs})

FirstEpochID(D) == MaxEpochID(D) + 1

\* The process ends, by a panic or not, and a new one starts on the tables D.  Of
\* the records in memory only the history stays that the properties need.
RestartOn(D) ==
    /\ restarts < CrashBound
    /\ restarts' = restarts + 1
    /\ Upper!Lose(Upper!Waiting)
    /\ started' = {} /\ committed' = {} /\ oracleSchedules' = <<>> /\ initTasks' = {}
    /\ schedule' = [t \in Task |-> IF schedule[t] = "none" THEN "none" ELSE "sent"]
    /\ record' = EmptyRecord(FirstEpochID(D))
    /\ oracle' = Idle
    /\ monitor' = [pending |-> {}, finished |-> {}]
    /\ db' = D
    /\ torn' = torn \cup (IF oracle.pc \in {"slot", "increment", "finish"}
                          THEN {<<oracle.pc, oracle.tx>>} ELSE {})
    /\ epochLog' = [k \in DOMAIN epochLog |-> EmptyRecord(epochLog[k].id)]
    /\ UNCHANGED <<rejected, offered, overtaken, missed>>

Recover == RestartOn(Recovered) /\ UNCHANGED finishes

\* IsRecovery is off: TruncateAll.
StartAfresh == RestartOn(EmptyDb) /\ finishes' = [t \in Task |-> 0]

-----------------------------------------------------------------------------
OracleStep ==
    \/ StoreSchedule
    \/ \E tx \in Tx : StartTask(tx) \/ ReadEpoch(tx) \/ StartProcess(tx)
    \/ StoreInitTx \/ SetTask
    \/ StoreEpochTx \/ MapFault \/ SetEpoch
    \/ SetSlotFinish \/ Increment \/ UpdateTask \/ UpdateDateRecord

\* A transaction the chain upper loses is one that never comes back.
Next ==
    \/ OracleStep
    \/ \E t \in Task : CreateTask(t) \/ Offer(t) \/ TakeInitTask(t)
    \/ \E t \in Task : \E failed \in SUBSET (SlotsOf(t) \cap MayFail) : SendSchedule(t, failed)
    \/ \E s \in Slot : CommitSlot(s) \/ QuerySlot(s)
    \/ \E s \in Slot : \E a \in Amounts[s] : FinalizeSlot(s, a)
    \/ EpochTick
    \/ Recover \/ StartAfresh

Spec == Init /\ [][Next]_vars

-----------------------------------------------------------------------------
(* Properties.                                                             *)

TypeOK ==
    /\ handed \cup lost \subseteq Tx
    /\ started \subseteq Task /\ schedule \in [Task -> {"none", "offered", "sent"}]
    /\ rejected \cup offered \cup committed \cup overtaken \subseteq Slot
    /\ oracleSchedules \in Seq(Task)
    /\ record \in [id : Nat, commits : SUBSET Slot, finalizes : SUBSET Slot,
                   invalids : SUBSET Slot]
    /\ initTasks \cup missed \subseteq Task
    /\ Len(epochLog) <= EpochBound * (CrashBound + 1)
    /\ oracle.tx \in Tx \cup {None} /\ oracle.tasks \subseteq Task
    /\ monitor \in [pending : SUBSET Slot, finished : SUBSET Slot]
    /\ db.tasks \in [Task -> [status : {"none", "Processing", "Finished", "Failed"},
                              process : Int, scheduled : BOOLEAN]]
    /\ db.slots \in [Slot -> [status : {"none", "Processing", "Finished", "Failed"},
                              task : BOOLEAN, node : BOOLEAN]]
    /\ db.transactions \subseteq Tx
    /\ finishes \in [Task -> Nat] /\ restarts \in 0 .. CrashBound

\* The process transactions of a task whose writes have come as far as the credit.
Credits(t) ==
    {tx \in db.transactions :
        /\ tx[1] = "process" /\ TaskOf[tx[2]] = t
        /\ ~(oracle.pc \in {"slot", "increment"} /\ oracle.tx = tx)
        /\ <<"slot", tx>> \notin torn /\ <<"increment", tx>> \notin torn}

\* Across all interleavings, crashes and restarts, the progress stored for a task is
\* the sum of its stored transactions, except those a crash cut off, and the slots
\* of those are finished, except where a later schedule says the slot had failed.
CreditsMatchRows ==
    \A t \in Task :
        /\ db.tasks[t].process = MapThenSumSet(LAMBDA tx : tx[3], Credits(t))
        /\ \A tx \in Credits(t) :
              db.slots[tx[2]].status = "Finished" \/ tx[2] \in rejected

\* A task is stored as finished when and only when its progress reaches its size,
\* but for the moment between the two writes, or a crash there.
FinishedTaskIsComplete ==
    \A t \in Task :
        /\ db.tasks[t].status = "Finished" => db.tasks[t].process >= Size[t]
        /\ Stored(t) /\ db.tasks[t].process >= Size[t] =>
             \/ db.tasks[t].status = "Finished"
             \/ oracle.pc = "finish" /\ TaskOf[oracle.tx[2]] = t
             \/ \E c \in torn : c[1] = "finish" /\ TaskOf[c[2][2]] = t

\* A task is counted as finished more than once only if nodes delivered more than
\* its size or a slot without any data, though HasbeenCollect never holds a second
\* time.
FinishedTwiceOnlyIfOverdelivered ==
    \A t \in Task : finishes[t] > 1 =>
        \/ db.tasks[t].process > Size[t]
        \/ \E s \in SlotsOf(t) : ProcessTx(s, 0) \in db.transactions

\* The Oracle meets a task without a row only when the database refused that row, a
\* refusal nobody hears of; only its use of a nil task, for the slots of an epoch
\* record, can also come from slots that nodes got from an earlier master.
PanicsNeedARefusedRow ==
    /\ oracle.pc = "unknown task" => oracle.tasks \subseteq missed
    /\ oracle.pc = "nil task" => oracle.tasks \subseteq missed \/ restarts > 0

\* What refers to a transaction finds it in the table, at every moment and so after
\* every crash: tasks, epochs and finished slots.
RowsPointToTransactions ==
    /\ \A t \in Task : Stored(t) => InitTx(t) \in db.transactions
    /\ \A e \in db.epochs : e.tx \in db.transactions
    /\ \A s \in Slot : db.slots[s].status = "Finished" =>
          \E a \in Amounts[s] : ProcessTx(s, a) \in db.transactions

\* An epoch is stored under an ID no stored epoch has, whatever order the workers
\* finish in and whatever a crash lost.
EpochIdsAreFresh ==
    oracle.pc = "epoch" =>
        \A e \in db.epochs : e.id # epochLog[oracle.tx[2]].id

\* A slot whose schedule reaches the database before anything else asks for it has
\* its node in the row, and is not pending in the statistics once it finished.  (The
\* others keep node 0, which a collection will ask, and stay pending for ever.)
FirstScheduledIsConsistent ==
    \A s \in Slot \ overtaken :
        /\ db.slots[s].task => db.slots[s].node
        /\ s \notin monitor.pending \cap monitor.finished

\* A task that recovery gave up is never taken up again: no late slot of a node, and
\* no transaction of an earlier master, moves it.
GivenUpStaysGivenUp ==
    [][\A t \in Task : db.tasks[t].status = "Failed" =>
          db'.tasks[t] = db.tasks[t] \/ db' = EmptyDb]_vars
=============================================================================
