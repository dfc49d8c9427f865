------------------------- MODULE PersistenceProofs -------------------------
(* Facts about Persistence for every set of tasks and slots, all amounts,    *)
(* and any number of epochs and restarts.                                    *)
EXTENDS Persistence, TLAPS

-----------------------------------------------------------------------------
(* Transactions.                                                             *)

\* A transaction is of one of three kinds, and its fields determine it.
LEMMA TxFacts ==
    /\ \A t, u : InitTx(t) = InitTx(u) => t = u
    /\ \A t : InitTx(t)[1] = "init" /\ InitTx(t)[2] = t
    /\ \A s, a : ProcessTx(s, a)[1] = "process" /\ ProcessTx(s, a)[2] = s
                 /\ ProcessTx(s, a)[3] = a
    /\ \A k : EpochTx(k)[1] = "epoch" /\ EpochTx(k)[2] = k
  BY DEF InitTx, ProcessTx, EpochTx

\* A transaction whose kind is known is that of some task, slot or epoch.
LEMMA TxKinds ==
    ASSUME NEW tx \in Tx
    PROVE  /\ tx[1] = "init" => \E t \in Task : tx = InitTx(t)
           /\ tx[1] = "process" =>
                 \E s \in Slot : \E a \in Amounts[s] : tx = ProcessTx(s, a)
           /\ tx[1] = "epoch" =>
                 \E k \in 1 .. EpochBound * (CrashBound + 1) : tx = EpochTx(k)
  BY TxFacts DEF Tx

\* What the promise of the chain upper says of the transactions on their way.
LEMMA UpperFacts ==
    ASSUME handed \subseteq Tx, delivered \in [Tx -> Nat]
    PROVE  /\ \A tx : Upper!Hand(tx) =>
                 /\ tx \in Tx /\ tx \notin handed /\ handed' = handed \cup {tx}
                 /\ delivered' = delivered
                 /\ Upper!Waiting' \subseteq Upper!Waiting \cup {tx}
           /\ \A tx : Upper!Deliver(tx) =>
                 /\ tx \in Upper!Waiting /\ tx \in Tx /\ handed' = handed
                 /\ delivered' \in [Tx -> Nat]
                 /\ Upper!Waiting' \subseteq Upper!Waiting \ {tx}
           /\ Upper!Lose(Upper!Waiting) =>
                 handed' = handed /\ delivered' = delivered /\ Upper!Waiting' = {}
           /\ UNCHANGED upper =>
                 handed' = handed /\ delivered' = delivered /\ Upper!Waiting' = Upper!Waiting
           /\ Upper!Waiting \subseteq handed
  BY DEF Upper!Hand, Upper!Deliver, Upper!Lose, Upper!Waiting, upper

-----------------------------------------------------------------------------
(* The invariant.                                                            *)

Status == {"none", "Processing", "Finished", "Failed"}
TaskRow == [status : Status, process : Int, scheduled : BOOLEAN]
SlotRow == [status : Status, task : BOOLEAN, node : BOOLEAN]
EpochRecord == [id : Int, commits : SUBSET Slot, finalizes : SUBSET Slot,
                invalids : SUBSET Slot]

Shape ==
    /\ db = [tasks |-> db.tasks, slots |-> db.slots, transactions |-> db.transactions,
             epochs |-> db.epochs]
    /\ db.tasks \in [Task -> TaskRow] /\ db.slots \in [Slot -> SlotRow]
    /\ oracle = [pc |-> oracle.pc, tx |-> oracle.tx, tasks |-> oracle.tasks]
    /\ handed \subseteq Tx /\ delivered \in [Tx -> Nat]
    /\ started \subseteq Task /\ schedule \in [Task -> {"none", "offered", "sent"}]
    /\ oracleSchedules \in Seq(started)
    /\ restarts \in Nat

AtInit(t) == oracle.pc \in {"initTx", "initTask"} /\ oracle.tx = InitTx(t)

\* The Oracle has a transaction of the right kind in hand.
OracleFits ==
    /\ oracle.pc \in {"initTx", "initTask"} => \E t \in started : oracle.tx = InitTx(t)
    /\ oracle.pc \in {"slot", "increment", "finish", "date"} =>
          /\ oracle.tx \in db.transactions
          /\ \E s \in Slot : \E a \in Amounts[s] :
                oracle.tx = ProcessTx(s, a) /\ TaskOf[s] \in started /\ Stored(TaskOf[s])
    /\ oracle.pc \in {"epochTx", "epoch"} => oracle.tx[1] = "epoch"
    /\ oracle.pc \in {"initTask", "epoch"} => oracle.tx \in db.transactions

\* Schedules and slots on their way are of tasks this process started, and those
\* are stored and not given up, but for the one that is being stored and the refused.
Fine(t) ==
    \/ db.tasks[t].status \in {"Processing", "Finished"}
    \/ t \in missed /\ ~Stored(t)
Started ==
    /\ \A t \in Task : schedule[t] = "offered" => t \in started
    /\ \A t \in started : AtInit(t) \/ Fine(t)
    /\ \A t \in Task : Stored(t) \/ t \in started =>
          InitTx(t) \in handed /\ InitTx(t) \notin Upper!Waiting
    /\ \A t \in Task : AtInit(t) => ~Stored(t)
    /\ \A s \in Slot : \A a \in Amounts[s] :
          ProcessTx(s, a) \in Upper!Waiting => TaskOf[s] \in started

\* Up to the first restart the epoch records only name slots of started tasks.
OfStarted(S) == \A s \in S : s \in Slot /\ TaskOf[s] \in started
FirstLife ==
    restarts = 0 =>
        /\ OfStarted(offered) /\ OfStarted(committed)
        /\ record \in EpochRecord /\ OfStarted(record.commits) /\ OfStarted(record.finalizes)
        /\ initTasks \subseteq Task
        /\ epochLog \in Seq(EpochRecord)
        /\ \A k \in 1 .. Len(epochLog) :
              OfStarted(epochLog[k].commits) /\ OfStarted(epochLog[k].finalizes)
        /\ \A k \in Nat : EpochTx(k) \in handed => k \in 1 .. Len(epochLog)

Inv == /\ Shape /\ OracleFits /\ Started /\ FirstLife
       /\ PanicsNeedARefusedRow /\ RowsPointToTransactions

\* The first state.
LEMMA InvInit == Init => Inv
<1> SUFFICES ASSUME Init PROVE Inv
  OBVIOUS
<1> USE DEF Init
<1>1. handed = {} /\ delivered = [tx \in Tx |-> 0] /\ lost = {} /\ Upper!Waiting = {}
  BY DEF Upper!Init, Upper!Waiting
<1>2. Shape
  BY <1>1 DEF Shape, EmptyDb, NoTask, NoRow, Idle, TaskRow, SlotRow, Status
<1>3. OracleFits /\ PanicsNeedARefusedRow
  BY DEF OracleFits, PanicsNeedARefusedRow, Idle
<1>4. \A t \in Task : ~Stored(t) /\ ~AtInit(t)
  BY DEF Stored, AtInit, EmptyDb, NoTask, Idle
<1>5. Started
  BY <1>1, <1>4 DEF Started
<1>6. FirstLife
  BY <1>1 DEF FirstLife, OfStarted, EpochRecord, EmptyRecord
<1>7. RowsPointToTransactions
  BY <1>4 DEF RowsPointToTransactions, EmptyDb, NoRow
<1> QED BY <1>2, <1>3, <1>5, <1>6, <1>7 DEF Inv

-----------------------------------------------------------------------------
(* The steps that leave the tables and the Oracle alone.                     *)

\* The rows and what the Oracle does are not touched.
LEMMA TablesKept ==
    ASSUME Inv, UNCHANGED <<oracle, db, missed, restarts>>, started \subseteq started'
    PROVE  OracleFits' /\ PanicsNeedARefusedRow' /\ RowsPointToTransactions'
<1>1. OracleFits'
  BY DEF Inv, OracleFits, Stored
<1>2. PanicsNeedARefusedRow' /\ RowsPointToTransactions'
  BY DEF Inv, PanicsNeedARefusedRow, RowsPointToTransactions, Stored
<1> QED BY <1>1, <1>2

\* A new transaction that is not of a started or stored task, or is of a slot of a
\* started one, keeps what was started known.
LEMMA HandKeepsStarted ==
    ASSUME Inv, NEW tx \in Tx, tx \notin handed, handed' = handed \cup {tx},
           Upper!Waiting' \subseteq Upper!Waiting \cup {tx},
           \A s \in Slot : \A a \in Amounts[s] : tx = ProcessTx(s, a) => TaskOf[s] \in started,
           UNCHANGED <<started, schedule, oracle, db, missed>>
    PROVE  Started'
  BY DEF Inv, Started, AtInit, Stored, Fine

\* What the rest of the master and the nodes do keeps the invariant: a transaction
\* goes out, a schedule or a slot moves on, an epoch ends.
LEMMA OthersKeepInv ==
    ASSUME Inv,
           \/ \E t \in Task : CreateTask(t) \/ Offer(t) \/ TakeInitTask(t)
           \/ \E t \in Task : \E failed \in SUBSET (SlotsOf(t) \cap MayFail) :
                  SendSchedule(t, failed)
           \/ \E s \in Slot : CommitSlot(s)
           \/ \E s \in Slot : \E a \in Amounts[s] : FinalizeSlot(s, a)
           \/ EpochTick
    PROVE  Inv'
<1> USE PersistenceAssumption
<1>u. /\ handed \subseteq Tx /\ delivered \in [Tx -> Nat] /\ Upper!Waiting \subseteq handed
      /\ started \subseteq Task /\ schedule \in [Task -> {"none", "offered", "sent"}]
      /\ oracleSchedules \in Seq(started)
  BY UpperFacts DEF Inv, Shape
<1>1. ASSUME NEW t \in Task, CreateTask(t) PROVE Inv'
  <2>1. /\ InitTx(t) \notin handed /\ InitTx(t) \in Tx /\ handed' = handed \cup {InitTx(t)}
        /\ delivered' = delivered /\ Upper!Waiting' \subseteq Upper!Waiting \cup {InitTx(t)}
        /\ UNCHANGED <<nodes, epochs, oracle, db, past>>
    BY <1>1, <1>u, UpperFacts DEF CreateTask
  <2>2. /\ UNCHANGED <<started, schedule, rejected, offered, committed, oracleSchedules,
                       record, initTasks, epochLog, oracle, db, restarts, missed>>
    BY <2>1 DEF nodes, epochs, past
  <2>3. Shape' /\ FirstLife'
    BY <2>1, <2>2, TxFacts DEF Inv, Shape, FirstLife, OfStarted
  <2>4. Started'
    BY <2>1, <2>2, TxFacts, HandKeepsStarted
  <2> QED BY <2>2, <2>3, <2>4, TablesKept DEF Inv
<1>2. ASSUME NEW t \in Task, Offer(t) PROVE Inv'
  <2>1. /\ t \in started /\ schedule' = [schedule EXCEPT ![t] = "offered"]
        /\ offered' = offered \cup SlotsOf(t)
        /\ UNCHANGED <<started, rejected, committed, oracleSchedules, record,
                       initTasks, epochLog, oracle, db, restarts, missed, handed, delivered,
                       Upper!Waiting>>
    BY <1>2, <1>u, UpperFacts DEF Offer, epochs, past
  <2>2. Shape' /\ FirstLife'
    BY <2>1 DEF Inv, Shape, FirstLife, OfStarted, SlotsOf
  <2>3. Started'
    BY <1>u, <2>1 DEF Inv, Started, AtInit, Stored, Fine
  <2> QED BY <2>1, <2>2, <2>3, TablesKept DEF Inv
<1>3. ASSUME NEW t \in Task, TakeInitTask(t) PROVE Inv'
  <2>1. /\ initTasks' = initTasks \ {t}
        /\ UNCHANGED <<started, schedule, rejected, offered, committed, oracleSchedules,
                       record, epochLog, oracle, db, restarts, missed, handed, delivered,
                       Upper!Waiting>>
    BY <1>3, <1>u, UpperFacts DEF TakeInitTask, nodes, past
  <2>2. Shape' /\ FirstLife' /\ Started'
    BY <2>1 DEF Inv, Shape, FirstLife, OfStarted, Started, AtInit, Stored, Fine
  <2> QED BY <2>1, <2>2, TablesKept DEF Inv
<1>4. ASSUME NEW t \in Task, NEW failed \in SUBSET (SlotsOf(t) \cap MayFail),
             SendSchedule(t, failed)
      PROVE  Inv'
  <2>1. /\ schedule[t] = "offered" /\ schedule' = [schedule EXCEPT ![t] = "sent"]
        /\ record' = [record EXCEPT !.invalids = @ \cup failed]
        /\ oracleSchedules' \in {oracleSchedules, Append(oracleSchedules, t)}
        /\ UNCHANGED <<started, offered, committed, initTasks, epochLog, oracle,
                       db, restarts, missed, handed, delivered, Upper!Waiting>>
    BY <1>4, <1>u, UpperFacts DEF SendSchedule, past
  <2>2. t \in started /\ oracleSchedules' \in Seq(started)
    <3>1. t \in started
      BY <2>1 DEF Inv, Started
    <3>2. Append(oracleSchedules, t) \in Seq(started)
      BY <1>u, <3>1
    <3> QED BY <1>u, <2>1, <3>1, <3>2
  <2>3. Shape'
    BY <2>1, <2>2 DEF Inv, Shape
  <2>4. FirstLife'
    <3>1. record \in EpochRecord =>
              /\ record' \in EpochRecord /\ record'.commits = record.commits
              /\ record'.finalizes = record.finalizes
      BY <2>1 DEF EpochRecord, SlotsOf
    <3> QED BY <2>1, <3>1 DEF Inv, FirstLife, OfStarted
  <2>5. Started'
    BY <1>u, <2>1 DEF Inv, Started, AtInit, Stored, Fine
  <2> QED BY <2>1, <2>3, <2>4, <2>5, TablesKept DEF Inv
<1>5. ASSUME NEW s \in Slot, CommitSlot(s) PROVE Inv'
  <2>1. /\ s \in offered /\ committed' = committed \cup {s}
        /\ record' = [record EXCEPT !.commits = @ \cup {s}]
        /\ UNCHANGED <<started, schedule, offered, oracleSchedules, initTasks,
                       epochLog, oracle, db, restarts, missed, handed, delivered, Upper!Waiting>>
    BY <1>5, <1>u, UpperFacts DEF CommitSlot, past
  <2>2. Shape' /\ Started'
    BY <2>1 DEF Inv, Shape, Started, AtInit, Stored, Fine
  <2>3. FirstLife'
    <3>1. record \in EpochRecord =>
              /\ record' \in EpochRecord /\ record'.commits = record.commits \cup {s}
              /\ record'.finalizes = record.finalizes
      BY <2>1 DEF EpochRecord
    <3> QED BY <2>1, <3>1 DEF Inv, FirstLife, OfStarted
  <2> QED BY <2>1, <2>2, <2>3, TablesKept DEF Inv
<1>6. ASSUME NEW s \in Slot, NEW a \in Amounts[s], FinalizeSlot(s, a) PROVE Inv'
  <2>1. /\ TaskOf[s] \in started /\ s \in committed
        /\ ProcessTx(s, a) \in Tx /\ ProcessTx(s, a) \notin handed
        /\ handed' = handed \cup {ProcessTx(s, a)} /\ delivered' = delivered
        /\ Upper!Waiting' \subseteq Upper!Waiting \cup {ProcessTx(s, a)}
        /\ record' = [record EXCEPT !.finalizes = @ \cup {s}]
        /\ UNCHANGED <<nodes, initTasks, epochLog, oracle, db, past>>
    BY <1>6, <1>u, UpperFacts DEF FinalizeSlot, Tracks
  <2>2. UNCHANGED <<started, schedule, offered, committed, oracleSchedules, restarts, missed>>
    BY <2>1 DEF nodes, past
  <2>3. Shape'
    BY <2>1, <2>2 DEF Inv, Shape
  <2>4. Started'
    BY <2>1, <2>2, TxFacts, HandKeepsStarted
  <2>5. FirstLife'
    <3>1. record \in EpochRecord =>
              /\ record' \in EpochRecord /\ record'.commits = record.commits
              /\ record'.finalizes = record.finalizes \cup {s}
      BY <2>1 DEF EpochRecord
    <3>2. \A k : EpochTx(k) \in handed' => EpochTx(k) \in handed
      BY <2>1, TxFacts
    <3> QED BY <2>1, <2>2, <3>1, <3>2 DEF Inv, FirstLife, OfStarted
  <2> QED BY <2>1, <2>2, <2>3, <2>4, <2>5, TablesKept DEF Inv
<1>7. CASE EpochTick
  <2> DEFINE tx == EpochTx(Len(epochLog) + 1)
  <2>1. /\ tx \in Tx /\ tx \notin handed /\ handed' = handed \cup {tx}
        /\ delivered' = delivered /\ Upper!Waiting' \subseteq Upper!Waiting \cup {tx}
        /\ epochLog' = Append(epochLog, record)
        /\ record' = EmptyRecord(record.id + 1)
        /\ UNCHANGED <<nodes, initTasks, oracle, db, past>>
    BY <1>7, <1>u, UpperFacts DEF EpochTick
  <2>2. UNCHANGED <<started, schedule, offered, committed, oracleSchedules, restarts, missed>>
    BY <2>1 DEF nodes, past
  <2>3. Shape'
    BY <2>1, <2>2 DEF Inv, Shape
  <2>4. Started'
    <3>1. \A s, a : tx # ProcessTx(s, a)
      BY TxFacts
    <3> QED BY <2>1, <2>2, <3>1, HandKeepsStarted
  <2>5. FirstLife'
    <3> SUFFICES ASSUME restarts = 0 PROVE FirstLife'
      BY <2>2 DEF FirstLife
    <3>1. /\ record \in EpochRecord /\ record.id \in Int
          /\ OfStarted(record.commits) /\ OfStarted(record.finalizes)
          /\ epochLog \in Seq(EpochRecord)
      BY DEF Inv, FirstLife, EpochRecord
    <3>3. /\ epochLog' \in Seq(EpochRecord)
          /\ Len(epochLog') = Len(epochLog) + 1 /\ Len(epochLog) \in Nat
          /\ \A k \in 1 .. Len(epochLog') :
                \/ k \in 1 .. Len(epochLog) /\ epochLog'[k] = epochLog[k]
                \/ k = Len(epochLog) + 1 /\ epochLog'[k] = record
      BY <2>1, <3>1
    <3>4. record' \in EpochRecord /\ record'.commits = {} /\ record'.finalizes = {}
      BY <2>1, <3>1 DEF EpochRecord, EmptyRecord
    <3>5. \A k \in 1 .. Len(epochLog') :
              OfStarted(epochLog'[k].commits) /\ OfStarted(epochLog'[k].finalizes)
      <4>1. \A k \in 1 .. Len(epochLog) :
                OfStarted(epochLog[k].commits)
                /\ OfStarted(epochLog[k].finalizes)
        BY DEF Inv, FirstLife
      <4> QED BY <3>1, <3>3, <4>1
    <3>6. \A k \in Nat : EpochTx(k) \in handed' => k \in 1 .. Len(epochLog')
      <4> SUFFICES ASSUME NEW k \in Nat, EpochTx(k) \in handed'
                   PROVE  k \in 1 .. Len(epochLog) + 1
        BY <3>3
      <4>1. EpochTx(k) \in handed => k \in 1 .. Len(epochLog)
        BY DEF Inv, FirstLife
      <4>2. EpochTx(k) = tx => k = Len(epochLog) + 1
        BY TxFacts
      <4> QED BY <2>1, <3>3, <4>1, <4>2
    <3> QED BY <2>1, <2>2, <3>1, <3>3, <3>4, <3>5, <3>6 DEF Inv, FirstLife, OfStarted
  <2> QED BY <2>1, <2>2, <2>3, <2>4, <2>5, TablesKept DEF Inv
<1> QED BY <1>1, <1>2, <1>3, <1>4, <1>5, <1>6, <1>7

-----------------------------------------------------------------------------
(* The steps of the Oracle.                                                  *)

\* What an update of one field leaves of a row.
LEMMA RowFacts ==
    /\ [NoRow EXCEPT !.status = "Processing"] \in SlotRow
    /\ [NoRow EXCEPT !.status = "Processing"].status = "Processing"
    /\ [NoTask EXCEPT !.status = "Processing"] \in TaskRow
    /\ [NoTask EXCEPT !.status = "Processing"].status = "Processing"
    /\ \A row \in SlotRow :
          /\ [row EXCEPT !.status = "Finished"] \in SlotRow
          /\ [row EXCEPT !.status = "Finished"].status = "Finished"
    /\ \A row \in TaskRow :
          /\ [row EXCEPT !.scheduled = TRUE] \in TaskRow
          /\ [row EXCEPT !.scheduled = TRUE].status = row.status
          /\ [row EXCEPT !.status = "Finished"] \in TaskRow
          /\ [row EXCEPT !.status = "Finished"].status = "Finished"
          /\ \A p \in Int : /\ [row EXCEPT !.process = p] \in TaskRow
                            /\ [row EXCEPT !.process = p].status = row.status
<1>1. ASSUME NEW row \in SlotRow
      PROVE  /\ [row EXCEPT !.status = "Finished"] \in SlotRow
             /\ [row EXCEPT !.status = "Finished"].status = "Finished"
  BY DEF SlotRow, Status
<1>2. ASSUME NEW row \in TaskRow
      PROVE  /\ [row EXCEPT !.scheduled = TRUE] \in TaskRow
             /\ [row EXCEPT !.scheduled = TRUE].status = row.status
             /\ [row EXCEPT !.status = "Finished"] \in TaskRow
             /\ [row EXCEPT !.status = "Finished"].status = "Finished"
  BY DEF TaskRow, Status
<1>3. ASSUME NEW row \in TaskRow, NEW p \in Int
      PROVE  /\ [row EXCEPT !.process = p] \in TaskRow
             /\ [row EXCEPT !.process = p].status = row.status
  BY DEF TaskRow, Status
<1>4. NoRow \in SlotRow /\ NoTask \in TaskRow
  BY DEF NoRow, SlotRow, NoTask, TaskRow, Status
<1>5. ASSUME NEW row \in SlotRow
      PROVE  /\ [row EXCEPT !.status = "Processing"] \in SlotRow
             /\ [row EXCEPT !.status = "Processing"].status = "Processing"
  BY DEF SlotRow, Status
<1>6. ASSUME NEW row \in TaskRow
      PROVE  /\ [row EXCEPT !.status = "Processing"] \in TaskRow
             /\ [row EXCEPT !.status = "Processing"].status = "Processing"
  BY DEF TaskRow, Status
<1> QED BY <1>1, <1>2, <1>3, <1>4, <1>5, <1>6

\* To ask for slots adds rows that are processing, without a task.
LEMMA WithRowsFacts ==
    ASSUME NEW slots \in [Slot -> SlotRow], NEW asked
    PROVE  /\ WithRows(slots, asked) \in [Slot -> SlotRow]
           /\ \A s \in Slot : WithRows(slots, asked)[s].status = "Finished" =>
                                  slots[s].status = "Finished"
<1>1. ASSUME NEW s \in Slot
      PROVE  /\ WithRows(slots, asked)[s] \in SlotRow
             /\ WithRows(slots, asked)[s].status = "Finished" => slots[s].status = "Finished"
  <2> DEFINE new == [NoRow EXCEPT !.status = "Processing"]
  <2>1. WithRows(slots, asked)[s] \in {slots[s], new}
    BY DEF WithRows
  <2>2. new \in SlotRow /\ new.status = "Processing"
    BY RowFacts
  <2> HIDE DEF new
  <2> QED BY <2>1, <2>2
<1> QED BY <1>1 DEF WithRows

\* A task that is being stored was started.
LEMMA AtInitStarted == ASSUME Inv, NEW t, AtInit(t) PROVE t \in started
<1>1. PICK u \in started : oracle.tx = InitTx(u)
  BY DEF Inv, OracleFits, AtInit
<1>2. oracle.tx = InitTx(t)
  BY DEF AtInit
<1>3. InitTx(t)[2] = t /\ InitTx(u)[2] = u
  BY TxFacts
<1>4. t = u
  BY <1>1, <1>2, <1>3
<1> QED BY <1>1, <1>4

\* Where only the tables and the position of the Oracle change.
LEMMA OracleOnly ==
    ASSUME Inv, UNCHANGED <<upper, nodes, epochs, restarts>>,
           \A t \in Task : AtInit(t)' => AtInit(t) /\ ~Stored(t)',
           \A t \in Task : Stored(t)' => Stored(t) \/ AtInit(t),
           \A t \in started :
               AtInit(t)' \/ Fine(t)'
    PROVE  FirstLife' /\ Started'
<1>1. /\ UNCHANGED <<handed, delivered, Upper!Waiting, started, schedule, oracleSchedules,
                     offered, committed, record, initTasks, epochLog>>
  BY UpperFacts DEF Inv, Shape, upper, nodes, epochs
<1>2. FirstLife'
  BY <1>1 DEF Inv, FirstLife, OfStarted
<1>3. \A t : AtInit(t) => t \in started
  BY AtInitStarted
<1>4. Started'
  BY <1>1, <1>3 DEF Inv, Started
<1> QED BY <1>2, <1>4

\* Outside of the two steps that store a task, every started task is stored and has
\* not been given up, or was refused.
LEMMA NotAtInit ==
    ASSUME Inv, oracle.pc \notin {"initTx", "initTask"}
    PROVE  /\ \A t : ~AtInit(t)
           /\ \A t \in started : Fine(t)
  BY DEF Inv, Started, AtInit

\* A channel is read from its head.
LEMMA SeqFacts ==
    ASSUME NEW S, NEW q \in Seq(S), q # <<>>
    PROVE  Head(q) \in S /\ Tail(q) \in Seq(S)
  OBVIOUS

\* The schedule at the head is of a started task, so the Oracle only panics when the
\* row of that task was refused.
LEMMA StoreScheduleKeepsInv == Inv /\ StoreSchedule => Inv'
<1> SUFFICES ASSUME Inv, StoreSchedule PROVE Inv'
  OBVIOUS
<1> USE DEF StoreSchedule
<1>u. /\ UNCHANGED <<handed, delivered, Upper!Waiting, started, schedule, offered, committed,
                     record, initTasks, epochLog, restarts, missed>>
  BY UpperFacts DEF Inv, Shape, upper, epochs
<1>1. /\ oracleSchedules \in Seq(started) /\ oracleSchedules # <<>>
      /\ started \subseteq Task
  BY DEF Inv, Shape
<1>2. PICK t \in started : t = Head(oracleSchedules)
  BY <1>1, SeqFacts
<1>3. oracleSchedules' \in Seq(started)
  BY <1>1, SeqFacts
<1>n. Fine(t) /\ \A u : ~AtInit(u)
  BY NotAtInit
<1>p. CASE ~Stored(t)
  <2>1. /\ db' = db /\ t \in missed
        /\ oracle' = [pc |-> "unknown task", tx |-> None, tasks |-> {t}]
    BY <1>2, <1>n, <1>p DEF Panic, Fine, Stored
  <2> HIDE DEF StoreSchedule
  <2>2. Shape' /\ FirstLife'
    BY <1>u, <1>3, <2>1 DEF Inv, Shape, FirstLife, OfStarted
  <2>3. OracleFits' /\ PanicsNeedARefusedRow'
    BY <1>u, <2>1 DEF OracleFits, PanicsNeedARefusedRow
  <2>4. \A u \in Task : ~AtInit(u)' /\ (Stored(u)' <=> Stored(u)) /\ (Fine(u)' <=> Fine(u))
    BY <1>u, <2>1 DEF AtInit, Stored, Fine
  <2>5. Started'
    BY <1>u, <1>1, <1>n, <2>4 DEF Inv, Started
  <2>6. RowsPointToTransactions'
    BY <2>1 DEF Inv, RowsPointToTransactions, Stored
  <2> QED BY <2>2, <2>3, <2>5, <2>6 DEF Inv
<1> SUFFICES ASSUME Stored(t) PROVE Inv'
  BY <1>p
<1>4. Stored(t) /\ \A u : ~AtInit(u)
  BY <1>n
<1>5. /\ db' = [db EXCEPT !.tasks[t].scheduled = TRUE,
                          !.slots = [s \in Slot |-> IF s \in SlotsOf(t)
                                       THEN ScheduledRow(@[s], s \in rejected) ELSE @[s]]]
      /\ UNCHANGED oracle
  BY <1>2, <1>4
<1> HIDE DEF StoreSchedule
<1>6. /\ db.tasks \in [Task -> TaskRow] /\ db.slots \in [Slot -> SlotRow]
      /\ db = [tasks |-> db.tasks, slots |-> db.slots, transactions |-> db.transactions,
               epochs |-> db.epochs]
  BY DEF Inv, Shape
<1>7. /\ db' = [tasks |-> db'.tasks, slots |-> db'.slots,
                transactions |-> db'.transactions, epochs |-> db'.epochs]
      /\ db'.tasks = [db.tasks EXCEPT ![t].scheduled = TRUE]
      /\ db'.slots = [s \in Slot |-> IF s \in SlotsOf(t)
                        THEN ScheduledRow(db.slots[s], s \in rejected) ELSE db.slots[s]]
      /\ db'.transactions = db.transactions /\ db'.epochs = db.epochs
  BY <1>5, <1>6
<1>8. ASSUME NEW s \in Slot
      PROVE  /\ ScheduledRow(db.slots[s], s \in rejected) \in SlotRow
             /\ ScheduledRow(db.slots[s], s \in rejected).status = "Finished" =>
                    db.slots[s].status = "Finished"
  BY <1>6 DEF ScheduledRow, SlotRow, Status
<1>9. db'.tasks \in [Task -> TaskRow] /\ \A u \in Task : db'.tasks[u].status = db.tasks[u].status
  <2>1. db'.tasks = [db.tasks EXCEPT ![t] = [db.tasks[t] EXCEPT !.scheduled = TRUE]]
    BY <1>7
  <2>2. /\ [db.tasks[t] EXCEPT !.scheduled = TRUE] \in TaskRow
        /\ [db.tasks[t] EXCEPT !.scheduled = TRUE].status = db.tasks[t].status
    BY <1>1, <1>6, RowFacts
  <2> QED BY <1>1, <1>6, <2>1, <2>2
<1>10. /\ db'.slots \in [Slot -> SlotRow]
       /\ \A s \in Slot : db'.slots[s].status = "Finished" => db.slots[s].status = "Finished"
  <2>1. ASSUME NEW s \in Slot
        PROVE  db'.slots[s] \in {db.slots[s], ScheduledRow(db.slots[s], s \in rejected)}
    BY <1>7
  <2>2. db'.slots = [s \in Slot |-> db'.slots[s]]
    BY <1>7
  <2> QED BY <1>6, <1>8, <2>1, <2>2
<1>11. Shape'
  BY <1>u, <1>3, <1>5, <1>7, <1>9, <1>10 DEF Inv, Shape
<1>12. OracleFits' /\ PanicsNeedARefusedRow'
  <2>1. oracle.pc = "idle"
    BY DEF StoreSchedule
  <2> QED BY <1>u, <1>5, <2>1 DEF OracleFits, PanicsNeedARefusedRow
<1>13. Started'
  BY <1>u, <1>1, <1>4, <1>5, <1>9 DEF Inv, Started, AtInit, Stored, Fine
<1>14. FirstLife'
  BY <1>u DEF Inv, FirstLife, OfStarted
<1>15. RowsPointToTransactions'
  BY <1>7, <1>9, <1>10 DEF Inv, RowsPointToTransactions, Stored
<1> QED BY <1>11, <1>12, <1>13, <1>14, <1>15 DEF Inv

\* A transaction comes back from the chain: one of a task starts it, one of a slot
\* is of a task that is stored or was refused, and so is the task of a slot in the
\* record of an epoch.
LEMMA TakingKeepsInv ==
    ASSUME Inv, NEW tx \in Tx, StartTask(tx) \/ ReadEpoch(tx) \/ StartProcess(tx)
    PROVE  Inv'
<1> USE PersistenceAssumption
<1>u. /\ oracle.pc = "idle" /\ handed' = handed /\ delivered' \in [Tx -> Nat]
      /\ tx \in Upper!Waiting /\ tx \in handed /\ Upper!Waiting' \subseteq Upper!Waiting \ {tx}
      /\ Upper!Deliver(tx)
  BY UpperFacts DEF StartTask, ReadEpoch, StartProcess, Take, Inv, Shape
<1>n. \A t : ~AtInit(t)
  BY <1>u, NotAtInit
<1>d. /\ db = [tasks |-> db.tasks, slots |-> db.slots, transactions |-> db.transactions,
               epochs |-> db.epochs]
      /\ db.tasks \in [Task -> TaskRow] /\ db.slots \in [Slot -> SlotRow]
      /\ oracleSchedules \in Seq(started) /\ started \subseteq Task
  BY DEF Inv, Shape
<1>1. CASE StartTask(tx)
  <2>1. PICK t \in Task : tx = InitTx(t)
    BY <1>1, TxKinds DEF StartTask, Take
  <2>2. /\ initTasks' = initTasks \cup {t} /\ started' = started \cup {t}
        /\ oracle' = [pc |-> "initTx", tx |-> tx, tasks |-> {}]
        /\ UNCHANGED <<schedule, offered, committed, oracleSchedules, record,
                       epochLog, db, restarts, missed>>
    BY <1>1, <2>1, TxFacts DEF StartTask, Doing, past
  <2>3. t \notin started /\ ~Stored(t)
    BY <1>u, <2>1 DEF Inv, Started
  <2>4. oracleSchedules' \in Seq(started')
    BY <1>d, <2>2
  <2>5. Shape'
    BY <1>u, <1>d, <2>2, <2>4 DEF Inv, Shape
  <2>6. OracleFits' /\ PanicsNeedARefusedRow'
    BY <2>1, <2>2 DEF OracleFits, PanicsNeedARefusedRow
  <2>7. Started'
    <3>1. AtInit(t)' /\ \A u \in Task : AtInit(u)' => u = t
      BY <2>1, <2>2, TxFacts DEF AtInit
    <3>2. \A u \in Task : (Stored(u)' <=> Stored(u)) /\ (Fine(u)' <=> Fine(u))
      BY <2>2 DEF Stored, Fine
    <3>3. \A u \in started : Fine(u)
      BY <1>u, NotAtInit
    <3>4. \A u \in started' : AtInit(u)' \/ Fine(u)'
      BY <1>d, <2>2, <3>1, <3>2, <3>3
    <3> HIDE DEF AtInit, Stored, Fine
    <3> QED BY <1>u, <1>n, <2>1, <2>2, <2>3, <3>1, <3>2, <3>4 DEF Inv, Started
  <2>8. FirstLife'
    BY <1>u, <2>2 DEF Inv, FirstLife, OfStarted
  <2>9. RowsPointToTransactions'
    BY <2>2 DEF Inv, RowsPointToTransactions, Stored
  <2> QED BY <2>5, <2>6, <2>7, <2>8, <2>9 DEF Inv
<1>2. CASE ReadEpoch(tx)
  <2> DEFINE r == epochLog[tx[2]]
             typed == r.commits \cup r.finalizes
             about == {TaskOf[s] : s \in {u \in typed : ~WithRows(db.slots, typed \cup r.invalids)[u].task}}
  <2>0. PICK k \in 1 .. EpochBound * (CrashBound + 1) : tx = EpochTx(k)
    BY <1>2, TxKinds DEF ReadEpoch, Take
  <2>1. k \in Nat /\ tx = EpochTx(k) /\ tx[2] = k
    BY <2>0, TxFacts
  <2>2. /\ UNCHANGED <<started, schedule, offered, committed, oracleSchedules, record,
                       initTasks, epochLog, restarts, missed>>
    BY <1>2 DEF ReadEpoch, nodes, epochs, past
  <2>3. PICK asked :
            /\ db' = [db EXCEPT !.slots = WithRows(@, asked)]
            /\ \/ /\ oracle' = [pc |-> "nil task", tx |-> None, tasks |-> about]
                  /\ \A t \in Task : ~Stored(t)
               \/ oracle' = [pc |-> "epochTx", tx |-> tx, tasks |-> {}]
    BY <1>2 DEF ReadEpoch, Panic, Doing
  <2> HIDE DEF about
  <2>4. /\ db' = [tasks |-> db.tasks, slots |-> WithRows(db.slots, asked),
                  transactions |-> db.transactions, epochs |-> db.epochs]
        /\ oracle'.pc \in {"nil task", "epochTx"} /\ (oracle'.pc = "epochTx" => oracle'.tx = tx)
        /\ oracle' = [pc |-> oracle'.pc, tx |-> oracle'.tx, tasks |-> oracle'.tasks]
        /\ oracle'.pc = "nil task" => oracle'.tasks = about /\ \A t \in Task : ~Stored(t)
    <3>1. db' = [tasks |-> db.tasks, slots |-> WithRows(db.slots, asked),
                 transactions |-> db.transactions, epochs |-> db.epochs]
      BY <1>d, <2>3
    <3>2. CASE /\ oracle' = [pc |-> "nil task", tx |-> None, tasks |-> about]
               /\ \A t \in Task : ~Stored(t)
      BY <3>1, <3>2
    <3>3. CASE oracle' = [pc |-> "epochTx", tx |-> tx, tasks |-> {}]
      BY <3>1, <3>3
    <3> QED BY <2>3, <3>2, <3>3
  <2>5. Shape'
    BY <1>u, <1>d, <2>2, <2>4, WithRowsFacts DEF Inv, Shape
  <2>6. OracleFits'
    BY <2>1, <2>4, TxFacts DEF OracleFits
  <2>7. PanicsNeedARefusedRow'
    <3>1. ASSUME restarts = 0, \A t \in Task : ~Stored(t) PROVE about \subseteq missed
      <4>1. SUFFICES ASSUME NEW s \in typed PROVE TaskOf[s] \in missed
        BY DEF about
      <4>2. k \in 1 .. Len(epochLog)
        BY <1>u, <2>1, <3>1 DEF Inv, FirstLife
      <4>3. TaskOf[s] \in started
        BY <2>1, <3>1, <4>1, <4>2 DEF Inv, FirstLife, OfStarted
      <4>4. Fine(TaskOf[s]) /\ ~Stored(TaskOf[s])
        BY <1>u, <1>d, <3>1, <4>3, NotAtInit
      <4> QED BY <4>4 DEF Fine, Stored
    <3>2. restarts \in Nat /\ restarts' = restarts /\ missed' = missed
      BY <2>2 DEF Inv, Shape
    <3>3. oracle'.pc # "unknown task"
      BY <2>4
    <3>4. oracle'.pc = "nil task" /\ restarts = 0 => oracle'.tasks \subseteq missed
      BY <2>4, <3>1
    <3>5. restarts # 0 => restarts' > 0
      BY <3>2
    <3>6. oracle'.pc = "nil task" => oracle'.tasks \subseteq missed' \/ restarts' > 0
      BY ONLY <3>2, <3>4, <3>5
    <3> QED BY ONLY <3>3, <3>6 DEF PanicsNeedARefusedRow
  <2>8. Started'
    <3>1. \A t \in Task : ~AtInit(t)' /\ (Stored(t)' <=> Stored(t))
      BY <2>4 DEF AtInit, Stored
    <3>2. \A t \in Task : Fine(t)' <=> Fine(t)
      BY <2>2, <2>4 DEF Fine, Stored
    <3> QED BY <1>u, <1>n, <1>d, <2>2, <3>1, <3>2 DEF Inv, Started
  <2>9. FirstLife'
    BY <1>u, <2>2 DEF Inv, FirstLife, OfStarted
  <2>10. RowsPointToTransactions'
    <3>1. /\ db'.transactions = db.transactions /\ db'.epochs = db.epochs
          /\ db'.tasks = db.tasks /\ db'.slots = WithRows(db.slots, asked)
      BY <2>4
    <3>2. \A s \in Slot : db'.slots[s].status = "Finished" => db.slots[s].status = "Finished"
      BY <1>d, <3>1, WithRowsFacts
    <3> QED BY <3>1, <3>2 DEF Inv, RowsPointToTransactions, Stored
  <2> QED BY <2>5, <2>6, <2>7, <2>8, <2>9, <2>10 DEF Inv
<1>3. CASE StartProcess(tx)
  <2>0. PICK s \in Slot : \E a \in Amounts[s] : tx = ProcessTx(s, a)
    BY <1>3, TxKinds DEF StartProcess, Take
  <2>1. PICK a \in Amounts[s] : tx = ProcessTx(s, a) /\ tx[2] = s
    BY <2>0, TxFacts
  <2>2. TaskOf[s] \in started
    BY <1>u, <2>1 DEF Inv, Started
  <2>3. Fine(TaskOf[s]) /\ TaskOf[s] \in Task
    BY <1>u, <1>d, <2>2, NotAtInit
  <2>4. /\ db' = [tasks |-> db.tasks, slots |-> db.slots,
                  transactions |-> db'.transactions, epochs |-> db.epochs]
        /\ \/ /\ Stored(TaskOf[s]) /\ db'.transactions = db.transactions \cup {tx}
              /\ oracle' = [pc |-> "slot", tx |-> tx, tasks |-> {}]
           \/ /\ ~Stored(TaskOf[s]) /\ db'.transactions = db.transactions
              /\ oracle' = [pc |-> "unknown task", tx |-> None, tasks |-> {TaskOf[s]}]
        /\ UNCHANGED <<started, schedule, offered, committed, oracleSchedules, record,
                       initTasks, epochLog, restarts, missed>>
    <3>1. UNCHANGED <<started, schedule, offered, committed, oracleSchedules, record,
                      initTasks, epochLog, restarts, missed>>
      BY <1>3 DEF StartProcess, nodes, epochs, past
    <3>2. CASE Stored(TaskOf[s])
      <4>1. /\ db' = [db EXCEPT !.transactions = @ \cup {tx}]
            /\ oracle' = [pc |-> "slot", tx |-> tx, tasks |-> {}]
        BY <1>3, <2>1, <3>2 DEF StartProcess, Doing
      <4> QED BY <1>d, <3>1, <3>2, <4>1
    <3>3. CASE ~Stored(TaskOf[s])
      BY <1>3, <1>d, <2>1, <3>1, <3>3 DEF StartProcess, Panic
    <3> QED BY <3>2, <3>3
  <2>4a. /\ oracle' = [pc |-> oracle'.pc, tx |-> oracle'.tx, tasks |-> oracle'.tasks]
         /\ oracle'.pc \in {"slot", "unknown task"}
         /\ oracle'.pc = "slot" => /\ oracle'.tx = tx /\ tx \in db'.transactions
                                   /\ Stored(TaskOf[s])
         /\ oracle'.pc = "unknown task" => oracle'.tasks = {TaskOf[s]} /\ ~Stored(TaskOf[s])
         /\ db.transactions \subseteq db'.transactions
         /\ db' = [tasks |-> db'.tasks, slots |-> db'.slots,
                   transactions |-> db'.transactions, epochs |-> db'.epochs]
         /\ db'.tasks = db.tasks /\ db'.slots = db.slots /\ db'.epochs = db.epochs
    <3>1. /\ db'.tasks = db.tasks /\ db'.slots = db.slots /\ db'.epochs = db.epochs
          /\ db' = [tasks |-> db'.tasks, slots |-> db'.slots,
                    transactions |-> db'.transactions, epochs |-> db'.epochs]
      <4>1. PICK T : db' = [tasks |-> db.tasks, slots |-> db.slots,
                            transactions |-> T, epochs |-> db.epochs]
        BY <2>4
      <4> QED BY ONLY <4>1
    <3>2. CASE /\ Stored(TaskOf[s]) /\ db'.transactions = db.transactions \cup {tx}
               /\ oracle' = [pc |-> "slot", tx |-> tx, tasks |-> {}]
      <4>1. tx \in db'.transactions /\ db.transactions \subseteq db'.transactions
        BY <3>2
      <4> QED BY <3>1, <3>2, <4>1
    <3>3. CASE /\ ~Stored(TaskOf[s]) /\ db'.transactions = db.transactions
               /\ oracle' = [pc |-> "unknown task", tx |-> None, tasks |-> {TaskOf[s]}]
      BY <3>1, <3>3
    <3> QED BY <2>4, <3>2, <3>3
  <2>5. Shape'
    BY <1>u, <1>d, <2>4, <2>4a DEF Inv, Shape
  <2>s. \A t \in Task : ~AtInit(t)' /\ (Stored(t)' <=> Stored(t)) /\ (Fine(t)' <=> Fine(t))
    BY <2>4, <2>4a DEF AtInit, Stored, Fine
  <2>6. OracleFits' /\ PanicsNeedARefusedRow'
    <3>1. ~Stored(TaskOf[s]) => TaskOf[s] \in missed
      BY <2>3 DEF Fine, Stored
    <3> QED BY <2>1, <2>2, <2>3, <2>4, <2>4a, <2>s, <3>1 DEF OracleFits, PanicsNeedARefusedRow
  <2>7. Started'
    BY <1>u, <1>n, <1>d, <2>4, <2>s DEF Inv, Started
  <2>8. FirstLife'
    BY <1>u, <2>4 DEF Inv, FirstLife, OfStarted
  <2>9. RowsPointToTransactions'
    BY <2>4, <2>4a, <2>s DEF Inv, RowsPointToTransactions
  <2> QED BY <2>5, <2>6, <2>7, <2>8, <2>9 DEF Inv
<1> QED BY <1>1, <1>2, <1>3

\* The writes that follow, and a query, change only the tables and the Oracle.
LEMMA WriteKeepsInv ==
    ASSUME Inv, UNCHANGED <<upper, nodes, epochs, restarts>>,
           db' = [tasks |-> db'.tasks, slots |-> db'.slots,
                  transactions |-> db'.transactions, epochs |-> db'.epochs],
           db'.tasks \in [Task -> TaskRow], db'.slots \in [Slot -> SlotRow],
           oracle' = [pc |-> oracle'.pc, tx |-> oracle'.tx, tasks |-> oracle'.tasks],
           OracleFits', PanicsNeedARefusedRow', RowsPointToTransactions',
           \A t \in Task : AtInit(t)' => AtInit(t) /\ ~Stored(t)',
           \A t \in Task : Stored(t)' => Stored(t) \/ AtInit(t),
           \A t \in started :
               AtInit(t)' \/ Fine(t)'
    PROVE  Inv'
<1>2. FirstLife' /\ Started'
  BY OracleOnly
<1>3. Shape'
  BY UpperFacts DEF Inv, Shape, upper, nodes
<1> QED BY <1>2, <1>3 DEF Inv

\* What Shape says of the tables and the Oracle.
LEMMA TablesFacts ==
    ASSUME Inv
    PROVE  /\ db = [tasks |-> db.tasks, slots |-> db.slots, transactions |-> db.transactions,
                    epochs |-> db.epochs]
           /\ db.tasks \in [Task -> TaskRow] /\ db.slots \in [Slot -> SlotRow]
           /\ oracle = [pc |-> oracle.pc, tx |-> oracle.tx, tasks |-> oracle.tasks]
           /\ started \subseteq Task
  BY DEF Inv, Shape

\* The transaction of a new task is stored.
LEMMA StoreInitTxKeepsInv == Inv /\ StoreInitTx => Inv'
<1> SUFFICES ASSUME Inv, StoreInitTx PROVE Inv'
  OBVIOUS
<1>1. PICK t \in started : oracle.tx = InitTx(t)
  BY DEF StoreInitTx, Inv, OracleFits
<1>2. /\ oracle.pc = "initTx"
      /\ db' = [tasks |-> db.tasks, slots |-> db.slots,
                transactions |-> db.transactions \cup {oracle.tx}, epochs |-> db.epochs]
      /\ oracle' = [pc |-> "initTask", tx |-> oracle.tx, tasks |-> oracle.tasks]
      /\ UNCHANGED <<upper, nodes, epochs, past>>
  BY TablesFacts DEF StoreInitTx, SetTransaction
<1>3. UNCHANGED <<started, restarts>>
  BY <1>2 DEF nodes, past
<1>4. OracleFits' /\ PanicsNeedARefusedRow'
  BY <1>1, <1>2, <1>3 DEF OracleFits, PanicsNeedARefusedRow
<1>5. RowsPointToTransactions'
  BY <1>2 DEF Inv, RowsPointToTransactions, Stored
<1>6. \A t2 \in Task : /\ AtInit(t2)' <=> AtInit(t2)
                       /\ Stored(t2)' <=> Stored(t2)
  BY <1>2 DEF AtInit, Stored
<1>7. \A u \in started : AtInit(u)' \/ Fine(u)'
  BY <1>2, <1>6, TablesFacts DEF Inv, Started, Fine, past
<1>8. \A u \in Task : AtInit(u) => ~Stored(u)
  BY DEF Inv, Started
<1> QED BY <1>2, <1>4, <1>5, <1>6, <1>7, <1>8, TablesFacts, WriteKeepsInv DEF past

\* The new task is stored, after its transaction.
LEMMA SetTaskKeepsInv == Inv /\ SetTask => Inv'
<1> SUFFICES ASSUME Inv, SetTask PROVE Inv'
  OBVIOUS
<1>1. PICK t \in started : oracle.tx = InitTx(t) /\ oracle.tx[2] = t
  BY TxFacts DEF SetTask, Inv, OracleFits
<1> DEFINE row == [NoTask EXCEPT !.status = "Processing"]
<1>2. /\ oracle.pc = "initTask" /\ oracle.tx \in db.transactions
      /\ \/ db' = [db EXCEPT !.tasks[t] = row] /\ missed' = missed
         \/ db' = db /\ missed' = missed \cup {t}
      /\ oracle' \in {Idle, [pc |-> "dataset", tx |-> None, tasks |-> {t}]}
      /\ UNCHANGED <<upper, nodes, epochs, restarts>>
  BY <1>1 DEF SetTask, InsertTask, Panic, Inv, OracleFits
<1>3. row \in TaskRow /\ row.status = "Processing"
  BY RowFacts
<1> HIDE DEF row
<1>4. /\ \A u : ~AtInit(u)'
      /\ oracle' = [pc |-> oracle'.pc, tx |-> oracle'.tx, tasks |-> oracle'.tasks]
      /\ oracle'.pc \in {"idle", "dataset"}
  BY <1>2 DEF AtInit, Idle
<1>5. \A u \in Task : AtInit(u) => u = t
  BY <1>1, TxFacts DEF AtInit
<1>6. AtInit(t) /\ t \in Task /\ ~Stored(t)
  BY <1>1, <1>2, TablesFacts DEF AtInit, Inv, Started
<1>7. OracleFits' /\ PanicsNeedARefusedRow'
  BY <1>4 DEF OracleFits, PanicsNeedARefusedRow
<1>8. CASE db' = [db EXCEPT !.tasks[t] = row] /\ missed' = missed
  <2>1. db' = [tasks |-> [db.tasks EXCEPT ![t] = row], slots |-> db.slots,
               transactions |-> db.transactions, epochs |-> db.epochs]
    BY <1>8, TablesFacts
  <2>2. /\ db'.tasks \in [Task -> TaskRow]
        /\ \A u \in Task : db'.tasks[u].status = IF u = t THEN "Processing"
                                                  ELSE db.tasks[u].status
    BY <1>3, <2>1, TablesFacts
  <2>3. \A u \in Task : Stored(u)' => u = t \/ Stored(u)
    BY <2>2 DEF Stored
  <2>4. RowsPointToTransactions'
    <3>1. /\ db'.slots = db.slots /\ db'.transactions = db.transactions
          /\ db'.epochs = db.epochs
      BY <2>1
    <3> QED BY <1>1, <1>2, <2>3, <3>1 DEF Inv, RowsPointToTransactions
  <2>5. \A u \in started : Fine(u)'
    BY <1>5, <1>8, <2>2, TablesFacts DEF Inv, Started, Fine, Stored
  <2> QED
    BY <1>2, <1>4, <1>6, <1>7, <2>1, <2>2, <2>3, <2>4, <2>5, TablesFacts, WriteKeepsInv DEF past
<1>9. CASE db' = db /\ missed' = missed \cup {t}
  <2>1. \A u \in started : Fine(u)'
    <3>1. ASSUME NEW u \in started PROVE Fine(u)'
      <4>1. CASE u = t
        BY <1>6, <1>9, <4>1 DEF Fine, Stored
      <4>2. CASE u # t
        <5>1. Fine(u)
          BY <1>5, <4>2, TablesFacts DEF Inv, Started
        <5> QED BY <1>9, <5>1 DEF Fine, Stored
      <4> QED BY <4>1, <4>2
    <3> QED BY <3>1
  <2>2. RowsPointToTransactions' /\ \A u \in Task : (Stored(u)' <=> Stored(u))
    BY <1>9 DEF Inv, RowsPointToTransactions, Stored
  <2> QED
    BY <1>2, <1>4, <1>7, <1>9, <2>1, <2>2, TablesFacts, WriteKeepsInv DEF past
<1> QED BY <1>2, <1>8, <1>9

\* Steps that change no row at all.
LEMMA NoRowKeepsInv ==
    ASSUME Inv, StoreEpochTx \/ MapFault \/ SetEpoch \/ UpdateDateRecord
    PROVE  Inv'
<1>1. /\ oracle.pc \in {"epochTx", "epoch", "date"}
      /\ UNCHANGED <<upper, nodes, epochs, past>>
      /\ \/ /\ oracle.pc = "epochTx"
            /\ oracle' = [oracle EXCEPT !.pc = "epoch"]
            /\ db' = [db EXCEPT !.transactions = @ \cup {oracle.tx}]
         \/ oracle' = [pc |-> "map fault", tx |-> None, tasks |-> {}] /\ db' = db
         \/ oracle' = Idle /\ db' = db
         \/ /\ oracle' = Idle /\ oracle.pc = "epoch"
            /\ \E id : db' = [db EXCEPT !.epochs = @ \cup {[id |-> id, tx |-> oracle.tx]}]
  BY DEF StoreEpochTx, SetTransaction, MapFault, Panic, Doing, SetEpoch, UpdateDateRecord
<1>2. /\ db' = [tasks |-> db'.tasks, slots |-> db'.slots,
                transactions |-> db'.transactions, epochs |-> db'.epochs]
      /\ db'.tasks = db.tasks /\ db'.slots = db.slots
      /\ oracle' = [pc |-> oracle'.pc, tx |-> oracle'.tx, tasks |-> oracle'.tasks]
      /\ oracle'.pc \in {"epoch", "map fault", "idle"}
      /\ oracle'.pc = "epoch" => /\ oracle'.tx = oracle.tx /\ oracle.tx \in db'.transactions
                                 /\ oracle.pc = "epochTx"
      /\ db.transactions \subseteq db'.transactions
      /\ \A e \in db'.epochs : e \in db.epochs \/ (oracle.pc = "epoch" /\ e.tx = oracle.tx)
  <2>1. CASE /\ oracle.pc = "epochTx"
             /\ oracle' = [oracle EXCEPT !.pc = "epoch"]
             /\ db' = [db EXCEPT !.transactions = @ \cup {oracle.tx}]
    <3>1. oracle' = [pc |-> "epoch", tx |-> oracle.tx, tasks |-> oracle.tasks]
      BY <2>1, TablesFacts
    <3>2. db' = [tasks |-> db.tasks, slots |-> db.slots,
                 transactions |-> db.transactions \cup {oracle.tx}, epochs |-> db.epochs]
      BY <2>1, TablesFacts
    <3> QED BY <2>1, <3>1, <3>2
  <2>2. CASE oracle' = [pc |-> "map fault", tx |-> None, tasks |-> {}] /\ db' = db
    BY <2>2, TablesFacts
  <2>3. CASE oracle' = Idle /\ db' = db
    BY <2>3, TablesFacts DEF Idle
  <2>4. CASE /\ oracle' = Idle /\ oracle.pc = "epoch"
             /\ \E id : db' = [db EXCEPT !.epochs = @ \cup {[id |-> id, tx |-> oracle.tx]}]
    <3>1. PICK id : db' = [db EXCEPT !.epochs = @ \cup {[id |-> id, tx |-> oracle.tx]}]
      BY <2>4
    <3>2. db' = [tasks |-> db.tasks, slots |-> db.slots, transactions |-> db.transactions,
                 epochs |-> db.epochs \cup {[id |-> id, tx |-> oracle.tx]}]
      BY <3>1, TablesFacts
    <3>3. \A e : e = [id |-> id, tx |-> oracle.tx] => e.tx = oracle.tx
      OBVIOUS
    <3>4. /\ oracle' = [pc |-> "idle", tx |-> None, tasks |-> {}] /\ oracle.pc = "epoch"
      BY <2>4 DEF Idle
    <3> QED BY <3>2, <3>3, <3>4
  <2> QED BY <1>1, <2>1, <2>2, <2>3, <2>4
<1>3. UNCHANGED restarts
  BY <1>1 DEF past
<1>4. \A u : ~AtInit(u) /\ ~AtInit(u)'
  BY <1>1, <1>2 DEF AtInit
<1>5. \A u \in Task : Stored(u)' <=> Stored(u)
  BY <1>2 DEF Stored
<1>6. OracleFits' /\ PanicsNeedARefusedRow'
  <2>1. oracle.pc = "epochTx" => oracle.tx[1] = "epoch"
    BY DEF Inv, OracleFits
  <2> QED BY <1>2, <2>1 DEF OracleFits, PanicsNeedARefusedRow
<1>7. RowsPointToTransactions'
  <2>1. oracle.pc = "epoch" => oracle.tx \in db.transactions
    BY DEF Inv, OracleFits
  <2>2. db'.slots = db.slots
    BY <1>2
  <2> QED BY <1>2, <1>5, <2>1, <2>2 DEF Inv, RowsPointToTransactions
<1>8. \A u \in started : Fine(u)'
  BY <1>1, <1>2, <1>4 DEF Inv, Started, Fine, Stored, past
<1> QED BY <1>1, <1>2, <1>4, <1>5, <1>6, <1>7, <1>8, TablesFacts, WriteKeepsInv DEF past

\* A slot is finished, after its transaction was stored.
LEMMA SetSlotFinishKeepsInv == Inv /\ SetSlotFinish => Inv'
<1> SUFFICES ASSUME Inv, SetSlotFinish PROVE Inv'
  OBVIOUS
<1>1. PICK s \in Slot : \E a \in Amounts[s] :
          oracle.tx = ProcessTx(s, a) /\ TaskOf[s] \in started /\ Stored(TaskOf[s])
  BY DEF SetSlotFinish, Inv, OracleFits
<1>2. oracle.tx[2] = s /\ oracle.pc = "slot" /\ oracle.tx \in db.transactions
  BY <1>1, TxFacts DEF SetSlotFinish, Inv, OracleFits
<1> DEFINE rows == WithRows(db.slots, {s})
           row == [rows[s] EXCEPT !.status = "Finished"]
<1>3. /\ db' = [db EXCEPT !.slots = [rows EXCEPT ![s].status = "Finished"]]
      /\ oracle' = [oracle EXCEPT !.pc = "increment"]
      /\ UNCHANGED <<upper, nodes, epochs, past>>
  BY <1>2 DEF SetSlotFinish
<1>4. /\ rows \in [Slot -> SlotRow]
      /\ \A u \in Slot : rows[u].status = "Finished" => db.slots[u].status = "Finished"
  BY TablesFacts, WithRowsFacts
<1>5. row \in SlotRow
  BY <1>4, RowFacts
<1> HIDE DEF rows
<1>6. db' = [tasks |-> db.tasks, slots |-> [rows EXCEPT ![s] = row],
             transactions |-> db.transactions, epochs |-> db.epochs]
  BY <1>3, TablesFacts
<1>7. oracle' = [pc |-> "increment", tx |-> oracle.tx, tasks |-> oracle.tasks]
  BY <1>3, TablesFacts
<1> HIDE DEF row
<1>8. /\ db'.slots \in [Slot -> SlotRow]
      /\ \A u \in Slot \ {s} : db'.slots[u] = rows[u]
  BY <1>4, <1>5, <1>6
<1>9. UNCHANGED <<started, restarts>>
  BY <1>3 DEF nodes, past
<1>10. OracleFits' /\ PanicsNeedARefusedRow'
  BY <1>1, <1>2, <1>6, <1>7, <1>9 DEF OracleFits, PanicsNeedARefusedRow, Stored
<1>11. RowsPointToTransactions'
  <2>1. /\ db'.tasks = db.tasks /\ db'.transactions = db.transactions
        /\ db'.epochs = db.epochs
    BY <1>6
  <2>2. \E a \in Amounts[s] : ProcessTx(s, a) \in db.transactions
    BY <1>1, <1>2
  <2>3. \A u \in Slot \ {s} : db'.slots[u].status = "Finished" =>
            db.slots[u].status = "Finished"
    BY <1>4, <1>8
  <2> QED BY <2>1, <2>2, <2>3 DEF Inv, RowsPointToTransactions, Stored
<1>12. \A u : ~AtInit(u) /\ ~AtInit(u)'
  BY <1>2, <1>7 DEF AtInit
<1>13. \A u \in Task : Stored(u)' <=> Stored(u)
  BY <1>6 DEF Stored
<1>14. \A u \in started : Fine(u)'
  BY <1>3, <1>6, <1>12 DEF Inv, Started, Fine, Stored, past
<1> QED
  BY <1>3, <1>6, <1>7, <1>8, <1>10, <1>11, <1>12, <1>13, <1>14, TablesFacts, WriteKeepsInv DEF past

\* A write to the row of a started task that leaves or makes it finished.
LEMMA TaskWriteKeepsInv ==
    ASSUME Inv, NEW t \in started, Stored(t), NEW row \in TaskRow, NEW pc,
           oracle.pc \in {"increment", "finish"}, pc \in {"finish", "date", "idle"},
           row.status \in {"Finished", db.tasks[t].status},
           db' = [db EXCEPT !.tasks[t] = row],
           oracle' = IF pc = "idle" THEN Idle ELSE [oracle EXCEPT !.pc = pc],
           UNCHANGED <<upper, nodes, epochs, past>>
    PROVE  Inv'
<1>1. db' = [tasks |-> [db.tasks EXCEPT ![t] = row], slots |-> db.slots,
             transactions |-> db.transactions, epochs |-> db.epochs]
  BY TablesFacts
<1>2. /\ db'.tasks \in [Task -> TaskRow]
      /\ \A u \in Task : u # t => db'.tasks[u] = db.tasks[u]
      /\ db'.tasks[t] = row
  BY <1>1, TablesFacts
<1>3. /\ oracle' = [pc |-> oracle'.pc, tx |-> oracle'.tx, tasks |-> oracle'.tasks]
      /\ oracle'.pc = pc /\ (pc # "idle" => oracle'.tx = oracle.tx)
  <2>1. CASE pc = "idle"
    BY <2>1 DEF Idle
  <2>2. CASE pc # "idle"
    <3>1. oracle' = [pc |-> pc, tx |-> oracle.tx, tasks |-> oracle.tasks]
      BY <2>2, TablesFacts
    <3> QED BY <3>1
  <2> QED BY <2>1, <2>2
<1>4. UNCHANGED <<started, restarts>>
  BY DEF nodes, past
<1>5. \A u : ~AtInit(u) /\ ~AtInit(u)'
  BY <1>3 DEF AtInit
<1>6. db.tasks[t].status \in {"Processing", "Finished"}
  BY <1>5 DEF Inv, Started, Fine, Stored
<1>7. \A u \in Task : Stored(u)' <=> Stored(u)
  BY <1>2, <1>6 DEF Stored
<1>8. OracleFits' /\ PanicsNeedARefusedRow'
  <2>1. db'.transactions = db.transactions
    BY <1>1
  <2>2. oracle'.pc \in {"finish", "date"} => OracleFits'
    <3>1. PICK s \in Slot : \E a \in Amounts[s] :
              oracle.tx = ProcessTx(s, a) /\ TaskOf[s] \in started /\ Stored(TaskOf[s])
      BY DEF Inv, OracleFits
    <3>2. Stored(TaskOf[s])'
      BY <1>7, <3>1, TablesFacts
    <3>3. oracle.tx \in db.transactions
      BY DEF Inv, OracleFits
    <3> HIDE DEF Stored
    <3> QED BY <1>3, <1>4, <2>1, <3>1, <3>2, <3>3 DEF OracleFits
  <2> QED BY <1>3, <2>2 DEF OracleFits, PanicsNeedARefusedRow
<1>9. RowsPointToTransactions'
  <2>1. /\ db'.slots = db.slots /\ db'.transactions = db.transactions
        /\ db'.epochs = db.epochs
    BY <1>1
  <2> QED BY <1>7, <2>1 DEF Inv, RowsPointToTransactions
<1>10. \A u \in started : Fine(u)'
  BY <1>2, <1>5, <1>6, TablesFacts DEF Inv, Started, Fine, Stored, past
<1>11. db' = [tasks |-> db'.tasks, slots |-> db'.slots,
              transactions |-> db'.transactions, epochs |-> db'.epochs]
       /\ db'.slots \in [Slot -> SlotRow]
  BY <1>1, TablesFacts
<1> QED
  BY <1>2, <1>3, <1>5, <1>7, <1>8, <1>9, <1>10, <1>11, TablesFacts, WriteKeepsInv DEF past

\* The credit of a slot: the progress of its task, and the task as finished.
LEMMA CreditKeepsInv == Inv /\ (Increment \/ UpdateTask) => Inv'
<1> SUFFICES ASSUME Inv, Increment \/ UpdateTask PROVE Inv'
  OBVIOUS
<1> USE PersistenceAssumption
<1>1. PICK s \in Slot : \E a \in Amounts[s] :
          oracle.tx = ProcessTx(s, a) /\ TaskOf[s] \in started /\ Stored(TaskOf[s])
  BY DEF Increment, UpdateTask, Inv, OracleFits
<1>2. PICK a \in Amounts[s] : oracle.tx[2] = s /\ oracle.tx[3] = a
  BY <1>1, TxFacts
<1>3. PICK t \in started : t = TaskOf[s] /\ Stored(t)
  BY <1>1
<1>4. t \in Task /\ db.tasks[t] \in TaskRow /\ a \in Int
  BY TablesFacts
<1>5. CASE Increment
  <2> DEFINE process == db.tasks[t].process + a
             row == [db.tasks[t] EXCEPT !.process = process]
             pc == IF IsFinish(t, process) THEN "finish" ELSE "idle"
  <2>1. process \in Int
    <3>1. db.tasks[t].process \in Int
      BY <1>4 DEF TaskRow
    <3> QED BY <1>4, <3>1
  <2>2. /\ db' = [db EXCEPT !.tasks[t].process = process]
        /\ oracle' = IF pc = "idle" THEN Idle ELSE [oracle EXCEPT !.pc = pc]
        /\ oracle.pc = "increment" /\ UNCHANGED <<upper, nodes, epochs, past>>
    BY <1>2, <1>3, <1>5 DEF Increment, NextProcess
  <2>3. db' = [db EXCEPT !.tasks[t] = row]
    BY <2>2
  <2>4. pc \in {"finish", "date", "idle"}
    OBVIOUS
  <2> HIDE DEF process, pc
  <2>5. row \in TaskRow /\ row.status = db.tasks[t].status
    BY <1>4, <2>1, RowFacts
  <2> HIDE DEF row
  <2> QED BY SMTT(30), <2>2, <2>3, <2>4, <2>5, <1>3, TaskWriteKeepsInv
<1>6. CASE UpdateTask
  <2> DEFINE row == [db.tasks[t] EXCEPT !.status = "Finished"]
  <2>1. /\ db' = [db EXCEPT !.tasks[t].status = "Finished"]
        /\ oracle' = [oracle EXCEPT !.pc = "date"]
        /\ oracle.pc = "finish" /\ UNCHANGED <<upper, nodes, epochs, past>>
    BY <1>2, <1>3, <1>6 DEF UpdateTask
  <2>2. db' = [db EXCEPT !.tasks[t] = row]
    BY <2>1
  <2>3. row \in TaskRow /\ row.status = "Finished"
    BY <1>4, RowFacts
  <2> HIDE DEF row
  <2>4. oracle' = IF "date" = "idle" THEN Idle ELSE [oracle EXCEPT !.pc = "date"]
    BY <2>1
  <2> QED BY SMTT(30), <2>1, <2>2, <2>3, <2>4, <1>3, TaskWriteKeepsInv
<1> QED BY <1>5, <1>6

\* A query may add a row, which is not finished.
LEMMA QuerySlotKeepsInv == ASSUME Inv, NEW s \in Slot, QuerySlot(s) PROVE Inv'
<1>1. /\ db' = [db EXCEPT !.slots = WithRows(@, {s})]
      /\ UNCHANGED <<upper, nodes, epochs, oracle, past>>
  BY DEF QuerySlot
<1>2. db' = [tasks |-> db.tasks, slots |-> WithRows(db.slots, {s}),
             transactions |-> db.transactions, epochs |-> db.epochs]
  BY <1>1, TablesFacts
<1>3. /\ db'.tasks = db.tasks /\ db'.slots = WithRows(db.slots, {s})
      /\ db'.transactions = db.transactions /\ db'.epochs = db.epochs
      /\ db' = [tasks |-> db'.tasks, slots |-> db'.slots,
                transactions |-> db'.transactions, epochs |-> db'.epochs]
  BY <1>2
<1>4. /\ db'.slots \in [Slot -> SlotRow]
      /\ \A u \in Slot : db'.slots[u].status = "Finished" => db.slots[u].status = "Finished"
  BY <1>3, TablesFacts, WithRowsFacts
<1>5. UNCHANGED <<started, restarts>>
  BY <1>1 DEF nodes, past
<1>6. \A u : AtInit(u)' <=> AtInit(u)
  BY <1>1 DEF AtInit
<1>7. \A u : Stored(u)' <=> Stored(u)
  BY <1>3 DEF Stored
<1>8. OracleFits' /\ PanicsNeedARefusedRow'
  BY <1>1, <1>3, <1>5, <1>7 DEF Inv, OracleFits, PanicsNeedARefusedRow, past
<1>9. RowsPointToTransactions'
  BY <1>3, <1>4, <1>7 DEF Inv, RowsPointToTransactions
<1>10. /\ \A u \in Task : AtInit(u) => ~Stored(u)
       /\ \A u \in started : AtInit(u) \/ Fine(u)'
  BY <1>1, <1>3 DEF Inv, Started, Fine, Stored, past
<1> QED
  BY <1>1, <1>3, <1>4, <1>6, <1>7, <1>8, <1>9, <1>10, TablesFacts, WriteKeepsInv DEF past

-----------------------------------------------------------------------------
(* Crash and restart.                                                        *)

\* Recovery gives up what is processing and touches nothing else.
LEMMA GiveUpFacts ==
    /\ \A row \in TaskRow :
          /\ GiveUp(row) \in TaskRow
          /\ GiveUp(row).status = "none" <=> row.status = "none"
          /\ row.status = "Failed" => GiveUp(row) = row
    /\ \A row \in SlotRow :
          /\ GiveUp(row) \in SlotRow
          /\ GiveUp(row).status = "Finished" => row.status = "Finished"
<1>1. ASSUME NEW row \in TaskRow
      PROVE  /\ GiveUp(row) \in TaskRow
             /\ GiveUp(row).status = "none" <=> row.status = "none"
             /\ row.status = "Failed" => GiveUp(row) = row
  BY DEF GiveUp, TaskRow, Status
<1>2. ASSUME NEW row \in SlotRow
      PROVE  /\ GiveUp(row) \in SlotRow
             /\ GiveUp(row).status = "Finished" => row.status = "Finished"
  BY DEF GiveUp, SlotRow, Status
<1> QED BY <1>1, <1>2

\* The tables as the recovery leaves them.
LEMMA RecoveredFacts ==
    ASSUME Inv
    PROVE  /\ Recovered = [tasks |-> Recovered.tasks, slots |-> Recovered.slots,
                           transactions |-> Recovered.transactions,
                           epochs |-> Recovered.epochs]
           /\ Recovered.tasks = [t \in Task |-> GiveUp(db.tasks[t])]
           /\ Recovered.slots = [s \in Slot |-> GiveUp(db.slots[s])]
           /\ Recovered.transactions = db.transactions /\ Recovered.epochs = db.epochs
<1> DEFINE tasks == [t \in Task |-> GiveUp(db.tasks[t])]
           slots == [s \in Slot |-> GiveUp(db.slots[s])]
<1>1. Recovered = [db EXCEPT !.slots = slots, !.tasks = tasks]
  BY DEF Recovered
<1> HIDE DEF tasks, slots
<1>2. Recovered = [tasks |-> tasks, slots |-> slots, transactions |-> db.transactions,
                   epochs |-> db.epochs]
  BY <1>1, TablesFacts
<1>3. Recovered.tasks = tasks /\ Recovered.slots = slots
  BY <1>2
<1> QED BY <1>2, <1>3 DEF tasks, slots

\* A restart on tables in which every row finds its transaction.
LEMMA RestartKeepsInv ==
    ASSUME Inv, NEW D, RestartOn(D),
           D = [tasks |-> D.tasks, slots |-> D.slots, transactions |-> D.transactions,
                epochs |-> D.epochs],
           D.tasks \in [Task -> TaskRow], D.slots \in [Slot -> SlotRow],
           \A t \in Task : D.tasks[t].status # "none" =>
               Stored(t) /\ InitTx(t) \in D.transactions,
           \A e \in D.epochs : e.tx \in D.transactions,
           \A s \in Slot : D.slots[s].status = "Finished" =>
               \E a \in Amounts[s] : ProcessTx(s, a) \in D.transactions
    PROVE  Inv'
<1>1. /\ handed' = handed /\ delivered' = delivered /\ Upper!Waiting' = {}
      /\ db' = D /\ oracle' = Idle /\ restarts' = restarts + 1
      /\ started' = {} /\ oracleSchedules' = <<>>
      /\ schedule' = [t \in Task |-> IF schedule[t] = "none" THEN "none" ELSE "sent"]
  BY UpperFacts DEF RestartOn, Inv, Shape
<1>2. Shape'
  BY <1>1 DEF Inv, Shape, Idle
<1>3. OracleFits' /\ PanicsNeedARefusedRow'
  BY <1>1 DEF OracleFits, PanicsNeedARefusedRow, Idle
<1>4. \A t \in Task : ~AtInit(t)' /\ (Stored(t)' => Stored(t))
  BY <1>1 DEF AtInit, Stored, Idle
<1>5. Started'
  BY <1>1, <1>4 DEF Inv, Started
<1>6. FirstLife'
  <2>1. restarts' # 0
    BY <1>1 DEF Inv, Shape
  <2> QED BY <2>1 DEF FirstLife
<1>7. RowsPointToTransactions'
  BY <1>1 DEF RowsPointToTransactions, Stored
<1> QED BY <1>2, <1>3, <1>5, <1>6, <1>7 DEF Inv

\* Both ways to restart.
LEMMA CrashKeepsInv == Inv /\ (Recover \/ StartAfresh) => Inv'
<1> SUFFICES ASSUME Inv, Recover \/ StartAfresh PROVE Inv'
  OBVIOUS
<1>1. CASE Recover
  <2>1. Recovered.tasks \in [Task -> TaskRow] /\ Recovered.slots \in [Slot -> SlotRow]
    BY RecoveredFacts, TablesFacts, GiveUpFacts
  <2>2. \A t \in Task : Recovered.tasks[t].status # "none" =>
            Stored(t) /\ InitTx(t) \in Recovered.transactions
    <3>1. \A t \in Task : Recovered.tasks[t].status # "none" => Stored(t)
      BY RecoveredFacts, TablesFacts, GiveUpFacts DEF Stored
    <3> QED BY <3>1, RecoveredFacts DEF Inv, RowsPointToTransactions
  <2>3. \A e \in Recovered.epochs : e.tx \in Recovered.transactions
    BY RecoveredFacts DEF Inv, RowsPointToTransactions
  <2>4. \A s \in Slot : Recovered.slots[s].status = "Finished" =>
            \E a \in Amounts[s] : ProcessTx(s, a) \in Recovered.transactions
    <3>1. \A s \in Slot : Recovered.slots[s].status = "Finished" =>
              db.slots[s].status = "Finished"
      BY RecoveredFacts, TablesFacts, GiveUpFacts
    <3>2. \A s \in Slot : db.slots[s].status = "Finished" =>
              \E a \in Amounts[s] : ProcessTx(s, a) \in db.transactions
      BY DEF Inv, RowsPointToTransactions
    <3>3. Recovered.transactions = db.transactions
      BY RecoveredFacts
    <3> QED BY <3>1, <3>2, <3>3
  <2>5. RestartOn(Recovered)
    BY <1>1 DEF Recover
  <2> QED BY <2>1, <2>2, <2>3, <2>4, <2>5, RecoveredFacts, RestartKeepsInv
<1>2. CASE StartAfresh
  <2>1. EmptyDb = [tasks |-> [t \in Task |-> NoTask], slots |-> [s \in Slot |-> NoRow],
                   transactions |-> {}, epochs |-> {}]
    BY DEF EmptyDb
  <2>2. /\ NoTask \in TaskRow /\ NoTask.status = "none"
        /\ NoRow \in SlotRow /\ NoRow.status = "none"
    BY DEF NoTask, NoRow, TaskRow, SlotRow, Status
  <2>3. /\ EmptyDb = [tasks |-> EmptyDb.tasks, slots |-> EmptyDb.slots,
                      transactions |-> EmptyDb.transactions, epochs |-> EmptyDb.epochs]
        /\ EmptyDb.tasks \in [Task -> TaskRow] /\ EmptyDb.slots \in [Slot -> SlotRow]
        /\ EmptyDb.epochs = {}
        /\ \A t \in Task : EmptyDb.tasks[t].status = "none"
        /\ \A s \in Slot : EmptyDb.slots[s].status = "none"
    BY <2>1, <2>2
  <2>4. RestartOn(EmptyDb)
    BY <1>2 DEF StartAfresh
  <2> QED BY <2>3, <2>4, RestartKeepsInv
<1> QED BY <1>1, <1>2

\* A step that changes nothing.
LEMMA StutterKeepsInv == Inv /\ UNCHANGED vars => Inv'
<1> SUFFICES ASSUME Inv, UNCHANGED vars PROVE Inv'
  OBVIOUS
<1>1. /\ UNCHANGED <<upper, nodes, epochs, oracle, db, past>>
  BY DEF vars
<1>2. /\ UNCHANGED <<handed, delivered, Upper!Waiting, started, schedule, oracleSchedules,
                     offered, committed, record, initTasks, epochLog, restarts, missed>>
  BY <1>1, UpperFacts DEF Inv, Shape, upper, nodes, epochs, past
<1>3. Shape' /\ FirstLife' /\ Started'
  BY <1>1, <1>2 DEF Inv, Shape, FirstLife, OfStarted, Started, AtInit, Stored, Fine
<1> QED BY <1>1, <1>2, <1>3, TablesKept DEF Inv

-----------------------------------------------------------------------------
\* Every step keeps the invariant.
LEMMA NextKeepsInv == Inv /\ [Next]_vars => Inv'
<1> SUFFICES ASSUME Inv, [Next]_vars PROVE Inv'
  OBVIOUS
<1>1. CASE \E tx \in Tx : StartTask(tx) \/ ReadEpoch(tx) \/ StartProcess(tx)
  BY <1>1, TakingKeepsInv
<1>2. CASE \/ \E t \in Task : CreateTask(t) \/ Offer(t) \/ TakeInitTask(t)
           \/ \E t \in Task : \E failed \in SUBSET (SlotsOf(t) \cap MayFail) :
                  SendSchedule(t, failed)
           \/ \E s \in Slot : CommitSlot(s)
           \/ \E s \in Slot : \E a \in Amounts[s] : FinalizeSlot(s, a)
           \/ EpochTick
  BY <1>2, OthersKeepInv
<1>3. CASE \E s \in Slot : QuerySlot(s)
  BY <1>3, QuerySlotKeepsInv
<1>4. CASE \/ StoreSchedule \/ StoreInitTx \/ SetTask \/ StoreEpochTx \/ MapFault
           \/ SetEpoch \/ SetSlotFinish \/ Increment \/ UpdateTask \/ UpdateDateRecord
  BY <1>4, StoreScheduleKeepsInv, StoreInitTxKeepsInv, SetTaskKeepsInv, NoRowKeepsInv,
     SetSlotFinishKeepsInv, CreditKeepsInv
<1>5. CASE Recover \/ StartAfresh \/ UNCHANGED vars
  BY <1>5, CrashKeepsInv, StutterKeepsInv
<1> QED BY <1>1, <1>2, <1>3, <1>4, <1>5 DEF Next, OracleStep

\* So it holds in every state.
LEMMA InvHolds == Spec => []Inv
<1> QED BY InvInit, NextKeepsInv, PTL DEF Spec

\* The Oracle (persistedOracle.go, taskImpl.go) panics on a task it does not find when
\* it stores a schedule or a credit, and uses a nil one when it reads the record of an
\* epoch.  A schedule or a credit is only of a task this process started, which is
\* stored before either arrives unless the insert failed, whose error SetTask drops;
\* so is a slot in a record, up to the first restart.
THEOREM PanicsOnlyOnRefusedRows == Spec => []PanicsNeedARefusedRow
<1>1. Inv => PanicsNeedARefusedRow
  BY DEF Inv
<1> QED BY <1>1, InvHolds, PTL

\* Whatever order the writes of the Oracle (SetTransaction, SetTask, SetEpoch,
\* SetSlotFinish) and the crashes between them come in, no row refers to a
\* transaction that is not stored.
THEOREM RowsAlwaysPointToTransactions == Spec => []RowsPointToTransactions
<1>1. Inv => RowsPointToTransactions
  BY DEF Inv
<1> QED BY <1>1, InvHolds, PTL

\* The rows a step may change.
LEMMA FailedRowsKept ==
    ASSUME Inv, [Next]_vars, NEW t \in Task, db.tasks[t].status = "Failed"
    PROVE  db'.tasks[t] = db.tasks[t] \/ db' = EmptyDb
<1> USE PersistenceAssumption
<1>1. t \notin started /\ Stored(t)
  <2>1. Stored(t)
    BY DEF Stored
  <2>2. ~AtInit(t) /\ ~Fine(t)
    BY <2>1 DEF Inv, Started, Fine
  <2> QED BY <2>1, <2>2 DEF Inv, Started
<1>2. CASE StoreSchedule
  <2>1. Head(oracleSchedules) \in started
    BY <1>2, SeqFacts DEF StoreSchedule, Inv, Shape
  <2>2. Head(oracleSchedules) # t
    BY <1>1, <2>1
  <2>3. PICK u : u = Head(oracleSchedules)
    OBVIOUS
  <2>4. CASE db' = db
    BY <2>4
  <2>5. CASE \E slots : db' = [db EXCEPT !.tasks[u].scheduled = TRUE, !.slots = slots]
    <3>1. PICK slots : db' = [db EXCEPT !.tasks[u].scheduled = TRUE, !.slots = slots]
      BY <2>5
    <3>2. db' = [tasks |-> [db.tasks EXCEPT ![u].scheduled = TRUE], slots |-> slots,
                 transactions |-> db.transactions, epochs |-> db.epochs]
      BY <3>1, TablesFacts
    <3>3. db'.tasks = [db.tasks EXCEPT ![u].scheduled = TRUE]
      BY <3>2
    <3> QED BY <2>2, <2>3, <3>3, TablesFacts
  <2> QED BY <1>2, <2>3, <2>4, <2>5 DEF StoreSchedule
<1>3. CASE SetTask
  <2>1. PICK u \in started : oracle.tx = InitTx(u) /\ oracle.tx[2] = u
    BY <1>3, TxFacts DEF SetTask, Inv, OracleFits
  <2>2. CASE db' = db
    BY <2>2
  <2> SUFFICES ASSUME db' = [db EXCEPT !.tasks[u] = [NoTask EXCEPT !.status = "Processing"]]
               PROVE  db'.tasks[t] = db.tasks[t] \/ db' = EmptyDb
    BY <1>3, <2>1, <2>2 DEF SetTask, InsertTask
  <2>3. db'.tasks = [db.tasks EXCEPT ![u] = [NoTask EXCEPT !.status = "Processing"]]
    <3> DEFINE row == [NoTask EXCEPT !.status = "Processing"]
    <3> HIDE DEF row
    <3>1. db' = [tasks |-> [db.tasks EXCEPT ![u] = row], slots |-> db.slots,
                 transactions |-> db.transactions, epochs |-> db.epochs]
      BY TablesFacts DEF row
    <3>2. db'.tasks = [db.tasks EXCEPT ![u] = row]
      BY <3>1
    <3> QED BY <3>2 DEF row
  <2> QED BY <1>1, <2>1, <2>3, TablesFacts
<1>4. CASE Increment \/ UpdateTask
  <2>1. PICK s \in Slot : \E a \in Amounts[s] :
            oracle.tx = ProcessTx(s, a) /\ TaskOf[s] \in started
    BY <1>4 DEF Increment, UpdateTask, Inv, OracleFits
  <2>2. PICK u \in started : u = TaskOf[s] /\ oracle.tx[2] = s
    BY <2>1, TxFacts
  <2>3. \/ \E p : db' = [db EXCEPT !.tasks[u].process = p]
        \/ db' = [db EXCEPT !.tasks[u].status = "Finished"]
    BY <1>4, <2>2 DEF Increment, UpdateTask
  <2>4. \E tasks : /\ db' = [tasks |-> tasks, slots |-> db.slots,
                             transactions |-> db.transactions, epochs |-> db.epochs]
                   /\ \A v \in Task : v # u => tasks[v] = db.tasks[v]
    <3>1. CASE \E p : db' = [db EXCEPT !.tasks[u].process = p]
      <4>1. PICK p : db' = [db EXCEPT !.tasks[u].process = p]
        BY <3>1
      <4>2. db' = [tasks |-> [db.tasks EXCEPT ![u].process = p], slots |-> db.slots,
                   transactions |-> db.transactions, epochs |-> db.epochs]
        BY <4>1, TablesFacts
      <4> QED BY <4>2, TablesFacts
    <3>2. CASE db' = [db EXCEPT !.tasks[u].status = "Finished"]
      <4>1. db' = [tasks |-> [db.tasks EXCEPT ![u].status = "Finished"], slots |-> db.slots,
                   transactions |-> db.transactions, epochs |-> db.epochs]
        BY <3>2, TablesFacts
      <4> QED BY <4>1, TablesFacts
    <3> QED BY <2>3, <3>1, <3>2
  <2> QED BY <1>1, <2>2, <2>4
<1>5. CASE StoreInitTx \/ StoreEpochTx
  BY <1>5, TablesFacts DEF StoreInitTx, StoreEpochTx, SetTransaction
<1>6. CASE MapFault \/ UpdateDateRecord
  BY <1>6 DEF MapFault, UpdateDateRecord
<1>7. CASE SetEpoch
  BY <1>7, TablesFacts DEF SetEpoch
<1>8. CASE SetSlotFinish \/ \E s \in Slot : QuerySlot(s)
  BY <1>8, TablesFacts DEF SetSlotFinish, QuerySlot
<1>9. CASE \E tx \in Tx : StartTask(tx) \/ ReadEpoch(tx) \/ StartProcess(tx)
  BY <1>9, TablesFacts DEF StartTask, ReadEpoch, StartProcess
<1>10. CASE \/ \E u \in Task : CreateTask(u) \/ Offer(u) \/ TakeInitTask(u)
            \/ \E u \in Task : \E failed \in SUBSET (SlotsOf(u) \cap MayFail) :
                   SendSchedule(u, failed)
            \/ \E s \in Slot : CommitSlot(s)
            \/ \E s \in Slot : \E a \in Amounts[s] : FinalizeSlot(s, a)
            \/ EpochTick \/ UNCHANGED vars
  BY <1>10 DEF CreateTask, Offer, TakeInitTask, SendSchedule, CommitSlot, FinalizeSlot,
               EpochTick, vars
<1>11. CASE Recover
  BY <1>11, RecoveredFacts, TablesFacts, GiveUpFacts DEF Recover, RestartOn
<1>12. CASE StartAfresh
  BY <1>12 DEF StartAfresh, RestartOn
<1> QED
  BY <1>2, <1>3, <1>4, <1>5, <1>6, <1>7, <1>8, <1>9, <1>10, <1>11, <1>12 DEF Next, OracleStep

\* A task that recovery (Recovery/recovery.go) gave up keeps its row for ever: no slot a
\* node delivers late and no transaction of an earlier master moves it, because the
\* tasks that can be written are those this process started, and those have not
\* failed.
THEOREM GivenUpForGood == Spec => GivenUpStaysGivenUp
<1>1. Inv /\ [Next]_vars =>
        [\A t \in Task : db.tasks[t].status = "Failed" =>
            db'.tasks[t] = db.tasks[t] \/ db' = EmptyDb]_vars
  BY FailedRowsKept
<1> QED BY <1>1, InvHolds, PTL DEF Spec, GivenUpStaysGivenUp
=============================================================================
