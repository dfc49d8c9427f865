----------------------------- MODULE TableProofs -----------------------------
(* More about Persistence: what becomes of the rows of the tables.           *)
EXTENDS PersistenceProofs, FiniteSums

-----------------------------------------------------------------------------
(* Steps that are more than one.                                             *)

\* A panic says why, and leaves no transaction in hand.
LEMMA PanicFacts ==
    \A why, about : Panic(why, about) => oracle'.pc = why /\ oracle'.tx = None
  BY DEF Panic

\* The task of an initialisation gets a row, or the insert fails.
LEMMA SetTaskFacts ==
    ASSUME Inv, SetTask
    PROVE  /\ oracle.pc = "initTask" /\ oracle'.pc \in {"idle", "dataset"}
           /\ \E u \in Task :
                 /\ ~Stored(u)
                 /\ \/ db'.tasks = db.tasks
                    \/ db'.tasks = [db.tasks EXCEPT ![u] = [NoTask EXCEPT !.status = "Processing"]]
           /\ UNCHANGED <<db.slots, db.transactions, db.epochs>>
           /\ UNCHANGED <<upper, nodes, epochs, monitor, finishes, restarts, overtaken, torn>>
<1>1. PICK u \in started : oracle.tx = InitTx(u) /\ oracle.tx[2] = u
  BY TxFacts DEF SetTask, Inv, OracleFits
<1>2. u \in Task /\ ~Stored(u)
  BY <1>1, TablesFacts DEF SetTask, Inv, Started, AtInit
<1> PICK row : row = [NoTask EXCEPT !.status = "Processing"]
  OBVIOUS
<1>3. db' = db \/ db' = [db EXCEPT !.tasks[u] = row]
  BY <1>1 DEF SetTask, InsertTask
<1>4. /\ UNCHANGED <<db.slots, db.transactions, db.epochs>>
      /\ db'.tasks = db.tasks \/ db'.tasks = [db.tasks EXCEPT ![u] = row]
  <2>1. CASE db' = db
    BY <2>1
  <2>2. CASE db' = [db EXCEPT !.tasks[u] = row]
    <3>1. db' = [tasks |-> [db.tasks EXCEPT ![u] = row], slots |-> db.slots,
                 transactions |-> db.transactions, epochs |-> db.epochs]
      BY <2>2, TablesFacts
    <3> QED BY <3>1
  <2> QED BY <1>3, <2>1, <2>2
<1>5. oracle.pc = "initTask" /\ oracle'.pc \in {"idle", "dataset"}
  <2>1. oracle' = Idle \/ \E about : Panic("dataset", about)
    BY DEF SetTask
  <2> QED BY <2>1, PanicFacts DEF SetTask, Idle
<1>6. UNCHANGED <<upper, nodes, epochs, monitor, finishes, restarts, overtaken, torn>>
  BY DEF SetTask
<1> QED BY <1>2, <1>4, <1>5, <1>6

-----------------------------------------------------------------------------
(* The table of epochs.  The epoch transactions of one process come back in *)
(* any order, or never, and the first number of the next process is found   *)
(* in the table.                                                            *)

\* An epoch whose transaction is on its way or in the hand of the Oracle.
OracleHolds(k) == oracle.pc \in {"epochTx", "epoch"} /\ oracle.tx = EpochTx(k)
Live(k) == EpochTx(k) \in Upper!Waiting \/ OracleHolds(k)
IdOf(k) == epochLog[k].id

LogType ==
    /\ record \in EpochRecord
    /\ epochLog \in Seq(EpochRecord)
    /\ \A k \in Nat : EpochTx(k) \in handed => k \in 1 .. Len(epochLog)

\* The number of a live record is below that of the current one, and nobody else's.
LiveIdsAreUnique ==
    \A k \in 1 .. Len(epochLog) :
        Live(k) => /\ IdOf(k) < record.id
                   /\ \A j \in 1 .. Len(epochLog) : Live(j) /\ IdOf(j) = IdOf(k) => j = k
                   /\ \A e \in db.epochs : e.id # IdOf(k)

\* What the Oracle has in hand while it stores a record.
HandIsLogged ==
    oracle.pc \in {"epochTx", "epoch"} =>
        \E k \in 1 .. Len(epochLog) :
            oracle.tx = EpochTx(k) /\ oracle.tx \notin Upper!Waiting

\* Rows are below the current record, and one has the greatest number.
TableOfEpochs ==
    /\ \A e \in db.epochs :
          e.id \in Int /\ e.id < record.id
    /\ db.epochs # {} => \E e \in db.epochs : \A d \in db.epochs : d.id <= e.id

EpochInv ==
    LogType /\ LiveIdsAreUnique /\ HandIsLogged /\ TableOfEpochs

\* The records of the log have numbers.
LEMMA LogIds == EpochInv => \A k \in 1 .. Len(epochLog) : IdOf(k) \in Int
<1> SUFFICES ASSUME EpochInv PROVE \A k \in 1 .. Len(epochLog) : IdOf(k) \in Int
  OBVIOUS
<1>1. epochLog \in Seq(EpochRecord)
  BY DEF EpochInv, LogType
<1>2. \A e \in EpochRecord : e.id \in Int
  BY DEF EpochRecord
<1>3. \A k \in 1 .. Len(epochLog) : epochLog[k] \in EpochRecord
  BY <1>1
<1> QED BY <1>2, <1>3 DEF IdOf

\* The first state.
LEMMA EpochInit == Init => EpochInv
<1> SUFFICES ASSUME Init PROVE EpochInv
  OBVIOUS
<1>1. /\ handed = {} /\ epochLog = <<>> /\ db.epochs = {} /\ oracle.pc = "idle"
      /\ record = EmptyRecord(0)
  BY DEF Init, Upper!Init, EmptyDb, Idle
<1>2. LogType
  BY <1>1 DEF LogType, EpochRecord, EmptyRecord
<1> QED BY <1>1, <1>2 DEF EpochInv, LiveIdsAreUnique, HandIsLogged,
                          TableOfEpochs

\* A step that writes no epoch, starts no new record and brings no record to life
\* keeps the invariant.
LEMMA EpochFrame ==
    ASSUME EpochInv,
           record' \in EpochRecord, record'.id = record.id, epochLog' = epochLog,
           db'.epochs = db.epochs,
           \A k \in Nat : EpochTx(k) \in handed' => EpochTx(k) \in handed,
           \A k \in 1 .. Len(epochLog) : Live(k)' => Live(k),
           HandIsLogged'
    PROVE  EpochInv'
<1>1. LogType'
  BY DEF EpochInv, LogType
<1>3. LiveIdsAreUnique'
  BY DEF EpochInv, LiveIdsAreUnique, IdOf
<1>4. TableOfEpochs'
  BY DEF EpochInv, TableOfEpochs
<1> QED BY <1>1, <1>3, <1>4 DEF EpochInv

\* So does one that leaves record and epoch table to others.
LEMMA EpochsUntouched ==
    ASSUME Inv, EpochInv, UNCHANGED <<record, epochLog>>,
           db'.epochs = db.epochs, UNCHANGED handed,
           \A k \in 1 .. Len(epochLog) : Live(k)' => Live(k), HandIsLogged'
    PROVE  EpochInv'
<1>1. record' \in EpochRecord
  BY DEF EpochInv, LogType
<1> QED BY <1>1, EpochFrame

-----------------------------------------------------------------------------
(* The rest of the master.                                                   *)

\* Tasks, schedules and slots move on; a slot is added to the current record.
LEMMA OthersKeepEpochs ==
    ASSUME Inv, EpochInv,
           \/ \E t \in Task : CreateTask(t) \/ Offer(t) \/ TakeInitTask(t)
           \/ \E t \in Task : \E failed \in SUBSET (SlotsOf(t) \cap MayFail) :
                  SendSchedule(t, failed)
           \/ \E s \in Slot : CommitSlot(s)
           \/ \E s \in Slot : \E a \in Amounts[s] : FinalizeSlot(s, a)
    PROVE  EpochInv'
<1> USE UpperFacts, TxFacts DEF Inv, Shape, upper, nodes, epochs
<1>0. record \in EpochRecord
  BY DEF EpochInv, LogType
<1>1. UNCHANGED <<started, epochLog, oracle, db>>
  BY DEF CreateTask, Offer, TakeInitTask, SendSchedule, CommitSlot, FinalizeSlot
<1>2. \A k : EpochTx(k) \in Upper!Waiting' => EpochTx(k) \in Upper!Waiting
  <2>1. CASE \E t \in Task : CreateTask(t)
    BY <2>1 DEF CreateTask
  <2>2. CASE \E s \in Slot : \E a \in Amounts[s] : FinalizeSlot(s, a)
    BY <2>2 DEF FinalizeSlot
  <2>3. CASE UNCHANGED upper
    BY <2>3
  <2> QED BY <2>1, <2>2, <2>3 DEF Offer, TakeInitTask, SendSchedule, CommitSlot
<1>3. \A k \in Nat : EpochTx(k) \in handed' => EpochTx(k) \in handed
  <2>1. CASE \E t \in Task : CreateTask(t)
    BY <2>1 DEF CreateTask
  <2>2. ASSUME NEW s \in Slot, NEW a \in Amounts[s], FinalizeSlot(s, a)
        PROVE  handed' = handed \cup {ProcessTx(s, a)}
    BY <2>2 DEF FinalizeSlot
  <2>3. \A k, s, a : EpochTx(k) # ProcessTx(s, a)
    BY TxFacts
  <2>4. CASE UNCHANGED upper
    BY <2>4
  <2> QED BY <2>1, <2>2, <2>3, <2>4 DEF Offer, TakeInitTask, SendSchedule, CommitSlot
<1>4. /\ \A k : Live(k)' => Live(k)
      /\ HandIsLogged'
  <2>1. \A k : Live(k)' => Live(k)
    BY <1>1, <1>2 DEF Live, OracleHolds
  <2>2. HandIsLogged'
    BY <1>1, <1>2 DEF EpochInv, HandIsLogged
  <2> QED BY <2>1, <2>2
<1>5. /\ record' \in EpochRecord /\ record'.id = record.id
  <2>1. CASE \E t \in Task : CreateTask(t) \/ Offer(t)
    BY <1>0, <1>1, <2>1 DEF CreateTask, Offer
  <2>2. CASE \E t \in Task : TakeInitTask(t)
    BY <1>0, <1>1, <2>2 DEF TakeInitTask
  <2>3. ASSUME NEW t \in Task, NEW failed \in SUBSET (SlotsOf(t) \cap MayFail),
               SendSchedule(t, failed)
        PROVE  record' \in EpochRecord /\ record'.id = record.id
    BY <1>0, <2>3 DEF SendSchedule, SlotsOf, EpochRecord
  <2>4. ASSUME NEW s \in Slot, CommitSlot(s)
        PROVE  record' \in EpochRecord /\ record'.id = record.id
    BY ZenonT(40), <1>0, <2>4 DEF CommitSlot, EpochRecord
  <2>5. ASSUME NEW s \in Slot, NEW a \in Amounts[s], FinalizeSlot(s, a)
        PROVE  record' \in EpochRecord /\ record'.id = record.id
    <3>1. record' = [record EXCEPT !.finalizes = @ \cup {s}]
      BY <2>5 DEF FinalizeSlot
    <3> QED BY ZenonT(40), <1>0, <3>1 DEF EpochRecord
  <2> QED BY <1>0, <1>1, <2>1, <2>2, <2>3, <2>4, <2>5
<1> QED BY <1>1, <1>3, <1>4, <1>5, EpochFrame

\* The record that ends becomes live with the number of the current one, which goes up.
LEMMA TickKeepsEpochs == Inv /\ EpochInv /\ EpochTick => EpochInv'
<1> SUFFICES ASSUME Inv, EpochInv, EpochTick PROVE EpochInv'
  OBVIOUS
<1> PICK n : n = Len(epochLog) + 1
  OBVIOUS
<1>1. /\ record \in EpochRecord /\ record.id \in Int
      /\ epochLog \in Seq(EpochRecord)
  BY DEF EpochInv, LogType, EpochRecord
<1>2. /\ UNCHANGED <<oracle, db>>
      /\ handed' = handed \cup {EpochTx(n)}
      /\ Upper!Waiting' \subseteq Upper!Waiting \cup {EpochTx(n)}
      /\ epochLog' = Append(epochLog, record) /\ record' = EmptyRecord(record.id + 1)
  BY UpperFacts DEF EpochTick, Inv, Shape
<1>4. /\ Len(epochLog') = n /\ n - 1 = Len(epochLog) /\ Len(epochLog) \in Nat
      /\ epochLog' \in Seq(EpochRecord)
      /\ \A k \in 1 .. Len(epochLog) : epochLog'[k] = epochLog[k]
      /\ epochLog'[n] = record /\ 1 .. n = 1 .. Len(epochLog) \cup {n}
  BY <1>1, <1>2
<1>5. record' \in EpochRecord /\ record'.id = record.id + 1
  BY <1>1, <1>2 DEF EmptyRecord, EpochRecord
<1>6. \A k \in 1 .. Len(epochLog) : Live(k)' => Live(k)
  BY <1>2, <1>4, TxFacts DEF Live, OracleHolds
<1>7. /\ \A k \in 1 .. Len(epochLog) : IdOf(k)' = IdOf(k) /\ IdOf(k) \in Int
      /\ IdOf(n)' = record.id
  <2>1. \A k \in 1 .. Len(epochLog) : IdOf(k) \in Int
    BY LogIds
  <2>2. \A k \in 1 .. Len(epochLog) : IdOf(k)' = IdOf(k)
    BY <1>4 DEF IdOf
  <2>3. IdOf(n)' = record.id
    BY <1>4 DEF IdOf
  <2> QED BY <2>1, <2>2, <2>3
<1>8. LogType'
  BY <1>2, <1>4, <1>5, TxFacts DEF EpochInv, LogType
<1>10. LiveIdsAreUnique'
  <2>1. ASSUME NEW k \in 1 .. Len(epochLog), Live(k)
        PROVE  /\ IdOf(k) < record.id
               /\ \A j \in 1 .. Len(epochLog) : Live(j) /\ IdOf(j) = IdOf(k) => j = k
               /\ \A e \in db.epochs : e.id # IdOf(k)
    BY <2>1 DEF EpochInv, LiveIdsAreUnique
  <2>2. \A e \in db.epochs : e.id \in Int /\ e.id < record.id
    BY DEF EpochInv, TableOfEpochs
  <2>3. ASSUME NEW k \in 1 .. Len(epochLog), Live(k)'
        PROVE  /\ IdOf(k)' < record'.id
               /\ \A j \in 1 .. n : Live(j)' /\ IdOf(j)' = IdOf(k)' => j = k
               /\ \A e \in db'.epochs : e.id # IdOf(k)'
    <3>1. Live(k)
      BY <1>6, <2>3
    <3>2. \A j \in 1 .. Len(epochLog) : Live(j)' /\ IdOf(j)' = IdOf(k)' => j = k
      BY <1>6, <1>7, <2>1, <3>1
    <3>3. IdOf(n)' # IdOf(k)'
      BY <1>1, <1>7, <2>1, <3>1
    <3> QED BY <1>1, <1>2, <1>4, <1>5, <1>7, <2>1, <3>1, <3>2, <3>3
  <2>4. /\ IdOf(n)' < record'.id
        /\ \A j \in 1 .. n : Live(j)' /\ IdOf(j)' = IdOf(n)' => j = n
        /\ \A e \in db'.epochs : e.id # IdOf(n)'
    <3>1. \A j \in 1 .. Len(epochLog) : Live(j)' => IdOf(j)' # IdOf(n)'
      BY <1>1, <1>6, <1>7, <2>1
    <3> QED BY <1>1, <1>2, <1>4, <1>5, <1>7, <2>2, <3>1
  <2> QED BY <1>4, <2>3, <2>4 DEF LiveIdsAreUnique
<1>11. HandIsLogged'
  <2>1. \A k \in 1 .. Len(epochLog) : EpochTx(k) # EpochTx(n)
    BY <1>4, TxFacts
  <2> QED BY <1>2, <1>4, <2>1 DEF EpochInv, HandIsLogged
<1>12. TableOfEpochs'
  <2>1. db'.epochs = db.epochs
    BY <1>2
  <2>2. ASSUME NEW e \in db.epochs PROVE e.id \in Int /\ e.id < record'.id
    BY <1>1, <1>5 DEF EpochInv, TableOfEpochs
  <2> QED BY <2>1, <2>2 DEF EpochInv, TableOfEpochs
<1> QED BY <1>8, <1>10, <1>11, <1>12 DEF EpochInv

-----------------------------------------------------------------------------
(* The Oracle.                                                               *)

\* What it does outside of epoch records.
LEMMA OtherWritesKeepEpochs ==
    ASSUME Inv, EpochInv,
           \/ StoreSchedule \/ StoreInitTx \/ SetTask \/ MapFault \/ SetSlotFinish
           \/ Increment \/ UpdateTask \/ UpdateDateRecord
           \/ \E s \in Slot : QuerySlot(s)
           \/ \E tx \in Tx : StartTask(tx) \/ StartProcess(tx)
           \/ UNCHANGED vars
    PROVE  EpochInv'
<1>1. UNCHANGED <<record, epochLog, handed>>
  BY UpperFacts DEF Inv, Shape, StoreSchedule, StoreInitTx, SetTask, MapFault, SetSlotFinish,
     Increment, UpdateTask, UpdateDateRecord, QuerySlot, StartTask, StartProcess, Take,
     vars, upper, epochs
<1>2. Upper!Waiting' \subseteq Upper!Waiting
  BY UpperFacts DEF Inv, Shape, StoreSchedule, StoreInitTx, SetTask, MapFault, SetSlotFinish,
     Increment, UpdateTask, UpdateDateRecord, QuerySlot, StartTask, StartProcess, Take, vars
<1>3. db'.epochs = db.epochs
  <2>1. CASE StoreSchedule
    BY <2>1, TablesFacts DEF StoreSchedule
  <2>2. CASE StoreInitTx \/ StartProcess(oracle.tx) \/ \E tx \in Tx : StartProcess(tx)
    BY <2>2, TablesFacts DEF StoreInitTx, SetTransaction, StartProcess
  <2>3. CASE SetTask \/ Increment \/ UpdateTask
    BY <2>3, TablesFacts, SetTaskFacts DEF Increment, UpdateTask
  <2>4. CASE SetSlotFinish \/ \E s \in Slot : QuerySlot(s)
    BY <2>4, TablesFacts DEF SetSlotFinish, QuerySlot
  <2>5. CASE UNCHANGED db
    BY <2>5
  <2> QED BY <2>1, <2>2, <2>3, <2>4, <2>5 DEF MapFault, UpdateDateRecord, StartTask, vars
<1>4. oracle' = oracle \/ oracle'.pc \notin {"epochTx", "epoch"}
  <2>1. CASE StoreSchedule \/ MapFault
    <3>1. \/ oracle' = oracle
          \/ oracle'.pc = "unknown task" /\ oracle'.tx = None
          \/ oracle'.pc = "map fault" /\ oracle'.tx = None
      BY <2>1, PanicFacts DEF StoreSchedule, MapFault
    <3>2. CASE oracle'.pc = "unknown task" /\ oracle'.tx = None
      BY <3>2
    <3>3. CASE oracle'.pc = "map fault" /\ oracle'.tx = None
      BY <3>3
    <3> QED BY <3>1, <3>2, <3>3
  <2>2. CASE StoreInitTx \/ SetSlotFinish
    BY <2>2, TablesFacts DEF StoreInitTx, SetSlotFinish
  <2>6. CASE SetTask
    BY <2>6, SetTaskFacts
  <2>3. CASE UpdateTask \/ UpdateDateRecord
    BY <2>3, TablesFacts DEF UpdateTask, UpdateDateRecord, Idle
  <2>4. CASE Increment
    <3>1. oracle' = Idle \/ oracle' = [oracle EXCEPT !.pc = "finish"]
      BY <2>4 DEF Increment
    <3> QED BY <3>1, TablesFacts DEF Idle
  <2>5. ASSUME NEW tx \in Tx, StartTask(tx) \/ StartProcess(tx)
        PROVE  oracle'.pc \notin {"epochTx", "epoch"}
    <3>1. \/ oracle' = [pc |-> "initTx", tx |-> tx, tasks |-> {}]
          \/ oracle' = [pc |-> "slot", tx |-> tx, tasks |-> {}]
          \/ oracle'.pc = "unknown task" /\ oracle'.tx = None
      BY <2>5, PanicFacts DEF StartTask, StartProcess, Doing
    <3>2. CASE oracle' = [pc |-> "initTx", tx |-> tx, tasks |-> {}]
      BY <3>2
    <3>3. CASE oracle' = [pc |-> "slot", tx |-> tx, tasks |-> {}]
      BY <3>3
    <3>4. CASE oracle'.pc = "unknown task" /\ oracle'.tx = None
      BY <3>4
    <3> QED BY <3>1, <3>2, <3>3, <3>4
  <2> QED BY <2>1, <2>2, <2>3, <2>4, <2>5, <2>6 DEF QuerySlot, vars
<1>5. \A k : Live(k)' => Live(k)
  BY <1>2, <1>4 DEF Live, OracleHolds
<1>6. HandIsLogged'
  BY <1>1, <1>2, <1>4 DEF EpochInv, HandIsLogged
<1> QED BY <1>1, <1>3, <1>5, <1>6, EpochsUntouched

\* An epoch transaction comes back; it stays live in the hand of the Oracle.
LEMMA ReadKeepsEpochs ==
    ASSUME Inv, EpochInv, NEW tx \in Tx, ReadEpoch(tx)
    PROVE  EpochInv'
<1>1. /\ tx \in Upper!Waiting /\ tx \in handed /\ handed' = handed /\ tx[1] = "epoch"
      /\ Upper!Waiting' \subseteq Upper!Waiting \ {tx}
      /\ UNCHANGED <<record, epochLog>>
      /\ \/ oracle' = [pc |-> "epochTx", tx |-> tx, tasks |-> {}]
         \/ oracle'.pc = "nil task" /\ oracle'.tx = None
  BY UpperFacts, PanicFacts DEF ReadEpoch, Take, Doing, nodes, epochs, Inv, Shape
<1>2. PICK k \in Nat : tx = EpochTx(k)
  <2>1. PICK k \in 1 .. EpochBound * (CrashBound + 1) : tx = EpochTx(k)
    BY <1>1, TxKinds
  <2> QED BY <2>1
<1>3. k \in 1 .. Len(epochLog)
  BY <1>1, <1>2 DEF EpochInv, LogType
<1>d. \/ oracle'.pc = "epochTx" /\ oracle'.tx = tx
      \/ oracle'.pc = "nil task"
  <2>1. CASE oracle' = [pc |-> "epochTx", tx |-> tx, tasks |-> {}]
    BY <2>1
  <2>2. CASE oracle'.pc = "nil task" /\ oracle'.tx = None
    BY <2>2
  <2> QED BY <1>1, <2>1, <2>2
<1>4. HandIsLogged'
  <2> SUFFICES ASSUME oracle'.pc = "epochTx" /\ oracle'.tx = tx PROVE HandIsLogged'
    BY <1>d DEF HandIsLogged
  <2> QED BY <1>1, <1>2, <1>3 DEF HandIsLogged
<1>5. \A j : Live(j)' => Live(j)
  BY <1>1, <1>d DEF Live, OracleHolds
<1>6. db'.epochs = db.epochs
  BY TablesFacts DEF ReadEpoch
<1> QED BY <1>1, <1>4, <1>5, <1>6, EpochsUntouched

\* The record stays in the hand of the Oracle.
LEMMA CopyKeepsEpochs == Inv /\ EpochInv /\ StoreEpochTx => EpochInv'
<1> SUFFICES ASSUME Inv, EpochInv, StoreEpochTx PROVE EpochInv'
  OBVIOUS
<1>1. /\ oracle.pc = "epochTx" /\ oracle'.pc = "epoch" /\ oracle'.tx = oracle.tx
      /\ db'.epochs = db.epochs
      /\ UNCHANGED <<upper, nodes, epochs>>
  BY TablesFacts DEF StoreEpochTx, SetTransaction
<1>2. /\ UNCHANGED <<record, epochLog, handed>>
      /\ Upper!Waiting' = Upper!Waiting
  BY <1>1, UpperFacts DEF Inv, Shape, upper, nodes, epochs
<1>4. PICK k \in 1 .. Len(epochLog) :
          oracle.tx = EpochTx(k) /\ oracle.tx \notin Upper!Waiting
  BY <1>1 DEF EpochInv, HandIsLogged
<1>6. HandIsLogged'
  BY <1>1, <1>2, <1>4 DEF HandIsLogged
<1>7. \A j : Live(j)' => Live(j)
  BY <1>1, <1>2 DEF Live, OracleHolds
<1> QED BY <1>1, <1>2, <1>6, <1>7, EpochsUntouched

\* The record in hand becomes a row, with a number no row and no live record has.
LEMMA StoreKeepsEpochs == Inv /\ EpochInv /\ SetEpoch => EpochInv'
<1> SUFFICES ASSUME Inv, EpochInv, SetEpoch PROVE EpochInv'
  OBVIOUS
<1>1. PICK k \in 1 .. Len(epochLog) :
          oracle.tx = EpochTx(k) /\ EpochTx(k) \notin Upper!Waiting
  BY DEF SetEpoch, EpochInv, HandIsLogged
<1>2. Live(k)
  BY <1>1 DEF SetEpoch, Live, OracleHolds
<1>3. /\ oracle.tx[2] = k /\ IdOf(k) < record.id /\ \A e \in db.epochs : e.id # IdOf(k)
  BY <1>1, <1>2, TxFacts DEF EpochInv, LiveIdsAreUnique
<1> PICK row : row = [id |-> IdOf(k), tx |-> oracle.tx]
  OBVIOUS
<1>4. db'.epochs = db.epochs \cup {row}
  BY <1>3, TablesFacts DEF SetEpoch, IdOf
<1>r. row.id = IdOf(k)
  OBVIOUS
<1>5. /\ UNCHANGED <<record, epochLog, handed>>
      /\ Upper!Waiting' = Upper!Waiting /\ oracle'.pc = "idle"
  BY UpperFacts DEF Idle, SetEpoch, Inv, Shape, upper, nodes, epochs
<1>6. \A j : Live(j)' => Live(j) /\ j # k
  BY <1>1, <1>5 DEF Live, OracleHolds
<1>i. \A j : IdOf(j)' = IdOf(j)
  BY <1>5 DEF IdOf
<1>7. LogType' /\ HandIsLogged'
  BY <1>5 DEF EpochInv, LogType, HandIsLogged
<1>9. LiveIdsAreUnique'
  <2>1. ASSUME NEW j \in 1 .. Len(epochLog), Live(j)'
        PROVE  /\ IdOf(j) < record.id
               /\ \A h \in 1 .. Len(epochLog) : Live(h) /\ IdOf(h) = IdOf(j) => h = j
               /\ \A e \in db'.epochs : e.id # IdOf(j)
    <3>1. Live(j) /\ j # k
      BY <1>6, <2>1
    <3>2. /\ IdOf(j) < record.id
          /\ \A h \in 1 .. Len(epochLog) : Live(h) /\ IdOf(h) = IdOf(j) => h = j
          /\ \A e \in db.epochs : e.id # IdOf(j)
      BY <3>1 DEF EpochInv, LiveIdsAreUnique
    <3>3. IdOf(k) # IdOf(j)
      BY <1>2, <3>1, <3>2
    <3> QED BY <1>4, <1>r, <3>2, <3>3
  <2> QED BY <1>5, <1>6, <1>i, <2>1 DEF LiveIdsAreUnique
<1>10. TableOfEpochs'
  <2>1. IdOf(k) \in Int
    BY <1>1, LogIds
  <2>2. \A e \in db.epochs :
            e.id \in Int /\ e.id < record.id
    BY DEF EpochInv, TableOfEpochs
  <2>3. \A e \in db'.epochs :
            e.id \in Int /\ e.id < record.id
    BY <1>1, <1>3, <1>4, <1>r, <2>1, <2>2
  <2>4. \E e \in db'.epochs : \A d \in db'.epochs : d.id <= e.id
    <3>1. CASE db.epochs = {}
      BY <1>4, <1>r, <2>1, <3>1
    <3>2. CASE db.epochs # {}
      <4>1. PICK e \in db.epochs : \A d \in db.epochs : d.id <= e.id
        BY <3>2 DEF EpochInv, TableOfEpochs
      <4>2. CASE IdOf(k) <= e.id
        BY <1>4, <1>r, <4>1, <4>2
      <4>3. CASE e.id < IdOf(k)
        <5>1. \A d \in db'.epochs : d.id <= row.id
          BY <1>4, <1>r, <2>1, <2>2, <4>1, <4>3
        <5> QED BY <1>4, <5>1
      <4> QED BY <2>1, <2>2, <4>2, <4>3
    <3> QED BY <3>1, <3>2
  <2> QED BY <1>5, <2>3, <2>4 DEF TableOfEpochs
<1> QED BY <1>7, <1>9, <1>10 DEF EpochInv

-----------------------------------------------------------------------------
(* Crash and restart.                                                        *)

\* The number after the greatest in the table is above all of them.
LEMMA FirstIdIsAbove ==
    ASSUME NEW D, \A e \in D.epochs : e.id \in Int,
           D.epochs # {} => \E e \in D.epochs : \A d \in D.epochs : d.id <= e.id
    PROVE  FirstEpochID(D) \in Int /\ \A e \in D.epochs : e.id < FirstEpochID(D)
<1>1. CASE D.epochs = {}
  BY <1>1 DEF FirstEpochID, MaxEpochID
<1>2. CASE D.epochs # {}
  <2> DEFINE ids == {e.id : e \in D.epochs}
  <2>1. \E x \in ids : \A y \in ids : x >= y
    BY <1>2
  <2>2. Max(ids) \in ids /\ \A y \in ids : Max(ids) >= y
    BY <2>1 DEF Max
  <2>3. FirstEpochID(D) = Max(ids) + 1
    BY <1>2 DEF FirstEpochID, MaxEpochID
  <2> HIDE DEF ids
  <2>4. ids \subseteq Int /\ \A e \in D.epochs : e.id \in ids
    BY DEF ids
  <2>m. PICK m \in Int : m = Max(ids)
    BY <2>2, <2>4
  <2>5. /\ m + 1 \in Int /\ \A y \in Int : m >= y => y < m + 1
    OBVIOUS
  <2> QED BY <2>2, <2>3, <2>4, <2>m, <2>5
<1> QED BY <1>1, <1>2

\* After a restart no record is live, and the table is as it was or empty.
LEMMA RestartKeepsEpochs ==
    ASSUME Inv, EpochInv, NEW D, RestartOn(D), D.epochs = db.epochs \/ D.epochs = {}
    PROVE  EpochInv'
<1>1. /\ handed' = handed /\ Upper!Waiting' = {} /\ oracle' = Idle /\ db' = D
      /\ record' = EmptyRecord(FirstEpochID(D))
      /\ epochLog' = [k \in DOMAIN epochLog |-> EmptyRecord(epochLog[k].id)]
  BY UpperFacts DEF RestartOn, Inv, Shape
<1>2. epochLog \in Seq(EpochRecord)
  BY DEF EpochInv, LogType
<1>3. /\ \A e \in D.epochs : e.id \in Int
      /\ D.epochs # {} => \E e \in D.epochs : \A d \in D.epochs : d.id <= e.id
  BY DEF EpochInv, TableOfEpochs
<1>4. FirstEpochID(D) \in Int /\ \A e \in D.epochs : e.id < FirstEpochID(D)
  BY <1>3, FirstIdIsAbove
<1>5. record' \in EpochRecord /\ record'.id = FirstEpochID(D)
  BY <1>1, <1>4 DEF EmptyRecord, EpochRecord
<1>7. \A k : ~Live(k)'
  BY <1>1 DEF Live, OracleHolds, Idle
<1>8. epochLog' \in Seq(EpochRecord) /\ Len(epochLog') = Len(epochLog)
  <2>1. \A k \in 1 .. Len(epochLog) : EmptyRecord(epochLog[k].id) \in EpochRecord
    <3>1. \A id \in Int : EmptyRecord(id) \in EpochRecord
      BY DEF EmptyRecord, EpochRecord
    <3>2. \A k \in 1 .. Len(epochLog) : epochLog[k].id \in Int
      BY LogIds DEF IdOf
    <3> QED BY <3>1, <3>2
  <2> QED BY <1>1, <1>2, <2>1
<1>9. LogType'
  BY <1>1, <1>5, <1>8 DEF EpochInv, LogType
<1>10. LiveIdsAreUnique'
  BY <1>7 DEF LiveIdsAreUnique
<1>11. HandIsLogged'
  BY <1>1 DEF HandIsLogged, Idle
<1>12. TableOfEpochs'
  BY <1>1, <1>3, <1>4, <1>5 DEF TableOfEpochs
<1> QED BY <1>9, <1>10, <1>11, <1>12 DEF EpochInv

-----------------------------------------------------------------------------
\* Every step keeps the invariant.
LEMMA NextKeepsEpochs == Inv /\ EpochInv /\ [Next]_vars => EpochInv'
<1> SUFFICES ASSUME Inv, EpochInv, [Next]_vars PROVE EpochInv'
  OBVIOUS
<1>1. CASE \E tx \in Tx : ReadEpoch(tx)
  BY <1>1, ReadKeepsEpochs
<1>2. CASE \/ \E t \in Task : CreateTask(t) \/ Offer(t) \/ TakeInitTask(t)
           \/ \E t \in Task : \E failed \in SUBSET (SlotsOf(t) \cap MayFail) :
                  SendSchedule(t, failed)
           \/ \E s \in Slot : CommitSlot(s)
           \/ \E s \in Slot : \E a \in Amounts[s] : FinalizeSlot(s, a)
  BY <1>2, OthersKeepEpochs
<1>3. CASE EpochTick
  BY <1>3, TickKeepsEpochs
<1>4. CASE \/ StoreSchedule \/ StoreInitTx \/ SetTask \/ MapFault \/ SetSlotFinish
           \/ Increment \/ UpdateTask \/ UpdateDateRecord
           \/ \E s \in Slot : QuerySlot(s)
           \/ \E tx \in Tx : StartTask(tx) \/ StartProcess(tx)
           \/ UNCHANGED vars
  BY <1>4, OtherWritesKeepEpochs
<1>5. CASE StoreEpochTx \/ SetEpoch
  BY <1>5, CopyKeepsEpochs, StoreKeepsEpochs
<1>6. CASE Recover
  BY <1>6, RecoveredFacts, RestartKeepsEpochs DEF Recover
<1>7. CASE StartAfresh
  BY <1>7, RestartKeepsEpochs DEF StartAfresh, EmptyDb
<1> QED BY <1>1, <1>2, <1>3, <1>4, <1>5, <1>6, <1>7 DEF Next, OracleStep

\* So it holds in every state.
LEMMA EpochInvHolds == Spec => [](Inv /\ EpochInv)
<1>1. Init => Inv /\ EpochInv
  BY InvInit, EpochInit
<1>2. (Inv /\ EpochInv) /\ [Next]_vars => (Inv /\ EpochInv)'
  BY NextKeepsInv, NextKeepsEpochs
<1> QED BY <1>1, <1>2, PTL DEF Spec

\* The primary key of SetEpoch (Database/write.go) is the EpochID, and an insert that
\* fails is only logged: but no record is ever stored under an ID that is taken,
\* whatever order its workers let the transactions through in, whatever a crash
\* loses, and although GetMaxEpochID sees only what was stored.
THEOREM EpochIdsAlwaysFresh == Spec => []EpochIdsAreFresh
<1>1. ASSUME Inv, EpochInv PROVE EpochIdsAreFresh
  <2> SUFFICES ASSUME oracle.pc = "epoch"
               PROVE  \A e \in db.epochs : e.id # epochLog[oracle.tx[2]].id
    BY DEF EpochIdsAreFresh
  <2>1. PICK k \in 1 .. Len(epochLog) : oracle.tx = EpochTx(k)
    BY <1>1 DEF EpochInv, HandIsLogged
  <2>2. Live(k)
    BY <2>1 DEF Live, OracleHolds
  <2>3. \A e \in db.epochs : e.id # IdOf(k)
    BY <1>1, <2>2 DEF EpochInv, LiveIdsAreUnique
  <2>4. oracle.tx[2] = k
    BY <2>1, TxFacts
  <2> QED BY <2>3, <2>4 DEF IdOf
<1> QED BY <1>1, EpochInvHolds, PTL

-----------------------------------------------------------------------------
(* The table of tasks: how far a task is, as its row says it, and how often *)
(* it was counted as finished.                                              *)

Process(t) == db.tasks[t].process
TaskStatus(t) == db.tasks[t].status

\* The Oracle is about to mark a task as finished, or to count it.
Marks(t) == oracle.pc = "finish" /\ TaskOf[oracle.tx[2]] = t
Counts(t) == oracle.pc \in {"finish", "date"} /\ TaskOf[oracle.tx[2]] = t

CutOff(t) == \E c \in torn : c[1] = "finish" /\ TaskOf[c[2][2]] = t

Overdelivered(t) ==
    \/ Process(t) > Size[t]
    \/ \E s \in SlotsOf(t) : ProcessTx(s, 0) \in db.transactions

\* Progress is reached before a row, the Oracle or a count says that it is, and what
\* is counted again was complete before its last slot.
RowOf(t) ==
    /\ Process(t) \in Nat /\ finishes[t] \in Nat
    /\ ~Stored(t) => Process(t) = 0
    /\ TaskStatus(t) = "Finished" \/ Counts(t) \/ finishes[t] >= 1 => Process(t) >= Size[t]
    /\ Process(t) >= Size[t] => TaskStatus(t) = "Finished" \/ Marks(t) \/ CutOff(t)
    /\ finishes[t] > 1 \/ (finishes[t] = 1 /\ Counts(t)) => Overdelivered(t)

RowInv == finishes \in [Task -> Nat] /\ \A t \in Task : RowOf(t)

\* The first state.
LEMMA RowInit == Init => RowInv
<1> SUFFICES ASSUME Init PROVE RowInv
  OBVIOUS
<1>1. /\ finishes = [t \in Task |-> 0] /\ oracle.pc = "idle"
      /\ \A t \in Task : db.tasks[t].status = "none" /\ db.tasks[t].process = 0
  BY DEF Init, EmptyDb, NoTask, Idle
<1>2. \A t \in Task : Size[t] \in Nat \ {0}
  BY PersistenceAssumption
<1> QED BY <1>1, <1>2 DEF RowInv, RowOf, Process, TaskStatus, Stored, Counts, Marks

-----------------------------------------------------------------------------
(* Steps that leave the row of a task as far as it was.                      *)

\* A row with the same progress and status, and an Oracle that comes no nearer to it.
LEMMA SameRow ==
    ASSUME NEW t \in Task, RowOf(t),
           Process(t)' = Process(t), TaskStatus(t)' = TaskStatus(t),
           finishes'[t] = finishes[t], db.transactions \subseteq db'.transactions,
           torn \subseteq torn', Counts(t)' => Counts(t),
           Marks(t) => Marks(t)' \/ CutOff(t)'
    PROVE  RowOf(t)'
<1>1. /\ Stored(t)' <=> Stored(t)
      /\ CutOff(t) => CutOff(t)'
      /\ Overdelivered(t) => Overdelivered(t)'
  BY DEF Stored, TaskStatus, CutOff, Overdelivered, SlotsOf
<1> QED BY <1>1 DEF RowOf

\* Most steps do this with all rows.
Quiet ==
    /\ \A t \in Task : Process(t)' = Process(t) /\ TaskStatus(t)' = TaskStatus(t)
    /\ db.transactions \subseteq db'.transactions
    /\ UNCHANGED <<finishes, torn>>
    /\ \/ oracle' = oracle
       \/ oracle.pc # "finish" /\ oracle'.pc \notin {"finish", "date"}

\* A step that writes no progress keeps the rows.
LEMMA QuietKeepsRows == RowInv /\ Quiet => RowInv'
<1> SUFFICES ASSUME RowInv, Quiet PROVE RowInv'
  OBVIOUS
<1>1. ASSUME NEW t \in Task PROVE RowOf(t)'
  <2>1. (Counts(t)' => Counts(t)) /\ (Marks(t) => Marks(t)')
    BY DEF Quiet, Counts, Marks
  <2> QED BY <2>1, SameRow DEF Quiet, RowInv
<1> QED BY <1>1 DEF RowInv, Quiet

\* A task whose schedule is stored keeps progress and status.
LEMMA ScheduleIsQuiet == Inv /\ StoreSchedule => Quiet
<1> SUFFICES ASSUME Inv, StoreSchedule PROVE Quiet
  OBVIOUS
<1>1. UNCHANGED <<finishes, torn>> /\ oracle.pc = "idle"
  BY DEF StoreSchedule, past
<1>2. CASE db' = db
  <2>1. oracle' = oracle \/ oracle'.pc = "unknown task"
    <3>1. oracle' = oracle \/ \E about : Panic("unknown task", about)
      BY DEF StoreSchedule
    <3>2. ASSUME NEW about, Panic("unknown task", about) PROVE oracle'.pc = "unknown task"
      BY <3>2, PanicFacts
    <3> QED BY <3>1, <3>2
  <2>2. CASE oracle'.pc = "unknown task"
    BY <1>1, <1>2, <2>2 DEF Quiet, Process, TaskStatus
  <2> QED BY <1>1, <1>2, <2>1, <2>2 DEF Quiet, Process, TaskStatus
<1>3. CASE oracle' = oracle /\ \E u, slots :
               db' = [db EXCEPT !.tasks[u].scheduled = TRUE, !.slots = slots]
  <2>1. PICK u, slots : db' = [db EXCEPT !.tasks[u].scheduled = TRUE, !.slots = slots]
    BY <1>3
  <2>2. db' = [tasks |-> [db.tasks EXCEPT ![u].scheduled = TRUE], slots |-> slots,
               transactions |-> db.transactions, epochs |-> db.epochs]
    BY <2>1, TablesFacts
  <2>3. db'.tasks = [db.tasks EXCEPT ![u].scheduled = TRUE]
        /\ db'.transactions = db.transactions
    BY <2>2
  <2>4. \A t \in Task : /\ db'.tasks[t].process = db.tasks[t].process
                        /\ db'.tasks[t].status = db.tasks[t].status
    BY <2>3, TablesFacts DEF TaskRow
  <2> QED BY <1>1, <1>3, <2>3, <2>4 DEF Quiet, Process, TaskStatus
<1> QED BY <1>2, <1>3 DEF StoreSchedule

\* The other steps of the Oracle that write no progress.
LEMMA OracleIsQuiet ==
    ASSUME Inv,
           \/ StoreInitTx \/ StoreEpochTx \/ MapFault \/ SetEpoch \/ SetSlotFinish
           \/ \E tx \in Tx : StartTask(tx) \/ ReadEpoch(tx) \/ StartProcess(tx)
    PROVE  Quiet
<1>1. /\ UNCHANGED <<finishes, torn>>
      /\ oracle.pc # "finish"
  BY DEF StoreInitTx, StoreEpochTx, MapFault, SetEpoch, SetSlotFinish, StartTask, ReadEpoch,
     StartProcess, Take, past
<1>2. db'.tasks = db.tasks /\ db.transactions \subseteq db'.transactions
  <2>1. CASE StoreInitTx \/ StoreEpochTx
    BY <2>1, TablesFacts DEF StoreInitTx, StoreEpochTx, SetTransaction
  <2>2. CASE MapFault \/ SetEpoch
    BY <2>2, TablesFacts DEF MapFault, SetEpoch
  <2>3. CASE SetSlotFinish
    BY <2>3, TablesFacts DEF SetSlotFinish
  <2>4. CASE \E tx \in Tx : StartTask(tx) \/ ReadEpoch(tx) \/ StartProcess(tx)
    BY ZenonT(40), <2>4, TablesFacts DEF StartTask, ReadEpoch, StartProcess
  <2> QED BY <2>1, <2>2, <2>3, <2>4
<1>3. oracle'.pc \notin {"finish", "date"}
  <2>1. CASE StoreInitTx \/ SetEpoch \/ SetSlotFinish
    BY <2>1, TablesFacts DEF StoreInitTx, SetEpoch, SetSlotFinish, Idle
  <2>6. CASE StoreEpochTx
    <3>1. oracle'.pc = "epoch"
      BY <2>6, TablesFacts DEF StoreEpochTx
    <3> QED BY <3>1
  <2>2. CASE MapFault
    <3>1. oracle'.pc = "map fault"
      BY <2>2, PanicFacts DEF MapFault
    <3> QED BY <3>1
  <2>3. ASSUME NEW tx \in Tx, StartTask(tx) PROVE oracle'.pc \notin {"finish", "date"}
    BY <2>3 DEF StartTask, Doing
  <2>4. ASSUME NEW tx \in Tx, ReadEpoch(tx) PROVE oracle'.pc \notin {"finish", "date"}
    <3>1. \/ oracle' = [pc |-> "epochTx", tx |-> tx, tasks |-> {}]
          \/ oracle'.pc = "nil task" /\ oracle'.tx = None
      BY <2>4, PanicFacts DEF ReadEpoch, Doing
    <3>2. CASE oracle' = [pc |-> "epochTx", tx |-> tx, tasks |-> {}]
      BY <3>2
    <3>3. CASE oracle'.pc = "nil task" /\ oracle'.tx = None
      BY <3>3
    <3> QED BY <3>1, <3>2, <3>3
  <2>5. ASSUME NEW tx \in Tx, StartProcess(tx) PROVE oracle'.pc \notin {"finish", "date"}
    <3>1. \/ oracle' = [pc |-> "slot", tx |-> tx, tasks |-> {}]
          \/ oracle'.pc = "unknown task" /\ oracle'.tx = None
      BY <2>5, PanicFacts DEF StartProcess, Doing
    <3>2. CASE oracle' = [pc |-> "slot", tx |-> tx, tasks |-> {}]
      BY <3>2
    <3>3. CASE oracle'.pc = "unknown task" /\ oracle'.tx = None
      BY <3>3
    <3> QED BY <3>1, <3>2, <3>3
  <2> QED BY <2>1, <2>2, <2>3, <2>4, <2>5, <2>6
<1> QED BY <1>1, <1>2, <1>3 DEF Quiet, Process, TaskStatus

\* The rest of the master, and queries.
LEMMA OthersAreQuiet ==
    ASSUME Inv,
           \/ \E t \in Task : CreateTask(t) \/ Offer(t) \/ TakeInitTask(t)
           \/ \E t \in Task : \E failed \in SUBSET (SlotsOf(t) \cap MayFail) :
                  SendSchedule(t, failed)
           \/ \E s \in Slot : CommitSlot(s) \/ QuerySlot(s)
           \/ \E s \in Slot : \E a \in Amounts[s] : FinalizeSlot(s, a)
           \/ EpochTick \/ UNCHANGED vars
    PROVE  Quiet
<1>1. UNCHANGED <<oracle, finishes, torn>>
  BY DEF CreateTask, Offer, TakeInitTask, SendSchedule, CommitSlot, QuerySlot, FinalizeSlot,
     EpochTick, vars, past
<1>2. db'.tasks = db.tasks /\ db'.transactions = db.transactions
  <2>1. CASE \E s \in Slot : QuerySlot(s)
    BY <2>1, TablesFacts DEF QuerySlot
  <2>2. CASE UNCHANGED db
    BY <2>2
  <2> QED BY <2>1, <2>2 DEF CreateTask, Offer, TakeInitTask, SendSchedule, CommitSlot,
             FinalizeSlot, EpochTick, vars
<1>3. \A t \in Task : Process(t)' = Process(t) /\ TaskStatus(t)' = TaskStatus(t)
  BY <1>2 DEF Process, TaskStatus
<1>4. /\ oracle' = oracle /\ UNCHANGED <<finishes, torn>>
      /\ db.transactions \subseteq db'.transactions
  BY <1>1, <1>2
<1> QED BY <1>3, <1>4 DEF Quiet
-----------------------------------------------------------------------------
(* Steps that move the row of one task.                                      *)

\* Another task's row is left alone by a step for the task u.
LEMMA OtherRow ==
    ASSUME NEW u, NEW t \in Task, t # u, RowOf(t), db'.tasks[t] = db.tasks[t],
           finishes'[t] = finishes[t], db'.transactions = db.transactions, torn' = torn,
           Counts(t)' => Counts(t), ~Marks(t)
    PROVE  RowOf(t)'
  BY SameRow DEF Process, TaskStatus

\* A task is stored for the first time, with no progress.
LEMMA SetTaskKeepsRows == Inv /\ RowInv /\ SetTask => RowInv'
<1> SUFFICES ASSUME Inv, RowInv, SetTask PROVE RowInv'
  OBVIOUS
<1> PICK row : row = [NoTask EXCEPT !.status = "Processing"]
  OBVIOUS
<1>1. row.status = "Processing" /\ row.process = 0
  BY DEF NoTask
<1>2. /\ oracle.pc = "initTask" /\ oracle'.pc \in {"idle", "dataset"}
      /\ UNCHANGED <<finishes, torn>> /\ db'.transactions = db.transactions
  BY SetTaskFacts
<1>3. CASE db'.tasks = db.tasks
  <2>1. Quiet
    BY <1>2, <1>3 DEF Quiet, Process, TaskStatus
  <2> QED BY <2>1, QuietKeepsRows
<1>4. ASSUME NEW u \in Task, ~Stored(u), db'.tasks = [db.tasks EXCEPT ![u] = row]
      PROVE  RowInv'
  <2>1. ASSUME NEW t \in Task, t # u PROVE RowOf(t)'
    BY <1>2, <1>4, <2>1, TablesFacts, OtherRow DEF RowInv, Counts, Marks
  <2>2. RowOf(u)'
    <3>1. Process(u)' = 0 /\ TaskStatus(u)' = "Processing" /\ ~Counts(u)'
      BY <1>1, <1>2, <1>4, TablesFacts DEF Process, TaskStatus, Counts
    <3>2. Size[u] \in Nat \ {0}
      BY PersistenceAssumption
    <3>3. finishes[u] = 0
      BY <1>4, <3>2 DEF RowInv, RowOf
    <3>4. Stored(u)'
      BY <3>1 DEF Stored, TaskStatus
    <3> QED BY <1>2, <3>1, <3>2, <3>3, <3>4 DEF RowOf
  <2> QED BY <1>2, <2>1, <2>2 DEF RowInv
<1>5. PICK u \in Task :
          ~Stored(u) /\ (db'.tasks = db.tasks \/ db'.tasks = [db.tasks EXCEPT ![u] = row])
  BY SetTaskFacts
<1> QED BY <1>3, <1>4, <1>5

\* What the Oracle has in hand while it credits a slot.
LEMMA CreditInHand ==
    ASSUME Inv, oracle.pc \in {"increment", "finish", "date"}
    PROVE  \E s \in Slot : \E a \in Amounts[s] :
              /\ TaskOf[s] \in Task /\ a \in Nat
              /\ ProcessTx(s, a) \in db.transactions
              /\ TaskOf[s] \in started /\ Stored(TaskOf[s])
              /\ oracle.tx[2] = s /\ oracle.tx[3] = a
<1>1. PICK s \in Slot : \E a \in Amounts[s] :
          oracle.tx = ProcessTx(s, a) /\ TaskOf[s] \in started /\ Stored(TaskOf[s])
  BY DEF Inv, OracleFits
<1>2. PICK a \in Amounts[s] : oracle.tx = ProcessTx(s, a)
  BY <1>1
<1>3. oracle.tx \in db.transactions
  BY DEF Inv, OracleFits
<1>4. oracle.tx[2] = s /\ oracle.tx[3] = a
  BY <1>2, TxFacts
<1>5. a \in Nat /\ TaskOf[s] \in Task
  BY PersistenceAssumption
<1>6. Stored(TaskOf[s])
  BY <1>1
<1> QED BY <1>1, <1>2, <1>3, <1>4, <1>5, <1>6

\* A credit completes a task, or moves it on; one that follows its completion adds to
\* what was enough, or adds nothing.
LEMMA IncrementKeepsRows == Inv /\ RowInv /\ Increment => RowInv'
<1> SUFFICES ASSUME Inv, RowInv, Increment PROVE RowInv'
  OBVIOUS
<1>0. PICK s \in Slot : \E a \in Amounts[s] :
          /\ TaskOf[s] \in Task /\ a \in Nat
          /\ ProcessTx(s, a) \in db.transactions /\ Stored(TaskOf[s])
          /\ oracle.tx[2] = s /\ oracle.tx[3] = a
  BY CreditInHand DEF Increment
<1>1. PICK a \in Amounts[s] :
          /\ TaskOf[s] \in Task /\ a \in Nat
          /\ ProcessTx(s, a) \in db.transactions /\ Stored(TaskOf[s])
          /\ oracle.tx[2] = s /\ oracle.tx[3] = a
  BY <1>0
<1> PICK u \in Task : u = TaskOf[s]
  BY <1>1
<1> PICK p : p = Process(u) + a
  OBVIOUS
<1>2. /\ oracle.pc = "increment" /\ UNCHANGED <<finishes, torn>>
      /\ db' = [db EXCEPT !.tasks[u].process = p]
      /\ oracle' = IF p >= Size[u] THEN [oracle EXCEPT !.pc = "finish"] ELSE Idle
  BY <1>1 DEF Increment, NextProcess, IsFinish, Process, past
<1>3. db' = [tasks |-> [db.tasks EXCEPT ![u].process = p], slots |-> db.slots,
             transactions |-> db.transactions, epochs |-> db.epochs]
  BY <1>2, TablesFacts
<1>4. db'.tasks = [db.tasks EXCEPT ![u].process = p] /\ db'.transactions = db.transactions
  BY <1>3
<1>5. \/ oracle'.pc = "finish" /\ oracle'.tx = oracle.tx /\ p >= Size[u]
      \/ oracle'.pc = "idle" /\ ~(p >= Size[u])
  <2>1. CASE p >= Size[u]
    <3>1. oracle' = [oracle EXCEPT !.pc = "finish"]
      BY <1>2, <2>1
    <3>2. oracle'.pc = "finish" /\ oracle'.tx = oracle.tx
      BY <3>1, TablesFacts
    <3> QED BY <2>1, <3>2
  <2>2. CASE ~(p >= Size[u])
    BY <1>2, <2>2 DEF Idle
  <2> QED BY <2>1, <2>2
<1>6. ASSUME NEW t \in Task, t # u PROVE RowOf(t)'
  <2>1. ~Counts(t)' /\ ~Marks(t)
    BY <1>1, <1>2, <1>5, <1>6 DEF Counts, Marks
  <2>2. db'.tasks[t] = db.tasks[t]
    BY <1>4, <1>6, TablesFacts
  <2> QED BY <1>2, <1>4, <1>6, <2>1, <2>2, OtherRow DEF RowInv
<1>7. RowOf(u)'
  <2>1. /\ Process(u)' = p /\ TaskStatus(u)' = TaskStatus(u) /\ Stored(u)'
    <3>1. db'.tasks[u].process = p /\ db'.tasks[u].status = db.tasks[u].status
      BY <1>4, TablesFacts DEF TaskRow
    <3> QED BY <1>1, <3>1 DEF Process, TaskStatus, Stored
  <2>2. /\ Process(u) \in Nat /\ finishes[u] \in Nat /\ Size[u] \in Nat /\ p \in Nat
        /\ Process(u) <= p /\ (a > 0 => Process(u) < p)
    BY <1>1, PersistenceAssumption DEF RowInv, RowOf
  <2>3. ~Counts(u) /\ ~Marks(u)
    BY <1>2 DEF Counts, Marks
  <2>4. p >= Size[u] => Marks(u)' /\ Counts(u)'
    BY <1>1, <1>5 DEF Marks, Counts
  <2>5. Counts(u)' => p >= Size[u]
    BY <1>5 DEF Counts
  <2>6. TaskStatus(u) = "Finished" \/ finishes[u] >= 1 => Process(u) >= Size[u]
    BY DEF RowInv, RowOf
  <2>7. finishes[u] >= 1 => Overdelivered(u)'
    <3> SUFFICES ASSUME finishes[u] >= 1 PROVE Overdelivered(u)'
      OBVIOUS
    <3>1. CASE a = 0
      <4>1. s \in SlotsOf(u) /\ ProcessTx(s, 0) \in db'.transactions
        BY <1>1, <1>4, <3>1 DEF SlotsOf
      <4>2. \E v \in SlotsOf(u) : ProcessTx(v, 0) \in db'.transactions
        BY <4>1
      <4> QED BY <4>2 DEF Overdelivered, SlotsOf
    <3>2. CASE a > 0
      <4>1. p > Size[u]
        BY <2>2, <2>6, <3>2
      <4> QED BY <2>1, <4>1 DEF Overdelivered
    <3> QED BY <1>1, <3>1, <3>2
  <2>8. TaskStatus(u) = "Finished" \/ finishes[u] >= 1 => p >= Size[u]
    BY <2>2, <2>6
  <2> QED BY <1>2, <2>1, <2>2, <2>4, <2>5, <2>7, <2>8 DEF RowOf
<1> QED BY <1>2, <1>6, <1>7 DEF RowInv

\* The row says so, before the task is counted.
LEMMA UpdateTaskKeepsRows == Inv /\ RowInv /\ UpdateTask => RowInv'
<1> SUFFICES ASSUME Inv, RowInv, UpdateTask PROVE RowInv'
  OBVIOUS
<1>1. PICK u \in Task : u = TaskOf[oracle.tx[2]] /\ Stored(u)
  BY CreditInHand DEF UpdateTask
<1>2. /\ oracle.pc = "finish" /\ UNCHANGED <<finishes, torn>>
      /\ db' = [db EXCEPT !.tasks[u].status = "Finished"]
      /\ oracle' = [oracle EXCEPT !.pc = "date"]
  BY <1>1 DEF UpdateTask, past
<1>3. db' = [tasks |-> [db.tasks EXCEPT ![u].status = "Finished"], slots |-> db.slots,
             transactions |-> db.transactions, epochs |-> db.epochs]
  BY <1>2, TablesFacts
<1>4. db'.tasks = [db.tasks EXCEPT ![u].status = "Finished"]
      /\ db'.transactions = db.transactions
  BY <1>3
<1>5. oracle'.pc = "date" /\ oracle'.tx = oracle.tx
  BY <1>2, TablesFacts
<1>6. ASSUME NEW t \in Task, t # u PROVE RowOf(t)'
  <2>1. ~Counts(t)' /\ ~Marks(t)
    BY <1>1, <1>5, <1>6 DEF Counts, Marks
  <2>2. db'.tasks[t] = db.tasks[t]
    BY <1>4, <1>6, TablesFacts
  <2> QED BY <1>2, <1>4, <1>6, <2>1, <2>2, OtherRow DEF RowInv
<1>7. RowOf(u)'
  <2>1. /\ Process(u)' = Process(u) /\ TaskStatus(u)' = "Finished" /\ Stored(u)'
    <3>1. db'.tasks[u].process = db.tasks[u].process /\ db'.tasks[u].status = "Finished"
      BY <1>4, TablesFacts DEF TaskRow
    <3> QED BY <3>1 DEF Process, TaskStatus, Stored
  <2>2. Counts(u)
    BY <1>1, <1>2 DEF Counts
  <2>3. Overdelivered(u) => Overdelivered(u)'
    BY <1>4, <2>1 DEF Overdelivered, SlotsOf
  <2> QED BY <1>2, <2>1, <2>2, <2>3 DEF RowInv, RowOf
<1> QED BY <1>2, <1>6, <1>7 DEF RowInv

\* The count goes up by one.
LEMMA CountKeepsRows == Inv /\ RowInv /\ UpdateDateRecord => RowInv'
<1> SUFFICES ASSUME Inv, RowInv, UpdateDateRecord PROVE RowInv'
  OBVIOUS
<1>1. PICK u \in Task : u = TaskOf[oracle.tx[2]]
  BY CreditInHand DEF UpdateDateRecord
<1>2. /\ oracle.pc = "date" /\ oracle'.pc = "idle" /\ db' = db /\ torn' = torn
      /\ finishes' = [finishes EXCEPT ![u] = @ + 1]
  BY <1>1 DEF UpdateDateRecord, Idle, past
<1>3. finishes \in [Task -> Nat] /\ finishes' \in [Task -> Nat]
  BY <1>2 DEF RowInv
<1>4. ASSUME NEW t \in Task, t # u PROVE RowOf(t)'
  BY <1>2, <1>3, <1>4, OtherRow DEF RowInv, Counts, Marks
<1>5. RowOf(u)'
  <2>1. Counts(u) /\ ~Marks(u) /\ ~Counts(u)' /\ ~Marks(u)'
    BY <1>1, <1>2 DEF Counts, Marks
  <2>2. /\ UNCHANGED <<Process(u), TaskStatus(u), Stored(u), CutOff(u), Overdelivered(u)>>
        /\ finishes'[u] = finishes[u] + 1
    BY <1>2, <1>3 DEF Process, TaskStatus, Stored, CutOff, Overdelivered, SlotsOf
  <2>3. finishes[u] \in Nat
    BY <1>3
  <2> QED BY <2>1, <2>2, <2>3 DEF RowInv, RowOf
<1> QED BY <1>3, <1>4, <1>5 DEF RowInv

-----------------------------------------------------------------------------
(* Crash and restart.                                                        *)

\* Recovery keeps progress and what is finished, and notes down a task whose mark is
\* cut off; a fresh start forgets everything.
LEMMA RestartKeepsRows == Inv /\ RowInv /\ (Recover \/ StartAfresh) => RowInv'
<1> SUFFICES ASSUME Inv, RowInv, Recover \/ StartAfresh PROVE RowInv'
  OBVIOUS
<1>1. oracle'.pc = "idle" /\ \A t \in Task : ~Counts(t)' /\ ~Marks(t)'
  BY DEF Recover, StartAfresh, RestartOn, Idle, Counts, Marks
<1>2. CASE Recover
  <2>1. /\ db' = Recovered /\ finishes' = finishes
        /\ torn' = torn \cup (IF oracle.pc \in {"slot", "increment", "finish"}
                              THEN {<<oracle.pc, oracle.tx>>} ELSE {})
    BY <1>2 DEF Recover, RestartOn
  <2>2. ASSUME NEW t \in Task PROVE RowOf(t)'
    <3>1. /\ db'.tasks[t] = GiveUp(db.tasks[t]) /\ db'.transactions = db.transactions
          /\ db.tasks[t] \in TaskRow
      BY <2>1, RecoveredFacts, TablesFacts
    <3>2. /\ GiveUp(db.tasks[t]).process = db.tasks[t].process
          /\ GiveUp(db.tasks[t]).status = "none" <=> db.tasks[t].status = "none"
          /\ GiveUp(db.tasks[t]).status = "Finished" <=> db.tasks[t].status = "Finished"
      BY <3>1 DEF GiveUp, TaskRow
    <3>3. /\ Process(t)' = Process(t) /\ (Stored(t)' <=> Stored(t))
          /\ TaskStatus(t)' = "Finished" <=> TaskStatus(t) = "Finished"
      BY <3>1, <3>2 DEF Process, TaskStatus, Stored
    <3>4. Overdelivered(t) => Overdelivered(t)'
      BY <3>1, <3>3 DEF Overdelivered, SlotsOf
    <3>5. Marks(t) \/ CutOff(t) => CutOff(t)'
      <4>1. CASE Marks(t)
        <5> PICK c : c = <<oracle.pc, oracle.tx>>
          OBVIOUS
        <5>1. c \in torn' /\ c[1] = "finish" /\ c[2] = oracle.tx
          BY <2>1, <4>1 DEF Marks
        <5> QED BY <4>1, <5>1 DEF Marks, CutOff
      <4>2. CASE CutOff(t)
        BY <2>1, <4>2 DEF CutOff
      <4> QED BY <4>1, <4>2
    <3> QED BY <1>1, <2>1, <3>3, <3>4, <3>5 DEF RowInv, RowOf
  <2> QED BY <2>1, <2>2 DEF RowInv
<1>3. CASE StartAfresh
  <2>1. db' = EmptyDb /\ finishes' = [t \in Task |-> 0]
    BY <1>3 DEF StartAfresh, RestartOn
  <2>2. \A t \in Task : db'.tasks[t].status = "none" /\ db'.tasks[t].process = 0
    BY <2>1 DEF EmptyDb, NoTask
  <2>3. \A t \in Task : Size[t] \in Nat \ {0}
    BY PersistenceAssumption
  <2> QED BY <1>1, <2>1, <2>2, <2>3 DEF RowInv, RowOf, Process, TaskStatus, Stored
<1> QED BY <1>2, <1>3

-----------------------------------------------------------------------------
\* Every step keeps the invariant.
LEMMA NextKeepsRows == Inv /\ RowInv /\ [Next]_vars => RowInv'
<1> SUFFICES ASSUME Inv, RowInv, [Next]_vars PROVE RowInv'
  OBVIOUS
<1>1. CASE StoreSchedule
  BY <1>1, ScheduleIsQuiet, QuietKeepsRows
<1>2. CASE \/ StoreInitTx \/ StoreEpochTx \/ MapFault \/ SetEpoch \/ SetSlotFinish
           \/ \E tx \in Tx : StartTask(tx) \/ ReadEpoch(tx) \/ StartProcess(tx)
  BY <1>2, OracleIsQuiet, QuietKeepsRows
<1>3. CASE \/ \E t \in Task : CreateTask(t) \/ Offer(t) \/ TakeInitTask(t)
           \/ \E t \in Task : \E failed \in SUBSET (SlotsOf(t) \cap MayFail) :
                  SendSchedule(t, failed)
           \/ \E s \in Slot : CommitSlot(s) \/ QuerySlot(s)
           \/ \E s \in Slot : \E a \in Amounts[s] : FinalizeSlot(s, a)
           \/ EpochTick \/ UNCHANGED vars
  BY <1>3, OthersAreQuiet, QuietKeepsRows
<1>4. CASE SetTask \/ Increment \/ UpdateTask \/ UpdateDateRecord
  BY <1>4, SetTaskKeepsRows, IncrementKeepsRows, UpdateTaskKeepsRows, CountKeepsRows
<1>5. CASE Recover \/ StartAfresh
  BY <1>5, RestartKeepsRows
<1> QED BY <1>1, <1>2, <1>3, <1>4, <1>5 DEF Next, OracleStep

\* So it holds in every state.
LEMMA RowInvHolds == Spec => [](Inv /\ RowInv)
<1>1. Init => Inv /\ RowInv
  BY InvInit, RowInit
<1>2. (Inv /\ RowInv) /\ [Next]_vars => (Inv /\ RowInv)'
  BY NextKeepsInv, NextKeepsRows
<1> QED BY <1>1, <1>2, PTL DEF Spec

\* IncrementTaskProcessAndGet and UpdateTask (Database/write.go, persistedOracle.go) are
\* two transactions: still, a task is Finished exactly when its progress has reached its
\* size, but for the moment between the two or a crash there, whatever recovery and
\* late slots do to its row.
THEOREM FinishedTasksAreComplete == Spec => []FinishedTaskIsComplete
<1>1. RowInv => FinishedTaskIsComplete
  BY DEF RowInv, RowOf, FinishedTaskIsComplete, Process, TaskStatus, Marks, CutOff
<1> QED BY <1>1, RowInvHolds, PTL

\* The Oracle (persistedOracle.go) guards the count of finished tasks with HasbeenCollect,
\* which is not stored, so the guard is always open: that a task is counted once rests
\* on the nodes, who must deliver neither more than its size nor a slot without data.
THEOREM CountedTwiceOnlyIfOverdelivered == Spec => []FinishedTwiceOnlyIfOverdelivered
<1>1. RowInv => FinishedTwiceOnlyIfOverdelivered
  BY DEF RowInv, RowOf, FinishedTwiceOnlyIfOverdelivered, Overdelivered, Process
<1> QED BY <1>1, RowInvHolds, PTL

-----------------------------------------------------------------------------
(* The table of slots: what a row says once and for all.                     *)

SlotStatus(s) == db.slots[s].status

\* A row without a node although a schedule wrote it.
Nodeless(s) == db.slots[s].task /\ ~db.slots[s].node

\* What no step but a fresh start takes back: that there is a row, that a slot has
\* finished unless its schedule failed, and that a row has a node if it has a task,
\* unless the schedule found the row written.
SlotRowMoves(s) ==
    /\ SlotStatus(s) # "none" => SlotStatus(s)' # "none"
    /\ SlotStatus(s) = "Finished" => SlotStatus(s)' = "Finished" \/ s \in rejected'
    /\ Nodeless(s)' => Nodeless(s) \/ s \in overtaken'

\* A row that is asked for.
LEMMA AskedRow ==
    ASSUME NEW slots \in [Slot -> SlotRow], NEW asked, NEW s \in Slot
    PROVE  \/ WithRows(slots, asked)[s] = slots[s]
           \/ /\ slots[s].status = "none"
              /\ WithRows(slots, asked)[s].status = "Processing"
              /\ ~WithRows(slots, asked)[s].task
  BY DEF WithRows, NoRow

\* Rows that are asked for move on.
LEMMA AskedRowMoves ==
    ASSUME Inv, NEW asked, db'.slots = WithRows(db.slots, asked), rejected' = rejected,
           NEW s \in Slot
    PROVE  SlotRowMoves(s)
  BY TablesFacts, AskedRow DEF SlotRowMoves, SlotStatus, Nodeless

\* The schedule of a task without a row ends the process, and writes nothing.
ScheduleOfNobody ==
    /\ oracle.pc = "idle" /\ oracle'.pc = "unknown task"
    /\ UNCHANGED <<db, monitor, overtaken, rejected>>

\* What a schedule writes otherwise.
LEMMA ScheduleWrites ==
    ASSUME Inv, StoreSchedule, ~ScheduleOfNobody
    PROVE  \E t \in started :
              /\ db'.slots = [u \in Slot |-> IF u \in SlotsOf(t)
                    THEN ScheduledRow(db.slots[u], u \in rejected) ELSE db.slots[u]]
              /\ db'.transactions = db.transactions
              /\ monitor' = [monitor EXCEPT !.pending = @ \cup (SlotsOf(t) \ rejected)]
              /\ overtaken' = overtaken \cup {u \in SlotsOf(t) : db.slots[u] # NoRow}
              /\ UNCHANGED <<oracle, rejected>>
<1>1. oracleSchedules \in Seq(started) /\ oracleSchedules # <<>>
  BY DEF Inv, Shape, StoreSchedule
<1>2. PICK t \in started : t = Head(oracleSchedules)
  BY <1>1, SeqFacts
<1>3. Stored(t)
  BY <1>2, PanicFacts DEF StoreSchedule, ScheduleOfNobody
<1> DEFINE slots == [u \in Slot |-> IF u \in SlotsOf(t)
                        THEN ScheduledRow(db.slots[u], u \in rejected) ELSE db.slots[u]]
<1>4. /\ db' = [db EXCEPT !.tasks[t].scheduled = TRUE, !.slots = slots]
      /\ monitor' = [monitor EXCEPT !.pending = @ \cup (SlotsOf(t) \ rejected)]
      /\ overtaken' = overtaken \cup {u \in SlotsOf(t) : db.slots[u] # NoRow}
      /\ UNCHANGED <<oracle, rejected>>
  BY <1>2, <1>3 DEF StoreSchedule
<1> HIDE DEF slots
<1>5. db' = [tasks |-> [db.tasks EXCEPT ![t].scheduled = TRUE], slots |-> slots,
             transactions |-> db.transactions, epochs |-> db.epochs]
  BY <1>4, TablesFacts
<1>6. db'.slots = slots /\ db'.transactions = db.transactions
  BY <1>5
<1> QED BY <1>4, <1>6 DEF slots

\* Its rows move on.
LEMMA ScheduledRowMoves ==
    ASSUME Inv, StoreSchedule, NEW s \in Slot
    PROVE  SlotRowMoves(s)
<1>0. CASE ScheduleOfNobody
  BY <1>0 DEF ScheduleOfNobody, SlotRowMoves, SlotStatus, Nodeless
<1> SUFFICES ASSUME ~ScheduleOfNobody PROVE SlotRowMoves(s)
  BY <1>0
<1>1. PICK t \in started :
          /\ db'.slots = [u \in Slot |-> IF u \in SlotsOf(t)
                THEN ScheduledRow(db.slots[u], u \in rejected) ELSE db.slots[u]]
          /\ overtaken' = overtaken \cup {u \in SlotsOf(t) : db.slots[u] # NoRow}
          /\ rejected' = rejected
  BY ScheduleWrites
<1>2. CASE db'.slots[s] = db.slots[s]
  BY <1>1, <1>2 DEF SlotRowMoves, SlotStatus, Nodeless
<1>3. CASE s \in SlotsOf(t) /\ db'.slots[s] = ScheduledRow(db.slots[s], s \in rejected)
  <2>1. CASE s \in rejected
    BY <1>1, <1>3, <2>1 DEF SlotRowMoves, SlotStatus, Nodeless, ScheduledRow
  <2>2. CASE s \notin rejected /\ db.slots[s] = NoRow
    BY <1>1, <1>3, <2>2 DEF SlotRowMoves, SlotStatus, Nodeless, ScheduledRow, NoRow
  <2>3. CASE s \notin rejected /\ db.slots[s] # NoRow
    <3>1. s \in overtaken'
      BY <1>1, <1>3, <2>3
    <3>2. db'.slots[s] = [db.slots[s] EXCEPT !.task = TRUE] /\ db.slots[s] \in SlotRow
      BY <1>3, <2>3, TablesFacts DEF ScheduledRow
    <3>3. SlotStatus(s)' = SlotStatus(s)
      BY <3>2 DEF SlotStatus, SlotRow
    <3> QED BY <3>1, <3>3 DEF SlotRowMoves
  <2> QED BY <2>1, <2>2, <2>3
<1> QED BY <1>1, <1>2, <1>3

\* A slot is finished, whether it had a row or not.
LEMMA FinishedRowMoves ==
    ASSUME Inv, SetSlotFinish, NEW s \in Slot
    PROVE  /\ SlotRowMoves(s)
           /\ s = oracle.tx[2] => SlotStatus(s)' = "Finished"
<1>1. PICK u \in Slot : u = oracle.tx[2]
  BY TxFacts DEF SetSlotFinish, Inv, OracleFits
<1> PICK rows : rows = WithRows(db.slots, {u})
  OBVIOUS
<1>2. /\ db' = [db EXCEPT !.slots = [rows EXCEPT ![u].status = "Finished"]]
      /\ rejected' = rejected
  BY <1>1 DEF SetSlotFinish, nodes
<1>3. db'.slots = [rows EXCEPT ![u].status = "Finished"]
  BY <1>2, TablesFacts
<1>4. rows \in [Slot -> SlotRow]
  BY TablesFacts, WithRowsFacts
<1>5. ASSUME s # u PROVE SlotRowMoves(s)
  <2>1. db'.slots[s] = rows[s]
    BY <1>3, <1>4, <1>5
  <2>2. \/ rows[s] = db.slots[s]
        \/ db.slots[s].status = "none" /\ rows[s].status = "Processing" /\ ~rows[s].task
    BY TablesFacts, AskedRow
  <2> QED BY <1>2, <2>1, <2>2 DEF SlotRowMoves, SlotStatus, Nodeless
<1>6. ASSUME s = u PROVE SlotRowMoves(s) /\ SlotStatus(s)' = "Finished"
  <2>1. /\ db'.slots[s].status = "Finished" /\ db'.slots[s].task = rows[s].task
        /\ db'.slots[s].node = rows[s].node
    BY <1>3, <1>4, <1>6 DEF SlotRow
  <2>2. rows[s] = db.slots[s] \/ ~rows[s].task
    BY TablesFacts, AskedRow
  <2> QED BY <1>2, <2>1, <2>2 DEF SlotRowMoves, SlotStatus, Nodeless
<1> QED BY <1>1, <1>5, <1>6

\* Every step that neither stores a schedule nor restarts moves the rows on.
LEMMA OtherRowsMove ==
    ASSUME Inv, NEW s \in Slot,
           \/ StoreInitTx \/ SetTask \/ StoreEpochTx \/ MapFault \/ SetEpoch
           \/ SetSlotFinish \/ Increment \/ UpdateTask \/ UpdateDateRecord
           \/ \E tx \in Tx : StartTask(tx) \/ ReadEpoch(tx) \/ StartProcess(tx)
           \/ \E t \in Task : CreateTask(t) \/ Offer(t) \/ TakeInitTask(t)
           \/ \E t \in Task : \E failed \in SUBSET (SlotsOf(t) \cap MayFail) :
                  SendSchedule(t, failed)
           \/ \E u \in Slot : CommitSlot(u) \/ QuerySlot(u)
           \/ \E u \in Slot : \E a \in Amounts[u] : FinalizeSlot(u, a)
           \/ EpochTick \/ UNCHANGED vars
    PROVE  SlotRowMoves(s) /\ overtaken' = overtaken /\ rejected \subseteq rejected'
<1>1. overtaken' = overtaken /\ rejected \subseteq rejected'
  BY DEF CreateTask, Offer, TakeInitTask, SendSchedule, CommitSlot, QuerySlot,
         FinalizeSlot, EpochTick, vars, past, nodes, StartTask, ReadEpoch, StartProcess,
         StoreInitTx, SetTask, StoreEpochTx, MapFault, SetEpoch, SetSlotFinish, Increment,
         UpdateTask, UpdateDateRecord
<1>2. CASE db'.slots = db.slots
  BY <1>1, <1>2 DEF SlotRowMoves, SlotStatus, Nodeless
<1>3. CASE \E u \in Slot : QuerySlot(u)
  <2>1. PICK u \in Slot : QuerySlot(u)
    BY <1>3
  <2>2. db'.slots = WithRows(db.slots, {u}) /\ rejected' = rejected
    BY <2>1, TablesFacts DEF QuerySlot, nodes
  <2> QED BY <1>1, <2>2, AskedRowMoves
<1>4. CASE \E tx \in Tx : ReadEpoch(tx)
  <2>1. PICK asked : db' = [db EXCEPT !.slots = WithRows(@, asked)]
    BY <1>4 DEF ReadEpoch
  <2>2. db'.slots = WithRows(db.slots, asked) /\ rejected' = rejected
    BY <1>4, <2>1, TablesFacts DEF ReadEpoch, nodes
  <2> QED BY <1>1, <2>2, AskedRowMoves
<1>5. CASE SetSlotFinish
  BY <1>1, <1>5, FinishedRowMoves
<1>6. CASE StoreInitTx \/ StoreEpochTx \/ SetTask \/ Increment \/ UpdateTask
  BY <1>2, <1>6, TablesFacts, SetTaskFacts DEF StoreInitTx, StoreEpochTx, SetTransaction,
     Increment, UpdateTask
<1>7. CASE SetEpoch \/ \E tx \in Tx : StartTask(tx) \/ StartProcess(tx)
  BY <1>2, <1>7, TablesFacts DEF SetEpoch, StartTask, StartProcess
<1>8. CASE UNCHANGED db
  BY <1>2, <1>8
<1> QED
  BY <1>3, <1>4, <1>5, <1>6, <1>7, <1>8 DEF CreateTask, Offer, TakeInitTask,
     SendSchedule, CommitSlot, FinalizeSlot, EpochTick, MapFault, UpdateDateRecord, vars

-----------------------------------------------------------------------------
(* The first schedule of a slot.                                             *)

\* A slot that the statistics count as finished has a row, or is about to get one: a
\* schedule that comes later finds it, and is not the first thing to be stored of it.
FinishedHasRow(s) ==
    s \in monitor.finished =>
        SlotStatus(s) # "none" \/ (oracle.pc = "slot" /\ oracle.tx[2] = s)

FirstOf(s) ==
    /\ FinishedHasRow(s)
    /\ s \notin overtaken => ~Nodeless(s) /\ s \notin monitor.pending \cap monitor.finished

FirstInv ==
    /\ monitor = [pending |-> monitor.pending, finished |-> monitor.finished]
    /\ \A s \in Slot : FirstOf(s)

\* Rows move on, the statistics stay, and the Oracle leaves a slot once it is stored.
LEMMA FirstKept ==
    ASSUME NEW s \in Slot, FirstOf(s), SlotRowMoves(s), monitor' = monitor,
           overtaken \subseteq overtaken',
           oracle.pc = "slot" /\ oracle.tx[2] = s =>
               SlotStatus(s)' # "none" \/ (oracle'.pc = "slot" /\ oracle'.tx[2] = s)
    PROVE  FirstOf(s)'
<1>1. FinishedHasRow(s)'
  BY DEF FirstOf, FinishedHasRow, SlotRowMoves
<1>2. s \notin overtaken' => ~Nodeless(s)'
  BY DEF FirstOf, SlotRowMoves
<1>3. s \notin overtaken' => s \notin (monitor.pending \cap monitor.finished)'
  BY DEF FirstOf
<1> QED BY <1>1, <1>2, <1>3 DEF FirstOf

\* The credit of a slot reaches the statistics before its row.
LEMMA CreditKeepsFirst ==
    ASSUME Inv, FirstInv, NEW tx \in Tx, StartProcess(tx)
    PROVE  FirstInv'
<1>0. PICK u \in Slot : \E a \in Amounts[u] : tx = ProcessTx(u, a)
  BY TxKinds DEF StartProcess, Take
<1>1. tx[2] = u
  BY <1>0, TxFacts
<1>2. \A s \in Slot : SlotRowMoves(s) /\ overtaken' = overtaken
  BY OtherRowsMove
<1>3. \/ oracle'.pc = "unknown task" /\ oracle'.tx = None /\ monitor' = monitor
      \/ /\ oracle' = [pc |-> "slot", tx |-> tx, tasks |-> {}]
         /\ monitor' = [pending |-> monitor.pending \ {u},
                        finished |-> monitor.finished \cup {u}]
  BY <1>1, PanicFacts DEF StartProcess, UpdateFinishSlot, Doing
<1>4. oracle.pc = "idle"
  BY DEF StartProcess, Take
<1>5. CASE monitor' = monitor
  <2>1. ASSUME NEW s \in Slot PROVE FirstOf(s)'
    BY <1>2, <1>4, <1>5, FirstKept DEF FirstInv
  <2> QED BY <1>5, <2>1 DEF FirstInv
<1>6. CASE /\ oracle' = [pc |-> "slot", tx |-> tx, tasks |-> {}]
           /\ monitor' = [pending |-> monitor.pending \ {u},
                          finished |-> monitor.finished \cup {u}]
  <2>1. /\ oracle'.pc = "slot" /\ oracle'.tx[2] = u
        /\ monitor'.pending = monitor.pending \ {u}
        /\ monitor'.finished = monitor.finished \cup {u}
    BY <1>1, <1>6
  <2>2. ASSUME NEW s \in Slot PROVE FirstOf(s)'
    <3>1. FirstOf(s) /\ SlotRowMoves(s) /\ overtaken' = overtaken
      BY <1>2 DEF FirstInv
    <3>2. FinishedHasRow(s)'
      BY <1>4, <2>1, <3>1 DEF FirstOf, FinishedHasRow, SlotRowMoves
    <3> QED BY <2>1, <3>1, <3>2 DEF FirstOf, SlotRowMoves
  <2> QED BY <1>6, <2>1, <2>2 DEF FirstInv
<1> QED BY <1>3, <1>5, <1>6

\* A schedule makes its slots pending: those that have finished have a row and are
\* overtaken.
LEMMA ScheduleKeepsFirst == Inv /\ FirstInv /\ StoreSchedule => FirstInv'
<1> SUFFICES ASSUME Inv, FirstInv, StoreSchedule PROVE FirstInv'
  OBVIOUS
<1>0. CASE ScheduleOfNobody
  <2>1. ASSUME NEW s \in Slot PROVE FirstOf(s)'
    BY <1>0, ScheduledRowMoves, FirstKept DEF ScheduleOfNobody, FirstInv
  <2> QED BY <1>0, <2>1 DEF ScheduleOfNobody, FirstInv
<1> SUFFICES ASSUME ~ScheduleOfNobody PROVE FirstInv'
  BY <1>0
<1>1. PICK t \in started :
          /\ monitor' = [monitor EXCEPT !.pending = @ \cup (SlotsOf(t) \ rejected)]
          /\ overtaken' = overtaken \cup {u \in SlotsOf(t) : db.slots[u] # NoRow}
          /\ UNCHANGED <<oracle, rejected>>
  BY ScheduleWrites
<1> PICK new : new = SlotsOf(t) \ rejected
  OBVIOUS
<1>2. monitor = [pending |-> monitor.pending, finished |-> monitor.finished]
  BY DEF FirstInv
<1>3. monitor' = [pending |-> monitor.pending \cup new, finished |-> monitor.finished]
  BY <1>1, <1>2
<1>4. oracle.pc = "idle" /\ NoRow.status = "none"
  BY DEF StoreSchedule, NoRow
<1>5. ASSUME NEW s \in Slot PROVE FirstOf(s)'
  <2>1. FirstOf(s)
    BY DEF FirstInv
  <2>2. monitor'.pending = monitor.pending \cup new /\ monitor'.finished = monitor.finished
    BY <1>3
  <2>3. s \in monitor.finished => db.slots[s] # NoRow
    BY <1>4, <2>1 DEF FirstOf, FinishedHasRow, SlotStatus
  <2>0. SlotRowMoves(s)
    BY ScheduledRowMoves
  <2>4. FinishedHasRow(s)'
    BY <2>0, <1>1, <1>4, <2>1, <2>2 DEF FirstOf, FinishedHasRow, SlotRowMoves
  <2>5. s \notin overtaken' => ~Nodeless(s)'
    BY <1>1, <2>0, <2>1 DEF FirstOf, SlotRowMoves
  <2>6. s \notin overtaken' => s \notin (monitor.pending \cap monitor.finished)'
    BY <1>1, <2>1, <2>2, <2>3 DEF FirstOf
  <2> QED BY <2>4, <2>5, <2>6 DEF FirstOf
<1>6. monitor' = [pending |-> monitor'.pending, finished |-> monitor'.finished]
  BY <1>3
<1> QED BY <1>5, <1>6 DEF FirstInv

\* Every other step leaves the statistics alone, or starts them anew.
LEMMA OthersKeepFirst ==
    ASSUME Inv, FirstInv,
           \/ StoreInitTx \/ SetTask \/ StoreEpochTx \/ MapFault \/ SetEpoch
           \/ SetSlotFinish \/ Increment \/ UpdateTask \/ UpdateDateRecord
           \/ \E tx \in Tx : StartTask(tx) \/ ReadEpoch(tx)
           \/ \E t \in Task : CreateTask(t) \/ Offer(t) \/ TakeInitTask(t)
           \/ \E t \in Task : \E failed \in SUBSET (SlotsOf(t) \cap MayFail) :
                  SendSchedule(t, failed)
           \/ \E u \in Slot : CommitSlot(u) \/ QuerySlot(u)
           \/ \E u \in Slot : \E a \in Amounts[u] : FinalizeSlot(u, a)
           \/ EpochTick \/ UNCHANGED vars
    PROVE  FirstInv'
<1>1. monitor' = monitor
  BY DEF CreateTask, Offer, TakeInitTask, SendSchedule, CommitSlot, QuerySlot,
         FinalizeSlot, EpochTick, vars, StartTask, ReadEpoch, StoreInitTx, SetTask,
         StoreEpochTx, MapFault, SetEpoch, SetSlotFinish, Increment, UpdateTask,
         UpdateDateRecord
<1>2. ASSUME NEW s \in Slot PROVE SlotRowMoves(s) /\ overtaken' = overtaken
  BY OtherRowsMove
<1>3. ASSUME NEW s \in Slot, oracle.pc = "slot", oracle.tx[2] = s
      PROVE  SlotStatus(s)' # "none" \/ (oracle'.pc = "slot" /\ oracle'.tx[2] = s)
  <2>1. CASE SetSlotFinish
    BY <1>3, <2>1, FinishedRowMoves
  <2>2. CASE oracle' = oracle
    BY <1>3, <2>2
  <2> QED
    BY <1>3, <2>1, <2>2 DEF CreateTask, Offer, TakeInitTask, SendSchedule, CommitSlot,
       QuerySlot, FinalizeSlot, EpochTick, vars, StartTask, ReadEpoch, Take, StoreInitTx,
       SetTask, StoreEpochTx, MapFault, SetEpoch, Increment, UpdateTask, UpdateDateRecord
<1>4. ASSUME NEW s \in Slot PROVE FirstOf(s)'
  <2>1. FirstOf(s)
    BY DEF FirstInv
  <2> QED BY <1>1, <1>2, <1>3, <2>1, FirstKept
<1> QED BY <1>1, <1>4 DEF FirstInv

LEMMA RestartKeepsFirst == Inv /\ FirstInv /\ (Recover \/ StartAfresh) => FirstInv'
<1> SUFFICES ASSUME Inv, FirstInv, Recover \/ StartAfresh PROVE FirstInv'
  OBVIOUS
<1>1. monitor' = [pending |-> {}, finished |-> {}] /\ overtaken' = overtaken
  BY DEF Recover, StartAfresh, RestartOn
<1>2. ASSUME NEW s \in Slot PROVE Nodeless(s)' => Nodeless(s)
  <2>1. CASE Recover
    <3>1. db'.slots[s] = GiveUp(db.slots[s]) /\ db.slots[s] \in SlotRow
      BY <2>1, RecoveredFacts, TablesFacts DEF Recover, RestartOn
    <3> QED BY <3>1 DEF GiveUp, SlotRow, Nodeless
  <2>2. CASE StartAfresh
    BY <2>2 DEF StartAfresh, RestartOn, EmptyDb, NoRow, Nodeless
  <2> QED BY <2>1, <2>2
<1>3. monitor'.pending = {} /\ monitor'.finished = {}
  BY <1>1
<1> QED BY <1>1, <1>2, <1>3 DEF FirstInv, FirstOf, FinishedHasRow

\* Every step keeps the invariant.
LEMMA NextKeepsFirst == Inv /\ FirstInv /\ [Next]_vars => FirstInv'
<1>1. Inv /\ FirstInv /\ (\E tx \in Tx : StartProcess(tx)) => FirstInv'
  BY CreditKeepsFirst
<1> QED BY <1>1, ScheduleKeepsFirst, OthersKeepFirst, RestartKeepsFirst DEF Next, OracleStep

\* UpdateSlotFromSchedule (Database/slotImpl.go) leaves the node out of a row it finds, and
\* the Monitor (paradigm/monitor.go) takes a slot from the pending ones only when it
\* finishes: both go wrong exactly for slots whose row something else wrote first, in
\* whatever order schedules, credits, epochs, queries and restarts come.
THEOREM FirstScheduleIsWhole == Spec => []FirstScheduledIsConsistent
<1>1. Init => FirstInv
  <2> SUFFICES ASSUME Init PROVE FirstInv
    OBVIOUS
  <2>2. monitor = [pending |-> {}, finished |-> {}] /\ db = EmptyDb
    BY DEF Init
  <2>3. monitor.pending = {} /\ monitor.finished = {}
    BY <2>2
  <2>4. \A s \in Slot : db.slots[s] = NoRow
    BY <2>2 DEF EmptyDb
  <2> QED BY <2>2, <2>3, <2>4 DEF FirstInv, FirstOf, FinishedHasRow, Nodeless, NoRow
<1>2. FirstInv => FirstScheduledIsConsistent
  BY DEF FirstInv, FirstOf, Nodeless, FirstScheduledIsConsistent
<1> QED BY <1>1, <1>2, InvHolds, NextKeepsFirst, PTL DEF Spec

-----------------------------------------------------------------------------
(* Credits: the progress of a task is the sum of what was credited to it.    *)

\* The Oracle has stored a transaction and not yet what it says, or a crash left it so.
InHand(tx)   == oracle.pc \in {"slot", "increment"} /\ oracle.tx = tx
CutShort(tx) == <<"slot", tx>> \in torn \/ <<"increment", tx>> \in torn

Credited(tx) == tx \in db.transactions /\ tx[1] = "process" /\ ~InHand(tx) /\ ~CutShort(tx)

Amount == [tx \in Tx |-> tx[3]]

\* A transaction is credited once: one that is stored or was cut short does not come
\* back from the chain.
NoneComesBack ==
    /\ IsFiniteSet(db.transactions)
    /\ \A tx : CutShort(tx) \/ (tx \in db.transactions /\ tx[1] = "process") =>
          tx \in handed /\ tx \notin Upper!Waiting
    /\ \A tx : InHand(tx) => ~CutShort(tx)

\* Its slot is finished first.
FinishedUnlessRejected(s) == SlotStatus(s) = "Finished" \/ s \in rejected
CreditsOf(t) ==
    /\ Process(t) = SumOf(Amount, Credits(t))
    /\ \A tx \in Credits(t) : FinishedUnlessRejected(tx[2])

CreditInv ==
    /\ NoneComesBack
    /\ oracle.pc = "increment" => FinishedUnlessRejected(oracle.tx[2])
    /\ \A t \in Task : CreditsOf(t)

\* What the Oracle credits is stored.
LEMMA HandIsStored ==
    ASSUME Inv, NEW tx, InHand(tx)
    PROVE  /\ tx \in db.transactions /\ tx[1] = "process" /\ tx[2] \in Slot
           /\ TaskOf[tx[2]] \in Task
<1>1. oracle.tx = tx /\ oracle.tx \in db.transactions
  BY DEF InHand, Inv, OracleFits
<1>2. PICK s \in Slot : \E a \in Amounts[s] : oracle.tx = ProcessTx(s, a)
  BY DEF InHand, Inv, OracleFits
<1>3. oracle.tx[1] = "process" /\ oracle.tx[2] = s
  BY <1>2, TxFacts
<1> QED BY <1>1, <1>3, PersistenceAssumption

\* The credits of a task are transactions of amounts, and finitely many.
LEMMA CreditFacts ==
    ASSUME Inv, NoneComesBack, NEW t
    PROVE  /\ IsFiniteSet(Credits(t))
           /\ \A tx \in Credits(t) : tx \in Tx /\ Amount[tx] \in Nat /\ tx[2] \in Slot
<1>1. IsFiniteSet(Credits(t))
  BY FS_Subset DEF Credits, NoneComesBack
<1>2. ASSUME NEW tx \in Credits(t) PROVE tx \in Tx /\ Amount[tx] \in Nat /\ tx[2] \in Slot
  <2>1. tx \in handed /\ tx[1] = "process"
    BY DEF Credits, NoneComesBack
  <2>2. tx \in Tx
    BY <2>1 DEF Inv, Shape
  <2>3. PICK s \in Slot : \E a \in Amounts[s] : tx = ProcessTx(s, a)
    BY <2>1, <2>2, TxKinds
  <2>4. PICK a \in Amounts[s] : tx = ProcessTx(s, a)
    BY <2>3
  <2>5. tx[2] = s /\ tx[3] = a /\ a \in Nat
    BY <2>4, TxFacts, PersistenceAssumption
  <2> QED BY <2>2, <2>5 DEF Amount
<1> QED BY <1>1, <1>2

\* The sum that CreditsMatchRows speaks of is the one FiniteSums knows.
LEMMA SumOfAmounts ==
    ASSUME NEW S, S \subseteq Tx, IsFiniteSet(S)
    PROVE  MapThenSumSet(LAMBDA tx : tx[3], S) = SumOf(Amount, S)
<1> DEFINE Adds(g) == g = [s \in SUBSET S |->
                             IF s = {} THEN 0 ELSE Least(s)[3] + g[s \ {Least(s)}]]
           sum == CHOOSE g : Adds(g)
<1>1. MapThenSumSet(LAMBDA tx : tx[3], S) = sum[S]
  BY DEF MapThenSumSet, MapThenFoldSet, Least
<1>2. ASSUME NEW g PROVE Adds(g) <=> Solves(Amount, S, g)
  <2>1. \A s \in SUBSET S : s # {} => Amount[Least(s)] = Least(s)[3]
    BY DEF Least, Amount
  <2>2. \A s \in SUBSET S :
            (IF s = {} THEN 0 ELSE Least(s)[3] + g[s \ {Least(s)}]) = Plus(Amount, g, s)
    BY <2>1 DEF Plus
  <2> QED BY <2>2 DEF Solves
<1>3. PICK g : Solves(Amount, S, g)
  BY SolutionExists
<1>4. Adds(sum)
  BY <1>2, <1>3
<1>5. Solves(Amount, S, CHOOSE h : Solves(Amount, S, h))
  BY <1>3
<1>6. Solves(Amount, S, sum)
  BY <1>2, <1>4
<1>7. sum[S] = (CHOOSE h : Solves(Amount, S, h))[S]
  BY <1>5, <1>6, SolutionsAgree
<1> QED BY <1>1, <1>7, SumIs

-----------------------------------------------------------------------------
(* What steps do to transactions.                                            *)

\* Only a transaction that was never handed over begins to wait.
LEMMA UpperMoves ==
    ASSUME Inv, [Next]_vars
    PROVE  /\ handed \subseteq handed'
           /\ \A tx \in Upper!Waiting' : tx \in Upper!Waiting \/ tx \notin handed
<1>1. CASE \E tx : Upper!Hand(tx)
  BY <1>1, UpperFacts DEF Inv, Shape
<1>2. CASE \E tx : Upper!Deliver(tx)
  BY <1>2, UpperFacts DEF Inv, Shape
<1>3. CASE Upper!Lose(Upper!Waiting) \/ UNCHANGED upper
  BY <1>3, UpperFacts DEF Inv, Shape
<1> QED BY <1>1, <1>2, <1>3 DEF Next, OracleStep, CreateTask, Offer, TakeInitTask, SendSchedule,
       CommitSlot, QuerySlot, FinalizeSlot, EpochTick, vars, StartTask, ReadEpoch, StartProcess,
       Take, StoreInitTx, SetTask, StoreEpochTx, MapFault, SetEpoch, SetSlotFinish, Increment,
       UpdateTask, UpdateDateRecord, StoreSchedule, Recover, StartAfresh, RestartOn

\* A step keeps transactions from coming back if what it stores or holds new was
\* waiting, and what it cuts off was in hand.
LEMMA NoneComesBackKept ==
    ASSUME Inv, NoneComesBack, [Next]_vars, IsFiniteSet(db'.transactions),
           \A tx \in db'.transactions : tx[1] = "process" =>
               tx \in db.transactions \/ (tx \in handed' /\ tx \notin Upper!Waiting'),
           \A tx : InHand(tx)' => torn' = torn /\ (InHand(tx) \/ tx \in Upper!Waiting),
           \A tx : CutShort(tx)' => CutShort(tx) \/ InHand(tx)
    PROVE  NoneComesBack'
<1>1. ASSUME NEW tx, CutShort(tx)' \/ (tx \in db'.transactions /\ tx[1] = "process")
      PROVE  tx \in handed' /\ tx \notin Upper!Waiting'
  <2>1. \/ CutShort(tx) \/ (tx \in db.transactions /\ tx[1] = "process")
        \/ tx \in handed' /\ tx \notin Upper!Waiting'
    BY <1>1, HandIsStored
  <2> QED BY <2>1, UpperMoves DEF NoneComesBack
<1>2. ASSUME NEW tx, InHand(tx)' PROVE ~CutShort(tx)'
  <2>1. CutShort(tx)' <=> CutShort(tx)
    BY <1>2 DEF CutShort
  <2> QED BY <1>2, <2>1 DEF NoneComesBack
<1> QED BY <1>1, <1>2 DEF NoneComesBack

\* A step that credits nothing leaves the accounts as they are.
LEMMA CreditsKept ==
    ASSUME Inv, CreditInv, NEW t \in Task, \A tx : Credited(tx)' <=> Credited(tx),
           Process(t)' = Process(t),
           \A s \in Slot : FinishedUnlessRejected(s) => FinishedUnlessRejected(s)'
    PROVE  CreditsOf(t)'
<1>1. Credits(t)' = Credits(t)
  <2>1. ASSUME NEW tx PROVE tx \in Credits(t)' <=> Credited(tx)' /\ TaskOf[tx[2]] = t
    BY DEF Credits, Credited, InHand, CutShort
  <2>2. ASSUME NEW tx PROVE tx \in Credits(t) <=> Credited(tx) /\ TaskOf[tx[2]] = t
    BY DEF Credits, Credited, InHand, CutShort
  <2> QED BY <2>1, <2>2
<1>2. SumOf(Amount, Credits(t))' = SumOf(Amount, Credits(t))
  BY <1>1
<1>3. \A tx \in Credits(t) : tx[2] \in Slot /\ FinishedUnlessRejected(tx[2])
  BY CreditFacts DEF CreditInv, CreditsOf
<1>4. Process(t) = SumOf(Amount, Credits(t))
  BY DEF CreditInv, CreditsOf
<1> QED BY <1>1, <1>2, <1>3, <1>4 DEF CreditsOf

\* A step that neither stores, holds nor cuts off a transaction of a slot.
Calm ==
    /\ torn' = torn /\ IsFiniteSet(db'.transactions)
    /\ \A tx : tx[1] = "process" => (tx \in db'.transactions <=> tx \in db.transactions)
    /\ \A tx : InHand(tx)' <=> InHand(tx)

LEMMA CalmKeepsCredits ==
    ASSUME Inv, CreditInv, [Next]_vars, Calm,
           \A t \in Task : Process(t)' = Process(t),
           \A s \in Slot : FinishedUnlessRejected(s) => FinishedUnlessRejected(s)',
           oracle'.pc = "increment" =>
               \/ oracle.pc = "increment"
               \/ FinishedUnlessRejected(oracle.tx[2])'
    PROVE  CreditInv'
<1>1. \A tx : CutShort(tx)' <=> CutShort(tx)
  BY DEF Calm, CutShort
<1>2. NoneComesBack'
  BY <1>1, NoneComesBackKept DEF Calm, CreditInv
<1>3. ASSUME NEW tx PROVE Credited(tx)' <=> Credited(tx)
  BY <1>1 DEF Calm, Credited
<1>4. ASSUME NEW t \in Task PROVE CreditsOf(t)'
  BY <1>3, CreditsKept
<1>5. ASSUME oracle'.pc = "increment" PROVE FinishedUnlessRejected(oracle.tx[2])'
  <2> PICK tx : tx = oracle'.tx
    OBVIOUS
  <2>1. InHand(tx)'
    BY <1>5 DEF InHand
  <2>2. InHand(tx) /\ oracle.tx = tx
    BY <2>1 DEF Calm, InHand
  <2>3. CASE oracle.pc = "increment"
    <3> PICK s \in Slot : s = tx[2]
      BY <2>2, HandIsStored
    <3>1. FinishedUnlessRejected(s)
      BY <2>2, <2>3 DEF CreditInv
    <3>2. FinishedUnlessRejected(s)'
      BY <3>1
    <3> QED BY <3>2 DEF FinishedUnlessRejected, SlotStatus
  <2> QED BY <1>5, <2>3
<1> QED BY <1>2, <1>4, <1>5 DEF CreditInv

\* Only these steps are not calm: they take a transaction of a slot, add its amount,
\* or restart.
LEMMA MostAreCalm ==
    ASSUME Inv, NoneComesBack,
           \/ StoreSchedule \/ StoreInitTx \/ SetTask \/ StoreEpochTx \/ MapFault \/ SetEpoch
           \/ SetSlotFinish \/ UpdateTask \/ UpdateDateRecord
           \/ \E tx \in Tx : StartTask(tx) \/ ReadEpoch(tx)
           \/ \E t \in Task : CreateTask(t) \/ Offer(t) \/ TakeInitTask(t)
           \/ \E t \in Task : \E failed \in SUBSET (SlotsOf(t) \cap MayFail) :
                  SendSchedule(t, failed)
           \/ \E u \in Slot : CommitSlot(u) \/ QuerySlot(u)
           \/ \E u \in Slot : \E a \in Amounts[u] : FinalizeSlot(u, a)
           \/ EpochTick \/ UNCHANGED vars
    PROVE  Calm
<1>1. torn' = torn
  BY DEF StoreSchedule, CreateTask, Offer, TakeInitTask, SendSchedule, CommitSlot, QuerySlot,
         FinalizeSlot, EpochTick, vars, StartTask, ReadEpoch, StoreInitTx, SetTask, past,
         StoreEpochTx, MapFault, SetEpoch, SetSlotFinish, UpdateTask, UpdateDateRecord
<1>2. \/ db'.transactions = db.transactions
      \/ db'.transactions = db.transactions \cup {oracle.tx} /\ oracle.tx[1] # "process"
  <2>1. CASE StoreInitTx \/ StoreEpochTx
    <3>1. db'.transactions = db.transactions \cup {oracle.tx}
      BY <2>1, TablesFacts DEF StoreInitTx, StoreEpochTx, SetTransaction
    <3>2. oracle.tx[1] # "process"
      <4>1. CASE StoreInitTx
        BY <4>1, TxFacts DEF StoreInitTx, Inv, OracleFits
      <4>2. CASE StoreEpochTx
        BY <4>2 DEF StoreEpochTx, Inv, OracleFits
      <4> QED BY <2>1, <4>1, <4>2
    <3> QED BY <3>1, <3>2
  <2>2. CASE StoreSchedule
    BY <2>2, ScheduleWrites DEF ScheduleOfNobody
  <2>3. CASE SetTask \/ UpdateTask
    BY <2>3, TablesFacts, SetTaskFacts DEF UpdateTask
  <2>4. CASE SetEpoch \/ SetSlotFinish
    BY <2>4, TablesFacts DEF SetEpoch, SetSlotFinish
  <2>5. CASE \E tx \in Tx : ReadEpoch(tx)
    BY <2>5, TablesFacts DEF ReadEpoch
  <2>6. CASE \E u \in Slot : QuerySlot(u)
    BY <2>6, TablesFacts DEF QuerySlot
  <2>7. CASE UNCHANGED db
    BY <2>7
  <2> QED
    BY <2>1, <2>2, <2>3, <2>4, <2>5, <2>6, <2>7 DEF CreateTask, Offer, TakeInitTask,
       SendSchedule, CommitSlot, FinalizeSlot, EpochTick, vars, StartTask, MapFault,
       UpdateDateRecord
<1>3. IsFiniteSet(db'.transactions)
  BY <1>2, FS_AddElement DEF NoneComesBack
<1>4. \A tx : InHand(tx)' <=> InHand(tx)
  <2>1. CASE SetSlotFinish
    <3>1. oracle' = [oracle EXCEPT !.pc = "increment"] /\ oracle.pc = "slot"
      BY <2>1 DEF SetSlotFinish
    <3>2. oracle'.pc = "increment" /\ oracle'.tx = oracle.tx
      BY <3>1, TablesFacts
    <3> QED BY <3>1, <3>2 DEF InHand
  <2>2. CASE oracle' = oracle
    BY <2>2 DEF InHand
  <2>3. CASE oracle'.pc \notin {"slot", "increment"} /\ oracle.pc \notin {"slot", "increment"}
    BY <2>3 DEF InHand
  <2>4. CASE StoreInitTx \/ SetTask \/ StoreEpochTx \/ SetEpoch \/ UpdateTask \/ UpdateDateRecord
    <3>1. oracle.pc \notin {"slot", "increment"}
      BY <2>4 DEF StoreInitTx, SetTask, StoreEpochTx, SetEpoch, UpdateTask, UpdateDateRecord
    <3>2. CASE StoreInitTx \/ UpdateTask
      BY <3>1, <3>2, TablesFacts, <2>3 DEF StoreInitTx, UpdateTask
    <3>3. CASE StoreEpochTx
      <4>1. oracle'.pc = "epoch"
        BY <3>3, TablesFacts DEF StoreEpochTx
      <4> QED BY <3>1, <4>1, <2>3
    <3>4. CASE SetTask \/ SetEpoch \/ UpdateDateRecord
      <4>1. SetTask \/ oracle' = Idle
        BY <3>4 DEF SetEpoch, UpdateDateRecord
      <4>2. oracle'.pc \in {"idle", "dataset"}
        BY <4>1, SetTaskFacts DEF Idle
      <4> QED BY <3>1, <4>2, <2>3
    <3> QED BY <2>4, <3>2, <3>3, <3>4
  <2>5. CASE MapFault
    <3>1. oracle.pc = "epochTx" /\ oracle'.pc = "map fault"
      BY <2>5, PanicFacts DEF MapFault
    <3> QED BY <3>1, <2>3
  <2>6. CASE \E tx \in Tx : StartTask(tx) \/ ReadEpoch(tx)
    <3>1. oracle.pc = "idle"
      BY <2>6 DEF StartTask, ReadEpoch, Take
    <3>2. \/ oracle'.pc = "nil task"
          \/ \E tx : \/ oracle' = [pc |-> "initTx", tx |-> tx, tasks |-> {}]
                     \/ oracle' = [pc |-> "epochTx", tx |-> tx, tasks |-> {}]
      BY <2>6, PanicFacts DEF StartTask, ReadEpoch, Doing
    <3>3. ASSUME NEW tx, NEW pc, oracle' = [pc |-> pc, tx |-> tx, tasks |-> {}],
                 pc \in {"initTx", "epochTx"}
          PROVE  oracle'.pc \notin {"slot", "increment"}
      BY <3>3
    <3>4. oracle'.pc \notin {"slot", "increment"}
      BY <3>2, <3>3
    <3> QED BY <3>1, <3>4, <2>3
  <2>7. CASE StoreSchedule
    BY <2>2, <2>3, <2>7, ScheduleWrites DEF ScheduleOfNobody
  <2> QED
    BY <2>1, <2>2, <2>4, <2>5, <2>6, <2>7 DEF CreateTask, Offer, TakeInitTask,
       SendSchedule, CommitSlot, QuerySlot, FinalizeSlot, EpochTick, vars
<1> QED BY <1>1, <1>2, <1>3, <1>4 DEF Calm

\* Rows that move on keep what is finished.
LEMMA MovesKeepFinished ==
    ASSUME NEW s, SlotRowMoves(s), rejected \subseteq rejected', FinishedUnlessRejected(s)
    PROVE  FinishedUnlessRejected(s)'
  BY DEF SlotRowMoves, FinishedUnlessRejected

\* So calm steps keep the accounts: a task is stored anew only without progress.
LEMMA CalmStepsKeepCredits ==
    ASSUME Inv, RowInv, CreditInv, [Next]_vars,
           \/ StoreSchedule \/ StoreInitTx \/ SetTask \/ StoreEpochTx \/ MapFault \/ SetEpoch
           \/ SetSlotFinish \/ UpdateTask \/ UpdateDateRecord
           \/ \E tx \in Tx : StartTask(tx) \/ ReadEpoch(tx)
           \/ \E t \in Task : CreateTask(t) \/ Offer(t) \/ TakeInitTask(t)
           \/ \E t \in Task : \E failed \in SUBSET (SlotsOf(t) \cap MayFail) :
                  SendSchedule(t, failed)
           \/ \E u \in Slot : CommitSlot(u) \/ QuerySlot(u)
           \/ \E u \in Slot : \E a \in Amounts[u] : FinalizeSlot(u, a)
           \/ EpochTick \/ UNCHANGED vars
    PROVE  CreditInv'
<1>1. Calm
  BY MostAreCalm DEF CreditInv
<1>2. ASSUME NEW t \in Task PROVE Process(t)' = Process(t)
  <2>1. CASE Quiet
    BY <2>1 DEF Quiet
  <2>2. CASE UpdateDateRecord
    BY <2>2 DEF UpdateDateRecord, Process
  <2>3. CASE UpdateTask
    <3>1. PICK u \in Task : u = TaskOf[oracle.tx[2]]
      BY <2>3, CreditInHand DEF UpdateTask
    <3>2. db' = [db EXCEPT !.tasks[u].status = "Finished"]
      BY <2>3, <3>1 DEF UpdateTask
    <3>3. db'.tasks = [db.tasks EXCEPT ![u].status = "Finished"]
      BY <3>2, TablesFacts
    <3> QED BY <3>3, TablesFacts DEF TaskRow, Process
  <2>4. CASE SetTask
    <3> PICK row : row = [NoTask EXCEPT !.status = "Processing"]
      OBVIOUS
    <3>1. row.process = 0
      BY DEF NoTask
    <3>2. PICK u \in Task :
              ~Stored(u) /\ (db'.tasks = db.tasks \/ db'.tasks = [db.tasks EXCEPT ![u] = row])
      BY <2>4, SetTaskFacts
    <3>3. Process(u) = 0
      BY <3>2 DEF RowInv, RowOf
    <3> QED BY <3>1, <3>2, <3>3, TablesFacts DEF Process
  <2> QED BY <2>1, <2>2, <2>3, <2>4, ScheduleIsQuiet, OracleIsQuiet, OthersAreQuiet
<1>3. \A s \in Slot : SlotRowMoves(s) /\ rejected \subseteq rejected'
  <2>1. CASE StoreSchedule
    BY <2>1, ScheduleWrites, ScheduledRowMoves DEF ScheduleOfNobody
  <2> QED BY <2>1, OtherRowsMove
<1>4. \A s \in Slot : FinishedUnlessRejected(s) => FinishedUnlessRejected(s)'
  BY <1>3, MovesKeepFinished
<1>5. ASSUME oracle'.pc = "increment"
      PROVE  oracle.pc = "increment" \/ FinishedUnlessRejected(oracle.tx[2])'
  <2>1. InHand(oracle.tx)
    <3> PICK tx : tx = oracle'.tx
      OBVIOUS
    <3>1. InHand(tx)'
      BY <1>5 DEF InHand
    <3> QED BY <1>1, <3>1 DEF Calm, InHand
  <2>2. CASE SetSlotFinish
    <3> PICK s \in Slot : s = oracle.tx[2]
      BY <2>1, HandIsStored
    <3>1. SlotStatus(s)' = "Finished" /\ oracle'.tx = oracle.tx
      BY <2>2, FinishedRowMoves, TablesFacts DEF SetSlotFinish
    <3> QED BY <3>1 DEF FinishedUnlessRejected, SlotStatus
  <2>3. CASE oracle' = oracle
    BY <1>5, <2>3
  <2>4. oracle.pc \in {"slot", "increment"}
    BY <2>1 DEF InHand
  <2> QED
    BY <1>5, <2>2, <2>3, <2>4 DEF CreateTask, Offer, TakeInitTask, SendSchedule, CommitSlot,
       QuerySlot, FinalizeSlot, EpochTick, vars, StartTask, ReadEpoch, Take, StoreInitTx,
       SetTask, StoreEpochTx, MapFault, SetEpoch, UpdateTask, UpdateDateRecord, StoreSchedule
<1> QED BY <1>1, <1>2, <1>4, <1>5, CalmKeepsCredits

\* A transaction that is taken is stored, and in hand until it is credited.
LEMMA TakingKeepsCredits ==
    ASSUME Inv, RowInv, CreditInv, [Next]_vars, NEW tx \in Tx, StartProcess(tx)
    PROVE  CreditInv'
<1>1. /\ oracle.pc = "idle" /\ torn' = torn /\ tx \in Upper!Waiting /\ tx \in handed
      /\ handed' = handed /\ tx \notin Upper!Waiting' /\ tx[1] = "process"
  BY UpperFacts DEF StartProcess, Take, past, Inv, Shape
<1>2. \/ /\ oracle'.pc = "unknown task" /\ oracle'.tx = None
         /\ db'.transactions = db.transactions
      \/ /\ oracle'.pc = "slot" /\ oracle'.tx = tx
         /\ db'.transactions = db.transactions \cup {tx}
  <2>1. CASE (\E about : Panic("unknown task", about)) /\ db' = db
    BY <2>1, PanicFacts
  <2>2. CASE oracle' = Doing("slot", tx) /\ db' = [db EXCEPT !.transactions = @ \cup {tx}]
    <3>1. oracle'.pc = "slot" /\ oracle'.tx = tx
      BY <2>2 DEF Doing
    <3>2. db'.transactions = db.transactions \cup {tx}
      BY <2>2, TablesFacts
    <3> QED BY <3>1, <3>2
  <2> QED BY <2>1, <2>2 DEF StartProcess
<1>3. IsFiniteSet(db'.transactions)
  <2>1. IsFiniteSet(db.transactions)
    BY DEF CreditInv, NoneComesBack
  <2>2. IsFiniteSet(db.transactions \cup {tx})
    BY <2>1, FS_AddElement
  <2> QED BY <1>2, <2>1, <2>2
<1>4. \A x : CutShort(x)' <=> CutShort(x)
  BY <1>1 DEF CutShort
<1>5. NoneComesBack'
  <2>1. \A x \in db'.transactions : x \in db.transactions \/ x = tx
    BY <1>2
  <2>2. \A x : InHand(x)' => x = tx
    BY <1>2 DEF InHand
  <2> QED BY <1>1, <1>3, <1>4, <2>1, <2>2, NoneComesBackKept DEF CreditInv
<1>6. ASSUME NEW x PROVE Credited(x)' <=> Credited(x)
  <2>1. ~InHand(x)
    BY <1>1 DEF InHand
  <2>2. CASE x = tx
    <3>1. tx \notin db.transactions
      BY <1>1 DEF CreditInv, NoneComesBack
    <3>2. tx \notin db'.transactions \/ InHand(tx)'
      BY <1>2, <3>1 DEF InHand
    <3> QED BY <2>2, <3>1, <3>2 DEF Credited
  <2>3. CASE x # tx
    <3>1. x \in db'.transactions <=> x \in db.transactions
      BY <1>2, <2>3
    <3>2. ~InHand(x)'
      BY <1>2, <2>3 DEF InHand
    <3> QED BY <1>4, <2>1, <3>1, <3>2 DEF Credited
  <2> QED BY <2>2, <2>3
<1>7. ASSUME NEW t \in Task PROVE Process(t)' = Process(t)
  BY OracleIsQuiet DEF Quiet
<1>8. \A s \in Slot : FinishedUnlessRejected(s) => FinishedUnlessRejected(s)'
  BY OtherRowsMove, MovesKeepFinished
<1>9. \A t \in Task : CreditsOf(t)'
  BY <1>6, <1>7, <1>8, CreditsKept
<1> QED BY <1>2, <1>5, <1>9 DEF CreditInv

\* The amount of the transaction in hand is added, and it is a credit from then on.
LEMMA IncrementKeepsCredits ==
    ASSUME Inv, RowInv, CreditInv, [Next]_vars, Increment
    PROVE  CreditInv'
<1> PICK tx : tx = oracle.tx
  OBVIOUS
<1>1. oracle.pc = "increment" /\ InHand(tx) /\ torn' = torn
  BY DEF Increment, InHand, past
<1>2. PICK s \in Slot : \E a \in Amounts[s] :
          /\ TaskOf[s] \in Task /\ a \in Nat /\ oracle.tx[2] = s /\ oracle.tx[3] = a
  BY CreditInHand DEF Increment
<1>3. PICK a \in Nat : oracle.tx[3] = a
  BY <1>2
<1> PICK u \in Task : u = TaskOf[s]
  BY <1>2
<1>4. /\ tx[1] = "process" /\ tx[2] = s /\ tx[3] = a /\ tx \in db.transactions
      /\ tx \in Tx /\ Amount[tx] = a
  <2>1. tx \in db.transactions /\ tx[1] = "process"
    BY <1>1, HandIsStored
  <2>2. tx \in Tx
    BY <2>1 DEF CreditInv, NoneComesBack, Inv, Shape
  <2> QED BY <1>2, <1>3, <2>1, <2>2 DEF Amount
<1>5. db'.tasks = [db.tasks EXCEPT ![u].process = Process(u) + a]
      /\ db'.transactions = db.transactions
  <2>1. db' = [db EXCEPT !.tasks[u].process = Process(u) + a]
    BY <1>2, <1>3 DEF Increment, NextProcess, Process
  <2>2. db' = [tasks |-> [db.tasks EXCEPT ![u].process = Process(u) + a], slots |-> db.slots,
               transactions |-> db.transactions, epochs |-> db.epochs]
    BY <2>1, TablesFacts
  <2> QED BY <2>2
<1>6. oracle'.pc \in {"finish", "idle"}
  <2>1. oracle' = [oracle EXCEPT !.pc = "finish"] \/ oracle' = Idle
    BY DEF Increment
  <2>2. CASE oracle' = [oracle EXCEPT !.pc = "finish"]
    BY <2>2, TablesFacts
  <2>3. CASE oracle' = Idle
    BY <2>3 DEF Idle
  <2> QED BY <2>1, <2>2, <2>3
<1>7. \A x : ~InHand(x)' /\ (CutShort(x)' <=> CutShort(x))
  BY <1>1, <1>6 DEF InHand, CutShort
<1>8. NoneComesBack'
  BY <1>5, <1>7, NoneComesBackKept DEF CreditInv, NoneComesBack
<1>9. \A x : Credited(x)' <=> Credited(x) \/ x = tx
  <2>1. ~CutShort(tx)
    BY <1>1 DEF CreditInv, NoneComesBack
  <2>2. \A x : InHand(x) <=> x = tx
    BY <1>1 DEF InHand
  <2> QED BY <1>4, <1>5, <1>7, <2>1, <2>2 DEF Credited
<1>10. \A v \in Slot : FinishedUnlessRejected(v) => FinishedUnlessRejected(v)'
  BY OtherRowsMove, MovesKeepFinished
<1>11. /\ \A t \in Task : t # u => Process(t)' = Process(t)
       /\ Process(u)' = Process(u) + a
  BY <1>5, TablesFacts DEF Process, TaskRow
<1>12. ASSUME NEW t \in Task, t # u PROVE CreditsOf(t)'
  <2>1. Credits(t)' = Credits(t)
    <3>1. \A x : x \in Credits(t)' <=> Credited(x)' /\ TaskOf[x[2]] = t
      BY DEF Credits, Credited, InHand, CutShort
    <3>2. \A x : x \in Credits(t) <=> Credited(x) /\ TaskOf[x[2]] = t
      BY DEF Credits, Credited, InHand, CutShort
    <3> QED BY <1>4, <1>9, <1>12, <3>1, <3>2
  <2>2. SumOf(Amount, Credits(t))' = SumOf(Amount, Credits(t))
    BY <2>1
  <2>3. \A x \in Credits(t) : x[2] \in Slot /\ FinishedUnlessRejected(x[2])
    BY CreditFacts DEF CreditInv, CreditsOf
  <2>4. Process(t) = SumOf(Amount, Credits(t))
    BY DEF CreditInv, CreditsOf
  <2> QED BY <1>10, <1>11, <1>12, <2>1, <2>2, <2>3, <2>4 DEF CreditsOf
<1>13. CreditsOf(u)'
  <2> PICK old : old = Credits(u)
    OBVIOUS
  <2>1. Credits(u)' = old \cup {tx} /\ tx \notin old
    <3>1. \A x : x \in Credits(u)' <=> Credited(x)' /\ TaskOf[x[2]] = u
      BY DEF Credits, Credited, InHand, CutShort
    <3>2. \A x : x \in Credits(u) <=> Credited(x) /\ TaskOf[x[2]] = u
      BY DEF Credits, Credited, InHand, CutShort
    <3>3. tx \notin old
      BY <1>1, <3>2 DEF Credited
    <3> QED BY <1>4, <1>9, <3>1, <3>2, <3>3
  <2>2. /\ IsFiniteSet(old) /\ Process(u) = SumOf(Amount, old)
        /\ \A x \in old : x \in Tx /\ Amount[x] \in Nat /\ x[2] \in Slot
    BY CreditFacts DEF CreditInv, CreditsOf
  <2> PICK new : new = old \cup {tx}
    OBVIOUS
  <2>3. IsFiniteSet(new) /\ new \ {tx} = old /\ \A x \in new : Amount[x] \in Nat
    BY <1>4, <2>1, <2>2, FS_AddElement
  <2>4. SumOf(Amount, new) = a + SumOf(Amount, old)
    BY <1>4, <2>3, SumWithout
  <2>5. SumOf(Amount, old) \in Nat
    BY <2>2, SumIsNat
  <2>6. Process(u)' = SumOf(Amount, new)
    BY <1>11, <2>2, <2>4, <2>5
  <2>7. FinishedUnlessRejected(s)
    BY <1>1, <1>2 DEF CreditInv
  <2>8. ASSUME NEW x \in new PROVE FinishedUnlessRejected(x[2])'
    <3>1. x[2] \in Slot /\ FinishedUnlessRejected(x[2])
      BY <1>4, <2>2, <2>7 DEF CreditInv, CreditsOf
    <3> QED BY <1>10, <3>1
  <2>9. Credits(u)' = new
    BY <2>1
  <2>10. SumOf(Amount, Credits(u))' = SumOf(Amount, new)
    BY <2>9
  <2> QED BY <2>6, <2>8, <2>9, <2>10 DEF CreditsOf
<1> QED BY <1>6, <1>8, <1>12, <1>13 DEF CreditInv

\* A crash cuts off what is in hand, which was no credit; a fresh start forgets all.
LEMMA RestartKeepsCredits ==
    ASSUME Inv, RowInv, CreditInv, [Next]_vars, Recover \/ StartAfresh
    PROVE  CreditInv'
<1>1. /\ oracle'.pc = "idle" /\ rejected' = rejected
      /\ torn' = torn \cup (IF oracle.pc \in {"slot", "increment", "finish"}
                            THEN {<<oracle.pc, oracle.tx>>} ELSE {})
  BY DEF Recover, StartAfresh, RestartOn, Idle
<1>2. \A x : ~InHand(x)'
  BY <1>1 DEF InHand
<1>3. ASSUME NEW x PROVE CutShort(x)' <=> CutShort(x) \/ InHand(x)
  <2>1. <<"slot", x>> \in torn' <=>
            <<"slot", x>> \in torn \/ (oracle.pc = "slot" /\ oracle.tx = x)
    BY <1>1
  <2>2. <<"increment", x>> \in torn' <=>
            <<"increment", x>> \in torn \/ (oracle.pc = "increment" /\ oracle.tx = x)
    BY <1>1
  <2>3. CutShort(x)' <=> <<"slot", x>> \in torn' \/ <<"increment", x>> \in torn'
    BY DEF CutShort
  <2> QED BY <2>1, <2>2, <2>3 DEF CutShort, InHand
<1>4. db'.transactions \in {db.transactions, {}}
  BY RecoveredFacts DEF Recover, StartAfresh, RestartOn, EmptyDb
<1>5. NoneComesBack'
  <2>1. IsFiniteSet(db'.transactions)
    BY <1>4, FS_EmptySet DEF CreditInv, NoneComesBack
  <2> QED BY <1>2, <1>3, <1>4, <2>1, NoneComesBackKept DEF CreditInv
<1>6. CASE Recover
  <2>1. db' = Recovered
    BY <1>6 DEF Recover, RestartOn
  <2>2. \A x : Credited(x)' <=> Credited(x)
    BY <1>2, <1>3, <2>1, RecoveredFacts DEF Credited
  <2>3. ASSUME NEW t \in Task PROVE Process(t)' = Process(t)
    <3>1. db'.tasks[t] = GiveUp(db.tasks[t]) /\ db.tasks[t] \in TaskRow
      BY <2>1, RecoveredFacts, TablesFacts
    <3> QED BY <3>1 DEF GiveUp, TaskRow, Process
  <2>4. ASSUME NEW s \in Slot, FinishedUnlessRejected(s) PROVE FinishedUnlessRejected(s)'
    <3>1. db'.slots[s] = GiveUp(db.slots[s])
      BY <2>1, RecoveredFacts
    <3> QED BY <1>1, <2>4, <3>1 DEF GiveUp, FinishedUnlessRejected, SlotStatus
  <2>5. \A t \in Task : CreditsOf(t)'
    BY <2>2, <2>3, <2>4, CreditsKept
  <2> QED BY <1>1, <1>5, <2>5 DEF CreditInv
<1>7. CASE StartAfresh
  <2>1. db' = EmptyDb
    BY <1>7 DEF StartAfresh, RestartOn
  <2>2. db'.transactions = {} /\ \A t \in Task : Process(t)' = 0
    BY <2>1 DEF EmptyDb, NoTask, Process
  <2>3. \A t : Credits(t)' = {}
    BY <2>2 DEF Credits
  <2>4. SumOf(Amount, {}) = 0
    BY FS_EmptySet, SumStep
  <2>5. ASSUME NEW t \in Task PROVE CreditsOf(t)'
    BY <2>2, <2>3, <2>4 DEF CreditsOf
  <2> QED BY <1>1, <1>5, <2>5 DEF CreditInv
<1> QED BY <1>6, <1>7

\* The first state.
LEMMA CreditInit == Init => CreditInv
<1> SUFFICES ASSUME Init PROVE CreditInv
  OBVIOUS
<1>1. db = EmptyDb /\ torn = {} /\ oracle = Idle
  BY DEF Init
<1>2. db.transactions = {} /\ \A t \in Task : Process(t) = 0
  BY <1>1 DEF EmptyDb, NoTask, Process
<1>3. oracle.pc = "idle"
  BY <1>1 DEF Idle
<1>4. NoneComesBack
  BY <1>1, <1>2, <1>3, FS_EmptySet DEF NoneComesBack, InHand, CutShort
<1>5. \A t \in Task : CreditsOf(t)
  <2>1. \A t : Credits(t) = {}
    BY <1>2 DEF Credits
  <2>2. SumOf(Amount, {}) = 0
    BY FS_EmptySet, SumStep
  <2> QED BY <1>2, <2>1, <2>2 DEF CreditsOf
<1> QED BY <1>3, <1>4, <1>5 DEF CreditInv

\* Every step keeps the invariant.
LEMMA NextKeepsCredits == Inv /\ RowInv /\ CreditInv /\ [Next]_vars => CreditInv'
<1>1. ASSUME Inv, RowInv, CreditInv, [Next]_vars, \E tx \in Tx : StartProcess(tx)
      PROVE  CreditInv'
  BY <1>1, TakingKeepsCredits
<1> QED BY <1>1, CalmStepsKeepCredits, IncrementKeepsCredits, RestartKeepsCredits
        DEF Next, OracleStep

\* TaskProcessTransaction (persistedOracle.go) is written in four steps, any of which may
\* be the last: still, in every state the progress of a task is the sum of its stored
\* transactions but for those that the Oracle or a crash has between two of the steps,
\* and their slots are finished unless a later schedule says they failed.
THEOREM RowsMatchCredits == Spec => []CreditsMatchRows
<1>1. Inv /\ CreditInv => CreditsMatchRows
  <2> SUFFICES ASSUME Inv, CreditInv PROVE CreditsMatchRows
    OBVIOUS
  <2>1. \A t \in Task : MapThenSumSet(LAMBDA tx : tx[3], Credits(t)) = SumOf(Amount, Credits(t))
    BY CreditFacts, SumOfAmounts DEF CreditInv
  <2> QED BY <2>1 DEF CreditInv, CreditsOf, CreditsMatchRows, Process, FinishedUnlessRejected,
                      SlotStatus
<1>2. Init => Inv /\ RowInv /\ CreditInv
  BY InvInit, RowInit, CreditInit
<1>3. (Inv /\ RowInv /\ CreditInv) /\ [Next]_vars => (Inv /\ RowInv /\ CreditInv)'
  BY NextKeepsInv, NextKeepsRows, NextKeepsCredits
<1> QED BY <1>1, <1>2, <1>3, PTL DEF Spec
==============================================================================
