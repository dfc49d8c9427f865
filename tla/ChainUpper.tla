----------------------------- MODULE ChainUpper -----------------------------
(***************************************************************************)
(* The way of a transaction to the chain and back: goroutines hand it over *)
(* on PendingTransactions, ChainUpper.Start collects it in a pool that     *)
(* only grows, a ticker packs what is new in the pool and pushes it one by *)
(* one to a bounded queue, and several workers store it, wait for its      *)
(* receipt and give it to the Oracle.  Everything but the chain is memory  *)
(* of one process.                                                         *)
(***************************************************************************)
EXTENDS Integers, Sequences, FiniteSets, SequencesExt

CONSTANTS
    Tx,        \* transactions
    Worker,    \* the UpchainWorkers
    Refused,   \* transactions with a negative amount, which check refuses
    QueueCap,  \* capacity of the queue to the workers
    DevCap,    \* and of DevTransactionChannel
    None       \* nothing in hand

ASSUME ChainAssumption ==
    /\ None \notin Tx /\ Refused \subseteq Tx
    /\ QueueCap \in Nat \ {0} /\ DevCap \in Nat \ {0}

VARIABLES
    pending,           \* transactions in PendingTransactions, or in a goroutine
                       \* that is sending to it
    transactionPool,   \* every transaction received so far
    unprocessedIndex,  \* how many of them were packed
    pushed,            \* how many of them UpChain has pushed or refused
    queue,             \* the channel to the workers
    worker,            \* where each worker is, and its transaction
    devTransactions,   \* channel DevTransactionChannel
    oracleWaits,       \* the Oracle stands before a full InitTasks and reads nothing
    chain,             \* transactions on the chain
    handed,            \* history: transactions given to the chain upper
    delivered,         \* history: how often each one reached the Oracle
    dropped,           \* history: transactions given up after an error
    forgotten          \* history: transactions a crash took

memory    == <<pending, transactionPool, unprocessedIndex, pushed, queue, worker,
               devTransactions, oracleWaits>>
history   == <<handed, delivered, dropped, forgotten>>
chainVars == <<memory, chain, history>>

IdleWorker == [pc |-> "idle", tx |-> None]
Holding(pc, tx) == [pc |-> pc, tx |-> tx]
WorkerState == {IdleWorker} \cup {Holding(pc, tx) : pc \in {"storing", "receipt", "push"}, tx \in Tx}

MemoryInit ==
    /\ pending = {} /\ transactionPool = <<>>
    /\ unprocessedIndex = 0 /\ pushed = 0
    /\ queue = <<>> /\ devTransactions = <<>>
    /\ worker = [w \in Worker |-> IdleWorker]
    /\ oracleWaits = FALSE

ChainInit ==
    /\ MemoryInit
    /\ chain = {} /\ handed = {} /\ dropped = {} /\ forgotten = {}
    /\ delivered = [tx \in Tx |-> 0]

\* A transaction is given to the channel by a goroutine of its own (the handlers
\* of HTTP, the "go func" of the EpochManager), so the order is open.
HandOver(tx) ==
    /\ tx \notin handed
    /\ pending' = pending \cup {tx}
    /\ handed' = handed \cup {tx}

Receive(tx) ==
    /\ tx \in pending
    /\ pending' = pending \ {tx}
    /\ transactionPool' = Append(transactionPool, tx)
    /\ UNCHANGED <<unprocessedIndex, pushed, queue, worker, devTransactions,
                   oracleWaits, chain, history>>

-----------------------------------------------------------------------------
(* UpChain: the new part of the pool is cut off under the mutex, the pushing *)
(* goes on while transactions arrive.                                        *)

\* (A variant stands before the definition it varies and is used nowhere.)
PackWholePool(first, end) == pushed' = 0 /\ unprocessedIndex' = end
PackIncludesNext(first, end) == pushed' = first + 1 /\ unprocessedIndex' = end

\* The slice transactionPool[first:end] becomes the pack.
CutPack(first, end) == pushed' = first /\ unprocessedIndex' = end

Pack ==
    /\ pushed = unprocessedIndex
    /\ unprocessedIndex < Len(transactionPool)
    /\ CutPack(unprocessedIndex, Len(transactionPool))
    /\ UNCHANGED <<pending, transactionPool, queue, worker, devTransactions,
                   oracleWaits, chain, history>>

NextInPack == transactionPool[pushed + 1]

Push ==
    /\ pushed < unprocessedIndex /\ NextInPack \notin Refused /\ Len(queue) < QueueCap
    /\ queue' = Append(queue, NextInPack)
    /\ pushed' = pushed + 1
    /\ UNCHANGED <<pending, transactionPool, unprocessedIndex, worker,
                   devTransactions, oracleWaits, chain, history>>

RefuseEndsPack ==
    /\ pushed < unprocessedIndex /\ NextInPack \in Refused
    /\ dropped' = dropped \cup {NextInPack}
    /\ pushed' = unprocessedIndex
    /\ UNCHANGED <<pending, transactionPool, unprocessedIndex, queue, worker,
                   devTransactions, oracleWaits, chain, handed, delivered, forgotten>>

\* check refuses a TaskProcessTransaction whose amount is negative.
Refuse ==
    /\ pushed < unprocessedIndex /\ NextInPack \in Refused
    /\ dropped' = dropped \cup {NextInPack}
    /\ pushed' = pushed + 1
    /\ UNCHANGED <<pending, transactionPool, unprocessedIndex, queue, worker,
                   devTransactions, oracleWaits, chain, handed, delivered, forgotten>>

-----------------------------------------------------------------------------
(* UpChainWorker.Process and waitAndDevPush.                               *)

Fetch(w) ==
    /\ worker[w].pc = "idle" /\ queue # <<>>
    /\ worker' = [worker EXCEPT ![w] = Holding("storing", Head(queue))]
    /\ queue' = Tail(queue)
    /\ UNCHANGED <<pending, transactionPool, unprocessedIndex, pushed,
                   devTransactions, oracleWaits, chain, history>>

Store(w) ==
    /\ worker[w].pc = "storing"
    /\ chain' = chain \cup {worker[w].tx}
    /\ worker' = [worker EXCEPT ![w].pc = "receipt"]
    /\ UNCHANGED <<pending, transactionPool, unprocessedIndex, pushed, queue,
                   devTransactions, oracleWaits, history>>

\* The store reports an error, whether or not the chain took the transaction.
StoreFails(w) ==
    /\ worker[w].pc = "storing"
    /\ chain' \in {chain, chain \cup {worker[w].tx}}
    /\ dropped' = dropped \cup {worker[w].tx}
    /\ worker' = [worker EXCEPT ![w] = IdleWorker]
    /\ UNCHANGED <<pending, transactionPool, unprocessedIndex, pushed, queue,
                   devTransactions, oracleWaits, handed, delivered, forgotten>>

\* GetTransactionReceipt fails or takes more than 10 seconds.
ReceiptFails(w) ==
    /\ worker[w].pc = "receipt"
    /\ dropped' = dropped \cup {worker[w].tx}
    /\ worker' = [worker EXCEPT ![w] = IdleWorker]
    /\ UNCHANGED <<pending, transactionPool, unprocessedIndex, pushed, queue,
                   devTransactions, oracleWaits, chain, handed, delivered, forgotten>>

\* The receipt and the hash of its block are there.
GetReceipt(w) ==
    /\ worker[w].pc = "receipt"
    /\ worker' = [worker EXCEPT ![w].pc = "push"]
    /\ UNCHANGED <<pending, transactionPool, unprocessedIndex, pushed, queue,
                   devTransactions, oracleWaits, chain, history>>

DevPush(w) ==
    /\ worker[w].pc = "push" /\ Len(devTransactions) < DevCap
    /\ devTransactions' = Append(devTransactions, worker[w].tx)
    /\ worker' = [worker EXCEPT ![w] = IdleWorker]
    /\ UNCHANGED <<pending, transactionPool, unprocessedIndex, pushed, queue, chain,
                   oracleWaits, history>>

\* The Oracle takes the next transaction from DevTransactionChannel; it may be a
\* new task, for which InitTasks has no room.
Deliver ==
    /\ ~oracleWaits /\ devTransactions # <<>>
    /\ devTransactions' = Tail(devTransactions)
    /\ delivered' = [delivered EXCEPT ![Head(devTransactions)] = @ + 1]
    /\ oracleWaits' \in BOOLEAN
    /\ UNCHANGED <<pending, transactionPool, unprocessedIndex, pushed, queue, worker,
                   chain, handed, dropped, forgotten>>

\* The Tracker makes room in InitTasks.  Nothing obliges it to: it may wait for the
\* Scheduler for ever (Wedged of TaskScheduling).
OracleGoesOn ==
    /\ oracleWaits /\ oracleWaits' = FALSE
    /\ UNCHANGED <<pending, transactionPool, unprocessedIndex, pushed, queue, worker,
                   devTransactions, chain, history>>

-----------------------------------------------------------------------------
\* What waits in the pool, packed or not.
InPool == {transactionPool[k] : k \in pushed + 1 .. Len(transactionPool)}

\* Every transaction of this process that is still on its way to the Oracle.
OnItsWay ==
    pending \cup InPool \cup ToSet(queue) \cup ToSet(devTransactions)
        \cup {worker[w].tx : w \in {v \in Worker : worker[v].pc # "idle"}}

Lost == {tx \in handed \ OnItsWay : delivered[tx] = 0}

\* A new process: the pool and all that was on its way are gone.
Forget ==
    /\ pending' = {} /\ transactionPool' = <<>>
    /\ unprocessedIndex' = 0 /\ pushed' = 0
    /\ queue' = <<>> /\ devTransactions' = <<>> /\ oracleWaits' = FALSE
    /\ worker' = [w \in Worker |-> IdleWorker]
    /\ forgotten' = forgotten \cup OnItsWay
    /\ UNCHANGED <<chain, handed, delivered, dropped>>

\* The error of GetBlockHashByNumber is ignored and its nil hash dereferenced: the
\* process dies with all it holds.
BlockHashFails(w) == worker[w].pc = "receipt" /\ Forget

-----------------------------------------------------------------------------
ChainTypeOK ==
    /\ pending \subseteq Tx /\ chain \subseteq Tx /\ handed \subseteq Tx
    /\ dropped \subseteq Tx /\ forgotten \subseteq Tx
    /\ transactionPool \in Seq(Tx) /\ queue \in Seq(Tx) /\ devTransactions \in Seq(Tx)
    /\ unprocessedIndex \in 0 .. Len(transactionPool)
    /\ pushed \in 0 .. unprocessedIndex
    /\ worker \in [Worker -> WorkerState]
    /\ delivered \in [Tx -> Nat] /\ oracleWaits \in BOOLEAN

UpChainStep == Pack \/ Push \/ Refuse
WorkerStep(w) ==
    Fetch(w) \/ Store(w) \/ StoreFails(w) \/ ReceiptFails(w) \/ GetReceipt(w) \/ DevPush(w)

Submit(tx) ==
    /\ HandOver(tx)
    /\ UNCHANGED <<transactionPool, unprocessedIndex, pushed, queue, worker,
                   devTransactions, oracleWaits, chain, delivered, dropped, forgotten>>

ChainNext ==
    \/ \E tx \in Tx : Submit(tx) \/ Receive(tx)
    \/ UpChainStep
    \/ \E w \in Worker : WorkerStep(w) \/ BlockHashFails(w)
    \/ Deliver \/ OracleGoesOn
    \/ Forget

\* Each goroutine goes on running; the calls to the chain return or time out.  That
\* the Oracle gets rid of a new task is not assumed.
ChainFairness ==
    /\ \A tx \in Tx : WF_chainVars(Receive(tx))
    /\ WF_chainVars(UpChainStep)
    /\ \A w \in Worker : WF_chainVars(WorkerStep(w))
    /\ WF_chainVars(Deliver)

ChainSpec == ChainInit /\ [][ChainNext]_chainVars
FairChainSpec == ChainSpec /\ ChainFairness

-----------------------------------------------------------------------------
\* The promise of TransactionDelivery: what it calls lost is what no part of the
\* chain upper holds any more.
Delivery == INSTANCE TransactionDelivery
    WITH Tx <- Tx, handed <- handed, delivered <- delivered, lost <- Lost
DeliversAtMostOnce == Delivery!Spec

\* Nothing gets lost between pool, queue, workers and Oracle: what is neither on
\* its way nor delivered was refused, met an error, or was in memory at a crash.
LostOnlyByFault == Lost \subseteq dropped \cup forgotten

\* A transaction that was handed over is in the end delivered, refused, given up
\* after an error, or taken by a crash, though the pool is cut while it grows, the
\* queue is full and the workers overtake each other; unless the Oracle waits for
\* room in InitTasks for ever, and with it the workers and the queue.
EveryTransactionSettles ==
    \A tx \in Tx :
        tx \in handed ~> \/ delivered[tx] > 0 \/ tx \in dropped \cup forgotten
                         \/ []oracleWaits
=============================================================================
