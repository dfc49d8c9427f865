--------------------------- MODULE ServicesProofs ---------------------------
(* Facts about the chain upper, for every set of transactions and of workers, *)
(* every capacity of the queue and every choice of refused transactions;     *)
(* about the connection pool and the certificate cache, for any number of    *)
(* nodes, callers, connections, validity periods and epochs; and about the   *)
(* queries, for every number of requests and every capacity of the channel,  *)
(* also when handlers ask for anything at any URL.                           *)
EXTENDS ChainUpper, Connections, Certificates, QueryService, TLAPS

-----------------------------------------------------------------------------
(* The chain upper: the four kinds of places in which a transaction waits,   *)
(* and how a step changes what is in them.                                   *)

HeldBy(f) == {f[w].tx : w \in {v \in Worker : f[v].pc # "idle"}}
WaitingFrom(pool, n) == {pool[k] : k \in n + 1 .. Len(pool)}

Distinct(q) == \A j, k \in 1 .. Len(q) : q[j] = q[k] => j = k
DistinctFrom(pool, n) ==
    \A j, k \in n + 1 .. Len(pool) : pool[j] = pool[k] => j = k
DistinctHeld(f) ==
    \A v, w \in Worker :
        f[v].pc # "idle" /\ f[w].pc # "idle" /\ f[v].tx = f[w].tx => v = w

\* A channel holds one transaction more after a send.
LEMMA SendFacts ==
    ASSUME NEW q \in Seq(Tx), NEW tx \in Tx
    PROVE  /\ Append(q, tx) \in Seq(Tx)
           /\ ToSet(Append(q, tx)) = ToSet(q) \cup {tx}
           /\ Distinct(q) /\ tx \notin ToSet(q) => Distinct(Append(q, tx))
<1>1. /\ Append(q, tx) \in Seq(Tx) /\ Len(Append(q, tx)) = Len(q) + 1
      /\ \A k \in 1 .. Len(q) : Append(q, tx)[k] = q[k]
      /\ Append(q, tx)[Len(q) + 1] = tx /\ Len(q) \in Nat
      /\ DOMAIN q = 1 .. Len(q) /\ DOMAIN Append(q, tx) = 1 .. Len(q) + 1
  OBVIOUS
<1>2. ToSet(Append(q, tx)) = ToSet(q) \cup {tx}
  <2>1. ASSUME NEW x \in ToSet(Append(q, tx)) PROVE x \in ToSet(q) \cup {tx}
    <3>1. PICK k \in 1 .. Len(q) + 1 : x = Append(q, tx)[k]
      BY <1>1, <2>1 DEF ToSet
    <3> QED BY <1>1, <3>1 DEF ToSet
  <2>2. ASSUME NEW x \in ToSet(q) PROVE x \in ToSet(Append(q, tx))
    BY <1>1 DEF ToSet
  <2>3. tx \in ToSet(Append(q, tx))
    BY <1>1 DEF ToSet
  <2> QED BY <2>1, <2>2, <2>3
<1>3. Distinct(q) /\ tx \notin ToSet(q) => Distinct(Append(q, tx))
  BY <1>1 DEF Distinct, ToSet
<1> QED BY <1>1, <1>2, <1>3

\* A receive takes the first transaction out of a channel.
LEMMA ReceiveFacts ==
    ASSUME NEW q \in Seq(Tx), q # <<>>
    PROVE  /\ Head(q) \in Tx /\ Tail(q) \in Seq(Tx)
           /\ ToSet(q) = {Head(q)} \cup ToSet(Tail(q))
           /\ Distinct(q) => Distinct(Tail(q)) /\ Head(q) \notin ToSet(Tail(q))
<1>1. /\ Head(q) = q[1] /\ Head(q) \in Tx /\ Tail(q) \in Seq(Tx) /\ Len(q) \in Nat \ {0}
      /\ Len(Tail(q)) = Len(q) - 1
      /\ \A k \in 1 .. Len(q) - 1 : Tail(q)[k] = q[k + 1]
      /\ DOMAIN q = 1 .. Len(q) /\ DOMAIN Tail(q) = 1 .. Len(q) - 1
  OBVIOUS
<1>2. ToSet(q) = {Head(q)} \cup ToSet(Tail(q))
  <2>1. ASSUME NEW x \in ToSet(q) PROVE x \in {Head(q)} \cup ToSet(Tail(q))
    <3>1. PICK k \in 1 .. Len(q) : x = q[k]
      BY <1>1, <2>1 DEF ToSet
    <3>2. k # 1 => k - 1 \in 1 .. Len(q) - 1 /\ Tail(q)[k - 1] = q[k]
      BY <1>1
    <3> QED BY <1>1, <3>1, <3>2 DEF ToSet
  <2>2. ASSUME NEW x \in ToSet(Tail(q)) PROVE x \in ToSet(q)
    <3>1. PICK k \in 1 .. Len(q) - 1 : x = Tail(q)[k]
      BY <1>1, <2>2 DEF ToSet
    <3> QED BY <1>1, <3>1 DEF ToSet
  <2>3. Head(q) \in ToSet(q)
    BY <1>1 DEF ToSet
  <2> QED BY <2>1, <2>2, <2>3
<1>3. Distinct(q) => Distinct(Tail(q)) /\ Head(q) \notin ToSet(Tail(q))
  BY <1>1 DEF Distinct, ToSet
<1> QED BY <1>1, <1>2, <1>3

\* The pool grows at its end.
LEMMA GrowFacts ==
    ASSUME NEW pool \in Seq(Tx), NEW n \in 0 .. Len(pool), NEW tx \in Tx
    PROVE  /\ WaitingFrom(Append(pool, tx), n) = WaitingFrom(pool, n) \cup {tx}
           /\ DistinctFrom(pool, n) /\ tx \notin WaitingFrom(pool, n)
                => DistinctFrom(Append(pool, tx), n)
<1>1. /\ Len(Append(pool, tx)) = Len(pool) + 1
      /\ \A k \in 1 .. Len(pool) : Append(pool, tx)[k] = pool[k]
      /\ Append(pool, tx)[Len(pool) + 1] = tx /\ Len(pool) \in Nat
  OBVIOUS
<1>2. ASSUME NEW x \in WaitingFrom(Append(pool, tx), n)
      PROVE  x \in WaitingFrom(pool, n) \cup {tx}
  BY <1>1, <1>2 DEF WaitingFrom
<1>3. ASSUME NEW x \in WaitingFrom(pool, n) PROVE x \in WaitingFrom(Append(pool, tx), n)
  BY <1>1, <1>3 DEF WaitingFrom
<1>4. tx \in WaitingFrom(Append(pool, tx), n)
  BY <1>1 DEF WaitingFrom
<1>5. DistinctFrom(pool, n) /\ tx \notin WaitingFrom(pool, n)
        => DistinctFrom(Append(pool, tx), n)
  BY <1>1 DEF WaitingFrom, DistinctFrom
<1> QED BY <1>2, <1>3, <1>4, <1>5

\* What UpChain pushes or refuses no longer waits in the pool.
LEMMA AdvanceFacts ==
    ASSUME NEW pool \in Seq(Tx), NEW n \in 0 .. Len(pool), n < Len(pool)
    PROVE  /\ pool[n + 1] \in Tx
           /\ WaitingFrom(pool, n) = WaitingFrom(pool, n + 1) \cup {pool[n + 1]}
           /\ DistinctFrom(pool, n)
                => DistinctFrom(pool, n + 1) /\ pool[n + 1] \notin WaitingFrom(pool, n + 1)
<1>1. /\ Len(pool) \in Nat /\ n + 1 \in 1 .. Len(pool) /\ pool[n + 1] \in Tx
      /\ n + 1 .. Len(pool) = {n + 1} \cup (n + 1 + 1 .. Len(pool))
      /\ n + 1 \notin (n + 1 + 1 .. Len(pool))
  OBVIOUS
<1> QED BY <1>1 DEF WaitingFrom, DistinctFrom

\* An idle worker takes a transaction.
LEMMA TakeFacts ==
    ASSUME NEW f \in [Worker -> WorkerState], NEW w \in Worker, f[w].pc = "idle",
           NEW tx \in Tx
    PROVE  LET g == [f EXCEPT ![w] = Holding("storing", tx)]
           IN  /\ HeldBy(g) = HeldBy(f) \cup {tx}
               /\ DistinctHeld(f) /\ tx \notin HeldBy(f) => DistinctHeld(g)
  BY DEF WorkerState, Holding, IdleWorker, HeldBy, DistinctHeld

\* A busy worker keeps its transaction or gives it away.
LEMMA GiveFacts ==
    ASSUME NEW f \in [Worker -> WorkerState], NEW w \in Worker, f[w].pc # "idle",
           NEW pc \in {"receipt", "push"}
    PROVE  LET g == [f EXCEPT ![w] = IdleWorker]
               h == [f EXCEPT ![w].pc = pc]
           IN  /\ HeldBy(f) = HeldBy(g) \cup {f[w].tx}
               /\ DistinctHeld(f) => DistinctHeld(g) /\ f[w].tx \notin HeldBy(g)
               /\ HeldBy(h) = HeldBy(f)
               /\ DistinctHeld(f) => DistinctHeld(h)
<1> USE DEF WorkerState, Holding, IdleWorker, HeldBy, DistinctHeld
<1> DEFINE g == [f EXCEPT ![w] = IdleWorker]
           h == [f EXCEPT ![w].pc = pc]
<1>1. HeldBy(f) = HeldBy(g) \cup {f[w].tx}
  OBVIOUS
<1>2. DistinctHeld(f) => DistinctHeld(g) /\ f[w].tx \notin HeldBy(g)
  OBVIOUS
<1>3. \A v \in Worker : h[v].tx = f[v].tx /\ (h[v].pc = "idle" <=> f[v].pc = "idle")
  OBVIOUS
<1>4. HeldBy(h) = HeldBy(f) /\ (DistinctHeld(f) => DistinctHeld(h))
  BY <1>3
<1> QED BY <1>1, <1>2, <1>4

-----------------------------------------------------------------------------
(* Type correctness.                                                         *)

LEMMA ChainInitType == ChainInit => ChainTypeOK
<1> SUFFICES ASSUME ChainInit PROVE ChainTypeOK
  OBVIOUS
<1> USE DEF ChainInit, MemoryInit
<1>1. /\ pending \subseteq Tx /\ chain \subseteq Tx /\ handed \subseteq Tx
      /\ dropped \subseteq Tx /\ forgotten \subseteq Tx
  OBVIOUS
<1>2. transactionPool \in Seq(Tx) /\ queue \in Seq(Tx) /\ devTransactions \in Seq(Tx)
  OBVIOUS
<1>3. unprocessedIndex \in 0 .. Len(transactionPool) /\ pushed \in 0 .. unprocessedIndex
  OBVIOUS
<1>4. worker \in [Worker -> WorkerState] /\ delivered \in [Tx -> Nat]
  BY DEF WorkerState
<1>5. oracleWaits \in BOOLEAN
  OBVIOUS
<1> QED BY <1>1, <1>2, <1>3, <1>4, <1>5 DEF ChainTypeOK

\* A worker that is busy holds a transaction.
LEMMA WorkerType ==
    /\ IdleWorker \in WorkerState
    /\ \A tx \in Tx : Holding("storing", tx) \in WorkerState
    /\ \A s \in WorkerState : s.pc # "idle" =>
          /\ s.tx \in Tx
          /\ \A to \in {"receipt", "push"} : [s EXCEPT !.pc = to] \in WorkerState
<1>1. ASSUME NEW tx \in Tx, NEW pc \in {"storing", "receipt", "push"},
             NEW to \in {"receipt", "push"}
      PROVE  /\ Holding(pc, tx) \in WorkerState
             /\ [Holding(pc, tx) EXCEPT !.pc = to] = Holding(to, tx)
             /\ Holding(to, tx) \in WorkerState
             /\ Holding(pc, tx).tx = tx
  <2>1. Holding(pc, tx) \in WorkerState /\ Holding(to, tx) \in WorkerState
    BY DEF WorkerState
  <2>2. [Holding(pc, tx) EXCEPT !.pc = to] = Holding(to, tx)
        /\ Holding(pc, tx).tx = tx
    BY DEF Holding
  <2> QED BY <2>1, <2>2
<1>2. IdleWorker \in WorkerState /\ IdleWorker.pc = "idle"
  BY DEF WorkerState, IdleWorker
<1>3. ASSUME NEW s \in WorkerState, s.pc # "idle"
      PROVE  \E tx \in Tx, pc \in {"storing", "receipt", "push"} : s = Holding(pc, tx)
  BY <1>2, <1>3 DEF WorkerState
<1>4. ASSUME NEW s \in WorkerState, s.pc # "idle"
      PROVE  /\ s.tx \in Tx
             /\ \A to \in {"receipt", "push"} : [s EXCEPT !.pc = to] \in WorkerState
  <2>1. PICK tx \in Tx, pc \in {"storing", "receipt", "push"} : s = Holding(pc, tx)
    BY <1>3, <1>4
  <2> QED BY <1>1, <2>1
<1>5. ASSUME NEW tx \in Tx PROVE Holding("storing", tx) \in WorkerState
  BY DEF WorkerState
<1> QED BY <1>2, <1>4, <1>5

\* What is on its way is a transaction.
LEMMA OnItsWayType == ChainTypeOK => OnItsWay \subseteq Tx
<1> SUFFICES ASSUME ChainTypeOK PROVE OnItsWay \subseteq Tx
  OBVIOUS
<1>1. pending \subseteq Tx /\ InPool \subseteq Tx
  BY DEF ChainTypeOK, InPool
<1>2. ToSet(queue) \subseteq Tx /\ ToSet(devTransactions) \subseteq Tx
  BY DEF ChainTypeOK, ToSet
<1>3. {worker[w].tx : w \in {v \in Worker : worker[v].pc # "idle"}} \subseteq Tx
  BY WorkerType DEF ChainTypeOK
<1> QED BY <1>1, <1>2, <1>3 DEF OnItsWay

LEMMA ChainTypeKept == ChainTypeOK /\ [ChainNext]_chainVars => ChainTypeOK'
<1> SUFFICES ASSUME ChainTypeOK, [ChainNext]_chainVars PROVE ChainTypeOK'
  OBVIOUS
<1> USE DEF ChainTypeOK, history
<1>0. \A v \in Worker : worker[v].pc # "idle" => worker[v].tx \in Tx
  BY WorkerType
<1>1. ASSUME NEW tx \in Tx, Submit(tx) PROVE ChainTypeOK'
  BY <1>1 DEF Submit, HandOver
<1>2. ASSUME NEW tx \in Tx, Receive(tx) PROVE ChainTypeOK'
  <2>1. Append(transactionPool, tx) \in Seq(Tx)
        /\ Len(Append(transactionPool, tx)) = Len(transactionPool) + 1
        /\ Len(transactionPool) \in Nat
    OBVIOUS
  <2> QED BY <1>2, <2>1 DEF Receive
<1>3. CASE Pack
  BY <1>3 DEF Pack, CutPack
<1>4. CASE Push
  <2>1. NextInPack \in Tx
    BY <1>4 DEF Push, NextInPack
  <2> QED BY <1>4, <2>1 DEF Push
<1>5. CASE Refuse
  <2>1. NextInPack \in Tx
    BY <1>5 DEF Refuse, NextInPack
  <2> QED BY <1>5, <2>1 DEF Refuse
<1>6. ASSUME NEW w \in Worker, Fetch(w) PROVE ChainTypeOK'
  <2>1. Head(queue) \in Tx /\ Tail(queue) \in Seq(Tx)
    BY <1>6 DEF Fetch
  <2> QED BY <1>6, <2>1, WorkerType DEF Fetch
<1>7. ASSUME NEW w \in Worker, Store(w) PROVE ChainTypeOK'
  BY <1>7, WorkerType DEF Store
<1>8. ASSUME NEW w \in Worker, StoreFails(w) PROVE ChainTypeOK'
  BY <1>8, WorkerType DEF StoreFails
<1>9. ASSUME NEW w \in Worker, ReceiptFails(w) PROVE ChainTypeOK'
  BY <1>9, WorkerType DEF ReceiptFails
<1>14. ASSUME NEW w \in Worker, GetReceipt(w) PROVE ChainTypeOK'
  BY <1>14, WorkerType DEF GetReceipt
<1>15. CASE OracleGoesOn
  BY <1>15 DEF OracleGoesOn
<1>10. ASSUME NEW w \in Worker, DevPush(w) PROVE ChainTypeOK'
  <2>1. Append(devTransactions, worker[w].tx) \in Seq(Tx)
    BY <1>0, <1>10 DEF DevPush
  <2> QED BY <1>10, <2>1, WorkerType DEF DevPush
<1>11. CASE Deliver
  <2>1. Head(devTransactions) \in Tx /\ Tail(devTransactions) \in Seq(Tx)
    BY <1>11 DEF Deliver
  <2> QED BY <1>11, <2>1 DEF Deliver
<1>12. CASE Forget
  <2>1. OnItsWay \subseteq Tx /\ <<>> \in Seq(Tx) /\ Len(<<>>) = 0
    BY OnItsWayType
  <2>2. [w \in Worker |-> IdleWorker] \in [Worker -> WorkerState]
    BY WorkerType
  <2>3. forgotten' \subseteq Tx /\ worker' \in [Worker -> WorkerState]
    BY <1>12, <2>1, <2>2 DEF Forget
  <2>4. transactionPool' \in Seq(Tx) /\ queue' \in Seq(Tx) /\ devTransactions' \in Seq(Tx)
    BY <1>12, <2>1 DEF Forget
  <2>5. unprocessedIndex' \in 0 .. Len(transactionPool') /\ pushed' \in 0 .. unprocessedIndex'
    BY <1>12, <2>1 DEF Forget
  <2> QED BY <1>12, <2>3, <2>4, <2>5 DEF Forget
<1>13. CASE UNCHANGED chainVars
  BY <1>13 DEF chainVars, memory
<1> QED
  BY <1>1, <1>2, <1>3, <1>4, <1>5, <1>6, <1>7, <1>8, <1>9, <1>10, <1>11, <1>12, <1>13,
     <1>14, <1>15
     DEF ChainNext, UpChainStep, WorkerStep, BlockHashFails

\* The chain upper of any size keeps to its types; that no more is pushed than
\* was packed, and no more packed than received, is part of it.
THEOREM ChainTypeCorrect == ChainSpec => []ChainTypeOK
<1>1. ChainInit => ChainTypeOK
  BY ChainInitType
<1>2. ChainTypeOK /\ [ChainNext]_chainVars => ChainTypeOK'
  BY ChainTypeKept
<1> QED BY <1>1, <1>2, PTL DEF ChainSpec

-----------------------------------------------------------------------------
(* What a step does to the transactions on their way.                        *)

Pool == WaitingFrom(transactionPool, pushed)
Queued == ToSet(queue)
Held == HeldBy(worker)
Stored == ToSet(devTransactions)
Arrived == {tx \in Tx : delivered[tx] > 0}

LEMMA OnItsWayParts == OnItsWay = pending \cup Pool \cup Queued \cup Held \cup Stored
  BY DEF OnItsWay, InPool, Pool, WaitingFrom, Queued, Held, HeldBy, Stored

\* No transaction is at two places, or twice at one, and every one was handed over.
OnePlaceEach ==
    /\ pending \cap (Pool \cup Queued \cup Held \cup Stored \cup Arrived) = {}
    /\ Pool \cap (Queued \cup Held \cup Stored \cup Arrived) = {}
    /\ Queued \cap (Held \cup Stored \cup Arrived) = {}
    /\ Held \cap (Stored \cup Arrived) = {}
    /\ Stored \cap Arrived = {}
OnceEach ==
    /\ DistinctFrom(transactionPool, pushed)
    /\ Distinct(queue) /\ Distinct(devTransactions) /\ DistinctHeld(worker)
InOnePlace ==
    /\ OnePlaceEach /\ OnceEach
    /\ OnItsWay \cup Arrived \subseteq handed

Enters(tx) ==
    /\ tx \in Tx \ handed /\ handed' = handed \cup {tx}
    /\ OnItsWay' = OnItsWay \cup {tx}
    /\ UNCHANGED <<delivered, dropped, forgotten>>
Stays == OnItsWay' = OnItsWay /\ UNCHANGED <<handed, delivered, dropped, forgotten>>
Leaves(tx) == tx \in OnItsWay /\ OnItsWay = OnItsWay' \cup {tx}
IsGivenUp(tx) ==
    /\ Leaves(tx) /\ dropped' = dropped \cup {tx}
    /\ UNCHANGED <<handed, delivered, forgotten>>
Arrives(tx) ==
    /\ Leaves(tx) /\ delivered' = [delivered EXCEPT ![tx] = @ + 1]
    /\ UNCHANGED <<handed, dropped, forgotten>>
AreForgotten ==
    /\ OnItsWay' = {} /\ forgotten' = forgotten \cup OnItsWay
    /\ UNCHANGED <<handed, delivered, dropped>>

\* A step of any goroutine moves at most one transaction, by one place; only a
\* crash moves more.
MovesRight ==
    /\ \/ Stays
       \/ \E tx \in Tx : Enters(tx) \/ IsGivenUp(tx) \/ Arrives(tx)
       \/ AreForgotten
    /\ InOnePlace => InOnePlace'

\* Where no place changes and nothing is handed over, nothing moves.
LEMMA NothingMoves ==
    ASSUME UNCHANGED <<pending, transactionPool, pushed, queue, worker, devTransactions,
                       handed, delivered, dropped, forgotten>>
    PROVE  MovesRight
<1>1. UNCHANGED <<Pool, Queued, Held, Stored, Arrived, OnItsWay>>
  BY DEF Pool, Queued, Held, Stored, Arrived, OnItsWay, InPool
<1>2. InOnePlace => InOnePlace'
  BY <1>1 DEF InOnePlace, OnePlaceEach, OnceEach
<1> QED BY <1>1, <1>2 DEF MovesRight, Stays

LEMMA EveryStepMovesRight == ChainTypeOK /\ [ChainNext]_chainVars => MovesRight
<1> SUFFICES ASSUME ChainTypeOK, [ChainNext]_chainVars PROVE MovesRight
  OBVIOUS
<1> USE DEF history
<1>p. OnItsWay = pending \cup Pool \cup Queued \cup Held \cup Stored
  BY OnItsWayParts
<1>q. OnItsWay' = pending' \cup Pool' \cup Queued' \cup Held' \cup Stored'
  BY DEF OnItsWay, InPool, Pool, WaitingFrom, Queued, Held, HeldBy, Stored
<1>t. /\ transactionPool \in Seq(Tx) /\ queue \in Seq(Tx) /\ devTransactions \in Seq(Tx)
      /\ unprocessedIndex \in 0 .. Len(transactionPool) /\ pushed \in 0 .. unprocessedIndex
      /\ pushed \in 0 .. Len(transactionPool) /\ Len(transactionPool) \in Nat
      /\ worker \in [Worker -> WorkerState] /\ delivered \in [Tx -> Nat]
      /\ pending \subseteq Tx
  BY DEF ChainTypeOK
<1>h. \A v \in Worker : worker[v].pc # "idle" => worker[v].tx \in Tx
  BY <1>t, WorkerType
<1>1. ASSUME NEW tx \in Tx, Submit(tx) PROVE MovesRight
  <2>1. /\ tx \notin handed /\ pending' = pending \cup {tx} /\ handed' = handed \cup {tx}
        /\ UNCHANGED <<Pool, Queued, Held, Stored, Arrived, delivered, dropped, forgotten>>
        /\ OnceEach => OnceEach'
    BY <1>1 DEF Submit, HandOver, Pool, Queued, Held, Stored, Arrived, OnceEach
  <2>2. Enters(tx)
    BY <1>p, <1>q, <2>1 DEF Enters
  <2>3. InOnePlace => InOnePlace'
    BY <1>p, <1>q, <2>1 DEF InOnePlace, OnePlaceEach
  <2> QED BY <2>2, <2>3 DEF MovesRight
<1>2. ASSUME NEW tx \in Tx, Receive(tx) PROVE MovesRight
  <2>1. /\ tx \in pending /\ pending' = pending \ {tx} /\ Pool' = Pool \cup {tx}
        /\ UNCHANGED <<Queued, Held, Stored, Arrived, handed, delivered, dropped, forgotten>>
    BY <1>2, <1>t, GrowFacts DEF Receive, Pool, Queued, Held, Stored, Arrived
  <2>2. Stays
    BY <1>p, <1>q, <2>1 DEF Stays
  <2>3. OnceEach /\ tx \notin Pool => OnceEach'
    BY <1>2, <1>t, GrowFacts DEF Receive, Pool, OnceEach
  <2>4. InOnePlace => InOnePlace'
    BY <1>p, <1>q, <2>1, <2>2, <2>3 DEF InOnePlace, OnePlaceEach, Stays
  <2> QED BY <2>2, <2>4 DEF MovesRight
<1>3. CASE Pack
  <2>1. pushed' = pushed
    BY <1>3 DEF Pack, CutPack
  <2> QED BY <1>3, <2>1, NothingMoves DEF Pack
<1>4. CASE Push
  <2>0. pushed < Len(transactionPool)
    BY <1>4, <1>t DEF Push
  <2>1. /\ NextInPack \in Tx /\ Pool = Pool' \cup {NextInPack}
        /\ DistinctFrom(transactionPool, pushed) =>
              DistinctFrom(transactionPool', pushed') /\ NextInPack \notin Pool'
    BY <1>4, <1>t, <2>0, AdvanceFacts DEF Push, NextInPack, Pool
  <2>2. /\ Queued' = Queued \cup {NextInPack}
        /\ Distinct(queue) /\ NextInPack \notin Queued => Distinct(queue')
    BY <1>4, <1>t, <2>1, SendFacts DEF Push, Queued
  <2>3. UNCHANGED <<pending, Held, Stored, Arrived, handed, delivered, dropped, forgotten>>
    BY <1>4 DEF Push, Held, Stored, Arrived
  <2>4. Stays
    BY <1>p, <1>q, <2>1, <2>2, <2>3 DEF Stays
  <2>5. OnceEach /\ NextInPack \notin Queued => OnceEach'
    BY <1>4, <2>1, <2>2 DEF Push, OnceEach
  <2>6. InOnePlace => InOnePlace'
    <3> SUFFICES ASSUME InOnePlace PROVE InOnePlace'
      OBVIOUS
    <3>1. NextInPack \notin Queued /\ NextInPack \notin Pool'
      BY <2>1 DEF InOnePlace, OnePlaceEach, OnceEach
    <3>2. OnePlaceEach'
      BY <2>1, <2>2, <2>3, <3>1 DEF InOnePlace, OnePlaceEach
    <3> QED BY <2>3, <2>4, <2>5, <3>1, <3>2 DEF InOnePlace, Stays
  <2> QED BY <2>4, <2>6 DEF MovesRight
<1>5. CASE Refuse
  <2>0. pushed < Len(transactionPool)
    BY <1>5, <1>t DEF Refuse
  <2>1. /\ NextInPack \in Tx /\ Pool = Pool' \cup {NextInPack}
        /\ DistinctFrom(transactionPool, pushed) => DistinctFrom(transactionPool', pushed')
    BY <1>5, <1>t, <2>0, AdvanceFacts DEF Refuse, NextInPack, Pool
  <2>2. /\ UNCHANGED <<pending, Queued, Held, Stored, Arrived, handed, delivered, forgotten>>
        /\ dropped' = dropped \cup {NextInPack}
    BY <1>5 DEF Refuse, Queued, Held, Stored, Arrived
  <2>3. OnceEach => OnceEach'
    BY <1>5, <2>1 DEF Refuse, OnceEach
  <2>4. InOnePlace => InOnePlace'
    BY <1>p, <1>q, <2>1, <2>2, <2>3 DEF InOnePlace, OnePlaceEach
  <2>5. IsGivenUp(NextInPack)
    BY <1>p, <1>q, <2>1, <2>2 DEF IsGivenUp, Leaves
  <2> QED BY <2>1, <2>4, <2>5 DEF MovesRight
<1>6. ASSUME NEW w \in Worker, Fetch(w) PROVE MovesRight
  <2> DEFINE m == Head(queue)
  <2>1. /\ m \in Tx /\ Queued = {m} \cup Queued'
        /\ Distinct(queue) => Distinct(queue') /\ m \notin Queued'
    BY <1>6, <1>t, ReceiveFacts DEF Fetch, Queued
  <2>2. /\ Held' = Held \cup {m}
        /\ DistinctHeld(worker) /\ m \notin Held => DistinctHeld(worker')
    <3>1. worker[w].pc = "idle" /\ worker' = [worker EXCEPT ![w] = Holding("storing", m)]
      BY <1>6 DEF Fetch
    <3> QED BY <1>t, <2>1, <3>1, TakeFacts DEF Held
  <2>3. UNCHANGED <<pending, Pool, Stored, Arrived, handed, delivered, dropped, forgotten>>
    BY <1>6 DEF Fetch, Pool, Stored, Arrived
  <2>4. Stays
    BY <1>p, <1>q, <2>1, <2>2, <2>3 DEF Stays
  <2>5. OnceEach /\ m \notin Held => OnceEach'
    BY <1>6, <2>1, <2>2 DEF Fetch, OnceEach
  <2>6. InOnePlace => InOnePlace'
    <3> SUFFICES ASSUME InOnePlace PROVE InOnePlace'
      OBVIOUS
    <3>1. m \notin Held /\ m \notin Queued'
      BY <2>1 DEF InOnePlace, OnePlaceEach, OnceEach
    <3>2. OnePlaceEach'
      BY <2>1, <2>2, <2>3, <3>1 DEF InOnePlace, OnePlaceEach
    <3> QED BY <2>3, <2>4, <2>5, <3>1, <3>2 DEF InOnePlace, Stays
  <2> QED BY <2>4, <2>6 DEF MovesRight
<1>7. ASSUME NEW w \in Worker, Store(w) \/ GetReceipt(w) PROVE MovesRight
  <2>1. worker[w].pc # "idle" /\ worker[w].tx \in Tx
    BY <1>7, <1>h DEF Store, GetReceipt
  <2>7. PICK pc \in {"receipt", "push"} : worker' = [worker EXCEPT ![w].pc = pc]
    BY <1>7 DEF Store, GetReceipt
  <2>2. Held' = Held /\ (DistinctHeld(worker) => DistinctHeld(worker'))
    <3>1. /\ HeldBy([worker EXCEPT ![w].pc = pc]) = HeldBy(worker)
          /\ DistinctHeld(worker) => DistinctHeld([worker EXCEPT ![w].pc = pc])
      BY <1>t, <2>1, GiveFacts
    <3> QED BY <2>7, <3>1 DEF Held
  <2>8. UNCHANGED <<pending, transactionPool, pushed, queue, devTransactions, handed,
                    delivered, dropped, forgotten>>
    BY <1>7 DEF Store, GetReceipt
  <2>3. UNCHANGED <<pending, Pool, Queued, Stored, Arrived, handed, delivered, dropped,
                    forgotten>>
    BY <2>8 DEF Pool, Queued, Stored, Arrived
  <2>4. OnceEach => OnceEach'
    BY <2>2, <2>8 DEF OnceEach
  <2>5. Stays
    BY <1>p, <1>q, <2>2, <2>3 DEF Stays
  <2>6. InOnePlace => InOnePlace'
    BY <2>2, <2>3, <2>4, <2>5 DEF InOnePlace, OnePlaceEach, Stays
  <2> QED BY <2>5, <2>6 DEF MovesRight
<1>8. ASSUME NEW w \in Worker, StoreFails(w) \/ ReceiptFails(w) PROVE MovesRight
  <2> DEFINE m == worker[w].tx
  <2>1. /\ worker[w].pc # "idle" /\ m \in Tx /\ worker' = [worker EXCEPT ![w] = IdleWorker]
        /\ dropped' = dropped \cup {m}
        /\ UNCHANGED <<pending, transactionPool, pushed, queue, devTransactions, handed,
                       delivered, forgotten>>
    BY <1>8, <1>h DEF StoreFails, ReceiptFails
  <2>2. /\ Held = Held' \cup {m}
        /\ DistinctHeld(worker) => DistinctHeld(worker')
    BY <1>t, <2>1, GiveFacts DEF Held
  <2>3. UNCHANGED <<pending, Pool, Queued, Stored, Arrived>>
    BY <2>1 DEF Pool, Queued, Stored, Arrived
  <2>4. IsGivenUp(m)
    BY <1>p, <1>q, <2>1, <2>2, <2>3 DEF IsGivenUp, Leaves
  <2>5. OnceEach => OnceEach'
    BY <2>1, <2>2 DEF OnceEach
  <2>6. InOnePlace => InOnePlace'
    BY <1>p, <1>q, <2>1, <2>2, <2>3, <2>5 DEF InOnePlace, OnePlaceEach
  <2> QED BY <2>1, <2>4, <2>6 DEF MovesRight
<1>9. ASSUME NEW w \in Worker, DevPush(w) PROVE MovesRight
  <2> DEFINE m == worker[w].tx
  <2>1. worker[w].pc # "idle" /\ m \in Tx
    BY <1>9, <1>h DEF DevPush
  <2>2. /\ Held = Held' \cup {m}
        /\ DistinctHeld(worker) => DistinctHeld(worker') /\ m \notin Held'
    BY <1>9, <1>t, <2>1, GiveFacts DEF DevPush, Held
  <2>3. /\ Stored' = Stored \cup {m}
        /\ Distinct(devTransactions) /\ m \notin Stored => Distinct(devTransactions')
    BY <1>9, <1>t, <2>1, SendFacts DEF DevPush, Stored
  <2>4. UNCHANGED <<pending, Pool, Queued, Arrived, handed, delivered, dropped, forgotten>>
    BY <1>9 DEF DevPush, Pool, Queued, Arrived
  <2>5. Stays
    BY <1>p, <1>q, <2>2, <2>3, <2>4 DEF Stays
  <2>6. OnceEach /\ m \notin Stored => OnceEach'
    BY <1>9, <2>2, <2>3 DEF DevPush, OnceEach
  <2>7. InOnePlace => InOnePlace'
    <3> SUFFICES ASSUME InOnePlace PROVE InOnePlace'
      OBVIOUS
    <3>1. m \notin Stored /\ m \notin Held'
      BY <2>2 DEF InOnePlace, OnePlaceEach, OnceEach
    <3>2. OnePlaceEach'
      BY <2>2, <2>3, <2>4, <3>1 DEF InOnePlace, OnePlaceEach
    <3> QED BY <2>4, <2>5, <2>6, <3>1, <3>2 DEF InOnePlace, Stays
  <2> QED BY <2>5, <2>7 DEF MovesRight
<1>10. CASE Deliver
  <2> DEFINE m == Head(devTransactions)
  <2>1. /\ m \in Tx /\ Stored = {m} \cup Stored'
        /\ Distinct(devTransactions) => Distinct(devTransactions') /\ m \notin Stored'
    BY <1>10, <1>t, ReceiveFacts DEF Deliver, Stored
  <2>2. Arrived' = Arrived \cup {m}
    BY <1>10, <1>t, <2>1 DEF Deliver, Arrived
  <2>3. UNCHANGED <<pending, Pool, Queued, Held, handed, dropped, forgotten>>
    BY <1>10 DEF Deliver, Pool, Queued, Held
  <2>4. Arrives(m)
    BY <1>10, <1>p, <1>q, <2>1, <2>3 DEF Deliver, Arrives, Leaves
  <2>5. OnceEach => OnceEach'
    BY <1>10, <2>1 DEF Deliver, OnceEach
  <2>6. InOnePlace => InOnePlace'
    <3> SUFFICES ASSUME InOnePlace PROVE InOnePlace'
      OBVIOUS
    <3>1. m \notin Stored'
      BY <2>1 DEF InOnePlace, OnceEach
    <3>2. OnePlaceEach'
      BY <2>1, <2>2, <2>3, <3>1 DEF InOnePlace, OnePlaceEach
    <3> QED BY <1>p, <1>q, <2>1, <2>2, <2>3, <2>5, <3>2 DEF InOnePlace
  <2> QED BY <2>1, <2>4, <2>6 DEF MovesRight
<1>11. CASE Forget
  <2>1. /\ pending' = {} /\ transactionPool' = <<>> /\ pushed' = 0 /\ queue' = <<>>
        /\ devTransactions' = <<>> /\ worker' = [w \in Worker |-> IdleWorker]
        /\ forgotten' = forgotten \cup OnItsWay
        /\ UNCHANGED <<handed, delivered, dropped, Arrived>>
    BY <1>11 DEF Forget, Arrived
  <2>2. Pool' = {} /\ Queued' = {} /\ Stored' = {}
    BY <2>1 DEF Pool, WaitingFrom, Queued, Stored, ToSet
  <2>3. Held' = {} /\ DistinctHeld(worker')
    BY <2>1 DEF Held, HeldBy, DistinctHeld, IdleWorker
  <2>4. OnceEach'
    BY <2>1, <2>3 DEF OnceEach, Distinct, DistinctFrom
  <2>5. AreForgotten
    BY <1>q, <2>1, <2>2, <2>3 DEF AreForgotten
  <2>6. InOnePlace => InOnePlace'
    BY <2>1, <2>2, <2>3, <2>4, <2>5 DEF InOnePlace, OnePlaceEach, AreForgotten
  <2> QED BY <2>5, <2>6 DEF MovesRight
<1>12. CASE UNCHANGED chainVars
  BY <1>12, NothingMoves DEF chainVars, memory
<1>13. CASE OracleGoesOn
  BY <1>13, NothingMoves DEF OracleGoesOn
<1> QED
  BY <1>1, <1>2, <1>3, <1>4, <1>5, <1>6, <1>7, <1>8, <1>9, <1>10, <1>11, <1>12, <1>13
     DEF ChainNext, UpChainStep, WorkerStep, BlockHashFails

-----------------------------------------------------------------------------
(* The theorems about losses and about delivery.                             *)

\* Whatever the goroutines do, a transaction that is neither on its way nor
\* delivered was refused, met an error, or was in memory at a crash.
THEOREM LossesAreFaults == ChainSpec => []LostOnlyByFault
<1>1. ChainInit => LostOnlyByFault
  BY DEF ChainInit, LostOnlyByFault, Lost
<1>2. ChainTypeOK /\ LostOnlyByFault /\ [ChainNext]_chainVars => LostOnlyByFault'
  <2> SUFFICES ASSUME ChainTypeOK, LostOnlyByFault, MovesRight PROVE LostOnlyByFault'
    BY EveryStepMovesRight
  <2>1. delivered \in [Tx -> Nat] /\ OnItsWay \subseteq Tx
    BY OnItsWayType DEF ChainTypeOK
  <2>2. CASE Stays
    BY <2>2 DEF LostOnlyByFault, Lost, Stays
  <2>3. ASSUME NEW tx \in Tx, Enters(tx) PROVE LostOnlyByFault'
    BY <2>3 DEF LostOnlyByFault, Lost, Enters
  <2>4. ASSUME NEW tx \in Tx, IsGivenUp(tx) PROVE LostOnlyByFault'
    BY <2>4 DEF LostOnlyByFault, Lost, IsGivenUp, Leaves
  <2>5. ASSUME NEW tx \in Tx, Arrives(tx) PROVE LostOnlyByFault'
    <3>1. delivered'[tx] # 0 /\ \A x \in Tx \ {tx} : delivered'[x] = delivered[x]
      BY <2>1, <2>5 DEF Arrives
    <3>2. Lost' \subseteq Lost
      <4> SUFFICES ASSUME NEW x \in Lost' PROVE x \in Lost
        OBVIOUS
      <4>1. x \in handed /\ x \notin OnItsWay' /\ delivered'[x] = 0 /\ x # tx
        BY <2>5, <3>1 DEF Lost, Arrives
      <4>2. x \notin OnItsWay
        BY <2>5, <4>1 DEF Arrives, Leaves
      <4>3. delivered[x] = 0
        BY <2>1, <2>5, <4>1 DEF Arrives
      <4> QED BY <4>1, <4>2, <4>3 DEF Lost
    <3> QED BY <2>5, <3>2 DEF LostOnlyByFault, Arrives
  <2>6. CASE AreForgotten
    BY <2>6 DEF LostOnlyByFault, Lost, AreForgotten
  <2> QED BY <2>2, <2>3, <2>4, <2>5, <2>6 DEF MovesRight
<1> QED BY <1>1, <1>2, ChainTypeCorrect, PTL DEF ChainSpec

LEMMA InitInOnePlace == ChainInit => InOnePlace
<1> SUFFICES ASSUME ChainInit PROVE InOnePlace
  OBVIOUS
<1> USE DEF ChainInit, MemoryInit
<1>1. pending = {} /\ Pool = {} /\ Queued = {} /\ Stored = {} /\ Arrived = {}
  BY DEF Pool, WaitingFrom, Queued, Stored, ToSet, Arrived
<1>2. Held = {} /\ DistinctHeld(worker)
  BY DEF Held, HeldBy, DistinctHeld, IdleWorker
<1>3. OnceEach
  BY <1>2 DEF OnceEach, Distinct, DistinctFrom
<1> QED BY <1>1, <1>2, <1>3, OnItsWayParts DEF InOnePlace, OnePlaceEach

\* A step of the chain upper is a step of the promise or leaves it alone.
LEMMA StepDelivers ==
    ChainTypeOK /\ InOnePlace /\ MovesRight => [Delivery!Next]_Delivery!delivery
<1> SUFFICES ASSUME ChainTypeOK, InOnePlace, MovesRight
             PROVE  [Delivery!Next]_Delivery!delivery
  OBVIOUS
<1> USE DEF Delivery!Next, Delivery!delivery
<1>1. delivered \in [Tx -> Nat] /\ OnItsWay \subseteq Tx /\ OnItsWay \subseteq handed
  BY OnItsWayType DEF ChainTypeOK, InOnePlace
<1>2. OnItsWay \cap Arrived = {}
  BY OnItsWayParts DEF InOnePlace, OnePlaceEach
<1>3. \A x \in OnItsWay : x \in Delivery!Waiting /\ delivered[x] = 0
  BY <1>1, <1>2 DEF Arrived, Delivery!Waiting, Lost
<1>4. CASE Stays
  <2>1. UNCHANGED <<handed, delivered, Lost>>
    BY <1>4 DEF Stays, Lost
  <2> QED BY <2>1
<1>5. ASSUME NEW tx \in Tx, Enters(tx) PROVE Delivery!Hand(tx)
  <2>1. UNCHANGED Lost
    BY <1>5 DEF Enters, Lost
  <2> QED BY <1>5, <2>1 DEF Enters, Delivery!Hand
<1>6. ASSUME NEW tx \in Tx, IsGivenUp(tx)
      PROVE  Delivery!Lose({tx}) \/ UNCHANGED Delivery!delivery
  <2>1. tx \in Delivery!Waiting /\ delivered[tx] = 0
    BY <1>3, <1>6 DEF IsGivenUp, Leaves
  <2>2. tx \in OnItsWay' => Lost' = Lost
    BY <1>6 DEF IsGivenUp, Leaves, Lost
  <2>3. tx \notin OnItsWay' => Lost' = Lost \cup {tx}
    BY <1>1, <1>6, <2>1 DEF IsGivenUp, Leaves, Lost
  <2> QED BY <1>6, <2>1, <2>2, <2>3 DEF IsGivenUp, Delivery!Lose
<1>7. ASSUME NEW tx \in Tx, Arrives(tx) PROVE Delivery!Deliver(tx)
  <2>1. tx \in Delivery!Waiting /\ delivered[tx] = 0
    BY <1>3, <1>7 DEF Arrives, Leaves
  <2>2. delivered' = [delivered EXCEPT ![tx] = 1]
    BY <1>1, <1>7, <2>1 DEF Arrives
  <2>3. \A x \in handed : x \in Lost' <=> x \in Lost
    <3> SUFFICES ASSUME NEW x \in handed PROVE x \in Lost' <=> x \in Lost
      OBVIOUS
    <3>1. CASE x = tx
      BY <1>1, <1>7, <2>2, <3>1 DEF Lost, Arrives, Leaves
    <3>2. CASE x # tx
      <4>1. delivered'[x] = delivered[x] /\ (x \in OnItsWay' <=> x \in OnItsWay)
        BY <1>1, <1>7, <2>2, <3>2 DEF Arrives, Leaves
      <4> QED BY <1>7, <4>1 DEF Lost, Arrives
    <3> QED BY <3>1, <3>2
  <2>4. Lost' = Lost
    BY <1>7, <2>3 DEF Lost, Arrives
  <2> QED BY <1>7, <2>1, <2>2, <2>4 DEF Arrives, Delivery!Deliver
<1>8. CASE AreForgotten
  <2>1. Lost' = Lost \cup Delivery!Waiting
    <3>1. Lost' = {tx \in handed : delivered[tx] = 0}
      BY <1>8 DEF AreForgotten, Lost
    <3> QED BY <3>1 DEF Lost, Delivery!Waiting
  <2>2. Delivery!Lose(Delivery!Waiting)
    BY <1>8, <2>1 DEF AreForgotten, Delivery!Lose
  <2> QED BY <2>2
<1> QED BY <1>4, <1>5, <1>6, <1>7, <1>8 DEF MovesRight

\* The chain upper keeps the promise that TransactionDelivery states: each
\* transaction reaches the Oracle at most once and never after it was lost.
THEOREM DeliveryImplemented == ChainSpec => DeliversAtMostOnce
<1>1. ChainInit => Delivery!Init
  <2>1. ChainInit => Lost = {}
    BY DEF ChainInit, Lost
  <2> QED BY <2>1 DEF ChainInit, Delivery!Init
<1>2. ChainTypeOK /\ InOnePlace /\ [ChainNext]_chainVars => InOnePlace'
  BY EveryStepMovesRight DEF MovesRight
<1>3. ChainTypeOK /\ InOnePlace /\ [ChainNext]_chainVars
        => [Delivery!Next]_Delivery!delivery
  BY EveryStepMovesRight, StepDelivers
<1>4. ChainSpec => []InOnePlace
  BY <1>2, InitInOnePlace, ChainTypeCorrect, PTL DEF ChainSpec
<1> QED BY <1>1, <1>3, <1>4, ChainTypeCorrect, PTL
        DEF ChainSpec, DeliversAtMostOnce, Delivery!Spec


-----------------------------------------------------------------------------
(* The connection pool.                                                     *)

BetweenTheLocks(c, n) == caller[c].pc \in {"evict", "dial"} /\ caller[c].node = n

\* A goroutine that has a connection in hand has one dialled for the node it is
\* calling.
HandIsSound ==
    \A c \in Caller :
        /\ caller[c].pc # "out" => caller[c].node \in Peer
        /\ caller[c].pc \in {"evict", "use"} =>
               /\ caller[c].conn \in Conn /\ owner[caller[c].conn] = caller[c].node
               /\ connState[caller[c].conn] # "new"

\* Between the locks of a call that no other one raced, the pool stays as the
\* call found it.
PoolAsFound ==
    \A c \in Caller, n \in Peer \ raced :
        BetweenTheLocks(c, n) =>
            /\ caller[c].conn = connPool[n]
            /\ caller[c].pc = "dial" => connPool[n] = NoConn
            /\ \A d \in Caller : BetweenTheLocks(d, n) => d = c

PoolInv == ConnectionTypeOK /\ HandIsSound /\ PoolAsFound /\ PoolIsSound

LEMMA PoolInit == ConnectionInit => PoolInv
  BY ConnectionAssumption
     DEF ConnectionInit, PoolInv, ConnectionTypeOK, HandIsSound, PoolAsFound, PoolIsSound,
         BetweenTheLocks, Elsewhere, Open

LEMMA PoolKept == PoolInv /\ [ConnectionNext]_connectionVars => PoolInv'
<1> SUFFICES ASSUME PoolInv, [ConnectionNext]_connectionVars PROVE PoolInv'
  OBVIOUS
<1> USE ConnectionAssumption DEF PoolInv
<1>1. ASSUME NEW k \in Conn, NetworkChange(k) PROVE PoolInv'
  <2>1. Open' = Open /\ UNCHANGED <<connPool, owner, caller, raced>>
    BY <1>1 DEF NetworkChange, Open, ConnectionTypeOK
  <2>2. ConnectionTypeOK'
    BY <1>1 DEF NetworkChange, ConnectionTypeOK
  <2>3. \A j \in Conn : connState'[j] = "new" => connState[j] = "new"
    BY <1>1 DEF NetworkChange, ConnectionTypeOK
  <2>4. HandIsSound' /\ PoolAsFound'
    BY <2>1, <2>3 DEF HandIsSound, PoolAsFound, BetweenTheLocks
  <2>5. PoolIsSound'
    BY <2>1 DEF PoolIsSound
  <2> QED BY <2>2, <2>4, <2>5
<1>2. ASSUME NEW c \in Caller, NEW n \in Peer, LookUp(c, n) PROVE PoolInv'
  <2> USE <1>2 DEF LookUp
  <2>1. PICK pc \in {"dial", "use", "evict"} :
            /\ caller' = [caller EXCEPT ![c] = [pc |-> pc, node |-> n,
                                                conn |-> connPool[n]]]
            /\ pc = "dial" <=> connPool[n] = NoConn
            /\ raced' = IF pc # "use" /\ BetweenLocks(n) # {} THEN raced \cup {n} ELSE raced
    OBVIOUS
  <2>2. caller[c].pc = "out" /\ UNCHANGED <<connPool, connState, owner>> /\ raced \subseteq raced'
    BY <2>1 DEF Elsewhere
  <2>3. ConnectionTypeOK'
    BY <2>1, <2>2 DEF ConnectionTypeOK
  <2>4. HandIsSound'
    BY <2>1, <2>2 DEF HandIsSound, PoolIsSound, ConnectionTypeOK, Open
  <2>5. PoolAsFound'
    <3> SUFFICES ASSUME NEW d \in Caller, NEW m \in Peer \ raced', BetweenTheLocks(d, m)'
                 PROVE  /\ caller'[d].conn = connPool'[m]
                        /\ caller'[d].pc = "dial" => connPool'[m] = NoConn
                        /\ \A e \in Caller : BetweenTheLocks(e, m)' => e = d
      BY DEF PoolAsFound
    <3>0. m \notin raced /\ \A e \in Caller \ {c} : caller'[e] = caller[e]
      BY <2>1, <2>2 DEF ConnectionTypeOK
    <3>1. CASE d = c
      <4>1. /\ m = n /\ caller'[c] = [pc |-> pc, node |-> n, conn |-> connPool[n]]
            /\ pc # "use" /\ BetweenLocks(n) = {}
        BY <2>1, <3>1 DEF BetweenTheLocks, ConnectionTypeOK
      <4>2. \A e \in Caller \ {c} : ~ BetweenTheLocks(e, n)'
        BY <3>0, <4>1 DEF BetweenTheLocks, BetweenLocks
      <4> QED BY <2>1, <2>2, <3>1, <4>1, <4>2
    <3>2. CASE d # c
      <4>1. BetweenTheLocks(d, m) /\ d \in BetweenLocks(m)
        BY <3>0, <3>2 DEF BetweenTheLocks, BetweenLocks
      <4>2. ~ BetweenTheLocks(c, m)'
        BY <2>1, <3>0, <4>1 DEF BetweenTheLocks, ConnectionTypeOK
      <4>3. \A e \in Caller : BetweenTheLocks(e, m)' => BetweenTheLocks(e, m)
        BY <3>0, <4>2 DEF BetweenTheLocks
      <4> QED BY <2>2, <3>0, <3>2, <4>1, <4>3 DEF PoolAsFound
    <3> QED BY <3>1, <3>2
  <2>6. PoolIsSound'
    BY <2>2 DEF PoolIsSound, Open
  <2> QED BY <2>3, <2>4, <2>5, <2>6
<1>3. ASSUME NEW c \in Caller, Evict(c) PROVE PoolInv'
  <2> USE <1>3 DEF Evict, Close, DeleteEntry
  <2>0. PICK n \in Peer, k \in Conn :
            n = caller[c].node /\ k = caller[c].conn /\ owner[k] = n
    BY DEF HandIsSound
  <2>1. /\ Open' = Open \ {k} /\ connPool' = [connPool EXCEPT ![n] = NoConn]
        /\ caller' = [caller EXCEPT ![c] = Elsewhere] /\ UNCHANGED <<owner, raced>>
    BY <2>0 DEF Open, ConnectionTypeOK
  <2>2. ConnectionTypeOK'
    BY <2>0, <2>1 DEF ConnectionTypeOK, Elsewhere
  <2>3. HandIsSound'
    BY <2>1 DEF HandIsSound, Elsewhere, ConnectionTypeOK
  <2>4. PoolAsFound'
    BY <2>0, <2>1 DEF PoolAsFound, BetweenTheLocks, Elsewhere, ConnectionTypeOK
  <2>5. n \notin raced => k = connPool[n]
    BY <2>0 DEF PoolAsFound, BetweenTheLocks
  <2>6. PoolIsSound'
    BY <2>0, <2>1, <2>5 DEF PoolIsSound, ConnectionTypeOK
  <2> QED BY <2>2, <2>3, <2>4, <2>6
<1>4. ASSUME NEW c \in Caller, Dial(c) PROVE PoolInv'
  <2> USE <1>4 DEF Dial
  <2>0. PICK k \in Conn :
            /\ caller[c].pc = "dial" /\ connState[k] = "new"
            /\ connState' = [connState EXCEPT ![k] = "connecting"]
            /\ owner' = [owner EXCEPT ![k] = caller[c].node]
            /\ connPool' = [connPool EXCEPT ![caller[c].node] = k]
            /\ caller' = [caller EXCEPT ![c] = [pc |-> "use", node |-> @.node, conn |-> k]]
            /\ UNCHANGED raced
    OBVIOUS
  <2>n. PICK n \in Peer : n = caller[c].node
    BY <2>0 DEF HandIsSound
  <2>1. Open' = Open \cup {k} /\ k \notin Open
    BY <2>0 DEF Open, ConnectionTypeOK
  <2>3. /\ caller'[c] = [pc |-> "use", node |-> n, conn |-> k]
        /\ \A d \in Caller \ {c} : caller'[d] = caller[d]
    BY <2>0, <2>n DEF ConnectionTypeOK
  <2>2. ConnectionTypeOK'
    <3>1. caller' \in [Caller -> [pc : {"out", "evict", "dial", "use"},
                                  node : Peer \cup {NoConn}, conn : Conn \cup {NoConn}]]
      BY <2>0, <2>n, <2>3 DEF ConnectionTypeOK
    <3> QED BY <2>0, <2>n, <3>1 DEF ConnectionTypeOK
  <2>4. HandIsSound'
    BY <2>0, <2>n, <2>3 DEF HandIsSound, ConnectionTypeOK
  <2>5. PoolAsFound'
    BY <2>0, <2>n, <2>1, <2>3 DEF PoolAsFound, BetweenTheLocks, ConnectionTypeOK
  <2>6. n \notin raced => connPool[n] = NoConn
    BY <2>0, <2>n DEF PoolAsFound, BetweenTheLocks
  <2>7. PoolIsSound'
    <3> SUFFICES ASSUME NEW m \in Peer
                 PROVE  /\ connPool'[m] # NoConn =>
                               connPool'[m] \in Open' /\ owner'[connPool'[m]] = m
                        /\ m \notin raced' =>
                               \A j \in Open' : owner'[j] = m => connPool'[m] = j
      BY DEF PoolIsSound
    <3>1. /\ owner'[k] = n /\ \A j \in Conn \ {k} : owner'[j] = owner[j]
          /\ connPool'[n] = k /\ (m # n => connPool'[m] = connPool[m])
      BY <2>0, <2>n DEF ConnectionTypeOK
    <3>2. CASE m = n
      <4>1. n \notin raced => \A j \in Open : owner[j] # n
        BY <2>6 DEF PoolIsSound, Open
      <4> QED BY <2>0, <2>1, <3>1, <3>2, <4>1 DEF Open
    <3>3. CASE m # n
      BY <2>0, <2>1, <3>1, <3>3 DEF PoolIsSound, Open
    <3> QED BY <3>2, <3>3
  <2> QED BY <2>2, <2>4, <2>5, <2>7
<1>5. ASSUME NEW c \in Caller, DialFails(c) \/ EndCall(c) PROVE PoolInv'
  <2>1. /\ caller' = [caller EXCEPT ![c] = Elsewhere]
        /\ UNCHANGED <<connPool, connState, owner, raced, Open>>
    BY <1>5 DEF DialFails, EndCall, Open
  <2>2. ConnectionTypeOK'
    BY <2>1 DEF ConnectionTypeOK, Elsewhere
  <2>3. HandIsSound' /\ PoolAsFound'
    BY <2>1 DEF HandIsSound, PoolAsFound, BetweenTheLocks, Elsewhere, ConnectionTypeOK
  <2>4. PoolIsSound'
    BY <2>1 DEF PoolIsSound
  <2> QED BY <2>2, <2>3, <2>4
<1>6. CASE UNCHANGED connectionVars
  BY <1>6 DEF connectionVars, ConnectionTypeOK, HandIsSound, PoolAsFound, PoolIsSound,
              BetweenTheLocks, Open
<1> QED BY <1>1, <1>2, <1>3, <1>4, <1>5, <1>6 DEF ConnectionNext

\* With any number of goroutines calling any number of nodes, a pooled connection
\* is open and leads to its node; no open one is left outside of the pool
\* unless two calls for the node were between their locks at once.
THEOREM PoolStaysSound == ConnectionSpec => []PoolIsSound
<1>1. PoolInv => PoolIsSound
  BY DEF PoolInv
<1> QED BY <1>1, PoolInit, PoolKept, PTL DEF ConnectionSpec

-----------------------------------------------------------------------------
(* The certificate cache.                                                   *)

\* What is cached passed the full check at the epoch it was cached, and the
\* answer of a call that accepted is about what is cached since.
CacheInv ==
    /\ nodeCAMap \in [NodeID -> CA \cup {NoCA}] /\ cachedAt \in [NodeID -> Int]
    /\ certEpoch \in Int
    /\ \A n \in NodeID :
          IF nodeCAMap[n] = NoCA
          THEN cachedAt[n] = -1
          ELSE nodeCAMap[n].genuine /\ VerifyExpire(nodeCAMap[n], cachedAt[n])
    /\ lastCheck.accepted =>
          lastCheck.node \in NodeID /\ nodeCAMap[lastCheck.node] = lastCheck.ca

LEMMA CacheInit == CertificateInit => CacheInv
  BY DEF CertificateInit, CacheInv

LEMMA CacheKept == CacheInv /\ [CertificateNext]_certificateVars => CacheInv'
<1> SUFFICES ASSUME CacheInv, [CertificateNext]_certificateVars PROVE CacheInv'
  OBVIOUS
<1>1. CASE NextEpoch
  BY <1>1 DEF NextEpoch, CacheInv
<1>2. ASSUME NEW n \in NodeID, NEW ca \in CA \cup {NoCA}, VerifyNodeCA(n, ca) PROVE CacheInv'
  <2>1. CASE nodeCAMap[n] = ca
    BY <1>2, <2>1 DEF VerifyNodeCA, CacheInv
  <2>2. CASE nodeCAMap[n] # ca /\ ~ Checked(n, ca, certEpoch)
    BY <1>2, <2>2 DEF VerifyNodeCA, CacheInv
  <2>3. CASE nodeCAMap[n] # ca /\ Checked(n, ca, certEpoch)
    <3>1. ca # NoCA /\ ca.genuine /\ VerifyExpire(ca, certEpoch)
      BY <2>3 DEF Checked, Verify
    <3>2. /\ nodeCAMap' = [nodeCAMap EXCEPT ![n] = ca]
          /\ cachedAt' = [cachedAt EXCEPT ![n] = certEpoch]
          /\ lastCheck' = [node |-> n, ca |-> ca, accepted |-> TRUE]
          /\ UNCHANGED certEpoch
      BY <1>2, <2>3 DEF VerifyNodeCA
    <3> QED BY <3>1, <3>2 DEF CacheInv
  <2> QED BY <2>1, <2>2, <2>3
<1>4. ASSUME NEW n \in NodeID, NEW ca \in CA \cup {NoCA}, UnknownNodePanics(n, ca)
      PROVE  CacheInv'
  BY <1>4 DEF UnknownNodePanics, CacheInv
<1>3. CASE UNCHANGED certificateVars
  BY <1>3 DEF certificateVars, CacheInv
<1> QED BY <1>1, <1>2, <1>3, <1>4 DEF CertificateNext

\* Whatever certificates the nodes send at whatever epochs, one that is accepted
\* outside its bounds was accepted for the same node inside of them.
THEOREM ExpiredWasValid == CertificateSpec => []ExpiredOnlyIfCached
<1>1. CacheInv => ExpiredOnlyIfCached
  BY DEF CacheInv, ExpiredOnlyIfCached
<1> QED BY <1>1, CacheInit, CacheKept, PTL DEF CertificateSpec

-----------------------------------------------------------------------------
(* The queries.                                                             *)

InQueryChannel == {queryChannel[k] : k \in 1 .. Len(queryChannel)}
NoneTwice(q) == \A j, k \in 1 .. Len(q) : q[j] = q[k] => j = k

Place == {"outside", "channel", "oracle", "sender", "answered", "dropped"}

\* The query of h is at p and nowhere else.
At(h, p) ==
    /\ h \in InQueryChannel <=> p = "channel"
    /\ dbQuery.of = h <=> p = "oracle"
    /\ h \in sender <=> p = "sender"
    /\ response[h] # "empty" <=> p = "answered"
    /\ h \in silent <=> p = "dropped"
    /\ handler[h].pc \in {"idle", "submit"} => p = "outside"
    /\ handler[h].pc = "wait" => p # "outside"

\* Chain and Monitor work for the Oracle, which waits for the one it asked.
Asked(h) ==
    /\ chainQuery = h => dbQuery.of = h /\ dbQuery.wait = "chain" /\ info[h] = "empty"
    /\ monitorQuery = h => dbQuery.of = h /\ dbQuery.wait = "monitor" /\ info[h] = "empty"
    /\ info[h] # "empty" => dbQuery.of = h /\ dbQuery.wait # "read"

\* Records and functions have their fields and arguments.
QueryShape ==
    /\ handler = [h \in Handler |->
          [pc |-> handler[h].pc, kind |-> handler[h].kind, url |-> handler[h].url,
           status |-> handler[h].status]]
    /\ queryChannel \in Seq(Handler) /\ NoneTwice(queryChannel)
    /\ response = [h \in Handler |-> response[h]] /\ info = [h \in Handler |-> info[h]]
    /\ dbQuery.of \in Handler \/ dbQuery = NoQuery
    /\ {chainQuery, monitorQuery} \subseteq Handler \cup {Nobody}

QueryInv ==
    /\ QueryShape
    /\ \A h \in Handler : Asked(h) /\ \E p \in Place : At(h, p)

-----------------------------------------------------------------------------
\* A query leaves a channel that holds each one once,
LEMMA QueryTaken ==
    ASSUME NEW S, NEW q \in Seq(S), q # <<>>, NoneTwice(q)
    PROVE  /\ Head(q) \in S /\ Tail(q) \in Seq(S) /\ NoneTwice(Tail(q))
           /\ \E k \in 1 .. Len(q) : q[k] = Head(q)
           /\ \A x : (\E k \in 1 .. Len(Tail(q)) : Tail(q)[k] = x)
                         <=> x # Head(q) /\ \E k \in 1 .. Len(q) : q[k] = x
<1>1. /\ Len(q) \in Nat \ {0} /\ Len(Tail(q)) = Len(q) - 1 /\ Head(q) = q[1]
      /\ Tail(q) \in Seq(S)
      /\ Head(q) \in S /\ \A k \in 1 .. Len(q) - 1 : Tail(q)[k] = q[k + 1]
  OBVIOUS
<1>2. NoneTwice(Tail(q))
  BY <1>1 DEF NoneTwice
<1>3. ASSUME NEW k \in 1 .. Len(Tail(q))
      PROVE  Tail(q)[k] # Head(q) /\ \E j \in 1 .. Len(q) : q[j] = Tail(q)[k]
  <2>1. k + 1 \in 1 .. Len(q) /\ 1 \in 1 .. Len(q) /\ k + 1 # 1 /\ Tail(q)[k] = q[k + 1]
    BY <1>1
  <2> QED BY <1>1, <2>1 DEF NoneTwice
<1>4. ASSUME NEW j \in 1 .. Len(q), q[j] # Head(q)
      PROVE  \E k \in 1 .. Len(Tail(q)) : Tail(q)[k] = q[j]
  <2>1. j - 1 \in 1 .. Len(Tail(q)) /\ Tail(q)[j - 1] = q[j]
    BY <1>1, <1>4
  <2> QED BY <2>1
<1> QED BY <1>1, <1>2, <1>3, <1>4

InQueue(q) == {q[k] : k \in 1 .. Len(q)}

\* so the queue holds one query less,
LEMMA HeadTaken ==
    ASSUME NEW S, NEW q \in Seq(S), q # <<>>, NoneTwice(q), NEW x, x = Head(q),
           NEW rest, rest = Tail(q)
    PROVE  /\ x \in S /\ rest \in Seq(S) /\ NoneTwice(rest)
           /\ x \in InQueue(q) /\ InQueue(rest) = InQueue(q) \ {x}
  BY SMTT(30), QueryTaken DEF InQueue

\* or enters one that does not hold it.
LEMMA QuerySent ==
    ASSUME NEW S, NEW q \in Seq(S), NEW h \in S, NoneTwice(q),
           \A k \in 1 .. Len(q) : q[k] # h
    PROVE  /\ Append(q, h) \in Seq(S) /\ NoneTwice(Append(q, h))
           /\ \A x : (\E k \in 1 .. Len(Append(q, h)) : Append(q, h)[k] = x)
                         <=> x = h \/ \E k \in 1 .. Len(q) : q[k] = x
<1>1. /\ Len(Append(q, h)) = Len(q) + 1 /\ Len(q) \in Nat
      /\ Append(q, h) \in Seq(S)
      /\ \A k \in 1 .. Len(q) : Append(q, h)[k] = q[k]
      /\ Append(q, h)[Len(q) + 1] = h
  OBVIOUS
<1>2. 1 .. Len(q) + 1 = 1 .. Len(q) \cup {Len(q) + 1}
  BY <1>1
<1> QED BY <1>1, <1>2 DEF NoneTwice

\* The first state.
LEMMA QueryInvInit == QueryInit => QueryInv
<1> SUFFICES ASSUME QueryInit PROVE QueryInv
  OBVIOUS
<1> USE QueryAssumption DEF QueryInit
<1>1. QueryShape
  <2>1. /\ queryChannel \in Seq(Handler) /\ NoneTwice(queryChannel)
    BY DEF NoneTwice
  <2>2. /\ response = [h \in Handler |-> response[h]] /\ info = [h \in Handler |-> info[h]]
        /\ dbQuery = NoQuery /\ {chainQuery, monitorQuery} \subseteq Handler \cup {Nobody}
    OBVIOUS
  <2>3. handler = [h \in Handler |->
            [pc |-> handler[h].pc, kind |-> handler[h].kind, url |-> handler[h].url,
             status |-> handler[h].status]]
    BY DEF NoHandler
  <2> QED BY <2>1, <2>2, <2>3 DEF QueryShape
<1>2. ASSUME NEW h \in Handler PROVE Asked(h) /\ At(h, "outside")
  BY DEF Asked, At, InQueryChannel, NoQuery, NoHandler
<1> QED BY <1>1, <1>2 DEF QueryInv, Place

-----------------------------------------------------------------------------
(* Steps that move no query, and steps that move one.                        *)

\* Nothing that concerns h changes.
Same(h) ==
    /\ (h \in InQueryChannel)' <=> h \in InQueryChannel
    /\ (dbQuery.of = h)' <=> dbQuery.of = h
    /\ (h \in sender)' <=> h \in sender
    /\ response'[h] = response[h]
    /\ (h \in silent)' <=> h \in silent

\* So its query stays where it is.
LEMMA SameAt ==
    ASSUME NEW h, NEW p, At(h, p), Same(h),
           handler'[h].pc \in {"idle", "submit"} => handler[h].pc \in {"idle", "submit"},
           handler'[h].pc = "wait" => handler[h].pc = "wait"
    PROVE  At(h, p)'
  BY DEF At, Same

\* Of whoever has a query in the hand of the Oracle, the place is that.
LEMMA InHand ==
    ASSUME QueryInv, dbQuery.wait # "none"
    PROVE  dbQuery.of \in Handler /\ At(dbQuery.of, "oracle")
<1>1. dbQuery.of \in Handler
  BY DEF QueryInv, QueryShape, NoQuery
<1>2. PICK p \in Place : At(dbQuery.of, p)
  BY <1>1 DEF QueryInv
<1>3. p = "oracle"
  BY <1>2 DEF At
<1> QED BY <1>1, <1>2, <1>3

-----------------------------------------------------------------------------
(* The handlers.                                                             *)

\* A handler that builds, refuses or receives moves no query.
LEMMA HandlerKeepsPlaces ==
    ASSUME QueryInv, NEW g \in Handler,
           BadRequest(g) \/ ReceiveResponse(g)
             \/ \E kind \in Kinds, url \in Urls : SubmitQuery(g, kind, url)
    PROVE  QueryInv'
<1>1. /\ UNCHANGED <<queryChannel, dbQuery, chainQuery, monitorQuery, info, sender,
                     response, silent>>
  BY DEF BadRequest, ReceiveResponse, SubmitQuery, service
<1>2. PICK r : /\ handler' = [handler EXCEPT ![g] = r]
               /\ r = [pc |-> r.pc, kind |-> r.kind, url |-> r.url, status |-> r.status]
               /\ r.pc = "submit" => handler[g].pc = "idle"
               /\ r.pc \in {"submit", "done"}
  <2>1. CASE BadRequest(g) \/ ReceiveResponse(g)
    <3>1. PICK n : handler' = [handler EXCEPT ![g] = Returned(n)]
      BY <2>1 DEF BadRequest, ReceiveResponse
    <3> PICK r : r = Returned(n)
      OBVIOUS
    <3>3. r = [pc |-> "done", kind |-> NoHandler.kind, url |-> NoHandler.url, status |-> n]
      BY DEF Returned, NoHandler
    <3>4. r = [pc |-> r.pc, kind |-> r.kind, url |-> r.url, status |-> r.status]
          /\ r.pc = "done"
      BY <3>3
    <3>5. handler' = [handler EXCEPT ![g] = r]
      BY <3>1
    <3> QED BY <3>4, <3>5
  <2>2. ASSUME NEW kind \in Kinds, NEW url \in Urls, SubmitQuery(g, kind, url)
        PROVE  \E r : /\ handler' = [handler EXCEPT ![g] = r]
                      /\ r = [pc |-> r.pc, kind |-> r.kind, url |-> r.url,
                              status |-> r.status]
                      /\ r.pc = "submit" => handler[g].pc = "idle"
                      /\ r.pc \in {"submit", "done"}
    <3> PICK r : r = [pc |-> "submit", kind |-> kind, url |-> url, status |-> 0]
      OBVIOUS
    <3>1. r = [pc |-> r.pc, kind |-> r.kind, url |-> r.url, status |-> r.status]
          /\ r.pc = "submit"
      OBVIOUS
    <3>2. handler' = [handler EXCEPT ![g] = r] /\ handler[g].pc = "idle"
      BY <2>2 DEF SubmitQuery
    <3> QED BY <3>1, <3>2
  <2> QED BY <2>1, <2>2
<1>3. /\ handler'[g] = r
      /\ \A h \in Handler : h # g => handler'[h] = handler[h]
  BY <1>2 DEF QueryInv, QueryShape
<1>4. QueryShape'
  <2>1. handler' = [h \in Handler |->
            [pc |-> handler'[h].pc, kind |-> handler'[h].kind, url |-> handler'[h].url,
             status |-> handler'[h].status]]
    BY <1>2, <1>3 DEF QueryInv, QueryShape
  <2> QED BY <1>1, <2>1 DEF QueryInv, QueryShape
<1>5. ASSUME NEW h \in Handler PROVE Asked(h)' /\ \E p \in Place : At(h, p)'
  <2>1. PICK p \in Place : At(h, p)
    BY DEF QueryInv
  <2>2. Same(h)
    BY <1>1 DEF Same, InQueryChannel
  <2>3. /\ handler'[h].pc \in {"idle", "submit"} => handler[h].pc \in {"idle", "submit"}
        /\ handler'[h].pc = "wait" => handler[h].pc = "wait"
    BY <1>2, <1>3
  <2>4. Asked(h)'
    BY <1>1 DEF QueryInv, Asked
  <2> QED BY <2>1, <2>2, <2>3, <2>4, SameAt
<1> QED BY <1>4, <1>5 DEF QueryInv

\* A query enters the channel and its handler waits.
LEMMA EnterKeepsPlaces ==
    ASSUME QueryInv, NEW g \in Handler, EnterChannel(g)
    PROVE  QueryInv'
<1>1. /\ UNCHANGED <<dbQuery, chainQuery, monitorQuery, info, sender, response, silent>>
      /\ queryChannel' = Append(queryChannel, g) /\ handler[g].pc = "submit"
      /\ handler' = [handler EXCEPT ![g].pc = "wait"]
  BY DEF EnterChannel, service
<1>2. At(g, "outside")
  BY <1>1 DEF QueryInv, At
<1>3. /\ queryChannel' \in Seq(Handler) /\ NoneTwice(queryChannel')
      /\ InQueryChannel' = InQueryChannel \cup {g}
  <2>1. \A k \in 1 .. Len(queryChannel) : queryChannel[k] # g
    BY <1>2 DEF At, InQueryChannel
  <2>2. queryChannel \in Seq(Handler) /\ NoneTwice(queryChannel)
    BY DEF QueryInv, QueryShape
  <2> QED BY <1>1, <2>1, <2>2, QuerySent DEF InQueryChannel
<1>4. /\ handler'[g].pc = "wait"
      /\ \A h \in Handler : h # g => handler'[h] = handler[h]
      /\ handler' = [h \in Handler |->
            [pc |-> handler'[h].pc, kind |-> handler'[h].kind, url |-> handler'[h].url,
             status |-> handler'[h].status]]
  <2> PICK r : r = [handler[g] EXCEPT !.pc = "wait"]
    OBVIOUS
  <2>1. handler[g] = [pc |-> handler[g].pc, kind |-> handler[g].kind, url |-> handler[g].url,
                      status |-> handler[g].status]
    BY DEF QueryInv, QueryShape
  <2>2. r = [pc |-> "wait", kind |-> handler[g].kind, url |-> handler[g].url,
             status |-> handler[g].status]
    BY <2>1
  <2>3. r = [pc |-> r.pc, kind |-> r.kind, url |-> r.url, status |-> r.status] /\ r.pc = "wait"
    BY <2>2
  <2>4. handler' = [handler EXCEPT ![g] = r]
    BY <1>1
  <2>5. /\ handler'[g] = r
        /\ \A h \in Handler : h # g => handler'[h] = handler[h]
    BY <2>4 DEF QueryInv, QueryShape
  <2> QED BY ZenonT(40), <2>3, <2>4, <2>5 DEF QueryInv, QueryShape
<1>5. QueryShape'
  BY <1>1, <1>3, <1>4 DEF QueryInv, QueryShape
<1>6. ASSUME NEW h \in Handler PROVE Asked(h)' /\ \E p \in Place : At(h, p)'
  <2>1. Asked(h)'
    BY <1>1 DEF QueryInv, Asked
  <2>2. CASE h = g
    <3>1. At(g, "channel")'
      BY <1>1, <1>2, <1>3, <1>4 DEF At
    <3> QED BY <2>1, <2>2, <3>1 DEF Place
  <2>3. CASE h # g
    <3>1. PICK p \in Place : At(h, p)
      BY DEF QueryInv
    <3>2. Same(h)
      BY <1>1, <1>3, <2>3 DEF Same
    <3> QED BY <1>4, <2>1, <2>3, <3>1, <3>2, SameAt
  <2> QED BY <2>2, <2>3
<1> QED BY <1>5, <1>6 DEF QueryInv

-----------------------------------------------------------------------------
(* The Oracle.                                                               *)

\* The first query of the channel comes into its hand.
LEMMA TakeKeepsPlaces == QueryInv /\ TakeQuery => QueryInv'
<1> SUFFICES ASSUME QueryInv, TakeQuery PROVE QueryInv'
  OBVIOUS
<1> PICK g : g = Head(queryChannel)
  OBVIOUS
<1> PICK wait : wait = IF KindOf(g) \in {"block", "transaction"} THEN "chain"
                       ELSE IF KindOf(g) = "nodes" THEN "monitor" ELSE "read"
  OBVIOUS
<1>1. /\ dbQuery = NoQuery /\ queryChannel # <<>> /\ queryChannel' = Tail(queryChannel)
      /\ dbQuery' = [of |-> g, wait |-> wait]
      /\ chainQuery' = IF wait = "chain" THEN g ELSE chainQuery
      /\ monitorQuery' = IF wait = "monitor" THEN g ELSE monitorQuery
      /\ UNCHANGED <<handler, info, sender, response, silent>>
  BY DEF TakeQuery
<1>2. /\ g \in Handler /\ g \in InQueryChannel /\ InQueryChannel' = InQueryChannel \ {g}
      /\ queryChannel' \in Seq(Handler) /\ NoneTwice(queryChannel')
  <2>1. queryChannel \in Seq(Handler) /\ NoneTwice(queryChannel)
    BY DEF QueryInv, QueryShape
  <2>2. /\ g \in Handler /\ queryChannel' \in Seq(Handler) /\ NoneTwice(queryChannel')
        /\ g \in InQueue(queryChannel) /\ InQueue(queryChannel') = InQueue(queryChannel) \ {g}
    BY <1>1, <2>1, HeadTaken
  <2> QED BY <2>2 DEF InQueryChannel, InQueue
<1>3. \A h \in Handler : dbQuery.of # h /\ chainQuery # h /\ monitorQuery # h /\ info[h] = "empty"
  BY <1>1, QueryAssumption DEF QueryInv, Asked, NoQuery
<1>4. dbQuery'.of = g /\ dbQuery'.wait = wait /\ wait \in {"chain", "monitor", "read"}
  BY <1>1
<1>5. QueryShape'
  BY <1>1, <1>2, <1>4 DEF QueryInv, QueryShape
<1>6. At(g, "channel")
  BY <1>2 DEF QueryInv, At
<1>7. ASSUME NEW h \in Handler PROVE Asked(h)' /\ \E p \in Place : At(h, p)'
  <2>1. Asked(h)'
    BY <1>1, <1>3, <1>4 DEF Asked
  <2>2. CASE h = g
    <3>1. At(g, "oracle")'
      BY <1>1, <1>2, <1>4, <1>6 DEF At
    <3> QED BY <2>1, <2>2, <3>1 DEF Place
  <2>3. CASE h # g
    <3>1. PICK p \in Place : At(h, p)
      BY DEF QueryInv
    <3>2. Same(h)
      BY <1>1, <1>2, <1>3, <1>4, <2>3 DEF Same
    <3> QED BY <1>1, <2>1, <3>1, <3>2, SameAt
  <2> QED BY <2>2, <2>3
<1> QED BY <1>5, <1>7 DEF QueryInv

\* The query in its hand goes to one of three other places.
LEMMA LeaveKeepsPlaces ==
    ASSUME QueryInv, NEW g \in Handler, dbQuery.of = g, dbQuery' = NoQuery,
           UNCHANGED <<handler, queryChannel, chainQuery, monitorQuery>>,
           chainQuery # g, monitorQuery # g, info' = [info EXCEPT ![g] = "empty"],
           \/ \E answer : /\ answer # "empty" /\ response' = [response EXCEPT ![g] = answer]
                          /\ UNCHANGED <<sender, silent>>
           \/ sender' = sender \cup {g} /\ UNCHANGED <<response, silent>>
           \/ silent' = silent \cup {g} /\ UNCHANGED <<response, sender>>
    PROVE  QueryInv'
<1>1. At(g, "oracle")
  BY DEF QueryInv, At
<1>2. /\ \A h \in Handler : h # g => info'[h] = info[h] /\ response'[h] = response[h]
      /\ info'[g] = "empty"
      /\ response' = [h \in Handler |-> response'[h]] /\ info' = [h \in Handler |-> info'[h]]
  BY DEF QueryInv, QueryShape
<1>3. \A h \in Handler : dbQuery'.of # h
  BY QueryAssumption DEF NoQuery
<1>4. QueryShape'
  BY <1>2 DEF QueryInv, QueryShape
<1>5. ASSUME NEW h \in Handler PROVE Asked(h)' /\ \E p \in Place : At(h, p)'
  <2>1. Asked(h)'
    BY <1>2 DEF QueryInv, Asked
  <2>2. CASE h = g
    <3>1. CASE \E answer : /\ answer # "empty" /\ response' = [response EXCEPT ![g] = answer]
                           /\ UNCHANGED <<sender, silent>>
      <4>1. response'[g] # "empty"
        BY <3>1 DEF QueryInv, QueryShape
      <4>2. At(g, "answered")'
        BY <1>1, <1>3, <3>1, <4>1 DEF At, InQueryChannel
      <4> QED BY <2>1, <2>2, <4>2 DEF Place
    <3>2. CASE sender' = sender \cup {g} /\ UNCHANGED <<response, silent>>
      <4>1. At(g, "sender")'
        BY <1>1, <1>3, <3>2 DEF At, InQueryChannel
      <4> QED BY <2>1, <2>2, <4>1 DEF Place
    <3>3. CASE silent' = silent \cup {g} /\ UNCHANGED <<response, sender>>
      <4>1. At(g, "dropped")'
        BY <1>1, <1>3, <3>3 DEF At, InQueryChannel
      <4> QED BY <2>1, <2>2, <4>1 DEF Place
    <3> QED BY <3>1, <3>2, <3>3
  <2>3. CASE h # g
    <3>1. PICK p \in Place : At(h, p)
      BY DEF QueryInv
    <3>2. Same(h)
      BY <1>2, <1>3, <2>3 DEF Same, InQueryChannel
    <3> QED BY <2>1, <3>1, <3>2, SameAt
  <2> QED BY <2>2, <2>3
<1> QED BY <1>4, <1>5 DEF QueryInv

\* Every way to be done with a query.
LEMMA AnswersKeepPlaces ==
    ASSUME QueryInv,
           \/ LatestFails \/ ReadFails \/ ReadAnswered \/ StartCollect \/ UploadRefused
           \/ InfoReceived
    PROVE  QueryInv'
<1> PICK g : g = dbQuery.of
  OBVIOUS
<1>1. dbQuery.wait # "none" /\ dbQuery' = NoQuery
      /\ UNCHANGED <<handler, queryChannel, chainQuery, monitorQuery>>
  BY DEF LatestFails, ReadFails, ReadAnswered, StartCollect, UploadRefused, InfoReceived, Finish
<1>2. g \in Handler /\ Asked(g) /\ info = [h \in Handler |-> info[h]]
  BY <1>1, InHand DEF QueryInv, QueryShape
<1>3. chainQuery # g /\ monitorQuery # g /\ info' = [info EXCEPT ![g] = "empty"]
  <2>1. CASE dbQuery.wait = "read" /\ UNCHANGED info
    <3>1. info[g] = "empty"
      BY <1>2, <2>1 DEF Asked
    <3>2. info' = [info EXCEPT ![g] = "empty"]
      BY <1>2, <2>1, <3>1
    <3> QED BY <1>2, <2>1, <3>2 DEF Asked
  <2>2. CASE InfoReceived
    BY <1>2, <2>2 DEF InfoReceived, Asked
  <2> QED BY <2>1, <2>2 DEF LatestFails, ReadFails, ReadAnswered, StartCollect, UploadRefused
<1>4. \/ \E answer : /\ answer # "empty" /\ response' = [response EXCEPT ![g] = answer]
                     /\ UNCHANGED <<sender, silent>>
      \/ sender' = sender \cup {g} /\ UNCHANGED <<response, silent>>
      \/ silent' = silent \cup {g} /\ UNCHANGED <<response, sender>>
  <2>1. CASE StartCollect
    BY <2>1 DEF StartCollect
  <2>2. CASE LatestFails
    BY <2>2 DEF LatestFails, DropQuery
  <2>3. CASE ReadFails \/ ReadAnswered \/ UploadRefused
    BY <2>3 DEF ReadFails, ReadAnswered, UploadRefused, Respond
  <2>4. CASE InfoReceived
    <3>1. \E answer \in {"ok", "error"} : response' = [response EXCEPT ![g] = answer]
      BY <2>4 DEF InfoReceived, Respond
    <3> QED BY <2>4, <3>1 DEF InfoReceived
  <2> QED BY <2>1, <2>2, <2>3, <2>4
<1> QED BY <1>1, <1>2, <1>3, <1>4, LeaveKeepsPlaces

\* A goroutine of a collection sends its file.
LEMMA SendKeepsPlaces ==
    ASSUME QueryInv, NEW g \in Handler, SendResponse(g)
    PROVE  QueryInv'
<1>1. /\ g \in sender /\ sender' = sender \ {g}
      /\ response' = [response EXCEPT ![g] = "file"]
      /\ UNCHANGED <<handler, queryChannel, dbQuery, chainQuery, monitorQuery, info, silent>>
  BY DEF SendResponse, Respond
<1>2. At(g, "sender")
  BY <1>1 DEF QueryInv, At
<1>3. /\ response'[g] = "file" /\ response' = [h \in Handler |-> response'[h]]
      /\ \A h \in Handler : h # g => response'[h] = response[h]
  BY <1>1 DEF QueryInv, QueryShape
<1>4. QueryShape'
  BY <1>1, <1>3 DEF QueryInv, QueryShape
<1>5. ASSUME NEW h \in Handler PROVE Asked(h)' /\ \E p \in Place : At(h, p)'
  <2>1. Asked(h)'
    BY <1>1 DEF QueryInv, Asked
  <2>2. CASE h = g
    <3>1. At(g, "answered")'
      BY <1>1, <1>2, <1>3 DEF At, InQueryChannel
    <3> QED BY <2>1, <2>2, <3>1 DEF Place
  <2>3. CASE h # g
    <3>1. PICK p \in Place : At(h, p)
      BY DEF QueryInv
    <3>2. Same(h)
      BY <1>1, <1>3, <2>3 DEF Same, InQueryChannel
    <3> QED BY <1>1, <2>1, <3>1, <3>2, SameAt
  <2> QED BY <2>2, <2>3
<1> QED BY <1>4, <1>5 DEF QueryInv

-----------------------------------------------------------------------------
(* The chain and the Monitor, and the end of the process.                    *)

\* What they find out is left for the query the Oracle waits for.
LEMMA AnswererKeepsPlaces ==
    ASSUME QueryInv, ChainAnswers \/ MonitorAnswers
    PROVE  QueryInv'
<1>1. /\ UNCHANGED <<handler, queryChannel, dbQuery, sender, response, silent>>
      /\ chainQuery' \in {chainQuery, Nobody} /\ monitorQuery' \in {monitorQuery, Nobody}
  BY DEF ChainAnswers, MonitorAnswers
<1>2. PICK g \in Handler :
         /\ \E n : info' = [info EXCEPT ![g] = n]
         /\ \/ g = chainQuery /\ chainQuery' = Nobody
            \/ g = monitorQuery /\ monitorQuery' = Nobody
  <2>1. CASE ChainAnswers
    <3>1. chainQuery \in Handler /\ chainQuery' = Nobody
      BY <2>1 DEF QueryInv, QueryShape, ChainAnswers
    <3>2. \E n : info' = [info EXCEPT ![chainQuery] = n]
      BY <2>1 DEF ChainAnswers, SendsInfo
    <3> QED BY <3>1, <3>2
  <2>2. CASE MonitorAnswers
    BY <2>2 DEF QueryInv, QueryShape, MonitorAnswers
  <2> QED BY <2>1, <2>2
<1>3. /\ info' = [h \in Handler |-> info'[h]]
      /\ \A h \in Handler : h # g => info'[h] = info[h]
  BY <1>2 DEF QueryInv, QueryShape
<1>4. QueryShape'
  BY <1>1, <1>3 DEF QueryInv, QueryShape
<1>5. dbQuery.of = g /\ dbQuery.wait \in {"chain", "monitor"} /\ Nobody # g
      /\ chainQuery' # g /\ monitorQuery' # g
  BY <1>1, <1>2, QueryAssumption DEF QueryInv, Asked
<1>6. ASSUME NEW h \in Handler PROVE Asked(h)' /\ \E p \in Place : At(h, p)'
  <2>1. Asked(h)'
    <3>1. CASE h = g
      BY <1>1, <1>5, <3>1 DEF Asked
    <3>2. CASE h # g
      <4>1. chainQuery' = h => chainQuery = h
        BY <1>1, QueryAssumption
      <4>2. monitorQuery' = h => monitorQuery = h
        BY <1>1, QueryAssumption
      <4> QED BY <1>1, <1>3, <3>2, <4>1, <4>2 DEF QueryInv, Asked
    <3> QED BY <3>1, <3>2
  <2>2. PICK p \in Place : At(h, p)
    BY DEF QueryInv
  <2>3. Same(h)
    BY <1>1 DEF Same, InQueryChannel
  <2> QED BY <1>1, <2>1, <2>2, <2>3, SameAt
<1> QED BY <1>4, <1>6 DEF QueryInv

\* When the process ends, and when nothing happens, all stays where it is.
LEMMA RestKeepsPlaces ==
    ASSUME QueryInv, QueryPanics \/ ChainPanics \/ UNCHANGED queryVars
    PROVE  QueryInv'
<1>1. UNCHANGED <<handler, queryChannel, dbQuery, chainQuery, monitorQuery, info, sender,
                  response, silent>>
  BY DEF QueryPanics, ChainPanics, queryVars
<1> QED BY <1>1 DEF QueryInv, QueryShape, Asked, At, InQueryChannel

\* Every step keeps the invariant.
LEMMA QueryStep == QueryInv /\ [QueryNext]_queryVars => QueryInv'
<1> SUFFICES ASSUME QueryInv, [QueryNext]_queryVars PROVE QueryInv'
  OBVIOUS
<1>1. ASSUME NEW h \in Handler, NEW kind \in Kinds, NEW url \in Urls, SubmitQuery(h, kind, url)
      PROVE  QueryInv'
  BY <1>1, HandlerKeepsPlaces
<1>2. ASSUME NEW h \in Handler, BadRequest(h) \/ HandlerStep(h) \/ SendResponse(h)
      PROVE  QueryInv'
  <2>1. CASE BadRequest(h) \/ ReceiveResponse(h)
    BY <2>1, HandlerKeepsPlaces
  <2>2. CASE EnterChannel(h)
    BY <2>2, EnterKeepsPlaces
  <2>3. CASE SendResponse(h)
    BY <2>3, SendKeepsPlaces
  <2> QED BY <1>2, <2>1, <2>2, <2>3 DEF HandlerStep
<1>3. CASE TakeQuery
  BY <1>3, TakeKeepsPlaces
<1>4. CASE LatestFails \/ ReadFails \/ ReadAnswered \/ StartCollect \/ UploadRefused
             \/ InfoReceived
  BY <1>4, AnswersKeepPlaces
<1>5. CASE ChainAnswers \/ MonitorAnswers
  BY <1>5, AnswererKeepsPlaces
<1>6. CASE QueryPanics \/ ChainPanics \/ UNCHANGED queryVars
  BY <1>6, RestKeepsPlaces
<1> QED BY <1>1, <1>2, <1>3, <1>4, <1>5, <1>6 DEF QueryNext, OracleQueryStep, ChainQueryStep

-----------------------------------------------------------------------------
\* The invariant is about named places, the property counts them.
LEMMA PlacesAreCounted == QueryInv => QueryIsInOnePlace
<1> SUFFICES ASSUME QueryInv, NEW h \in Handler
             PROVE  LET inChannel == {k \in DOMAIN queryChannel : queryChannel[k] = h}
                        places == <<inChannel # {}, dbQuery.of = h, h \in sender,
                                    response[h] # "empty", h \in silent>>
                    IN  /\ handler[h].pc = "wait" => \E k \in DOMAIN places : places[k]
                        /\ \A j, k \in DOMAIN places : places[j] /\ places[k] => j = k
                        /\ \A j, k \in inChannel : j = k
                        /\ chainQuery = h \/ monitorQuery = h \/ info[h] # "empty" =>
                               dbQuery.of = h /\ dbQuery.wait # "read"
  BY DEF QueryIsInOnePlace
<1> DEFINE inChannel == {k \in DOMAIN queryChannel : queryChannel[k] = h}
           places == <<inChannel # {}, dbQuery.of = h, h \in sender,
                       response[h] # "empty", h \in silent>>
<1>1. DOMAIN queryChannel = 1 .. Len(queryChannel) /\ NoneTwice(queryChannel)
  BY DEF QueryInv, QueryShape
<1>2. \A j, k \in inChannel : j = k
  BY <1>1 DEF NoneTwice
<1>3. PICK p \in Place : At(h, p)
  BY DEF QueryInv
<1>4. inChannel # {} <=> p = "channel"
  BY <1>1, <1>3 DEF At, InQueryChannel
<1>5. DOMAIN places = 1 .. 5
  OBVIOUS
<1>6. /\ places[1] <=> p = "channel"
      /\ places[2] <=> p = "oracle"
      /\ places[3] <=> p = "sender"
      /\ places[4] <=> p = "answered"
      /\ places[5] <=> p = "dropped"
  BY <1>3, <1>4 DEF At
<1>7. \A j, k \in DOMAIN places : places[j] /\ places[k] => j = k
  <2> HIDE DEF places
  <2> QED BY <1>5, <1>6
<1>8. handler[h].pc = "wait" => \E k \in DOMAIN places : places[k]
  <2>1. handler[h].pc = "wait" => p # "outside"
    BY <1>3 DEF At
  <2> HIDE DEF places
  <2> QED BY <1>5, <1>6, <2>1 DEF Place
<1>9. chainQuery = h \/ monitorQuery = h \/ info[h] # "empty" =>
          dbQuery.of = h /\ dbQuery.wait # "read"
  BY DEF QueryInv, Asked
<1> QED BY <1>2, <1>7, <1>8, <1>9

\* With any number of requests, a query is in one place at a time on its way through
\* HttpEngine, processDBQuery, handleQuery and processQuery, and whoever waits is
\* somewhere or was dropped: no step loses, doubles or misdirects an answer.
THEOREM QueryStaysInOnePlace == QuerySpec => []QueryIsInOnePlace
<1>1. QueryInit => QueryInv
  BY QueryInvInit
<1>2. QueryInv /\ [QueryNext]_queryVars => QueryInv'
  BY QueryStep
<1>3. QueryInv => QueryIsInOnePlace
  BY PlacesAreCounted
<1> QED BY <1>1, <1>2, <1>3, PTL DEF QuerySpec
=============================================================================
