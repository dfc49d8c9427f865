------------------------ MODULE TransactionDelivery ------------------------
(***************************************************************************)
(* What the chain upper promises the rest of the master, with no pool,     *)
(* queue, worker or chain in sight: a transaction that was handed to it    *)
(* reaches the Oracle at most once, in any order, and never after it was   *)
(* lost.  ChainUpper implements it and Persistence builds on it.           *)
(***************************************************************************)
EXTENDS Naturals

CONSTANT Tx

VARIABLES
    handed,     \* transactions given to the chain upper
    delivered,  \* how often each one reached the Oracle
    lost        \* transactions that will never reach it

delivery == <<handed, delivered, lost>>

Init ==
    /\ handed = {} /\ lost = {}
    /\ delivered = [tx \in Tx |-> 0]

\* What is still on its way.
Waiting == {tx \in handed \ lost : delivered[tx] = 0}

Hand(tx) ==
    /\ tx \in Tx \ handed
    /\ handed' = handed \cup {tx}
    /\ UNCHANGED <<delivered, lost>>

Deliver(tx) ==
    /\ tx \in Waiting
    /\ delivered' = [delivered EXCEPT ![tx] = 1]
    /\ UNCHANGED <<handed, lost>>

\* An error takes one transaction, a crash all of them.
Lose(gone) ==
    /\ gone \subseteq Waiting
    /\ lost' = lost \cup gone
    /\ UNCHANGED <<handed, delivered>>

Next ==
    \/ \E tx \in Tx : Hand(tx) \/ Deliver(tx) \/ Lose({tx})
    \/ Lose(Waiting)

Spec == Init /\ [][Next]_delivery
=============================================================================
