--------------------------- MODULE CreditLedger ---------------------------
(***************************************************************************)
(* What the master promises about crediting work to a task, with no        *)
(* channel, timer or goroutine in sight: a task is credited with a slot    *)
(* only after the certificate of the slot's node was accepted and a vote   *)
(* passed on a verified slot of the same hash, only if the tracker knows   *)
(* the task, and what a task still lacks changes by the size of the slot   *)
(* and stops at zero (nothing keeps a node from reporting a negative size, *)
(* which raises it).  SlotLifecycle implements it.                         *)
(***************************************************************************)
EXTENDS Integers

CONSTANTS Item, HashOf, TaskOf, SizeOf, Tracked, Total

VARIABLES
    verified,   \* slots whose node showed a good certificate
    voted,      \* slots a heartbeat round accepted
    credits,    \* how often each slot was credited
    remaining   \* what each task still lacks

ledger == <<verified, voted, credits, remaining>>

Init ==
    /\ verified = {}
    /\ voted = {}
    /\ credits = [i \in Item |-> 0]
    /\ remaining = Total

Approved(i) ==
    /\ i \in verified
    /\ \E j \in voted : HashOf[j] = HashOf[i]
    /\ TaskOf[i] \in Tracked

Verify(i) ==
    /\ verified' = verified \cup {i}
    /\ UNCHANGED <<voted, credits, remaining>>

Vote(S) ==
    /\ voted' = voted \cup S
    /\ UNCHANGED <<verified, credits, remaining>>

Pay(i) ==
    /\ Approved(i)
    /\ credits' = [credits EXCEPT ![i] = @ + 1]
    /\ \E lack \in {0, remaining[TaskOf[i]] - SizeOf[i]} :
        /\ lack >= 0 /\ lack >= remaining[TaskOf[i]] - SizeOf[i]
        /\ remaining' = [remaining EXCEPT ![TaskOf[i]] = lack]
    /\ UNCHANGED <<verified, voted>>

Next ==
    \/ \E i \in Item : Verify(i) \/ Pay(i)
    \/ \E S \in SUBSET verified : Vote(S)

Spec == Init /\ [][Next]_ledger
=============================================================================
