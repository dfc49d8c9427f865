-------------------------- MODULE MCSlotLifecycle --------------------------
(* Small instances of SlotLifecycle for TLC.                               *)
EXTENDS SlotLifecycle

CONSTANTS n1, n2, i1, i2, h1, h2, t1, t2, t3

OneNode == {n1}
MCNode == {n1, n2}
TwoItems == {i1, i2}
MCHash == {h1, h2}
MCTask == {t1, t2, t3}

\* Both calls carry the hash of one slot, or each its own.
SameHash == [i \in Item |-> h1]
OwnHash == [i \in Item |-> IF i = i1 THEN h1 ELSE h2]

\* t1 is tracked and reliable, t2 tracked and not, t3 is from before a restart.
MCTracked == {t1, t2}
MCReliable == {t1}
AllReliable == [i \in Item |-> t1]
KnownAndUnknown == [i \in Item |-> IF i = i1 THEN t1 ELSE t3]
KnownAndUnreliable == [i \in Item |-> IF i = i1 THEN t2 ELSE t1]

\* Two slots of 2 over-deliver a task of 3; so does one of 4, and a slot of -2
\* takes some of that back.
MCTotal == [t \in Tracked |-> 3]
MCSizeOf == [i \in Item |-> 2]
OneNegative == [i \in Item |-> IF i = i1 THEN 4 ELSE -2]

\* The second call comes from a node without a key.
NoItem == {}
SecondItem == {i2}

NoHash == {}
OneUnscheduled == {h2}
NoTask == {}
OneAnnounced == {t3}

\* The epoch of a master that recovered nothing.
MCStartEpoch == -1
=============================================================================
