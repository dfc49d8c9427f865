-------------------------- MODULE MCTaskScheduling -------------------------
(* Small instances of TaskScheduling for TLC.                              *)
EXTENDS TaskScheduling

CONSTANTS t1, t2, t3, t4, t5, t6

TwoTasks == {t1, t2}
SixTasks == {t1, t2, t3, t4, t5, t6}
TwoInOrder == <<t1, t2>>
SixInOrder == <<t1, t2, t3, t4, t5, t6>>

\* With two nodes and slots of 2: 5 leaves a remainder, 1 is less than a share.
MCTotal == [t \in Task |-> IF t = t1 THEN 5 ELSE 1]
AllOne == [t \in Task |-> 1]
\* t1 is scheduled at most twice, the others once.
TwiceThenOnce == [t \in Task |-> IF t = t1 THEN 2 ELSE 1]

\* The first two are scheduled up to twice, the others once.
TwiceForTwo == [t \in Task |-> IF t \in {t1, t2} THEN 2 ELSE 1]

MCSlotSize == [t \in Task |-> 2]
-----------------------------------------------------------------------------
(* Only the first two tasks are put on the chain, and may be scheduled again; *)
(* or only the other four, which fill the channels of the wedge.              *)
FewOrManyInit ==
    /\ upchained \in {SubSeq(Upchained, 1, 2), SubSeq(Upchained, 3, Len(Upchained))}
    /\ AtRest

FewOrManySpec == FewOrManyInit /\ [][Next]_vars /\ Fairness
=============================================================================
