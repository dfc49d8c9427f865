--------------------------- MODULE MCPersistence ---------------------------
(* A small instance of Persistence for TLC.                                *)
EXTENDS Persistence

CONSTANTS t1, s1, s2

OneTask == {t1}
TwoSlots == {s1, s2}
OneTaskOf == [s \in Slot |-> t1]
OneMayFail == {s2}
OneAsked == {s1}
MCSize == [t \in Task |-> 2]
\* One slot completes the task, both deliver too much.
MCAmounts == [s \in Slot |-> IF s = s1 THEN {2} ELSE {0, 1}]
=============================================================================
