----------------------------- MODULE NodeMonitor -----------------------------
(***************************************************************************)
(* What the Monitor keeps of each node.  One goroutine takes the reports   *)
(* of heartbeats and commits, another one what the Oracle tells of         *)
(* schedules and finished slots, and the page of the nodes reads the same  *)
(* structures; nothing locks them.  The two channels only delay and mix    *)
(* what many goroutines send, so the order in which it is taken is open.   *)
(***************************************************************************)
EXTENDS Integers, Sequences, FiniteSets, SequencesExt, Functions

CONSTANTS
    NbNodes,      \* the nodes are 0 .. NbNodes - 1
    Told,         \* slots: records of id, node, process, model
    Heartbeats,   \* what a node answers: records of cpu, disk, total, speed
    Speeds,       \* what a commit tells
    Unreadable    \* a value that is missing or no number

ASSUME MonitorAssumption == NbNodes \in Nat \ {0}

Node == 0 .. NbNodes - 1
Nowhere == -1

VARIABLES
    nodeStatus,     \* NodeStatus of each node
    heartbeatAt,    \* processHeartbeatResponse: the node whose message it writes next
    oracleAt,       \* processOracleInfo: the node it works on, and what it does next
    monitorAlive,   \* the process runs
    toldOf,         \* history: <<event, slot>> taken from the Oracle, in order
    bothAt          \* history: nodes the two goroutines worked on at once

monitorVars ==
    <<nodeStatus, heartbeatAt, oracleAt, monitorAlive, toldOf, bothAt>>

NewNodeStatus ==
    [cpu |-> 0, disk |-> 0, total |-> 0, speed |-> 0, pending |-> {}, finished |-> <<>>,
     synthData |-> <<>>, isError |-> FALSE, errMessage |-> FALSE]
NoInfo == [node |-> Nowhere, pc |-> "none", what |-> <<>>]

MonitorInit ==
    /\ nodeStatus = [n \in Node |-> NewNodeStatus]
    /\ heartbeatAt = [node |-> Nowhere, error |-> FALSE]
    /\ oracleAt = NoInfo
    /\ monitorAlive = TRUE /\ toldOf = <<>> /\ bothAt = {}

-----------------------------------------------------------------------------
(* The reports of sendHeartbeat and CommitSlot.                            *)

\* No connection, a call that fails, or an answer without its three numbers.
ErrorReport == [cpu |-> 0, disk |-> 0, total |-> 0, speed |-> 0, isError |-> TRUE]

\* A speed that is missing or no number is 0.
ReportFromHeartbeat(h) ==
    IF Unreadable \in {h.cpu, h.disk, h.total} THEN ErrorReport
    ELSE [cpu |-> h.cpu, disk |-> h.disk, total |-> h.total, isError |-> FALSE,
          speed |-> IF h.speed = Unreadable THEN 0 ELSE h.speed]

\* -1 updates nothing.
ReportFromCommit(speed) ==
    [cpu |-> -1, disk |-> -1, total |-> -1, speed |-> speed, isError |-> FALSE]

Reports == {ErrorReport} \cup {ReportFromHeartbeat(h) : h \in Heartbeats}
               \cup {ReportFromCommit(speed) : speed \in Speeds}

UpdateUsage(status, report) ==
    [f \in DOMAIN status |->
        IF f \in {"cpu", "disk", "total", "speed"} /\ report[f] >= 0
        THEN report[f] ELSE status[f]]

\* Usage and flag are written first, the message after them.
TakeReport(n, report) ==
    /\ monitorAlive /\ heartbeatAt.node = Nowhere
    /\ nodeStatus' = [nodeStatus EXCEPT ![n] =
           IF report.isError THEN [@ EXCEPT !.isError = TRUE]
           ELSE [UpdateUsage(@, report) EXCEPT !.isError = FALSE]]
    /\ heartbeatAt' = [node |-> n, error |-> report.isError]
    /\ bothAt' = IF oracleAt.node = n THEN bothAt \cup {n} ELSE bothAt
    /\ UNCHANGED <<oracleAt, monitorAlive, toldOf>>

WriteMessage ==
    /\ monitorAlive /\ heartbeatAt.node # Nowhere
    /\ nodeStatus' = [nodeStatus EXCEPT ![heartbeatAt.node].errMessage = heartbeatAt.error]
    /\ heartbeatAt' = [node |-> Nowhere, error |-> FALSE]
    /\ UNCHANGED <<oracleAt, monitorAlive, toldOf, bothAt>>

-----------------------------------------------------------------------------
(* processOracleInfo.                                                      *)

\* A schedule names each slot a node accepted, a transaction a finished one; each
\* comes once, in any order.
TakeOracleInfo(event, slot) ==
    /\ monitorAlive /\ oracleAt = NoInfo /\ <<event, slot>> \notin ToSet(toldOf)
    /\ oracleAt' = [node |-> slot.node, pc |-> "update", what |-> <<event, slot>>]
    /\ toldOf' = Append(toldOf, <<event, slot>>)
    /\ bothAt' = IF heartbeatAt.node = slot.node THEN bothAt \cup {slot.node} ELSE bothAt
    /\ UNCHANGED <<nodeStatus, heartbeatAt, monitorAlive>>

UpdatePendingSlot(status, slot) == [status EXCEPT !.pending = @ \cup {slot.id}]

UpdateFinishSlot(status, slot) ==
    LET data == status.synthData
        before == IF slot.model \in DOMAIN data THEN data[slot.model] ELSE 0
    IN  [status EXCEPT !.pending = @ \ {slot.id}, !.finished = Append(@, slot.id),
             !.synthData = [m \in DOMAIN data \cup {slot.model} |->
                 IF m = slot.model THEN before + slot.process ELSE data[m]]]

UpdateStatus ==
    LET n == oracleAt.node
        event == oracleAt.what[1]
        slot == oracleAt.what[2]
    IN  /\ monitorAlive /\ oracleAt.pc = "update"
        /\ nodeStatus' = [nodeStatus EXCEPT ![n] =
               [(IF event = "scheduled" THEN UpdatePendingSlot(@, slot)
                 ELSE UpdateFinishSlot(@, slot)) EXCEPT !.isError = FALSE]]
        /\ oracleAt' = [oracleAt EXCEPT !.pc = "discard"]
        /\ UNCHANGED <<heartbeatAt, monitorAlive, toldOf, bothAt>>

DiscardError ==
    /\ monitorAlive /\ oracleAt.pc = "discard"
    /\ nodeStatus' = [nodeStatus EXCEPT ![oracleAt.node].errMessage = FALSE]
    /\ oracleAt' = NoInfo
    /\ UNCHANGED <<heartbeatAt, monitorAlive, toldOf, bothAt>>

-----------------------------------------------------------------------------
(* The page of the nodes iterates over the map SynthData of one node after  *)
(* the other, at any time.                                                 *)

\* The Go runtime may stop the process that writes to a map while it is iterated.
MapFault ==
    /\ monitorAlive /\ oracleAt.pc = "update" /\ oracleAt.what[1] = "finished"
    /\ monitorAlive' = FALSE
    /\ UNCHANGED <<nodeStatus, heartbeatAt, oracleAt, toldOf, bothAt>>

MonitorNext ==
    \/ \E n \in Node, report \in Reports : TakeReport(n, report)
    \/ \E event \in {"scheduled", "finished"}, slot \in Told : TakeOracleInfo(event, slot)
    \/ WriteMessage \/ UpdateStatus \/ DiscardError \/ MapFault

MonitorSpec == MonitorInit /\ [][MonitorNext]_monitorVars

-----------------------------------------------------------------------------
\* What was told of a node and written down.
Written(n) ==
    LET last == IF oracleAt.pc = "update" THEN Len(toldOf) - 1 ELSE Len(toldOf)
    IN  SelectSeq(SubSeq(toldOf, 1, last), LAMBDA info : info[2].node = n)

\* A slot is pending exactly if it was told to be scheduled and not, since then, to
\* be finished; one whose schedule came late stays pending for ever.
PendingIsAsTold ==
    \A n \in Node :
        nodeStatus[n].pending =
            {slot.id : slot \in {s \in Told :
                \E j \in DOMAIN Written(n) :
                    /\ Written(n)[j] = <<"scheduled", s>>
                    /\ \A k \in DOMAIN Written(n) :
                           Written(n)[k] = <<"finished", s>> => k < j}}

\* A node is shown with an error message exactly if it is shown as abnormal, unless
\* both goroutines worked on it at once.
ErrorHasItsMessage ==
    \A n \in Node \ (bothAt \cup {heartbeatAt.node, oracleAt.node}) :
        nodeStatus[n].isError <=> nodeStatus[n].errMessage
=============================================================================
