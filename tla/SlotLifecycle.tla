--------------------------- MODULE SlotLifecycle ---------------------------
(***************************************************************************)
(* The life of a committed slot inside the Rappa master: a node's          *)
(* CommitSlot call, the EpochManager goroutine that owns the epoch record, *)
(* the heartbeat round on which the nodes vote, the Tracker's pending      *)
(* slots, and the CollectExpire goroutine that gives up on a slot.         *)
(*                                                                         *)
(* A SignedCommitSlotItem embeds a POINTER to its CommitSlotItem, so every *)
(* copy of it in a channel, in a track or in an expiry item shares one     *)
(* state field.  An Item below is that pointer: a message in CommitSlots   *)
(* is read in the state the item has when the message is TAKEN, not when   *)
(* it was sent.  The two goroutines that write the state take turns at     *)
(* every access to it, which is why their handlers are cut into steps.     *)
(***************************************************************************)
EXTENDS Integers, Sequences, FiniteSets, FiniteSetsExt

CONSTANTS
    Node,        \* the executor nodes
    Item,        \* one CommitSlotItem per CommitSlot call
    Hash,        \* slot hashes
    Task,        \* task signs
    HashOf,      \* the hash a call carries; two calls may carry the same one
    TaskOf,      \* the task sign a call carries
    SizeOf,      \* the Process size a call reports, which nothing checks
    Unregistered,\* calls with a node id the configuration has no key for
    Tracked,     \* tasks with a track; after a restart nodes also commit others
    Reliable,    \* tracked tasks whose IsReliable flag is set
    Total,       \* the size of a tracked task
    Unscheduled, \* slots sendSchedule reports on UnScheduledSlotChannel
    Announced,   \* tasks the Oracle sends on EpochInitTaskChannel
    StartEpoch,  \* the EpochID of the recovery
    EpochBound,  \* bound of the model: last value of currentEpoch
    Capacity,    \* capacity of CommitSlots
    TimerRoom,   \* timers sure to find room while CollectExpire is not reading
    None         \* no item

ASSUME SlotAssumption ==
    /\ HashOf \in [Item -> Hash]
    /\ TaskOf \in [Item -> Task]
    /\ SizeOf \in [Item -> Int]
    /\ Unregistered \subseteq Item
    /\ Tracked \subseteq Task
    /\ Reliable \subseteq Tracked
    /\ Total \in [Tracked -> Nat]
    /\ Unscheduled \subseteq Hash
    /\ Announced \subseteq Task
    /\ StartEpoch \in Int /\ EpochBound \in Int
    /\ Capacity \in Nat \ {0} /\ TimerRoom \in Nat
    /\ None \notin Item /\ Item \cap Hash = {}
    /\ IsFiniteSet(Node)

VARIABLES
    state,        \* CommitSlotItem.state
    slotEpoch,    \* CommitSlotItem.Epoch
    commitSlots,  \* channel CommitSlots: items, and hashes of slots that won a vote
    wonVote,      \* PendingCommitSlotTrack.hasWonVote, one track per item
    hasProof,     \* PendingCommitSlotTrack.hasVerifiedProof
    pending,      \* Tracker.pendingCommitSlot
    timers,       \* ExpireSlot items on their way through the eliminators
    remaining,    \* SynthTaskTrackItem.Size
    history,      \* SynthTaskTrackItem.History
    epoch,        \* EpochManager.currentEpoch
    record,       \* EpochManager.epochRecord
    em,           \* where the EpochManager goroutine is, and its slot
    expire,       \* where the CollectExpire goroutine is, and its slot
    unscheduled,  \* slots still to be read from UnScheduledSlotChannel
    announced,    \* tasks still to be read from EpochInitTaskChannel
    heartbeats,   \* channel EpochHeartbeat, capacity 1: the commits of each
    voting,       \* the commits of the heartbeat being sent, {} when idle
    waiting,      \* nodes whose answer sendHeartbeat still waits for
    tally,        \* SlotVote of each slot of that heartbeat
    accepts,      \* slots a VoteHandler found accepted and has not sent yet
    crashed,      \* the process died: of the race on pendingCommitSlot, or of a nil key
    \* What has happened, kept for the properties only:
    verified,     \* items whose certificate was accepted
    voted,        \* items of a heartbeat whose vote passed
    aborted,      \* items CollectExpire gave up
    credits,      \* how often the tracker was credited with an item
    txs,          \* how many TaskProcessTransactions were made of an item
    finalized,    \* hashes that were in Finalizes of some record
    invalidated   \* hashes that were in Invalids of some record

itemVars  == <<state, slotEpoch>>
trackVars == <<wonVote, hasProof, pending>>
taskVars  == <<remaining, history>>
voteVars  == <<heartbeats, voting, waiting, tally, accepts>>
inputVars == <<unscheduled, announced>>
ghostVars == <<verified, voted, aborted, credits, txs, finalized, invalidated>>
vars == <<itemVars, commitSlots, trackVars, timers, taskVars, epoch, record, em,
          expire, inputVars, voteVars, crashed, ghostVars>>
-----------------------------------------------------------------------------
(* A map from SlotHash to commitment is the set of items that were put in  *)
(* it; putting an item replaces the one of the same hash.                  *)
PutItem(map, i) == {j \in map : HashOf[j] # HashOf[i]} \cup {i}

NewRecord(id, tasks) ==
    [id |-> id, commits |-> {}, finalizes |-> {}, invalids |-> {},
     tasks |-> tasks, process |-> 0]

\* Variants of a definition, named for the slip that would make them, stand before
\* the definition they vary; the specification itself uses none of them.
RefreshKeepsCommits(r) ==
    [r EXCEPT !.id = @ + 1, !.finalizes = {}, !.invalids = {}, !.process = 0]

\* Refresh starts every map of the record anew except Tasks.
Refresh(r) == NewRecord(r.id + 1, r.tasks)

\* Nothing runs in a process that has died.
Alive == ~crashed

CanSend == Len(commitSlots) < Capacity

CheckIsReliable(i) == TaskOf[i] \in Reliable

\* PendingCommitSlotTrack.Check of the item's track.
Check(i) == hasProof[i] /\ wonVote[i]

\* CheckFinalized stores IsFinalized in its own copy of the track, and nothing
\* else stores it: in the track that pendingCommitSlot holds it stays 0.
IsFinalized(i) == FALSE

\* SlotVote.Check over the answers that arrived.
VotePasses(t) == 2 * t.vote >= t.total

SizeAfterUnclamped(size, process) == size - process

\* SynthTaskTrackItem.Commit of a slot of this size: Size stops at 0.
SizeAfter(size, process) == IF size - process < 0 THEN 0 ELSE size - process

EmIdle == em.pc = "select"
EmTo(pc, i) == em' = [pc |-> pc, slot |-> i]
EmDone == EmTo("select", None)

Init ==
    /\ state = [i \in Item |-> "absent"]
    /\ slotEpoch = [i \in Item |-> -1]
    /\ commitSlots = <<>>
    /\ wonVote = [i \in Item |-> FALSE]
    /\ hasProof = [i \in Item |-> FALSE]
    /\ pending = [h \in Hash |-> None]
    /\ timers = {}
    /\ remaining = Total
    /\ history = [t \in Tracked |-> 0]
    /\ epoch = StartEpoch
    /\ record = NewRecord(StartEpoch + 1, {})
    /\ em = [pc |-> "select", slot |-> None]
    /\ expire = [pc |-> "wait", slot |-> None]
    /\ unscheduled = Unscheduled
    /\ announced = Announced
    /\ heartbeats = <<>> /\ voting = {} /\ waiting = {} /\ accepts = {}
    /\ tally = [i \in Item |-> [vote |-> 0, total |-> 0]]
    /\ crashed = FALSE
    /\ verified = {} /\ voted = {} /\ aborted = {} /\ finalized = {} /\ invalidated = {}
    /\ credits = [i \in Item |-> 0]
    /\ txs = [i \in Item |-> 0]

-----------------------------------------------------------------------------
(* Coordinator.CommitSlot: a node's call makes a new item and sends it.    *)
CommitSlot(i) ==
    /\ Alive
    /\ state[i] = "absent"
    /\ CanSend
    /\ state' = [state EXCEPT ![i] = "undetermined"]
    /\ commitSlots' = Append(commitSlots, i)
    /\ UNCHANGED <<slotEpoch, trackVars, timers, taskVars, epoch, record, em,
                   expire, inputVars, voteVars, crashed, ghostVars>>

-----------------------------------------------------------------------------
(* The EpochManager goroutine.  Its select takes a ready channel at        *)
(* random, so any of the handlers below may run when it is idle.           *)

\* case UNDETERMINED, certificate accepted: Tracker.UpdateSlot makes a track and
\* puts it in pendingCommitSlot; the send of its timer follows.
AcceptCommit(i) ==
    /\ hasProof' = [hasProof EXCEPT ![i] = CheckIsReliable(i)]
    /\ pending' = [pending EXCEPT ![HashOf[i]] = i]
    /\ verified' = verified \cup {i}
    /\ EmTo("startTimer", i)
    /\ UNCHANGED <<state, record, wonVote, invalidated>>

RefuseCommitFallsThrough(i) ==
    /\ hasProof' = [hasProof EXCEPT ![i] = CheckIsReliable(i)]
    /\ pending' = [pending EXCEPT ![HashOf[i]] = i]
    /\ record' = [record EXCEPT !.invalids = @ \cup {HashOf[i]}]
    /\ invalidated' = invalidated \cup {HashOf[i]}
    /\ EmTo("startTimer", i)
    /\ UNCHANGED <<state, wonVote, verified>>

\* case UNDETERMINED, certificate refused.
RefuseCommit(i) ==
    /\ state' = [state EXCEPT ![i] = "invalid"]
    /\ record' = [record EXCEPT !.invalids = @ \cup {HashOf[i]}]
    /\ invalidated' = invalidated \cup {HashOf[i]}
    /\ UNCHANGED <<em, trackVars, verified>>

\* Whether the certificate is valid is the PKI's business; here it is a choice.
TakeCommit ==
    /\ Alive
    /\ EmIdle /\ commitSlots # <<>>
    /\ LET i == Head(commitSlots) IN
        /\ i \in Item /\ state[i] = "undetermined"
        /\ AcceptCommit(i) \/ RefuseCommit(i)
    /\ commitSlots' = Tail(commitSlots)
    /\ UNCHANGED <<slotEpoch, timers, taskVars, epoch, expire, inputVars, voteVars, crashed,
                   voted, aborted, credits, txs, finalized>>

\* The check may ask for the key of the node, and the map has a nil for an id it
\* does not know: the process dies.
CertificateFault ==
    /\ Alive
    /\ EmIdle /\ commitSlots # <<>>
    /\ Head(commitSlots) \in Unregistered /\ state[Head(commitSlots)] = "undetermined"
    /\ crashed' = TRUE
    /\ UNCHANGED <<itemVars, commitSlots, trackVars, timers, taskVars, epoch, record, em,
                   expire, inputVars, voteVars, ghostVars>>

\* The timer goes to expireInputChannel.  The heaps of the eliminators take any
\* number of timers, so the send may go through at any time; see TimerFits.
StartTimer ==
    /\ Alive
    /\ em.pc = "startTimer"
    /\ timers' = timers \cup {em.slot}
    /\ EmTo("recordCommit", em.slot)
    /\ UNCHANGED <<itemVars, commitSlots, trackVars, taskVars, epoch, record, expire,
                   inputVars, voteVars, crashed, ghostVars>>

\* epochRecord.Commit, the last part of that handler.
RecordCommit ==
    /\ Alive
    /\ em.pc = "recordCommit"
    /\ record' = IF state[em.slot] = "invalid" THEN record
                 ELSE [record EXCEPT !.commits = PutItem(@, em.slot)]
    /\ EmDone
    /\ UNCHANGED <<itemVars, commitSlots, trackVars, timers, taskVars, epoch, expire,
                   inputVars, voteVars, crashed, ghostVars>>

\* case JUSTIFIED: Tracker.WonVote looks the track up by the hash alone.
TakeVote ==
    /\ Alive
    /\ EmIdle /\ commitSlots # <<>>
    /\ LET h == Head(commitSlots) IN
        /\ h \in Hash
        /\ IF pending[h] = None \/ IsFinalized(pending[h])
           THEN UNCHANGED <<em, wonVote>>
           ELSE /\ wonVote' = [wonVote EXCEPT ![pending[h]] = TRUE]
                /\ EmTo("checkFinal", pending[h])
    /\ commitSlots' = Tail(commitSlots)
    /\ UNCHANGED <<itemVars, hasProof, pending, timers, taskVars, epoch, record, expire,
                   inputVars, voteVars, crashed, ghostVars>>

\* Tracker.CheckFinalized looks the hash up a second time.  CollectExpire may
\* have deleted the entry meanwhile: Check of a nil track is a fault.
CheckFinalized ==
    /\ Alive
    /\ em.pc = "checkFinal"
    /\ LET i == em.slot
           found == pending[HashOf[i]]
       IN  /\ crashed' = (found = None)
           /\ IF found # None /\ Check(found)
              THEN /\ state' = [state EXCEPT ![i] = "finalize"]
                   /\ EmTo("sendFinal", i)
              ELSE EmDone /\ UNCHANGED state
    /\ UNCHANGED <<slotEpoch, commitSlots, trackVars, timers, taskVars, epoch, record,
                   expire, inputVars, voteVars, ghostVars>>

\* ... and sends the slot to CommitSlots, the channel this goroutine alone
\* reads: when it is full the goroutine waits for itself.
SendFinalized ==
    /\ Alive
    /\ em.pc = "sendFinal"
    /\ CanSend
    /\ commitSlots' = Append(commitSlots, em.slot)
    /\ EmDone
    /\ UNCHANGED <<itemVars, trackVars, timers, taskVars, epoch, record, expire,
                   inputVars, voteVars, crashed, ghostVars>>

\* case FINALIZE: the slot is in that state when it is taken ...
TakeFinalized ==
    /\ Alive
    /\ EmIdle /\ commitSlots # <<>>
    /\ LET i == Head(commitSlots) IN
        /\ i \in Item /\ state[i] = "finalize"
        /\ EmTo("setFinal", i)
    /\ commitSlots' = Tail(commitSlots)
    /\ UNCHANGED <<itemVars, trackVars, timers, taskVars, epoch, record, expire, inputVars,
                   voteVars, crashed, ghostVars>>

\* ... and is put in it again by SetEpoch and SetFinalize.
SetFinalized ==
    /\ Alive
    /\ em.pc = "setFinal"
    /\ slotEpoch' = [slotEpoch EXCEPT ![em.slot] = epoch]
    /\ state' = [state EXCEPT ![em.slot] = "finalize"]
    /\ EmTo("credit", em.slot)
    /\ UNCHANGED <<commitSlots, trackVars, timers, taskVars, epoch, record, expire,
                   inputVars, voteVars, crashed, ghostVars>>

\* Tracker.Commit fails for a task it does not know and for a slot that is no
\* longer FINALIZE.
CommitFails(i) == TaskOf[i] \notin Tracked \/ state[i] # "finalize"

CreditWithoutOverDelivery(i) ==
    /\ remaining' = [remaining EXCEPT ![TaskOf[i]] = SizeAfter(@, SizeOf[i])]
    /\ history' = [history EXCEPT ![TaskOf[i]] =
                     @ + remaining[TaskOf[i]] - SizeAfter(remaining[TaskOf[i]], SizeOf[i])]
    /\ credits' = [credits EXCEPT ![i] = @ + 1]
    /\ EmTo("recordFinal", i)

Credit(i) ==
    /\ remaining' = [remaining EXCEPT ![TaskOf[i]] = SizeAfter(@, SizeOf[i])]
    /\ history' = [history EXCEPT ![TaskOf[i]] = @ + SizeOf[i]]
    /\ credits' = [credits EXCEPT ![i] = @ + 1]
    /\ EmTo("recordFinal", i)

AfterFailedCommitGoesOn(i) == EmTo("recordFinal", i) /\ UNCHANGED <<taskVars, credits>>

\* On an error the handler goes back to the select: no record, no transaction.
AfterFailedCommit(i) == EmDone /\ UNCHANGED <<taskVars, credits>>

TrackerCommit ==
    /\ Alive
    /\ em.pc = "credit"
    /\ IF CommitFails(em.slot) THEN AfterFailedCommit(em.slot) ELSE Credit(em.slot)
    /\ UNCHANGED <<itemVars, commitSlots, trackVars, timers, epoch, record, expire,
                   inputVars, voteVars, crashed, verified, voted, aborted, txs,
                   finalized, invalidated>>

\* epochRecord.Finalize, then a TaskProcessTransaction in either case.
RecordFinalize ==
    /\ Alive
    /\ em.pc = "recordFinal"
    /\ LET i == em.slot IN
        /\ IF state[i] = "finalize"
           THEN /\ record' = [record EXCEPT !.finalizes = PutItem(@, i),
                                            !.process = @ + SizeOf[i]]
                /\ finalized' = finalized \cup {HashOf[i]}
                /\ UNCHANGED state
           ELSE /\ state' = [state EXCEPT ![i] = "invalid"]
                /\ UNCHANGED <<record, finalized>>
        /\ txs' = [txs EXCEPT ![i] = @ + 1]
    /\ EmDone
    /\ UNCHANGED <<slotEpoch, commitSlots, trackVars, timers, taskVars, epoch, expire,
                   inputVars, voteVars, crashed, verified, voted, aborted, credits,
                   invalidated>>

TakeInvalidUnrecorded ==
    /\ Alive
    /\ EmIdle /\ commitSlots # <<>>
    /\ LET i == Head(commitSlots) IN
        /\ i \in Item /\ state[i] = "invalid"
    /\ commitSlots' = Tail(commitSlots)
    /\ UNCHANGED <<itemVars, trackVars, timers, taskVars, epoch, record, em, expire, inputVars,
                   voteVars, crashed, ghostVars>>

\* case INVALID: epochRecord.Abort.
TakeInvalid ==
    /\ Alive
    /\ EmIdle /\ commitSlots # <<>>
    /\ LET i == Head(commitSlots) IN
        /\ i \in Item /\ state[i] = "invalid"
        /\ record' = [record EXCEPT !.invalids = @ \cup {HashOf[i]}]
        /\ invalidated' = invalidated \cup {HashOf[i]}
    /\ commitSlots' = Tail(commitSlots)
    /\ UNCHANGED <<itemVars, trackVars, timers, taskVars, epoch, em, expire, inputVars,
                   voteVars, crashed, verified, voted, aborted, credits, txs, finalized>>

\* A slot the coordinator could not schedule.
TakeUnscheduled(h) ==
    /\ Alive
    /\ EmIdle /\ h \in unscheduled
    /\ unscheduled' = unscheduled \ {h}
    /\ record' = [record EXCEPT !.invalids = @ \cup {h}]
    /\ invalidated' = invalidated \cup {h}
    /\ UNCHANGED <<itemVars, commitSlots, trackVars, timers, taskVars, epoch, em, expire,
                   announced, voteVars, crashed, verified, voted, aborted, credits, txs, finalized>>

\* A task the Oracle announced: epochRecord.UpdateTask.
TakeTask(t) ==
    /\ Alive
    /\ EmIdle /\ t \in announced
    /\ announced' = announced \ {t}
    /\ record' = [record EXCEPT !.tasks = @ \cup {t}]
    /\ UNCHANGED <<itemVars, commitSlots, trackVars, timers, taskVars, epoch, em, expire,
                   unscheduled, voteVars, crashed, ghostVars>>

\* UpdateEpoch, on the tick of the Event goroutine: the counter first ...
UpdateEpoch ==
    /\ Alive
    /\ EmIdle /\ epoch < EpochBound
    /\ epoch' = epoch + 1
    /\ EmTo("sendHeartbeat", None)
    /\ UNCHANGED <<itemVars, commitSlots, trackVars, timers, taskVars, record, expire,
                   inputVars, voteVars, crashed, ghostVars>>

\* ... then the heartbeat, when EpochHeartbeat has room, and the next record.
SendHeartbeat ==
    /\ Alive
    /\ em.pc = "sendHeartbeat"
    /\ Len(heartbeats) < 1
    /\ heartbeats' = Append(heartbeats, record.commits)
    /\ record' = Refresh(record)
    /\ EmDone
    /\ UNCHANGED <<itemVars, commitSlots, trackVars, timers, taskVars, epoch, expire,
                   inputVars, voting, waiting, tally, accepts, crashed, ghostVars>>

-----------------------------------------------------------------------------
(* Coordinator.sendHeartbeat and its VoteHandler.                          *)

TakeHeartbeat ==
    /\ Alive
    /\ voting = {} /\ waiting = {}
    /\ heartbeats # <<>>
    /\ voting' = Head(heartbeats)
    /\ heartbeats' = Tail(heartbeats)
    /\ waiting' = Node
    /\ UNCHANGED <<itemVars, commitSlots, trackVars, timers, taskVars, epoch, record, em,
                   expire, inputVars, tally, accepts, crashed, ghostVars>>

\* A node answers within the 5 seconds: it accepts some slots, refuses others
\* and may say nothing of the rest.
NodeVotes(n) ==
    /\ Alive
    /\ n \in waiting
    /\ waiting' = waiting \ {n}
    /\ \E yes \in SUBSET voting : \E no \in SUBSET (voting \ yes) :
        tally' = [i \in Item |->
                    [vote  |-> tally[i].vote + (IF i \in yes THEN 1 ELSE 0),
                     total |-> tally[i].total + (IF i \in yes \cup no THEN 1 ELSE 0)]]
    /\ UNCHANGED <<itemVars, commitSlots, trackVars, timers, taskVars, epoch, record, em,
                   expire, inputVars, heartbeats, voting, accepts, crashed, ghostVars>>

\* No connection, or the call fails or times out: the node counts in no total.
NodeFails(n) ==
    /\ Alive
    /\ n \in waiting
    /\ waiting' = waiting \ {n}
    /\ UNCHANGED <<itemVars, commitSlots, trackVars, timers, taskVars, epoch, record, em,
                   expire, inputVars, heartbeats, voting, tally, accepts, crashed, ghostVars>>

Accepted == {i \in voting : VotePasses(tally[i])}

CloseVotes ==
    /\ Alive
    /\ voting # {} /\ waiting = {}
    /\ accepts' = accepts \cup Accepted
    /\ voted' = voted \cup Accepted
    /\ voting' = {}
    /\ tally' = [i \in Item |-> [vote |-> 0, total |-> 0]]
    /\ UNCHANGED <<itemVars, commitSlots, trackVars, timers, taskVars, epoch, record, em,
                   expire, inputVars, heartbeats, waiting, crashed, verified, aborted, credits,
                   txs, finalized, invalidated>>

\* The VoteHandler, a goroutine of its own, sends a fake item with the hash.
SendJustified(i) ==
    /\ Alive
    /\ i \in accepts
    /\ CanSend
    /\ accepts' = accepts \ {i}
    /\ commitSlots' = Append(commitSlots, HashOf[i])
    /\ UNCHANGED <<itemVars, trackVars, timers, taskVars, epoch, record, em, expire,
                   inputVars, heartbeats, voting, waiting, tally, crashed, ghostVars>>

-----------------------------------------------------------------------------
(* The CollectExpire goroutine.                                            *)

ExpireTo(pc, i) == expire' = [pc |-> pc, slot |-> i]

\* An ExpireTask item of a task that is not finished (of a finished one nothing is
\* done): the rest of the task is sent to UnprocessedTasks ...
ExpireTask(t) ==
    /\ Alive
    /\ expire.pc = "wait"
    /\ remaining[t] > 0
    /\ ExpireTo("sendTask", None)
    /\ UNCHANGED <<itemVars, commitSlots, trackVars, timers, taskVars, epoch, record, em,
                   inputVars, voteVars, crashed, ghostVars>>

\* ... when the Scheduler, in TaskScheduling, has made room there: if ever.
SendTask ==
    /\ Alive
    /\ expire.pc = "sendTask"
    /\ ExpireTo("wait", None)
    /\ UNCHANGED <<itemVars, commitSlots, trackVars, timers, taskVars, epoch, record, em,
                   inputVars, voteVars, crashed, ghostVars>>

\* A minute has passed and an eliminator has put the item out.
ExpireSlot(i) ==
    /\ Alive
    /\ expire.pc = "wait"
    /\ i \in timers
    /\ timers' = timers \ {i}
    /\ ExpireTo(IF Check(i) THEN "delete" ELSE "setInvalid", i)
    /\ UNCHANGED <<itemVars, commitSlots, trackVars, taskVars, epoch, record, em,
                   inputVars, voteVars, crashed, ghostVars>>

ExpireSetInvalid ==
    /\ Alive
    /\ expire.pc = "setInvalid"
    /\ state' = [state EXCEPT ![expire.slot] = "invalid"]
    /\ aborted' = aborted \cup {expire.slot}
    /\ ExpireTo("send", expire.slot)
    /\ UNCHANGED <<slotEpoch, commitSlots, trackVars, timers, taskVars, epoch, record, em,
                   inputVars, voteVars, crashed, verified, voted, credits, txs, finalized,
                   invalidated>>

ExpireSend ==
    /\ Alive
    /\ expire.pc = "send"
    /\ CanSend
    /\ commitSlots' = Append(commitSlots, expire.slot)
    /\ ExpireTo("delete", expire.slot)
    /\ UNCHANGED <<itemVars, trackVars, timers, taskVars, epoch, record, em, inputVars,
                   voteVars, crashed, ghostVars>>

\* The entry of the hash is deleted, whichever track it holds by now.
ExpireDelete ==
    /\ Alive
    /\ expire.pc = "delete"
    /\ pending' = [pending EXCEPT ![HashOf[expire.slot]] = None]
    /\ ExpireTo("wait", None)
    /\ UNCHANGED <<itemVars, commitSlots, wonVote, hasProof, timers, taskVars, epoch,
                   record, em, inputVars, voteVars, crashed, ghostVars>>

\* pendingCommitSlot is a plain Go map: when the EpochManager reads or writes it
\* while CollectExpire deletes from it, the runtime may end the process.
EmTouchesPending ==
    \/ em.pc = "checkFinal"
    \/ /\ EmIdle /\ commitSlots # <<>>
       /\ \/ Head(commitSlots) \in Hash
          \/ Head(commitSlots) \in Item /\ state[Head(commitSlots)] = "undetermined"

MapFault ==
    /\ Alive
    /\ expire.pc = "delete"
    /\ EmTouchesPending
    /\ crashed' = TRUE
    /\ UNCHANGED <<itemVars, commitSlots, trackVars, timers, taskVars, epoch, record, em,
                   expire, inputVars, voteVars, ghostVars>>

-----------------------------------------------------------------------------
EpochManagerStep ==
    \/ TakeCommit \/ StartTimer \/ RecordCommit
    \/ TakeVote \/ CheckFinalized \/ SendFinalized
    \/ TakeFinalized \/ SetFinalized \/ TrackerCommit \/ RecordFinalize
    \/ TakeInvalid
    \/ \E h \in unscheduled : TakeUnscheduled(h)
    \/ \E t \in announced : TakeTask(t)
    \/ UpdateEpoch \/ SendHeartbeat

CoordinatorStep ==
    \/ TakeHeartbeat
    \/ \E n \in waiting : NodeVotes(n) \/ NodeFails(n)
    \/ CloseVotes
    \/ \E i \in accepts : SendJustified(i)

CollectExpireStep ==
    \/ \E t \in Tracked : ExpireTask(t)
    \/ SendTask
    \/ \E i \in timers : ExpireSlot(i)
    \/ ExpireSetInvalid \/ ExpireSend \/ ExpireDelete

Next ==
    \/ \E i \in Item : CommitSlot(i)
    \/ EpochManagerStep
    \/ CoordinatorStep
    \/ CollectExpireStep
    \/ MapFault \/ CertificateFault

Spec == Init /\ [][Next]_vars

(* Fairness.  A goroutine that can run does.  A select with several ready  *)
(* cases picks one at random, so no ready case is passed over for ever;    *)
(* goroutines that wait to send to a full channel are served in turn; an   *)
(* eliminator puts every item out once its minute has passed and            *)
(* CollectExpire reads it; sendHeartbeat gives each node 5 seconds.  Three  *)
(* things are owed by nobody here: the calls of the nodes (CommitSlot), the *)
(* room in UnprocessedTasks (SendTask), and the room for a timer while      *)
(* CollectExpire is kept from reading and the channels may be full.         *)
TakeSlot == TakeCommit \/ TakeVote \/ TakeFinalized \/ TakeInvalid

TimerFits == expire.pc = "wait" \/ Cardinality(timers) < TimerRoom

EpochManagerCanRun == em.pc = "startTimer" => TimerFits

Fairness ==
    /\ WF_vars(EpochManagerCanRun /\ EpochManagerStep)
    /\ SF_vars(TimerFits /\ StartTimer)
    /\ SF_vars(TakeSlot)
    /\ WF_vars(TakeHeartbeat \/ CloseVotes)
    /\ \A n \in Node : WF_vars(NodeVotes(n) \/ NodeFails(n))
    /\ \A i \in Item : SF_vars(SendJustified(i))
    /\ \A i \in Item : SF_vars(ExpireSlot(i))
    /\ WF_vars(ExpireSetInvalid \/ ExpireDelete)
    /\ SF_vars(ExpireSend)

FairSpec == Spec /\ Fairness

-----------------------------------------------------------------------------
State == {"absent", "undetermined", "finalize", "invalid"}
EmPc == {"select", "startTimer", "recordCommit", "checkFinal", "sendFinal", "setFinal", "credit",
         "recordFinal", "sendHeartbeat"}
EmAtSlot == EmPc \ {"select", "sendHeartbeat"}
ExpirePc == {"wait", "sendTask", "setInvalid", "send", "delete"}
Record == [id : Int, commits : SUBSET Item, finalizes : SUBSET Item,
           invalids : SUBSET Hash, tasks : SUBSET Task, process : Int]

ItemType ==
    /\ state \in [Item -> State]
    /\ slotEpoch \in [Item -> Int]
ChannelType == commitSlots \in Seq(Item \cup Hash) /\ Len(commitSlots) <= Capacity
TrackType ==
    /\ wonVote \in [Item -> BOOLEAN] /\ hasProof \in [Item -> BOOLEAN]
    /\ pending \in [Hash -> Item \cup {None}]
    /\ timers \subseteq Item
TaskType == remaining \in [Tracked -> Nat] /\ history \in [Tracked -> Int]
EpochType ==
    /\ epoch \in Int
    /\ record \in Record
    /\ unscheduled \subseteq Hash /\ announced \subseteq Task
EmType ==
    /\ em \in [pc : EmPc, slot : Item \cup {None}]
    /\ em.slot \in Item <=> em.pc \in EmAtSlot
ExpireType ==
    /\ expire \in [pc : ExpirePc, slot : Item \cup {None}]
    /\ expire.slot \in Item <=> expire.pc \notin {"wait", "sendTask"}
VoteType ==
    /\ heartbeats \in Seq(SUBSET Item) /\ Len(heartbeats) <= 1
    /\ voting \subseteq Item /\ waiting \subseteq Node /\ accepts \subseteq Item
    /\ tally \in [Item -> [vote : Nat, total : Nat]]
GhostType ==
    /\ crashed \in BOOLEAN
    /\ verified \subseteq Item /\ voted \subseteq Item /\ aborted \subseteq Item
    /\ finalized \subseteq Hash /\ invalidated \subseteq Hash
    /\ credits \in [Item -> Nat] /\ txs \in [Item -> Nat]

\* The type of every variable, and that a goroutine has a slot in hand exactly
\* inside the handlers that work on one.
TypeOK ==
    /\ ItemType /\ ChannelType /\ TrackType /\ TaskType /\ EpochType
    /\ EmType /\ ExpireType /\ VoteType /\ GhostType

VotedHash(h) == \E j \in voted : HashOf[j] = h

\* A slot may be finalized: its certificate was accepted, a vote on its hash
\* passed, and the tracker knows its task.
Justified(i) == i \in verified /\ VotedHash(HashOf[i]) /\ TaskOf[i] \in Tracked

FinalIsJustified ==
    \A i \in Item : state[i] = "finalize" \/ credits[i] > 0 => Justified(i)

TrackIsJustified ==
    /\ \A i \in Item : hasProof[i] => TaskOf[i] \in Reliable
    /\ \A i \in Item : wonVote[i] => VotedHash(HashOf[i])
    /\ \A h \in Hash : pending[h] # None => HashOf[pending[h]] = h /\ pending[h] \in verified

MessageIsJustified ==
    \A k \in 1 .. Len(commitSlots) : commitSlots[k] \in Hash => VotedHash(commitSlots[k])

\* CheckFinalized looks the hash up again and finds the track of WonVote or none.
HandIsJustified ==
    /\ em.pc \in {"startTimer", "recordCommit"} => em.slot \in verified
    /\ em.pc = "checkFinal" => /\ em.slot \in verified /\ VotedHash(HashOf[em.slot])
                               /\ pending[HashOf[em.slot]] \in {em.slot, None}
    /\ em.pc \in {"sendFinal", "setFinal", "credit", "recordFinal"} => Justified(em.slot)

RoundIsJustified ==
    /\ record.commits \subseteq verified /\ voting \subseteq verified
    /\ \A k \in 1 .. Len(heartbeats) : heartbeats[k] \subseteq verified
    /\ accepts \subseteq voted /\ voted \subseteq verified

\* Wherever the state of a slot says it is finalized, and wherever it was
\* credited, it was allowed to be; whatever is on its way there (the message of a
\* won vote, a track, a slot in the handler's hand, a commit in a record or a
\* heartbeat) already is.  So the error "Task does not exist in Tracker" cannot
\* occur, and no refused slot is voted on.
SlotsAreJustified ==
    /\ FinalIsJustified
    /\ TrackIsJustified
    /\ MessageIsJustified
    /\ HandIsJustified
    /\ RoundIsJustified

Resubmitted(i) == \E j \in Item \ {i} : HashOf[j] = HashOf[i] /\ state[j] # "absent"

\* EpochManager, WonVote and CollectExpire together credit a slot at most once,
\* unless its hash was committed by another call too, or CollectExpire gave it up
\* while its vote was on the way.
CreditedOnceUnlessRaced ==
    \A i \in Item : credits[i] > 1 => Resubmitted(i) \/ i \in aborted

\* No slot is told finalized to the nodes in one heartbeat ("keep the data") and
\* invalid in another ("delete it"), unless the coordinator reported it as not
\* scheduled, its hash was committed twice, or it was given up during its vote.
VerdictsAgreeUnlessRaced ==
    \A i \in Item : HashOf[i] \in finalized \cap invalidated =>
        HashOf[i] \in Unscheduled \/ Resubmitted(i) \/ i \in aborted

\* The chain hears of a slot exactly as often as the tracker was credited with
\* it: a FINALIZE message whose Commit fails makes no transaction, one whose
\* record entry fails (the state changed under the handler) still makes its own.
OneTransactionPerCredit ==
    \A i \in Item :
        credits[i] = txs[i] + (IF em = [pc |-> "recordFinal", slot |-> i] THEN 1 ELSE 0)

NegativeCredit(t) == \E i \in Item : TaskOf[i] = t /\ credits[i] > 0 /\ SizeOf[i] < 0

\* What the tracker lacks of a task and what it says was done stay in step with
\* the credited slots, over-delivery and double credits included.  IsFinish never
\* holds before the credited sizes reach the size of the task; it holds as soon as
\* they do, unless a slot of a negative size was credited: Size stops at 0 and
\* History does not, so that they part when such a slot takes both back.
TrackerAccounting ==
    \A t \in Tracked :
        /\ history[t] = MapThenSumSet(LAMBDA i : credits[i] * SizeOf[i],
                                      {i \in Item : TaskOf[i] = t})
        /\ remaining[t] >= SizeAfter(Total[t], history[t])
        /\ remaining[t] = SizeAfter(Total[t], history[t]) \/ NegativeCredit(t)

\* Three ways to wait for ever.  The EpochManager sends to the full channel that
\* only it reads; CollectExpire sends a task to UnprocessedTasks, which nobody
\* reads in the wedge of TaskScheduling; the EpochManager has no room for a timer,
\* because CollectExpire waits to send to CommitSlots, which is full because the
\* EpochManager does not read.
SelfBlocked == em.pc = "sendFinal" /\ Len(commitSlots) = Capacity
ExpiryBlocked == expire.pc = "sendTask"
TimerBlocked ==
    /\ em.pc = "startTimer" /\ expire.pc = "send"
    /\ ~TimerFits /\ Len(commitSlots) = Capacity

\* Every commit the master took gets a verdict (credited, or told invalid), unless
\* the process dies or one of those waits is for ever.
Settled(i) == credits[i] > 0 \/ HashOf[i] \in invalidated

EverySlotSettles ==
    \A i \in Item :
        state[i] # "absent" ~>
            Settled(i) \/ crashed \/ SelfBlocked \/ [](ExpiryBlocked \/ TimerBlocked)

\* The promise of CreditLedger.
Ledger == INSTANCE CreditLedger
    WITH verified <- verified, voted <- voted, credits <- credits, remaining <- remaining
ImplementsLedger == Ledger!Spec

-----------------------------------------------------------------------------
(* What the repository says of itself and the code does not do.            *)

\* tracker.go:79, "if it was submitted already, skip it": a slot that is voted
\* for again is not finalized again.
FinalizedSlotIsSkipped == \A i \in Item \ aborted : credits[i] <= 1

\* EpochManager.go:52 and track.go:63, "if no proof is needed, it is done": once
\* the vote of such a slot was handled, the slot is final.
VoteSufficesWithoutProof ==
    \A i \in Item :
        (EmIdle /\ wonVote[i] /\ TaskOf[i] \in Tracked \ Reliable /\ i \notin aborted)
            => state[i] = "finalize"

\* vote.go:24, "the acceptances received must be more than k": at least one node
\* accepted a slot whose vote passed.
AcceptedBySomeNode == [][\A i \in voted' \ voted : tally[i].vote > 0]_vars

\* oracle.go:93, "the epoch ids of slots and other data agree": a slot carries the
\* id of the epoch record that lists it as finalized.
SlotEpochIsRecordId == \A i \in record.finalizes : i \notin aborted => slotEpoch[i] = record.id
=============================================================================
