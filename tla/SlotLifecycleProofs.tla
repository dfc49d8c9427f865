------------------------ MODULE SlotLifecycleProofs ------------------------
(* Facts about SlotLifecycle for every number of nodes, calls, hashes and  *)
(* tasks, every channel capacity and every number of epochs.               *)
EXTENDS SlotLifecycle, FiniteSums, TLAPS

\* Taking the head of a queue leaves a queue of the same kind, no longer.
LEMMA TailFacts ==
    ASSUME NEW S, NEW q \in Seq(S), q # <<>>
    PROVE  /\ Head(q) \in S
           /\ Tail(q) \in Seq(S)
           /\ Len(Tail(q)) = Len(q) - 1
           /\ \A k \in 1 .. Len(Tail(q)) : Tail(q)[k] = q[k + 1] /\ k + 1 \in 1 .. Len(q)
           /\ 1 \in 1 .. Len(q) /\ Head(q) = q[1]
  OBVIOUS

\* Sending to a queue keeps what is in it and adds the message at its end.
LEMMA AppendFacts ==
    ASSUME NEW S, NEW q \in Seq(S), NEW m \in S
    PROVE  /\ Append(q, m) \in Seq(S)
           /\ Len(Append(q, m)) = Len(q) + 1
           /\ \A k \in 1 .. Len(Append(q, m)) :
                \/ k \in 1 .. Len(q) /\ Append(q, m)[k] = q[k]
                \/ k = Len(q) + 1 /\ Append(q, m)[k] = m
  OBVIOUS

\* The tracker's subtraction stays within the naturals.
LEMMA SizeAfterType ==
    ASSUME NEW a \in Nat, NEW b \in Int
    PROVE  SizeAfter(a, b) \in Nat
  BY DEF SizeAfter

LEMMA InitType == Init => TypeOK
<1> SUFFICES ASSUME Init PROVE TypeOK
  OBVIOUS
<1> USE SlotAssumption DEF Init
<1>1. ItemType
  BY DEF ItemType, State
<1>2. ChannelType
  BY DEF ChannelType
<1>3. TrackType
  BY DEF TrackType
<1>4. TaskType
  BY DEF TaskType
<1>5. EpochType
  BY DEF EpochType, NewRecord, Record
<1>6. EmType
  BY DEF EmType, EmPc, EmAtSlot
<1>7. ExpireType
  BY DEF ExpireType, ExpirePc
<1>8. VoteType
  BY DEF VoteType
<1>9. GhostType
  BY DEF GhostType
<1> QED BY <1>1, <1>2, <1>3, <1>4, <1>5, <1>6, <1>7, <1>8, <1>9 DEF TypeOK


\* A part of the type invariant survives a step that leaves its variables alone.
LEMMA TypeKept ==
    ASSUME TypeOK
    PROVE  /\ UNCHANGED itemVars => ItemType'
           /\ UNCHANGED commitSlots => ChannelType'
           /\ UNCHANGED <<trackVars, timers>> => TrackType'
           /\ UNCHANGED taskVars => TaskType'
           /\ UNCHANGED <<epoch, record, inputVars>> => EpochType'
           /\ UNCHANGED em => EmType'
           /\ UNCHANGED expire => ExpireType'
           /\ UNCHANGED voteVars => VoteType'
           /\ UNCHANGED <<crashed, ghostVars>> => GhostType'
<1> USE DEF TypeOK
<1>1. UNCHANGED itemVars => ItemType'
  BY DEF ItemType, itemVars
<1>2. UNCHANGED commitSlots => ChannelType'
  BY DEF ChannelType
<1>3. UNCHANGED <<trackVars, timers>> => TrackType'
  BY DEF TrackType, trackVars
<1>4. UNCHANGED taskVars => TaskType'
  BY DEF TaskType, taskVars
<1>5. UNCHANGED <<epoch, record, inputVars>> => EpochType'
  BY DEF EpochType, inputVars
<1>6. UNCHANGED em => EmType'
  BY DEF EmType
<1>7. UNCHANGED expire => ExpireType'
  BY DEF ExpireType
<1>8. UNCHANGED voteVars => VoteType'
  BY DEF VoteType, voteVars
<1>9. UNCHANGED <<crashed, ghostVars>> => GhostType'
  BY DEF GhostType, ghostVars
<1> QED BY <1>1, <1>2, <1>3, <1>4, <1>5, <1>6, <1>7, <1>8, <1>9

\* Where the goroutine has a slot in hand.
LEMMA EmSlot == ASSUME TypeOK, em.pc \in EmAtSlot PROVE em.slot \in Item
  BY DEF TypeOK, EmType

LEMMA ExpireSlotInHand ==
    ASSUME TypeOK, expire.pc \notin {"wait", "sendTask"}
    PROVE  expire.slot \in Item
  BY DEF TypeOK, ExpireType

\* The EpochManager goes where a handler sends it.
LEMMA EmToType ==
    ASSUME NEW pc \in EmPc, NEW i \in Item \cup {None}, EmTo(pc, i),
           i \in Item <=> pc \in EmAtSlot
    PROVE  EmType'
  BY DEF EmTo, EmType

LEMMA EmDoneType == EmDone => EmType'
  BY SlotAssumption DEF EmDone, EmTo, EmType, EmPc, EmAtSlot

\* A message taken from the channel leaves it well typed, and so does one sent.
LEMMA Received ==
    ASSUME TypeOK, commitSlots # <<>>, commitSlots' = Tail(commitSlots)
    PROVE  ChannelType' /\ Head(commitSlots) \in Item \cup Hash
  BY TailFacts, SlotAssumption DEF TypeOK, ChannelType

LEMMA Sent ==
    ASSUME TypeOK, CanSend, NEW m \in Item \cup Hash, commitSlots' = Append(commitSlots, m)
    PROVE  ChannelType'
  BY AppendFacts, SlotAssumption DEF TypeOK, ChannelType, CanSend

\* Every step of the EpochManager goroutine keeps the types.
LEMMA EpochManagerType == TypeOK /\ EpochManagerStep => TypeOK'
<1> SUFFICES ASSUME TypeOK, EpochManagerStep PROVE TypeOK'
  OBVIOUS
<1> USE SlotAssumption, TypeKept
<1>1. CASE TakeCommit
  <2> DEFINE i == Head(commitSlots)
  <2> USE <1>1 DEF TakeCommit
  <2>1. i \in Item /\ state[i] = "undetermined" /\ ChannelType'
    BY Received
  <2>2. HashOf[i] \in Hash /\ CheckIsReliable(i) \in BOOLEAN
    BY <2>1 DEF CheckIsReliable
  <2>3. CASE AcceptCommit(i)
    <3> USE <2>3 DEF AcceptCommit
    <3>1. ItemType'
      BY DEF TypeOK, ItemType
    <3>2. TrackType'
      BY <2>1, <2>2 DEF TypeOK, TrackType
    <3>3. EmType'
      BY <2>1, EmToType DEF EmPc, EmAtSlot
    <3>4. GhostType'
      BY <2>1 DEF TypeOK, GhostType
    <3> QED BY <2>1, <3>1, <3>2, <3>3, <3>4 DEF TypeOK
  <2>4. CASE RefuseCommit(i)
    <3> USE <2>4 DEF RefuseCommit
    <3>1. ItemType'
      BY <2>1 DEF TypeOK, ItemType, State
    <3>2. EpochType'
      BY <2>2 DEF TypeOK, EpochType, Record, inputVars
    <3>3. GhostType'
      BY <2>2 DEF TypeOK, GhostType
    <3> QED BY <2>1, <3>1, <3>2, <3>3 DEF TypeOK
  <2> QED BY <2>3, <2>4
<1>15. CASE StartTimer
  <2> USE <1>15 DEF StartTimer
  <2>1. em.slot \in Item
    BY EmSlot DEF EmAtSlot, EmPc
  <2>2. TrackType'
    BY <2>1 DEF TypeOK, TrackType, trackVars
  <2>3. EmType'
    BY <2>1, EmToType DEF EmPc, EmAtSlot
  <2> QED BY <2>2, <2>3 DEF TypeOK
<1>2. CASE RecordCommit
  <2> USE <1>2 DEF RecordCommit
  <2>1. em.slot \in Item
    BY EmSlot DEF EmAtSlot, EmPc
  <2>2. EpochType'
    BY <2>1 DEF TypeOK, EpochType, Record, PutItem, inputVars
  <2> QED BY <2>2, EmDoneType DEF TypeOK
<1>3. CASE TakeVote
  <2> DEFINE i == pending[Head(commitSlots)]
  <2> USE <1>3 DEF TakeVote
  <2>1. Head(commitSlots) \in Hash /\ i \in Item \cup {None} /\ ChannelType'
    BY Received DEF TypeOK, TrackType
  <2>2. CASE UNCHANGED <<em, wonVote>>
    BY <2>1, <2>2 DEF TypeOK, trackVars
  <2>3. CASE i \in Item /\ wonVote' = [wonVote EXCEPT ![i] = TRUE] /\ EmTo("checkFinal", i)
    <3>1. TrackType'
      BY <2>3 DEF TypeOK, TrackType
    <3>2. EmType'
      BY <2>3, EmToType DEF EmPc, EmAtSlot
    <3> QED BY <2>1, <3>1, <3>2 DEF TypeOK
  <2> QED BY <2>1, <2>2, <2>3
<1>4. CASE CheckFinalized
  <2> USE <1>4 DEF CheckFinalized
  <2>1. em.slot \in Item
    BY EmSlot DEF EmAtSlot, EmPc
  <2>2. ItemType'
    BY <2>1 DEF TypeOK, ItemType, State
  <2>3. EmType'
    BY <2>1, EmDoneType, EmToType DEF EmPc, EmAtSlot
  <2>4. GhostType'
    BY DEF TypeOK, GhostType, ghostVars
  <2> QED BY <2>2, <2>3, <2>4 DEF TypeOK
<1>5. CASE SendFinalized
  <2> USE <1>5 DEF SendFinalized
  <2>1. em.slot \in Item
    BY EmSlot DEF EmAtSlot, EmPc
  <2>2. ChannelType'
    BY <2>1, Sent
  <2> QED BY <2>2, EmDoneType DEF TypeOK
<1>6. CASE TakeFinalized
  <2> USE <1>6 DEF TakeFinalized
  <2>1. Head(commitSlots) \in Item /\ ChannelType'
    BY Received
  <2>2. EmType'
    BY <2>1, EmToType DEF EmPc, EmAtSlot
  <2> QED BY <2>1, <2>2 DEF TypeOK
<1>7. CASE SetFinalized
  <2> USE <1>7 DEF SetFinalized
  <2>1. em.slot \in Item
    BY EmSlot DEF EmAtSlot, EmPc
  <2>2. ItemType'
    BY <2>1 DEF TypeOK, ItemType, EpochType, State
  <2>3. EmType'
    BY <2>1, EmToType DEF EmPc, EmAtSlot
  <2> QED BY <2>2, <2>3 DEF TypeOK
<1>8. CASE TrackerCommit
  <2> DEFINE i == em.slot
  <2> USE <1>8 DEF TrackerCommit
  <2>1. i \in Item
    BY EmSlot DEF EmAtSlot, EmPc
  <2>2. CASE CommitFails(i)
    BY <2>2, EmDoneType DEF AfterFailedCommit, TypeOK, GhostType, ghostVars
  <2>3. CASE ~CommitFails(i)
    <3> USE <2>3 DEF Credit
    <3>1. TaskOf[i] \in Tracked /\ SizeOf[i] \in Int
      BY <2>1 DEF CommitFails
    <3>2. TaskType'
      <4>1. remaining[TaskOf[i]] \in Nat /\ history[TaskOf[i]] + SizeOf[i] \in Int
        BY <3>1 DEF TypeOK, TaskType
      <4>2. SizeAfter(remaining[TaskOf[i]], SizeOf[i]) \in Nat
        BY <3>1, <4>1, SizeAfterType
      <4> QED BY <3>1, <4>1, <4>2 DEF TypeOK, TaskType
    <3>3. EmType'
      BY <2>1, EmToType DEF EmPc, EmAtSlot
    <3>4. GhostType'
      BY <2>1 DEF TypeOK, GhostType
    <3> QED BY <3>2, <3>3, <3>4 DEF TypeOK
  <2> QED BY <2>2, <2>3
<1>9. CASE RecordFinalize
  <2> DEFINE i == em.slot
  <2> USE <1>9 DEF RecordFinalize
  <2>1. i \in Item /\ HashOf[i] \in Hash /\ SizeOf[i] \in Int
    BY EmSlot DEF EmAtSlot, EmPc
  <2>2. EpochType'
    <3>1. CASE state[i] = "finalize"
      <4>1. record \in Record /\ PutItem(record.finalizes, i) \in SUBSET Item
            /\ record.process + SizeOf[i] \in Int
        BY <2>1 DEF TypeOK, EpochType, Record, PutItem
      <4>2. record' \in Record
        BY <3>1, <4>1 DEF Record
      <4> QED BY <4>2 DEF TypeOK, EpochType, inputVars
    <3>2. CASE state[i] # "finalize"
      BY <3>2 DEF TypeOK, EpochType, inputVars
    <3> QED BY <3>1, <3>2
  <2>3. ItemType'
    BY <2>1 DEF TypeOK, ItemType, State
  <2>4. GhostType'
    <3>1. finalized' \subseteq Hash
      BY <2>1 DEF TypeOK, GhostType
    <3>2. txs' \in [Item -> Nat]
      BY <2>1 DEF TypeOK, GhostType
    <3> QED BY <3>1, <3>2 DEF TypeOK, GhostType
  <2> QED BY <2>2, <2>3, <2>4, EmDoneType DEF TypeOK
<1>10. CASE TakeInvalid
  <2> USE <1>10 DEF TakeInvalid
  <2>1. Head(commitSlots) \in Item /\ HashOf[Head(commitSlots)] \in Hash /\ ChannelType'
    BY Received
  <2>2. EpochType'
    BY <2>1 DEF TypeOK, EpochType, Record, inputVars
  <2>3. GhostType'
    BY <2>1 DEF TypeOK, GhostType
  <2> QED BY <2>1, <2>2, <2>3 DEF TypeOK
<1>11. ASSUME NEW h \in unscheduled, TakeUnscheduled(h) PROVE TypeOK'
  <2> USE <1>11 DEF TakeUnscheduled
  <2>1. h \in Hash
    BY DEF TypeOK, EpochType
  <2>2. EpochType'
    BY <2>1 DEF TypeOK, EpochType, Record
  <2>3. GhostType'
    BY <2>1 DEF TypeOK, GhostType
  <2> QED BY <2>2, <2>3 DEF TypeOK
<1>12. ASSUME NEW t \in announced, TakeTask(t) PROVE TypeOK'
  <2> USE <1>12 DEF TakeTask
  <2>1. EpochType'
    BY DEF TypeOK, EpochType, Record
  <2> QED BY <2>1 DEF TypeOK
<1>13. CASE UpdateEpoch
  <2> USE <1>13 DEF UpdateEpoch
  <2>1. EpochType'
    BY DEF TypeOK, EpochType, inputVars
  <2>2. EmType'
    BY EmToType DEF EmPc, EmAtSlot
  <2> QED BY <2>1, <2>2 DEF TypeOK
<1>14. CASE SendHeartbeat
  <2> USE <1>14 DEF SendHeartbeat
  <2>1. EpochType'
    BY DEF TypeOK, EpochType, Record, Refresh, NewRecord, inputVars
  <2>2. VoteType'
    <3>1. record.commits \in SUBSET Item
      BY DEF TypeOK, EpochType, Record
    <3> QED BY <3>1, AppendFacts DEF TypeOK, VoteType
  <2> QED BY <2>1, <2>2, EmDoneType DEF TypeOK
<1> QED
  BY <1>1, <1>2, <1>3, <1>4, <1>5, <1>6, <1>7, <1>8, <1>9, <1>10, <1>11, <1>12, <1>13, <1>14,
     <1>15
  DEF EpochManagerStep

\* So does every step of the coordinator's heartbeat round.
LEMMA CoordinatorType == TypeOK /\ CoordinatorStep => TypeOK'
<1> SUFFICES ASSUME TypeOK, CoordinatorStep PROVE TypeOK'
  OBVIOUS
<1> USE SlotAssumption, TypeKept
<1>1. CASE TakeHeartbeat
  <2> USE <1>1 DEF TakeHeartbeat
  <2>1. VoteType'
    BY TailFacts DEF TypeOK, VoteType
  <2> QED BY <2>1 DEF TypeOK
<1>2. ASSUME NEW n \in waiting, NodeVotes(n) PROVE TypeOK'
  <2> USE <1>2 DEF NodeVotes
  <2>1. tally' \in [Item -> [vote : Nat, total : Nat]]
    BY DEF TypeOK, VoteType
  <2>2. VoteType'
    BY <2>1 DEF TypeOK, VoteType
  <2> QED BY <2>2 DEF TypeOK
<1>3. ASSUME NEW n \in waiting, NodeFails(n) PROVE TypeOK'
  <2> USE <1>3 DEF NodeFails
  <2>1. VoteType'
    BY DEF TypeOK, VoteType
  <2> QED BY <2>1 DEF TypeOK
<1>4. CASE CloseVotes
  <2> USE <1>4 DEF CloseVotes, Accepted
  <2>1. VoteType'
    BY DEF TypeOK, VoteType
  <2>2. GhostType'
    BY DEF TypeOK, VoteType, GhostType
  <2> QED BY <2>1, <2>2 DEF TypeOK
<1>5. ASSUME NEW i \in accepts, SendJustified(i) PROVE TypeOK'
  <2> USE <1>5 DEF SendJustified
  <2>1. HashOf[i] \in Hash
    BY DEF TypeOK, VoteType
  <2>2. ChannelType'
    BY <2>1, Sent
  <2>3. VoteType'
    BY DEF TypeOK, VoteType
  <2> QED BY <2>2, <2>3 DEF TypeOK
<1> QED BY <1>1, <1>2, <1>3, <1>4, <1>5 DEF CoordinatorStep

\* And so does every step of CollectExpire.
LEMMA CollectExpireType == TypeOK /\ CollectExpireStep => TypeOK'
<1> SUFFICES ASSUME TypeOK, CollectExpireStep PROVE TypeOK'
  OBVIOUS
<1> USE SlotAssumption, TypeKept
<1>1. ASSUME NEW i \in timers, ExpireSlot(i) PROVE TypeOK'
  <2> USE <1>1 DEF ExpireSlot
  <2>1. TrackType' /\ i \in Item
    BY DEF TypeOK, TrackType, trackVars
  <2>2. ExpireType'
    BY <2>1 DEF ExpireTo, ExpireType, ExpirePc
  <2> QED BY <2>1, <2>2 DEF TypeOK
<1>2. CASE ExpireSetInvalid
  <2> USE <1>2 DEF ExpireSetInvalid
  <2>1. expire.slot \in Item
    BY ExpireSlotInHand
  <2>2. ItemType'
    BY DEF TypeOK, ItemType, State
  <2>3. ExpireType'
    BY <2>1 DEF ExpireTo, ExpireType, ExpirePc
  <2>4. GhostType'
    BY <2>1 DEF TypeOK, GhostType
  <2> QED BY <2>2, <2>3, <2>4 DEF TypeOK
<1>3. CASE ExpireSend
  <2> USE <1>3 DEF ExpireSend
  <2>1. expire.slot \in Item
    BY ExpireSlotInHand
  <2>2. ChannelType'
    BY <2>1, Sent
  <2>3. ExpireType'
    BY <2>1 DEF ExpireTo, ExpireType, ExpirePc
  <2> QED BY <2>2, <2>3 DEF TypeOK
<1>4. CASE ExpireDelete
  <2> USE <1>4 DEF ExpireDelete
  <2>1. TrackType'
    BY DEF TypeOK, TrackType
  <2>2. ExpireType'
    BY DEF ExpireTo, ExpireType, ExpirePc
  <2> QED BY <2>1, <2>2 DEF TypeOK
<1>5. ASSUME (\E t \in Tracked : ExpireTask(t)) \/ SendTask PROVE TypeOK'
  <2>1. ExpireType'
    BY <1>5 DEF ExpireTask, SendTask, ExpireTo, ExpireType, ExpirePc
  <2>2. UNCHANGED <<itemVars, commitSlots, trackVars, timers, taskVars, epoch, record, em,
                    inputVars, voteVars, crashed, ghostVars>>
    BY <1>5 DEF ExpireTask, SendTask
  <2> QED BY <2>1, <2>2 DEF TypeOK
<1> QED BY <1>1, <1>2, <1>3, <1>4, <1>5 DEF CollectExpireStep

\* And every other step.
LEMMA StepType == TypeOK /\ [Next]_vars => TypeOK'
<1> SUFFICES ASSUME TypeOK, [Next]_vars PROVE TypeOK'
  OBVIOUS
<1> USE SlotAssumption, TypeKept
<1>1. ASSUME NEW i \in Item, CommitSlot(i) PROVE TypeOK'
  <2> USE <1>1 DEF CommitSlot
  <2>1. ItemType'
    BY DEF TypeOK, ItemType, State
  <2>2. ChannelType'
    BY Sent
  <2> QED BY <2>1, <2>2 DEF TypeOK
<1>2. CASE MapFault \/ CertificateFault
  <2> USE <1>2 DEF MapFault, CertificateFault
  <2>1. GhostType'
    BY DEF TypeOK, GhostType, ghostVars
  <2> QED BY <2>1 DEF TypeOK
<1>3. CASE UNCHANGED vars
  BY <1>3 DEF TypeOK, vars
<1> QED
  BY <1>1, <1>2, <1>3, EpochManagerType, CoordinatorType, CollectExpireType DEF Next

\* The variables have their types, and each of the two goroutines that work on
\* slots has one in hand exactly inside the handlers that need it.
THEOREM TypeCorrect == Spec => []TypeOK
  BY InitType, StepType, PTL DEF Spec

-----------------------------------------------------------------------------
(* Which slots are final.  TypeOK /\ SlotsAreJustified is inductive: the    *)
(* parts about messages, tracks and the slot in hand are the strengthening  *)
(* that the part about final slots needs.                                   *)

\* What was verified and voted stays so.
Grows == verified \subseteq verified' /\ voted \subseteq voted'

LEMMA VotedHashGrows ==
    ASSUME Grows, NEW h, VotedHash(h)
    PROVE  VotedHash(h)'
  BY DEF Grows, VotedHash

LEMMA JustifiedGrows ==
    ASSUME Grows, NEW i, Justified(i)
    PROVE  Justified(i)'
  BY VotedHashGrows DEF Grows, Justified

\* A part of the invariant survives a step that leaves alone what it speaks of.
LEMMA JustifiedKept ==
    ASSUME SlotsAreJustified, Grows
    PROVE  /\ UNCHANGED <<state, credits>> => FinalIsJustified'
           /\ UNCHANGED trackVars => TrackIsJustified'
           /\ UNCHANGED commitSlots => MessageIsJustified'
           /\ UNCHANGED <<em, pending>> => HandIsJustified'
           /\ UNCHANGED <<record, voteVars, voted>> => RoundIsJustified'
<1> USE VotedHashGrows, JustifiedGrows DEF SlotsAreJustified
<1>1. UNCHANGED <<state, credits>> => FinalIsJustified'
  BY DEF FinalIsJustified
<1>2. UNCHANGED trackVars => TrackIsJustified'
  BY DEF TrackIsJustified, trackVars, Grows
<1>3. UNCHANGED commitSlots => MessageIsJustified'
  BY DEF MessageIsJustified
<1>4. UNCHANGED <<em, pending>> => HandIsJustified'
  BY DEF HandIsJustified, Grows
<1>5. UNCHANGED <<record, voteVars, voted>> => RoundIsJustified'
  BY DEF RoundIsJustified, Grows, voteVars
<1> QED BY <1>1, <1>2, <1>3, <1>4, <1>5

\* A message taken leaves the others justified; one sent joins them.
LEMMA ReceivedJustified ==
    ASSUME TypeOK, MessageIsJustified, Grows, commitSlots # <<>>,
           commitSlots' = Tail(commitSlots)
    PROVE  /\ MessageIsJustified'
           /\ Head(commitSlots) \in Hash => VotedHash(Head(commitSlots))
<1>1. commitSlots \in Seq(Item \cup Hash)
  BY DEF TypeOK, ChannelType
<1> QED BY <1>1, TailFacts, VotedHashGrows DEF MessageIsJustified

LEMMA SentJustified ==
    ASSUME TypeOK, MessageIsJustified, Grows, NEW m \in Item \cup Hash,
           commitSlots' = Append(commitSlots, m), m \in Hash => VotedHash(m)
    PROVE  MessageIsJustified'
<1>1. commitSlots \in Seq(Item \cup Hash)
  BY DEF TypeOK, ChannelType
<1> QED BY <1>1, AppendFacts, VotedHashGrows DEF MessageIsJustified

\* Every step of the EpochManager keeps the slots justified.
LEMMA EpochManagerJustified ==
    TypeOK /\ SlotsAreJustified /\ EpochManagerStep => SlotsAreJustified'
<1> SUFFICES ASSUME TypeOK, SlotsAreJustified, EpochManagerStep PROVE SlotsAreJustified'
  OBVIOUS
<1> USE SlotAssumption, JustifiedKept
<1>1. CASE TakeCommit
  <2> DEFINE i == Head(commitSlots)
  <2> USE <1>1 DEF TakeCommit
  <2>1. Grows
    BY DEF AcceptCommit, RefuseCommit, Grows
  <2>2. i \in Item /\ HashOf[i] \in Hash /\ MessageIsJustified'
    BY <2>1, ReceivedJustified DEF SlotsAreJustified
  <2>3. RoundIsJustified'
    <3>1. /\ UNCHANGED <<voteVars, voted>>
          /\ record'.commits = record.commits
      BY DEF AcceptCommit, RefuseCommit, TypeOK, EpochType, Record
    <3> QED BY <2>1, <3>1 DEF SlotsAreJustified, RoundIsJustified, Grows, voteVars
  <2>4. CASE AcceptCommit(i)
    <3> USE <2>4 DEF AcceptCommit
    <3>1. FinalIsJustified'
      BY <2>1
    <3>2. TrackIsJustified'
      <4>1. hasProof' = [hasProof EXCEPT ![i] = CheckIsReliable(i)]
            /\ pending' = [pending EXCEPT ![HashOf[i]] = i] /\ i \in verified'
        OBVIOUS
      <4>2. \A j \in Item : hasProof'[j] => TaskOf[j] \in Reliable
        BY <2>2 DEF TypeOK, TrackType, CheckIsReliable, SlotsAreJustified, TrackIsJustified
      <4>3. \A j \in Item : wonVote'[j] => VotedHash(HashOf[j])'
        BY <2>1, VotedHashGrows DEF SlotsAreJustified, TrackIsJustified
      <4>4. \A h \in Hash : pending'[h] # None => HashOf[pending'[h]] = h /\ pending'[h] \in verified'
        BY <2>1, <2>2, <4>1 DEF TypeOK, TrackType, SlotsAreJustified, TrackIsJustified, Grows
      <4> QED BY <4>2, <4>3, <4>4 DEF TrackIsJustified
    <3>3. HandIsJustified'
      BY DEF EmTo, HandIsJustified
    <3> QED BY <2>2, <2>3, <3>1, <3>2, <3>3 DEF SlotsAreJustified
  <2>5. CASE RefuseCommit(i)
    <3> USE <2>5 DEF RefuseCommit
    <3>1. FinalIsJustified'
      BY <2>1, <2>2, JustifiedGrows DEF TypeOK, ItemType, SlotsAreJustified, FinalIsJustified
    <3>2. TrackIsJustified' /\ HandIsJustified'
      BY <2>1 DEF trackVars
    <3> QED BY <2>2, <2>3, <3>1, <3>2 DEF SlotsAreJustified
  <2> QED BY <2>4, <2>5
<1>15. CASE StartTimer
  <2> USE <1>15 DEF StartTimer
  <2>1. Grows
    BY DEF Grows, ghostVars
  <2>2. HandIsJustified'
    BY DEF EmTo, SlotsAreJustified, HandIsJustified, ghostVars
  <2> QED BY <2>1, <2>2 DEF SlotsAreJustified, itemVars, trackVars, ghostVars
<1>2. CASE RecordCommit
  <2> USE <1>2 DEF RecordCommit
  <2>1. Grows
    BY DEF Grows, ghostVars
  <2>2. RoundIsJustified'
    <3>1. em.slot \in verified /\ record.commits \subseteq verified
      BY DEF SlotsAreJustified, HandIsJustified, RoundIsJustified
    <3>2. record'.commits \subseteq verified
      BY <3>1 DEF PutItem, TypeOK, EpochType, Record
    <3> QED BY <3>2 DEF SlotsAreJustified, RoundIsJustified, voteVars, ghostVars
  <2>3. HandIsJustified'
    BY DEF EmDone, EmTo, HandIsJustified
  <2> QED BY <2>1, <2>2, <2>3 DEF SlotsAreJustified, itemVars, ghostVars
<1>3. CASE TakeVote
  <2> USE <1>3 DEF TakeVote
  <2> PICK h : h = Head(commitSlots)
    OBVIOUS
  <2>1. Grows
    BY DEF Grows, ghostVars
  <2>2. h \in Hash /\ VotedHash(h) /\ MessageIsJustified'
    BY <2>1, ReceivedJustified DEF SlotsAreJustified
  <2>3. VotedHash(h)'
    BY <2>1, <2>2, VotedHashGrows
  <2>4. CASE UNCHANGED <<em, wonVote>>
    BY <2>1, <2>2, <2>4 DEF SlotsAreJustified, itemVars, trackVars, ghostVars
  <2>5. CASE pending[h] # None /\ wonVote' = [wonVote EXCEPT ![pending[h]] = TRUE]
             /\ EmTo("checkFinal", pending[h])
    <3> PICK i : i = pending[h]
      OBVIOUS
    <3>1. i \in Item /\ HashOf[i] = h /\ i \in verified
      BY <2>2, <2>5 DEF TypeOK, TrackType, SlotsAreJustified, TrackIsJustified
    <3>2. TrackIsJustified'
      BY <2>1, <2>3, <2>5, <3>1, VotedHashGrows
      DEF TypeOK, TrackType, SlotsAreJustified, TrackIsJustified, ghostVars
    <3>3. HandIsJustified'
      BY <2>3, <2>5, <3>1 DEF EmTo, HandIsJustified, ghostVars
    <3> QED BY <2>1, <2>2, <3>2, <3>3 DEF SlotsAreJustified, itemVars, ghostVars
  <2> QED BY <2>4, <2>5
<1>4. CASE CheckFinalized
  <2> USE <1>4 DEF CheckFinalized
  <2> PICK i, found : i = em.slot /\ found = pending[HashOf[i]]
    OBVIOUS
  <2>1. Grows
    BY DEF Grows, ghostVars
  <2>2. i \in Item /\ i \in verified /\ VotedHash(HashOf[i]) /\ found \in {i, None}
    BY EmSlot DEF EmAtSlot, EmPc, SlotsAreJustified, HandIsJustified
  <2>3. CASE found # None /\ Check(found)
    <3>1. found = i /\ TaskOf[i] \in Tracked
      BY <2>2, <2>3 DEF Check, SlotsAreJustified, TrackIsJustified
    <3>2. Justified(i)'
      BY <2>1, <2>2, <3>1, JustifiedGrows DEF Justified
    <3>3. FinalIsJustified'
      BY <2>1, <2>2, <3>2, JustifiedGrows
      DEF TypeOK, ItemType, SlotsAreJustified, FinalIsJustified, ghostVars
    <3>4. HandIsJustified'
      BY <2>3, <3>2 DEF EmTo, HandIsJustified
    <3> QED BY <2>1, <3>3, <3>4 DEF SlotsAreJustified, ghostVars
  <2>4. CASE ~(found # None /\ Check(found))
    <3>1. HandIsJustified'
      BY <2>4 DEF EmDone, EmTo, HandIsJustified
    <3> QED BY <2>1, <2>4, <3>1 DEF SlotsAreJustified, ghostVars
  <2> QED BY <2>3, <2>4
<1>5. CASE SendFinalized
  <2> USE <1>5 DEF SendFinalized
  <2>1. Grows
    BY DEF Grows, ghostVars
  <2>2. MessageIsJustified'
    BY <2>1, SentJustified, EmSlot DEF EmAtSlot, EmPc, SlotsAreJustified
  <2>3. HandIsJustified'
    BY DEF EmDone, EmTo, HandIsJustified
  <2> QED BY <2>1, <2>2, <2>3 DEF SlotsAreJustified, itemVars, ghostVars
<1>6. CASE TakeFinalized
  <2> USE <1>6 DEF TakeFinalized
  <2> PICK i : i = Head(commitSlots)
    OBVIOUS
  <2>1. Grows
    BY DEF Grows, ghostVars
  <2>2. MessageIsJustified' /\ Justified(i)'
    BY <2>1, ReceivedJustified, JustifiedGrows DEF SlotsAreJustified, FinalIsJustified
  <2>3. HandIsJustified'
    BY <2>2 DEF EmTo, HandIsJustified
  <2> QED BY <2>1, <2>2, <2>3 DEF SlotsAreJustified, itemVars, ghostVars
<1>7. CASE SetFinalized
  <2> USE <1>7 DEF SetFinalized
  <2>1. Grows
    BY DEF Grows, ghostVars
  <2> PICK i : i = em.slot
    OBVIOUS
  <2>2. Justified(i)'
    BY <2>1, JustifiedGrows DEF SlotsAreJustified, HandIsJustified
  <2>3. FinalIsJustified'
    BY <2>1, <2>2, JustifiedGrows DEF TypeOK, ItemType, SlotsAreJustified, FinalIsJustified, ghostVars, EmTo
  <2>4. HandIsJustified'
    BY <2>2 DEF EmTo, HandIsJustified
  <2> QED BY <2>1, <2>3, <2>4 DEF SlotsAreJustified, ghostVars
<1>8. CASE TrackerCommit
  <2> USE <1>8 DEF TrackerCommit
  <2> PICK i : i = em.slot
    OBVIOUS
  <2>1. Grows
    BY DEF Grows
  <2>2. Justified(i)'
    BY <2>1, JustifiedGrows DEF SlotsAreJustified, HandIsJustified
  <2>3. FinalIsJustified'
    <3>1. CASE CommitFails(i)
      BY <2>1, <3>1 DEF AfterFailedCommit, itemVars
    <3>2. CASE ~CommitFails(i)
      <4>1. credits' = [credits EXCEPT ![i] = @ + 1] /\ UNCHANGED state
        BY <3>2 DEF Credit, itemVars
      <4> QED BY <2>1, <2>2, <4>1, JustifiedGrows
              DEF TypeOK, GhostType, SlotsAreJustified, FinalIsJustified
    <3> QED BY <3>1, <3>2
  <2>4. HandIsJustified'
    BY <2>2 DEF AfterFailedCommit, Credit, EmDone, EmTo, HandIsJustified
  <2> QED BY <2>1, <2>3, <2>4 DEF SlotsAreJustified
<1>9. CASE RecordFinalize
  <2> USE <1>9 DEF RecordFinalize
  <2>1. Grows
    BY DEF Grows
  <2>2. FinalIsJustified'
    BY <2>1, JustifiedGrows DEF TypeOK, ItemType, SlotsAreJustified, FinalIsJustified
  <2>3. RoundIsJustified'
    BY DEF TypeOK, EpochType, Record, SlotsAreJustified, RoundIsJustified, voteVars
  <2>4. HandIsJustified'
    BY DEF EmDone, EmTo, HandIsJustified
  <2> QED BY <2>1, <2>2, <2>3, <2>4 DEF SlotsAreJustified
<1>10. CASE TakeInvalid
  <2> USE <1>10 DEF TakeInvalid
  <2>1. Grows
    BY DEF Grows
  <2>2. MessageIsJustified'
    BY <2>1, ReceivedJustified DEF SlotsAreJustified
  <2>3. RoundIsJustified'
    BY DEF TypeOK, EpochType, Record, SlotsAreJustified, RoundIsJustified, voteVars
  <2>4. HandIsJustified'
    BY <2>1 DEF trackVars
  <2> QED BY <2>1, <2>2, <2>3, <2>4 DEF SlotsAreJustified, itemVars
<1>11. ASSUME NEW h \in unscheduled, TakeUnscheduled(h) PROVE SlotsAreJustified'
  <2> USE <1>11 DEF TakeUnscheduled
  <2>1. Grows
    BY DEF Grows
  <2>2. RoundIsJustified'
    BY DEF TypeOK, EpochType, Record, SlotsAreJustified, RoundIsJustified, voteVars
  <2>3. HandIsJustified'
    BY <2>1 DEF trackVars
  <2> QED BY <2>1, <2>2, <2>3 DEF SlotsAreJustified, itemVars
<1>12. ASSUME NEW t \in announced, TakeTask(t) PROVE SlotsAreJustified'
  <2> USE <1>12 DEF TakeTask
  <2>1. Grows
    BY DEF Grows, ghostVars
  <2>2. RoundIsJustified'
    BY DEF TypeOK, EpochType, Record, SlotsAreJustified, RoundIsJustified, voteVars, ghostVars
  <2>3. HandIsJustified'
    BY <2>1 DEF trackVars
  <2> QED BY <2>1, <2>2, <2>3 DEF SlotsAreJustified, itemVars, ghostVars
<1>13. CASE UpdateEpoch
  <2> USE <1>13 DEF UpdateEpoch
  <2>1. Grows
    BY DEF Grows, ghostVars
  <2>2. HandIsJustified'
    BY DEF EmTo, HandIsJustified
  <2> QED BY <2>1, <2>2 DEF SlotsAreJustified, itemVars, ghostVars
<1>14. CASE SendHeartbeat
  <2> USE <1>14 DEF SendHeartbeat
  <2>1. Grows
    BY DEF Grows, ghostVars
  <2>2. RoundIsJustified'
    <3>1. heartbeats \in Seq(SUBSET Item) /\ record.commits \in SUBSET Item
      BY DEF TypeOK, VoteType, EpochType, Record
    <3>2. \A k \in 1 .. Len(heartbeats') : heartbeats'[k] \subseteq verified
      BY <3>1, AppendFacts DEF SlotsAreJustified, RoundIsJustified
    <3>3. record'.commits \subseteq verified
      BY DEF Refresh, NewRecord
    <3> QED BY <3>2, <3>3 DEF SlotsAreJustified, RoundIsJustified, ghostVars
  <2>3. HandIsJustified'
    BY DEF EmDone, EmTo, HandIsJustified
  <2> QED BY <2>1, <2>2, <2>3 DEF SlotsAreJustified, itemVars, ghostVars
<1> QED
  BY <1>1, <1>2, <1>3, <1>4, <1>5, <1>6, <1>7, <1>8, <1>9, <1>10, <1>11, <1>12, <1>13, <1>14,
     <1>15
  DEF EpochManagerStep

\* So does every step of the heartbeat round.
LEMMA CoordinatorJustified ==
    TypeOK /\ SlotsAreJustified /\ CoordinatorStep => SlotsAreJustified'
<1> SUFFICES ASSUME TypeOK, SlotsAreJustified, CoordinatorStep PROVE SlotsAreJustified'
  OBVIOUS
<1> USE SlotAssumption, JustifiedKept
<1>1. CASE TakeHeartbeat
  <2> USE <1>1 DEF TakeHeartbeat
  <2>1. Grows
    BY DEF Grows, ghostVars
  <2>2. RoundIsJustified'
    <3>1. heartbeats \in Seq(SUBSET Item)
      BY DEF TypeOK, VoteType
    <3> QED BY <3>1, TailFacts DEF SlotsAreJustified, RoundIsJustified, ghostVars
  <2> QED BY <2>1, <2>2 DEF SlotsAreJustified, itemVars, trackVars, ghostVars
<1>2. ASSUME NEW n \in waiting, NodeVotes(n) \/ NodeFails(n) PROVE SlotsAreJustified'
  <2>1. Grows /\ UNCHANGED <<itemVars, commitSlots, trackVars, record, em, ghostVars,
                             heartbeats, voting, accepts>>
    BY <1>2 DEF NodeVotes, NodeFails, Grows, ghostVars
  <2>2. RoundIsJustified'
    BY <2>1 DEF SlotsAreJustified, RoundIsJustified, ghostVars
  <2> QED BY <2>1, <2>2 DEF SlotsAreJustified, itemVars, trackVars, ghostVars
<1>3. CASE CloseVotes
  <2> USE <1>3 DEF CloseVotes
  <2>1. Grows
    BY DEF Grows
  <2>2. RoundIsJustified'
    BY DEF Accepted, SlotsAreJustified, RoundIsJustified
  <2> QED BY <2>1, <2>2 DEF SlotsAreJustified, itemVars, trackVars
<1>4. ASSUME NEW i \in accepts, SendJustified(i) PROVE SlotsAreJustified'
  <2> USE <1>4 DEF SendJustified
  <2>1. Grows
    BY DEF Grows, ghostVars
  <2>2. HashOf[i] \in Hash /\ VotedHash(HashOf[i])
    BY DEF TypeOK, VoteType, SlotsAreJustified, RoundIsJustified, VotedHash
  <2>3. MessageIsJustified'
    BY <2>1, <2>2, SentJustified DEF SlotsAreJustified
  <2>4. RoundIsJustified'
    BY DEF SlotsAreJustified, RoundIsJustified, ghostVars
  <2> QED BY <2>1, <2>3, <2>4 DEF SlotsAreJustified, itemVars, trackVars, ghostVars
<1> QED BY <1>1, <1>2, <1>3, <1>4 DEF CoordinatorStep

\* And so does every step of CollectExpire.
LEMMA CollectExpireJustified ==
    TypeOK /\ SlotsAreJustified /\ CollectExpireStep => SlotsAreJustified'
<1> SUFFICES ASSUME TypeOK, SlotsAreJustified, CollectExpireStep PROVE SlotsAreJustified'
  OBVIOUS
<1> USE SlotAssumption, JustifiedKept
<1>1. ASSUME NEW i \in timers, ExpireSlot(i) PROVE SlotsAreJustified'
  <2>1. Grows /\ UNCHANGED <<itemVars, commitSlots, trackVars, record, em, voteVars, ghostVars>>
    BY <1>1 DEF ExpireSlot, Grows, ghostVars
  <2> QED BY <2>1 DEF SlotsAreJustified, itemVars, trackVars, ghostVars
<1>2. CASE ExpireSetInvalid
  <2> USE <1>2 DEF ExpireSetInvalid
  <2>1. Grows
    BY DEF Grows
  <2>2. FinalIsJustified'
    BY <2>1, ExpireSlotInHand, JustifiedGrows
    DEF TypeOK, ItemType, SlotsAreJustified, FinalIsJustified
  <2> QED BY <2>1, <2>2 DEF SlotsAreJustified, trackVars
<1>3. CASE ExpireSend
  <2> USE <1>3 DEF ExpireSend
  <2>1. Grows
    BY DEF Grows, ghostVars
  <2>2. MessageIsJustified'
    BY <2>1, ExpireSlotInHand, SentJustified DEF SlotsAreJustified
  <2> QED BY <2>1, <2>2 DEF SlotsAreJustified, itemVars, trackVars, ghostVars
<1>4. CASE ExpireDelete
  <2> USE <1>4 DEF ExpireDelete
  <2>1. Grows
    BY DEF Grows, ghostVars
  <2>2. TrackIsJustified'
    BY <2>1, VotedHashGrows DEF TypeOK, TrackType, SlotsAreJustified, TrackIsJustified, Grows
  <2>3. HandIsJustified'
    <3>1. \A h \in Hash : pending'[h] \in {pending[h], None}
      BY DEF TypeOK, TrackType
    <3>2. em.pc = "checkFinal" => HashOf[em.slot] \in Hash
      BY EmSlot DEF EmAtSlot, EmPc
    <3> QED BY <2>1, <3>1, <3>2, VotedHashGrows, JustifiedGrows
            DEF SlotsAreJustified, HandIsJustified, Grows
  <2> QED BY <2>1, <2>2, <2>3 DEF SlotsAreJustified, itemVars, ghostVars
<1>5. ASSUME (\E t \in Tracked : ExpireTask(t)) \/ SendTask PROVE SlotsAreJustified'
  <2>1. Grows /\ UNCHANGED <<itemVars, commitSlots, trackVars, record, em, voteVars, ghostVars>>
    BY <1>5 DEF ExpireTask, SendTask, Grows, ghostVars
  <2> QED BY <2>1 DEF SlotsAreJustified, itemVars, trackVars, ghostVars
<1> QED BY <1>1, <1>2, <1>3, <1>4, <1>5 DEF CollectExpireStep

LEMMA StepJustified == TypeOK /\ SlotsAreJustified /\ [Next]_vars => SlotsAreJustified'
<1> SUFFICES ASSUME TypeOK, SlotsAreJustified, [Next]_vars PROVE SlotsAreJustified'
  OBVIOUS
<1> USE SlotAssumption, JustifiedKept
<1>1. ASSUME NEW i \in Item, CommitSlot(i) PROVE SlotsAreJustified'
  <2> USE <1>1 DEF CommitSlot
  <2>1. Grows
    BY DEF Grows, ghostVars
  <2>2. FinalIsJustified'
    BY <2>1, JustifiedGrows
    DEF TypeOK, ItemType, SlotsAreJustified, FinalIsJustified, ghostVars
  <2>3. MessageIsJustified'
    BY <2>1, SentJustified DEF SlotsAreJustified
  <2>4. HandIsJustified'
    BY <2>1 DEF trackVars
  <2> QED BY <2>1, <2>2, <2>3, <2>4 DEF SlotsAreJustified, ghostVars
<1>2. CASE MapFault \/ CertificateFault \/ UNCHANGED vars
  <2>1. Grows /\ UNCHANGED <<itemVars, commitSlots, trackVars, record, em, voteVars, ghostVars>>
    BY <1>2 DEF MapFault, CertificateFault, vars, Grows, ghostVars
  <2> QED BY <2>1 DEF SlotsAreJustified, itemVars, trackVars, ghostVars
<1> QED
  BY <1>1, <1>2, EpochManagerJustified, CoordinatorJustified, CollectExpireJustified DEF Next

LEMMA InitJustified == Init => SlotsAreJustified
  BY SlotAssumption DEF Init, SlotsAreJustified, FinalIsJustified, TrackIsJustified,
     MessageIsJustified, HandIsJustified, RoundIsJustified, NewRecord

\* No slot is final or credited unless its certificate was accepted, a vote on its
\* hash passed and the tracker knows its task: the three gates of the EpochManager
\* hold whatever the order of commits, votes, expiries and epoch ticks.
THEOREM FinalOnlyIfJustified == Spec => []SlotsAreJustified
<1>1. TypeOK /\ SlotsAreJustified /\ [Next]_vars => SlotsAreJustified'
  BY StepJustified
<1>2. Spec => []TypeOK
  BY TypeCorrect
<1> QED BY <1>1, <1>2, InitJustified, PTL DEF Spec

-----------------------------------------------------------------------------
(* The refinement: an accepted certificate is a Verify, the end of a vote a *)
(* Vote, a successful Tracker.Commit a Pay; every other step is a stutter.  *)

LEMMA CreditPays ==
    ASSUME TypeOK, SlotsAreJustified, TrackerCommit, ~CommitFails(em.slot)
    PROVE  Ledger!Next
<1> USE SlotAssumption DEF TrackerCommit, Credit
<1> DEFINE i == em.slot
           size == remaining[TaskOf[i]]
<1>1. i \in Item /\ TaskOf[i] \in Tracked /\ SizeOf[i] \in Int
  BY EmSlot DEF EmAtSlot, EmPc, CommitFails
<1>2. size \in Nat
  BY <1>1 DEF TypeOK, TaskType
<1>3. Ledger!Approved(i)
  BY DEF SlotsAreJustified, HandIsJustified, Justified, VotedHash, Ledger!Approved
<1>4. /\ SizeAfter(size, SizeOf[i]) \in {0, size - SizeOf[i]}
      /\ SizeAfter(size, SizeOf[i]) >= 0
      /\ SizeAfter(size, SizeOf[i]) >= size - SizeOf[i]
  BY <1>1, <1>2 DEF SizeAfter
<1>5. remaining' = [remaining EXCEPT ![TaskOf[i]] = SizeAfter(size, SizeOf[i])]
  OBVIOUS
<1>6. Ledger!Pay(i)
  BY <1>3, <1>4, <1>5 DEF Ledger!Pay
<1> QED BY <1>1, <1>6 DEF Ledger!Next

LEMMA StepKeepsLedger ==
    TypeOK /\ SlotsAreJustified /\ [Next]_vars => [Ledger!Next]_(Ledger!ledger)
<1> SUFFICES ASSUME TypeOK, SlotsAreJustified, [Next]_vars
             PROVE  [Ledger!Next]_(Ledger!ledger)
  OBVIOUS
<1> USE SlotAssumption
<1>1. CASE TakeCommit
  <2> DEFINE i == Head(commitSlots)
  <2> USE <1>1 DEF TakeCommit
  <2>1. CASE AcceptCommit(i)
    <3>1. Ledger!Verify(i)
      BY <2>1 DEF AcceptCommit, taskVars, Ledger!Verify
    <3> QED BY <3>1 DEF Ledger!Next
  <2>2. CASE RefuseCommit(i)
    BY <2>2 DEF RefuseCommit, taskVars, Ledger!ledger
  <2> QED BY <2>1, <2>2
<1>2. CASE CloseVotes
  <2>1. Accepted \in SUBSET verified
    BY DEF SlotsAreJustified, RoundIsJustified, Accepted
  <2>2. Ledger!Vote(Accepted)
    BY <1>2 DEF CloseVotes, taskVars, Ledger!Vote
  <2> QED BY <2>1, <2>2 DEF Ledger!Next
<1>3. CASE TrackerCommit
  <2>1. CASE CommitFails(em.slot)
    BY <1>3, <2>1 DEF TrackerCommit, AfterFailedCommit, taskVars, Ledger!ledger
  <2>2. CASE ~CommitFails(em.slot)
    BY <1>3, <2>2, CreditPays
  <2> QED BY <2>1, <2>2
<1>4. ASSUME \/ \E i \in Item : CommitSlot(i)
             \/ StartTimer \/ RecordCommit \/ TakeVote \/ CheckFinalized \/ SendFinalized
             \/ TakeFinalized \/ SetFinalized \/ RecordFinalize \/ TakeInvalid
             \/ \E h \in unscheduled : TakeUnscheduled(h)
             \/ \E t \in announced : TakeTask(t)
             \/ UpdateEpoch \/ SendHeartbeat
             \/ TakeHeartbeat
             \/ \E n \in waiting : NodeVotes(n) \/ NodeFails(n)
             \/ \E i \in accepts : SendJustified(i)
             \/ CollectExpireStep
             \/ MapFault \/ CertificateFault
             \/ UNCHANGED vars
      PROVE  UNCHANGED Ledger!ledger
  BY <1>4 DEF CommitSlot, RecordCommit, TakeVote, CheckFinalized, SendFinalized,
     TakeFinalized, SetFinalized, RecordFinalize, TakeInvalid, TakeUnscheduled, TakeTask,
     UpdateEpoch, SendHeartbeat, TakeHeartbeat, NodeVotes, NodeFails, SendJustified,
     CollectExpireStep, ExpireSlot, ExpireSetInvalid, ExpireSend, ExpireDelete, MapFault, CertificateFault, StartTimer,
     ExpireTask, SendTask,
     vars, taskVars, ghostVars, Ledger!ledger
<1> QED BY <1>1, <1>2, <1>3, <1>4 DEF Next, EpochManagerStep, CoordinatorStep

\* The master keeps the promise of CreditLedger: what a task lacks only ever changes
\* by the size of a slot that was verified, voted for and known, and stops at zero,
\* whatever the goroutines do in between and whatever sizes the nodes report.
THEOREM LedgerImplemented == Spec => ImplementsLedger
<1>1. Init => Ledger!Init
  BY DEF Init, Ledger!Init
<1>2. TypeOK /\ SlotsAreJustified /\ [Next]_vars => [Ledger!Next]_(Ledger!ledger)
  BY StepKeepsLedger
<1>3. Spec => []TypeOK /\ []SlotsAreJustified
  BY TypeCorrect, FinalOnlyIfJustified
<1> QED BY <1>1, <1>2, <1>3, PTL DEF Spec, ImplementsLedger, Ledger!Spec

-----------------------------------------------------------------------------
(* Credits and transactions.                                               *)

\* Only two steps change what was credited and what was sent.
LEMMA CreditsKept ==
    ASSUME [Next]_vars, ~TrackerCommit, ~RecordFinalize
    PROVE  UNCHANGED <<credits, txs, taskVars>>
  BY DEF Next, EpochManagerStep, CoordinatorStep, CollectExpireStep, vars, ghostVars,
     CommitSlot, TakeCommit, AcceptCommit, RefuseCommit, RecordCommit, TakeVote, CheckFinalized, SendFinalized,
     TakeFinalized, SetFinalized, TakeInvalid, TakeUnscheduled, TakeTask,
     UpdateEpoch, SendHeartbeat, TakeHeartbeat, NodeVotes, NodeFails, CloseVotes, SendJustified,
     ExpireSlot, ExpireSetInvalid, ExpireSend, ExpireDelete, MapFault, CertificateFault, StartTimer,
     ExpireTask, SendTask

\* and only they enter or leave the place between the two.
LEMMA HandKept ==
    ASSUME [Next]_vars, ~TrackerCommit, ~RecordFinalize
    PROVE  \/ UNCHANGED em
           \/ em.pc # "recordFinal" /\ em'.pc # "recordFinal"
  BY DEF Next, EpochManagerStep, CoordinatorStep, CollectExpireStep, vars, EmIdle, EmTo, EmDone,
     CommitSlot, TakeCommit, AcceptCommit, RefuseCommit, RecordCommit, TakeVote, CheckFinalized, SendFinalized,
     TakeFinalized, SetFinalized, TakeInvalid, TakeUnscheduled, TakeTask,
     UpdateEpoch, SendHeartbeat, TakeHeartbeat, NodeVotes, NodeFails, CloseVotes, SendJustified,
     ExpireSlot, ExpireSetInvalid, ExpireSend, ExpireDelete, MapFault, CertificateFault, StartTimer,
     ExpireTask, SendTask

\* So a credit and its transaction stay one apart, and only in that place.
LEMMA StepKeepsTransactions ==
    TypeOK /\ OneTransactionPerCredit /\ [Next]_vars => OneTransactionPerCredit'
<1> SUFFICES ASSUME TypeOK, OneTransactionPerCredit, [Next]_vars
             PROVE  OneTransactionPerCredit'
  OBVIOUS
<1> DEFINE Between(i) == em.pc = "recordFinal" /\ em.slot = i
<1>1. \A i \in Item : em = [pc |-> "recordFinal", slot |-> i] <=> Between(i)
  BY DEF TypeOK, EmType
<1>2. TypeOK'
  BY StepType
<1>3. \A i \in Item : (em = [pc |-> "recordFinal", slot |-> i])' <=> Between(i)'
  BY <1>2 DEF TypeOK, EmType
<1>4. \A i \in Item : credits[i] \in Nat /\ txs[i] \in Nat
  BY DEF TypeOK, GhostType
<1>5. CASE TrackerCommit
  <2> PICK i : i = em.slot
    OBVIOUS
  <2>1. i \in Item /\ em.pc = "credit" /\ UNCHANGED txs
    BY <1>5, EmSlot DEF TrackerCommit, EmAtSlot, EmPc
  <2>2. CASE CommitFails(i)
    <3>1. UNCHANGED credits /\ em'.pc = "select"
      BY <1>5, <2>2 DEF TrackerCommit, AfterFailedCommit, EmDone, EmTo
    <3> QED BY <1>1, <1>3, <1>4, <2>1, <3>1 DEF OneTransactionPerCredit
  <2>3. CASE ~CommitFails(i)
    <3>1. credits' = [credits EXCEPT ![i] = @ + 1] /\ em'.pc = "recordFinal" /\ em'.slot = i
      BY <1>5, <2>3 DEF TrackerCommit, Credit, EmTo
    <3>2. \A j \in Item : credits'[j] = credits[j] + (IF j = i THEN 1 ELSE 0)
      BY <2>1, <3>1 DEF TypeOK, GhostType
    <3> QED BY <1>1, <1>3, <1>4, <2>1, <3>1, <3>2 DEF OneTransactionPerCredit
  <2> QED BY <2>2, <2>3
<1>6. CASE RecordFinalize
  <2> PICK i : i = em.slot
    OBVIOUS
  <2>1. i \in Item /\ em.pc = "recordFinal" /\ UNCHANGED credits /\ em'.pc = "select"
        /\ txs' = [txs EXCEPT ![i] = @ + 1]
    BY <1>6, EmSlot DEF RecordFinalize, EmAtSlot, EmPc, EmDone, EmTo
  <2>2. \A j \in Item : txs'[j] = txs[j] + (IF j = i THEN 1 ELSE 0)
    BY <2>1 DEF TypeOK, GhostType
  <2> QED BY <1>1, <1>3, <1>4, <2>1, <2>2 DEF OneTransactionPerCredit
<1>7. CASE ~TrackerCommit /\ ~RecordFinalize
  BY <1>1, <1>3, <1>7, CreditsKept, HandKept DEF OneTransactionPerCredit
<1> QED BY <1>5, <1>6, <1>7

\* The chain hears of every credit once: TaskProcessTransaction is made of a slot
\* exactly when Tracker.Commit credited it, also when epochRecord.Finalize fails.
THEOREM CreditsAreReportedOnce == Spec => []OneTransactionPerCredit
<1>1. Init => OneTransactionPerCredit
  BY DEF Init, OneTransactionPerCredit
<1>2. TypeOK /\ OneTransactionPerCredit /\ [Next]_vars => OneTransactionPerCredit'
  BY StepKeepsTransactions
<1>3. Spec => []TypeOK
  BY TypeCorrect
<1> QED BY <1>1, <1>2, <1>3, PTL DEF Spec

-----------------------------------------------------------------------------
(* The accounts of the Tracker.                                            *)

\* What each call has brought its task.
Earned(c) == [i \in Item |-> c[i] * SizeOf[i]]
CallsOf(t) == {i \in Item : TaskOf[i] = t}

\* TrackerAccounting, with its sum as SumOf writes it.
AccountsInStep ==
    \A t \in Tracked :
        /\ history[t] = SumOf(Earned(credits), CallsOf(t))
        /\ remaining[t] >= SizeAfter(Total[t], history[t])
        /\ remaining[t] = SizeAfter(Total[t], history[t]) \/ NegativeCredit(t)

\* which is the same.
LEMMA AccountsAre == AccountsInStep => TrackerAccounting
<1>1. ASSUME NEW t
      PROVE  MapThenSumSet(LAMBDA i : credits[i] * SizeOf[i], {i \in Item : TaskOf[i] = t})
                = SumOf(Earned(credits), CallsOf(t))
  BY ZenonT(40) DEF SumOf, MapThenSumSet, MapThenFoldSet, Earned, CallsOf
<1> QED
  BY <1>1 DEF TrackerAccounting, AccountsInStep

\* Two subtractions that stop at 0 leave no less than one of both sizes, and the
\* same when the second takes nothing back.
LEMMA SizeAfterTwice ==
    ASSUME NEW a \in Nat, NEW b \in Int, NEW c \in Int, NEW r \in Nat, r >= SizeAfter(a, b)
    PROVE  /\ SizeAfter(r, c) >= SizeAfter(a, b + c)
           /\ r = SizeAfter(a, b) /\ c >= 0 => SizeAfter(r, c) = SizeAfter(a, b + c)
  BY DEF SizeAfter

\* One more call of a size.
LEMMA Distributed ==
    ASSUME NEW a \in Nat, NEW b \in Int
    PROVE  (a + 1) * b = a * b + b /\ a * b \in Int
  OBVIOUS

\* A credit moves what is left, what was done and the credited sizes by one size;
\* the parameters of other tasks stay.
LEMMA StepKeepsAccounts ==
    ASSUME IsFiniteSet(Item), TypeOK, AccountsInStep, [Next]_vars
    PROVE  AccountsInStep'
<1> USE SlotAssumption
<1>1. CASE TrackerCommit /\ ~CommitFails(em.slot)
  <2> PICK i : i = em.slot
    OBVIOUS
  <2> PICK u : u = TaskOf[i]
    OBVIOUS
  <2>1. i \in Item /\ u \in Tracked /\ SizeOf[i] \in Int /\ TaskOf[i] = u
    BY <1>1, EmSlot DEF TrackerCommit, EmAtSlot, EmPc, CommitFails
  <2>2. /\ remaining' = [remaining EXCEPT ![u] = SizeAfter(@, SizeOf[i])]
        /\ history' = [history EXCEPT ![u] = @ + SizeOf[i]]
        /\ credits' = [credits EXCEPT ![i] = @ + 1]
    BY <1>1 DEF TrackerCommit, Credit
  <2> PICK before : before = Earned(credits)
    OBVIOUS
  <2> PICK after : after = Earned(credits')
    OBVIOUS
  <2>3. ASSUME NEW j \in Item
        PROVE  /\ before[j] \in Int /\ after[j] \in Int
               /\ after[j] = before[j] + (IF j = i THEN SizeOf[i] ELSE 0)
    <3>1. before[j] = credits[j] * SizeOf[j] /\ after[j] = credits'[j] * SizeOf[j]
      BY DEF Earned
    <3>2. credits[j] \in Nat /\ SizeOf[j] \in Int
          /\ credits'[j] = (IF j = i THEN credits[j] + 1 ELSE credits[j])
      BY <2>1, <2>2 DEF TypeOK, GhostType
    <3>3. credits[j] * SizeOf[j] \in Int
          /\ (credits[j] + 1) * SizeOf[j] = credits[j] * SizeOf[j] + SizeOf[j]
      BY <3>2, Distributed
    <3>4. CASE j = i
      BY <3>1, <3>2, <3>3, <3>4
    <3>5. CASE j # i
      BY <3>1, <3>2, <3>3, <3>5
    <3> QED BY <3>4, <3>5
  <2> SUFFICES ASSUME NEW t \in Tracked
               PROVE  /\ history'[t] = SumOf(after, CallsOf(t))
                      /\ remaining'[t] >= SizeAfter(Total[t], history'[t])
                      /\ \/ remaining'[t] = SizeAfter(Total[t], history'[t])
                         \/ NegativeCredit(t)'
    BY DEF AccountsInStep
  <2>4. /\ history[t] = SumOf(before, CallsOf(t))
        /\ remaining[t] >= SizeAfter(Total[t], history[t])
        /\ remaining[t] = SizeAfter(Total[t], history[t]) \/ NegativeCredit(t)
        /\ remaining[t] \in Nat /\ history[t] \in Int /\ Total[t] \in Nat
    BY DEF AccountsInStep, TypeOK, TaskType
  <2>8. NegativeCredit(t) => NegativeCredit(t)'
    <3> SUFFICES ASSUME NEW j \in Item, TaskOf[j] = t, credits[j] > 0, SizeOf[j] < 0
                 PROVE  credits'[j] > 0
      BY DEF NegativeCredit
    <3> QED BY <2>1, <2>2 DEF TypeOK, GhostType
  <2>5. IsFiniteSet(CallsOf(t)) /\ CallsOf(t) \subseteq Item
    BY FS_Subset DEF CallsOf
  <2>6. CASE t = u
    <3>1. i \in CallsOf(t)
      BY <2>1, <2>6 DEF CallsOf
    <3>2. /\ \A x \in CallsOf(t) : before[x] \in Int /\ after[x] \in Int
          /\ \A x \in CallsOf(t) \ {i} : before[x] = after[x]
      BY <2>3, <2>5
    <3>3. SumOf(before, CallsOf(t)) - before[i] = SumOf(after, CallsOf(t)) - after[i]
          /\ SumOf(before, CallsOf(t)) \in Int /\ SumOf(after, CallsOf(t)) \in Int
      BY <2>5, <3>1, <3>2, SumUpdate
    <3>4. SumOf(after, CallsOf(t)) = SumOf(before, CallsOf(t)) + SizeOf[i]
      BY <2>1, <2>3, <3>3
    <3>5. remaining'[t] = SizeAfter(remaining[t], SizeOf[i]) /\ history'[t] = history[t] + SizeOf[i]
      BY <2>1, <2>2, <2>6 DEF TypeOK, TaskType
    <3>6. SizeOf[i] < 0 => NegativeCredit(t)'
      <4>1. credits'[i] > 0
        BY <2>1, <2>2 DEF TypeOK, GhostType
      <4> QED BY <2>1, <2>6, <4>1 DEF NegativeCredit
    <3>7. /\ remaining'[t] >= SizeAfter(Total[t], history'[t])
          /\ remaining[t] = SizeAfter(Total[t], history[t]) /\ SizeOf[i] >= 0 =>
                remaining'[t] = SizeAfter(Total[t], history'[t])
      BY <2>1, <2>4, <3>5, SizeAfterTwice
    <3> QED BY <2>1, <2>4, <2>8, <3>4, <3>5, <3>6, <3>7
  <2>7. CASE t # u
    <3>1. remaining'[t] = remaining[t] /\ history'[t] = history[t]
      BY <2>2, <2>7 DEF TypeOK, TaskType
    <3>2. ASSUME NEW j \in CallsOf(t) PROVE before[j] = after[j]
      BY <2>3, <2>7 DEF CallsOf
    <3>3. SumOf(before, CallsOf(t)) = SumOf(after, CallsOf(t))
      BY <2>5, <3>2, SumSame
    <3> QED BY <2>4, <2>8, <3>1, <3>3
  <2> QED BY <2>6, <2>7
<1>2. CASE ~TrackerCommit \/ CommitFails(em.slot)
  <2>1. UNCHANGED <<credits, taskVars>>
    <3>1. CASE RecordFinalize
      BY <3>1 DEF RecordFinalize
    <3>2. CASE TrackerCommit
      BY <1>2, <3>2 DEF TrackerCommit, AfterFailedCommit
    <3> QED BY <3>1, <3>2, CreditsKept
  <2> QED BY <2>1 DEF AccountsInStep, NegativeCredit, taskVars
<1> QED BY <1>1, <1>2

\* With finitely many calls of any sizes, SynthTaskTrackItem.History is the sum of
\* the slots Tracker.Commit credited, and Size is never less than what History leaves
\* of the task, nor more unless a slot of a negative size was credited.
THEOREM AccountsAgree ==
    ASSUME IsFiniteSet(Item)
    PROVE  Spec => []TrackerAccounting
<1>1. Init => AccountsInStep
  <2> SUFFICES ASSUME Init, NEW t \in Tracked
               PROVE  /\ history[t] = SumOf(Earned(credits), CallsOf(t))
                      /\ remaining[t] = SizeAfter(Total[t], history[t])
                      /\ remaining[t] >= SizeAfter(Total[t], history[t])
    BY DEF AccountsInStep
  <2>1. IsFiniteSet(CallsOf(t)) /\ \A i \in CallsOf(t) : Earned(credits)[i] = 0
    <3>1. IsFiniteSet(CallsOf(t))
      BY FS_Subset DEF CallsOf
    <3> QED BY <3>1, SlotAssumption DEF Init, Earned, CallsOf
  <2>2. SumOf(Earned(credits), CallsOf(t)) = 0
    BY <2>1, SumOfZeros
  <2>3. history[t] = 0 /\ remaining[t] = Total[t] /\ Total[t] \in Nat
    BY SlotAssumption DEF Init
  <2> QED BY <2>2, <2>3 DEF SizeAfter
<1>2. TypeOK /\ AccountsInStep /\ [Next]_vars => AccountsInStep'
  BY StepKeepsAccounts
<1>3. Spec => []TypeOK
  BY TypeCorrect
<1> QED BY <1>1, <1>2, <1>3, AccountsAre, PTL DEF Spec

-----------------------------------------------------------------------------
(* The way of a slot.  A slot that was committed once and not given up is  *)
(* at exactly one place of its way at any time: in a message, in the hand  *)
(* of the EpochManager, in a record, in a heartbeat, in a round of votes.  *)
(* TypeOK /\ SlotsAreJustified /\ SlotsAreKnown /\ OneWay is inductive.    *)

Stage == {"absent", "commitMsg", "startTimer", "recordCommit", "commits", "heartbeat", "voting", "accepts",
          "voteMsg", "checkFinal", "sendFinal", "finalMsg", "setFinal", "credit", "recordFinal",
          "done"}

Waits(m) == \E k \in 1 .. Len(commitSlots) : commitSlots[k] = m

\* One message at most is about the slot.
WaitsOnce(i) ==
    \A j, k \in 1 .. Len(commitSlots) :
        commitSlots[j] \in {i, HashOf[i]} /\ commitSlots[k] \in {i, HashOf[i]} => j = k

InHeartbeat(i) == \E k \in 1 .. Len(heartbeats) : i \in heartbeats[k]

AtChannel(i, p) ==
    /\ WaitsOnce(i)
    /\ Waits(i) <=> p \in {"commitMsg", "finalMsg"}
    /\ Waits(HashOf[i]) <=> p = "voteMsg"

AtHand(i, p) ==
    /\ em.slot = i <=> p \in EmAtSlot
    /\ em.slot = i => em.pc = p

AtRound(i, p) ==
    /\ i \in record.commits <=> p = "commits"
    /\ InHeartbeat(i) <=> p = "heartbeat"
    /\ i \in voting <=> p = "voting"
    /\ i \in accepts <=> p = "accepts"

\* What was said of the slot until it came here.
AtVerdict(i, p) ==
    /\ state[i] = "absent" <=> p = "absent"
    /\ p = "commitMsg" => state[i] = "undetermined"
    /\ p \in {"sendFinal", "finalMsg", "setFinal", "credit", "recordFinal"} =>
            state[i] = "finalize"
    /\ credits[i] > 0 => credits[i] = 1 /\ p \in {"recordFinal", "done"}
    /\ HashOf[i] \in finalized => p = "done" /\ state[i] = "finalize"
    /\ HashOf[i] \in invalidated =>
            \/ HashOf[i] \in Unscheduled
            \/ p = "done" /\ state[i] = "invalid"

IsAt(i, p) == AtChannel(i, p) /\ AtHand(i, p) /\ AtRound(i, p) /\ AtVerdict(i, p)

Raced(i) == Resubmitted(i) \/ i \in aborted

OneWay == \A i \in Item : Raced(i) \/ \E p \in Stage : IsAt(i, p)

\* Nothing is on its way of a call that was not made, and what CollectExpire
\* sends it has given up.
SlotsAreKnown ==
    /\ \A i \in verified : state[i] # "absent"
    /\ timers \subseteq verified
    /\ expire.slot \in Item => expire.slot \in verified
    /\ expire.pc = "send" => expire.slot \in aborted
    /\ \A k \in 1 .. Len(commitSlots) :
            commitSlots[k] \in Item => state[commitSlots[k]] # "absent"
    /\ unscheduled \subseteq Unscheduled

\* No call is unmade and no slot taken up again, so a race stays one.
LEMMA RacesStay ==
    ASSUME TypeOK, [Next]_vars
    PROVE  /\ \A j \in Item : state[j] # "absent" => state'[j] # "absent"
           /\ \A j \in Item : Raced(j) => Raced(j)'
<1>1. \A j \in Item : state[j] # "absent" => state'[j] # "absent"
  BY DEF TypeOK, ItemType, itemVars, Next, EpochManagerStep, CoordinatorStep,
     CollectExpireStep, vars,
     CommitSlot, TakeCommit, AcceptCommit, RefuseCommit, RecordCommit, TakeVote,
     CheckFinalized, SendFinalized, TakeFinalized, SetFinalized, TakeInvalid, TakeUnscheduled,
     TakeTask, TrackerCommit, RecordFinalize, UpdateEpoch, SendHeartbeat, TakeHeartbeat,
     NodeVotes, NodeFails, CloseVotes, SendJustified, ExpireSlot, ExpireSetInvalid, ExpireSend,
     ExpireDelete, MapFault, CertificateFault, StartTimer,
     ExpireTask, SendTask
<1>2. aborted \subseteq aborted'
  BY DEF ghostVars, Next, EpochManagerStep, CoordinatorStep, CollectExpireStep, vars,
     CommitSlot, TakeCommit, AcceptCommit, RefuseCommit, RecordCommit, TakeVote,
     CheckFinalized, SendFinalized, TakeFinalized, SetFinalized, TakeInvalid, TakeUnscheduled,
     TakeTask, TrackerCommit, RecordFinalize, UpdateEpoch, SendHeartbeat, TakeHeartbeat,
     NodeVotes, NodeFails, CloseVotes, SendJustified, ExpireSlot, ExpireSetInvalid, ExpireSend,
     ExpireDelete, MapFault, CertificateFault, StartTimer,
     ExpireTask, SendTask
<1> QED BY <1>1, <1>2 DEF Raced, Resubmitted

\* A message taken: what waits of a slot that the message is not about, and of
\* the one it is about.
LEMMA WaitsTaken ==
    ASSUME TypeOK, commitSlots # <<>>, commitSlots' = Tail(commitSlots), NEW i \in Item
    PROVE  /\ Waits(Head(commitSlots))
           /\ WaitsOnce(i) => WaitsOnce(i)'
           /\ \A m : m # Head(commitSlots) => (Waits(m)' <=> Waits(m))
           /\ WaitsOnce(i) /\ Head(commitSlots) \in {i, HashOf[i]} =>
                ~Waits(i)' /\ ~Waits(HashOf[i])'
<1>1. commitSlots \in Seq(Item \cup Hash)
  BY DEF TypeOK, ChannelType
<1>2. /\ Len(commitSlots) \in Nat \ {0} /\ Len(commitSlots') = Len(commitSlots) - 1
      /\ Head(commitSlots) = commitSlots[1]
      /\ \A k \in 1 .. Len(commitSlots) - 1 : commitSlots'[k] = commitSlots[k + 1]
  BY <1>1
<1>3. Waits(Head(commitSlots))
  BY <1>2 DEF Waits
<1>4. WaitsOnce(i) => WaitsOnce(i)'
  BY <1>2 DEF WaitsOnce
<1>5. ASSUME NEW m, m # Head(commitSlots) PROVE Waits(m)' <=> Waits(m)
  <2>1. ASSUME NEW k \in 1 .. Len(commitSlots), commitSlots[k] = m
        PROVE  k - 1 \in 1 .. Len(commitSlots') /\ commitSlots'[k - 1] = m
    BY <1>2, <1>5, <2>1
  <2>2. ASSUME NEW k \in 1 .. Len(commitSlots'), commitSlots'[k] = m
        PROVE  k + 1 \in 1 .. Len(commitSlots) /\ commitSlots[k + 1] = m
    BY <1>2, <2>2
  <2> QED BY <2>1, <2>2 DEF Waits
<1>6. ASSUME WaitsOnce(i), Head(commitSlots) \in {i, HashOf[i]}, NEW k \in 1 .. Len(commitSlots')
      PROVE  commitSlots'[k] \notin {i, HashOf[i]}
  <2>1. k + 1 \in 1 .. Len(commitSlots) /\ 1 \in 1 .. Len(commitSlots) /\ k + 1 # 1
        /\ commitSlots'[k] = commitSlots[k + 1]
    BY <1>2
  <2> QED BY <1>2, <1>6, <2>1 DEF WaitsOnce
<1> QED BY <1>3, <1>4, <1>5, <1>6 DEF Waits

\* A message sent.
LEMMA WaitsSent ==
    ASSUME TypeOK, NEW m \in Item \cup Hash, commitSlots' = Append(commitSlots, m), NEW i \in Item
    PROVE  /\ \A x : Waits(x)' <=> (Waits(x) \/ x = m)
           /\ WaitsOnce(i) /\ m \notin {i, HashOf[i]} => WaitsOnce(i)'
           /\ ~Waits(i) /\ ~Waits(HashOf[i]) => WaitsOnce(i)'
<1>1. commitSlots \in Seq(Item \cup Hash)
  BY DEF TypeOK, ChannelType
<1>2. /\ Len(commitSlots) \in Nat /\ Len(commitSlots') = Len(commitSlots) + 1
      /\ \A k \in 1 .. Len(commitSlots) : commitSlots'[k] = commitSlots[k]
      /\ commitSlots'[Len(commitSlots) + 1] = m
  BY <1>1
<1>3. 1 .. Len(commitSlots') = 1 .. Len(commitSlots) \cup {Len(commitSlots) + 1}
  BY <1>2
<1>4. \A x : Waits(x)' <=> (Waits(x) \/ x = m)
  BY <1>2, <1>3 DEF Waits
<1>5. WaitsOnce(i) /\ m \notin {i, HashOf[i]} => WaitsOnce(i)'
  BY <1>2, <1>3 DEF WaitsOnce
<1>6. ~Waits(i) /\ ~Waits(HashOf[i]) => WaitsOnce(i)'
  BY <1>2, <1>3 DEF WaitsOnce, Waits
<1> QED BY <1>4, <1>5, <1>6

\* What a step leaves of a slot.
SameChannel(i) ==
    /\ Waits(i)' <=> Waits(i)
    /\ Waits(HashOf[i])' <=> Waits(HashOf[i])
    /\ WaitsOnce(i) => WaitsOnce(i)'
SameHand(i) == (em'.slot = i <=> em.slot = i) /\ (em.slot = i => em'.pc = em.pc)
SameRound(i) ==
    /\ i \in record'.commits <=> i \in record.commits
    /\ InHeartbeat(i)' <=> InHeartbeat(i)
    /\ i \in voting' <=> i \in voting
    /\ i \in accepts' <=> i \in accepts
SameVerdict(i) ==
    /\ state'[i] = state[i] /\ credits'[i] = credits[i]
    /\ HashOf[i] \in finalized' => HashOf[i] \in finalized
    /\ HashOf[i] \in invalidated' => HashOf[i] \in invalidated \cup Unscheduled

\* A step that leaves the variables alone leaves the slot alone.
LEMMA SameWhenUnchanged ==
    ASSUME NEW i
    PROVE  /\ UNCHANGED commitSlots => SameChannel(i)
           /\ UNCHANGED em => SameHand(i)
           /\ UNCHANGED <<record, voteVars>> => SameRound(i)
           /\ UNCHANGED <<state, credits, finalized, invalidated>> => SameVerdict(i)
<1>1. UNCHANGED commitSlots => SameChannel(i)
  BY DEF SameChannel, Waits, WaitsOnce
<1>2. UNCHANGED em => SameHand(i)
  BY DEF SameHand
<1>3. UNCHANGED <<record, voteVars>> => SameRound(i)
  BY DEF SameRound, InHeartbeat, voteVars
<1>4. UNCHANGED <<state, credits, finalized, invalidated>> => SameVerdict(i)
  BY DEF SameVerdict
<1> QED BY <1>1, <1>2, <1>3, <1>4

\* A slot that a step leaves alone is where it was, ...
LEMMA StaysThere ==
    ASSUME NEW i, NEW p, IsAt(i, p), SameChannel(i), SameHand(i), SameRound(i), SameVerdict(i)
    PROVE  IsAt(i, p)'
<1>1. AtChannel(i, p)'
  BY DEF IsAt, AtChannel, SameChannel
<1>2. AtHand(i, p)'
  BY DEF IsAt, AtHand, SameHand
<1>3. AtRound(i, p)'
  BY DEF IsAt, AtRound, SameRound
<1>4. AtVerdict(i, p)'
  BY DEF IsAt, AtVerdict, SameVerdict
<1> QED BY <1>1, <1>2, <1>3, <1>4 DEF IsAt

\* ... and one that a step moves from p to q still is where neither p nor q is.
LEMMA StaysAway ==
    ASSUME NEW i, NEW p, NEW q, IsAt(i, p)
    PROVE  /\ SameChannel(i) /\ {p, q} \cap {"commitMsg", "finalMsg", "voteMsg"} = {}
                => AtChannel(i, q)'
           /\ SameHand(i) /\ {p, q} \cap EmAtSlot = {} => AtHand(i, q)'
           /\ SameRound(i) /\ {p, q} \cap {"commits", "heartbeat", "voting", "accepts"} = {}
                => AtRound(i, q)'
<1>1. SameChannel(i) /\ {p, q} \cap {"commitMsg", "finalMsg", "voteMsg"} = {}
                => AtChannel(i, q)'
  BY DEF IsAt, AtChannel, SameChannel
<1>2. SameHand(i) /\ {p, q} \cap EmAtSlot = {} => AtHand(i, q)'
  BY DEF IsAt, AtHand, SameHand
<1>3. SameRound(i) /\ {p, q} \cap {"commits", "heartbeat", "voting", "accepts"} = {}
                => AtRound(i, q)'
  BY DEF IsAt, AtRound, SameRound
<1> QED BY <1>1, <1>2, <1>3

\* No other call carries the hash of this one.
Alone(i) == \A j \in Item \ {i} : state[j] # "absent" => HashOf[j] # HashOf[i]

\* A message about another slot, taken or sent.
LEMMA OtherMessage ==
    ASSUME TypeOK, SlotsAreKnown, NEW i \in Item, NEW j \in Item, j # i,
           \/ commitSlots # <<>> /\ Head(commitSlots) = j /\ commitSlots' = Tail(commitSlots)
           \/ commitSlots' = Append(commitSlots, j)
           \/ /\ HashOf[j] # HashOf[i]
              /\ \/ commitSlots # <<>> /\ Head(commitSlots) = HashOf[j]
                        /\ commitSlots' = Tail(commitSlots)
                 \/ commitSlots' = Append(commitSlots, HashOf[j])
    PROVE  SameChannel(i)
<1> USE SlotAssumption
<1>1. HashOf[i] \in Hash /\ HashOf[j] \in Hash /\ j # HashOf[i] /\ i # HashOf[j]
  OBVIOUS
<1>2. CASE commitSlots # <<>> /\ Head(commitSlots) = j /\ commitSlots' = Tail(commitSlots)
  BY <1>1, <1>2, WaitsTaken DEF SameChannel
<1>3. CASE commitSlots' = Append(commitSlots, j)
  BY <1>1, <1>3, WaitsSent DEF SameChannel
<1>4. CASE HashOf[j] # HashOf[i] /\ commitSlots # <<>> /\ Head(commitSlots) = HashOf[j]
           /\ commitSlots' = Tail(commitSlots)
  BY <1>1, <1>4, WaitsTaken DEF SameChannel
<1>5. CASE HashOf[j] # HashOf[i] /\ commitSlots' = Append(commitSlots, HashOf[j])
  BY <1>1, <1>5, WaitsSent DEF SameChannel
<1> QED BY <1>2, <1>3, <1>4, <1>5

\* A slot whose only message is taken has none on its way ...
LEMMA OwnMessageTaken ==
    ASSUME TypeOK, NEW i \in Item, NEW p, NEW q, IsAt(i, p), commitSlots # <<>>,
           Head(commitSlots) \in {i, HashOf[i]}, commitSlots' = Tail(commitSlots),
           q \notin {"commitMsg", "finalMsg", "voteMsg"}
    PROVE  /\ AtChannel(i, q)'
           /\ Head(commitSlots) = i => p \in {"commitMsg", "finalMsg"}
           /\ Head(commitSlots) = HashOf[i] => p = "voteMsg"
  BY WaitsTaken DEF IsAt, AtChannel

\* ... and it has one again when it is sent.
LEMMA OwnMessageSent ==
    ASSUME TypeOK, NEW i \in Item, NEW p, NEW q, IsAt(i, p),
           p \notin {"commitMsg", "finalMsg", "voteMsg"},
           \/ commitSlots' = Append(commitSlots, i) /\ q \in {"commitMsg", "finalMsg"}
           \/ commitSlots' = Append(commitSlots, HashOf[i]) /\ q = "voteMsg"
    PROVE  AtChannel(i, q)'
<1> USE SlotAssumption
<1>1. HashOf[i] \in Hash /\ i # HashOf[i] /\ WaitsOnce(i) /\ ~Waits(i) /\ ~Waits(HashOf[i])
  BY DEF IsAt, AtChannel
<1>2. CASE commitSlots' = Append(commitSlots, i) /\ q \in {"commitMsg", "finalMsg"}
  BY <1>1, <1>2, WaitsSent DEF AtChannel
<1>3. CASE commitSlots' = Append(commitSlots, HashOf[i]) /\ q = "voteMsg"
  BY <1>1, <1>3, WaitsSent DEF AtChannel
<1> QED BY <1>2, <1>3

\* The EpochManager takes a slot up, takes the next step on it, or puts it down.
LEMMA HandMoves ==
    ASSUME NEW i \in Item, NEW j, NEW pc
    PROVE  /\ EmTo(pc, i) /\ pc \in EmAtSlot => AtHand(i, pc)'
           /\ EmTo(pc, j) /\ j # i /\ em.slot # i => SameHand(i)
           /\ EmDone => (\A q : q \notin EmAtSlot => AtHand(i, q)')
           /\ EmDone /\ em.slot # i => SameHand(i)
  BY SlotAssumption DEF EmTo, EmDone, AtHand, SameHand

\* The EpochManager takes a slot it works on to the next place and leaves every
\* slot of another hash where it is.
LEMMA EpochManagerMoves ==
    ASSUME TypeOK, SlotsAreJustified, SlotsAreKnown, EpochManagerStep,
           NEW i \in Item, Alone(i), NEW p \in Stage, IsAt(i, p)
    PROVE  \E q \in Stage : IsAt(i, q)'
<1> USE SlotAssumption, SameWhenUnchanged
<1>0. /\ \A j \in Item : j # i /\ j \in verified => HashOf[j] # HashOf[i]
      /\ HashOf[i] \in Hash /\ i # None /\ i # HashOf[i] /\ credits[i] \in Nat
  BY DEF Alone, SlotsAreKnown, TypeOK, GhostType
<1>1. CASE TakeCommit
  <2> PICK j : j = Head(commitSlots)
    OBVIOUS
  <2>1. /\ j \in Item /\ commitSlots # <<>> /\ commitSlots' = Tail(commitSlots)
        /\ state[j] = "undetermined" /\ em.pc = "select" /\ em.slot \notin Item
        /\ UNCHANGED <<voteVars, credits, finalized>> /\ record'.commits = record.commits
    BY <1>1 DEF TakeCommit, EmIdle, AcceptCommit, RefuseCommit, TypeOK, EmType, EmAtSlot,
       EpochType, Record
  <2>2. SameRound(i)
    BY <2>1 DEF SameRound, InHeartbeat, voteVars
  <2>3. CASE j = i
    <3>1. p = "commitMsg"
      BY ZenonT(40), <2>1, <2>3, OwnMessageTaken DEF IsAt, AtVerdict
    <3>2. CASE AcceptCommit(i)
      <4>1. AtChannel(i, "startTimer")'
        BY <2>1, <2>3, <3>1, OwnMessageTaken
      <4>5. AtRound(i, "startTimer")'
        BY <2>2, <3>1, StaysAway
      <4>2. AtHand(i, "startTimer")'
        BY <3>2, HandMoves DEF AcceptCommit, EmAtSlot, EmPc
      <4>3. AtVerdict(i, "startTimer")'
        BY <2>1, <3>1, <3>2 DEF AcceptCommit, IsAt, AtVerdict
      <4> QED BY <4>1, <4>2, <4>3, <4>5 DEF IsAt, Stage
    <3>3. CASE RefuseCommit(i)
      <4>1. AtChannel(i, "done")'
        BY <2>1, <2>3, <3>1, OwnMessageTaken
      <4>5. AtRound(i, "done")'
        BY <2>2, <3>1, StaysAway
      <4>2. AtHand(i, "done")'
        BY <3>1, <3>3, StaysAway DEF RefuseCommit, EmAtSlot, EmPc
      <4>3. state'[i] = "invalid"
        BY <3>3 DEF RefuseCommit, TypeOK, ItemType
      <4>4. AtVerdict(i, "done")'
        BY <2>1, <3>1, <4>3 DEF IsAt, AtVerdict
      <4> QED BY <4>1, <4>2, <4>4, <4>5 DEF IsAt, Stage
    <3> QED BY <1>1, <2>3, <3>2, <3>3 DEF TakeCommit
  <2>4. CASE j # i
    <3>1. SameChannel(i) /\ HashOf[j] # HashOf[i]
      BY <2>1, <2>4, OtherMessage DEF Alone
    <3>2. SameHand(i)
      BY <1>1, <2>1, <2>4, HandMoves DEF TakeCommit, AcceptCommit, RefuseCommit
    <3>3. SameVerdict(i)
      BY <1>1, <2>1, <2>4, <3>1
      DEF TakeCommit, AcceptCommit, RefuseCommit, SameVerdict, TypeOK, ItemType
    <3> QED BY <2>2, <3>1, <3>2, <3>3, StaysThere
  <2> QED BY <2>3, <2>4
<1>15. CASE StartTimer
  <2> PICK j : j = em.slot
    OBVIOUS
  <2>1. /\ j \in Item /\ em.pc = "startTimer" /\ EmTo("recordCommit", j)
        /\ UNCHANGED <<voteVars, record, commitSlots, state, credits, finalized, invalidated>>
    BY <1>15, EmSlot DEF StartTimer, EmAtSlot, EmPc, itemVars, ghostVars
  <2>2. SameChannel(i) /\ SameRound(i) /\ SameVerdict(i)
    BY <2>1
  <2>3. CASE j = i
    <3>1. p = "startTimer"
      BY <2>1, <2>3 DEF IsAt, AtHand
    <3>2. AtChannel(i, "recordCommit")' /\ AtRound(i, "recordCommit")'
      BY <2>2, <3>1, StaysAway
    <3>3. AtHand(i, "recordCommit")'
      BY <2>1, <2>3, HandMoves DEF EmAtSlot, EmPc
    <3>4. AtVerdict(i, "recordCommit")'
      BY <2>1, <3>1 DEF IsAt, AtVerdict
    <3> QED BY <3>2, <3>3, <3>4 DEF IsAt, Stage
  <2>4. CASE j # i
    <3>1. SameHand(i)
      BY <2>1, <2>4, HandMoves
    <3> QED BY <2>2, <3>1, StaysThere
  <2> QED BY <2>3, <2>4
<1>2. CASE RecordCommit
  <2> PICK j : j = em.slot
    OBVIOUS
  <2>1. /\ j \in Item /\ j \in verified /\ em.pc = "recordCommit" /\ EmDone
        /\ UNCHANGED <<voteVars, commitSlots, state, credits, finalized, invalidated>>
    BY <1>2, EmSlot DEF RecordCommit, EmAtSlot, EmPc, SlotsAreJustified, HandIsJustified,
       itemVars, ghostVars
  <2>2. /\ state[j] = "invalid" => record'.commits = record.commits
        /\ state[j] # "invalid" => record'.commits = PutItem(record.commits, j)
    BY <1>2 DEF RecordCommit, TypeOK, EpochType, Record
  <2>3. SameChannel(i)
    BY <2>1
  <2>4. CASE j = i
    <3>1. p = "recordCommit"
      BY <2>1, <2>4 DEF IsAt, AtHand
    <3>2. CASE state[i] = "invalid"
      <4>1. AtChannel(i, "done")' /\ AtHand(i, "done")'
        BY <2>1, <2>3, <3>1, StaysAway, HandMoves DEF EmAtSlot, EmPc
      <4>2. SameRound(i)
        BY <2>1, <2>2, <2>4, <3>2 DEF SameRound, voteVars, InHeartbeat
      <4>3. AtRound(i, "done")'
        BY <3>1, <4>2, StaysAway
      <4>4. AtVerdict(i, "done")'
        BY <2>1, <3>1 DEF IsAt, AtVerdict
      <4> QED BY <4>1, <4>3, <4>4 DEF IsAt, Stage
    <3>3. CASE state[i] # "invalid"
      <4>1. AtChannel(i, "commits")' /\ AtHand(i, "commits")'
        BY <2>1, <2>3, <3>1, StaysAway, HandMoves DEF EmAtSlot, EmPc
      <4>2. AtRound(i, "commits")'
        BY <2>1, <2>2, <2>4, <3>1, <3>3 DEF PutItem, IsAt, AtRound, InHeartbeat, voteVars
      <4>3. AtVerdict(i, "commits")'
        BY <2>1, <3>1 DEF IsAt, AtVerdict
      <4> QED BY <4>1, <4>2, <4>3 DEF IsAt, Stage
    <3> QED BY <3>2, <3>3
  <2>5. CASE j # i
    <3>1. SameRound(i)
      BY <1>0, <2>1, <2>2, <2>5 DEF SameRound, PutItem, voteVars, InHeartbeat
    <3> QED BY <2>1, <2>3, <2>5, <3>1, HandMoves, StaysThere
  <2> QED BY <2>4, <2>5
<1>3. CASE TakeVote
  <2> PICK h : h = Head(commitSlots)
    OBVIOUS
  <2>1. /\ h \in Hash /\ commitSlots # <<>> /\ commitSlots' = Tail(commitSlots)
        /\ em.pc = "select" /\ em.slot \notin Item
        /\ UNCHANGED <<voteVars, record, state, credits, finalized, invalidated>>
    BY <1>3 DEF TakeVote, EmIdle, TypeOK, EmType, EmAtSlot, itemVars, ghostVars
  <2>2. \/ UNCHANGED em
        \/ pending[h] \in Item /\ pending[h] \in verified /\ HashOf[pending[h]] = h
           /\ EmTo("checkFinal", pending[h])
    BY <1>3, <2>1 DEF TakeVote, TypeOK, TrackType, SlotsAreJustified, TrackIsJustified
  <2>3. CASE h = HashOf[i]
    <3>1. p = "voteMsg"
      BY <2>1, <2>3, OwnMessageTaken
    <3>2. CASE UNCHANGED em
      <4>1. AtChannel(i, "done")'
        BY <2>1, <2>3, <3>1, OwnMessageTaken
      <4>4. SameRound(i) /\ SameHand(i)
        BY <2>1, <3>2
      <4>2. AtRound(i, "done")' /\ AtHand(i, "done")'
        BY <3>1, <4>4, StaysAway DEF EmAtSlot, EmPc
      <4>3. AtVerdict(i, "done")'
        BY <2>1, <3>1 DEF IsAt, AtVerdict
      <4> QED BY <4>1, <4>2, <4>3 DEF IsAt, Stage
    <3>3. CASE EmTo("checkFinal", i)
      <4>1. AtChannel(i, "checkFinal")'
        BY <2>1, <2>3, <3>1, OwnMessageTaken
      <4>2. AtRound(i, "checkFinal")' /\ AtHand(i, "checkFinal")'
        BY ZenonT(40), <2>1, <3>1, <3>3, StaysAway, HandMoves DEF EmAtSlot, EmPc
      <4>3. AtVerdict(i, "checkFinal")'
        BY <2>1, <3>1 DEF IsAt, AtVerdict
      <4> QED BY <4>1, <4>2, <4>3 DEF IsAt, Stage
    <3> QED BY <1>0, <2>2, <2>3, <3>2, <3>3
  <2>4. CASE h # HashOf[i]
    <3>1. h # i
      BY <2>1
    <3>2. SameChannel(i)
      BY <2>1, <2>4, <3>1, WaitsTaken DEF SameChannel
    <3>3. SameHand(i)
      BY <2>1, <2>2, <2>4, HandMoves
    <3> QED BY <2>1, <3>2, <3>3, StaysThere
  <2> QED BY <2>3, <2>4
<1>4. CASE CheckFinalized
  <2> PICK j : j = em.slot
    OBVIOUS
  <2>1. /\ j \in Item /\ em.pc = "checkFinal"
        /\ UNCHANGED <<voteVars, record, commitSlots, credits, finalized, invalidated>>
        /\ \/ state' = [state EXCEPT ![j] = "finalize"] /\ EmTo("sendFinal", j)
           \/ UNCHANGED state /\ EmDone
    BY <1>4, EmSlot DEF CheckFinalized, EmAtSlot, EmPc, ghostVars
  <2>2. SameChannel(i) /\ SameRound(i)
    BY <2>1
  <2>3. CASE j = i
    <3>1. p = "checkFinal"
      BY <2>1, <2>3 DEF IsAt, AtHand
    <3>2. CASE state' = [state EXCEPT ![j] = "finalize"] /\ EmTo("sendFinal", j)
      <4>1. AtChannel(i, "sendFinal")' /\ AtRound(i, "sendFinal")' /\ AtHand(i, "sendFinal")'
        BY <2>2, <2>3, <3>1, <3>2, StaysAway, HandMoves DEF EmAtSlot, EmPc
      <4>2. state'[i] = "finalize"
        BY <2>3, <3>2 DEF TypeOK, ItemType
      <4>3. AtVerdict(i, "sendFinal")'
        BY <2>1, <3>1, <4>2 DEF IsAt, AtVerdict
      <4> QED BY <4>1, <4>3 DEF IsAt, Stage
    <3>3. CASE UNCHANGED state /\ EmDone
      <4>1. AtChannel(i, "done")' /\ AtRound(i, "done")' /\ AtHand(i, "done")'
        BY <2>2, <3>1, <3>3, StaysAway, HandMoves DEF EmAtSlot, EmPc
      <4>2. AtVerdict(i, "done")'
        BY <2>1, <3>1, <3>3 DEF IsAt, AtVerdict
      <4> QED BY <4>1, <4>2 DEF IsAt, Stage
    <3> QED BY <2>1, <3>2, <3>3
  <2>4. CASE j # i
    <3>1. SameHand(i) /\ SameVerdict(i)
      BY <2>1, <2>4, HandMoves DEF SameVerdict, TypeOK, ItemType
    <3> QED BY <2>2, <3>1, StaysThere
  <2> QED BY <2>3, <2>4
<1>5. CASE SendFinalized
  <2> PICK j : j = em.slot
    OBVIOUS
  <2>1. /\ j \in Item /\ em.pc = "sendFinal" /\ commitSlots' = Append(commitSlots, j) /\ EmDone
        /\ UNCHANGED <<voteVars, record, state, credits, finalized, invalidated>>
    BY <1>5, EmSlot DEF SendFinalized, EmAtSlot, EmPc, itemVars, ghostVars
  <2>2. CASE j = i
    <3>1. p = "sendFinal"
      BY <2>1, <2>2 DEF IsAt, AtHand
    <3>2. AtChannel(i, "finalMsg")'
      BY <2>1, <2>2, <3>1, OwnMessageSent
    <3>3. AtRound(i, "finalMsg")' /\ AtHand(i, "finalMsg")'
      BY ZenonT(40), <2>1, <2>2, <3>1, StaysAway, HandMoves DEF EmAtSlot, EmPc
    <3>4. AtVerdict(i, "finalMsg")'
      BY <2>1, <3>1 DEF IsAt, AtVerdict
    <3> QED BY <3>2, <3>3, <3>4 DEF IsAt, Stage
  <2>3. CASE j # i
    <3>1. SameChannel(i) /\ SameHand(i)
      BY <2>1, <2>3, OtherMessage, HandMoves
    <3> QED BY <2>1, <3>1, StaysThere
  <2> QED BY <2>2, <2>3
<1>6. CASE TakeFinalized
  <2> PICK j : j = Head(commitSlots)
    OBVIOUS
  <2>1. /\ j \in Item /\ commitSlots # <<>> /\ commitSlots' = Tail(commitSlots)
        /\ state[j] = "finalize" /\ em.pc = "select" /\ em.slot \notin Item
        /\ EmTo("setFinal", j)
        /\ UNCHANGED <<voteVars, record, state, credits, finalized, invalidated>>
    BY <1>6 DEF TakeFinalized, EmIdle, TypeOK, EmType, EmAtSlot, itemVars, ghostVars
  <2>2. CASE j = i
    <3>1. p = "finalMsg"
      BY <2>1, <2>2, OwnMessageTaken DEF IsAt, AtVerdict
    <3>2. AtChannel(i, "setFinal")'
      BY <2>1, <2>2, <3>1, OwnMessageTaken
    <3>5. AtHand(i, "setFinal")'
      BY <2>1, <2>2, HandMoves DEF EmAtSlot, EmPc
    <3>6. SameRound(i)
      BY <2>1
    <3>3. AtRound(i, "setFinal")' /\ AtHand(i, "setFinal")'
      BY <3>1, <3>5, <3>6, StaysAway
    <3>4. AtVerdict(i, "setFinal")'
      BY <2>1, <3>1 DEF IsAt, AtVerdict
    <3> QED BY <3>2, <3>3, <3>4 DEF IsAt, Stage
  <2>3. CASE j # i
    <3>1. SameChannel(i) /\ SameHand(i)
      BY <2>1, <2>3, OtherMessage, HandMoves
    <3> QED BY <2>1, <3>1, StaysThere
  <2> QED BY <2>2, <2>3
<1>7. CASE SetFinalized
  <2> PICK j : j = em.slot
    OBVIOUS
  <2>1. /\ j \in Item /\ em.pc = "setFinal" /\ EmTo("credit", j)
        /\ state' = [state EXCEPT ![j] = "finalize"]
        /\ UNCHANGED <<voteVars, record, commitSlots, credits, finalized, invalidated>>
    BY <1>7, EmSlot DEF SetFinalized, EmAtSlot, EmPc, ghostVars
  <2>2. SameChannel(i) /\ SameRound(i)
    BY <2>1
  <2>3. CASE j = i
    <3>1. p = "setFinal"
      BY <2>1, <2>3 DEF IsAt, AtHand
    <3>2. AtChannel(i, "credit")' /\ AtRound(i, "credit")' /\ AtHand(i, "credit")'
      BY <2>1, <2>2, <2>3, <3>1, StaysAway, HandMoves DEF EmAtSlot, EmPc
    <3>3. state'[i] = "finalize"
      BY <2>1, <2>3 DEF TypeOK, ItemType
    <3>4. AtVerdict(i, "credit")'
      BY <2>1, <3>1, <3>3 DEF IsAt, AtVerdict
    <3> QED BY <3>2, <3>4 DEF IsAt, Stage
  <2>4. CASE j # i
    <3>1. SameHand(i) /\ SameVerdict(i)
      BY <2>1, <2>4, HandMoves DEF SameVerdict, TypeOK, ItemType
    <3> QED BY <2>2, <3>1, StaysThere
  <2> QED BY <2>3, <2>4
<1>8. CASE TrackerCommit
  <2> PICK j : j = em.slot
    OBVIOUS
  <2>1. /\ j \in Item /\ em.pc = "credit"
        /\ UNCHANGED <<voteVars, record, commitSlots, state, finalized, invalidated>>
        /\ \/ UNCHANGED credits /\ EmDone
           \/ credits' = [credits EXCEPT ![j] = @ + 1] /\ EmTo("recordFinal", j)
    BY <1>8, EmSlot DEF TrackerCommit, AfterFailedCommit, Credit, EmAtSlot, EmPc, itemVars
  <2>2. SameChannel(i) /\ SameRound(i)
    BY <2>1
  <2>3. CASE j = i
    <3>1. p = "credit"
      BY <2>1, <2>3 DEF IsAt, AtHand
    <3>2. CASE UNCHANGED credits /\ EmDone
      <4>1. AtChannel(i, "done")' /\ AtRound(i, "done")' /\ AtHand(i, "done")'
        BY <2>2, <3>1, <3>2, StaysAway, HandMoves DEF EmAtSlot, EmPc
      <4>2. AtVerdict(i, "done")'
        BY <2>1, <3>1, <3>2 DEF IsAt, AtVerdict
      <4> QED BY <4>1, <4>2 DEF IsAt, Stage
    <3>3. CASE credits' = [credits EXCEPT ![j] = @ + 1] /\ EmTo("recordFinal", j)
      <4>1. AtChannel(i, "recordFinal")' /\ AtRound(i, "recordFinal")' /\ AtHand(i, "recordFinal")'
        BY <2>2, <2>3, <3>1, <3>3, StaysAway, HandMoves DEF EmAtSlot, EmPc
      <4>2. credits[i] = 0
        BY <1>0, <3>1 DEF IsAt, AtVerdict
      <4>3. credits'[i] = 1
        BY <2>3, <3>3, <4>2 DEF TypeOK, GhostType
      <4>4. AtVerdict(i, "recordFinal")'
        BY <2>1, <3>1, <4>3 DEF IsAt, AtVerdict
      <4> QED BY <4>1, <4>4 DEF IsAt, Stage
    <3> QED BY <2>1, <3>2, <3>3
  <2>4. CASE j # i
    <3>1. SameHand(i) /\ SameVerdict(i)
      BY <2>1, <2>4, HandMoves DEF SameVerdict, TypeOK, GhostType
    <3> QED BY <2>2, <3>1, StaysThere
  <2> QED BY <2>3, <2>4
<1>9. CASE RecordFinalize
  <2> PICK j : j = em.slot
    OBVIOUS
  <2>1. /\ j \in Item /\ j \in verified /\ em.pc = "recordFinal" /\ EmDone
        /\ record'.commits = record.commits
        /\ UNCHANGED <<voteVars, commitSlots, credits, invalidated>>
    BY <1>9, EmSlot DEF RecordFinalize, EmAtSlot, EmPc, SlotsAreJustified, HandIsJustified,
       Justified, TypeOK, EpochType, Record
  <2>2. SameChannel(i) /\ SameRound(i)
    BY <2>1 DEF SameRound, InHeartbeat, voteVars
  <2>3. CASE j = i
    <3>1. p = "recordFinal" /\ state[i] = "finalize"
      BY <2>1, <2>3 DEF IsAt, AtHand, AtVerdict
    <3>2. AtChannel(i, "done")' /\ AtRound(i, "done")' /\ AtHand(i, "done")'
      BY <2>1, <2>2, <3>1, StaysAway, HandMoves DEF EmAtSlot, EmPc
    <3>3. UNCHANGED state
      BY <1>9, <2>3, <3>1 DEF RecordFinalize
    <3>4. AtVerdict(i, "done")'
      BY <2>1, <3>1, <3>3 DEF IsAt, AtVerdict
    <3> QED BY <3>2, <3>4 DEF IsAt, Stage
  <2>4. CASE j # i
    <3>1. HashOf[j] # HashOf[i]
      BY <1>0, <2>1, <2>4
    <3>2. SameHand(i) /\ SameVerdict(i)
      BY <1>9, <2>1, <2>4, <3>1, HandMoves DEF RecordFinalize, SameVerdict, TypeOK, ItemType
    <3> QED BY <2>2, <3>2, StaysThere
  <2> QED BY <2>3, <2>4
<1>10. CASE TakeInvalid
  <2> PICK j : j = Head(commitSlots)
    OBVIOUS
  <2>1. /\ j \in Item /\ commitSlots # <<>> /\ commitSlots' = Tail(commitSlots)
        /\ state[j] = "invalid" /\ record'.commits = record.commits
        /\ UNCHANGED <<voteVars, em, state, credits, finalized>>
        /\ invalidated' = invalidated \cup {HashOf[j]}
    BY <1>10 DEF TakeInvalid, itemVars, TypeOK, EpochType, Record
  <2>2. j # i
    BY <2>1, OwnMessageTaken DEF IsAt, AtVerdict
  <2>3. HashOf[j] # HashOf[i]
    BY <2>1, <2>2 DEF Alone
  <2>4. SameChannel(i) /\ SameRound(i) /\ SameVerdict(i)
    BY <2>1, <2>2, <2>3, OtherMessage DEF SameRound, InHeartbeat, voteVars, SameVerdict
  <2> QED BY <2>1, <2>4, StaysThere
<1>11. ASSUME NEW h \in unscheduled, TakeUnscheduled(h) PROVE \E q \in Stage : IsAt(i, q)'
  <2>1. /\ h \in Unscheduled /\ invalidated' = invalidated \cup {h}
        /\ record'.commits = record.commits
        /\ UNCHANGED <<voteVars, commitSlots, em, state, credits, finalized>>
    BY <1>11 DEF TakeUnscheduled, SlotsAreKnown, itemVars, TypeOK, EpochType, Record
  <2>2. SameChannel(i) /\ SameHand(i) /\ SameRound(i) /\ SameVerdict(i)
    BY <2>1 DEF SameRound, InHeartbeat, voteVars, SameVerdict
  <2> QED BY <2>2, StaysThere
<1>12. ASSUME NEW t \in announced, TakeTask(t) PROVE \E q \in Stage : IsAt(i, q)'
  <2>1. /\ record'.commits = record.commits
        /\ UNCHANGED <<voteVars, commitSlots, em, state, credits, finalized, invalidated>>
    BY <1>12 DEF TakeTask, itemVars, ghostVars, TypeOK, EpochType, Record
  <2>2. SameChannel(i) /\ SameHand(i) /\ SameRound(i) /\ SameVerdict(i)
    BY <2>1 DEF SameRound, InHeartbeat, voteVars
  <2> QED BY <2>2, StaysThere
<1>13. CASE UpdateEpoch
  <2>1. /\ em.slot \notin Item /\ em'.slot = None
        /\ UNCHANGED <<voteVars, record, commitSlots, state, credits, finalized, invalidated>>
    BY <1>13 DEF UpdateEpoch, EmIdle, EmTo, itemVars, ghostVars, TypeOK, EmType, EmAtSlot
  <2> QED BY <1>0, <2>1, StaysThere DEF SameHand
<1>14. CASE SendHeartbeat
  <2>1. /\ em.slot \notin Item /\ EmDone /\ record'.commits = {}
        /\ heartbeats' = Append(heartbeats, record.commits) /\ Len(heartbeats) < 1
        /\ UNCHANGED <<voting, accepts, commitSlots, state, credits, finalized, invalidated>>
    BY <1>14
    DEF SendHeartbeat, Refresh, NewRecord, itemVars, ghostVars, TypeOK, EmType, EmAtSlot
  <2>2. heartbeats \in Seq(SUBSET Item) /\ record.commits \in SUBSET Item
    BY DEF TypeOK, VoteType, EpochType, Record
  <2>3. Len(heartbeats) = 0 /\ Len(heartbeats') = 1 /\ heartbeats'[1] = record.commits
    BY <2>1, <2>2
  <2>4. ~InHeartbeat(i) /\ (InHeartbeat(i)' <=> i \in record.commits)
    BY <2>3 DEF InHeartbeat
  <2>5. SameChannel(i) /\ SameHand(i) /\ SameVerdict(i)
    BY <2>1, HandMoves
  <2>6. CASE p = "commits"
    <3>1. AtChannel(i, "heartbeat")' /\ AtHand(i, "heartbeat")'
      BY <2>5, <2>6, StaysAway DEF EmAtSlot, EmPc
    <3>2. AtRound(i, "heartbeat")'
      BY <2>1, <2>4, <2>6 DEF IsAt, AtRound
    <3>3. AtVerdict(i, "heartbeat")'
      BY <2>1, <2>6 DEF IsAt, AtVerdict
    <3> QED BY <3>1, <3>2, <3>3 DEF IsAt, Stage
  <2>7. CASE p # "commits"
    <3>1. SameRound(i)
      BY <2>1, <2>4, <2>7 DEF IsAt, AtRound, SameRound
    <3> QED BY <2>5, <3>1, StaysThere
  <2> QED BY <2>6, <2>7
<1> QED
  BY <1>1, <1>2, <1>3, <1>4, <1>5, <1>6, <1>7, <1>8, <1>9, <1>10, <1>11, <1>12, <1>13, <1>14,
     <1>15
  DEF EpochManagerStep

\* The heartbeat round takes a slot on from its record to the message of its vote.
LEMMA CoordinatorMoves ==
    ASSUME TypeOK, SlotsAreJustified, SlotsAreKnown, CoordinatorStep,
           NEW i \in Item, Alone(i), NEW p \in Stage, IsAt(i, p)
    PROVE  \E q \in Stage : IsAt(i, q)'
<1> USE SlotAssumption, SameWhenUnchanged
<1>1. CASE TakeHeartbeat
  <2>1. /\ voting = {} /\ heartbeats # <<>> /\ voting' = Head(heartbeats)
        /\ heartbeats' = Tail(heartbeats)
        /\ UNCHANGED <<accepts, record, em, commitSlots, state, credits, finalized, invalidated>>
    BY <1>1 DEF TakeHeartbeat, itemVars, ghostVars
  <2>2. heartbeats \in Seq(SUBSET Item) /\ Len(heartbeats) <= 1
    BY DEF TypeOK, VoteType
  <2>3. Len(heartbeats) = 1 /\ Len(heartbeats') = 0 /\ heartbeats[1] = voting'
    <3>1. Len(heartbeats) = 1
      <4>1. Len(heartbeats) \in Nat /\ 1 \in 1 .. Len(heartbeats)
        BY <2>1, <2>2, TailFacts
      <4> PICK n : n = Len(heartbeats)
        OBVIOUS
      <4>2. n \in Nat /\ n <= 1 /\ 1 \in 1 .. n
        BY <2>2, <4>1
      <4>3. n = 1
        BY <4>2
      <4> QED BY <4>3
    <3>2. Len(heartbeats') = Len(heartbeats) - 1 /\ voting' = heartbeats[1]
      BY <2>1, <2>2, TailFacts
    <3> QED BY <3>1, <3>2
  <2>4. ~InHeartbeat(i)' /\ (InHeartbeat(i) <=> i \in voting')
    BY <2>3 DEF InHeartbeat
  <2>5. SameChannel(i) /\ SameHand(i) /\ SameVerdict(i)
    BY <2>1
  <2>6. CASE p = "heartbeat"
    <3>1. AtChannel(i, "voting")' /\ AtHand(i, "voting")'
      BY <2>5, <2>6, StaysAway DEF EmAtSlot, EmPc
    <3>2. AtRound(i, "voting")'
      BY <2>1, <2>4, <2>6 DEF IsAt, AtRound
    <3>3. AtVerdict(i, "voting")'
      BY <2>1, <2>6 DEF IsAt, AtVerdict
    <3> QED BY <3>1, <3>2, <3>3 DEF IsAt, Stage
  <2>7. CASE p # "heartbeat"
    <3>1. SameRound(i)
      BY <2>1, <2>4, <2>7 DEF IsAt, AtRound, SameRound
    <3> QED BY <2>5, <3>1, StaysThere
  <2> QED BY <2>6, <2>7
<1>2. ASSUME NEW n \in waiting, NodeVotes(n) \/ NodeFails(n) PROVE \E q \in Stage : IsAt(i, q)'
  <2>1. UNCHANGED <<heartbeats, voting, accepts, record, em, commitSlots, state, credits,
                    finalized, invalidated>>
    BY <1>2 DEF NodeVotes, NodeFails, itemVars, ghostVars
  <2>2. SameRound(i)
    BY <2>1 DEF SameRound, InHeartbeat
  <2> QED BY <2>1, <2>2, StaysThere
<1>3. CASE CloseVotes
  <2>1. /\ voting' = {} /\ accepts' = accepts \cup Accepted /\ Accepted \subseteq voting
        /\ UNCHANGED <<heartbeats, record, em, commitSlots, state, credits, finalized, invalidated>>
    BY <1>3 DEF CloseVotes, Accepted, itemVars
  <2>2. SameChannel(i) /\ SameHand(i) /\ SameVerdict(i)
    BY <2>1
  <2>3. CASE p = "voting" /\ i \in Accepted
    <3>1. AtChannel(i, "accepts")' /\ AtHand(i, "accepts")'
      BY <2>2, <2>3, StaysAway DEF EmAtSlot, EmPc
    <3>2. AtRound(i, "accepts")'
      BY <2>1, <2>3 DEF IsAt, AtRound, InHeartbeat
    <3>3. AtVerdict(i, "accepts")'
      BY <2>1, <2>3 DEF IsAt, AtVerdict
    <3> QED BY <3>1, <3>2, <3>3 DEF IsAt, Stage
  <2>4. CASE p = "voting" /\ i \notin Accepted
    <3>1. AtChannel(i, "done")' /\ AtHand(i, "done")'
      BY <2>2, <2>4, StaysAway DEF EmAtSlot, EmPc
    <3>2. AtRound(i, "done")'
      BY <2>1, <2>4 DEF IsAt, AtRound, InHeartbeat
    <3>3. AtVerdict(i, "done")'
      BY <2>1, <2>4 DEF IsAt, AtVerdict
    <3> QED BY <3>1, <3>2, <3>3 DEF IsAt, Stage
  <2>5. CASE p # "voting"
    <3>1. SameRound(i)
      BY <2>1, <2>5 DEF IsAt, AtRound, SameRound, InHeartbeat
    <3> QED BY <2>2, <3>1, StaysThere
  <2> QED BY <2>3, <2>4, <2>5
<1>4. ASSUME NEW j \in accepts, SendJustified(j) PROVE \E q \in Stage : IsAt(i, q)'
  <2>1. /\ j \in Item /\ j \in verified
        /\ accepts' = accepts \ {j} /\ commitSlots' = Append(commitSlots, HashOf[j])
        /\ UNCHANGED <<voting, heartbeats, record, em, state, credits, finalized, invalidated>>
    BY <1>4 DEF SendJustified, itemVars, ghostVars, TypeOK, VoteType, SlotsAreJustified,
       RoundIsJustified
  <2>2. SameHand(i) /\ SameVerdict(i)
    BY <2>1
  <2>3. CASE j = i
    <3>1. p = "accepts"
      BY <1>4, <2>3 DEF IsAt, AtRound
    <3>2. AtChannel(i, "voteMsg")'
      BY <2>1, <2>3, <3>1, OwnMessageSent
    <3>3. AtHand(i, "voteMsg")'
      BY <2>2, <3>1, StaysAway DEF EmAtSlot, EmPc
    <3>4. AtRound(i, "voteMsg")'
      BY <2>1, <2>3, <3>1 DEF IsAt, AtRound, InHeartbeat
    <3>5. AtVerdict(i, "voteMsg")'
      BY <2>1, <3>1 DEF IsAt, AtVerdict
    <3> QED BY <3>2, <3>3, <3>4, <3>5 DEF IsAt, Stage
  <2>4. CASE j # i
    <3>1. HashOf[j] # HashOf[i]
      BY <2>1, <2>4 DEF SlotsAreKnown, Alone
    <3>2. SameChannel(i)
      BY <2>1, <2>4, <3>1, OtherMessage
    <3>3. SameRound(i)
      BY <2>1, <2>4 DEF SameRound, InHeartbeat
    <3> QED BY <2>2, <3>2, <3>3, StaysThere
  <2> QED BY <2>3, <2>4
<1> QED BY <1>1, <1>2, <1>3, <1>4 DEF CoordinatorStep

\* CollectExpire moves no slot but the one it gives up.
LEMMA CollectExpireMoves ==
    ASSUME TypeOK, SlotsAreKnown, CollectExpireStep,
           NEW i \in Item, i \notin aborted', NEW p \in Stage, IsAt(i, p)
    PROVE  \E q \in Stage : IsAt(i, q)'
<1> USE SlotAssumption, SameWhenUnchanged
<1>1. UNCHANGED <<voteVars, record, em, credits, finalized, invalidated>>
  BY DEF CollectExpireStep, ExpireTask, SendTask, ExpireSlot, ExpireSetInvalid, ExpireSend,
     ExpireDelete, ghostVars
<1>2. SameVerdict(i)
  <2>1. CASE ExpireSetInvalid
    <3>1. state'[i] = state[i]
      BY <2>1, ExpireSlotInHand DEF ExpireSetInvalid, TypeOK, ItemType
    <3> QED BY <1>1, <3>1 DEF SameVerdict
  <2>2. CASE ~ExpireSetInvalid
    <3>1. UNCHANGED state
      BY <2>2 DEF CollectExpireStep, ExpireTask, SendTask, ExpireSlot, ExpireSend,
         ExpireDelete, itemVars
    <3> QED BY <1>1, <3>1
  <2> QED BY <2>1, <2>2
<1>3. SameChannel(i)
  <2>1. CASE ExpireSend
    <3> PICK j : j = expire.slot
      OBVIOUS
    <3>1. j \in Item /\ j # i /\ commitSlots' = Append(commitSlots, j)
      BY <2>1, ExpireSlotInHand DEF ExpireSend, SlotsAreKnown, ghostVars
    <3> QED BY <3>1, OtherMessage
  <2>2. CASE ~ExpireSend
    BY <2>2 DEF CollectExpireStep, ExpireTask, SendTask, ExpireSlot, ExpireSetInvalid,
       ExpireDelete
  <2> QED BY <2>1, <2>2
<1> QED BY <1>1, <1>2, <1>3, StaysThere

\* A call puts its own slot on its way.
LEMMA CommitMoves ==
    ASSUME TypeOK, NEW j \in Item, CommitSlot(j), NEW i \in Item, NEW p \in Stage, IsAt(i, p)
    PROVE  \E q \in Stage : IsAt(i, q)'
<1> USE SlotAssumption, SameWhenUnchanged
<1>1. /\ state[j] = "absent" /\ state' = [state EXCEPT ![j] = "undetermined"]
      /\ commitSlots' = Append(commitSlots, j)
      /\ UNCHANGED <<voteVars, record, em, credits, finalized, invalidated>>
  BY DEF CommitSlot, ghostVars
<1>2. CASE j = i
  <2>1. p = "absent"
    BY <1>1, <1>2 DEF IsAt, AtVerdict
  <2>2. AtChannel(i, "commitMsg")'
    BY <1>1, <1>2, <2>1, OwnMessageSent
  <2>6. SameHand(i) /\ SameRound(i)
    BY <1>1
  <2>3. AtHand(i, "commitMsg")' /\ AtRound(i, "commitMsg")'
    BY <2>1, <2>6, StaysAway DEF EmAtSlot, EmPc
  <2>4. state'[i] = "undetermined"
    BY <1>1, <1>2 DEF TypeOK, ItemType
  <2>5. AtVerdict(i, "commitMsg")'
    BY <1>1, <2>1, <2>4 DEF IsAt, AtVerdict
  <2> QED BY <2>2, <2>3, <2>5 DEF IsAt, Stage
<1>3. CASE j # i
  <2>1. SameChannel(i) /\ SameVerdict(i)
    <3>1. SameVerdict(i)
      BY <1>1, <1>3 DEF SameVerdict, TypeOK, ItemType
    <3>2. j \notin {i, HashOf[i]}
      BY <1>3
    <3>3. SameChannel(i)
      BY <1>1, <3>2, WaitsSent DEF SameChannel
    <3> QED BY <3>1, <3>3
  <2> QED BY <1>1, <2>1, StaysThere
<1> QED BY <1>2, <1>3

\* What is on its way stays made of calls, and what CollectExpire sends aborted.
LEMMA StepKeepsKnown ==
    ASSUME TypeOK, SlotsAreJustified, SlotsAreKnown, [Next]_vars
    PROVE  SlotsAreKnown'
<1> USE SlotAssumption
<1>1. \A j \in Item : state[j] # "absent" => state'[j] # "absent"
  BY RacesStay
<1>2. /\ \A j \in verified' : j \in Item /\ state'[j] # "absent"
      /\ verified \subseteq verified'
  <2>1. CASE TakeCommit
    BY <1>1, <2>1, Received DEF TakeCommit, AcceptCommit, RefuseCommit, SlotsAreKnown,
       TypeOK, GhostType
  <2>2. CASE ~TakeCommit
    <3>1. UNCHANGED verified
      BY <2>2 DEF ghostVars, Next, EpochManagerStep, CoordinatorStep, CollectExpireStep, vars,
         CommitSlot, RecordCommit, TakeVote, CheckFinalized, SendFinalized, TakeFinalized,
         SetFinalized, TakeInvalid, TakeUnscheduled, TakeTask, TrackerCommit, RecordFinalize,
         UpdateEpoch, SendHeartbeat, TakeHeartbeat, NodeVotes, NodeFails, CloseVotes,
         SendJustified, ExpireSlot, ExpireSetInvalid, ExpireSend, ExpireDelete, MapFault, CertificateFault, StartTimer,
     ExpireTask, SendTask
    <3> QED BY <1>1, <3>1 DEF SlotsAreKnown, TypeOK, GhostType
  <2> QED BY <2>1, <2>2
<1>3. timers' \subseteq verified'
  <2>1. CASE StartTimer
    <3>1. em.slot \in verified
      BY <2>1 DEF StartTimer, SlotsAreJustified, HandIsJustified
    <3> QED BY <1>2, <2>1, <3>1 DEF StartTimer, SlotsAreKnown
  <2>2. ASSUME ~StartTimer PROVE timers' \subseteq timers
    BY <2>2 DEF Next, EpochManagerStep, CoordinatorStep, CollectExpireStep, vars, AcceptCommit,
       RefuseCommit, CommitSlot, TakeCommit, RecordCommit, TakeVote, CheckFinalized,
       SendFinalized, TakeFinalized, SetFinalized, TakeInvalid, TakeUnscheduled, TakeTask,
       TrackerCommit, RecordFinalize, UpdateEpoch, SendHeartbeat, TakeHeartbeat, NodeVotes,
       NodeFails, CloseVotes, SendJustified, ExpireSlot, ExpireSetInvalid, ExpireSend,
       ExpireDelete, MapFault, CertificateFault,
     ExpireTask, SendTask
  <2> QED BY <1>2, <2>1, <2>2 DEF SlotsAreKnown
<1>4. /\ expire'.slot \in Item => expire'.slot \in verified'
      /\ expire'.pc = "send" => expire'.slot \in aborted'
  <2>1. CASE \E j \in timers : ExpireSlot(j)
    BY <1>2, <2>1 DEF ExpireSlot, ExpireTo, SlotsAreKnown
  <2>2. CASE ExpireSetInvalid \/ ExpireSend \/ ExpireDelete
    BY <1>2, <2>2 DEF ExpireSetInvalid, ExpireSend, ExpireDelete, ExpireTo, SlotsAreKnown
  <2>3. CASE ~CollectExpireStep
    <3>1. UNCHANGED <<expire, aborted>>
      BY <2>3 DEF ghostVars, Next, EpochManagerStep, CoordinatorStep, vars, AcceptCommit,
       RefuseCommit, CommitSlot, TakeCommit, RecordCommit, TakeVote, CheckFinalized,
       SendFinalized, TakeFinalized, SetFinalized, TakeInvalid, TakeUnscheduled, TakeTask,
       TrackerCommit, RecordFinalize, UpdateEpoch, SendHeartbeat, TakeHeartbeat, NodeVotes,
       NodeFails, CloseVotes, SendJustified, MapFault, CertificateFault, StartTimer,
     ExpireTask, SendTask
    <3> QED BY <1>2, <3>1 DEF SlotsAreKnown
  <2>4. CASE (\E t \in Tracked : ExpireTask(t)) \/ SendTask
    BY <1>2, <2>4, SlotAssumption DEF ExpireTask, SendTask, ExpireTo, SlotsAreKnown
  <2> QED BY <2>1, <2>2, <2>3, <2>4 DEF CollectExpireStep
<1>5. \A k \in 1 .. Len(commitSlots') :
          commitSlots'[k] \in Item => state'[commitSlots'[k]] # "absent"
  <2>0. commitSlots \in Seq(Item \cup Hash)
    BY DEF TypeOK, ChannelType
  <2>1. CASE UNCHANGED commitSlots
    BY <1>1, <2>1 DEF SlotsAreKnown
  <2>2. CASE commitSlots # <<>> /\ commitSlots' = Tail(commitSlots)
    BY <1>1, <2>0, <2>2, TailFacts DEF SlotsAreKnown
  <2>3. ASSUME NEW m \in Item \cup Hash, commitSlots' = Append(commitSlots, m),
               m \in Item => state'[m] # "absent"
        PROVE  \A k \in 1 .. Len(commitSlots') :
                    commitSlots'[k] \in Item => state'[commitSlots'[k]] # "absent"
    BY <1>1, <2>0, <2>3, AppendFacts DEF SlotsAreKnown
  <2>4. ASSUME NEW j \in Item, CommitSlot(j)
        PROVE  commitSlots' = Append(commitSlots, j) /\ state'[j] # "absent"
    BY <2>4 DEF CommitSlot, TypeOK, ItemType
  <2>5. ASSUME NEW j \in accepts, SendJustified(j)
        PROVE  commitSlots' = Append(commitSlots, HashOf[j]) /\ HashOf[j] \in Hash
    BY <2>5 DEF SendJustified, TypeOK, VoteType
  <2>6. CASE SendFinalized
    <3>1. em.slot \in verified /\ em.slot \in Item /\ commitSlots' = Append(commitSlots, em.slot)
      BY <2>6, EmSlot DEF SendFinalized, EmAtSlot, EmPc, SlotsAreJustified,
         HandIsJustified, Justified
    <3> QED BY <1>2, <2>3, <3>1
  <2>7. CASE ExpireSend
    <3>1. expire.slot \in verified /\ expire.slot \in Item
          /\ commitSlots' = Append(commitSlots, expire.slot)
      BY <2>7, ExpireSlotInHand DEF ExpireSend, SlotsAreKnown
    <3> QED BY <1>2, <2>3, <3>1
  <2>8. CASE ~SendFinalized /\ ~ExpireSend /\ ~(\E j \in Item : CommitSlot(j))
             /\ ~(\E j \in accepts : SendJustified(j))
    <3>1. UNCHANGED commitSlots \/ (commitSlots # <<>> /\ commitSlots' = Tail(commitSlots))
      BY <2>8 DEF Next, EpochManagerStep, CoordinatorStep, CollectExpireStep, vars, TakeCommit,
         RecordCommit, TakeVote, CheckFinalized, TakeFinalized,
         SetFinalized, TakeInvalid, TakeUnscheduled, TakeTask, TrackerCommit, RecordFinalize,
         UpdateEpoch, SendHeartbeat, TakeHeartbeat, NodeVotes, NodeFails, CloseVotes,
         ExpireSlot, ExpireSetInvalid, ExpireDelete, MapFault, CertificateFault, StartTimer,
     ExpireTask, SendTask
    <3> QED BY <2>1, <2>2, <3>1
  <2> QED BY <2>3, <2>4, <2>5, <2>6, <2>7, <2>8
<1>6. unscheduled' \subseteq Unscheduled
  BY DEF SlotsAreKnown, inputVars, Next, EpochManagerStep, CoordinatorStep, CollectExpireStep, vars,
     CommitSlot, TakeCommit, AcceptCommit, RefuseCommit, RecordCommit, TakeVote,
     CheckFinalized, SendFinalized, TakeFinalized, SetFinalized, TakeInvalid, TakeUnscheduled,
     TakeTask, TrackerCommit, RecordFinalize, UpdateEpoch, SendHeartbeat, TakeHeartbeat,
     NodeVotes, NodeFails, CloseVotes, SendJustified, ExpireSlot, ExpireSetInvalid, ExpireSend,
     ExpireDelete, MapFault, CertificateFault, StartTimer,
     ExpireTask, SendTask
<1> QED BY <1>2, <1>3, <1>4, <1>5, <1>6 DEF SlotsAreKnown

\* Put together: a slot without a race is in one place after the step, too.
LEMMA StepKeepsWay ==
    ASSUME TypeOK, SlotsAreJustified, SlotsAreKnown, OneWay, [Next]_vars
    PROVE  OneWay'
<1> SUFFICES ASSUME NEW i \in Item, ~Raced(i)' PROVE \E q \in Stage : IsAt(i, q)'
  BY DEF OneWay
<1>1. ~Raced(i) /\ i \notin aborted'
  BY RacesStay DEF Raced
<1>2. Alone(i)
  BY <1>1 DEF Alone, Raced, Resubmitted
<1>3. PICK p \in Stage : IsAt(i, p)
  BY <1>1 DEF OneWay
<1>4. ASSUME NEW j \in Item, CommitSlot(j) PROVE \E q \in Stage : IsAt(i, q)'
  BY <1>3, <1>4, CommitMoves
<1>5. CASE MapFault \/ CertificateFault \/ UNCHANGED vars
  <2>1. UNCHANGED <<voteVars, commitSlots, record, em, state, credits, finalized, invalidated>>
    BY <1>5 DEF MapFault, CertificateFault, vars, itemVars, ghostVars
  <2>2. SameChannel(i) /\ SameHand(i) /\ SameRound(i) /\ SameVerdict(i)
    BY <2>1, SameWhenUnchanged
  <2> QED BY <1>3, <2>2, StaysThere
<1>6. CASE EpochManagerStep
  BY <1>2, <1>3, <1>6, EpochManagerMoves
<1>7. CASE CoordinatorStep
  BY <1>2, <1>3, <1>7, CoordinatorMoves
<1>8. CASE CollectExpireStep
  BY <1>1, <1>3, <1>8, CollectExpireMoves
<1> QED BY <1>4, <1>5, <1>6, <1>7, <1>8 DEF Next

\* Before the first call.
LEMMA InitWay == Init => SlotsAreKnown /\ OneWay
<1> SUFFICES ASSUME Init PROVE SlotsAreKnown /\ OneWay
  OBVIOUS
<1> USE SlotAssumption DEF Init
<1>1. Len(commitSlots) = 0 /\ Len(heartbeats) = 0
  OBVIOUS
<1>2. SlotsAreKnown
  BY <1>1 DEF SlotsAreKnown
<1>3. ASSUME NEW i \in Item PROVE IsAt(i, "absent")
  <2>1. AtChannel(i, "absent")
    BY <1>1 DEF AtChannel, Waits, WaitsOnce
  <2>2. AtHand(i, "absent") /\ AtRound(i, "absent")
    BY <1>1 DEF AtHand, AtRound, InHeartbeat, NewRecord, EmAtSlot, EmPc
  <2>3. AtVerdict(i, "absent")
    BY DEF AtVerdict
  <2> QED BY <2>1, <2>2, <2>3 DEF IsAt
<1> QED BY <1>2, <1>3 DEF OneWay, Stage

\* The inductive invariant holds.
LEMMA WayAlways == Spec => [](TypeOK /\ OneWay)
<1>1. SlotsAreKnown /\ OneWay /\ TypeOK /\ SlotsAreJustified /\ [Next]_vars
        => SlotsAreKnown' /\ OneWay'
  BY StepKeepsKnown, StepKeepsWay
<1>2. Spec => []TypeOK
  BY TypeCorrect
<1>3. Spec => []SlotsAreJustified
  BY FinalOnlyIfJustified
<1> QED BY <1>1, <1>2, <1>3, InitWay, PTL DEF Spec

\* Tracker.Commit credits a slot at most once, whatever the interleaving of the
\* EpochManager, the heartbeat rounds and CollectExpire, unless its hash came in
\* another call too or CollectExpire gave it up while its vote was on the way.
THEOREM CreditedOnce == Spec => []CreditedOnceUnlessRaced
<1>1. TypeOK /\ OneWay => CreditedOnceUnlessRaced
  <2> SUFFICES ASSUME TypeOK, OneWay, NEW i \in Item, credits[i] > 1 PROVE Raced(i)
    BY DEF CreditedOnceUnlessRaced, Raced
  <2>1. credits[i] \in Nat /\ credits[i] > 0 /\ credits[i] # 1
    BY DEF TypeOK, GhostType
  <2> QED BY <2>1 DEF OneWay, IsAt, AtVerdict
<1> QED BY <1>1, WayAlways, PTL

\* Unless there was such a race, and the coordinator did not report the slot as not
\* scheduled, no heartbeat lists a slot as finalized when another lists it as
\* invalid.
THEOREM VerdictsAgree == Spec => []VerdictsAgreeUnlessRaced
<1>1. OneWay => VerdictsAgreeUnlessRaced
  BY DEF OneWay, Raced, IsAt, AtVerdict, VerdictsAgreeUnlessRaced
<1> QED BY <1>1, WayAlways, PTL
============================================================================
