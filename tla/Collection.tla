----------------------------- MODULE Collection -----------------------------
(***************************************************************************)
(* The download of a finished task.  The Oracle rebuilds the Collector of  *)
(* the task from its finished slots, which chooses the slots to fetch and  *)
(* starts a goroutine (CollectSlotInstance); that asks for one slot after  *)
(* the other over SlotCollectChannel; Coordinator.sendCollect calls one    *)
(* node or all of them, one request at a time; the answers come back on a  *)
(* channel of the instance, which recovers and merges them.                *)
(***************************************************************************)
EXTENDS Integers, Sequences, FiniteSets, SequencesExt, FiniteSetsExt

CONSTANTS
    Download,      \* requests for a download
    Finished,      \* slots of the task with status Finished
    Length,        \* ScheduleSize of each one
    NodeOf,        \* the node that committed it
    StoreMethod,   \* as its node said: 1 whole at the node, 3 erasure code over all
    Address,       \* the configured nodes (BHNodeAddressMap)
    Stored,        \* [slot -> [node -> sequence of chunks it returns]]
    Signed,        \* [slot -> the sequence of chunks its node signed]
    RowOrders,     \* orders in which the database returns the slots
    Asks,          \* sizes asked for
    DataShards,    \* ErasureCodeParamK
    CollectCap,    \* capacity of SlotCollectChannel
    NoDownload

ASSUME CollectionAssumption ==
    /\ IsFiniteSet(Finished)
    /\ Length \in [Finished -> Nat \ {0}]
    /\ Asks \subseteq Int
    /\ StoreMethod \in [Finished -> Int]
    /\ RowOrders \subseteq SetToSeqs(Finished)
    /\ CollectCap \in Nat \ {0}
    /\ IsFiniteSet(Address) /\ Address # {}
    /\ NoDownload \notin Download

VARIABLES
    slotCollectChannel,   \* requests <<download, slot>> to the Coordinator
    collectCall,          \* the request in sendCollect and the nodes not back yet
    answers,              \* ResponseChannel of each instance
    instance,             \* state of each CollectSlotInstance
    file,                 \* what was written to the pipe
    callFailed,           \* history: downloads one of whose calls gave no answer
    answered              \* history: the slot and node of each answer to a download

collectionVars ==
    <<slotCollectChannel, collectCall, answers, instance, file, callFailed, answered>>

\* A part that cannot be recovered, and the file of a download without output.
Nothing == <<>>

NoCall == [of |-> NoDownload, slot |-> NoDownload, open |-> {}]
NoInstance == [pc |-> "none", asked |-> 0, slots |-> <<>>, next |-> 1, got |-> 0,
               chunks |-> [s \in Finished |-> <<>>]]

CollectionInit ==
    /\ slotCollectChannel = <<>>
    /\ collectCall = NoCall
    /\ answers = [d \in Download |-> <<>>]
    /\ instance = [d \in Download |-> NoInstance]
    /\ file = [d \in Download |-> Nothing]
    /\ callFailed = {} /\ answered = [d \in Download |-> <<>>]

-----------------------------------------------------------------------------
(* The choice of the slots: Collector.ProcessSlotUpdate and ProcessCollect. *)

\* The last place, counted from 0, whose size is not below the given one; -1 if
\* there is none.  The list is in descending order.
BinarySearch(items, size) ==
    LET search[range \in (0 .. Len(items)) \X (-1 .. Len(items) - 1)] ==
            LET left == range[1]
                right == range[2]
                mid == (left + right) \div 2
            IN  IF left > right THEN right
                ELSE IF Length[items[mid + 1]] >= size THEN search[<<mid + 1, right>>]
                ELSE search[<<left, mid - 1>>]
    IN  search[<<0, Len(items) - 1>>]

\* (A variant, used nowhere, like the others: the new slot goes before the one that was found.)
InsertBeforeFound(items, s) ==
    LET index == BinarySearch(items, Length[s])
    IN  InsertAt(items, IF index = -1 THEN 1 ELSE index + 1, s)

ProcessSlotUpdate(items, s) == InsertAt(items, BinarySearch(items, Length[s]) + 2, s)

\* RecoverCollector: the finished slots in the order the database returns them.
RecoverCollector(rows) == FoldLeft(ProcessSlotUpdate, <<>>, rows)

PrefixSize(items, n) == FoldLeft(LAMBDA sum, s : sum + Length[s], 0, SubSeq(items, 1, n))

\* The greedy choice: slots are taken while something is left to collect.
ProcessCollect(items, size) ==
    SubSeq(items, 1, Cardinality({n \in DOMAIN items : PrefixSize(items, n - 1) < size}))

Begin(d, rows, size) ==
    /\ instance[d].pc = "none"
    /\ instance' = [instance EXCEPT ![d] =
           [@ EXCEPT !.pc = "send", !.asked = size,
                     !.slots = ProcessCollect(RecoverCollector(rows), size)]]
    /\ UNCHANGED <<slotCollectChannel, collectCall, answers, file, callFailed, answered>>

-----------------------------------------------------------------------------
(* The goroutine of CollectSlotInstance.Collect, up to the recovery.       *)

Current(d) == instance[d].slots[instance[d].next]

\* The nodes sendCollect calls, and those of them it has an address of.
Targets(s) == IF StoreMethod[s] = 1 THEN {NodeOf[s]} ELSE Address

\* (Variants: a broadcast counts as one response; every slot waits for all nodes.)
OneResponse(s) == 1
AllRespond(s) == Cardinality(Address)

NumExpectedResponses(s) == IF StoreMethod[s] = 1 THEN 1 ELSE Cardinality(Address)

Request(d) ==
    /\ instance[d].pc = "send" /\ instance[d].next <= Len(instance[d].slots)
    /\ Len(slotCollectChannel) < CollectCap
    /\ slotCollectChannel' = Append(slotCollectChannel, <<d, Current(d)>>)
    /\ instance' = [instance EXCEPT ![d].pc = "wait", ![d].got = 0]
    /\ UNCHANGED <<collectCall, answers, file, callFailed, answered>>

\* Chunks of a slot that is not collected are skipped; the others are added to
\* their slot, in the order they come in.
AddChunks(d, response) ==
    [s \in Finished |->
        instance[d].chunks[s] \o
            SelectSeq(response, LAMBDA c : c.slot = s /\ s \in ToSet(instance[d].slots))]

TakeResponse(d) ==
    LET last == instance[d].got + 1 = NumExpectedResponses(Current(d))
    IN  /\ instance[d].pc = "wait" /\ answers[d] # <<>>
        /\ answers' = [answers EXCEPT ![d] = Tail(@)]
        /\ instance' = [instance EXCEPT ![d] =
               [instance[d] EXCEPT !.chunks = AddChunks(d, Head(answers[d])),
                                   !.got = @ + 1,
                                   !.pc = IF last THEN "send" ELSE "wait",
                                   !.next = IF last THEN @ + 1 ELSE @]]
        /\ UNCHANGED <<slotCollectChannel, collectCall, file, callFailed, answered>>

-----------------------------------------------------------------------------
(* Coordinator.sendCollect: one call per node, each in its own goroutine.  *)

\* A node without an address is not called, and so gives no answer.
TakeRequest ==
    LET d == slotCollectChannel[1][1]
        s == slotCollectChannel[1][2]
    IN  /\ collectCall = NoCall /\ slotCollectChannel # <<>>
        /\ slotCollectChannel' = Tail(slotCollectChannel)
        /\ collectCall' = [of |-> d, slot |-> s, open |-> Targets(s) \cap Address]
        /\ callFailed' = IF Targets(s) \subseteq Address THEN callFailed
                         ELSE callFailed \cup {d}
        /\ UNCHANGED <<answers, instance, file, answered>>

Answer(n) ==
    /\ n \in collectCall.open
    /\ answers' = [answers EXCEPT ![collectCall.of] =
           Append(@, Stored[collectCall.slot][n])]
    /\ collectCall' = [collectCall EXCEPT !.open = @ \ {n}]
    /\ answered' = [answered EXCEPT ![collectCall.of] = Append(@, <<collectCall.slot, n>>)]
    /\ UNCHANGED <<slotCollectChannel, instance, file, callFailed>>

\* No connection, an error, or 20 seconds without an answer.
NoAnswer(n) ==
    /\ n \in collectCall.open
    /\ collectCall' = [collectCall EXCEPT !.open = @ \ {n}]
    /\ callFailed' = callFailed \cup {collectCall.of}
    /\ UNCHANGED <<slotCollectChannel, answers, instance, file, answered>>

\* wg.Wait returns; the next request may come.
EndRequest ==
    /\ collectCall # NoCall /\ collectCall.open = {}
    /\ collectCall' = NoCall
    /\ UNCHANGED <<slotCollectChannel, answers, instance, file, callFailed, answered>>

-----------------------------------------------------------------------------
(* Recovery.                                                               *)

\* recoverRowChunk, ErasureDecoder.Decode and Transform of one row.
RecoverRow(s, row, chunks) ==
    LET enough == IF StoreMethod[s] = 1 THEN Len(chunks) = 1
                  ELSE /\ Len(chunks) <= Cardinality(Address)
                       /\ Cardinality({c.col : c \in ToSet(chunks)}) >= DataShards
    IN  IF enough THEN <<<<s, row>>>> ELSE Nothing

\* SlotRecover.merge: without its first part nothing is left, a later part that
\* is missing adds nothing.
Merge(parts) == IF parts = <<>> \/ parts[1] = Nothing THEN Nothing ELSE FlattenSeq(parts)

\* SlotRecover.Recover: the rows in order; a row without chunks is passed over.
RecoverSlot(s, chunks) ==
    LET last == Max({c.row : c \in ToSet(chunks)} \cup {-1})
        rows == SelectSeq([k \in 1 .. last + 1 |-> k - 1],
                          LAMBDA row : \E k \in DOMAIN chunks : chunks[k].row = row)
    IN  Merge([k \in DOMAIN rows |->
            RecoverRow(s, rows[k], SelectSeq(chunks, LAMBDA c : c.row = rows[k]))])

\* VertifyNodeSign over the chunks as they came in.
SignatureFits(s, chunks) == chunks = Signed[s]

\* The slots whose signature fits; the others are left out.
Verified(d) ==
    SelectSeq(instance[d].slots, LAMBDA s : SignatureFits(s, instance[d].chunks[s]))

Recovered(d) ==
    LET data == [s \in Finished |-> RecoverSlot(s, instance[d].chunks[s])]
    IN  Merge([k \in DOMAIN Verified(d) |-> data[Verified(d)[k]]])

\* recoverRowChunk panics on any other store method, of which there is only one
\* that has a name: copies.
UnknownMethod(d) ==
    \E s \in ToSet(Verified(d)) : StoreMethod[s] \notin {1, 3} /\ instance[d].chunks[s] # <<>>

\* All slots were asked for: the data is written to the pipe, which blocks until
\* it is read; without an output the pipe is closed as it is.
Recover(d) ==
    /\ instance[d].pc = "send" /\ instance[d].next > Len(instance[d].slots)
    /\ instance' = [instance EXCEPT ![d].pc = IF UnknownMethod(d) THEN "panicked" ELSE "write"]
    /\ file' = IF UnknownMethod(d) THEN file ELSE [file EXCEPT ![d] = Recovered(d)]
    /\ UNCHANGED <<slotCollectChannel, collectCall, answers, callFailed, answered>>

\* HandleDownload has read everything there is.
ReadFile(d) ==
    /\ instance[d].pc = "write"
    /\ instance' = [instance EXCEPT ![d].pc = "closed"]
    /\ UNCHANGED <<slotCollectChannel, collectCall, answers, file, callFailed, answered>>

-----------------------------------------------------------------------------
\* A panic of one instance ends the process.
Panicked == \E d \in Download : instance[d].pc = "panicked"

InstanceStep(d) ==
    ~Panicked /\ (Request(d) \/ TakeResponse(d) \/ Recover(d) \/ ReadFile(d))
CallStep(n) == ~Panicked /\ (Answer(n) \/ NoAnswer(n))
SendCollect == ~Panicked /\ (TakeRequest \/ EndRequest)

CollectionNext ==
    \/ \E d \in Download, rows \in RowOrders, size \in Asks :
           ~Panicked /\ Begin(d, rows, size)
    \/ \E d \in Download : InstanceStep(d)
    \/ \E n \in Address : CallStep(n)
    \/ SendCollect

\* Goroutines go on, calls return or time out, and the client reads its file.
CollectionFairness ==
    /\ \A d \in Download : WF_collectionVars(InstanceStep(d))
    /\ \A n \in Address : WF_collectionVars(CallStep(n))
    /\ WF_collectionVars(SendCollect)

CollectionSpec == CollectionInit /\ [][CollectionNext]_collectionVars
FairCollectionSpec == CollectionSpec /\ CollectionFairness

-----------------------------------------------------------------------------
TotalOf(S) == MapThenSumSet(LAMBDA s : Length[s], S)

\* What is fetched is as much as was asked for, as far as there is so much, and
\* no choice with fewer slots would have been enough ("the least number of
\* files", collector.go:12).
FewestSlotsChosen ==
    \A d \in Download :
        LET chosen == ToSet(instance[d].slots)
            size == instance[d].asked
        IN  instance[d].pc # "none" =>
                IF TotalOf(Finished) < size THEN chosen = Finished
                ELSE /\ TotalOf(chosen) >= size
                     /\ \A other \in SUBSET Finished :
                            TotalOf(other) >= size => Cardinality(other) >= Cardinality(chosen)

\* The nodes that answered for a slot of a download, in the order they did.
NodesHeard(d, s) ==
    LET heard == SelectSeq(answered[d], LAMBDA x : x[1] = s)
    IN  [k \in DOMAIN heard |-> heard[k][2]]

\* A node sent a chunk of s when it was asked for another slot of the download.
MixedUp(d, s) ==
    \E x \in ToSet(answered[d]) :
        x[1] # s /\ \E c \in ToSet(Stored[x[1]][x[2]]) : c.slot = s

\* The nodes of an erasure-coded slot did not answer in the order of its signature.
OutOfOrder(d, s) ==
    /\ StoreMethod[s] # 1
    /\ Signed[s] # FlattenSeq([k \in DOMAIN NodesHeard(d, s) |-> Stored[s][NodesHeard(d, s)[k]]])

\* The file of a download holds every row of every slot chosen, each slot in one piece
\* and in the order of the choice, however the calls of other downloads come between.
\* A slot is left out in two cases, and then as a whole: a node sent a chunk of it
\* when asked for another slot, which is added to it without a look and makes its
\* signature fail; or its nodes answered in another order than it was signed in.
FileIsWhole ==
    \A d \in Download :
        LET RowsOf(s) == [k \in 1 .. Cardinality({c.row : c \in ToSet(Signed[s])}) |-> <<s, k - 1>>]
            whole == SelectSeq(instance[d].slots, LAMBDA s : ~MixedUp(d, s) /\ ~OutOfOrder(d, s))
        IN  instance[d].pc \in {"write", "closed"} =>
                file[d] = FlattenSeq([k \in DOMAIN whole |-> RowsOf(whole[k])])

\* A download that was started ends, whatever happens to the others, unless one of
\* its own calls gets no answer, and then it waits for ever, or the process panics.
DownloadEnds ==
    \A d \in Download :
        instance[d].pc = "send" ~> (instance[d].pc = "closed" \/ d \in callFailed \/ Panicked)
=============================================================================
