------------------------------- MODULE Reports -------------------------------
(***************************************************************************)
(* What the pages are told: the responses GenerateResponse builds from     *)
(* tasks, epochs, slots, node states and date records, and the keeping of  *)
(* the date records.  Several of them count the same things along          *)
(* different ways.  Hashes, names and times are left out.                  *)
(***************************************************************************)
EXTENDS NodeMonitor, FiniteSetsExt

CONSTANTS
    Slots,       \* slots: records of slot, node, size, status, epoch, process
    Epochs,      \* epoch records
    DateEvents   \* transactions with the day they came back from the chain

ASSUME ReportsAssumption ==
    \A slot \in Slots : slot.status = "finished" => slot.epoch >= 0

VARIABLES
    schedules,   \* of a task: sequences of slots
    latest,      \* epoch records
    dates        \* the transactions of the days

reportsVars == <<schedules, latest, dates>>

\* The sum of a quantity over the members of a sequence.
SumOver(seq, quantity(_)) == FoldLeft(LAMBDA sum, x : sum + quantity(x), 0, seq)
CountIf(seq, Test(_)) == Len(SelectSeq(seq, Test))

IsFinished(slot) == slot.status = "finished"
IsFailed(slot) == slot.status = "failed"
SumProcess(slots) == SumOver(SelectSeq(slots, IsFinished), LAMBDA slot : slot.process)

-----------------------------------------------------------------------------
(* The evidence page of a task.                                            *)

ScheduleInfo(slots) ==
    [scheduleNumber |-> Cardinality({slots[k].node : k \in DOMAIN slots}),
     process |-> SumProcess(slots),
     commitNumber |-> CountIf(slots, IsFinished),
     invalidNumber |-> CountIf(slots, IsFailed)]

\* (A variant, used nowhere: a slot counts for the epoch after its own.)
EpochSlotMapOfNext(slots) ==
    LET listed == {slots[k].epoch : k \in {j \in DOMAIN slots : slots[j].epoch # -1}}
        of(e) == SelectSeq(slots, LAMBDA slot : slot.epoch = e + 1)
    IN  [e \in listed |-> [commit |-> CountIf(of(e), IsFinished),
                           invalid |-> CountIf(of(e), IsFailed),
                           process |-> SumProcess(of(e))]]

\* Slots of no epoch open no entry, but those that failed in none are counted
\* under -1.
EpochSlotMap(slots) ==
    LET listed == {slots[k].epoch : k \in {j \in DOMAIN slots :
                       slots[j].epoch # -1 \/ IsFailed(slots[j])}}
        of(e) == SelectSeq(slots, LAMBDA slot : slot.epoch = e)
    IN  [e \in listed |-> [commit |-> CountIf(of(e), IsFinished),
                           invalid |-> CountIf(of(e), IsFailed),
                           process |-> SumProcess(of(e))]]

TaskEvidence(ofTask) ==
    LET slots == FlattenSeq(ofTask)
        epochData == EpochSlotMap(slots)
        commit == CountIf(slots, IsFinished)
        invalid == CountIf(slots, IsFailed)
    IN  [commit |-> Len(ofTask),
         schedules |-> [k \in DOMAIN ofTask |-> ScheduleInfo(ofTask[k])],
         epochs |-> DOMAIN epochData \ {-1},
         epochData |-> epochData,
         scheduleDistribution |-> <<commit, invalid, Len(slots) - commit - invalid>>]

\* TaskOnNodesQuery: what was scheduled on each node.
TaskOnNodes(slots) ==
    [node \in {slots[k].node : k \in DOMAIN slots} |->
        SumOver(SelectSeq(slots, LAMBDA slot : slot.node = node), LAMBDA slot : slot.size)]

-----------------------------------------------------------------------------
(* The evidence page of an epoch, and the latest epochs.                   *)

NbSlots(byModel) == SumFunction([m \in DOMAIN byModel |-> Len(byModel[m])])

\* The slots that were found, in any order of the models.
Shown(byModel, slotMap) ==
    SelectSeq(FlattenSeq(SetToSeq({byModel[m] : m \in DOMAIN byModel})),
              LAMBDA slot : slot \in DOMAIN slotMap)

EpochEvidence(epoch) ==
    LET finalized == Shown(epoch.finalizes, epoch.slotMap)
        of(task) == SelectSeq(finalized, LAMBDA slot : epoch.slotMap[slot].task = task)
    IN  [nbCommit |-> NbSlots(epoch.commits),
         nbJustified |-> NbSlots(epoch.justifieds),
         nbFinalized |-> NbSlots(epoch.finalizes),
         nbInvalid |-> Len(epoch.invalids),
         commit |-> Shown(epoch.commits, epoch.slotMap),
         finalized |-> finalized,
         taskProcessDistribution |->
             [task \in {epoch.slotMap[finalized[k]].task : k \in DOMAIN finalized} |->
                 SumOver(of(task), LAMBDA slot : epoch.slotMap[slot].size)]]

LatestEpoch(epochs) ==
    [k \in DOMAIN epochs |->
        [nbCommit |-> NbSlots(epochs[k].commits),
         nbJustified |-> NbSlots(epochs[k].justifieds),
         nbFinalized |-> NbSlots(epochs[k].finalizes),
         nbInvalid |-> Len(epochs[k].invalids)]]

-----------------------------------------------------------------------------
(* The pages of the nodes and of the days.                                 *)

\* The models that are always shown; another one appears with its data.
ShownModels == {"ABM", "BAED", "FINKAN"}
DataGroup(synthData) ==
    [m \in ShownModels \cup DOMAIN synthData |->
        IF m \in DOMAIN synthData THEN synthData[m] ELSE 0]

\* The rate of pending slots, as a fraction, is computed only where there is none;
\* 0 / 0 exceeds nothing.
Workload(node) ==
    LET pending == Cardinality(node.pending)
        total == pending + Len(node.finished)
        rate == IF total = 0 THEN <<pending, total>> ELSE <<0, 1>>
    IN  IF rate[2] # 0 /\ 2 * rate[1] > rate[2] THEN "busy" ELSE "idle"

NodesStatus(info) ==
    LET down == CountIf(info, LAMBDA node : node.isError)
        used == SumOver(info, LAMBDA node : node.disk)
    IN  [nodes |-> [k \in DOMAIN info |->
                       [status |-> IF info[k].isError THEN "Abnormal" ELSE "Normal",
                        workload |-> Workload(info[k]),
                        nbFinishedTasks |-> Len(info[k].finished),
                        synthData |-> DataGroup(info[k].synthData)]],
         normal |-> Len(info) - down, down |-> down,
         used |-> used,
         notUsed |-> SumOver(info, LAMBDA node : node.total) - used]

NewDateRecord(day) ==
    [date |-> day, nbInitTasks |-> 0, nbFinishTasks |-> 0, nbFinalizedSlot |-> 0,
     nbTransactions |-> 0, synthData |-> <<>>, datasets |-> <<>>]

\* The table of the days, counted from the first one: those that are missing are
\* added, and the last record is the one that is returned, whatever the day.
GetDateRecord(table, day) ==
    table \o [k \in 1 .. IF Len(table) > day THEN 0 ELSE day + 1 - Len(table) |->
                 NewDateRecord(Len(table) + k - 1)]

AddTo(counts, key, n) ==
    [k \in DOMAIN counts \cup {key} |->
        (IF k \in DOMAIN counts THEN counts[k] ELSE 0) + IF k = key THEN n ELSE 0]

UpdateRecord(r, event) ==
    CASE event.kind = "epoch" -> [r EXCEPT !.nbTransactions = @ + 1]
      [] event.kind = "init" ->
             [r EXCEPT !.nbTransactions = @ + 1, !.nbInitTasks = @ + 1,
                  !.datasets = IF event.dataset = "" THEN @ ELSE AddTo(@, event.dataset, 1)]
      [] event.kind = "process" ->
             [r EXCEPT !.nbTransactions = @ + 1, !.nbFinalizedSlot = @ + 1,
                  !.nbFinishTasks = IF event.finishes THEN @ + 1 ELSE @,
                  !.synthData = AddTo(@, event.model, event.process)]

DateRecords(events) ==
    FoldLeft(LAMBDA table, event :
                 LET found == GetDateRecord(table, event.day)
                 IN  [found EXCEPT ![Len(found)] = UpdateRecord(@, event)],
             <<>>, events)

DateSynthData(records) ==
    [date |-> [k \in DOMAIN records |-> records[k].date],
     init |-> [k \in DOMAIN records |-> records[k].nbInitTasks],
     finish |-> [k \in DOMAIN records |-> records[k].nbFinishTasks],
     synthData |-> [k \in DOMAIN records |-> DataGroup(records[k].synthData)],
     datasetDistribution |->
         [dataset \in UNION {DOMAIN records[k].datasets : k \in DOMAIN records} |->
             SumOver(SelectSeq(records, LAMBDA r : dataset \in DOMAIN r.datasets),
                     LAMBDA r : r.datasets[dataset])]]

DateTransactions(records) ==
    [date |-> [k \in DOMAIN records |-> records[k].date],
     txs |-> [k \in DOMAIN records |-> records[k].nbTransactions]]

-----------------------------------------------------------------------------
\* One page at a time, over at most two of whatever it shows.
UpToTwo(S) == UNION {[1 .. n -> S] : n \in 0 .. 2}

ReportsInit ==
    \/ schedules \in UpToTwo(UpToTwo(Slots)) /\ latest = <<>> /\ dates = <<>>
    \/ schedules = <<>> /\ latest \in UpToTwo(Epochs) /\ dates = <<>>
    \/ schedules = <<>> /\ latest = <<>> /\ dates \in UNION {[1 .. n -> DateEvents] : n \in 1 .. 3}

TaskAddsUp ==
    LET slots == FlattenSeq(schedules)
        page == TaskEvidence(schedules)
        onNodes == TaskOnNodes(slots)
        inNone == CountIf(slots, LAMBDA slot : IsFailed(slot) /\ slot.epoch = -1)
        overEpochs(field) == SumOver(SetToSeq(page.epochs), LAMBDA e : page.epochData[e][field])
    IN  /\ SumOver(page.schedules, LAMBDA s : s.process) = overEpochs("process")
        /\ SumOver(page.schedules, LAMBDA s : s.commitNumber) = page.scheduleDistribution[1]
        /\ page.scheduleDistribution[1] = overEpochs("commit")
        /\ page.scheduleDistribution[2] = overEpochs("invalid") + inNone
        /\ SumOver(page.scheduleDistribution, LAMBDA n : n) = Len(slots)
        /\ SumFunction(onNodes) = SumOver(slots, LAMBDA slot : slot.size)

EpochsAddUp ==
    \A k \in DOMAIN latest :
        LET page == EpochEvidence(latest[k])
            row == LatestEpoch(latest)[k]
        IN  /\ \A field \in DOMAIN row : page[field] = row[field]
            /\ SumFunction(page.taskProcessDistribution)
                   = SumOver(page.finalized, LAMBDA slot : latest[k].slotMap[slot].size)
            /\ Len(page.finalized) <= page.nbFinalized
            /\ ToSet(page.finalized) \subseteq DOMAIN latest[k].slotMap

NodesAddUp ==
    LET page == NodesStatus([k \in 1 .. NbNodes |-> nodeStatus[k - 1]])
        finishedAt(n) == SelectSeq(Written(n), LAMBDA info : info[1] = "finished")
    IN  /\ page.down = CountIf(page.nodes, LAMBDA node : node.status = "Abnormal")
        /\ page.normal + page.down = NbNodes
        /\ \A n \in Node :
               LET shown == page.nodes[n + 1]
               IN  /\ shown.nbFinishedTasks = Len(finishedAt(n))
                   /\ SumFunction(shown.synthData)
                          = SumOver(finishedAt(n), LAMBDA info : info[2].process)

\* The days are listed without a gap.  A transaction is counted on its day, or on the
\* last one listed when that is later: on the latest day of those up to it.
DatesAddUp ==
    LET records == DateRecords(dates)
        days == DateSynthData(records)
        latestUpTo(k) == Max({dates[j].day : j \in 1 .. k})
        onDay(day, kind) == {k \in DOMAIN dates : dates[k].kind = kind /\ latestUpTo(k) = day}
    IN  /\ \A k \in DOMAIN records : days.date[k] = k - 1
        /\ DateTransactions(records).date = days.date
        /\ \A day \in 0 .. Len(records) - 1 :
               /\ days.init[day + 1] = Cardinality(onDay(day, "init"))
               /\ SumFunction(days.synthData[day + 1])
                      = SumOver(SetToSeq(onDay(day, "process")), LAMBDA k : dates[k].process)
               /\ DateTransactions(records).txs[day + 1]
                      = Cardinality({k \in DOMAIN dates : latestUpTo(k) = day})
        /\ SumFunction(days.datasetDistribution)
               = CountIf(dates, LAMBDA event : event.kind = "init" /\ event.dataset # "")

\* What the pages count along different ways agrees, and agrees with what was told:
\* the progress of a task over its schedules and over its epochs, its slots by
\* outcome, by epoch and by node (those that failed in no epoch, when they were
\* scheduled, are on no line of the time line), the two lists of an epoch, the data
\* of a node, which slots of it are pending, and the days.
ReportsAddUp ==
    /\ TaskAddsUp /\ EpochsAddUp /\ DatesAddUp
    /\ NodesAddUp /\ PendingIsAsTold /\ ErrorHasItsMessage
=============================================================================
