# RappaMaster: a TLA+ model of the master node

RappaMaster is the master of a layer-2 network for data synthesis. Clients ask it for a
data set, it splits the task into slots, executor nodes work on them, and the master
collects their commitments into epochs that it votes on and writes to a blockchain. It is
one Go process made of about a dozen goroutines that talk through bounded channels and
some shared maps. This directory holds its TLA+ specification, the TLC configurations
that check it on small instances, and proofs checked by TLAPS.

Paths below are relative to the repository root.

## The system

| Part | State | Operations | Talks to |
| --- | --- | --- | --- |
| HTTP (`Network/HTTP`) | task counter | create a task, query | sends `InitTaskTransaction` to the chain upper, queries to Oracle, Monitor, Collector |
| Chain upper (`ChainUpper`) | pool of transactions, packs | pack every 10 s, three workers store packs | receives `PendingTransactions`; gives what is on the chain to the Oracle on `DevTransactionChannel` |
| Oracle and database (`Oracle`, `Database`, `Recovery`) | tasks, slots, epochs, transactions in MySQL | apply a transaction, store a schedule, answer queries, recover | starts tasks on `InitTasks`, announces them on `EpochInitTaskChannel`, feeds the Monitor |
| Tracker (`Tracker`) | size and history of each task, pending slots, timers | `InitTask`, `UpdateTask`, `UpdateSlot`, `WonVote`, `Commit`, `CollectExpire` | called by the EpochManager's goroutine; sends `UnprocessedTasks` and `CommitSlots` |
| Scheduler (`Schedule`) | number of schedules per task | split a request into one slot per node | asks the Monitor, sends `PendingSchedules` |
| Coordinator (`Coordinator`) | none of its own | offer slots, send a heartbeat, take `CommitSlot` calls, ask nodes for slots | gRPC to the nodes; `ScheduledTasks`, `OracleSchedules`, `UnScheduledSlotChannel`, `CommitSlots` |
| EpochManager (`Epoch`) | `currentEpoch`, the epoch record | take certificates and verdicts, credit tasks, close an epoch | only reader of `CommitSlots`; sends `EpochHeartbeat` and transactions |
| Vote handler (`handler`) | votes per slot of one heartbeat | count answers, announce won votes | `CommitSlots` |
| Collector (`Collector`, `ErasureDecoder`) | slots of finished tasks | collect, decode, write files | asks nodes through the Coordinator |
| Monitor (`Monitor`) | statistics of each node | advise the Scheduler, count finished slots | Scheduler, Oracle, queries |
| PKI and connections (`PKI`, `Network/Grpc`) | certificates, gRPC connections | verify a certificate or a signature, get a connection | Tracker, Coordinator, Collector |
| Queries (`Query`, `paradigm/query.go`) | one channel per query | ask, answer | HTTP, Oracle, chain upper, Monitor |
| Trees (`Validatable/merkle`, `Validatable/verkle`, `utils/merkle.go`) | the nodes of a tree | build, prove, verify | built by a query for the integrity of a slot |
| Days (`Date`, `paradigm/date.go`) | a record per day | count what came back from the chain | Oracle, queries |

What is hard in it:

* the commit, the vote and the expiry of one slot run in three goroutines that share the
  item by pointer and the map `pendingCommitSlot` without a lock;
* the EpochManager reads `CommitSlots` and also sends to it;
* the goroutines of scheduling form cycles of bounded channels;
* a node may answer late, twice, or only after its slot was given up;
* nothing in memory survives a restart, but nodes go on delivering;
* transactions come back from the chain in another order than they were made, and the
  Oracle stores each in several writes with nothing around them;
* one goroutine answers all queries and waits for others inside;
* a pool, a cache and the statistics of the nodes are read in one step and used in another;
* the Verkle tree keeps its commitments up to date by differences.

What correctness means for each part:

* *EpochManager, Tracker, votes*: a task is credited with a slot only after the certificate
  of its node was accepted and its vote was won; once per slot; with one transaction per
  credit; no slot is told finalized and invalid; every commit gets a verdict.
* *Scheduling*: a task is never lost, nor scheduled twice at a time, until nothing is
  lacking; every request covers what is lacking and every offer covers the request;
  every slot nobody accepted is reported; the Oracle never meets an unknown task.
* *Chain upper*: a transaction reaches the Oracle at most once and, unless it is refused, a
  call to the chain fails or the process ends, exactly once.
* *Database and recovery*: progress, finished slots and transactions agree but for what a
  crash cut off; no row refers to a transaction that is not stored; epochs have IDs of their
  own; a task that was given up stays given up.
* *Collector*: the fewest slots that are enough; the file has every row of them, in order,
  whatever other downloads do; a download ends unless a call of its own fails.
* *Queries*: every query is answered, once, though one goroutine serves them all.
* *Connections, PKI*: a pooled connection is open and leads to its node, and none is left
  behind; a certificate is only prolonged by the cache, never let in.
* *Trees*: a proof leads from the commitment asked for to the root; a Verkle tree answers
  like the dictionary written to it, its root is a function of that, and its proofs are
  enough to answer and to update.
* *Monitor, reports*: what the pages count along different ways agrees.

## The modules

| Module | What it is |
| --- | --- |
| `SlotLifecycle` | a slot from the node's `CommitSlot` call to its credit or its invalidation: EpochManager, Tracker, vote handler, heartbeat, `CollectExpire` |
| `CreditLedger` | what the above promises, without channels and goroutines |
| `SlotLifecycleProofs` | theorems about `SlotLifecycle`: types, justification, refinement, accounts, races |
| `TaskScheduling` | a task from its transaction on the chain through Oracle, Tracker, Scheduler, Coordinator and the timers, round and round until it is done |
| `TaskSchedulingProofs` | theorems about `TaskScheduling` |
| `ChainUpper` | a transaction from `PendingTransactions` through pool, pack, queue and workers to the chain and back to the Oracle, with a new process |
| `TransactionDelivery` | what the above promises: delivery at most once, of what was handed over |
| `Persistence` | every write of the Oracle to the database, a crash between any two of them, and the recovery; it stands on `TransactionDelivery` |
| `PersistenceProofs`, `TableProofs` | theorems about `Persistence`: the order of writes; the tables of epochs, tasks and slots |
| `Connections`, `Certificates` | the pool of gRPC connections; the check of a certificate and its cache |
| `Collection` | the download of a finished task: Collector, its goroutine, `sendCollect`, recovery and merge |
| `QueryService` | a query from the HTTP handler through the Oracle, the chain upper or the Monitor to its answer |
| `ServicesProofs` | theorems about `ChainUpper`, `Connections`, `Certificates` and `QueryService` |
| `NodeMonitor` | what the Monitor keeps of each node, written by two goroutines |
| `Reports` | the figures of the pages and the records of the days; it extends `NodeMonitor` |
| `Integrity` | the Merkle trees and the answer to the integrity of a slot |
| `VerkleTree`, `VerkleProof` | the Verkle tree, and proofs over it |
| `VerkleTreeProofs` | theorems about `VerkleTree`: its invariant, and what it answers and commits to |
| `AlgorithmProofs` | theorems about `Collection` and `Integrity`: what their algorithms compute, and how answers reach a download |
| `FiniteSums` | lemmas about sums over finite sets, for the proofs |
| `MCSlotLifecycle`, `MCTaskScheduling`, `MCPersistence`, `MCServices` | instances for TLC |

### SlotLifecycle

One `Item` is one `CommitSlotItem`, that is, one `CommitSlot` call. The Go code copies a
`SignedCommitSlotItem` freely, but it embeds a pointer, so all copies share `state` and
`Epoch`; the module keeps those in functions on `Item`, and channels and tracks hold items.
Two calls may carry the same hash (`HashOf`), which is how a resubmission is modelled. The
Go `select` of the EpochManager is one action per case; a handler is cut into steps where it
touches what another goroutine writes: the state of an item, the map `pendingCommitSlot`, the channel
`CommitSlots`. `em.pc` and `expire.pc` are the positions of the two goroutines. A vote round
is `TakeHeartbeat`, one `NodeVotes` or `NodeFails` per node, `CloseVotes` and one
`SendJustified` per accepted slot.

The pending map is written by the EpochManager and deleted from by `CollectExpire`; Go
may stop the process when the two meet, so `MapFault` is a possible step whenever both
goroutines stand at an access, and a process that died takes no more steps. A track that
vanished between `WonVote` and `CheckFinalized` is a nil dereference and ends it too.

The size of a slot is any integer: `req.Size` is a signed number nobody checks
(`Coordinator/commitImpl.go:18`), and `Process` raises what a task lacks for a negative one. The
certificate of a node that is not in the configuration (`Unregistered`) may make
`VerifyNodeCA` dereference nil, which ends the process (`CertificateFault`; `Certificates` says when).

Three goroutines can wait for ever. The EpochManager may send to the full channel that only it
reads (`SelfBlocked`). `CollectExpire` also takes the tasks whose timer ran out (`ExpireTask`) and sends
them to `UnprocessedTasks` (`SendTask`), where in the wedge of `TaskScheduling` nobody makes room
(`ExpiryBlocked`). And `UpdateSlot` sends a timer (`StartTimer`) to a channel that the Eliminators stop reading
when their output is full, which it is when `CollectExpire` waits. The two timer channels are not
modelled entry by entry: while `CollectExpire` reads, or holds up fewer timers than `TimerRoom`, the
send goes through; otherwise it may or may not (`TimerFits`), as the heaps of the Eliminators take any
number. `TimerRoom` is at most
the 200 entries of the two channels, less what the timers of tasks take of them, and 0 in the runs,
where every wait is possible.

Left out: signatures and certificates are accepted or refused freely (`AcceptCommit`,
`RefuseCommit`); commitments are identified with the item; `ReceiveProof` has no caller. Sizes are
exact integers, so the wraparound of a sum of `int32` is not modelled; the size of a task (`Total`) is
a natural number.
The Go race detector would also report the unsynchronised fields `hasWonVote` and `state`; each access to
them is a step of its own.

### TaskScheduling

A task is handed on through `upchained` (transactions on the chain), `initTasks`, the
Tracker, `unprocessedTasks`, the Scheduler, `pendingSchedules`, the Coordinator,
`scheduledTasks`, `timers`, `CollectExpire` and again `unprocessedTasks`. Every goroutine is a
variable with a position and what it holds (`oracle`, `tracker`, `expire`, `scheduler`,
`coordinator`), and every blocking send is an action that waits for room. The advice of the
Monitor is computed as in `Monitor.advice`, with integer division, the cut at the slot
size, the minimum 1 and the remainder for node 0. `sendSchedule` calls all nodes in
parallel: each call ends as accepted, refused, failed (the node may have taken the slot or
not) or without connection. `IsFinish` and `Next` in `CollectExpire` are two steps,
because the EpochManager may credit a slot between them. `Credit` is the effect of
`SlotLifecycle` on a task: a slot that a node works on may be finalized at any later time, or
never.

`taskTracks` is written by `InitTask` and read by two other goroutines without a lock;
`TaskMapFault` is the stop of the process that the Go runtime may answer with.

Left out: model names and parameters (they come from JSON, so the conversion at
`Coordinator/scheduleImpl.go:19` cannot fail); the tasks of one pack are independent
transactions, between which the Oracle may store a schedule, as it does between packs;
`EpochInitTaskChannel`, `UnScheduledSlotChannel`, `MonitorOracleChannel` and the two timer
channels are taken to have room (in the code they have 1000 or 100 entries; the first two are
emptied by the EpochManager, whose own blocking, with that of the timers, is in `SlotLifecycle`). A
node delivers a slot whole. The insert of a task succeeds here; `Persistence` has the one that does not.

### ChainUpper and TransactionDelivery

`Start` puts what arrives into `transactionPool` (`Receive`); its ticker calls `UpChain`,
which cuts the pack of what is new under the mutex (`Pack`, with `unprocessedIndex`) and
pushes it one by one, waiting while the queue is full (`Push`), or passes over what `check`
refuses (`Refuse`). A worker is idle, storing or waiting for a receipt; a store that fails
may have reached the chain all the same (`StoreFails`). `Forget` is a new process.
The Oracle's goroutine is `Deliver`: the transaction it takes may be a new task, for which
`InitTasks` has no room (`oracleWaits`), and whether it goes on (`OracleGoesOn`) is up to the Tracker,
which may be in the wedge of `TaskScheduling`. Then `DevTransactionChannel` fills up and the workers wait
too. `waitAndDevPush` ignores the error of `GetBlockHashByNumber` and dereferences the nil hash: the
process dies (`BlockHashFails`). `Delivery` maps `ChainUpper` to `TransactionDelivery`: lost is what no
place holds and was not delivered.

Left out: the contract's parameters. The ticker may fire at any moment.

### Persistence

The Oracle is one goroutine; `oracle.pc` names the write it does next, and every write is an
action, so a crash (`Recover`, `StartAfresh`) falls between any two of them. The tables are
`db`; a slot's row is its status and whether it has its task and its node, because
`FirstOrCreate` makes a row for whoever asks first (`ReadEpoch`, `QuerySlot`,
`SetSlotFinish`), and `UpdateSlotFromSchedule` fills it later. `DatabaseService.SetTask` drops the
error of its insert, so the row of a task in `MayMiss` may be missing (`InsertTask`, `missed`), for
instance because its name, which nobody checks, is longer than the 256 characters of its column
(`paradigm/models/task.go:37`); the Oracle then panics when the next schedule arrives. It
panics at once, with the row written, on a dataset that is no text (`OddDataset`, `Task.GetDataset`). The chain upper is the abstract
`TransactionDelivery`, so a transaction comes back in any order or never; Scheduler, Coordinator,
Tracker and EpochManager are reduced to what feeds the Oracle. A restart ends every
record in memory; `overtaken` and `torn` are history, which says where the code is known to
leave something half done. `StoreSchedule` is one step although it writes several rows:
nothing reads them in between, and a crash in the middle leaves the rows of an interrupted
schedule, which the recovery marks as failed. `MonitorOracleChannel` is emptied at once
here; `NodeMonitor` has its delays.

Left out: what the map `Tasks` of an epoch record holds. All copies of the record share it and
`Refresh` does not clear it, so what is stored as `InitTasks` of an epoch is every task since the
process started, while the comment at `paradigm/oracle.go:137` says the tasks of this epoch. The code
does not keep the comment, and there is no weaker property of that list worth stating. That the
Oracle may be stopped because it iterates over the map while the EpochManager writes it, is there (`MapFault`).

### Connections and Certificates

`GetConn` is `LookUp` under the read lock, `Evict` (`Close`, `DeleteEntry`) and `Dial`
under the write lock, as steps of their own of each caller; `NetworkChange` is gRPC
changing the state of a connection. `VerifyNodeCA` is one action: it takes a certificate of any
owner, signer, validity and genuineness, or the empty text, at any epoch, for a node of the configuration
or a stranger. For a stranger whose certificate is good and not encrypted to the master, the
comparison with its key dereferences nil and the process dies (`UnknownNodePanics`).

### Collection

`ProcessSlotUpdate`, `BinarySearch` and `ProcessCollect` are translated as operators, the
goroutine of `CollectSlotInstance` as `Request`, `TakeResponse`, `Recover` and `ReadFile`,
`sendCollect` as `TakeRequest`, one `Answer` or `NoAnswer` per node and `EndRequest`. All
downloads share `SlotCollectChannel`, all slots of one share its response channel. Chunks are
symbols of slot, row and column; the binary search is a function of the range it still looks at; Reed-Solomon is "enough columns", a signature is the list of
chunks that was signed. A response is added to the slots its chunks name, whichever slot was asked
for. `recoverRow` panics on a store method it does not know (`UnknownMethod`), and with it the
process (`Panicked`).

### QueryService

One `handler` per request, the `queryChannel`, `processDBQuery` with what it waits for, and
the two goroutines it asks. Kinds of query are grouped by how they are answered. Reads may fail
or find nothing; the panics of the code end the process (`alive`). One of them needs a row this
program does not write (`ForeignRows`): a transaction of an unknown kind is answered by the default branch
of `Oracle/persistedQuery.go:137` and, as that does not `continue`, a second time on a closed channel.

### NodeMonitor and Reports

`heartbeatAt` and `oracleAt` are the two goroutines of the Monitor; flag and message of a
node are written in two steps, and what the second one does to a node is cut at its writes. A
page that ranges over a map while it is written may stop the process. `Reports` has the
functions that `GenerateResponse` of each query and the date records compute, over states of
the Monitor that `NodeMonitor` reaches and over all small tasks, epochs and days.

### Integrity

The two Merkle trees of the Go code over symbolic hashes, `MerkleTree` and the one of
`utils/merkle.go`. Both promote a node without sibling; their proofs differ, pairs in one and
items with a position in the other. (Only the script `merkle_test.py` doubles such a node.)
`MerkleTree.Verify` is a stub that returns true, so the walk from a leaf along a proof (`FromPairs`,
`FromItems`) is what a verifier would do, not code of the repository. The state is only the input, the
slots with a commitment and the one asked for.

### VerkleTree and VerkleProof

A tree is a function from paths to nodes. A commitment is symbolic: it is what it commits to, and
adding a difference replaces the old value by the new one if the old one is there, and gives
`Wrong` if not, which is how a forgotten or doubled update shows. `cow` marks, `Commit`,
insertion at a stem, deletion and the insertion of migrated leaves follow the code, with the nil
commitment that a deletion leaves behind for an emptied half and that the next insertion, migration or
deletion there dereferences (`panicked`); so do
`GetProofItems`, the serialised proof, `PreStateTreeFromProof` with `CreatePath`, and the
update of the stateless tree. The program itself reaches the tree only through the integrity
query with type verkle (insert, commit, prove); deletion, migration and verification are
operations of the package that its tests call.

Left out: the curve arithmetic and the multipoint argument (assumed binding), the bytes of
nodes, `Flush` and hashed nodes, JSON.

## The runs

| Run | Instance | Shows |
| --- | --- | --- |
| `slot_safety` | 2 nodes, 2 calls with one hash, of sizes 4 and -2, one of an unregistered node, one unscheduled slot, one announced task, 2 epochs, `CommitSlots` of 3 | `TypeOK`, `SlotsAreJustified`, `CreditedOnceUnlessRaced`, `VerdictsAgreeUnlessRaced`, `OneTransactionPerCredit`, `TrackerAccounting`, and that `SlotLifecycle` implements `CreditLedger` |
| `slot_liveness` | 1 node, 2 calls, one of an unknown task, 1 epoch, `CommitSlots` of 1, no room for timers | `EverySlotSettles` under `FairSpec` |
| `slot_skip_finalized` | 1 node, 2 calls with one hash | violated: a slot is finalized twice |
| `slot_no_proof` | 1 node, a task that needs no proof | violated: its slot wins the vote and is not finalized |
| `slot_acceptance` | 2 nodes | violated: the vote passes although no node answered |
| `slot_epoch_id` | 1 node | violated: a slot carries another epoch id than its record |
| `sched_safety` | 2 tasks, 2 nodes, all channels of 1, one task scheduled twice; sizes 5 and 1 with slots of 2 | `TypeOK`, `TaskIsInOnePlace`, `RequestsCoverLack`, `OfferIsEnough`, `ExactlyRejectedSlotsAreReported`, `SchedulesOfKnownTasks` |
| `sched_liveness` | 2 tasks, each scheduled up to twice, or 4 scheduled once; 1 node, all channels of 1 | `WedgeNeedsFullChannels`; `EveryTaskGoesOn` under fairness |
| `sched_only_rejected` | 2 tasks of size 1, 1 node | violated: an accepted schedule is given back to the Scheduler |
| `sched_ids` | 2 tasks, 1 node | violated: two schedules of a task share an ID |
| `oracle_safety` | 1 task of size 2, slots of 2 and of 0 or 1, one schedule that may fail, one slot asked for, a row that may be refused, a dataset that may be odd, 1 epoch per process, 1 crash | `CreditsMatchRows`, `FinishedTaskIsComplete`, `FinishedTwiceOnlyIfOverdelivered`, `PanicsNeedARefusedRow`, `RowsPointToTransactions`, `EpochIdsAreFresh`, `FirstScheduledIsConsistent`, `GivenUpStaysGivenUp` |
| `services` | see below | `LostOnlyByFault`, `PoolIsSound`, `ExpiredOnlyIfCached`, `FewestSlotsChosen`, `FileIsWhole`, `QueryIsInOnePlace`, `TreeIsMap`, `ProofIsEnough`, `ReportsAddUp`, `ProofLeadsToRoot`, that `ChainUpper` implements `TransactionDelivery` (`DeliversAtMostOnce`), and `EveryTransactionSettles`, `DownloadEnds`, `EveryQueryIsAnswered` under fairness |

Why the bounds are enough. Two calls with one hash already give every race of a commit
with another commit, with its own vote and with either's expiry; a third channel entry
lets a certificate, a vote and an expiry wait together, and both smaller and larger
fillings are reached. Two epochs are one in which a commit is made and one in which its
vote and verdict fall; `slot_liveness` has one epoch (`EpochBound` 0), since a commit that meets no
vote is settled by its timer, and a channel of one entry, so that every wait occurs. The sizes 4 and -2
over-deliver a task of 3 and take it back. With two nodes a vote can pass, fail, be split and be empty. In
scheduling, two nodes separate the shares from the remainder, sizes 5 and 1 lie above and
below what the nodes are offered at once, and the second schedule of a task is
the first one made by a timer or a retry. In `sched_liveness` two kinds of behaviour are
checked (`FewOrManySpec`): two tasks come back from their timers and retries, and four fill
`UnprocessedTasks` and `PendingSchedules` (of capacity one) and both hands, the fewest that wedge. The two
longer waiting cycles of `Wedged` need more tasks than that; what the property says of them is
proved. `EpochBound` bounds `currentEpoch`,
`ScheduleBound` the schedules per task; both stand in a guard (`SendHeartbeat`,
`Schedule`).

In `oracle_safety` one slot completes the task, and the other one makes it too much, adds
nothing or comes alone, so a task is finished, finished again and left unfinished; the epoch of each process has a record before and
one after the crash, which is where IDs could collide; the crash may come before, between and
after all writes. `EpochBound` (per process) stands in the guard of `EpochTick`,
`CrashBound` in that of `RestartOn`; `MayFail` and `Asked` bound which slots fail or are
asked for, `MayMiss` and `OddDataset` which tasks the database or `GetDataset` may stumble over.

`services` puts the parts around the scheduler into one run. They share no state in the
models, so a behaviour is one of one part (`part`), and the state spaces add up instead of
multiplying. Its instances: three transactions, one of which is refused, two workers and a
queue of one (a pack longer than the queue, workers that overtake each other, an error, a
crash), a channel to the Oracle of one; one node, two callers and three connections (an eviction that meets another one's
dial); one node with certificates for a period and for ever, epochs 0 to 2 (before, in and
after the period), and a stranger; four finished slots, one stored whole, one whose node also sends a chunk
of it with another slot, one coded over both nodes, one with an unknown store method, asked for 0, 5
and 6 rows so that each of them is chosen, two downloads at a time, a channel of one; two HTTP
handlers and a query channel of one; stems of three words over two, so that stems part at each
depth, with keys in both halves of a leaf, and deletions of one value of two in a half, of the last
one of a half and of the last one of a leaf; two nodes and two slots in the Monitor, a heartbeat
without a number and one without a disk; up to two schedules, epochs and nodes and three
transactions over four days in the reports; up to seven slots in a Merkle tree (levels of
length 1 to 7, odd ones at every height). `LastEpoch`, `MaxSlots`, the sets of writes, keys,
migrations and events, and that each connection is dialled once are bounds.

Deadlock checking is off because a bounded system stops at its bounds; the waits that are for
ever are named in the liveness properties.

### What the violations mean

Six properties quote the repository and do not hold of the code; PROJECT.json lists each
with its lines. In short: `CheckFinalized` marks a copy of the track as finalized
(`Tracker/tracker.go:91`); the proof flag is inverted (`paradigm/track.go:63`); an empty vote
passes (`paradigm/vote.go:25`); slots and records disagree on the epoch by one
(`Epoch/EpochManager.go:57`); a schedule of size 0 counts as refused
(`Coordinator/scheduleImpl.go:145`); the first two schedules of a task have ID 0
(`Schedule/scheduler.go:64`).

Because of the first of them, and of the race between vote and expiry, the properties
`CreditedOnceUnlessRaced` and `VerdictsAgreeUnlessRaced` name the cases in which the code does
credit twice or contradict itself; outside of those cases it does not.

### What the liveness properties except

Each names the ways in which the code does not keep the promise.

* `EverySlotSettles`: a commit gets a verdict, unless the process dies (the race on the map, a
  certificate of an unknown node), the EpochManager blocks on its own full channel, or from some
  moment on `CollectExpire` waits at `UnprocessedTasks` or EpochManager and `CollectExpire` wait for each
  other over a timer. Any of these that passes is no excuse.
* `EveryTaskGoesOn`: the chain is drained and every known task is found finished in the end, or the
  bound of the model (`ScheduleBound`) holds the Scheduler at a request: tasks go round from the timer or a refusal
  to the Scheduler as often as it lets them. That they are finished the code does not
  promise: a node may refuse, or accept and never deliver, and a request of size 0 (`sched_only_rejected`)
  is given back although nodes accept. So the property is that no task comes to rest unfinished, unless
  Scheduler and Coordinator are wedged or the process has died.
* `EveryTransactionSettles`: unless the Oracle waits for ever for room in `InitTasks`.
* `DownloadEnds`: unless one of its own calls gives no answer, or the process panics.
* `EveryQueryIsAnswered`: unless the process ends or a read for the latest information fails.

`FileIsWhole` has two exceptions of safety: the slot of a mix-up, where a node that was asked for one
slot also sent a chunk of another, and an erasure-coded slot whose nodes answer in another order than its
signature has. Both are left out of the file as a whole, without an error.

### Fairness

The Go scheduler runs every goroutine that can go on, so each has weak fairness. In
`SlotLifecycle` three facts of the Go runtime need more, and have strong fairness: a `select`
picks at random among its ready cases, so no case that is ready again and again is passed
over for ever (`TakeSlot`); goroutines that wait to send to a full channel are queued and
served in turn (`SendJustified`, `ExpireSend`); an Eliminator puts out every item whose
minute has passed and `CollectExpire` reads (`ExpireSlot`). No fairness is given to `SendTask`, because the room in
`UnprocessedTasks` is owed by goroutines that may be wedged, and to `StartTimer` only while
`TimerFits`; nor to `OracleGoesOn` in `ChainUpper`. In `TaskScheduling` weak fairness of each goroutine as a
whole is enough. A call to a node ends, because it has a timeout of 5 seconds, and timers
run out. In the parts of `services` each goroutine has weak fairness; a handler that waits
to enter the full `QueryChannel` has strong fairness, because Go serves waiting senders in
turn. The fair steps of one part are disabled in the behaviours of another, so they ask
nothing of those. Calls to the chain and to nodes return or time out, and a client that started a
download reads it. No fairness is assumed of a node: it need not commit, vote for or deliver
anything, and none is given to epoch ticks, to new transactions, queries or downloads, or to the faults.

## The proofs

Each proof module holds for every value of the constants of the module it is about, from
that module's named assumption alone. (`AccountsAgree` also assumes that there are finitely many
calls.)

### `SlotLifecycleProofs`

From `SlotAssumption`: the constants have their types, a hash is not an item, and the
nodes are finitely many.

* `TypeCorrect`: `Spec => []TypeOK`. `TypeOK` is inductive as it stands: it contains that a
  goroutine has a slot in hand exactly at the positions that need one, which is what makes the
  steps in the middle of a handler type-correct.
* `FinalOnlyIfJustified`: `Spec => []SlotsAreJustified`. Its first part, that a final or
  credited slot is justified, is the statement of interest. It is not inductive, because
  a slot becomes final several steps after its vote was counted. The other parts carry
  the justification along the way: a message of a won vote names a voted hash
  (`MessageIsJustified`), the tracks hold verified items of their own hash and a proof flag only for
  reliable tasks (`TrackIsJustified`), what a handler holds is justified as far as
  it has got (`HandIsJustified`), and records and heartbeats list verified items only
  (`RoundIsJustified`). `CheckFinalized` looks the map up a second time, so the invariant also
  says that it finds the track of `WonVote` or none.
* `LedgerImplemented`: every step of `SlotLifecycle` is a step of `CreditLedger` or leaves its
  variables alone, from the two invariants above.

The refinement mapping of the last one is written out as `INSTANCE CreditLedger WITH`, every
variable by an expression of `SlotLifecycle`.

* `CreditsAreReportedOnce`: `OneTransactionPerCredit` is inductive with `TypeOK`. The one
  moment where it is out of step is the position `recordFinal` of the EpochManager, between
  `Commit` and the transaction, and no other goroutine can put it there or take it away.
* `AccountsAgree`: `TrackerAccounting` follows the only step that credits
  (`TrackerCommit`): it changes the sum at one call (`SumUpdate`), and two subtractions that stop at 0
  are one of both sizes, unless one of them is negative. The sizes are integers of either sign: what a task lacks is
  then at least what its history leaves, and more only if a negative size was credited.
* `CreditedOnce` and `VerdictsAgree`: neither property is inductive. The invariant `OneWay`
  says that a slot that was not raced is at exactly one of fifteen stages of its way, from the
  message of its commit to its verdict, and what is known of its state, credits and verdicts
  there (`IsAt`). Every step of the four goroutines takes one slot to its next stage and leaves the
  others (`EpochManagerMoves`, `CoordinatorMoves`, `CollectExpireMoves`, `CommitMoves`). A
  race, once met, stays one (`RacesStay`), so the exceptions the two properties name are all that is
  needed.

### `FiniteSums`

Sums over a finite set, as `MapThenSumSet` of the community modules computes them. A proof by
induction over a set is written as the existence of a smallest counterexample
(`SmallestSubset`), from the fact that the subsets of a finite set are well-founded (`WFMin`). Likewise
for numbers (`SmallestNat`).
From it: the recursion behind `MapThenSumSet` has one solution
(`SolutionsAgree`, `SolutionExists`), what one element adds (`SumWithout`), and what a change of
one value does (`SumUpdate`).

### `TaskSchedulingProofs`

From `SchedulingAssumption`: slot sizes, capacities and the number of nodes are positive, task
sizes and the bounds on schedules natural numbers, and each task comes from the chain once.

* `SchedulingTypeCorrect`: `TypeOK` is inductive as it stands; with it, that no channel ever holds
  more than its capacity.
* `TaskStaysInOnePlace`: `TaskIsInOnePlace` compares every two of the thirteen channels and hands
  a task can be in. The invariant (`PlaceInv`) says it once: some function from tasks
  to places describes all of them (`PlacedBy`), and no channel holds a task twice
  (`NoRepeats`). Each of the thirteen steps that move a task then changes that function at one
  task, and all other steps leave it. So a task is not lost in a retry, not scheduled twice at
  a time, and given up only when it lacks nothing.
* `RequestsAlwaysCover`: inductive. A request is made for what the task lacks at that moment,
  copied along the channels, and what a task lacks never grows (`SizeNeverGrows`).
* `RejectedAreReported`: while the Coordinator waits for answers, what it has reported so far
  is among the slots of the nodes that have failed so far (`Reported`).
* `SchedulesAreOfKnownTasks`: the Oracle passes a task on before it stores it, so the
  invariant (`KnownInv`) counts a task in its hand as announced; the Oracle cannot take up a
  schedule before it has put that task down.
* `OffersAreEnough`: `OfferIsEnough` for any number of nodes. The slots of a schedule are one per node
  (`SlotsOfNodes`), their sum is the sum of the advice (`OfferMakesUp`), and equal shares with
  the remainder at node 0 make up the request (`SharesMakeUp`, by the division) unless a share is cut
  at the slot size, in which case each node has a full slot.
* `WedgeTakesFullChannels`: in a wedge `UnprocessedTasks` and `PendingSchedules` are full and the Scheduler
  and the Coordinator or the Tracker have something in hand. By `PlaceInv` these are as many different tasks:
  the places are numbered, and no two numbers are the same task. So `UnprocessedCap + PendingCap + 1` unfinished
  tasks at a time are safe.

### `PersistenceProofs`

One invariant (`Inv`) carries three theorems. Besides the shape of the rows it says what the
Oracle has in hand (`OracleFits`); that schedules and slots on their way are of tasks this
process started, and those are stored and not given up, but for the one that is being stored
and those whose row the database refused (`Started`); that up to the first restart epoch records name only slots of started tasks
(`FirstLife`).

* `PanicsOnlyOnRefusedRows`: the two panics on an unknown task are only of one whose row was
  refused, and the nil task of an epoch record is one of those or needs a restart. The argument is the
  order: a task is inserted before its schedule is stored, and no slot is credited whose task the Tracker
  does not know.
* `RowsAlwaysPointToTransactions`: transaction first, row second, over every crash.
* `GivenUpForGood`: the tasks whose rows are written are started ones, and those have not
  failed; recovery starts none.

`Persistence` assumes of the chain upper only what `DeliveryImplemented` proves of it.

### `TableProofs`

Five more theorems about `Persistence`. One is about the table of epochs, from `Inv` and an invariant over epoch records (`EpochInv`).
A record is live while its transaction is on the way or in the hand of the Oracle.

* `EpochIdsAlwaysFresh`: the ID of a live record is below that of the current one, and no other live
  record or stored row has it (`LiveIdsAreUnique`). The current ID goes up with every epoch. A
  restart leaves no record live, and the first ID is above the greatest stored one
  (`FirstIdIsAbove`), which exists (`TableOfEpochs`). That records come back in any order or
  never does not matter, and neither that IDs of lost records are given again.

Two are about the row of a task, from `Inv` and an invariant over rows (`RowInv`, which is
`RowOf` for each task): how far progress, status, the count of finishes and what the Oracle does
next agree. Most steps write none of that (`Quiet`).

* `FinishedTasksAreComplete`: status follows progress within one step of the Oracle; a crash
  between the two is noted in `torn`, and recovery does not repair it.
* `CountedTwiceOnlyIfOverdelivered`: `HasbeenCollect` guards nothing, because it is not stored.
  That a task is counted once therefore rests on the nodes: each credit beyond the first
  completion makes the progress exceed the size, unless the slot is one of size 0, which
  `CommitSlot` takes as well.

Two are about the rows of slots and the sums of tasks.

* `FirstScheduleIsWhole`: what a step may do to the row of a slot is said once
  (`SlotRowMoves`). `FirstInv` adds to the property that a slot that the statistics count as
  finished has a row, or the Oracle is about to write it: without that, a schedule could come
  after the finished slot and still count as the first one.
* `RowsMatchCredits`: `CreditInv` adds that a transaction does not come back once it is stored or was
  cut off by a crash (`NoneComesBack`, which needs the at-most-once delivery of
  `TransactionDelivery`), and that the slot of the transaction in the Oracle's hand is
  finished before the progress is increased. Only `Increment` changes a sum, by the amount in its
  hand; all other steps are `Calm`, take a transaction into the hand, or
  restart.

### `ServicesProofs`

From the named assumptions of the four modules.

* `ChainTypeCorrect`: the types, with the two indices inside the pool.
* `LossesAreFaults`: `LostOnlyByFault` for any number of workers and transactions and any
  capacity. It rests on a lemma about every step (`EveryStepMovesRight`): no step takes a
  transaction out of the five places it may be in (`pending`, the pool beyond `pushed`, the
  queue, a worker, `devTransactions`) but into another one, to the Oracle or to
  the history of errors and crashes.
* `DeliveryImplemented`: `ChainSpec => Delivery!Spec`. That no transaction is delivered twice
  needs that it is in one place and there once (`InOnePlace`): no two entries of a channel or
  of the rest of the pool are equal, no two workers hold the same one, and the five
  places do not meet. With that every step is a `Hand`, a `Deliver`, a `Lose` or a stutter.
* `PoolStaysSound`: inductive together with two facts about the callers. A connection in
  hand was dialled for the node that is called (`HandIsSound`); and between the two locks of a call
  that no other one raced, the pool stays as the call found it (`PoolAsFound`).
* `ExpiredWasValid`: with the invariant that every cached certificate was genuine and valid when
  it was put there (`CacheInv`).
* `QueryStaysInOnePlace`: `QueryIsInOnePlace` compares every two of five places. The invariant
  says that each query is at one place of six (`At`; the sixth is with its handler, before it is
  sent and never after), that the channel holds none twice (`NoneTwice`), and that chain and Monitor only have
  the query the Oracle waits for (`Asked`). Each step moves one query and leaves the rest (`Same`).

### `AlgorithmProofs`

From `CollectionAssumption` and `IntegrityAssumption`. `ChoicesAreFewest` and `ProofsLeadToRoot`
are about data of any size. A recursive definition is unfolded by showing that its recursion has
a solution, which is induction over sets or over numbers as in `FiniteSums`; what it computes is
then proved of that solution the same way.

* `ChoicesAreFewest`: `FewestSlotsChosen` for all finished slots, sizes and orders in which the
  database returns them. From `CollectionAssumption`: the finished slots are finitely many, and the
  size asked for is an integer. First the operators: the binary search finds, in
  every descending list, how many items are at least as large (`SearchFinds`), so the insertion
  keeps the order (`UpdateKeepsOrder`), so the fold over the rows ends with every slot once, in order
  (`CollectorInOrder`). Then the choice: what the greedy loop has added up is a sum
  (`PrefixIsSum`), no set of as many slots sums up to more than the front of the list
  (`FrontIsLargest`), so none of fewer slots is enough (`ChoiceIsFewest`). The state only carries
  the choice a download was begun with (`ChoiceInv`).
* `EveryAnswerFindsItsSlot` and `DownloadsHangOnlyByFailure` are about the interleaving of
  concurrent downloads, the Coordinator and its calls. The comment at instance.go:58 says that one
  response channel for all slots of a download is enough, since slots are asked for one at a time
  ("since we also receive one by one"); the first theorem says that it is right. The second is the
  safety half of `DownloadEnds`: a download waits for more responses than can still come exactly if one
  of its own calls gave no answer. Their invariant (`DownloadInv`) is an account: while a download
  waits, its request is in the queue (`InQueue`), or the responses it took, those in its channel and
  the calls still open add up to the number it expects, and to less if and only if a call failed
  (`Taken`); and otherwise nothing is on its way to it (`AtRest`). Assumed of the nodes: they
  are finitely many and at least one. No run checks these two definitions; the liveness they leave is
  `DownloadEnds`.
* `ProofsLeadToRoot`: `ProofLeadsToRoot` for any number of slots and any of them with a
  commitment. The loop over the slots finds the target at its place (`TargetIsFound`). A level
  has fewer nodes than the one below it, so `Build` ends with one node (`BuildStops`), and above each
  node stands its hash with its sibling, or itself (`LevelAbove`). Each step of
  `GetProof` keeps that the proof so far leads from the leaf to the node reached
  (`OnePairLeads`), and at the top that is the root (`PairProofLeads`); the same for `GetMerkleProof`
  (`OneItemLeads`, `ItemProofLeads`).

### `VerkleTreeProofs`

From `VerkleAssumption`: the words are numbers, a stem has at least one, and writes, migrations
and deletions are of stems and suffixes there are; a write has at least one value. The sets may
be of any size.

`TreeIsMap` compares the tree, updated by differences along single ways, with a
definition over all values, and is far from inductive. The invariant (`TreeInv`) is, in the order
in which its parts are needed:

* `Shape`: internal nodes reach from the root exactly down to the leaves, each leaf is on the way of
  its stem, and nothing is below it. So the way of a stem ends in one place
  (`TerminalIs`), and the leaf of the stem is there or nowhere (`LeafAtTerminal`). A half of a leaf
  has the commitment to its values, unless a deletion emptied it.
* `Holds`: the leaves hold what was written, and each internal node but the root is on the way of some
  stem that is held. Without the second part a chain of internal nodes with nothing below
  could stay behind a deletion; `RemoveKeeps` shows that `Delete` takes such a chain along.
* `Marks`: where a child was touched, every node above is marked too. `Commit` only follows marks from
  the root, so that it reaches every touched node depends on this (`FilledIs`).
* `Agrees`: for each child a node has the present commitment of it, or the one it remembers. This is why
  a difference is never added to a commitment it was not taken from (the value `Wrong` of `Updated` is
  unreachable). It is given up only where a migration changes a leaf below the children of
  the root and its parent does not know (`Unmarks`), which `MigrateKeeps` shows to be the only case.
* `Canonical`, as long as nothing is deleted: each internal node but the root parts two stems that
  are held, and each half has its commitment. Then the shape follows from the values alone; and no
  update meets a nil commitment (`CanonicalHasHalves`).

Each operation keeps it: `InsertKeeps`, with a new leaf, an old one (`UpdateOld`) or two where one was
(`ForkKeeps`); `MigrateKeeps`, by the steps of its two loops (`RootMarkedStep`, `MigratedStep`);
`DeleteKeeps`; `CommitKeeps`, by levels from the deepest one up (`CommitLevelIs`).

* `TreeInvariant`: `VerkleSpec => []TreeInv`.
* `VerkleTreeIsMap`: `TreeInv` implies `TreeIsMap`. What `Get` returns follows from `Shape` and
  `Holds` (`GetIs`). If the root is not marked no node is (`RootIsSettled`), and then each commitment
  is the one of the children; on the way to a leaf none is the identity (`NotIdentity`). The two
  reference definitions are recursions over paths: that the commitments of the nodes solve them, and
  that nothing else does, is shown from the longest paths up (`RecomputedIs`, `StandsForRoot`).

`TreeInv` was model-checked on the trees of `services` before it was proved.

### Only model-checked

* `FileIsWhole`, `ReportsAddUp`, `ProofIsEnough`: they rest on `SelectSeq`, which is built into the
  prover and has no definition there to unfold. (How the answers come to a download, on which
  `FileIsWhole` depends, is proved: `EveryAnswerFindsItsSlot`.)
* All liveness (`EverySlotSettles`, `EveryTaskGoesOn`, `EveryTransactionSettles`,
  `DownloadEnds`, `EveryQueryIsAnswered`): proofs of liveness under fairness are out of the reach
  of the prover.

## The plan

Done, in this order: `SlotLifecycle` and its proofs; `TaskScheduling`; `ChainUpper` against
`TransactionDelivery`; `Persistence` with crashes and recovery; `Collection`, `Connections`,
`Certificates`, `QueryService`, `NodeMonitor`, `Reports`, `Integrity`; the Verkle tree; the
theorems above.

Open, the most valuable first:

1. A violation run for the comment at `paradigm/oracle.go:137`, with the map `Tasks` in `Persistence`.
2. A proof of `ProofIsEnough`, on the lemmas about paths of `VerkleTreeProofs`; its module has to do without
   `SelectSeq` first.

## Not modelled

* The bindings generated by protoc and abigen (`pb`, `ChainUpper/contract`): no logic of this
  program.
* File transformation, configuration, logging, and the encoding of contract parameters: input and
  output without control that a property depends on. `Mocker` and `MockerChainUpper` are
  test doubles.
* The bytes of Verkle nodes and the curve arithmetic, see `VerkleTree`.
* The older in-memory Oracle, which is commented out.
* The routing of URLs and the counter of task IDs in `Network/HTTP`: a task is a value that is
  created once.
* Node behaviour beyond its interface: a node may answer, refuse, fail or be late at any
  call, which is all the master can see of it.
