----------------------------- MODULE MCServices -----------------------------
(* Small instances of the services around the scheduler for TLC.  They share *)
(* no state in the models: each behaviour is one of one of them.             *)
EXTENDS ChainUpper, Connections, Certificates, Collection, QueryService, VerkleProof,
        Reports, Integrity

CONSTANTS
    x1, x2, x3, w1, w2,   \* transactions and chain workers
    m1, g1, g2, k1, k2, k3, \* a node, its callers and its connections
    h1, h2,               \* a node with a key and one without
    s1, s2, s3, s4, n1, n2, d1, d2, \* slots, nodes and downloads
    q1, q2,               \* requests at the HTTP server
    a, b,                 \* values in the tree
    NoNumber              \* in an answer to a heartbeat

Transactions == {x1, x2, x3}
RefusedOnes == {x3}
Workers == {w1, w2}

Peers == {m1}
Callers == {g1, g2}
Conns == {k1, k2, k3}

Holders == {h1}
Strangers == {h2}
Periods == {<<0, 1>>, <<-1, -1>>}

\* One slot is whole at its node, one comes with chunks of another slot, one is coded
\* over both nodes, and one is stored in a way the master cannot read.
Downloads == {d1, d2}
FinishedSlots == {s1, s2, s3, s4}
Addresses == {n1, n2}
MCLength == s1 :> 2 @@ s2 :> 1 @@ s3 :> 3 @@ s4 :> 1
MCNodeOf == s1 :> n1 @@ s2 :> n2 @@ s3 :> n1 @@ s4 :> n2
MCStoreMethod == s1 :> 1 @@ s2 :> 1 @@ s3 :> 3 @@ s4 :> 2
ChunkAt(s, row, col) == [slot |-> s, row |-> row, col |-> col]
MCStored ==
    s1 :> (n1 :> <<ChunkAt(s1, 0, 0), ChunkAt(s1, 1, 0), ChunkAt(s2, 0, 0)>> @@ n2 :> <<>>)
    @@ s2 :> (n1 :> <<>> @@ n2 :> <<ChunkAt(s2, 0, 0)>>)
    @@ s3 :> (n1 :> <<ChunkAt(s3, 0, 0)>> @@ n2 :> <<ChunkAt(s3, 0, 1)>>)
    @@ s4 :> (n1 :> <<>> @@ n2 :> <<ChunkAt(s4, 0, 0)>>)
MCSigned ==
    s1 :> <<ChunkAt(s1, 0, 0), ChunkAt(s1, 1, 0)>> @@ s2 :> <<ChunkAt(s2, 0, 0)>>
    @@ s3 :> <<ChunkAt(s3, 0, 0), ChunkAt(s3, 0, 1)>> @@ s4 :> <<ChunkAt(s4, 0, 0)>>
MCRowOrders == {<<s1, s2, s4, s3>>, <<s3, s1, s2, s4>>, <<s4, s2, s1, s3>>}
MCAsks == {0, 5, 6}

Handlers == {q1, q2}

\* Stems that part at each depth, a leaf with both halves, a leaf to migrate into;
\* a deletion takes one value of two in a half, the last one of a half, or of a leaf.
Bits == {0, 1}
MCSuffixes == {0, 1, 2, 3}
InSecondHalf == {2, 3}
MCWrites ==
    {<<<<0, 0, 0>>, 3 :> a>>, <<<<0, 0, 0>>, 1 :> a @@ 2 :> b>>, <<<<0, 0, 1>>, 0 :> a>>,
     <<<<0, 1, 0>>, 0 :> b>>}
MCKeys == {<<<<0, 0, 0>>, 2>>, <<<<0, 0, 1>>, 0>>}
MCMigrations == {<<<<<<0, 0, 0>>, 3 :> b @@ 1 :> a>>, <<<<0, 0, 1>>, 0 :> a>>>>}
MCProofKeys ==
    {{<<<<0, 0, 0>>, 0>>, <<<<0, 0, 1>>, 0>>},
     {<<<<0, 0, 0>>, 1>>, <<<<0, 1, 0>>, 0>>, <<<<0, 1, 1>>, 0>>},
     {<<<<0, 0, 0>>, 1>>, <<<<0, 0, 0>>, 2>>, <<<<1, 0, 0>>, 0>>}}

\* Slots of every outcome, one with the epoch 0 of a row nobody scheduled.
SlotOn(node, status, epoch, process) ==
    [node |-> node, size |-> 1 + node, status |-> status, epoch |-> epoch,
     process |-> process]
SlotKinds ==
    {SlotOn(0, "finished", 0, 2), SlotOn(1, "finished", 1, 1), SlotOn(0, "failed", -1, 0),
     SlotOn(1, "failed", 1, 0), SlotOn(1, "processing", 0, 0)}
OfTask(task, size) == [task |-> task, size |-> size]
EpochKinds ==
    {[commits |-> "ABM" :> <<1, 2>>, justifieds |-> "ABM" :> <<2>>,
      finalizes |-> "ABM" :> <<1>> @@ "BAED" :> <<3>>, invalids |-> <<4>>,
      slotMap |-> 1 :> OfTask(1, 2) @@ 2 :> OfTask(1, 1)],
     [commits |-> <<>>, justifieds |-> <<>>,
      finalizes |-> "ABM" :> <<1, 2>> @@ "CTGAN" :> <<3>>, invalids |-> <<>>,
      slotMap |-> 1 :> OfTask(1, 2) @@ 2 :> OfTask(1, 1) @@ 3 :> OfTask(2, 1)]}
\* Two nodes, two slots of one of them; one heartbeat lacks a number, another
\* one the speed.  No property depends on the numbers, which are 0.
MCTold ==
    {[id |-> 1, node |-> 0, process |-> 2, model |-> "ABM"],
     [id |-> 2, node |-> 0, process |-> 1, model |-> "CTGAN"]}
MCSpeeds == {0}
MCHeartbeats ==
    {[cpu |-> 0, disk |-> 0, total |-> 0, speed |-> NoNumber],
     [cpu |-> 0, disk |-> NoNumber, total |-> 0, speed |-> 0]}
DateEvent(day, kind, model, dataset) ==
    [day |-> day, kind |-> kind, model |-> model, dataset |-> dataset, process |-> day + 1,
     finishes |-> day = 2]
DateEventKinds ==
    {DateEvent(0, "epoch", "ABM", ""), DateEvent(0, "init", "ABM", "d"),
     DateEvent(2, "init", "ABM", ""), DateEvent(1, "process", "CTGAN", ""),
     DateEvent(2, "process", "BAED", ""), DateEvent(3, "init", "ABM", "e")}

VARIABLE part  \* the service this behaviour is one of

servicesVars == <<part, chainVars, connectionVars, certificateVars, collectionVars,
                  queryVars, verkleVars, monitorVars, reportsVars, integrityVars>>

NothingShown == schedules = <<>> /\ latest = <<>> /\ dates = <<>>
OneSlot == committed = <<TRUE>> /\ target = 1

ServicesInit ==
    /\ part \in {"chain", "connections", "certificates", "collection", "query", "verkle",
                 "monitor", "reports", "integrity"}
    /\ ChainInit /\ ConnectionInit /\ CertificateInit /\ CollectionInit /\ QueryInit
    /\ VerkleInit /\ MonitorInit
    /\ IF part = "reports" THEN ReportsInit ELSE NothingShown
    /\ IF part = "integrity" THEN IntegrityInit ELSE OneSlot

Others(name) ==
    /\ name # "chain" => UNCHANGED chainVars
    /\ name # "connections" => UNCHANGED connectionVars
    /\ name # "certificates" => UNCHANGED certificateVars
    /\ name # "collection" => UNCHANGED collectionVars
    /\ name # "query" => UNCHANGED queryVars
    /\ name # "verkle" => UNCHANGED verkleVars
    /\ name # "monitor" => UNCHANGED monitorVars
    /\ UNCHANGED <<part, reportsVars, integrityVars>>

ServicesNext ==
    \/ part = "chain" /\ ChainNext /\ Others("chain")
    \/ part = "connections" /\ ConnectionNext /\ Others("connections")
    \/ part = "certificates" /\ CertificateNext /\ Others("certificates")
    \/ part = "collection" /\ CollectionNext /\ Others("collection")
    \/ part = "query" /\ QueryNext /\ Others("query")
    \/ part = "verkle" /\ VerkleNext /\ Others("verkle")
    \/ part = "monitor" /\ MonitorNext /\ Others("monitor")

\* The fairness of each service; in the initial state none of the fair steps is
\* enabled, so that it asks nothing of the behaviours of another service.
ServicesSpec ==
    /\ ServicesInit /\ [][ServicesNext]_servicesVars
    /\ ChainFairness /\ CollectionFairness /\ QueryFairness
=============================================================================
