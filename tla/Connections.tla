----------------------------- MODULE Connections -----------------------------
(***************************************************************************)
(* The pool of gRPC connections of NodeGrpcManager.  GetConn looks a       *)
(* connection up under the read lock and replaces it under the write lock; *)
(* between the two the calls of other goroutines (sendSchedule,            *)
(* sendHeartbeat, sendCollect) get in.                                     *)
(***************************************************************************)
EXTENDS FiniteSets

CONSTANTS
    Peer,      \* nodes with an address
    Caller,    \* goroutines that call a node
    Conn,      \* connections; a bound: each is dialled once
    NoConn

ASSUME ConnectionAssumption == NoConn \notin Conn

VARIABLES
    connPool,   \* the connection of each node, or NoConn
    connState,  \* state of each connection; "new" ones were not dialled
    owner,      \* the node a connection was dialled for
    caller,     \* where each goroutine is, for which node, with what
    raced       \* history: nodes for which two calls were between their locks

connectionVars == <<connPool, connState, owner, caller, raced>>

Elsewhere == [pc |-> "out", node |-> NoConn, conn |-> NoConn]
Open == {k \in Conn : connState[k] \in {"connecting", "ready", "down"}}
BetweenLocks(n) == {c \in Caller : caller[c].pc \in {"evict", "dial"} /\ caller[c].node = n}

ConnectionInit ==
    /\ connPool = [n \in Peer |-> NoConn]
    /\ connState = [k \in Conn |-> "new"]
    /\ owner = [k \in Conn |-> NoConn]
    /\ caller = [c \in Caller |-> Elsewhere]
    /\ raced = {}

\* The state GetState returns changes under the hands of gRPC: a connection is
\* established, goes down or idle, and comes back.
NetworkChange(k) ==
    /\ k \in Open
    /\ connState' = [connState EXCEPT ![k] = IF @ = "ready" THEN "down" ELSE "ready"]
    /\ UNCHANGED <<connPool, owner, caller, raced>>

\* Under the read lock: a ready connection is returned, another one is to be
\* closed, and where there is none one is to be dialled.
LookUp(c, n) ==
    LET k == connPool[n]
        pc == CASE k = NoConn -> "dial"
                [] k # NoConn /\ connState[k] = "ready" -> "use"
                [] OTHER -> "evict"
    IN  /\ caller[c] = Elsewhere
        /\ caller' = [caller EXCEPT ![c] = [pc |-> pc, node |-> n, conn |-> k]]
        /\ raced' = IF pc # "use" /\ BetweenLocks(n) # {} THEN raced \cup {n} ELSE raced
        /\ UNCHANGED <<connPool, connState, owner>>

\* (Variants.)
KeepsEntry(pool, n) == pool
CloseNothing(k) == connState

\* The entry of the node is deleted, whatever connection it holds by now.
DeleteEntry(pool, n) == [pool EXCEPT ![n] = NoConn]
Close(k) == [connState EXCEPT ![k] = "closed"]

\* Under the write lock; the caller gets the error "retry".
Evict(c) ==
    /\ caller[c].pc = "evict"
    /\ connState' = Close(caller[c].conn)
    /\ connPool' = DeleteEntry(connPool, caller[c].node)
    /\ caller' = [caller EXCEPT ![c] = Elsewhere]
    /\ UNCHANGED <<owner, raced>>

\* Under the write lock, without a second look at the pool.
Dial(c) ==
    \E k \in {j \in Conn : connState[j] = "new"} :
        /\ caller[c].pc = "dial"
        /\ connState' = [connState EXCEPT ![k] = "connecting"]
        /\ owner' = [owner EXCEPT ![k] = caller[c].node]
        /\ connPool' = [connPool EXCEPT ![caller[c].node] = k]
        /\ caller' = [caller EXCEPT ![c] = [pc |-> "use", node |-> @.node, conn |-> k]]
        /\ UNCHANGED raced

DialFails(c) ==
    /\ caller[c].pc = "dial"
    /\ caller' = [caller EXCEPT ![c] = Elsewhere]
    /\ UNCHANGED <<connPool, connState, owner, raced>>

\* The call over the connection ends; the connection stays in the pool.
EndCall(c) ==
    /\ caller[c].pc = "use"
    /\ caller' = [caller EXCEPT ![c] = Elsewhere]
    /\ UNCHANGED <<connPool, connState, owner, raced>>

ConnectionNext ==
    \/ \E k \in Conn : NetworkChange(k)
    \/ \E c \in Caller, n \in Peer : LookUp(c, n)
    \/ \E c \in Caller : Evict(c) \/ Dial(c) \/ DialFails(c) \/ EndCall(c)

ConnectionSpec == ConnectionInit /\ [][ConnectionNext]_connectionVars

ConnectionTypeOK ==
    /\ connPool \in [Peer -> Conn \cup {NoConn}]
    /\ connState \in [Conn -> {"new", "connecting", "ready", "down", "closed"}]
    /\ owner \in [Conn -> Peer \cup {NoConn}]
    /\ caller \in [Caller -> [pc : {"out", "evict", "dial", "use"},
                              node : Peer \cup {NoConn}, conn : Conn \cup {NoConn}]]
    /\ raced \subseteq Peer

\* A pooled connection is open and leads to its node, whatever the calls do; and
\* unless two calls for the node stood between their two locks at once, the
\* node has no other open connection: none is left behind by an eviction that
\* hits the successor or by a dial that overwrites it.
PoolIsSound ==
    \A n \in Peer :
        /\ connPool[n] # NoConn => connPool[n] \in Open /\ owner[connPool[n]] = n
        /\ n \notin raced =>
               \A k \in Open : owner[k] = n => connPool[n] = k
=============================================================================
