---------------------------- MODULE QueryService ----------------------------
(***************************************************************************)
(* A query on its way: the HTTP handler builds it and waits for its        *)
(* answer; one goroutine of the Oracle (processDBQuery) takes the queries  *)
(* one by one, looks up the database and asks ChainUpper.handleQuery or    *)
(* Monitor.processQuery where it must, over a channel of the query.  Each  *)
(* query has a channel of its own for the answer, closed after one answer. *)
(***************************************************************************)
EXTENDS Naturals, Sequences

CONSTANTS
    Handler,      \* requests at the HTTP server
    QueryCap,     \* capacity of QueryChannel
    ForeignRows,  \* the table has transactions of a kind this program does not write
    Nobody

ASSUME QueryAssumption == Nobody \notin Handler /\ ForeignRows \in BOOLEAN

\* The 17 kinds of query, by how they are answered.
Kinds ==
    {"lookup",        \* one read of tasks, epochs or dates
     "latest",        \* BlockchainLatestInfoQuery
     "tasks",         \* SynthTaskQuery
     "slots",         \* TaskOnNodesQuery, SlotIntegrityVerification
     "collect",       \* CollectTaskQuery
     "upload",        \* UploadTaskQuery
     "block",         \* BlockchainBlockNumberQuery, BlockchainBlockHashQuery
     "transaction",   \* BlockchainTransactionQuery
     "nodes"}         \* NodesStatusQuery

\* Where the handler of a URL renders the answer: as JSON, or as a file.
Urls == {"json", "file"}

VARIABLES
    handler,         \* what each HTTP handler does
    queryChannel,    \* channel QueryChannel
    dbQuery,         \* processDBQuery: its query and what it waits for
    chainQuery,      \* handleQuery: its query, or Nobody
    monitorQuery,    \* processQuery: its query, or Nobody
    info,            \* infoChannel of each query
    sender,          \* queries with a goroutine of their own that sends the answer
    response,        \* responseChannel of each query: what it holds
    alive,           \* the process runs
    silent           \* history: queries dropped without an answer

queryVars == <<handler, queryChannel, dbQuery, chainQuery, monitorQuery, info, sender,
               response, alive, silent>>
service == <<dbQuery, chainQuery, monitorQuery, info, sender, response, alive, silent>>

NoHandler == [pc |-> "idle", kind |-> "lookup", url |-> "json", status |-> 0]
\* A handler that has returned leaves its status and nothing else.
Returned(status) == [NoHandler EXCEPT !.pc = "done", !.status = status]
NoQuery == [of |-> Nobody, wait |-> "none"]

QueryInit ==
    /\ handler = [h \in Handler |-> NoHandler]
    /\ queryChannel = <<>> /\ dbQuery = NoQuery
    /\ chainQuery = Nobody /\ monitorQuery = Nobody
    /\ info = [h \in Handler |-> "empty"] /\ response = [h \in Handler |-> "empty"]
    /\ sender = {} /\ alive = TRUE /\ silent = {}

-----------------------------------------------------------------------------
(* HttpEngine: HandleGET and HandleDownload.                               *)

\* BuildQueryFromGETRequest: any URL takes any kind; an unknown kind or a missing
\* or unreadable parameter is refused at once.
BadRequest(h) ==
    /\ alive /\ handler[h].pc = "idle"
    /\ handler' = [handler EXCEPT ![h] = Returned(400)]
    /\ UNCHANGED <<queryChannel, service>>

SubmitQuery(h, kind, url) ==
    /\ alive /\ handler[h].pc = "idle"
    /\ handler' = [handler EXCEPT ![h] =
           [pc |-> "submit", kind |-> kind, url |-> url, status |-> 0]]
    /\ UNCHANGED <<queryChannel, service>>

EnterChannel(h) ==
    /\ alive /\ handler[h].pc = "submit" /\ Len(queryChannel) < QueryCap
    /\ queryChannel' = Append(queryChannel, h)
    /\ handler' = [handler EXCEPT ![h].pc = "wait"]
    /\ UNCHANGED service

\* HandleDownload takes the file out of the answer; where there is none it panics
\* and gin answers with 500.
Render(url, answer) == IF url = "file" /\ answer # "file" THEN 500 ELSE 200

ReceiveResponse(h) ==
    /\ alive /\ handler[h].pc = "wait" /\ response[h] # "empty"
    /\ handler' = [handler EXCEPT ![h] = Returned(Render(handler[h].url, response[h]))]
    /\ UNCHANGED <<queryChannel, service>>

-----------------------------------------------------------------------------
(* processDBQuery.                                                         *)

KindOf(h) == handler[h].kind

Respond(h, answer) == response' = [response EXCEPT ![h] = answer]

\* (A variant, used nowhere: without its "continue" the answered case falls through
\* and the query is answered once more.)
FallsThrough == UNCHANGED dbQuery

Finish == dbQuery' = NoQuery

\* A query leaves the channel; three kinds are passed on, and the Oracle waits.
TakeQuery ==
    LET h == Head(queryChannel)
        wait == IF KindOf(h) \in {"block", "transaction"} THEN "chain"
                ELSE IF KindOf(h) = "nodes" THEN "monitor" ELSE "read"
    IN  /\ alive /\ dbQuery = NoQuery /\ queryChannel # <<>>
        /\ queryChannel' = Tail(queryChannel)
        /\ dbQuery' = [of |-> h, wait |-> wait]
        /\ chainQuery' = IF wait = "chain" THEN h ELSE chainQuery
        /\ monitorQuery' = IF wait = "monitor" THEN h ELSE monitorQuery
        /\ UNCHANGED <<handler, info, sender, response, alive, silent>>

\* "continue" without an answer: five reads, each of which may fail.
DropQuery(h) == UNCHANGED response /\ silent' = silent \cup {h}

LatestFails ==
    LET h == dbQuery.of
    IN  /\ alive /\ dbQuery.wait = "read" /\ KindOf(h) = "latest"
        /\ DropQuery(h)
        /\ Finish
        /\ UNCHANGED <<handler, queryChannel, chainQuery, monitorQuery, info, sender, alive>>

\* A read that fails, or finds nothing, is answered with an ErrorResponse.
ReadFails ==
    LET h == dbQuery.of
    IN  /\ alive /\ dbQuery.wait = "read"
        /\ KindOf(h) \in {"lookup", "tasks", "collect"}
        /\ Respond(h, "error")
        /\ Finish
        /\ UNCHANGED <<handler, queryChannel, chainQuery, monitorQuery, info, sender, alive, silent>>

\* The reads succeed.  A query for slots takes an error for "no slots", and for the
\* verification of one that is not there the answer is an ErrorResponse.
ReadAnswered ==
    LET h == dbQuery.of
    IN  /\ alive /\ dbQuery.wait = "read"
        /\ \/ KindOf(h) \in {"lookup", "latest", "tasks"} /\ Respond(h, "ok")
           \/ KindOf(h) = "slots" /\ \E answer \in {"ok", "error"} : Respond(h, answer)
        /\ Finish
        /\ UNCHANGED <<handler, queryChannel, chainQuery, monitorQuery, info, sender, alive, silent>>

\* The collection is started here, its answer sent by a goroutine of its own.
StartCollect ==
    LET h == dbQuery.of
    IN  /\ alive /\ dbQuery.wait = "read" /\ KindOf(h) = "collect"
        /\ sender' = sender \cup {h}
        /\ Finish
        /\ UNCHANGED <<handler, queryChannel, chainQuery, monitorQuery, info, response, alive, silent>>

SendResponse(h) ==
    /\ alive /\ h \in sender
    /\ sender' = sender \ {h}
    /\ Respond(h, "file")
    /\ UNCHANGED <<handler, queryChannel, dbQuery, chainQuery, monitorQuery, info, alive, silent>>

\* An upload of a task that is not finished is answered; else the task is not
\* found and dereferenced all the same, or it is a *Task where a Task is asserted.
UploadRefused ==
    LET h == dbQuery.of
    IN  /\ alive /\ dbQuery.wait = "read" /\ KindOf(h) = "upload"
        /\ Respond(h, "error")
        /\ Finish
        /\ UNCHANGED <<handler, queryChannel, chainQuery, monitorQuery, info, sender, alive, silent>>

\* The process also ends on a list of tasks one of which has no transaction.
QueryPanics ==
    /\ alive /\ dbQuery.wait = "read" /\ KindOf(dbQuery.of) \in {"upload", "tasks"}
    /\ alive' = FALSE
    /\ UNCHANGED <<handler, queryChannel, dbQuery, chainQuery, monitorQuery, info, sender,
                   response, silent>>

\* The information has come.  What the chain says of a block is passed on; a
\* transaction is looked up in the database, an unknown one in vain.  One of a kind
\* that is none of the three is answered with an error and, for want of a "continue",
\* once more: the channel is closed by then, and the process ends.
InfoReceived ==
    LET h == dbQuery.of
    IN  /\ alive /\ dbQuery.wait \in {"chain", "monitor"} /\ info[h] # "empty"
        /\ \/ /\ Respond(h, IF KindOf(h) = "transaction" /\ info[h] = "invalid"
                             THEN "error" ELSE "ok")
              /\ UNCHANGED alive
           \/ KindOf(h) = "transaction" /\ Respond(h, "error") /\ UNCHANGED alive
           \/ /\ ForeignRows /\ KindOf(h) = "transaction" /\ info[h] = "valid"
              /\ Respond(h, "error") /\ alive' = FALSE
        /\ info' = [info EXCEPT ![h] = "empty"]
        /\ Finish
        /\ UNCHANGED <<handler, queryChannel, chainQuery, monitorQuery, sender, silent>>

-----------------------------------------------------------------------------
(* ChainUpper.handle and Monitor.processQuery.                             *)

\* (A variant, used nowhere: a failed call of the chain returns at once.)
ReturnsOnError(outcome) == outcome = "valid"

\* A call that fails or takes 10 seconds also gives an information, an invalid one.
SendsInfo(outcome) == TRUE

ChainAnswers ==
    \E outcome \in {"valid", "invalid"} :
        /\ alive /\ chainQuery # Nobody
        /\ info' = [info EXCEPT ![chainQuery] = IF SendsInfo(outcome) THEN outcome ELSE @]
        /\ chainQuery' = Nobody
        /\ UNCHANGED <<handler, queryChannel, dbQuery, monitorQuery, sender, response, alive, silent>>

\* The block of a transaction is read without a look at the error.
ChainPanics ==
    /\ alive /\ chainQuery # Nobody /\ KindOf(chainQuery) = "transaction"
    /\ alive' = FALSE
    /\ UNCHANGED <<handler, queryChannel, dbQuery, chainQuery, monitorQuery, info, sender,
                   response, silent>>

MonitorAnswers ==
    /\ alive /\ monitorQuery # Nobody
    /\ info' = [info EXCEPT ![monitorQuery] = "valid"]
    /\ monitorQuery' = Nobody
    /\ UNCHANGED <<handler, queryChannel, dbQuery, chainQuery, sender, response, alive, silent>>

-----------------------------------------------------------------------------
OracleQueryStep ==
    \/ TakeQuery
    \/ LatestFails \/ ReadFails \/ ReadAnswered \/ StartCollect
    \/ UploadRefused \/ QueryPanics \/ InfoReceived
ChainQueryStep == ChainAnswers \/ ChainPanics
HandlerStep(h) == EnterChannel(h) \/ ReceiveResponse(h)

QueryNext ==
    \/ \E h \in Handler, kind \in Kinds, url \in Urls : SubmitQuery(h, kind, url)
    \/ \E h \in Handler : BadRequest(h) \/ HandlerStep(h) \/ SendResponse(h)
    \/ OracleQueryStep \/ ChainQueryStep \/ MonitorAnswers

\* Each goroutine goes on running.  A full QueryChannel admits the handlers in
\* the order they came.
QueryFairness ==
    /\ \A h \in Handler : SF_queryVars(EnterChannel(h)) /\ WF_queryVars(ReceiveResponse(h))
                          /\ WF_queryVars(SendResponse(h))
    /\ WF_queryVars(OracleQueryStep)
    /\ WF_queryVars(ChainQueryStep)
    /\ WF_queryVars(MonitorAnswers)

QuerySpec == QueryInit /\ [][QueryNext]_queryVars
FairQuerySpec == QuerySpec /\ QueryFairness

-----------------------------------------------------------------------------
\* Where an answer may come from: a query is in one place at a time, in the
\* channel, with the Oracle, with its sender or answered, at most once; the chain
\* and the Monitor only work on the query the Oracle waits for, and an information
\* is left for no other.  One that is nowhere was dropped by a failed read.
QueryIsInOnePlace ==
    \A h \in Handler :
        LET inChannel == {k \in DOMAIN queryChannel : queryChannel[k] = h}
            places == <<inChannel # {}, dbQuery.of = h, h \in sender, response[h] # "empty",
                        h \in silent>>
        IN  /\ handler[h].pc = "wait" => \E k \in DOMAIN places : places[k]
            /\ \A j, k \in DOMAIN places : places[j] /\ places[k] => j = k
            /\ \A j, k \in inChannel : j = k
            /\ chainQuery = h \/ monitorQuery = h \/ info[h] # "empty" =>
                   dbQuery.of = h /\ dbQuery.wait # "read"

\* Whoever asks gets an answer, though one goroutine answers all queries and waits
\* for two others; unless the process ends, or a read failed for the latest
\* information of the chain, whose handler then waits for ever.
EveryQueryIsAnswered ==
    \A h \in Handler :
        handler[h].pc = "submit" ~> (handler[h].pc = "done" \/ ~alive \/ h \in silent)
=============================================================================
