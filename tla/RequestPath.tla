----------------------------- MODULE RequestPath -----------------------------
(***************************************************************************)
(* How one API worker process carries its requests: the middleware stack,  *)
(* the API-key guard, the service's transaction or the streamed body, and  *)
(* the answer, over the one pool of database connections they all share.   *)
(*                                                                         *)
(* A POST may wait inside its transaction for a row that another one has   *)
(* locked, and a streamed export keeps its connection for as long as its   *)
(* client takes to read; this module asks what that does to the others.    *)
(* What the transactions do to the tables is EventIngest, what the guard   *)
(* decides is AuthCache, and what a stream sends is UsageExport.           *)
(***************************************************************************)
EXTENDS Integers

CONSTANTS
    Requests,    \* requests that reach this worker
    Kinds,       \* what they ask for, of {"service", "export", "ready", "live"}
    Connections, \* the connections the pool may open: pool_size + max_overflow
    Nobody       \* the holder of a connection or a row that is free

ASSUME RequestAssumption ==
    /\ Kinds \subseteq {"service", "export", "ready", "live"}
    /\ Nobody \notin Requests

VARIABLES
    kind,    \* what each request asks for
    pc,      \* where it is
    owner,   \* the request that has checked out each connection
    row,     \* the request whose transaction has locked the contended row
    status,  \* the status line sent to the client, or 0
    stamped  \* the requests whose answer passed the middleware that stamps headers

vars == <<kind, pc, owner, row, status, stamped>>

\* A request waits for a connection in the states before the arrows and has
\* one in those after: to look up an API key, for the service's transaction,
\* for an export's pre-flight count and its body, and for the two queries of
\* the readiness probe.
Granted ==
    [lookup |-> "verify", begin |-> "txn", count |-> "counting",
     stream |-> "streaming", ping |-> "pinging", head |-> "heading"]

Waiting == {"lookup", "begin", "count", "stream", "ping", "head"}
InTxn   == {"txn", "rowWait", "locked"}
Using   == InTxn \cup {"verify", "counting", "streaming", "pinging", "heading"}
PCs     == {"idle", "edge", "guard", "throttle", "done"} \cup Waiting \cup Using

\* 200 stands for every answer of success, 201 and 204 too.
Statuses == {0, 200, 400, 401, 403, 404, 413, 422, 429, 500, 503}

Free == {c \in Connections : owner[c] = Nobody}

\* async with: the connection goes back to the pool and the transaction ends
\* with it, whichever way the block is left.
Release(r) ==
    /\ owner' = [c \in Connections |-> IF owner[c] = r THEN Nobody ELSE owner[c]]
    /\ row' = IF row = r THEN Nobody ELSE row

Goto(r, p) == pc' = [pc EXCEPT ![r] = p]

\* An answer that goes out through the whole middleware stack.
Send(r, s) ==
    /\ status' = [status EXCEPT ![r] = s]
    /\ stamped' = stamped \cup {r}

Answer(r, s) == Goto(r, "done") /\ Send(r, s)

\* An exception no handler maps is answered by the outermost layer of the
\* framework, outside RequestContextMiddleware and SecurityHeadersMiddleware.
AnswerUnexpected(r) ==
    /\ Goto(r, "done")
    /\ status' = [status EXCEPT ![r] = 500]
    /\ UNCHANGED stamped

Init ==
    /\ kind = [r \in Requests |-> "live"]
    /\ pc = [r \in Requests |-> "idle"]
    /\ owner = [c \in Connections |-> Nobody]
    /\ row = Nobody
    /\ status = [r \in Requests |-> 0]
    /\ stamped = {}

-----------------------------------------------------------------------------
Receive(r) ==
    /\ pc[r] = "idle"
    /\ Goto(r, "edge")
    /\ \E k \in Kinds : kind' = [kind EXCEPT ![r] = k]
    /\ UNCHANGED <<owner, row, status, stamped>>

\* The body-size guard, then the Tier-1 throttle (which lets everything pass
\* when Redis is unreachable), then the framework's own parsing of the body.
\* The liveness probe is exempt from the throttle and depends on nothing.
Edge(r) ==
    /\ pc[r] = "edge"
    /\ \/ Answer(r, 413)
       \/ /\ kind[r] = "live"
          /\ Answer(r, 200)
       \/ /\ kind[r] # "live"
          /\ Answer(r, 429)
       \/ /\ kind[r] = "service"
          /\ Answer(r, 422)
       \/ /\ kind[r] = "ready"
          /\ Goto(r, "ping")
          /\ UNCHANGED <<status, stamped>>
       \/ /\ kind[r] \in {"service", "export"}
          /\ Goto(r, "guard")
          /\ UNCHANGED <<status, stamped>>
    /\ UNCHANGED <<kind, owner, row>>

\* require_api_key up to the cache: no usable token, a hit, or a miss.
Guard(r) ==
    /\ pc[r] = "guard"
    /\ \/ Answer(r, 401)
       \/ /\ \E p \in {"throttle", "lookup"} : Goto(r, p)
          /\ UNCHANGED <<status, stamped>>
    /\ UNCHANGED <<kind, owner, row>>

CheckOut(r) ==
    /\ pc[r] \in Waiting
    /\ \E c \in Free : owner' = [owner EXCEPT ![c] = r]
    /\ Goto(r, Granted[pc[r]])
    /\ UNCHANGED <<kind, row, status, stamped>>

\* Mutant of Verify: a connection dependency that lives as long as the request.
Verify_KeepsConnection(r) ==
    /\ pc[r] = "verify"
    /\ \/ Answer(r, 401) /\ Release(r)
       \/ Goto(r, "throttle") /\ UNCHANGED <<owner, row, status, stamped>>
    /\ UNCHANGED kind

\* The key is verified and its connection returned before anything else runs.
Verify(r) ==
    /\ pc[r] = "verify"
    /\ Release(r)
    /\ \/ Answer(r, 401)
       \/ Goto(r, "throttle") /\ UNCHANGED <<status, stamped>>
    /\ UNCHANGED kind

\* The Tier-2 throttle, the scope check of the quota routes, the schema, and
\* the date of the daily route, which answers 400 where the others answer 422.
Throttle(r) ==
    /\ pc[r] = "throttle"
    /\ \/ \E s \in {429, 403, 422, 400} :
             /\ s \in {403, 400} => kind[r] = "service"
             /\ Answer(r, s)
       \/ /\ Goto(r, IF kind[r] = "export" THEN "count" ELSE "begin")
          /\ UNCHANGED <<status, stamped>>
    /\ UNCHANGED <<kind, owner, row>>

\* A statement of the transaction needs a row: it waits in the database, with
\* its connection checked out and no timeout of its own.
NeedRow(r) ==
    /\ pc[r] = "txn"
    /\ Goto(r, "rowWait")
    /\ UNCHANGED <<kind, owner, row, status, stamped>>

LockRow(r) ==
    /\ pc[r] = "rowWait"
    /\ row = Nobody
    /\ row' = r
    /\ Goto(r, "locked")
    /\ UNCHANGED <<kind, owner, status, stamped>>

\* Commit, or the rollback of a request that is refused.
EndTxn(r) ==
    /\ pc[r] \in {"txn", "locked"}
    /\ Release(r)
    /\ \E s \in {200, 404, 429} : Answer(r, s)
    /\ UNCHANGED kind

\* The pre-flight of an export ends its own transaction before the answer:
\* over the cap, or the status line and the header row of the stream.
Preflight(r) ==
    /\ pc[r] = "counting"
    /\ Release(r)
    /\ \/ Answer(r, 422)
       \/ Goto(r, "stream") /\ Send(r, 200)
    /\ UNCHANGED kind

\* The client has read the last chunk fetched over the connection.
Streamed(r) ==
    /\ pc[r] = "streaming"
    /\ Release(r)
    /\ Goto(r, "done")
    /\ UNCHANGED <<kind, status, stamped>>

\* SELECT 1, then the migration head over a connection of its own.
Ping(r) ==
    /\ pc[r] = "pinging"
    /\ Release(r)
    /\ Goto(r, "head")
    /\ UNCHANGED <<kind, status, stamped>>

CompareHead(r) ==
    /\ pc[r] = "heading"
    /\ Release(r)
    /\ \E s \in {200, 503} : Answer(r, s)
    /\ UNCHANGED kind

-----------------------------------------------------------------------------
\* Mutant of Fail: an error envelope whether or not a status line is out.
Fail_Always(r) ==
    \/ kind[r] = "ready" /\ Answer(r, 503)
    \/ kind[r] # "ready" /\ AnswerUnexpected(r)

\* What a failure comes to: the probe reports it, a stream whose status line
\* is out just ends, and any other request gets the generic 500.
Fail(r) ==
    \/ /\ kind[r] = "ready"
       /\ Answer(r, 503)
    \/ /\ pc[r] \in {"stream", "streaming"}
       /\ Goto(r, "done")
       /\ UNCHANGED <<status, stamped>>
    \/ /\ kind[r] # "ready"
       /\ pc[r] \notin {"stream", "streaming"}
       /\ AnswerUnexpected(r)

\* Mutants of TimeOut: a pool that lets its callers wait for ever; of Break: a
\* session closed on success only.
TimeOut_Never(r) == FALSE /\ UNCHANGED vars

Break_KeepsConnection(r) ==
    /\ pc[r] \in Waiting \cup Using
    /\ Fail(r)
    /\ UNCHANGED <<kind, owner, row>>

\* No connection has come back in time.
TimeOut(r) ==
    /\ pc[r] \in Waiting
    /\ Free = {}
    /\ Fail(r)
    /\ UNCHANGED <<kind, owner, row>>

\* A connection cannot be opened, a statement fails, or the client of a
\* stream goes away.
Break(r) ==
    /\ pc[r] \in Waiting \cup Using
    /\ Fail(r)
    /\ Release(r)
    /\ UNCHANGED kind

-----------------------------------------------------------------------------
\* What the worker, the pool and the database do by themselves.
Step(r) ==
    \/ Edge(r) \/ Guard(r) \/ CheckOut(r) \/ TimeOut(r) \/ Verify(r)
    \/ Throttle(r) \/ NeedRow(r) \/ LockRow(r) \/ EndTxn(r) \/ Preflight(r)
    \/ Ping(r) \/ CompareHead(r)

Next == \E r \in Requests : Receive(r) \/ Step(r) \/ Streamed(r) \/ Break(r)

\* No fairness for Streamed: a client may stop reading.
Fairness == \A r \in Requests : WF_vars(Step(r))

Spec     == Init /\ [][Next]_vars
FairSpec == Spec /\ Fairness

-----------------------------------------------------------------------------
(***************************************************************************)
(* Properties.                                                             *)
(***************************************************************************)

\* Every variable holds what its request, connection or row can hold.
TypeOK ==
    /\ kind \in [Requests -> {"service", "export", "ready", "live"}]
    /\ pc \in [Requests -> PCs]
    /\ owner \in [Connections -> Requests \cup {Nobody}]
    /\ row \in Requests \cup {Nobody}
    /\ status \in [Requests -> Statuses]
    /\ stamped \subseteq Requests

\* No path loses a connection or takes two: a request has exactly one while
\* it uses the database and none at any other time, after every failure too
\* (scoped_transaction, require_api_key, check_database_ready).
PoolAccounted ==
    /\ \A c \in Connections : owner[c] # Nobody => pc[owner[c]] \in Using
    /\ \A c, d \in Connections : owner[c] = owner[d] /\ owner[c] # Nobody => c = d
    /\ \A r \in Requests : pc[r] \in Using => \E c \in Connections : owner[c] = r

\* Nobody waits for a connection with a connection or a row in hand, and
\* whoever has the row has a connection: requests that fill the pool while
\* they wait for the row never keep its holder from finishing.
NoHoldAndWait ==
    /\ \A r \in Requests : pc[r] \in Waiting =>
          row # r /\ \A c \in Connections : owner[c] # r
    /\ row # Nobody => pc[row] = "locked" /\ \E c \in Connections : owner[c] = row

\* A request ends with exactly one status line: no failure, not even in the
\* middle of a stream, sends a second one, and none passes in silence.
AnsweredOnce ==
    /\ [][ \A r \in Requests : status[r] # 0 => status'[r] = status[r] ]_vars
    /\ [][ \A r \in Requests : pc'[r] = "done" => status'[r] # 0 ]_vars

\* Every request the worker receives gets an answer, whatever fills the pool,
\* exports that nobody reads included: the wait for a connection ends.
EveryRequestAnswered ==
    \A r \in Requests : pc[r] = "edge" ~> status[r] # 0

-----------------------------------------------------------------------------
\* The inductive invariant: only exports stream, the row is held in one state
\* only, a status line is out exactly while an export streams and once a
\* request is done, and which of them were stamped.
Streams ==
    \A r \in Requests :
        pc[r] \in {"count", "counting", "stream", "streaming"} => kind[r] = "export"

RowLocking == \A r \in Requests : row = r <=> pc[r] = "locked"

Answered ==
    \A r \in Requests : status[r] # 0 <=> pc[r] \in {"stream", "streaming", "done"}

\* Every response carries the security headers and X-Request-Id, whatever
\* layer answered, except the generic 500, which is made outside them all
\* (handle_unexpected_error).
Stamped == \A r \in Requests : r \in stamped <=> status[r] \notin {0, 500}

PoolInv == TypeOK /\ PoolAccounted /\ Streams /\ RowLocking /\ Answered /\ Stamped

=============================================================================
