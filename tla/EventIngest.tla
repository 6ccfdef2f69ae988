----------------------------- MODULE EventIngest -----------------------------
(***************************************************************************)
(* The transactional core of Meterly: POST /v1/events, PUT /v1/quotas and  *)
(* DELETE /v1/quotas, run as PostgreSQL transactions at READ COMMITTED by  *)
(* any number of request handlers on any number of API tasks.              *)
(*                                                                         *)
(* An action is one SQL statement, or one commit or rollback, with the     *)
(* Python that runs up to the next await.  The three tables hold committed *)
(* data only; what a transaction has written and not committed is implied  *)
(* by its program counter and by the row locks it holds.  A statement that *)
(* PostgreSQL makes wait for a row is an action that is not enabled (or,   *)
(* where the outcome depends on having waited, the state "waitRow").       *)
(***************************************************************************)
EXTENDS MeterTypes

Unread == -1   \* the request has not looked at the quotas table yet

VARIABLES
    events,     \* table events: committed row of each key, or NoRow
    quotas,     \* table quotas: committed limit of each scope, or NoLimit
    rollup,     \* table usage_rollup: committed total and count of each bucket
    keyLock,    \* the transaction with an uncommitted events row for the key
    quotaLock,  \* the transaction that holds the quotas row of the scope
    rollupLock, \* the transaction that holds the usage_rollup row of the bucket
    pc,         \* where each request is
    req,        \* its payload
    limit,      \* what the statement on the quotas row returned: the limit to a
                \* POST, NoLimit (no row) to a POST or DELETE; else Unread
    counted,    \* the usage_rollup row a POST has written and not committed
    outcome,    \* how each request was answered
    returned    \* the events row in the body of a 201 or 200

tables == <<events, quotas, rollup>>
locks  == <<keyLock, quotaLock, rollupLock>>
vars   == <<events, quotas, rollup, keyLock, quotaLock, rollupLock,
            pc, req, limit, counted, outcome, returned>>

PCs == {"idle", "begin", "conflict", "inserted", "waitRow", "noRow", "locked",
        "admitted", "rejected", "counted", "putInserted", "putReplaced",
        "removed", "done"}

Outcomes == {"none", "created", "replayed", "rejected", "raceError", "failed",
             "quotaCreated", "quotaReplaced", "quotaRemoved", "quotaMissing"}

KeyOf(r)    == KeyIn(req[r])
ScopeOf(r)  == ScopeIn(req[r])
BucketOf(r) == BucketIn(req[r])
RowOf(r)    == RowIn(r, req[r])

-----------------------------------------------------------------------------
(***************************************************************************)
(* Row locks.                                                              *)
(***************************************************************************)

Free(lock, x) == lock[x] = Nobody

Take(lock, x, r) == [lock EXCEPT ![x] = r]

Released(lock, r) == [x \in DOMAIN lock |-> IF lock[x] = r THEN Nobody ELSE lock[x]]

\* The end of a transaction: its row locks go, and the client has its answer.
ReleaseLocks(r) ==
    /\ keyLock'    = Released(keyLock, r)
    /\ quotaLock'  = Released(quotaLock, r)
    /\ rollupLock' = Released(rollupLock, r)

Answer(r, o) == outcome' = [outcome EXCEPT ![r] = o]

Transition(r, from, to) ==
    /\ pc[r] = from
    /\ pc' = [pc EXCEPT ![r] = to]

-----------------------------------------------------------------------------
(***************************************************************************)
(* Initially the tables are migrated and hold no usage; some quotas stand. *)
(***************************************************************************)

Init ==
    /\ events = [k \in EventKey |-> NoRow]
    /\ quotas \in [Scope -> InitialLimits]
    /\ rollup = [b \in Bucket |-> NoUsage]
    /\ keyLock = [k \in EventKey |-> Nobody]
    /\ quotaLock = [s \in Scope |-> Nobody]
    /\ rollupLock = [b \in Bucket |-> Nobody]
    /\ pc = [r \in Requests |-> "idle"]
    /\ req = [r \in Requests |-> NoRow]
    /\ limit = [r \in Requests |-> Unread]
    /\ counted = [r \in Requests |-> NoUsage]
    /\ outcome = [r \in Requests |-> "none"]
    /\ returned = [r \in Requests |-> NoRow]

\* A request reaches its service function and opens its transaction.  The
\* window of a POST is fixed here, from the task's own clock, and is not
\* looked at again however long the transaction waits.
Receive(r) ==
    /\ Transition(r, "idle", "begin")
    /\ \E p \in Payload :
          /\ p.op \in Ops
          /\ req' = [req EXCEPT ![r] = p]
    /\ UNCHANGED <<tables, locks, limit, counted, outcome, returned>>

-----------------------------------------------------------------------------
(***************************************************************************)
(* POST /v1/events.                                                        *)
(***************************************************************************)

\* Mutants of Duplicate: a conflict reported against a row that is not
\* committed yet; ON CONFLICT DO UPDATE, which never reports one.
Duplicate_Uncommitted(k) == events[k] # NoRow \/ keyLock[k] # Nobody
Duplicate_Never(k) == FALSE

\* The conflict on uq_events_api_key_idempotency_key: a committed row.
Duplicate(k) == events[k] # NoRow

\* Mutant of MayInsert: look before inserting, with no unique constraint.
MayInsert_NoConstraint(k) == TRUE

\* The insert waits while another transaction's row with its key is uncommitted.
MayInsert(k) == Free(keyLock, k)

\* INSERT ... ON CONFLICT DO NOTHING RETURNING.
InsertEventIfNew(r) ==
    /\ pc[r] = "begin"
    /\ req[r].op = "post"
    /\ \/ /\ ~Duplicate(KeyOf(r))
          /\ MayInsert(KeyOf(r))
          /\ keyLock' = Take(keyLock, KeyOf(r), r)
          /\ pc' = [pc EXCEPT ![r] = "inserted"]
       \/ /\ Duplicate(KeyOf(r))
          /\ pc' = [pc EXCEPT ![r] = "conflict"]
          /\ UNCHANGED keyLock
    /\ UNCHANGED <<tables, quotaLock, rollupLock, req, limit, counted, outcome, returned>>

\* Mutant of Original: the replay echoes the duplicate's own payload.
Original_Echo(r) == RowOf(r)

Original(r) == events[KeyOf(r)]

\* The duplicate's answer is the original row, whatever the duplicate's own
\* payload and window; not finding it is IdempotencyRaceError, a 500.
FindEventByIdempotencyKey(r) ==
    /\ Transition(r, "conflict", "done")
    /\ returned' = [returned EXCEPT ![r] = Original(r)]
    /\ Answer(r, IF Original(r) = NoRow THEN "raceError" ELSE "replayed")
    /\ ReleaseLocks(r)
    /\ UNCHANGED <<tables, req, limit, counted>>

\* Mutant of LockForUpdate: the SELECT without FOR UPDATE.
LockForUpdate_Dropped(s, r) == UNCHANGED quotaLock

LockForUpdate(s, r) == quotaLock' = Take(quotaLock, s, r)

\* SELECT limit_per_window ... FOR UPDATE.  The statement sees committed rows
\* only: no row means no lock and no limit, even while a PUT is inserting one.
LockQuotaRow(r) ==
    /\ pc[r] = "inserted"
    /\ req[r].op = "post"
    /\ LET s == ScopeOf(r) IN
       \/ /\ quotas[s] = NoLimit
          /\ limit' = [limit EXCEPT ![r] = NoLimit]
          /\ pc' = [pc EXCEPT ![r] = "noRow"]
          /\ UNCHANGED quotaLock
       \/ /\ quotas[s] # NoLimit
          /\ Free(quotaLock, s)
          /\ LockForUpdate(s, r)
          /\ limit' = [limit EXCEPT ![r] = quotas[s]]
          /\ pc' = [pc EXCEPT ![r] = "locked"]
       \/ /\ quotas[s] # NoLimit
          /\ ~Free(quotaLock, s)
          /\ pc' = [pc EXCEPT ![r] = "waitRow"]
          /\ UNCHANGED <<quotaLock, limit>>
    /\ UNCHANGED <<tables, keyLock, rollupLock, req, counted, outcome, returned>>

\* The wait for the row ends with the row still there: PostgreSQL re-reads
\* it, so a limit replaced in the meantime is the one that counts.
WakeWithQuotaRow(r) ==
    /\ Transition(r, "waitRow", "locked")
    /\ req[r].op = "post"
    /\ Free(quotaLock, ScopeOf(r))
    /\ LockForUpdate(ScopeOf(r), r)
    /\ limit' = [limit EXCEPT ![r] = quotas[ScopeOf(r)]]
    /\ UNCHANGED <<tables, keyLock, rollupLock, req, counted, outcome, returned>>

\* Mutants of Exceeds: the quantity left out of the comparison; a quota that
\* cannot be used up.
Exceeds_TotalOnly(total, qty, lim) == total > lim
Exceeds_AtLimit(total, qty, lim) == total + qty >= lim

Exceeds(total, qty, lim) == total + qty > lim

\* Mutant of CheckQuota: the check in a transaction of its own, whose end
\* gives the row lock back before the increment.
CheckQuota_OwnTransaction(r) ==
    /\ pc[r] = "locked"
    /\ pc' = [pc EXCEPT ![r] =
                 IF Exceeds(rollup[BucketOf(r)].total, req[r].qty, limit[r])
                 THEN "rejected" ELSE "admitted"]
    /\ quotaLock' = Released(quotaLock, r)
    /\ UNCHANGED <<tables, keyLock, rollupLock, req, limit, counted, outcome, returned>>

\* The second statement, with a snapshot of its own, and the decision.
CheckQuota(r) ==
    /\ pc[r] = "locked"
    /\ pc' = [pc EXCEPT ![r] =
                 IF Exceeds(rollup[BucketOf(r)].total, req[r].qty, limit[r])
                 THEN "rejected" ELSE "admitted"]
    /\ UNCHANGED <<tables, locks, req, limit, counted, outcome, returned>>

\* Mutants of RejectEvent: the exception is caught inside the transaction,
\* which then commits; the transaction is never ended.
RejectEvent_Commits(r) ==
    /\ Transition(r, "rejected", "done")
    /\ events' = [events EXCEPT ![KeyOf(r)] = RowOf(r)]
    /\ Answer(r, "rejected")
    /\ ReleaseLocks(r)
    /\ UNCHANGED <<quotas, rollup, req, limit, counted, returned>>

RejectEvent_LeftOpen(r) ==
    /\ Transition(r, "rejected", "done")
    /\ Answer(r, "rejected")
    /\ UNCHANGED <<tables, locks, req, limit, counted, returned>>

\* QuotaExceededError leaves scoped_transaction: rollback, then the 429.
RejectEvent(r) ==
    /\ Transition(r, "rejected", "done")
    /\ Answer(r, "rejected")
    /\ ReleaseLocks(r)
    /\ UNCHANGED <<tables, req, limit, counted, returned>>

Incremented(u, qty) == [total |-> u.total + qty, count |-> u.count + 1]

\* Mutant of MayCount: the total read first and written back, unlocked.
MayCount_ReadThenWrite(b) == TRUE

MayCount(b) == Free(rollupLock, b)

\* Mutant of IncrementUsageRollup: a POST that found no quota looks again
\* once it has counted.
IncrementUsageRollup_ThenLookAgain(r) ==
    /\ pc[r] \in {"admitted", "noRow"}
    /\ req[r].op = "post"
    /\ MayCount(BucketOf(r)) \/ rollupLock[BucketOf(r)] = r
    /\ rollupLock' = Take(rollupLock, BucketOf(r), r)
    /\ counted' = [counted EXCEPT ![r] = Incremented(rollup[BucketOf(r)], req[r].qty)]
    /\ pc' = [pc EXCEPT ![r] =
                 IF pc[r] = "noRow" /\ MayCount(BucketOf(r)) THEN "inserted" ELSE "counted"]
    /\ UNCHANGED <<tables, keyLock, quotaLock, req, limit, outcome, returned>>

\* The upsert waits for the bucket's row, then adds to what is committed.
IncrementUsageRollup(r) ==
    /\ pc[r] \in {"admitted", "noRow"}
    /\ req[r].op = "post"
    /\ MayCount(BucketOf(r))
    /\ rollupLock' = Take(rollupLock, BucketOf(r), r)
    /\ counted' = [counted EXCEPT ![r] = Incremented(rollup[BucketOf(r)], req[r].qty)]
    /\ pc' = [pc EXCEPT ![r] = "counted"]
    /\ UNCHANGED <<tables, keyLock, quotaLock, req, limit, outcome, returned>>

\* COMMIT.  The acknowledgement may be lost on the way back: the event is
\* then recorded and the client sees a 500, like any failed request.
CommitEvent(r) ==
    /\ Transition(r, "counted", "done")
    /\ events' = [events EXCEPT ![KeyOf(r)] = RowOf(r)]
    /\ rollup' = [rollup EXCEPT ![BucketOf(r)] = counted[r]]
    /\ \/ /\ Answer(r, "created")
          /\ returned' = [returned EXCEPT ![r] = RowOf(r)]
       \/ /\ Answer(r, "failed")
          /\ UNCHANGED returned
    /\ ReleaseLocks(r)
    /\ UNCHANGED <<quotas, req, limit, counted>>

-----------------------------------------------------------------------------
(***************************************************************************)
(* PUT and DELETE /v1/quotas.                                              *)
(***************************************************************************)

\* Mutant of MayUpsert: a read, then an insert or an update, unlocked.
MayUpsert_ReadThenWrite(s) == TRUE

MayUpsert(s) == Free(quotaLock, s)

\* INSERT ... ON CONFLICT DO UPDATE RETURNING (xmax = 0) waits for whoever
\* holds the row, an uncommitted insert included, and reports what it found.
UpsertQuota(r) ==
    /\ pc[r] = "begin"
    /\ req[r].op = "put"
    /\ MayUpsert(ScopeOf(r))
    /\ quotaLock' = Take(quotaLock, ScopeOf(r), r)
    /\ pc' = [pc EXCEPT ![r] =
                 IF quotas[ScopeOf(r)] = NoLimit THEN "putInserted" ELSE "putReplaced"]
    /\ UNCHANGED <<tables, keyLock, rollupLock, req, limit, counted, outcome, returned>>

CommitUpsert(r) ==
    /\ pc[r] \in {"putInserted", "putReplaced"}
    /\ pc' = [pc EXCEPT ![r] = "done"]
    /\ quotas' = [quotas EXCEPT ![ScopeOf(r)] = req[r].limit]
    /\ \/ Answer(r, IF pc[r] = "putInserted" THEN "quotaCreated" ELSE "quotaReplaced")
       \/ Answer(r, "failed")
    /\ ReleaseLocks(r)
    /\ UNCHANGED <<events, rollup, req, limit, counted, returned>>

\* DELETE ... RETURNING: no committed row, no wait.
DeleteQuota(r) ==
    /\ pc[r] = "begin"
    /\ req[r].op = "delete"
    /\ LET s == ScopeOf(r) IN
       \/ /\ quotas[s] = NoLimit
          /\ limit' = [limit EXCEPT ![r] = NoLimit]
          /\ pc' = [pc EXCEPT ![r] = "noRow"]
          /\ UNCHANGED quotaLock
       \/ /\ quotas[s] # NoLimit
          /\ Free(quotaLock, s)
          /\ quotaLock' = Take(quotaLock, s, r)
          /\ pc' = [pc EXCEPT ![r] = "removed"]
          /\ UNCHANGED limit
       \/ /\ quotas[s] # NoLimit
          /\ ~Free(quotaLock, s)
          /\ pc' = [pc EXCEPT ![r] = "waitRow"]
          /\ UNCHANGED <<quotaLock, limit>>
    /\ UNCHANGED <<tables, keyLock, rollupLock, req, counted, outcome, returned>>

WakeDelete(r) ==
    /\ Transition(r, "waitRow", "removed")
    /\ req[r].op = "delete"
    /\ Free(quotaLock, ScopeOf(r))
    /\ quotaLock' = Take(quotaLock, ScopeOf(r), r)
    /\ UNCHANGED <<tables, keyLock, rollupLock, req, limit, counted, outcome, returned>>

\* The requests that wait for the quotas row of scope s.
Waiters(s) == {w \in Requests : pc[w] = "waitRow" /\ ScopeOf(w) = s}

\* Once the row is gone, every statement that waited for it returns no row,
\* even if a PUT inserts another before the waiter runs again.
CommitDelete(r) ==
    /\ pc[r] = "removed"
    /\ quotas' = [quotas EXCEPT ![ScopeOf(r)] = NoLimit]
    /\ pc' = [w \in Requests |->
                 IF w = r THEN "done"
                 ELSE IF w \in Waiters(ScopeOf(r)) THEN "noRow" ELSE pc[w]]
    /\ limit' = [w \in Requests |->
                    IF w \in Waiters(ScopeOf(r)) THEN NoLimit ELSE limit[w]]
    /\ \/ Answer(r, "quotaRemoved")
       \/ Answer(r, "failed")
    /\ ReleaseLocks(r)
    /\ UNCHANGED <<events, rollup, req, counted, returned>>

AnswerMissing(r) ==
    /\ Transition(r, "noRow", "done")
    /\ req[r].op = "delete"
    /\ Answer(r, "quotaMissing")
    /\ ReleaseLocks(r)
    /\ UNCHANGED <<tables, req, limit, counted, returned>>

-----------------------------------------------------------------------------
\* A statement or the connection fails, the handler is cancelled, or the task
\* or the database crashes before the commit: PostgreSQL rolls back, and the
\* client gets a 500 or nothing at all.
Abort(r) ==
    /\ pc[r] \notin {"idle", "done"}
    /\ pc' = [pc EXCEPT ![r] = "done"]
    /\ Answer(r, "failed")
    /\ ReleaseLocks(r)
    /\ UNCHANGED <<tables, req, limit, counted, returned>>

Post(r) ==
    \/ InsertEventIfNew(r)
    \/ FindEventByIdempotencyKey(r)
    \/ LockQuotaRow(r)
    \/ WakeWithQuotaRow(r)
    \/ CheckQuota(r)
    \/ RejectEvent(r)
    \/ IncrementUsageRollup(r)
    \/ CommitEvent(r)

ManageQuota(r) ==
    \/ UpsertQuota(r)
    \/ CommitUpsert(r)
    \/ DeleteQuota(r)
    \/ WakeDelete(r)
    \/ CommitDelete(r)
    \/ AnswerMissing(r)

Step(r) == Post(r) \/ ManageQuota(r)

Next == \E r \in Requests : Receive(r) \/ Step(r) \/ Abort(r)

\* A statement PostgreSQL has been given is executed once nothing blocks it,
\* and the event loop resumes the handler that awaited it.
Fairness == \A r \in Requests : WF_vars(Step(r))

Spec     == Init /\ [][Next]_vars
FairSpec == Spec /\ Fairness

-----------------------------------------------------------------------------
(***************************************************************************)
(* Properties.                                                             *)
(***************************************************************************)

\* Every variable holds what its table, lock or handler can hold.
TypeOK ==
    /\ events \in [EventKey -> EventRow \cup {NoRow}]
    /\ quotas \in [Scope -> Limits \cup {NoLimit}]
    /\ rollup \in [Bucket -> Usage]
    /\ keyLock \in [EventKey -> Requests \cup {Nobody}]
    /\ quotaLock \in [Scope -> Requests \cup {Nobody}]
    /\ rollupLock \in [Bucket -> Requests \cup {Nobody}]
    /\ pc \in [Requests -> PCs]
    /\ req \in [Requests -> Payload \cup {NoRow}]
    /\ limit \in [Requests -> Limits \cup {NoLimit, Unread}]
    /\ counted \in [Requests -> Usage]
    /\ outcome \in [Requests -> Outcomes]
    /\ returned \in [Requests -> EventRow \cup {NoRow}]

\* The keys of the events committed in bucket b.
EventsIn(b) ==
    {k \in EventKey : /\ events[k] # NoRow
                      /\ k[1] = b[1]
                      /\ events[k].meter = b[2]
                      /\ events[k].win = b[3]}

\* The sum of the quantities of the events with keys in K, counted unit by unit.
QuantityOf(K) ==
    Cardinality({u \in K \X Quantities : u[2] <= events[u[1]].qty})

\* The rollup a customer is billed from is exactly the sum and the number of
\* the bucket's committed events, at every moment and after any crash: the
\* event and the increment commit together, and no increment is lost to a
\* concurrent one (increment_usage_rollup after insert_event_if_new).
RollupMatchesEvents ==
    \A b \in Bucket : /\ rollup[b].total = QuantityOf(EventsIn(b))
                      /\ rollup[b].count = Cardinality(EventsIn(b))

\* However many requests carry one idempotency key, a 201 names the event
\* that stands under the key and is the caller's own, and a 200 names the
\* event another request of the same tenant created (create_event).
Idempotent ==
    \A r \in Requests :
        /\ outcome[r] = "created" =>
              /\ returned[r] = events[KeyOf(r)]
              /\ returned[r] = RowOf(r)
        /\ outcome[r] = "replayed" =>
              /\ returned[r] = events[KeyOf(r)]
              /\ returned[r] # NoRow
              /\ returned[r].id # r
              /\ req[returned[r].id].tenant = req[r].tenant

\* The IdempotencyRaceError branch of create_event is unreachable: an insert
\* that reports a conflict finds the conflicting row, because it waited for
\* the other transaction's commit and its SELECT has a new snapshot.
NoIdempotencyRace == \A r \in Requests : outcome[r] # "raceError"

\* Every event on record comes from one request that reached its commit, and
\* carries that request's key, meter, window and quantity.  A quota rejection
\* or a rollback therefore leaves no event and does not use up the key.
LedgerFaithful ==
    \A k \in EventKey : events[k] # NoRow =>
        LET a == events[k].id IN
        /\ pc[a] = "done"
        /\ outcome[a] \in {"created", "failed"}
        /\ req[a].op = "post"
        /\ KeyOf(a) = k
        /\ events[k] = RowOf(a)

\* The events of bucket b admitted by a check against a limit.
CheckedIn(b) == {k \in EventsIn(b) : limit[events[k].id] # NoLimit}

\* From the check to the commit of a POST that found a quota, its decision
\* stays right as far as checked POSTs go: the limit it read is still the
\* one in force, and with the checked events already committed it does not
\* pass that limit (the FOR UPDATE lock of read_tenant_quota_state_locked is
\* held to the commit).
CheckedWithinLimit ==
    \A r \in Requests :
        /\ pc[r] \in {"admitted", "counted"}
        /\ limit[r] # NoLimit
        => /\ limit[r] = quotas[ScopeOf(r)]
           /\ QuantityOf(CheckedIn(BucketOf(r))) + req[r].qty <= limit[r]

\* A 429 is never wrong by the time it is sent: the limit is still in force
\* and the bucket still has no room for the quantity asked for (create_event,
\* QuotaExceededError).
RejectionJustified ==
    \A r \in Requests :
        pc[r] = "rejected" =>
            /\ limit[r] = quotas[ScopeOf(r)]
            /\ rollup[BucketOf(r)].total + req[r].qty > limit[r]

\* What a quota statement reported with RETURNING is still so when its
\* transaction commits: "inserted" has no row to replace, "replaced" and
\* "removed" have one (upsert_quota's xmax = 0, delete_quota).
QuotaReportsHold ==
    \A r \in Requests :
        /\ pc[r] = "putInserted" => quotas[ScopeOf(r)] = NoLimit
        /\ pc[r] \in {"putReplaced", "removed"} => quotas[ScopeOf(r)] # NoLimit

\* Request r has sent a statement that waits for a row another transaction
\* holds: an insert with that transaction's key, a statement on its quotas
\* row, an increment of its bucket.
WaitsFor(r, holder) ==
    /\ holder # r
    /\ \/ /\ pc[r] = "begin" /\ req[r].op = "post"
          /\ ~Duplicate(KeyOf(r))
          /\ keyLock[KeyOf(r)] = holder
       \/ /\ pc[r] = "waitRow" \/ (pc[r] = "begin" /\ req[r].op = "put")
          /\ quotaLock[ScopeOf(r)] = holder
       \/ /\ pc[r] \in {"admitted", "noRow"} /\ req[r].op = "post"
          /\ rollupLock[BucketOf(r)] = holder

\* PostgreSQL never has a deadlock to break: no requests wait for each other
\* in a circle, because every transaction takes its rows in the order event
\* key, quotas row, usage_rollup row (create_event, upsert_quota,
\* delete_quota).
NoCircularWait ==
    \A W \in SUBSET Requests :
        W # {} => \E r \in W : \A holder \in W : ~WaitsFor(r, holder)

\* The ledger is append-only and usage never goes down: no step changes or
\* removes a committed event, or lowers a bucket's total or count.
AppendOnly ==
    [][ /\ \A k \in EventKey : events[k] # NoRow => events'[k] = events[k]
        /\ \A b \in Bucket : /\ rollup'[b].total >= rollup[b].total
                             /\ rollup'[b].count >= rollup[b].count ]_vars

\* Request r commits an increment that was checked against a limit.
CommitsChecked(r) ==
    /\ pc[r] = "counted" /\ pc'[r] = "done"
    /\ limit[r] # NoLimit
    /\ rollup' # rollup

\* Strict enforcement, "usage can never exceed L": whenever a POST that was
\* checked against a limit commits its increment, the bucket's total is
\* within that limit.
StrictEnforcement ==
    [][ \A r \in Requests :
            CommitsChecked(r) => rollup'[BucketOf(r)].total <= limit[r] ]_vars

\* A PUT has created the quota of scope s, or may have: one that got no answer.
MayBeIntroduced(s) ==
    \E p \in Requests :
        /\ req[p] \in PutPayload /\ ScopeOf(p) = s
        /\ outcome[p] \in {"quotaCreated", "failed"}

\* What does hold: a checked POST can pass its limit only where a PUT has
\* created a quota meanwhile.  Quotas that are replaced, and deleted under
\* POSTs that wait for them, let nothing through: a POST that found no quota
\* never slips past one that holds it.
EnforcedUntilIntroduced ==
    [][ \A r \in Requests :
            CommitsChecked(r) => \/ rollup'[BucketOf(r)].total <= limit[r]
                                \/ MayBeIntroduced(ScopeOf(r)) ]_vars

\* Every request that opens a transaction is answered: row locks are taken
\* in the order event key, quota row, rollup row, so that no set of requests
\* waits for each other forever.
EveryRequestAnswered ==
    \A r \in Requests : pc[r] = "begin" ~> pc[r] = "done"

\* Seen from outside, all of this is a ledger with atomic operations: a POST
\* takes effect when it commits, is answered from the ledger, or is rejected,
\* and a quota change when it commits (create_event, upsert_quota,
\* delete_quota; MeterLedger says what each may do).
Ledger == INSTANCE MeterLedger WITH
    ledger     <- events,
    usage      <- rollup,
    asked      <- req,
    sawNoQuota <- {r \in Requests : limit[r] = NoLimit},
    answer     <- outcome,
    body       <- returned

ImplementsLedger == Ledger!Spec

\* What the reads rely on: usage_rollup only changes when a commit adds the
\* quantity of one event to the total of one row, and one to its count
\* (increment_usage_rollup; UsageExport and UsageReads assume no more).
Totals == INSTANCE UsageTable WITH
    Rows    <- Bucket,
    Amounts <- Quantities,
    usage   <- [b \in Bucket |-> rollup[b].total]

Counts == INSTANCE UsageTable WITH
    Rows    <- Bucket,
    Amounts <- {1},
    usage   <- [b \in Bucket |-> rollup[b].count]

ImplementsTable == Totals!Spec /\ Counts!Spec

-----------------------------------------------------------------------------
(***************************************************************************)
(* The inductive invariant behind the safety properties.                   *)
(***************************************************************************)

\* Each state of a handler belongs to one kind of request, says what the
\* quota statement returned, and only the last one is answered.  A statement
\* waits for a quotas row only while the row is there.
Control ==
    \A r \in Requests :
        /\ pc[r] = "idle" => req[r] = NoRow
        /\ pc[r] # "idle" => req[r] \in Payload
        /\ pc[r] \in {"conflict", "inserted", "locked", "admitted", "rejected", "counted"}
              => req[r] \in PostPayload
        /\ pc[r] \in {"putInserted", "putReplaced"} => req[r] \in PutPayload
        /\ pc[r] = "removed" => req[r] \in DeletePayload
        /\ pc[r] \in {"waitRow", "noRow"} => req[r] \in PostPayload \cup DeletePayload
        /\ pc[r] = "done" <=> outcome[r] # "none"
        /\ outcome[r] \in {"created", "replayed"} => req[r] \in PostPayload
        /\ pc[r] \in {"idle", "begin", "conflict", "inserted", "waitRow", "removed"}
              => limit[r] = Unread
        /\ pc[r] \in {"locked", "admitted", "rejected"} => limit[r] \in Limits
        /\ pc[r] = "waitRow" => quotas[ScopeOf(r)] # NoLimit
        /\ pc[r] = "noRow" => limit[r] = NoLimit
        /\ pc[r] = "counted" => limit[r] \in Limits \cup {NoLimit}

HoldsKey(r) ==
    /\ pc[r] \in {"inserted", "waitRow", "noRow", "locked", "admitted", "rejected", "counted"}
    /\ req[r].op = "post"

HoldsQuota(r) ==
    \/ pc[r] \in {"locked", "admitted", "rejected", "putInserted", "putReplaced", "removed"}
    \/ pc[r] = "counted" /\ limit[r] # NoLimit

HoldsBucket(r) == pc[r] = "counted"

\* A row lock is held by exactly the transaction whose state says it holds
\* the row: two transactions are never past the same row at once.
KeyLocking ==
    \A k \in EventKey, r \in Requests : keyLock[k] = r <=> HoldsKey(r) /\ KeyOf(r) = k

QuotaLocking ==
    \A s \in Scope, r \in Requests : quotaLock[s] = r <=> HoldsQuota(r) /\ ScopeOf(r) = s

BucketLocking ==
    \A b \in Bucket, r \in Requests : rollupLock[b] = r <=> HoldsBucket(r) /\ BucketOf(r) = b

Locking == KeyLocking /\ QuotaLocking /\ BucketLocking

\* What a transaction has seen of a row it has locked, or of an event that
\* cannot go away, is still so.
KeyStable ==
    \A r \in Requests :
        /\ HoldsKey(r) => events[KeyOf(r)] = NoRow
        /\ pc[r] = "conflict" => events[KeyOf(r)] # NoRow

BucketStable ==
    \A r \in Requests : HoldsBucket(r) =>
        counted[r] = Incremented(rollup[BucketOf(r)], req[r].qty)

QuotaStable ==
    \A r \in Requests :
        HoldsQuota(r) /\ req[r].op = "post" => limit[r] = quotas[ScopeOf(r)]

Stable == KeyStable /\ BucketStable /\ QuotaStable /\ QuotaReportsHold

IndInv ==
    /\ TypeOK
    /\ Control
    /\ Locking
    /\ Stable
    /\ LedgerFaithful
    /\ Idempotent
    /\ NoIdempotencyRace
    /\ RollupMatchesEvents
    /\ CheckedWithinLimit
    /\ RejectionJustified

=============================================================================
