# Meterly: a TLA+ specification

Meterly is a metering API. Clients record usage events; the server keeps an
hourly usage total per (tenant, customer, metric); administrators cap those
totals with quotas; clients read the totals back, also as a streamed CSV. It
runs as several identical API tasks behind a load balancer, each with four
worker processes, over one PostgreSQL database and one Redis replication group.

This directory specifies the parts of it that are hard to test, checks them
with TLC on small instances, and proves the central results with TLAPS for every
value of the constants.

## The system

### Components, their state and operations

| Component (source) | State | Operations | Modelled in |
|---|---|---|---|
| Event ingest (`services/events_service.py`, `repositories/events_repo.py`) | tables `events`, `usage_rollup`; row locks | POST /v1/events: insert, find by key, lock and check quota, increment, commit | `EventIngest` |
| Quota writes (`services/quota_service.py`, `repositories/quotas_repo.py`) | table `quotas`; row locks | PUT (upsert), DELETE; GET reads | `EventIngest` |
| Rate limiter (`auth/rate_limit.py`, `api/middleware.py`) | one Redis hash per bucket, with expiry | `check`: clock, Lua script, decision; fail-open | `TokenBucket` |
| Usage export (`services/usage_export_service.py`, `repositories/usage_repo.py`) | a cursor, a batch, a buffer, the audit event | count, refuse, stream, flush, log | `UsageExport` |
| Authentication (`auth/__init__.py`, `auth/api_key.py`, `repositories/api_keys_repo.py`) | table `api_keys`; a verification cache per worker process | hit, miss, verify, put; expiry | `AuthCache` |
| Request pipeline (`main.py`, `api/middleware.py`, `api/errors.py`, `db/session.py`, `logging/middleware.py`) | a connection pool per worker process (10 + 5) | every way from receipt to answer | `RequestPath` |
| Health (`api/routes/health.py`, `db/session.py`) | none of its own; two pooled connections | liveness, readiness | `RequestPath`, `ServiceTasks` |
| Usage reads (`services/usage_service.py`, `usage_daily_service.py`, `schemas/usage*.py`) | none | one SELECT each, by hour, day or range | `UsageReads` |
| Time windows (`services/time_windows.py`) | none | floor to the UTC hour, day bounds, Retry-After | `UsageReads` |
| Configuration and secrets (`config/secrets.py`, `db/session.py`) | per process: a cache with a time-to-live; the engine, made once | fetch, fall back, reuse | `ServiceTasks` |
| Delivery (`.github/workflows/deploy.yml`, `infra/`) | listener weights, task definitions and running tasks of blue and green, snapshot | stage, snapshot, migrate, canary, revert | `Rollout`, `ServiceTasks` |
| Schema and migrations (`alembic/`) | `alembic_version`; the tables' keys | upgrade to head | `Rollout`, `MeterTypes` (partly) |
| Cryptography, logging, observability, CSV text, key provisioning, CI scripts | none another part reads | - | not modelled |

PROJECT.json lists them all with their files and the reason for what is left out.

### How they interact

A request passes the middleware (body size, Tier-1 throttle per address), the
API-key guard (cache, else a database connection of its own), the Tier-2
throttle (per key), the schema, and then one service function in one
transaction. Components meet in four places: the rows of PostgreSQL, locked and
waited for by transactions; the Redis bucket, read and written by an atomic
script, but with a time each caller read earlier; the verification cache, one
per process, which no other process and no operator can invalidate; and the
connection pool of each process, shared by everything that process is doing.
The export reads `usage_rollup` while events are being counted into it. Around
them, the deployment workflow migrates the one schema that every image's
readiness probe compares with its own, and moves the listener's weights between
two target groups whose tasks hold a database credential of their own.

### What is hard, and what makes each part correct

- **Ingest and quotas.** Statements of many transactions interleave at READ
  COMMITTED; each locks up to three rows; a commit may succeed and its
  acknowledgement be lost. Correct means: usage is exactly the sum of the
  recorded events; a key records one event; a quota decision is right when it
  takes effect; no deadlock.
- **Rate limiter.** The clock is read before an await; requests overtake each
  other, clocks disagree, buckets expire, a primary is replaced by a lagging
  replica; a Redis that fails lets requests through. Correct means: a bound on
  the requests let through in every window of time; a wait that suffices.
- **Export.** It is counted in one transaction and read in another, and it can
  fail after the 200 is out. Correct means: a prefix in order at every moment,
  never over the cap, and an audit event that does not overstate.
- **Authentication.** A row is read, and cached an await later, while it may be
  changed or revoked. Correct means: a bound on how stale an admission can be.
- **Request path.** Transactions wait for rows, and streams for clients, with a
  connection in hand. Correct means: no connection lost, no hold-and-wait,
  exactly one answer, and an answer for every request.
- **Reads and hours.** An event belongs to the hour of its receipt on one task's
  clock, commits later, and is read on another's. Correct means: every read
  counts what was received in what it asks for, an hour becomes final, a client
  told to wait waits long enough.
- **Rotation and deployment.** An engine outlives the secret it was made with;
  any command of the workflow may fail, with or without its effect, and the job
  may be cut off anywhere or be run again alone. Correct means: no task runs ahead
  of its schema, green gains traffic step by step on a proved image that fits,
  weights are never left half-way by a revert that worked, and a rotation heals
  without a deployment.

The hazards, each at its line and with the properties that catch it, are in
PROJECT.json; one of them has no property, with the reason.

## Modules

- `MeterTypes`: payloads and table keys, the constants they are made of and
  their assumptions. Quantities are whole numbers of the smallest unit of
  `NUMERIC(20, 6)`. A (customer, metric) pair is one value, a *meter*.
- `EventIngest`: the transactions of POST /v1/events, PUT and DELETE /v1/quotas.
  An action is one SQL statement, or one COMMIT or ROLLBACK, with the Python up
  to the next await. The tables hold committed data; uncommitted writes are
  implied by a request's `pc` and the row locks `keyLock`, `quotaLock`,
  `rollupLock`. A statement PostgreSQL makes wait is an action that is not
  enabled, or the state `waitRow` where the result depends on having waited (a
  row that was replaced is read again, a row that was deleted is no row). `Abort`
  is any failure before the commit: exception, cancellation, crash.
- `MeterLedger`: what those endpoints promise, without transactions, locks or
  waits: create, replay, reject, set, remove and report a quota, each in one
  step. `EventIngest` instantiates it as `Ledger`; the refinement mapping is
  near the end of that module, where `WaitsFor` also says which transaction
  waits for which.
- `UsageTable`: `usage_rollup` as its readers see it, rows that are added to one
  at a time. `EventIngest` implements it twice, with the totals and with the counts
  of its rows; `UsageExport` and `UsageReads` take their commits from it.
- `TokenBucket`: one bucket, its replica, and handlers between reading the
  clock, running the script and receiving the decision, or failing open instead.
  A tick is a millisecond; tokens are counted in fractions so that a tick refills
  a whole number of them. Both throttle tiers are this module with other
  constants. The history variables count what happened since `opened`;
  `OpenWindow` starts that count afresh at any moment, so that a bound on it is
  a bound for every window of time. `promised` is the earliest time at which a
  client refused since the last token was taken may come back.
- `UsageExport`: one export's count, cursor, batches, chunks and audit event,
  while commits of POST /v1/events add to rows; the client may leave and the
  database may fail wherever the generator waits. `sent` is what the generator has
  yielded, which need not have left the middleware.
- `ExportContract`: what the endpoint promises, without counts, cursors, batches
  or buffers: a 422 or a 200 that is right, a picture of the usage of one moment
  up to the cap, sent in pieces, and one audit event. `UsageExport` instantiates
  it as `Contract`, with the cursor for the picture.
- `AuthCache`: the caches of several worker processes, the lookup and the put
  around it, and an operator who changes or revokes a key.
- `RequestPath`: one worker process, its pool, one contended quota row, and
  requests of every kind, each of which may fail wherever it uses the database.
- `ServiceTasks`: the production tasks behind blue and green. One process stands
  for the tasks of a service. `GetEngine` is `get_engine` with the secret's
  cache, its fallback and its failures; `Probe` is the readiness probe together
  with the target group's verdict; `Replace` is the scheduler.
- `Rollout`: the deployment workflow, composed with `ServiceTasks` (it extends
  it): one action per step of the job, `Trip` and `Rollback` for the trap,
  `CutOff` for the time limit. It runs any image after any other, and `RerunProd`
  runs the production job alone for any image that staging has seen.
- `UsageReads`: the hours. POST /v1/events in one step each for receipt, commit,
  refusal and failure, with the clocks of different tasks; the three reads are
  operators on the state, since they change nothing.
- `EventIngestRefinement`: the proof that `EventIngest` implements `MeterLedger`.
- `MC*`: instances for TLC (symmetry sets, filters). `*Proofs`: theorems.

Every operator that models code is mapped to its file and lines under "map" in
PROJECT.json. Operators whose name continues that of another after an
underscore (`MayInsert_NoConstraint`) are *mutants*: what a plausible bug would
turn it into. Each checked property has one that breaks it.

The modules are tied by what each takes from another without repeating it:
`UsageTable`, which `EventIngest` is proved to implement, has the commits that
`UsageExport` and `UsageReads` meet; the states `verify`, `txn` and `streaming`
of `RequestPath` are the connections that `AuthCache`, `EventIngest` and
`UsageExport` work on.

## What the runs show

Twelve runs, each of a few seconds to a minute and a half.

| Run | Instance | What it shows |
|---|---|---|
| `ingest_safety` | 4 requests of any kind, 2 keys, 1 meter, quantities 1-2, limits 1-3 | usage = sum of events; idempotency; quota decisions right; append-only; no circle of waits; the inductive invariant of the proofs; the refinement of `MeterLedger` and of `UsageTable` |
| `ingest_live` | 3 requests of any kind, 2 tenants with one key and one meter each, quantities 1-2, limit 1, fair | tenants do not meet (`IndInv` with two of them); every transaction ends |
| `quota_introduced` | 3 requests, no quota at first | *violation*: see findings |
| `bucket_envelope` | 2 handlers, lag 1, skew 1, 1 failover, 1 request let through unpaid, expiry after 4 of 5 ticks | the bound that holds in every window, fail-open and expiry included; a client that waits as it was told is let in |
| `bucket_race` | 3 handlers, lag 1 | *violation*: see findings |
| `export_stream` | 5 rows, cap 4, chunks of 2, batches of 4, quantities 1-2 | order, completeness, the audit event; the refinement of `ExportContract`, which has the cap and the 422 |
| `export_audit` | the same | *violation*: see findings |
| `auth_cache` | 2 requests, 2 processes, 1 key, time-to-live 2 | who is admitted, and how stale at most |
| `request_pool` | 3 requests of any kind, 2 connections, fair | the pool is accounted for; no hold-and-wait; one answer each, and an answer for every request |
| `rollout` | 2 images, the second with a migration, 2 deployments, 2 rotations, the first to a malformed value, fair | no image ahead of its schema; green gains traffic in steps and when proved, no weight is left half-way; services recover from a rotation |
| `rollout_canary` | 1 image deployed twice | *violation*: see findings |
| `usage_reads` | 2 POSTs, 2 customers, hours of 4 ticks, days of 8, skew 1, 12 ticks | reads are exact; what is recorded can be read; hours become final; a refused client's wait suffices |

The type invariants and the auxiliary invariants of the proofs are checked with
the inductive invariant they are conjuncts of (`IndInv`, `LimitInv`, `ExportInv`,
`CacheInv`, `PoolInv`, `UsageInv`). `RolloutInv` is defined with its proofs.

### Bounds, and why they are enough

- Ingest: the interesting conflicts involve a holder, a waiter, a third that
  changes the row between them, and a fourth that must be checked against the
  result; four requests give them all, with `Abort` at every statement. Two keys
  let requests collide or not. Limit 3 with quantities 1 and 2 meets "exactly
  reaches", "one too many" and "no room". Two tenants multiply the
  states without adding conflicts; they are in `ingest_live`, with one key and one
  meter that both use.
- Bucket: `Second = 2` makes truncation to seconds visible; `Ttl` satisfies the
  assumption of the code's constants (a bucket refills before it expires) as
  tightly as the instance allows, and `MaxTime = 5` leaves two ticks in which the
  first bucket has expired and refused clients come back. No request starts once clocks have gone back by
  more than `MaxRewound` in the window, so that with 0 they still do, once the
  requests in flight overtake each other; `MaxUnpaid` bounds how many requests
  pass without a token of the window. The theorems need none of these bounds:
  what the constants limit in a run, `LimitWithRefunds` counts.
- Export: 5 rows over a cap of 4 with chunks of 2 and batches of 4 let the cap,
  the chunk and the batch end both with and away from the last row. One export
  is enough, as exports share only the table and write nothing.
- Authentication: `MaxTime = 5` exceeds `Ttl + MaxVerify = 3`, so an entry can
  be made, go stale, expire and be made again; two contents of the row, then
  revoked, are one change more than the property speaks of.
- Request path: more requests than connections, so the pool fills with exports
  that nobody reads or with transactions that wait for the row, and the readiness
  probe, which needs two connections in turn, meets a full pool at either.
- Rollout: with two images and two runs a deployment follows a promoted, a
  reverted or a cut-off one, of an older or a newer image; one migration makes
  the two images disagree about the schema. Two rotations let a task keep an
  engine from before, cache the malformed value, or fall back on the old one.
  That the production job is repeated after staging has moved on by another
  migration takes a third image and a third run, which the run does not have;
  the theorems, which hold for any number of images, migrations, runs and
  rotations, cover it (`MigrationSafe`).
- Reads: `Second = 2` makes rounding to seconds visible, an offset of half an
  hour the conversion to UTC; 12 ticks and a skew of 1 are three hours in two
  days, so an event can be on either side of every boundary.

### Fairness

`ingest_live` and `request_pool` assume weak fairness of every request's own
steps: PostgreSQL runs a statement once nothing blocks it, the event loop
resumes the handler that awaited it, and a wait for a pooled connection times
out. Nothing is assumed of clients: a request may never arrive, and in
`RequestPath` the reader of a stream may stop reading (`Streamed` is not fair).
Failures (`Abort`, `Break`) are never assumed. A request woken from a row may
lose it again to another one, but requests are finitely many and each takes the
row once, so weak fairness suffices; arrival of ever new requests, which could
starve one, is not modelled.

`rollout` assumes fairness of the surroundings of the tasks (`TasksFairness`):
weak fairness of the health check, of the expiry of a cached secret and of the
replacement of a service found unhealthy, all of which AWS or the clock repeat
forever; and strong fairness of a fetch that succeeds: Secrets Manager may fail
any number of times, but an engineless process that keeps probing is answered
with the current value now and then. Nothing is assumed of the workflow, which
may stop anywhere. `usage_reads` and the safety runs assume nothing.

### Deadlock

The runs of the token bucket and of the cache check for deadlock, although a
clock that stops at `MaxTime` leaves little else to do; so do those of the rollout,
whose tasks are probed forever. In the ingest, export, reads
and request runs a request is served once and the system then stops; they
switch the check off and ask instead, as liveness, that every request is answered
(`ingest_live`, `request_pool`). `NoCircularWait` and `NoHoldAndWait` say why, and
are proved.

## What is proved

TLAPS checks every step. Throughout, the assumptions are those named in the
modules: finite sets of tenants and keys, whole bounds, null values distinct from
values, and for the bucket `TtlAssumption`, that it refills before it can expire.

**`EventIngestProofs`.** `IndInv` is inductive (`Invariance`), and the safety
invariants are its conjuncts. The properties alone are not inductive: that an
increment is not lost needs `BucketStable` (what a transaction read of a locked
row still stands), which needs `Locking` (a lock's holder is the transaction
whose `pc` says so, hence unique), which needs `Control` (which `pc` goes with
which payload and which statement result). `RollupCorrect` counts: committing
adds one key to a finite set of events and its quantity to their sum
(`OneMoreEvent`). `CheckedWithinLimit` speaks of checked events only, because
that is what survives the finding below. `LedgerAppendOnly` is its consequence
for steps. `DeadlockFree` needs no order of its own in the code but the one
`LockOrder` reads off `Locking`: who waits for a bucket waits for somebody about
to commit, who waits for a quotas row for somebody past it, who waits for an event
key for somebody past the insert; so a set of requests that all wait for one
another has nobody waiting for a bucket, then nobody for a row, then nobody at
all. `StepsAdvance` ranks the states: every step brings one request nearer to its
answer and takes none back, the wake-up by another's DELETE included, so that a
request takes at most seven. `TableImplemented` is the refinement of
`UsageTable`: only a commit changes the rollup (`CommitEffect`), in one row, by its
quantity and by one. `EnforcedUnlessIntroduced` adds a second invariant, `Standing`:
while a quota stands that no PUT has created, no open POST of the meter slipped
past it, so every committed event was checked and the checked sum is the total.

**`TokenBucketProofs`.** `LimitInv` has two accounts. `Accounted`: either a
whole bucket of the window's allowance is still unspent, or the bucket on the
primary is the one the script wrote last and what it holds is within what is left.
The disjunction is what makes expiry, failover and the opening of a window
inductive: a bucket that expires has refilled, by `TtlAssumption`; a failover adds
one bucket to the allowance; a window opens with a bucket that holds no more than
a full one. `Paid`: every request let through has a token the script gave out in
the window, or is counted in `unpaid`; handlers that were allowed and have not
learnt it stand between the two (`Underway`, a finite set whose cardinality
`NextPaid` follows). Together they give `LimitWithRefundsHolds`. From the
same invariant `LimitRespectedInOrder`: in a window in which clocks did not go back
and no primary was replaced (`InOrder`) the claimed limit holds; and `LimitExact`:
if clocks neither lag nor differ and the primary is not replaced, every window is
such a window and the textbook bound, capacity plus refill, holds of the requests
the script allows.

`RetryAfterCorrect` rests on a third conjunct of `LimitInv`, `Kept`: while a
promise stands, what the bucket holds and refills until then makes a token.
Another refusal keeps that (`RefusalKeeps`), because a clock that goes back adds to
the time still to come what it took off the time gone, and because the script
writes the refilled tokens back together with the time; expiry only helps. The
promise counts from the refusal, by the slowest clock, and is `MaxSkew` longer
than the header says (`PromiseFacts`): a client that waits exactly as told, and is
then served by a task whose clock is behind the one that refused it, can be refused
once more. A token taken by somebody else, or a failover, ends the promise.

**`AuthCacheProofs`.** `CacheInv` relates each cache entry, and each lookup
under way, to the moment its row stopped being current; `StalenessBounded` is
the bound `Ttl + MaxVerify` for every admission.

**`RequestPathProofs`.** `PoolInv`: a request has a connection exactly in the
states that use one, the row is held exactly in the state `locked`, and a status
line is out exactly in those after it. All theorems follow for any number
of requests and connections. `StepsAdvance` ranks the states of a request: every
step takes one request forward, whatever fails, and moves no other, so that it
takes at most ten.

**`UsageExportProofs`.** `ExportInv`: the cursor is the snapshot cut at the cap,
what is sent and buffered is its first `rowCount` rows, and while rows are
written the buffer's length is `rowCount % RowsPerChunk`, which is why the audit
event is off by less than a chunk. `ExportComplete` also needs that the listing
of a finite set of rows reaches each of them (`Numbered`: ranking is an injection
into as many numbers, hence onto them) and that usage only grows (`Acknowledged`).
`ContractImplemented`: opening the cursor is the moment of the contract's picture,
`WriteRow` and `Flush` send more of it or are stutters, the pre-flight decision and
the audit event are right when they are made.

**`EventIngestRefinement`.** `LedgerImplemented`: every behaviour of `EventIngest`
is one of `MeterLedger`. `InitRefines` and one lemma per action show that a
commit, a replay, a rejection and a quota report are the ledger's operation of
that name, that finding no quotas row is the ledger's `SeeNoQuota`, and that every
other statement, wait and abort leaves the ledger alone (`Stutter`). It needs
`IndInv` for the guards and one strengthening, `Bodies` (only a 201 and a 200
have an event in their body).

**`RolloutProofs`.** `RolloutInv` adds to `MigratedFirst` what each step of a run
leaves for the next (`Stages`: staged before the snapshot, snapshot of the
current schema before the migration, schema at the image's head throughout the
canary, green stable before weight is shifted, staging never behind an image it
has passed) and where the weights may be left, hence from where a canary's step
starts (`Listener`). The action properties follow from it. `ShiftSafe` speaks of
what green gains and why it loses; it claims nothing of blue (finding 5).

**`UsageReadsProofs`.** `UsageInv` says that no stamp is ahead of its task's clock,
that a refused client's wait ends after its hour (`CeilingFacts`: whole seconds
rounded up are long enough) and that a bucket counts the events recorded in it.
From it: hours become final, a retry lands later, and, by the arithmetic of hours
and days, whatever is recorded can be read back. `SkewAssumption`, clocks that
differ by at most an hour, is what the reads' one hour of lookahead needs.
`ReadsCorrect` is about sums over any set of buckets, which would need induction
if they were added up; `UnitsOf` counts them as pairs of a bucket and a number
instead, so that one event more is one element more of a finite set
(`OneMoreUnit`), and `RollupIsCount` holds of all sets of buckets at once.

Only model-checked: liveness (`EveryRequestAnswered` of both modules,
`RotationHeals`). It rests on fairness, hence on ENABLED, which the prover does not
handle. What it rests on besides is proved: nobody waits in a circle (`DeadlockFree`,
`PoolDeadlockFree`) and every step is a step forward (`StepsAdvance` of both). For
`RotationHeals`, where a process may go back and forth any number of times, there
is no such measure.

## Findings

Five statements of the repository disagree with what the code does. Each has a
property that says what does hold, and all but the fourth a run of their own that
shows the behaviour. The quotations are in PROJECT.json.

1. *"usage can never exceed L"* (`quotas_repo.py:137`, run `quota_introduced`).
   A POST that found no quota holds no lock, and commits after a quota was
   created and other POSTs were checked against it. `EnforcedUntilIntroduced`
   holds, and is proved.
2. *Concurrent requests "can't race past the limit"* (`rate_limit.py:86`, run
   `bucket_race`). The time is read before the script runs; requests that
   overtake each other have an interval refilled twice. `LimitWithRefunds` holds,
   and is proved, as is the claim itself for windows in which none did (`InOrder`).
3. *The audit event "still records what was actually sent"*
   (`usage_export_service.py:135`, run `export_audit`). Rows are counted when
   buffered. `AuditReliable` holds, and is proved: never fewer, and less than a
   chunk more.
4. *"exactly one usage.export event per request either way"*
   (`usage_export_service.py:152`, and `system_architecture.md:145`). The event is
   logged in the generator's `finally` block, which never runs if the client is
   gone before the response pulls the generator (`Abandon`): an export that was
   counted and accepted leaves no event. `export_stream` reaches that state
   (`gone`), and `AuditReliable` says which exports do have an event: every one
   whose stream began and has ended has exactly one.
5. *"no traffic is on green yet"* (`deploy.yml:216-217`, run `rollout_canary`). A
   promotion leaves all traffic on green and nothing moves it back, so the next
   deployment replaces the image under full traffic before its 10% step. That
   step then moves 90% from green to blue, whose image is still the first one: no
   staging job of these runs has seen it, and after a migration it answers 503.
   `GreenGainsInSteps`, which says nothing of what blue gets, and `NoPartialWeight`
   hold, and are proved.

Three more were met and have no run of their own:

- Security headers are not on *"every response, including error responses"*: the
  answer to an unexpected exception (`errors.py:96`) is made outside the middleware
  that sets them. `Stamped`, a conjunct of `PoolInv`, says it is the only one.
- The app *"can be rolled back to a prior version that understands the new
  schema"* (`alembic/README.md:83`), but readiness asks for equality with the
  image's own head (`health.py:40`). After a migration blue, whose image no
  deployment changes, answers 503, and a reverted canary sends all traffic there,
  as the first step of a canary after a promotion sends 90% of it.
  The `rollout` run reaches this state; no property claims otherwise.
- The canary's alarm on unhealthy hosts watches the blue target group, so an
  unready green one does not trip it. `Trip` may happen at any time and need
  not, whichever group is watched.

## Not modelled

- Row-level security and the scope of keys beyond "may refuse" (access control),
  parsing and formatting, cryptography (two secrets are equal or not), logging
  but for the export's audit event, and observability.
- The parts of the schema that are not keys: what a downgrade drops, and the
  backfill of migration 0002, which the workflow runs before any image that
  counts. What it derives is `QuantityOf`, and `RollupMatchesEvents` says that
  deriving it again at any moment gives what stands.
- The building of images, `terraform apply`, the signature check and the approval:
  steps of the workflow that may fail (`Refuse`) and do nothing else here.
- GET /v1/quotas: one SELECT of a table that `EventIngest` keeps.
- PostgreSQL beyond READ COMMITTED, unique constraints, row locks and waits;
  Redis beyond an atomic script, expiry and asynchronous replication.
- Whether the client can tell that a body was broken off: that is for the server's
  framing. `AnsweredOnce` says that no second answer follows, and the contract's
  `Finish` that an export counts as complete only when all of it was yielded.
- Tasks of one service that differ: one process stands for all of them, so that
  two engines of different age in one service are not seen side by side.
- Lock and statement timeouts: the code sets none.
- Widths of numbers: a quantity is `NUMERIC(20, 6)` and a total `NUMERIC(38, 6)`,
  so that no total overflows before 10^12 of the largest events have been counted.

## Plan

What is left, in this order:

1. The probe of `RequestPath` as the `Probe` of `ServiceTasks`: a process whose
   pool is full of exports reports itself not ready and is replaced, which
   breaks those exports off.
2. An abstract specification of `AuthCache`: the key's row as it stood at some
   moment no further back than the bound, and every admission by it; with the
   refinement as a theorem.
3. The same for `Rollout`: schema, traffic and images without the workflow's
   steps.
4. The downgrade and upgrade of migration 0002 on a system that is serving.
