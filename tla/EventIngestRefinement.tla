------------------------ MODULE EventIngestRefinement ------------------------
(***************************************************************************)
(* Statements, row locks and waits implement the atomic ledger of          *)
(* MeterLedger, for any sets of requests, tenants, keys, meters and        *)
(* windows: every step of EventIngest is one operation of the ledger or    *)
(* leaves it alone.                                                        *)
(***************************************************************************)
EXTENDS EventIngestProofs

\* The requests that saw no quota, as the ledger has them.
Seen == {r \in Requests : limit[r] = NoLimit}

\* Both modules have the same payloads and keys.
LEMMA LedgerTypes ==
    /\ Ledger!NoLimit = NoLimit
    /\ Ledger!NoUsage = NoUsage
    /\ Ledger!Quantities = Quantities
    /\ Ledger!EventKey = EventKey
    /\ Ledger!Scope = Scope
    /\ Ledger!Bucket = Bucket
    /\ Ledger!Payload = Payload
    /\ \A p : /\ Ledger!KeyIn(p) = KeyIn(p)
             /\ Ledger!ScopeIn(p) = ScopeIn(p)
             /\ Ledger!BucketIn(p) = BucketIn(p)
    /\ \A r, p : Ledger!RowIn(r, p) = RowIn(r, p)
  BY DEF Ledger!NoLimit, NoLimit, Ledger!NoUsage, NoUsage, Ledger!Quantities, Quantities,
         Ledger!EventKey, EventKey, Ledger!Scope, Scope, Ledger!Bucket, Bucket,
         Ledger!Payload, Payload, Ledger!PostPayload, PostPayload, Ledger!PutPayload,
         PutPayload, Ledger!DeletePayload, DeletePayload, Ledger!Limits, Limits,
         Ledger!KeyIn, KeyIn, Ledger!ScopeIn, ScopeIn, Ledger!BucketIn, BucketIn,
         Ledger!RowIn, RowIn

\* And count alike.
LEMMA LedgerCardinality == \A S : Ledger!Cardinality(S) = Cardinality(S)
  BY DEF Ledger!Cardinality, Cardinality

\* What a step that only moves a transaction on leaves alone.
LEMMA Stutter ==
  ASSUME UNCHANGED <<events, quotas, rollup, req, outcome, returned>>, Seen' = Seen
  PROVE  UNCHANGED Ledger!vars
  BY DEF Ledger!vars, Seen

\* The initial tables are an initial ledger.
LEMMA InitRefines == Init => Ledger!Init
  BY LedgerTypes DEF Init, Ledger!Init, Unread, NoLimit

\* Only a 201 and a 200 have an event in their body.
Bodies ==
    \A r \in Requests : outcome[r] \notin {"created", "replayed"} => returned[r] = NoRow

\* Every step keeps it so.
LEMMA NextBodies == Typed /\ Bodies /\ [Next]_vars => Bodies'
  <1> SUFFICES ASSUME Typed, Bodies, [Next]_vars, NEW r \in Requests,
                      outcome'[r] \notin {"created", "replayed"}
               PROVE  returned'[r] = NoRow
    BY DEF Bodies
  <1>1. ASSUME NEW q \in Requests, FindEventByIdempotencyKey(q) PROVE returned'[r] = NoRow
    BY <1>1 DEF Typed, TypeOK, Bodies, FindEventByIdempotencyKey, Answer
  <1>2. ASSUME NEW q \in Requests, CommitEvent(q) PROVE returned'[r] = NoRow
    BY <1>2 DEF Typed, TypeOK, Control, Bodies, CommitEvent, Transition, Answer
  <1>3. CASE UNCHANGED returned /\ outcome[r] \notin {"created", "replayed"}
    BY <1>3 DEF Bodies
  <1>4. CASE \E q \in Requests : FindEventByIdempotencyKey(q) \/ CommitEvent(q)
    BY <1>1, <1>2, <1>4
  <1>5. CASE \A q \in Requests : ~FindEventByIdempotencyKey(q) /\ ~CommitEvent(q)
    <2>1. UNCHANGED returned
      BY <1>5 DEF Next, Step, Post, ManageQuota, vars, Receive, InsertEventIfNew,
                  LockQuotaRow, WakeWithQuotaRow, CheckQuota, RejectEvent,
                  IncrementUsageRollup, UpsertQuota, CommitUpsert, DeleteQuota,
                  WakeDelete, CommitDelete, AnswerMissing, Abort
    <2>2. pc[r] = "done" => outcome'[r] = outcome[r]
      BY AnswersStay DEF Typed, Control
    <2>3. pc[r] # "done" => outcome[r] = "none"
      BY DEF Typed, Control
    <2> QED
      BY <1>3, <2>1, <2>2, <2>3
  <1> QED
    BY <1>4, <1>5

\* An open request has a payload and neither an answer nor a body.
LEMMA OpenRequest ==
  ASSUME Typed, Bodies, NEW r \in Requests, pc[r] \notin {"idle", "done"}
  PROVE  outcome[r] = "none" /\ returned[r] = NoRow /\ req[r] \in Payload /\ req[r] # NoRow
  BY NullsAssumption DEF Typed, TypeOK, Control, Bodies

\* A request that has seen that there is no quota, and nothing else.
LEMMA SeesNoQuota ==
  ASSUME Typed, Bodies, NEW r \in Requests, pc[r] \notin {"idle", "done"},
         quotas[ScopeOf(r)] = NoLimit, limit' = [limit EXCEPT ![r] = NoLimit],
         UNCHANGED <<events, quotas, rollup, req, outcome, returned>>
  PROVE  Ledger!SeeNoQuota(r)
  <1>1. outcome[r] = "none" /\ req[r] # NoRow
    BY OpenRequest
  <1>2. Seen' = Seen \cup {r}
    BY DEF Typed, TypeOK, Seen
  <1> QED
    BY <1>1, <1>2, LedgerTypes DEF Ledger!SeeNoQuota, ScopeOf, Seen

\* A POST that takes its place on record commits within its limit, or saw none.
LEMMA CommitCreates ==
  ASSUME IndInv, Bodies, NEW r \in Requests, CommitEvent(r)
  PROVE  Ledger!Create(r)
  <1>1. /\ pc[r] = "counted" /\ req[r] \in PostPayload
        /\ outcome[r] = "none" /\ req[r] # NoRow /\ returned[r] = NoRow
        /\ limit[r] \in Limits \cup {NoLimit}
    BY NullsAssumption, PayloadKinds
    DEF IndInv, TypeOK, Control, Bodies, CommitEvent, Transition
  <1>2. /\ KeyOf(r) \in EventKey
        /\ BucketOf(r) \in Bucket
        /\ events[KeyOf(r)] = NoRow
        /\ events' = [events EXCEPT ![KeyOf(r)] = RowOf(r)]
        /\ rollup' = [rollup EXCEPT ![BucketOf(r)] =
                         Incremented(rollup[BucketOf(r)], req[r].qty)]
    BY CommitEffect DEF IndInv, Typed
  <1>3. req[r].op = "post"
    BY <1>1, PayloadFacts, PayloadKinds
  <1>4. \/ r \in Seen
        \/ /\ quotas[ScopeOf(r)] # NoLimit
           /\ Ledger!QuantityOf(Ledger!CheckedIn(BucketOf(r))) + req[r].qty
                 <= quotas[ScopeOf(r)]
    <2>1. CASE limit[r] = NoLimit
      BY <2>1 DEF Seen
    <2>2. CASE limit[r] # NoLimit
      <3>1. /\ limit[r] = quotas[ScopeOf(r)]
            /\ QuantityOf(CheckedIn(BucketOf(r))) + req[r].qty <= limit[r]
        BY <1>1, <2>2 DEF IndInv, CheckedWithinLimit
      <3>2. \A k \in EventKey : events[k] # NoRow =>
               /\ events[k].id \in Requests
               /\ k[1] = req[events[k].id].tenant
               /\ events[k].meter = req[events[k].id].meter
               /\ events[k].win = req[events[k].id].win
        BY DEF IndInv, TypeOK, EventRow, LedgerFaithful, KeyOf, KeyIn, RowOf, RowIn
      <3>3. ASSUME NEW k \in EventKey, events[k] # NoRow
            PROVE  BucketIn(req[events[k].id]) = BucketOf(r) <=>
                     /\ k[1] = BucketOf(r)[1]
                     /\ events[k].meter = BucketOf(r)[2]
                     /\ events[k].win = BucketOf(r)[3]
        BY <3>2, <3>3 DEF BucketIn, BucketOf
      <3>4. Ledger!CheckedIn(BucketOf(r)) = CheckedIn(BucketOf(r))
        BY <3>2, <3>3, LedgerTypes DEF Ledger!CheckedIn, CheckedIn, EventsIn
      <3> QED
        BY <2>2, <3>1, <3>4, LedgerTypes, LedgerCardinality DEF Ledger!QuantityOf, QuantityOf
    <2> QED
      BY <2>1, <2>2
  <1>5. \/ outcome' = [outcome EXCEPT ![r] = "created"]
           /\ returned' = [returned EXCEPT ![r] = RowOf(r)]
        \/ outcome' = [outcome EXCEPT ![r] = "failed"]
           /\ returned' = [returned EXCEPT ![r] = NoRow]
    BY <1>1 DEF CommitEvent, Answer, IndInv, TypeOK
  <1>6. quotas' = quotas /\ req' = req /\ Seen' = Seen
    BY DEF CommitEvent, Seen
  <1> QED
    BY <1>1, <1>2, <1>3, <1>4, <1>5, <1>6, LedgerTypes
    DEF Ledger!Create, Ledger!Open, Ledger!Reply, Seen, KeyOf, ScopeOf, BucketOf,
        RowOf, Incremented

\* Everything else a POST does: statements that move its transaction on are
\* invisible, and a duplicate, a rejection or a rollback is answered from the
\* ledger as it stands.
LEMMA PostRefines ==
  ASSUME IndInv, Bodies, NEW r \in Requests, Post(r)
  PROVE  [Ledger!Next]_Ledger!vars
  <1>1. Typed
    BY DEF IndInv, Typed
  <1>2. ASSUME UNCHANGED <<events, quotas, rollup, req, limit, outcome, returned>>
        PROVE  UNCHANGED Ledger!vars
    BY <1>2, Stutter DEF Seen
  <1>3. CASE InsertEventIfNew(r)
    BY <1>2, <1>3 DEF InsertEventIfNew, tables
  <1>4. CASE FindEventByIdempotencyKey(r)
    <2>1. pc[r] = "conflict" /\ req[r] \in PostPayload /\ req[r].op = "post"
      BY <1>1, <1>4, PayloadFacts, PayloadKinds
      DEF FindEventByIdempotencyKey, Transition, Typed, Control
    <2>2. events[KeyOf(r)] # NoRow
      BY <2>1 DEF IndInv, Stable, KeyStable
    <2>3. outcome[r] = "none" /\ req[r] # NoRow
      BY <1>1, <2>1, OpenRequest
    <2>4. Seen' = Seen
      BY <1>4 DEF FindEventByIdempotencyKey, Seen
    <2>5. Ledger!Replay(r)
      BY <1>4, <2>1, <2>2, <2>3, <2>4, LedgerTypes
      DEF FindEventByIdempotencyKey, Original, Answer, tables, KeyOf, Seen,
          Ledger!Replay, Ledger!Open, Ledger!Reply
    <2> QED
      BY <2>5 DEF Ledger!Next
  <1>5. CASE LockQuotaRow(r)
    <2>1. pc[r] = "inserted" /\ limit[r] = Unread
      BY <1>1, <1>5 DEF LockQuotaRow, Typed, Control
    <2>2. CASE quotas[ScopeOf(r)] = NoLimit
      <3>1. Ledger!SeeNoQuota(r)
        BY <1>1, <1>5, <2>1, <2>2, SeesNoQuota DEF LockQuotaRow, tables
      <3> QED
        BY <3>1 DEF Ledger!Next
    <2>3. CASE quotas[ScopeOf(r)] # NoLimit
      <3>1. Seen' = Seen
        BY <1>1, <1>5, <2>1, <2>3 DEF LockQuotaRow, Typed, TypeOK, Seen, Unread, NoLimit
      <3> QED
        BY <1>5, <3>1, Stutter DEF LockQuotaRow, tables
    <2> QED
      BY <2>2, <2>3
  <1>6. CASE WakeWithQuotaRow(r)
    <2>1. limit[r] = Unread /\ quotas[ScopeOf(r)] # NoLimit
      BY <1>1, <1>6 DEF WakeWithQuotaRow, Transition, Typed, Control
    <2>2. Seen' = Seen
      BY <1>1, <1>6, <2>1 DEF WakeWithQuotaRow, Typed, TypeOK, Seen, Unread, NoLimit
    <2> QED
      BY <1>6, <2>2, Stutter DEF WakeWithQuotaRow, tables
  <1>7. CASE CheckQuota(r)
    BY <1>2, <1>7 DEF CheckQuota, tables
  <1>8. CASE RejectEvent(r)
    <2>1. pc[r] = "rejected" /\ req[r] \in PostPayload /\ req[r].op = "post"
      BY <1>1, <1>8, PayloadFacts, PayloadKinds
      DEF RejectEvent, Transition, Typed, Control
    <2>2. events[KeyOf(r)] = NoRow
      BY <2>1 DEF IndInv, Stable, KeyStable, HoldsKey
    <2>3. outcome[r] = "none" /\ req[r] # NoRow /\ returned[r] = NoRow
      BY <1>1, <2>1, OpenRequest
    <2>4. /\ limit[r] = quotas[ScopeOf(r)] /\ limit[r] # NoLimit
          /\ rollup[BucketOf(r)].total + req[r].qty > quotas[ScopeOf(r)]
      BY <1>1, <2>1, BoundsAssumption
      DEF IndInv, RejectionJustified, Typed, Control, Limits, NoLimit
    <2>5. Seen' = Seen
      BY <1>8 DEF RejectEvent, Seen
    <2>6. returned' = [returned EXCEPT ![r] = NoRow]
      BY <1>1, <1>8, <2>3 DEF RejectEvent, Typed, TypeOK
    <2>7. Ledger!Reject(r)
      BY <1>8, <2>1, <2>2, <2>3, <2>4, <2>5, <2>6, LedgerTypes
      DEF RejectEvent, Answer, tables, KeyOf, ScopeOf, BucketOf, Seen,
          Ledger!Reject, Ledger!Open, Ledger!Reply
    <2> QED
      BY <2>7 DEF Ledger!Next
  <1>9. CASE IncrementUsageRollup(r)
    BY <1>2, <1>9 DEF IncrementUsageRollup, tables
  <1>10. CASE CommitEvent(r)
    BY <1>10, CommitCreates DEF Ledger!Next
  <1> QED
    BY <1>3, <1>4, <1>5, <1>6, <1>7, <1>8, <1>9, <1>10 DEF Post

\* A quota changes when a PUT or DELETE commits, and a DELETE that removes it
\* tells everyone who waited for the row that there is none.
LEMMA ManageRefines ==
  ASSUME IndInv, Bodies, NEW r \in Requests, ManageQuota(r)
  PROVE  [Ledger!Next]_Ledger!vars
  <1>1. Typed
    BY DEF IndInv, Typed
  <1>2. ASSUME UNCHANGED <<events, quotas, rollup, req, limit, outcome, returned>>
        PROVE  UNCHANGED Ledger!vars
    BY <1>2, Stutter DEF Seen
  <1>3. CASE UpsertQuota(r)
    BY <1>2, <1>3 DEF UpsertQuota, tables
  <1>4. CASE CommitUpsert(r)
    <2>1. /\ pc[r] \in {"putInserted", "putReplaced"}
          /\ req[r] \in PutPayload /\ req[r].op = "put"
      BY <1>1, <1>4, PayloadFacts, PayloadKinds DEF CommitUpsert, Typed, Control
    <2>2. /\ pc[r] = "putInserted" => quotas[ScopeOf(r)] = NoLimit
          /\ pc[r] = "putReplaced" => quotas[ScopeOf(r)] # NoLimit
      BY DEF IndInv, Stable, QuotaReportsHold
    <2>3. outcome[r] = "none" /\ req[r] # NoRow /\ returned[r] = NoRow
      BY <1>1, <2>1, OpenRequest
    <2>4. Seen' = Seen
      BY <1>4 DEF CommitUpsert, Seen
    <2>5. returned' = [returned EXCEPT ![r] = NoRow]
      BY <1>1, <1>4, <2>3 DEF CommitUpsert, Typed, TypeOK
    <2>6. Ledger!SetQuota(r)
      BY <1>4, <2>1, <2>2, <2>3, <2>4, <2>5, LedgerTypes
      DEF CommitUpsert, Answer, ScopeOf, Seen, Ledger!SetQuota, Ledger!Open, Ledger!Reply
    <2> QED
      BY <2>6 DEF Ledger!Next
  <1>5. CASE DeleteQuota(r)
    <2>1. pc[r] = "begin"
      BY <1>5 DEF DeleteQuota
    <2>2. CASE quotas[ScopeOf(r)] = NoLimit
      <3>1. Ledger!SeeNoQuota(r)
        BY <1>1, <1>5, <2>1, <2>2, SeesNoQuota DEF DeleteQuota, tables
      <3> QED
        BY <3>1 DEF Ledger!Next
    <2>3. CASE quotas[ScopeOf(r)] # NoLimit
      BY <1>2, <1>5, <2>3 DEF DeleteQuota, tables
    <2> QED
      BY <2>2, <2>3
  <1>6. CASE WakeDelete(r)
    BY <1>2, <1>6 DEF WakeDelete, tables
  <1>7. CASE CommitDelete(r)
    <2> DEFINE W == Waiters(ScopeOf(r))
    <2>1. pc[r] = "removed" /\ req[r] \in DeletePayload /\ req[r].op = "delete"
      BY <1>1, <1>7, PayloadFacts, PayloadKinds DEF CommitDelete, Typed, Control
    <2>2. quotas[ScopeOf(r)] # NoLimit
      BY <2>1 DEF IndInv, Stable, QuotaReportsHold
    <2>3. outcome[r] = "none" /\ req[r] # NoRow /\ returned[r] = NoRow
      BY <1>1, <2>1, OpenRequest
    <2>4. W \in SUBSET {w \in Requests : /\ outcome[w] = "none"
                                         /\ req[w] # NoRow
                                         /\ ScopeIn(req[w]) = ScopeIn(req[r])}
      BY <1>1, OpenRequest DEF Waiters, ScopeOf
    <2>5. Seen' = Seen \cup W
      BY <1>7 DEF CommitDelete, Seen, Waiters
    <2>6. returned' = [returned EXCEPT ![r] = NoRow]
      BY <1>1, <1>7, <2>3 DEF CommitDelete, Typed, TypeOK
    <2>7. /\ quotas' = [quotas EXCEPT ![ScopeIn(req[r])] = NoLimit]
          /\ \/ outcome' = [outcome EXCEPT ![r] = "quotaRemoved"]
             \/ outcome' = [outcome EXCEPT ![r] = "failed"]
          /\ UNCHANGED <<events, rollup, req>>
      BY <1>7 DEF CommitDelete, Answer, ScopeOf
    <2> HIDE DEF W
    <2>8. Ledger!RemoveQuota(r)
      BY <2>1, <2>2, <2>3, <2>4, <2>5, <2>6, <2>7, LedgerTypes
      DEF ScopeOf, Seen, Ledger!RemoveQuota, Ledger!Open, Ledger!Reply
    <2> QED
      BY <2>8 DEF Ledger!Next
  <1>8. CASE AnswerMissing(r)
    <2>1. /\ pc[r] = "noRow" /\ req[r].op = "delete" /\ limit[r] = NoLimit
          /\ outcome[r] = "none" /\ req[r] # NoRow /\ returned[r] = NoRow
      BY <1>1, <1>8, OpenRequest DEF AnswerMissing, Transition, Typed, Control
    <2>2. Seen' = Seen /\ r \in Seen
      BY <1>8, <2>1 DEF AnswerMissing, Seen
    <2>3. returned' = [returned EXCEPT ![r] = NoRow]
      BY <1>1, <1>8, <2>1 DEF AnswerMissing, Typed, TypeOK
    <2>4. Ledger!Missing(r)
      BY <1>8, <2>1, <2>2, <2>3
      DEF AnswerMissing, Answer, tables, Seen, Ledger!Missing, Ledger!Open, Ledger!Reply
    <2> QED
      BY <2>4 DEF Ledger!Next
  <1> QED
    BY <1>3, <1>4, <1>5, <1>6, <1>7, <1>8 DEF ManageQuota

\* Every step of the statements is a step of the ledger or none.
LEMMA StepRefines == IndInv /\ Bodies /\ [Next]_vars => [Ledger!Next]_Ledger!vars
  <1> SUFFICES ASSUME IndInv, Bodies, [Next]_vars PROVE [Ledger!Next]_Ledger!vars
    OBVIOUS
  <1>1. Typed
    BY DEF IndInv, Typed
  <1>2. CASE UNCHANGED vars
    BY <1>2, Stutter DEF vars, Seen
  <1>3. ASSUME NEW r \in Requests, Receive(r) PROVE [Ledger!Next]_Ledger!vars
    <2>1. req[r] = NoRow /\ \E p \in Payload : req' = [req EXCEPT ![r] = p]
      BY <1>1, <1>3 DEF Receive, Transition, Typed, Control
    <2>2. Seen' = Seen
      BY <1>3 DEF Receive, Seen
    <2>3. Ledger!Ask(r)
      BY <1>3, <2>1, <2>2, LedgerTypes DEF Receive, tables, Seen, Ledger!Ask
    <2> QED
      BY <2>3 DEF Ledger!Next
  <1>4. ASSUME NEW r \in Requests, Abort(r) PROVE [Ledger!Next]_Ledger!vars
    <2>1. outcome[r] = "none" /\ req[r] # NoRow /\ returned[r] = NoRow
      BY <1>1, <1>4, OpenRequest DEF Abort
    <2>2. Seen' = Seen /\ returned' = [returned EXCEPT ![r] = NoRow]
      BY <1>1, <1>4, <2>1 DEF Abort, Seen, Typed, TypeOK
    <2>3. Ledger!Fail(r)
      BY <1>4, <2>1, <2>2 DEF Abort, Answer, tables, Seen, Ledger!Fail, Ledger!Reply
    <2> QED
      BY <2>3 DEF Ledger!Next
  <1> QED
    BY <1>2, <1>3, <1>4, PostRefines, ManageRefines DEF Next, Step

-----------------------------------------------------------------------------
\* Seen from outside, transactions with statements, row locks and waits are
\* a ledger with atomic operations.
THEOREM LedgerImplemented == Spec => ImplementsLedger
  <1>1. Init => Bodies
    BY DEF Init, Bodies
  <1>2. IndInv /\ Bodies /\ [Next]_vars => Bodies'
    BY NextBodies DEF IndInv, Typed
  <1> QED
    BY <1>1, <1>2, InitRefines, StepRefines, Invariance, PTL
    DEF Spec, ImplementsLedger, Ledger!Spec

=============================================================================
