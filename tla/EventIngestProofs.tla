-------------------------- MODULE EventIngestProofs --------------------------
(***************************************************************************)
(* Theorems about EventIngest for any sets of requests, tenants, keys,     *)
(* meters and windows and any bounds on quantities and limits, checked by  *)
(* TLAPS.                                                                  *)
(***************************************************************************)
EXTENDS EventIngest, FiniteSetTheorems, TLAPS

Typed == TypeOK /\ Control

\* The operation tells the kind of a payload, and a payload's keys and row
\* have the types of the tables' keys and rows.
LEMMA PayloadFacts ==
    \A p \in Payload :
        /\ p.op = "post" => p \in PostPayload
        /\ p.op = "put" => p \in PutPayload
        /\ p.op = "delete" => p \in DeletePayload
        /\ ScopeIn(p) \in Scope
        /\ p \in PutPayload => p.op = "put" /\ p.limit \in Limits
        /\ p \in DeletePayload => p.op = "delete"
        /\ p \in PostPayload =>
              /\ p.op = "post"
              /\ p.qty \in Nat
              /\ KeyIn(p) \in EventKey
              /\ BucketIn(p) \in Bucket
              /\ \A r \in Requests : RowIn(r, p) \in EventRow
  <1> USE BoundsAssumption DEF Payload, PostPayload, PutPayload, DeletePayload
  <1> TAKE p \in Payload
  <1>1. /\ p.op = "post" => p \in PostPayload
        /\ p.op = "put" => p \in PutPayload
        /\ p.op = "delete" => p \in DeletePayload
    OBVIOUS
  <1>2. p \in PutPayload => p.op = "put" /\ p.limit \in Limits
    OBVIOUS
  <1>3. p \in DeletePayload => p.op = "delete"
    OBVIOUS
  <1>4. ScopeIn(p) \in Scope
    BY DEF ScopeIn, Scope
  <1>5. ASSUME p \in PostPayload
        PROVE  /\ p.op = "post"
               /\ p.qty \in Nat
               /\ KeyIn(p) \in EventKey
               /\ BucketIn(p) \in Bucket
               /\ \A r \in Requests : RowIn(r, p) \in EventRow
    BY <1>5 DEF KeyIn, EventKey, BucketIn, Bucket, RowIn, EventRow, Quantities
  <1> QED
    BY <1>1, <1>2, <1>3, <1>4, <1>5

\* A payload is one of the three kinds.
LEMMA PayloadKinds ==
    /\ PostPayload \subseteq Payload
    /\ PutPayload \subseteq Payload
    /\ DeletePayload \subseteq Payload
  BY DEF Payload

\* The initial tables, locks and handlers have their types.
LEMMA InitTyped == Init => Typed
  <1> SUFFICES ASSUME Init PROVE Typed
    OBVIOUS
  <1>1. NoUsage \in Usage
    BY DEF NoUsage, Usage
  <1>2. TypeOK
    BY <1>1, BoundsAssumption
    DEF Init, TypeOK, PCs, Outcomes, Unread
  <1>3. Control
    BY DEF Init, Control
  <1>4. QED
    BY <1>2, <1>3 DEF Typed

\* Every step keeps the types, and the request a handler state belongs to.
LEMMA NextTyped == Typed /\ [Next]_vars => Typed'
  <1> SUFFICES ASSUME Typed, [Next]_vars PROVE Typed'
    OBVIOUS
  <1> USE PayloadFacts, PayloadKinds, NullsAssumption
      DEF Typed, tables, locks, PCs, Outcomes, KeyOf, ScopeOf, BucketOf, RowOf
  <1>1. ASSUME NEW r \in Requests, Receive(r) PROVE Typed'
    <2>1. TypeOK'
      BY <1>1 DEF TypeOK, Control, Receive, Transition
    <2>2. Control'
      BY <1>1 DEF TypeOK, Control, Receive, Transition
    <2> QED BY <2>1, <2>2
  <1>2. ASSUME NEW r \in Requests, InsertEventIfNew(r) PROVE Typed'
    <2>1. TypeOK'
      BY <1>2 DEF TypeOK, Control, InsertEventIfNew, Take
    <2>2. Control'
      BY <1>2 DEF TypeOK, Control, InsertEventIfNew, Take
    <2> QED BY <2>1, <2>2
  <1>3. ASSUME NEW r \in Requests, FindEventByIdempotencyKey(r) PROVE Typed'
    <2>1. TypeOK'
      BY <1>3 DEF TypeOK, Control, FindEventByIdempotencyKey, Transition, Answer, ReleaseLocks, Released, Original
    <2>2. Control'
      BY <1>3 DEF TypeOK, Control, FindEventByIdempotencyKey, Transition, Answer, ReleaseLocks, Released, Original
    <2> QED BY <2>1, <2>2
  <1>4. ASSUME NEW r \in Requests, LockQuotaRow(r) PROVE Typed'
    <2>1. TypeOK'
      BY <1>4 DEF TypeOK, Control, LockQuotaRow, LockForUpdate, Take
    <2>2. Control'
      BY <1>4 DEF TypeOK, Control, LockQuotaRow, LockForUpdate, Take
    <2> QED BY <2>1, <2>2
  <1>5. ASSUME NEW r \in Requests, WakeWithQuotaRow(r) PROVE Typed'
    <2>1. TypeOK'
      BY <1>5 DEF TypeOK, Control, WakeWithQuotaRow, Transition, LockForUpdate, Take, Free
    <2>2. Control'
      BY <1>5 DEF TypeOK, Control, WakeWithQuotaRow, Transition, LockForUpdate, Take, Free
    <2> QED BY <2>1, <2>2
  <1>6. ASSUME NEW r \in Requests, CheckQuota(r) PROVE Typed'
    <2>1. TypeOK'
      BY <1>6 DEF TypeOK, Control, CheckQuota
    <2>2. Control'
      BY <1>6 DEF TypeOK, Control, CheckQuota
    <2> QED BY <2>1, <2>2
  <1>7. ASSUME NEW r \in Requests, RejectEvent(r) PROVE Typed'
    <2>1. TypeOK'
      BY <1>7 DEF TypeOK, Control, RejectEvent, Transition, Answer, ReleaseLocks, Released
    <2>2. Control'
      BY <1>7 DEF TypeOK, Control, RejectEvent, Transition, Answer, ReleaseLocks, Released
    <2> QED BY <2>1, <2>2
  <1>8. ASSUME NEW r \in Requests, IncrementUsageRollup(r) PROVE Typed'
    <2>1. TypeOK'
      BY <1>8 DEF TypeOK, Control, IncrementUsageRollup, Take, Incremented, Usage
    <2>2. Control'
      BY <1>8 DEF TypeOK, Control, IncrementUsageRollup, Take, Incremented, Usage
    <2> QED BY <2>1, <2>2
  <1>9. ASSUME NEW r \in Requests, CommitEvent(r) PROVE Typed'
    <2>1. TypeOK'
      BY <1>9 DEF TypeOK, Control, CommitEvent, Transition, Answer, ReleaseLocks, Released
    <2>2. Control'
      BY <1>9 DEF TypeOK, Control, CommitEvent, Transition, Answer, ReleaseLocks, Released
    <2> QED BY <2>1, <2>2
  <1>10. ASSUME NEW r \in Requests, UpsertQuota(r) PROVE Typed'
    <2>1. TypeOK'
      BY <1>10 DEF TypeOK, Control, UpsertQuota, Take
    <2>2. Control'
      BY <1>10 DEF TypeOK, Control, UpsertQuota, Take
    <2> QED BY <2>1, <2>2
  <1>11. ASSUME NEW r \in Requests, CommitUpsert(r) PROVE Typed'
    <2>1. TypeOK'
      BY <1>11 DEF TypeOK, Control, CommitUpsert, Answer, ReleaseLocks, Released
    <2>2. Control'
      BY <1>11 DEF TypeOK, Control, CommitUpsert, Answer, ReleaseLocks, Released, Limits, NoLimit
    <2> QED BY <2>1, <2>2
  <1>12. ASSUME NEW r \in Requests, DeleteQuota(r) PROVE Typed'
    <2>1. TypeOK'
      BY <1>12 DEF TypeOK, Control, DeleteQuota, Take
    <2>2. Control'
      BY <1>12 DEF TypeOK, Control, DeleteQuota, Take
    <2> QED BY <2>1, <2>2
  <1>13. ASSUME NEW r \in Requests, WakeDelete(r) PROVE Typed'
    <2>1. TypeOK'
      BY <1>13 DEF TypeOK, Control, WakeDelete, Transition, Take
    <2>2. Control'
      BY <1>13 DEF TypeOK, Control, WakeDelete, Transition, Take
    <2> QED BY <2>1, <2>2
  <1>14. ASSUME NEW r \in Requests, CommitDelete(r) PROVE Typed'
    <2>1. TypeOK'
      BY <1>14 DEF TypeOK, Control, CommitDelete, Answer, ReleaseLocks, Released, Waiters
    <2>2. Control'
      BY <1>14 DEF TypeOK, Control, CommitDelete, Answer, ReleaseLocks, Released, Waiters
    <2> QED BY <2>1, <2>2
  <1>15. ASSUME NEW r \in Requests, AnswerMissing(r) PROVE Typed'
    <2>1. TypeOK'
      BY <1>15 DEF TypeOK, Control, AnswerMissing, Transition, Answer, ReleaseLocks, Released
    <2>2. Control'
      BY <1>15 DEF TypeOK, Control, AnswerMissing, Transition, Answer, ReleaseLocks, Released
    <2> QED BY <2>1, <2>2
  <1>16. ASSUME NEW r \in Requests, Abort(r) PROVE Typed'
    <2>1. TypeOK'
      BY <1>16 DEF TypeOK, Control, Abort, Answer, ReleaseLocks, Released
    <2>2. Control'
      BY <1>16 DEF TypeOK, Control, Abort, Answer, ReleaseLocks, Released
    <2> QED BY <2>1, <2>2
  <1>17. CASE UNCHANGED vars
    BY <1>17 DEF vars, TypeOK, Control
  <1> QED
    BY <1>1, <1>2, <1>3, <1>4, <1>5, <1>6, <1>7, <1>8, <1>9, <1>10, <1>11, <1>12, <1>13, <1>14, <1>15, <1>16, <1>17 DEF Next, Step, Post, ManageQuota

\* Every step keeps the row locks with the transactions that hold the rows.
LEMMA NextLocking == Typed /\ Locking /\ [Next]_vars => Locking'
  <1> SUFFICES ASSUME Typed, Locking, [Next]_vars PROVE Locking'
    OBVIOUS
  <1>0. Typed'
    BY NextTyped
  <1> USE <1>0, PayloadFacts, PayloadKinds, NullsAssumption
      DEF Typed, TypeOK, Control, Locking, tables, locks, KeyOf, ScopeOf, BucketOf
  <1>1. ASSUME NEW r \in Requests, Receive(r) PROVE Locking'
    <2>1. KeyLocking'
      BY <1>1 DEF KeyLocking, HoldsKey, Receive, Transition
    <2>2. QuotaLocking'
      BY <1>1 DEF QuotaLocking, HoldsQuota, Receive, Transition
    <2>3. BucketLocking'
      BY <1>1 DEF BucketLocking, HoldsBucket, Receive, Transition
    <2> QED BY <2>1, <2>2, <2>3
  <1>2. ASSUME NEW r \in Requests, InsertEventIfNew(r) PROVE Locking'
    <2>1. KeyLocking'
      BY <1>2 DEF KeyLocking, HoldsKey, InsertEventIfNew, Take, MayInsert, Free
    <2>2. QuotaLocking'
      BY <1>2 DEF QuotaLocking, HoldsQuota, InsertEventIfNew, Take
    <2>3. BucketLocking'
      BY <1>2 DEF BucketLocking, HoldsBucket, InsertEventIfNew, Take
    <2> QED BY <2>1, <2>2, <2>3
  <1>3. ASSUME NEW r \in Requests, FindEventByIdempotencyKey(r) PROVE Locking'
    <2>1. KeyLocking'
      BY <1>3 DEF KeyLocking, HoldsKey, FindEventByIdempotencyKey, Transition, Answer, ReleaseLocks, Released, Original
    <2>2. QuotaLocking'
      BY <1>3 DEF QuotaLocking, HoldsQuota, FindEventByIdempotencyKey, Transition, Answer, ReleaseLocks, Released, Original
    <2>3. BucketLocking'
      BY <1>3 DEF BucketLocking, HoldsBucket, FindEventByIdempotencyKey, Transition, Answer, ReleaseLocks, Released, Original
    <2> QED BY <2>1, <2>2, <2>3
  <1>4. ASSUME NEW r \in Requests, LockQuotaRow(r) PROVE Locking'
    <2>1. KeyLocking'
      BY <1>4 DEF KeyLocking, HoldsKey, LockQuotaRow, LockForUpdate, Take
    <2>2. QuotaLocking'
      BY <1>4 DEF QuotaLocking, HoldsQuota, LockQuotaRow, LockForUpdate, Take, Free
    <2>3. BucketLocking'
      BY <1>4 DEF BucketLocking, HoldsBucket, LockQuotaRow, LockForUpdate, Take
    <2> QED BY <2>1, <2>2, <2>3
  <1>5. ASSUME NEW r \in Requests, WakeWithQuotaRow(r) PROVE Locking'
    <2>1. KeyLocking'
      BY <1>5 DEF KeyLocking, HoldsKey, WakeWithQuotaRow, Transition, LockForUpdate, Take, Free
    <2>2. QuotaLocking'
      BY <1>5 DEF QuotaLocking, HoldsQuota, WakeWithQuotaRow, Transition, LockForUpdate, Take, Free
    <2>3. BucketLocking'
      BY <1>5 DEF BucketLocking, HoldsBucket, WakeWithQuotaRow, Transition, LockForUpdate, Take, Free
    <2> QED BY <2>1, <2>2, <2>3
  <1>6. ASSUME NEW r \in Requests, CheckQuota(r) PROVE Locking'
    <2>1. KeyLocking'
      BY <1>6 DEF KeyLocking, HoldsKey, CheckQuota
    <2>2. QuotaLocking'
      BY <1>6 DEF QuotaLocking, HoldsQuota, CheckQuota
    <2>3. BucketLocking'
      BY <1>6 DEF BucketLocking, HoldsBucket, CheckQuota
    <2> QED BY <2>1, <2>2, <2>3
  <1>7. ASSUME NEW r \in Requests, RejectEvent(r) PROVE Locking'
    <2>1. KeyLocking'
      BY <1>7 DEF KeyLocking, HoldsKey, RejectEvent, Transition, Answer, ReleaseLocks, Released
    <2>2. QuotaLocking'
      BY <1>7 DEF QuotaLocking, HoldsQuota, RejectEvent, Transition, Answer, ReleaseLocks, Released
    <2>3. BucketLocking'
      BY <1>7 DEF BucketLocking, HoldsBucket, RejectEvent, Transition, Answer, ReleaseLocks, Released
    <2> QED BY <2>1, <2>2, <2>3
  <1>8. ASSUME NEW r \in Requests, IncrementUsageRollup(r) PROVE Locking'
    <2>1. KeyLocking'
      BY <1>8 DEF KeyLocking, HoldsKey, IncrementUsageRollup, Take, Incremented
    <2>2. QuotaLocking'
      BY <1>8 DEF QuotaLocking, HoldsQuota, IncrementUsageRollup, Take, Incremented, Limits, NoLimit
    <2>3. BucketLocking'
      BY <1>8 DEF BucketLocking, HoldsBucket, IncrementUsageRollup, Take, Incremented, MayCount, Free
    <2> QED BY <2>1, <2>2, <2>3
  <1>9. ASSUME NEW r \in Requests, CommitEvent(r) PROVE Locking'
    <2>1. KeyLocking'
      BY <1>9 DEF KeyLocking, HoldsKey, CommitEvent, Transition, Answer, ReleaseLocks, Released
    <2>2. QuotaLocking'
      BY <1>9 DEF QuotaLocking, HoldsQuota, CommitEvent, Transition, Answer, ReleaseLocks, Released
    <2>3. BucketLocking'
      BY <1>9 DEF BucketLocking, HoldsBucket, CommitEvent, Transition, Answer, ReleaseLocks, Released
    <2> QED BY <2>1, <2>2, <2>3
  <1>10. ASSUME NEW r \in Requests, UpsertQuota(r) PROVE Locking'
    <2>1. KeyLocking'
      BY <1>10 DEF KeyLocking, HoldsKey, UpsertQuota, Take
    <2>2. QuotaLocking'
      BY <1>10 DEF QuotaLocking, HoldsQuota, UpsertQuota, Take, MayUpsert, Free
    <2>3. BucketLocking'
      BY <1>10 DEF BucketLocking, HoldsBucket, UpsertQuota, Take
    <2> QED BY <2>1, <2>2, <2>3
  <1>11. ASSUME NEW r \in Requests, CommitUpsert(r) PROVE Locking'
    <2>1. KeyLocking'
      BY <1>11 DEF KeyLocking, HoldsKey, CommitUpsert, Answer, ReleaseLocks, Released
    <2>2. QuotaLocking'
      BY <1>11 DEF QuotaLocking, HoldsQuota, CommitUpsert, Answer, ReleaseLocks, Released
    <2>3. BucketLocking'
      BY <1>11 DEF BucketLocking, HoldsBucket, CommitUpsert, Answer, ReleaseLocks, Released
    <2> QED BY <2>1, <2>2, <2>3
  <1>12. ASSUME NEW r \in Requests, DeleteQuota(r) PROVE Locking'
    <2>1. KeyLocking'
      BY <1>12 DEF KeyLocking, HoldsKey, DeleteQuota, Take
    <2>2. QuotaLocking'
      BY <1>12 DEF QuotaLocking, HoldsQuota, DeleteQuota, Take, Free
    <2>3. BucketLocking'
      BY <1>12 DEF BucketLocking, HoldsBucket, DeleteQuota, Take
    <2> QED BY <2>1, <2>2, <2>3
  <1>13. ASSUME NEW r \in Requests, WakeDelete(r) PROVE Locking'
    <2>1. KeyLocking'
      BY <1>13 DEF KeyLocking, HoldsKey, WakeDelete, Transition, Take
    <2>2. QuotaLocking'
      BY <1>13 DEF QuotaLocking, HoldsQuota, WakeDelete, Transition, Take, Free
    <2>3. BucketLocking'
      BY <1>13 DEF BucketLocking, HoldsBucket, WakeDelete, Transition, Take
    <2> QED BY <2>1, <2>2, <2>3
  <1>14. ASSUME NEW r \in Requests, CommitDelete(r) PROVE Locking'
    <2>1. KeyLocking'
      BY <1>14 DEF KeyLocking, HoldsKey, CommitDelete, Answer, ReleaseLocks, Released, Waiters
    <2>2. QuotaLocking'
      BY <1>14 DEF QuotaLocking, HoldsQuota, CommitDelete, Answer, ReleaseLocks, Released, Waiters
    <2>3. BucketLocking'
      BY <1>14 DEF BucketLocking, HoldsBucket, CommitDelete, Answer, ReleaseLocks, Released, Waiters
    <2> QED BY <2>1, <2>2, <2>3
  <1>15. ASSUME NEW r \in Requests, AnswerMissing(r) PROVE Locking'
    <2>1. KeyLocking'
      BY <1>15 DEF KeyLocking, HoldsKey, AnswerMissing, Transition, Answer, ReleaseLocks, Released
    <2>2. QuotaLocking'
      BY <1>15 DEF QuotaLocking, HoldsQuota, AnswerMissing, Transition, Answer, ReleaseLocks, Released
    <2>3. BucketLocking'
      BY <1>15 DEF BucketLocking, HoldsBucket, AnswerMissing, Transition, Answer, ReleaseLocks, Released
    <2> QED BY <2>1, <2>2, <2>3
  <1>16. ASSUME NEW r \in Requests, Abort(r) PROVE Locking'
    <2>1. KeyLocking'
      BY <1>16 DEF KeyLocking, HoldsKey, Abort, Answer, ReleaseLocks, Released
    <2>2. QuotaLocking'
      BY <1>16 DEF QuotaLocking, HoldsQuota, Abort, Answer, ReleaseLocks, Released
    <2>3. BucketLocking'
      BY <1>16 DEF BucketLocking, HoldsBucket, Abort, Answer, ReleaseLocks, Released
    <2> QED BY <2>1, <2>2, <2>3
  <1>17. CASE UNCHANGED vars
    BY <1>17 DEF vars, KeyLocking, HoldsKey, QuotaLocking, HoldsQuota, BucketLocking, HoldsBucket
  <1> QED
    BY <1>1, <1>2, <1>3, <1>4, <1>5, <1>6, <1>7, <1>8, <1>9, <1>10, <1>11, <1>12, <1>13, <1>14, <1>15, <1>16, <1>17 DEF Next, Step, Post, ManageQuota

\* Every step keeps what a transaction has seen of the rows it holds.
LEMMA NextStable == Typed /\ Locking /\ Stable /\ [Next]_vars => Stable'
  <1> SUFFICES ASSUME Typed, Locking, Stable, [Next]_vars PROVE Stable'
    OBVIOUS
  <1>0. Typed' /\ Locking'
    BY NextTyped, NextLocking
  <1> USE <1>0, PayloadFacts, PayloadKinds, NullsAssumption
      DEF Typed, TypeOK, Control, Stable, tables, locks, KeyOf, ScopeOf, BucketOf, RowOf
  <1>1. ASSUME NEW r \in Requests, Receive(r) PROVE Stable'
    <2>1. KeyStable'
      BY <1>1 DEF KeyStable, HoldsKey, Locking, KeyLocking, Receive, Transition
    <2>2. BucketStable'
      BY <1>1 DEF BucketStable, HoldsBucket, Locking, BucketLocking, Receive, Transition
    <2>3. QuotaStable'
      BY <1>1 DEF QuotaStable, HoldsQuota, Locking, QuotaLocking, Receive, Transition
    <2>4. QuotaReportsHold'
      BY <1>1 DEF QuotaReportsHold, HoldsQuota, Locking, QuotaLocking, Receive, Transition
    <2> QED BY <2>1, <2>2, <2>3, <2>4 DEF Stable
  <1>2. ASSUME NEW r \in Requests, InsertEventIfNew(r) PROVE Stable'
    <2>1. KeyStable'
      BY <1>2 DEF KeyStable, HoldsKey, Locking, KeyLocking, InsertEventIfNew, Take, MayInsert, Free, Duplicate
    <2>2. BucketStable'
      BY <1>2 DEF BucketStable, HoldsBucket, Locking, BucketLocking, InsertEventIfNew, Take, MayInsert, Free, Duplicate
    <2>3. QuotaStable'
      BY <1>2 DEF QuotaStable, HoldsQuota, Locking, QuotaLocking, InsertEventIfNew, Take, MayInsert, Free, Duplicate
    <2>4. QuotaReportsHold'
      BY <1>2 DEF QuotaReportsHold, HoldsQuota, Locking, QuotaLocking, InsertEventIfNew, Take, MayInsert, Free, Duplicate
    <2> QED BY <2>1, <2>2, <2>3, <2>4 DEF Stable
  <1>3. ASSUME NEW r \in Requests, FindEventByIdempotencyKey(r) PROVE Stable'
    <2>1. KeyStable'
      BY <1>3 DEF KeyStable, HoldsKey, Locking, KeyLocking, FindEventByIdempotencyKey, Transition, Answer, ReleaseLocks, Released, Original
    <2>2. BucketStable'
      BY <1>3 DEF BucketStable, HoldsBucket, Locking, BucketLocking, FindEventByIdempotencyKey, Transition, Answer, ReleaseLocks, Released, Original
    <2>3. QuotaStable'
      BY <1>3 DEF QuotaStable, HoldsQuota, Locking, QuotaLocking, FindEventByIdempotencyKey, Transition, Answer, ReleaseLocks, Released, Original
    <2>4. QuotaReportsHold'
      BY <1>3 DEF QuotaReportsHold, HoldsQuota, Locking, QuotaLocking, FindEventByIdempotencyKey, Transition, Answer, ReleaseLocks, Released, Original
    <2> QED BY <2>1, <2>2, <2>3, <2>4 DEF Stable
  <1>4. ASSUME NEW r \in Requests, LockQuotaRow(r) PROVE Stable'
    <2>1. KeyStable'
      BY <1>4 DEF KeyStable, HoldsKey, Locking, KeyLocking, LockQuotaRow, LockForUpdate, Take, Free, Limits, NoLimit
    <2>2. BucketStable'
      BY <1>4 DEF BucketStable, HoldsBucket, Locking, BucketLocking, LockQuotaRow, LockForUpdate, Take, Free, Limits, NoLimit
    <2>3. QuotaStable'
      BY <1>4 DEF QuotaStable, HoldsQuota, Locking, QuotaLocking, LockQuotaRow, LockForUpdate, Take, Free, Limits, NoLimit
    <2>4. QuotaReportsHold'
      BY <1>4 DEF QuotaReportsHold, HoldsQuota, Locking, QuotaLocking, LockQuotaRow, LockForUpdate, Take, Free, Limits, NoLimit
    <2> QED BY <2>1, <2>2, <2>3, <2>4 DEF Stable
  <1>5. ASSUME NEW r \in Requests, WakeWithQuotaRow(r) PROVE Stable'
    <2>1. KeyStable'
      BY <1>5 DEF KeyStable, HoldsKey, Locking, KeyLocking, WakeWithQuotaRow, Transition, LockForUpdate, Take, Free
    <2>2. BucketStable'
      BY <1>5 DEF BucketStable, HoldsBucket, Locking, BucketLocking, WakeWithQuotaRow, Transition, LockForUpdate, Take, Free
    <2>3. QuotaStable'
      BY <1>5 DEF QuotaStable, HoldsQuota, Locking, QuotaLocking, WakeWithQuotaRow, Transition, LockForUpdate, Take, Free
    <2>4. QuotaReportsHold'
      BY <1>5 DEF QuotaReportsHold, HoldsQuota, Locking, QuotaLocking, WakeWithQuotaRow, Transition, LockForUpdate, Take, Free
    <2> QED BY <2>1, <2>2, <2>3, <2>4 DEF Stable
  <1>6. ASSUME NEW r \in Requests, CheckQuota(r) PROVE Stable'
    <2>1. KeyStable'
      BY <1>6 DEF KeyStable, HoldsKey, Locking, KeyLocking, CheckQuota
    <2>2. BucketStable'
      BY <1>6 DEF BucketStable, HoldsBucket, Locking, BucketLocking, CheckQuota
    <2>3. QuotaStable'
      BY <1>6 DEF QuotaStable, HoldsQuota, Locking, QuotaLocking, CheckQuota
    <2>4. QuotaReportsHold'
      BY <1>6 DEF QuotaReportsHold, HoldsQuota, Locking, QuotaLocking, CheckQuota
    <2> QED BY <2>1, <2>2, <2>3, <2>4 DEF Stable
  <1>7. ASSUME NEW r \in Requests, RejectEvent(r) PROVE Stable'
    <2>1. KeyStable'
      BY <1>7 DEF KeyStable, HoldsKey, Locking, KeyLocking, RejectEvent, Transition, Answer, ReleaseLocks, Released
    <2>2. BucketStable'
      BY <1>7 DEF BucketStable, HoldsBucket, Locking, BucketLocking, RejectEvent, Transition, Answer, ReleaseLocks, Released
    <2>3. QuotaStable'
      BY <1>7 DEF QuotaStable, HoldsQuota, Locking, QuotaLocking, RejectEvent, Transition, Answer, ReleaseLocks, Released
    <2>4. QuotaReportsHold'
      BY <1>7 DEF QuotaReportsHold, HoldsQuota, Locking, QuotaLocking, RejectEvent, Transition, Answer, ReleaseLocks, Released
    <2> QED BY <2>1, <2>2, <2>3, <2>4 DEF Stable
  <1>8. ASSUME NEW r \in Requests, IncrementUsageRollup(r) PROVE Stable'
    <2>1. KeyStable'
      BY <1>8 DEF KeyStable, HoldsKey, Locking, KeyLocking, IncrementUsageRollup, Take, Incremented, MayCount, Free, Limits, NoLimit
    <2>2. BucketStable'
      BY <1>8 DEF BucketStable, HoldsBucket, Locking, BucketLocking, IncrementUsageRollup, Take, Incremented, MayCount, Free, Limits, NoLimit
    <2>3. QuotaStable'
      BY <1>8 DEF QuotaStable, HoldsQuota, Locking, QuotaLocking, IncrementUsageRollup, Take, Incremented, MayCount, Free, Limits, NoLimit
    <2>4. QuotaReportsHold'
      BY <1>8 DEF QuotaReportsHold, HoldsQuota, Locking, QuotaLocking, IncrementUsageRollup, Take, Incremented, MayCount, Free, Limits, NoLimit
    <2> QED BY <2>1, <2>2, <2>3, <2>4 DEF Stable
  <1>9. ASSUME NEW r \in Requests, CommitEvent(r) PROVE Stable'
    <2>1. KeyStable'
      BY <1>9 DEF KeyStable, HoldsKey, Locking, KeyLocking, CommitEvent, Transition, Answer, ReleaseLocks, Released
    <2>2. BucketStable'
      BY <1>9 DEF BucketStable, HoldsBucket, Locking, BucketLocking, CommitEvent, Transition, Answer, ReleaseLocks, Released
    <2>3. QuotaStable'
      BY <1>9 DEF QuotaStable, HoldsQuota, Locking, QuotaLocking, CommitEvent, Transition, Answer, ReleaseLocks, Released
    <2>4. QuotaReportsHold'
      BY <1>9 DEF QuotaReportsHold, HoldsQuota, Locking, QuotaLocking, CommitEvent, Transition, Answer, ReleaseLocks, Released
    <2> QED BY <2>1, <2>2, <2>3, <2>4 DEF Stable
  <1>10. ASSUME NEW r \in Requests, UpsertQuota(r) PROVE Stable'
    <2>1. KeyStable'
      BY <1>10 DEF KeyStable, HoldsKey, Locking, KeyLocking, UpsertQuota, Take, MayUpsert, Free
    <2>2. BucketStable'
      BY <1>10 DEF BucketStable, HoldsBucket, Locking, BucketLocking, UpsertQuota, Take, MayUpsert, Free
    <2>3. QuotaStable'
      BY <1>10 DEF QuotaStable, HoldsQuota, Locking, QuotaLocking, UpsertQuota, Take, MayUpsert, Free
    <2>4. QuotaReportsHold'
      BY <1>10 DEF QuotaReportsHold, HoldsQuota, Locking, QuotaLocking, UpsertQuota, Take, MayUpsert, Free
    <2> QED BY <2>1, <2>2, <2>3, <2>4 DEF Stable
  <1>11. ASSUME NEW r \in Requests, CommitUpsert(r) PROVE Stable'
    <2>1. KeyStable'
      BY <1>11 DEF KeyStable, HoldsKey, Locking, KeyLocking, CommitUpsert, Answer, ReleaseLocks, Released
    <2>2. BucketStable'
      BY <1>11 DEF BucketStable, HoldsBucket, Locking, BucketLocking, CommitUpsert, Answer, ReleaseLocks, Released
    <2>3. QuotaStable'
      BY <1>11 DEF QuotaStable, HoldsQuota, Locking, QuotaLocking, CommitUpsert, Answer, ReleaseLocks, Released
    <2>4. QuotaReportsHold'
      BY <1>11 DEF QuotaReportsHold, HoldsQuota, Locking, QuotaLocking, CommitUpsert, Answer, ReleaseLocks, Released
    <2> QED BY <2>1, <2>2, <2>3, <2>4 DEF Stable
  <1>12. ASSUME NEW r \in Requests, DeleteQuota(r) PROVE Stable'
    <2>1. KeyStable'
      BY <1>12 DEF KeyStable, HoldsKey, Locking, KeyLocking, DeleteQuota, Take, Free
    <2>2. BucketStable'
      BY <1>12 DEF BucketStable, HoldsBucket, Locking, BucketLocking, DeleteQuota, Take, Free
    <2>3. QuotaStable'
      BY <1>12 DEF QuotaStable, HoldsQuota, Locking, QuotaLocking, DeleteQuota, Take, Free
    <2>4. QuotaReportsHold'
      BY <1>12 DEF QuotaReportsHold, HoldsQuota, Locking, QuotaLocking, DeleteQuota, Take, Free
    <2> QED BY <2>1, <2>2, <2>3, <2>4 DEF Stable
  <1>13. ASSUME NEW r \in Requests, WakeDelete(r) PROVE Stable'
    <2>1. KeyStable'
      BY <1>13 DEF KeyStable, HoldsKey, Locking, KeyLocking, WakeDelete, Transition, Take, Free
    <2>2. BucketStable'
      BY <1>13 DEF BucketStable, HoldsBucket, Locking, BucketLocking, WakeDelete, Transition, Take, Free
    <2>3. QuotaStable'
      BY <1>13 DEF QuotaStable, HoldsQuota, Locking, QuotaLocking, WakeDelete, Transition, Take, Free
    <2>4. QuotaReportsHold'
      BY <1>13 DEF QuotaReportsHold, HoldsQuota, Locking, QuotaLocking, WakeDelete, Transition, Take, Free
    <2> QED BY <2>1, <2>2, <2>3, <2>4 DEF Stable
  <1>14. ASSUME NEW r \in Requests, CommitDelete(r) PROVE Stable'
    <2>1. KeyStable'
      BY <1>14 DEF KeyStable, HoldsKey, Locking, KeyLocking, CommitDelete, Answer, ReleaseLocks, Released, Waiters
    <2>2. BucketStable'
      BY <1>14 DEF BucketStable, HoldsBucket, Locking, BucketLocking, CommitDelete, Answer, ReleaseLocks, Released, Waiters
    <2>3. QuotaStable'
      BY <1>14 DEF QuotaStable, HoldsQuota, Locking, QuotaLocking, CommitDelete, Answer, ReleaseLocks, Released, Waiters
    <2>4. QuotaReportsHold'
      BY <1>14 DEF QuotaReportsHold, HoldsQuota, Locking, QuotaLocking, CommitDelete, Answer, ReleaseLocks, Released, Waiters
    <2> QED BY <2>1, <2>2, <2>3, <2>4 DEF Stable
  <1>15. ASSUME NEW r \in Requests, AnswerMissing(r) PROVE Stable'
    <2>1. KeyStable'
      BY <1>15 DEF KeyStable, HoldsKey, Locking, KeyLocking, AnswerMissing, Transition, Answer, ReleaseLocks, Released
    <2>2. BucketStable'
      BY <1>15 DEF BucketStable, HoldsBucket, Locking, BucketLocking, AnswerMissing, Transition, Answer, ReleaseLocks, Released
    <2>3. QuotaStable'
      BY <1>15 DEF QuotaStable, HoldsQuota, Locking, QuotaLocking, AnswerMissing, Transition, Answer, ReleaseLocks, Released
    <2>4. QuotaReportsHold'
      BY <1>15 DEF QuotaReportsHold, HoldsQuota, Locking, QuotaLocking, AnswerMissing, Transition, Answer, ReleaseLocks, Released
    <2> QED BY <2>1, <2>2, <2>3, <2>4 DEF Stable
  <1>16. ASSUME NEW r \in Requests, Abort(r) PROVE Stable'
    <2>1. KeyStable'
      BY <1>16 DEF KeyStable, HoldsKey, Locking, KeyLocking, Abort, Answer, ReleaseLocks, Released
    <2>2. BucketStable'
      BY <1>16 DEF BucketStable, HoldsBucket, Locking, BucketLocking, Abort, Answer, ReleaseLocks, Released
    <2>3. QuotaStable'
      BY <1>16 DEF QuotaStable, HoldsQuota, Locking, QuotaLocking, Abort, Answer, ReleaseLocks, Released
    <2>4. QuotaReportsHold'
      BY <1>16 DEF QuotaReportsHold, HoldsQuota, Locking, QuotaLocking, Abort, Answer, ReleaseLocks, Released
    <2> QED BY <2>1, <2>2, <2>3, <2>4 DEF Stable
  <1>17. CASE UNCHANGED vars
    BY <1>17 DEF vars, KeyStable, HoldsKey, BucketStable, HoldsBucket, QuotaStable, HoldsQuota, QuotaReportsHold
  <1> QED
    BY <1>1, <1>2, <1>3, <1>4, <1>5, <1>6, <1>7, <1>8, <1>9, <1>10, <1>11, <1>12, <1>13, <1>14, <1>15, <1>16, <1>17 DEF Next, Step, Post, ManageQuota

Recorded == LedgerFaithful /\ Idempotent /\ NoIdempotencyRace

\* Every step keeps the ledger true to the requests that committed, and the
\* answers true to the ledger.
LEMMA NextRecorded == Typed /\ Locking /\ Stable /\ Recorded /\ [Next]_vars => Recorded'
  <1> SUFFICES ASSUME Typed, Locking, Stable, Recorded, [Next]_vars PROVE Recorded'
    OBVIOUS
  <1>0. Typed'
    BY NextTyped
  <1>a. \A k \in EventKey : events[k] # NoRow => events[k].id \in Requests
    BY DEF Typed, TypeOK, EventRow
  <1> USE <1>0, <1>a, PayloadFacts, PayloadKinds, NullsAssumption
      DEF Typed, TypeOK, Control, Recorded, tables, locks, KeyOf, ScopeOf, BucketOf, RowOf
  <1>1. ASSUME NEW r \in Requests, Receive(r) PROVE Recorded'
    <2>1. LedgerFaithful'
      BY <1>1 DEF LedgerFaithful, Stable, KeyStable, HoldsKey, Receive, Transition
    <2>2. Idempotent'
      BY <1>1 DEF Idempotent, LedgerFaithful, Stable, KeyStable, HoldsKey, Receive, Transition
    <2>3. NoIdempotencyRace'
      BY <1>1 DEF NoIdempotencyRace, Stable, KeyStable, Receive, Transition
    <2> QED BY <2>1, <2>2, <2>3 DEF Recorded
  <1>2. ASSUME NEW r \in Requests, InsertEventIfNew(r) PROVE Recorded'
    <2>1. LedgerFaithful'
      BY <1>2 DEF LedgerFaithful, Stable, KeyStable, HoldsKey, InsertEventIfNew, Take, MayInsert, Free, Duplicate
    <2>2. Idempotent'
      BY <1>2 DEF Idempotent, LedgerFaithful, Stable, KeyStable, HoldsKey, InsertEventIfNew, Take, MayInsert, Free, Duplicate
    <2>3. NoIdempotencyRace'
      BY <1>2 DEF NoIdempotencyRace, Stable, KeyStable, InsertEventIfNew, Take, MayInsert, Free, Duplicate
    <2> QED BY <2>1, <2>2, <2>3 DEF Recorded
  <1>3. ASSUME NEW r \in Requests, FindEventByIdempotencyKey(r) PROVE Recorded'
    <2>1. LedgerFaithful'
      BY <1>3 DEF LedgerFaithful, Stable, KeyStable, HoldsKey, FindEventByIdempotencyKey, Transition, Answer, ReleaseLocks, Released, Original
    <2>2. Idempotent'
      <3>1. /\ req[r] \in PostPayload
            /\ KeyOf(r) \in EventKey
            /\ events[KeyOf(r)] # NoRow
        BY <1>3 DEF Stable, KeyStable, FindEventByIdempotencyKey, Transition
      <3> DEFINE a == events[KeyOf(r)].id
      <3>2. a \in Requests /\ pc[a] = "done" /\ KeyOf(a) = KeyOf(r)
        BY <3>1 DEF LedgerFaithful
      <3>3. a # r
        BY <1>3, <3>2 DEF FindEventByIdempotencyKey, Transition
      <3>4. req[a].tenant = req[r].tenant
        BY <3>2 DEF KeyIn
      <3>5. /\ outcome' = [outcome EXCEPT ![r] = "replayed"]
            /\ returned' = [returned EXCEPT ![r] = events[KeyOf(r)]]
            /\ UNCHANGED <<events, req>>
        BY <1>3, <3>1 DEF FindEventByIdempotencyKey, Answer, Original
      <3>6. QED
        BY <3>1, <3>2, <3>3, <3>4, <3>5 DEF Idempotent
    <2>3. NoIdempotencyRace'
      BY <1>3 DEF NoIdempotencyRace, Stable, KeyStable, FindEventByIdempotencyKey, Transition, Answer, ReleaseLocks, Released, Original
    <2> QED BY <2>1, <2>2, <2>3 DEF Recorded
  <1>4. ASSUME NEW r \in Requests, LockQuotaRow(r) PROVE Recorded'
    <2>1. LedgerFaithful'
      BY <1>4 DEF LedgerFaithful, Stable, KeyStable, HoldsKey, LockQuotaRow, LockForUpdate, Take, Free, Limits, NoLimit
    <2>2. Idempotent'
      BY <1>4 DEF Idempotent, LedgerFaithful, Stable, KeyStable, HoldsKey, LockQuotaRow, LockForUpdate, Take, Free, Limits, NoLimit
    <2>3. NoIdempotencyRace'
      BY <1>4 DEF NoIdempotencyRace, Stable, KeyStable, LockQuotaRow, LockForUpdate, Take, Free, Limits, NoLimit
    <2> QED BY <2>1, <2>2, <2>3 DEF Recorded
  <1>5. ASSUME NEW r \in Requests, WakeWithQuotaRow(r) PROVE Recorded'
    <2>1. LedgerFaithful'
      BY <1>5 DEF LedgerFaithful, Stable, KeyStable, HoldsKey, WakeWithQuotaRow, Transition, LockForUpdate, Take, Free
    <2>2. Idempotent'
      BY <1>5 DEF Idempotent, LedgerFaithful, Stable, KeyStable, HoldsKey, WakeWithQuotaRow, Transition, LockForUpdate, Take, Free
    <2>3. NoIdempotencyRace'
      BY <1>5 DEF NoIdempotencyRace, Stable, KeyStable, WakeWithQuotaRow, Transition, LockForUpdate, Take, Free
    <2> QED BY <2>1, <2>2, <2>3 DEF Recorded
  <1>6. ASSUME NEW r \in Requests, CheckQuota(r) PROVE Recorded'
    <2>1. LedgerFaithful'
      BY <1>6 DEF LedgerFaithful, Stable, KeyStable, HoldsKey, CheckQuota
    <2>2. Idempotent'
      BY <1>6 DEF Idempotent, LedgerFaithful, Stable, KeyStable, HoldsKey, CheckQuota
    <2>3. NoIdempotencyRace'
      BY <1>6 DEF NoIdempotencyRace, Stable, KeyStable, CheckQuota
    <2> QED BY <2>1, <2>2, <2>3 DEF Recorded
  <1>7. ASSUME NEW r \in Requests, RejectEvent(r) PROVE Recorded'
    <2>1. LedgerFaithful'
      BY <1>7 DEF LedgerFaithful, Stable, KeyStable, HoldsKey, RejectEvent, Transition, Answer, ReleaseLocks, Released
    <2>2. Idempotent'
      BY <1>7 DEF Idempotent, LedgerFaithful, Stable, KeyStable, HoldsKey, RejectEvent, Transition, Answer, ReleaseLocks, Released
    <2>3. NoIdempotencyRace'
      BY <1>7 DEF NoIdempotencyRace, Stable, KeyStable, RejectEvent, Transition, Answer, ReleaseLocks, Released
    <2> QED BY <2>1, <2>2, <2>3 DEF Recorded
  <1>8. ASSUME NEW r \in Requests, IncrementUsageRollup(r) PROVE Recorded'
    <2>1. LedgerFaithful'
      BY <1>8 DEF LedgerFaithful, Stable, KeyStable, HoldsKey, IncrementUsageRollup, Take, Incremented, MayCount, Free, Limits, NoLimit
    <2>2. Idempotent'
      BY <1>8 DEF Idempotent, LedgerFaithful, Stable, KeyStable, HoldsKey, IncrementUsageRollup, Take, Incremented, MayCount, Free, Limits, NoLimit
    <2>3. NoIdempotencyRace'
      BY <1>8 DEF NoIdempotencyRace, Stable, KeyStable, IncrementUsageRollup, Take, Incremented, MayCount, Free, Limits, NoLimit
    <2> QED BY <2>1, <2>2, <2>3 DEF Recorded
  <1>9. ASSUME NEW r \in Requests, CommitEvent(r) PROVE Recorded'
    <2>1. LedgerFaithful'
      BY <1>9 DEF LedgerFaithful, Stable, KeyStable, HoldsKey, CommitEvent, Transition, Answer, ReleaseLocks, Released, RowIn
    <2>2. Idempotent'
      BY <1>9 DEF Idempotent, LedgerFaithful, Stable, KeyStable, HoldsKey, CommitEvent, Transition, Answer, ReleaseLocks, Released
    <2>3. NoIdempotencyRace'
      BY <1>9 DEF NoIdempotencyRace, Stable, KeyStable, CommitEvent, Transition, Answer, ReleaseLocks, Released
    <2> QED BY <2>1, <2>2, <2>3 DEF Recorded
  <1>10. ASSUME NEW r \in Requests, UpsertQuota(r) PROVE Recorded'
    <2>1. LedgerFaithful'
      BY <1>10 DEF LedgerFaithful, Stable, KeyStable, HoldsKey, UpsertQuota, Take, MayUpsert, Free
    <2>2. Idempotent'
      BY <1>10 DEF Idempotent, LedgerFaithful, Stable, KeyStable, HoldsKey, UpsertQuota, Take, MayUpsert, Free
    <2>3. NoIdempotencyRace'
      BY <1>10 DEF NoIdempotencyRace, Stable, KeyStable, UpsertQuota, Take, MayUpsert, Free
    <2> QED BY <2>1, <2>2, <2>3 DEF Recorded
  <1>11. ASSUME NEW r \in Requests, CommitUpsert(r) PROVE Recorded'
    <2>1. LedgerFaithful'
      BY <1>11 DEF LedgerFaithful, Stable, KeyStable, HoldsKey, CommitUpsert, Answer, ReleaseLocks, Released
    <2>2. Idempotent'
      BY <1>11 DEF Idempotent, LedgerFaithful, Stable, KeyStable, HoldsKey, CommitUpsert, Answer, ReleaseLocks, Released
    <2>3. NoIdempotencyRace'
      BY <1>11 DEF NoIdempotencyRace, Stable, KeyStable, CommitUpsert, Answer, ReleaseLocks, Released
    <2> QED BY <2>1, <2>2, <2>3 DEF Recorded
  <1>12. ASSUME NEW r \in Requests, DeleteQuota(r) PROVE Recorded'
    <2>1. LedgerFaithful'
      BY <1>12 DEF LedgerFaithful, Stable, KeyStable, HoldsKey, DeleteQuota, Take, Free
    <2>2. Idempotent'
      BY <1>12 DEF Idempotent, LedgerFaithful, Stable, KeyStable, HoldsKey, DeleteQuota, Take, Free
    <2>3. NoIdempotencyRace'
      BY <1>12 DEF NoIdempotencyRace, Stable, KeyStable, DeleteQuota, Take, Free
    <2> QED BY <2>1, <2>2, <2>3 DEF Recorded
  <1>13. ASSUME NEW r \in Requests, WakeDelete(r) PROVE Recorded'
    <2>1. LedgerFaithful'
      BY <1>13 DEF LedgerFaithful, Stable, KeyStable, HoldsKey, WakeDelete, Transition, Take, Free
    <2>2. Idempotent'
      BY <1>13 DEF Idempotent, LedgerFaithful, Stable, KeyStable, HoldsKey, WakeDelete, Transition, Take, Free
    <2>3. NoIdempotencyRace'
      BY <1>13 DEF NoIdempotencyRace, Stable, KeyStable, WakeDelete, Transition, Take, Free
    <2> QED BY <2>1, <2>2, <2>3 DEF Recorded
  <1>14. ASSUME NEW r \in Requests, CommitDelete(r) PROVE Recorded'
    <2>1. LedgerFaithful'
      BY <1>14 DEF LedgerFaithful, Stable, KeyStable, HoldsKey, CommitDelete, Answer, ReleaseLocks, Released, Waiters
    <2>2. Idempotent'
      BY <1>14 DEF Idempotent, LedgerFaithful, Stable, KeyStable, HoldsKey, CommitDelete, Answer, ReleaseLocks, Released, Waiters
    <2>3. NoIdempotencyRace'
      BY <1>14 DEF NoIdempotencyRace, Stable, KeyStable, CommitDelete, Answer, ReleaseLocks, Released, Waiters
    <2> QED BY <2>1, <2>2, <2>3 DEF Recorded
  <1>15. ASSUME NEW r \in Requests, AnswerMissing(r) PROVE Recorded'
    <2>1. LedgerFaithful'
      BY <1>15 DEF LedgerFaithful, Stable, KeyStable, HoldsKey, AnswerMissing, Transition, Answer, ReleaseLocks, Released
    <2>2. Idempotent'
      BY <1>15 DEF Idempotent, LedgerFaithful, Stable, KeyStable, HoldsKey, AnswerMissing, Transition, Answer, ReleaseLocks, Released
    <2>3. NoIdempotencyRace'
      BY <1>15 DEF NoIdempotencyRace, Stable, KeyStable, AnswerMissing, Transition, Answer, ReleaseLocks, Released
    <2> QED BY <2>1, <2>2, <2>3 DEF Recorded
  <1>16. ASSUME NEW r \in Requests, Abort(r) PROVE Recorded'
    <2>1. LedgerFaithful'
      BY <1>16 DEF LedgerFaithful, Stable, KeyStable, HoldsKey, Abort, Answer, ReleaseLocks, Released
    <2>2. Idempotent'
      BY <1>16 DEF Idempotent, LedgerFaithful, Stable, KeyStable, HoldsKey, Abort, Answer, ReleaseLocks, Released
    <2>3. NoIdempotencyRace'
      BY <1>16 DEF NoIdempotencyRace, Stable, KeyStable, Abort, Answer, ReleaseLocks, Released
    <2> QED BY <2>1, <2>2, <2>3 DEF Recorded
  <1>17. CASE UNCHANGED vars
    BY <1>17 DEF vars, LedgerFaithful, Idempotent, NoIdempotencyRace
  <1> QED
    BY <1>1, <1>2, <1>3, <1>4, <1>5, <1>6, <1>7, <1>8, <1>9, <1>10, <1>11, <1>12, <1>13, <1>14, <1>15, <1>16, <1>17 DEF Next, Step, Post, ManageQuota

-----------------------------------------------------------------------------
(***************************************************************************)
(* Counting: the rollup against the ledger.                                *)
(***************************************************************************)

\* There are finitely many keys, so finitely many events in a bucket.
LEMMA FiniteKeys == \A K \in SUBSET EventKey : IsFiniteSet(K)
  <1>1. IsFiniteSet(EventKey)
    BY SetsAssumption, FS_Product DEF EventKey
  <1> QED
    BY <1>1, FS_Subset

\* One more event of quantity q adds q units to a sum counted unit by unit.
LEMMA OneMoreEvent ==
  ASSUME NEW K, IsFiniteSet(K), NEW k, k \notin K,
         NEW e, NEW f, \A x \in K : f[x] = e[x],
         NEW q \in Quantities, f[k].qty = q
  PROVE  /\ Cardinality({u \in K \X Quantities : u[2] <= e[u[1]].qty}) \in Nat
         /\ Cardinality({u \in (K \cup {k}) \X Quantities : u[2] <= f[u[1]].qty})
              = Cardinality({u \in K \X Quantities : u[2] <= e[u[1]].qty}) + q
  <1> DEFINE U == {u \in K \X Quantities : u[2] <= e[u[1]].qty}
             V == {u \in (K \cup {k}) \X Quantities : u[2] <= f[u[1]].qty}
             W == {k} \X (1..q)
  <1>1. q \in Nat /\ IsFiniteSet(Quantities)
    BY BoundsAssumption, FS_Interval DEF Quantities
  <1>2. IsFiniteSet(U)
    <2>1. IsFiniteSet(K \X Quantities)
      BY <1>1, FS_Product
    <2> QED
      BY <2>1, FS_Subset
  <1>3. IsFiniteSet(W) /\ Cardinality(W) = q
    <2>1. IsFiniteSet(1..q) /\ Cardinality(1..q) = q
      BY <1>1, FS_Interval
    <2>2. IsFiniteSet({k}) /\ Cardinality({k}) = 1
      BY FS_Singleton
    <2>3. /\ IsFiniteSet(W)
          /\ Cardinality(W) = Cardinality({k}) * Cardinality(1..q)
      <3> HIDE DEF W
      <3>1. IsFiniteSet({k} \X (1..q)) /\
            Cardinality({k} \X (1..q)) = Cardinality({k}) * Cardinality(1..q)
        BY <2>1, <2>2, FS_Product
      <3> QED
        BY <3>1 DEF W
    <2> QED
      BY <2>1, <2>2, <2>3, <1>1
  <1>4. V = U \cup W
    <2>1. V \subseteq U \cup W
      BY <1>1, BoundsAssumption DEF Quantities
    <2>2. U \subseteq V
      OBVIOUS
    <2>3. W \subseteq V
      BY <1>1, BoundsAssumption DEF Quantities
    <2> QED
      BY <2>1, <2>2, <2>3
  <1>5. U \cap W = {}
    OBVIOUS
  <1>6. Cardinality(U \cup W) = Cardinality(U) + Cardinality(W) - Cardinality(U \cap W)
    BY <1>2, <1>3, FS_Union
  <1>7. Cardinality(U \cap W) = 0 /\ Cardinality(U) \in Nat
    BY <1>5, <1>2, FS_EmptySet, FS_CardinalityType
  <1>8. Cardinality(U) \in Nat /\ Cardinality(V) = Cardinality(U) + q
    <2> HIDE DEF U, V, W
    <2> QED
      BY <1>1, <1>3, <1>4, <1>6, <1>7
  <1> QED
    BY <1>8

\* Where a key's event is the same before and after, so is the sum.
LEMMA SameEvents ==
  ASSUME NEW K, NEW e, NEW f, \A x \in K : f[x] = e[x]
  PROVE  {u \in K \X Quantities : u[2] <= f[u[1]].qty}
           = {u \in K \X Quantities : u[2] <= e[u[1]].qty}
  OBVIOUS

\* Only the commit of a POST writes the events and usage_rollup tables.
LEMMA OnlyCommitsWrite ==
    [Next]_vars => \/ UNCHANGED <<events, rollup>>
                   \/ \E r \in Requests : CommitEvent(r)
  BY DEF Next, Step, Post, ManageQuota, vars, tables, Receive, InsertEventIfNew,
         FindEventByIdempotencyKey, LockQuotaRow, WakeWithQuotaRow, CheckQuota,
         RejectEvent, IncrementUsageRollup, UpsertQuota, CommitUpsert,
         DeleteQuota, WakeDelete, CommitDelete, AnswerMissing, Abort

\* What a commit does to the two tables: one event that was not there enters
\* one bucket, whose total and count grow by its quantity and by one.
LEMMA CommitEffect ==
  ASSUME Typed, Stable, NEW r \in Requests, CommitEvent(r)
  PROVE  /\ KeyOf(r) \in EventKey
         /\ BucketOf(r) \in Bucket
         /\ events[KeyOf(r)] = NoRow
         /\ req[r].qty \in Quantities
         /\ events' = [events EXCEPT ![KeyOf(r)] = RowOf(r)]
         /\ rollup' = [rollup EXCEPT ![BucketOf(r)] =
                          Incremented(rollup[BucketOf(r)], req[r].qty)]
         /\ \A c \in Bucket :
               /\ KeyOf(r) \notin EventsIn(c)
               /\ EventsIn(c)' = EventsIn(c) \cup (IF c = BucketOf(r) THEN {KeyOf(r)} ELSE {})
               /\ \A k \in EventsIn(c) : events'[k] = events[k]
  <1>1. pc[r] = "counted" /\ req[r] \in PostPayload
    BY DEF Typed, Control, CommitEvent, Transition
  <1>2. /\ KeyOf(r) \in EventKey
        /\ BucketOf(r) \in Bucket
        /\ RowOf(r) \in EventRow
    BY <1>1, PayloadFacts, PayloadKinds DEF KeyOf, BucketOf, RowOf
  <1>3. req[r].qty \in Quantities
    BY <1>1 DEF PostPayload
  <1>4. /\ events[KeyOf(r)] = NoRow
        /\ counted[r] = Incremented(rollup[BucketOf(r)], req[r].qty)
    BY <1>1, PayloadFacts, PayloadKinds
    DEF Stable, KeyStable, HoldsKey, BucketStable, HoldsBucket
  <1>5. /\ events' = [events EXCEPT ![KeyOf(r)] = RowOf(r)]
        /\ rollup' = [rollup EXCEPT ![BucketOf(r)] =
                         Incremented(rollup[BucketOf(r)], req[r].qty)]
    BY <1>4 DEF CommitEvent
  <1>6. ASSUME NEW c \in Bucket
        PROVE  /\ KeyOf(r) \notin EventsIn(c)
               /\ EventsIn(c)' = EventsIn(c) \cup (IF c = BucketOf(r) THEN {KeyOf(r)} ELSE {})
               /\ \A k \in EventsIn(c) : events'[k] = events[k]
    <2>1. KeyOf(r) \notin EventsIn(c)
      BY <1>4 DEF EventsIn
    <2>2. \A k \in EventKey : k # KeyOf(r) => events'[k] = events[k]
      BY <1>5, <1>2 DEF Typed, TypeOK
    <2>3. events'[KeyOf(r)] = RowOf(r) /\ RowOf(r) # NoRow
      BY <1>5, <1>2, NullsAssumption DEF Typed, TypeOK
    <2>4. KeyOf(r) \in EventsIn(c)' <=> c = BucketOf(r)
      <3>1. /\ KeyOf(r)[1] = req[r].tenant
            /\ RowOf(r).meter = req[r].meter
            /\ RowOf(r).win = req[r].win
        BY DEF KeyOf, KeyIn, RowOf, RowIn
      <3>2. c = BucketOf(r) <=> /\ req[r].tenant = c[1]
                                /\ req[r].meter = c[2]
                                /\ req[r].win = c[3]
        BY DEF BucketOf, BucketIn, Bucket
      <3>3. KeyOf(r) \in EventsIn(c)' <=>
              /\ req[r].tenant = c[1]
              /\ req[r].meter = c[2]
              /\ req[r].win = c[3]
        BY <3>1, <2>3, <1>2 DEF EventsIn
      <3> QED
        BY <3>2, <3>3
    <2>5. \A k \in EventKey : k # KeyOf(r) => (k \in EventsIn(c)' <=> k \in EventsIn(c))
      BY <2>2 DEF EventsIn
    <2>6. EventsIn(c)' \subseteq EventKey /\ EventsIn(c) \subseteq EventKey
      BY DEF EventsIn
    <2>7. EventsIn(c)' = EventsIn(c) \cup (IF c = BucketOf(r) THEN {KeyOf(r)} ELSE {})
      BY <2>1, <2>4, <2>5, <2>6, <1>2
    <2>8. \A k \in EventsIn(c) : events'[k] = events[k]
      BY <2>1, <2>2, <2>6
    <2> QED
      BY <2>1, <2>7, <2>8
  <1> QED
    BY <1>2, <1>3, <1>4, <1>5, <1>6

\* Every step keeps the rollup equal to the sum and the number of the events.
LEMMA NextCounted ==
    Typed /\ Stable /\ RollupMatchesEvents /\ [Next]_vars => RollupMatchesEvents'
  <1> SUFFICES ASSUME Typed, Stable, RollupMatchesEvents, [Next]_vars
               PROVE  RollupMatchesEvents'
    OBVIOUS
  <1>1. CASE UNCHANGED <<events, rollup>>
    <2> SUFFICES ASSUME NEW b \in Bucket
                 PROVE  /\ rollup'[b].total = QuantityOf(EventsIn(b))'
                        /\ rollup'[b].count = Cardinality(EventsIn(b)')
      BY DEF RollupMatchesEvents
    <2>1. EventsIn(b)' = EventsIn(b)
      BY <1>1 DEF EventsIn
    <2>2. QuantityOf(EventsIn(b))' = QuantityOf(EventsIn(b))
      BY <1>1, <2>1 DEF QuantityOf
    <2> QED BY <1>1, <2>1, <2>2 DEF RollupMatchesEvents
  <1>2. ASSUME NEW r \in Requests, CommitEvent(r), NEW c \in Bucket
        PROVE  /\ rollup'[c].total = QuantityOf(EventsIn(c))'
               /\ rollup'[c].count = Cardinality(EventsIn(c)')
    <2> DEFINE k == KeyOf(r)
               K == EventsIn(c)
    <2>1. /\ BucketOf(r) \in Bucket
          /\ req[r].qty \in Quantities
          /\ rollup' = [rollup EXCEPT ![BucketOf(r)] =
                           Incremented(rollup[BucketOf(r)], req[r].qty)]
          /\ k \notin K
          /\ K' = K \cup (IF c = BucketOf(r) THEN {k} ELSE {})
          /\ \A x \in K : events'[x] = events[x]
      BY <1>2, CommitEffect
    <2>2. K \in SUBSET EventKey /\ IsFiniteSet(K)
      BY FiniteKeys DEF EventsIn
    <2>3. /\ rollup[c].total = QuantityOf(K)
          /\ rollup[c].count = Cardinality(K)
      BY DEF RollupMatchesEvents
    <2>4. CASE c = BucketOf(r)
      <3>1. rollup'[c] = Incremented(rollup[c], req[r].qty)
        BY <2>1, <2>4 DEF Typed, TypeOK
      <3>2. K' = K \cup {k}
        BY <2>1, <2>4
      <3>3. events'[k].qty = req[r].qty
        BY <1>2, CommitEffect DEF Typed, TypeOK, RowOf, RowIn
      <3>4. Cardinality(K') = Cardinality(K) + 1
        BY <2>1, <2>2, <3>2, FS_AddElement
      <3>5. QuantityOf(EventsIn(c))' = QuantityOf(K) + req[r].qty
        <4> HIDE DEF K, k
        <4>1. Cardinality({u \in (K \cup {k}) \X Quantities : u[2] <= events'[u[1]].qty})
                = Cardinality({u \in K \X Quantities : u[2] <= events[u[1]].qty}) + req[r].qty
          BY <2>1, <2>2, <3>3, OneMoreEvent
        <4> QED
          BY <4>1, <3>2 DEF QuantityOf, K
      <3> QED
        BY <2>3, <3>1, <3>4, <3>5 DEF Incremented
    <2>5. CASE c # BucketOf(r)
      <3>1. rollup'[c] = rollup[c] /\ K' = K
        BY <2>1, <2>5 DEF Typed, TypeOK
      <3>2. QuantityOf(EventsIn(c))' = QuantityOf(K)
        BY <2>1, <3>1, SameEvents DEF QuantityOf
      <3> QED
        BY <2>3, <3>1, <3>2
    <2> QED
      BY <2>4, <2>5
  <1> QED
    BY <1>1, <1>2, OnlyCommitsWrite DEF RollupMatchesEvents

\* A sum over fewer events is no larger.
LEMMA FewerEvents ==
  ASSUME NEW L \in SUBSET EventKey, NEW K \in SUBSET L
  PROVE  QuantityOf(K) \in Nat /\ QuantityOf(L) \in Nat /\ QuantityOf(K) <= QuantityOf(L)
  <1> DEFINE U == {u \in K \X Quantities : u[2] <= events[u[1]].qty}
             V == {u \in L \X Quantities : u[2] <= events[u[1]].qty}
  <1>1. IsFiniteSet(L) /\ IsFiniteSet(Quantities)
    BY FiniteKeys, BoundsAssumption, FS_Interval DEF Quantities
  <1>2. IsFiniteSet(L \X Quantities)
    BY <1>1, FS_Product
  <1>3. IsFiniteSet(V)
    BY <1>2, FS_Subset
  <1>4. U \in SUBSET V
    OBVIOUS
  <1>5. IsFiniteSet(U) /\ Cardinality(U) <= Cardinality(V)
    BY <1>3, <1>4, FS_Subset
  <1>6. Cardinality(U) \in Nat /\ Cardinality(V) \in Nat
    BY <1>3, <1>5, FS_CardinalityType
  <1> QED
    BY <1>5, <1>6 DEF QuantityOf

\* A request that is done keeps the limit its event was checked against.
LEMMA LimitSettled ==
    Typed /\ [Next]_vars => \A a \in Requests : pc[a] = "done" => limit'[a] = limit[a]
  BY DEF Typed, TypeOK, Next, Step, Post, ManageQuota, vars, tables, locks, Receive,
         InsertEventIfNew, FindEventByIdempotencyKey, LockQuotaRow, WakeWithQuotaRow,
         CheckQuota, RejectEvent, IncrementUsageRollup, CommitEvent, UpsertQuota,
         CommitUpsert, DeleteQuota, WakeDelete, CommitDelete, AnswerMissing, Abort,
         Transition, Waiters

\* Where a POST that passed its check came from: it had passed it before, or
\* this step is the check.
LEMMA WasAdmitted ==
  ASSUME Typed, [Next]_vars, NEW w \in Requests,
         pc'[w] \in {"admitted", "counted"}, limit'[w] # NoLimit
  PROVE  /\ req'[w] = req[w]
         /\ limit'[w] = limit[w]
         /\ \/ pc[w] \in {"admitted", "counted"}
            \/ /\ pc[w] = "locked"
               /\ ~Exceeds(rollup[BucketOf(w)].total, req[w].qty, limit[w])
               /\ UNCHANGED <<events, rollup>>
  BY DEF Typed, TypeOK, Control, Next, Step, Post, ManageQuota, vars, tables, locks,
         Receive, InsertEventIfNew, FindEventByIdempotencyKey, LockQuotaRow,
         WakeWithQuotaRow, CheckQuota, RejectEvent, IncrementUsageRollup, CommitEvent,
         UpsertQuota, CommitUpsert, DeleteQuota, WakeDelete, CommitDelete,
         AnswerMissing, Abort, Transition, Waiters

\* Every step keeps the checked events, with the one about to be committed,
\* within the limit: no checked POST commits while another holds the quota
\* row, and an unchecked one does not enter the sum.
LEMMA NextChecked ==
    /\ Typed /\ Locking /\ Stable /\ LedgerFaithful /\ RollupMatchesEvents
    /\ CheckedWithinLimit /\ [Next]_vars
    => CheckedWithinLimit'
  <1> SUFFICES ASSUME Typed, Locking, Stable, LedgerFaithful, RollupMatchesEvents,
                      CheckedWithinLimit, [Next]_vars, NEW w \in Requests,
                      pc'[w] \in {"admitted", "counted"}, limit'[w] # NoLimit
               PROVE  /\ limit'[w] = quotas'[ScopeOf(w)']
                      /\ QuantityOf(CheckedIn(BucketOf(w)))' + req'[w].qty <= limit'[w]
    BY DEF CheckedWithinLimit
  <1> DEFINE b == BucketOf(w)
  <1>1. Typed' /\ Stable'
    BY NextTyped, NextStable
  <1>2. limit'[w] = quotas'[ScopeOf(w)']
    BY <1>1, PayloadFacts, PayloadKinds
    DEF Typed, Control, Stable, QuotaStable, HoldsQuota
  <1>3. /\ req'[w] = req[w]
        /\ limit'[w] = limit[w]
        /\ \/ pc[w] \in {"admitted", "counted"}
           \/ /\ pc[w] = "locked"
              /\ ~Exceeds(rollup[b].total, req[w].qty, limit[w])
              /\ UNCHANGED <<events, rollup>>
    BY WasAdmitted
  <1>4. /\ req[w] \in PostPayload
        /\ b \in Bucket
        /\ req[w].qty \in Nat
        /\ limit[w] \in Limits
    BY <1>3, PayloadFacts, PayloadKinds DEF Typed, TypeOK, Control, BucketOf
  <1>5. limit[w] \in Int
    BY <1>4, BoundsAssumption DEF Limits
  <1>6. QuantityOf(CheckedIn(b)) + req[w].qty <= limit[w]
    <2>1. CASE pc[w] \in {"admitted", "counted"}
      BY <2>1, <1>3 DEF CheckedWithinLimit
    <2>2. CASE ~Exceeds(rollup[b].total, req[w].qty, limit[w])
      <3>1. CheckedIn(b) \in SUBSET EventsIn(b) /\ EventsIn(b) \in SUBSET EventKey
        BY DEF CheckedIn, EventsIn
      <3>2. /\ QuantityOf(CheckedIn(b)) <= QuantityOf(EventsIn(b))
            /\ QuantityOf(CheckedIn(b)) \in Nat
            /\ QuantityOf(EventsIn(b)) \in Nat
        BY <3>1, FewerEvents
      <3>3. QuantityOf(EventsIn(b)) + req[w].qty <= limit[w]
        BY <2>2, <3>2, <1>4, <1>5 DEF RollupMatchesEvents, Exceeds
      <3> QED
        BY <3>2, <3>3, <1>4, <1>5
    <2> QED
      BY <2>1, <2>2, <1>3
  <1>7. \A a \in Requests : pc[a] = "done" => limit'[a] = limit[a]
    BY LimitSettled
  <1>8. \A k \in EventKey : events[k] # NoRow =>
           events[k].id \in Requests /\ pc[events[k].id] = "done"
    BY DEF LedgerFaithful, Typed, TypeOK, EventRow
  <1>9. /\ CheckedIn(b)' = CheckedIn(b)
        /\ \A k \in CheckedIn(b) : events'[k] = events[k]
    <2>1. CASE UNCHANGED <<events, rollup>>
      <3>1. EventsIn(b)' = EventsIn(b)
        BY <2>1, <1>3 DEF EventsIn, BucketOf
      <3>2. \A k \in EventsIn(b) : /\ k \in EventKey
                                   /\ events[k] # NoRow
                                   /\ events'[k] = events[k]
        BY <2>1 DEF EventsIn
      <3>3. \A k \in EventsIn(b) : limit'[events'[k].id] = limit[events[k].id]
        BY <3>2, <1>7, <1>8
      <3> QED
        BY <1>3, <3>1, <3>2, <3>3 DEF CheckedIn, BucketOf
    <2>2. ASSUME NEW r \in Requests, CommitEvent(r)
          PROVE  /\ CheckedIn(b)' = CheckedIn(b)
                 /\ \A k \in CheckedIn(b) : events'[k] = events[k]
      <3>1. pc[r] = "counted" /\ req[r] \in PostPayload /\ r # w
        BY <2>2, <1>3 DEF CommitEvent, Transition, Typed, TypeOK, Control
      <3>2. /\ KeyOf(r) \in EventKey
            /\ KeyOf(r) \notin EventsIn(b)
            /\ events' = [events EXCEPT ![KeyOf(r)] = RowOf(r)]
            /\ EventsIn(b)' = EventsIn(b) \cup (IF b = BucketOf(r) THEN {KeyOf(r)} ELSE {})
            /\ \A k \in EventsIn(b) : events'[k] = events[k]
        <4>1. \A c \in Bucket :
               /\ KeyOf(r) \notin EventsIn(c)
               /\ EventsIn(c)' = EventsIn(c) \cup (IF c = BucketOf(r) THEN {KeyOf(r)} ELSE {})
               /\ \A k \in EventsIn(c) : events'[k] = events[k]
          BY <2>2, CommitEffect
        <4>2. /\ KeyOf(r) \in EventKey
              /\ events' = [events EXCEPT ![KeyOf(r)] = RowOf(r)]
          BY <2>2, CommitEffect
        <4>3. b' = b
          BY <1>3 DEF BucketOf
        <4> HIDE DEF b
        <4> QED
          BY <4>1, <4>2, <4>3, <1>4
      <3>3. b = BucketOf(r) => limit[r] = NoLimit
        <4> SUFFICES ASSUME b = BucketOf(r), limit[r] # NoLimit PROVE FALSE
          OBVIOUS
        <4>1. ScopeOf(r) = ScopeOf(w) /\ ScopeOf(w) \in Scope
          BY <1>4, PayloadFacts, PayloadKinds
          DEF BucketOf, BucketIn, ScopeOf, ScopeIn
        <4>2. HoldsQuota(r) /\ HoldsQuota(w)
          BY <3>1, <1>3 DEF HoldsQuota
        <4> QED
          BY <4>1, <4>2, <3>1 DEF Locking, QuotaLocking
      <3>4. \A k \in EventsIn(b) : limit'[events'[k].id] = limit[events[k].id]
        BY <3>2, <1>7, <1>8 DEF EventsIn
      <3>5. b = BucketOf(r) => limit'[events'[KeyOf(r)].id] = NoLimit
        BY <3>2, <3>3, <2>2 DEF Typed, TypeOK, RowOf, RowIn, CommitEvent
      <3> QED
        BY <3>2, <3>4, <3>5, <1>3 DEF CheckedIn, BucketOf
    <2> QED
      BY <2>1, <2>2, OnlyCommitsWrite
  <1>10. QuantityOf(CheckedIn(b))' = QuantityOf(CheckedIn(b))
    BY <1>9, SameEvents DEF QuantityOf
  <1> QED
    BY <1>2, <1>3, <1>6, <1>10 DEF BucketOf

\* No step lowers a bucket's total or count, or touches a committed event.
LEMMA UsageGrows ==
  ASSUME Typed, Stable, [Next]_vars
  PROVE  /\ \A k \in EventKey : events[k] # NoRow => events'[k] = events[k]
         /\ \A c \in Bucket : /\ rollup'[c].total >= rollup[c].total
                              /\ rollup'[c].count >= rollup[c].count
  <1>1. \A c \in Bucket : rollup[c].total \in Nat /\ rollup[c].count \in Nat
    BY DEF Typed, TypeOK, Usage
  <1>2. CASE UNCHANGED <<events, rollup>>
    BY <1>1, <1>2
  <1>3. ASSUME NEW r \in Requests, CommitEvent(r)
        PROVE  /\ \A k \in EventKey : events[k] # NoRow => events'[k] = events[k]
               /\ \A c \in Bucket : /\ rollup'[c].total >= rollup[c].total
                                    /\ rollup'[c].count >= rollup[c].count
    <2>1. /\ KeyOf(r) \in EventKey
          /\ BucketOf(r) \in Bucket
          /\ events[KeyOf(r)] = NoRow
          /\ req[r].qty \in Quantities
          /\ events' = [events EXCEPT ![KeyOf(r)] = RowOf(r)]
          /\ rollup' = [rollup EXCEPT ![BucketOf(r)] =
                           Incremented(rollup[BucketOf(r)], req[r].qty)]
      BY <1>3, CommitEffect
    <2>2. req[r].qty \in Nat
      BY <2>1, BoundsAssumption DEF Quantities
    <2>3. \A k \in EventKey : events[k] # NoRow => events'[k] = events[k]
      BY <2>1 DEF Typed, TypeOK
    <2>4. ASSUME NEW c \in Bucket
          PROVE  rollup'[c].total >= rollup[c].total /\ rollup'[c].count >= rollup[c].count
      BY <1>1, <2>1, <2>2 DEF Typed, TypeOK, Incremented
    <2> QED
      BY <2>3, <2>4
  <1> QED
    BY <1>2, <1>3, OnlyCommitsWrite

\* Every step keeps a rejection justified: while the 429 is on its way the
\* limit cannot change and the total cannot fall.
LEMMA NextJustified ==
    Typed /\ Locking /\ Stable /\ RejectionJustified /\ [Next]_vars => RejectionJustified'
  <1> SUFFICES ASSUME Typed, Locking, Stable, RejectionJustified, [Next]_vars,
                      NEW w \in Requests, pc'[w] = "rejected"
               PROVE  /\ limit'[w] = quotas'[ScopeOf(w)']
                      /\ rollup'[BucketOf(w)'].total + req'[w].qty > limit'[w]
    BY DEF RejectionJustified
  <1>1. Typed' /\ Stable'
    BY NextTyped, NextStable
  <1>2. limit'[w] = quotas'[ScopeOf(w)']
    BY <1>1, PayloadFacts, PayloadKinds
    DEF Typed, Control, Stable, QuotaStable, HoldsQuota
  <1>3. /\ req'[w] = req[w]
        /\ limit'[w] = limit[w]
        /\ pc[w] \in {"locked", "rejected"}
        /\ pc[w] = "locked" => /\ Exceeds(rollup[BucketOf(w)].total, req[w].qty, limit[w])
                               /\ UNCHANGED rollup
    BY DEF Typed, TypeOK, Control, Next, Step, Post, ManageQuota, vars, tables, locks,
           Receive, InsertEventIfNew, FindEventByIdempotencyKey, LockQuotaRow,
           WakeWithQuotaRow, CheckQuota, RejectEvent, IncrementUsageRollup, CommitEvent,
           UpsertQuota, CommitUpsert, DeleteQuota, WakeDelete, CommitDelete,
           AnswerMissing, Abort, Transition, Waiters
  <1>4. /\ BucketOf(w) \in Bucket
        /\ req[w].qty \in Nat
        /\ limit[w] \in Int
    BY <1>3, PayloadFacts, PayloadKinds, BoundsAssumption
    DEF Typed, TypeOK, Control, BucketOf, Limits
  <1>5. rollup[BucketOf(w)].total + req[w].qty > limit[w]
    BY <1>3 DEF RejectionJustified, Exceeds
  <1>6. \A c \in Bucket : rollup'[c].total >= rollup[c].total
    BY UsageGrows
  <1>7. rollup'[BucketOf(w)].total \in Nat /\ rollup[BucketOf(w)].total \in Nat
    BY <1>1, <1>4 DEF Typed, TypeOK, Usage
  <1>8. rollup'[BucketOf(w)].total + req[w].qty > limit[w]
    BY <1>4, <1>5, <1>6, <1>7
  <1> QED
    BY <1>2, <1>3, <1>8 DEF BucketOf

-----------------------------------------------------------------------------
(***************************************************************************)
(* The theorems.                                                           *)
(***************************************************************************)

\* The migrated database with no usage satisfies the inductive invariant.
LEMMA InitIndInv == Init => IndInv
  <1> SUFFICES ASSUME Init PROVE IndInv
    OBVIOUS
  <1>1. Typed
    BY InitTyped
  <1>2. Locking /\ Stable
    BY NullsAssumption
    DEF Init, Locking, KeyLocking, QuotaLocking, BucketLocking, Stable, KeyStable,
        BucketStable, QuotaStable, QuotaReportsHold, HoldsKey, HoldsQuota, HoldsBucket
  <1>3. LedgerFaithful /\ Idempotent /\ NoIdempotencyRace
    BY DEF Init, LedgerFaithful, Idempotent, NoIdempotencyRace
  <1>4. RollupMatchesEvents
    <2> SUFFICES ASSUME NEW b \in Bucket
                 PROVE  /\ rollup[b].total = QuantityOf(EventsIn(b))
                        /\ rollup[b].count = Cardinality(EventsIn(b))
      BY DEF RollupMatchesEvents
    <2>1. rollup[b].total = 0 /\ rollup[b].count = 0
      BY DEF Init, NoUsage
    <2>2. EventsIn(b) = {}
      BY DEF Init, EventsIn
    <2>3. QuantityOf({}) = 0
      <3>1. {u \in {} \X Quantities : u[2] <= events[u[1]].qty} = {}
        OBVIOUS
      <3> QED
        BY <3>1, FS_EmptySet DEF QuantityOf
    <2> QED
      BY <2>1, <2>2, <2>3, FS_EmptySet
  <1>5. CheckedWithinLimit /\ RejectionJustified
    BY DEF Init, CheckedWithinLimit, RejectionJustified
  <1> QED
    BY <1>1, <1>2, <1>3, <1>4, <1>5 DEF IndInv, Typed

\* Every step of every request preserves it.
LEMMA NextIndInv == IndInv /\ [Next]_vars => IndInv'
  BY NextTyped, NextLocking, NextStable, NextRecorded, NextCounted, NextChecked,
     NextJustified
  DEF IndInv, Typed, Recorded

\* The inductive invariant holds in every reachable state.
THEOREM Invariance == Spec => []IndInv
  BY InitIndInv, NextIndInv, PTL DEF Spec

\* The tables, locks and handlers keep their types.
THEOREM TypeCorrect == Spec => []TypeOK
  BY Invariance, PTL DEF IndInv

\* The usage a customer is billed from is exactly the sum and the number of
\* the recorded events, for any interleaving, rollback or crash.
THEOREM RollupCorrect == Spec => []RollupMatchesEvents
  BY Invariance, PTL DEF IndInv

\* One event per idempotency key and tenant, and every duplicate is answered
\* with the original.
THEOREM IdempotencyCorrect == Spec => []Idempotent
  BY Invariance, PTL DEF IndInv

\* The IdempotencyRaceError branch is dead code.
THEOREM RaceUnreachable == Spec => []NoIdempotencyRace
  BY Invariance, PTL DEF IndInv

\* Every recorded event is a committed request's own; a rejected or rolled
\* back request leaves none.
THEOREM LedgerCorrect == Spec => []LedgerFaithful
  BY Invariance, PTL DEF IndInv

\* Checked POSTs by themselves never pass the limit in force.
THEOREM AdmissionsCorrect == Spec => []CheckedWithinLimit
  BY Invariance, PTL DEF IndInv

\* A 429 is justified when it is sent.
THEOREM RejectionsCorrect == Spec => []RejectionJustified
  BY Invariance, PTL DEF IndInv

\* What PUT and DELETE report is what their commit does.
THEOREM QuotaReportsCorrect == Spec => []QuotaReportsHold
  BY Invariance, PTL DEF IndInv, Stable

\* What a holder of a row can still wait for: of an event key, a quotas row
\* or a bucket; of a quotas row, a bucket; of a bucket, nothing.
LEMMA LockOrder ==
    ASSUME IndInv, NEW r \in Requests, NEW holder \in Requests, WaitsFor(r, holder)
    PROVE  /\ pc[r] \in {"admitted", "noRow"} => pc[holder] = "counted"
           /\ pc[r] = "waitRow" => pc[holder] \notin {"begin", "waitRow", "noRow"}
           /\ pc[r] = "begin" /\ req[r].op = "put" => pc[holder] \notin {"begin", "waitRow", "noRow"}
           /\ pc[r] = "begin" /\ req[r].op = "post" => pc[holder] # "begin"
           /\ pc[r] \in {"begin", "waitRow", "admitted", "noRow"}
           /\ pc[r] = "begin" => req[r].op \in {"post", "put"}
  <1>1. Typed /\ Locking
    BY DEF IndInv, Typed
  <1>2. pc[r] # "idle" => req[r] \in Payload
    BY <1>1 DEF Typed, Control
  <1>3. CASE pc[r] = "begin" /\ req[r].op = "post" /\ keyLock[KeyOf(r)] = holder
    <2>1. KeyOf(r) \in EventKey
      BY <1>2, <1>3, PayloadFacts DEF KeyOf
    <2>2. keyLock[KeyOf(r)] = holder => HoldsKey(holder)
      BY <1>1, <2>1, Zenon DEF Locking, KeyLocking
    <2> QED BY <1>3, <2>2 DEF HoldsKey
  <1>4. CASE /\ pc[r] = "waitRow" \/ (pc[r] = "begin" /\ req[r].op = "put")
             /\ quotaLock[ScopeOf(r)] = holder
    <2>1. ScopeOf(r) \in Scope
      BY <1>2, <1>4, PayloadFacts DEF ScopeOf
    <2>2. quotaLock[ScopeOf(r)] = holder => HoldsQuota(holder)
      BY <1>1, <2>1, Zenon DEF Locking, QuotaLocking
    <2> QED BY <1>4, <2>2 DEF HoldsQuota
  <1>5. CASE /\ pc[r] \in {"admitted", "noRow"} /\ req[r].op = "post"
             /\ rollupLock[BucketOf(r)] = holder
    <2>1. BucketOf(r) \in Bucket
      BY <1>2, <1>5, PayloadFacts DEF BucketOf
    <2>2. rollupLock[BucketOf(r)] = holder => HoldsBucket(holder)
      BY <1>1, <2>1, Zenon DEF Locking, BucketLocking
    <2> QED BY <1>5, <2>2 DEF HoldsBucket
  <1> QED BY <1>3, <1>4, <1>5 DEF WaitsFor

\* The transactions of POST, PUT and DELETE never deadlock (create_event,
\* upsert_quota, delete_quota): in a circle of waits nobody could wait for a
\* bucket, hence nobody for a quotas row, hence nobody for an event key.
THEOREM DeadlockFree == Spec => []NoCircularWait
  <1>1. IndInv => NoCircularWait
    <2> SUFFICES ASSUME IndInv, NEW W \in SUBSET Requests, W # {},
                        \A r \in W : \E holder \in W : WaitsFor(r, holder)
                 PROVE  FALSE
      BY DEF NoCircularWait
    <2>1. \A r \in W : pc[r] \notin {"admitted", "noRow"}
      BY LockOrder
    <2>2. \A r \in W : /\ pc[r] # "waitRow"
                       /\ ~(pc[r] = "begin" /\ req[r].op = "put")
      BY <2>1, LockOrder
    <2>3. \A r \in W : ~(pc[r] = "begin" /\ req[r].op = "post")
      BY <2>1, <2>2, LockOrder
    <2> QED BY <2>1, <2>2, <2>3, LockOrder
  <1> QED BY <1>1, Invariance, PTL

\* No step changes a recorded event or lowers a usage figure.
THEOREM LedgerAppendOnly == Spec => AppendOnly
  <1>1. IndInv /\ [Next]_vars =>
          [ /\ \A k \in EventKey : events[k] # NoRow => events'[k] = events[k]
            /\ \A b \in Bucket : /\ rollup'[b].total >= rollup[b].total
                                 /\ rollup'[b].count >= rollup[b].count ]_vars
    BY UsageGrows DEF IndInv, Typed
  <1> QED
    BY <1>1, Invariance, PTL DEF Spec, AppendOnly

\* A field of usage_rollup, of every bucket: what Totals and Counts speak of.
TotalOf(t) == [b \in Bucket |-> t[b].total]
CountOf(t) == [b \in Bucket |-> t[b].count]

\* usage_rollup changes only by the commit of one event at a time: what the
\* reads of usage assume is what ingest provides.
THEOREM TableImplemented == Spec => ImplementsTable
  <1>1. IndInv => \A b \in Bucket : rollup[b].total \in Nat /\ rollup[b].count \in Nat
    BY DEF IndInv, TypeOK, Usage
  <1>2. Init => Totals!Init /\ Counts!Init
    <2> SUFFICES ASSUME Init PROVE Totals!Init /\ Counts!Init
      OBVIOUS
    <2>1. IndInv
      BY InitIndInv
    <2> QED
      BY <1>1, <2>1 DEF Totals!Init, Counts!Init
  <1>3. ASSUME IndInv, NEW r \in Requests, CommitEvent(r)
        PROVE  Totals!Next /\ Counts!Next
    <2>1. /\ BucketOf(r) \in Bucket
          /\ req[r].qty \in Quantities
          /\ rollup' = [rollup EXCEPT ![BucketOf(r)] =
                           Incremented(rollup[BucketOf(r)], req[r].qty)]
      BY <1>3, CommitEffect DEF IndInv, Typed
    <2> DEFINE b == BucketOf(r)
               q == req[r].qty
    <2>2. \A c \in Bucket :
             /\ rollup'[c].total = IF c = b THEN rollup[c].total + q ELSE rollup[c].total
             /\ rollup'[c].count = IF c = b THEN rollup[c].count + 1 ELSE rollup[c].count
      BY <2>1, <1>3 DEF IndInv, TypeOK, Incremented
    <2> HIDE DEF b, q
    <2>3. TotalOf(rollup') = [TotalOf(rollup) EXCEPT ![b] = @ + q]
      BY <2>2 DEF TotalOf
    <2>4. CountOf(rollup') = [CountOf(rollup) EXCEPT ![b] = @ + 1]
      BY <2>2 DEF CountOf
    <2>5. b \in Bucket /\ q \in Quantities
      BY <2>1 DEF b, q
    <2>6. Totals!Next
      BY <2>3, <2>5 DEF Totals!Next, Totals!CountEvent, TotalOf
    <2>7. Counts!Next
      BY <2>4, <2>5 DEF Counts!Next, Counts!CountEvent, CountOf
    <2> QED
      BY <2>6, <2>7
  <1>4. IndInv /\ [Next]_vars =>
           /\ [Totals!Next]_([b \in Bucket |-> rollup[b].total])
           /\ [Counts!Next]_([b \in Bucket |-> rollup[b].count])
    BY <1>3, OnlyCommitsWrite
  <1> QED
    BY <1>2, <1>4, Invariance, PTL
    DEF Spec, ImplementsTable, Totals!Spec, Counts!Spec

\* How far a request has come: every transaction goes through its states in
\* this order, whatever it finds and however long it waits.
Progress ==
    [idle |-> 0, begin |-> 1, conflict |-> 2, inserted |-> 2, waitRow |-> 3,
     noRow |-> 4, locked |-> 4, putInserted |-> 4, putReplaced |-> 4, removed |-> 4,
     admitted |-> 5, rejected |-> 5, counted |-> 6, done |-> 7]

\* Every step of the system brings a request nearer to its answer and none
\* further from it, a wake-up by somebody else's DELETE included: no request
\* takes more than seven steps.  With DeadlockFree (while requests are open,
\* one of them waits for nobody) that is why every request is answered.
THEOREM StepsAdvance ==
  Spec => [][ /\ \E r \in Requests : Progress[pc[r]] < Progress[pc'[r]]
              /\ \A r \in Requests : Progress[pc[r]] <= Progress[pc'[r]] ]_vars
  <1>1. ASSUME IndInv, Next
        PROVE  /\ \E r \in Requests : Progress[pc[r]] < Progress[pc'[r]]
               /\ \A r \in Requests : Progress[pc[r]] <= Progress[pc'[r]]
    <2>1. \A r \in Requests : Progress[pc[r]] \in Nat
      BY <1>1 DEF IndInv, TypeOK, PCs, Progress
    <2>2. PICK r \in Requests : Receive(r) \/ Step(r) \/ Abort(r)
      BY <1>1 DEF Next
    <2>3. CASE CommitDelete(r)
      <3>1. /\ pc[r] = "removed" /\ pc'[r] = "done"
            /\ \A w \in Requests : \/ pc'[w] = pc[w]
                                    \/ w = r
                                   \/ pc[w] = "waitRow" /\ pc'[w] = "noRow"
        BY <2>3 DEF CommitDelete, Waiters
      <3> QED
        BY <2>1, <3>1 DEF Progress
    <2>4. CASE ~CommitDelete(r)
      <3>1. \E p \in PCs : pc' = [pc EXCEPT ![r] = p] /\ Progress[pc[r]] < Progress[p]
        <4>1. CASE Receive(r)
          BY <4>1 DEF Receive, Transition, Progress, PCs
        <4>2. CASE Post(r)
          BY <4>2
          DEF Post, InsertEventIfNew, FindEventByIdempotencyKey, LockQuotaRow,
              WakeWithQuotaRow, CheckQuota, RejectEvent, IncrementUsageRollup, CommitEvent,
              Transition, Progress, PCs
        <4>3. CASE ManageQuota(r)
          BY <2>4, <4>3
          DEF ManageQuota, UpsertQuota, CommitUpsert, DeleteQuota, WakeDelete, AnswerMissing,
              Transition, Progress, PCs
        <4>4. CASE Abort(r)
          BY <1>1, <4>4 DEF Abort, Progress, PCs, IndInv, TypeOK
        <4> QED
          BY <2>2, <4>1, <4>2, <4>3, <4>4 DEF Step
      <3>2. \A w \in Requests \ {r} : pc'[w] = pc[w]
        BY <1>1, <3>1 DEF IndInv, TypeOK
      <3>3. Progress[pc[r]] < Progress[pc'[r]]
        BY <1>1, <3>1 DEF IndInv, TypeOK
      <3>4. \A w \in Requests : Progress[pc[w]] <= Progress[pc'[w]]
        <4> TAKE w \in Requests
        <4>1. CASE w = r
          <5>1. Progress[pc[r]] \in Nat /\ Progress[pc'[r]] \in Nat
            BY <1>1, <2>1, <3>1 DEF Progress, PCs, IndInv, TypeOK
          <5> QED
            BY <3>3, <4>1, <5>1
        <4>2. CASE w # r
          <5>1. pc'[w] = pc[w]
            BY <3>2, <4>2
          <5>2. Progress[pc[w]] \in Nat
            BY <2>1
          <5> QED
            BY <5>1, <5>2
        <4> QED
          BY <4>1, <4>2
      <3> QED
        BY <3>3, <3>4
    <2> QED
      BY <2>3, <2>4
  <1>2. IndInv /\ [Next]_vars =>
          [ /\ \E r \in Requests : Progress[pc[r]] < Progress[pc'[r]]
            /\ \A r \in Requests : Progress[pc[r]] <= Progress[pc'[r]] ]_vars
    BY <1>1
  <1> QED
    BY <1>2, Invariance, PTL DEF Spec

\* While a quota stands that no PUT has created, every POST of its meter that
\* has been admitted was checked against it.
Standing ==
    \A s \in Scope :
        \/ quotas[s] = NoLimit
        \/ MayBeIntroduced(s)
        \/ \A r \in Requests : pc[r] # "idle" /\ ScopeOf(r) = s => limit[r] # NoLimit

\* A request keeps its payload, and an answered one its answer.
LEMMA AnswersStay ==
  ASSUME Typed, [Next]_vars, NEW r \in Requests, pc[r] # "idle"
  PROVE  req'[r] = req[r] /\ (pc[r] = "done" => outcome'[r] = outcome[r])
  BY DEF Typed, TypeOK, Next, Step, Post, ManageQuota, vars, Receive,
         InsertEventIfNew, FindEventByIdempotencyKey, LockQuotaRow,
         WakeWithQuotaRow, CheckQuota, RejectEvent, IncrementUsageRollup,
         CommitEvent, UpsertQuota, CommitUpsert, DeleteQuota, WakeDelete,
         CommitDelete, AnswerMissing, Abort, Transition, Answer

\* That a quota may have been introduced does not change any more.
LEMMA IntroducedStays ==
  ASSUME Typed, [Next]_vars, NEW s \in Scope, MayBeIntroduced(s)
  PROVE  MayBeIntroduced(s)'
  <1>1. PICK p \in Requests : /\ req[p] \in PutPayload /\ ScopeOf(p) = s
                              /\ outcome[p] \in {"quotaCreated", "failed"}
    BY DEF MayBeIntroduced
  <1>2. pc[p] = "done"
    BY <1>1 DEF Typed, Control
  <1>3. req'[p] = req[p] /\ outcome'[p] = outcome[p]
    BY <1>2, AnswersStay
  <1> QED
    BY <1>1, <1>3 DEF MayBeIntroduced, ScopeOf

\* A quota appears only by the commit of a PUT that found none.
LEMMA IntroducedByPut ==
  ASSUME Typed, Stable, [Next]_vars, NEW s \in Scope,
         quotas[s] = NoLimit, quotas'[s] # NoLimit
  PROVE  MayBeIntroduced(s)'
  <1>1. PICK p \in Requests : CommitUpsert(p)
    BY DEF Next, Step, Post, ManageQuota, vars, tables, Receive, InsertEventIfNew,
           FindEventByIdempotencyKey, LockQuotaRow, WakeWithQuotaRow, CheckQuota,
           RejectEvent, IncrementUsageRollup, CommitEvent, UpsertQuota,
           DeleteQuota, WakeDelete, CommitDelete, AnswerMissing, Abort, Typed, TypeOK
  <1>2. /\ req[p] \in PutPayload /\ req' = req
        /\ ScopeOf(p) = s
    BY <1>1 DEF CommitUpsert, Typed, TypeOK, Control
  <1>3. pc[p] = "putInserted"
    BY <1>1, <1>2 DEF CommitUpsert, Stable, QuotaReportsHold
  <1>4. outcome'[p] \in {"quotaCreated", "failed"}
    BY <1>1, <1>3 DEF CommitUpsert, Answer, Typed, TypeOK
  <1> QED
    BY <1>2, <1>4 DEF MayBeIntroduced, ScopeOf

\* Only a request that finds no quota, or whose quota is deleted while it
\* waits, goes on without one.
LEMMA UncheckedOnlyWithoutQuota ==
  ASSUME Typed, [Next]_vars, NEW r \in Requests,
         pc[r] # "idle", limit[r] # NoLimit, limit'[r] = NoLimit
  PROVE  quotas'[ScopeOf(r)] = NoLimit
  <1>1. ScopeOf(r) \in Scope
    BY PayloadFacts DEF Typed, Control, ScopeOf
  <1>2. \A q \in Requests : pc[q] = "waitRow" => quotas[ScopeOf(q)] \in Limits
    BY PayloadFacts DEF Typed, TypeOK, Control, ScopeOf
  <1> QED
    BY <1>1, <1>2
    DEF Typed, TypeOK, Next, Step, Post, ManageQuota, vars, tables, Receive,
        InsertEventIfNew, FindEventByIdempotencyKey, LockQuotaRow,
        WakeWithQuotaRow, CheckQuota, RejectEvent, IncrementUsageRollup,
        CommitEvent, UpsertQuota, CommitUpsert, DeleteQuota, WakeDelete,
        CommitDelete, AnswerMissing, Abort, Transition, Waiters, Limits, NoLimit

\* Every step keeps it so.
LEMMA NextStanding == Typed /\ Stable /\ Standing /\ [Next]_vars => Standing'
  <1> SUFFICES ASSUME Typed, Stable, Standing, [Next]_vars, NEW s \in Scope,
                      quotas'[s] # NoLimit, ~MayBeIntroduced(s)',
                      NEW r \in Requests, pc'[r] # "idle", ScopeOf(r)' = s
               PROVE  limit'[r] # NoLimit
    BY DEF Standing
  <1>1. quotas[s] # NoLimit /\ ~MayBeIntroduced(s)
    BY IntroducedByPut, IntroducedStays
  <1>2. CASE pc[r] = "idle"
    <2>1. limit'[r] = limit[r]
      BY <1>2
      DEF Typed, TypeOK, Control, Next, Step, Post, ManageQuota, vars, Receive,
          InsertEventIfNew, FindEventByIdempotencyKey, LockQuotaRow,
          WakeWithQuotaRow, CheckQuota, RejectEvent, IncrementUsageRollup,
          CommitEvent, UpsertQuota, CommitUpsert, DeleteQuota, WakeDelete,
          CommitDelete, AnswerMissing, Abort, Transition, Waiters
    <2>2. limit[r] = Unread
      BY <1>2 DEF Typed, Control
    <2> QED
      BY <2>1, <2>2 DEF Unread, NoLimit
  <1>3. CASE pc[r] # "idle"
    <2>1. ScopeOf(r) = s
      BY <1>3, AnswersStay DEF ScopeOf
    <2>2. limit[r] # NoLimit
      BY <1>1, <1>3, <2>1 DEF Standing
    <2> QED
      BY <1>3, <2>1, <2>2, UncheckedOnlyWithoutQuota
  <1> QED
    BY <1>2, <1>3

\* "Usage can never exceed L" is right as long as no quota is created under
\* POSTs in flight: whatever PUT replaces and DELETE removes meanwhile, every
\* checked increment leaves the total within the limit it was checked against.
THEOREM EnforcedUnlessIntroduced == Spec => EnforcedUntilIntroduced
  <1>1. Init => Standing
    BY DEF Init, Standing
  <1>2. IndInv /\ Standing /\ [Next]_vars => Standing'
    BY NextStanding DEF IndInv, Typed
  <1>3. ASSUME IndInv, Standing, [Next]_vars, NEW r \in Requests,
               CommitsChecked(r), ~MayBeIntroduced(ScopeOf(r))
        PROVE  rollup'[BucketOf(r)].total <= limit[r]
    <2>1. CommitEvent(r)
      <3>1. PICK q \in Requests : CommitEvent(q)
        BY <1>3, OnlyCommitsWrite DEF CommitsChecked
      <3>2. q = r
        BY <1>3, <3>1 DEF CommitsChecked, CommitEvent, Transition, IndInv, TypeOK
      <3> QED
        BY <3>1, <3>2
    <2>2. /\ BucketOf(r) \in Bucket
          /\ req[r].qty \in Quantities
          /\ rollup' = [rollup EXCEPT ![BucketOf(r)] =
                           Incremented(rollup[BucketOf(r)], req[r].qty)]
      BY <1>3, <2>1, CommitEffect DEF IndInv, Typed
    <2>3. rollup'[BucketOf(r)].total = rollup[BucketOf(r)].total + req[r].qty
      BY <1>3, <2>2 DEF IndInv, TypeOK, Incremented
    <2>4. \A q \in Requests :
             pc[q] # "idle" /\ ScopeOf(q) = ScopeOf(r) => limit[q] # NoLimit
      <3>1. ScopeOf(r) \in Scope /\ quotas[ScopeOf(r)] # NoLimit
        BY <1>3, PayloadFacts, PayloadKinds
        DEF CommitsChecked, IndInv, Control, Stable, QuotaStable, HoldsQuota, ScopeOf
      <3> QED
        BY <1>3, <3>1 DEF Standing
    <2>5. CheckedIn(BucketOf(r)) = EventsIn(BucketOf(r))
      <3>1. ASSUME NEW k \in EventsIn(BucketOf(r)) PROVE limit[events[k].id] # NoLimit
        BY <1>3, <2>4, <3>1
        DEF IndInv, LedgerFaithful, TypeOK, EventRow, EventsIn, RowOf, RowIn,
            KeyOf, KeyIn, ScopeOf, ScopeIn, BucketOf, BucketIn
      <3> QED
        BY <3>1 DEF CheckedIn, EventsIn
    <2>6. QuantityOf(CheckedIn(BucketOf(r))) + req[r].qty <= limit[r]
      BY <1>3 DEF CommitsChecked, IndInv, CheckedWithinLimit
    <2> QED
      BY <1>3, <2>2, <2>3, <2>5, <2>6 DEF IndInv, RollupMatchesEvents
  <1>4. IndInv /\ Standing /\ [Next]_vars =>
          [ \A r \in Requests :
              CommitsChecked(r) => \/ rollup'[BucketOf(r)].total <= limit[r]
                                  \/ MayBeIntroduced(ScopeOf(r)) ]_vars
    BY <1>3
  <1> QED
    BY <1>1, <1>2, <1>4, Invariance, PTL DEF Spec, EnforcedUntilIntroduced

=============================================================================
