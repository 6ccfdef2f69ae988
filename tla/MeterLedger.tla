----------------------------- MODULE MeterLedger -----------------------------
(***************************************************************************)
(* What the metering API promises its clients, as atomic operations on a   *)
(* ledger: no transactions, no row locks, no statements that wait.         *)
(*                                                                         *)
(* Each POST takes effect at one instant, as a new event, a replay or a    *)
(* rejection.  A limit binds at the instant a POST takes effect, unless    *)
(* the POST looked earlier and saw no quota on its meter.                  *)
(***************************************************************************)
EXTENDS MeterTypes

VARIABLES
    ledger,     \* the event recorded under each key, or NoRow
    quotas,     \* the limit of each scope, or NoLimit
    usage,      \* what GET /v1/usage reports of each bucket
    asked,      \* the payload of each request
    sawNoQuota, \* the requests that looked for a quota and saw none
    answer,     \* the answer to each request
    body        \* the event in the body of the answer

vars == <<ledger, quotas, usage, asked, sawNoQuota, answer, body>>

Init ==
    /\ ledger = [k \in EventKey |-> NoRow]
    /\ quotas \in [Scope -> InitialLimits]
    /\ usage = [b \in Bucket |-> NoUsage]
    /\ asked = [r \in Requests |-> NoRow]
    /\ sawNoQuota = {}
    /\ answer = [r \in Requests |-> "none"]
    /\ body = [r \in Requests |-> NoRow]

Open(r, op) == answer[r] = "none" /\ asked[r] # NoRow /\ asked[r].op = op

Reply(r, o, row) ==
    /\ answer' = [answer EXCEPT ![r] = o]
    /\ body' = [body EXCEPT ![r] = row]

\* The events of bucket b whose author a limit bound.
CheckedIn(b) ==
    {k \in EventKey : /\ ledger[k] # NoRow
                      /\ ledger[k].id \notin sawNoQuota
                      /\ BucketIn(asked[ledger[k].id]) = b}

QuantityOf(K) ==
    Cardinality({u \in K \X Quantities : u[2] <= ledger[u[1]].qty})

Ask(r) ==
    /\ asked[r] = NoRow
    /\ \E p \in Payload : asked' = [asked EXCEPT ![r] = p]
    /\ UNCHANGED <<ledger, quotas, usage, sawNoQuota, answer, body>>

SeeNoQuota(r) ==
    /\ answer[r] = "none"
    /\ asked[r] # NoRow
    /\ quotas[ScopeIn(asked[r])] = NoLimit
    /\ sawNoQuota' = sawNoQuota \cup {r}
    /\ UNCHANGED <<ledger, quotas, usage, asked, answer, body>>

\* One event per key; its quantity enters its bucket's usage in the same
\* instant.  The answer to an event that was recorded may get lost.
Create(r) ==
    /\ Open(r, "post")
    /\ LET p   == asked[r]
           k   == KeyIn(p)
           b   == BucketIn(p)
           row == RowIn(r, p) IN
       /\ ledger[k] = NoRow
       /\ \/ r \in sawNoQuota
          \/ /\ quotas[ScopeIn(p)] # NoLimit
             /\ QuantityOf(CheckedIn(b)) + p.qty <= quotas[ScopeIn(p)]
       /\ ledger' = [ledger EXCEPT ![k] = row]
       /\ usage' = [usage EXCEPT ![b] = [total |-> @.total + p.qty, count |-> @.count + 1]]
       /\ Reply(r, "created", row) \/ Reply(r, "failed", NoRow)
    /\ UNCHANGED <<quotas, asked, sawNoQuota>>

Replay(r) ==
    /\ Open(r, "post")
    /\ ledger[KeyIn(asked[r])] # NoRow
    /\ Reply(r, "replayed", ledger[KeyIn(asked[r])])
    /\ UNCHANGED <<ledger, quotas, usage, asked, sawNoQuota>>

\* Rejected for want of room under the limit in force, and without a trace.
Reject(r) ==
    /\ Open(r, "post")
    /\ LET p == asked[r] IN
       /\ ledger[KeyIn(p)] = NoRow
       /\ quotas[ScopeIn(p)] # NoLimit
       /\ usage[BucketIn(p)].total + p.qty > quotas[ScopeIn(p)]
    /\ Reply(r, "rejected", NoRow)
    /\ UNCHANGED <<ledger, quotas, usage, asked, sawNoQuota>>

SetQuota(r) ==
    /\ Open(r, "put")
    /\ LET s == ScopeIn(asked[r]) IN
       /\ quotas' = [quotas EXCEPT ![s] = asked[r].limit]
       /\ \/ quotas[s] = NoLimit /\ Reply(r, "quotaCreated", NoRow)
          \/ quotas[s] # NoLimit /\ Reply(r, "quotaReplaced", NoRow)
          \/ Reply(r, "failed", NoRow)
    /\ UNCHANGED <<ledger, usage, asked, sawNoQuota>>

\* Requests that were about to look at the quota when it was removed have
\* seen that there is none.
RemoveQuota(r) ==
    /\ Open(r, "delete")
    /\ LET s == ScopeIn(asked[r]) IN
       /\ quotas[s] # NoLimit
       /\ quotas' = [quotas EXCEPT ![s] = NoLimit]
       /\ \E W \in SUBSET {w \in Requests : /\ answer[w] = "none"
                                            /\ asked[w] # NoRow
                                            /\ ScopeIn(asked[w]) = s} :
             sawNoQuota' = sawNoQuota \cup W
    /\ Reply(r, "quotaRemoved", NoRow) \/ Reply(r, "failed", NoRow)
    /\ UNCHANGED <<ledger, usage, asked>>

Missing(r) ==
    /\ Open(r, "delete")
    /\ r \in sawNoQuota
    /\ Reply(r, "quotaMissing", NoRow)
    /\ UNCHANGED <<ledger, quotas, usage, asked, sawNoQuota>>

Fail(r) ==
    /\ answer[r] = "none"
    /\ asked[r] # NoRow
    /\ Reply(r, "failed", NoRow)
    /\ UNCHANGED <<ledger, quotas, usage, asked, sawNoQuota>>

Next == \E r \in Requests :
    \/ Ask(r) \/ SeeNoQuota(r) \/ Create(r) \/ Replay(r) \/ Reject(r)
    \/ SetQuota(r) \/ RemoveQuota(r) \/ Missing(r) \/ Fail(r)

Spec == Init /\ [][Next]_vars
=============================================================================
