----------------------------- MODULE TokenBucket -----------------------------
(***************************************************************************)
(* One bucket of the Redis token-bucket limiter, as used by both throttle  *)
(* tiers: handlers on several tasks read their own clock, send the script  *)
(* with that time, and act on the decision it returns.  The script itself  *)
(* is atomic; what happens between reading the clock and running it is     *)
(* not.                                                                    *)
(*                                                                         *)
(* Time is counted in ticks (the code's milliseconds) and tokens in        *)
(* fractions of 1 / Second of a token, so that one tick refills exactly    *)
(* Rate fractions and every number of the script is a whole number.        *)
(*                                                                         *)
(* A limit is a promise about every period, not only about the whole life  *)
(* of the bucket.  The history variables therefore count from the moment   *)
(* `opened', which OpenWindow sets to any moment of the run.               *)
(***************************************************************************)
EXTENDS Integers, FiniteSets

CONSTANTS
    Handlers,     \* request handlers that share the bucket, on any task
    Capacity,     \* the bucket's capacity, in tokens
    Rate,         \* its refill rate, in tokens per second
    Second,       \* ticks in a second: 1000 in the code
    Ttl,          \* ticks after which an untouched bucket expires: 60000
    MaxLag,       \* bound on the ticks from reading the clock to running the script
    MaxSkew,      \* bound on how far a task's clock is ahead of the slowest one
    MaxFailovers, \* bound on the failovers of the Redis primary, in a window
    MaxTime,      \* bound on the clock
    MaxRewound,   \* bound on how far clocks go back, in a window
    MaxUnpaid,    \* bound on the requests that go on without a token, in a window
    NoBucket      \* the key does not exist

Token == Second            \* cost = 1.0
Full  == Capacity * Token

Buckets == [tokens : 0..Full, at : Nat, expires : Nat]

ASSUME LimitsAssumption ==
    /\ Capacity \in Nat \ {0}
    /\ Rate \in Nat \ {0}
    /\ Second \in Nat \ {0}
ASSUME TimesAssumption ==
    /\ Ttl \in Nat
    /\ MaxLag \in Nat
    /\ MaxSkew \in Nat
    /\ MaxFailovers \in Nat
    /\ MaxTime \in Nat
    /\ MaxRewound \in Nat
    /\ MaxUnpaid \in Nat
\* A bucket refills completely, from empty, before it can expire.
ASSUME TtlAssumption == Rate * Ttl >= Full + Rate * (MaxLag + MaxSkew)
ASSUME NoBucketAssumption == NoBucket \notin Buckets

VARIABLES
    now,       \* the slowest clock, and Redis's own
    bucket,    \* the bucket on the Redis primary
    replica,   \* and on its replica, which may be behind
    pc,        \* where each handler is
    stamp,     \* now_ms of each request on its way to Redis, otherwise 0
    decision,  \* the script's decision for it
    latest,    \* history: the time the script last ran with
    promised,  \* history: when the clients refused since the last token was
               \*   taken may come back, as the first of them was told
    opened,    \* history: when the window opened; counted from then on:
    admitted,  \*   how often the script has allowed a request
    rewound,   \*   by how many ticks `latest' went back
    failovers, \*   how often the primary was replaced
    letIn,     \*   how many requests the limiter let through
    unpaid     \*   how many of them without a token of this window: because
               \*   Redis failed, or because they had been allowed before

redis   == <<bucket, replica>>
window  == <<opened, admitted, rewound, failovers, letIn, unpaid>>
vars    == <<now, bucket, replica, pc, stamp, decision, latest, promised, opened, admitted,
             rewound, failovers, letIn, unpaid>>

NoDecision == [allowed |-> FALSE, retryAfter |-> 0]

-----------------------------------------------------------------------------
(***************************************************************************)
(* The Lua script.                                                         *)
(***************************************************************************)

\* An expired key is no key.
Stored(b) == b # NoBucket /\ now < b.expires

Elapsed(b, t) == IF t > b.at THEN t - b.at ELSE 0

\* Mutant of Refilled: the refill is not capped.
Refilled_Uncapped(b, t) == IF Stored(b) THEN b.tokens + Rate * Elapsed(b, t) ELSE Full

\* The tokens in the bucket at time t, refilled up to the capacity.
Refilled(b, t) ==
    IF Stored(b) /\ b.tokens + Rate * Elapsed(b, t) < Full
    THEN b.tokens + Rate * Elapsed(b, t) ELSE Full

\* Mutant of Left: a refusal keeps the tokens as they were before the refill.
Left_Unrefilled(b, t) ==
    IF Refilled(b, t) >= Token THEN Refilled(b, t) - Token
    ELSE IF Stored(b) THEN b.tokens ELSE Full

\* What the script leaves in the bucket: a refused request takes nothing, and
\* what has been refilled is written back.
Left(b, t) == IF Refilled(b, t) >= Token THEN Refilled(b, t) - Token ELSE Refilled(b, t)

\* Mutant of UpdatedAt: the time of the last refill is not moved on.
UpdatedAt_Kept(b, t) == IF Stored(b) THEN b.at ELSE t

UpdatedAt(b, t) == t

\* Mutant of Expiry: a bucket lives for a tick.
Expiry_Short(t) == t + 1

Expiry(t) == t + Ttl

\* Ticks until the tokens missing for one request are refilled, rounded up.
RetryTicks(tokens) == (Token - tokens + Rate - 1) \div Rate

\* Mutant of RetryAfter: whole seconds, rounded down.
RetryAfter_Truncated(ticks) == ticks \div Second

\* The header: whole seconds, rounded down, and at least one.
RetryAfter(ticks) == IF ticks \div Second > 1 THEN ticks \div Second ELSE 1

\* When a client that is refused now with so many tokens may come back: after
\* the seconds it is told, and as much later as clocks may disagree, so that
\* by no task's clock it has waited less.
Promise(tokens) == now + RetryAfter(RetryTicks(tokens)) * Second + MaxSkew

NoPromise == -1

Sooner(p, q) == IF p # NoPromise /\ p < q THEN p ELSE q

-----------------------------------------------------------------------------
Init ==
    /\ now = 0
    /\ bucket = NoBucket
    /\ replica = NoBucket
    /\ pc = [h \in Handlers |-> "idle"]
    /\ stamp = [h \in Handlers |-> 0]
    /\ decision = [h \in Handlers |-> NoDecision]
    /\ latest = 0
    /\ promised = NoPromise
    /\ opened = 0
    /\ admitted = 0
    /\ rewound = 0
    /\ failovers = 0
    /\ letIn = 0
    /\ unpaid = 0

\* A request arrives; check() reads the clock of the handler's own task.
ReadClock(h) ==
    /\ pc[h] = "idle"
    /\ rewound <= MaxRewound
    /\ \E skew \in 0..MaxSkew : stamp' = [stamp EXCEPT ![h] = now + skew]
    /\ pc' = [pc EXCEPT ![h] = "asked"]
    /\ UNCHANGED <<now, redis, decision, latest, promised, window>>

\* The script runs, whichever request reaches Redis first.
RunScript(h) ==
    LET t       == stamp[h]
        tokens  == Refilled(bucket, t)
        allowed == tokens >= Token IN
    /\ pc[h] = "asked"
    /\ pc' = [pc EXCEPT ![h] = "decided"]
    /\ bucket' = [tokens  |-> Left(bucket, t),
                  at      |-> UpdatedAt(bucket, t),
                  expires |-> Expiry(now)]
    /\ decision' = [decision EXCEPT ![h] =
                       [allowed    |-> allowed,
                        retryAfter |-> IF allowed THEN 0 ELSE RetryAfter(RetryTicks(tokens))]]
    /\ promised' = IF allowed THEN NoPromise ELSE Sooner(promised, Promise(tokens))
    /\ admitted' = IF allowed THEN admitted + 1 ELSE admitted
    /\ latest' = t
    /\ rewound' = IF t < latest THEN rewound + (latest - t) ELSE rewound
    /\ stamp' = [stamp EXCEPT ![h] = 0]
    /\ UNCHANGED <<now, replica, opened, failovers, letIn, unpaid>>

\* The script has run for h and allowed it, and h does not know yet.
Allowed(h) == pc[h] = "decided" /\ decision[h].allowed

Underway == {h \in Handlers : Allowed(h)}

\* Mutant of Passes: the refusal is logged and not raised.
Passes_Logged(h) == pc[h] = "decided"

\* The decision that has arrived lets the request through.
Passes(h) == Allowed(h)

\* h is done with the limiter, and its task is free for the next request.
Leave(h) ==
    /\ pc' = [pc EXCEPT ![h] = "idle"]
    /\ stamp' = [stamp EXCEPT ![h] = 0]
    /\ decision' = [decision EXCEPT ![h] = NoDecision]
    /\ UNCHANGED <<now, redis, latest, promised, opened, admitted, rewound, failovers>>

\* The decision reaches the handler, which goes on or answers 429.
Proceed(h) ==
    /\ pc[h] = "decided"
    /\ letIn' = IF Passes(h) THEN letIn + 1 ELSE letIn
    /\ UNCHANGED unpaid
    /\ Leave(h)

\* Redis fails, before or after running the script: the request is let
\* through, whatever the script decided.
FailOpen(h) ==
    /\ pc[h] \in {"asked", "decided"}
    /\ unpaid < MaxUnpaid
    /\ letIn' = letIn + 1
    /\ unpaid' = IF Allowed(h) THEN unpaid ELSE unpaid + 1
    /\ Leave(h)

-----------------------------------------------------------------------------
\* The replica follows the primary, some time later.
Replicate ==
    /\ replica' = bucket
    /\ UNCHANGED <<now, bucket, pc, stamp, decision, latest, promised, window>>

\* Automatic failover: the replica becomes the primary as far as it got.
Failover ==
    /\ failovers < MaxFailovers
    /\ bucket' = replica
    /\ failovers' = failovers + 1
    /\ promised' = NoPromise
    /\ UNCHANGED <<now, replica, pc, stamp, decision, latest, opened, admitted, rewound,
                   letIn, unpaid>>

Tick ==
    /\ now < MaxTime
    /\ \A h \in Handlers : pc[h] = "asked" => now < stamp[h] + MaxLag
    /\ now' = now + 1
    /\ UNCHANGED <<redis, pc, stamp, decision, latest, promised, window>>

\* From this moment on requests are counted.  What the script has allowed
\* before and a handler has yet to learn was not paid for in this window.
OpenWindow ==
    /\ opened' = now
    /\ admitted' = 0
    /\ rewound' = 0
    /\ failovers' = 0
    /\ letIn' = 0
    /\ unpaid' = Cardinality(Underway)
    /\ UNCHANGED <<now, redis, pc, stamp, decision, latest, promised>>

Next ==
    \/ \E h \in Handlers :
          ReadClock(h) \/ RunScript(h) \/ Proceed(h) \/ FailOpen(h)
    \/ Replicate
    \/ Failover
    \/ Tick
    \/ OpenWindow

Spec == Init /\ [][Next]_vars

-----------------------------------------------------------------------------
(***************************************************************************)
(* Properties.                                                             *)
(***************************************************************************)

\* The script's numbers stay in range: no bucket is overdrawn or overfull.
TypeOK ==
    /\ now \in Nat
    /\ bucket \in Buckets \cup {NoBucket}
    /\ replica \in Buckets \cup {NoBucket}
    /\ pc \in [Handlers -> {"idle", "asked", "decided"}]
    /\ stamp \in [Handlers -> Nat]
    /\ decision \in [Handlers -> [allowed : BOOLEAN, retryAfter : Nat]]
    /\ latest \in Nat
    /\ promised \in Nat \cup {NoPromise}
    /\ opened \in 0..now
    /\ admitted \in Nat
    /\ rewound \in Nat
    /\ failovers \in Nat
    /\ letIn \in Nat
    /\ unpaid \in Nat

\* The oldest time a request that the script has yet to decide can carry.
Oldest == opened - MaxLag

\* What the limiter claims ("concurrent requests against the same bucket
\* can't race past the limit"): whenever one starts to count, never more
\* requests allowed than the capacity and what has been refilled since, by
\* clocks that are late by MaxLag and fast by MaxSkew at most.
LimitRespected == admitted * Token <= Full + Rate * (now + MaxSkew - Oldest)

\* What it really guarantees, of the requests that were let through.  The
\* times the script is given may go back, when requests overtake each other
\* or tasks' clocks disagree, and every tick they go back is refilled twice;
\* a failover costs one more full bucket at most; and a request that a
\* failure of Redis lets through goes uncounted by the script.
LimitWithRefunds ==
    letIn * Token <= Full * (1 + failovers) + Rate * (now + MaxSkew - Oldest + rewound)
                       + unpaid * Token

\* Waiting as told is enough: once a client has been refused, the first request
\* that carries a time from the promised one on is allowed.  This is said
\* across all that may run in between: refused requests of others, which
\* move the time of the last refill forward or back, overtaking, and the
\* expiry of the bucket.  Only a token that somebody takes, or a new primary, ends
\* the promise.  Without the MaxSkew in it, it would not hold: a retry after
\* exactly the seconds told may meet a task whose clock is behind.
RetryAfterSuffices ==
    [][ \A h \in Handlers :
            pc[h] = "asked" /\ pc'[h] = "decided" /\ promised # NoPromise
              => (stamp[h] >= promised => decision'[h].allowed) ]_vars

-----------------------------------------------------------------------------
(***************************************************************************)
(* The inductive invariant behind the limit.                               *)
(***************************************************************************)

\* The clocks of requests that are still to reach Redis.
Clocks ==
    /\ latest <= now + MaxSkew
    /\ \A h \in Handlers :
          pc[h] = "asked" => /\ stamp[h] <= now + MaxSkew
                             /\ now <= stamp[h] + MaxLag

\* The time up to which this window has refilled the bucket.
RefilledTo == IF latest > Oldest THEN latest ELSE Oldest

Allowance == Full * (1 + failovers) + Rate * (RefilledTo - Oldest + rewound)

\* Either a whole bucket is still unaccounted for, or the bucket on the
\* primary is the one the script wrote last, in this window, and what it
\* holds is accounted for.
Accounted ==
    \/ admitted * Token + Full <= Allowance
    \/ /\ bucket # NoBucket
       /\ bucket.at = latest
       /\ latest >= Oldest
       /\ bucket.expires + MaxSkew >= latest + Ttl
       /\ admitted * Token + bucket.tokens <= Allowance

\* While a promise stands, the bucket holds what with the refill until then
\* makes a token.
Kept ==
    promised # NoPromise =>
        bucket # NoBucket /\ bucket.tokens + Rate * (promised - bucket.at) >= Token

\* Every request let through, and every one that will be, was allowed by the
\* script in this window or is counted as unpaid.
Paid ==
    /\ IsFiniteSet(Underway)
    /\ letIn + Cardinality(Underway) = admitted + unpaid

LimitInv == TypeOK /\ Clocks /\ Accounted /\ Kept /\ Paid

=============================================================================
