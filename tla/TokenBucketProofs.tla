-------------------------- MODULE TokenBucketProofs --------------------------
(***************************************************************************)
(* The rate limit proved for every capacity, rate, life of a bucket and    *)
(* number of handlers.  The invariant Accounted follows the tokens: what   *)
(* has been allowed, with what is left in the bucket, never exceeds what   *)
(* the times the script was given have refilled.  It holds of every window *)
(* because a bucket never holds more than its capacity, however long it    *)
(* was left alone before the window opened.                                *)
(***************************************************************************)
EXTENDS TokenBucket, FiniteSetTheorems, TLAPS

\* Multiplication by the rate, the capacity and the size of a token, which
\* are positive numbers.
LEMMA Products ==
    /\ Token \in Nat \ {0}
    /\ Full \in Nat
    /\ Token <= Full
    /\ \A n \in Int : Rate * n \in Int /\ n * Token \in Int
    /\ \A n \in Int : (n + 1) * Token = n * Token + Token
    /\ \A m, n \in Int : Rate * (m + n) = Rate * m + Rate * n
    /\ \A m, n \in Int : m <= n => Rate * m <= Rate * n
    /\ \A n \in Nat : Rate * n \in Nat /\ n * Token \in Nat /\ Full * n \in Nat
    /\ \A n \in Int : Full * (1 + (n + 1)) = Full * (1 + n) + Full
  <1> USE LimitsAssumption
  <1>1. Token \in Nat \ {0}
    BY DEF Token
  <1>2. Full \in Nat /\ Token <= Full
    <2>1. \A c, t \in Nat \ {0} : c * t \in Nat /\ t <= c * t
      OBVIOUS
    <2> QED BY <1>1, <2>1 DEF Full
  <1>3. ASSUME NEW n \in Int PROVE Rate * n \in Int /\ n * Token \in Int
    BY <1>1
  <1>4. ASSUME NEW n \in Int PROVE (n + 1) * Token = n * Token + Token
    BY <1>1
  <1>5. ASSUME NEW m \in Int, NEW n \in Int PROVE Rate * (m + n) = Rate * m + Rate * n
    OBVIOUS
  <1>6. ASSUME NEW m \in Int, NEW n \in Int, m <= n PROVE Rate * m <= Rate * n
    <2>1. \A k \in Nat : Rate * k >= 0
      OBVIOUS
    <2>2. Rate * (n - m) >= 0 /\ Rate * n = Rate * m + Rate * (n - m)
      BY <1>6, <2>1
    <2> QED BY <2>2
  <1>7. ASSUME NEW n \in Nat PROVE Rate * n \in Nat /\ n * Token \in Nat /\ Full * n \in Nat
    <2>1. \A c, t \in Nat : c * t \in Nat
      OBVIOUS
    <2> QED BY <1>1, <1>2, <2>1
  <1>8. ASSUME NEW n \in Int PROVE Full * (1 + (n + 1)) = Full * (1 + n) + Full
    BY <1>2
  <1> QED BY <1>1, <1>2, <1>3, <1>4, <1>5, <1>6, <1>7, <1>8

\* What the script finds in the bucket: between nothing and a full bucket,
\* and no more than was left and what Elapsed has refilled.
LEMMA RefilledFacts ==
    ASSUME NEW b \in Buckets \cup {NoBucket}, NEW t \in Nat, now \in Nat
    PROVE  /\ Refilled(b, t) \in 0..Full
           /\ Stored(b) => /\ Elapsed(b, t) \in Nat
                           /\ Refilled(b, t) <= b.tokens + Rate * Elapsed(b, t)
  <1>1. CASE Stored(b)
    <2>1. b \in Buckets
      BY <1>1 DEF Stored
    <2>2. Elapsed(b, t) \in Nat /\ b.tokens \in 0..Full
      BY <2>1 DEF Elapsed, Buckets
    <2>3. Rate * Elapsed(b, t) \in Nat /\ Full \in Nat
      BY <2>2, Products
    <2> QED BY <1>1, <2>2, <2>3 DEF Refilled
  <1>2. CASE ~Stored(b)
    BY <1>2, Products DEF Refilled
  <1> QED BY <1>1, <1>2

\* The wait a refused request is told is a whole number of seconds, at least
\* one, in which the missing part of a token is refilled.
LEMMA RetryFacts ==
    ASSUME NEW tokens \in 0..Full, tokens < Token
    PROVE  /\ RetryAfter(RetryTicks(tokens)) \in Nat
           /\ tokens + Rate * (RetryAfter(RetryTicks(tokens)) * Second) >= Token
  <1> DEFINE w == RetryAfter(RetryTicks(tokens))
  <1>1. Second \in Nat \ {0} /\ Rate \in Nat \ {0} /\ tokens \in Nat /\ Token = Second
    BY LimitsAssumption, Products DEF Token
  <1>2. RetryTicks(tokens) \in Int
    BY <1>1 DEF RetryTicks
  <1>3. w \in Nat /\ w >= 1
    BY <1>1, <1>2 DEF RetryAfter
  <1>4. \A x, s \in Nat : x >= 1 => x * s \in Nat /\ x * s >= s
    OBVIOUS
  <1>5. w * Second \in Nat /\ w * Second >= Second
    BY <1>1, <1>3, <1>4
  <1>6. Rate * (w * Second) >= w * Second
    BY <1>1, <1>4, <1>5
  <1>7. Rate * (w * Second) \in Int
    BY <1>1, <1>5
  <1> HIDE DEF w
  <1>8. tokens + Rate * (w * Second) >= Token
    BY <1>1, <1>5, <1>6, <1>7
  <1> QED BY <1>3, <1>8 DEF w

\* By the time promised to a client that is refused with so many tokens, the
\* rest of a token is refilled, whatever clock the refusal was stamped by.
LEMMA PromiseFacts ==
    ASSUME now \in Nat, NEW t \in Nat, t <= now + MaxSkew,
           NEW tokens \in 0..Full, tokens < Token
    PROVE  /\ Promise(tokens) \in Nat
           /\ tokens + Rate * (Promise(tokens) - t) >= Token
  <1> DEFINE wait == RetryAfter(RetryTicks(tokens)) * Second
             late == now + MaxSkew - t
  <1>1. tokens \in Nat /\ Token \in Nat /\ late \in Nat /\ MaxSkew \in Nat
    BY Products, TimesAssumption
  <1>2. wait \in Nat /\ tokens + Rate * wait >= Token
    <2>1. RetryAfter(RetryTicks(tokens)) \in Nat /\ Second \in Nat
      BY RetryFacts, LimitsAssumption
    <2>2. \A x, y \in Nat : x * y \in Nat
      OBVIOUS
    <2> QED BY <2>1, <2>2, RetryFacts
  <1>3. Promise(tokens) = now + wait + MaxSkew
    BY DEF Promise
  <1> HIDE DEF wait
  <1>4. Promise(tokens) \in Nat /\ Promise(tokens) - t = wait + late
    BY <1>1, <1>2, <1>3
  <1> HIDE DEF late
  <1>5. Rate * (wait + late) = Rate * wait + Rate * late
    BY <1>1, <1>2, Products
  <1>6. Rate * late \in Nat /\ Rate * wait \in Nat
    BY <1>1, <1>2, Products
  <1>7. tokens + Rate * (wait + late) >= Token
    BY <1>1, <1>2, <1>5, <1>6
  <1> QED BY <1>4, <1>7

\* A refusal keeps what the bucket holds and refills until any later time:
\* what a clock that goes back takes off the elapsed time, it adds to the
\* time still to come.
LEMMA RefusalKeeps ==
    ASSUME NEW b \in Buckets, NEW t \in Nat, NEW p \in Nat, now \in Nat,
           b.tokens + Rate * (p - b.at) >= Token,
           Refilled(b, t) < Token
    PROVE  Refilled(b, t) + Rate * (p - t) >= Token
  <1>1. Stored(b) /\ Refilled(b, t) = b.tokens + Rate * Elapsed(b, t)
    BY Products DEF Refilled
  <1>2. b.at \in Nat /\ b.tokens \in Nat /\ Token \in Nat
    BY Products DEF Buckets
  <1> DEFINE gone   == Elapsed(b, t)
             before == p - b.at
             after  == p - t
  <1>3. gone \in Int /\ before \in Int /\ after \in Int /\ before <= gone + after
    BY <1>2 DEF Elapsed
  <1> HIDE DEF gone, before, after
  <1>4. Rate * before <= Rate * (gone + after)
    <2>1. gone + after \in Int
      BY <1>3
    <2> QED BY <1>3, <2>1, Products
  <1>5. Rate * (gone + after) = Rate * gone + Rate * after
    BY <1>3, Products
  <1>6. Rate * before \in Int /\ Rate * gone \in Int /\ Rate * after \in Int
    BY <1>3, Products
  <1>7. b.tokens + Rate * before >= Token /\ Refilled(b, t) = b.tokens + Rate * gone
    BY <1>1 DEF gone, before
  <1>8. Refilled(b, t) + Rate * after >= Token
    BY <1>2, <1>4, <1>5, <1>6, <1>7
  <1> QED BY <1>8 DEF after

-----------------------------------------------------------------------------
(***************************************************************************)
(* The invariant.                                                          *)
(***************************************************************************)

\* Every step keeps the types.
LEMMA NextTyped == ASSUME TypeOK, Clocks, Paid, [Next]_vars PROVE TypeOK'
  <1> USE TimesAssumption DEF TypeOK, NoDecision
  <1>1. ASSUME NEW h \in Handlers, ReadClock(h) PROVE TypeOK'
    BY <1>1 DEF ReadClock, redis, window
  <1>2. ASSUME NEW h \in Handlers, RunScript(h) PROVE TypeOK'
    <2> DEFINE t == stamp[h]
               tokens == Refilled(bucket, t)
    <2>1. t \in Nat /\ tokens \in 0..Full
      BY RefilledFacts
    <2>2. Token \in Nat \ {0} /\ Full \in Nat
      BY Products
    <2> HIDE DEF tokens
    <2>3. bucket' \in Buckets
      BY <1>2, <2>1, <2>2 DEF RunScript, Buckets, Left, UpdatedAt, Expiry, tokens
    <2>4. decision' \in [Handlers -> [allowed : BOOLEAN, retryAfter : Nat]]
      <3>1. tokens < Token => RetryAfter(RetryTicks(tokens)) \in Nat
        BY <2>1, RetryFacts
      <3> DEFINE d == [allowed    |-> tokens >= Token,
                       retryAfter |-> IF tokens >= Token THEN 0
                                      ELSE RetryAfter(RetryTicks(tokens))]
      <3>2. d \in [allowed : BOOLEAN, retryAfter : Nat]
        BY <2>1, <2>2, <3>1
      <3>3. decision' = [decision EXCEPT ![h] = d]
        BY <1>2 DEF RunScript, tokens
      <3> QED BY <3>2, <3>3
    <2>5. admitted' \in Nat /\ latest' \in Nat /\ rewound' \in Nat
      BY <1>2, <2>1 DEF RunScript
    <2>6. promised' \in Nat \cup {NoPromise}
      <3>1. tokens < Token => Promise(tokens) \in Nat
        <4>1. t <= now + MaxSkew
          BY <1>2 DEF Clocks, RunScript
        <4> QED BY <2>1, <4>1, PromiseFacts
      <3>2. promised' = IF tokens >= Token THEN NoPromise ELSE Sooner(promised, Promise(tokens))
        BY <1>2 DEF RunScript, tokens
      <3> QED BY <2>1, <2>2, <3>1, <3>2 DEF Sooner
    <2> QED BY <1>2, <2>3, <2>4, <2>5, <2>6 DEF RunScript
  <1>3. ASSUME NEW h \in Handlers, Proceed(h) \/ FailOpen(h) PROVE TypeOK'
    <2>1. letIn' \in Nat /\ unpaid' \in Nat
      BY <1>3 DEF Proceed, FailOpen
    <2>2. Leave(h)
      BY <1>3 DEF Proceed, FailOpen
    <2>3. /\ pc' \in [Handlers -> {"idle", "asked", "decided"}]
          /\ stamp' \in [Handlers -> Nat]
          /\ decision' \in [Handlers -> [allowed : BOOLEAN, retryAfter : Nat]]
      BY <2>2 DEF Leave
    <2> QED BY <2>1, <2>2, <2>3 DEF Leave, redis
  <1>4. CASE Replicate
    BY <1>4 DEF Replicate, window
  <1>5. CASE Failover
    BY <1>5 DEF Failover
  <1>6. CASE Tick
    BY <1>6 DEF Tick, redis, window
  <1>7. CASE OpenWindow
    <2>1. unpaid' \in Nat
      BY <1>7, FS_CardinalityType DEF OpenWindow, Paid
    <2> QED BY <1>7, <2>1 DEF OpenWindow, redis
  <1>8. CASE UNCHANGED vars
    BY <1>8 DEF vars
  <1> QED BY <1>1, <1>2, <1>3, <1>4, <1>5, <1>6, <1>7, <1>8 DEF Next

\* No clock is further ahead or behind than the bounds say.
LEMMA NextClocks == ASSUME TypeOK, Clocks, [Next]_vars PROVE Clocks'
  <1> USE TimesAssumption DEF TypeOK, Clocks
  <1>1. ASSUME NEW h \in Handlers, ReadClock(h) PROVE Clocks'
    BY <1>1 DEF ReadClock
  <1>2. ASSUME NEW h \in Handlers, RunScript(h) PROVE Clocks'
    BY <1>2 DEF RunScript
  <1>3. ASSUME NEW h \in Handlers, Proceed(h) \/ FailOpen(h) PROVE Clocks'
    BY <1>3 DEF Proceed, FailOpen, Leave
  <1>4. CASE Replicate
    BY <1>4 DEF Replicate
  <1>5. CASE Failover
    BY <1>5 DEF Failover
  <1>6. CASE Tick
    BY <1>6 DEF Tick
  <1>7. CASE OpenWindow
    BY <1>7 DEF OpenWindow
  <1>8. CASE UNCHANGED vars
    BY <1>8 DEF vars
  <1> QED BY <1>1, <1>2, <1>3, <1>4, <1>5, <1>6, <1>7, <1>8 DEF Next

\* The window has refilled the bucket up to a time no earlier than the first
\* that a request of it can carry, and no later than the fastest clock.
LEMMA WindowFacts ==
    ASSUME TypeOK
    PROVE  /\ Oldest \in Int
           /\ RefilledTo \in Int
           /\ RefilledTo - Oldest + rewound \in Nat
           /\ latest <= now + MaxSkew => RefilledTo <= now + MaxSkew
  BY TimesAssumption DEF TypeOK, Oldest, RefilledTo

\* The allowance is a number, and only grows with the times and failovers.
LEMMA AllowanceFacts ==
    ASSUME TypeOK
    PROVE  /\ Allowance \in Int
           /\ admitted * Token \in Nat
           /\ Full * (1 + failovers) \in Nat
           /\ Rate * (RefilledTo - Oldest + rewound) \in Nat
  <1>1. 1 + failovers \in Nat /\ admitted \in Nat
    BY DEF TypeOK
  <1>2. RefilledTo - Oldest + rewound \in Nat
    BY WindowFacts
  <1>3. /\ Rate * (RefilledTo - Oldest + rewound) \in Nat
        /\ Full * (1 + failovers) \in Nat
        /\ admitted * Token \in Nat
    BY <1>1, <1>2, Products
  <1> QED BY <1>3 DEF Allowance

\* What has been spent is within the allowance.
LEMMA SpentAllowed == ASSUME TypeOK, Accounted PROVE admitted * Token <= Allowance
  <1>1. Full \in Nat
    BY Products
  <1>2. bucket # NoBucket => bucket.tokens \in Nat
    BY <1>1 DEF TypeOK, Buckets
  <1>3. Allowance \in Int /\ admitted * Token \in Nat
    BY AllowanceFacts
  <1>4. CASE admitted * Token + Full <= Allowance
    BY <1>1, <1>3, <1>4
  <1>5. CASE bucket # NoBucket /\ admitted * Token + bucket.tokens <= Allowance
    BY <1>2, <1>3, <1>5
  <1> QED BY <1>4, <1>5 DEF Accounted

\* The script keeps the account: what it refills, the time it is given has
\* gained on the time before, and an expired bucket had time to fill up.
LEMMA ScriptAccounted ==
    ASSUME TypeOK, TypeOK', Clocks, Accounted, NEW h \in Handlers, RunScript(h)
    PROVE  Accounted'
  <1> DEFINE t       == stamp[h]
             tokens  == Refilled(bucket, t)
             gain    == IF latest < Oldest THEN t - Oldest
                        ELSE IF t > latest THEN t - latest ELSE 0
             spent   == admitted * Token
  <1>1. /\ t \in Nat /\ now \in Nat /\ latest \in Nat /\ rewound \in Nat
        /\ admitted \in Nat /\ failovers \in Nat /\ opened \in 0..now
        /\ t <= now + MaxSkew /\ now <= t + MaxLag
    BY DEF TypeOK, Clocks, RunScript
  <1>a. Oldest \in Int /\ Oldest <= t /\ gain \in Nat
    BY <1>1, TimesAssumption DEF Oldest
  <1>b. /\ latest' = t /\ Oldest' = Oldest /\ failovers' = failovers
        /\ rewound' = IF t < latest THEN rewound + (latest - t) ELSE rewound
    BY DEF RunScript, Oldest
  <1>2. tokens \in 0..Full /\ Full \in Nat /\ Token \in Nat \ {0}
    BY <1>1, RefilledFacts, Products DEF TypeOK
  <1>3. spent \in Nat /\ Allowance \in Int
    BY AllowanceFacts
  <1>4. Rate * gain \in Nat
    BY <1>a, Products
  <1>5. Allowance' = Allowance + Rate * gain
    <2>1. RefilledTo' - Oldest' + rewound' = (RefilledTo - Oldest + rewound) + gain
      BY <1>1, <1>a, <1>b DEF RefilledTo
    <2>2. RefilledTo - Oldest + rewound \in Int /\ gain \in Int
      BY <1>a, WindowFacts
    <2> HIDE DEF gain
    <2>3. Rate * ((RefilledTo - Oldest + rewound) + gain)
            = Rate * (RefilledTo - Oldest + rewound) + Rate * gain
      BY <2>2, Products
    <2>4. Allowance' = Full * (1 + failovers)
                         + Rate * ((RefilledTo - Oldest + rewound) + gain)
      BY <1>b, <2>1 DEF Allowance
    <2> QED BY <1>4, <2>3, <2>4, AllowanceFacts DEF Allowance
  <1>6. spent + tokens <= Allowance + Rate * gain
    <2>1. CASE spent + Full <= Allowance
      BY <1>2, <1>3, <1>4, <2>1
    <2>2. CASE /\ bucket # NoBucket
               /\ bucket.at = latest
               /\ latest >= Oldest
               /\ bucket.expires + MaxSkew >= latest + Ttl
               /\ spent + bucket.tokens <= Allowance
      <3>1. bucket \in Buckets /\ bucket.tokens \in 0..Full /\ bucket.expires \in Nat
        BY <2>2 DEF TypeOK, Buckets
      <3>2. CASE Stored(bucket)
        <4>1. tokens <= bucket.tokens + Rate * gain
          BY <1>1, <1>a, <2>2, <3>2, RefilledFacts DEF TypeOK, Elapsed
        <4> HIDE DEF tokens, gain, spent
        <4> QED BY <1>2, <1>3, <1>4, <2>2, <3>1, <4>1
      <3>3. CASE ~Stored(bucket)
        <4>1. Ttl <= gain + (MaxLag + MaxSkew)
          BY <1>1, <1>a, <2>2, <3>1, <3>3, TimesAssumption DEF Stored
        <4>2. Rate * Ttl <= Rate * gain + Rate * (MaxLag + MaxSkew)
          <5>1. Ttl \in Int /\ MaxLag + MaxSkew \in Int /\ gain \in Int
            BY <1>a, TimesAssumption
          <5>2. gain + (MaxLag + MaxSkew) \in Int
            BY <5>1
          <5> HIDE DEF gain
          <5>3. Rate * Ttl <= Rate * (gain + (MaxLag + MaxSkew))
            BY <4>1, <5>1, <5>2, Products
          <5>4. Rate * (gain + (MaxLag + MaxSkew)) = Rate * gain + Rate * (MaxLag + MaxSkew)
            BY <5>1, Products
          <5> QED BY <5>3, <5>4
        <4>3. Rate * Ttl \in Int /\ Rate * (MaxLag + MaxSkew) \in Int
          BY TimesAssumption, Products
        <4>4. Full <= Rate * gain
          BY <1>2, <1>4, <4>2, <4>3, TtlAssumption
        <4> HIDE DEF tokens, gain, spent
        <4> QED BY <1>2, <1>3, <1>4, <2>2, <3>1, <4>4
      <3> QED BY <3>2, <3>3
    <2> QED BY <2>1, <2>2 DEF Accounted
  <1>7. admitted' * Token + bucket'.tokens = spent + tokens
    <2>1. (admitted + 1) * Token = spent + Token
      BY <1>1, Products
    <2>2. CASE tokens >= Token
      <3>1. admitted' = admitted + 1 /\ bucket'.tokens = tokens - Token
        BY <2>2 DEF RunScript, Left
      <3> HIDE DEF tokens, spent
      <3> QED BY <1>2, <1>3, <2>1, <3>1
    <2>3. CASE ~(tokens >= Token)
      BY <2>3 DEF RunScript, Left
    <2> QED BY <2>2, <2>3
  <1>8. bucket' # NoBucket
    <2>1. bucket' \in Buckets
      <3>1. bucket'.at \in {t}
        BY DEF RunScript, UpdatedAt
      <3>2. bucket' = [tokens |-> bucket'.tokens, at |-> bucket'.at, expires |-> bucket'.expires]
        BY DEF RunScript
      <3>3. bucket'.tokens \in 0..Full
        <4> HIDE DEF tokens
        <4> QED BY <1>2 DEF RunScript, Left, tokens
      <3>4. bucket'.at \in Nat /\ bucket'.expires \in Nat
        BY <1>1, TimesAssumption DEF RunScript, UpdatedAt, Expiry
      <3> QED BY <3>2, <3>3, <3>4 DEF Buckets
    <2> QED BY <2>1, NoBucketAssumption
  <1>9. /\ bucket'.at = latest' /\ bucket'.expires + MaxSkew >= latest' + Ttl
        /\ latest' >= Oldest'
    BY <1>1, <1>a, <1>b, TimesAssumption DEF RunScript, UpdatedAt, Expiry
  <1> QED BY <1>5, <1>6, <1>7, <1>8, <1>9 DEF Accounted

\* Only the script, a failover and a new window touch the account.
LEMMA NextAccounted ==
    ASSUME TypeOK, TypeOK', Clocks, Accounted, [Next]_vars PROVE Accounted'
  <1> DEFINE account == <<bucket, latest, opened, admitted, rewound, failovers>>
  <1>1. ASSUME UNCHANGED account PROVE Accounted'
    BY <1>1 DEF Accounted, Allowance, RefilledTo, Oldest
  <1>2. ASSUME NEW h \in Handlers, ReadClock(h) PROVE UNCHANGED account
    BY <1>2 DEF ReadClock, redis, window
  <1>3. ASSUME NEW h \in Handlers, RunScript(h) PROVE Accounted'
    BY <1>3, ScriptAccounted
  <1>4. ASSUME NEW h \in Handlers, Proceed(h) \/ FailOpen(h) PROVE UNCHANGED account
    BY <1>4 DEF Proceed, FailOpen, Leave, redis
  <1>5. CASE Replicate
    BY <1>1, <1>5 DEF Replicate, window
  <1>6. CASE Failover
    <2>1. Allowance' = Allowance + Full
      <3>1. failovers' = failovers + 1 /\ UNCHANGED <<latest, opened, rewound>>
        BY <1>6 DEF Failover
      <3>2. Full * (1 + (failovers + 1)) = Full * (1 + failovers) + Full
        BY Products DEF TypeOK
      <3>3. UNCHANGED <<RefilledTo, Oldest, rewound>>
        BY <3>1 DEF RefilledTo, Oldest
      <3> QED BY <3>1, <3>2, <3>3, AllowanceFacts, Products DEF Allowance
    <2>2. admitted * Token <= Allowance
      BY SpentAllowed
    <2>3. admitted' * Token + Full <= Allowance'
      BY <1>6, <2>1, <2>2, AllowanceFacts, Products DEF Failover
    <2> QED BY <2>3 DEF Accounted
  <1>7. CASE Tick
    BY <1>1, <1>7 DEF Tick, redis, window
  <1>8. CASE OpenWindow
    <2>1. admitted' = 0 /\ failovers' = 0 /\ rewound' = 0 /\ latest' = latest /\ opened' = now
      BY <1>8 DEF OpenWindow
    <2>2. Full * (1 + 0) = Full /\ 0 * Token = 0 /\ Full \in Nat
      BY Products
    <2> DEFINE refilled == IF latest > now - MaxLag THEN latest - (now - MaxLag) ELSE 0
    <2>3. refilled \in Nat
      BY TimesAssumption DEF TypeOK
    <2>4. RefilledTo' - Oldest' + rewound' = refilled
      BY <2>1, TimesAssumption DEF TypeOK, RefilledTo, Oldest
    <2>5. Rate * refilled \in Nat
      BY <2>3, Products
    <2> HIDE DEF refilled
    <2>6. Allowance' = Full + Rate * refilled
      BY <2>1, <2>2, <2>4 DEF Allowance
    <2> QED BY <2>1, <2>2, <2>5, <2>6 DEF Accounted
  <1>9. CASE UNCHANGED vars
    BY <1>1, <1>9 DEF vars
  <1> QED BY <1>1, <1>2, <1>3, <1>4, <1>5, <1>6, <1>7, <1>8, <1>9 DEF Next

\* A promise stands on the bucket's tokens: another refusal keeps it and may
\* make an earlier one, and what takes tokens away ends it.
LEMMA NextKept == ASSUME TypeOK, TypeOK', Clocks, Kept, [Next]_vars PROVE Kept'
  <1>1. ASSUME UNCHANGED <<bucket, promised>> PROVE Kept'
    BY <1>1 DEF Kept
  <1>2. ASSUME NEW h \in Handlers, RunScript(h) PROVE Kept'
    <2> DEFINE t      == stamp[h]
               tokens == Refilled(bucket, t)
    <2>1. t \in Nat /\ now \in Nat /\ t <= now + MaxSkew
      BY <1>2 DEF TypeOK, Clocks, RunScript
    <2>2. tokens \in 0..Full /\ Full \in Nat /\ Token \in Nat
      BY <2>1, RefilledFacts, Products DEF TypeOK
    <2>3. promised' = IF tokens >= Token THEN NoPromise ELSE Sooner(promised, Promise(tokens))
      BY <1>2 DEF RunScript
    <2>4. bucket' # NoBucket
      <3>1. bucket' = [tokens |-> Left(bucket, t), at |-> t, expires |-> now + Ttl]
        BY <1>2 DEF RunScript, UpdatedAt, Expiry
      <3>2. Left(bucket, t) \in 0..Full
        <4> HIDE DEF tokens
        <4> QED BY <2>2 DEF Left, tokens
      <3>3. bucket' \in Buckets
        BY <2>1, <3>1, <3>2, TimesAssumption DEF Buckets
      <3> QED BY <3>3, NoBucketAssumption
    <2>5. CASE tokens >= Token
      BY <2>3, <2>5 DEF Kept
    <2>6. CASE ~(tokens >= Token)
      <3>1. bucket'.tokens = tokens /\ bucket'.at = t
        BY <1>2, <2>6 DEF RunScript, Left, UpdatedAt
      <3>2. tokens < Token
        BY <2>2, <2>6
      <3>3. promised' = Promise(tokens) \/ (promised # NoPromise /\ promised' = promised)
        BY <2>3, <2>6 DEF Sooner
      <3>4. tokens + Rate * (Promise(tokens) - t) >= Token
        BY <2>1, <2>2, <3>2, PromiseFacts
      <3>5. promised # NoPromise => tokens + Rate * (promised - t) >= Token
        <4> SUFFICES ASSUME promised # NoPromise
                     PROVE  tokens + Rate * (promised - t) >= Token
          OBVIOUS
        <4>1. bucket \in Buckets /\ promised \in Nat
          BY DEF TypeOK, Kept
        <4> QED BY <2>1, <3>2, <4>1, RefusalKeeps DEF Kept
      <3> HIDE DEF tokens, t
      <3> QED BY <2>4, <3>1, <3>3, <3>4, <3>5 DEF Kept
    <2> QED BY <2>5, <2>6
  <1>3. ASSUME NEW h \in Handlers, ReadClock(h) \/ Proceed(h) \/ FailOpen(h)
        PROVE  UNCHANGED <<bucket, promised>>
    BY <1>3 DEF ReadClock, Proceed, FailOpen, Leave, redis
  <1>4. CASE Failover
    BY <1>4 DEF Failover, Kept
  <1>5. CASE Replicate \/ Tick \/ OpenWindow \/ UNCHANGED vars
    BY <1>1, <1>5 DEF Replicate, Tick, OpenWindow, redis, vars
  <1> QED BY <1>1, <1>2, <1>3, <1>4, <1>5 DEF Next

\* Each request let through is paid for by one decision of the script, or
\* counted: taking one of the decisions under way leaves one fewer.
LEMMA NextPaid == ASSUME TypeOK, Paid, [Next]_vars PROVE Paid'
  <1>1. /\ IsFiniteSet(Underway) /\ Cardinality(Underway) \in Nat
        /\ letIn + Cardinality(Underway) = admitted + unpaid
        /\ letIn \in Nat /\ admitted \in Nat /\ unpaid \in Nat
    BY FS_CardinalityType DEF Paid, TypeOK
  <1>2. ASSUME UNCHANGED <<letIn, admitted, unpaid>>, Underway' = Underway PROVE Paid'
    BY <1>1, <1>2 DEF Paid
  <1>3. ASSUME NEW h \in Handlers, ReadClock(h) PROVE Paid'
    <2>1. \A g \in Handlers : Allowed(g)' <=> Allowed(g)
      BY <1>3 DEF ReadClock, Allowed, TypeOK
    <2> QED BY <1>2, <1>3, <2>1 DEF ReadClock, window, Underway
  <1>4. ASSUME NEW h \in Handlers, RunScript(h) PROVE Paid'
    <2> DEFINE allowed == Refilled(bucket, stamp[h]) >= Token
    <2>1. /\ ~Allowed(h)
          /\ Allowed(h)' <=> allowed
          /\ \A g \in Handlers \ {h} : Allowed(g)' <=> Allowed(g)
          /\ UNCHANGED <<letIn, unpaid>>
          /\ admitted' = IF allowed THEN admitted + 1 ELSE admitted
      BY <1>4 DEF RunScript, Allowed, TypeOK
    <2>2. CASE allowed
      <3>1. Underway' = Underway \cup {h} /\ h \notin Underway
        BY <2>1, <2>2 DEF Underway
      <3>2. /\ IsFiniteSet(Underway')
            /\ Cardinality(Underway') = Cardinality(Underway) + 1
        BY <1>1, <3>1, FS_AddElement
      <3> QED BY <1>1, <2>1, <2>2, <3>2 DEF Paid
    <2>3. CASE ~allowed
      <3>1. ASSUME NEW g \in Handlers PROVE Allowed(g)' <=> Allowed(g)
        <4>1. CASE g = h
          BY <2>1, <2>3, <4>1, Zenon
        <4>2. CASE g # h
          BY <2>1, <4>2, Zenon
        <4> QED BY <4>1, <4>2, Zenon
      <3>2. Underway' = Underway
        BY <3>1, Zenon DEF Underway
      <3> QED BY <1>2, <2>1, <2>3, <3>2
    <2> QED BY <2>2, <2>3
  <1>5. ASSUME NEW h \in Handlers, Proceed(h) \/ FailOpen(h) PROVE Paid'
    <2>1. /\ ~Allowed(h)'
          /\ \A g \in Handlers \ {h} : Allowed(g)' <=> Allowed(g)
          /\ UNCHANGED admitted
      BY <1>5 DEF Proceed, FailOpen, Leave, Allowed, TypeOK
    <2>2. /\ Allowed(h) => letIn' = letIn + 1 /\ unpaid' = unpaid
          /\ ~Allowed(h) => letIn' + unpaid = letIn + unpaid'
          /\ letIn' \in Nat /\ unpaid' \in Nat
      BY <1>1, <1>5 DEF Proceed, FailOpen, Passes
    <2>3. CASE Allowed(h)
      <3>1. Underway' = Underway \ {h} /\ h \in Underway
        BY <2>1, <2>3 DEF Underway
      <3>2. /\ IsFiniteSet(Underway')
            /\ Cardinality(Underway') = Cardinality(Underway) - 1
        BY <1>1, <3>1, FS_RemoveElement
      <3> QED BY <1>1, <2>1, <2>2, <2>3, <3>2 DEF Paid
    <2>4. CASE ~Allowed(h)
      <3>1. Underway' = Underway
        BY <2>1, <2>4 DEF Underway
      <3>2. letIn' + unpaid = letIn + unpaid' /\ letIn' \in Nat /\ unpaid' \in Nat
        BY <2>2, <2>4
      <3>3. IsFiniteSet(Underway') /\ Cardinality(Underway') = Cardinality(Underway)
        BY <1>1, <3>1
      <3>4. letIn' + Cardinality(Underway') = admitted' + unpaid'
        <4>1. letIn' + Cardinality(Underway) = admitted + unpaid'
          BY <1>1, <3>2
        <4> QED BY <2>1, <3>3, <4>1
      <3> QED BY <3>3, <3>4 DEF Paid
    <2> QED BY <2>3, <2>4
  <1>6. CASE OpenWindow
    <2>1. Underway' = Underway /\ letIn' = 0 /\ admitted' = 0
          /\ unpaid' = Cardinality(Underway)
      BY <1>6 DEF OpenWindow, Allowed, Underway
    <2> QED BY <1>1, <2>1 DEF Paid
  <1>7. CASE Replicate \/ Failover \/ Tick \/ UNCHANGED vars
    <2>1. Underway' = Underway /\ UNCHANGED <<letIn, admitted, unpaid>>
      BY <1>7 DEF Replicate, Failover, Tick, vars, window, Allowed, Underway
    <2> QED BY <1>2, <2>1
  <1> QED BY <1>3, <1>4, <1>5, <1>6, <1>7 DEF Next

\* LimitInv is an invariant of the limiter.
THEOREM LimitInvariance == Spec => []LimitInv
  <1>1. Init => LimitInv
    <2> SUFFICES ASSUME Init PROVE LimitInv
      OBVIOUS
    <2>1. TypeOK /\ Clocks
      BY TimesAssumption DEF Init, TypeOK, Clocks, NoDecision
    <2>2. Accounted
      <3>1. 0 * Token = 0 /\ Full * (1 + 0) = Full /\ Full \in Nat
        BY Products
      <3>2. Rate * (RefilledTo - Oldest + rewound) \in Nat
        BY <2>1, AllowanceFacts
      <3> QED BY <3>1, <3>2 DEF Init, Accounted, Allowance
    <2>3. Paid
      <3>1. Underway = {}
        BY DEF Init, Allowed, Underway
      <3> QED BY <3>1, FS_EmptySet DEF Init, Paid
    <2>4. Kept
      BY DEF Init, Kept
    <2> QED BY <2>1, <2>2, <2>3, <2>4 DEF LimitInv
  <1>2. LimitInv /\ [Next]_vars => LimitInv'
    BY NextTyped, NextClocks, NextAccounted, NextKept, NextPaid DEF LimitInv
  <1> QED BY <1>1, <1>2, PTL DEF Spec

\* In every window, the script allows no more than the capacity, the refill,
\* what the clocks went back and one full bucket for each failover.
LEMMA AdmittedBounded ==
    ASSUME LimitInv
    PROVE  /\ admitted * Token <= Full * (1 + failovers)
                                    + Rate * (now + MaxSkew - Oldest + rewound)
           /\ Rate * (now + MaxSkew - Oldest + rewound) \in Nat
  <1> USE DEF LimitInv, TypeOK
  <1>1. admitted * Token <= Allowance
    BY SpentAllowed
  <1>2. /\ RefilledTo - Oldest + rewound \in Nat
        /\ now + MaxSkew - Oldest + rewound \in Nat
        /\ RefilledTo - Oldest + rewound <= now + MaxSkew - Oldest + rewound
    BY WindowFacts, TimesAssumption DEF Clocks
  <1>3. Rate * (RefilledTo - Oldest + rewound) <= Rate * (now + MaxSkew - Oldest + rewound)
    BY <1>2, Products
  <1>4. Rate * (now + MaxSkew - Oldest + rewound) \in Nat
    BY <1>2, Products
  <1> QED BY <1>1, <1>3, <1>4, AllowanceFacts DEF Allowance

\* However requests overtake each other, wherever the primary fails and
\* whatever a failing Redis lets through: in every window, the requests let
\* through are bounded by the capacity, the refill, what the clocks went
\* back, one full bucket for each failover, and those failures.
THEOREM LimitWithRefundsHolds == Spec => []LimitWithRefunds
  <1>1. LimitInv => LimitWithRefunds
    <2> SUFFICES ASSUME LimitInv PROVE LimitWithRefunds
      OBVIOUS
    <2> USE DEF LimitInv, TypeOK
    <2>1. letIn <= admitted + unpaid
      BY FS_CardinalityType DEF Paid
    <2>2. letIn * Token <= admitted * Token + unpaid * Token
      <3>1. \A l, a, u, k \in Nat : l <= a + u => l * k <= a * k + u * k
        <4> SUFFICES ASSUME NEW l \in Nat, NEW a \in Nat, NEW u \in Nat, NEW k \in Nat,
                            l <= a + u
                     PROVE  l * k <= a * k + u * k
          OBVIOUS
        <4>1. (a + u - l) * k >= 0
          <5>1. \A x, y \in Nat : x * y >= 0
            OBVIOUS
          <5>2. a + u - l \in Nat
            OBVIOUS
          <5> QED BY <5>1, <5>2
        <4>2. (a + u - l) * k = a * k + u * k - l * k
          OBVIOUS
        <4> QED BY <4>1, <4>2
      <3> QED BY <2>1, <3>1, Products
    <2>3. letIn * Token \in Nat /\ admitted * Token \in Nat /\ unpaid * Token \in Nat
      BY Products
    <2> QED BY <2>2, <2>3, AdmittedBounded, AllowanceFacts DEF LimitWithRefunds
  <1> QED BY <1>1, LimitInvariance, PTL

\* When no request overtakes another, or has its clock overtaken, and the
\* primary does not fail, the limit is what it claims to be.
InOrder == rewound = 0 /\ failovers = 0

THEOREM LimitRespectedInOrder == Spec => [](InOrder => LimitRespected)
  <1>1. LimitInv => (InOrder => LimitRespected)
    <2> SUFFICES ASSUME LimitInv, InOrder PROVE LimitRespected
      OBVIOUS
    <2>1. now + MaxSkew - Oldest \in Int
      BY TimesAssumption, WindowFacts DEF LimitInv, TypeOK
    <2>2. now + MaxSkew - Oldest + rewound = now + MaxSkew - Oldest
      BY <2>1 DEF InOrder
    <2>3. Full * (1 + failovers) = Full
      BY Products DEF InOrder
    <2> QED BY <2>2, <2>3, AdmittedBounded DEF LimitRespected
  <1> QED BY <1>1, LimitInvariance, PTL

\* With clocks that agree and requests that reach Redis in the tick in which
\* they read the clock, and no failover, that is always: the limit is exact.
THEOREM LimitExact ==
    ASSUME MaxLag = 0, MaxSkew = 0, MaxFailovers = 0
    PROVE  Spec => [](admitted * Token <= Full + Rate * (now - opened))
  <1>1. Init => InOrder
    BY DEF Init, InOrder
  <1>2. LimitInv /\ InOrder /\ [Next]_vars => InOrder'
    <2> SUFFICES ASSUME LimitInv, InOrder, [Next]_vars PROVE InOrder'
      OBVIOUS
    <2> USE DEF LimitInv, InOrder
    <2>1. ASSUME NEW h \in Handlers, ReadClock(h) PROVE InOrder'
      BY <2>1 DEF ReadClock, window
    <2>2. ASSUME NEW h \in Handlers, RunScript(h) PROVE InOrder'
      BY <2>2, MaxLag = 0, MaxSkew = 0 DEF RunScript, Clocks, TypeOK
    <2>3. ASSUME NEW h \in Handlers, Proceed(h) \/ FailOpen(h) PROVE InOrder'
      BY <2>3 DEF Proceed, FailOpen, Leave
    <2>4. CASE Replicate
      BY <2>4 DEF Replicate, window
    <2>5. CASE Failover
      BY <2>5, MaxFailovers = 0 DEF Failover
    <2>6. CASE Tick
      BY <2>6 DEF Tick, window
    <2>7. CASE OpenWindow
      BY <2>7 DEF OpenWindow
    <2>8. CASE UNCHANGED vars
      BY <2>8 DEF vars
    <2> QED BY <2>1, <2>2, <2>3, <2>4, <2>5, <2>6, <2>7, <2>8 DEF Next
  <1>3. LimitInv /\ LimitRespected => admitted * Token <= Full + Rate * (now - opened)
    <2>1. LimitInv => now + MaxSkew - Oldest = now - opened
      BY MaxLag = 0, MaxSkew = 0 DEF LimitInv, TypeOK, Oldest
    <2> QED BY <2>1 DEF LimitRespected
  <1> QED BY <1>1, <1>2, <1>3, LimitInvariance, LimitRespectedInOrder, PTL DEF Spec

\* For every capacity, rate, clock error and number of handlers, a request that
\* comes when the first refused client was told to come back, or later, finds
\* its token, whatever refused requests, setbacks of the clock and expiry lay
\* between.
THEOREM RetryAfterCorrect == Spec => RetryAfterSuffices
  <1>1. LimitInv /\ [Next]_vars =>
          \A h \in Handlers :
             pc[h] = "asked" /\ pc'[h] = "decided" /\ promised # NoPromise
               => (stamp[h] >= promised => decision'[h].allowed)
    <2> SUFFICES ASSUME LimitInv, [Next]_vars, NEW h \in Handlers,
                        pc[h] = "asked", pc'[h] = "decided", promised # NoPromise,
                        stamp[h] >= promised
                 PROVE  decision'[h].allowed
      OBVIOUS
    <2> USE DEF LimitInv, TypeOK
    <2>1. RunScript(h)
      BY DEF Next, vars, ReadClock, RunScript, Proceed, FailOpen, Leave, Replicate, Failover,
             Tick, OpenWindow
    <2> DEFINE t      == stamp[h]
               tokens == Refilled(bucket, t)
               late   == t - promised
    <2>2. /\ t \in Nat /\ promised \in Nat /\ late \in Nat /\ promised - t = 0 - late
          /\ bucket \in Buckets /\ bucket.tokens + Rate * (promised - bucket.at) >= Token
      BY DEF Kept
    <2>3. tokens \in 0..Full /\ Full \in Nat /\ Token \in Nat
      BY <2>2, RefilledFacts, Products
    <2>4. ASSUME tokens < Token PROVE FALSE
      <3>1. tokens + Rate * (promised - t) >= Token
        BY <2>2, <2>4, RefusalKeeps
      <3> DEFINE ahead == promised - t
      <3>2. ahead \in Int /\ ahead <= 0
        BY <2>2
      <3>3. tokens + Rate * ahead >= Token
        BY <3>1
      <3> HIDE DEF tokens, t, late, ahead
      <3>4. Rate * ahead <= Rate * 0
        BY <3>2, Products
      <3>5. Rate * 0 = 0
        BY LimitsAssumption
      <3>6. Rate * ahead \in Int
        BY <3>2, Products
      <3> QED BY <2>3, <2>4, <3>3, <3>4, <3>5, <3>6
    <2> HIDE DEF tokens
    <2>5. tokens >= Token
      BY <2>3, <2>4
    <2>6. decision'[h].allowed = (tokens >= Token)
      BY <2>1 DEF RunScript, tokens
    <2> QED BY <2>5, <2>6, Zenon
  <1> QED BY <1>1, LimitInvariance, PTL DEF Spec, RetryAfterSuffices

=============================================================================
