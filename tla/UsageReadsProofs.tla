-------------------------- MODULE UsageReadsProofs --------------------------
(***************************************************************************)
(* The hours proved for every number of posts, every length of the hour    *)
(* and the day and every skew of the clocks up to an hour: usage that is   *)
(* settled stays as it is, a client that waits as told is counted against  *)
(* a later hour, what is on record can be read back, and every read adds   *)
(* up exactly what was received in what it asks for.                       *)
(***************************************************************************)
EXTENDS UsageReads, FiniteSetTheorems, TLAPS

-----------------------------------------------------------------------------
(***************************************************************************)
(* Arithmetic.                                                             *)
(***************************************************************************)

\* What rounding down to a multiple of h does.
LEMMA FloorFacts ==
    ASSUME NEW t \in Int, NEW h \in Nat \ {0}
    PROVE  /\ t - (t % h) \in Int
           /\ t - (t % h) <= t
           /\ t < (t - (t % h)) + h
           /\ (t - (t % h)) % h = 0
           /\ t >= 0 => t - (t % h) >= 0
  <1>1. t % h \in 0..(h - 1)
    BY SMTT(60)
  <1>2. (t - (t % h)) % h = 0
    BY SMTT(60)
  <1>3. t >= 0 => t - (t % h) >= 0
    BY SMTT(60)
  <1> QED BY <1>1, <1>2, <1>3

\* Whole seconds, rounded up, are long enough.
LEMMA CeilingFacts ==
    ASSUME NEW x \in Nat, NEW s \in Nat \ {0}
    PROVE  /\ (x + s - 1) \div s \in Nat
           /\ ((x + s - 1) \div s) * s >= x
  <1> DEFINE y == x + s - 1
             q == y \div s
  <1>1. y \in Nat
    OBVIOUS
  <1>2. q \in Nat
    BY <1>1, SMTT(60)
  <1>3. y = s * q + (y % s) /\ y % s \in 0..(s - 1)
    BY <1>1, SMTT(60)
  <1>4. s * q \in Int /\ q * s = s * q
    BY <1>2
  <1> HIDE DEF q
  <1>5. s * q >= x
    BY <1>3, <1>4
  <1> QED BY <1>2, <1>4, <1>5 DEF q

\* Being at most a day later is being at most a date later.
LEMMA DateFacts ==
    ASSUME NEW x \in Int, NEW y \in Int, NEW d \in Nat \ {0}, x <= y + d
    PROVE  /\ x \div d \in Int
           /\ y \div d \in Int
           /\ x \div d <= (y \div d) + 1
  <1>1. x \div d \in Int /\ y \div d \in Int
    BY SMTT(60)
  <1>2. (y + d) \div d = (y \div d) + 1
    BY SMTT(60)
  <1>3. x \div d <= (y + d) \div d
    BY SMTT(60)
  <1> QED BY <1>1, <1>2, <1>3

LEMMA DivisorFacts == Hour <= Day
  BY TimeAssumption, SMTT(60)

-----------------------------------------------------------------------------
(***************************************************************************)
(* Hours.                                                                  *)
(***************************************************************************)

LEMMA WindowFacts ==
    ASSUME NEW t \in Int
    PROVE  /\ WindowOf(t) \in Int
           /\ WindowOf(t) <= t
           /\ t < WindowOf(t) + Hour
           /\ WindowOf(t) % Hour = 0
           /\ t \in 0..LastStamp => WindowOf(t) \in Windows
  <1>1. WindowOf(t) = t - (t % Hour)
    BY DEF WindowOf, FloorToHourUtc, Instant, Utc
  <1>2. Hour \in Nat \ {0} /\ LastStamp \in Nat
    BY TimeAssumption, SkewAssumption DEF LastStamp
  <1>3. /\ WindowOf(t) \in Int
        /\ WindowOf(t) <= t
        /\ t < WindowOf(t) + Hour
        /\ WindowOf(t) % Hour = 0
        /\ t >= 0 => WindowOf(t) >= 0
    BY <1>1, <1>2, FloorFacts
  <1>4. ASSUME t \in 0..LastStamp PROVE WindowOf(t) \in Windows
    <2>1. WindowOf(t) \in 0..LastStamp
      BY <1>2, <1>3, <1>4
    <2> QED BY <1>3, <2>1 DEF Windows
  <1> QED BY <1>3, <1>4

\* A refused client is told to wait to the end of the hour, or longer.
LEMMA WaitFacts ==
    ASSUME NEW t \in Int
    PROVE  /\ SecondsUntilNextHourBoundary(t) * Second \in Nat
           /\ t + SecondsUntilNextHourBoundary(t) * Second >= WindowOf(t) + Hour
  <1> DEFINE left == WindowOf(t) + Hour - t
             q == (left + Second - 1) \div Second
             w == SecondsUntilNextHourBoundary(t)
  <1>1. left \in Nat /\ WindowOf(t) \in Int
    BY WindowFacts, TimeAssumption
  <1>2. Second \in Nat \ {0}
    BY TimeAssumption
  <1>3. q \in Nat /\ q * Second >= left
    BY <1>1, <1>2, CeilingFacts
  <1>4. w = IF q > 1 THEN q ELSE 1
    BY DEF SecondsUntilNextHourBoundary
  <1> HIDE DEF q, w
  <1>5. w \in Nat /\ w >= q
    BY <1>3, <1>4
  <1>6. \A a, b, s \in Nat : a >= b => a * s \in Nat /\ a * s >= b * s
    <2>1. \A c, s \in Nat : c * s \in Nat
      OBVIOUS
    <2>2. ASSUME NEW a \in Nat, NEW b \in Nat, NEW s \in Nat, a >= b
          PROVE  a * s \in Nat /\ a * s >= b * s
      <3>1. (a - b) * s \in Nat /\ a * s \in Nat /\ b * s \in Nat
        BY <2>1, <2>2
      <3>2. (a - b) * s = a * s - b * s
        OBVIOUS
      <3> QED BY <3>1, <3>2
    <2> QED BY <2>2
  <1>7. w * Second \in Nat /\ w * Second >= q * Second
    BY <1>2, <1>3, <1>5, <1>6
  <1>8. q * Second \in Int
    BY <1>2, <1>3
  <1>9. t + w * Second >= WindowOf(t) + Hour
    BY <1>1, <1>3, <1>7, <1>8, TimeAssumption
  <1> QED BY <1>7, <1>9 DEF w

\* What received after the end of an hour is counted in a later one.
LEMMA LaterFacts ==
    ASSUME NEW t \in Int, NEW w \in Int, w + Hour <= t
    PROVE  WindowOf(t) > w
  BY WindowFacts, TimeAssumption

LEMMA BucketFacts ==
    ASSUME TypeOK, NEW p \in Posts
    PROVE  BucketOf(p) \in Bucket
  <1>1. stamp[p] \in 0..LastStamp /\ meter[p] \in Customers \X Metrics
    BY DEF TypeOK
  <1>2. WindowOf(stamp[p]) \in Windows
    BY <1>1, WindowFacts
  <1> QED BY <1>1, <1>2 DEF BucketOf, Bucket

-----------------------------------------------------------------------------
(***************************************************************************)
(* The invariant.                                                          *)
(***************************************************************************)

LEMMA InitInv == Init => UsageInv
  <1> SUFFICES ASSUME Init PROVE UsageInv
    OBVIOUS
  <1>1. TypeOK
    BY TimeAssumption, SkewAssumption DEF Init, TypeOK, LastStamp
  <1>2. Clocks
    BY DEF Init, Clocks
  <1>3. ASSUME NEW B \in SUBSET Bucket
        PROVE  IsFiniteSet(UnitsOf(B)) /\ Cardinality(UnitsOf(B)) = Cardinality(CountedIn(B))
    <2>1. CountedIn(B) = {}
      BY DEF Init, CountedIn
    <2>2. \A b \in B : {b} \X (1..rollup[b]) = {}
      BY DEF Init
    <2>3. UnitsOf(B) = {}
      BY <2>2 DEF UnitsOf
    <2> QED BY <2>1, <2>3, FS_EmptySet
  <1> QED BY <1>1, <1>2, <1>3 DEF UsageInv, RollupIsCount

LEMMA NextTyped == ASSUME TypeOK, [Next]_vars PROVE TypeOK'
  <1> USE TimeAssumption, SkewAssumption DEF TypeOK
  <1>1. ASSUME NEW p \in Posts, Receive(p) PROVE TypeOK'
    BY <1>1 DEF Receive, LastStamp
  <1>2. ASSUME NEW p \in Posts, Record(p) PROVE TypeOK'
    BY <1>2, BucketFacts DEF Record, Table!CountEvent
  <1>3. ASSUME NEW p \in Posts, Reject(p) PROVE TypeOK'
    <2>1. stamp[p] \in Int
      BY DEF LastStamp
    <2>2. now + SecondsUntilNextHourBoundary(stamp[p]) * Second \in Nat
      BY <2>1, WaitFacts
    <2> QED BY <1>3, <2>2 DEF Reject
  <1>4. ASSUME NEW p \in Posts, Fail(p) PROVE TypeOK'
    BY <1>4 DEF Fail
  <1>5. CASE Tick
    BY <1>5 DEF Tick
  <1>6. CASE UNCHANGED vars
    BY <1>6 DEF vars
  <1> QED BY <1>1, <1>2, <1>3, <1>4, <1>5, <1>6 DEF Next

LEMMA NextClocks == ASSUME TypeOK, Clocks, [Next]_vars PROVE Clocks'
  <1> USE TimeAssumption, SkewAssumption DEF TypeOK, Clocks, LastStamp
  <1>1. ASSUME NEW p \in Posts, Receive(p) PROVE Clocks'
    BY <1>1 DEF Receive
  <1>2. ASSUME NEW p \in Posts, Record(p) PROVE Clocks'
    BY <1>2 DEF Record, Table!CountEvent
  <1>3. ASSUME NEW p \in Posts, Reject(p) PROVE Clocks'
    <2>1. stamp[p] \in Int /\ pc[p] # "idle"
      BY <1>3 DEF Reject
    <2> DEFINE wait == SecondsUntilNextHourBoundary(stamp[p]) * Second
    <2>2. wait \in Nat /\ stamp[p] + wait >= WindowOf(stamp[p]) + Hour
      BY <2>1, WaitFacts
    <2>3. WindowOf(stamp[p]) \in Int
      BY <2>1, WindowFacts
    <2>4. until' = [until EXCEPT ![p] = now + wait]
      BY <1>3 DEF Reject
    <2> HIDE DEF wait
    <2>5. WindowOf(stamp[p]) + Hour <= until'[p] + ahead[p]
      BY <2>1, <2>2, <2>3, <2>4
    <2> QED BY <1>3, <2>4, <2>5 DEF Reject
  <1>4. ASSUME NEW p \in Posts, Fail(p) PROVE Clocks'
    BY <1>4 DEF Fail
  <1>5. CASE Tick
    BY <1>5 DEF Tick
  <1>6. CASE UNCHANGED vars
    BY <1>6 DEF vars
  <1> QED BY <1>1, <1>2, <1>3, <1>4, <1>5, <1>6 DEF Next

\* Leaving the rows and the recorded POSTs of B alone leaves its count alone.
LEMMA SameCount ==
    ASSUME RollupIsCount, NEW B \in SUBSET Bucket,
           \A b \in B : rollup'[b] = rollup[b],
           CountedIn(B)' = CountedIn(B)
    PROVE  /\ IsFiniteSet(UnitsOf(B))'
           /\ (Cardinality(UnitsOf(B)) = Cardinality(CountedIn(B)))'
  <1>1. UnitsOf(B)' = UnitsOf(B)
    BY DEF UnitsOf
  <1> QED BY <1>1 DEF RollupIsCount

\* One more event in bucket b is one more unit in every set with b in it.
LEMMA OneMoreUnit ==
    ASSUME TypeOK, NEW B \in SUBSET Bucket, NEW b \in B,
           rollup' = [rollup EXCEPT ![b] = @ + 1]
    PROVE  /\ UnitsOf(B)' = UnitsOf(B) \cup {<<b, rollup[b] + 1>>}
           /\ <<b, rollup[b] + 1>> \notin UnitsOf(B)
  <1>1. \A c \in B : rollup[c] \in Nat /\ rollup'[c] = IF c = b THEN rollup[b] + 1 ELSE rollup[c]
    BY DEF TypeOK
  <1>2. 1..(rollup[b] + 1) = (1..rollup[b]) \cup {rollup[b] + 1}
    BY <1>1
  <1>3. \A c, n : <<c, n>> \in UnitsOf(B) <=> c \in B /\ n \in 1..rollup[c]
    BY DEF UnitsOf
  <1>4. \A c, n : <<c, n>> \in UnitsOf(B)' <=> c \in B /\ n \in 1..rollup'[c]
    BY DEF UnitsOf
  <1>5. /\ \A u \in UnitsOf(B) : u = <<u[1], u[2]>>
        /\ \A u \in UnitsOf(B)' : u = <<u[1], u[2]>>
    BY DEF UnitsOf
  <1>6. \A c, n : <<c, n>> \in UnitsOf(B)'
                  <=> <<c, n>> \in UnitsOf(B) \/ (c = b /\ n = rollup[b] + 1)
    BY <1>1, <1>2, <1>3, <1>4
  <1>7. rollup[b] + 1 \notin 1..rollup[b]
    BY <1>1
  <1>8. <<b, rollup[b] + 1>> \notin UnitsOf(B)
    BY <1>3, <1>7
  <1> QED BY <1>5, <1>6, <1>8

LEMMA NextCounted ==
    ASSUME TypeOK, RollupIsCount, [Next]_vars
    PROVE  RollupIsCount'
  <1> SUFFICES ASSUME NEW B \in SUBSET Bucket
               PROVE  /\ IsFiniteSet(UnitsOf(B))'
                      /\ (Cardinality(UnitsOf(B)) = Cardinality(CountedIn(B)))'
    BY DEF RollupIsCount, Bucket, Windows, LastStamp
  <1> DEFINE Same == /\ CountedIn(B)' = CountedIn(B)
                     /\ \A b \in B : rollup'[b] = rollup[b]
  <1>1. ASSUME NEW p \in Posts, Receive(p) PROVE Same
    BY <1>1 DEF Receive, MaySend, CountedIn, BucketOf, TypeOK
  <1>2. ASSUME NEW p \in Posts, Record(p), BucketOf(p) \notin B PROVE Same
    <2>1. \A r \in Posts : BucketOf(r)' = BucketOf(r)
      BY <1>2 DEF Record, Table!CountEvent, BucketOf
    <2>2. CountedIn(B)' = CountedIn(B)
      BY <1>2, <2>1 DEF Record, Table!CountEvent, CountedIn, TypeOK
    <2> QED BY <1>2, <2>2 DEF Record, Table!CountEvent, TypeOK
  <1>3. ASSUME NEW p \in Posts, Record(p), BucketOf(p) \in B
        PROVE  /\ IsFiniteSet(UnitsOf(B))'
               /\ (Cardinality(UnitsOf(B)) = Cardinality(CountedIn(B)))'
    <2> DEFINE b == BucketOf(p)
    <2>1. \A r \in Posts : BucketOf(r)' = BucketOf(r)
      BY <1>3 DEF Record, Table!CountEvent, BucketOf
    <2>2. CountedIn(B)' = CountedIn(B) \cup {p} /\ p \notin CountedIn(B)
      BY <1>3, <2>1 DEF Record, Table!CountEvent, CountedIn, TypeOK
    <2>3. IsFiniteSet(CountedIn(B))
      BY PostsAssumption, FS_Subset DEF CountedIn
    <2>4. Cardinality(CountedIn(B) \cup {p}) = Cardinality(CountedIn(B)) + 1
      BY <2>2, <2>3, FS_AddElement
    <2>5. /\ UnitsOf(B)' = UnitsOf(B) \cup {<<b, rollup[b] + 1>>}
          /\ <<b, rollup[b] + 1>> \notin UnitsOf(B)
      BY <1>3, OneMoreUnit DEF Record, Table!CountEvent
    <2>6. IsFiniteSet(UnitsOf(B)) /\ Cardinality(UnitsOf(B)) = Cardinality(CountedIn(B))
      BY DEF RollupIsCount
    <2>7. /\ IsFiniteSet(UnitsOf(B) \cup {<<b, rollup[b] + 1>>})
          /\ Cardinality(UnitsOf(B) \cup {<<b, rollup[b] + 1>>}) = Cardinality(UnitsOf(B)) + 1
      BY <2>5, <2>6, FS_AddElement
    <2> QED BY <2>2, <2>4, <2>5, <2>6, <2>7
  <1>4. ASSUME NEW p \in Posts, Reject(p) PROVE Same
    BY <1>4 DEF Reject, CountedIn, BucketOf, TypeOK
  <1>5. ASSUME NEW p \in Posts, Fail(p) PROVE Same
    BY <1>5 DEF Fail, CountedIn, BucketOf, TypeOK
  <1>6. CASE Tick
    <2>1. Same
      BY <1>6 DEF Tick, CountedIn, BucketOf
    <2> QED BY <2>1, SameCount
  <1>7. CASE UNCHANGED vars
    <2>1. Same
      BY <1>7 DEF vars, CountedIn, BucketOf
    <2> QED BY <2>1, SameCount
  <1> HIDE DEF Same
  <1>8. ASSUME Same PROVE /\ IsFiniteSet(UnitsOf(B))'
                          /\ (Cardinality(UnitsOf(B)) = Cardinality(CountedIn(B)))'
    BY <1>8, SameCount DEF Same
  <1> QED BY <1>1, <1>2, <1>3, <1>4, <1>5, <1>6, <1>7, <1>8 DEF Next

LEMMA NextInv == UsageInv /\ [Next]_vars => UsageInv'
  BY NextTyped, NextClocks, NextCounted DEF UsageInv

\* The state of the ingest stays in its types, no stamp is ahead of its
\* clock, nobody is told too short a wait, and every bucket counts the events
\* recorded in it (create_event, increment_usage_rollup).
THEOREM UsageInvariance == Spec => []UsageInv
  <1> QED BY InitInv, NextInv, PTL DEF Spec

-----------------------------------------------------------------------------
(***************************************************************************)
(* The properties.                                                         *)
(***************************************************************************)

LEMMA SettledStays ==
    ASSUME TypeOK, [Next]_vars, NEW b \in Bucket, Settled(b)
    PROVE  Settled(b)' /\ rollup'[b] = rollup[b]
  <1> USE DEF Settled
  <1>0. b[3] \in Int /\ now \in Nat /\ Hour \in Nat
    BY TimeAssumption DEF Bucket, Windows, LastStamp, TypeOK
  <1>1. ASSUME NEW p \in Posts, Receive(p) PROVE Settled(b)' /\ rollup'[b] = rollup[b]
    <2>1. PICK skew \in 0..MaxSkew : stamp' = [stamp EXCEPT ![p] = now + skew]
      BY <1>1 DEF Receive
    <2>2. now + skew \in Int /\ b[3] + Hour <= now + skew
      BY <1>0, SkewAssumption, TimeAssumption
    <2>3. WindowOf(now + skew) > b[3]
      BY <1>0, <2>2, LaterFacts
    <2>4. BucketOf(p)' # b
      <3>1. BucketOf(p)'[3] = WindowOf(now + skew)
        BY <1>1, <2>1 DEF BucketOf, TypeOK
      <3>2. WindowOf(now + skew) \in Int
        BY <2>2, WindowFacts
      <3> QED BY <1>0, <2>3, <3>1, <3>2
    <2>5. \A r \in Posts \ {p} : BucketOf(r)' = BucketOf(r) /\ pc'[r] = pc[r]
      BY <1>1, <2>1 DEF Receive, BucketOf, TypeOK
    <2> QED BY <1>1, <2>4, <2>5 DEF Receive
  <1>2. ASSUME NEW p \in Posts, Record(p) PROVE Settled(b)' /\ rollup'[b] = rollup[b]
    <2>1. BucketOf(p) # b
      BY <1>2 DEF Record, Table!CountEvent
    <2> QED BY <1>2, <2>1 DEF Record, Table!CountEvent, BucketOf, TypeOK
  <1>3. ASSUME NEW p \in Posts, Reject(p) PROVE Settled(b)' /\ rollup'[b] = rollup[b]
    BY <1>3 DEF Reject, BucketOf, TypeOK
  <1>4. ASSUME NEW p \in Posts, Fail(p) PROVE Settled(b)' /\ rollup'[b] = rollup[b]
    BY <1>4 DEF Fail, BucketOf, TypeOK
  <1>5. CASE Tick
    BY <1>0, <1>5 DEF Tick, BucketOf
  <1>6. CASE UNCHANGED vars
    BY <1>6 DEF vars, BucketOf
  <1> QED BY <1>1, <1>2, <1>3, <1>4, <1>5, <1>6 DEF Next

\* Once an hour is over on every clock and no POST received in it is under
\* way, its usage is final (window_start of create_event).
THEOREM SettledUsageFinal == Spec => SettledIsFinal
  <1>1. UsageInv /\ [Next]_vars
        => [\A b \in Bucket : Settled(b) => Settled(b)' /\ rollup'[b] = rollup[b]]_vars
    BY SettledStays DEF UsageInv
  <1> QED BY <1>1, UsageInvariance, PTL DEF Spec, SettledIsFinal

LEMMA RetryLater ==
    ASSUME TypeOK, Clocks, [Next]_vars, NEW p \in Posts,
           pc[p] = "rejected", pc'[p] = "open", ahead'[p] >= ahead[p]
    PROVE  WindowOf(stamp'[p]) > WindowOf(stamp[p])
  <1>1. Receive(p)
    <2>1. ~UNCHANGED vars /\ ~Tick
      BY DEF vars, Tick
    <2>2. \A r \in Posts : ~Record(r) /\ ~Reject(r) /\ ~Fail(r)
      BY DEF Record, Reject, Fail, TypeOK
    <2>3. \A r \in Posts : Receive(r) => r = p
      BY DEF Receive, TypeOK
    <2> QED BY <2>1, <2>2, <2>3 DEF Next
  <1>2. now >= until[p]
    BY <1>1 DEF Receive, MaySend
  <1>3. stamp'[p] = now + ahead'[p] /\ ahead'[p] \in Nat
    BY <1>1, SkewAssumption, TimeAssumption DEF Receive, TypeOK
  <1>4. stamp[p] \in Int /\ WindowOf(stamp[p]) + Hour <= until[p] + ahead[p]
    BY DEF TypeOK, Clocks, LastStamp
  <1>5. WindowOf(stamp[p]) \in Int
    BY <1>4, WindowFacts
  <1>6. WindowOf(stamp[p]) + Hour <= stamp'[p] /\ stamp'[p] \in Int
    BY <1>2, <1>3, <1>4, <1>5, TimeAssumption, SkewAssumption DEF TypeOK
  <1> QED BY <1>5, <1>6, LaterFacts

\* A client that was refused for the quota and waited as it was told is
\* counted against a later hour (_seconds_until_next_hour_boundary).
THEOREM RetryCorrect == Spec => RetryLandsLater
  <1>1. UsageInv /\ [Next]_vars
        => [\A p \in Posts : /\ pc[p] = "rejected"
                             /\ pc'[p] = "open"
                             /\ ahead'[p] >= ahead[p]
                             => WindowOf(stamp'[p]) > WindowOf(stamp[p])]_vars
    BY RetryLater DEF UsageInv
  <1> QED BY <1>1, UsageInvariance, PTL DEF Spec, RetryLandsLater

LEMMA Readable == UsageInv => RecordedReadable
  <1> SUFFICES ASSUME UsageInv, NEW p \in Posts, NEW skew \in 0..MaxSkew, pc[p] = "recorded"
               PROVE  LET clock  == now + skew
                          window == WindowOf(stamp[p])
                          date   == stamp[p] \div Day IN
                      /\ window >= Earliest(clock) => /\ TimeAccepted(window, clock)
                                                      /\ RangeAccepted(window, window, clock)
                      /\ (clock \div Day) - date <= LookbackDays => DateAccepted(date, clock)
    BY DEF RecordedReadable
  <1> DEFINE clock  == now + skew
             window == WindowOf(stamp[p])
  <1>1. stamp[p] \in Int /\ stamp[p] <= now + ahead[p] /\ ahead[p] \in 0..MaxSkew /\ now \in Nat
    BY DEF UsageInv, TypeOK, Clocks, LastStamp
  <1>2. clock \in Int /\ stamp[p] <= clock + Hour
    BY <1>1, SkewAssumption, TimeAssumption
  <1>3. window \in Int /\ window <= clock + Hour
    BY <1>1, <1>2, WindowFacts, TimeAssumption
  <1>4. window >= Earliest(clock) => TimeAccepted(window, clock) /\ RangeAccepted(window, window, clock)
    BY <1>3 DEF TimeAccepted, RangeAccepted, Latest
  <1>5. stamp[p] <= clock + Day
    BY <1>1, <1>2, DivisorFacts, TimeAssumption
  <1>6. /\ stamp[p] \div Day \in Int
        /\ clock \div Day \in Int
        /\ stamp[p] \div Day <= (clock \div Day) + 1
    BY <1>1, <1>2, <1>5, DateFacts, TimeAssumption
  <1> HIDE DEF clock, window
  <1>7. (clock \div Day) - (stamp[p] \div Day) <= LookbackDays
        => DateAccepted(stamp[p] \div Day, clock)
    BY <1>6, TimeAssumption DEF DateAccepted
  <1> QED BY <1>4, <1>7 DEF clock, window

\* An event on record can be read back at once by its window and by its date,
\* on any task (UsageQueryParams, UsageExportQueryParams, parse_daily_date).
THEOREM ReadBackCorrect == Spec => []RecordedReadable
  <1> QED BY UsageInvariance, Readable, PTL

-----------------------------------------------------------------------------
(***************************************************************************)
(* What the reads add up.                                                  *)
(***************************************************************************)

\* Multiples of h in order of size.
LEMMA MultipleFacts ==
    ASSUME NEW a \in Int, NEW b \in Int, NEW h \in Nat \ {0},
           a % h = 0, b % h = 0, a < b + h
    PROVE  a <= b
  <1> DEFINE i == a \div h
             j == b \div h
  <1>1. i \in Int /\ j \in Int /\ a = h * i /\ b = h * j
    BY SMTT(60)
  <1> HIDE DEF i, j
  <1>2. h * (j + 1) = b + h
    BY <1>1
  <1>3. ASSUME i >= j + 1 PROVE FALSE
    <2>1. i - (j + 1) \in Nat
      BY <1>1, <1>3
    <2>2. h * (i - (j + 1)) \in Nat
      BY <2>1
    <2>3. h * (i - (j + 1)) = h * i - h * (j + 1)
      BY <1>1, SMTT(60)
    <2>4. h * i \in Int /\ h * (j + 1) \in Int
      BY <1>1
    <2> QED BY <1>1, <1>2, <2>2, <2>3, <2>4
  <1>4. i - j <= 0
    BY <1>1, <1>3
  <1>5. h * (j - i) \in Nat
    BY <1>1, <1>4
  <1>6. h * (j - i) = h * j - h * i
    BY <1>1, SMTT(60)
  <1> QED BY <1>1, <1>5, <1>6

\* A multiple of a multiple.
LEMMA DayFacts ==
    ASSUME NEW n \in Int
    PROVE  n * Day \in Int /\ (n * Day) % Hour = 0
  <1> DEFINE k == Day \div Hour
  <1>1. k \in Int /\ Day = Hour * k
    BY TimeAssumption, SMTT(60)
  <1> HIDE DEF k
  <1>2. n * k \in Int /\ n * Day = Hour * (n * k)
    BY <1>1, TimeAssumption, SMTT(60)
  <1>3. \A m \in Int : (Hour * m) % Hour = 0
    BY TimeAssumption, SMTT(60)
  <1> QED BY <1>2, <1>3, TimeAssumption

\* The hour of t is a multiple of Hour that t is less than an hour past,
LEMMA HourFacts ==
    ASSUME NEW t \in Int
    PROVE  /\ WindowOf(t) \in Int
           /\ WindowOf(t) % Hour = 0
           /\ t - WindowOf(t) \in 0..(Hour - 1)
  <1>1. Hour \in Nat \ {0}
    BY TimeAssumption
  <1>2. /\ WindowOf(t) \in Int /\ WindowOf(t) % Hour = 0
        /\ WindowOf(t) <= t /\ t < WindowOf(t) + Hour
    BY WindowFacts
  <1> QED BY <1>1, <1>2

\* and the only one.
LEMMA HourUnique ==
    ASSUME NEW t \in Int, NEW hour \in Int, hour % Hour = 0, t - hour \in 0..(Hour - 1)
    PROVE  hour = WindowOf(t)
  <1>1. Hour \in Nat \ {0}
    BY TimeAssumption
  <1>2. /\ WindowOf(t) \in Int /\ WindowOf(t) % Hour = 0
        /\ WindowOf(t) <= t /\ t < WindowOf(t) + Hour
    BY WindowFacts
  <1>3. hour <= WindowOf(t)
    BY <1>1, <1>2, MultipleFacts
  <1>4. hour \in Int /\ t < hour + Hour
    BY <1>1
  <1>5. WindowOf(t) < hour + Hour
    BY <1>1, <1>2, <1>4
  <1>6. WindowOf(t) <= hour
    BY <1>1, <1>2, <1>4, <1>5, MultipleFacts
  <1> QED BY <1>2, <1>3, <1>6

\* Two moments are in one hour iff their windows are the same.
LEMMA SameHour ==
    ASSUME NEW t \in Int, NEW s \in Int
    PROVE  s \div Hour = t \div Hour <=> WindowOf(s) = WindowOf(t)
  <1>1. Hour \in Nat \ {0}
    BY TimeAssumption
  <1>2. ASSUME NEW x \in Int
        PROVE  x \div Hour \in Int /\ WindowOf(x) = Hour * (x \div Hour)
    <2>1. x - (x % Hour) = Hour * (x \div Hour) /\ x \div Hour \in Int
      BY <1>1, SMTT(60)
    <2> QED BY <2>1 DEF WindowOf, FloorToHourUtc, Instant, Utc
  <1>3. \A i, j \in Int : Hour * i = Hour * j => i = j
    <2>1. ASSUME NEW i \in Int, NEW j \in Int, Hour * i = Hour * j PROVE i = j
      <3>1. \A m, n \in Nat \ {0} : m * n # 0
        OBVIOUS
      <3>2. Hour * (i - j) = 0 /\ Hour * (j - i) = 0
        BY <1>1, <2>1, SMTT(60)
      <3> QED BY <1>1, <3>1, <3>2
    <2> QED BY <2>1
  <1> QED BY <1>2, <1>3

\* A moment is on a date iff its hour is in the day's window.
LEMMA SameDay ==
    ASSUME NEW t \in Int, NEW date \in Int
    PROVE  WindowOf(t) \in DayWindow(date) <=> t \div Day = date
  <1> DEFINE first == date * Day
  <1>1. Hour \in Nat \ {0} /\ Day \in Nat \ {0}
    BY TimeAssumption
  <1>2. /\ WindowOf(t) \in Int /\ WindowOf(t) % Hour = 0
        /\ WindowOf(t) <= t /\ t < WindowOf(t) + Hour
    BY WindowFacts
  <1>3. first \in Int /\ first % Hour = 0
    BY DayFacts
  <1>4. t \div Day = date <=> first <= t /\ t < first + Day
    <2>1. t \div Day \in Int /\ t = Day * (t \div Day) + (t % Day) /\ t % Day \in 0..(Day - 1)
      BY <1>1, SMTT(60)
    <2>2. ASSUME t \div Day = date PROVE first <= t /\ t < first + Day
      <3>1. Day * date = first
        BY <1>1
      <3> QED BY <1>1, <1>3, <2>1, <2>2, <3>1
    <2>3. ASSUME first <= t, t < first + Day PROVE t \div Day = date
      BY <1>1, <2>3, SMTT(60)
    <2> QED BY <2>2, <2>3
  <1> HIDE DEF first
  <1>5. ASSUME first <= t PROVE first <= WindowOf(t)
    <2>1. first < WindowOf(t) + Hour
      BY <1>1, <1>2, <1>3, <1>5
    <2> QED BY <1>1, <1>2, <1>3, <2>1, MultipleFacts
  <1>6. t < first + Day <=> WindowOf(t) < first + Day
    <2>1. ASSUME WindowOf(t) < first + Day PROVE t < first + Day
      <3>1. ((date + 1) * Day) % Hour = 0 /\ (date + 1) * Day \in Int
        BY DayFacts
      <3>2. (date + 1) * Day = first + Day
        BY <1>1 DEF first
      <3>3. CASE t >= first + Day
        <4>1. first + Day < WindowOf(t) + Hour
          BY <1>1, <1>2, <1>3, <3>3
        <4>2. first + Day <= WindowOf(t)
          BY <1>1, <1>2, <3>1, <3>2, <4>1, MultipleFacts
        <4> QED BY <1>1, <1>2, <1>3, <2>1, <4>2
      <3> QED BY <1>1, <1>3, <3>3
    <2>2. t < first + Day => WindowOf(t) < first + Day
      BY <1>1, <1>2, <1>3
    <2> QED BY <2>1, <2>2
  <1>7. WindowOf(t) \in DayWindow(date) <=> first <= WindowOf(t) /\ WindowOf(t) < first + Day
    BY <1>1, <1>2, <1>3 DEF DayWindow, first
  <1> QED BY <1>1, <1>2, <1>3, <1>4, <1>5, <1>6, <1>7

\* One row is as many units as it counts.
LEMMA RowUnits ==
    ASSUME TypeOK, NEW b \in Bucket
    PROVE  Cardinality(UnitsOf({b})) = rollup[b]
  <1>1. rollup[b] \in Nat
    BY DEF TypeOK
  <1>2. UnitsOf({b}) = {b} \X (1..rollup[b])
    BY DEF UnitsOf
  <1>3. IsFiniteSet(1..rollup[b]) /\ Cardinality(1..rollup[b]) = rollup[b]
    BY <1>1, FS_Interval
  <1>4. IsFiniteSet({b}) /\ Cardinality({b}) = 1
    BY FS_Singleton
  <1>5. Cardinality({b} \X (1..rollup[b])) = 1 * rollup[b]
    BY <1>3, <1>4, FS_Product
  <1>6. 1 * rollup[b] = rollup[b]
    BY <1>1
  <1> QED BY <1>2, <1>5, <1>6

LEMMA HourExact ==
    ASSUME TypeOK, RollupIsCount, NEW metric \in Metrics, NEW customer \in Customers,
           NEW t \in Int, NEW o \in Int
    PROVE  GetUsage(customer, metric, [local |-> t + o, offset |-> o])
           = Cardinality({p \in Recorded(metric) : /\ meter[p][1] = customer
                                                   /\ stamp[p] \div Hour = t \div Hour})
  <1> DEFINE b == <<customer, metric, WindowOf(t)>>
             P == {p \in Recorded(metric) : /\ meter[p][1] = customer
                                            /\ stamp[p] \div Hour = t \div Hour}
  <1>1. FloorToHourUtc([local |-> t + o, offset |-> o]) = WindowOf(t)
    BY DEF WindowOf, FloorToHourUtc, Instant, Utc
  <1>2. \A p \in Posts : /\ stamp[p] \in Int
                         /\ meter[p] \in Customers \X Metrics
                         /\ BucketOf(p) \in Bucket
                         /\ BucketOf(p) = <<meter[p][1], meter[p][2], WindowOf(stamp[p])>>
    BY BucketFacts DEF TypeOK, LastStamp, BucketOf
  <1>3. P = CountedIn({b})
    <2>1. \A p \in Posts : stamp[p] \div Hour = t \div Hour <=> WindowOf(stamp[p]) = WindowOf(t)
      BY <1>2, SameHour
    <2> QED BY <1>2, <2>1 DEF Recorded, CountedIn
  <1>4. CASE b \in Bucket
    <2>1. Cardinality(UnitsOf({b})) = Cardinality(CountedIn({b}))
      BY <1>4 DEF RollupIsCount
    <2> QED BY <1>1, <1>3, <1>4, <2>1, RowUnits DEF GetUsage, FindUsageRollup
  <1>5. CASE b \notin Bucket
    <2>1. CountedIn({b}) = {}
      BY <1>2, <1>5 DEF CountedIn
    <2> QED BY <1>1, <1>3, <1>5, <2>1, FS_EmptySet DEF GetUsage, FindUsageRollup
  <1> QED BY <1>4, <1>5

\* The sum over a set of hours counts the events received in them.
LEMMA HoursExact ==
    ASSUME TypeOK, RollupIsCount, NEW metric \in Metrics, NEW hours
    PROVE  AggregateEventCounts(metric, hours)
           = Cardinality({p \in Recorded(metric) : WindowOf(stamp[p]) \in hours})
  <1> DEFINE B == {b \in Bucket : b[2] = metric /\ b[3] \in hours}
  <1>1. \A p \in Posts : /\ BucketOf(p) \in Bucket
                         /\ BucketOf(p)[2] = meter[p][2]
                         /\ BucketOf(p)[3] = WindowOf(stamp[p])
    BY BucketFacts DEF BucketOf
  <1>2. CountedIn(B) = {p \in Recorded(metric) : WindowOf(stamp[p]) \in hours}
    BY <1>1 DEF CountedIn, Recorded
  <1>3. B \in SUBSET Bucket
    OBVIOUS
  <1> HIDE DEF B
  <1>4. Cardinality(UnitsOf(B)) = Cardinality(CountedIn(B))
    BY <1>3 DEF RollupIsCount
  <1> QED BY <1>2, <1>4 DEF AggregateEventCounts, B

LEMMA Exact == UsageInv => ReadsExact
  <1> SUFFICES ASSUME UsageInv, NEW metric \in Metrics
               PROVE  /\ \A customer \in Customers, t \in Moments, o \in Offsets :
                            GetUsage(customer, metric, [local |-> t + o, offset |-> o])
                            = Cardinality({p \in Recorded(metric) :
                                              /\ meter[p][1] = customer
                                              /\ stamp[p] \div Hour = t \div Hour})
                      /\ \A date \in -1..((LastStamp \div Day) + 1) :
                            GetDailyUsage(metric, date)
                            = Cardinality({p \in Recorded(metric) : stamp[p] \div Day = date})
                      /\ \A from \in Moments : \A to \in from..(from + Day) :
                            GetExport(metric, from, to)
                            = Cardinality({p \in Recorded(metric) :
                                              \E hour \in from..to :
                                                 hour % Hour = 0 /\ stamp[p] - hour \in 0..(Hour - 1)})
    BY DEF ReadsExact
  <1>1. TypeOK /\ RollupIsCount
    BY DEF UsageInv
  <1>2. \A p \in Posts : stamp[p] \in Int
    BY <1>1 DEF TypeOK, LastStamp
  <1>3. Moments \subseteq Int /\ Offsets \subseteq Int
    BY TimeAssumption DEF Moments
  <1>4. Recorded(metric) \subseteq Posts
    BY DEF Recorded
  <1>5. ASSUME NEW customer \in Customers, NEW t \in Moments, NEW o \in Offsets
        PROVE  GetUsage(customer, metric, [local |-> t + o, offset |-> o])
               = Cardinality({p \in Recorded(metric) : /\ meter[p][1] = customer
                                                       /\ stamp[p] \div Hour = t \div Hour})
    BY <1>1, <1>3, HourExact
  <1>6. ASSUME NEW date \in -1..((LastStamp \div Day) + 1)
        PROVE  GetDailyUsage(metric, date)
               = Cardinality({p \in Recorded(metric) : stamp[p] \div Day = date})
    <2>1. {p \in Recorded(metric) : WindowOf(stamp[p]) \in DayWindow(date)}
          = {p \in Recorded(metric) : stamp[p] \div Day = date}
      BY <1>2, <1>4, SameDay
    <2> QED BY <1>1, <2>1, HoursExact DEF GetDailyUsage
  <1>7. ASSUME NEW from \in Moments, NEW to \in from..(from + Day)
        PROVE  GetExport(metric, from, to)
               = Cardinality({p \in Recorded(metric) :
                                 \E hour \in from..to :
                                    hour % Hour = 0 /\ stamp[p] - hour \in 0..(Hour - 1)})
    <2>1. ASSUME NEW p \in Recorded(metric)
          PROVE  WindowOf(stamp[p]) \in from..to
                 <=> \E hour \in from..to : hour % Hour = 0 /\ stamp[p] - hour \in 0..(Hour - 1)
      <3>1. stamp[p] \in Int /\ Hour \in Nat \ {0} /\ from..to \subseteq Int
        BY <1>2, <1>3, <1>4, TimeAssumption
      <3>2. WindowOf(stamp[p]) % Hour = 0 /\ stamp[p] - WindowOf(stamp[p]) \in 0..(Hour - 1)
        BY <3>1, HourFacts
      <3>3. \A hour \in from..to :
               hour % Hour = 0 /\ stamp[p] - hour \in 0..(Hour - 1) => hour = WindowOf(stamp[p])
        BY <3>1, HourUnique
      <3> QED BY <3>2, <3>3
    <2>2. {p \in Recorded(metric) : WindowOf(stamp[p]) \in from..to}
          = {p \in Recorded(metric) :
                \E hour \in from..to : hour % Hour = 0 /\ stamp[p] - hour \in 0..(Hour - 1)}
      BY <2>1
    <2> QED BY <1>1, <2>2, HoursExact DEF GetExport
  <1> QED BY <1>5, <1>6, <1>7

\* Every read by hour, by day or by range counts exactly the events received
\* in what it asks for, for any hour, day and offset (floor_to_hour_utc,
\* get_usage, get_daily_usage, stream_usage_rollups).
THEOREM ReadsCorrect == Spec => []ReadsExact
  <1> QED BY UsageInvariance, Exact, PTL

=============================================================================
