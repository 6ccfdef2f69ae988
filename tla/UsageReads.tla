----------------------------- MODULE UsageReads -----------------------------
(***************************************************************************)
(* What the usage reads answer, and when: events are recorded in the hour  *)
(* of their receipt by the clock of the task that received them, quotas    *)
(* refuse them for the rest of that hour, and usage is read back by hour,  *)
(* by UTC day and by range of hours.                                       *)
(*                                                                         *)
(* Time is counted in ticks from a midnight.  The transactions are single  *)
(* steps here, as MeterLedger has them; a read is one SELECT that changes  *)
(* nothing, so reads are operators on the state.  Every event has quantity *)
(* 1, and all belong to one tenant.                                        *)
(***************************************************************************)
EXTENDS Integers, FiniteSets

CONSTANTS
    Posts,        \* POST requests, each with an idempotency key of its own
    Customers,    \* customer_id values
    Metrics,      \* metric values
    Limit,        \* limit_per_window of each (customer, metric), or NoLimit
    Second,       \* ticks in a second
    Hour,         \* ticks in an hour
    Day,          \* ticks in a day
    LookbackDays, \* days back that can be read: 90
    Offsets,      \* the UTC offsets of clients, in ticks
    MaxSkew,      \* bound on how far a task's clock is ahead of the slowest one
    MaxTime       \* bound on the slowest clock

NoLimit == -1

ASSUME TimeAssumption ==
    /\ Second \in Nat \ {0}
    /\ Hour \in Nat \ {0}
    /\ Day \in Nat \ {0}
    /\ Day % Hour = 0
    /\ LookbackDays \in Nat
    /\ Offsets \subseteq Int
    /\ MaxTime \in Nat
\* Clocks differ by less than the hour that reads may look ahead.
ASSUME SkewAssumption == MaxSkew \in 0..Hour
ASSUME PostsAssumption ==
    /\ IsFiniteSet(Posts)
    /\ Limit \in [Customers \X Metrics -> Nat \cup {NoLimit}]

LastStamp == MaxTime + MaxSkew
Windows   == {w \in 0..LastStamp : w % Hour = 0}
Bucket    == Customers \X Metrics \X Windows

VARIABLES
    now,    \* the slowest clock
    pc,     \* where each POST is
    meter,  \* its customer and metric
    stamp,  \* its received_at
    ahead,  \* how far the clock of the task that received it is ahead
    until,  \* when a client that was refused has waited as long as it was told
    rollup  \* usage_rollup: the committed count of each bucket, 0 for no row

vars == <<now, pc, meter, stamp, ahead, until, rollup>>

\* The event_count of each row, as commits change it; EventIngest implements it.
Table == INSTANCE UsageTable WITH Rows <- Bucket, Amounts <- {1}, usage <- rollup

-----------------------------------------------------------------------------
(***************************************************************************)
(* Hours.  A timestamp is a local time and its offset from UTC.            *)
(***************************************************************************)

Instant(ts) == ts.local - ts.offset
Utc(t)      == [local |-> t, offset |-> 0]

\* Mutant of FloorToHourUtc: the local hour, converted afterwards.
FloorToHourUtc_Local(ts) == ts.local - (ts.local % Hour) - ts.offset

FloorToHourUtc(ts) == Instant(ts) - (Instant(ts) % Hour)

WindowOf(t) == FloorToHourUtc(Utc(t))

BucketOf(p) == <<meter[p][1], meter[p][2], WindowOf(stamp[p])>>

\* Mutant of SecondsUntilNextHourBoundary: rounded down.
SecondsUntilNextHourBoundary_Floor(t) ==
    LET left == WindowOf(t) + Hour - t
    IN  IF left \div Second > 1 THEN left \div Second ELSE 1

\* Whole seconds to the end of the hour t is in, rounded up, and at least one.
SecondsUntilNextHourBoundary(t) ==
    LET seconds == (WindowOf(t) + Hour - t + Second - 1) \div Second
    IN  IF seconds > 1 THEN seconds ELSE 1

-----------------------------------------------------------------------------
(***************************************************************************)
(* POST /v1/events, as far as its window goes.                             *)
(***************************************************************************)

Init ==
    /\ now = 0
    /\ pc = [p \in Posts |-> "idle"]
    /\ meter \in [Posts -> Customers \X Metrics]
    /\ stamp = [p \in Posts |-> 0]
    /\ ahead = [p \in Posts |-> 0]
    /\ until = [p \in Posts |-> 0]
    /\ rollup = [b \in Bucket |-> 0]

\* The client sends a POST, or sends it again: after a failure at any time,
\* after a refusal once it has waited.
MaySend(p) ==
    \/ pc[p] \in {"idle", "failed"}
    \/ pc[p] = "rejected" /\ now >= until[p]

\* Mutant of Receive: the time of the event is what the client says it is.
Receive_ClientTime(p) ==
    /\ MaySend(p)
    /\ \E t \in 0..now : stamp' = [stamp EXCEPT ![p] = t]
    /\ ahead' = [ahead EXCEPT ![p] = 0]
    /\ pc' = [pc EXCEPT ![p] = "open"]
    /\ UNCHANGED <<now, meter, until, rollup>>

\* received_at is read from the task's own clock, and its hour is the window
\* of the event however late the transaction commits.
Receive(p) ==
    /\ MaySend(p)
    /\ \E skew \in 0..MaxSkew :
          /\ ahead' = [ahead EXCEPT ![p] = skew]
          /\ stamp' = [stamp EXCEPT ![p] = now + skew]
    /\ pc' = [pc EXCEPT ![p] = "open"]
    /\ UNCHANGED <<now, meter, until, rollup>>

Exceeds(p) ==
    /\ Limit[meter[p]] # NoLimit
    /\ rollup[BucketOf(p)] + 1 > Limit[meter[p]]

\* The event and the increment of its bucket are committed.
Record(p) ==
    /\ pc[p] = "open"
    /\ ~Exceeds(p)
    /\ Table!CountEvent(BucketOf(p))
    /\ pc' = [pc EXCEPT ![p] = "recorded"]
    /\ UNCHANGED <<now, meter, stamp, ahead, until>>

\* 429 quota_exceeded, with its Retry-After.
Reject(p) ==
    /\ pc[p] = "open"
    /\ Exceeds(p)
    /\ until' = [until EXCEPT ![p] = now + SecondsUntilNextHourBoundary(stamp[p]) * Second]
    /\ pc' = [pc EXCEPT ![p] = "rejected"]
    /\ UNCHANGED <<now, meter, stamp, ahead, rollup>>

\* The transaction is rolled back.
Fail(p) ==
    /\ pc[p] = "open"
    /\ pc' = [pc EXCEPT ![p] = "failed"]
    /\ UNCHANGED <<now, meter, stamp, ahead, until, rollup>>

Tick ==
    /\ now < MaxTime
    /\ now' = now + 1
    /\ UNCHANGED <<pc, meter, stamp, ahead, until, rollup>>

Next ==
    \/ \E p \in Posts : Receive(p) \/ Record(p) \/ Reject(p) \/ Fail(p)
    \/ Tick

Spec == Init /\ [][Next]_vars

-----------------------------------------------------------------------------
(***************************************************************************)
(* The reads: what the three endpoints accept at a task whose clock shows  *)
(* clock, and what they answer now.                                        *)
(***************************************************************************)

Earliest(clock) == clock - LookbackDays * Day

\* Mutant of Latest: nothing to aggregate yet.
Latest_Now(clock) == clock

Latest(clock) == clock + Hour

\* window and from and to of the three query models.
TimeAccepted(t, clock) == Earliest(clock) <= t /\ t <= Latest(clock)

RangeAccepted(from, to, clock) ==
    TimeAccepted(from, clock) /\ TimeAccepted(to, clock) /\ from <= to

\* parse_daily_date; a date is the number of its day.
DateAccepted(date, clock) ==
    date \in ((clock \div Day) - LookbackDays)..((clock \div Day) + 1)

\* The count of a row; no row is zero.
FindUsageRollup(b) == IF b \in Bucket THEN rollup[b] ELSE 0

\* GET /v1/usage: the hour that the timestamp is in.
GetUsage(customer, metric, ts) == FindUsageRollup(<<customer, metric, FloorToHourUtc(ts)>>)

\* Mutant of DayWindow: closed at its end.
DayWindow_Closed(date) == (date * Day)..(date * Day + Day)

\* The half-open UTC day.
DayWindow(date) == (date * Day)..(date * Day + Day - 1)

\* The events that the rows of B count, each as a row and a number in it.
UnitsOf(B) == UNION {{b} \X (1..rollup[b]) : b \in B}

\* SUM(event_count) of all customers' rows of the given hours.
AggregateEventCounts(metric, hours) ==
    Cardinality(UnitsOf({b \in Bucket : b[2] = metric /\ b[3] \in hours}))

\* GET /v1/usage/daily
GetDailyUsage(metric, date) == AggregateEventCounts(metric, DayWindow(date))

\* GET /v1/usage/export, filtered by metric: the hours that start in a range
\* closed at both ends.
GetExport(metric, from, to) == AggregateEventCounts(metric, from..to)

-----------------------------------------------------------------------------
(***************************************************************************)
(* Properties.                                                             *)
(***************************************************************************)

TypeOK ==
    /\ now \in 0..MaxTime
    /\ pc \in [Posts -> {"idle", "open", "recorded", "rejected", "failed"}]
    /\ meter \in [Posts -> Customers \X Metrics]
    /\ stamp \in [Posts -> 0..LastStamp]
    /\ ahead \in [Posts -> 0..MaxSkew]
    /\ until \in [Posts -> Nat]
    /\ rollup \in [Bucket -> Nat]

Recorded(metric) == {p \in Posts : pc[p] = "recorded" /\ meter[p][2] = metric}

Moments == (-Hour)..(LastStamp + Hour)

\* Every read counts exactly the events on record that were received in what
\* it asks for: the UTC hour of the timestamp, whatever its offset; the UTC
\* day; the hours that begin in the range (get_usage, get_daily_usage,
\* stream_usage_rollups).
ReadsExact ==
    \A metric \in Metrics :
        /\ \A customer \in Customers, t \in Moments, o \in Offsets :
              GetUsage(customer, metric, [local |-> t + o, offset |-> o])
              = Cardinality({p \in Recorded(metric) :
                                /\ meter[p][1] = customer
                                /\ stamp[p] \div Hour = t \div Hour})
        /\ \A date \in -1..((LastStamp \div Day) + 1) :
              GetDailyUsage(metric, date)
              = Cardinality({p \in Recorded(metric) : stamp[p] \div Day = date})
        /\ \A from \in Moments : \A to \in from..(from + Day) :
              GetExport(metric, from, to)
              = Cardinality({p \in Recorded(metric) :
                                \E hour \in from..to :
                                    hour % Hour = 0 /\ stamp[p] - hour \in 0..(Hour - 1)})

\* An event on record can be read back at once, on any task however its clock
\* differs, by the window_start in its 201, by its date, or by an export of
\* its hour, until it is older than the reads look back (the validators of
\* the query models).
RecordedReadable ==
    \A p \in Posts, skew \in 0..MaxSkew :
        pc[p] = "recorded" =>
            LET clock  == now + skew
                window == WindowOf(stamp[p])
                date   == stamp[p] \div Day IN
            /\ window >= Earliest(clock) => /\ TimeAccepted(window, clock)
                                            /\ RangeAccepted(window, window, clock)
            /\ (clock \div Day) - date <= LookbackDays => DateAccepted(date, clock)

\* An hour is over on every clock, and no POST received in it is under way.
Settled(b) ==
    /\ b[3] + Hour <= now
    /\ \A p \in Posts : pc[p] = "open" => BucketOf(p) # b

\* Usage that is settled is final: no event enters the hour any more, however
\* late POSTs commit, fail and are sent again (create_event's window_start).
SettledIsFinal ==
    [][ \A b \in Bucket : Settled(b) => Settled(b)' /\ rollup'[b] = rollup[b] ]_vars

\* A client that is refused for the quota and waits as long as it was told is
\* counted against a later hour, unless a task with a clock further behind
\* receives it (_seconds_until_next_hour_boundary).
RetryLandsLater ==
    [][ \A p \in Posts :
            /\ pc[p] = "rejected"
            /\ pc'[p] = "open"
            /\ ahead'[p] >= ahead[p]
            => WindowOf(stamp'[p]) > WindowOf(stamp[p]) ]_vars

-----------------------------------------------------------------------------
\* The inductive invariant: no stamp is ahead of what the clocks show, every
\* refused client's wait ends after its hour, and whatever set of buckets is
\* added up counts the events recorded in them.
Clocks ==
    \A p \in Posts :
        /\ pc[p] # "idle" => stamp[p] <= now + ahead[p]
        /\ pc[p] = "rejected" => WindowOf(stamp[p]) + Hour <= until[p] + ahead[p]

CountedIn(B) == {p \in Posts : pc[p] = "recorded" /\ BucketOf(p) \in B}

RollupIsCount ==
    \A B \in SUBSET Bucket :
        /\ IsFiniteSet(UnitsOf(B))
        /\ Cardinality(UnitsOf(B)) = Cardinality(CountedIn(B))

UsageInv == TypeOK /\ Clocks /\ RollupIsCount

=============================================================================
