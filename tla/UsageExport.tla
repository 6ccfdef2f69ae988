----------------------------- MODULE UsageExport -----------------------------
(***************************************************************************)
(* GET /v1/usage/export: a COUNT in one transaction decides between 422    *)
(* and a 200 that cannot be taken back, then a generator streams the rows  *)
(* of a cursor, opened in a second transaction, in chunks.  Events go on   *)
(* being counted all the while, a client may leave at any chunk, and the   *)
(* database may fail at any fetch.                                         *)
(*                                                                         *)
(* The rows of one tenant are numbered in the order of the ORDER BY        *)
(* clause; the CSV text of a row is the row.                               *)
(***************************************************************************)
EXTENDS Integers, FiniteSets, Sequences

CONSTANTS
    Exports,       \* export requests
    Rows,          \* primary keys of usage_rollup, numbered as they are sorted
    Amounts,       \* what one event may add to a row
    Filters,       \* the sets of rows that the query parameters may select
    MaxExportRows, \* MAX_EXPORT_ROWS: 100000
    RowsPerChunk,  \* _ROWS_PER_CHUNK: 1000
    FetchSize,     \* _STREAM_FETCH_BATCH: 5000
    MaxTotal       \* bound on a row's total

ASSUME RowsAssumption ==
    /\ Rows \subseteq Nat
    /\ IsFiniteSet(Rows)
    /\ Amounts \subseteq Nat \ {0}
    /\ Filters \subseteq SUBSET Rows
ASSUME SizesAssumption ==
    /\ MaxExportRows \in Nat \ {0}
    /\ RowsPerChunk \in Nat \ {0}
    /\ FetchSize \in Nat \ {0}
    /\ MaxTotal \in Nat

VARIABLES
    rollup,   \* total_quantity of every row of usage_rollup, 0 for no row
    pc,       \* where each export is
    filter,   \* the rows it asks for
    asked,    \* history: usage_rollup when it was asked
    snapshot, \* history: all it asked for, when its cursor was opened
    cursor,   \* the rows its cursor returns
    fetched,  \* how many of them the server side has fetched
    rowCount, \* how many of them the generator has written to the buffer
    buffer,   \* the rows written and not yet handed on
    sent,     \* the rows the generator has yielded; how many of them are still
              \* on their way through the middleware the model does not see
    log       \* its usage.export audit events

stream == <<snapshot, cursor, fetched, rowCount, buffer, sent>>
vars   == <<rollup, pc, filter, asked, snapshot, cursor, fetched, rowCount, buffer, sent, log>>

Answered == {"refused", "failed", "done", "broken", "gone"}

\* What commits do to the table meanwhile; EventIngest implements it.
Table == INSTANCE UsageTable WITH usage <- rollup

-----------------------------------------------------------------------------
\* The rows of usage_rollup that meet the filter of export e.
Matching(e) == {r \in filter[e] : rollup[r] > 0}

Nth(S, n) == CHOOSE r \in S : Cardinality({q \in S : q <= r}) = n

\* ... and the same in the order of the export.
Listing(e) ==
    LET S == Matching(e) IN
    [n \in 1..Cardinality(S) |-> [row |-> Nth(S, n), total |-> rollup[Nth(S, n)]]]

Shorter(m, n) == IF m < n THEN m ELSE n

\* Mutant of Limited: no LIMIT, as if the count before were enough.
Limited_Not(s) == s

Limited(s) == SubSeq(s, 1, Shorter(Len(s), MaxExportRows))

OverCap(n) == n > MaxExportRows

\* Mutant of Capped: the test of the check before, which the LIMIT makes false.
Capped_Over(n) == n > MaxExportRows

Capped(n) == n >= MaxExportRows

\* Mutant of ChunkFull: rows are handed on once, at the end.
ChunkFull_Never(n) == FALSE

ChunkFull(n) == n % RowsPerChunk = 0

\* Mutant of Drained: the buffer is read but not emptied.
Drained_Kept(b) == b

\* What _drain leaves in the buffer.
Drained(b) == <<>>

AuditEvent(e, capped, completed) ==
    [rowCount |-> rowCount[e], capped |-> capped, completed |-> completed]

-----------------------------------------------------------------------------
Init ==
    /\ rollup \in [Rows -> {0, 1}]
    /\ pc = [e \in Exports |-> "idle"]
    /\ filter = [e \in Exports |-> {}]
    /\ asked = [e \in Exports |-> [r \in Rows |-> 0]]
    /\ snapshot = [e \in Exports |-> <<>>]
    /\ cursor = [e \in Exports |-> <<>>]
    /\ fetched = [e \in Exports |-> 0]
    /\ rowCount = [e \in Exports |-> 0]
    /\ buffer = [e \in Exports |-> <<>>]
    /\ sent = [e \in Exports |-> <<>>]
    /\ log = [e \in Exports |-> <<>>]

Ask(e) ==
    /\ pc[e] = "idle"
    /\ \E f \in Filters : filter' = [filter EXCEPT ![e] = f]
    /\ asked' = [asked EXCEPT ![e] = rollup]
    /\ pc' = [pc EXCEPT ![e] = "counting"]
    /\ UNCHANGED <<rollup, stream, log>>

\* prepare_export: the last moment at which the answer can still be a 422.
CountRows(e) ==
    /\ pc[e] = "counting"
    /\ pc' = [pc EXCEPT ![e] =
                 IF OverCap(Cardinality(Matching(e))) THEN "refused" ELSE "accepted"]
    /\ UNCHANGED <<rollup, filter, asked, stream, log>>

\* Any other error in prepare_export is a 500.
CountFails(e) ==
    /\ pc[e] = "counting"
    /\ pc' = [pc EXCEPT ![e] = "failed"]
    /\ UNCHANGED <<rollup, filter, asked, stream, log>>

\* The generator is pulled for the first time and yields the header.
YieldHeader(e) ==
    /\ pc[e] = "accepted"
    /\ pc' = [pc EXCEPT ![e] = "started"]
    /\ UNCHANGED <<rollup, filter, asked, stream, log>>

\* The client is gone before the generator was ever pulled: its finally block
\* never runs.
Abandon(e) ==
    /\ pc[e] = "accepted"
    /\ pc' = [pc EXCEPT ![e] = "gone"]
    /\ UNCHANGED <<rollup, filter, asked, stream, log>>

\* The second transaction; its one statement sees what is committed now.
OpenCursor(e) ==
    /\ pc[e] = "started"
    /\ snapshot' = [snapshot EXCEPT ![e] = Listing(e)]
    /\ cursor' = [cursor EXCEPT ![e] = Limited(Listing(e))]
    /\ pc' = [pc EXCEPT ![e] = "streaming"]
    /\ UNCHANGED <<rollup, filter, asked, fetched, rowCount, buffer, sent, log>>

FetchBatch(e) ==
    /\ pc[e] = "streaming"
    /\ rowCount[e] = fetched[e]
    /\ fetched[e] < Len(cursor[e])
    /\ fetched' = [fetched EXCEPT ![e] = Shorter(@ + FetchSize, Len(cursor[e]))]
    /\ UNCHANGED <<rollup, pc, filter, asked, snapshot, cursor, rowCount, buffer, sent, log>>

\* One turn of the loop: a row is written, and the buffer handed on if full.
WriteRow(e) ==
    LET n == rowCount[e] + 1
        b == Append(buffer[e], cursor[e][n]) IN
    /\ pc[e] = "streaming"
    /\ rowCount[e] < fetched[e]
    /\ rowCount' = [rowCount EXCEPT ![e] = n]
    /\ \/ /\ ChunkFull(n)
          /\ sent' = [sent EXCEPT ![e] = @ \o b]
          /\ buffer' = [buffer EXCEPT ![e] = Drained(b)]
       \/ /\ ~ChunkFull(n)
          /\ buffer' = [buffer EXCEPT ![e] = b]
          /\ UNCHANGED sent
    /\ UNCHANGED <<rollup, pc, filter, asked, snapshot, cursor, fetched, log>>

\* The cursor is exhausted: the transaction ends, then what is left is sent.
Flush(e) ==
    /\ pc[e] = "streaming"
    /\ rowCount[e] = Len(cursor[e])
    /\ sent' = [sent EXCEPT ![e] = @ \o buffer[e]]
    /\ buffer' = [buffer EXCEPT ![e] = Drained(@)]
    /\ pc' = [pc EXCEPT ![e] = "flushed"]
    /\ UNCHANGED <<rollup, filter, asked, snapshot, cursor, fetched, rowCount, log>>

Complete(e) ==
    /\ pc[e] = "flushed"
    /\ pc' = [pc EXCEPT ![e] = "done"]
    /\ log' = [log EXCEPT ![e] = Append(@, AuditEvent(e, Capped(rowCount[e]), TRUE))]
    /\ UNCHANGED <<rollup, filter, asked, stream>>

\* The generator waits: for the client to take a chunk, or for the database
\* to open the cursor, fetch a batch or end the transaction.
Suspended(e) ==
    \/ pc[e] \in {"started", "flushed"}
    \/ /\ pc[e] = "streaming"
       /\ \/ rowCount[e] = fetched[e]
          \/ rowCount[e] > 0 /\ buffer[e] = <<>>

\* Mutant of Break: the event is logged after the try block only.
Break_NoFinally(e) ==
    /\ Suspended(e)
    /\ pc' = [pc EXCEPT ![e] = "broken"]
    /\ UNCHANGED <<rollup, filter, asked, stream, log>>

\* A database error, or the client leaves: the generator stops where it
\* waits and runs its finally block.
Break(e) ==
    /\ Suspended(e)
    /\ pc' = [pc EXCEPT ![e] = "broken"]
    /\ log' = [log EXCEPT ![e] = Append(@, AuditEvent(e, FALSE, FALSE))]
    /\ UNCHANGED <<rollup, filter, asked, stream>>

\* The commit of a POST /v1/events adds to a row, or adds the row.
CountEvent(r) ==
    /\ Table!CountEvent(r)
    /\ rollup'[r] <= MaxTotal
    /\ UNCHANGED <<pc, filter, asked, stream, log>>

Export(e) ==
    \/ Ask(e) \/ CountRows(e) \/ CountFails(e)
    \/ YieldHeader(e) \/ Abandon(e) \/ OpenCursor(e)
    \/ FetchBatch(e) \/ WriteRow(e) \/ Flush(e)
    \/ Complete(e) \/ Break(e)

Next ==
    \/ \E e \in Exports : Export(e)
    \/ \E r \in Rows : CountEvent(r)

Spec == Init /\ [][Next]_vars

-----------------------------------------------------------------------------
(***************************************************************************)
(* Properties.                                                             *)
(***************************************************************************)

ExportRow == [row : Rows, total : Nat]
Events    == [rowCount : Nat, capped : BOOLEAN, completed : BOOLEAN]

\* Types, and the memory of an export: never more rows in the buffer than a
\* chunk, never more fetched and not yet written than a batch.
TypeOK ==
    /\ rollup \in [Rows -> Nat]
    /\ pc \in [Exports -> {"idle", "counting", "accepted", "started", "streaming",
                           "flushed"} \cup Answered]
    /\ filter \in [Exports -> SUBSET Rows]
    /\ asked \in [Exports -> [Rows -> Nat]]
    /\ {snapshot, cursor, buffer, sent} \subseteq [Exports -> Seq(ExportRow)]
    /\ {fetched, rowCount} \subseteq [Exports -> Nat]
    /\ log \in [Exports -> Seq(Events)]
    /\ \A e \in Exports :
          /\ fetched[e] \in rowCount[e]..rowCount[e] + FetchSize
          /\ Len(buffer[e]) < RowsPerChunk

\* Batching changes where chunks end, never the rows: what has been sent and
\* what waits in the buffer are, at every moment, the first rows of the
\* cursor, none lost, repeated, reordered or changed by later events.
DeliveredInOrder ==
    \A e \in Exports : sent[e] \o buffer[e] = SubSeq(cursor[e], 1, rowCount[e])

\* An export that is logged as completed and not capped has sent everything
\* it was asked for, as of one moment after it was asked, however many rows
\* were added since they were counted: no usage acknowledged before is missing.
NothingMissing ==
    \A e \in Exports :
       (\E i \in 1..Len(log[e]) : log[e][i].completed /\ ~log[e][i].capped)
         => /\ sent[e] = snapshot[e]
            /\ \A r \in filter[e] : asked[e][r] > 0 =>
                  \E i \in 1..Len(sent[e]) :
                     sent[e][i].row = r /\ sent[e][i].total >= asked[e][r]

\* No response body is longer than the cap, even though the rows are counted
\* in another transaction than they are read in.
WithinCap == \A e \in Exports : Len(sent[e]) <= MaxExportRows

\* A 422 is sent only if the export really is too large, and since usage rows
\* are never removed it still is: repeating the request as it is cannot help.
RefusalLasts ==
    \A e \in Exports : pc[e] = "refused" => Cardinality(Matching(e)) > MaxExportRows

\* What the audit event can be relied on for: one event for every stream
\* that began and has ended, none while it runs, complete only if every row
\* was yielded, and never fewer rows than were yielded or a whole chunk more.
\* An export that is answered 200 but whose generator is never pulled ("gone")
\* leaves no event, although the finally block promises "exactly one
\* usage.export event per request either way": that is true of the streams
\* that began.
AuditReliable ==
    \A e \in Exports :
       /\ Len(log[e]) = IF pc[e] \in {"done", "broken"} THEN 1 ELSE 0
       /\ \A i \in 1..Len(log[e]) :
             /\ log[e][i].completed => sent[e] = cursor[e]
             /\ log[e][i].rowCount - Len(sent[e]) \in 0..RowsPerChunk - 1

\* What the code says of it: "a client disconnect or a mid-stream DB error
\* still records what was actually sent".
AuditRecordsSent ==
    \A e \in Exports : \A i \in 1..Len(log[e]) : log[e][i].rowCount = Len(sent[e])

\* What a client and an operator see of an export's state.
StatusOf(e) ==
    CASE pc[e] = "idle"                      -> "none"
      [] pc[e] = "counting"                  -> "asked"
      [] pc[e] \in {"accepted", "started"}   -> "accepted"
      [] pc[e] \in {"streaming", "flushed"} -> "open"
      [] pc[e] = "done"                      -> "complete"
      [] OTHER                               -> pc[e]

\* Seen from outside, an export is a picture of one moment, sent in pieces
\* (prepare_export, stream_usage_rollups, stream_export_csv; ExportContract
\* says what each step may do).
Contract == INSTANCE ExportContract WITH
    usage   <- rollup,
    status  <- [e \in Exports |-> StatusOf(e)],
    want    <- filter,
    picture <- cursor,
    body    <- sent

ImplementsContract == Contract!Spec

-----------------------------------------------------------------------------
(***************************************************************************)
(* The inductive invariant behind the safety properties.                   *)
(***************************************************************************)

\* The cursor has the rows of the snapshot up to the cap.  While rows are
\* written, the buffer holds what a multiple of the chunk leaves over; once
\* they are flushed, nothing.
Batches ==
    \A e \in Exports :
       /\ cursor[e] = Limited(snapshot[e])
       /\ fetched[e] <= Len(cursor[e])
       /\ pc[e] \notin {"streaming", "flushed", "done", "broken"} =>
             cursor[e] = <<>> /\ snapshot[e] = <<>> /\ buffer[e] = <<>> /\ sent[e] = <<>>
       /\ pc[e] \in {"started", "streaming"} => Len(buffer[e]) = rowCount[e] % RowsPerChunk
       /\ pc[e] \in {"flushed", "done"} => buffer[e] = <<>> /\ rowCount[e] = Len(cursor[e])

\* There is one audit event once the stream has ended, with the final count,
\* completed if it is done and then capped if the cap was reached.
Audited ==
    \A e \in Exports :
       log[e] = CASE pc[e] = "done"   -> <<AuditEvent(e, Capped(rowCount[e]), TRUE)>>
                  [] pc[e] = "broken" -> <<AuditEvent(e, FALSE, FALSE)>>
                  [] OTHER            -> <<>>

\* What was on record when an export was asked for still is, and is in the
\* snapshot of its cursor.
Acknowledged ==
    \A e \in Exports :
       /\ \A r \in Rows : asked[e][r] <= rollup[r]
       /\ pc[e] \in {"streaming", "flushed", "done"} =>
             \A r \in filter[e] : asked[e][r] > 0 =>
                \E i \in 1..Len(snapshot[e]) :
                   snapshot[e][i].row = r /\ snapshot[e][i].total >= asked[e][r]

ExportInv ==
    /\ TypeOK
    /\ Batches
    /\ DeliveredInOrder
    /\ Audited
    /\ Acknowledged
    /\ RefusalLasts

=============================================================================
