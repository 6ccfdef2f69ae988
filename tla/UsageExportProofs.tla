-------------------------- MODULE UsageExportProofs ---------------------------
(***************************************************************************)
(* The safety of the usage export, for every table, cap, chunk and batch.  *)
(***************************************************************************)
EXTENDS UsageExport, FiniteSetTheorems, SequenceTheorems, TLAPS

-----------------------------------------------------------------------------
(***************************************************************************)
(* The listing of an export.                                               *)
(***************************************************************************)

\* A set of rows is finite, and numbering it in order reaches each row once.
LEMMA Numbered ==
    ASSUME NEW S \in SUBSET Rows
    PROVE  /\ Cardinality(S) \in Nat
           /\ \A n \in 1..Cardinality(S) : Nth(S, n) \in S
           /\ \A r \in S : \E n \in 1..Cardinality(S) : Nth(S, n) = r
           /\ \A m, n \in 1..Cardinality(S) : m < n => Nth(S, m) < Nth(S, n)
  <1> DEFINE Below(r) == {q \in S : q <= r}
             T        == 1..Cardinality(S)
             rank     == [r \in S |-> Cardinality(Below(r))]
  <1>1. IsFiniteSet(S) /\ Cardinality(S) \in Nat /\ S \subseteq Nat
    BY RowsAssumption, FS_Subset, FS_CardinalityType
  <1>2. \A r \in S : IsFiniteSet(Below(r)) /\ Below(r) \in SUBSET S /\ r \in Below(r)
    BY <1>1, FS_Subset
  <1>3. \A r \in S : Cardinality(Below(r)) \in T
    <2> TAKE r \in S
    <2>1. Cardinality(Below(r)) \in Nat /\ Cardinality(Below(r)) <= Cardinality(S)
      BY <1>1, <1>2, FS_Subset, FS_CardinalityType
    <2>2. Cardinality(Below(r)) # 0
      BY <1>2, FS_EmptySet
    <2> QED BY <1>1, <2>1, <2>2
  <1>4. \A p, q \in S : p < q => Cardinality(Below(p)) # Cardinality(Below(q))
    <2> SUFFICES ASSUME NEW p \in S, NEW q \in S, p < q
                 PROVE  Cardinality(Below(p)) # Cardinality(Below(q))
      OBVIOUS
    <2>1. p \in Nat /\ q \in Nat /\ \A x \in S : x \in Nat
      BY <1>1
    <2>2. \A x \in S : x <= p => x <= q
      BY <2>1
    <2>3. \A x \in Below(p) : x \in Below(q)
      BY <2>2
    <2>4. q \in Below(q) /\ q \notin Below(p)
      BY <2>1
    <2> QED BY <1>2, <2>3, <2>4, FS_Subset
  <1>5. rank \in Injection(S, T)
    <2>1. rank \in [S -> T]
      BY <1>3
    <2>2. \A p, q \in S : rank[p] = rank[q] => p = q
      BY <1>1, <1>4
    <2> QED BY <2>1, <2>2 DEF Injection, IsInjective
  <1>6. IsFiniteSet(T) /\ Cardinality(T) = Cardinality(S)
    BY <1>1, FS_Interval
  <1>7. rank \in Surjection(S, T)
    BY <1>5, <1>6, FS_Injection
  <1>8. \A n \in T : \E r \in S : Cardinality(Below(r)) = n
    BY <1>7 DEF Surjection
  <1>9. \A n \in T : Nth(S, n) \in S /\ Cardinality(Below(Nth(S, n))) = n
    BY <1>8 DEF Nth
  <1>10. \A r \in S : Nth(S, Cardinality(Below(r))) = r
    <2> TAKE r \in S
    <2> DEFINE found == Nth(S, Cardinality(Below(r)))
    <2>1. found \in S /\ Cardinality(Below(found)) = Cardinality(Below(r))
      BY <1>3, <1>9
    <2> HIDE DEF Below, found
    <2>2. ~(found < r)
      BY <1>4, <2>1
    <2>3. ~(r < found)
      BY <1>4, <2>1
    <2>4. found \in Nat /\ r \in Nat
      BY <1>1, <2>1
    <2>5. found = r
      BY <2>2, <2>3, <2>4
    <2> QED BY <2>5 DEF found
  <1>11. \A m, n \in T : m < n => Nth(S, m) < Nth(S, n)
    <2> SUFFICES ASSUME NEW m \in T, NEW n \in T, m < n, ~(Nth(S, m) < Nth(S, n))
                 PROVE  FALSE
      OBVIOUS
    <2> DEFINE p == Nth(S, m)
               q == Nth(S, n)
    <2>1. p \in S /\ q \in S /\ Cardinality(Below(p)) = m /\ Cardinality(Below(q)) = n
      BY <1>9
    <2>2. ~(p < q)
      OBVIOUS
    <2> HIDE DEF p, q
    <2>3. /\ p \in Nat /\ q \in Nat /\ q <= p
          /\ \A x \in S : x \in Nat
      BY <1>1, <2>1, <2>2
    <2>4. \A x \in Below(q) : x \in Below(p)
      BY <2>3
    <2>5. Cardinality(Below(q)) <= Cardinality(Below(p))
      BY <1>2, <2>1, <2>4, FS_Subset
    <2> QED BY <1>1, <2>1, <2>5
  <1> QED BY <1>1, <1>3, <1>9, <1>10, <1>11

\* The listing has one entry for every row that matches, with its total.
LEMMA ListingFacts ==
    ASSUME TypeOK, NEW e \in Exports
    PROVE  /\ Listing(e) \in Seq(ExportRow)
           /\ \A i \in 1..Len(Listing(e)) :
                 /\ Listing(e)[i].row \in Matching(e)
                 /\ Listing(e)[i].total = rollup[Listing(e)[i].row]
           /\ \A i, j \in 1..Len(Listing(e)) : i < j => Listing(e)[i].row < Listing(e)[j].row
           /\ \A r \in Matching(e) :
                 \E i \in 1..Len(Listing(e)) :
                    Listing(e)[i].row = r /\ Listing(e)[i].total = rollup[r]
  <1> DEFINE S == Matching(e)
  <1>1. S \in SUBSET Rows /\ \A r \in S : rollup[r] \in Nat
    BY DEF Matching, TypeOK
  <1> HIDE DEF S
  <1> DEFINE entry(n) == [row |-> Nth(S, n), total |-> rollup[Nth(S, n)]]
             list     == [n \in 1..Cardinality(S) |-> entry(n)]
  <1>2. \A n \in 1..Cardinality(S) : entry(n) \in ExportRow
    BY <1>1, Numbered DEF ExportRow
  <1>3. Cardinality(S) \in Nat
    BY <1>1, Numbered
  <1> HIDE DEF entry
  <1>4. list \in Seq(ExportRow) /\ Len(list) = Cardinality(S)
    BY <1>2, <1>3
  <1> USE DEF entry
  <1>5. \A r \in S : \E i \in 1..Len(list) : list[i].row = r /\ list[i].total = rollup[r]
    BY <1>1, <1>4, Numbered
  <1>6. Listing(e) = list
    BY DEF Listing, S
  <1>7. \A i \in 1..Len(list) : list[i].row = Nth(S, i) /\ list[i].total = rollup[Nth(S, i)]
    BY <1>4
  <1>8. \A i \in 1..Len(list) : list[i].row \in S /\ list[i].total = rollup[list[i].row]
    BY <1>1, <1>4, <1>7, Numbered
  <1>9. \A i, j \in 1..Len(list) : i < j => list[i].row < list[j].row
    BY <1>1, <1>4, <1>7, Numbered
  <1> HIDE DEF list
  <1> QED BY <1>4, <1>5, <1>6, <1>8, <1>9 DEF S

\* The cap cuts a listing, and leaves one that is shorter than the cap alone.
LEMMA LimitedFacts ==
    ASSUME NEW s \in Seq(ExportRow)
    PROVE  /\ Limited(s) \in Seq(ExportRow)
           /\ Len(Limited(s)) <= MaxExportRows
           /\ Len(Limited(s)) < MaxExportRows => Limited(s) = s
  <1> DEFINE n == Shorter(Len(s), MaxExportRows)
  <1>1. Len(s) \in Nat /\ MaxExportRows \in Nat
    BY SizesAssumption, LenProperties
  <1>2. n \in Nat /\ n <= Len(s) /\ n <= MaxExportRows /\ (n < MaxExportRows => n = Len(s))
    BY <1>1 DEF Shorter
  <1>3. \A i \in 1..n : s[i] \in ExportRow
    BY <1>1, <1>2, ElementOfSeq
  <1>4. Limited(s) = SubSeq(s, 1, n)
    BY DEF Limited
  <1> HIDE DEF n
  <1>5. Limited(s) \in Seq(ExportRow) /\ Len(Limited(s)) = n
    BY <1>2, <1>3, <1>4, SubSeqProperties
  <1>6. n = Len(s) => Limited(s) = s
    BY <1>4, SubSeqFull
  <1> QED BY <1>2, <1>5, <1>6

\* Division with remainder, and the remainder it determines.
LEMMA Remainder ==
    ASSUME NEW n \in Nat, NEW k \in Nat, k > 0
    PROVE  \E q \in Int : n = k * q + (n % k)
  BY SMTT(60)

LEMMA RemainderUnique ==
    ASSUME NEW q \in Int, NEW m \in Int, NEW k \in Nat, 0 <= m, m < k,
           NEW n \in Int, n = k * q + m
    PROVE  n % k = m
  BY SMTT(60)

\* The rows left over from the chunks, after one row more.
LEMMA OneMoreRow ==
    ASSUME NEW n \in Nat
    PROVE  /\ n % RowsPerChunk \in 0..RowsPerChunk - 1
           /\ ~ChunkFull(n + 1) => (n + 1) % RowsPerChunk = (n % RowsPerChunk) + 1
  <1> DEFINE k == RowsPerChunk
             m == n % k
  <1>1. k \in Nat /\ k > 0
    BY SizesAssumption
  <1>2. m \in 0..k - 1
    BY <1>1
  <1>3. PICK q \in Int : n = k * q + m
    BY <1>1, Remainder
  <1> HIDE DEF m, k
  <1>4. k * q \in Int
    BY <1>1
  <1>5. n + 1 = k * q + (m + 1)
    BY <1>2, <1>3, <1>4
  <1>6. CASE m + 1 < k
    <2>1. m + 1 \in Int /\ 0 <= m + 1
      BY <1>2
    <2>2. \A x \in Int : x = k * q + (m + 1) => x % k = m + 1
      BY <1>1, <1>6, <2>1, RemainderUnique
    <2>3. (n + 1) % k = m + 1
      BY <1>5, <2>2
    <2> QED BY <1>2, <2>3 DEF m, k
  <1>7. CASE m + 1 = k
    <2>1. k * q + k = k * (q + 1)
      BY <1>1
    <2>2. n + 1 = k * (q + 1) + 0
      BY <1>2, <1>4, <1>5, <1>7, <2>1
    <2>3. \A x \in Int : x = k * (q + 1) + 0 => x % k = 0
      BY <1>1, RemainderUnique
    <2>4. (n + 1) % k = 0
      BY <2>2, <2>3
    <2> QED BY <1>2, <2>4 DEF m, k, ChunkFull
  <1> QED BY <1>1, <1>2, <1>6, <1>7

\* Appending the next row of a sequence to a first part of it.
LEMMA NextRow ==
    ASSUME NEW S, NEW s \in Seq(S), NEW t \in Seq(S), NEW u \in Seq(S),
           NEW n \in Nat, n < Len(u), s \o t = SubSeq(u, 1, n)
    PROVE  /\ s \o Append(t, u[n + 1]) = SubSeq(u, 1, n + 1)
           /\ Len(Append(t, u[n + 1])) = Len(t) + 1
           /\ Append(t, u[n + 1]) \in Seq(S)
  <1>1. Len(u) \in Nat /\ n + 1 \in 1..Len(u)
    BY LenProperties
  <1>2. u[n + 1] \in S
    BY <1>1, ElementOfSeq
  <1>3. Append(t, u[n + 1]) = t \o <<u[n + 1]>> /\ <<u[n + 1]>> \in Seq(S)
    BY <1>2, AppendIsConcat
  <1>4. s \o Append(t, u[n + 1]) = (s \o t) \o <<u[n + 1]>>
    BY <1>3, ConcatAssociative
  <1>5. SubSeq(u, 1, n + 1) = SubSeq(u, 1, n + 1 - 1) \o <<u[n + 1]>>
    BY <1>1, SubSeqRecursiveSecond
  <1>6. n + 1 - 1 = n
    OBVIOUS
  <1> QED BY <1>2, <1>4, <1>5, <1>6, AppendProperties

-----------------------------------------------------------------------------
(***************************************************************************)
(* The invariant.                                                          *)
(***************************************************************************)

\* What TypeOK says of one export.
LEMMA StreamTypes ==
    ASSUME TypeOK, NEW e \in Exports
    PROVE  /\ snapshot[e] \in Seq(ExportRow) /\ Len(snapshot[e]) \in Nat
           /\ cursor[e] \in Seq(ExportRow) /\ Len(cursor[e]) \in Nat
           /\ buffer[e] \in Seq(ExportRow) /\ Len(buffer[e]) \in Nat
           /\ sent[e] \in Seq(ExportRow) /\ Len(sent[e]) \in Nat
           /\ fetched[e] \in Nat /\ rowCount[e] \in Nat
           /\ rowCount[e] <= fetched[e]
  <1>1. /\ snapshot[e] \in Seq(ExportRow) /\ cursor[e] \in Seq(ExportRow)
        /\ buffer[e] \in Seq(ExportRow) /\ sent[e] \in Seq(ExportRow)
    BY DEF TypeOK
  <1>2. fetched[e] \in Nat /\ rowCount[e] \in Nat /\ rowCount[e] <= fetched[e]
    BY SizesAssumption DEF TypeOK
  <1> QED BY <1>1, <1>2, LenProperties

\* The row that is written next, and what is in the buffer with it.
LEMMA RowWritten ==
    ASSUME TypeOK, Batches, DeliveredInOrder, NEW e \in Exports, WriteRow(e)
    PROVE  LET b == Append(buffer[e], cursor[e][rowCount[e] + 1]) IN
           /\ rowCount[e] < Len(cursor[e])
           /\ b \in Seq(ExportRow)
           /\ Len(b) = Len(buffer[e]) + 1
           /\ sent[e] \o b = SubSeq(cursor[e], 1, rowCount[e] + 1)
  <1>1. rowCount[e] < Len(cursor[e])
    BY StreamTypes DEF WriteRow, Batches
  <1>2. sent[e] \o buffer[e] = SubSeq(cursor[e], 1, rowCount[e])
    BY DEF DeliveredInOrder
  <1>3. \A n \in Nat :
           n < Len(cursor[e]) /\ sent[e] \o buffer[e] = SubSeq(cursor[e], 1, n)
           => LET b == Append(buffer[e], cursor[e][n + 1]) IN
              /\ sent[e] \o b = SubSeq(cursor[e], 1, n + 1)
              /\ Len(b) = Len(buffer[e]) + 1
              /\ b \in Seq(ExportRow)
    BY StreamTypes, NextRow
  <1>4. rowCount[e] \in Nat
    BY StreamTypes
  <1> QED BY <1>1, <1>2, <1>3, <1>4

LEMMA NextTyped ==
    ASSUME TypeOK, Batches, DeliveredInOrder, [Next]_vars PROVE TypeOK'
  <1>1. ASSUME NEW e \in Exports, Ask(e) PROVE TypeOK'
    BY <1>1, RowsAssumption DEF Ask, TypeOK, stream
  <1>2. ASSUME NEW e \in Exports, CountRows(e) PROVE TypeOK'
    BY <1>2 DEF CountRows, TypeOK, stream, Answered
  <1>3. ASSUME NEW e \in Exports, CountFails(e) PROVE TypeOK'
    BY <1>3 DEF CountFails, TypeOK, stream, Answered
  <1>4. ASSUME NEW e \in Exports, YieldHeader(e) PROVE TypeOK'
    BY <1>4 DEF YieldHeader, TypeOK, stream
  <1>5. ASSUME NEW e \in Exports, Abandon(e) PROVE TypeOK'
    BY <1>5 DEF Abandon, TypeOK, stream, Answered
  <1>6. ASSUME NEW e \in Exports, OpenCursor(e) PROVE TypeOK'
    <2>1. Listing(e) \in Seq(ExportRow) /\ Limited(Listing(e)) \in Seq(ExportRow)
      BY ListingFacts, LimitedFacts
    <2>2. /\ snapshot' \in [Exports -> Seq(ExportRow)]
          /\ cursor' \in [Exports -> Seq(ExportRow)]
      BY <1>6, <2>1 DEF OpenCursor, TypeOK
    <2> QED BY <1>6, <2>2 DEF OpenCursor, TypeOK
  <1>7. ASSUME NEW e \in Exports, FetchBatch(e) PROVE TypeOK'
    <2>1. /\ fetched[e] \in Nat /\ rowCount[e] = fetched[e]
          /\ fetched[e] < Len(cursor[e]) /\ Len(cursor[e]) \in Nat
      BY <1>7, StreamTypes DEF FetchBatch
    <2>2. fetched'[e] \in rowCount[e]..rowCount[e] + FetchSize /\ fetched'[e] \in Nat
      BY <1>7, <2>1, SizesAssumption DEF FetchBatch, Shorter, TypeOK
    <2>3. fetched' \in [Exports -> Nat] /\ \A q \in Exports : q # e => fetched'[q] = fetched[q]
      BY <1>7, <2>2 DEF FetchBatch, TypeOK
    <2> QED BY <1>7, <2>2, <2>3 DEF FetchBatch, TypeOK
  <1>8. ASSUME NEW e \in Exports, WriteRow(e) PROVE TypeOK'
    <2> DEFINE b == Append(buffer[e], cursor[e][rowCount[e] + 1])
    <2>1. b \in Seq(ExportRow) /\ Len(b) = Len(buffer[e]) + 1
      BY <1>8, RowWritten
    <2>2. /\ rowCount[e] \in Nat /\ fetched[e] \in Nat /\ rowCount[e] < fetched[e]
          /\ fetched[e] <= rowCount[e] + FetchSize
      BY <1>8, StreamTypes, SizesAssumption DEF WriteRow, TypeOK
    <2>3. Len(buffer[e]) = rowCount[e] % RowsPerChunk
      BY <1>8 DEF WriteRow, Batches
    <2>4. /\ rowCount' = [rowCount EXCEPT ![e] = rowCount[e] + 1]
          /\ \/ /\ sent' = [sent EXCEPT ![e] = sent[e] \o b]
                /\ buffer' = [buffer EXCEPT ![e] = Drained(b)]
             \/ /\ ~ChunkFull(rowCount[e] + 1)
                /\ buffer' = [buffer EXCEPT ![e] = b]
                /\ sent' = sent
      BY <1>8 DEF WriteRow
    <2> HIDE DEF b
    <2>5. sent[e] \o b \in Seq(ExportRow) /\ Drained(b) \in Seq(ExportRow) /\ Len(Drained(b)) = 0
      BY <2>1, StreamTypes, ConcatProperties DEF Drained
    <2>6. ~ChunkFull(rowCount[e] + 1) => Len(b) < RowsPerChunk
      <3>1. /\ rowCount[e] % RowsPerChunk \in 0..RowsPerChunk - 1
            /\ ~ChunkFull(rowCount[e] + 1) =>
                  (rowCount[e] + 1) % RowsPerChunk = (rowCount[e] % RowsPerChunk) + 1
        BY <2>2, OneMoreRow
      <3>2. (rowCount[e] + 1) % RowsPerChunk \in 0..RowsPerChunk - 1
        BY <2>2, OneMoreRow
      <3> QED BY <2>1, <2>3, <3>1, <3>2, SizesAssumption
    <2>7. sent' \in [Exports -> Seq(ExportRow)] /\ buffer' \in [Exports -> Seq(ExportRow)]
      BY <2>1, <2>4, <2>5 DEF TypeOK
    <2>8. Len(buffer'[e]) < RowsPerChunk /\ \A q \in Exports : q # e => buffer'[q] = buffer[q]
      <3>1. buffer \in [Exports -> Seq(ExportRow)]
        BY DEF TypeOK
      <3>2. \/ buffer' = [buffer EXCEPT ![e] = Drained(b)]
            \/ buffer' = [buffer EXCEPT ![e] = b] /\ Len(b) < RowsPerChunk
        BY <2>4, <2>6
      <3> QED BY <2>5, <3>1, <3>2, SizesAssumption
    <2>9. /\ rowCount' \in [Exports -> Nat]
          /\ \A q \in Exports : fetched[q] \in rowCount'[q]..rowCount'[q] + FetchSize
      BY <2>2, <2>4, SizesAssumption DEF TypeOK
    <2> QED BY <1>8, <2>7, <2>8, <2>9 DEF WriteRow, TypeOK
  <1>9. ASSUME NEW e \in Exports, Flush(e) PROVE TypeOK'
    <2>1. sent[e] \o buffer[e] \in Seq(ExportRow) /\ <<>> \in Seq(ExportRow) /\ Len(<<>>) = 0
      BY StreamTypes, ConcatProperties
    <2>2. sent' \in [Exports -> Seq(ExportRow)] /\ buffer' \in [Exports -> Seq(ExportRow)]
      BY <1>9, <2>1 DEF Flush, TypeOK, Drained
    <2>3. \A q \in Exports : Len(buffer'[q]) < RowsPerChunk
      BY <1>9, <2>1, SizesAssumption DEF Flush, TypeOK, Drained
    <2> QED BY <1>9, <2>2, <2>3 DEF Flush, TypeOK
  <1>10. ASSUME NEW e \in Exports, Complete(e) \/ Break(e) PROVE TypeOK'
    <2>1. \A c, d \in BOOLEAN : AuditEvent(e, c, d) \in Events
      BY StreamTypes DEF AuditEvent, Events
    <2>2. Capped(rowCount[e]) \in BOOLEAN
      BY DEF Capped
    <2>3. PICK a \in Events : log' = [log EXCEPT ![e] = Append(log[e], a)]
      BY <1>10, <2>1, <2>2 DEF Complete, Break
    <2>4. log' \in [Exports -> Seq(Events)]
      BY <2>3, AppendProperties DEF TypeOK
    <2>5. pc' = [pc EXCEPT ![e] = "done"] \/ pc' = [pc EXCEPT ![e] = "broken"]
      BY <1>10 DEF Complete, Break
    <2>6. pc' \in [Exports -> {"idle", "counting", "accepted", "started", "streaming",
                             "flushed"} \cup Answered]
      BY <2>5 DEF TypeOK, Answered
    <2>7. UNCHANGED <<rollup, filter, asked, snapshot, cursor, fetched, rowCount, buffer, sent>>
      BY <1>10 DEF Complete, Break, stream
    <2> QED BY <2>4, <2>6, <2>7 DEF TypeOK
  <1>11. ASSUME NEW r \in Rows, CountEvent(r) PROVE TypeOK'
    BY <1>11, RowsAssumption DEF CountEvent, Table!CountEvent, TypeOK, stream
  <1>12. CASE UNCHANGED vars
    BY <1>12 DEF vars, stream, TypeOK
  <1> QED
    BY <1>1, <1>2, <1>3, <1>4, <1>5, <1>6, <1>7, <1>8, <1>9, <1>10, <1>11, <1>12
       DEF Next, Export

\* Before its cursor is open an export has counted no row.
LEMMA NothingYet ==
    ASSUME TypeOK, Batches, NEW e \in Exports,
           pc[e] \notin {"streaming", "flushed", "done", "broken"}
    PROVE  fetched[e] = 0 /\ rowCount[e] = 0 /\ rowCount[e] % RowsPerChunk = 0
  <1>1. cursor[e] = <<>> /\ fetched[e] <= Len(cursor[e])
    BY DEF Batches
  <1>2. fetched[e] = 0 /\ rowCount[e] = 0
    BY <1>1, StreamTypes
  <1>3. 0 % RowsPerChunk = 0
    BY SizesAssumption
  <1> QED BY <1>2, <1>3

LEMMA NextBatches ==
    ASSUME TypeOK, Batches, DeliveredInOrder, [Next]_vars
    PROVE  Batches' /\ DeliveredInOrder'
  <1> USE DEF DeliveredInOrder
  <1>1. ASSUME NEW e \in Exports,
               Ask(e) \/ CountRows(e) \/ CountFails(e) \/ Abandon(e)
        PROVE  Batches' /\ DeliveredInOrder'
    BY <1>1 DEF Ask, CountRows, CountFails, Abandon, Batches, stream, TypeOK
  <1>2. ASSUME NEW e \in Exports, YieldHeader(e) PROVE Batches' /\ DeliveredInOrder'
    <2>1. buffer[e] = <<>> /\ rowCount[e] % RowsPerChunk = 0
      BY <1>2, NothingYet DEF YieldHeader, Batches
    <2>2. Len(buffer[e]) = rowCount[e] % RowsPerChunk
      BY <2>1, EmptySeq
    <2>3. /\ pc[e] = "accepted" /\ pc'[e] = "started"
          /\ \A q \in Exports : q # e => pc'[q] = pc[q]
          /\ UNCHANGED stream
      BY <1>2 DEF YieldHeader, TypeOK
    <2> QED BY <2>2, <2>3 DEF Batches, stream
  <1>3. ASSUME NEW e \in Exports, OpenCursor(e) PROVE Batches' /\ DeliveredInOrder'
    <2> DEFINE all == Listing(e)
               rows == Limited(Listing(e))
    <2>1. rows \in Seq(ExportRow) /\ Len(rows) \in Nat
      BY ListingFacts, LimitedFacts, LenProperties
    <2>2. /\ fetched[e] = 0 /\ rowCount[e] = 0
          /\ sent[e] = <<>> /\ buffer[e] = <<>>
      BY <1>3, NothingYet DEF OpenCursor, Batches
    <2>3. SubSeq(rows, 1, 0) = <<>> /\ <<>> \o <<>> = <<>>
      BY SubSeqEmpty, ConcatEmptySeq, EmptySeq
    <2>4. rows = Limited(all)
      OBVIOUS
    <2> HIDE DEF all, rows
    <2>5. /\ snapshot' = [snapshot EXCEPT ![e] = all]
          /\ cursor' = [cursor EXCEPT ![e] = rows]
          /\ pc' = [pc EXCEPT ![e] = "streaming"]
          /\ pc[e] = "started"
          /\ UNCHANGED <<fetched, rowCount, buffer, sent>>
      BY <1>3 DEF OpenCursor, all, rows
    <2>6. /\ snapshot'[e] = all /\ cursor'[e] = rows /\ pc'[e] = "streaming"
          /\ \A q \in Exports : q # e => /\ snapshot'[q] = snapshot[q]
                                        /\ cursor'[q] = cursor[q] /\ pc'[q] = pc[q]
      BY <2>5 DEF TypeOK
    <2>7. Len(buffer[e]) = rowCount[e] % RowsPerChunk
      BY <2>5 DEF Batches
    <2>8. sent'[e] \o buffer'[e] = SubSeq(cursor'[e], 1, rowCount'[e])
      BY <2>2, <2>3, <2>5, <2>6
    <2>9. DeliveredInOrder'
      BY <2>5, <2>6, <2>8
    <2>10. Batches'
      BY <2>1, <2>2, <2>4, <2>5, <2>6, <2>7 DEF Batches
    <2> QED BY <2>9, <2>10
  <1>4. ASSUME NEW e \in Exports, FetchBatch(e) PROVE Batches' /\ DeliveredInOrder'
    <2>1. fetched'[e] <= Len(cursor[e])
      BY <1>4, StreamTypes, SizesAssumption DEF FetchBatch, Shorter, TypeOK
    <2> QED BY <1>4, <2>1 DEF FetchBatch, Batches, TypeOK
  <1>5. ASSUME NEW e \in Exports, WriteRow(e) PROVE Batches' /\ DeliveredInOrder'
    <2> DEFINE n == rowCount[e] + 1
               b == Append(buffer[e], cursor[e][n])
    <2>1. /\ b \in Seq(ExportRow) /\ Len(b) = Len(buffer[e]) + 1
          /\ sent[e] \o b = SubSeq(cursor[e], 1, n)
      BY <1>5, RowWritten
    <2>2. rowCount[e] \in Nat /\ Len(buffer[e]) = rowCount[e] % RowsPerChunk
      BY <1>5, StreamTypes DEF WriteRow, Batches
    <2>3. /\ pc[e] = "streaming" /\ UNCHANGED <<pc, snapshot, cursor, fetched>>
          /\ rowCount' = [rowCount EXCEPT ![e] = n]
          /\ \/ /\ ChunkFull(n)
                /\ sent' = [sent EXCEPT ![e] = sent[e] \o b]
                /\ buffer' = [buffer EXCEPT ![e] = <<>>]
             \/ /\ ~ChunkFull(n)
                /\ buffer' = [buffer EXCEPT ![e] = b]
                /\ sent' = sent
      BY <1>5 DEF WriteRow, Drained
    <2> HIDE DEF b
    <2>4. ~ChunkFull(n) => Len(b) = n % RowsPerChunk
      BY <2>1, <2>2, OneMoreRow
    <2>5. ChunkFull(n) => Len(<<>>) = n % RowsPerChunk
      BY DEF ChunkFull
    <2>6. (sent[e] \o b) \o <<>> = sent[e] \o b
      BY <2>1, StreamTypes, ConcatProperties, ConcatEmptySeq
    <2> HIDE DEF n
    <2>7. /\ Len(buffer'[e]) = rowCount'[e] % RowsPerChunk
          /\ sent'[e] \o buffer'[e] = SubSeq(cursor[e], 1, rowCount'[e])
      BY <2>1, <2>3, <2>4, <2>5, <2>6 DEF TypeOK
    <2>8. \A q \in Exports : q # e => /\ rowCount'[q] = rowCount[q]
                                     /\ buffer'[q] = buffer[q] /\ sent'[q] = sent[q]
      BY <2>3 DEF TypeOK
    <2> QED BY <2>3, <2>7, <2>8 DEF Batches
  <1>6. ASSUME NEW e \in Exports, Flush(e) PROVE Batches' /\ DeliveredInOrder'
    <2>1. (sent[e] \o buffer[e]) \o <<>> = sent[e] \o buffer[e]
      BY StreamTypes, ConcatProperties, ConcatEmptySeq
    <2>2. /\ sent'[e] = sent[e] \o buffer[e] /\ buffer'[e] = <<>> /\ pc'[e] = "flushed"
          /\ pc[e] = "streaming"
          /\ rowCount[e] = Len(cursor[e])
          /\ UNCHANGED <<snapshot, cursor, fetched, rowCount>>
          /\ \A q \in Exports : q # e => /\ pc'[q] = pc[q]
                                        /\ buffer'[q] = buffer[q] /\ sent'[q] = sent[q]
      BY <1>6 DEF Flush, Drained, TypeOK
    <2> QED BY <2>1, <2>2 DEF Batches
  <1>7. ASSUME NEW e \in Exports, Complete(e) \/ Break(e) PROVE Batches' /\ DeliveredInOrder'
    BY <1>7 DEF Complete, Break, Suspended, Batches, stream, TypeOK
  <1>8. ASSUME NEW r \in Rows, CountEvent(r) PROVE Batches' /\ DeliveredInOrder'
    BY <1>8 DEF CountEvent, Table!CountEvent, Batches, stream
  <1>9. CASE UNCHANGED vars
    BY <1>9 DEF vars, stream, Batches
  <1> QED
    BY <1>1, <1>2, <1>3, <1>4, <1>5, <1>6, <1>7, <1>8, <1>9 DEF Next, Export

LEMMA NextAudited ==
    ASSUME TypeOK, Audited, [Next]_vars PROVE Audited'
  <1>1. ASSUME NEW e \in Exports,
               \/ Ask(e) \/ CountRows(e) \/ CountFails(e) \/ YieldHeader(e) \/ Abandon(e)
               \/ OpenCursor(e) \/ FetchBatch(e) \/ WriteRow(e) \/ Flush(e)
        PROVE  Audited'
    <2>1. /\ log' = log /\ log[e] = <<>>
          /\ pc'[e] \notin {"done", "broken"}
          /\ \A q \in Exports : q # e => pc'[q] = pc[q] /\ rowCount'[q] = rowCount[q]
      BY <1>1 DEF Audited, TypeOK, stream, Ask, CountRows, CountFails, YieldHeader, Abandon,
                  OpenCursor, FetchBatch, WriteRow, Flush
    <2> QED BY <2>1 DEF Audited, AuditEvent
  <1>2. ASSUME NEW e \in Exports, Complete(e) \/ Break(e) PROVE Audited'
    <2>1. log[e] = <<>>
      BY <1>2 DEF Complete, Break, Suspended, Audited
    <2>2. \A a \in Events : Append(<<>>, a) = <<a>>
      BY AppendIsConcat, ConcatEmptySeq, EmptySeq
    <2>3. \A c, d \in BOOLEAN : AuditEvent(e, c, d) \in Events
      BY StreamTypes DEF AuditEvent, Events
    <2>4. Capped(rowCount[e]) \in BOOLEAN
      BY DEF Capped
    <2>5. rowCount' = rowCount /\ \A q \in Exports : q # e => pc'[q] = pc[q] /\ log'[q] = log[q]
      BY <1>2 DEF Complete, Break, stream, TypeOK
    <2>6. CASE Complete(e)
      <3>1. pc'[e] = "done" /\ log'[e] = <<AuditEvent(e, Capped(rowCount[e]), TRUE)>>
        BY <2>1, <2>2, <2>3, <2>4, <2>6 DEF Complete, TypeOK
      <3> QED BY <2>5, <3>1 DEF Audited, AuditEvent
    <2>7. CASE Break(e)
      <3>1. pc'[e] = "broken" /\ log'[e] = <<AuditEvent(e, FALSE, FALSE)>>
        BY <2>1, <2>2, <2>3, <2>7 DEF Break, TypeOK
      <3> QED BY <2>5, <3>1 DEF Audited, AuditEvent
    <2> QED BY <1>2, <2>6, <2>7
  <1>3. ASSUME NEW r \in Rows, CountEvent(r) PROVE Audited'
    BY <1>3 DEF CountEvent, Table!CountEvent, Audited, stream, AuditEvent
  <1>4. CASE UNCHANGED vars
    BY <1>4 DEF vars, stream, Audited, AuditEvent
  <1> QED BY <1>1, <1>2, <1>3, <1>4 DEF Next, Export

\* Usage only grows, so what matched an export goes on matching it.
LEMMA MatchingGrows ==
    ASSUME TypeOK, NEW r \in Rows, CountEvent(r), NEW e \in Exports
    PROVE  Cardinality(Matching(e)) <= Cardinality(Matching(e)')
  <1>1. \A q \in Rows : rollup[q] \in Nat /\ rollup'[q] \in Nat /\ rollup'[q] >= rollup[q]
    BY RowsAssumption DEF CountEvent, Table!CountEvent, TypeOK
  <1>2. filter'[e] = filter[e] /\ filter[e] \in SUBSET Rows
    BY DEF CountEvent, Table!CountEvent, TypeOK
  <1>3. Matching(e)' \in SUBSET Rows
    BY <1>2 DEF Matching
  <1>4. Matching(e) \in SUBSET Matching(e)'
    BY <1>1, <1>2 DEF Matching
  <1>5. IsFiniteSet(Matching(e)')
    BY <1>3, RowsAssumption, FS_Subset
  <1> QED BY <1>4, <1>5, FS_Subset

LEMMA NextRefusal ==
    ASSUME TypeOK, RefusalLasts, [Next]_vars PROVE RefusalLasts'
  <1>1. ASSUME NEW e \in Exports, Ask(e) PROVE RefusalLasts'
    BY <1>1 DEF Ask, RefusalLasts, TypeOK, Matching
  <1>2. ASSUME NEW e \in Exports, CountRows(e) PROVE RefusalLasts'
    BY <1>2 DEF CountRows, OverCap, RefusalLasts, TypeOK, Matching
  <1>3. ASSUME NEW e \in Exports,
               \/ CountFails(e) \/ YieldHeader(e) \/ Abandon(e) \/ OpenCursor(e)
               \/ FetchBatch(e) \/ WriteRow(e) \/ Flush(e) \/ Complete(e) \/ Break(e)
        PROVE  RefusalLasts'
    <2>1. /\ UNCHANGED <<rollup, filter>>
          /\ \A q \in Exports : pc'[q] = "refused" => pc[q] = "refused"
      BY <1>3 DEF CountFails, YieldHeader, Abandon, OpenCursor, FetchBatch, WriteRow,
                  Flush, Complete, Break, TypeOK
    <2> QED BY <2>1 DEF RefusalLasts, Matching
  <1>4. ASSUME NEW r \in Rows, CountEvent(r) PROVE RefusalLasts'
    <2> SUFFICES ASSUME NEW e \in Exports, pc'[e] = "refused"
                 PROVE  Cardinality(Matching(e)') > MaxExportRows
      BY DEF RefusalLasts
    <2>1. Cardinality(Matching(e)) > MaxExportRows
      BY <1>4 DEF CountEvent, Table!CountEvent, RefusalLasts
    <2>2. Matching(e) \in SUBSET Rows /\ Matching(e)' \in SUBSET Rows
      BY <1>4 DEF Matching, CountEvent, TypeOK
    <2>3. Cardinality(Matching(e)) \in Nat /\ Cardinality(Matching(e)') \in Nat
      BY <2>2, Numbered
    <2> QED BY <1>4, <2>1, <2>3, MatchingGrows, SizesAssumption
  <1>5. CASE UNCHANGED vars
    BY <1>5 DEF vars, RefusalLasts, Matching
  <1> QED BY <1>1, <1>2, <1>3, <1>4, <1>5 DEF Next, Export

LEMMA NextAcknowledged ==
    ASSUME TypeOK, Acknowledged, [Next]_vars PROVE Acknowledged'
  <1>1. ASSUME NEW e \in Exports, Ask(e) PROVE Acknowledged'
    <2>1. /\ rollup' = rollup /\ pc'[e] = "counting" /\ asked'[e] = rollup
          /\ snapshot' = snapshot
          /\ \A q \in Exports : q # e =>
                pc'[q] = pc[q] /\ asked'[q] = asked[q] /\ filter'[q] = filter[q]
      BY <1>1 DEF Ask, TypeOK, stream
    <2>2. \A r \in Rows : rollup[r] <= rollup[r]
      BY DEF TypeOK
    <2> QED BY <2>1, <2>2 DEF Acknowledged
  <1>2. ASSUME NEW e \in Exports, OpenCursor(e) PROVE Acknowledged'
    <2>1. /\ UNCHANGED <<rollup, asked, filter>>
          /\ snapshot'[e] = Listing(e)
          /\ \A q \in Exports : q # e => pc'[q] = pc[q] /\ snapshot'[q] = snapshot[q]
      BY <1>2 DEF OpenCursor, TypeOK
    <2>2. ASSUME NEW r \in filter[e], asked[e][r] > 0
          PROVE  \E i \in 1..Len(Listing(e)) :
                    Listing(e)[i].row = r /\ Listing(e)[i].total >= asked[e][r]
      <3>1. /\ r \in Rows /\ asked[e][r] \in Nat /\ rollup[r] \in Nat
            /\ asked[e][r] <= rollup[r]
        BY <2>2 DEF TypeOK, Acknowledged
      <3>2. r \in Matching(e)
        BY <2>2, <3>1 DEF Matching
      <3>3. PICK i \in 1..Len(Listing(e)) :
                 Listing(e)[i].row = r /\ Listing(e)[i].total = rollup[r]
        BY <3>2, ListingFacts
      <3> QED BY <3>1, <3>3
    <2> QED BY <2>1, <2>2 DEF Acknowledged
  <1>3. ASSUME NEW e \in Exports,
               \/ CountRows(e) \/ CountFails(e) \/ YieldHeader(e) \/ Abandon(e)
               \/ FetchBatch(e) \/ WriteRow(e) \/ Flush(e) \/ Complete(e) \/ Break(e)
        PROVE  Acknowledged'
    <2>1. /\ UNCHANGED <<rollup, asked, filter, snapshot>>
          /\ \A q \in Exports : pc'[q] \in {"streaming", "flushed", "done"}
                                => pc[q] \in {"streaming", "flushed", "done"}
      BY <1>3 DEF CountRows, CountFails, YieldHeader, Abandon, FetchBatch, WriteRow,
                  Flush, Complete, Break, TypeOK, stream
    <2> QED BY <2>1 DEF Acknowledged
  <1>4. ASSUME NEW r \in Rows, CountEvent(r) PROVE Acknowledged'
    <2>1. UNCHANGED <<pc, asked, filter, snapshot>>
      BY <1>4 DEF CountEvent, Table!CountEvent, stream
    <2>2. \A q \in Rows : rollup[q] \in Nat /\ rollup'[q] \in Nat /\ rollup'[q] >= rollup[q]
      BY <1>4, RowsAssumption DEF CountEvent, Table!CountEvent, TypeOK
    <2>3. \A e \in Exports, q \in Rows : asked[e][q] \in Nat
      BY DEF TypeOK
    <2> QED BY <2>1, <2>2, <2>3 DEF Acknowledged
  <1>5. CASE UNCHANGED vars
    BY <1>5 DEF vars, stream, Acknowledged
  <1> QED BY <1>1, <1>2, <1>3, <1>4, <1>5 DEF Next, Export

LEMMA InitExport == Init => ExportInv
  <1> SUFFICES ASSUME Init PROVE ExportInv
    OBVIOUS
  <1>1. <<>> \in Seq(ExportRow) /\ <<>> \in Seq(Events) /\ Len(<<>>) = 0
    BY EmptySeq
  <1>2. TypeOK
    BY <1>1, RowsAssumption, SizesAssumption DEF Init, TypeOK
  <1>3. Limited(<<>>) = <<>> /\ SubSeq(<<>>, 1, 0) = <<>> /\ <<>> \o <<>> = <<>>
    <2>1. Shorter(0, MaxExportRows) = 0
      BY SizesAssumption DEF Shorter
    <2> QED BY <1>1, <2>1, SubSeqEmpty, ConcatEmptySeq DEF Limited
  <1>4. Batches /\ DeliveredInOrder
    BY <1>1, <1>3 DEF Init, Batches, DeliveredInOrder
  <1>5. Audited /\ Acknowledged /\ RefusalLasts
    BY DEF Init, Audited, Acknowledged, RefusalLasts
  <1> QED BY <1>2, <1>4, <1>5 DEF ExportInv

-----------------------------------------------------------------------------
(***************************************************************************)
(* The theorems.                                                           *)
(***************************************************************************)

\* The inductive invariant of the export (stream_export_csv).
THEOREM ExportInvariance == Spec => []ExportInv
  <1>1. ExportInv /\ [Next]_vars => ExportInv'
    BY NextTyped, NextBatches, NextAudited, NextAcknowledged, NextRefusal DEF ExportInv
  <1> QED BY InitExport, <1>1, PTL DEF Spec

\* What has been sent is, at every moment, a first part of the cursor's rows,
\* and a 422 is right and stays so (stream_export_csv, prepare_export).
THEOREM StreamCorrect == Spec => [](DeliveredInOrder /\ RefusalLasts)
  <1>1. ExportInv => DeliveredInOrder /\ RefusalLasts
    BY DEF ExportInv
  <1> QED BY ExportInvariance, <1>1, PTL

\* Sent and buffered rows are counted, and are not more than the cap.
LEMMA RowsCounted ==
    ASSUME ExportInv, NEW e \in Exports
    PROVE  /\ Len(sent[e]) + Len(buffer[e]) = rowCount[e]
           /\ rowCount[e] <= Len(cursor[e])
           /\ Len(cursor[e]) <= MaxExportRows
  <1> USE DEF ExportInv
  <1>1. rowCount[e] \in Nat /\ rowCount[e] <= Len(cursor[e]) /\ Len(cursor[e]) \in Nat
    BY StreamTypes DEF Batches
  <1>2. Len(SubSeq(cursor[e], 1, rowCount[e])) = rowCount[e]
    <2>1. \A i \in 1..rowCount[e] : cursor[e][i] \in ExportRow
      BY <1>1, StreamTypes, ElementOfSeq
    <2> QED BY <1>1, <2>1, SubSeqProperties
  <1>3. Len(sent[e] \o buffer[e]) = Len(sent[e]) + Len(buffer[e])
    BY StreamTypes, ConcatProperties
  <1>4. Len(cursor[e]) <= MaxExportRows
    BY StreamTypes, LimitedFacts DEF Batches
  <1> QED BY <1>1, <1>2, <1>3, <1>4 DEF DeliveredInOrder

\* Once it is flushed, a stream has sent its whole cursor.
LEMMA WholeCursor ==
    ASSUME ExportInv, NEW e \in Exports, pc[e] \in {"flushed", "done"}
    PROVE  sent[e] = cursor[e] /\ rowCount[e] = Len(cursor[e])
  <1>1. buffer[e] = <<>> /\ rowCount[e] = Len(cursor[e])
    BY DEF ExportInv, Batches
  <1>2. sent[e] \o buffer[e] = SubSeq(cursor[e], 1, rowCount[e])
    BY DEF ExportInv, DeliveredInOrder
  <1>3. sent[e] \in Seq(ExportRow) /\ cursor[e] \in Seq(ExportRow)
    BY StreamTypes DEF ExportInv
  <1>4. sent[e] \o <<>> = sent[e] /\ SubSeq(cursor[e], 1, Len(cursor[e])) = cursor[e]
    BY <1>3, ConcatEmptySeq, SubSeqFull
  <1> QED BY <1>1, <1>2, <1>4

\* No body is longer than the cap, however many rows were added since they
\* were counted (the LIMIT of stream_usage_rollups).
THEOREM CapHolds == Spec => []WithinCap
  <1>1. ExportInv => WithinCap
    <2> SUFFICES ASSUME ExportInv, NEW e \in Exports PROVE Len(sent[e]) <= MaxExportRows
      BY DEF WithinCap
    <2>1. /\ Len(sent[e]) \in Nat /\ Len(buffer[e]) \in Nat
          /\ Len(cursor[e]) \in Nat /\ rowCount[e] \in Nat
      BY StreamTypes DEF ExportInv
    <2>2. /\ Len(sent[e]) + Len(buffer[e]) = rowCount[e]
          /\ rowCount[e] <= Len(cursor[e]) /\ Len(cursor[e]) <= MaxExportRows
      BY RowsCounted
    <2>3. \A a, b, c, d \in Nat, m \in Int : a + b = c /\ c <= d /\ d <= m => a <= m
      OBVIOUS
    <2>4. MaxExportRows \in Int
      BY SizesAssumption
    <2> QED BY <2>1, <2>2, <2>3, <2>4
  <1> QED BY ExportInvariance, <1>1, PTL

\* A stream that has ended has one audit event, which never claims fewer rows
\* than were sent nor a chunk more, and completion only of a whole cursor
\* (the finally block of stream_export_csv).
THEOREM AuditCorrect == Spec => []AuditReliable
  <1>1. ExportInv => AuditReliable
    <2> SUFFICES ASSUME ExportInv, NEW e \in Exports
                 PROVE  /\ Len(log[e]) = IF pc[e] \in {"done", "broken"} THEN 1 ELSE 0
                        /\ \A i \in 1..Len(log[e]) :
                              /\ log[e][i].completed => sent[e] = cursor[e]
                              /\ log[e][i].rowCount - Len(sent[e]) \in 0..RowsPerChunk - 1
      BY DEF AuditReliable
    <2>1. rowCount[e] - Len(sent[e]) \in 0..RowsPerChunk - 1
      <3>1. Len(sent[e]) \in Nat /\ Len(buffer[e]) \in Nat /\ rowCount[e] \in Nat
        BY StreamTypes DEF ExportInv
      <3>2. Len(buffer[e]) < RowsPerChunk
        BY DEF ExportInv, TypeOK
      <3>3. Len(sent[e]) + Len(buffer[e]) = rowCount[e]
        BY RowsCounted
      <3>4. \A a, b, c \in Nat, m \in Int : a + b = c /\ b < m => c - a \in 0..m - 1
        OBVIOUS
      <3>5. RowsPerChunk \in Int
        BY SizesAssumption
      <3> QED BY <3>1, <3>2, <3>3, <3>4, <3>5
    <2>2. CASE pc[e] = "done"
      <3>1. log[e] = <<AuditEvent(e, Capped(rowCount[e]), TRUE)>>
        BY <2>2 DEF ExportInv, Audited
      <3>2. sent[e] = cursor[e]
        BY <2>2, WholeCursor
      <3> QED BY <2>1, <2>2, <3>1, <3>2 DEF AuditEvent
    <2>3. CASE pc[e] = "broken"
      <3>1. log[e] = <<AuditEvent(e, FALSE, FALSE)>>
        BY <2>3 DEF ExportInv, Audited
      <3> QED BY <2>1, <2>3, <3>1 DEF AuditEvent
    <2>4. CASE pc[e] \notin {"done", "broken"}
      <3>1. log[e] = <<>>
        BY <2>4 DEF ExportInv, Audited
      <3> QED BY <2>4, <3>1
    <2> QED BY <2>2, <2>3, <2>4
  <1> QED BY ExportInvariance, <1>1, PTL

\* An export logged as completed and not capped has sent everything that was
\* on record when it was asked for (prepare_export, stream_export_csv).
THEOREM ExportComplete == Spec => []NothingMissing
  <1>1. ExportInv => NothingMissing
    <2> SUFFICES ASSUME ExportInv, NEW e \in Exports,
                        NEW i \in 1..Len(log[e]), log[e][i].completed, ~log[e][i].capped
                 PROVE  /\ sent[e] = snapshot[e]
                        /\ \A r \in filter[e] : asked[e][r] > 0 =>
                              \E j \in 1..Len(sent[e]) :
                                 sent[e][j].row = r /\ sent[e][j].total >= asked[e][r]
      BY DEF NothingMissing
    <2>1. pc[e] = "done" /\ ~Capped(rowCount[e])
      <3>1. Audited
        BY DEF ExportInv
      <3>2. CASE pc[e] = "done"
        <4>1. log[e] = <<AuditEvent(e, Capped(rowCount[e]), TRUE)>>
          BY <3>1, <3>2 DEF Audited
        <4> QED BY <3>2, <4>1 DEF AuditEvent
      <3>3. CASE pc[e] = "broken"
        <4>1. log[e] = <<AuditEvent(e, FALSE, FALSE)>>
          BY <3>1, <3>3 DEF Audited
        <4> QED BY <4>1 DEF AuditEvent
      <3>4. CASE pc[e] \notin {"done", "broken"}
        <4>1. log[e] = <<>>
          BY <3>1, <3>4 DEF Audited
        <4> QED BY <4>1
      <3> QED BY <3>2, <3>3, <3>4
    <2>2. sent[e] = cursor[e] /\ rowCount[e] = Len(cursor[e])
      BY <2>1, WholeCursor
    <2>3. Len(cursor[e]) < MaxExportRows
      BY <2>1, <2>2, StreamTypes, SizesAssumption DEF ExportInv, Capped
    <2>4. cursor[e] = snapshot[e]
      BY <2>3, StreamTypes, LimitedFacts DEF ExportInv, Batches
    <2> QED BY <2>1, <2>2, <2>4 DEF ExportInv, Acknowledged
  <1> QED BY ExportInvariance, <1>1, PTL

-----------------------------------------------------------------------------
(***************************************************************************)
(* Count, cursor, batches and chunks implement ExportContract.             *)
(***************************************************************************)

\* Both modules count alike.
LEMMA ContractCardinality == \A S : Contract!Cardinality(S) = Cardinality(S)
  BY DEF Contract!Cardinality, Cardinality

\* What the cursor returns is a report of the moment it is opened.
LEMMA CursorReports ==
    ASSUME TypeOK, NEW e \in Exports
    PROVE  Contract!Reports(Limited(Listing(e)), e)
  <1> DEFINE s == Listing(e)
             n == Shorter(Len(s), MaxExportRows)
             c == Limited(s)
  <1>1. s \in Seq(ExportRow) /\ Len(s) \in Nat /\ MaxExportRows \in Nat
    BY ListingFacts, LenProperties, SizesAssumption
  <1>2. n \in 0..Len(s) /\ n <= MaxExportRows /\ (n < Len(s) => n = MaxExportRows)
    BY <1>1 DEF Shorter
  <1>3. Contract!Wanted(e) = Matching(e)
    BY DEF Contract!Wanted, Matching
  <1>4. c = SubSeq(s, 1, n)
    BY DEF Limited
  <1>5. /\ \A i \in 1..Len(s) : s[i].row \in Matching(e) /\ s[i].total = rollup[s[i].row]
        /\ \A i, j \in 1..Len(s) : i < j => s[i].row < s[j].row
        /\ \A r \in Matching(e) : \E i \in 1..Len(s) : s[i].row = r
    BY ListingFacts
  <1> HIDE DEF s, n, c
  <1>6. \A i \in 1..n : i \in 1..Len(s) /\ s[i] \in ExportRow
    BY <1>1, <1>2, ElementOfSeq
  <1>7. Len(c) = n /\ \A i \in 1..n : c[i] = s[i]
    BY <1>2, <1>4, <1>6, SubSeqProperties
  <1>8. ASSUME NEW r \in Matching(e)
        PROVE  \/ \E i \in 1..n : c[i].row = r
               \/ n = MaxExportRows /\ \A i \in 1..n : c[i].row < r
    <2>1. PICK j \in 1..Len(s) : s[j].row = r
      BY <1>5
    <2>2. CASE j <= n
      BY <1>2, <1>7, <2>1, <2>2
    <2>3. CASE n < j
      <3>1. n = MaxExportRows
        BY <1>1, <1>2, <2>3
      <3>2. \A i \in 1..n : i < j
        BY <1>2, <2>3
      <3>3. \A i \in 1..n : c[i].row < r
        BY <1>5, <1>6, <1>7, <2>1, <3>2
      <3> QED BY <3>1, <3>3
    <2> QED BY <1>1, <1>2, <2>2, <2>3
  <1>9. Contract!Reports(c, e)
    BY <1>2, <1>3, <1>5, <1>6, <1>7, <1>8 DEF Contract!Reports
  <1> QED BY <1>9 DEF c, s

\* The status of an export, as the contract has it.
Status == [e \in Exports |-> StatusOf(e)]

LEMMA StatusMoves ==
    ASSUME TypeOK, NEW e \in Exports, NEW to, pc' = [pc EXCEPT ![e] = to]
    PROVE  Status' = [Status EXCEPT ![e] = StatusOf(e)']
  BY DEF TypeOK, Status, StatusOf

\* A step that moves an export on and can be seen in nothing else.
LEMMA StatusStays ==
    ASSUME UNCHANGED <<rollup, filter, cursor, sent, log>>, Status' = Status
    PROVE  UNCHANGED Contract!vars
  BY DEF Contract!vars, Status

LEMMA InitContract == Init => Contract!Init
  <1> SUFFICES ASSUME Init PROVE Contract!Init
    OBVIOUS
  <1>1. rollup \in [Rows -> Nat]
    BY DEF Init
  <1> QED BY <1>1 DEF Init, Contract!Init, StatusOf

\* Up to the 200 or the 422.
LEMMA AnswerRefines ==
    ASSUME TypeOK, NEW e \in Exports,
           Ask(e) \/ CountRows(e) \/ CountFails(e) \/ YieldHeader(e) \/ Abandon(e)
    PROVE  [Contract!Next]_Contract!vars
  <1>1. CASE Ask(e)
    <2>1. Status[e] = "none" /\ Status' = [Status EXCEPT ![e] = "asked"]
      BY <1>1, StatusMoves DEF Ask, Status, StatusOf, TypeOK
    <2>2. Contract!Ask(e)
      BY <1>1, <2>1 DEF Ask, stream, Status, Contract!Ask, Contract!Becomes
    <2> QED BY <2>2 DEF Contract!Next
  <1>2. CASE CountRows(e)
    <2>1. Contract!Wanted(e) = Matching(e)
      BY DEF Contract!Wanted, Matching
    <2>2. Cardinality(Matching(e)) \in Nat /\ MaxExportRows \in Nat
      <3>1. Matching(e) \in SUBSET Rows
        BY DEF Matching, TypeOK
      <3> QED BY <3>1, Numbered, SizesAssumption
    <2>3. CASE OverCap(Cardinality(Matching(e)))
      <3>1. Status[e] = "asked" /\ Status' = [Status EXCEPT ![e] = "refused"]
        BY <1>2, <2>3, StatusMoves DEF CountRows, Status, StatusOf, TypeOK
      <3>2. Contract!Refuse(e)
        BY <1>2, <2>1, <2>3, <3>1, ContractCardinality
        DEF CountRows, OverCap, stream, Status, Contract!Refuse, Contract!Becomes
      <3> QED BY <3>2 DEF Contract!Next
    <2>4. CASE ~OverCap(Cardinality(Matching(e)))
      <3>1. Status[e] = "asked" /\ Status' = [Status EXCEPT ![e] = "accepted"]
        BY <1>2, <2>4, StatusMoves DEF CountRows, Status, StatusOf, TypeOK
      <3>2. Cardinality(Matching(e)) <= MaxExportRows
        BY <2>2, <2>4 DEF OverCap
      <3>3. Contract!Accept(e)
        BY <1>2, <2>1, <3>1, <3>2, ContractCardinality
        DEF CountRows, stream, Status, Contract!Accept, Contract!Becomes
      <3> QED BY <3>3 DEF Contract!Next
    <2> QED BY <2>3, <2>4
  <1>3. CASE CountFails(e)
    <2>1. Status[e] = "asked" /\ Status' = [Status EXCEPT ![e] = "failed"]
      BY <1>3, StatusMoves DEF CountFails, Status, StatusOf, TypeOK
    <2>2. Contract!Fail(e)
      BY <1>3, <2>1 DEF CountFails, stream, Status, Contract!Fail, Contract!Becomes
    <2> QED BY <2>2 DEF Contract!Next
  <1>4. CASE YieldHeader(e)
    <2>1. Status' = Status
      BY <1>4, StatusMoves DEF YieldHeader, Status, StatusOf, TypeOK
    <2> QED BY <1>4, <2>1, StatusStays DEF YieldHeader, stream
  <1>5. CASE Abandon(e)
    <2>1. Status[e] = "accepted" /\ Status' = [Status EXCEPT ![e] = "gone"]
      BY <1>5, StatusMoves DEF Abandon, Status, StatusOf, TypeOK
    <2>2. Contract!Leave(e)
      BY <1>5, <2>1 DEF Abandon, stream, Status, Contract!Leave, Contract!Becomes
    <2> QED BY <2>2 DEF Contract!Next
  <1> QED BY <1>1, <1>2, <1>3, <1>4, <1>5

\* What is sent is not more than what is counted, nor that more than a bound.
LEMMA Between ==
    ASSUME NEW a \in Nat, NEW b \in Nat, NEW c \in Nat, NEW d \in Nat, NEW n \in Nat,
           a + b = c, c <= n, n <= d
    PROVE  n \in a..d
  OBVIOUS

\* Rows that are handed on are more of the picture.
LEMMA SendRefines ==
    ASSUME ExportInv, NEW e \in Exports, NEW n \in Nat, n <= Len(cursor[e]), rowCount[e] <= n,
           pc[e] = "streaming", Status' = Status,
           sent' = [sent EXCEPT ![e] = SubSeq(cursor[e], 1, n)],
           UNCHANGED <<rollup, filter, cursor, log>>
    PROVE  Contract!Send(e)
  <1>1. Len(sent[e]) \in Nat /\ Len(buffer[e]) \in Nat /\ rowCount[e] \in Nat
        /\ Len(cursor[e]) \in Nat
    BY StreamTypes DEF ExportInv
  <1>2. Len(sent[e]) + Len(buffer[e]) = rowCount[e]
    BY RowsCounted
  <1>3. n \in Len(sent[e])..Len(cursor[e])
    BY <1>1, <1>2, Between
  <1>4. Status[e] = "open"
    BY DEF Status, StatusOf
  <1> QED BY <1>3, <1>4 DEF Contract!Send, Status

LEMMA WriteRefines ==
    ASSUME ExportInv, NEW e \in Exports, FetchBatch(e) \/ WriteRow(e) \/ Flush(e)
    PROVE  [Contract!Next]_Contract!vars
  <1>1. TypeOK /\ Batches /\ DeliveredInOrder
    BY DEF ExportInv
  <1>2. pc[e] = "streaming"
    BY DEF FetchBatch, WriteRow, Flush
  <1>3. Status' = Status
    <2>1. pc' = pc \/ pc' = [pc EXCEPT ![e] = "flushed"]
      BY DEF FetchBatch, WriteRow, Flush
    <2> QED BY <1>1, <1>2, <2>1 DEF Status, StatusOf, TypeOK
  <1>4. UNCHANGED <<rollup, filter, cursor, log>>
    BY DEF FetchBatch, WriteRow, Flush
  <1>5. CASE sent' = sent
    BY <1>3, <1>4, <1>5, StatusStays
  <1>6. CASE WriteRow(e) /\ sent' # sent
    <2> DEFINE b == Append(buffer[e], cursor[e][rowCount[e] + 1])
    <2>1. sent' = [sent EXCEPT ![e] = sent[e] \o b]
      BY <1>6 DEF WriteRow
    <2>2. rowCount[e] < Len(cursor[e]) /\ sent[e] \o b = SubSeq(cursor[e], 1, rowCount[e] + 1)
      BY <1>1, <1>6, RowWritten
    <2>3. rowCount[e] \in Nat /\ Len(cursor[e]) \in Nat
      BY <1>1, StreamTypes
    <2> HIDE DEF b
    <2>4. PICK n \in Nat : n = rowCount[e] + 1
      BY <2>3
    <2>5. /\ n <= Len(cursor[e]) /\ rowCount[e] <= n
          /\ sent' = [sent EXCEPT ![e] = SubSeq(cursor[e], 1, n)]
      BY <2>1, <2>2, <2>3, <2>4
    <2>6. Contract!Send(e)
      BY <1>2, <1>3, <1>4, <2>5, SendRefines
    <2> QED BY <2>6 DEF Contract!Next
  <1>7. CASE Flush(e)
    <2>1. sent[e] \o buffer[e] = SubSeq(cursor[e], 1, rowCount[e])
      BY <1>1 DEF DeliveredInOrder
    <2>2. rowCount[e] = Len(cursor[e]) /\ sent' = [sent EXCEPT ![e] = sent[e] \o buffer[e]]
      BY <1>7 DEF Flush
    <2>3. PICK n \in Nat : n = rowCount[e]
      BY <1>1, StreamTypes
    <2>4. n <= n /\ n = Len(cursor[e])
      BY <2>2, <2>3
    <2>5. sent' = [sent EXCEPT ![e] = SubSeq(cursor[e], 1, n)]
      BY <2>1, <2>2, <2>3, Zenon
    <2>6. n <= Len(cursor[e]) /\ rowCount[e] <= n
      BY <2>3, <2>4, Zenon
    <2>7. Contract!Send(e)
      BY <1>2, <1>3, <1>4, <2>5, <2>6, SendRefines
    <2> QED BY <2>7 DEF Contract!Next
  <1>8. FetchBatch(e) => sent' = sent
    BY DEF FetchBatch
  <1> QED BY <1>5, <1>6, <1>7, <1>8

\* The end of a stream, as its audit event has it.
LEMMA EndRefines ==
    ASSUME ExportInv, NEW e \in Exports, Complete(e) \/ Break(e)
    PROVE  [Contract!Next]_Contract!vars
  <1>1. TypeOK
    BY DEF ExportInv
  <1>2. /\ Len(sent[e]) \in Nat /\ Len(buffer[e]) \in Nat
        /\ rowCount[e] \in Nat /\ Len(cursor[e]) \in Nat
        /\ Len(sent[e]) + Len(buffer[e]) = rowCount[e]
        /\ rowCount[e] <= Len(cursor[e]) /\ Len(cursor[e]) <= MaxExportRows
        /\ MaxExportRows \in Nat
    BY <1>1, StreamTypes, RowsCounted, SizesAssumption
  <1>3. CASE Complete(e)
    <2>1. pc[e] = "flushed" /\ pc' = [pc EXCEPT ![e] = "done"]
      BY <1>3 DEF Complete
    <2>2. Status[e] = "open" /\ Status' = [Status EXCEPT ![e] = "complete"]
      BY <1>1, <2>1, StatusMoves DEF Status, StatusOf, TypeOK
    <2>3. sent[e] = cursor[e] /\ rowCount[e] = Len(sent[e])
      BY <2>1, WholeCursor
    <2>4. Capped(rowCount[e]) = (Len(sent[e]) = MaxExportRows)
      BY <1>2, <2>3 DEF Capped
    <2>5. AuditEvent(e, Capped(rowCount[e]), TRUE)
          = [rowCount |-> Len(sent[e]), capped |-> Len(sent[e]) = MaxExportRows, completed |-> TRUE]
      BY <2>3, <2>4 DEF AuditEvent
    <2>6. Contract!Finish(e)
      BY <1>3, <2>2, <2>3, <2>5
      DEF Complete, stream, Status, Contract!Finish, Contract!Becomes, Contract!Logged
    <2> QED BY <2>6 DEF Contract!Next
  <1>4. CASE Break(e)
    <2>1. pc[e] \in {"started", "streaming", "flushed"} /\ pc' = [pc EXCEPT ![e] = "broken"]
      BY <1>4 DEF Break, Suspended
    <2>2. Status[e] \in {"accepted", "open"} /\ Status' = [Status EXCEPT ![e] = "broken"]
      BY <1>1, <2>1, StatusMoves DEF Status, StatusOf, TypeOK
    <2>3. rowCount[e] \in Len(sent[e])..Len(cursor[e])
      <3>1. rowCount[e] <= rowCount[e]
        BY <1>2
      <3> QED BY <1>2, <3>1, Between
    <2>4. AuditEvent(e, FALSE, FALSE)
          = [rowCount |-> rowCount[e], capped |-> FALSE, completed |-> FALSE]
      BY DEF AuditEvent
    <2>5. Contract!Break(e)
      BY <1>4, <2>2, <2>3, <2>4
      DEF Break, stream, Status, Contract!Break, Contract!Becomes, Contract!Logged
    <2> QED BY <2>5 DEF Contract!Next
  <1> QED BY <1>3, <1>4

LEMMA ExportRefines == ExportInv /\ [Next]_vars => [Contract!Next]_Contract!vars
  <1> SUFFICES ASSUME ExportInv, [Next]_vars PROVE [Contract!Next]_Contract!vars
    OBVIOUS
  <1>1. TypeOK
    BY DEF ExportInv
  <1>2. ASSUME NEW e \in Exports, OpenCursor(e) PROVE [Contract!Next]_Contract!vars
    <2>1. Status[e] = "accepted" /\ Status' = [Status EXCEPT ![e] = "open"]
      BY <1>1, <1>2, StatusMoves DEF OpenCursor, Status, StatusOf, TypeOK
    <2>2. /\ cursor' = [cursor EXCEPT ![e] = Limited(Listing(e))]
          /\ cursor'[e] = Limited(Listing(e))
      BY <1>1, <1>2 DEF OpenCursor, TypeOK
    <2>3. Contract!Reports(cursor'[e], e)
      BY <1>1, <2>2, CursorReports
    <2>4. Contract!TakePicture(e)
      BY <1>2, <2>1, <2>2, <2>3
      DEF OpenCursor, Status, Contract!TakePicture, Contract!Becomes
    <2> QED BY <2>4 DEF Contract!Next
  <1>3. ASSUME NEW r \in Rows, CountEvent(r) PROVE [Contract!Next]_Contract!vars
    <2>1. Contract!CountEvent(r)
      BY <1>3 DEF CountEvent, Table!CountEvent, stream, Contract!CountEvent, StatusOf
    <2> QED BY <2>1 DEF Contract!Next
  <1>4. CASE UNCHANGED vars
    <2>1. Status' = Status
      BY <1>4 DEF vars, stream, Status, StatusOf
    <2> QED BY <1>4, <2>1, StatusStays DEF vars, stream
  <1> QED BY <1>1, <1>2, <1>3, <1>4, AnswerRefines, WriteRefines, EndRefines DEF Next, Export

\* Seen from outside, an export is a picture of one moment, sent in pieces:
\* the count, the cursor, batches, chunks and the buffer do not show
\* (prepare_export, stream_usage_rollups, stream_export_csv).
THEOREM ContractImplemented == Spec => ImplementsContract
  <1> QED
    BY InitContract, ExportRefines, ExportInvariance, PTL
    DEF Spec, ImplementsContract, Contract!Spec

=============================================================================
