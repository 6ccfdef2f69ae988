--------------------------- MODULE RequestPathProofs ---------------------------
(***************************************************************************)
(* That no path through RequestPath loses a connection or waits for one    *)
(* with another in hand, for any number of requests and any pool.          *)
(***************************************************************************)
EXTENDS RequestPath, TLAPS

\* The states in which a request waits and those in which it has a connection.
LEMMA GrantedFacts ==
    /\ \A p \in Waiting : Granted[p] \in Using /\ Granted[p] # "locked"
    /\ \A p \in Waiting : Granted[p] = "streaming" <=> p = "stream"
    /\ Waiting \cap Using = {}
    /\ Waiting \subseteq PCs /\ Using \subseteq PCs
  <1>1. /\ Granted["lookup"] = "verify" /\ Granted["begin"] = "txn"
        /\ Granted["count"] = "counting" /\ Granted["stream"] = "streaming"
        /\ Granted["ping"] = "pinging" /\ Granted["head"] = "heading"
    BY DEF Granted
  <1> QED
    BY <1>1 DEF Waiting, Using, InTxn, PCs

LEMMA InitPool == Init => PoolInv
  BY RequestAssumption
  DEF Init, PoolInv, TypeOK, Streams, PoolAccounted, RowLocking, Answered, Stamped,
      PCs, Using, InTxn, Statuses

\* Leaving the block returns what the request had and touches nobody else.
LEMMA ReleaseFacts ==
  ASSUME TypeOK, NEW r \in Requests, Release(r)
  PROVE  /\ owner' \in [Connections -> Requests \cup {Nobody}]
         /\ row' \in Requests \cup {Nobody}
         /\ \A c \in Connections : owner'[c] # r
         /\ row' # r
         /\ \A q \in Requests \ {r} :
               /\ \A c \in Connections : owner'[c] = q <=> owner[c] = q
               /\ row' = q <=> row = q
  BY RequestAssumption DEF TypeOK, Release

\* A step of r that changes neither connections nor row keeps the rest.
LEMMA StepKeepsPool ==
  ASSUME PoolInv, NEW r \in Requests, NEW p \in PCs,
         UNCHANGED <<owner, row>>, pc' = [pc EXCEPT ![r] = p],
         pc[r] \in Using <=> p \in Using, pc[r] = "locked" <=> p = "locked"
  PROVE  PoolAccounted' /\ RowLocking'
  BY DEF PoolInv, TypeOK, PoolAccounted, RowLocking

\* Nor does one by which r returns its connection and the row.
LEMMA ReleaseKeepsPool ==
  ASSUME PoolInv, NEW r \in Requests, NEW p \in PCs \ Using,
         Release(r), pc' = [pc EXCEPT ![r] = p]
  PROVE  PoolAccounted' /\ RowLocking' /\ owner' \in [Connections -> Requests \cup {Nobody}]
         /\ row' \in Requests \cup {Nobody}
  <1>1. p # "locked"
    BY DEF Using, InTxn
  <1>2. /\ owner' \in [Connections -> Requests \cup {Nobody}]
        /\ row' \in Requests \cup {Nobody}
        /\ \A c \in Connections : owner'[c] # r
        /\ row' # r
        /\ \A q \in Requests \ {r} :
              /\ \A c \in Connections : owner'[c] = q <=> owner[c] = q
              /\ row' = q <=> row = q
    BY ReleaseFacts DEF PoolInv
  <1>3. \A q \in Requests \ {r} : pc'[q] = pc[q]
    BY DEF PoolInv, TypeOK
  <1>4. pc'[r] = p
    BY DEF PoolInv, TypeOK
  <1>5. RowLocking'
    BY <1>1, <1>2, <1>3, <1>4 DEF PoolInv, RowLocking
  <1>6. PoolAccounted'
    BY <1>2, <1>3, <1>4, RequestAssumption DEF PoolInv, TypeOK, PoolAccounted
  <1> QED
    BY <1>2, <1>5, <1>6

\* A request moves to state p, with or without an answer of its own.
Moves(r, p) ==
    /\ pc' = [pc EXCEPT ![r] = p]
    /\ UNCHANGED kind
    /\ status' \in [Requests -> Statuses]
    /\ stamped' \subseteq Requests
    /\ r \in stamped' <=> status'[r] \notin {0, 500}
    /\ \A q \in Requests \ {r} :
          status'[q] = status[q] /\ (q \in stamped' <=> q \in stamped)

\* Moving keeps what PoolInv says of requests and answers.
LEMMA MoveKeepsAnswers ==
  ASSUME PoolInv, NEW r \in Requests, NEW p \in PCs, Moves(r, p),
         status'[r] # 0 <=> p \in {"stream", "streaming", "done"},
         p \in {"count", "counting", "stream", "streaming"} => kind[r] = "export"
  PROVE  /\ Streams' /\ Answered' /\ Stamped'
         /\ kind' \in [Requests -> {"service", "export", "ready", "live"}]
         /\ pc' \in [Requests -> PCs]
         /\ status' \in [Requests -> Statuses]
         /\ stamped' \subseteq Requests
  <1>1. /\ status' \in [Requests -> Statuses] /\ stamped' \subseteq Requests
        /\ r \in stamped' <=> status'[r] \notin {0, 500}
        /\ \A q \in Requests \ {r} :
              status'[q] = status[q] /\ (q \in stamped' <=> q \in stamped)
    BY DEF Moves, PoolInv, TypeOK
  <1>2. /\ pc' \in [Requests -> PCs] /\ pc'[r] = p /\ kind' = kind
        /\ \A q \in Requests \ {r} : pc'[q] = pc[q]
    BY DEF Moves, PoolInv, TypeOK
  <1> QED
    BY <1>1, <1>2 DEF PoolInv, TypeOK, Streams, Answered, Stamped

\* Where r moves to without the pool, or by returning what it has of it.
LEMMA MoveOutside ==
  ASSUME PoolInv, NEW r \in Requests, NEW p \in PCs, Moves(r, p),
         status'[r] # 0 <=> p \in {"stream", "streaming", "done"},
         p \in {"count", "counting", "stream", "streaming"} => kind[r] = "export",
         \/ UNCHANGED <<owner, row>> /\ pc[r] \notin Using /\ p \notin Using
         \/ Release(r) /\ p \notin Using
  PROVE  PoolInv'
  <1>1. PoolAccounted' /\ RowLocking' /\ owner' \in [Connections -> Requests \cup {Nobody}]
        /\ row' \in Requests \cup {Nobody}
    <2>1. CASE UNCHANGED <<owner, row>> /\ pc[r] \notin Using /\ p \notin Using
      BY <2>1, StepKeepsPool DEF Moves, PoolInv, TypeOK, Using, InTxn
    <2>2. CASE Release(r) /\ p \notin Using
      BY <2>2, ReleaseKeepsPool DEF Moves
    <2> QED
      BY <2>1, <2>2
  <1> QED
    BY <1>1, MoveKeepsAnswers DEF PoolInv, TypeOK

\* An answer is a move to "done".
LEMMA AnswerMoves ==
  ASSUME PoolInv, NEW r \in Requests, NEW s \in Statuses \ {0, 500}, Answer(r, s),
         UNCHANGED kind
  PROVE  Moves(r, "done") /\ status'[r] # 0
  BY DEF Answer, Goto, Send, Moves, PoolInv, TypeOK, Stamped

\* So is a failure.
LEMMA FailMoves ==
  ASSUME PoolInv, NEW r \in Requests, pc[r] \in Waiting \cup Using, Fail(r),
         UNCHANGED kind
  PROVE  Moves(r, "done") /\ status'[r] # 0
  <1>1. 503 \in Statuses \ {0, 500} /\ 500 \in Statuses \ {0}
    BY DEF Statuses
  <1>2. CASE Answer(r, 503)
    BY <1>1, <1>2, AnswerMoves
  <1>3. CASE /\ pc[r] \in {"stream", "streaming"}
             /\ Goto(r, "done")
             /\ UNCHANGED <<status, stamped>>
    BY <1>3 DEF Moves, Goto, PoolInv, TypeOK, Answered, Stamped
  <1>4. CASE pc[r] \notin {"stream", "streaming"} /\ AnswerUnexpected(r)
    <2>1. status[r] = 0
      BY <1>4 DEF PoolInv, Answered, Waiting, Using, InTxn
    <2> QED
      BY <1>1, <1>4, <2>1 DEF AnswerUnexpected, Goto, Moves, PoolInv, TypeOK, Stamped
  <1> QED
    BY <1>2, <1>3, <1>4 DEF Fail

\* Every step of every request keeps the invariant.
LEMMA NextPool == PoolInv /\ [Next]_vars => PoolInv'
  <1> SUFFICES ASSUME PoolInv, [Next]_vars PROVE PoolInv'
    OBVIOUS
  <1>1. CASE UNCHANGED vars
    BY <1>1 DEF vars, PoolInv, TypeOK, PoolAccounted, Streams, RowLocking, Answered, Stamped
  <1>2. ASSUME NEW r \in Requests, Receive(r) PROVE PoolInv'
    <2>1. UNCHANGED <<owner, row, status, stamped>> /\ pc' = [pc EXCEPT ![r] = "edge"]
      BY <1>2 DEF Receive, Goto
    <2>2. pc[r] = "idle" /\ "edge" \in PCs
      BY <1>2 DEF Receive, PCs
    <2>3. PoolAccounted' /\ RowLocking'
      BY <2>1, <2>2, StepKeepsPool DEF Using, InTxn
    <2>4. kind' \in [Requests -> {"service", "export", "ready", "live"}]
          /\ \A q \in Requests \ {r} : kind'[q] = kind[q]
      BY <1>2, RequestAssumption DEF Receive, PoolInv, TypeOK
    <2>5. TypeOK'
      BY <2>1, <2>2, <2>4 DEF PoolInv, TypeOK
    <2>6. Streams' /\ Answered' /\ Stamped'
      BY <2>1, <2>2, <2>4 DEF PoolInv, TypeOK, Streams, Answered, Stamped
    <2> QED
      BY <2>3, <2>5, <2>6 DEF PoolInv
  <1>3. "done" \in PCs \ Using
    BY DEF PCs, Using, InTxn
  <1>4. ASSUME NEW r \in Requests, NEW p \in PCs, Goto(r, p), pc[r] \notin {"stream", "streaming", "done"},
               UNCHANGED <<kind, status, stamped>>
        PROVE  Moves(r, p) /\ status'[r] = 0
    BY <1>4 DEF Goto, Moves, PoolInv, TypeOK, Answered, Stamped
  <1>5. ASSUME NEW r \in Requests, Edge(r) PROVE PoolInv'
    <2>1. pc[r] = "edge" /\ pc[r] \notin Using /\ UNCHANGED <<kind, owner, row>>
      BY <1>5 DEF Edge, Using, InTxn
    <2>2. CASE \E s \in Statuses \ {0, 500} : Answer(r, s)
      BY <1>3, <2>1, <2>2, AnswerMoves, MoveOutside
    <2>3. CASE \E p \in {"ping", "guard"} : Goto(r, p) /\ UNCHANGED <<status, stamped>>
      <3>1. \A p \in {"ping", "guard"} : p \in PCs \ Using
        BY DEF PCs, Using, InTxn, Waiting
      <3> QED
        BY <1>4, <2>1, <2>3, <3>1, MoveOutside
    <2> QED
      BY <1>5, <2>2, <2>3 DEF Edge, Statuses
  <1>6. ASSUME NEW r \in Requests, Guard(r) PROVE PoolInv'
    <2>1. pc[r] = "guard" /\ pc[r] \notin Using /\ UNCHANGED <<kind, owner, row>>
      BY <1>6 DEF Guard, Using, InTxn
    <2>2. CASE Answer(r, 401)
      BY <1>3, <2>1, <2>2, AnswerMoves, MoveOutside DEF Statuses
    <2>3. CASE \E p \in {"throttle", "lookup"} : Goto(r, p) /\ UNCHANGED <<status, stamped>>
      <3>1. \A p \in {"throttle", "lookup"} : p \in PCs \ Using
        BY DEF PCs, Using, InTxn, Waiting
      <3> QED
        BY <1>4, <2>1, <2>3, <3>1, MoveOutside
    <2> QED
      BY <1>6, <2>2, <2>3 DEF Guard
  <1>7. ASSUME NEW r \in Requests, CheckOut(r) PROVE PoolInv'
    <2> DEFINE p == Granted[pc[r]]
    <2>1. /\ pc[r] \in Waiting /\ UNCHANGED <<kind, row, status, stamped>>
          /\ pc' = [pc EXCEPT ![r] = p]
      BY <1>7 DEF CheckOut, Goto
    <2>2. /\ p \in Using /\ p \in PCs /\ p # "locked" /\ pc[r] \notin Using
          /\ p = "streaming" <=> pc[r] = "stream"
      BY <2>1, GrantedFacts
    <2>3. PICK c \in Connections : owner[c] = Nobody /\ owner' = [owner EXCEPT ![c] = r]
      BY <1>7 DEF CheckOut, Free
    <2>4. pc'[r] = p /\ \A q \in Requests \ {r} : pc'[q] = pc[q]
      BY <2>1 DEF PoolInv, TypeOK
    <2>5. TypeOK'
      BY <2>1, <2>2, <2>3 DEF PoolInv, TypeOK
    <2>6. PoolAccounted'
      <3>1. \A d \in Connections : owner[d] # r
        BY <2>2, RequestAssumption DEF PoolInv, PoolAccounted, TypeOK
      <3>2. \A d \in Connections : owner'[d] = IF d = c THEN r ELSE owner[d]
        BY <2>3 DEF PoolInv, TypeOK
      <3>3. \A d \in Connections : owner[d] \in Requests \cup {Nobody}
        BY DEF PoolInv, TypeOK
      <3> QED
        BY <2>2, <2>3, <2>4, <3>1, <3>2, <3>3, RequestAssumption DEF PoolInv, PoolAccounted
    <2>7. RowLocking'
      BY <2>1, <2>2, <2>4, GrantedFacts DEF PoolInv, RowLocking, Using, InTxn
    <2>8. p = "counting" => kind[r] = "export"
      <3>1. p = "counting" => pc[r] = "count"
        BY <2>1 DEF Granted, Waiting
      <3> QED
        BY <3>1 DEF PoolInv, Streams
    <2>9. Streams'
      <3>1. p \in {"count", "counting", "stream", "streaming"} => kind[r] = "export"
        BY <2>2, <2>8, GrantedFacts DEF PoolInv, Streams, Using, InTxn
      <3> QED
        BY <2>1, <2>4, <3>1 DEF PoolInv, Streams
    <2>10. Answered'
      BY <2>1, <2>2, <2>4, GrantedFacts DEF PoolInv, Answered, Waiting, Using, InTxn
    <2>11. Stamped'
      BY <2>1 DEF PoolInv, Stamped
    <2> QED
      BY <2>5, <2>6, <2>7, <2>9, <2>10, <2>11 DEF PoolInv
  <1>8. ASSUME NEW r \in Requests, TimeOut(r) PROVE PoolInv'
    BY <1>3, <1>8, FailMoves, GrantedFacts, MoveOutside DEF TimeOut
  <1>9. ASSUME NEW r \in Requests, Break(r) PROVE PoolInv'
    BY <1>3, <1>9, FailMoves, MoveOutside DEF Break
  <1>10. ASSUME NEW r \in Requests, Verify(r) PROVE PoolInv'
    <2>1. pc[r] = "verify" /\ Release(r) /\ UNCHANGED kind
      BY <1>10 DEF Verify
    <2>2. CASE Answer(r, 401)
      BY <1>3, <2>1, <2>2, AnswerMoves, MoveOutside DEF Statuses
    <2>3. CASE Goto(r, "throttle") /\ UNCHANGED <<status, stamped>>
      BY <1>4, <2>1, <2>3, MoveOutside DEF PCs, Using, InTxn
    <2> QED
      BY <1>10, <2>2, <2>3 DEF Verify
  <1>11. ASSUME NEW r \in Requests, Throttle(r) PROVE PoolInv'
    <2>1. pc[r] = "throttle" /\ pc[r] \notin Using /\ UNCHANGED <<kind, owner, row>>
      BY <1>11 DEF Throttle, Using, InTxn
    <2>2. CASE \E s \in Statuses \ {0, 500} : Answer(r, s)
      BY <1>3, <2>1, <2>2, AnswerMoves, MoveOutside
    <2>3. CASE kind[r] = "export" /\ Goto(r, "count") /\ UNCHANGED <<status, stamped>>
      BY <1>4, <2>1, <2>3, MoveOutside DEF PCs, Using, InTxn, Waiting
    <2>4. CASE Goto(r, "begin") /\ UNCHANGED <<status, stamped>>
      BY <1>4, <2>1, <2>4, MoveOutside DEF PCs, Using, InTxn, Waiting
    <2> QED
      BY <1>11, <2>2, <2>3, <2>4 DEF Throttle, Statuses
  <1>12. ASSUME NEW r \in Requests, NeedRow(r) PROVE PoolInv'
    <2>1. /\ pc[r] = "txn" /\ UNCHANGED <<kind, owner, row, status, stamped>>
          /\ pc' = [pc EXCEPT ![r] = "rowWait"]
      BY <1>12 DEF NeedRow, Goto
    <2>2. "rowWait" \in PCs /\ "rowWait" \in Using /\ "txn" \in Using
      BY DEF PCs, Using, InTxn
    <2>3. PoolAccounted' /\ RowLocking'
      BY <2>1, <2>2, StepKeepsPool
    <2> QED
      BY <2>1, <2>2, <2>3 DEF PoolInv, TypeOK, Streams, Answered, Stamped
  <1>13. ASSUME NEW r \in Requests, LockRow(r) PROVE PoolInv'
    <2>1. /\ pc[r] = "rowWait" /\ UNCHANGED <<kind, owner, status, stamped>>
          /\ pc' = [pc EXCEPT ![r] = "locked"] /\ row = Nobody /\ row' = r
      BY <1>13 DEF LockRow, Goto
    <2>2. "locked" \in PCs /\ "locked" \in Using /\ "rowWait" \in Using
      BY DEF PCs, Using, InTxn
    <2>3. PoolAccounted'
      BY <2>1, <2>2 DEF PoolInv, TypeOK, PoolAccounted
    <2>4. RowLocking'
      BY <2>1, RequestAssumption DEF PoolInv, TypeOK, RowLocking
    <2> QED
      BY <2>1, <2>2, <2>3, <2>4 DEF PoolInv, TypeOK, Streams, Answered, Stamped
  <1>14. ASSUME NEW r \in Requests, EndTxn(r) PROVE PoolInv'
    BY <1>3, <1>14, AnswerMoves, MoveOutside DEF EndTxn, Statuses
  <1>15. ASSUME NEW r \in Requests, Preflight(r) PROVE PoolInv'
    <2>1. pc[r] = "counting" /\ Release(r) /\ UNCHANGED kind
      BY <1>15 DEF Preflight
    <2>2. CASE Answer(r, 422)
      BY <1>3, <2>1, <2>2, AnswerMoves, MoveOutside DEF Statuses
    <2>3. CASE Goto(r, "stream") /\ Send(r, 200)
      <3>1. Moves(r, "stream") /\ status'[r] # 0
        BY <2>1, <2>3 DEF Moves, Goto, Send, PoolInv, TypeOK, Statuses, Stamped
      <3>2. kind[r] = "export"
        BY <2>1 DEF PoolInv, Streams
      <3>3. "stream" \in PCs \ Using
        BY DEF PCs, Waiting, Using, InTxn
      <3> QED
        BY <2>1, <3>1, <3>2, <3>3, MoveOutside
    <2> QED
      BY <1>15, <2>2, <2>3 DEF Preflight
  <1>16. ASSUME NEW r \in Requests, Streamed(r) PROVE PoolInv'
    <2>1. /\ pc[r] = "streaming" /\ Release(r) /\ Goto(r, "done")
          /\ UNCHANGED <<kind, status, stamped>>
      BY <1>16 DEF Streamed
    <2>2. Moves(r, "done") /\ status'[r] # 0
      BY <2>1 DEF Moves, Goto, PoolInv, TypeOK, Answered, Stamped
    <2> QED
      BY <1>3, <2>1, <2>2, MoveOutside
  <1>17. ASSUME NEW r \in Requests, Ping(r) PROVE PoolInv'
    BY <1>4, <1>17, MoveOutside DEF Ping, PCs, Waiting, Using, InTxn
  <1>18. ASSUME NEW r \in Requests, CompareHead(r) PROVE PoolInv'
    BY <1>3, <1>18, AnswerMoves, MoveOutside DEF CompareHead, Statuses
  <1> QED
    BY <1>1, <1>2, <1>5, <1>6, <1>7, <1>8, <1>9, <1>10, <1>11, <1>12, <1>13,
       <1>14, <1>15, <1>16, <1>17, <1>18 DEF Next, Step

\* A status line that is out is not touched by any step.
LEMMA StatusStays ==
  ASSUME PoolInv, [Next]_vars, NEW q \in Requests, status[q] # 0
  PROVE  status'[q] = status[q]
  <1>1. pc[q] \in {"stream", "streaming", "done"}
    BY DEF PoolInv, Answered
  <1>2. ASSUME NEW r \in Requests, r # q,
               Receive(r) \/ Step(r) \/ Streamed(r) \/ Break(r)
        PROVE  status'[q] = status[q]
    BY <1>2
    DEF PoolInv, TypeOK, Receive, Step, Edge, Guard, CheckOut, TimeOut, Verify,
        Throttle, NeedRow, LockRow, EndTxn, Preflight, Ping, CompareHead,
        Streamed, Break, Fail, Answer, AnswerUnexpected, Send
  <1>3. CASE Receive(q) \/ Step(q) \/ Streamed(q) \/ Break(q)
    <2>1. kind[q] # "ready" \/ pc[q] = "done"
      BY <1>1 DEF PoolInv, Streams
    <2>2. CheckOut(q) \/ TimeOut(q) \/ Streamed(q) \/ Break(q)
      BY <1>1, <1>3
      DEF Receive, Step, Edge, Guard, Verify, Throttle, NeedRow, LockRow,
          EndTxn, Preflight, Ping, CompareHead
    <2>3. pc[q] # "done"
      BY <2>2 DEF CheckOut, TimeOut, Streamed, Break, Waiting, Using, InTxn
    <2> QED
      BY <1>1, <2>1, <2>2, <2>3 DEF CheckOut, TimeOut, Streamed, Break, Fail
  <1>4. CASE UNCHANGED vars
    BY <1>4 DEF vars
  <1> QED
    BY <1>2, <1>3, <1>4 DEF Next

-----------------------------------------------------------------------------
\* The inductive invariant holds in every reachable state.
THEOREM PoolInvariance == Spec => []PoolInv
  BY InitPool, NextPool, PTL DEF Spec

\* No path of any request leaks a connection or takes a second one.
THEOREM NoConnectionLost == Spec => []PoolAccounted
  BY PoolInvariance, PTL DEF PoolInv

\* Nobody waits for a connection while holding one or the row, and the row's
\* holder can go on: no cycle of waiting between pool and row locks.
THEOREM PoolDeadlockFree == Spec => []NoHoldAndWait
  <1>1. PoolInv => NoHoldAndWait
    BY RequestAssumption
    DEF PoolInv, TypeOK, PoolAccounted, RowLocking, NoHoldAndWait, Waiting,
        Using, InTxn
  <1> QED
    BY <1>1, PoolInvariance, PTL

\* One status line per request, whatever fails and when.
THEOREM OneAnswer == Spec => AnsweredOnce
  <1>1. PoolInv /\ [Next]_vars =>
          [\A r \in Requests : status[r] # 0 => status'[r] = status[r]]_vars
    BY StatusStays
  <1>2. PoolInv /\ [Next]_vars =>
          [\A r \in Requests : pc'[r] = "done" => status'[r] # 0]_vars
    BY NextPool DEF PoolInv, Answered
  <1> QED
    BY <1>1, <1>2, PoolInvariance, PTL DEF Spec, AnsweredOnce

\* How far a request has come, whichever way it goes.
Progress ==
    [idle |-> 0, edge |-> 1, guard |-> 2, ping |-> 2, lookup |-> 3, pinging |-> 3,
     verify |-> 4, head |-> 4, throttle |-> 5, heading |-> 5, begin |-> 6, count |-> 6,
     txn |-> 7, counting |-> 7, rowWait |-> 8, stream |-> 8, locked |-> 9,
     streaming |-> 9, done |-> 10]

\* A request only goes forward, a step of its own at a time (post_event to
\* the answer, stream_export_csv to its end): no retry, failure or return of
\* a connection takes it, or anybody else, back.  So it takes at most ten
\* steps, and with PoolDeadlockFree there is always one to take, unless all
\* that is left are streams whose clients have stopped reading.
THEOREM StepsAdvance ==
  Spec => [][ \E r \in Requests :
                 /\ Progress[pc[r]] < Progress[pc'[r]]
                 /\ \A q \in Requests \ {r} : pc'[q] = pc[q] ]_vars
  <1>1. ASSUME PoolInv, NEW r \in Requests,
               Receive(r) \/ Step(r) \/ Streamed(r) \/ Break(r)
        PROVE  \E p \in PCs : pc' = [pc EXCEPT ![r] = p] /\ Progress[pc[r]] < Progress[p]
    <2>1. CASE Receive(r) \/ Edge(r) \/ Guard(r) \/ Verify(r)
      BY <2>1
      DEF Receive, Edge, Guard, Verify, Answer, Goto, Progress, PCs, Waiting
    <2>2. CASE CheckOut(r)
      <3>1. /\ Granted["lookup"] = "verify" /\ Granted["begin"] = "txn"
            /\ Granted["count"] = "counting" /\ Granted["stream"] = "streaming"
            /\ Granted["ping"] = "pinging" /\ Granted["head"] = "heading"
        BY DEF Granted
      <3>2. \A p \in Waiting : Granted[p] \in PCs /\ Progress[p] < Progress[Granted[p]]
        BY <3>1 DEF Waiting, Progress, PCs, Using, InTxn
      <3> QED
        BY <2>2, <3>2 DEF CheckOut, Goto
    <2>3. CASE Throttle(r) \/ NeedRow(r) \/ LockRow(r) \/ EndTxn(r) \/ Preflight(r)
      BY <2>3
      DEF Throttle, NeedRow, LockRow, EndTxn, Preflight, Answer, Goto, Progress,
          PCs, Waiting, Using, InTxn
    <2>4. CASE Ping(r) \/ CompareHead(r) \/ Streamed(r)
      BY <2>4
      DEF Ping, CompareHead, Streamed, Answer, Goto, Progress, PCs, Waiting, Using, InTxn
    <2>5. CASE TimeOut(r) \/ Break(r)
      BY <2>5
      DEF TimeOut, Break, Fail, Answer, AnswerUnexpected, Goto, Progress, PCs,
          Waiting, Using, InTxn
    <2> QED
      BY <1>1, <2>1, <2>2, <2>3, <2>4, <2>5 DEF Step
  <1>2. ASSUME PoolInv, Next
        PROVE  \E r \in Requests : /\ Progress[pc[r]] < Progress[pc'[r]]
                                   /\ \A q \in Requests \ {r} : pc'[q] = pc[q]
    BY <1>1, <1>2 DEF Next, PoolInv, TypeOK
  <1>3. PoolInv /\ [Next]_vars =>
          [ \E r \in Requests : /\ Progress[pc[r]] < Progress[pc'[r]]
                                /\ \A q \in Requests \ {r} : pc'[q] = pc[q] ]_vars
    BY <1>2
  <1> QED
    BY <1>3, PoolInvariance, PTL DEF Spec

=============================================================================
