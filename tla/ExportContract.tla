--------------------------- MODULE ExportContract ----------------------------
(***************************************************************************)
(* What GET /v1/usage/export promises, without count queries, cursors,     *)
(* batches, chunks or buffers: an export that is not refused reports the   *)
(* usage of one moment after it was asked for, in order and up to the cap, *)
(* a piece at a time, and its audit event says complete only of the whole. *)
(***************************************************************************)
EXTENDS Integers, Sequences, FiniteSets

CONSTANTS
    Exports,       \* export requests
    Rows,          \* primary keys of usage_rollup, numbered as they are sorted
    Amounts,       \* what may be added to a row at once
    Filters,       \* the sets of rows that may be asked for
    MaxExportRows  \* the cap

VARIABLES
    usage,   \* the total of every row, 0 for no row
    status,  \* what has become of each export
    want,    \* the rows it asks for
    picture, \* the usage it reports, as of one moment
    body,    \* the rows it has sent
    log      \* its audit events

vars == <<usage, status, want, picture, body, log>>

Init ==
    /\ usage \in [Rows -> Nat]
    /\ status = [e \in Exports |-> "none"]
    /\ want = [e \in Exports |-> {}]
    /\ picture = [e \in Exports |-> <<>>]
    /\ body = [e \in Exports |-> <<>>]
    /\ log = [e \in Exports |-> <<>>]

Wanted(e) == {r \in want[e] : usage[r] > 0}

\* p reports the usage that e asks for as it stands: each row once, in order,
\* with its total, and the first of them if there are more than the cap.
Reports(p, e) ==
    /\ Len(p) <= MaxExportRows
    /\ \A i \in 1..Len(p) : p[i].row \in Wanted(e) /\ p[i].total = usage[p[i].row]
    /\ \A i, j \in 1..Len(p) : i < j => p[i].row < p[j].row
    /\ \A r \in Wanted(e) :
          \/ \E i \in 1..Len(p) : p[i].row = r
          \/ Len(p) = MaxExportRows /\ \A i \in 1..Len(p) : p[i].row < r

Becomes(e, from, to) ==
    /\ status[e] \in from
    /\ status' = [status EXCEPT ![e] = to]

Ask(e) ==
    /\ Becomes(e, {"none"}, "asked")
    /\ \E f \in Filters : want' = [want EXCEPT ![e] = f]
    /\ UNCHANGED <<usage, picture, body, log>>

\* The 422 is right when it is sent; after the 200 there is none.
Refuse(e) ==
    /\ Becomes(e, {"asked"}, "refused")
    /\ Cardinality(Wanted(e)) > MaxExportRows
    /\ UNCHANGED <<usage, want, picture, body, log>>

Accept(e) ==
    /\ Becomes(e, {"asked"}, "accepted")
    /\ Cardinality(Wanted(e)) <= MaxExportRows
    /\ UNCHANGED <<usage, want, picture, body, log>>

Fail(e) ==
    /\ Becomes(e, {"asked"}, "failed")
    /\ UNCHANGED <<usage, want, picture, body, log>>

Leave(e) ==
    /\ Becomes(e, {"accepted"}, "gone")
    /\ UNCHANGED <<usage, want, picture, body, log>>

\* The moment whose usage is reported.
TakePicture(e) ==
    /\ Becomes(e, {"accepted"}, "open")
    /\ Reports(picture'[e], e)
    /\ picture' = [picture EXCEPT ![e] = picture'[e]]
    /\ UNCHANGED <<usage, want, body, log>>

\* More of the picture is sent, whatever has been counted since.
Send(e) ==
    /\ status[e] = "open"
    /\ \E n \in Len(body[e])..Len(picture[e]) :
          body' = [body EXCEPT ![e] = SubSeq(picture[e], 1, n)]
    /\ UNCHANGED <<usage, status, want, picture, log>>

Logged(e, n, capped, completed) ==
    log' = [log EXCEPT ![e] =
               Append(@, [rowCount |-> n, capped |-> capped, completed |-> completed])]

Finish(e) ==
    /\ Becomes(e, {"open"}, "complete")
    /\ body[e] = picture[e]
    /\ Logged(e, Len(body[e]), Len(body[e]) = MaxExportRows, TRUE)
    /\ UNCHANGED <<usage, want, picture, body>>

\* The stream breaks off; its event never counts fewer rows than were sent.
Break(e) ==
    /\ Becomes(e, {"accepted", "open"}, "broken")
    /\ \E n \in Len(body[e])..Len(picture[e]) : Logged(e, n, FALSE, FALSE)
    /\ UNCHANGED <<usage, want, picture, body>>

CountEvent(r) ==
    /\ \E a \in Amounts : usage' = [usage EXCEPT ![r] = @ + a]
    /\ UNCHANGED <<status, want, picture, body, log>>

Next ==
    \/ \E e \in Exports : \/ Ask(e) \/ Refuse(e) \/ Accept(e) \/ Fail(e) \/ Leave(e)
                          \/ TakePicture(e) \/ Send(e) \/ Finish(e) \/ Break(e)
    \/ \E r \in Rows : CountEvent(r)

Spec == Init /\ [][Next]_vars
=============================================================================
