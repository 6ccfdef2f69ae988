------------------------------ MODULE UsageTable ------------------------------
(***************************************************************************)
(* The usage_rollup table as its readers see it: rows that a commit of     *)
(* POST /v1/events adds to, one at a time, and that nothing else changes.  *)
(* EventIngest, where the commits are, implements it; UsageExport and      *)
(* UsageReads, where reads meet those commits, take their commits from it. *)
(***************************************************************************)
EXTENDS Naturals

CONSTANTS
    Rows,    \* primary keys of usage_rollup
    Amounts  \* what one commit may add to a row

VARIABLE
    usage    \* the total, or the count, of every row; 0 for no row

Init == usage \in [Rows -> Nat]

CountEvent(r) == \E a \in Amounts : usage' = [usage EXCEPT ![r] = @ + a]

Next == \E r \in Rows : CountEvent(r)

Spec == Init /\ [][Next]_usage
=============================================================================
