---------------------------- MODULE MCRequestPath -----------------------------
(***************************************************************************)
(* RequestPath for TLC: more requests than connections.                    *)
(***************************************************************************)
EXTENDS RequestPath

=============================================================================
