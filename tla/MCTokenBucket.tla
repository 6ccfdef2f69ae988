---------------------------- MODULE MCTokenBucket ----------------------------
(***************************************************************************)
(* Small instances of TokenBucket for TLC.                                 *)
(***************************************************************************)
EXTENDS TokenBucket, TLC

\* Handlers are only compared for equality.
Symmetric == Permutations(Handlers)
=============================================================================
