---------------------------- MODULE MCEventIngest ----------------------------
(***************************************************************************)
(* Small instances of EventIngest for TLC.                                 *)
(***************************************************************************)
EXTENDS EventIngest, TLC

\* Requests and idempotency keys are only compared for equality.
Symmetric == Permutations(Requests) \cup Permutations(IdemKeys)
=============================================================================
