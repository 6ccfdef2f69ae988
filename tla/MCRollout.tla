------------------------------ MODULE MCRollout ------------------------------
(***************************************************************************)
(* A small instance of Rollout for TLC.                                    *)
(***************************************************************************)
EXTENDS Rollout

\* Every image but the first has the migration the second one brings.
OneMigration == [v \in Versions |-> IF v = 0 THEN 0 ELSE 1]
=============================================================================
