---------------------------- MODULE MCUsageReads ----------------------------
(***************************************************************************)
(* A small instance of UsageReads for TLC.                                 *)
(***************************************************************************)
EXTENDS UsageReads, TLC

\* POSTs are only compared for equality.
Symmetric == Permutations(Posts)

\* The first customer has a quota of one event an hour, the second has none.
OneQuota ==
    [s \in Customers \X Metrics |-> IF s[1] = CHOOSE c \in Customers : TRUE THEN 1 ELSE NoLimit]
=============================================================================
