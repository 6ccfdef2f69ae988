----------------------------- MODULE MCAuthCache ------------------------------
\* Small instances of AuthCache for TLC.
EXTENDS AuthCache, TLC

\* Requests are interchangeable, and so are tasks and keys.
Symmetric == Permutations(Requests) \cup Permutations(Tasks) \cup Permutations(Keys)

=============================================================================
