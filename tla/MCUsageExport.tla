---------------------------- MODULE MCUsageExport -----------------------------
\* Small instances of UsageExport for TLC.
EXTENDS UsageExport

\* Two filters: everything, and everything from the second row on.
AllOrLater == {Rows, Rows \ {1}}

=============================================================================
