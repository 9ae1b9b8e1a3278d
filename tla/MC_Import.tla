------------------------------ MODULE MC_Import ------------------------------
EXTENDS ImportJob
\* Two imports that share one key.
MCRowsOf == [j1 |-> {1, 2}, j2 |-> {2, 3}]
=============================================================================
