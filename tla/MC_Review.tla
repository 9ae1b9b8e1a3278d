----------------------------- MODULE MC_Review -----------------------------
EXTENDS ReviewQueue, TLC
CONSTANTS s1, s2, r1, r2, i1, i2, d1
\* Both items are about the same ingestion.
SameDoc == (i1 :> d1) @@ (i2 :> d1)
=============================================================================
