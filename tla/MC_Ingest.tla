----------------------------- MODULE MC_Ingest -----------------------------
EXTENDS IngestBatch
CONSTANTS f1, f2, f3
=============================================================================
