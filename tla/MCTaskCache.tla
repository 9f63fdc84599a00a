----------------------------- MODULE MCTaskCache -----------------------------
EXTENDS TaskCache
=============================================================================
