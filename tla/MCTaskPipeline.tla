---------------------------- MODULE MCTaskPipeline ----------------------------
EXTENDS TaskPipeline
=============================================================================
