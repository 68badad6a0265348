----------------------------- MODULE MCKeyQueue -----------------------------
EXTENDS KeyQueue
=============================================================================
