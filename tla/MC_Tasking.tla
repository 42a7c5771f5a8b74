----------------------------- MODULE MC_Tasking -----------------------------
EXTENDS Tasking
=============================================================================
