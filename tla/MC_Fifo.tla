------------------------------- MODULE MC_Fifo -------------------------------
EXTENDS Fifo

\* Uninitialized memory: zeros, or what was there before.
MC_Garbage == {0, 2}
=============================================================================
