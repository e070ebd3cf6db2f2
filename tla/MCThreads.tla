----------------------------- MODULE MCThreads ------------------------------
EXTENDS Threads, TLC
Symmetric == Permutations(Procs)
=============================================================================
