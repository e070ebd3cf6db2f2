---------------------------- MODULE MCTaskFiles -----------------------------
EXTENDS TaskFiles, TLC
Symmetric == Permutations(Procs) \union Permutations(Inodes) \union Permutations(Sessions)
=============================================================================
