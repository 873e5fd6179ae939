------------------------------ MODULE MCBcache ------------------------------
EXTENDS Bcache, TLC

Symmetry == Permutations(Procs) \cup Permutations(Blocks)
=============================================================================
