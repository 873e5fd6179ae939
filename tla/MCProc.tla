------------------------------- MODULE MCProc -------------------------------
EXTENDS Proc, TLC
CpuSymmetry == Permutations(CPUS)
=============================================================================
