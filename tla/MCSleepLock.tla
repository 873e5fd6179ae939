---------------------------- MODULE MCSleepLock ----------------------------
EXTENDS SleepLock, TLC
CpuSymmetry == Permutations(CPUS)
=============================================================================
