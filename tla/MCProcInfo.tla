----------------------------- MODULE MCProcInfo -----------------------------
EXTENDS ProcInfo, TLC
CpuSymmetry == Permutations(CPUS)
=============================================================================
