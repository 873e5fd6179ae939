CONSTANTS
  NPROC = 3
  CPUS = {c1, c2}
  NoCpu = NoCpu
  MaxPid = 3
  InitCalls = {"fork", "wait"}
  UserCalls = {"fork", "exit"}
  KillArgs = {}
  InfoCallers = {1}
SPECIFICATION InfoSpec
SYMMETRY CpuSymmetry
INVARIANTS
  SteadyListedOnce
  SteadyParent
