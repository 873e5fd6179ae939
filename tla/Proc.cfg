CONSTANTS
  NPROC = 3
  CPUS = {c1, c2}
  NoCpu = NoCpu
  MaxPid = 3
  InitCalls = {"fork", "wait"}
  UserCalls = {"fork", "wait", "exit", "kill"}
  KillArgs = {0, 2}
SPECIFICATION Spec
SYMMETRY CpuSymmetry
INVARIANTS
  FreeLockMeansOffCpu
  NoSpinDeadlock
  NoZombieForSleeper
  ParentAlive
  ForkKeepsChild
