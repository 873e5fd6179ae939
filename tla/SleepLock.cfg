CONSTANTS
  NPROC = 3
  CPUS = {c1, c2}
  NoCpu = NoCpu
SPECIFICATION FairSpec
INVARIANTS
  SchedNeverPanics
  NoSleeperOnFreeLock
PROPERTIES
  ImplementsMutex
  SleeperWakes
