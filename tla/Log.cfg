CONSTANTS
  Procs = {p1, p2, p3}
  Blocks = {b1, b2}
  Vals = {0, 1}
  NoBuf = NoBuf
  MAXOPBLOCKS = 2
  LOGSIZE = 4
  NLOG = 5
  OpWrites = 2
SPECIFICATION Spec
INVARIANTS
  
  PinnedWhileDirty
  SleepersMustWait
PROPERTIES
  ImplementsAtomicDisk
