CONSTANTS
  Procs = {p1, p2, p3}
  Bufs = {b1, b2, b3}
  Blocks = {k1, k2, k3}
  Vals = {0}
  Nil = Nil
  NUM = 7
  UINT16 = 7
SYMMETRY Symmetry
SPECIFICATION DriverSpec
INVARIANTS
  
  CompletionSignalled
  DescSleepersMustWait
