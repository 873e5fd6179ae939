CONSTANTS
  Procs = {p1, p2}
  Bufs = {b1, b2}
  Blocks = {k1, k2, k3}
  Vals = {0, 1}
  Nil = Nil
  NUM = 4
  UINT16 = 4
SYMMETRY Symmetry
SPECIFICATION Spec

  
PROPERTIES
  ImplementsBlockCache
