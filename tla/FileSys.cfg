SPECIFICATION Spec
SYMMETRY MCSymmetry
CONSTANTS
  NBLOCKS = 12
  BSIZE = 2
  NDIRECT = 1
  NINDIRECT = 2
  Procs = {p1, p2}
  p1 = p1
  p2 = p2
  NINODES = 5
  NFILE = 2
  NOFILE = 2
  NDEV = 1
  MAXWRITE = 2
  Calls <- MCCalls
  Writes = {3}
  Images <- MCImages
  MaxCalls = 3
INVARIANTS
  UnlinkedFreed
  LinksCounted
  
  BlocksOwned
  
  FreeingNeverWaits
  SizeMapped
