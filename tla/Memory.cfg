SPECIFICATION Spec
CONSTANTS
  Procs = {1, 2, 3, 4, 5, 6}
  Memories <- MCMemories
  First <- MCFirst
  PGSIZE = 2
  RADIX = 2
  TRAPFRAME = 256
  UINT = 512
  Sbrks <- MCSbrks
  Files <- MCFiles
  Argvs <- MCArgvs
  Lines <- MCLines
  MaxSpent = 7
  Units = {1, 2}
  MINCORE = 2
  MAXARGS = 4
INVARIANTS
  PagesConserved
  SizeIsMapped
  HeapSound
  ParserInverts
  WaitsForItsCommand
