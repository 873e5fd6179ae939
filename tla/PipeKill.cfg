CONSTANTS
  Writers = {w1, w2}
  Readers = {r1}
  NoProc = NoProc
  Bytes = {0}
  PIPESIZE = 2
  UINT = 4
  Sizes = {2}
  Killable = {w1}
SPECIFICATION Spec
INVARIANTS
  ReaderSleepsOnEmpty
