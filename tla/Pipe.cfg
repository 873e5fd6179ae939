CONSTANTS
  Writers = {w1, w2}
  Readers = {r1}
  NoProc = NoProc
  Bytes = {0, 1}
  PIPESIZE = 2
  UINT = 4
  Sizes = {1, 3}
  Killable = {r1}
SPECIFICATION FairSpec
INVARIANTS
  ReaderSleepsOnEmpty
  NoUseAfterFree
PROPERTIES
  ImplementsChannel
  FullPipeDrains
