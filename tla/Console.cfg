SPECIFICATION Spec
CONSTANTS
  Procs = {p1, p2}
  INPUT_BUF = 2
  UART_TX_BUF_SIZE = 2
  UINT = 4
  Reads = {1, 3}
  Writes = {2, 4}
  RXFIFO = 2
  MaxSpent = 5
SYMMETRY MCSymmetry
INVARIANTS
  ReaderSleepsOnEmpty
  OutputInOrder
  OutputMoves
PROPERTY ImplementsLineInput
CHECK_DEADLOCK FALSE
