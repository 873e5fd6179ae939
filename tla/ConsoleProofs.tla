--------------------------- MODULE ConsoleProofs ---------------------------
(***************************************************************************)
(* The console of module Console for any number of processes and any sizes *)
(* of its buffers: no reader is left asleep over input, output never stops *)
(* while characters wait or a writer sleeps and leaves in order, and the   *)
(* input buffer implements LineInput.                                      *)
(***************************************************************************)
EXTENDS Console, SequenceTheorems, TLAPS

Pcs == {"user", "rwake", "read", "rsleep", "write", "wsleep", "put"}

\* What the proofs need of the types: the input buffer does not matter.
Types ==
  /\ tx_r \in Int /\ tx_w \in Int
  /\ start \in {"none", "loop", "thr"}
  /\ handler \in {"none", "get", "echo", "thr", "start"}
  /\ thr \in Seq(Int) /\ inhand \in Int
  /\ tx_buf \in [0..(UART_TX_BUF_SIZE - 1) -> Int]
  /\ pc \in [Procs -> Pcs]

\* The handler waits for the uartstart() that it has called.
StartInv == handler = "start" => start # "none" /\ caller = Handler

\* A writer sleeps only while the buffer is full: uartstart() wakes all of them
\* with every character it takes.
WriterSleepsOnFull == \A p \in Procs : pc[p] = "wsleep" => TxFull

IInv == Types /\ StartInv /\ WriterSleepsOnFull /\ ReaderSleepsOnEmpty /\ OutputMoves

\* The console starts with nobody asleep and nothing to send.
LEMMA InitEstablishes == Init => IInv
  BY ConsoleAssumption
  DEF Init, IInv, Types, Pcs, StartInv, WriterSleepsOnFull, ReaderSleepsOnEmpty, OutputMoves, InTx

\* The device sends its last character only with an interrupt.
LEMMA DevicePreserves ==
  ASSUME IInv, DeviceReceive \/ DeviceSend
  PROVE  IInv'
<1> USE DEF IInv, InTx, TxFull, consVars, txVars, startVars, intrVars, procVars
<1>1. Types'
  <2>1. CASE DeviceReceive
    BY <2>1, Zenon DEF Types, DeviceReceive
  <2>2. CASE DeviceSend
    <3>1. Tail(thr) \in Seq(Int)
      BY <2>2, HeadTailProperties, Zenon DEF Types, DeviceSend
    <3> QED BY <2>2, <3>1, Zenon DEF Types, DeviceSend
  <2> QED BY <2>1, <2>2, Zenon
<1>2. StartInv' /\ WriterSleepsOnFull' /\ ReaderSleepsOnEmpty'
  BY Zenon DEF DeviceReceive, DeviceSend, StartInv, WriterSleepsOnFull, ReaderSleepsOnEmpty
<1>3. OutputMoves'
  <2>1. CASE DeviceReceive
    BY <2>1, Zenon DEF DeviceReceive, OutputMoves
  <2>2. CASE DeviceSend
    <3>1. thr \in Seq(Int) /\ thr # <<>>
      BY <2>2, Zenon DEF DeviceSend, Types
    <3>2. Len(Tail(thr)) = Len(thr) - 1 /\ Len(thr) \in Nat
      BY <3>1, HeadTailProperties, LenProperties, Zenon
    <3>3. Len(thr) = 1 \/ Tail(thr) # <<>>
      <4>1. Tail(thr) = <<>> => Len(Tail(thr)) = 0
        BY EmptySeq, Zenon
      <4> QED BY <3>2, <4>1
    <3> QED BY <2>2, <3>3, Zenon DEF DeviceSend, OutputMoves
  <2> QED BY <2>1, <2>2, Zenon
<1> QED BY <1>1, <1>2, <1>3, Zenon

\* uartstart() returns only with an empty buffer or a busy device.
LEMMA StartPreserves ==
  ASSUME IInv, StartReturn \/ StartTake \/ StartSend
  PROVE  IInv'
<1> USE ConsoleAssumption
    DEF IInv, InTx, TxFull, Started, WakeWriters, Pcs, consVars, txVars, startVars, intrVars, procVars, uartVars
<1>1. Types'
  <2>1. CASE StartReturn
    BY <2>1, Zenon DEF Types, StartReturn
  <2>2. CASE StartTake
    <3>1. tx_r % UART_TX_BUF_SIZE \in 0..(UART_TX_BUF_SIZE - 1)
      BY DEF Types
    <3> QED BY <2>2, <3>1 DEF Types, StartTake
  <2>3. CASE StartSend
    BY <2>3 DEF Types, StartSend
  <2> QED BY <2>1, <2>2, <2>3, Zenon
<1>2. StartInv'
  BY Zenon DEF Types, StartInv, StartReturn, StartTake, StartSend
<1>3. WriterSleepsOnFull' /\ ReaderSleepsOnEmpty'
  BY Zenon DEF Types, WriterSleepsOnFull, ReaderSleepsOnEmpty, StartReturn, StartTake, StartSend
<1>4. OutputMoves'
  <2>1. CASE StartReturn
    <3>1. InTx # 0 \/ \A p \in Procs : pc'[p] # "wsleep"
      BY <2>1, Zenon DEF StartReturn, WriterSleepsOnFull, Types
    <3> QED BY <2>1, <3>1, Zenon DEF StartReturn, OutputMoves
  <2>2. CASE StartTake \/ StartSend
    BY <2>2, Zenon DEF StartTake, StartSend, OutputMoves, Types
  <2> QED BY <2>1, <2>2, Zenon
<1> QED BY <1>1, <1>2, <1>3, <1>4, Zenon

\* The interrupt handler always comes to uartstart(), and wakes all readers
\* when it hands them a line.
LEMMA IntrPreserves ==
  ASSUME IInv,
         IntrClaim \/ IntrGet \/ IntrEcho \/ IntrErase \/ IntrStore \/ IntrStart
  PROVE  IInv'
<1> USE DEF IInv, InTx, TxFull, Started, WakeReaders, Pcs,
            consVars, txVars, startVars, intrVars, procVars, uartVars
<1>1. Types'
  <2>1. thr' \in Seq(Int)
    <3>1. Append(thr, 0) \in Seq(Int)
      BY AppendProperties DEF Types
    <3> QED BY <3>1, Zenon DEF Types, IntrClaim, IntrGet, IntrEcho, IntrErase, IntrStore, IntrStart
  <2> QED BY <2>1 DEF Types, IntrClaim, IntrGet, IntrEcho, IntrErase, IntrStore, IntrStart
<1>2. StartInv'
  BY Zenon DEF StartInv, IntrClaim, IntrGet, IntrEcho, IntrErase, IntrStore, IntrStart
<1>3. WriterSleepsOnFull'
  BY Zenon DEF Types, WriterSleepsOnFull, IntrClaim, IntrGet, IntrEcho, IntrErase, IntrStore, IntrStart
<1>4. ReaderSleepsOnEmpty'
  BY Zenon DEF Types, ReaderSleepsOnEmpty, IntrClaim, IntrGet, IntrEcho, IntrErase, IntrStore, IntrStart
<1>5. OutputMoves'
  BY Zenon DEF Types, OutputMoves, IntrClaim, IntrGet, IntrEcho, IntrErase, IntrStore, IntrStart
<1> QED BY <1>1, <1>2, <1>3, <1>4, <1>5, Zenon

\* consoleread() takes input only when nobody sleeps for it, and uartputc() adds
\* output only with uartstart() to follow.
LEMMA ProcessPreserves ==
  ASSUME IInv, NEW p \in Procs, Process(p)
  PROVE  IInv'
<1> USE ConsoleAssumption
    DEF IInv, InTx, TxFull, Started, Goes, Return, Pcs,
        consVars, txVars, startVars, intrVars, procVars, uartVars
<1>0. ASSUME NEW l \in {"rwake", "write"}, NEW size, NEW cost, Call(p, l, size, cost)
      PROVE  IInv'
  <2>1. /\ pc' = [pc EXCEPT ![p] = l] /\ pc[p] = "user"
        /\ UNCHANGED <<consVars, txVars, startVars, intrVars, uartVars>>
    BY <1>0, Zenon DEF Call
  <2>2. Types' /\ StartInv'
    BY <2>1, Zenon DEF Types, StartInv
  <2>3. \A q \in Procs : pc'[q] \in {"rsleep", "wsleep"} => pc'[q] = pc[q]
    BY <2>1, Zenon DEF Types
  <2> QED BY <2>1, <2>2, <2>3, Zenon
          DEF WriterSleepsOnFull, ReaderSleepsOnEmpty, OutputMoves
<1>1. CASE (\E s \in Reads : Read(p, s)) \/ (\E s \in Writes : Write(p, s))
  BY <1>0, <1>1, Zenon DEF Read, Write
<1>2. CASE ReadAcquire(p) \/ ReadWait(p)
  BY <1>2, Zenon DEF ReadAcquire, ReadWait, Types, StartInv, WriterSleepsOnFull, ReaderSleepsOnEmpty, OutputMoves
<1>3. CASE ReadKilled(p) \/ ReadDone(p) \/ WriteDone(p)
  BY <1>3, Zenon DEF ReadKilled, ReadDone, WriteDone, Types, StartInv, WriterSleepsOnFull, ReaderSleepsOnEmpty, OutputMoves
<1>4. CASE ReadChar(p)
  BY <1>4, Zenon DEF ReadChar, Types, StartInv, WriterSleepsOnFull, ReaderSleepsOnEmpty, OutputMoves
<1>5. CASE PutSleep(p)
  BY <1>5, Zenon DEF PutSleep, Types, StartInv, WriterSleepsOnFull, ReaderSleepsOnEmpty, OutputMoves
<1>6. CASE Put(p)
  BY <1>6 DEF Put, Types, StartInv, WriterSleepsOnFull, ReaderSleepsOnEmpty, OutputMoves
<1>7. CASE Kill(p)
  BY <1>7, Zenon DEF Kill, Types, StartInv, WriterSleepsOnFull, ReaderSleepsOnEmpty, OutputMoves
<1> QED BY <1>1, <1>2, <1>3, <1>4, <1>5, <1>6, <1>7, Zenon DEF Process

\* The invariant holds in every reachable state of the console.
LEMMA Invariant == Spec => []IInv
<1>1. IInv /\ [Next]_vars => IInv'
  <2> SUFFICES ASSUME IInv, [Next]_vars PROVE IInv'
    BY Zenon
  <2>1. CASE UNCHANGED vars
    BY <2>1, Zenon DEF vars, consVars, txVars, startVars, intrVars, uartVars, procVars, IInv,
                Types, StartInv, WriterSleepsOnFull, ReaderSleepsOnEmpty, OutputMoves, InTx, TxFull
  <2>2. CASE Next
    BY <2>2, DevicePreserves, StartPreserves, IntrPreserves, ProcessPreserves, Zenon DEF Next
  <2> QED BY <2>1, <2>2, Zenon
<1> QED BY InitEstablishes, <1>1, PTL DEF Spec

\* consoleread() loses no wakeup, however many processes read the console.
THEOREM NoReaderForgotten == Spec => []ReaderSleepsOnEmpty
  BY Invariant, PTL DEF IInv

\* Output to the UART never gets stuck, however many processes write: while
\* characters wait or a writer sleeps, an interrupt or a uartstart() is to come.
THEOREM OutputNeverStuck == Spec => []OutputMoves
  BY Invariant, PTL DEF IInv

-----------------------------------------------------------------------------
(* The order of the output *)

\* The numbers in s other than 0 are a to b, in this order.
Ordered(s, a, b) ==
  LET W == {j \in DOMAIN s : s[j] # 0} IN
  /\ {s[j] : j \in W} = a..b
  /\ \A i, j \in W : i < j => s[i] < s[j]

\* The same, pointwise.
LEMMA OrderedIs ==
  ASSUME NEW s \in Seq(Int), NEW a \in Int, NEW b \in Int
  PROVE  Ordered(s, a, b) <=>
           /\ \A j \in 1..Len(s) : s[j] # 0 => a <= s[j] /\ s[j] <= b
           /\ \A v \in a..b : \E j \in 1..Len(s) : s[j] # 0 /\ s[j] = v
           /\ \A i, j \in 1..Len(s) : s[i] # 0 /\ s[j] # 0 /\ i < j => s[i] < s[j]
<1>1. DOMAIN s = 1..Len(s) /\ \A j \in 1..Len(s) : s[j] \in Int
  BY LenProperties, ElementOfSeq, Zenon
<1> DEFINE W == {j \in 1..Len(s) : s[j] # 0}
<1>2. Ordered(s, a, b) <=> /\ {s[j] : j \in W} = a..b
                           /\ \A i, j \in W : i < j => s[i] < s[j]
  BY <1>1, Zenon DEF Ordered
<1>3. {s[j] : j \in W} = a..b <=>
        /\ \A j \in 1..Len(s) : s[j] # 0 => s[j] \in a..b
        /\ \A v \in a..b : \E j \in 1..Len(s) : s[j] # 0 /\ s[j] = v
  BY Zenon
<1>4. \A j \in 1..Len(s) : s[j] \in a..b <=> a <= s[j] /\ s[j] <= b
  BY <1>1
<1> QED BY <1>2, <1>3, <1>4, Zenon

\* An echo changes nothing.
LEMMA EchoOrdered ==
  ASSUME NEW s \in Seq(Int), NEW a \in Int, NEW b \in Int, Ordered(s, a, b)
  PROVE  Ordered(Append(s, 0), a, b)
<1> DEFINE t == Append(s, 0)
<1>1. /\ t \in Seq(Int) /\ Len(t) = Len(s) + 1 /\ Len(s) \in Nat
      /\ \A j \in 1..Len(s) : t[j] = s[j]
      /\ t[Len(s) + 1] = 0
  BY AppendProperties, LenProperties
<1> HIDE DEF t
<1>2. \A j \in 1..Len(t) : t[j] # 0 => j \in 1..Len(s) /\ t[j] = s[j]
  BY <1>1
<1>3. \A j \in 1..Len(s) : j \in 1..Len(t) /\ t[j] = s[j]
  BY <1>1
<1>4. /\ \A j \in 1..Len(s) : s[j] # 0 => a <= s[j] /\ s[j] <= b
      /\ \A v \in a..b : \E j \in 1..Len(s) : s[j] # 0 /\ s[j] = v
      /\ \A i, j \in 1..Len(s) : s[i] # 0 /\ s[j] # 0 /\ i < j => s[i] < s[j]
  BY OrderedIs, Zenon
<1>5. /\ \A j \in 1..Len(t) : t[j] # 0 => a <= t[j] /\ t[j] <= b
      /\ \A v \in a..b : \E j \in 1..Len(t) : t[j] # 0 /\ t[j] = v
      /\ \A i, j \in 1..Len(t) : t[i] # 0 /\ t[j] # 0 /\ i < j => t[i] < t[j]
  <2>1. \A j \in 1..Len(t) : t[j] # 0 => a <= t[j] /\ t[j] <= b
    BY <1>2, <1>4, Zenon
  <2>2. \A v \in a..b : \E j \in 1..Len(t) : t[j] # 0 /\ t[j] = v
    BY <1>3, <1>4, Zenon
  <2>3. \A i, j \in 1..Len(t) : t[i] # 0 /\ t[j] # 0 /\ i < j => t[i] < t[j]
    BY <1>2, <1>4, Zenon
  <2> QED BY <2>1, <2>2, <2>3, Zenon
<1> QED BY <1>1, <1>5, OrderedIs, Zenon DEF t

\* The next character keeps the order.
LEMMA SendOrdered ==
  ASSUME NEW s \in Seq(Int), NEW a \in Int, NEW b \in Int, Ordered(s, a, b), 1 <= a, a <= b + 1
  PROVE  Ordered(Append(s, b + 1), a, b + 1)
<1> DEFINE t == Append(s, b + 1)
<1>1. /\ t \in Seq(Int) /\ Len(t) = Len(s) + 1 /\ Len(s) \in Nat
      /\ \A j \in 1..Len(s) : t[j] = s[j]
      /\ t[Len(s) + 1] = b + 1
  BY AppendProperties, LenProperties
<1> HIDE DEF t
<1>2. \A j \in 1..Len(t) : \/ j \in 1..Len(s) /\ t[j] = s[j]
                           \/ j = Len(s) + 1 /\ t[j] = b + 1
  BY <1>1
<1>3. \A j \in 1..Len(s) : j \in 1..Len(t) /\ t[j] = s[j] /\ s[j] \in Int
  BY <1>1, ElementOfSeq
<1>4. /\ \A j \in 1..Len(s) : s[j] # 0 => a <= s[j] /\ s[j] <= b
      /\ \A v \in a..b : \E j \in 1..Len(s) : s[j] # 0 /\ s[j] = v
      /\ \A i, j \in 1..Len(s) : s[i] # 0 /\ s[j] # 0 /\ i < j => s[i] < s[j]
  BY OrderedIs, Zenon
<1>5. \A j \in 1..Len(t) : t[j] # 0 => a <= t[j] /\ t[j] <= b + 1
  BY <1>2, <1>3, <1>4
<1>6. ASSUME NEW v \in a..(b + 1)
      PROVE  \E j \in 1..Len(t) : t[j] # 0 /\ t[j] = v
  <2>1. CASE v = b + 1
    <3>1. Len(s) + 1 \in 1..Len(t) /\ t[Len(s) + 1] = v /\ v # 0
      BY <1>1, <2>1
    <3> QED BY <3>1, Zenon
  <2>2. CASE v \in a..b
    BY <1>3, <1>4, <2>2, Zenon
  <2> QED BY <2>1, <2>2
<1>7. ASSUME NEW i \in 1..Len(t), NEW j \in 1..Len(t), t[i] # 0, t[j] # 0, i < j
      PROVE  t[i] < t[j]
  <2>0. i # Len(s) + 1
    <3>1. i \in Int /\ j \in Int /\ j <= Len(s) + 1 /\ Len(s) \in Nat
      BY <1>1
    <3> QED BY <1>7, <3>1
  <2>1. i \in 1..Len(s) /\ t[i] = s[i]
    BY <1>2, <2>0, Zenon
  <2>2. CASE j \in 1..Len(s) /\ t[j] = s[j]
    BY <1>4, <1>7, <2>1, <2>2, Zenon
  <2>3. CASE j = Len(s) + 1 /\ t[j] = b + 1
    BY <1>3, <1>4, <1>7, <2>1, <2>3
  <2> QED BY <1>2, <2>2, <2>3, Zenon
<1>8. b + 1 \in Int
  OBVIOUS
<1>9. /\ \A v \in a..(b + 1) : \E j \in 1..Len(t) : t[j] # 0 /\ t[j] = v
      /\ \A i, j \in 1..Len(t) : t[i] # 0 /\ t[j] # 0 /\ i < j => t[i] < t[j]
  BY <1>6, <1>7, Zenon
<1>10. Ordered(t, a, b + 1)
  BY <1>1, <1>5, <1>8, <1>9, OrderedIs, Zenon
<1> QED BY <1>10, Zenon DEF t

\* The device sends the least of the characters, if not an echo.
LEMMA TailOrdered ==
  ASSUME NEW s \in Seq(Int), s # <<>>, NEW a \in Int, NEW b \in Int, Ordered(s, a, b), 1 <= a
  PROVE  /\ Head(s) = 0 => Ordered(Tail(s), a, b)
         /\ Head(s) # 0 => Head(s) = a /\ a <= b /\ Ordered(Tail(s), a + 1, b)
<1> DEFINE t == Tail(s)
<1>1. /\ t \in Seq(Int) /\ Len(t) = Len(s) - 1 /\ Len(s) \in Nat /\ Len(s) >= 1
      /\ \A j \in 1..Len(t) : t[j] = s[j + 1]
      /\ Head(s) = s[1]
  BY HeadTailProperties, LenProperties, EmptySeq
<1> HIDE DEF t
<1>2. \A j \in 1..Len(t) : j + 1 \in 1..Len(s) /\ t[j] = s[j + 1]
  BY <1>1
<1>3. \A j \in 1..Len(s) : j = 1 \/ (j - 1 \in 1..Len(t) /\ t[j - 1] = s[j])
  <2> TAKE j \in 1..Len(s)
  <2>1. j = 1 \/ (j - 1 \in 1..Len(t) /\ (j - 1) + 1 = j)
    BY <1>1
  <2> QED BY <1>2, <2>1, Zenon
<1>4. /\ \A j \in 1..Len(s) : s[j] # 0 => a <= s[j] /\ s[j] <= b
      /\ \A v \in a..b : \E j \in 1..Len(s) : s[j] # 0 /\ s[j] = v
      /\ \A i, j \in 1..Len(s) : s[i] # 0 /\ s[j] # 0 /\ i < j => s[i] < s[j]
  BY OrderedIs, Zenon
<1>5. \A j \in 1..Len(s) : s[j] \in Int
  BY ElementOfSeq, Zenon
<1>6. \A i, j \in 1..Len(t) : t[i] # 0 /\ t[j] # 0 /\ i < j => t[i] < t[j]
  <2> SUFFICES ASSUME NEW i \in 1..Len(t), NEW j \in 1..Len(t), t[i] # 0, t[j] # 0, i < j
               PROVE  t[i] < t[j]
    BY Zenon
  <2>1. i + 1 < j + 1
    BY <1>1
  <2> QED BY <1>2, <1>4, <2>1, Zenon
<1>7. ASSUME Head(s) = 0 PROVE Ordered(t, a, b)
  <2>1. \A j \in 1..Len(t) : t[j] # 0 => a <= t[j] /\ t[j] <= b
    BY <1>2, <1>4, Zenon
  <2>2. ASSUME NEW v \in a..b
        PROVE  \E j \in 1..Len(t) : t[j] # 0 /\ t[j] = v
    <3>1. PICK j \in 1..Len(s) : s[j] # 0 /\ s[j] = v
      BY <1>4, Zenon
    <3>2. j # 1
      BY <1>1, <1>7, <3>1, Zenon
    <3> QED BY <1>3, <3>1, <3>2, Zenon
  <2> QED BY <1>1, <1>6, <2>1, <2>2, OrderedIs, Zenon
<1>8. ASSUME Head(s) # 0 PROVE Head(s) = a /\ a <= b /\ Ordered(t, a + 1, b)
  <2>1. 1 \in 1..Len(s) /\ s[1] # 0 /\ s[1] \in Int
    BY <1>1, <1>5, <1>8
  <2>2. a <= s[1] /\ s[1] <= b
    BY <1>4, <2>1, Zenon
  <2>3. \A j \in 1..Len(t) : t[j] # 0 => s[1] < t[j]
    <3> SUFFICES ASSUME NEW j \in 1..Len(t), t[j] # 0 PROVE s[1] < t[j]
      BY Zenon
    <3>1. 1 < j + 1
      OBVIOUS
    <3> QED BY <1>2, <1>4, <2>1, <3>1, Zenon
  <2>4. s[1] = a
    <3>1. a \in a..b
      BY <2>1, <2>2
    <3>2. PICK j \in 1..Len(s) : s[j] # 0 /\ s[j] = a
      BY <1>4, <3>1, Zenon
    <3>3. CASE j = 1
      BY <3>2, <3>3, Zenon
    <3>4. CASE j - 1 \in 1..Len(t) /\ t[j - 1] = s[j]
      <4>1. s[1] < a
        BY <2>3, <3>2, <3>4, Zenon
      <4> QED BY <2>1, <2>2, <4>1
    <3> QED BY <1>3, <3>3, <3>4, Zenon
  <2>5. ASSUME NEW j \in 1..Len(t), t[j] # 0
        PROVE  a + 1 <= t[j] /\ t[j] <= b
    <3>1. t[j] \in Int /\ t[j] <= b
      BY <1>2, <1>4, <1>5, <2>5, Zenon
    <3>2. a < t[j]
      BY <2>3, <2>4, <2>5, Zenon
    <3> QED BY <3>1, <3>2
  <2>6. ASSUME NEW v \in (a + 1)..b
        PROVE  \E j \in 1..Len(t) : t[j] # 0 /\ t[j] = v
    <3>1. v \in a..b /\ v # a
      OBVIOUS
    <3>2. PICK j \in 1..Len(s) : s[j] # 0 /\ s[j] = v
      BY <1>4, <3>1, Zenon
    <3>3. j # 1
      BY <2>4, <3>1, <3>2, Zenon
    <3> QED BY <1>3, <3>2, <3>3, Zenon
  <2>7. a + 1 \in Int
    OBVIOUS
  <2>8. Ordered(t, a + 1, b)
    BY <1>1, <1>6, <2>5, <2>6, <2>7, OrderedIs, Zenon
  <2>9. a <= b
    BY <2>1, <2>2
  <2> QED BY <1>1, <2>4, <2>8, <2>9, Zenon
<1> QED BY <1>7, <1>8, Zenon DEF t


\* uartputc() has put the characters after tx_r into the buffer.
TxRing == \A j \in 1..InTx : tx_buf[(tx_r + j - 1) % UART_TX_BUF_SIZE] = tx_r + j

\* The counters of the output never overtake each other.
OutInv ==
  /\ sent \in Nat /\ sent <= Given
  /\ 0 <= InTx /\ InTx <= UART_TX_BUF_SIZE
  /\ Ordered(thr, sent + 1, Given)
  /\ start = "thr" => inhand = tx_r
  /\ TxRing

\* A number is a multiple of S and what % leaves.
LEMMA ModDef ==
  ASSUME NEW a \in Int, NEW S \in Nat \ {0}
  PROVE  \E q \in Int : a = S * q + (a % S)
<1>1. a \div S \in Int /\ a = S * (a \div S) + (a % S)
  OBVIOUS
<1> QED BY <1>1, Zenon

\* Numbers less than S apart have different indices.
LEMMA ModDiffer ==
  ASSUME NEW a \in Int, NEW b \in Int, NEW S \in Nat \ {0}, a < b, b - a < S
  PROVE  a % S # b % S
<1> SUFFICES ASSUME a % S = b % S PROVE FALSE
  BY Zenon
<1>1. PICK q \in Int : a = S * q + (a % S)
  BY ModDef, Zenon
<1>2. PICK s \in Int : b = S * s + (b % S)
  BY ModDef, Zenon
<1>3. a % S \in Int
  OBVIOUS
<1>4. b - a = S * (s - q)
  BY <1>1, <1>2, <1>3
<1>5. s - q >= 1
  BY <1>4
<1> QED BY <1>4, <1>5

\* Steps that touch no output.
LEMMA OutFrame ==
  ASSUME OutInv, UNCHANGED <<txVars, thr, sent, Given>>,
         start' = "thr" => start = "thr" /\ inhand' = inhand
  PROVE  OutInv'
<1>1. InTx' = InTx /\ tx_buf' = tx_buf /\ tx_r' = tx_r
  BY Zenon DEF InTx, txVars
<1>2. TxRing'
  BY <1>1, Zenon DEF OutInv, TxRing
<1> QED BY <1>1, <1>2, Zenon DEF OutInv

\* The device sends what comes next, or an echo.
LEMMA DeviceOut ==
  ASSUME IInv, OutInv, DeviceSend
  PROVE  OutInv'
<1>1. /\ thr # <<>> /\ thr' = Tail(thr)
      /\ sent' = (IF Head(thr) = 0 THEN sent ELSE Head(thr))
      /\ UNCHANGED <<tx_buf, tx_r, tx_w, start, inhand>>
  BY Zenon DEF DeviceSend, txVars, startVars
<1>2. thr \in Seq(Int) /\ Given \in Int /\ sent \in Nat /\ sent <= Given /\ tx_r \in Int
  BY DEF IInv, Types, OutInv, Given
<1>3. Given' = Given /\ InTx' = InTx
  BY <1>1, Zenon DEF Given, InTx
<1>4. TxRing'
  BY <1>1, <1>3, Zenon DEF OutInv, TxRing
<1>5. /\ Head(thr) = 0 => Ordered(Tail(thr), sent + 1, Given)
      /\ Head(thr) # 0 => Head(thr) = sent + 1 /\ sent + 1 <= Given
                          /\ Ordered(Tail(thr), (sent + 1) + 1, Given)
  <2>1. sent + 1 \in Int /\ 1 <= sent + 1
    BY <1>2
  <2> QED BY <1>1, <1>2, <2>1, TailOrdered, Zenon DEF OutInv
<1>6. sent' \in Nat /\ sent' <= Given /\ Ordered(thr', sent' + 1, Given)
  <2>1. CASE Head(thr) = 0
    BY <1>1, <1>2, <1>5, <2>1, Zenon
  <2>2. CASE Head(thr) # 0
    <3>1. sent' = sent + 1 /\ sent + 1 \in Nat
      BY <1>1, <1>2, <1>5, <2>2
    <3> QED BY <1>1, <1>5, <2>2, <3>1, Zenon
  <2> QED BY <2>1, <2>2, Zenon
<1> QED BY <1>1, <1>3, <1>4, <1>6, Zenon DEF OutInv

\* uartstart() takes the oldest character of the buffer ...
LEMMA TakeOut ==
  ASSUME IInv, OutInv, StartTake
  PROVE  OutInv'
<1>1. /\ start = "loop" /\ InTx # 0 /\ start' = "thr"
      /\ inhand' = tx_buf[tx_r % UART_TX_BUF_SIZE]
      /\ tx_r' = tx_r + 1
      /\ UNCHANGED <<tx_buf, tx_w, thr, sent>>
  BY Zenon DEF StartTake, uartVars
<1>2. tx_r \in Int /\ tx_w \in Int /\ InTx \in Int /\ 0 <= InTx /\ InTx <= UART_TX_BUF_SIZE
  BY DEF IInv, Types, OutInv, InTx
<1>3. Given = tx_r /\ Given' = tx_r
  <2>1. start # "thr"
    BY <1>1, Zenon
  <2>2. Given' = tx_r' - 1
    BY <1>1, Zenon DEF Given
  <2> QED BY <1>1, <1>2, <2>1, <2>2 DEF Given
<1>4. InTx' = InTx - 1
  BY <1>1, <1>2 DEF InTx
<1>5. inhand' = tx_r'
  <2>1. 1 \in 1..InTx /\ tx_r + 1 - 1 = tx_r
    BY <1>1, <1>2
  <2>2. tx_buf[(tx_r + 1 - 1) % UART_TX_BUF_SIZE] = tx_r + 1
    BY <2>1, Zenon DEF OutInv, TxRing
  <2> QED BY <1>1, <2>1, <2>2, Zenon
<1>6. TxRing'
  <2> SUFFICES ASSUME NEW j \in 1..InTx'
               PROVE  tx_buf'[(tx_r' + j - 1) % UART_TX_BUF_SIZE] = tx_r' + j
    BY Zenon DEF TxRing
  <2>1. /\ j + 1 \in 1..InTx /\ tx_r + (j + 1) - 1 = tx_r' + j - 1
        /\ tx_r + (j + 1) = tx_r' + j
    BY <1>1, <1>2, <1>4
  <2>2. tx_buf[(tx_r + (j + 1) - 1) % UART_TX_BUF_SIZE] = tx_r + (j + 1)
    BY <2>1, Zenon DEF OutInv, TxRing
  <2> QED BY <1>1, <2>1, <2>2, Zenon
<1>7. 0 <= InTx' /\ InTx' <= UART_TX_BUF_SIZE
  BY <1>1, <1>2, <1>4, ConsoleAssumption
<1> QED BY <1>1, <1>3, <1>5, <1>6, <1>7, Zenon DEF OutInv

\* ... and hands it to the device behind the others.
LEMMA SendOut ==
  ASSUME IInv, OutInv, StartSend
  PROVE  OutInv'
<1>1. /\ start = "thr" /\ start' = "loop" /\ thr' = Append(thr, inhand)
      /\ UNCHANGED <<tx_buf, tx_r, tx_w, sent>>
  BY Zenon DEF StartSend, Started, txVars
<1>2. thr \in Seq(Int) /\ tx_r \in Int /\ sent \in Nat /\ sent <= Given /\ inhand = tx_r
  BY <1>1, Zenon DEF IInv, Types, OutInv
<1>3. Given \in Int /\ tx_r = Given + 1
  BY <1>1, <1>2 DEF Given
<1>4. Given' = Given + 1
  <2>1. start' # "thr"
    BY <1>1, Zenon
  <2> QED BY <1>1, <1>3, <2>1, Zenon DEF Given
<1>5. InTx' = InTx
  BY <1>1, Zenon DEF InTx
<1>6. TxRing'
  BY <1>1, <1>5, Zenon DEF OutInv, TxRing
<1>7. Ordered(Append(thr, Given + 1), sent + 1, Given + 1)
  <2>1. sent + 1 \in Int /\ 1 <= sent + 1 /\ sent + 1 <= Given + 1
    BY <1>2, <1>3
  <2> QED BY <1>2, <1>3, <2>1, SendOrdered, Zenon DEF OutInv
<1>8. sent' <= Given'
  BY <1>1, <1>2, <1>3, <1>4
<1>9. start' # "thr"
  BY <1>1, Zenon
<1>10. Ordered(thr', sent' + 1, Given')
  BY <1>1, <1>2, <1>3, <1>4, <1>7, Zenon
<1> QED BY <1>1, <1>2, <1>5, <1>6, <1>8, <1>9, <1>10, Zenon DEF OutInv

\* An echo goes to the device at any time.
LEMMA EchoOut ==
  ASSUME IInv, OutInv, IntrErase \/ IntrStore
  PROVE  OutInv'
<1>1. thr' = Append(thr, 0) /\ UNCHANGED <<tx_buf, tx_r, tx_w, start, inhand, sent>>
  BY Zenon DEF IntrErase, IntrStore, txVars, startVars
<1>2. thr \in Seq(Int) /\ Given \in Int /\ sent + 1 \in Int
  BY DEF IInv, Types, OutInv, Given
<1>3. Ordered(Append(thr, 0), sent + 1, Given)
  BY <1>2, EchoOrdered, Zenon DEF OutInv
<1>4. Given' = Given /\ InTx' = InTx
  BY <1>1, Zenon DEF Given, InTx
<1>5. TxRing'
  BY <1>1, <1>4, Zenon DEF OutInv, TxRing
<1> QED BY <1>1, <1>3, <1>4, <1>5, Zenon DEF OutInv

\* uartputc() overwrites no character that waits.
LEMMA PutOut ==
  ASSUME IInv, OutInv, NEW p \in Procs, Put(p)
  PROVE  OutInv'
<1>1. /\ start = "none" /\ start' = "loop" /\ ~TxFull
      /\ tx_buf' = [tx_buf EXCEPT ![tx_w % UART_TX_BUF_SIZE] = tx_w + 1]
      /\ tx_w' = tx_w + 1
      /\ UNCHANGED <<tx_r, thr, sent>>
  BY Zenon DEF Put, Started, uartVars
<1> DEFINE S == UART_TX_BUF_SIZE
<1>2. /\ tx_r \in Int /\ tx_w \in Int /\ InTx = tx_w - tx_r /\ 0 <= InTx /\ InTx < S
      /\ S \in Nat \ {0} /\ tx_buf \in [0..(S - 1) -> Int]
  BY <1>1, ConsoleAssumption DEF IInv, Types, OutInv, InTx, TxFull
<1>3. Given' = Given /\ start' # "thr"
  BY <1>1, Zenon DEF Given
<1>4. InTx' = InTx + 1
  BY <1>1, <1>2 DEF InTx
<1> HIDE DEF S
<1>5. tx_w % S \in 0..(S - 1)
  BY <1>2
<1>6. tx_buf'[tx_w % S] = tx_w + 1 /\ \A k \in 0..(S - 1) : k # tx_w % S => tx_buf'[k] = tx_buf[k]
  BY <1>1, <1>2, <1>5, Zenon DEF S
<1>7. ASSUME NEW j \in 1..InTx'
      PROVE  tx_buf'[(tx_r' + j - 1) % S] = tx_r' + j
  <2>1. CASE j \in 1..InTx
    <3>1. tx_r + j - 1 \in Int /\ tx_r + j - 1 < tx_w /\ tx_w - (tx_r + j - 1) < S
      BY <1>2, <2>1
    <3>2. (tx_r + j - 1) % S # tx_w % S
      BY <1>2, <3>1, ModDiffer, Zenon
    <3>3. (tx_r + j - 1) % S \in 0..(S - 1)
      BY <1>2, <3>1
    <3>4. tx_buf[(tx_r + j - 1) % S] = tx_r + j
      BY <2>1, Zenon DEF OutInv, TxRing, S
    <3> QED BY <1>1, <1>6, <3>2, <3>3, <3>4, Zenon
  <2>2. CASE j = InTx + 1
    <3>1. tx_r + j - 1 = tx_w /\ tx_r + j = tx_w + 1
      BY <1>2, <2>2
    <3> QED BY <1>1, <1>6, <3>1, Zenon
  <2>3. j \in 1..InTx \/ j = InTx + 1
    BY <1>2, <1>4
  <2> QED BY <2>1, <2>2, <2>3, Zenon
<1>8. TxRing'
  BY <1>7, Zenon DEF TxRing, S
<1>9. 0 <= InTx' /\ InTx' <= UART_TX_BUF_SIZE
  BY <1>2, <1>4 DEF S
<1> QED BY <1>1, <1>3, <1>8, <1>9, Zenon DEF OutInv

\* Every step keeps the output in order.
LEMMA OutPreserved ==
  ASSUME IInv, OutInv, [Next]_vars
  PROVE  OutInv'
<1> USE DEF txVars, startVars, uartVars
<1>1. ASSUME UNCHANGED <<txVars, thr, sent, start, inhand>>
      PROVE  OutInv'
  <2>1. Given' = Given
    BY <1>1, Zenon DEF Given
  <2> QED BY <1>1, <2>1, OutFrame, Zenon
<1>2. CASE DeviceReceive \/ IntrClaim \/ IntrGet \/ IntrEcho \/ UNCHANGED vars
  BY <1>1, <1>2, Zenon DEF DeviceReceive, IntrClaim, IntrGet, IntrEcho, vars
<1>3. CASE StartReturn \/ IntrStart
  <2>1. start # "thr" /\ start' # "thr" /\ UNCHANGED <<txVars, thr, sent>>
    BY <1>3, Zenon DEF StartReturn, IntrStart, Started
  <2>2. Given' = Given
    BY <2>1, Zenon DEF Given
  <2> QED BY <2>1, <2>2, OutFrame, Zenon
<1>4. ASSUME NEW p \in Procs, Process(p), ~Put(p)
      PROVE  OutInv'
  <2>1. UNCHANGED <<txVars, thr, sent, start, inhand>>
    BY <1>4, Zenon DEF Process, Read, Write, Call, ReadAcquire, ReadWait, ReadKilled, ReadChar, ReadDone,
       PutSleep, WriteDone, Kill
  <2> QED BY <1>1, <2>1, Zenon
<1> QED BY <1>2, <1>3, <1>4, DeviceOut, TakeOut, SendOut, EchoOut, PutOut, Zenon DEF Next

\* The characters of write()s leave in the order of uartputc(), none lost or
\* doubled, for any number of writers and any size of the buffer, whenever the
\* handler's echoes come in between.
THEOREM OutputOrdered == Spec => []OutputInOrder
<1>1. Init => OutInv
  <2> SUFFICES ASSUME Init PROVE OutInv
    BY Zenon
  <2>1. thr = <<>> /\ sent = 0 /\ start = "none" /\ tx_r = 0 /\ tx_w = 0
    BY Zenon DEF Init
  <2>2. InTx = 0 /\ Given = 0
    BY <2>1 DEF InTx, Given
  <2>3. Ordered(thr, sent + 1, Given)
    <3>1. sent + 1 = 1 /\ thr \in Seq(Int) /\ Len(thr) = 0 /\ 1 \in Int /\ 0 \in Int
      BY <2>1
    <3>2. 1..0 = {} /\ 1..Len(thr) = {}
      BY <3>1
    <3>3. Ordered(thr, 1, 0)
      BY <3>1, <3>2, OrderedIs, Zenon
    <3> QED BY <2>2, <3>1, <3>3, Zenon
  <2>4. TxRing
    BY <2>2 DEF TxRing
  <2> QED BY <2>1, <2>2, <2>3, <2>4, ConsoleAssumption DEF OutInv
<1>2. IInv /\ OutInv /\ [Next]_vars => OutInv'
  BY OutPreserved, Zenon
<1>3. OutInv => OutputInOrder
  BY Zenon DEF OutInv, Ordered, OutputInOrder, OnWire, TxRing
<1> QED BY <1>1, <1>2, <1>3, Invariant, PTL DEF Spec

-----------------------------------------------------------------------------
(* Rings: a buffer indexed modulo its size *)

\* The c entries of the ring d of size S from index i on, oldest first.
Ring(d, S, i, c) == [k \in 1..c |-> d[(i + k - 1) % S]]

\* The rings f and d of size S differ at most at m.
SameBut(f, d, S, m) == \A k \in 0..(S - 1) : k # m => f[k] = d[k]

\* They have the same c entries from index i on.
Same(f, d, S, i, c) == \A k \in 1..c : f[(i + k - 1) % S] = d[(i + k - 1) % S]

\* t is s and x behind it, ...
Pushed(t, s, x) == t = Append(s, x)

\* ... s without its first, ...
Popped(t, s) == t = Tail(s)

\* ... s and u behind it, ...
Joined(t, s, u) == t = s \o u

\* ... the first m of s.
Cut(t, s, m) == t = SubSeq(s, 1, m)

\* ... which is the only such rest below S.
LEMMA ModIs ==
  ASSUME NEW q \in Int, NEW S \in Nat \ {0}, NEW x \in 0..(S - 1)
  PROVE  (S * q + x) % S = x
  OBVIOUS

\* Multiples of S do not count.
LEMMA ModMultiple ==
  ASSUME NEW a \in Int, NEW k \in Int, NEW S \in Nat \ {0}
  PROVE  (a + S * k) % S = a % S
<1>1. PICK q \in Int : a = S * q + (a % S)
  BY ModDef, Zenon
<1>2. a % S \in 0..(S - 1)
  OBVIOUS
<1>3. a + S * k = S * (q + k) + (a % S)
  BY <1>1, <1>2
<1> QED BY <1>2, <1>3, ModIs

\* The same distance k behind a and b.
Shifted(a, b, k, S) == (a + k) % S = (b + k) % S

\* Equal indices have equal successors.
LEMMA ModShift ==
  ASSUME NEW a \in Int, NEW b \in Int, NEW k \in Int, NEW S \in Nat \ {0}, a % S = b % S
  PROVE  Shifted(a, b, k, S)
<1>1. PICK q \in Int : a = S * q + (a % S)
  BY ModDef, Zenon
<1>2. PICK s \in Int : b = S * s + (b % S)
  BY ModDef, Zenon
<1>3. a % S \in Int
  OBVIOUS
<1>4. a + k = (b + k) + S * (q - s)
  BY <1>1, <1>2, <1>3
<1>5. b + k \in Int /\ q - s \in Int
  OBVIOUS
<1>6. ((b + k) + S * (q - s)) % S = (b + k) % S
  BY <1>5, ModMultiple, Zenon
<1> QED BY <1>4, <1>6, Zenon DEF Shifted

\* A counter that wraps at U: before, ...
LEMMA WrapsNot ==
  ASSUME NEW U \in Nat \ {0}, NEW a \in Int, 0 <= a, a < U
  PROVE  a % U = a
<1>1. a \in 0..(U - 1) /\ a = U * 0 + a
  OBVIOUS
<1> QED BY <1>1, ModIs

\* ... after it went over U ...
LEMMA WrapsOver ==
  ASSUME NEW U \in Nat \ {0}, NEW a \in Int, U <= a, a < 2 * U
  PROVE  a % U = a - U
<1>1. a - U \in 0..(U - 1) /\ a = U * 1 + (a - U)
  OBVIOUS
<1> QED BY <1>1, ModIs

\* ... and after it went below zero.
LEMMA WrapsUnder ==
  ASSUME NEW U \in Nat \ {0}, NEW a \in Int, -U <= a, a < 0
  PROVE  a % U = a + U
<1>1. a + U \in 0..(U - 1) /\ a = U * (-1) + (a + U)
  OBVIOUS
<1> QED BY <1>1, ModIs

\* A counter that wraps at a multiple of S counts as well modulo S.
LEMMA WrapKeepsIndex ==
  ASSUME NEW S \in Nat \ {0}, NEW U \in Nat \ {0}, U % S = 0, NEW a \in Int
  PROVE  (a % U) % S = a % S
<1> DEFINE m == a % U
<1>1. PICK q \in Int : a = U * q + m
  BY ModDef, Zenon
<1>2. U \in Int /\ m \in Int
  OBVIOUS
<1>3. PICK k \in Int : U = S * k + (U % S)
  BY <1>2, ModDef, Zenon
<1> HIDE DEF m
<1>4. k * q \in Int /\ a = m + S * (k * q)
  BY <1>1, <1>2, <1>3
<1>5. (m + S * (k * q)) % S = m % S
  BY <1>2, <1>4, ModMultiple, Zenon
<1> QED BY <1>4, <1>5, Zenon DEF m

\* A ring of values is a sequence of them.
LEMMA RingSeq ==
  ASSUME NEW B, NEW S \in Nat \ {0}, NEW d, \A k \in 0..(S - 1) : d[k] \in B,
         NEW i \in Int, NEW c \in Nat
  PROVE  Ring(d, S, i, c) \in Seq(B)
<1>1. \A k \in 1..c : (i + k - 1) % S \in 0..(S - 1)
  OBVIOUS
<1>2. \A k \in 1..c : d[(i + k - 1) % S] \in B
  BY <1>1, Zenon
<1> QED BY <1>2 DEF Ring

\* It has as many as it should.
LEMMA RingLen ==
  ASSUME NEW d, NEW S, NEW i, NEW c \in Nat
  PROVE  Len(Ring(d, S, i, c)) = c
  BY DEF Ring

\* So it is not empty then.
LEMMA RingNonempty ==
  ASSUME NEW d, NEW S, NEW i, NEW c \in Nat, c > 0
  PROVE  Ring(d, S, i, c) # <<>>
<1>1. Ring(d, S, i, c) = <<>> => Len(Ring(d, S, i, c)) = 0
  BY EmptySeq, Zenon
<1> QED BY <1>1, RingLen

\* An entry stored behind the last, where there is room, is appended.
LEMMA RingPush ==
  ASSUME NEW S \in Nat \ {0}, NEW d, NEW f, NEW i \in Int, NEW c \in Nat, c < S,
         SameBut(f, d, S, (i + c) % S)
  PROVE  Pushed(Ring(f, S, i, c + 1), Ring(d, S, i, c), f[(i + c) % S])
<1> DEFINE x == f[(i + c) % S]
           B == {d[k] : k \in 0..(S - 1)} \cup {f[k] : k \in 0..(S - 1)}
           s == Ring(d, S, i, c)
           t == Ring(f, S, i, c + 1)
<1>1. \A k \in 0..(S - 1) : d[k] \in B /\ f[k] \in B
  BY Zenon
<1>2. x \in B
  <2>1. (i + c) % S \in 0..(S - 1)
    OBVIOUS
  <2> QED BY <1>1, <2>1, Zenon
<1> HIDE DEF B
<1>3. s \in Seq(B) /\ Len(s) = c
  BY <1>1, RingSeq, RingLen, Zenon
<1>4. c + 1 \in Nat
  OBVIOUS
<1>5. t \in Seq(B) /\ Len(t) = c + 1
  BY <1>1, <1>4, RingSeq, RingLen, Zenon
<1>6. ASSUME NEW k \in 1..c
      PROVE  t[k] = s[k]
  <2>1. (i + k - 1) % S # (i + c) % S /\ (i + k - 1) % S \in 0..(S - 1)
    <3>1. i + k - 1 \in Int /\ i + c \in Int /\ i + k - 1 < i + c /\ (i + c) - (i + k - 1) < S
      OBVIOUS
    <3>2. (i + k - 1) % S # (i + c) % S
      BY <3>1, ModDiffer, Zenon
    <3> QED BY <3>2
  <2>2. f[(i + k - 1) % S] = d[(i + k - 1) % S]
    BY <2>1, Zenon DEF SameBut
  <2>3. k \in 1..(c + 1)
    OBVIOUS
  <2> QED BY <2>2, <2>3, Zenon DEF Ring
<1>7. t[c + 1] = x
  <2>1. c + 1 \in 1..(c + 1) /\ i + (c + 1) - 1 = i + c
    OBVIOUS
  <2> QED BY <2>1, Zenon DEF Ring
<1> HIDE DEF s, t, x
<1>8. /\ Append(s, x) \in Seq(B) /\ Len(Append(s, x)) = c + 1
      /\ \A k \in 1..c : Append(s, x)[k] = s[k]
      /\ Append(s, x)[c + 1] = x
  BY <1>2, <1>3, AppendProperties
<1>9. ASSUME NEW k \in 1..(c + 1)
      PROVE  t[k] = Append(s, x)[k]
  <2>1. k \in 1..c \/ k = c + 1
    OBVIOUS
  <2> QED BY <1>6, <1>7, <1>8, <2>1, Zenon
<1>10. t = Append(s, x)
  BY <1>5, <1>8, <1>9, SeqEqual, Zenon
<1> QED BY <1>10, Zenon DEF Pushed, t, s, x

\* The rest, when the first entry goes.
LEMMA RingPop ==
  ASSUME NEW S \in Nat \ {0}, NEW d, NEW i \in Int,
         NEW c \in Nat, c > 0, NEW j \in Int, j % S = (i + 1) % S
  PROVE  Popped(Ring(d, S, j, c - 1), Ring(d, S, i, c))
<1> DEFINE B == {d[k] : k \in 0..(S - 1)}
           s == Ring(d, S, i, c)
           t == Ring(d, S, j, c - 1)
<1>0. \A k \in 0..(S - 1) : d[k] \in B
  BY Zenon
<1> HIDE DEF B
<1>1. s \in Seq(B) /\ Len(s) = c
  BY <1>0, RingSeq, RingLen, Zenon
<1>2. c - 1 \in Nat
  OBVIOUS
<1>3. t \in Seq(B) /\ Len(t) = c - 1
  BY <1>0, <1>2, RingSeq, RingLen, Zenon
<1>4. s # <<>>
  BY <1>1, EmptySeq
<1>5. /\ Tail(s) \in Seq(B) /\ Len(Tail(s)) = c - 1
      /\ \A k \in 1..(c - 1) : Tail(s)[k] = s[k + 1]
  BY <1>1, <1>4, HeadTailProperties, Zenon
<1>6. ASSUME NEW k \in 1..(c - 1)
      PROVE  t[k] = Tail(s)[k]
  <2>0. k - 1 \in Int /\ i + 1 \in Int
    OBVIOUS
  <2>1. (j + (k - 1)) % S = ((i + 1) + (k - 1)) % S
    <3>1. Shifted(j, i + 1, k - 1, S)
      BY <2>0, ModShift, Zenon
    <3> QED BY <3>1, Zenon DEF Shifted
  <2>2. j + (k - 1) = j + k - 1 /\ (i + 1) + (k - 1) = i + (k + 1) - 1 /\ k + 1 \in 1..c
    OBVIOUS
  <2>3. (j + k - 1) % S = (i + (k + 1) - 1) % S
    BY <2>1, <2>2, Zenon
  <2>4. t[k] = s[k + 1]
    BY <2>2, <2>3, Zenon DEF Ring
  <2> QED BY <1>5, <2>4, Zenon
<1> HIDE DEF s, t
<1>7. t = Tail(s)
  BY <1>3, <1>5, <1>6, SeqEqual, Zenon
<1> QED BY <1>7, Zenon DEF Popped, s, t

\* A ring is that of its first entries and the ring of the others.
LEMMA RingConcat ==
  ASSUME NEW S \in Nat \ {0}, NEW d, NEW i \in Int, NEW c \in Nat, NEW m \in Nat,
         NEW j \in Int, j % S = (i + c) % S
  PROVE  Joined(Ring(d, S, i, c + m), Ring(d, S, i, c), Ring(d, S, j, m))
<1> DEFINE B == {d[k] : k \in 0..(S - 1)}
           s == Ring(d, S, i, c)
           t == Ring(d, S, j, m)
           u == Ring(d, S, i, c + m)
<1>0. \A k \in 0..(S - 1) : d[k] \in B
  OBVIOUS
<1> HIDE DEF B
<1>1. s \in Seq(B) /\ Len(s) = c
  BY <1>0, RingSeq, RingLen, Zenon
<1>2. t \in Seq(B) /\ Len(t) = m
  BY <1>0, RingSeq, RingLen, Zenon
<1>3. c + m \in Nat
  OBVIOUS
<1>4. u \in Seq(B) /\ Len(u) = c + m
  BY <1>0, <1>3, RingSeq, RingLen, Zenon
<1>5. /\ s \o t \in Seq(B) /\ Len(s \o t) = c + m
      /\ \A k \in 1..(c + m) : (s \o t)[k] = IF k <= c THEN s[k] ELSE t[k - c]
  <2> HIDE DEF s, t
  <2> QED BY <1>1, <1>2
<1>6. ASSUME NEW k \in 1..(c + m)
      PROVE  u[k] = (s \o t)[k]
  <2>1. CASE k <= c
    <3>1. k \in 1..c
      BY <2>1
    <3>2. u[k] = s[k]
      BY <3>1 DEF Ring
    <3> QED BY <1>5, <2>1, <3>2, Zenon
  <2>2. CASE ~(k <= c)
    <3>1. k - c \in 1..m /\ (k - c) - 1 \in Int /\ i + c \in Int
      BY <2>2
    <3>2. (j + ((k - c) - 1)) % S = ((i + c) + ((k - c) - 1)) % S
      <4>1. Shifted(j, i + c, (k - c) - 1, S)
        BY <3>1, ModShift, Zenon
      <4> QED BY <4>1, Zenon DEF Shifted
    <3>3. (i + c) + ((k - c) - 1) = i + k - 1
      OBVIOUS
    <3>4. u[k] = t[k - c]
      BY <3>1, <3>2, <3>3 DEF Ring
    <3> QED BY <1>5, <2>2, <3>4, Zenon
  <2> QED BY <2>1, <2>2, Zenon
<1> HIDE DEF s, t, u
<1>7. u = s \o t
  BY <1>4, <1>5, <1>6, SeqEqual, Zenon
<1> QED BY <1>7, Zenon DEF Joined, s, t, u

\* A shorter ring is the beginning of a longer one.
LEMMA RingCut ==
  ASSUME NEW S \in Nat \ {0}, NEW d, NEW i \in Int, NEW c \in Nat, NEW m \in Nat, m <= c
  PROVE  Cut(Ring(d, S, i, m), Ring(d, S, i, c), m)
<1> DEFINE B == {d[k] : k \in 0..(S - 1)}
           s == Ring(d, S, i, c)
           t == Ring(d, S, i, m)
<1>0. \A k \in 0..(S - 1) : d[k] \in B
  OBVIOUS
<1> HIDE DEF B
<1>1. s \in Seq(B) /\ Len(s) = c
  BY <1>0, RingSeq, RingLen, Zenon
<1>2. t \in Seq(B) /\ Len(t) = m
  BY <1>0, RingSeq, RingLen, Zenon
<1>3. /\ SubSeq(s, 1, m) \in Seq(B) /\ Len(SubSeq(s, 1, m)) = m
      /\ \A k \in 1..m : SubSeq(s, 1, m)[k] = s[k]
  <2> HIDE DEF s
  <2> QED BY <1>1
<1>4. \A k \in 1..m : t[k] = s[k]
  BY DEF Ring
<1> HIDE DEF s, t
<1>5. t = SubSeq(s, 1, m)
  BY <1>2, <1>3, <1>4, SeqEqual
<1> QED BY <1>5, Zenon DEF Cut, s, t

\* An entry stored behind a ring, where there is room, leaves it alone.
LEMMA RingSame ==
  ASSUME NEW S \in Nat \ {0}, NEW d, NEW f, NEW i \in Int, NEW c \in Nat, NEW m \in Nat,
         c <= m, m < S, SameBut(f, d, S, (i + m) % S)
  PROVE  Same(f, d, S, i, c)
<1>1. ASSUME NEW k \in 1..c
      PROVE  f[(i + k - 1) % S] = d[(i + k - 1) % S]
  <2>1. /\ i + k - 1 \in Int /\ i + m \in Int /\ i + k - 1 < i + m
        /\ (i + m) - (i + k - 1) < S
    OBVIOUS
  <2>2. (i + k - 1) % S # (i + m) % S
    BY <2>1, ModDiffer, Zenon
  <2>3. (i + k - 1) % S \in 0..(S - 1)
    BY <2>1
  <2> QED BY <2>2, <2>3, Zenon DEF SameBut
<1> QED BY <1>1, Zenon DEF Same

-----------------------------------------------------------------------------
(* The input buffer is a LineInput *)

\* How far the counter b is ahead of a.
Dist(a, b) == (b - a) % UINT

\* The values of a counter, and what consoleintr() stores.
Counter == 0..(UINT - 1)
Stored == {"eof", "nl", "x"}

\* The counters wrap at a multiple of the size of the buffer.
LEMMA Sizes ==
  /\ INPUT_BUF \in Nat \ {0} /\ UINT \in Nat \ {0} /\ INPUT_BUF < UINT
  /\ UINT % INPUT_BUF = 0
  BY ConsoleAssumption

\* The distance, counter by counter, ...
LEMMA DistIs ==
  ASSUME NEW a \in Counter, NEW b \in Counter
  PROVE  Dist(a, b) = IF a <= b THEN b - a ELSE (b - a) + UINT
<1> USE Sizes DEF Counter
<1>1. CASE a <= b
  <2>1. b - a \in Int /\ 0 <= b - a /\ b - a < UINT
    BY <1>1
  <2> QED BY <1>1, <2>1, WrapsNot, Zenon DEF Dist
<1>2. CASE ~(a <= b)
  <2>1. b - a \in Int /\ -UINT <= b - a /\ b - a < 0
    BY <1>2
  <2> QED BY <1>2, <2>1, WrapsUnder, Zenon DEF Dist
<1> QED BY <1>1, <1>2, Zenon

\* ... the next value of a counter, ...
LEMMA NextIs ==
  ASSUME NEW a \in Counter
  PROVE  (a + 1) % UINT = IF a + 1 = UINT THEN 0 ELSE a + 1
<1> USE Sizes DEF Counter
<1>1. CASE a + 1 = UINT
  <2>1. a + 1 \in Int /\ UINT <= a + 1 /\ a + 1 < 2 * UINT /\ (a + 1) - UINT = 0
    BY <1>1
  <2>2. (a + 1) % UINT = (a + 1) - UINT
    BY <2>1, WrapsOver, Zenon
  <2> QED BY <1>1, <2>1, <2>2, Zenon
<1>2. CASE a + 1 # UINT
  <2>1. a + 1 \in Int /\ 0 <= a + 1 /\ a + 1 < UINT
    BY <1>2
  <2> QED BY <1>2, <2>1, WrapsNot, Zenon
<1> QED BY <1>1, <1>2, Zenon

\* ... and one that went back.
LEMMA BackIs ==
  ASSUME NEW a \in Counter, NEW k \in Counter
  PROVE  (a - k) % UINT = IF k <= a THEN a - k ELSE (a - k) + UINT
<1>1. (a - k) % UINT = Dist(k, a)
  BY Zenon DEF Dist
<1> QED BY <1>1, DistIs, Zenon

\* Both are counters, and the distance is a number below UINT.
LEMMA Counters ==
  ASSUME NEW a \in Counter, NEW b \in Counter
  PROVE  (a + 1) % UINT \in Counter /\ (a - b) % UINT \in Counter /\ Dist(a, b) \in Counter
  BY Sizes DEF Counter, Dist

\* Distances add up, as long as they do not wrap together.
LEMMA DistSum ==
  ASSUME NEW a \in Counter, NEW b \in Counter, NEW c \in Counter,
         Dist(a, b) + Dist(b, c) < UINT
  PROVE  Dist(a, c) = Dist(a, b) + Dist(b, c)
  BY Sizes, DistIs DEF Counter

\* The end of a stretch moves on, ...
LEMMA DistGrows ==
  ASSUME NEW a \in Counter, NEW b \in Counter, Dist(a, b) + 1 < UINT
  PROVE  Dist(a, (b + 1) % UINT) = Dist(a, b) + 1
<1> DEFINE x == (b + 1) % UINT
<1>1. x = IF b + 1 = UINT THEN 0 ELSE b + 1
  BY NextIs, Zenon
<1>2. x \in Counter
  BY Counters, Zenon
<1> HIDE DEF x
<1>3. Dist(a, x) = IF a <= x THEN x - a ELSE (x - a) + UINT
  BY <1>2, DistIs, Zenon
<1>4. Dist(a, b) = IF a <= b THEN b - a ELSE (b - a) + UINT
  BY DistIs, Zenon
<1>5. Dist(a, x) = Dist(a, b) + 1
  BY <1>1, <1>2, <1>3, <1>4, Sizes DEF Counter
<1> QED BY <1>5, Zenon DEF x

\* ... its end moves back, ...
LEMMA DistShrinks ==
  ASSUME NEW a \in Counter, NEW b \in Counter, NEW k \in Counter, k <= Dist(a, b)
  PROVE  Dist(a, (b - k) % UINT) = Dist(a, b) - k
<1> DEFINE x == (b - k) % UINT
<1>1. x = IF k <= b THEN b - k ELSE (b - k) + UINT
  BY BackIs, Zenon
<1>2. x \in Counter
  BY Counters, Zenon
<1> HIDE DEF x
<1>3. Dist(a, x) = IF a <= x THEN x - a ELSE (x - a) + UINT
  BY <1>2, DistIs, Zenon
<1>4. Dist(a, b) = IF a <= b THEN b - a ELSE (b - a) + UINT
  BY DistIs, Zenon
<1>5. Dist(a, x) = Dist(a, b) - k
  BY <1>1, <1>2, <1>3, <1>4, Sizes DEF Counter
<1> QED BY <1>5, Zenon DEF x

\* ... or its beginning moves on.
LEMMA DistDrops ==
  ASSUME NEW a \in Counter, NEW b \in Counter, a # b
  PROVE  Dist((a + 1) % UINT, b) = Dist(a, b) - 1 /\ Dist(a, b) > 0
<1> DEFINE x == (a + 1) % UINT
<1>1. x = IF a + 1 = UINT THEN 0 ELSE a + 1
  BY NextIs, Zenon
<1>2. x \in Counter
  BY Counters, Zenon
<1> HIDE DEF x
<1>3. Dist(x, b) = IF x <= b THEN b - x ELSE (b - x) + UINT
  BY <1>2, DistIs, Zenon
<1>4. Dist(a, b) = IF a <= b THEN b - a ELSE (b - a) + UINT
  BY DistIs, Zenon
<1>5. Dist(x, b) = Dist(a, b) - 1 /\ Dist(a, b) > 0
  BY <1>1, <1>2, <1>3, <1>4, Sizes DEF Counter
<1> QED BY <1>5, Zenon DEF x

\* The test of consoleintr() for a full buffer compares wrapped counters.
LEMMA FullIs ==
  ASSUME NEW a \in Counter, NEW b \in Counter, Dist(a, b) < INPUT_BUF
  PROVE  (b + 1) % UINT = (a + INPUT_BUF) % UINT <=> Dist(a, b) + 1 = INPUT_BUF
<1>1. (a + INPUT_BUF) % UINT = IF a + INPUT_BUF < UINT THEN a + INPUT_BUF ELSE (a + INPUT_BUF) - UINT
  <2> USE Sizes DEF Counter
  <2>1. CASE a + INPUT_BUF < UINT
    <3>1. a + INPUT_BUF \in Int /\ 0 <= a + INPUT_BUF
      OBVIOUS
    <3> QED BY <2>1, <3>1, WrapsNot, Zenon
  <2>2. CASE ~(a + INPUT_BUF < UINT)
    <3>1. a + INPUT_BUF \in Int /\ UINT <= a + INPUT_BUF /\ a + INPUT_BUF < 2 * UINT
      BY <2>2
    <3> QED BY <2>2, <3>1, WrapsOver, Zenon
  <2> QED BY <2>1, <2>2, Zenon
<1> HIDE DEF Counter
<1>2. (b + 1) % UINT = IF b + 1 = UINT THEN 0 ELSE b + 1
  BY NextIs, Zenon
<1>3. Dist(a, b) = IF a <= b THEN b - a ELSE (b - a) + UINT
  BY DistIs, Zenon
<1> QED BY <1>1, <1>2, <1>3, Sizes DEF Counter

\* Going that far from a leads to the index of b.
LEMMA DistIndex ==
  ASSUME NEW a \in Counter, NEW b \in Counter
  PROVE  (a + Dist(a, b)) % INPUT_BUF = b % INPUT_BUF
<1>1. a + Dist(a, b) = b \/ a + Dist(a, b) = b + UINT
  BY DistIs, Sizes DEF Counter
<1>2. PICK k \in Int : UINT = INPUT_BUF * k + (UINT % INPUT_BUF)
  <2>1. UINT \in Int
    BY Sizes
  <2> QED BY <2>1, Sizes, ModDef, Zenon
<1>3. (b + INPUT_BUF * k) % INPUT_BUF = b % INPUT_BUF
  <2>1. b \in Int
    BY Sizes DEF Counter
  <2> QED BY <2>1, Sizes, ModMultiple, Zenon
<1>4. UINT = INPUT_BUF * k
  BY <1>2, Sizes
<1> QED BY <1>1, <1>3, <1>4, Zenon

\* The finished input and the line under edition fit in the buffer, the line has
\* no newline, and a character that consoleintr() has accepted and now echoes
\* will still find what it was accepted for: it holds cons.lock all the while.
InInv ==
  /\ buf \in [0..(INPUT_BUF - 1) -> Stored]
  /\ r \in Counter /\ w \in Counter /\ e \in Counter
  /\ rhr \in Seq(Keys)
  /\ Dist(r, w) + Dist(w, e) <= INPUT_BUF
  /\ \A k \in 1..Dist(w, e) : buf[(w + k - 1) % INPUT_BUF] # "nl"
  /\ handler \in {"echo", "thr"} =>
       char \in Keys /\ Accepts(char) /\ \A p \in Procs : pc[p] # "read"

\* An empty ring.
LEMMA RingEmpty ==
  ASSUME NEW d, NEW S, NEW i
  PROVE  Ring(d, S, i, 0) = <<>>
<1>1. Len(Ring(d, S, i, 0)) = 0
  BY RingLen
<1>2. Ring(d, S, i, 0) \in Seq({})
  BY DEF Ring
<1> QED BY <1>1, <1>2, EmptySeq, Zenon

\* The two sequences of LineInput are stretches of the ring, before a step ...
LEMMA Stretch ==
  /\ Buffered(r, w) = Ring(buf, INPUT_BUF, r, Dist(r, w))
  /\ Buffered(w, e) = Ring(buf, INPUT_BUF, w, Dist(w, e))
  BY Zenon DEF Buffered, Ring, Dist

\* ... and after it.
LEMMA StretchNext ==
  /\ Buffered(r, w)' = Ring(buf', INPUT_BUF, r', Dist(r', w'))
  /\ Buffered(w, e)' = Ring(buf', INPUT_BUF, w', Dist(w', e'))
  BY Zenon DEF Buffered, Ring, Dist

\* A distance is a natural number, and none from a counter to itself.
LEMMA DistNat ==
  ASSUME NEW a \in Counter, NEW b \in Counter
  PROVE  Dist(a, b) \in Nat /\ a \in Int /\ Dist(a, a) = 0
  BY DistIs, Sizes DEF Counter

\* The buffer starts empty.
LEMMA InputInit == Init => InInv /\ L!Init
<1> SUFFICES ASSUME Init PROVE InInv /\ L!Init
  OBVIOUS
<1>1. 0 \in Counter
  BY Sizes DEF Counter
<1>2. Dist(0, 0) = 0
  BY <1>1, DistNat, Zenon
<1>3. InInv
  BY <1>1, <1>2, Sizes DEF Init, InInv, Stored
<1>4. r = 0 /\ w = 0 /\ e = 0
  BY Zenon DEF Init
<1>5. Buffered(r, w) = <<>> /\ Buffered(w, e) = <<>>
  BY <1>2, <1>4, Stretch, RingEmpty, Zenon
<1> QED BY <1>3, <1>5, Zenon DEF L!Init

\* Whoever leaves the input buffer alone, and does not read while a character
\* is echoed.
LEMMA InputFrame ==
  ASSUME InInv, UNCHANGED consVars, rhr' \in Seq(Keys),
         handler' \in {"echo", "thr"} =>
           char' \in Keys /\ Accepts(char') /\ \A p \in Procs : pc'[p] # "read"
  PROVE  InInv' /\ UNCHANGED <<Buffered(r, w), Buffered(w, e)>>
<1>0. buf' = buf /\ r' = r /\ w' = w /\ e' = e
  BY Zenon DEF consVars
<1>1. InInv'
  BY <1>0, Zenon DEF InInv, Accepts, HasRoom, Dist
<1> QED BY <1>0, <1>1, Stretch, StretchNext, Zenon

\* The device, uartstart(), and the handler before and after it changes the
\* buffer.
LEMMA QuietInput ==
  ASSUME IInv, InInv,
         \/ DeviceReceive \/ DeviceSend \/ StartReturn \/ StartTake \/ StartSend
         \/ IntrClaim \/ IntrGet \/ IntrEcho \/ IntrStart
  PROVE  InInv' /\ UNCHANGED <<Buffered(r, w), Buffered(w, e)>>
<1>1. UNCHANGED consVars
  BY Zenon DEF DeviceReceive, DeviceSend, StartReturn, StartTake, StartSend,
               IntrClaim, IntrGet, IntrEcho, IntrStart
<1>2. rhr' \in Seq(Keys)
  <2>1. rhr \in Seq(Keys)
    BY Zenon DEF InInv
  <2>2. \A c \in Keys : Append(rhr, c) \in Seq(Keys)
    BY <2>1, AppendProperties, Zenon
  <2>3. rhr # <<>> => Tail(rhr) \in Seq(Keys)
    BY <2>1, HeadTailProperties, Zenon
  <2> QED BY <2>1, <2>2, <2>3, Zenon
          DEF DeviceReceive, DeviceSend, StartReturn, StartTake, StartSend,
              IntrClaim, IntrGet, IntrEcho, IntrStart, uartVars
<1>3. handler' \in {"echo", "thr"} =>
        char' \in Keys /\ Accepts(char') /\ \A p \in Procs : pc'[p] # "read"
  <2>1. CASE IntrGet
    <3>1. rhr # <<>> => Head(rhr) \in Keys
      BY HeadTailProperties, Zenon DEF InInv
    <3> QED BY <2>1, <3>1, Zenon DEF IntrGet, ConsFree, intrVars, procVars
  <2>2. CASE IntrClaim \/ IntrEcho \/ IntrStart \/ DeviceReceive \/ DeviceSend \/ StartSend
    BY <2>2, Zenon DEF InInv, IntrClaim, IntrEcho, IntrStart, DeviceReceive, DeviceSend,
                       StartSend, intrVars, procVars
  <2>3. CASE StartReturn
    BY <2>3, Zenon DEF InInv, StartReturn, IInv, Types
  <2>4. CASE StartTake
    BY <2>4, Zenon DEF InInv, StartTake, WakeWriters, intrVars
  <2> QED BY <2>1, <2>2, <2>3, <2>4, Zenon
<1> QED BY <1>1, <1>2, <1>3, InputFrame, Zenon

\* The processes, but for consoleread() of a character.
LEMMA ProcessInput ==
  ASSUME IInv, InInv, NEW p \in Procs, Process(p), ~ReadChar(p)
  PROVE  InInv' /\ UNCHANGED <<Buffered(r, w), Buffered(w, e)>>
<1>1. UNCHANGED <<consVars, intrVars, rhr>>
  BY Zenon DEF Process, Read, Write, Call, ReadAcquire, ReadWait, ReadKilled, ReadDone,
               PutSleep, Put, WriteDone, Kill, uartVars
<1>2. /\ rhr' \in Seq(Keys) /\ handler' = handler /\ char' = char /\ UNCHANGED consVars
  BY <1>1, Zenon DEF InInv, intrVars
<1>3. ASSUME NEW q \in Procs, pc'[q] = "read", handler \in {"echo", "thr"}
      PROVE  pc[q] = "read"
  BY <1>3, Zenon
  DEF Process, Read, Write, Call, ReadAcquire, ReadWait, ReadKilled, ReadDone,
      PutSleep, Put, WriteDone, Kill, Goes, Return, ConsFree, IInv, Types, Pcs
<1>4. handler' \in {"echo", "thr"} =>
        char' \in Keys /\ Accepts(char') /\ \A q \in Procs : pc'[q] # "read"
  BY <1>2, <1>3, Zenon DEF InInv
<1> QED BY <1>2, <1>4, InputFrame, Zenon

\* consoleread() of one character takes the first of the finished input, or puts
\* an end of file back.
LEMMA ReadRefines ==
  ASSUME InInv, NEW p \in Procs, ReadChar(p)
  PROVE  /\ InInv'
         /\ L!Next \/ UNCHANGED <<Buffered(r, w), Buffered(w, e)>>
<1>0. /\ buf' = buf /\ w' = w /\ e' = e /\ rhr' = rhr /\ handler' = handler
      /\ pc[p] = "read" /\ r # w
      /\ r' = r \/ r' = (r + 1) % UINT
  BY Zenon DEF ReadChar, intrVars, uartVars
<1>1. handler' \notin {"echo", "thr"} /\ rhr' \in Seq(Keys)
  BY <1>0, Zenon DEF InInv
<1>2. CASE r' = r
  <2>1. UNCHANGED consVars
    BY <1>0, <1>2, Zenon DEF consVars
  <2> QED BY <1>1, <2>1, InputFrame, Zenon
<1>3. CASE r' = (r + 1) % UINT
  <2>0. r \in Counter /\ w \in Counter /\ e \in Counter /\ r' \in Counter
    BY <1>3, Counters, Zenon DEF InInv
  <2>1. Dist(r', w) = Dist(r, w) - 1 /\ Dist(r, w) > 0
    BY <1>0, <1>3, <2>0, DistDrops, Zenon
  <2>2. Dist(r, w) \in Nat /\ Dist(w, e) \in Nat /\ r \in Int /\ r' \in Int
    BY <2>0, DistNat, Zenon
  <2>3. Dist(r', w) + Dist(w, e) <= INPUT_BUF
    <3>1. Dist(r, w) + Dist(w, e) <= INPUT_BUF
      BY Zenon DEF InInv
    <3> QED BY <2>1, <2>2, <3>1, Sizes
  <2>4. InInv'
    BY <1>0, <1>1, <2>0, <2>3, Zenon DEF InInv, Dist
  <2>5. r' % INPUT_BUF = (r + 1) % INPUT_BUF
    <3>1. r + 1 \in Int
      BY <2>2
    <3> QED BY <1>3, <3>1, Sizes, WrapKeepsIndex, Zenon
  <2>6. Popped(Ring(buf, INPUT_BUF, r', Dist(r, w) - 1), Ring(buf, INPUT_BUF, r, Dist(r, w)))
    BY <2>1, <2>2, <2>5, Sizes, RingPop, Zenon
  <2>7. Buffered(r, w)' = Tail(Buffered(r, w))
    BY <1>0, <2>1, <2>6, Stretch, StretchNext, Zenon DEF Popped
  <2>8. Buffered(r, w) # <<>>
    BY <2>1, <2>2, Stretch, RingNonempty, Zenon
  <2>9. UNCHANGED Buffered(w, e)
    BY <1>0, Stretch, StretchNext, Zenon
  <2> QED BY <2>4, <2>7, <2>8, <2>9, Zenon DEF L!Next, L!Take
<1> QED BY <1>0, <1>2, <1>3, Zenon

\* ^U erases the whole line: there is no newline in it to stop at.
LEMMA KillsLine ==
  ASSUME InInv
  PROVE  Erased = Dist(w, e)
<1> DEFINE M == {k \in 0..Dist(w, e) : \A j \in 1..k : buf[(e - j) % INPUT_BUF] # "nl"}
<1>0. r \in Counter /\ w \in Counter /\ e \in Counter
  BY Zenon DEF InInv
<1>1. Dist(w, e) \in Nat /\ w \in Int /\ e \in Int
  BY <1>0, DistNat, Zenon
<1>2. ASSUME NEW j \in 1..Dist(w, e)
      PROVE  buf[(e - j) % INPUT_BUF] # "nl"
  <2>1. /\ -j \in Int /\ w + Dist(w, e) \in Int /\ (Dist(w, e) - j) + 1 \in 1..Dist(w, e)
        /\ e + (-j) = e - j /\ (w + Dist(w, e)) + (-j) = w + ((Dist(w, e) - j) + 1) - 1
    BY <1>1
  <2>2. (w + Dist(w, e)) % INPUT_BUF = e % INPUT_BUF
    BY <1>0, DistIndex, Zenon
  <2>3. ((w + Dist(w, e)) + (-j)) % INPUT_BUF = (e + (-j)) % INPUT_BUF
    <3>1. Shifted(w + Dist(w, e), e, -j, INPUT_BUF)
      BY <1>1, <2>1, <2>2, Sizes, ModShift, Zenon
    <3> QED BY <3>1, Zenon DEF Shifted
  <2>4. (w + ((Dist(w, e) - j) + 1) - 1) % INPUT_BUF = (e - j) % INPUT_BUF
    BY <2>1, <2>3, Zenon
  <2>5. buf[(w + ((Dist(w, e) - j) + 1) - 1) % INPUT_BUF] # "nl"
    BY <2>1, Zenon DEF InInv
  <2> QED BY <2>4, <2>5, Zenon
<1>3. Dist(w, e) \in M /\ \A k \in M : Dist(w, e) >= k /\ k \in Nat
  BY <1>1, <1>2
<1>4. Erased = Max(M)
  BY Zenon DEF Erased, Dist
<1> HIDE DEF M
<1>5. \A y \in M : Max(M) >= y
  <2>1. \E x \in M : \A y \in M : x >= y
    BY <1>3
  <2> QED BY <2>1, Zenon DEF Max
<1>6. Max(M) \in M
  <2>1. \E x \in M : \A y \in M : x >= y
    BY <1>3
  <2> QED BY <2>1, Zenon DEF Max
<1> QED BY <1>1, <1>3, <1>4, <1>5, <1>6

\* Backspace and ^U erase the last character, or all, of the line under edition,
\* which is not empty.
LEMMA EraseRefines ==
  ASSUME InInv, IntrErase
  PROVE  InInv' /\ L!Next
<1> DEFINE k == IF char = "bs" THEN 1 ELSE Erased
           D == Dist(w, e)
<1>0. /\ buf' = buf /\ w' = w /\ r' = r /\ rhr' = rhr /\ handler' = "get"
      /\ e' = (e - k) % UINT /\ e # w
      /\ r \in Counter /\ w \in Counter /\ e \in Counter
  BY Zenon DEF InInv, IntrErase, Accepts
<1>1. D \in Nat /\ D > 0 /\ D \in Counter /\ w \in Int /\ 1 \in Counter
  <2>1. D \in Nat /\ D \in Counter /\ w \in Int
    BY <1>0, DistNat, Counters, Zenon
  <2>2. D > 0
    BY <1>0, DistDrops, Zenon
  <2>3. 1 \in Counter
    BY <2>1, <2>2, Sizes DEF Counter
  <2> QED BY <2>1, <2>2, <2>3, Zenon
<1>2. k \in {1, D}
  BY KillsLine, Zenon
<1> HIDE DEF k
<1>3. k \in Nat /\ k <= D /\ k \in Counter /\ D - k \in Nat /\ D - k <= D
  BY <1>1, <1>2
<1> HIDE DEF D
<1>4. Dist(w, e') = D - k
  BY <1>0, <1>3, DistShrinks, Zenon DEF D
<1>5. InInv'
  <2>1. e' \in Counter
    BY <1>0, <1>3, Counters, Zenon
  <2>2. Dist(r, w) + Dist(w, e') <= INPUT_BUF
    <3>1. Dist(r, w) + D <= INPUT_BUF /\ Dist(r, w) \in Nat
      BY <1>0, DistNat, Zenon DEF InInv, D
    <3> QED BY <1>1, <1>3, <1>4, <3>1, Sizes
  <2>3. \A j \in 1..(D - k) : buf[(w + j - 1) % INPUT_BUF] # "nl"
    <3>1. \A j \in 1..(D - k) : j \in 1..D
      BY <1>1, <1>3
    <3> QED BY <3>1, Zenon DEF InInv, D
  <2> QED BY <1>0, <1>4, <2>1, <2>2, <2>3, Zenon DEF InInv, Dist
<1>6. Cut(Ring(buf, INPUT_BUF, w, D - k), Ring(buf, INPUT_BUF, w, D), D - k)
  BY <1>1, <1>3, Sizes, RingCut, Zenon
<1>7. Buffered(w, e)' = SubSeq(Buffered(w, e), 1, D - k)
  BY <1>0, <1>4, <1>6, Stretch, StretchNext, Zenon DEF Cut, D
<1>8. Len(Buffered(w, e)) = D
  <2>1. Len(Ring(buf, INPUT_BUF, w, D)) = D
    BY <1>1, RingLen, Zenon
  <2>2. Buffered(w, e) = Ring(buf, INPUT_BUF, w, D)
    BY Stretch, Zenon DEF D
  <2> QED BY <2>1, <2>2, Zenon
<1>9. UNCHANGED Buffered(r, w)
  BY <1>0, Stretch, StretchNext, Zenon
<1> QED BY <1>2, <1>3, <1>5, <1>7, <1>8, <1>9, Zenon DEF L!Next, L!Erase

\* A character that was accepted finds room: it goes behind the line under
\* edition, which a newline, an end of file or the last free place completes.
LEMMA StoreRefines ==
  ASSUME IInv, InInv, IntrStore
  PROVE  InInv' /\ L!Next
<1> DEFINE A == Dist(r, w)
           D == Dist(w, e)
           S == INPUT_BUF
           line == Ring(buf', S, w, D + 1)
           next == (e + 1) % UINT
<1>0. /\ r' = r /\ rhr' = rhr /\ handler' = "get" /\ e' = next
      /\ r \in Counter /\ w \in Counter /\ e \in Counter /\ next \in Counter
      /\ buf' = [buf EXCEPT ![e % S] = char] /\ buf \in [0..(S - 1) -> Stored]
      /\ char \in Stored /\ HasRoom
  BY Counters, Zenon DEF InInv, IntrStore, Accepts, Keys, Stored
<1>1. /\ A \in Nat /\ D \in Nat /\ r \in Int /\ w \in Int /\ e \in Int /\ A + D <= S
      /\ Dist(next, next) = 0
  BY <1>0, DistNat, Zenon DEF InInv
<1> HIDE DEF next
<1>2. Dist(r, e) = A + D /\ A + D < S
  <2>1. Dist(r, w) + Dist(w, e) < UINT
    BY <1>1, Sizes
  <2>2. Dist(r, e) = A + D
    BY <1>0, <2>1, DistSum, Zenon
  <2> QED BY <1>0, <2>2, Zenon DEF HasRoom, Dist
<1>3. /\ A + D \in Nat /\ D + 1 \in Nat /\ D < S /\ (A + D) + 1 = A + (D + 1)
      /\ A + D + 1 < UINT /\ D + 1 < UINT /\ A <= A + D /\ D <= D /\ A + (D + 1) <= S
  <2> HIDE DEF A, D
  <2> QED BY <1>1, <1>2, Sizes
<1>4. Dist(w, next) = D + 1 /\ Dist(r, next) = A + (D + 1)
  <2>1. Dist(w, next) = D + 1
    BY <1>0, <1>3, DistGrows, Zenon DEF next
  <2>2. Dist(r, e) + 1 < UINT /\ Dist(r, e) + 1 = A + (D + 1)
    BY <1>2, <1>3, Zenon
  <2>3. Dist(r, next) = Dist(r, e) + 1
    BY <1>0, <2>2, DistGrows, Zenon DEF next
  <2> QED BY <2>1, <2>2, <2>3, Zenon
<1>5. Commits(char) <=> char \in {"nl", "eof"} \/ A + (D + 1) = S
  <2>1. next = (r + S) % UINT <=> Dist(r, e) + 1 = S
    BY <1>0, <1>2, FullIs, Zenon DEF next
  <2>2. Dist(r, e) + 1 = A + (D + 1)
    BY <1>2, <1>3, Zenon
  <2> QED BY <2>1, <2>2, Zenon DEF Commits, next
<1>6. /\ (w + D) % S = e % S /\ (r + (A + D)) % S = e % S /\ w % S = (r + A) % S
  <2>1. (w + D) % S = e % S /\ (r + A) % S = w % S /\ (r + Dist(r, e)) % S = e % S
    BY <1>0, DistIndex, Zenon
  <2> QED BY <1>2, <2>1, Zenon
<1>7. SameBut(buf', buf, S, e % S) /\ buf'[e % S] = char /\ buf' \in [0..(S - 1) -> Stored]
  <2>1. e % S \in 0..(S - 1)
    BY <1>1, Sizes
  <2> QED BY <1>0, <2>1, Zenon DEF SameBut
<1> HIDE DEF A, D
<1>8. SameBut(buf', buf, S, (w + D) % S) /\ SameBut(buf', buf, S, (r + (A + D)) % S)
  BY <1>6, <1>7, Zenon
<1>9. S \in Nat \ {0}
  BY Sizes, Zenon
<1> HIDE DEF S
<1>10. line = Append(Ring(buf, S, w, D), char)
  <2>1. Pushed(Ring(buf', S, w, D + 1), Ring(buf, S, w, D), buf'[(w + D) % S])
    BY <1>1, <1>3, <1>8, <1>9, RingPush, Zenon
  <2> QED BY <1>6, <1>7, <2>1, Zenon DEF Pushed
<1>11. Ring(buf', S, r, A) = Ring(buf, S, r, A)
  <2>1. Same(buf', buf, S, r, A)
    BY <1>1, <1>2, <1>3, <1>8, <1>9, RingSame, Zenon
  <2> QED BY <2>1, Zenon DEF Same, Ring
<1>12. Joined(Ring(buf', S, r, A + (D + 1)), Ring(buf', S, r, A), line)
  <2>1. r \in Int /\ A \in Nat /\ D + 1 \in Nat /\ w \in Int /\ w % S = (r + A) % S
    BY <1>1, <1>3, <1>6, Zenon
  <2> QED BY <1>9, <2>1, RingConcat, Zenon
<1>13. Len(line) = D + 1 /\ Len(Ring(buf, S, w, D)) = D /\ Len(Ring(buf, S, r, A)) = A
  BY <1>1, <1>3, RingLen, Zenon
<1>14. /\ Buffered(r, w) = Ring(buf, S, r, A) /\ Buffered(w, e) = Ring(buf, S, w, D)
       /\ Buffered(r, w)' = Ring(buf', S, r, Dist(r, w'))
       /\ Buffered(w, e)' = Ring(buf', S, w', Dist(w', next))
  BY <1>0, Stretch, StretchNext, Zenon DEF A, D, S
<1>15. char \in Stored /\ Len(Buffered(r, w)) + Len(Buffered(w, e)) < INPUT_BUF
  BY <1>0, <1>2, <1>13, <1>14, Zenon DEF S
<1>16. CASE Commits(char)
  <2>1. w' = next
    BY <1>16, Zenon DEF IntrStore, next
  <2>2. InInv'
    <3>1. Dist(r, next) + Dist(next, next) <= S
      BY <1>1, <1>3, <1>4
    <3>2. \A k \in 1..Dist(next, next) : FALSE
      BY <1>1
    <3> QED BY <1>0, <1>7, <2>1, <3>1, <3>2, Zenon DEF InInv, Dist, S
  <2>3. Buffered(r, w)' = Buffered(r, w) \o line /\ Buffered(w, e)' = <<>>
    BY <1>1, <1>4, <1>11, <1>12, <1>14, <2>1, RingEmpty, Zenon DEF Joined
  <2>4. char \in {"nl", "eof"} \/ Len(Buffered(r, w)) + Len(line) = INPUT_BUF
    BY <1>5, <1>13, <1>14, <1>16, Zenon DEF S
  <2> HIDE DEF line
  <2>5. L!Type(char)
    BY <1>10, <1>14, <1>15, <2>3, <2>4, Zenon DEF L!Type
  <2> QED BY <1>15, <2>2, <2>5, Zenon DEF L!Next, Stored
<1>17. CASE ~Commits(char)
  <2>1. w' = w
    BY <1>17, Zenon DEF IntrStore
  <2>2. InInv'
    <3>1. Dist(r, w) + Dist(w, next) <= S
      BY <1>3, <1>4, Zenon DEF A
    <3>2. ASSUME NEW k \in 1..(D + 1)
          PROVE  buf'[(w + k - 1) % S] # "nl"
      <4>1. k \in 1..D \/ w + k - 1 = w + D
        BY <1>1
      <4>2. Same(buf', buf, S, w, D)
        BY <1>1, <1>3, <1>8, <1>9, RingSame, Zenon
      <4>3. CASE k \in 1..D
        <5>1. buf[(w + k - 1) % S] # "nl"
          BY <4>3, Zenon DEF InInv, D, S
        <5> QED BY <4>2, <4>3, <5>1, Zenon DEF Same
      <4>4. CASE w + k - 1 = w + D
        <5>1. char # "nl"
          BY <1>5, <1>17, Zenon
        <5> QED BY <1>6, <1>7, <4>4, <5>1, Zenon
      <4> QED BY <4>1, <4>3, <4>4, Zenon
    <3> QED BY <1>0, <1>4, <1>7, <2>1, <3>1, <3>2, Zenon DEF InInv, Dist, S
  <2>3. Buffered(r, w)' = Buffered(r, w) /\ Buffered(w, e)' = line
    BY <1>4, <1>11, <1>14, <2>1, Zenon DEF A
  <2>4. ~(char \in {"nl", "eof"} \/ Len(Buffered(r, w)) + Len(line) = INPUT_BUF)
    BY <1>5, <1>13, <1>14, <1>17, Zenon DEF S
  <2> HIDE DEF line
  <2>5. L!Type(char)
    BY <1>10, <1>14, <1>15, <2>3, <2>4, Zenon DEF L!Type
  <2> QED BY <1>15, <2>2, <2>5, Zenon DEF L!Next, Stored
<1> QED BY <1>16, <1>17, Zenon

\* Every step is one of LineInput, or none that it sees.
LEMMA InputRefines ==
  ASSUME IInv, InInv, [Next]_vars
  PROVE  /\ InInv'
         /\ L!Next \/ UNCHANGED <<Buffered(r, w), Buffered(w, e)>>
<1>1. CASE \/ DeviceReceive \/ DeviceSend \/ StartReturn \/ StartTake \/ StartSend
           \/ IntrClaim \/ IntrGet \/ IntrEcho \/ IntrStart
  BY <1>1, QuietInput, Zenon
<1>2. CASE IntrErase
  BY <1>2, EraseRefines, Zenon
<1>3. CASE IntrStore
  BY <1>3, StoreRefines, Zenon
<1>4. ASSUME NEW p \in Procs, Process(p)
      PROVE  InInv' /\ (L!Next \/ UNCHANGED <<Buffered(r, w), Buffered(w, e)>>)
  BY <1>4, ReadRefines, ProcessInput, Zenon
<1>5. CASE UNCHANGED vars
  <2>1. UNCHANGED consVars /\ rhr' = rhr /\ handler' = handler /\ char' = char /\ pc' = pc
    BY <1>5, Zenon DEF vars, consVars, intrVars, uartVars, procVars
  <2>2. /\ rhr' \in Seq(Keys)
        /\ handler' \in {"echo", "thr"} =>
             char' \in Keys /\ Accepts(char') /\ \A p \in Procs : pc'[p] # "read"
    BY <2>1, Zenon DEF InInv
  <2> QED BY <2>1, <2>2, InputFrame, Zenon
<1> QED BY <1>1, <1>2, <1>3, <1>4, <1>5, Zenon DEF Next

\* console.c: the ring buffer and its three wrapping indices are a line under
\* edition and a queue of finished input.  No character is overwritten, erasing
\* stops at the finished input, and a full buffer goes to the readers.
THEOREM LineRefinement == Spec => ImplementsLineInput
<1>1. Init => InInv /\ L!Init
  BY InputInit
<1>2. IInv /\ InInv /\ [Next]_vars => InInv' /\ [L!Next]_<<Buffered(r, w), Buffered(w, e)>>
  BY InputRefines, Zenon
<1> QED BY <1>1, <1>2, Invariant, PTL DEF Spec, ImplementsLineInput, L!Spec

=============================================================================
