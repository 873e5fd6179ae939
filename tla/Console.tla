------------------------------ MODULE Console ------------------------------
(***************************************************************************)
(* The console and its UART, console.c and uart.c: processes that read and *)
(* write, the interrupt handler, and the device, in any order.             *)
(*                                                                         *)
(* The handler and a process in consoleread() hold cons.lock from one of   *)
(* their steps to the next; uartstart() holds uart_tx_lock.                *)
(***************************************************************************)
EXTENDS Integers, Sequences, FiniteSetsExt

CONSTANTS
  Procs,
  INPUT_BUF, UART_TX_BUF_SIZE,
  UINT,        \* where the counters of the input buffer wrap
  Reads,       \* the sizes that processes ask read()
  Writes,      \* and write() for
  RXFIFO,      \* what the receiver of the device holds
  MaxSpent     \* bound on keys typed, reads, characters written and kills

\* Callers of uartstart() besides the processes.
Nobody == "nobody"
Handler == "handler"

ASSUME ConsoleAssumption ==
  /\ INPUT_BUF \in Nat \ {0} /\ UART_TX_BUF_SIZE \in Nat \ {0}
  /\ UINT \in Nat /\ UINT > INPUT_BUF /\ UINT % INPUT_BUF = 0
  /\ Reads \subseteq Nat /\ Writes \subseteq Nat
  /\ Handler \notin Procs

VARIABLES
  buf, r, w, e,             \* cons: the input buffer
  tx_buf, tx_r, tx_w,       \* the output buffer
  start, caller, inhand,    \* uartstart(): where, for whom, with what character
  handler, char,            \* the interrupt handler, and its character
  rhr, thr, irq,            \* the device, and whether it asks for an interrupt
  pc, n, target, killed,    \* the call that each process is in
  sent,                     \* how many characters of write()s have left the device
  spent                     \* how much of MaxSpent was used

consVars == <<buf, r, w, e>>
txVars == <<tx_buf, tx_r, tx_w>>
startVars == <<start, caller, inhand>>
intrVars == <<handler, char>>
uartVars == <<rhr, thr, irq>>
procVars == <<pc, n, target, killed>>

vars == <<consVars, txVars, startVars, intrVars, uartVars, procVars, sent, spent>>

\* ^D, newline and carriage return, ^U, backspace, any other character, and
\* those that leave the buffer alone: NUL, and ^P, which prints.
Keys == {"eof", "nl", "kill", "bs", "x", "nul"}

Init ==
  /\ buf = [k \in 0..(INPUT_BUF - 1) |-> "x"] /\ r = 0 /\ w = 0 /\ e = 0
  /\ tx_buf = [k \in 0..(UART_TX_BUF_SIZE - 1) |-> 0] /\ tx_r = 0 /\ tx_w = 0
  /\ start = "none" /\ caller = Nobody /\ inhand = 0
  /\ handler = "none" /\ char = "x"
  /\ rhr = <<>> /\ thr = <<>> /\ irq = FALSE
  /\ pc = [p \in Procs |-> "user"] /\ n = [p \in Procs |-> 0]
  /\ target = [p \in Procs |-> 0] /\ killed = [p \in Procs |-> FALSE]
  /\ sent = 0
  /\ spent = 0

Spend(cost) == spent + cost <= MaxSpent /\ spent' = spent + cost

-----------------------------------------------------------------------------
(* The device.  It may ask for an interrupt when a character has come in   *)
(* and when all have gone out.  An echo is 0, the characters of write()s   *)
(* are numbered.                                                           *)

DeviceReceive ==
  /\ Spend(1)
  /\ Len(rhr) < RXFIFO
  /\ \E c \in Keys : rhr' = Append(rhr, c)
  /\ irq' = TRUE
  /\ UNCHANGED <<consVars, txVars, startVars, intrVars, thr, procVars, sent>>

DeviceSend ==
  /\ thr # <<>>
  /\ thr' = Tail(thr)
  /\ irq' = (irq \/ Len(thr) = 1)
  /\ sent' = IF Head(thr) = 0 THEN sent ELSE Head(thr)
  /\ UNCHANGED <<consVars, txVars, startVars, intrVars, rhr, procVars, spent>>

-----------------------------------------------------------------------------
(* uartstart() *)

InTx == tx_w - tx_r

\* Mutant: uartstart() does not wake the writers.
WakeWritersNot == pc

WakeWriters == [p \in Procs |-> IF pc[p] = "wsleep" THEN "write" ELSE pc[p]]

Started(who) == start' = "loop" /\ caller' = who /\ inhand' = 0

\* Nothing to send, or "it will interrupt when it's ready for a new byte".  The
\* caller releases uart_tx_lock and goes on; the handler ends in plic_complete().
StartReturn ==
  /\ start = "loop"
  /\ InTx = 0 \/ thr # <<>>
  /\ start' = "none" /\ caller' = Nobody
  /\ \/ caller = Handler /\ handler' = "none" /\ UNCHANGED pc
     \/ caller # Handler /\ pc' = [pc EXCEPT ![caller] = "write"] /\ UNCHANGED handler
  /\ UNCHANGED <<consVars, txVars, inhand, char, uartVars, n, target, killed, sent, spent>>

StartTake ==
  /\ start = "loop"
  /\ InTx # 0 /\ thr = <<>>
  /\ start' = "thr"
  /\ inhand' = tx_buf[tx_r % UART_TX_BUF_SIZE]
  /\ tx_r' = tx_r + 1
  /\ pc' = WakeWriters
  /\ UNCHANGED <<consVars, tx_buf, tx_w, caller, intrVars, uartVars, n, target, killed, sent, spent>>

StartSend ==
  /\ start = "thr"
  /\ thr' = Append(thr, inhand)
  /\ Started(caller)
  /\ UNCHANGED <<consVars, txVars, intrVars, rhr, irq, procVars, sent, spent>>

-----------------------------------------------------------------------------
(* The interrupt handler: devintr(), uartintr() and consoleintr() *)

ConsFree == handler \notin {"echo", "thr"} /\ \A p \in Procs : pc[p] # "read"

\* plic_claim().
IntrClaim ==
  /\ irq /\ handler = "none"
  /\ irq' = FALSE
  /\ handler' = "get"
  /\ UNCHANGED <<consVars, txVars, startVars, char, rhr, thr, procVars, sent, spent>>

\* Mutant: the buffer takes one character too many.
HasRoomOver == (e - r) % UINT <= INPUT_BUF

HasRoom == (e - r) % UINT < INPUT_BUF

Accepts(c) == IF c \in {"kill", "bs"} THEN e # w ELSE c # "nul" /\ HasRoom

\* uartgetc() returned a character, which consoleintr() ignores or first echoes.
IntrGet ==
  /\ handler = "get" /\ rhr # <<>>
  /\ ConsFree
  /\ rhr' = Tail(rhr)
  /\ \/ Accepts(Head(rhr)) /\ handler' = "echo" /\ char' = Head(rhr)
     \/ ~Accepts(Head(rhr)) /\ UNCHANGED intrVars
  /\ UNCHANGED <<consVars, txVars, startVars, thr, irq, procVars, sent, spent>>

\* uartputc_sync() has seen LSR_TX_IDLE.  It does not hold uart_tx_lock.
IntrEcho ==
  /\ handler = "echo" /\ thr = <<>>
  /\ handler' = "thr"
  /\ UNCHANGED <<consVars, txVars, startVars, char, uartVars, procVars, sent, spent>>

\* The loop of ^U.
Erased ==
  Max({k \in 0..((e - w) % UINT) : \A j \in 1..k : buf[(e - j) % INPUT_BUF] # "nl"})

\* The character is stored: is the line complete?
Commits(c) == c \in {"nl", "eof"} \/ (e + 1) % UINT = (r + INPUT_BUF) % UINT

\* Mutant: consoleintr() does not wake the readers.
WakeReadersNot == pc

WakeReaders == [p \in Procs |-> IF pc[p] = "rsleep" THEN "rwake" ELSE pc[p]]

\* The echo is written, and the character has its effect.
IntrErase ==
  /\ handler = "thr" /\ char \in {"kill", "bs"}
  /\ thr' = Append(thr, 0)
  /\ handler' = "get" /\ char' = "x"
  /\ e' = (e - (IF char = "bs" THEN 1 ELSE Erased)) % UINT
  /\ UNCHANGED <<buf, r, w, txVars, startVars, rhr, irq, procVars, sent, spent>>

IntrStore ==
  /\ handler = "thr" /\ char \notin {"kill", "bs"}
  /\ thr' = Append(thr, 0)
  /\ handler' = "get" /\ char' = "x"
  /\ buf' = [buf EXCEPT ![e % INPUT_BUF] = char]
  /\ e' = (e + 1) % UINT
  /\ \/ Commits(char) /\ w' = (e + 1) % UINT /\ pc' = WakeReaders
     \/ ~Commits(char) /\ UNCHANGED <<w, pc>>
  /\ UNCHANGED <<r, txVars, startVars, rhr, irq, n, target, killed, sent, spent>>

\* No more input: uartstart().
IntrStart ==
  /\ handler = "get" /\ rhr = <<>>
  /\ start = "none"
  /\ Started(Handler)
  /\ handler' = "start"
  /\ UNCHANGED <<consVars, txVars, char, uartVars, procVars, sent, spent>>

-----------------------------------------------------------------------------
(* consoleread() and consolewrite() *)

Goes(p, l) == pc' = [pc EXCEPT ![p] = l]

Return(p) ==
  /\ Goes(p, "user")
  /\ n' = [n EXCEPT ![p] = 0]
  /\ target' = [target EXCEPT ![p] = 0]

Call(p, l, size, cost) ==
  /\ pc[p] = "user" /\ ~killed[p]
  /\ Spend(cost)
  /\ Goes(p, l)
  /\ n' = [n EXCEPT ![p] = size]
  /\ target' = [target EXCEPT ![p] = size]
  /\ UNCHANGED <<consVars, txVars, startVars, intrVars, uartVars, killed, sent>>

Read(p, size) == Call(p, "rwake", size, 1)
Write(p, size) == Call(p, "write", size, size)

\* acquire(&cons.lock), first and after sleep().
ReadAcquire(p) ==
  /\ pc[p] = "rwake" /\ ConsFree
  /\ Goes(p, "read")
  /\ UNCHANGED <<consVars, txVars, startVars, intrVars, uartVars, n, target, killed, sent, spent>>

ReadWait(p) ==
  /\ pc[p] = "read" /\ n[p] > 0 /\ r = w
  /\ ~killed[p]
  /\ Goes(p, "rsleep")
  /\ UNCHANGED <<consVars, txVars, startVars, intrVars, uartVars, n, target, killed, sent, spent>>

ReadKilled(p) ==
  /\ pc[p] = "read" /\ n[p] > 0 /\ r = w
  /\ killed[p]
  /\ Return(p)
  /\ UNCHANGED <<consVars, txVars, startVars, intrVars, uartVars, killed, sent, spent>>

\* One character; ^D stays for the next read() if this one has something.  The
\* read ends there, at a newline, and where copyout() fails.
ReadChar(p) ==
  LET c == buf[r % INPUT_BUF] IN
  /\ pc[p] = "read" /\ n[p] > 0 /\ r # w
  /\ r' = IF c = "eof" /\ n[p] < target[p] THEN r ELSE (r + 1) % UINT
  /\ \/ Return(p)
     \/ /\ c \notin {"eof", "nl"}
        /\ n' = [n EXCEPT ![p] = @ - 1]
        /\ UNCHANGED <<pc, target>>
  /\ UNCHANGED <<buf, w, e, txVars, startVars, intrVars, uartVars, killed, sent, spent>>

ReadDone(p) ==
  /\ pc[p] = "read" /\ n[p] = 0
  /\ Return(p)
  /\ UNCHANGED <<consVars, txVars, startVars, intrVars, uartVars, killed, sent, spent>>

\* Mutant: uartputc() takes a full buffer for one with room.
TxFullOver == InTx > UART_TX_BUF_SIZE

TxFull == InTx = UART_TX_BUF_SIZE

\* uartputc() of one character.
PutSleep(p) ==
  /\ pc[p] = "write" /\ n[p] > 0
  /\ start = "none" /\ TxFull
  /\ Goes(p, "wsleep")
  /\ UNCHANGED <<consVars, txVars, startVars, intrVars, uartVars, n, target, killed, sent, spent>>

Put(p) ==
  /\ pc[p] = "write" /\ n[p] > 0
  /\ start = "none" /\ ~TxFull
  /\ tx_buf' = [tx_buf EXCEPT ![tx_w % UART_TX_BUF_SIZE] = tx_w + 1]
  /\ tx_w' = tx_w + 1
  /\ Started(p)
  /\ Goes(p, "put")
  /\ n' = [n EXCEPT ![p] = @ - 1]
  /\ UNCHANGED <<consVars, tx_r, intrVars, uartVars, target, killed, sent, spent>>

\* consolewrite() ends, also early when copyin() fails.
WriteDone(p) ==
  /\ pc[p] = "write"
  /\ Return(p)
  /\ UNCHANGED <<consVars, txVars, startVars, intrVars, uartVars, killed, sent, spent>>

\* kill().
Kill(p) ==
  /\ Spend(1)
  /\ ~killed[p]
  /\ killed' = [killed EXCEPT ![p] = TRUE]
  /\ Goes(p, CASE pc[p] = "rsleep" -> "rwake" [] pc[p] = "wsleep" -> "write" [] OTHER -> pc[p])
  /\ UNCHANGED <<consVars, txVars, startVars, intrVars, uartVars, n, target, sent>>

-----------------------------------------------------------------------------

Process(p) ==
  \/ \E size \in Reads : Read(p, size)
  \/ \E size \in Writes : Write(p, size)
  \/ ReadAcquire(p) \/ ReadWait(p) \/ ReadKilled(p) \/ ReadChar(p) \/ ReadDone(p)
  \/ PutSleep(p) \/ Put(p) \/ WriteDone(p) \/ Kill(p)

Next ==
  \/ DeviceReceive \/ DeviceSend
  \/ StartReturn \/ StartTake \/ StartSend
  \/ IntrClaim \/ IntrGet \/ IntrEcho \/ IntrErase \/ IntrStore \/ IntrStart
  \/ \E p \in Procs : Process(p)

Spec == Init /\ [][Next]_vars

-----------------------------------------------------------------------------
(* Properties *)

Buffered(from, to) ==
  [j \in 1..((to - from) % UINT) |-> buf[(from + j - 1) % INPUT_BUF]]

L == INSTANCE LineInput WITH
       Chars <- {"eof", "nl", "x"}, Size <- INPUT_BUF,
       ready <- Buffered(r, w), editing <- Buffered(w, e)

\* console.c: the ring buffer with its three wrapping indices is a line under
\* edition and a queue of finished input.  No character is overwritten, erasing
\* stops at the finished input, and a full buffer goes to the readers.
ImplementsLineInput == L!Spec

\* No lost wakeup in consoleread(): nobody sleeps when there is finished input,
\* whoever took or left some of it.
ReaderSleepsOnEmpty == \A p \in Procs : pc[p] = "rsleep" => r = w

\* The last character of a write() that uartstart() has given to the device.
Given == IF start = "thr" THEN tx_r - 1 ELSE tx_r

OnWire == {j \in DOMAIN thr : thr[j] # 0}

\* uart.c: the characters of write()s leave in the order of uartputc(), none
\* lost or doubled, with echoes in between: the device has the next ones in
\* order, then comes the one in the hands of uartstart(), then the buffer.
OutputInOrder ==
  /\ {thr[j] : j \in OnWire} = (sent + 1)..Given
  /\ \A i, j \in OnWire : i < j => thr[i] < thr[j]
  /\ start = "thr" => inhand = tx_r
  /\ \A j \in 1..InTx : tx_buf[(tx_r + j - 1) % UART_TX_BUF_SIZE] = tx_r + j

\* uartstart(): while characters wait, and whenever a writer sleeps, somebody
\* will come to send them: the device is busy, and will interrupt, or has, or
\* uartstart() is under way.
OutputMoves ==
  InTx # 0 \/ (\E p \in Procs : pc[p] = "wsleep") =>
    \/ thr # <<>> \/ irq
    \/ start # "none" \/ handler \in {"get", "echo", "thr"}

=============================================================================
