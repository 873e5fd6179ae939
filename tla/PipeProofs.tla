----------------------------- MODULE PipeProofs -----------------------------
(***************************************************************************)
(* The pipe of module Pipe for any number of readers and writers, any size *)
(* and any width of the counters: it is freed after its last use; as long  *)
(* as no writer is killed, no reader is left asleep over data; and it is a *)
(* bounded FIFO, as module Channel specifies it.                           *)
(***************************************************************************)
EXTENDS Pipe, SequenceTheorems, TLAPS

\* What the proofs need of the types: nothing about the counters.
ControlTypes ==
  /\ lock \in Procs \cup {NoProc}
  /\ pc \in [Procs -> Labels]
  /\ killed \in [Procs -> BOOLEAN]
  /\ \A p \in Procs : killed[p] => p \in Killable
  /\ \A p \in Writers : pc[p] \in {"user", "write", "write_sleep", "write_woken", "closed"}
  /\ \A p \in Readers :
       pc[p] \in {"user", "read_wait", "read_sleep", "read_woken", "read_copy", "closed"}

\* pi->lock is held exactly in the loops of pipewrite() and piperead().
LockInv ==
  \A p \in Procs : pc[p] \in {"write", "read_wait", "read_copy"} <=> lock = p

\* An end is marked closed when all its descriptors are, and the page is freed
\* when both ends are.
EndsInv ==
  /\ writeopen = 0 => \A p \in Writers : pc[p] = "closed"
  /\ readopen = 0 => \A p \in Readers : pc[p] = "closed"
  /\ freed => writeopen = 0 /\ readopen = 0

\* A reader that sleeps while there is data has a writer inside pi->lock, which
\* will wake it on its way out.
SleepInv ==
  \A p \in Procs :
    pc[p] = "read_sleep" => writeopen = 1 /\ (IsEmpty \/ lock \in Writers)

\* Writers are safe from kill().
WritersLive == Killable \cap Writers = {}

IInv == ControlTypes /\ LockInv /\ EndsInv /\ (WritersLive => SleepInv)

\* pipealloc() establishes the invariant.
LEMMA InitEstablishes == Init => IInv
  BY PipeAssumption
  DEF Init, IInv, ControlTypes, LockInv, EndsInv, SleepInv, Procs, Labels

\* The start and the resumption of a call take pi->lock and touch nothing else.
LEMMA EnterPreserves ==
  ASSUME IInv, NEW p \in Procs,
         \/ \E n \in Sizes : WriteStart(p, n) \/ ReadStart(p, n)
         \/ WriteResume(p) \/ ReadResume(p)
  PROVE  IInv'
<1> USE PipeAssumption DEF IInv, Procs, Labels, Goto, pipeVars
<1>1. ControlTypes'
  BY Zenon DEF ControlTypes, WriteStart, ReadStart, WriteResume, ReadResume
<1>2. LockInv'
  BY Zenon DEF ControlTypes, LockInv, WriteStart, ReadStart, WriteResume, ReadResume
<1>3. EndsInv'
  BY DEF ControlTypes, EndsInv, WriteStart, ReadStart, WriteResume, ReadResume
<1>4. WritersLive => SleepInv'
  BY Zenon DEF ControlTypes, SleepInv, IsEmpty, WriteStart, ReadStart, WriteResume, ReadResume
<1> QED BY <1>1, <1>2, <1>3, <1>4, Zenon DEF WritersLive

\* pipewrite(): whoever leaves pi->lock after a byte wakes the readers, except
\* where no reader is left or the writer was killed.
LEMMA WritePreserves ==
  ASSUME IInv, NEW p \in Procs,
         \/ WriteFails(p) \/ WriteSleep(p) \/ WriteDone(p)
         \/ \E ch \in Bytes : WriteByte(p, ch)
  PROVE  IInv'
<1> USE PipeAssumption DEF IInv, Procs, Labels, Goto, pipeVars, WakeReadersAnd, WakeAnd
<1>1. ControlTypes'
  BY DEF ControlTypes, WriteFails, WriteSleep, WriteDone, WriteByte
<1>2. LockInv'
  BY DEF ControlTypes, LockInv, WriteFails, WriteSleep, WriteDone, WriteByte
<1>3. EndsInv'
  BY DEF ControlTypes, EndsInv, WriteFails, WriteSleep, WriteDone, WriteByte
<1>4. WritersLive => SleepInv'
  <2> SUFFICES ASSUME WritersLive, NEW q \in Procs, pc'[q] = "read_sleep"
               PROVE  writeopen' = 1 /\ (IsEmpty' \/ lock' \in Writers)
    BY Zenon DEF SleepInv
  <2>0. p \in Writers /\ lock = p
    BY Zenon DEF ControlTypes, LockInv, WriteFails, WriteSleep, WriteDone, WriteByte
  <2>1. CASE WriteFails(p)
    BY <2>0, <2>1, Zenon DEF WriteFails, WritersLive, ControlTypes, EndsInv
  <2>2. CASE WriteSleep(p) \/ WriteDone(p)
    BY <2>0, <2>2, Zenon DEF WriteSleep, WriteDone, ControlTypes
  <2>3. CASE \E ch \in Bytes : WriteByte(p, ch)
    BY <2>0, <2>3, Zenon DEF WriteByte, SleepInv
  <2> QED BY <2>1, <2>2, <2>3, Zenon
<1> QED BY <1>1, <1>2, <1>3, <1>4, Zenon DEF WritersLive

\* piperead(): a reader inside pi->lock takes bytes only when nobody sleeps.
LEMMA ReadPreserves ==
  ASSUME IInv, NEW p \in Procs,
         \/ ReadFails(p) \/ ReadSleep(p) \/ ReadReady(p)
         \/ ReadByte(p) \/ ReadByteLost(p) \/ ReadDone(p)
  PROVE  IInv'
<1> USE PipeAssumption DEF IInv, Procs, Labels, Goto, pipeVars, WakeWritersAnd, WakeAnd
<1>1. ControlTypes'
  BY DEF ControlTypes, ReadFails, ReadSleep, ReadReady, ReadByte, ReadByteLost, ReadDone
<1>2. LockInv'
  BY DEF ControlTypes, LockInv, ReadFails, ReadSleep, ReadReady, ReadByte, ReadByteLost,
     ReadDone
<1>3. EndsInv'
  BY DEF ControlTypes, EndsInv, ReadFails, ReadSleep, ReadReady, ReadByte, ReadByteLost,
     ReadDone
<1>4. WritersLive => SleepInv'
  <2> SUFFICES ASSUME WritersLive, NEW q \in Procs, pc'[q] = "read_sleep"
               PROVE  writeopen' = 1 /\ (IsEmpty' \/ lock' \in Writers)
    BY Zenon DEF SleepInv
  <2>0. p \in Readers /\ lock = p /\ lock \notin Writers
    BY Zenon DEF ControlTypes, LockInv, ReadFails, ReadSleep, ReadReady, ReadByte,
       ReadByteLost, ReadDone
  <2>1. CASE ReadSleep(p)
    BY <2>1, Zenon DEF ReadSleep, IsEmpty
  <2>2. CASE ReadByte(p) \/ ReadByteLost(p)
    BY <2>0, <2>2, Zenon DEF ReadByte, ReadByteLost, SleepInv, IsEmpty, ControlTypes
  <2>3. CASE ReadFails(p) \/ ReadReady(p) \/ ReadDone(p)
    BY <2>0, <2>3 DEF ReadFails, ReadReady, ReadDone, SleepInv, IsEmpty, ControlTypes
  <2> QED BY <2>1, <2>2, <2>3, Zenon
<1> QED BY <1>1, <1>2, <1>3, <1>4, Zenon DEF WritersLive

\* fileclose() and pipeclose(): the last writer wakes the readers, and the page
\* goes with the last of all descriptors.
LEMMA ClosePreserves ==
  ASSUME IInv, NEW p \in Procs, Close(p)
  PROVE  IInv'
<1> USE PipeAssumption DEF IInv, Procs, Labels, Goto, pipeVars, WakeReadersAnd, WakeWritersAnd, WakeAnd, LastOf
<1>1. ControlTypes'
  BY DEF ControlTypes, Close, CloseShared, CloseWriteEnd, CloseReadEnd
<1>2. LockInv'
  BY DEF ControlTypes, LockInv, Close, CloseShared, CloseWriteEnd, CloseReadEnd
<1>3. EndsInv'
  <2>1. CASE CloseShared(p)
    BY <2>1, Zenon DEF ControlTypes, EndsInv, CloseShared
  <2>2. CASE CloseWriteEnd(p)
    <3>1. \A q \in Writers : pc'[q] = "closed"
      BY <2>2, Zenon DEF CloseWriteEnd, ControlTypes
    <3>2. readopen' = readopen /\ \A q \in Readers : pc[q] = "closed" => pc'[q] = "closed"
      BY <2>2, Zenon DEF CloseWriteEnd, ControlTypes
    <3>3. writeopen' = 0 /\ (freed' => readopen = 0)
      BY <2>2, Zenon DEF CloseWriteEnd
    <3> QED BY <3>1, <3>2, <3>3, Zenon DEF EndsInv
  <2>3. CASE CloseReadEnd(p)
    <3>1. \A q \in Readers : pc'[q] = "closed"
      BY <2>3, Zenon DEF CloseReadEnd, ControlTypes
    <3>2. writeopen' = writeopen /\ \A q \in Writers : pc[q] = "closed" => pc'[q] = "closed"
      BY <2>3, Zenon DEF CloseReadEnd, ControlTypes
    <3>3. readopen' = 0 /\ (freed' => writeopen = 0)
      BY <2>3, Zenon DEF CloseReadEnd
    <3> QED BY <3>1, <3>2, <3>3, Zenon DEF EndsInv
  <2> QED BY <2>1, <2>2, <2>3, Zenon DEF Close
<1>4. WritersLive => SleepInv'
  BY Zenon DEF ControlTypes, SleepInv, IsEmpty, Close, CloseShared, CloseWriteEnd, CloseReadEnd
<1> QED BY <1>1, <1>2, <1>3, <1>4, Zenon DEF WritersLive

\* kill() only turns sleepers into woken ones.
LEMMA KillPreserves ==
  ASSUME IInv, NEW p \in Procs, Kill(p)
  PROVE  IInv'
<1> USE PipeAssumption DEF IInv, Procs, Labels, Goto, pipeVars
<1>1. ControlTypes'
  BY Zenon DEF ControlTypes, Kill
<1>2. LockInv'
  BY Zenon DEF ControlTypes, LockInv, Kill
<1>3. EndsInv'
  BY Zenon DEF ControlTypes, EndsInv, Kill
<1>4. WritersLive => SleepInv'
  BY Zenon DEF ControlTypes, SleepInv, IsEmpty, Kill
<1> QED BY <1>1, <1>2, <1>3, <1>4, Zenon DEF WritersLive

\* The invariant holds in every reachable state of the pipe.
LEMMA Invariant == Spec => []IInv
<1>1. IInv /\ [Next]_vars => IInv'
  <2> SUFFICES ASSUME IInv, [Next]_vars PROVE IInv'
    BY Zenon
  <2>1. CASE UNCHANGED vars
    BY <2>1, Zenon DEF vars, pipeVars, IInv, ControlTypes, LockInv, EndsInv, SleepInv, IsEmpty,
       WritersLive
  <2>2. CASE Gone
    BY <2>2, Zenon DEF Gone, vars, pipeVars, IInv, ControlTypes, LockInv, EndsInv, SleepInv,
       IsEmpty, WritersLive
  <2>3. ASSUME NEW p \in Procs,
               \/ \E n \in Sizes : WriteStart(p, n) \/ ReadStart(p, n)
               \/ Continue(p) \/ Close(p) \/ Kill(p)
        PROVE  IInv'
    BY <2>3, EnterPreserves, WritePreserves, ReadPreserves, ClosePreserves,
       KillPreserves, Zenon DEF Continue
  <2> QED BY <2>1, <2>2, <2>3, Zenon DEF Next
<1> QED BY InitEstablishes, <1>1, PTL DEF Spec

\* kfree(pi) in pipeclose() comes after the last use of the pipe, however many
\* processes share its ends and whoever is killed.
THEOREM FreedLast == Spec => []NoUseAfterFree
<1>1. IInv => NoUseAfterFree
  BY PipeAssumption, Zenon DEF IInv, ControlTypes, LockInv, EndsInv, NoUseAfterFree, Procs
<1> QED BY <1>1, Invariant, PTL

\* No wakeup of a reader is lost in pipewrite(), piperead() and pipeclose() if
\* no writer is killed in the middle of a write().
THEOREM NoReaderForgotten == ASSUME WritersLive PROVE Spec => []ReaderSleepsOnEmpty
<1>1. IInv => ReaderSleepsOnEmpty
  BY PipeAssumption, Zenon DEF IInv, SleepInv, ReaderSleepsOnEmpty, Procs
<1> QED BY <1>1, Invariant, PTL

-----------------------------------------------------------------------------
(* Rings: a buffer indexed modulo its size *)

\* The n entries of the ring d of size S from index i on, oldest first.
Ring(d, S, i, n) == [k \in 1..n |-> d[(i + k - 1) % S]]

\* The rings f and d of size S differ at most at m.
SameBut(f, d, S, m) == \A k \in 0..(S - 1) : k # m => f[k] = d[k]

\* t is s and x behind it.
Pushed(t, s, x) == t = Append(s, x)

\* t is s without its first.
Popped(t, s) == t = Tail(s)

\* A number is a multiple of S and what % leaves, ...
LEMMA ModDef ==
  ASSUME NEW a \in Int, NEW S \in Nat \ {0}
  PROVE  \E q \in Int : a = S * q + (a % S)
<1>1. a \div S \in Int /\ a = S * (a \div S) + (a % S)
  OBVIOUS
<1> QED BY <1>1, Zenon

\* ... which is the only such rest below S.
LEMMA ModIs ==
  ASSUME NEW q \in Int, NEW S \in Nat \ {0}, NEW x \in 0..(S - 1)
  PROVE  (S * q + x) % S = x
  OBVIOUS

\* Multiples of S do not count.
LEMMA ModMultiple ==
  ASSUME NEW a \in Int, NEW k \in Int, NEW S \in Nat \ {0}
  PROVE  (a + S * k) % S = a % S
<1>1. PICK q \in Int : a = S * q + (a % S)
  BY ModDef, Zenon
<1>2. a % S \in 0..(S - 1)
  OBVIOUS
<1>3. a + S * k = S * (q + k) + (a % S)
  BY <1>1, <1>2
<1> QED BY <1>2, <1>3, ModIs

\* The same distance k behind a and b.
Shifted(a, b, k, S) == (a + k) % S = (b + k) % S

\* Equal indices have equal successors.
LEMMA ModShift ==
  ASSUME NEW a \in Int, NEW b \in Int, NEW k \in Int, NEW S \in Nat \ {0}, a % S = b % S
  PROVE  Shifted(a, b, k, S)
<1>1. PICK q \in Int : a = S * q + (a % S)
  BY ModDef, Zenon
<1>2. PICK s \in Int : b = S * s + (b % S)
  BY ModDef, Zenon
<1>3. a % S \in Int
  OBVIOUS
<1>4. a + k = (b + k) + S * (q - s)
  BY <1>1, <1>2, <1>3
<1>5. b + k \in Int /\ q - s \in Int
  OBVIOUS
<1>6. ((b + k) + S * (q - s)) % S = (b + k) % S
  BY <1>5, ModMultiple, Zenon
<1> QED BY <1>4, <1>6, Zenon DEF Shifted

\* Numbers less than S apart have different indices.
LEMMA ModDiffer ==
  ASSUME NEW a \in Int, NEW b \in Int, NEW S \in Nat \ {0}, a < b, b - a < S
  PROVE  a % S # b % S
<1> SUFFICES ASSUME a % S = b % S PROVE FALSE
  BY Zenon
<1>1. PICK q \in Int : a = S * q + (a % S)
  BY ModDef, Zenon
<1>2. PICK s \in Int : b = S * s + (b % S)
  BY ModDef, Zenon
<1>3. a % S \in Int
  OBVIOUS
<1>4. b - a = S * (s - q)
  BY <1>1, <1>2, <1>3
<1>5. s - q >= 1
  BY <1>4
<1> QED BY <1>4, <1>5

\* A counter that wraps at U: before, ...
LEMMA WrapsNot ==
  ASSUME NEW U \in Nat \ {0}, NEW a \in Int, 0 <= a, a < U
  PROVE  a % U = a
<1>1. a \in 0..(U - 1) /\ a = U * 0 + a
  OBVIOUS
<1> QED BY <1>1, ModIs

\* ... after it went over U ...
LEMMA WrapsOver ==
  ASSUME NEW U \in Nat \ {0}, NEW a \in Int, U <= a, a < 2 * U
  PROVE  a % U = a - U
<1>1. a - U \in 0..(U - 1) /\ a = U * 1 + (a - U)
  OBVIOUS
<1> QED BY <1>1, ModIs

\* ... and after it went below zero.
LEMMA WrapsUnder ==
  ASSUME NEW U \in Nat \ {0}, NEW a \in Int, -U <= a, a < 0
  PROVE  a % U = a + U
<1>1. a + U \in 0..(U - 1) /\ a = U * (-1) + (a + U)
  OBVIOUS
<1> QED BY <1>1, ModIs

\* A counter that wraps at a multiple of S counts as well modulo S.
LEMMA WrapKeepsIndex ==
  ASSUME NEW S \in Nat \ {0}, NEW U \in Nat \ {0}, U % S = 0, NEW a \in Int
  PROVE  (a % U) % S = a % S
<1> DEFINE m == a % U
<1>1. PICK q \in Int : a = U * q + m
  BY ModDef, Zenon
<1>2. U \in Int /\ m \in Int
  OBVIOUS
<1>3. PICK k \in Int : U = S * k + (U % S)
  BY <1>2, ModDef, Zenon
<1> HIDE DEF m
<1>4. k * q \in Int /\ a = m + S * (k * q)
  BY <1>1, <1>2, <1>3
<1>5. (m + S * (k * q)) % S = m % S
  BY <1>2, <1>4, ModMultiple, Zenon
<1> QED BY <1>4, <1>5, Zenon DEF m

\* A ring of values is a sequence of them.
LEMMA RingSeq ==
  ASSUME NEW B, NEW S \in Nat \ {0}, NEW d, \A k \in 0..(S - 1) : d[k] \in B,
         NEW i \in Int, NEW n \in Nat
  PROVE  Ring(d, S, i, n) \in Seq(B)
<1>1. \A k \in 1..n : (i + k - 1) % S \in 0..(S - 1)
  OBVIOUS
<1>2. \A k \in 1..n : d[(i + k - 1) % S] \in B
  BY <1>1, Zenon
<1> QED BY <1>2 DEF Ring

\* It has as many as it should.
LEMMA RingLen ==
  ASSUME NEW d, NEW S, NEW i, NEW n \in Nat
  PROVE  Len(Ring(d, S, i, n)) = n
  BY DEF Ring

\* So it is not empty then.
LEMMA RingNonempty ==
  ASSUME NEW d, NEW S, NEW i, NEW n \in Nat, n > 0
  PROVE  Ring(d, S, i, n) # <<>>
<1>1. Ring(d, S, i, n) = <<>> => Len(Ring(d, S, i, n)) = 0
  BY EmptySeq, Zenon
<1> QED BY <1>1, RingLen

\* An entry stored behind the last, where there is room, is appended.
LEMMA RingPush ==
  ASSUME NEW S \in Nat \ {0}, NEW d, NEW f, NEW i \in Int, NEW n \in Nat, n < S,
         SameBut(f, d, S, (i + n) % S)
  PROVE  Pushed(Ring(f, S, i, n + 1), Ring(d, S, i, n), f[(i + n) % S])
<1> DEFINE x == f[(i + n) % S]
           B == {d[k] : k \in 0..(S - 1)} \cup {f[k] : k \in 0..(S - 1)}
           s == Ring(d, S, i, n)
           t == Ring(f, S, i, n + 1)
<1>1. \A k \in 0..(S - 1) : d[k] \in B /\ f[k] \in B
  BY Zenon
<1>2. x \in B
  <2>1. (i + n) % S \in 0..(S - 1)
    OBVIOUS
  <2> QED BY <1>1, <2>1, Zenon
<1> HIDE DEF B
<1>3. s \in Seq(B) /\ Len(s) = n
  BY <1>1, RingSeq, RingLen, Zenon
<1>4. n + 1 \in Nat
  OBVIOUS
<1>5. t \in Seq(B) /\ Len(t) = n + 1
  BY <1>1, <1>4, RingSeq, RingLen, Zenon
<1>6. ASSUME NEW k \in 1..n
      PROVE  t[k] = s[k]
  <2>1. (i + k - 1) % S # (i + n) % S /\ (i + k - 1) % S \in 0..(S - 1)
    <3>1. i + k - 1 \in Int /\ i + n \in Int /\ i + k - 1 < i + n /\ (i + n) - (i + k - 1) < S
      OBVIOUS
    <3>2. (i + k - 1) % S # (i + n) % S
      BY <3>1, ModDiffer, Zenon
    <3> QED BY <3>2
  <2>2. f[(i + k - 1) % S] = d[(i + k - 1) % S]
    BY <2>1, Zenon DEF SameBut
  <2>3. k \in 1..(n + 1)
    OBVIOUS
  <2> QED BY <2>2, <2>3, Zenon DEF Ring
<1>7. t[n + 1] = x
  <2>1. n + 1 \in 1..(n + 1) /\ i + (n + 1) - 1 = i + n
    OBVIOUS
  <2> QED BY <2>1, Zenon DEF Ring
<1> HIDE DEF s, t, x
<1>8. /\ Append(s, x) \in Seq(B) /\ Len(Append(s, x)) = n + 1
      /\ \A k \in 1..n : Append(s, x)[k] = s[k]
      /\ Append(s, x)[n + 1] = x
  BY <1>2, <1>3, AppendProperties
<1>9. ASSUME NEW k \in 1..(n + 1)
      PROVE  t[k] = Append(s, x)[k]
  <2>1. k \in 1..n \/ k = n + 1
    OBVIOUS
  <2> QED BY <1>6, <1>7, <1>8, <2>1, Zenon
<1>10. t = Append(s, x)
  BY <1>5, <1>8, <1>9, SeqEqual, Zenon
<1> QED BY <1>10, Zenon DEF Pushed, t, s, x

\* The rest, when the first entry goes.
LEMMA RingPop ==
  ASSUME NEW S \in Nat \ {0}, NEW d, NEW i \in Int,
         NEW n \in Nat, n > 0, NEW j \in Int, j % S = (i + 1) % S
  PROVE  Popped(Ring(d, S, j, n - 1), Ring(d, S, i, n))
<1> DEFINE B == {d[k] : k \in 0..(S - 1)}
           s == Ring(d, S, i, n)
           t == Ring(d, S, j, n - 1)
<1>0. \A k \in 0..(S - 1) : d[k] \in B
  BY Zenon
<1> HIDE DEF B
<1>1. s \in Seq(B) /\ Len(s) = n
  BY <1>0, RingSeq, RingLen, Zenon
<1>2. n - 1 \in Nat
  OBVIOUS
<1>3. t \in Seq(B) /\ Len(t) = n - 1
  BY <1>0, <1>2, RingSeq, RingLen, Zenon
<1>4. s # <<>>
  BY <1>1, EmptySeq
<1>5. /\ Tail(s) \in Seq(B) /\ Len(Tail(s)) = n - 1
      /\ \A k \in 1..(n - 1) : Tail(s)[k] = s[k + 1]
  BY <1>1, <1>4, HeadTailProperties, Zenon
<1>6. ASSUME NEW k \in 1..(n - 1)
      PROVE  t[k] = Tail(s)[k]
  <2>0. k - 1 \in Int /\ i + 1 \in Int
    OBVIOUS
  <2>1. (j + (k - 1)) % S = ((i + 1) + (k - 1)) % S
    <3>1. Shifted(j, i + 1, k - 1, S)
      BY <2>0, ModShift, Zenon
    <3> QED BY <3>1, Zenon DEF Shifted
  <2>2. j + (k - 1) = j + k - 1 /\ (i + 1) + (k - 1) = i + (k + 1) - 1 /\ k + 1 \in 1..n
    OBVIOUS
  <2>3. (j + k - 1) % S = (i + (k + 1) - 1) % S
    BY <2>1, <2>2, Zenon
  <2>4. t[k] = s[k + 1]
    BY <2>2, <2>3, Zenon DEF Ring
  <2> QED BY <1>5, <2>4, Zenon
<1> HIDE DEF s, t
<1>7. t = Tail(s)
  BY <1>3, <1>5, <1>6, SeqEqual, Zenon
<1> QED BY <1>7, Zenon DEF Popped, s, t

-----------------------------------------------------------------------------
(* The pipe is a bounded FIFO *)

\* The counters of a pipe are less than a turn apart, and so are its bytes.
RingInv ==
  /\ data \in [0..(PIPESIZE - 1) -> Bytes]
  /\ nread \in 0..(UINT - 1) /\ nwrite \in 0..(UINT - 1)
  /\ Length <= PIPESIZE
  /\ readopen \in {0, 1} /\ writeopen \in {0, 1}

\* What is read from the pipe is a ring.
LEMMA ContentsIsRing == Contents = Ring(data, PIPESIZE, nread, Length)
  BY Zenon DEF Contents, Ring

\* The pipe is not empty, and the counters are wider than it.
LEMMA Positive ==
  PIPESIZE \in Nat \ {0} /\ UINT \in Nat \ {0} /\ PIPESIZE < UINT
  BY PipeAssumption

\* The distance of two counters.
LEMMA Distance ==
  ASSUME NEW a \in 0..(UINT - 1), NEW b \in 0..(UINT - 1)
  PROVE  /\ b <= a => (a - b) % UINT = a - b
         /\ a < b => (a - b) % UINT = a - b + UINT
<1>1. a - b \in Int /\ a - b < UINT /\ -UINT <= a - b
  BY Positive
<1>2. ASSUME b <= a PROVE (a - b) % UINT = a - b
  <2>1. 0 <= a - b
    BY <1>2, Positive
  <2> QED BY <1>1, <2>1, Positive, WrapsNot, Zenon
<1>3. ASSUME a < b PROVE (a - b) % UINT = a - b + UINT
  <2>1. a - b < 0
    BY <1>3, Positive
  <2> QED BY <1>1, <2>1, Positive, WrapsUnder, Zenon
<1> QED BY <1>2, <1>3, Zenon

\* The distance between the two counters, and the test for a full pipe.
LEMMA LengthIs ==
  ASSUME RingInv
  PROVE  /\ Length \in Nat
         /\ nread <= nwrite => Length = nwrite - nread
         /\ nwrite < nread => Length = nwrite - nread + UINT
         /\ Length = 0 <=> IsEmpty
         /\ ~IsFull => Length < PIPESIZE
<1> USE Positive DEF RingInv
<1>1. /\ nread <= nwrite => Length = nwrite - nread
      /\ nwrite < nread => Length = nwrite - nread + UINT
  BY Distance, Zenon DEF Length
<1>2. Length \in Nat
  BY <1>1
<1>3. Length = 0 <=> IsEmpty
  BY <1>1 DEF IsEmpty
<1>4. Length = PIPESIZE => IsFull
  <2>1. nread + PIPESIZE \in Int /\ 0 <= nread + PIPESIZE /\ nread + PIPESIZE < 2 * UINT
    OBVIOUS
  <2>2. /\ nread + PIPESIZE < UINT => (nread + PIPESIZE) % UINT = nread + PIPESIZE
        /\ UINT <= nread + PIPESIZE => (nread + PIPESIZE) % UINT = (nread + PIPESIZE) - UINT
    BY <2>1, WrapsNot, WrapsOver, Zenon
  <2> QED BY <1>1, <2>2 DEF IsFull
<1> QED BY <1>1, <1>2, <1>3, <1>4

\* nwrite, as the code counts it, is the index behind the last byte.
LEMMA WriteIndex ==
  ASSUME RingInv
  PROVE  nwrite % PIPESIZE = (nread + Length) % PIPESIZE
<1> USE Positive DEF RingInv
<1>1. CASE nread <= nwrite
  <2>1. nread + Length = nwrite
    BY <1>1, LengthIs
  <2> QED BY <2>1, Zenon
<1>2. CASE nwrite < nread
  <2>1. nread + Length = nwrite + UINT
    BY <1>2, LengthIs
  <2>2. nwrite + UINT \in Int /\ UINT \in Nat \ {0}
    OBVIOUS
  <2>3. ((nwrite + UINT) % UINT) % PIPESIZE = (nwrite + UINT) % PIPESIZE
    BY <2>2, PipeAssumption, WrapKeepsIndex, Zenon
  <2>4. (nwrite + UINT) % UINT = nwrite
    <3>1. UINT <= nwrite + UINT /\ nwrite + UINT < 2 * UINT /\ (nwrite + UINT) - UINT = nwrite
      OBVIOUS
    <3>2. (nwrite + UINT) % UINT = (nwrite + UINT) - UINT
      BY <2>2, <3>1, WrapsOver, Zenon
    <3> QED BY <3>1, <3>2, Zenon
  <2> QED BY <2>1, <2>3, <2>4, Zenon
<1> QED BY <1>1, <1>2

\* A counter goes to its successor or back to zero.
LEMMA Successor ==
  ASSUME NEW a \in 0..(UINT - 1)
  PROVE  /\ (a + 1) % UINT \in 0..(UINT - 1)
         /\ a + 1 < UINT => (a + 1) % UINT = a + 1
         /\ a + 1 = UINT => (a + 1) % UINT = 0
<1> USE Positive
<1>1. UINT \in Nat \ {0} /\ a + 1 \in Int /\ 0 <= a + 1 /\ a + 1 < 2 * UINT
  OBVIOUS
<1>2. /\ a + 1 < UINT => (a + 1) % UINT = a + 1
      /\ UINT <= a + 1 => (a + 1) % UINT = (a + 1) - UINT
  BY <1>1, WrapsNot, WrapsOver, Zenon
<1> QED BY <1>1, <1>2

\* pipewrite() puts one byte behind the others.
LEMMA WriteRefines ==
  ASSUME IInv, RingInv, NEW p \in Procs, NEW ch \in Bytes, WriteByte(p, ch)
  PROVE  RingInv' /\ C!Put(ch)
<1> USE Positive
<1>1. /\ data' = [data EXCEPT ![nwrite % PIPESIZE] = ch]
      /\ nwrite' = (nwrite + 1) % UINT
      /\ UNCHANGED <<nread, readopen, writeopen>>
      /\ readopen = 1 /\ ~IsFull /\ pc[p] = "write"
  BY Zenon DEF WriteByte
<1>2. Length \in Nat /\ Length < PIPESIZE
  BY <1>1, LengthIs, Zenon
<1>3. nwrite' \in 0..(UINT - 1)
  BY <1>1, Successor, Zenon DEF RingInv
<1>4. Length' = Length + 1
  <2>1. nread \in 0..(UINT - 1) /\ nwrite \in 0..(UINT - 1)
    BY Zenon DEF RingInv
  <2>2. /\ nread <= nwrite' => (nwrite' - nread) % UINT = nwrite' - nread
        /\ nwrite' < nread => (nwrite' - nread) % UINT = nwrite' - nread + UINT
    BY <1>3, <2>1, Distance, Zenon
  <2>3. Length' = (nwrite' - nread) % UINT
    BY <1>1, Zenon DEF Length
  <2>4. \/ nwrite + 1 < UINT /\ nwrite' = nwrite + 1
        \/ nwrite + 1 = UINT /\ nwrite' = 0
    BY <1>1, Successor DEF RingInv
  <2>6. /\ nread <= nwrite => Length = nwrite - nread
        /\ nwrite < nread => Length = nwrite - nread + UINT
    BY LengthIs, Zenon
  <2> QED BY <1>2, <2>1, <2>2, <2>3, <2>4, <2>6
<1>5. nwrite % PIPESIZE \in 0..(PIPESIZE - 1)
  BY DEF RingInv
<1>6. data' \in [0..(PIPESIZE - 1) -> Bytes]
  BY <1>1, <1>5, Zenon DEF RingInv
<1>7. RingInv'
  BY <1>1, <1>2, <1>3, <1>4, <1>6 DEF RingInv
<1>8. Contents' = Append(Contents, ch)
  <2>1. nread \in Int /\ nwrite \in Int /\ PIPESIZE \in Nat \ {0}
        /\ data \in [0..(PIPESIZE - 1) -> Bytes]
    BY DEF RingInv
  <2>2. nwrite % PIPESIZE = (nread + Length) % PIPESIZE
    BY WriteIndex, Zenon
  <2>3. data'[(nread + Length) % PIPESIZE] = ch
    BY <1>1, <1>5, <2>1, <2>2, Zenon
  <2>5. SameBut(data', data, PIPESIZE, (nread + Length) % PIPESIZE)
    BY <1>1, <1>5, <2>1, <2>2, Zenon DEF SameBut
  <2>6. Pushed(Ring(data', PIPESIZE, nread, Length + 1), Ring(data, PIPESIZE, nread, Length),
               data'[(nread + Length) % PIPESIZE])
    <3>1. nread \in Int
      BY DEF RingInv
    <3> QED BY <1>2, <2>5, <3>1, RingPush, Zenon
  <2>4. Contents' = Ring(data', PIPESIZE, nread', Length')
    BY Zenon DEF Contents, Ring
  <2> QED BY <1>1, <1>4, <2>3, <2>4, <2>6, ContentsIsRing, Zenon DEF Pushed
<1>9. Len(Contents) < PIPESIZE
  <2>1. Len(Contents) = Length
    BY <1>2, ContentsIsRing, RingLen, Zenon
  <2> QED BY <1>2, <2>1, Zenon
<1>10. writeopen = 1
  BY <1>1, Zenon DEF IInv, ControlTypes, EndsInv, RingInv, Procs
<1> QED BY <1>1, <1>7, <1>8, <1>9, <1>10, Zenon DEF C!Put

\* piperead() takes the oldest byte, also when copyout() cannot deliver it.
LEMMA ReadRefines ==
  ASSUME IInv, RingInv, NEW p \in Procs, ReadByte(p) \/ ReadByteLost(p)
  PROVE  RingInv' /\ C!Get
<1> USE Positive
<1>1. /\ nread' = (nread + 1) % UINT
      /\ UNCHANGED <<data, nwrite, readopen, writeopen>>
      /\ ~IsEmpty /\ pc[p] = "read_copy"
  BY Zenon DEF ReadByte, ReadByteLost
<1>2. Length \in Nat /\ Length > 0
  BY <1>1, LengthIs
<1>3. nread' \in 0..(UINT - 1)
  BY <1>1, Successor, Zenon DEF RingInv
<1>4. Length' = Length - 1
  <2>1. nread \in 0..(UINT - 1) /\ nwrite \in 0..(UINT - 1)
    BY Zenon DEF RingInv
  <2>2. /\ nread' <= nwrite => (nwrite - nread') % UINT = nwrite - nread'
        /\ nwrite < nread' => (nwrite - nread') % UINT = nwrite - nread' + UINT
    BY <1>3, <2>1, Distance, Zenon
  <2>3. Length' = (nwrite - nread') % UINT
    BY <1>1, Zenon DEF Length
  <2>4. \/ nread + 1 < UINT /\ nread' = nread + 1
        \/ nread + 1 = UINT /\ nread' = 0
    BY <1>1, Successor DEF RingInv
  <2>6. /\ nread <= nwrite => Length = nwrite - nread
        /\ nwrite < nread => Length = nwrite - nread + UINT
    BY LengthIs, Zenon
  <2> QED BY <1>2, <2>1, <2>2, <2>3, <2>4, <2>6
<1>5. RingInv'
  BY <1>1, <1>2, <1>3, <1>4 DEF RingInv
<1>6. Contents # <<>> /\ Contents' = Tail(Contents)
  <2>1. nread \in Int /\ nread + 1 \in Int /\ nread' \in Int /\ PIPESIZE \in Nat \ {0}
        /\ UINT \in Nat \ {0} /\ data \in [0..(PIPESIZE - 1) -> Bytes]
    BY <1>3 DEF RingInv
  <2>2. nread' % PIPESIZE = (nread + 1) % PIPESIZE
    <3>1. ((nread + 1) % UINT) % PIPESIZE = (nread + 1) % PIPESIZE
      BY <2>1, PipeAssumption, WrapKeepsIndex, Zenon
    <3> QED BY <1>1, <3>1, Zenon
  <2>3. Ring(data, PIPESIZE, nread, Length) # <<>>
    BY <1>2, RingNonempty, Zenon
  <2>5. Popped(Ring(data, PIPESIZE, nread', Length - 1), Ring(data, PIPESIZE, nread, Length))
    <3>1. nread \in Int /\ nread' \in Int
      BY <2>1, Zenon
    <3> QED BY <1>2, <2>2, <3>1, RingPop, Zenon
  <2>4. Contents' = Ring(data', PIPESIZE, nread', Length')
    BY Zenon DEF Contents, Ring
  <2> QED BY <1>1, <1>4, <2>3, <2>4, <2>5, ContentsIsRing, Zenon DEF Popped
<1>7. readopen = 1
  BY <1>1, Zenon DEF IInv, ControlTypes, EndsInv, RingInv, Procs
<1> QED BY <1>1, <1>5, <1>6, <1>7, Zenon DEF C!Get

\* The last descriptor of an end closes it, once.
LEMMA CloseRefines ==
  ASSUME IInv, RingInv, NEW p \in Procs, CloseWriteEnd(p) \/ CloseReadEnd(p)
  PROVE  RingInv' /\ (C!CloseWrite \/ C!CloseRead)
<1>1. UNCHANGED <<data, nread, nwrite>>
  BY Zenon DEF CloseWriteEnd, CloseReadEnd
<1>2. Length' = Length /\ Contents' = Contents
  BY <1>1, Zenon DEF Length, Contents
<1>3. CASE CloseWriteEnd(p)
  <2>1. writeopen = 1 /\ writeopen' = 0 /\ readopen' = readopen
    BY <1>3, Zenon DEF CloseWriteEnd, LastOf, IInv, EndsInv, RingInv
  <2>2. RingInv'
    BY <1>1, <1>2, <2>1, Zenon DEF RingInv
  <2> QED BY <1>2, <2>1, <2>2, Zenon DEF C!CloseWrite
<1>4. CASE CloseReadEnd(p)
  <2>1. readopen = 1 /\ readopen' = 0 /\ writeopen' = writeopen
    BY <1>4, Zenon DEF CloseReadEnd, LastOf, IInv, EndsInv, RingInv
  <2>2. RingInv'
    BY <1>1, <1>2, <2>1, Zenon DEF RingInv
  <2> QED BY <1>2, <2>1, <2>2, Zenon DEF C!CloseRead
<1> QED BY <1>3, <1>4, Zenon

\* Every step is one of the channel or leaves it alone.
LEMMA StepRefines ==
  ASSUME IInv, RingInv, [Next]_vars
  PROVE  RingInv' /\ [C!Next]_(C!vars)
<1> DEFINE Quiet == UNCHANGED <<data, nread, nwrite, readopen, writeopen>>
<1>1. Quiet => RingInv' /\ UNCHANGED C!vars
  BY Zenon DEF RingInv, Length, Contents, C!vars
<1>2. ASSUME NEW p \in Procs,
             \/ \E n \in Sizes : WriteStart(p, n) \/ ReadStart(p, n)
             \/ WriteFails(p) \/ WriteSleep(p) \/ WriteDone(p) \/ WriteResume(p)
             \/ ReadFails(p) \/ ReadSleep(p) \/ ReadReady(p) \/ ReadDone(p) \/ ReadResume(p)
             \/ CloseShared(p) \/ Kill(p)
      PROVE  Quiet
  BY <1>2, Zenon DEF WriteStart, ReadStart, WriteFails, WriteSleep, WriteDone, WriteResume,
     ReadFails, ReadSleep, ReadReady, ReadDone, ReadResume, CloseShared, Kill, pipeVars
<1>3. Gone \/ UNCHANGED vars => Quiet
  BY Zenon DEF Gone, vars, pipeVars
<1> HIDE DEF Quiet
<1>4. CASE Quiet
  BY <1>1, <1>4, Zenon
<1>5. ASSUME NEW p \in Procs, Continue(p) \/ Close(p), ~Quiet
      PROVE  RingInv' /\ C!Next
  BY <1>2, <1>5, WriteRefines, ReadRefines, CloseRefines, Zenon DEF Continue, Close, C!Next
<1> QED BY <1>2, <1>3, <1>4, <1>5, Zenon DEF Next

\* A pipe is a bounded FIFO for any number of readers and writers, any size and
\* any width of the counters: no byte is lost, doubled, reordered or overwritten
\* when nread and nwrite wrap around, and none moves through a closed end.
THEOREM Refinement == Spec => ImplementsChannel
<1>1. Init => RingInv /\ C!Init
  <2> SUFFICES ASSUME Init PROVE RingInv /\ C!Init
    BY Zenon
  <2> USE Positive
  <2>1. Length = 0
    <3>1. UINT \in Nat \ {0} /\ nwrite - nread = 0 /\ 0 < UINT
      BY DEF Init
    <3> QED BY <3>1 DEF Length
  <2>2. Contents = <<>>
    BY <2>1 DEF Contents
  <2>3. RingInv
    BY <2>1 DEF Init, RingInv
  <2> QED BY <2>2, <2>3, Zenon DEF Init, C!Init
<1>2. IInv /\ RingInv /\ [Next]_vars => RingInv' /\ [C!Next]_(C!vars)
  BY StepRefines, Zenon
<1> QED BY <1>1, <1>2, Invariant, PTL DEF Spec, ImplementsChannel, C!Spec

=============================================================================
