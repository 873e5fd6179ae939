-------------------------------- MODULE Pipe --------------------------------
(***************************************************************************)
(* kernel/pipe.c: pipewrite(), piperead() and pipeclose() on one pipe, by  *)
(* any number of processes that share its two ends, and the fileclose() of *)
(* kernel/file.c that closes an end when its last descriptor goes.         *)
(*                                                                         *)
(* pi->lock is held over many bytes, and pr->killed may be set by another  *)
(* CPU meanwhile, so each turn of a loop is a step with the lock as state. *)
(* sleep(chan, &pi->lock) releases the lock and sleeps in one step, as     *)
(* module SleepLock shows it may be taken to do.                           *)
(***************************************************************************)
EXTENDS Integers, Sequences

CONSTANTS
  Writers, Readers,  \* the processes that have the write and the read end open
  NoProc,            \* pi->lock is free
  Bytes,             \* the values of a byte
  PIPESIZE,          \* size of pi->data
  UINT,              \* 2^w for the width w of nread and nwrite
  Sizes,             \* bound: the n of read and write calls
  Killable           \* the processes that someone may kill()

ASSUME PipeAssumption ==
  /\ PIPESIZE \in Nat \ {0}
  /\ UINT \in Nat
  /\ UINT > PIPESIZE
  /\ UINT % PIPESIZE = 0
  /\ Sizes \subseteq Nat
  /\ Writers \cap Readers = {}
  /\ NoProc \notin Writers \cup Readers
  /\ Killable \subseteq Writers \cup Readers

Procs == Writers \cup Readers

VARIABLES
  data,       \* pi->data
  nread,      \* pi->nread
  nwrite,     \* pi->nwrite
  readopen,   \* pi->readopen
  writeopen,  \* pi->writeopen
  lock,       \* the process that holds pi->lock
  freed,      \* kfree(pi) has been called
  pc,         \* where a process stands
  left,       \* n - i: bytes still to move in the running call
  killed      \* p->killed

pipeVars == <<data, nread, nwrite, readopen, writeopen, freed>>
vars == <<pipeVars, lock, pc, left, killed>>

Labels == {"user", "write", "write_sleep", "write_woken",
           "read_wait", "read_sleep", "read_woken", "read_copy", "closed"}

\* Every variable holds a value of its type.
TypeOK ==
  /\ data \in [0 .. PIPESIZE - 1 -> Bytes]
  /\ nread \in 0 .. UINT - 1
  /\ nwrite \in 0 .. UINT - 1
  /\ readopen \in {0, 1}
  /\ writeopen \in {0, 1}
  /\ lock \in Procs \cup {NoProc}
  /\ freed \in BOOLEAN
  /\ pc \in [Procs -> Labels]
  /\ left \in [Procs -> Nat]
  /\ killed \in [Procs -> BOOLEAN]

\* pipealloc(), and the fork()s that share the ends.  kalloc() fills the page
\* with one value.
Init ==
  /\ \E ch \in Bytes : data = [i \in 0 .. PIPESIZE - 1 |-> ch]
  /\ nread = 0
  /\ nwrite = 0
  /\ readopen = 1
  /\ writeopen = 1
  /\ lock = NoProc
  /\ freed = FALSE
  /\ pc = [p \in Procs |-> "user"]
  /\ left = [p \in Procs |-> 0]
  /\ killed = [p \in Procs |-> FALSE]

\* The two tests of the counters, with their unsigned arithmetic.
IsEmpty == nread = nwrite

\* Mutant: the sum is taken in a wider type.
IsFullWide == nwrite = nread + PIPESIZE

IsFull == nwrite = (nread + PIPESIZE) % UINT

\* wakeup() of the sleepers at label from, by p, which goes on to label l.
WakeAnd(p, from, to, l) ==
  pc' = [q \in Procs |-> IF q = p THEN l ELSE IF pc[q] = from THEN to ELSE pc[q]]

WakeReadersAnd(p, l) == WakeAnd(p, "read_sleep", "read_woken", l)
WakeWritersAnd(p, l) == WakeAnd(p, "write_sleep", "write_woken", l)

Goto(p, l) == pc' = [pc EXCEPT ![p] = l]

-----------------------------------------------------------------------------
(* pipewrite() *)

WriteStart(p, n) ==
  /\ p \in Writers
  /\ pc[p] = "user" /\ ~killed[p]
  /\ lock = NoProc
  /\ lock' = p
  /\ left' = [left EXCEPT ![p] = n]
  /\ Goto(p, "write")
  /\ UNCHANGED <<pipeVars, killed>>

\* The read end is closed or the writer has been killed: return -1.
WriteFails(p) ==
  /\ pc[p] = "write" /\ left[p] > 0
  /\ readopen = 0 \/ killed[p]
  /\ lock' = NoProc
  /\ left' = [left EXCEPT ![p] = 0]
  /\ Goto(p, "user")
  /\ UNCHANGED <<pipeVars, killed>>

\* Mutant: a writer that finds the pipe full does not wake the readers.
WriteSleepNoWakeup(p) ==
  /\ pc[p] = "write" /\ left[p] > 0
  /\ readopen = 1 /\ ~killed[p]
  /\ IsFull
  /\ Goto(p, "write_sleep")
  /\ lock' = NoProc
  /\ UNCHANGED <<pipeVars, left, killed>>

\* The pipe is full: wake the readers, sleep on &pi->nwrite.
WriteSleep(p) ==
  /\ pc[p] = "write" /\ left[p] > 0
  /\ readopen = 1 /\ ~killed[p]
  /\ IsFull
  /\ WakeReadersAnd(p, "write_sleep")
  /\ lock' = NoProc
  /\ UNCHANGED <<pipeVars, left, killed>>

\* One byte.
WriteByte(p, ch) ==
  /\ pc[p] = "write" /\ left[p] > 0
  /\ readopen = 1 /\ ~killed[p]
  /\ ~IsFull
  /\ data' = [data EXCEPT ![nwrite % PIPESIZE] = ch]
  /\ nwrite' = (nwrite + 1) % UINT
  /\ left' = [left EXCEPT ![p] = @ - 1]
  /\ UNCHANGED <<nread, readopen, writeopen, freed, lock, pc, killed>>

\* Mutant: the readers are not woken at the end of a write.
WriteDoneNoWakeup(p) ==
  /\ pc[p] = "write"
  /\ left[p] = 0 \/ (readopen = 1 /\ ~killed[p] /\ ~IsFull)
  /\ Goto(p, "user")
  /\ lock' = NoProc
  /\ left' = [left EXCEPT ![p] = 0]
  /\ UNCHANGED <<pipeVars, killed>>

\* All bytes are written, or copyin() fails: wake the readers and return.
WriteDone(p) ==
  /\ pc[p] = "write"
  /\ left[p] = 0 \/ (readopen = 1 /\ ~killed[p] /\ ~IsFull)
  /\ WakeReadersAnd(p, "user")
  /\ lock' = NoProc
  /\ left' = [left EXCEPT ![p] = 0]
  /\ UNCHANGED <<pipeVars, killed>>

\* Woken from sleep(): take pi->lock again.
WriteResume(p) ==
  /\ pc[p] = "write_woken"
  /\ lock = NoProc
  /\ lock' = p
  /\ Goto(p, "write")
  /\ UNCHANGED <<pipeVars, left, killed>>

-----------------------------------------------------------------------------
(* piperead() *)

ReadStart(p, n) ==
  /\ p \in Readers
  /\ pc[p] = "user" /\ ~killed[p]
  /\ lock = NoProc
  /\ lock' = p
  /\ left' = [left EXCEPT ![p] = n]
  /\ Goto(p, "read_wait")
  /\ UNCHANGED <<pipeVars, killed>>

\* Empty, and the reader has been killed: return -1.
ReadFails(p) ==
  /\ pc[p] = "read_wait"
  /\ IsEmpty /\ writeopen = 1
  /\ killed[p]
  /\ lock' = NoProc
  /\ left' = [left EXCEPT ![p] = 0]
  /\ Goto(p, "user")
  /\ UNCHANGED <<pipeVars, killed>>

\* Empty: sleep on &pi->nread.
ReadSleep(p) ==
  /\ pc[p] = "read_wait"
  /\ IsEmpty /\ writeopen = 1
  /\ ~killed[p]
  /\ lock' = NoProc
  /\ Goto(p, "read_sleep")
  /\ UNCHANGED <<pipeVars, left, killed>>

\* Something to read, or the end of file.
ReadReady(p) ==
  /\ pc[p] = "read_wait"
  /\ ~IsEmpty \/ writeopen = 0
  /\ Goto(p, "read_copy")
  /\ UNCHANGED <<pipeVars, lock, left, killed>>

\* One byte.
ReadByte(p) ==
  /\ pc[p] = "read_copy" /\ left[p] > 0
  /\ ~IsEmpty
  /\ nread' = (nread + 1) % UINT
  /\ left' = [left EXCEPT ![p] = @ - 1]
  /\ UNCHANGED <<data, nwrite, readopen, writeopen, freed, lock, pc, killed>>

\* One byte that copyout() cannot deliver: it is consumed all the same.
ReadByteLost(p) ==
  /\ pc[p] = "read_copy" /\ left[p] > 0
  /\ ~IsEmpty
  /\ nread' = (nread + 1) % UINT
  /\ WakeWritersAnd(p, "user")
  /\ lock' = NoProc
  /\ left' = [left EXCEPT ![p] = 0]
  /\ UNCHANGED <<data, nwrite, readopen, writeopen, freed, killed>>

\* n bytes are read or the pipe is empty: wake the writers and return.
ReadDone(p) ==
  /\ pc[p] = "read_copy"
  /\ left[p] = 0 \/ IsEmpty
  /\ WakeWritersAnd(p, "user")
  /\ lock' = NoProc
  /\ left' = [left EXCEPT ![p] = 0]
  /\ UNCHANGED <<pipeVars, killed>>

ReadResume(p) ==
  /\ pc[p] = "read_woken"
  /\ lock = NoProc
  /\ lock' = p
  /\ Goto(p, "read_wait")
  /\ UNCHANGED <<pipeVars, left, killed>>

-----------------------------------------------------------------------------
(* fileclose() and pipeclose(); kill() *)

\* A process gives up its descriptor while others still have the same end.
CloseShared(p) ==
  /\ pc[p] = "user"
  /\ \E q \in (IF p \in Writers THEN Writers ELSE Readers) \ {p} : pc[q] # "closed"
  /\ Goto(p, "closed")
  /\ UNCHANGED <<pipeVars, lock, left, killed>>

\* Mutant: fileclose() does not look at f->ref.
LastOfAny(p, S) == p \in S

LastOf(p, S) == p \in S /\ \A q \in S \ {p} : pc[q] = "closed"

\* pipeclose(pi, 1) by the last writer, which frees the pipe after the reader.
CloseWriteEnd(p) ==
  /\ pc[p] = "user"
  /\ LastOf(p, Writers)
  /\ lock = NoProc
  /\ writeopen' = 0
  /\ WakeReadersAnd(p, "closed")
  /\ freed' = (readopen = 0)
  /\ UNCHANGED <<data, nread, nwrite, readopen, lock, left, killed>>

\* pipeclose(pi, 0) by the last reader.
CloseReadEnd(p) ==
  /\ pc[p] = "user"
  /\ LastOf(p, Readers)
  /\ lock = NoProc
  /\ readopen' = 0
  /\ WakeWritersAnd(p, "closed")
  /\ freed' = (writeopen = 0)
  /\ UNCHANGED <<data, nread, nwrite, writeopen, lock, left, killed>>

\* kill() needs p->lock only, not pi->lock.
Kill(p) ==
  /\ p \in Killable
  /\ pc[p] # "closed" /\ ~killed[p]
  /\ killed' = [killed EXCEPT ![p] = TRUE]
  /\ Goto(p, IF pc[p] = "write_sleep" THEN "write_woken"
             ELSE IF pc[p] = "read_sleep" THEN "read_woken" ELSE pc[p])
  /\ UNCHANGED <<pipeVars, lock, left>>

-----------------------------------------------------------------------------

\* The rest of a call that has been started.
Continue(p) ==
  \/ WriteFails(p) \/ WriteSleep(p) \/ WriteDone(p) \/ WriteResume(p)
  \/ \E ch \in Bytes : WriteByte(p, ch)
  \/ ReadFails(p) \/ ReadSleep(p) \/ ReadReady(p) \/ ReadByte(p)
  \/ ReadByteLost(p) \/ ReadDone(p) \/ ReadResume(p)

Close(p) == CloseShared(p) \/ CloseWriteEnd(p) \/ CloseReadEnd(p)

\* The pipe is gone; any other state without a step is a deadlock.
Gone == freed /\ UNCHANGED vars

Next ==
  \/ \E p \in Procs :
       \/ \E n \in Sizes : WriteStart(p, n) \/ ReadStart(p, n)
       \/ Continue(p)
       \/ Close(p)
       \/ Kill(p)
  \/ Gone

Spec == Init /\ [][Next]_vars

-----------------------------------------------------------------------------
(* Safety *)

Length == (nwrite - nread) % UINT

\* The bytes in the pipe, oldest first.
Contents == [k \in 1 .. Length |-> data[(nread + k - 1) % PIPESIZE]]

C == INSTANCE Channel WITH Capacity <- PIPESIZE, queue <- Contents

\* A pipe is a bounded FIFO, also when nread and nwrite wrap around.
ImplementsChannel == C!Spec

\* No lost wakeup of a reader: outside pi->lock a reader sleeps only while the
\* pipe is empty and somebody may still write.
ReaderSleepsOnEmpty ==
  lock = NoProc =>
    \A p \in Procs : pc[p] = "read_sleep" => IsEmpty /\ writeopen = 1

\* kfree(pi) comes after the last use of the pipe.
NoUseAfterFree ==
  freed => lock = NoProc /\ \A p \in Procs : pc[p] = "closed"

-----------------------------------------------------------------------------
(* Liveness *)

\* Calls that can continue do, the spinlock pi->lock included; readers read
\* again and again until they close, and a writer closes some day.
Fairness ==
  /\ \A p \in Procs : SF_vars(Continue(p))
  /\ \A p \in Readers : SF_vars((\E n \in Sizes : ReadStart(p, n)) \/ Close(p))
  /\ \A p \in Writers : SF_vars(Close(p))

FairSpec == Spec /\ Fairness

\* A full pipe is drained, or its read end closed.  (That every single write()
\* returns is not so: of two writers that wakeup() wakes, the same one may find
\* the pipe full again each time.)
FullPipeDrains == IsFull /\ readopen = 1 ~> ~IsFull \/ readopen = 0

=============================================================================
