-------------------------------- MODULE Log --------------------------------
(***************************************************************************)
(* kernel/log.c: the redo log that makes groups of file system calls       *)
(* atomic across crashes, with the part of the buffer cache (kernel/bio.c) *)
(* that its correctness leans on: a cached block may be evicted unless it  *)
(* is pinned, and then is read from the disk again.                        *)
(*                                                                         *)
(* Code under log.lock is one step, and sleep(&log, &log.lock) is atomic   *)
(* with the test before it: module SleepLock shows that sleep() and        *)
(* wakeup() give just that.  Every disk write is a step of its own; the    *)
(* machine may crash between any two steps.  A write of one block is       *)
(* atomic (external: the disk).                                            *)
(***************************************************************************)
EXTENDS Integers, Sequences, FiniteSets

CONSTANTS
  Procs,        \* processes that make file system calls
  Blocks,       \* home blocks of the file system
  Vals,         \* contents of a block
  NoBuf,        \* "not in the buffer cache"
  MAXOPBLOCKS,  \* the number of blocks one operation may write
  LOGSIZE,      \* the number of entries of a log header
  NLOG,         \* sb->nlog: blocks of the on-disk log, header included
  OpWrites      \* bound: the number of log_write() calls of one operation

ASSUME LogAssumption ==
  /\ IsFiniteSet(Procs)
  /\ MAXOPBLOCKS \in Nat \ {0}
  /\ LOGSIZE \in Nat
  /\ MAXOPBLOCKS <= LOGSIZE
  /\ NLOG \in Nat
  /\ OpWrites \in Nat
  /\ NoBuf \notin Vals

VARIABLES
  disk,         \* home locations, on disk
  logd,         \* data blocks of the log, on disk
  hdr,          \* log header on disk: the sequence of its n block numbers
  cache,        \* buffer cache: b->data, or NoBuf
  pins,         \* references bpin() holds on a buffer
  lh,           \* log.lh, in memory
  outstanding,  \* log.outstanding
  committing,   \* log.committing
  pc,           \* where a process stands
  tail,         \* loop variable of write_log() and install_trans()
  boot,         \* "up", or the place of initlog()'s recovery
  writes,       \* log_write() calls of the running operation
  logged        \* blocks the running operation has written

diskVars == <<disk, logd, hdr>>
vars == <<disk, logd, hdr, cache, pins, lh, outstanding, committing, pc, tail,
          boot, writes, logged>>

Slots == 1 .. LOGSIZE

Labels == {"idle", "asleep", "woken", "op", "write_log", "install",
           "commit_done"}

\* Every variable holds a value of its type.
TypeOK ==
  /\ disk \in [Blocks -> Vals]
  /\ logd \in [Slots -> Vals]
  /\ hdr \in Seq(Blocks) /\ Len(hdr) <= LOGSIZE
  /\ cache \in [Blocks -> Vals \cup {NoBuf}]
  /\ pins \in [Blocks -> Nat]
  /\ lh \in Seq(Blocks) /\ Len(lh) <= LOGSIZE
  /\ outstanding \in Nat
  /\ committing \in {0, 1}
  /\ pc \in [Procs -> Labels]
  /\ tail \in 1 .. LOGSIZE + 1
  /\ boot \in {"up", "read_head", "install"}
  /\ writes \in [Procs -> 0 .. OpWrites]
  /\ logged \in [Procs -> SUBSET Blocks]

\* The first boot, with any disk and an empty log of equal blocks (mkfs zeroes
\* them).
Init ==
  /\ disk \in [Blocks -> Vals]
  /\ \E v \in Vals : logd = [s \in Slots |-> v]
  /\ hdr = <<>>
  /\ cache = [b \in Blocks |-> NoBuf]
  /\ pins = [b \in Blocks |-> 0]
  /\ lh = <<>>
  /\ outstanding = 0
  /\ committing = 0
  /\ pc = [p \in Procs |-> "idle"]
  /\ tail = 1
  /\ boot = "read_head"
  /\ writes = [p \in Procs |-> 0]
  /\ logged = [p \in Procs |-> {}]

-----------------------------------------------------------------------------
(* Buffer cache *)

\* What bread(b) returns.
Bread(b) == IF cache[b] = NoBuf THEN disk[b] ELSE cache[b]

\* A reader brings a block into the cache.
Fill(b) ==
  /\ boot = "up"
  /\ cache[b] = NoBuf
  /\ cache' = [cache EXCEPT ![b] = disk[b]]
  /\ UNCHANGED <<diskVars, pins, lh, outstanding, committing, pc, tail, boot, writes, logged>>

\* bget() recycles the buffer of b: its refcnt is 0.
Evict(b) ==
  /\ cache[b] # NoBuf
  /\ pins[b] = 0
  /\ cache' = [cache EXCEPT ![b] = NoBuf]
  /\ UNCHANGED <<diskVars, pins, lh, outstanding, committing, pc, tail, boot, writes, logged>>

-----------------------------------------------------------------------------
(* begin_op(), log_write(), end_op() *)

\* Mutant: no room is reserved for the new operation itself.
LogHasSpaceShort == Len(lh) + outstanding * MAXOPBLOCKS <= LOGSIZE

\* Room for the blocks of the running operations and one more.
LogHasSpace == Len(lh) + (outstanding + 1) * MAXOPBLOCKS <= LOGSIZE

\* begin_op() admits the operation.
BeginOp(p) ==
  /\ boot = "up"
  /\ pc[p] \in {"idle", "woken"}
  /\ committing = 0
  /\ LogHasSpace
  /\ outstanding' = outstanding + 1
  /\ pc' = [pc EXCEPT ![p] = "op"]
  /\ UNCHANGED <<diskVars, cache, pins, lh, committing, tail, boot, writes, logged>>

\* begin_op() sleeps: a commit is running, or the log might run out of space.
BeginOpSleep(p) ==
  /\ boot = "up"
  /\ pc[p] \in {"idle", "woken"}
  /\ committing = 1 \/ ~LogHasSpace
  /\ pc' = [pc EXCEPT ![p] = "asleep"]
  /\ UNCHANGED <<diskVars, cache, pins, lh, outstanding, committing, tail, boot, writes, logged>>

\* kill() wakes a process that sleeps in begin_op().
KillWakes(p) ==
  /\ pc[p] = "asleep"
  /\ pc' = [pc EXCEPT ![p] = "woken"]
  /\ UNCHANGED <<diskVars, cache, pins, lh, outstanding, committing, tail, boot, writes, logged>>

\* An operation calls log_write() no more than OpWrites times, for no more
\* than MAXOPBLOCKS blocks.
MayWrite(p, b) ==
  /\ pc[p] = "op"
  /\ writes[p] < OpWrites
  /\ b \in logged[p] \/ Cardinality(logged[p]) < MAXOPBLOCKS

LogIsFull == Len(lh) >= LOGSIZE \/ Len(lh) >= NLOG - 1

\* Mutant: log_write() pins an absorbed block once more.
LogWritePinsAgain(p, b, v) ==
  /\ MayWrite(p, b)
  /\ ~LogIsFull
  /\ cache' = [cache EXCEPT ![b] = v]
  /\ lh' = IF \E k \in 1 .. Len(lh) : lh[k] = b THEN lh ELSE Append(lh, b)
  /\ pins' = [pins EXCEPT ![b] = @ + 1]
  /\ writes' = [writes EXCEPT ![p] = @ + 1]
  /\ logged' = [logged EXCEPT ![p] = @ \cup {b}]
  /\ UNCHANGED <<diskVars, outstanding, committing, pc, tail, boot>>

\* bread(b), a change of its data, log_write(b), brelse(b).  A block that is
\* in the log already is absorbed; a new one is appended and pinned.  A full
\* log panics before that: NoTransactionTooBig is about it.
LogWrite(p, b, v) ==
  /\ MayWrite(p, b)
  /\ ~LogIsFull
  /\ cache' = [cache EXCEPT ![b] = v]
  /\ \/ /\ \E k \in 1 .. Len(lh) : lh[k] = b
        /\ UNCHANGED <<lh, pins>>
     \/ /\ \A k \in 1 .. Len(lh) : lh[k] # b
        /\ lh' = Append(lh, b)
        /\ pins' = [pins EXCEPT ![b] = @ + 1]
  /\ writes' = [writes EXCEPT ![p] = @ + 1]
  /\ logged' = [logged EXCEPT ![p] = @ \cup {b}]
  /\ UNCHANGED <<diskVars, outstanding, committing, pc, tail, boot>>

\* wakeup(&log), by a process that goes on to label l
WakeupLog(p, l) ==
  pc' = [q \in Procs |-> IF q = p THEN l
                         ELSE IF pc[q] = "asleep" THEN "woken" ELSE pc[q]]

\* Mutant: end_op() wakes nobody while other operations are outstanding.
EndOpNoWakeup(p) ==
  /\ pc[p] = "op"
  /\ outstanding > 1
  /\ outstanding' = outstanding - 1
  /\ pc' = [pc EXCEPT ![p] = "idle"]
  /\ writes' = [writes EXCEPT ![p] = 0]
  /\ logged' = [logged EXCEPT ![p] = {}]
  /\ UNCHANGED <<diskVars, cache, pins, lh, committing, tail, boot>>

\* end_op() while other operations are outstanding.
EndOp(p) ==
  /\ pc[p] = "op"
  /\ outstanding > 1
  /\ outstanding' = outstanding - 1
  /\ WakeupLog(p, "idle")
  /\ writes' = [writes EXCEPT ![p] = 0]
  /\ logged' = [logged EXCEPT ![p] = {}]
  /\ UNCHANGED <<diskVars, cache, pins, lh, committing, tail, boot>>

\* end_op() of the last operation: it becomes the committer.
EndOpLast(p) ==
  /\ pc[p] = "op"
  /\ outstanding = 1
  /\ outstanding' = 0
  /\ committing' = 1
  /\ pc' = [pc EXCEPT ![p] = IF lh = <<>> THEN "commit_done" ELSE "write_log"]
  /\ tail' = 1
  /\ writes' = [writes EXCEPT ![p] = 0]
  /\ logged' = [logged EXCEPT ![p] = {}]
  /\ UNCHANGED <<diskVars, cache, pins, lh, boot>>

-----------------------------------------------------------------------------
(* commit() *)

\* One turn of write_log(): copy a modified block from the cache to the log.
WriteLog(p) ==
  /\ pc[p] = "write_log"
  /\ tail <= Len(lh)
  /\ logd' = [logd EXCEPT ![tail] = Bread(lh[tail])]
  /\ cache' = [cache EXCEPT ![lh[tail]] = Bread(lh[tail])]
  /\ tail' = tail + 1
  /\ UNCHANGED <<disk, hdr, pins, lh, outstanding, committing, pc, boot, writes, logged>>

\* Mutant: the header is written before the blocks.
WriteHeadEarly(p) ==
  /\ pc[p] = "write_log"
  /\ hdr' = lh
  /\ tail' = 1
  /\ pc' = [pc EXCEPT ![p] = "install"]
  /\ UNCHANGED <<disk, logd, cache, pins, lh, outstanding, committing, boot, writes, logged>>

\* write_head() of the full header: the commit point.
WriteHead(p) ==
  /\ pc[p] = "write_log"
  /\ tail > Len(lh)
  /\ hdr' = lh
  /\ tail' = 1
  /\ pc' = [pc EXCEPT ![p] = "install"]
  /\ UNCHANGED <<disk, logd, cache, pins, lh, outstanding, committing, boot, writes, logged>>

\* One turn of install_trans(0): write a block home and unpin its buffer.
InstallTrans(p) ==
  /\ pc[p] = "install"
  /\ tail <= Len(lh)
  /\ cache' = [cache EXCEPT ![lh[tail]] = logd[tail]]
  /\ disk' = [disk EXCEPT ![lh[tail]] = logd[tail]]
  /\ pins' = [pins EXCEPT ![lh[tail]] = @ - 1]
  /\ tail' = tail + 1
  /\ UNCHANGED <<logd, hdr, lh, outstanding, committing, pc, boot, writes, logged>>

\* log.lh.n = 0; write_head(): erase the transaction from the log.
ClearHead(p) ==
  /\ pc[p] = "install"
  /\ tail > Len(lh)
  /\ lh' = <<>>
  /\ hdr' = <<>>
  /\ tail' = 1
  /\ pc' = [pc EXCEPT ![p] = "commit_done"]
  /\ UNCHANGED <<disk, logd, cache, pins, outstanding, committing, boot, writes, logged>>

\* The end of end_op(): let waiting operations in.
CommitDone(p) ==
  /\ pc[p] = "commit_done"
  /\ committing' = 0
  /\ WakeupLog(p, "idle")
  /\ UNCHANGED <<diskVars, cache, pins, lh, outstanding, tail, boot, writes, logged>>

-----------------------------------------------------------------------------
(* Crash, and initlog() at the next boot *)

Crash ==
  /\ cache' = [b \in Blocks |-> NoBuf]
  /\ pins' = [b \in Blocks |-> 0]
  /\ lh' = <<>>
  /\ outstanding' = 0
  /\ committing' = 0
  /\ pc' = [p \in Procs |-> "idle"]
  /\ tail' = 1
  /\ boot' = "read_head"
  /\ writes' = [p \in Procs |-> 0]
  /\ logged' = [p \in Procs |-> {}]
  /\ UNCHANGED diskVars

ReadHead ==
  /\ boot = "read_head"
  /\ lh' = hdr
  /\ boot' = "install"
  /\ UNCHANGED <<diskVars, cache, pins, outstanding, committing, pc, tail, writes, logged>>

\* One turn of install_trans(1).
RecoverBlock ==
  /\ boot = "install"
  /\ tail <= Len(lh)
  /\ cache' = [cache EXCEPT ![lh[tail]] = logd[tail]]
  /\ disk' = [disk EXCEPT ![lh[tail]] = logd[tail]]
  /\ tail' = tail + 1
  /\ UNCHANGED <<logd, hdr, pins, lh, outstanding, committing, pc, boot, writes, logged>>

\* log.lh.n = 0; write_head(): the file system is up.
RecoverDone ==
  /\ boot = "install"
  /\ tail > Len(lh)
  /\ lh' = <<>>
  /\ hdr' = <<>>
  /\ tail' = 1
  /\ boot' = "up"
  /\ UNCHANGED <<disk, logd, cache, pins, outstanding, committing, pc, writes, logged>>

-----------------------------------------------------------------------------

Commit(p) ==
  WriteLog(p) \/ WriteHead(p) \/ InstallTrans(p) \/ ClearHead(p) \/ CommitDone(p)

Recover == ReadHead \/ RecoverBlock \/ RecoverDone

Next ==
  \/ \E p \in Procs :
       \/ BeginOp(p) \/ BeginOpSleep(p) \/ KillWakes(p)
       \/ EndOp(p) \/ EndOpLast(p) \/ Commit(p)
  \/ \E p \in Procs, b \in Blocks, v \in Vals : LogWrite(p, b, v)
  \/ \E b \in Blocks : Fill(b) \/ Evict(b)
  \/ Crash
  \/ Recover

Spec == Init /\ [][Next]_vars

-----------------------------------------------------------------------------
(* Safety *)

\* What the home blocks hold once the log on disk has been replayed.
Replayed ==
  [b \in Blocks |->
    IF \E k \in 1 .. Len(hdr) : hdr[k] = b
    THEN logd[CHOOSE k \in 1 .. Len(hdr) : hdr[k] = b]
    ELSE disk[b]]

\* What the running system reads; during recovery, what it will read.
Current == IF boot = "up" THEN [b \in Blocks |-> Bread(b)] ELSE Replayed

Active == {p \in Procs : pc[p] = "op"}

A == INSTANCE AtomicDisk WITH current <- Current, stable <- Replayed, active <- Active

\* The log makes crashes invisible: at every moment the contents a crash would
\* leave are those of some moment without active operations, and a reboot
\* shows just them ("there is never any reasoning required about whether a
\* commit might write an uncommitted system call's updates to disk").
ImplementsAtomicDisk == A!Spec

\* The log_write() calls that the running operations may still make.
Due == {c \in Active \X (1 .. MAXOPBLOCKS) : c[2] > writes[c[1]]}

\* begin_op() reserves enough space: the log has room for all the log_write()
\* calls the running operations may still make, were they all for new blocks,
\* so none of them panics with "too big a transaction".
NoTransactionTooBig ==
  LET used == Len(lh) + Cardinality(Due)
  IN  used <= LOGSIZE /\ used <= NLOG - 1

\* Exactly the logged blocks whose home copy is still old are pinned, once
\* each; nothing stays pinned after a commit and nothing dirty is unpinned.
PinnedWhileDirty ==
  \A b \in Blocks :
    LET from == IF \E p \in Procs : pc[p] = "install" THEN tail ELSE 1 IN
    pins[b] = IF boot = "up" /\ (\E k \in from .. Len(lh) : lh[k] = b) THEN 1 ELSE 0

\* No operation sleeps in begin_op() that could be let in: every change that
\* makes room or ends a commit wakes the sleepers.
SleepersMustWait ==
  \A p \in Procs : pc[p] = "asleep" => committing = 1 \/ ~LogHasSpace

=============================================================================
