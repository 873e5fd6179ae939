----------------------------- MODULE LogProofs -----------------------------
(***************************************************************************)
(* Module Log for any number of processes, any sizes of the log and any    *)
(* number of crashes.  Three invariants, each resting on the one before:   *)
(* who commits and who sleeps (IInv), how many operations run (CountInv),  *)
(* and what the log, the cache and the disk hold (DataInv).  From them: no *)
(* sleeper is forgotten, exactly the dirty blocks are pinned, the log does *)
(* not run out of space, and the log implements module AtomicDisk.         *)
(***************************************************************************)
EXTENDS Log, SequenceTheorems, FiniteSetTheorems, TLAPS

Types ==
  /\ pc \in [Procs -> Labels]
  /\ outstanding \in Nat
  /\ committing \in {0, 1}
  /\ lh \in Seq(Blocks)
  /\ hdr \in Seq(Blocks)

CommitLabels == {"write_log", "install", "commit_done"}

\* The committer is alone, and no operation has begun meanwhile.
CommitInv ==
  /\ committing = 1 => outstanding = 0
  /\ \A p \in Procs : pc[p] \in CommitLabels => committing = 1
  /\ \A p, q \in Procs : pc[p] \in CommitLabels /\ pc[q] \in CommitLabels => p = q

\* initlog() comes before the first file system call.
BootInv == boot # "up" => \A p \in Procs : pc[p] = "idle"

IInv == Types /\ CommitInv /\ BootInv /\ SleepersMustWait

\* The length that every step works with is a number.
LEMMA LenIsNat == \A s \in Seq(Blocks) : Len(s) \in Nat
  BY LenProperties, Zenon

\* The first boot.
LEMMA InitEstablishes == Init => IInv
  BY EmptySeq
  DEF Init, IInv, Types, Labels, CommitInv, CommitLabels, BootInv, SleepersMustWait

\* begin_op() lets an operation in only when nobody needs to sleep.
LEMMA BeginPreserves ==
  ASSUME IInv, NEW p \in Procs, BeginOp(p) \/ BeginOpSleep(p) \/ KillWakes(p)
  PROVE  IInv'
<1> USE DEF IInv, Labels, CommitLabels, diskVars
<1>1. Types'
  BY DEF Types, BeginOp, BeginOpSleep, KillWakes
<1>2. CommitInv'
  BY DEF Types, CommitInv, BeginOp, BeginOpSleep, KillWakes
<1>3. BootInv'
  BY Zenon DEF Types, BootInv, BeginOp, BeginOpSleep, KillWakes
<1>4. SleepersMustWait'
  BY Zenon DEF Types, SleepersMustWait, LogHasSpace, BeginOp, BeginOpSleep, KillWakes
<1> QED BY <1>1, <1>2, <1>3, <1>4, Zenon

\* log_write() only takes space away.
LEMMA LogWritePreserves ==
  ASSUME IInv, NEW p \in Procs, NEW b \in Blocks, NEW v \in Vals, LogWrite(p, b, v)
  PROVE  IInv'
<1> USE DEF IInv, diskVars
<1>1. lh' \in Seq(Blocks) /\ Len(lh) <= Len(lh') /\ Len(lh) \in Nat /\ Len(lh') \in Nat
  <2>1. lh \in Seq(Blocks) /\ Len(lh) \in Nat
    BY LenIsNat, Zenon DEF Types
  <2>2. Append(lh, b) \in Seq(Blocks) /\ Len(Append(lh, b)) = Len(lh) + 1
    BY <2>1, AppendProperties, Zenon
  <2>3. lh' = lh \/ lh' = Append(lh, b)
    BY Zenon DEF LogWrite
  <2> QED BY <2>1, <2>2, <2>3
<1>2. Types' /\ CommitInv' /\ BootInv'
  BY <1>1, Zenon DEF Types, CommitInv, BootInv, LogWrite
<1>3. SleepersMustWait'
  <2>1. (outstanding + 1) * MAXOPBLOCKS \in Int
    BY LogAssumption DEF Types
  <2>2. ~LogHasSpace => ~LogHasSpace'
    BY <1>1, <2>1, LogAssumption DEF LogHasSpace, LogWrite
  <2> QED BY <2>2, Zenon DEF SleepersMustWait, LogWrite
<1> QED BY <1>2, <1>3, Zenon

\* end_op() wakes everybody, or leaves that to the commit it starts.
LEMMA EndPreserves ==
  ASSUME IInv, NEW p \in Procs, EndOp(p) \/ EndOpLast(p)
  PROVE  IInv'
<1> USE DEF IInv, Labels, CommitLabels, diskVars, WakeupLog
<1>1. Types'
  BY DEF Types, EndOp, EndOpLast
<1>2. CommitInv'
  BY DEF Types, CommitInv, EndOp, EndOpLast
<1>3. BootInv'
  BY Zenon DEF Types, BootInv, EndOp, EndOpLast
<1>4. SleepersMustWait'
  BY Zenon DEF Types, SleepersMustWait, EndOp, EndOpLast
<1> QED BY <1>1, <1>2, <1>3, <1>4, Zenon

\* commit() empties the log while it keeps everybody out, and then wakes them.
LEMMA CommitPreserves ==
  ASSUME IInv, NEW p \in Procs, Commit(p)
  PROVE  IInv'
<1> USE DEF IInv, Labels, CommitLabels, diskVars, WakeupLog, Commit
<1>1. Types'
  BY EmptySeq, Zenon DEF Types, WriteLog, WriteHead, InstallTrans, ClearHead, CommitDone
<1>2. CommitInv'
  BY DEF Types, CommitInv, WriteLog, WriteHead, InstallTrans, ClearHead, CommitDone
<1>3. BootInv'
  BY Zenon DEF Types, BootInv, WriteLog, WriteHead, InstallTrans, ClearHead, CommitDone
<1>4. SleepersMustWait'
  BY Zenon DEF Types, SleepersMustWait, CommitInv, LogHasSpace,
         WriteLog, WriteHead, InstallTrans, ClearHead, CommitDone
<1> QED BY <1>1, <1>2, <1>3, <1>4, Zenon

\* A crash, and the recovery that follows, find nobody asleep.
LEMMA RestPreserves ==
  ASSUME IInv, Crash \/ Recover \/ (\E b \in Blocks : Fill(b) \/ Evict(b))
  PROVE  IInv'
<1> USE DEF IInv, Labels, CommitLabels, diskVars
<1>1. CASE Crash
  BY <1>1, EmptySeq, Zenon DEF Crash, Types, CommitInv, BootInv, SleepersMustWait
<1>2. CASE Recover
  <2>1. \A p \in Procs : pc[p] = "idle" /\ pc' = pc
    BY <1>2, Zenon DEF Recover, ReadHead, RecoverBlock, RecoverDone, BootInv
  <2>2. Types' /\ CommitInv' /\ BootInv'
    BY <1>2, EmptySeq, Zenon DEF Recover, ReadHead, RecoverBlock, RecoverDone, Types,
       CommitInv, BootInv
  <2> QED BY <2>1, <2>2, Zenon DEF SleepersMustWait
<1>3. CASE \E b \in Blocks : Fill(b) \/ Evict(b)
  BY <1>3, Zenon DEF Fill, Evict, Types, CommitInv, BootInv, SleepersMustWait, LogHasSpace
<1> QED BY <1>1, <1>2, <1>3, Zenon

\* The invariant holds in every reachable state of the log.
LEMMA Invariant == Spec => []IInv
<1>1. IInv /\ [Next]_vars => IInv'
  <2> SUFFICES ASSUME IInv, [Next]_vars PROVE IInv'
    BY Zenon
  <2>1. CASE UNCHANGED vars
    BY <2>1, Zenon DEF vars, IInv, Types, CommitInv, BootInv, SleepersMustWait, LogHasSpace
  <2>2. CASE Next
    BY <2>2, BeginPreserves, LogWritePreserves, EndPreserves, CommitPreserves,
       RestPreserves, Zenon DEF Next
  <2> QED BY <2>1, <2>2, Zenon
<1> QED BY InitEstablishes, <1>1, PTL DEF Spec

\* No wakeup is lost between begin_op() and end_op(): whoever sleeps for the log
\* waits for a commit or for space, whatever the sizes and wherever it crashes.
THEOREM NoSleeperForgotten == Spec => []SleepersMustWait
  BY Invariant, PTL DEF IInv

-----------------------------------------------------------------------------
(* The number of operations *)

CountInv == outstanding = Cardinality(Active)

\* There are finitely many operations, as there are processes.
LEMMA ActiveFinite == IsFiniteSet(Active)
  BY LogAssumption, FS_Subset, Active \subseteq Procs, Zenon DEF Active

\* log.outstanding counts the operations through begin_op() and end_op().
LEMMA CountPreserves ==
  ASSUME IInv, CountInv, [Next]_vars
  PROVE  CountInv'
<1> USE DEF IInv, Types
<1>1. CASE \E p \in Procs : BeginOp(p)
  <2>1. PICK p \in Procs : BeginOp(p)
    BY <1>1, Zenon
  <2>2. Active' = Active \cup {p} /\ p \notin Active
    BY <2>1, Zenon DEF BeginOp, Active
  <2>3. Cardinality(Active \cup {p}) = Cardinality(Active) + 1
    BY <2>2, ActiveFinite, FS_AddElement, Zenon
  <2> QED BY <2>1, <2>2, <2>3, Zenon DEF BeginOp, CountInv
<1>2. CASE \E p \in Procs : EndOp(p) \/ EndOpLast(p)
  <2>1. PICK p \in Procs : EndOp(p) \/ EndOpLast(p)
    BY <1>2, Zenon
  <2>2. Active' = Active \ {p} /\ p \in Active
    BY <2>1 DEF EndOp, EndOpLast, WakeupLog, Active
  <2>3. Cardinality(Active \ {p}) = Cardinality(Active) - 1
    BY <2>2, ActiveFinite, FS_RemoveElement, Zenon
  <2>4. outstanding' = outstanding - 1
    BY <2>1 DEF EndOp, EndOpLast
  <2> QED BY <2>2, <2>3, <2>4, Zenon DEF CountInv
<1>3. CASE Crash
  <2>1. Active' = {} /\ outstanding' = 0
    BY <1>3, Zenon DEF Crash, Active
  <2> QED BY <2>1, FS_EmptySet, Zenon DEF CountInv
<1>4. CASE /\ \A p \in Procs : pc[p] = "op" <=> pc'[p] = "op"
           /\ UNCHANGED outstanding
  <2>1. Active' = Active
    BY <1>4, Zenon DEF Active
  <2> QED BY <1>4, <2>1, Zenon DEF CountInv
<1>5. ASSUME NEW p \in Procs, BeginOpSleep(p) \/ KillWakes(p) \/ Commit(p)
      PROVE  CountInv'
  <2>1. \A q \in Procs : pc[q] = "op" <=> pc'[q] = "op"
    BY <1>5, Zenon DEF BeginOpSleep, KillWakes, Commit, WriteLog, WriteHead, InstallTrans,
                ClearHead, CommitDone, WakeupLog
  <2>2. UNCHANGED outstanding
    BY <1>5, Zenon DEF BeginOpSleep, KillWakes, Commit, WriteLog, WriteHead, InstallTrans,
                ClearHead, CommitDone
  <2> QED BY <2>1, <2>2, <1>4, Zenon
<1>6. CASE \E p \in Procs, b \in Blocks, v \in Vals : LogWrite(p, b, v)
  BY <1>4, <1>6, Zenon DEF LogWrite
<1>7. CASE (\E b \in Blocks : Fill(b) \/ Evict(b)) \/ Recover
  BY <1>4, <1>7, Zenon DEF Fill, Evict, Recover, ReadHead, RecoverBlock, RecoverDone
<1>8. CASE UNCHANGED vars
  BY <1>4, <1>8, Zenon DEF vars
<1> QED BY <1>1, <1>2, <1>3, <1>5, <1>6, <1>7, <1>8, Zenon DEF Next

\* No operation runs while one commits, and none before initlog() is done.
LEMMA OpAlone ==
  ASSUME IInv, CountInv, NEW p \in Procs, pc[p] = "op"
  PROVE  /\ boot = "up" /\ committing = 0 /\ outstanding # 0
         /\ \A q \in Procs : pc[q] \notin CommitLabels
<1> USE DEF IInv, Types
<1>1. Active # {}
  BY Zenon DEF Active
<1>2. outstanding # 0
  BY <1>1, ActiveFinite, FS_EmptySet, Zenon DEF CountInv
<1>3. committing = 0
  BY <1>2, Zenon DEF CommitInv
<1> QED BY <1>2, <1>3, Zenon DEF CommitInv, BootInv

-----------------------------------------------------------------------------
(* The blocks in the log, in the cache and at home *)

Installing == \E p \in Procs : pc[p] = "install"

DataTypes ==
  /\ disk \in [Blocks -> Vals]
  /\ logd \in [Slots -> Vals]
  /\ cache \in [Blocks -> Vals \cup {NoBuf}]
  /\ pins \in [Blocks -> Nat]
  /\ tail \in Nat \ {0}

NoRepeat(s) == \A j, k \in 1 .. Len(s) : s[j] = s[k] => j = k

\* The header in memory has a block once; the one on disk is empty, or is that
\* of the transaction being installed.
HeadInv ==
  /\ Len(lh) <= LOGSIZE /\ NoRepeat(lh)
  /\ Len(hdr) <= LOGSIZE /\ NoRepeat(hdr)
  /\ boot = "read_head" => lh = <<>> /\ tail = 1
  /\ boot = "install" => hdr = lh
  /\ boot = "up" => hdr = IF Installing THEN lh ELSE <<>>

\* An unpinned buffer equals the block at home; a pinned one stays cached.
CacheInv ==
  \A b \in Blocks :
    /\ pins[b] = 0 => cache[b] \in {NoBuf, disk[b]}
    /\ pins[b] # 0 => cache[b] # NoBuf

\* What write_log() and install_trans() have copied, and what is still to do.
CopyInv ==
  /\ \A p \in Procs : pc[p] = "write_log" =>
       \A k \in 1 .. Len(lh) : k < tail => logd[k] = cache[lh[k]]
  /\ boot = "install" \/ Installing =>
       \A k \in 1 .. Len(lh) : k < tail => logd[k] = disk[lh[k]]
  /\ Installing => \A k \in 1 .. Len(lh) : k >= tail => logd[k] = cache[lh[k]]

DataInv == DataTypes /\ HeadInv /\ CacheInv /\ CopyInv /\ PinnedWhileDirty

\* The machine starts with an empty log.
LEMMA InitData == Init => CountInv /\ DataInv
<1> SUFFICES ASSUME Init PROVE CountInv /\ DataInv
  BY Zenon
<1>1. CountInv
  <2>1. Active = {}
    BY Zenon DEF Init, Active
  <2> QED BY <2>1, FS_EmptySet, Zenon DEF Init, CountInv
<1>2. Len(<<>>) = 0
  BY EmptySeq, Zenon
<1>3. DataTypes
  BY DEF Init, DataTypes
<1>4. HeadInv /\ CacheInv /\ CopyInv /\ PinnedWhileDirty
  BY <1>2, LogAssumption
  DEF Init, HeadInv, NoRepeat, CacheInv, CopyInv, PinnedWhileDirty, Installing
<1> QED BY <1>1, <1>3, <1>4, Zenon DEF DataInv

\* A step that touches no block, and neither starts nor ends a loop of commit().
LEMMA DataFrame ==
  ASSUME DataInv, UNCHANGED <<diskVars, cache, pins, lh, tail, boot>>,
         \A p \in Procs : \A l \in {"write_log", "install"} : pc[p] = l <=> pc'[p] = l
  PROVE  DataInv'
<1>1. Installing' = Installing
  BY Zenon DEF Installing
<1>2. (\E p \in Procs : pc'[p] = "install") = (\E p \in Procs : pc[p] = "install")
  BY Zenon
<1>3. DataTypes' /\ HeadInv' /\ CacheInv'
  BY <1>1 DEF DataInv, DataTypes, HeadInv, NoRepeat, CacheInv, diskVars
<1>4. CopyInv'
  BY <1>1, Zenon DEF DataInv, CopyInv, diskVars
<1>5. PinnedWhileDirty'
  BY <1>2, Zenon DEF DataInv, PinnedWhileDirty, diskVars
<1> QED BY <1>3, <1>4, <1>5, Zenon DEF DataInv

\* begin_op(), kill() and the two ends of end_op() touch no block.
LEMMA OpStepsData ==
  ASSUME IInv, DataInv, NEW p \in Procs,
         BeginOp(p) \/ BeginOpSleep(p) \/ KillWakes(p) \/ EndOp(p) \/ CommitDone(p)
  PROVE  DataInv'
<1>1. UNCHANGED <<diskVars, cache, pins, lh, tail, boot>>
  BY Zenon DEF BeginOp, BeginOpSleep, KillWakes, EndOp, CommitDone, diskVars
<1>2. \A q \in Procs : \A l \in {"write_log", "install"} : pc[q] = l <=> pc'[q] = l
  BY Zenon DEF BeginOp, BeginOpSleep, KillWakes, EndOp, CommitDone, WakeupLog, IInv, Types
<1> QED BY <1>1, <1>2, DataFrame, Zenon

\* The last end_op() starts write_log() at the first block.
LEMMA EndOpLastData ==
  ASSUME IInv, CountInv, DataInv, NEW p \in Procs, EndOpLast(p)
  PROVE  DataInv'
<1> USE DEF DataInv
<1>1. boot = "up" /\ ~Installing
  BY OpAlone, Zenon DEF EndOpLast, Installing, CommitLabels
<1>2. ~Installing'
  BY <1>1, Zenon DEF EndOpLast, Installing, IInv, Types
<1>3. UNCHANGED <<disk, logd, hdr, cache, pins, lh, boot>> /\ tail' = 1
  BY Zenon DEF EndOpLast, diskVars
<1>4. DataTypes' /\ HeadInv' /\ CacheInv'
  BY <1>1, <1>2, <1>3 DEF DataTypes, HeadInv, NoRepeat, CacheInv
<1>5. CopyInv'
  BY <1>1, <1>2, <1>3 DEF CopyInv
<1>6. PinnedWhileDirty'
  BY <1>1, <1>2, <1>3, Zenon DEF PinnedWhileDirty, Installing
<1> QED BY <1>4, <1>5, <1>6, Zenon

\* Bringing a block into the cache, or evicting an unpinned one, changes nothing
\* that bread() returns.
LEMMA CacheData ==
  ASSUME IInv, DataInv, NEW b \in Blocks, Fill(b) \/ Evict(b)
  PROVE  DataInv'
<1> USE DEF DataInv
<1>1. UNCHANGED <<disk, logd, hdr, pins, lh, pc, tail, boot>>
  BY Zenon DEF Fill, Evict, diskVars
<1>2. cache' = [cache EXCEPT ![b] = disk[b]] \/ cache' = [cache EXCEPT ![b] = NoBuf]
  BY Zenon DEF Fill, Evict
<1>3. pins[b] = 0
  BY Zenon DEF Fill, Evict, CacheInv
<1>4. DataTypes'
  BY <1>1, <1>2, Zenon DEF DataTypes
<1>5. HeadInv'
  BY <1>1 DEF HeadInv, NoRepeat, Installing
<1>6. CacheInv'
  BY <1>1, <1>2, <1>3, Zenon DEF DataTypes, CacheInv
<1>7. CopyInv'
  <2>1. \A p \in Procs, k \in 1 .. Len(lh) :
          pc[p] = "write_log" => boot = "up" /\ ~Installing
    BY Zenon DEF IInv, Types, CommitInv, CommitLabels, BootInv, Installing
  <2>2. \A p \in Procs, k \in 1 .. Len(lh) :
          pc[p] = "write_log" \/ (Installing /\ k >= tail) => lh[k] # b
    BY <1>3, <2>1, LenIsNat
    DEF PinnedWhileDirty, Installing, IInv, Types, BootInv, DataTypes
  <2> QED BY <1>1, <1>2, <2>2 DEF CopyInv, Installing, DataTypes, IInv, Types
<1>8. PinnedWhileDirty'
  BY <1>1, Zenon DEF PinnedWhileDirty
<1> QED BY <1>4, <1>5, <1>6, <1>7, <1>8, Zenon

\* log_write() changes a block that is pinned, or appends and pins it.
LEMMA LogWriteData ==
  ASSUME IInv, CountInv, DataInv,
         NEW p \in Procs, NEW b \in Blocks, NEW v \in Vals, LogWrite(p, b, v)
  PROVE  DataInv'
<1> USE DEF DataInv
<1>1. boot = "up" /\ \A q \in Procs : pc[q] \notin {"write_log", "install"}
  BY OpAlone, Zenon DEF LogWrite, MayWrite, CommitLabels
<1>2. ~Installing
  BY <1>1, Zenon DEF Installing
<1>3. UNCHANGED <<disk, logd, hdr, pc, tail, boot>> /\ cache' = [cache EXCEPT ![b] = v]
  BY Zenon DEF LogWrite, diskVars
<1>4. ~Installing'
  BY <1>1, <1>3, Zenon DEF Installing
<1>5. lh \in Seq(Blocks) /\ Len(lh) \in Nat
  BY LenIsNat, Zenon DEF IInv, Types
<1>6. CASE (\E k \in 1 .. Len(lh) : lh[k] = b) /\ UNCHANGED <<lh, pins>>
  <2>1. pins[b] = 1
    BY <1>1, <1>6, Zenon DEF PinnedWhileDirty
  <2>2. DataTypes'
    BY <1>3, <1>6, Zenon DEF DataTypes
  <2>3. HeadInv'
    BY <1>2, <1>3, <1>4, <1>6 DEF HeadInv, NoRepeat
  <2>4. CacheInv'
    BY <1>3, <1>6, <2>1, LogAssumption DEF CacheInv, DataTypes
  <2>5. CopyInv'
    BY <1>1, <1>3, <1>4, Zenon DEF CopyInv
  <2>6. PinnedWhileDirty'
    BY <1>1, <1>3, <1>6, Zenon DEF PinnedWhileDirty
  <2> QED BY <2>2, <2>3, <2>4, <2>5, <2>6, Zenon
<1>7. CASE /\ \A k \in 1 .. Len(lh) : lh[k] # b
           /\ lh' = Append(lh, b)
           /\ pins' = [pins EXCEPT ![b] = @ + 1]
  <2>1. /\ Len(lh') = Len(lh) + 1
        /\ lh'[Len(lh) + 1] = b
        /\ \A k \in 1 .. Len(lh) : lh'[k] = lh[k]
    BY <1>5, <1>7, AppendProperties
  <2>2. pins[b] = 0
    BY <1>1, <1>7, Zenon DEF PinnedWhileDirty
  <2>3. DataTypes'
    BY <1>3, <1>7 DEF DataTypes
  <2>4. HeadInv'
    <3>1. Len(lh') <= LOGSIZE
      BY <1>5, <2>1, LogAssumption DEF LogWrite, LogIsFull
    <3>2. \A k \in 1 .. Len(lh') : k \in 1 .. Len(lh) \/ k = Len(lh) + 1
      BY <1>5, <2>1
    <3>3. NoRepeat(lh')
      BY <1>5, <1>7, <2>1, <3>2 DEF HeadInv, NoRepeat
    <3> QED BY <1>1, <1>2, <1>3, <1>4, <3>1, <3>3 DEF HeadInv, NoRepeat
  <2>5. CacheInv'
    BY <1>3, <1>7, <2>2, LogAssumption DEF CacheInv, DataTypes
  <2>6. CopyInv'
    BY <1>1, <1>3, <1>4, Zenon DEF CopyInv
  <2>7. PinnedWhileDirty'
    <3>1. \A c \in Blocks : (\E k \in 1 .. Len(lh') : lh'[k] = c)
                            <=> c = b \/ (\E k \in 1 .. Len(lh) : lh[k] = c)
      BY <1>5, <2>1
    <3>2. \A c \in Blocks : pins'[c] = IF c = b THEN 1 ELSE pins[c]
      BY <1>7, <2>2 DEF DataTypes
    <3> QED BY <1>1, <1>3, <1>7, <3>1, <3>2 DEF PinnedWhileDirty
  <2> QED BY <2>3, <2>4, <2>5, <2>6, <2>7, Zenon
<1> QED BY <1>6, <1>7, Zenon DEF LogWrite

\* One turn of write_log() copies a block from the cache, where it is pinned.
LEMMA WriteLogData ==
  ASSUME IInv, DataInv, NEW p \in Procs, WriteLog(p)
  PROVE  DataInv' /\ UNCHANGED cache
<1> USE DEF DataInv
<1>1. boot = "up" /\ ~Installing
  BY Zenon DEF IInv, CommitInv, CommitLabels, BootInv, Installing, WriteLog
<1>2. /\ UNCHANGED <<disk, hdr, pins, lh, pc, boot>> /\ tail' = tail + 1
      /\ tail \in 1 .. Len(lh) /\ tail \in Nat
      /\ logd' = [logd EXCEPT ![tail] = Bread(lh[tail])]
  BY LenIsNat DEF WriteLog, DataTypes, IInv, Types
<1>3. lh[tail] \in Blocks /\ tail \in Slots
  BY <1>2, LenIsNat, ElementOfSeq, LogAssumption DEF HeadInv, Slots, IInv, Types
<1>4. pins[lh[tail]] = 1
  BY <1>1, <1>2, <1>3, Zenon DEF PinnedWhileDirty, Installing
<1>5. cache[lh[tail]] # NoBuf /\ Bread(lh[tail]) = cache[lh[tail]]
  BY <1>3, <1>4 DEF CacheInv, Bread
<1>6. UNCHANGED cache
  BY <1>3, <1>5, Zenon DEF WriteLog, DataTypes
<1>7. DataTypes'
  BY <1>2, <1>3, <1>5, <1>6 DEF DataTypes
<1>8. Installing' = Installing
  BY <1>2, Zenon DEF Installing
<1>9. HeadInv' /\ CacheInv'
  BY <1>1, <1>2, <1>6, <1>8 DEF HeadInv, NoRepeat, CacheInv
<1>10. PinnedWhileDirty'
  BY <1>1, <1>2, Zenon DEF PinnedWhileDirty, Installing
<1>11. CopyInv'
  <2>1. \A k \in 1 .. Len(lh) : k < tail => logd[k] = cache[lh[k]]
    BY Zenon DEF CopyInv, WriteLog
  <2>2. \A k \in 1 .. Len(lh) : k < tail' => logd'[k] = cache[lh[k]]
    BY <1>2, <1>3, <1>5, <2>1 DEF DataTypes
  <2> QED BY <1>1, <1>2, <1>6, <1>8, <2>2 DEF CopyInv
<1> QED BY <1>6, <1>7, <1>9, <1>10, <1>11, Zenon

\* The commit point: every block has been copied to the log.
LEMMA WriteHeadData ==
  ASSUME IInv, DataInv, NEW p \in Procs, WriteHead(p)
  PROVE  DataInv'
<1> USE DEF DataInv
<1>1. boot = "up" /\ ~Installing
  BY Zenon DEF IInv, CommitInv, CommitLabels, BootInv, Installing, WriteHead
<1>2. /\ UNCHANGED <<disk, logd, cache, pins, lh, boot>> /\ tail' = 1 /\ hdr' = lh
      /\ pc' = [pc EXCEPT ![p] = "install"] /\ tail > Len(lh) /\ Len(lh) \in Nat
  BY LenIsNat, Zenon DEF WriteHead, IInv, Types
<1>3. Installing' /\ \A q \in Procs : pc'[q] # "write_log"
  BY <1>2, Zenon DEF Installing, IInv, Types, CommitInv, CommitLabels, WriteHead
<1>4. DataTypes' /\ CacheInv'
  BY <1>2 DEF DataTypes, CacheInv
<1>5. HeadInv'
  BY <1>1, <1>2, <1>3 DEF HeadInv, NoRepeat
<1>6. CopyInv'
  <2>1. \A k \in 1 .. Len(lh) : logd[k] = cache[lh[k]]
    BY <1>2 DEF CopyInv, WriteHead, DataTypes
  <2> QED BY <1>1, <1>2, <1>3, <2>1 DEF CopyInv
<1>7. PinnedWhileDirty'
  BY <1>1, <1>2, Zenon DEF PinnedWhileDirty, Installing
<1> QED BY <1>4, <1>5, <1>6, <1>7, Zenon

\* One turn of install_trans(0) writes a block home and unpins it.
LEMMA InstallTransData ==
  ASSUME IInv, DataInv, NEW p \in Procs, InstallTrans(p)
  PROVE  DataInv' /\ UNCHANGED cache
<1> USE DEF DataInv
<1>1. boot = "up" /\ Installing /\ \A q \in Procs : pc[q] # "write_log"
  BY Zenon DEF IInv, CommitInv, CommitLabels, BootInv, Installing, InstallTrans
<1>2. /\ UNCHANGED <<logd, hdr, lh, pc, boot>> /\ tail' = tail + 1
      /\ tail \in 1 .. Len(lh) /\ tail \in Nat /\ Len(lh) \in Nat
      /\ disk' = [disk EXCEPT ![lh[tail]] = logd[tail]]
      /\ pins' = [pins EXCEPT ![lh[tail]] = @ - 1]
  BY LenIsNat DEF InstallTrans, DataTypes, IInv, Types
<1>3. /\ tail \in Slots /\ logd[tail] \in Vals
      /\ \A k \in 1 .. Len(lh) : lh[k] \in Blocks
  BY <1>2, ElementOfSeq, LogAssumption DEF HeadInv, Slots, DataTypes, IInv, Types
<1>4. pins[lh[tail]] = 1
  BY <1>1, <1>2, <1>3 DEF PinnedWhileDirty, Installing
<1>5. cache[lh[tail]] = logd[tail]
  BY <1>1, <1>2, <1>3 DEF CopyInv
<1>6. UNCHANGED cache
  BY <1>3, <1>5, Zenon DEF InstallTrans, DataTypes
<1>7. \A b \in Blocks : pins'[b] = IF b = lh[tail] THEN 0 ELSE pins[b]
  BY <1>2, <1>3, <1>4 DEF DataTypes
<1>8. \A b \in Blocks : disk'[b] = IF b = lh[tail] THEN logd[tail] ELSE disk[b]
  BY <1>2, Zenon DEF DataTypes
<1>9. DataTypes'
  BY <1>2, <1>3, <1>4, <1>6 DEF DataTypes
<1>10. Installing'
  BY <1>1, <1>2, Zenon DEF Installing
<1>11. HeadInv'
  BY <1>1, <1>2, <1>10 DEF HeadInv, NoRepeat
<1>12. CacheInv'
  BY <1>5, <1>6, <1>7, <1>8, Zenon DEF CacheInv
<1>13. CopyInv'
  <2>1. \A k \in 1 .. Len(lh) : k < tail' => logd[k] = disk'[lh[k]]
    <3> SUFFICES ASSUME NEW k \in 1 .. Len(lh), k < tail'
                 PROVE  logd[k] = disk'[lh[k]]
      BY Zenon
    <3>1. CASE k = tail
      BY <3>1, <1>3, <1>8, Zenon
    <3>2. CASE k # tail
      <4>1. lh[k] # lh[tail]
        BY <3>2, <1>2, Zenon DEF HeadInv, NoRepeat
      <4>2. k < tail
        BY <3>2, <1>2
      <4> QED BY <4>1, <4>2, <1>1, <1>3, <1>8, Zenon DEF CopyInv
    <3> QED BY <3>1, <3>2, Zenon
  <2>2. \A k \in 1 .. Len(lh) : k >= tail' => logd[k] = cache[lh[k]]
    BY <1>1, <1>2 DEF CopyInv
  <2> QED BY <1>1, <1>2, <1>6, <1>10, <2>1, <2>2 DEF CopyInv
<1>14. PinnedWhileDirty'
  <2>1. \A b \in Blocks : (\E k \in tail + 1 .. Len(lh) : lh[k] = b)
                          <=> b # lh[tail] /\ (\E k \in tail .. Len(lh) : lh[k] = b)
    <3>1. \A k \in tail + 1 .. Len(lh) : lh[k] # lh[tail] /\ k \in tail .. Len(lh)
      BY <1>2 DEF HeadInv, NoRepeat
    <3>2. \A k \in tail .. Len(lh) : k = tail \/ k \in tail + 1 .. Len(lh)
      BY <1>2
    <3> QED BY <3>1, <3>2, Zenon
  <2>2. \A b \in Blocks : pins[b] = IF \E k \in tail .. Len(lh) : lh[k] = b THEN 1 ELSE 0
    BY <1>1, Zenon DEF PinnedWhileDirty, Installing
  <2>3. \A b \in Blocks :
          pins'[b] = IF \E k \in tail + 1 .. Len(lh) : lh[k] = b THEN 1 ELSE 0
    BY <2>1, <2>2, <1>7, Zenon
  <2> QED BY <1>1, <1>2, <1>10, <2>3 DEF PinnedWhileDirty, Installing
<1> QED BY <1>6, <1>9, <1>11, <1>12, <1>13, <1>14, Zenon

\* The header is cleared after every block is at home and unpinned.
LEMMA ClearHeadData ==
  ASSUME IInv, DataInv, NEW p \in Procs, ClearHead(p)
  PROVE  DataInv'
<1> USE DEF DataInv
<1>1. boot = "up" /\ Installing
  BY Zenon DEF IInv, CommitInv, CommitLabels, BootInv, Installing, ClearHead
<1>2. /\ UNCHANGED <<disk, logd, cache, pins, boot>> /\ tail' = 1
      /\ hdr' = <<>> /\ lh' = <<>> /\ Len(<<>>) = 0
      /\ tail > Len(lh) /\ tail \in Nat /\ Len(lh) \in Nat
  BY LenIsNat, EmptySeq, Zenon DEF ClearHead, DataTypes, IInv, Types
<1>3. ~Installing' /\ \A q \in Procs : pc'[q] # "write_log"
  BY Zenon DEF Installing, ClearHead, IInv, Types, CommitInv, CommitLabels
<1>4. DataTypes' /\ CacheInv'
  BY <1>2 DEF DataTypes, CacheInv
<1>5. HeadInv'
  BY <1>1, <1>2, <1>3, LogAssumption DEF HeadInv, NoRepeat
<1>6. CopyInv'
  BY <1>1, <1>2, <1>3, Zenon DEF CopyInv
<1>7. PinnedWhileDirty'
  <2>1. \A b \in Blocks : pins[b] = 0
    BY <1>1, <1>2 DEF PinnedWhileDirty, Installing
  <2> QED BY <1>2, <1>3, <2>1 DEF PinnedWhileDirty, Installing
<1> QED BY <1>4, <1>5, <1>6, <1>7, Zenon

\* A crash empties the cache and the header in memory.
LEMMA CrashData ==
  ASSUME IInv, DataInv, Crash
  PROVE  DataInv'
<1> USE DEF DataInv
<1>1. /\ UNCHANGED <<disk, logd, hdr>> /\ lh' = <<>> /\ Len(<<>>) = 0
      /\ tail' = 1 /\ boot' = "read_head"
      /\ cache' = [b \in Blocks |-> NoBuf] /\ pins' = [b \in Blocks |-> 0]
  BY EmptySeq, Zenon DEF Crash, diskVars
<1>2. \A q \in Procs : pc'[q] = "idle"
  BY Zenon DEF Crash
<1>3. DataTypes' /\ CacheInv'
  BY <1>1 DEF DataTypes, CacheInv
<1>4. HeadInv'
  BY <1>1, LogAssumption DEF HeadInv, NoRepeat
<1>5. CopyInv' /\ PinnedWhileDirty'
  BY <1>1, <1>2 DEF CopyInv, PinnedWhileDirty, Installing
<1> QED BY <1>3, <1>4, <1>5, Zenon

\* Recovery installs the transaction that the header on disk names.
LEMMA RecoverData ==
  ASSUME IInv, DataInv, Recover
  PROVE  DataInv'
<1> USE DEF DataInv
<1>1. /\ boot # "up" /\ ~Installing /\ ~Installing' /\ UNCHANGED <<logd, pins, pc>>
      /\ \A q \in Procs : pc[q] = "idle"
  BY Zenon DEF Recover, ReadHead, RecoverBlock, RecoverDone, IInv, BootInv, Installing,
     diskVars
<1>2. \A b \in Blocks : pins[b] = 0
  BY <1>1, Zenon DEF PinnedWhileDirty
<1>3. CASE ReadHead
  <2>1. /\ boot = "read_head" /\ boot' = "install" /\ lh' = hdr
        /\ UNCHANGED <<disk, hdr, cache, tail>>
    BY <1>3, Zenon DEF ReadHead, diskVars
  <2>2. DataTypes' /\ CacheInv' /\ PinnedWhileDirty'
    BY <1>1, <1>2, <2>1, Zenon DEF DataTypes, CacheInv, PinnedWhileDirty
  <2>3. HeadInv'
    BY <1>1, <2>1, Zenon DEF HeadInv, NoRepeat
  <2>4. CopyInv'
    BY <1>1, <2>1 DEF CopyInv, HeadInv
  <2> QED BY <2>2, <2>3, <2>4, Zenon
<1>4. CASE RecoverBlock
  <2>1. /\ boot = "install" /\ UNCHANGED <<hdr, lh, boot>> /\ tail' = tail + 1
        /\ tail \in 1 .. Len(lh) /\ tail \in Nat /\ Len(lh) \in Nat
        /\ disk' = [disk EXCEPT ![lh[tail]] = logd[tail]]
        /\ cache' = [cache EXCEPT ![lh[tail]] = logd[tail]]
    BY <1>4, LenIsNat DEF RecoverBlock, DataTypes, IInv, Types
  <2>2. /\ tail \in Slots /\ logd[tail] \in Vals
        /\ \A k \in 1 .. Len(lh) : lh[k] \in Blocks
    BY <2>1, ElementOfSeq, LogAssumption DEF HeadInv, Slots, DataTypes, IInv, Types
  <2>3. \A b \in Blocks : /\ disk'[b] = IF b = lh[tail] THEN logd[tail] ELSE disk[b]
                          /\ cache'[b] = IF b = lh[tail] THEN logd[tail] ELSE cache[b]
    BY <2>1, Zenon DEF DataTypes
  <2>4. DataTypes'
    BY <1>1, <2>1, <2>2 DEF DataTypes
  <2>5. HeadInv'
    BY <1>1, <2>1 DEF HeadInv, NoRepeat
  <2>6. CacheInv' /\ PinnedWhileDirty'
    BY <1>1, <1>2, <2>1, <2>3 DEF CacheInv, PinnedWhileDirty
  <2>7. \A k \in 1 .. Len(lh) : k < tail' => logd[k] = disk'[lh[k]]
    <3> SUFFICES ASSUME NEW k \in 1 .. Len(lh), k < tail'
                 PROVE  logd[k] = disk'[lh[k]]
      BY Zenon
    <3>1. CASE k = tail
      BY <3>1, <2>2, <2>3, Zenon
    <3>2. CASE k # tail
      <4>1. lh[k] # lh[tail]
        BY <3>2, <2>1, Zenon DEF HeadInv, NoRepeat
      <4>2. k < tail
        BY <3>2, <2>1
      <4> QED BY <4>1, <4>2, <2>1, <2>2, <2>3, Zenon DEF CopyInv
    <3> QED BY <3>1, <3>2, Zenon
  <2>8. CopyInv'
    BY <1>1, <2>1, <2>7, Zenon DEF CopyInv
  <2> QED BY <2>4, <2>5, <2>6, <2>8, Zenon
<1>5. CASE RecoverDone
  <2>1. /\ boot' = "up" /\ lh' = <<>> /\ hdr' = <<>> /\ Len(<<>>) = 0 /\ tail' = 1
        /\ UNCHANGED <<disk, cache>>
    BY <1>5, EmptySeq, Zenon DEF RecoverDone
  <2>2. DataTypes' /\ CacheInv' /\ PinnedWhileDirty'
    BY <1>1, <1>2, <2>1 DEF DataTypes, CacheInv, PinnedWhileDirty
  <2>3. HeadInv' /\ CopyInv'
    BY <1>1, <2>1, LogAssumption DEF HeadInv, NoRepeat, CopyInv
  <2> QED BY <2>2, <2>3, Zenon
<1> QED BY <1>3, <1>4, <1>5, Zenon DEF Recover

\* Every step keeps what the log, the cache and the disk have to do with each other.
LEMMA DataPreserves ==
  ASSUME IInv, CountInv, DataInv, [Next]_vars
  PROVE  DataInv'
<1>1. CASE UNCHANGED vars
  BY <1>1, DataFrame, Zenon DEF vars, diskVars
<1>2. ASSUME NEW p \in Procs, Commit(p)
      PROVE  DataInv'
  BY <1>2, WriteLogData, WriteHeadData, InstallTransData, ClearHeadData, OpStepsData,
     Zenon DEF Commit
<1>3. CASE Next
  BY <1>2, <1>3, OpStepsData, EndOpLastData, CacheData, LogWriteData, CrashData,
     RecoverData, Zenon
  DEF Next
<1> QED BY <1>1, <1>3, Zenon

\* The invariant of the log and its data holds in every reachable state.
LEMMA DataInvariant == Spec => [](IInv /\ CountInv /\ DataInv)
<1>1. Init => CountInv /\ DataInv
  BY InitData, Zenon
<1>2. (CountInv /\ DataInv) /\ IInv /\ [Next]_vars => (CountInv /\ DataInv)'
  BY CountPreserves, DataPreserves, Zenon
<1> QED BY <1>1, <1>2, Invariant, PTL DEF Spec

\* bpin() and bunpin() keep in the cache exactly the blocks whose home copy is
\* old, from log_write() to install_trans() and across crashes, whatever the
\* sizes of the log and the disk.
THEOREM PinsExact == Spec => []PinnedWhileDirty
  BY DataInvariant, PTL DEF DataInv

-----------------------------------------------------------------------------
(* Room in the log *)

WritesInv ==
  /\ writes \in [Procs -> 0 .. OpWrites]
  /\ \A p \in Procs : pc[p] # "op" => writes[p] = 0

RoomInv == WritesInv /\ Len(lh) + Cardinality(Due) <= LOGSIZE

\* The calls still to come are finitely many: no more than MAXOPBLOCKS for each
\* operation.
LEMMA DueBound ==
  ASSUME NEW S \in SUBSET Procs, NEW D \in SUBSET (S \X (1 .. MAXOPBLOCKS))
  PROVE  /\ IsFiniteSet(D) /\ Cardinality(D) \in Nat
         /\ Cardinality(D) <= Cardinality(S) * MAXOPBLOCKS
<1>1. IsFiniteSet(S)
  BY LogAssumption, FS_Subset, Zenon
<1>2. IsFiniteSet(1 .. MAXOPBLOCKS) /\ Cardinality(1 .. MAXOPBLOCKS) = MAXOPBLOCKS
  BY LogAssumption, FS_Interval
<1>3. /\ IsFiniteSet(S \X (1 .. MAXOPBLOCKS))
      /\ Cardinality(S \X (1 .. MAXOPBLOCKS)) = Cardinality(S) * MAXOPBLOCKS
  BY <1>1, <1>2, FS_Product, Zenon
<1>4. IsFiniteSet(D) /\ Cardinality(D) <= Cardinality(S \X (1 .. MAXOPBLOCKS))
  BY <1>3, FS_Subset, Zenon
<1> QED BY <1>3, <1>4, FS_CardinalityType, Zenon

\* The processes inside an operation, and the calls they may make, are such sets.
LEMMA DueSets ==
  /\ Active \in SUBSET Procs
  /\ Due \in SUBSET (Active \X (1 .. MAXOPBLOCKS))
  BY Zenon DEF Active, Due

\* The space is enough after a step that adds no call and no block.
LEMMA RoomFrame ==
  ASSUME IInv, RoomInv, lh' = lh \/ lh' = <<>>, Due' \subseteq Due
  PROVE  (Len(lh) + Cardinality(Due) <= LOGSIZE)'
<1>1. /\ Cardinality(Due') <= Cardinality(Due)
      /\ Cardinality(Due') \in Nat /\ Cardinality(Due) \in Nat
  <2>1. IsFiniteSet(Due)
    BY DueSets, DueBound, Zenon
  <2> QED BY <2>1, FS_Subset, FS_CardinalityType, Zenon
<1>2. Len(lh) \in Nat /\ Len(lh') \in Nat /\ Len(lh') <= Len(lh)
  BY LenIsNat, EmptySeq DEF IInv, Types
<1> QED BY <1>1, <1>2, LogAssumption DEF RoomInv

\* An operation makes no more calls than begin_op() has reserved blocks for.
LEMMA RoomPreserves ==
  ASSUME OpWrites <= MAXOPBLOCKS, IInv, CountInv, DataInv, RoomInv, [Next]_vars
  PROVE  RoomInv'
<1> USE DEF IInv, Types
<1>1. CASE UNCHANGED <<pc, writes, lh>>
  BY <1>1, RoomFrame, Zenon DEF RoomInv, WritesInv, Due, Active
<1>2. ASSUME NEW p \in Procs, BeginOp(p)
      PROVE  RoomInv'
  <2>1. WritesInv'
    BY <1>2, Zenon DEF BeginOp, RoomInv, WritesInv
  <2>2. outstanding' = Cardinality(Active')
    BY CountPreserves, Zenon DEF CountInv
  <2>3. Cardinality(Due') <= outstanding' * MAXOPBLOCKS /\ Cardinality(Due') \in Nat
    <3>1. Active' \in SUBSET Procs /\ Due' \in SUBSET (Active' \X (1 .. MAXOPBLOCKS))
      BY Zenon DEF Active, Due
    <3> QED BY <2>2, <3>1, DueBound, Zenon
  <2>4. /\ Len(lh) + (outstanding + 1) * MAXOPBLOCKS <= LOGSIZE
        /\ lh' = lh /\ outstanding' = outstanding + 1
    BY <1>2, Zenon DEF BeginOp, LogHasSpace
  <2>5. Len(lh) \in Nat /\ (outstanding + 1) * MAXOPBLOCKS \in Nat
    BY LenIsNat, LogAssumption
  <2> QED BY <2>1, <2>3, <2>4, <2>5, LogAssumption DEF RoomInv
<1>3. ASSUME NEW p \in Procs, NEW b \in Blocks, NEW v \in Vals, LogWrite(p, b, v)
      PROVE  RoomInv'
  <2> DEFINE c == <<p, writes[p] + 1>>
  <2>1. /\ pc[p] = "op" /\ writes[p] \in Nat /\ writes[p] < OpWrites /\ pc' = pc
        /\ writes' = [writes EXCEPT ![p] = writes[p] + 1]
    BY <1>3 DEF LogWrite, MayWrite, RoomInv, WritesInv
  <2>2. WritesInv'
    BY <2>1, LogAssumption DEF RoomInv, WritesInv
  <2>3. Active' = Active /\ p \in Active
    BY <2>1, Zenon DEF Active
  <2>4. c \in Due
    BY <2>1, <2>3, LogAssumption DEF Due
  <2>5. Due' = Due \ {c}
    <3>1. ASSUME NEW d \in Active \X (1 .. MAXOPBLOCKS)
          PROVE  d[2] > writes'[d[1]] <=> d[2] > writes[d[1]] /\ d # c
      <4>1. PICK q \in Active, i \in 1 .. MAXOPBLOCKS : d = <<q, i>>
        OBVIOUS
      <4>2. q \in Procs /\ writes[q] \in Nat
        BY LogAssumption DEF Active, RoomInv, WritesInv
      <4>3. CASE q = p
        BY <4>1, <4>2, <4>3, <2>1 DEF RoomInv, WritesInv
      <4>4. CASE q # p
        BY <4>1, <4>2, <4>4, <2>1, Zenon DEF RoomInv, WritesInv
      <4> QED BY <4>3, <4>4, Zenon
    <3> QED BY <2>3, <3>1, Zenon DEF Due
  <2>6. Cardinality(Due') = Cardinality(Due) - 1 /\ Cardinality(Due) \in Nat
    <3>1. IsFiniteSet(Due) /\ Cardinality(Due) \in Nat
      BY DueSets, DueBound, Zenon
    <3>2. Cardinality(Due \ {c}) = Cardinality(Due) - 1
      BY <2>4, <3>1, FS_RemoveElement, Zenon
    <3> QED BY <2>5, <3>1, <3>2, Zenon
  <2>7. Len(lh') <= Len(lh) + 1 /\ Len(lh) \in Nat /\ Len(lh') \in Nat
    <3>1. lh' = lh \/ lh' = Append(lh, b)
      BY <1>3, Zenon DEF LogWrite
    <3> QED BY <3>1, LenIsNat, AppendProperties
  <2> QED BY <2>2, <2>6, <2>7, LogAssumption DEF RoomInv
<1>4. ASSUME NEW p \in Procs, EndOp(p) \/ EndOpLast(p)
      PROVE  RoomInv'
  <2>1. WritesInv'
    BY <1>4, LogAssumption DEF EndOp, EndOpLast, WakeupLog, RoomInv, WritesInv
  <2>2. Active' = Active \ {p} /\ lh' = lh
    BY <1>4 DEF EndOp, EndOpLast, WakeupLog, Active
  <2>3. \A q \in Active' : writes'[q] = writes[q]
    BY <1>4, <2>2, Zenon DEF EndOp, EndOpLast, RoomInv, WritesInv, Active
  <2>4. Due' \subseteq Due
    BY <2>2, <2>3, Zenon DEF Due
  <2> QED BY <2>1, <2>2, <2>4, RoomFrame, Zenon DEF RoomInv
<1>5. ASSUME NEW p \in Procs, BeginOpSleep(p) \/ KillWakes(p) \/ Commit(p)
      PROVE  RoomInv'
  <2>1. /\ \A q \in Procs : pc[q] = "op" <=> pc'[q] = "op"
        /\ UNCHANGED writes /\ (lh' = lh \/ lh' = <<>>)
    BY <1>5, Zenon DEF BeginOpSleep, KillWakes, Commit, WriteLog, WriteHead, InstallTrans,
                ClearHead, CommitDone, WakeupLog
  <2>2. WritesInv' /\ Due' = Due
    BY <2>1, Zenon DEF RoomInv, WritesInv, Due, Active
  <2> QED BY <2>1, <2>2, RoomFrame, Zenon DEF RoomInv
<1>6. CASE Crash \/ Recover
  <2>1. /\ \A q \in Procs : pc'[q] = "idle"
        /\ lh' = <<>> \/ lh' = hdr \/ lh' = lh
    BY <1>6, Zenon DEF Crash, Recover, ReadHead, RecoverBlock, RecoverDone, BootInv
  <2>2. WritesInv'
    BY <1>6, <2>1, LogAssumption
    DEF Crash, Recover, ReadHead, RecoverBlock, RecoverDone, RoomInv, WritesInv, BootInv
  <2>3. Due' = {} /\ Cardinality({}) = 0
    BY <2>1, FS_EmptySet, Zenon DEF Due, Active
  <2>4. Len(lh') <= LOGSIZE /\ Len(lh') \in Nat
    BY <2>1, LenIsNat, EmptySeq, LogAssumption DEF DataInv, HeadInv
  <2> QED BY <2>2, <2>3, <2>4 DEF RoomInv
<1>7. CASE \E b \in Blocks : Fill(b) \/ Evict(b)
  BY <1>1, <1>7, Zenon DEF Fill, Evict
<1>8. CASE UNCHANGED vars
  BY <1>1, <1>8, Zenon DEF vars
<1> QED BY <1>2, <1>3, <1>4, <1>5, <1>6, <1>7, <1>8, Zenon DEF Next

\* begin_op() never lets in more operations than the log has room for: on a disk
\* whose log has LOGSIZE data blocks besides its header, operations of at most
\* MAXOPBLOCKS log_write() calls never make log_write() panic.
THEOREM LogNeverFull ==
  ASSUME OpWrites <= MAXOPBLOCKS, NLOG > LOGSIZE
  PROVE  Spec => []NoTransactionTooBig
<1>1. Init => RoomInv
  <2> SUFFICES ASSUME Init PROVE RoomInv
    BY Zenon
  <2>1. Due = {} /\ Len(lh) = 0
    BY EmptySeq, Zenon DEF Init, Due, Active
  <2> QED BY <2>1, FS_EmptySet, LogAssumption DEF Init, RoomInv, WritesInv
<1>2. RoomInv /\ (IInv /\ CountInv /\ DataInv) /\ [Next]_vars => RoomInv'
  BY RoomPreserves, Zenon
<1>3. RoomInv /\ IInv => NoTransactionTooBig
  <2> SUFFICES ASSUME RoomInv, IInv PROVE NoTransactionTooBig
    BY Zenon
  <2>1. Len(lh) \in Nat /\ Cardinality(Due) \in Nat
    BY LenIsNat, DueSets, DueBound, Zenon DEF IInv, Types
  <2> QED BY <2>1, LogAssumption DEF RoomInv, NoTransactionTooBig
<1> QED BY <1>1, <1>2, <1>3, DataInvariant, PTL DEF Spec

-----------------------------------------------------------------------------
(* The log implements an atomic disk *)

\* Replayed, of any header, log blocks and home blocks.
Replay(h, l, d) ==
  [b \in Blocks |->
    IF \E k \in 1 .. Len(h) : h[k] = b
    THEN l[CHOOSE k \in 1 .. Len(h) : h[k] = b]
    ELSE d[b]]

\* Recovery leaves the logged copy of a block in the header, and no other is touched.
LEMMA ReplayAt ==
  ASSUME NEW h \in Seq(Blocks), NEW l, NEW d, NoRepeat(h), NEW b \in Blocks
  PROVE  /\ \A k \in 1 .. Len(h) : h[k] = b => Replay(h, l, d)[b] = l[k]
         /\ (\A k \in 1 .. Len(h) : h[k] # b) => Replay(h, l, d)[b] = d[b]
<1>1. ASSUME NEW k \in 1 .. Len(h), h[k] = b
      PROVE  Replay(h, l, d)[b] = l[k]
  <2> DEFINE j == CHOOSE i \in 1 .. Len(h) : h[i] = b
  <2>1. j \in 1 .. Len(h) /\ h[j] = b
    BY <1>1, Zenon
  <2>2. j = k
    BY <1>1, <2>1, Zenon DEF NoRepeat
  <2>3. Replay(h, l, d)[b] = l[j]
    BY <1>1, Zenon DEF Replay
  <2> QED BY <2>2, <2>3, Zenon
<1>2. ASSUME \A k \in 1 .. Len(h) : h[k] # b
      PROVE  Replay(h, l, d)[b] = d[b]
  BY <1>2, Zenon DEF Replay
<1> QED BY <1>1, <1>2, Zenon

\* A replay gives every block a content, and nothing else.
LEMMA ReplayIsFcn ==
  ASSUME NEW h, NEW l, NEW d
  PROVE  Replay(h, l, d) = [b \in Blocks |-> Replay(h, l, d)[b]]
  BY Zenon DEF Replay

\* Two replays that agree on every block are the same.
LEMMA ReplayEq ==
  ASSUME NEW h, NEW l, NEW d, NEW g, NEW m, NEW e,
         \A b \in Blocks : Replay(h, l, d)[b] = Replay(g, m, e)[b]
  PROVE  Replay(h, l, d) = Replay(g, m, e)
  BY Zenon DEF Replay

\* Without a header, replaying changes nothing.
LEMMA ReplayNothing ==
  ASSUME NEW l, NEW d, NEW b \in Blocks
  PROVE  Replay(<<>>, l, d)[b] = d[b]
  BY EmptySeq DEF Replay

\* Replayed is the replay of the disk as it is, now and after a step.
LEMMA ReplayedIs ==
  /\ Replayed = Replay(hdr, logd, disk)
  /\ Replayed' = Replay(hdr', logd', disk')
  BY Zenon DEF Replayed, Replay

\* A step that leaves the disk, the log and the cache alone shows the same contents.
LEMMA SameContents ==
  ASSUME UNCHANGED <<disk, logd, hdr, cache, boot>>
  PROVE  UNCHANGED <<Current, Replayed>>
<1>1. Replayed' = Replayed
  BY ReplayedIs, Zenon
<1>2. Current' = Current
  BY <1>1, Zenon DEF Current, Bread
<1> QED BY <1>1, <1>2, Zenon

\* Writing home a block of the header does not change what recovery leaves.
LEMMA InstallReplay ==
  ASSUME NEW h \in Seq(Blocks), NoRepeat(h), NEW l, NEW d, NEW e,
         NEW k \in 1 .. Len(h), \A b \in Blocks : b # h[k] => e[b] = d[b]
  PROVE  Replay(h, l, e) = Replay(h, l, d)
<1>1. ASSUME NEW b \in Blocks
      PROVE  Replay(h, l, e)[b] = Replay(h, l, d)[b]
  <2>1. CASE \E j \in 1 .. Len(h) : h[j] = b
    BY <2>1, ReplayAt
  <2>2. CASE \A j \in 1 .. Len(h) : h[j] # b
    <3>1. Replay(h, l, e)[b] = e[b] /\ Replay(h, l, d)[b] = d[b]
      BY <2>2, ReplayAt
    <3> QED BY <2>2, <3>1, Zenon
  <2> QED BY <2>1, <2>2, Zenon
<1> QED BY <1>1, ReplayEq

\* At home after the last turn of an install loop, the blocks are as replayed.
LEMMA AllHome ==
  ASSUME NEW h \in Seq(Blocks), NoRepeat(h), NEW l, NEW d,
         \A k \in 1 .. Len(h) : l[k] = d[h[k]]
  PROVE  Replay(h, l, d) = Replay(<<>>, l, d)
<1>1. ASSUME NEW b \in Blocks
      PROVE  Replay(h, l, d)[b] = Replay(<<>>, l, d)[b]
  <2>1. Replay(h, l, d)[b] = d[b]
    <3>1. CASE \E j \in 1 .. Len(h) : h[j] = b
      BY <3>1, ReplayAt
    <3>2. CASE \A j \in 1 .. Len(h) : h[j] # b
      BY <3>2, ReplayAt
    <3> QED BY <3>1, <3>2, Zenon
  <2> QED BY <2>1, ReplayNothing
<1> QED BY <1>1, ReplayEq

\* begin_op(), log_write() and end_op() are the operations of the atomic disk.
LEMMA OpRefines ==
  ASSUME IInv, CountInv, DataInv, NEW p \in Procs
  PROVE  /\ BeginOp(p) => A!Begin(p)
         /\ EndOp(p) \/ EndOpLast(p) => A!End(p)
         /\ \A b \in Blocks, v \in Vals : LogWrite(p, b, v) => A!Write(p, b, v)
<1> USE DEF IInv, Types
<1>1. ASSUME BeginOp(p) PROVE A!Begin(p)
  <2>1. Active' = Active \cup {p} /\ p \notin Active
    BY <1>1, Zenon DEF BeginOp, Active
  <2>2. UNCHANGED <<disk, logd, hdr, cache, boot>>
    BY <1>1, Zenon DEF BeginOp, diskVars
  <2> QED BY <2>1, <2>2, SameContents, Zenon DEF A!Begin
<1>2. ASSUME EndOp(p) \/ EndOpLast(p) PROVE A!End(p)
  <2>1. Active' = Active \ {p} /\ p \in Active
    BY <1>2 DEF EndOp, EndOpLast, WakeupLog, Active
  <2>2. UNCHANGED <<disk, logd, hdr, cache, boot>>
    BY <1>2, Zenon DEF EndOp, EndOpLast, diskVars
  <2> QED BY <2>1, <2>2, SameContents, Zenon DEF A!End
<1>3. ASSUME NEW b \in Blocks, NEW v \in Vals, LogWrite(p, b, v)
      PROVE  A!Write(p, b, v)
  <2>1. boot = "up" /\ boot' = "up" /\ p \in Active /\ Active' = Active
    BY <1>3, OpAlone, Zenon DEF LogWrite, MayWrite, Active
  <2>2. UNCHANGED <<disk, logd, hdr>> /\ cache' = [cache EXCEPT ![b] = v]
    BY <1>3, Zenon DEF LogWrite, diskVars
  <2>3. Replayed' = Replayed
    BY <2>2, ReplayedIs, Zenon
  <2>4. \A c \in Blocks : (Bread(c))' = IF c = b THEN v ELSE Bread(c)
    BY <2>2, LogAssumption, Zenon DEF Bread, DataInv, DataTypes
  <2>5. Current' = [Current EXCEPT ![b] = v]
    BY <2>1, <2>4, Zenon DEF Current
  <2> QED BY <2>1, <2>3, <2>5, Zenon DEF A!Write
<1> QED BY <1>1, <1>2, <1>3, Zenon

\* Reading a block into the cache, or evicting it, does not show.
LEMMA CacheRefines ==
  ASSUME DataInv, NEW b \in Blocks, Fill(b) \/ Evict(b)
  PROVE  UNCHANGED A!vars
<1>1. UNCHANGED <<disk, logd, hdr, pc, boot>>
  BY Zenon DEF Fill, Evict, diskVars
<1>2. Replayed' = Replayed /\ Active' = Active
  BY <1>1, ReplayedIs, Zenon DEF Active
<1>3. \A c \in Blocks : (Bread(c))' = Bread(c)
  BY <1>1, LogAssumption, Zenon DEF Fill, Evict, Bread, DataInv, DataTypes, CacheInv
<1>4. Current' = Current
  BY <1>1, <1>2, <1>3, Zenon DEF Current
<1> QED BY <1>2, <1>4, Zenon DEF A!vars

\* A crash shows what a replay of the log leaves.
LEMMA CrashRefines ==
  ASSUME Crash
  PROVE  A!Crash
<1>1. UNCHANGED <<disk, logd, hdr>> /\ boot' = "read_head"
  BY Zenon DEF Crash, diskVars
<1>2. Replayed' = Replayed /\ Active' = {}
  BY <1>1, ReplayedIs, Zenon DEF Active, Crash
<1>3. Current' = Replayed'
  BY <1>1, Zenon DEF Current
<1> QED BY <1>2, <1>3, Zenon DEF A!Crash

\* Recovery does not show.
LEMMA RecoverRefines ==
  ASSUME IInv, DataInv, Recover
  PROVE  UNCHANGED A!vars
<1>1. Active' = Active /\ boot # "up" /\ hdr \in Seq(Blocks) /\ NoRepeat(hdr)
  BY Zenon DEF Recover, ReadHead, RecoverBlock, RecoverDone, Active,
               DataInv, HeadInv, IInv, Types
<1>2. CASE ReadHead
  <2>1. UNCHANGED <<disk, logd, hdr>> /\ boot' # "up"
    BY <1>2, Zenon DEF ReadHead, diskVars
  <2>2. Replayed' = Replayed
    BY <2>1, ReplayedIs, Zenon
  <2> QED BY <1>1, <2>1, <2>2, Zenon DEF Current, A!vars
<1>3. CASE RecoverBlock
  <2>1. /\ hdr = lh /\ tail \in 1 .. Len(hdr) /\ UNCHANGED <<logd, hdr, boot>>
        /\ disk' = [disk EXCEPT ![hdr[tail]] = logd[tail]]
    BY <1>3, LenIsNat DEF RecoverBlock, DataInv, DataTypes, HeadInv, IInv, Types
  <2>2. Replayed' = Replayed
    <3>1. \A b \in Blocks : b # hdr[tail] => disk'[b] = disk[b]
      BY <2>1, Zenon DEF DataInv, DataTypes
    <3>2. tail \in 1 .. Len(hdr)
      BY <2>1, Zenon
    <3>3. Replay(hdr, logd, disk') = Replay(hdr, logd, disk)
      BY <1>1, <3>1, <3>2, InstallReplay
    <3> QED BY <2>1, <3>3, ReplayedIs, Zenon
  <2> QED BY <1>1, <2>1, <2>2, Zenon DEF Current, A!vars
<1>4. CASE RecoverDone
  <2>1. /\ hdr = lh /\ hdr' = <<>> /\ UNCHANGED <<disk, logd, cache, pins>> /\ boot' = "up"
        /\ \A k \in 1 .. Len(hdr) : logd[k] = disk[hdr[k]]
    BY <1>4, LenIsNat DEF RecoverDone, DataInv, DataTypes, HeadInv, CopyInv, IInv, Types
  <2>2. Replayed' = Replayed
    BY <1>1, <2>1, AllHome, ReplayedIs, Zenon
  <2>3. \A b \in Blocks : (Bread(b))' = disk[b]
    BY <1>1, <2>1, Zenon DEF Bread, DataInv, CacheInv, PinnedWhileDirty
  <2>4. \A b \in Blocks : Replayed'[b] = disk[b]
    BY <2>1, ReplayNothing, ReplayedIs
  <2>5. Current' = Replayed'
    BY <2>1, <2>3, <2>4 DEF Current, Replayed
  <2> QED BY <1>1, <2>2, <2>5, Zenon DEF Current, A!vars
<1> QED BY <1>2, <1>3, <1>4, Zenon DEF Recover

\* write_head() is the commit point; the other steps of commit() do not show.
LEMMA CommitRefines ==
  ASSUME IInv, CountInv, DataInv, NEW p \in Procs, Commit(p)
  PROVE  A!Commit \/ UNCHANGED A!vars
<1>1. /\ hdr \in Seq(Blocks) /\ NoRepeat(hdr) /\ lh \in Seq(Blocks) /\ NoRepeat(lh)
      /\ disk \in [Blocks -> Vals]
  BY Zenon DEF DataInv, DataTypes, HeadInv, IInv, Types
<1>2. Active' = Active
  BY Zenon DEF Commit, WriteLog, WriteHead, InstallTrans, ClearHead, CommitDone,
               WakeupLog, Active, IInv, Types
<1>3. boot = "up" /\ boot' = "up" /\ Active = {}
  <2>1. pc[p] \in CommitLabels
    BY Zenon DEF Commit, WriteLog, WriteHead, InstallTrans, ClearHead, CommitDone,
       CommitLabels
  <2>2. boot = "up" /\ boot' = boot
    BY <2>1, Zenon DEF IInv, BootInv, CommitLabels, Commit, WriteLog, WriteHead,
                       InstallTrans, ClearHead, CommitDone
  <2> QED BY <2>1, <2>2, OpAlone, Zenon DEF Active
<1>4. CASE WriteLog(p)
  <2>1. UNCHANGED <<disk, hdr, cache>> /\ hdr = <<>>
    BY <1>3, <1>4, WriteLogData, Zenon
    DEF WriteLog, DataInv, HeadInv, Installing, IInv, CommitInv, CommitLabels
  <2>2. Replayed' = Replayed
    BY <2>1, ReplayNothing, ReplayEq, ReplayedIs
  <2>3. Current' = Current
    BY <1>3, <2>1, Zenon DEF Current, Bread
  <2> QED BY <1>2, <2>2, <2>3, Zenon DEF A!vars
<1>5. CASE WriteHead(p)
  <2>1. /\ UNCHANGED <<disk, logd, cache, pins>> /\ hdr' = lh
        /\ \A k \in 1 .. Len(lh) : logd[k] = cache[lh[k]]
    BY <1>1, <1>5, LenIsNat DEF WriteHead, DataInv, DataTypes, CopyInv
  <2>2. \A q \in Procs : pc[q] # "install"
    BY <1>5, Zenon DEF WriteHead, IInv, CommitInv, CommitLabels
  <2>3. ASSUME NEW b \in Blocks
        PROVE  Replay(lh, logd, disk)[b] = Bread(b)
    <3>1. CASE \E k \in 1 .. Len(lh) : lh[k] = b
      <4>1. pins[b] = 1
        BY <1>3, <2>2, <3>1, Zenon DEF DataInv, PinnedWhileDirty
      <4>2. Bread(b) = cache[b]
        BY <4>1 DEF DataInv, CacheInv, Bread
      <4> QED BY <1>1, <2>1, <3>1, <4>2, ReplayAt
    <3>2. CASE \A k \in 1 .. Len(lh) : lh[k] # b
      <4>1. pins[b] = 0
        BY <1>3, <2>2, <3>2, Zenon DEF DataInv, PinnedWhileDirty
      <4>2. Bread(b) = disk[b]
        BY <4>1, Zenon DEF DataInv, CacheInv, Bread
      <4> QED BY <1>1, <3>2, <4>2, ReplayAt
    <3> QED BY <3>1, <3>2, Zenon
  <2>4. Replayed' = Current
    <3>1. Current = [b \in Blocks |-> Bread(b)]
      BY <1>3, Zenon DEF Current
    <3>2. Replay(lh, logd, disk) = [b \in Blocks |-> Bread(b)]
      BY <2>3, ReplayIsFcn
    <3> QED BY <2>1, <3>1, <3>2, ReplayedIs, Zenon
  <2>5. Current' = Current
    BY <1>3, <2>1, Zenon DEF Current, Bread
  <2> QED BY <1>2, <1>3, <2>4, <2>5, Zenon DEF A!Commit
<1>6. CASE InstallTrans(p)
  <2>1. /\ hdr = lh /\ tail \in 1 .. Len(hdr) /\ UNCHANGED <<logd, hdr, cache>>
        /\ disk' = [disk EXCEPT ![hdr[tail]] = logd[tail]]
    <3>1. hdr = lh
      BY <1>3, <1>6, Zenon DEF InstallTrans, DataInv, HeadInv, Installing
    <3>2. tail \in 1 .. Len(lh)
      BY <1>1, <1>6, LenIsNat DEF InstallTrans, DataInv, DataTypes
    <3> QED BY <1>6, <3>1, <3>2, InstallTransData, Zenon DEF InstallTrans
  <2>2. Replayed' = Replayed
    <3>1. \A b \in Blocks : b # hdr[tail] => disk'[b] = disk[b]
      BY <2>1, Zenon DEF DataInv, DataTypes
    <3>2. tail \in 1 .. Len(hdr)
      BY <2>1, Zenon
    <3>3. Replay(hdr, logd, disk') = Replay(hdr, logd, disk)
      BY <1>1, <3>1, <3>2, InstallReplay
    <3> QED BY <2>1, <3>3, ReplayedIs, Zenon
  <2>3. ASSUME NEW b \in Blocks
        PROVE  (Bread(b))' = Bread(b)
    <3>1. CASE b = hdr[tail]
      <4>1. pins[b] = 1
        BY <1>3, <1>6, <2>1, <3>1 DEF InstallTrans, DataInv, PinnedWhileDirty
      <4> QED BY <2>1, <4>1 DEF DataInv, CacheInv, Bread
    <3>2. CASE b # hdr[tail]
      BY <1>1, <2>1, <3>2, Zenon DEF Bread
    <3> QED BY <3>1, <3>2, Zenon
  <2>4. Current' = Current
    BY <1>3, <2>3, Zenon DEF Current
  <2> QED BY <1>2, <2>2, <2>4, Zenon DEF A!vars
<1>7. CASE ClearHead(p)
  <2>1. /\ hdr = lh /\ hdr' = <<>> /\ UNCHANGED <<disk, logd, cache>>
        /\ \A k \in 1 .. Len(hdr) : logd[k] = disk[hdr[k]]
    BY <1>1, <1>3, <1>7, LenIsNat DEF ClearHead, DataInv, DataTypes, HeadInv, CopyInv,
       Installing
  <2>2. Replayed' = Replayed
    BY <1>1, <2>1, AllHome, ReplayedIs, Zenon
  <2>3. Current' = Current
    BY <1>3, <2>1, Zenon DEF Current, Bread
  <2> QED BY <1>2, <2>2, <2>3, Zenon DEF A!vars
<1>8. CASE CommitDone(p)
  <2>1. UNCHANGED <<disk, logd, hdr, cache, boot>>
    BY <1>8, Zenon DEF CommitDone, diskVars
  <2> QED BY <1>2, <2>1, SameContents, Zenon DEF A!vars
<1> QED BY <1>4, <1>5, <1>6, <1>7, <1>8, Zenon DEF Commit

\* Every step of the log is a step of the atomic disk, or none.
LEMMA StepRefines ==
  ASSUME IInv, CountInv, DataInv, [Next]_vars
  PROVE  [A!Next]_(A!vars)
<1>1. ASSUME UNCHANGED <<disk, logd, hdr, cache, boot>>,
             \A p \in Procs : pc[p] = "op" <=> pc'[p] = "op"
      PROVE  UNCHANGED A!vars
  <2>1. Active' = Active
    BY <1>1, Zenon DEF Active
  <2> QED BY <1>1, <2>1, SameContents, Zenon DEF A!vars
<1>2. CASE UNCHANGED vars
  BY <1>1, <1>2, Zenon DEF vars
<1>3. ASSUME NEW p \in Procs, BeginOpSleep(p) \/ KillWakes(p)
      PROVE  UNCHANGED A!vars
  BY <1>1, <1>3, Zenon DEF BeginOpSleep, KillWakes, diskVars, IInv, Types
<1>4. CASE Next
  BY <1>3, <1>4, OpRefines, CommitRefines, CacheRefines, CrashRefines, RecoverRefines, Zenon
  DEF Next, A!Next
<1> QED BY <1>2, <1>4, Zenon

\* The redo log implements the atomic disk: for any number of processes, blocks
\* and contents, any sizes of the log and any number of crashes, also during
\* recovery, the disk is always left as it was at some moment without active
\* operations, and recovery shows just those contents.
THEOREM Refinement == Spec => ImplementsAtomicDisk
<1>1. Init => A!Init
  <2> SUFFICES ASSUME Init PROVE A!Init
    BY Zenon
  <2>1. Current = Replayed /\ Active = {}
    BY Zenon DEF Init, Current, Active
  <2>2. \A b \in Blocks : Replayed[b] = disk[b]
    BY ReplayedIs, ReplayNothing DEF Init
  <2>3. Replayed = disk
    BY <2>2 DEF Replayed, Init
  <2> QED BY <2>1, <2>3, Zenon DEF Init, A!Init
<1>2. (IInv /\ CountInv /\ DataInv) /\ [Next]_vars => [A!Next]_(A!vars)
  BY StepRefines, Zenon
<1> QED BY <1>1, <1>2, DataInvariant, PTL DEF Spec, ImplementsAtomicDisk, A!Spec

=============================================================================
