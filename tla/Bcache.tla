------------------------------- MODULE Bcache -------------------------------
(***************************************************************************)
(* kernel/bio.c over kernel/virtio_disk.c: bread(), bwrite(), brelse(),    *)
(* bpin() and bunpin() by processes that use one buffer at a time.         *)
(*                                                                         *)
(* Code under bcache.lock is one step; a sleeplock is taken in one step    *)
(* when it is free, as SleepLock shows.                                    *)
(***************************************************************************)
EXTENDS VirtioDisk

ASSUME CacheAssumption == IsFiniteSet(Procs) /\ IsFiniteSet(Bufs)

VARIABLES
  lru,     \* the list from bcache.head, most recently used first
  valid,   \* b->valid
  refcnt,  \* b->refcnt
  lock,    \* holder of the sleeplock b->lock, or Nil
  want,    \* the argument blockno of bread()
  pinned   \* external: blocks the log has pinned

cacheVars == <<lru, valid, refcnt, lock, want, pinned>>
vars == <<diskVars, cacheVars>>

NBUF == Cardinality(Bufs)

\* Where a process has a reference to buf[p].
Using == RwLabels \cup {"lock", "holding", "brelse"}

\* Every variable holds a value of its type.
TypeOK ==
  /\ DiskTypeOK
  /\ pc \in [Procs -> Using \cup {"user"}]
  /\ lru \in [1 .. NBUF -> Bufs] /\ \A b \in Bufs : \E i \in 1 .. NBUF : lru[i] = b
  /\ valid \in [Bufs -> {0, 1}]
  /\ refcnt \in [Bufs -> Nat]
  /\ lock \in [Bufs -> Procs \cup {Nil}]
  /\ want \in [Procs -> Blocks \cup {Nil}]
  /\ pinned \subseteq Blocks

\* binit(); the buffers are alike, so any order will do.
Init ==
  /\ DiskInit
  /\ lru = CHOOSE s \in [1 .. NBUF -> Bufs] : \A b \in Bufs : \E i \in 1 .. NBUF : s[i] = b
  /\ valid = [b \in Bufs |-> 0]
  /\ refcnt = [b \in Bufs |-> 0]
  /\ lock = [b \in Bufs |-> Nil]
  /\ want = [p \in Procs |-> Nil]
  /\ pinned = {}

-----------------------------------------------------------------------------
(* bget() and bread() *)

\* External: the callers keep to NBUF buffers.  begin_op() admits operations
\* by the blocks they may write, and NBUF is the size of the log.
BufferReserved ==
  Cardinality({p \in Procs : pc[p] # "user"}) + Cardinality(pinned) < NBUF

Caches(b, k) == blockno[b] = k

\* bget() finds the block in the cache.
BgetHit(p, k, b) ==
  /\ pc[p] = "user" /\ BufferReserved
  /\ Caches(b, k)
  /\ refcnt' = [refcnt EXCEPT ![b] = @ + 1]
  /\ buf' = [buf EXCEPT ![p] = b]
  /\ want' = [want EXCEPT ![p] = k]
  /\ pc' = [pc EXCEPT ![p] = "lock"]
  /\ UNCHANGED <<queueVars, deviceVars, used_idx, irq, intr, data, owned, blockno,
                 write, idx, lru, valid, lock, pinned>>

\* The places in the list of the buffers without references.
Unused == {i \in 1 .. NBUF : refcnt[lru[i]] = 0}

\* Mutant: b->valid is not reset.
RecycleValid(b) == UNCHANGED valid

Recycle(b) == valid' = [valid EXCEPT ![b] = 0]

\* bget() recycles the least recently used buffer without references.
BgetMiss(p, k) ==
  LET b == lru[Max(Unused)] IN
  /\ pc[p] = "user" /\ BufferReserved
  /\ \A c \in Bufs : ~Caches(c, k)
  /\ Unused # {}
  /\ blockno' = [blockno EXCEPT ![b] = k]
  /\ Recycle(b)
  /\ refcnt' = [refcnt EXCEPT ![b] = 1]
  /\ buf' = [buf EXCEPT ![p] = b]
  /\ want' = [want EXCEPT ![p] = k]
  /\ pc' = [pc EXCEPT ![p] = "lock"]
  /\ UNCHANGED <<queueVars, deviceVars, used_idx, irq, intr, data, owned, write, idx,
                 lru, lock, pinned>>

\* acquiresleep(&b->lock), and bread()'s test of b->valid.
BreadLock(p) ==
  /\ pc[p] = "lock"
  /\ lock[buf[p]] = Nil
  /\ lock' = [lock EXCEPT ![buf[p]] = p]
  /\ pc' = [pc EXCEPT ![p] = IF valid[buf[p]] = 1 THEN "holding" ELSE "rw"]
  /\ write' = [write EXCEPT ![p] = 0]
  /\ UNCHANGED <<queueVars, deviceVars, used_idx, irq, intr, data, owned, blockno,
                 buf, idx, lru, valid, refcnt, want, pinned>>

\* virtio_disk_rw() returns to bread() or bwrite().
RwDone(p) ==
  /\ pc[p] = "rw_done"
  /\ valid' = IF write[p] = 0 THEN [valid EXCEPT ![buf[p]] = 1] ELSE valid
  /\ pc' = [pc EXCEPT ![p] = "holding"]
  /\ write' = [write EXCEPT ![p] = 0]
  /\ UNCHANGED <<queueVars, deviceVars, used_idx, irq, intr, data, owned, blockno,
                 buf, idx, lru, refcnt, lock, want, pinned>>

-----------------------------------------------------------------------------
(* What the holder of a buffer does with it *)

\* The caller changes b->data.
Modify(p, v) ==
  /\ pc[p] = "holding"
  /\ data' = [data EXCEPT ![buf[p]] = v]
  /\ UNCHANGED <<queueVars, deviceVars, used_idx, irq, intr, owned, blockno, pc, buf,
                 write, idx, cacheVars>>

Bwrite(p) ==
  /\ pc[p] = "holding"
  /\ pc' = [pc EXCEPT ![p] = "rw"]
  /\ write' = [write EXCEPT ![p] = 1]
  /\ UNCHANGED <<queueVars, deviceVars, used_idx, irq, intr, data, owned, blockno,
                 buf, idx, cacheVars>>

\* bpin(), by log_write() for a block that is new in the log.
Bpin(p) ==
  /\ pc[p] = "holding"
  /\ want[p] \notin pinned
  /\ BufferReserved
  /\ refcnt' = [refcnt EXCEPT ![buf[p]] = @ + 1]
  /\ pinned' = pinned \cup {want[p]}
  /\ UNCHANGED <<diskVars, lru, valid, lock, want>>

\* Mutant: bunpin() does not drop the reference.
BunpinKeeps(p) ==
  /\ pc[p] = "holding"
  /\ want[p] \in pinned
  /\ pinned' = pinned \ {want[p]}
  /\ UNCHANGED <<diskVars, lru, valid, refcnt, lock, want>>

\* bunpin(), by install_trans() for a block it has written home.
Bunpin(p) ==
  /\ pc[p] = "holding"
  /\ want[p] \in pinned
  /\ refcnt' = [refcnt EXCEPT ![buf[p]] = @ - 1]
  /\ pinned' = pinned \ {want[p]}
  /\ UNCHANGED <<diskVars, lru, valid, lock, want>>

\* brelse(): releasesleep() ...
BrelseUnlock(p) ==
  /\ pc[p] = "holding"
  /\ lock' = [lock EXCEPT ![buf[p]] = Nil]
  /\ pc' = [pc EXCEPT ![p] = "brelse"]
  /\ UNCHANGED <<queueVars, deviceVars, used_idx, irq, intr, data, owned, blockno,
                 buf, write, idx, lru, valid, refcnt, want, pinned>>

ToFront(b) ==
  LET i == CHOOSE j \in 1 .. NBUF : lru[j] = b
  IN  [j \in 1 .. NBUF |-> IF j = 1 THEN b ELSE IF j <= i THEN lru[j - 1] ELSE lru[j]]

\* ... then drop the reference; without others the buffer moves to the front.
BrelseDrop(p) ==
  LET b == buf[p] IN
  /\ pc[p] = "brelse"
  /\ refcnt' = [refcnt EXCEPT ![b] = @ - 1]
  /\ lru' = IF refcnt[b] = 1 THEN ToFront(b) ELSE lru
  /\ buf' = [buf EXCEPT ![p] = Nil]
  /\ want' = [want EXCEPT ![p] = Nil]
  /\ pc' = [pc EXCEPT ![p] = "user"]
  /\ UNCHANGED <<queueVars, deviceVars, used_idx, irq, intr, data, owned, blockno,
                 write, idx, valid, lock, pinned>>

-----------------------------------------------------------------------------

CacheStep(p) ==
  \/ \E k \in Blocks : BgetMiss(p, k) \/ \E b \in Bufs : BgetHit(p, k, b)
  \/ BreadLock(p) \/ RwDone(p)
  \/ \E v \in Vals : Modify(p, v)
  \/ Bwrite(p) \/ Bpin(p) \/ Bunpin(p) \/ BrelseUnlock(p) \/ BrelseDrop(p)

Next ==
  \/ DiskNext /\ UNCHANGED cacheVars
  \/ \E p \in Procs : CacheStep(p)

Spec == Init /\ [][Next]_vars

-----------------------------------------------------------------------------
(* Safety *)

\* bget() finds an unused buffer whenever the callers have reserved one: no
\* reference leaks, and bget() does not panic.
BufferLeft == BufferReserved => Unused # {}

-----------------------------------------------------------------------------
(* Refinement *)

Holders(k) ==
  {p \in Procs : want[p] = k /\ (pc[p] = "holding" \/ write[p] = 1)}

View ==
  [k \in Blocks |->
    IF \E b \in Bufs : blockno[b] = k /\ valid[b] = 1
    THEN data[CHOOSE b \in Bufs : blockno[b] = k]
    ELSE platter[k]]

Owner == [k \in Blocks |-> IF Holders(k) = {} THEN Nil ELSE CHOOSE p \in Procs : p \in Holders(k)]

BC == INSTANCE BlockCache WITH view <- View, stable <- platter, owner <- Owner

\* The buffer cache over the disk driver is what the log takes it for.
ImplementsBlockCache == BC!Spec

=============================================================================
