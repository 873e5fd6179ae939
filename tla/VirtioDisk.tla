----------------------------- MODULE VirtioDisk -----------------------------
(***************************************************************************)
(* kernel/virtio_disk.c: requests of three chained descriptors, handed to  *)
(* the device through the avail ring and handed back through the used      *)
(* ring, and the interrupt handler that tells the waiting process.         *)
(*                                                                         *)
(* Code under disk.vdisk_lock is one step and sleep() is atomic, except in *)
(* the interrupt handler: the device works beside it.  The device          *)
(* (external) takes requests in order and finishes them in any order; it   *)
(* reports no errors.                                                      *)
(***************************************************************************)
EXTENDS Integers, FiniteSets, FiniteSetsExt

CONSTANTS
  Procs,   \* processes
  Bufs,    \* struct buf's
  Blocks,  \* blocks of the disk
  Vals,    \* contents of a block
  Nil,     \* no block, no buffer, no descriptor
  NUM,     \* number of descriptors, and size of the two rings
  UINT16   \* 2^w for the width w of the ring indices

ASSUME DiskAssumption ==
  /\ NUM \in Nat /\ NUM >= 3
  /\ UINT16 \in Nat /\ UINT16 >= NUM /\ UINT16 % NUM = 0
  /\ Nil \notin Procs \cup Bufs \cup Blocks \cup 0 .. NUM

VARIABLES
  free,           \* {i : disk.free[i]}
  desc,           \* disk.desc, with disk.ops[i] in desc[i].op
  info,           \* disk.info[i].b
  avail,          \* disk.avail->ring
  avail_idx,      \* disk.avail->idx
  used,           \* disk.used->ring
  used_ring_idx,  \* disk.used->idx, which the device increments
  used_idx,       \* disk.used_idx
  irq,            \* the device has an interrupt pending
  intr,           \* virtio_disk_intr() is running, with vdisk_lock
  taken,          \* the device has read the avail ring up to here
  inflight,       \* chains the device is working on
  platter,        \* the disk itself
  data,           \* b->data
  owned,          \* b->disk: the disk owns the buffer
  blockno,        \* b->blockno, Nil for a buffer never used
  pc,             \* where a process stands
  buf,            \* the buffer of the process
  write,          \* its argument write to virtio_disk_rw()
  idx             \* its idx[0]

queueVars == <<free, desc, info, avail, avail_idx>>
deviceVars == <<used, used_ring_idx, taken, inflight, platter>>
diskVars == <<queueVars, deviceVars, used_idx, irq, intr, data, owned, blockno,
              pc, buf, write, idx>>

Descs == 0 .. NUM - 1

NoDesc == [op |-> Nil, buf |-> Nil, next |-> Nil]

RwLabels == {"rw", "desc_sleep", "io_sleep", "io_woken", "rw_done"}

\* Every variable of the driver holds a value of its type.
DiskTypeOK ==
  /\ free \subseteq Descs
  /\ desc \in [Descs -> [op : [write : {0, 1}, sector : Blocks] \cup {Nil},
                         buf : Bufs \cup {Nil}, next : Descs \cup {Nil}]]
  /\ info \in [Descs -> Bufs \cup {Nil}]
  /\ avail \in [Descs -> Descs] /\ used \in [Descs -> Descs]
  /\ {avail_idx, used_ring_idx, used_idx, taken} \subseteq 0 .. UINT16 - 1
  /\ irq \in BOOLEAN /\ intr \in BOOLEAN
  /\ inflight \subseteq Descs
  /\ platter \in [Blocks -> Vals]
  /\ data \in [Bufs -> Vals]
  /\ owned \in [Bufs -> {0, 1}]
  /\ blockno \in [Bufs -> Blocks \cup {Nil}]
  /\ buf \in [Procs -> Bufs \cup {Nil}]
  /\ write \in [Procs -> {0, 1}]
  /\ idx \in [Procs -> Descs \cup {Nil}]

DiskInit ==
  /\ free = Descs
  /\ desc = [i \in Descs |-> NoDesc]
  /\ info = [i \in Descs |-> Nil]
  /\ avail = [i \in Descs |-> 0]
  /\ avail_idx = 0
  /\ used = [i \in Descs |-> 0]
  /\ used_ring_idx = 0
  /\ used_idx = 0
  /\ irq = FALSE
  /\ intr = FALSE
  /\ taken = 0
  /\ inflight = {}
  /\ platter \in [Blocks -> Vals]
  /\ \E v \in Vals : data = [b \in Bufs |-> v]
  /\ owned = [b \in Bufs |-> 0]
  /\ blockno = [b \in Bufs |-> Nil]
  /\ pc = [p \in Procs |-> "user"]
  /\ buf = [p \in Procs |-> Nil]
  /\ write = [p \in Procs |-> 0]
  /\ idx = [p \in Procs |-> Nil]

-----------------------------------------------------------------------------
(* virtio_disk_rw() *)

\* Mutant: free_desc() wakes nobody.
WakeDescNobody(p, l) == pc' = [pc EXCEPT ![p] = l]

\* wakeup(&disk.free[0]), by p, which goes on to label l.
WakeDescAnd(p, l) ==
  pc' = [q \in Procs |-> IF q = p THEN l
                         ELSE IF pc[q] = "desc_sleep" THEN "rw" ELSE pc[q]]

\* alloc3_desc() does not fail.
ThreeFree == Cardinality(free) >= 3

\* Mutant: alloc_desc() does not mark a descriptor as taken.
Alloc3Same == <<Min(free), Min(free), Min(free)>>

\* alloc3_desc(): alloc_desc() finds the first free descriptor, three times.
Alloc3 ==
  LET i0 == Min(free)
      i1 == Min(free \ {i0})
  IN  <<i0, i1, Min(free \ {i0, i1})>>

NextIdx(i) == (i + 1) % UINT16

\* alloc3_desc() succeeds: build the chain, publish it in the avail ring,
\* notify the device and sleep(b).
RwSubmit(p) ==
  LET i0 == Alloc3[1]
      i1 == Alloc3[2]
      i2 == Alloc3[3]
      b  == buf[p]
  IN
  /\ pc[p] = "rw" /\ ~intr
  /\ ThreeFree
  /\ free' = free \ {i0, i1, i2}
  /\ desc' = [desc EXCEPT
       ![i0] = [op |-> [write |-> write[p], sector |-> blockno[b]], buf |-> Nil, next |-> i1],
       ![i1] = [op |-> Nil, buf |-> b, next |-> i2],
       ![i2] = NoDesc]
  /\ info' = [info EXCEPT ![i0] = b]
  /\ owned' = [owned EXCEPT ![b] = 1]
  /\ avail' = [avail EXCEPT ![avail_idx % NUM] = i0]
  /\ avail_idx' = NextIdx(avail_idx)
  /\ idx' = [idx EXCEPT ![p] = i0]
  /\ pc' = [pc EXCEPT ![p] = "io_sleep"]
  /\ UNCHANGED <<deviceVars, used_idx, irq, intr, data, blockno, buf, write>>

\* alloc3_desc() fails: it frees what it got, which wakes the other sleepers,
\* and p sleeps on &disk.free[0].
RwNoDesc(p) ==
  /\ pc[p] = "rw" /\ ~intr
  /\ ~ThreeFree
  /\ IF free = {} THEN pc' = [pc EXCEPT ![p] = "desc_sleep"]
                  ELSE WakeDescAnd(p, "desc_sleep")
  /\ UNCHANGED <<queueVars, deviceVars, used_idx, irq, intr, data, owned, blockno,
                 buf, write, idx>>

RwFinished(p) == owned[buf[p]] = 0

\* Woken, but the disk still owns the buffer: sleep again.
RwSleepAgain(p) ==
  /\ pc[p] = "io_woken" /\ ~intr
  /\ ~RwFinished(p)
  /\ pc' = [pc EXCEPT ![p] = "io_sleep"]
  /\ UNCHANGED <<queueVars, deviceVars, used_idx, irq, intr, data, owned, blockno,
                 buf, write, idx>>

\* The descriptors of the chain that starts at i.
Chain(i) == {i, desc[i].next, desc[desc[i].next].next}

\* The request has finished: free_chain(), which wakes those who wait for
\* descriptors, and return.
RwReturn(p) ==
  /\ pc[p] = "io_woken" /\ ~intr
  /\ RwFinished(p)
  /\ info' = [info EXCEPT ![idx[p]] = Nil]
  /\ desc' = [i \in Descs |-> IF i \in Chain(idx[p]) THEN NoDesc ELSE desc[i]]
  /\ free' = free \cup Chain(idx[p])
  /\ idx' = [idx EXCEPT ![p] = Nil]
  /\ WakeDescAnd(p, "rw_done")
  /\ UNCHANGED <<avail, avail_idx, deviceVars, used_idx, irq, intr, data, owned,
                 blockno, buf, write>>

\* kill() wakes a process that sleeps in virtio_disk_rw().
KillWakes(p) ==
  /\ \/ pc[p] = "io_sleep" /\ pc' = [pc EXCEPT ![p] = "io_woken"]
     \/ pc[p] = "desc_sleep" /\ pc' = [pc EXCEPT ![p] = "rw"]
  /\ UNCHANGED <<queueVars, deviceVars, used_idx, irq, intr, data, owned, blockno,
                 buf, write, idx>>

-----------------------------------------------------------------------------
(* The device *)

\* The device reads the next entry of the avail ring.  A ring entry is read
\* once each time it is written; the model clears it then.
DeviceTake ==
  /\ taken # avail_idx
  /\ inflight' = inflight \cup {avail[taken % NUM]}
  /\ avail' = [avail EXCEPT ![taken % NUM] = 0]
  /\ taken' = NextIdx(taken)
  /\ UNCHANGED <<free, desc, info, avail_idx, used, used_ring_idx, platter, used_idx, irq, intr, data,
                 owned, blockno, pc, buf, write, idx>>

\* The device follows chain i, transfers its block, appends i to the used ring
\* and raises an interrupt.
DeviceFinish(i) ==
  LET op == desc[i].op
      b  == desc[desc[i].next].buf
  IN
  /\ i \in inflight
  /\ inflight' = inflight \ {i}
  /\ \/ /\ op.write = 1
        /\ platter' = [platter EXCEPT ![op.sector] = data[b]]
        /\ UNCHANGED data
     \/ /\ op.write = 0
        /\ data' = [data EXCEPT ![b] = platter[op.sector]]
        /\ UNCHANGED platter
  /\ used' = [used EXCEPT ![used_ring_idx % NUM] = i]
  /\ used_ring_idx' = NextIdx(used_ring_idx)
  /\ irq' = TRUE
  /\ UNCHANGED <<queueVars, taken, used_idx, intr, owned, blockno, pc, buf, write, idx>>

-----------------------------------------------------------------------------
(* virtio_disk_intr() *)

\* Take vdisk_lock and acknowledge the interrupt.
IntrAck ==
  /\ irq /\ ~intr
  /\ irq' = FALSE
  /\ intr' = TRUE
  /\ UNCHANGED <<queueVars, deviceVars, used_idx, data, owned, blockno, pc, buf, write, idx>>

\* wakeup(b)
WakeIo(b) ==
  pc' = [q \in Procs |-> IF pc[q] = "io_sleep" /\ buf[q] = b THEN "io_woken" ELSE pc[q]]

\* One turn of the loop over the used ring.
IntrUsed ==
  LET b == info[used[used_idx % NUM]] IN
  /\ intr
  /\ used_idx # used_ring_idx
  /\ owned' = [owned EXCEPT ![b] = 0]
  /\ WakeIo(b)
  /\ used' = [used EXCEPT ![used_idx % NUM] = 0]
  /\ used_idx' = NextIdx(used_idx)
  /\ UNCHANGED <<queueVars, used_ring_idx, taken, inflight, platter, irq, intr, data,
                 blockno, buf, write, idx>>

\* Mutant: "if" for "while": one completion for each interrupt.
IntrReturnEarly ==
  /\ intr
  /\ intr' = FALSE
  /\ UNCHANGED <<queueVars, deviceVars, used_idx, irq, data, owned, blockno, pc, buf, write, idx>>

IntrReturn ==
  /\ intr
  /\ used_idx = used_ring_idx
  /\ intr' = FALSE
  /\ UNCHANGED <<queueVars, deviceVars, used_idx, irq, data, owned, blockno, pc, buf, write, idx>>

-----------------------------------------------------------------------------

Rw(p) == RwSubmit(p) \/ RwNoDesc(p) \/ RwSleepAgain(p) \/ RwReturn(p)

Device == DeviceTake \/ \E i \in Descs : DeviceFinish(i)

Intr == IntrAck \/ IntrUsed \/ IntrReturn

DiskNext == (\E p \in Procs : Rw(p) \/ KillWakes(p)) \/ Device \/ Intr

\* External: a process calls virtio_disk_rw() with a buffer that it has locked,
\* for the block of that buffer; they are all alike, so any will do (and where
\* there is none left, bget() has panicked) ...
Call(p, w) ==
  LET unused == {c \in Bufs : \A q \in Procs : buf[q] # c}
      b == CHOOSE c \in unused : TRUE
      uncached == {l \in Blocks : \A c \in Bufs \ {b} : blockno[c] # l}
      k == CHOOSE l \in uncached : TRUE
  IN
  /\ pc[p] = "user"
  /\ unused # {} /\ uncached # {}
  /\ pc' = [pc EXCEPT ![p] = "rw"]
  /\ buf' = [buf EXCEPT ![p] = b]
  /\ write' = [write EXCEPT ![p] = w]
  /\ blockno' = [blockno EXCEPT ![b] = k]
  /\ UNCHANGED <<queueVars, deviceVars, used_idx, irq, intr, data, owned, idx>>

\* ... and lets it go after the call.
Return(p) ==
  /\ pc[p] = "rw_done"
  /\ pc' = [pc EXCEPT ![p] = "user"]
  /\ buf' = [buf EXCEPT ![p] = Nil]
  /\ write' = [write EXCEPT ![p] = 0]
  /\ UNCHANGED <<queueVars, deviceVars, used_idx, irq, intr, data, owned, blockno, idx>>

DriverNext ==
  \/ DiskNext
  \/ \E p \in Procs :
       Return(p) \/ \E w \in {0, 1} : Call(p, w)

DriverSpec == DiskInit /\ [][DriverNext]_diskVars

-----------------------------------------------------------------------------
(* Safety *)

\* A request keeps its descriptors until it is finished: chains are disjoint,
\* allocated, and say what their process asked for.
ChainsIntact ==
  \A p \in Procs : pc[p] \in {"io_sleep", "io_woken"} =>
    LET i == idx[p] IN
    /\ desc[i].next # Nil /\ desc[desc[i].next].next # Nil
    /\ Cardinality(Chain(i)) = 3 /\ Chain(i) \cap free = {}
    /\ desc[i].op = [write |-> write[p], sector |-> blockno[buf[p]]]
    /\ desc[desc[i].next].buf = buf[p] /\ info[i] = buf[p]
    /\ \A q \in Procs \ {p} :
         pc[q] \in {"io_sleep", "io_woken"} => Chain(i) \cap Chain(idx[q]) = {}

\* No completion goes unnoticed: an entry of the used ring that the driver has
\* not seen has an interrupt pending or the handler running, also when the
\* device adds it while virtio_disk_intr() acknowledges or scans.
CompletionSignalled == used_idx # used_ring_idx => irq \/ intr

\* Nobody sleeps for descriptors while three are free: whoever frees a chain
\* wakes those who gave back the one or two that alloc3_desc() had found.
DescSleepersMustWait ==
  \A p \in Procs : pc[p] = "desc_sleep" => ~ThreeFree

=============================================================================
