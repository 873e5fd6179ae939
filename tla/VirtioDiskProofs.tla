-------------------------- MODULE VirtioDiskProofs --------------------------
(***************************************************************************)
(* The driver of module VirtioDisk for any number of processes, buffers    *)
(* and descriptors and any width of the ring indices: no completion goes   *)
(* unnoticed, nobody sleeps for descriptors that are there, and the chains *)
(* of the requests under way stay apart and say what was asked.            *)
(***************************************************************************)
EXTENDS VirtioDisk, FiniteSetTheorems, WellFoundedInduction, TLAPS

IInv ==
  /\ pc \in [Procs -> RwLabels \cup {"user"}]
  /\ CompletionSignalled
  /\ DescSleepersMustWait

\* virtio_disk_rw(): free_chain() wakes everybody, and a request is submitted
\* only where nobody has to sleep.
LEMMA RwPreserves ==
  ASSUME IInv, NEW p \in Procs, Rw(p) \/ KillWakes(p)
  PROVE  IInv'
<1> USE DEF IInv, RwLabels, ThreeFree, queueVars, deviceVars
<1>0. pc' \in [Procs -> RwLabels \cup {"user"}]
  BY DEF Rw, KillWakes, RwSubmit, RwNoDesc, RwSleepAgain, RwReturn, WakeDescAnd
<1>1. CompletionSignalled'
  BY DEF CompletionSignalled, Rw, KillWakes, RwSubmit, RwNoDesc, RwSleepAgain, RwReturn
<1>2. DescSleepersMustWait'
  <2> SUFFICES ASSUME NEW q \in Procs, pc'[q] = "desc_sleep"
               PROVE  ~ThreeFree'
    BY DEF DescSleepersMustWait
  <2>1. CASE RwSubmit(p)
    <3>1. pc[q] = "desc_sleep" /\ ThreeFree
      BY <2>1 DEF RwSubmit
    <3> QED BY <3>1 DEF DescSleepersMustWait
  <2>2. CASE RwNoDesc(p)
    BY <2>2 DEF RwNoDesc
  <2>3. CASE RwSleepAgain(p) \/ KillWakes(p)
    BY <2>3 DEF RwSleepAgain, KillWakes, DescSleepersMustWait
  <2>4. CASE RwReturn(p)
    BY <2>4 DEF RwReturn, WakeDescAnd
  <2> QED BY <2>1, <2>2, <2>3, <2>4 DEF Rw
<1> QED BY <1>0, <1>1, <1>2

\* Every entry that the device adds comes with an interrupt.
LEMMA DevicePreserves ==
  ASSUME IInv, Device
  PROVE  IInv'
  BY DEF IInv, CompletionSignalled, DescSleepersMustWait, ThreeFree, Device, DeviceTake,
     DeviceFinish,
         queueVars

\* virtio_disk_intr() acknowledges before it scans, and scans to the end.
LEMMA IntrPreserves ==
  ASSUME IInv, Intr
  PROVE  IInv'
  BY DEF IInv, RwLabels, CompletionSignalled, DescSleepersMustWait, ThreeFree, Intr,
     IntrAck, IntrUsed, IntrReturn, WakeIo,
         queueVars, deviceVars

\* The callers of virtio_disk_rw() do not touch the rings.
LEMMA CallerPreserves ==
  ASSUME IInv, NEW p \in Procs, Return(p) \/ \E w \in {0, 1} : Call(p, w)
  PROVE  IInv'
  BY DEF IInv, RwLabels, CompletionSignalled, DescSleepersMustWait, ThreeFree, Return,
     Call, queueVars, deviceVars

\* The invariant holds in every reachable state of the driver.
LEMMA Invariant == DriverSpec => []IInv
<1>1. DiskInit => IInv
  BY DEF DiskInit, IInv, RwLabels, CompletionSignalled, DescSleepersMustWait
<1>2. IInv /\ [DriverNext]_diskVars => IInv'
  <2> SUFFICES ASSUME IInv, [DriverNext]_diskVars PROVE IInv'
    OBVIOUS
  <2>1. CASE UNCHANGED diskVars
    BY <2>1 DEF diskVars, queueVars, deviceVars, IInv, CompletionSignalled,
       DescSleepersMustWait, ThreeFree
  <2>2. CASE DriverNext
    BY <2>2, RwPreserves, DevicePreserves, IntrPreserves, CallerPreserves DEF
       DriverNext, DiskNext
  <2> QED BY <2>1, <2>2
<1> QED BY <1>1, <1>2, PTL DEF DriverSpec

\* virtio_disk_intr() misses no completion, whenever the device adds it.
THEOREM NoCompletionMissed == DriverSpec => []CompletionSignalled
  BY Invariant, PTL DEF IInv

\* No wakeup is lost among those who wait for descriptors.
THEOREM NoDescSleeperForgotten == DriverSpec => []DescSleepersMustWait
  BY Invariant, PTL DEF IInv

-----------------------------------------------------------------------------
(* The chains of descriptors *)

IoLabels == {"io_sleep", "io_woken"}

ChainTypes ==
  /\ free \in SUBSET Descs
  /\ desc \in [Descs -> [op : [write : {0, 1}, sector : Blocks \cup {Nil}] \cup {Nil},
                         buf : Bufs \cup {Nil}, next : Descs \cup {Nil}]]
  /\ info \in [Descs -> Bufs \cup {Nil}]
  /\ blockno \in [Bufs -> Blocks \cup {Nil}]
  /\ buf \in [Procs -> Bufs \cup {Nil}]
  /\ write \in [Procs -> {0, 1}]
  /\ idx \in [Procs -> Descs \cup {Nil}]
  /\ \A p \in Procs : pc[p] \in RwLabels => buf[p] \in Bufs
  /\ \A p \in Procs : pc[p] \in IoLabels => idx[p] \in Descs

ChainInv == ChainTypes /\ ChainsIntact

\* A set of numbers that is not empty has a least one, which alloc_desc() finds.
LEMMA MinExists ==
  ASSUME NEW S \in SUBSET Nat, S # {}
  PROVE  Min(S) \in S
<1> DEFINE R == OpToRel(<, Nat)
<1>1. IsWellFoundedOn(R, Nat)
  BY NatLessThanWellFounded, Zenon
<1>2. \A x, y \in Nat : <<x, y>> \in R <=> x < y
  BY DEF OpToRel
<1> HIDE DEF R
<1>3. \E x \in S : \A y \in S : ~ (<<y, x>> \in R)
  BY <1>1, WFMin, Zenon
<1>4. PICK x \in S : \A y \in S : ~ (<<y, x>> \in R)
  BY <1>3
<1>5. \A y \in S : x <= y
  <2> TAKE y \in S
  <2>1. x \in Nat /\ y \in Nat
    OBVIOUS
  <2>2. ~(<<y, x>> \in R)
    BY <1>4, Zenon
  <2>3. ~(y < x)
    BY <2>1, <2>2, <1>2, Zenon
  <2> QED BY <2>1, <2>3
<1> QED BY <1>5 DEF Min

\* alloc3_desc() finds three descriptors, all different and all free.
LEMMA Alloc3Distinct ==
  ASSUME free \in SUBSET Descs, ThreeFree
  PROVE  /\ Alloc3[1] \in free /\ Alloc3[2] \in free /\ Alloc3[3] \in free
         /\ Alloc3[1] # Alloc3[2] /\ Alloc3[1] # Alloc3[3] /\ Alloc3[2] # Alloc3[3]
<1> DEFINE i0 == Min(free)
           i1 == Min(free \ {i0})
           i2 == Min(free \ {i0, i1})
<1>1. free \in SUBSET Nat /\ IsFiniteSet(free)
  <2>1. Descs \subseteq Nat
    BY DiskAssumption DEF Descs
  <2>2. IsFiniteSet(Descs)
    BY DiskAssumption, FS_Interval DEF Descs
  <2> QED BY <2>1, <2>2, FS_Subset
<1>2. Cardinality(free) >= 3 /\ Cardinality(free) \in Nat
  BY <1>1, FS_CardinalityType DEF ThreeFree
<1>3. free # {}
  BY <1>2, FS_EmptySet
<1>4. i0 \in free
  BY <1>1, <1>3, MinExists
<1> HIDE DEF i0
<1>5. IsFiniteSet(free \ {i0}) /\ Cardinality(free \ {i0}) = Cardinality(free) - 1
  BY <1>1, <1>4, FS_RemoveElement
<1>6. free \ {i0} # {}
  BY <1>2, <1>5, FS_EmptySet
<1>7. i1 \in free \ {i0}
  BY <1>1, <1>6, MinExists
<1> HIDE DEF i1
<1>8. Cardinality((free \ {i0}) \ {i1}) = Cardinality(free) - 2
  BY <1>2, <1>5, <1>7, FS_RemoveElement
<1>9. (free \ {i0}) \ {i1} # {}
  BY <1>2, <1>8, FS_EmptySet
<1>10. free \ {i0, i1} # {} /\ free \ {i0, i1} \in SUBSET Nat
  BY <1>1, <1>9
<1>11. i2 \in free \ {i0, i1}
  BY <1>10, MinExists
<1> HIDE DEF i2
<1>12. Alloc3 = <<i0, i1, i2>>
  BY DEF Alloc3, i0, i1, i2
<1> QED BY <1>4, <1>7, <1>11, <1>12

\* What ChainsIntact says of one process, and of two.
Request(p) ==
  LET i == idx[p] IN
  /\ desc[i].next # Nil /\ desc[desc[i].next].next # Nil
  /\ Cardinality(Chain(i)) = 3 /\ Chain(i) \cap free = {}
  /\ desc[i].op = [write |-> write[p], sector |-> blockno[buf[p]]]
  /\ desc[desc[i].next].buf = buf[p] /\ info[i] = buf[p]

Apart(p, q) == Chain(idx[p]) \cap Chain(idx[q]) = {}

\* The two together are ChainsIntact.
LEMMA ChainsSplit ==
  ChainsIntact <=>
    /\ \A p \in Procs : pc[p] \in IoLabels => Request(p)
    /\ \A p, q \in Procs :
         pc[p] \in IoLabels /\ pc[q] \in IoLabels /\ p # q => Apart(p, q)
  BY Zenon DEF ChainsIntact, IoLabels, Request, Apart

\* Chains stay intact in a step that leaves the descriptors, and the requests
\* that are under way, alone.
LEMMA ChainFrame ==
  ASSUME ChainsIntact, UNCHANGED <<free, desc, info, idx>>,
         \A p \in Procs : pc'[p] \in IoLabels =>
           /\ pc[p] \in IoLabels /\ write'[p] = write[p] /\ buf'[p] = buf[p]
           /\ blockno'[buf[p]] = blockno[buf[p]]
  PROVE  ChainsIntact'
<1>1. ASSUME NEW p \in Procs, pc'[p] \in IoLabels
      PROVE  Request(p)'
  <2>1. Request(p)
    BY <1>1, ChainsSplit, Zenon
  <2> QED BY <1>1, <2>1, Zenon DEF Request, Chain
<1>2. \A p, q \in Procs : Apart(p, q)' = Apart(p, q)
  BY Zenon DEF Apart, Chain
<1>3. \A p, q \in Procs :
        pc'[p] \in IoLabels /\ pc'[q] \in IoLabels /\ p # q => Apart(p, q)'
  BY <1>2, ChainsSplit, Zenon
<1> QED BY <1>1, <1>3, Zenon DEF ChainsIntact, IoLabels, Request, Apart

\* The descriptors of a request under way are three, none of them free.
LEMMA ChainParts ==
  ASSUME IInv, ChainInv, NEW p \in Procs, pc[p] \in IoLabels
  PROVE  LET i0 == idx[p]
             i1 == desc[i0].next
             i2 == desc[i1].next
         IN  /\ i0 \in Descs /\ i1 \in Descs /\ i2 \in Descs
             /\ i0 \notin free /\ i1 \notin free /\ i2 \notin free
             /\ Chain(i0) = {i0, i1, i2}
<1> DEFINE i0 == idx[p]
           i1 == desc[i0].next
           i2 == desc[i1].next
<1>1. Request(p)
  BY ChainsSplit, Zenon DEF ChainInv
<1>2. i0 \in Descs
  BY Zenon DEF ChainInv, ChainTypes
<1>3. i1 \in Descs
  BY <1>1, <1>2 DEF ChainInv, ChainTypes, Request
<1>4. i2 \in Descs
  BY <1>1, <1>3 DEF ChainInv, ChainTypes, Request
<1>5. Chain(i0) = {i0, i1, i2}
  BY DEF Chain
<1>6. Chain(i0) \cap free = {}
  BY <1>1, Zenon DEF Request
<1> QED BY <1>2, <1>3, <1>4, <1>5, <1>6

\* Three different descriptors are three.
LEMMA ThreeOf ==
  ASSUME NEW a, NEW b, NEW c, a # b, a # c, b # c
  PROVE  Cardinality({a, b, c}) = 3
<1>1. Cardinality({a}) = 1 /\ IsFiniteSet({a})
  BY FS_Singleton, Zenon
<1>2. IsFiniteSet({a} \cup {b}) /\ Cardinality({a} \cup {b}) = Cardinality({a}) + 1
  <2>1. b \notin {a}
    OBVIOUS
  <2> QED BY <1>1, <2>1, FS_AddElement, Zenon
<1>3. Cardinality(({a} \cup {b}) \cup {c}) = Cardinality({a} \cup {b}) + 1
  <2>1. c \notin {a} \cup {b}
    OBVIOUS
  <2> QED BY <1>2, <2>1, FS_AddElement, Zenon
<1>4. ({a} \cup {b}) \cup {c} = {a, b, c}
  OBVIOUS
<1> QED BY <1>1, <1>2, <1>3, <1>4

\* A request takes free descriptors, which are in no other chain.
LEMMA SubmitChains ==
  ASSUME IInv, ChainInv, NEW p \in Procs, RwSubmit(p)
  PROVE  ChainInv'
<1> DEFINE i0 == Alloc3[1]
           i1 == Alloc3[2]
           i2 == Alloc3[3]
           b == buf[p]
<1>1. /\ i0 \in free /\ i1 \in free /\ i2 \in free
      /\ i0 # i1 /\ i0 # i2 /\ i1 # i2
      /\ i0 \in Descs /\ i1 \in Descs /\ i2 \in Descs
  BY Alloc3Distinct DEF RwSubmit, ChainInv, ChainTypes
<1>2. /\ free' = free \ {i0, i1, i2}
      /\ desc' = [desc EXCEPT
           ![i0] = [op |-> [write |-> write[p], sector |-> blockno[b]], buf |-> Nil, next |-> i1],
           ![i1] = [op |-> Nil, buf |-> b, next |-> i2],
           ![i2] = NoDesc]
      /\ info' = [info EXCEPT ![i0] = b]
      /\ idx' = [idx EXCEPT ![p] = i0]
      /\ pc' = [pc EXCEPT ![p] = "io_sleep"]
      /\ UNCHANGED <<blockno, buf, write>>
  BY Zenon DEF RwSubmit
<1>3. b \in Bufs /\ pc[p] = "rw"
  BY DEF RwSubmit, ChainInv, ChainTypes, RwLabels
<1> HIDE DEF i0, i1, i2, b
<1>4. /\ desc'[i0] = [op |-> [write |-> write[p], sector |-> blockno[b]], buf |-> Nil, next |-> i1]
      /\ desc'[i1] = [op |-> Nil, buf |-> b, next |-> i2]
      /\ desc'[i2] = NoDesc
      /\ \A i \in Descs : i \in free \/ desc'[i] = desc[i]
  BY <1>1, <1>2 DEF ChainInv, ChainTypes
<1>5. ChainTypes'
  <2>1. free' \in SUBSET Descs /\ blockno' \in [Bufs -> Blocks \cup {Nil}]
        /\ buf' \in [Procs -> Bufs \cup {Nil}] /\ write' \in [Procs -> {0, 1}]
    BY <1>2, Zenon DEF ChainInv, ChainTypes
  <2>2. desc' \in [Descs -> [op : [write : {0, 1}, sector : Blocks \cup {Nil}] \cup {Nil},
                             buf : Bufs \cup {Nil}, next : Descs \cup {Nil}]]
    BY <1>1, <1>2, <1>3 DEF ChainInv, ChainTypes, NoDesc
  <2>3. info' \in [Descs -> Bufs \cup {Nil}] /\ idx' \in [Procs -> Descs \cup {Nil}]
    BY <1>1, <1>2, <1>3, Zenon DEF ChainInv, ChainTypes
  <2>4. \A q \in Procs : pc'[q] \in RwLabels => buf'[q] \in Bufs
    BY <1>2, <1>3 DEF IInv, ChainInv, ChainTypes, b
  <2>5. \A q \in Procs : pc'[q] \in IoLabels => idx'[q] \in Descs
    BY <1>1, <1>2 DEF IInv, ChainInv, ChainTypes
  <2> QED BY <2>1, <2>2, <2>3, <2>4, <2>5, Zenon DEF ChainTypes
<1>6. /\ desc'[i0].next = i1 /\ desc'[i1].next = i2 /\ desc'[i1].buf = b
      /\ desc'[i0].op = [write |-> write[p], sector |-> blockno[b]]
  BY <1>4
<1>7. idx'[p] = i0 /\ info'[i0] = b /\ buf'[p] = b /\ write'[p] = write[p] /\ blockno'[b] = blockno[b]
  BY <1>1, <1>2, Zenon DEF ChainInv, ChainTypes, b
<1>8. Chain(idx[p])' = {i0, i1, i2}
  BY <1>6, <1>7, Zenon DEF Chain
<1>9. Request(p)'
  <2>1. Cardinality({i0, i1, i2}) = 3
    BY <1>1, ThreeOf, Zenon
  <2>2. i1 # Nil /\ i2 # Nil
    BY <1>1, DiskAssumption DEF Descs
  <2>3. {i0, i1, i2} \cap free' = {}
    BY <1>2
  <2>4. /\ desc'[idx'[p]].next # Nil /\ desc'[desc'[idx'[p]].next].next # Nil
        /\ desc'[idx'[p]].op = [write |-> write'[p], sector |-> blockno'[buf'[p]]]
        /\ desc'[desc'[idx'[p]].next].buf = buf'[p] /\ info'[idx'[p]] = buf'[p]
    BY <1>6, <1>7, <2>2, Zenon
  <2> QED BY <1>8, <2>1, <2>3, <2>4, Zenon DEF Request
<1>10. ASSUME NEW q \in Procs, q # p, pc'[q] \in IoLabels
       PROVE  /\ pc[q] \in IoLabels /\ Request(q)'
              /\ Chain(idx[q])' = Chain(idx[q]) /\ Chain(idx[q]) \cap free = {}
  <2> DEFINE j0 == idx[q]
             j1 == desc[j0].next
             j2 == desc[j1].next
  <2>1. pc[q] \in IoLabels /\ idx'[q] = j0
    BY <1>2, <1>10, Zenon DEF IInv, ChainInv, ChainTypes
  <2>2. /\ j0 \in Descs /\ j1 \in Descs /\ j2 \in Descs
        /\ j0 \notin free /\ j1 \notin free /\ j2 \notin free
        /\ Chain(j0) = {j0, j1, j2}
    BY <2>1, ChainParts, Zenon
  <2>3. desc'[j0] = desc[j0] /\ desc'[j1] = desc[j1]
    BY <1>4, <2>2, Zenon
  <2>4. Chain(idx[q])' = Chain(idx[q])
    BY <2>1, <2>3, Zenon DEF Chain
  <2>5. Request(q)
    BY <2>1, ChainsSplit, Zenon DEF ChainInv
  <2>6. /\ info'[j0] = info[j0] /\ write'[q] = write[q] /\ buf'[q] = buf[q]
        /\ blockno'[buf[q]] = blockno[buf[q]] /\ free' \subseteq free
    BY <1>1, <1>2, <2>2, Zenon DEF ChainInv, ChainTypes
  <2>7. Chain(j0) \cap free = {} /\ Chain(j0) \cap free' = {}
    BY <2>5, <2>6, Zenon DEF Request
  <2>8. Request(q)'
    BY <2>1, <2>3, <2>4, <2>5, <2>6, <2>7, Zenon DEF Request
  <2> QED BY <2>1, <2>4, <2>7, <2>8, Zenon
<1>11. ASSUME NEW q \in Procs, NEW s \in Procs, q # s, pc'[q] \in IoLabels, pc'[s] \in IoLabels
       PROVE  Apart(q, s)'
  <2>1. CASE q # p /\ s # p
    <3>1. Apart(q, s)
      BY <1>10, <1>11, <2>1, ChainsSplit, Zenon DEF ChainInv
    <3> QED BY <1>10, <1>11, <2>1, <3>1, Zenon DEF Apart
  <2>2. CASE q = p
    <3>1. Chain(idx[s]) \cap {i0, i1, i2} = {}
      BY <1>1, <1>10, <1>11, <2>2, Zenon
    <3> QED BY <1>8, <1>10, <1>11, <2>2, <3>1, Zenon DEF Apart
  <2>3. CASE s = p
    <3>1. Chain(idx[q]) \cap {i0, i1, i2} = {}
      BY <1>1, <1>10, <1>11, <2>3, Zenon
    <3> QED BY <1>8, <1>10, <1>11, <2>3, <3>1, Zenon DEF Apart
  <2> QED BY <2>1, <2>2, <2>3, Zenon
<1>12. \A q \in Procs : pc'[q] \in IoLabels => Request(q)'
  BY <1>9, <1>10, Zenon
<1>13. ChainsIntact'
  BY <1>11, <1>12, Zenon DEF ChainsIntact, IoLabels, Request, Apart
<1> QED BY <1>5, <1>13, Zenon DEF ChainInv

\* free_chain() frees the descriptors of its own request, which are in no
\* other chain.
LEMMA ReturnChains ==
  ASSUME IInv, ChainInv, NEW p \in Procs, RwReturn(p)
  PROVE  ChainInv'
<1> DEFINE c == Chain(idx[p])
<1>1. /\ info' = [info EXCEPT ![idx[p]] = Nil]
      /\ desc' = [i \in Descs |-> IF i \in c THEN NoDesc ELSE desc[i]]
      /\ free' = free \cup c
      /\ idx' = [idx EXCEPT ![p] = Nil]
      /\ UNCHANGED <<blockno, buf, write>>
  BY Zenon DEF RwReturn
<1>2. /\ pc[p] = "io_woken" /\ pc'[p] = "rw_done"
      /\ \A q \in Procs : q # p => \/ pc'[q] = pc[q]
                                   \/ pc[q] = "desc_sleep" /\ pc'[q] = "rw"
  BY DEF RwReturn, WakeDescAnd
<1>3. pc[p] \in IoLabels /\ pc[p] \in RwLabels
  BY <1>2 DEF IoLabels, RwLabels
<1>4. idx[p] \in Descs /\ idx[p] \in c /\ c \subseteq Descs
  BY <1>3, ChainParts
<1> HIDE DEF c
<1>5. ASSUME NEW q \in Procs, pc'[q] \in IoLabels
      PROVE  q # p /\ pc[q] \in IoLabels
  BY <1>2, <1>5 DEF IoLabels
<1>6. ChainTypes'
  <2>1. free' \in SUBSET Descs /\ blockno' \in [Bufs -> Blocks \cup {Nil}]
        /\ buf' \in [Procs -> Bufs \cup {Nil}] /\ write' \in [Procs -> {0, 1}]
    BY <1>1, <1>4, Zenon DEF ChainInv, ChainTypes
  <2>2. desc' \in [Descs -> [op : [write : {0, 1}, sector : Blocks \cup {Nil}] \cup {Nil},
                             buf : Bufs \cup {Nil}, next : Descs \cup {Nil}]]
    BY <1>1 DEF ChainInv, ChainTypes, NoDesc
  <2>3. info' \in [Descs -> Bufs \cup {Nil}] /\ idx' \in [Procs -> Descs \cup {Nil}]
    BY <1>1, <1>4, Zenon DEF ChainInv, ChainTypes
  <2>4. \A q \in Procs : pc'[q] \in RwLabels => buf'[q] \in Bufs
    BY <1>1, <1>2, <1>3 DEF ChainInv, ChainTypes, RwLabels
  <2>5. \A q \in Procs : pc'[q] \in IoLabels => idx'[q] \in Descs
    BY <1>1, <1>5, Zenon DEF ChainInv, ChainTypes
  <2> QED BY <2>1, <2>2, <2>3, <2>4, <2>5, Zenon DEF ChainTypes
<1>7. ASSUME NEW q \in Procs, pc'[q] \in IoLabels
      PROVE  Request(q)' /\ Chain(idx[q])' = Chain(idx[q])
  <2> DEFINE j0 == idx[q]
             j1 == desc[j0].next
             j2 == desc[j1].next
  <2>1. q # p /\ pc[q] \in IoLabels /\ idx'[q] = j0
    BY <1>1, <1>5, <1>7, Zenon DEF ChainInv, ChainTypes
  <2>2. /\ j0 \in Descs /\ j1 \in Descs /\ j2 \in Descs
        /\ Chain(j0) = {j0, j1, j2}
    BY <2>1, ChainParts, Zenon
  <2>3. Chain(j0) \cap c = {}
    BY <1>3, <2>1, ChainsSplit, Zenon DEF ChainInv, Apart, c
  <2>4. j0 \notin c /\ j1 \notin c
    BY <2>2, <2>3, Zenon
  <2>5. desc'[j0] = desc[j0] /\ desc'[j1] = desc[j1]
    BY <1>1, <2>2, <2>4, Zenon
  <2>6. Chain(idx[q])' = Chain(idx[q])
    BY <2>1, <2>5, Zenon DEF Chain
  <2>7. Request(q)
    BY <2>1, ChainsSplit, Zenon DEF ChainInv
  <2>8. /\ info'[j0] = info[j0] /\ write'[q] = write[q] /\ buf'[q] = buf[q]
        /\ blockno'[buf[q]] = blockno[buf[q]]
    BY <1>1, <1>4, <2>2, <2>4, Zenon DEF ChainInv, ChainTypes
  <2>9. Chain(j0) \cap free' = {}
    BY <1>1, <2>3, <2>7, Zenon DEF Request
  <2>10. Request(q)'
    BY <2>1, <2>5, <2>6, <2>7, <2>8, <2>9, Zenon DEF Request
  <2> QED BY <2>6, <2>10, Zenon
<1>8. ASSUME NEW q \in Procs, NEW s \in Procs, q # s, pc'[q] \in IoLabels, pc'[s] \in IoLabels
      PROVE  Apart(q, s)'
  <2>1. Apart(q, s)
    BY <1>5, <1>8, ChainsSplit, Zenon DEF ChainInv
  <2> QED BY <1>7, <1>8, <2>1, Zenon DEF Apart
<1>9. ChainsIntact'
  BY <1>7, <1>8, Zenon DEF ChainsIntact, IoLabels, Request, Apart
<1> QED BY <1>6, <1>9, Zenon DEF ChainInv

\* The other steps of the driver, of the device and of the interrupt handler
\* leave the descriptors alone, and start no request.
LEMMA QuietChains ==
  ASSUME IInv, ChainInv,
         UNCHANGED <<free, desc, info, idx, blockno, buf, write>>,
         \A q \in Procs : pc'[q] \in IoLabels => pc[q] \in IoLabels,
         \A q \in Procs : pc'[q] \in RwLabels => pc[q] \in RwLabels
  PROVE  ChainInv'
<1>1. ChainTypes'
  BY Zenon DEF ChainInv, ChainTypes
<1>2. ChainsIntact'
  BY ChainFrame, Zenon DEF ChainInv
<1> QED BY <1>1, <1>2, Zenon DEF ChainInv

\* virtio_disk_rw() is called for a buffer that no request under way uses.
LEMMA CallChains ==
  ASSUME IInv, ChainInv, NEW p \in Procs, NEW w \in {0, 1}, Call(p, w)
  PROVE  ChainInv'
<1> DEFINE unused == {c \in Bufs : \A q \in Procs : buf[q] # c}
           b == CHOOSE c \in unused : TRUE
           uncached == {l \in Blocks : \A c \in Bufs \ {b} : blockno[c] # l}
           k == CHOOSE l \in uncached : TRUE
<1>1. /\ pc[p] = "user" /\ unused # {} /\ uncached # {}
      /\ pc' = [pc EXCEPT ![p] = "rw"]
      /\ buf' = [buf EXCEPT ![p] = b]
      /\ write' = [write EXCEPT ![p] = w]
      /\ blockno' = [blockno EXCEPT ![b] = k]
      /\ UNCHANGED <<free, desc, info, idx>>
  BY Zenon DEF Call, queueVars
<1>2. b \in unused /\ k \in uncached
  BY <1>1, Zenon
<1>3. b \in Bufs /\ k \in Blocks /\ \A q \in Procs : buf[q] # b
  BY <1>2, Zenon
<1> HIDE DEF b, k, unused, uncached
<1>4. ASSUME NEW q \in Procs, pc'[q] \in IoLabels
      PROVE  /\ q # p /\ pc[q] \in IoLabels
             /\ write'[q] = write[q] /\ buf'[q] = buf[q]
             /\ blockno'[buf[q]] = blockno[buf[q]]
  BY <1>1, <1>3, <1>4 DEF IInv, ChainInv, ChainTypes, IoLabels
<1>5. ChainTypes'
  <2>1. /\ buf' \in [Procs -> Bufs \cup {Nil}] /\ write' \in [Procs -> {0, 1}]
        /\ blockno' \in [Bufs -> Blocks \cup {Nil}]
    BY <1>1, <1>3 DEF ChainInv, ChainTypes
  <2>2. \A q \in Procs : pc'[q] \in RwLabels => buf'[q] \in Bufs
    BY <1>1, <1>3 DEF IInv, ChainInv, ChainTypes
  <2>3. \A q \in Procs : pc'[q] \in IoLabels => idx'[q] \in Descs
    BY <1>1, <1>4, Zenon DEF ChainInv, ChainTypes
  <2> QED BY <1>1, <2>1, <2>2, <2>3, Zenon DEF ChainInv, ChainTypes
<1>6. ChainsIntact'
  BY <1>1, <1>4, ChainFrame, Zenon DEF ChainInv
<1> QED BY <1>5, <1>6, Zenon DEF ChainInv

\* The caller lets go of its buffer only when its request is done.
LEMMA LetGoChains ==
  ASSUME IInv, ChainInv, NEW p \in Procs, Return(p)
  PROVE  ChainInv'
<1>1. /\ pc[p] = "rw_done"
      /\ pc' = [pc EXCEPT ![p] = "user"]
      /\ buf' = [buf EXCEPT ![p] = Nil]
      /\ write' = [write EXCEPT ![p] = 0]
      /\ UNCHANGED <<free, desc, info, idx, blockno>>
  BY Zenon DEF Return, queueVars
<1>2. ASSUME NEW q \in Procs, pc'[q] \in IoLabels
      PROVE  q # p /\ pc[q] \in IoLabels /\ write'[q] = write[q] /\ buf'[q] = buf[q]
  BY <1>1, <1>2 DEF IInv, ChainInv, ChainTypes, IoLabels
<1>3. ChainTypes'
  <2>1. buf' \in [Procs -> Bufs \cup {Nil}] /\ write' \in [Procs -> {0, 1}]
    BY <1>1 DEF ChainInv, ChainTypes
  <2>2. \A q \in Procs : pc'[q] \in RwLabels => buf'[q] \in Bufs
    BY <1>1 DEF IInv, ChainInv, ChainTypes, RwLabels
  <2>3. \A q \in Procs : pc'[q] \in IoLabels => idx'[q] \in Descs
    BY <1>1, <1>2, Zenon DEF ChainInv, ChainTypes
  <2> QED BY <1>1, <2>1, <2>2, <2>3, Zenon DEF ChainInv, ChainTypes
<1>4. ChainsIntact'
  BY <1>1, <1>2, ChainFrame, Zenon DEF ChainInv
<1> QED BY <1>3, <1>4, Zenon DEF ChainInv

\* Every step keeps the chains.
LEMMA ChainsPreserved ==
  ASSUME IInv, ChainInv, [DriverNext]_diskVars
  PROVE  ChainInv'
<1> USE DEF queueVars, deviceVars
<1>1. ASSUME NEW p \in Procs, RwNoDesc(p) \/ RwSleepAgain(p) \/ KillWakes(p)
      PROVE  ChainInv'
  <2>1. UNCHANGED <<free, desc, info, idx, blockno, buf, write>>
    BY <1>1, Zenon DEF RwNoDesc, RwSleepAgain, KillWakes
  <2>2. \A q \in Procs : /\ pc'[q] \in IoLabels => pc[q] \in IoLabels
                         /\ pc'[q] \in RwLabels => pc[q] \in RwLabels
    BY <1>1 DEF RwNoDesc, RwSleepAgain, KillWakes, WakeDescAnd, IInv, IoLabels, RwLabels
  <2> QED BY <2>1, <2>2, QuietChains, Zenon
<1>2. CASE Device
  <2>1. UNCHANGED <<free, desc, info, idx, blockno, buf, write, pc>>
    BY <1>2, Zenon DEF Device, DeviceTake, DeviceFinish
  <2> QED BY <2>1, QuietChains, Zenon
<1>3. CASE Intr
  <2>1. UNCHANGED <<free, desc, info, idx, blockno, buf, write>>
    BY <1>3, Zenon DEF Intr, IntrAck, IntrUsed, IntrReturn
  <2>2. \A q \in Procs : /\ pc'[q] \in IoLabels => pc[q] \in IoLabels
                         /\ pc'[q] \in RwLabels => pc[q] \in RwLabels
    BY <1>3 DEF Intr, IntrAck, IntrUsed, IntrReturn, WakeIo, IoLabels, RwLabels
  <2> QED BY <2>1, <2>2, QuietChains, Zenon
<1>4. CASE UNCHANGED diskVars
  BY <1>4, QuietChains, Zenon DEF diskVars
<1> QED BY <1>1, <1>2, <1>3, <1>4, SubmitChains, ReturnChains, CallChains, LetGoChains,
           Zenon
        DEF DriverNext, DiskNext, Rw

\* In every reachable state of the driver, a request under way has three
\* descriptors of its own, which are not free and say what its process asked
\* of the disk.
THEOREM ChainsSound == DriverSpec => []ChainsIntact
<1>1. DiskInit => ChainInv
  <2> SUFFICES ASSUME DiskInit PROVE ChainInv
    OBVIOUS
  <2>1. ChainTypes
    BY DEF DiskInit, ChainTypes, NoDesc, RwLabels, IoLabels
  <2>2. ChainsIntact
    BY DEF DiskInit, ChainsIntact
  <2> QED BY <2>1, <2>2 DEF ChainInv
<1>2. IInv /\ ChainInv /\ [DriverNext]_diskVars => ChainInv'
  BY ChainsPreserved, Zenon
<1> QED BY <1>1, <1>2, Invariant, PTL DEF DriverSpec, ChainInv

=============================================================================
