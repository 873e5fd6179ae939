----------------------------- MODULE ProcProofs -----------------------------
(***************************************************************************)
(* The process table of module Proc is sound for every number of slots and *)
(* CPUs: locks are handed over safely, spinlocks do not deadlock, parents  *)
(* are alive, a child under construction stays with its parent, and no     *)
(* parent sleeps through the exit of a child.  Here are the remaining      *)
(* steps, of fork(), of reparent() and exit()'s wakeups and of wait(), and *)
(* the theorems.                                                           *)
(***************************************************************************)
EXTENDS ProcSchedProofs, TLAPS

\* exit() makes its process a ZOMBIE.
LEMMA ExitZombiePreserves ==
  ASSUME IInv, NEW c \in CPUS, NEW p \in Slots, ExitZombie(c, p)
  PROVE  IInv'
<1>inv. /\ TableType /\ CpuInv /\ OneCpuPerProcess /\ PlockInv /\ LkInv /\ StateInv
        /\ CursorInv /\ InitInv /\ ForkInv /\ ParentInv /\ WakeInv
  BY Zenon DEF IInv, LockInv, TreeInv
<1> USE <1>inv DEF Exec, Labels, ProcStates, PLabels, LkLabels, FreeLabels, QuietLabels,
            ForkLabels, OrphanLabels, ZombieLabels, ChildlessLabels, ScanLabels
<1>e. /\ TableType'
      /\ Exec(c, p) /\ pc[p] = "exit_zombie" /\ plock[p] = NoCpu
      /\ \A r \in Slots : plock[r]' = IF r = p THEN c ELSE plock[r]
      /\ \A r \in Slots : state[r]' = IF r = p THEN "ZOMBIE" ELSE state[r]
      /\ \A r \in Slots : pc[r]' = IF r = p THEN "exit_release" ELSE pc[r]
      /\ UNCHANGED <<chan, lk, cproc, spc, sp, saved, cur, parent, np, pp>>
  BY SchedAssumption, SlotFacts, Zenon DEF ExitZombie, Goto, procVars, TableType
<1>2. LockInv'
  <2>1. CpuInv' /\ OneCpuPerProcess'
    BY <1>e, Zenon DEF CpuInv, OneCpuPerProcess
  <2>2. PlockInv'
    BY <1>e, TableFacts DEF PlockInv, OneCpuPerProcess
  <2>3. LkInv'
    BY <1>e, Zenon DEF LkInv
  <2>4. StateInv'
    BY <1>e DEF StateInv, StateOf
  <2> QED BY <2>1, <2>2, <2>3, <2>4, Zenon DEF LockInv
<1>3. TreeSteady
  BY <1>e DEF TreeSteady, At, StateInv, StateOf, CursorInv
<1>4. WakeInv'
  <2> USE SchedAssumption, SlotFacts
  <2>1. \A r \in Slots : pc[r] \in LkLabels => r = p
    BY <1>e, LkExclusive, Zenon
  <2>2. \A r \in Slots : Dozing(r)' => Dozing(r)
    BY <1>e, Zenon DEF Dozing
  <2>3. \A r \in Slots : parent[p] = r => ~Dozing(r)
    BY <1>e, Zenon DEF WakeInv
  <2>4. \A r, s \in Slots : state[s] = "ZOMBIE" /\ parent[s] = r => ~Dozing(r)
    BY <1>e, <2>1, Zenon DEF WakeInv
  <2>5. \A r \in Slots : pc[r]' \in LkLabels => pc[r]' = "exit_release"
    BY <1>e, <2>1, Zenon
  <2>6. \A s \in Slots : state[s]' = "ZOMBIE" => s = p \/ state[s] = "ZOMBIE"
    BY <1>e, Zenon
  <2> QED BY <1>e, <2>2, <2>3, <2>4, <2>5, <2>6 DEF WakeInv
<1> QED BY <1>e, <1>2, <1>3, <1>4, TreeFrame, Zenon DEF IInv

\* wait() frees a ZOMBIE.
LEMMA WaitReapPreserves ==
  ASSUME IInv, NEW c \in CPUS, NEW p \in Slots, WaitReap(c, p)
  PROVE  IInv'
<1>inv. /\ TableType /\ CpuInv /\ OneCpuPerProcess /\ PlockInv /\ LkInv /\ StateInv
        /\ CursorInv /\ InitInv /\ ForkInv /\ ParentInv /\ WakeInv
  BY Zenon DEF IInv, LockInv, TreeInv
<1> USE <1>inv DEF Exec, Labels, ProcStates, PLabels, LkLabels, FreeLabels, QuietLabels,
            ForkLabels, OrphanLabels, ZombieLabels, ChildlessLabels, ScanLabels
<1>q. PICK q \in Slots : q = cur[p]
  BY SchedAssumption, SlotFacts, Zenon DEF WaitReap, FreeProc, TableType, ParentInv
<1>e. /\ TableType'
      /\ Exec(c, p) /\ pc[p] = "wait_scan" /\ q # p /\ parent[q] = p
      /\ plock[q] = NoCpu /\ state[q] = "ZOMBIE"
      /\ \A r \in Slots : parent[r]' = IF r = q THEN Null ELSE parent[r]
      /\ \A r \in Slots : chan[r]' = IF r = q THEN Null ELSE chan[r]
      /\ \A r \in Slots : state[r]' = IF r = q THEN "UNUSED" ELSE state[r]
      /\ \A r \in Slots : cur[r]' = IF r = p THEN 0 ELSE cur[r]
      /\ lk' = NoCpu
      /\ \A r \in Slots : pc[r]' = IF r = p THEN "user" ELSE IF r = q THEN "none" ELSE pc[r]
      /\ UNCHANGED <<plock, cproc, spc, sp, saved, np, pp>>
  BY SchedAssumption, SlotFacts, <1>q DEF WaitReap, FreeProc, TableType, ParentInv
<1>2. ReleasesLk(c, p)
  <2>1. \A d \in CPUS : cproc[d] # q
    BY <1>e, OffCpu, Zenon
  <2>2. OffCpuStep(q)
    BY <1>e, <2>1 DEF OffCpuStep, StateOf, LkInv, TableType
  <2> QED BY <1>e, <2>2, Zenon DEF ReleasesLk, QuietStep
<1>3. TreeInv'
  <2>1. CursorInv'
    BY <1>e DEF CursorInv, At, StateInv, StateOf
  <2>2. InitInv'
    BY <1>e, TableFacts DEF InitInv, At
  <2>3. ForkInv'
    BY <1>e DEF ForkInv, At, StateInv, StateOf
  <2>4. ParentInv'
    BY <1>e, TableFacts DEF ParentInv, StateInv, StateOf
  <2> QED BY <2>1, <2>2, <2>3, <2>4, Zenon DEF TreeInv
<1>4. WakeSteady
  BY <1>e, Zenon DEF WakeSteady, WakeLabels, Dozing, LkInv
<1> QED BY <1>e, <1>2, <1>3, <1>4, ReleaseFrame, WakeFrame, Zenon DEF IInv

\* wait() looks at one slot.
LEMMA WaitScanPreserves ==
  ASSUME IInv, NEW c \in CPUS, NEW p \in Slots, WaitScan(c, p)
  PROVE  IInv'
<1>inv. /\ TableType /\ CpuInv /\ OneCpuPerProcess /\ PlockInv /\ LkInv /\ StateInv
        /\ CursorInv /\ InitInv /\ ForkInv /\ ParentInv /\ WakeInv
  BY Zenon DEF IInv, LockInv, TreeInv
<1> USE <1>inv DEF Exec, Labels, ProcStates, PLabels, LkLabels, FreeLabels, QuietLabels,
            ForkLabels, OrphanLabels, ZombieLabels, ChildlessLabels, ScanLabels
<1>e. /\ TableType'
      /\ Exec(c, p) /\ pc[p] = "wait_scan"
      /\ \/ /\ cur[p] = NPROC /\ cur[p]' = 0
            /\ \A r \in Slots : pc[r]' = IF r = p THEN "wait_decide" ELSE pc[r]
         \/ /\ cur[p] < NPROC /\ (parent[cur[p]] # p \/ state[cur[p]] # "ZOMBIE")
            /\ cur[p]' = cur[p] + 1 /\ pc' = pc
      /\ \A r \in Slots \ {p} : cur[r]' = cur[r]
      /\ UNCHANGED <<state, chan, plock, lk, cproc, spc, sp, saved, parent, np, pp>>
  BY SchedAssumption, SlotFacts DEF WaitScan, Goto, TableType
<1>2. LockSteady
  BY <1>e, Zenon DEF LockSteady, QuietStep
<1>3. TreeSteady
  BY <1>e DEF TreeSteady, At
<1>4. WakeInv'
  <2> USE SchedAssumption, SlotFacts
  <2>1. \A r \in Slots : pc[r] \in LkLabels => r = p
    BY <1>e, LkExclusive, Zenon
  <2>2. /\ state' = state /\ parent' = parent /\ \A r \in Slots : Dozing(r)' => Dozing(r)
        /\ \A r \in Slots :
             pc[r]' \in LkLabels => r = p /\ pc[r]' \in {"wait_scan", "wait_decide"}
    BY <1>e, <2>1, Zenon DEF Dozing
  <2>3. ASSUME NEW s \in Slots, state[s] = "ZOMBIE", parent[s] = p
        PROVE  pc[p]' = "wait_scan" /\ cur[p]' <= s
    <3>1. cur[p] <= s /\ cur[p] \in Nat
      BY <1>e, <2>3, Zenon DEF WakeInv, TableType
    <3>2. cur[p] # NPROC /\ cur[p] # s
      BY <1>e, <2>3, <3>1
    <3> QED BY <1>e, <3>1, <3>2
  <2>4. \A r, s \in Slots : state[s] = "ZOMBIE" /\ parent[s] = r => ~Dozing(r)
    BY <1>e, <2>1, Zenon DEF WakeInv
  <2> QED BY <2>2, <2>3, <2>4, Zenon DEF WakeInv
<1> QED BY <1>e, <1>2, <1>3, <1>4, LockFrame, TreeFrame, Zenon DEF IInv

\* One turn of exit()'s wakeup(p->parent).
LEMMA WakeParentStepPreserves ==
  ASSUME IInv, NEW c \in CPUS, NEW p \in Slots,
         WakeupStep(c, p, "exit_wake_parent", parent[p]), UNCHANGED procVars
  PROVE  IInv'
<1>inv. /\ TableType /\ CpuInv /\ OneCpuPerProcess /\ PlockInv /\ LkInv /\ StateInv
        /\ CursorInv /\ InitInv /\ ForkInv /\ ParentInv /\ WakeInv
  BY Zenon DEF IInv, LockInv, TreeInv
<1> USE <1>inv DEF Exec, Labels, ProcStates, PLabels, LkLabels, FreeLabels, QuietLabels,
            ForkLabels, OrphanLabels, ZombieLabels, ChildlessLabels, ScanLabels
<1>q. PICK q \in Slots : q = cur[p]
  BY SchedAssumption, SlotFacts, Zenon DEF WakeupStep, procVars, TableType
<1>e. /\ TableType'
      /\ Exec(c, p) /\ pc[p] = "exit_wake_parent" /\ (q # p => plock[q] = NoCpu)
      /\ \A r \in Slots :
           state[r]' = IF r = q
                       THEN (IF q # p /\ state[q] = "SLEEPING" /\ chan[q] = parent[p] THEN "RUNNABLE" ELSE state[q])
                       ELSE state[r]
      /\ \A r \in Slots : cur[r]' = IF r = p THEN q + 1 ELSE cur[r]
      /\ UNCHANGED <<chan, plock, lk, cproc, spc, sp, pc, saved, parent, np, pp>>
  BY SchedAssumption, SlotFacts, <1>q, Zenon DEF WakeupStep, procVars, TableType
<1>2. LockSteady
  BY <1>e, OffCpu DEF LockSteady, QuietStep, OffCpuStep, StateOf, StateInv
<1>3. TreeSteady
  BY <1>e, Zenon DEF TreeSteady, At
<1>4. WakeInv'
  <2> USE SchedAssumption, SlotFacts
  <2>1. \A r \in Slots : pc[r] \in LkLabels => r = p
    BY <1>e, LkExclusive, Zenon
  <2>2. parent[p] \in Slots /\ parent[p] # p
    BY <1>e DEF ParentInv, InitInv, StateInv, StateOf, At, TableType
  <2>3. \A r \in Slots : /\ Dozing(r)' => Dozing(r)
                         /\ state[r]' = "ZOMBIE" => state[r] = "ZOMBIE"
    BY <1>e, Zenon DEF Dozing
  <2>4. \A r \in Slots : r = q /\ parent[p] = r => ~Dozing(r)'
    BY <1>e, <2>2 DEF Dozing, StateInv, StateOf, PlockInv
  <2>5. \A r, s \in Slots : state[s] = "ZOMBIE" /\ parent[s] = r => ~Dozing(r)
    BY <1>e, <2>1, Zenon DEF WakeInv
  <2>6. \A r \in Slots : parent[p] = r /\ q + 1 > r => ~Dozing(r)'
    <3> SUFFICES ASSUME NEW r \in Slots, parent[p] = r, q + 1 > r, r # q
                 PROVE  ~Dozing(r)'
      BY <2>4, Zenon
    <3>1. q \in Nat /\ r \in Nat
      BY Zenon
    <3>2. q > r
      BY <3>1
    <3> QED BY <1>q, <1>e, <2>3, <3>2, Zenon DEF WakeInv
  <2>7. \A r \in Slots : pc[r]' \in LkLabels =>
          r = p /\ pc[r]' = "exit_wake_parent" /\ cur[r]' = q + 1
    BY <1>e, <2>1, Zenon
  <2> QED BY <1>e, <2>3, <2>5, <2>6, <2>7 DEF WakeInv
<1> QED BY <1>e, <1>2, <1>3, <1>4, LockFrame, TreeFrame, Zenon DEF IInv

\* fork() lets its child run.
LEMMA ForkRunnablePreserves ==
  ASSUME IInv, NEW c \in CPUS, NEW p \in Slots, ForkRunnable(c, p)
  PROVE  IInv'
<1>inv. /\ TableType /\ CpuInv /\ OneCpuPerProcess /\ PlockInv /\ LkInv /\ StateInv
        /\ CursorInv /\ InitInv /\ ForkInv /\ ParentInv /\ WakeInv
  BY Zenon DEF IInv, LockInv, TreeInv
<1> USE <1>inv DEF Exec, Labels, ProcStates, PLabels, LkLabels, FreeLabels, QuietLabels,
            ForkLabels, OrphanLabels, ZombieLabels, ChildlessLabels, ScanLabels
<1>q. PICK q \in Slots : q = np[p]
  BY SchedAssumption, SlotFacts, Zenon DEF ForkRunnable, Goto, TableType, ForkInv, At,
     StateInv, StateOf
<1>e. /\ TableType'
      /\ Exec(c, p) /\ pc[p] = "fork_runnable" /\ q # p /\ state[q] = "USED"
      /\ plock[q] = NoCpu
      /\ \A r \in Slots : state[r]' = IF r = q THEN "RUNNABLE" ELSE state[r]
      /\ \A r \in Slots : np[r]' = IF r = p THEN Null ELSE np[r]
      /\ \A r \in Slots : pc[r]' = IF r = p THEN "user" ELSE pc[r]
      /\ UNCHANGED <<chan, plock, lk, cproc, spc, sp, saved, cur, parent, pp>>
  BY SchedAssumption, SlotFacts, <1>q DEF ForkRunnable, Goto, TableType, ForkInv, At,
    StateInv, StateOf
<1>2. LockSteady
  BY <1>e, OffCpu DEF LockSteady, QuietStep, OffCpuStep, StateOf, StateInv
<1>3. TreeInv'
  <2>1. CursorInv'
    BY <1>e, Zenon DEF CursorInv, At
  <2>2. InitInv'
    BY <1>e, TableFacts, Zenon DEF InitInv, At
  <2>3. ForkInv'
    BY <1>e, SchedAssumption, SlotFacts, <1>q DEF TableType, StateInv, StateOf, ForkInv, At
  <2>4. ParentInv'
    BY <1>e, SchedAssumption, SlotFacts, <1>q DEF TableType, StateInv, StateOf, InitInv,
      ParentInv, ForkInv, At
  <2> QED BY <2>1, <2>2, <2>3, <2>4, Zenon DEF TreeInv
<1>4. WakeSteady
  BY <1>e, Zenon DEF WakeSteady, WakeLabels, Dozing
<1> QED BY <1>e, <1>2, <1>3, <1>4, LockFrame, WakeFrame, Zenon DEF IInv

\* allocproc() passes a slot in use, or gives up.
LEMMA ForkScanPreserves ==
  ASSUME IInv, NEW c \in CPUS, NEW p \in Slots, ForkScan(c, p)
  PROVE  IInv'
<1>inv. /\ TableType /\ CpuInv /\ OneCpuPerProcess /\ PlockInv /\ LkInv /\ StateInv
        /\ CursorInv /\ InitInv /\ ForkInv /\ ParentInv /\ WakeInv
  BY Zenon DEF IInv, LockInv, TreeInv
<1> USE <1>inv DEF Exec, Labels, ProcStates, PLabels, LkLabels, FreeLabels, QuietLabels,
            ForkLabels, OrphanLabels, ZombieLabels, ChildlessLabels, ScanLabels
<1>e. /\ Exec(c, p) /\ pc[p] = "fork_scan"
      /\ \/ /\ \A r \in Slots : pc[r]' = IF r = p THEN "user" ELSE pc[r]
            /\ \A r \in Slots : cur[r]' = IF r = p THEN 0 ELSE cur[r]
         \/ /\ pc' = pc
            /\ \A r \in Slots \ {p} : cur[r]' = cur[r]
      /\ UNCHANGED <<state, chan, plock, lk, cproc, spc, sp, saved, parent, np, pp>>
  BY SchedAssumption, SlotFacts DEF ForkScan, Goto, procVars, TableType
<1>1. TableType'
  BY SchedAssumption, SlotFacts DEF ForkScan, Goto, procVars, TableType
<1>2. LockSteady
  BY <1>e, Zenon DEF LockSteady, QuietStep
<1>3. TreeSteady
  BY <1>e, Zenon DEF TreeSteady, At
<1>4. WakeSteady
  BY <1>e, Zenon DEF WakeSteady, WakeLabels, Dozing
<1> QED BY <1>1, <1>2, <1>3, <1>4, LockFrame, TreeFrame, WakeFrame, Zenon DEF IInv

\* fork() sets the parent of its child.
LEMMA ForkParentPreserves ==
  ASSUME IInv, NEW c \in CPUS, NEW p \in Slots, ForkParent(c, p)
  PROVE  IInv'
<1>inv. /\ TableType /\ CpuInv /\ OneCpuPerProcess /\ PlockInv /\ LkInv /\ StateInv
        /\ CursorInv /\ InitInv /\ ForkInv /\ ParentInv /\ WakeInv
  BY Zenon DEF IInv, LockInv, TreeInv
<1> USE <1>inv DEF Exec, Labels, ProcStates, PLabels, LkLabels, FreeLabels, QuietLabels,
            ForkLabels, OrphanLabels, ZombieLabels, ChildlessLabels, ScanLabels
<1>q. PICK q \in Slots : q = np[p]
  BY SchedAssumption, SlotFacts, Zenon DEF ForkParent, Goto, TableType, ForkInv, At,
     StateInv, StateOf
<1>e. /\ TableType'
      /\ Exec(c, p) /\ pc[p] = "fork_parent" /\ q # p /\ state[q] = "USED" /\ lk = NoCpu
      /\ \A r \in Slots : parent[r]' = IF r = q THEN p ELSE parent[r]
      /\ \A r \in Slots : pc[r]' = IF r = p THEN "fork_runnable" ELSE pc[r]
      /\ UNCHANGED <<state, chan, plock, lk, cproc, spc, sp, saved, cur, np, pp>>
  BY SchedAssumption, SlotFacts, <1>q DEF ForkParent, Goto, TableType, ForkInv, At,
     StateInv,
    StateOf
<1>2. LockSteady
  BY <1>e, OffCpu, Zenon DEF LockSteady, QuietStep, OffCpuStep, StateOf
<1>3. TreeInv'
  <2>1. CursorInv'
    BY <1>e, Zenon DEF CursorInv, At
  <2>2. InitInv'
    BY <1>e, TableFacts, Zenon DEF InitInv, At
  <2>3. ForkInv'
    BY <1>e, SchedAssumption, SlotFacts, <1>q DEF TableType, StateInv, StateOf, ForkInv, At
  <2>4. ParentInv'
    BY <1>e DEF ParentInv, StateInv, StateOf
  <2> QED BY <2>1, <2>2, <2>3, <2>4, Zenon DEF TreeInv
<1>4. WakeSteady
  BY <1>e DEF WakeSteady, WakeLabels, Dozing, LkInv
<1> QED BY <1>e, <1>2, <1>3, <1>4, LockFrame, WakeFrame, Zenon DEF IInv

\* allocproc() takes an UNUSED slot.
LEMMA ForkAllocPreserves ==
  ASSUME IInv, NEW c \in CPUS, NEW p \in Slots, ForkAlloc(c, p)
  PROVE  IInv'
<1>inv. /\ TableType /\ CpuInv /\ OneCpuPerProcess /\ PlockInv /\ LkInv /\ StateInv
        /\ CursorInv /\ InitInv /\ ForkInv /\ ParentInv /\ WakeInv
  BY Zenon DEF IInv, LockInv, TreeInv
<1> USE <1>inv DEF Exec, Labels, ProcStates, PLabels, LkLabels, FreeLabels, QuietLabels,
            ForkLabels, OrphanLabels, ZombieLabels, ChildlessLabels, ScanLabels
<1>q. PICK q \in Slots : q = cur[p]
  BY SchedAssumption, SlotFacts, Zenon DEF ForkAlloc, AllocProc, AllocPid, TableType,
     StateInv, StateOf
<1>e. /\ TableType'
      /\ Exec(c, p) /\ pc[p] = "fork_scan" /\ q # p /\ plock[q] = NoCpu
      /\ state[q] = "UNUSED"
      /\ \A r \in Slots : state[r]' = IF r = q THEN "USED" ELSE state[r]
      /\ \A r \in Slots : np[r]' = IF r = p THEN q ELSE np[r]
      /\ \A r \in Slots : cur[r]' = IF r = p THEN 0 ELSE cur[r]
      /\ \A r \in Slots :
           pc[r]' = IF r = p THEN "fork_parent" ELSE IF r = q THEN "forkret" ELSE pc[r]
      /\ UNCHANGED <<chan, plock, lk, cproc, spc, sp, saved, parent, pp>>
  BY SchedAssumption, SlotFacts, <1>q DEF ForkAlloc, AllocProc, AllocPid, TableType,
    StateInv, StateOf
<1>2. LockSteady
  BY <1>e, OffCpu DEF LockSteady, QuietStep, OffCpuStep, StateOf, StateInv
<1>3. TreeInv'
  <2>1. CursorInv'
    BY <1>e DEF CursorInv, At, StateInv, StateOf
  <2>2. InitInv'
    BY <1>e, TableFacts, Zenon DEF InitInv, At
  <2>3. ForkInv'
    <3> USE SchedAssumption, SlotFacts
    <3>1. parent[q] = Null /\ np[q] = Null /\ \A r \in Slots : np[r] # q
      BY <1>e DEF ParentInv, StateInv, StateOf, ForkInv, At
    <3>2. At(p)' = "fork_parent" /\ np[p]' = q
      BY <1>e, Zenon DEF At
    <3>3. At(q)' = "forkret" /\ np[q]' = Null /\ state[q]' = "USED" /\ parent[q]' = Null
      BY <1>e, <3>1, Zenon DEF At
    <3>4. \A r \in Slots \ {p, q} :
            /\ At(r)' = At(r) /\ np[r]' = np[r] /\ np[r] # q
            /\ np[r] \in Slots => state[np[r]]' = state[np[r]]
      BY <1>e, <3>1 DEF At
    <3> SUFFICES ASSUME NEW r \in Slots
                 PROVE  /\ At(r)' \notin ForkLabels => np[r]' = Null
                        /\ At(r)' \in ForkLabels =>
                             /\ np[r]' \in Slots /\ state[np[r]]' = "USED"
                             /\ parent[np[r]]' = IF At(r)' = "fork_parent" THEN Null ELSE r
                        /\ \A s \in Slots : s # r /\ np[r]' = np[s]' => np[r]' = Null
      BY Zenon DEF ForkInv
    <3>5. CASE r = p
      BY <1>e, <3>2, <3>3, <3>4, <3>5
    <3>6. CASE r = q
      BY <3>3, <3>6, Zenon
    <3>7. CASE r \notin {p, q}
      BY <1>e, <3>2, <3>3, <3>4, <3>7 DEF ForkInv
    <3> QED BY <3>5, <3>6, <3>7, Zenon
  <2>4. ParentInv'
    BY <1>e, TableFacts DEF ParentInv
  <2> QED BY <2>1, <2>2, <2>3, <2>4, Zenon DEF TreeInv
<1>4. WakeSteady
  BY <1>e DEF WakeSteady, WakeLabels, Dozing, StateInv, StateOf
<1> QED BY <1>e, <1>2, <1>3, <1>4, LockFrame, WakeFrame, Zenon DEF IInv

\* fork() gives a slot back.
LEMMA ForkAllocFailsPreserves ==
  ASSUME IInv, NEW c \in CPUS, NEW p \in Slots, ForkAllocFails(c, p)
  PROVE  IInv'
<1>inv. /\ TableType /\ CpuInv /\ OneCpuPerProcess /\ PlockInv /\ LkInv /\ StateInv
        /\ CursorInv /\ InitInv /\ ForkInv /\ ParentInv /\ WakeInv
  BY Zenon DEF IInv, LockInv, TreeInv
<1> USE <1>inv DEF Exec, Labels, ProcStates, PLabels, LkLabels, FreeLabels, QuietLabels,
            ForkLabels, OrphanLabels, ZombieLabels, ChildlessLabels, ScanLabels
<1>q. PICK q \in Slots : q = cur[p]
  BY SchedAssumption, SlotFacts, Zenon DEF ForkAllocFails, AllocPid, FreeProc, Goto,
     TableType, StateInv, StateOf
<1>e. /\ TableType'
      /\ Exec(c, p) /\ pc[p] = "fork_scan" /\ q # p /\ plock[q] = NoCpu
      /\ state[q] = "UNUSED"
      /\ \A r \in Slots : state[r]' = IF r = q THEN "UNUSED" ELSE state[r]
      /\ \A r \in Slots : parent[r]' = IF r = q THEN Null ELSE parent[r]
      /\ \A r \in Slots : chan[r]' = IF r = q THEN Null ELSE chan[r]
      /\ \A r \in Slots : pc[r]' = IF r = p THEN "user" ELSE pc[r]
      /\ \A r \in Slots : cur[r]' = IF r = p THEN 0 ELSE cur[r]
      /\ UNCHANGED <<plock, lk, cproc, spc, sp, saved, np, pp>>
  BY SchedAssumption, SlotFacts, <1>q DEF ForkAllocFails, AllocPid, FreeProc, Goto,
    TableType, StateInv, StateOf
<1>2. LockSteady
  BY <1>e, OffCpu DEF LockSteady, QuietStep, OffCpuStep, StateOf, StateInv
<1>3. TreeInv'
  <2>1. CursorInv'
    BY <1>e, Zenon DEF CursorInv, At
  <2>2. InitInv'
    BY <1>e, TableFacts DEF InitInv, At
  <2>3. ForkInv'
    BY <1>e DEF ForkInv, At
  <2>4. ParentInv'
    BY <1>e, TableFacts DEF ParentInv
  <2> QED BY <2>1, <2>2, <2>3, <2>4, Zenon DEF TreeInv
<1>4. WakeSteady
  BY <1>e DEF WakeSteady, WakeLabels, Dozing, StateInv, StateOf
<1> QED BY <1>e, <1>2, <1>3, <1>4, LockFrame, WakeFrame, Zenon DEF IInv

\* One turn of reparent()'s wakeup(initproc).
LEMMA WakeInitStepPreserves ==
  ASSUME IInv, NEW c \in CPUS, NEW p \in Slots,
         WakeupStep(c, p, "exit_wake_init", initproc), UNCHANGED procVars
  PROVE  IInv'
<1>inv. /\ TableType /\ CpuInv /\ OneCpuPerProcess /\ PlockInv /\ LkInv /\ StateInv
        /\ CursorInv /\ InitInv /\ ForkInv /\ ParentInv /\ WakeInv
  BY Zenon DEF IInv, LockInv, TreeInv
<1> USE <1>inv DEF Exec, Labels, ProcStates, PLabels, LkLabels, FreeLabels, QuietLabels,
            ForkLabels, OrphanLabels, ZombieLabels, ChildlessLabels, ScanLabels
<1>q. PICK q \in Slots : q = cur[p]
  BY SchedAssumption, SlotFacts, Zenon DEF WakeupStep, procVars, TableType
<1>e. /\ TableType'
      /\ Exec(c, p) /\ pc[p] = "exit_wake_init" /\ (q # p => plock[q] = NoCpu)
      /\ \A r \in Slots :
           state[r]' = IF r = q
                       THEN (IF q # p /\ state[q] = "SLEEPING" /\ chan[q] = initproc THEN "RUNNABLE" ELSE state[q])
                       ELSE state[r]
      /\ \A r \in Slots : cur[r]' = IF r = p THEN q + 1 ELSE cur[r]
      /\ UNCHANGED <<chan, plock, lk, cproc, spc, sp, pc, saved, parent, np, pp>>
  BY SchedAssumption, SlotFacts, <1>q, Zenon DEF WakeupStep, procVars, TableType
<1>2. LockSteady
  BY <1>e, OffCpu DEF LockSteady, QuietStep, OffCpuStep, StateOf, StateInv
<1>3. TreeSteady
  BY <1>e, Zenon DEF TreeSteady, At
<1>4. WakeInv'
  <2> USE SchedAssumption, SlotFacts
  <2>1. p # initproc /\ \A r \in Slots : pc[r] \in LkLabels => r = p
    BY <1>e, LkExclusive, Zenon DEF InitInv, At
  <2>2. \A r \in Slots : /\ Dozing(r)' => Dozing(r)
                         /\ state[r]' = "ZOMBIE" => state[r] = "ZOMBIE"
    BY <1>e, Zenon DEF Dozing
  <2>3. q = 0 => ~Dozing(initproc)'
    BY <1>e, <2>1 DEF Dozing, StateInv, StateOf, PlockInv, initproc
  <2>4. \A r, s \in Slots : state[s] = "ZOMBIE" /\ parent[s] = r => ~Dozing(r)'
    BY <1>q, <1>e, <2>1, <2>2, <2>3 DEF WakeInv
  <2>5. \A r \in Slots : pc[r]' \in LkLabels => pc[r]' = "exit_wake_init"
    BY <1>e, <2>1, Zenon
  <2> QED BY <1>e, <2>2, <2>4, <2>5, Zenon DEF WakeInv
<1> QED BY <1>e, <1>2, <1>3, <1>4, LockFrame, TreeFrame, Zenon DEF IInv

\* reparent() looks at one slot.
LEMMA ReparentPreserves ==
  ASSUME IInv, NEW c \in CPUS, NEW p \in Slots, Reparent(c, p)
  PROVE  IInv'
<1>inv. /\ TableType /\ CpuInv /\ OneCpuPerProcess /\ PlockInv /\ LkInv /\ StateInv
        /\ CursorInv /\ InitInv /\ ForkInv /\ ParentInv /\ WakeInv
  BY Zenon DEF IInv, LockInv, TreeInv
<1> USE <1>inv DEF Exec, Labels, ProcStates, PLabels, LkLabels, FreeLabels, QuietLabels,
            ForkLabels, OrphanLabels, ZombieLabels, ChildlessLabels, ScanLabels
<1>e. /\ Exec(c, p) /\ pc[p] = "exit_reparent"
      /\ \/ /\ pp[p] = NPROC /\ pp[p]' = 0 /\ parent' = parent
            /\ \A r \in Slots : pc[r]' = IF r = p THEN "exit_wake_parent" ELSE pc[r]
         \/ /\ pp[p] \in Slots /\ parent[pp[p]] = p /\ pp[p]' = pp[p] + 1
            /\ \A r \in Slots : parent[r]' = IF r = pp[p] THEN initproc ELSE parent[r]
            /\ \A r \in Slots : pc[r]' = IF r = p THEN "exit_wake_init" ELSE pc[r]
         \/ /\ pp[p] \in Slots /\ parent[pp[p]] # p /\ pp[p]' = pp[p] + 1
            /\ parent' = parent /\ pc' = pc
      /\ \A r \in Slots \ {p} : pp[r]' = pp[r]
      /\ UNCHANGED <<state, chan, plock, lk, cproc, spc, sp, saved, cur, np>>
  BY SchedAssumption, SlotFacts DEF Reparent, Adopt, Goto, TableType
<1> USE SchedAssumption, SlotFacts
<1>a. p # initproc /\ cur[p] = 0 /\ pc[initproc] \notin OrphanLabels \cup ChildlessLabels
  BY <1>e, Zenon DEF InitInv, CursorInv, At
<1>b. parent[p] \in Slots /\ parent[p] # p
  BY <1>e, <1>a DEF ParentInv, StateInv, StateOf, TableType
<1>c. \A q \in Slots : pc[q] \in LkLabels => q = p
  BY <1>e, LkExclusive, Zenon
<1>d. \A r \in Slots : r < pp[p]' =>
        \/ r < pp[p]
        \/ r = pp[p] /\ parent[r]' # p
  <2>1. pp[p] \in Nat /\ \A r \in Slots : r \in Nat
    BY Zenon DEF TableType
  <2> QED BY <1>a, <1>e, <2>1
<1>1. TableType'
  <2>1. pp' \in [Slots -> 0 .. NPROC]
    BY SlotFacts DEF Reparent, TableType
  <2>2. pc' \in [Slots -> Labels]
    BY DEF Reparent, Goto, TableType
  <2>3. parent' \in [Slots -> Slots \cup {Null}]
    <3>1. CASE UNCHANGED parent
      BY <3>1, Zenon DEF TableType
    <3>2. CASE pp[p] < NPROC /\ Adopt(pp[p])
      BY <3>2, SlotFacts, Zenon DEF Adopt, TableType
    <3> QED BY <3>1, <3>2, Zenon DEF Reparent
  <2> QED BY <2>1, <2>2, <2>3, Zenon DEF Reparent, TableType
<1>2. LockSteady
  BY <1>e, Zenon DEF LockSteady, QuietStep
<1>3. TreeInv'
  <2>1. CursorInv'
    BY <1>e, Zenon DEF CursorInv, At
  <2>2. InitInv'
    BY <1>e, Zenon DEF InitInv, At
  <2>3. ForkInv'
    BY <1>e DEF ForkInv, At
  <2>4. ParentInv'
    <3> USE SchedAssumption, SlotFacts
    <3>1. \A r \in Slots :
            parent[r]' = parent[r] \/ (parent[r] = p /\ r # initproc /\ parent[r]' = initproc)
      BY <1>e, Zenon DEF InitInv
    <3>2. state[initproc] \notin {"UNUSED", "USED"} /\ state' = state
      BY <1>e, Zenon DEF InitInv
    <3>3. /\ pc[p]' \in OrphanLabels \cup {"exit_wake_parent"}
          /\ \A q \in Slots \ {p} : pc[q]' = pc[q] /\ pp[q]' = pp[q]
      BY <1>e, Zenon
    <3>4. pc[p]' = "exit_wake_parent" => pp[p] = NPROC /\ parent' = parent
      BY <1>e, Zenon
    <3> SUFFICES ASSUME NEW q \in Slots
                 PROVE  /\ parent[q]' # Null =>
                             /\ parent[q]' # q /\ state[q]' # "UNUSED"
                             /\ state[parent[q]]' \notin {"UNUSED", "USED"}
                        /\ state[q]' \notin {"UNUSED", "USED"} /\ q # initproc => parent[q]' # Null
                        /\ pc[q]' \in ChildlessLabels => \A r \in Slots : parent[r]' # q
                        /\ pc[q]' \in OrphanLabels =>
                             \A r \in Slots : r < pp[q]' => parent[r]' # q
      BY Zenon DEF ParentInv
    <3>5. parent[q]' # Null => /\ parent[q]' # q /\ state[q]' # "UNUSED"
                              /\ state[parent[q]]' \notin {"UNUSED", "USED"}
      BY <3>1, <3>2 DEF ParentInv
    <3>6. state[q]' \notin {"UNUSED", "USED"} /\ q # initproc => parent[q]' # Null
      BY <3>1, <3>2 DEF ParentInv
    <3>7. CASE q = p
      <4>1. \A r \in Slots : r < pp[p] => parent[r]' # p
        BY <1>a, <1>e, <3>1 DEF ParentInv
      <4>2. pc[p]' = "exit_wake_parent" => \A r \in Slots : parent[r]' # p
        BY <3>4, <4>1, Zenon
      <4>3. \A r \in Slots : r < pp[p]' => parent[r]' # p
        BY <1>d, <4>1, Zenon
      <4> QED BY <3>3, <3>5, <3>6, <3>7, <4>2, <4>3, Zenon
    <3>8. CASE q # p
      BY <1>a, <3>1, <3>3, <3>5, <3>6, <3>8 DEF ParentInv
    <3> QED BY <3>7, <3>8, Zenon
  <2> QED BY <2>1, <2>2, <2>3, <2>4, Zenon DEF TreeInv
<1>4. WakeInv'
  <2> USE SchedAssumption, SlotFacts
  <2>1. \A r \in Slots : pc[r]' \in LkLabels => r = p
    BY <1>c, <1>e, Zenon
  <2>2. \A r \in Slots : ~(pc[r] = "exit_wake_init")
    BY <1>c, <1>e, Zenon
  <2>3. /\ state' = state /\ cur[p]' = 0 /\ \A r \in Slots : Dozing(r)' => Dozing(r)
        /\ pc[p]' \in OrphanLabels \cup {"exit_wake_parent"}
    BY <1>a, <1>e, Zenon DEF Dozing
  <2>4. pc[p]' = "exit_wake_parent" => parent[p]' \in Nat
    BY <1>b, <1>e, Zenon
  <2>5. ASSUME NEW q \in Slots, NEW r \in Slots, parent[q]' = r,
               pc[q]' = "exit_zombie" \/ (pc[q]' = "exit_wake_parent" /\ cur[q]' > r)
        PROVE  FALSE
    BY <2>1, <2>3, <2>4, <2>5
  <2>6. ASSUME NEW q \in Slots, NEW r \in Slots, parent[q]' = r, state[q]' = "ZOMBIE",
               Dozing(r)'
        PROVE  r = initproc /\ pc[p]' = "exit_wake_init"
    <3>1. parent[q] # r
      BY <2>2, <2>3, <2>6, Zenon DEF WakeInv
    <3> QED BY <1>e, <2>6, <3>1, Zenon
  <2> QED BY <2>1, <2>3, <2>5, <2>6, Zenon DEF WakeInv
<1> QED BY <1>1, <1>2, <1>3, <1>4, LockFrame, Zenon DEF IInv

\* The labels at which a thread spins for wait_lock.
SpinLabels == {"exit_wait_lock", "wait_lock", "sleep_reacquire", "fork_parent"}

\* A CPU that spins does so for a p->lock, or for wait_lock outside of it.
LEMMA SpinsFor ==
  ASSUME IInv, NEW c \in CPUS, NEW d \in CPUS, d \in WaitsFor(c)
  PROVE  \/ \E s \in Slots : plock[s] = d
         \/ d = lk /\ spc[c] = "run" /\ pc[cproc[c]] \in SpinLabels
<1> USE SchedAssumption, SlotFacts DEF IInv, LockInv, TreeInv
<1>1. CASE spc[c] = "scan"
  BY <1>1, Zenon DEF WaitsFor, TableType
<1>2. CASE spc[c] = "back"
  BY <1>2, Zenon DEF WaitsFor
<1>3. CASE spc[c] = "run"
  <2>1. PICK p \in Slots : p = cproc[c]
    BY <1>3, Zenon DEF CpuInv, TableType
  <2>2. cur[p] < NPROC => cur[p] \in Slots
    BY Zenon DEF TableType
  <2>3. pc[p] = "fork_runnable" => np[p] \in Slots
    BY Zenon DEF ForkInv, ForkLabels, At
  <2>4. (d = lk /\ pc[p] \in SpinLabels) \/ \E s \in Slots : plock[s] = d
    BY <1>3, <2>1, <2>2, <2>3, Zenon DEF WaitsFor, SpinLabels
  <2> QED BY <1>3, <2>1, <2>4, Zenon
<1> QED BY <1>1, <1>2, <1>3, Zenon DEF TableType

\* Who holds a p->lock spins for nothing.
LEMMA HolderRuns ==
  ASSUME IInv, NEW s \in Slots, plock[s] # NoCpu
  PROVE  \A d \in CPUS : d \notin WaitsFor(plock[s])
<1> DEFINE h == plock[s]
<1>1. h \in CPUS /\ cproc[h] = s /\ spc[h] \in {"run", "back"}
  BY SlotFacts DEF IInv, LockInv, PlockInv, CpuInv, TableType
<1>2. CASE spc[h] = "back"
  BY <1>2, Zenon DEF WaitsFor
<1>3. CASE spc[h] = "run"
  <2>1. pc[s] \in PLabels
    BY <1>3, Zenon DEF IInv, LockInv, PlockInv
  <2> QED BY <1>1, <1>3, <2>1, Zenon DEF WaitsFor, PLabels
<1> QED BY <1>1, <1>2, <1>3, Zenon

\* The end of exit()'s wakeup(p->parent).
LEMMA WakeParentDonePreserves ==
  ASSUME IInv, NEW c \in CPUS, NEW p \in Slots,
         WakeupDone(c, p, "exit_wake_parent", "exit_zombie"), UNCHANGED procVars
  PROVE  IInv'
<1>inv. /\ TableType /\ CpuInv /\ OneCpuPerProcess /\ PlockInv /\ LkInv /\ StateInv
        /\ CursorInv /\ InitInv /\ ForkInv /\ ParentInv /\ WakeInv
  BY Zenon DEF IInv, LockInv, TreeInv
<1> USE <1>inv DEF Exec, Labels, ProcStates, PLabels, LkLabels, FreeLabels, QuietLabels,
            ForkLabels, OrphanLabels, ZombieLabels, ChildlessLabels, ScanLabels
<1>e. /\ TableType'
      /\ Exec(c, p) /\ pc[p] = "exit_wake_parent" /\ cur[p] = NPROC
      /\ \A r \in Slots : cur[r]' = IF r = p THEN 0 ELSE cur[r]
      /\ \A r \in Slots : pc[r]' = IF r = p THEN "exit_zombie" ELSE pc[r]
      /\ UNCHANGED <<state, chan, plock, lk, cproc, spc, sp, saved, parent, np, pp>>
  BY SchedAssumption, SlotFacts DEF WakeupDone, Goto, procVars, TableType
<1>2. LockSteady
  BY <1>e, Zenon DEF LockSteady, QuietStep
<1>3. TreeSteady
  BY <1>e, Zenon DEF TreeSteady, At
<1>4. WakeInv'
  <2> USE SchedAssumption, SlotFacts
  <2>1. \A r \in Slots : pc[r] \in LkLabels => r = p
    BY <1>e, LkExclusive, Zenon
  <2>2. \A r \in Slots : pc[r] # "exit_wake_init"
    BY <1>e, <2>1, Zenon
  <2>3. state' = state /\ parent' = parent /\ \A r \in Slots : Dozing(r)' => Dozing(r)
    BY <1>e, Zenon DEF Dozing
  <2>4. \A r \in Slots : pc[r]' \in LkLabels => r = p /\ pc[r]' = "exit_zombie"
    BY <1>e, <2>1, Zenon
  <2>5. \A r \in Slots : parent[p] = r => ~Dozing(r)
    BY <1>e, Zenon DEF WakeInv
  <2> QED BY <2>2, <2>3, <2>4, <2>5, Zenon DEF WakeInv
<1> QED BY <1>e, <1>2, <1>3, <1>4, LockFrame, TreeFrame, Zenon DEF IInv

\* wait() takes wait_lock.
LEMMA WaitLockPreserves ==
  ASSUME IInv, NEW c \in CPUS, NEW p \in Slots, WaitLock(c, p)
  PROVE  IInv'
<1>inv. /\ TableType /\ CpuInv /\ OneCpuPerProcess /\ PlockInv /\ LkInv /\ StateInv
        /\ CursorInv /\ InitInv /\ ForkInv /\ ParentInv /\ WakeInv
  BY Zenon DEF IInv, LockInv, TreeInv
<1> USE <1>inv DEF Exec, Labels, ProcStates, PLabels, LkLabels, FreeLabels, QuietLabels,
            ForkLabels, OrphanLabels, ZombieLabels, ChildlessLabels, ScanLabels
<1>e. /\ TableType'
      /\ Exec(c, p) /\ pc[p] = "wait_lock" /\ lk = NoCpu
      /\ \A r \in Slots : pc[r]' = IF r = p THEN "wait_scan" ELSE pc[r]
      /\ lk' = c
      /\ UNCHANGED <<state, chan, plock, cproc, spc, sp, saved, cur, parent, np, pp>>
  BY SchedAssumption, SlotFacts, Zenon DEF WaitLock, AcquireLk, Goto, procVars, TableType
<1>2. TakesLk(c, p)
  BY <1>e, Zenon DEF TakesLk
<1>3. TreeSteady
  BY <1>e, Zenon DEF TreeSteady, At
<1>4. WakeInv'
  <2> USE SchedAssumption, SlotFacts
  <2>1. /\ cur[p] = 0 /\ \A r \in Slots : pc[r] \notin LkLabels
    BY <1>e, Zenon DEF CursorInv, LkInv, At
  <2>2. state' = state /\ parent' = parent /\ \A r \in Slots : Dozing(r)' => Dozing(r)
    BY <1>e, Zenon DEF Dozing
  <2>3. \A r \in Slots : pc[r]' \in LkLabels => pc[r]' = "wait_scan" /\ cur[r]' = 0
    BY <1>e, <2>1, Zenon
  <2>4. \A r, s \in Slots : state[s] = "ZOMBIE" /\ parent[s] = r => ~Dozing(r)
    BY <2>1, Zenon DEF WakeInv
  <2> QED BY <2>2, <2>3, <2>4 DEF WakeInv
<1> QED BY <1>e, <1>2, <1>3, <1>4, TakeFrame, TreeFrame, Zenon DEF IInv

\* wait() gives up or decides to sleep.
LEMMA WaitDecidePreserves ==
  ASSUME IInv, NEW c \in CPUS, NEW p \in Slots, WaitDecide(c, p)
  PROVE  IInv'
<1>inv. /\ TableType /\ CpuInv /\ OneCpuPerProcess /\ PlockInv /\ LkInv /\ StateInv
        /\ CursorInv /\ InitInv /\ ForkInv /\ ParentInv /\ WakeInv
  BY Zenon DEF IInv, LockInv, TreeInv
<1> USE <1>inv DEF Exec, Labels, ProcStates, PLabels, LkLabels, FreeLabels, QuietLabels,
            ForkLabels, OrphanLabels, ZombieLabels, ChildlessLabels, ScanLabels
<1>e. /\ TableType'
      /\ Exec(c, p) /\ pc[p] = "wait_decide"
      /\ \/ /\ lk' = NoCpu
            /\ \A r \in Slots : pc[r]' = IF r = p THEN "user" ELSE pc[r]
         \/ /\ lk' = lk
            /\ \A r \in Slots : pc[r]' = IF r = p THEN "sleep_acquire" ELSE pc[r]
      /\ UNCHANGED <<state, chan, plock, cproc, spc, sp, saved, cur, parent, np, pp>>
  BY SchedAssumption, SlotFacts DEF WaitDecide, Goto, TableType
<1>2. LockSteady \/ ReleasesLk(c, p)
  BY <1>e, Zenon DEF LockSteady, QuietStep, ReleasesLk
<1>3. TreeSteady
  BY <1>e DEF TreeSteady, At, CursorInv
<1>4. WakeInv'
  BY <1>e, SlotFacts DEF WakeInv, Dozing
<1> QED BY <1>e, <1>2, <1>3, <1>4, LockFrame, ReleaseFrame, TreeFrame, Zenon DEF IInv

\* wait() cannot deliver the exit status.
LEMMA WaitCopyoutFailsPreserves ==
  ASSUME IInv, NEW c \in CPUS, NEW p \in Slots, WaitCopyoutFails(c, p)
  PROVE  IInv'
<1>inv. /\ TableType /\ CpuInv /\ OneCpuPerProcess /\ PlockInv /\ LkInv /\ StateInv
        /\ CursorInv /\ InitInv /\ ForkInv /\ ParentInv /\ WakeInv
  BY Zenon DEF IInv, LockInv, TreeInv
<1> USE <1>inv DEF Exec, Labels, ProcStates, PLabels, LkLabels, FreeLabels, QuietLabels,
            ForkLabels, OrphanLabels, ZombieLabels, ChildlessLabels, ScanLabels
<1>e. /\ TableType'
      /\ Exec(c, p) /\ pc[p] = "wait_scan" /\ p # initproc
      /\ \A r \in Slots : pc[r]' = IF r = p THEN "user" ELSE pc[r]
      /\ \A r \in Slots : cur[r]' = IF r = p THEN 0 ELSE cur[r]
      /\ lk' = NoCpu
      /\ UNCHANGED <<state, chan, plock, cproc, spc, sp, saved, parent, np, pp>>
  BY SchedAssumption, SlotFacts DEF WaitCopyoutFails, Goto, TableType
<1>2. ReleasesLk(c, p)
  BY <1>e, Zenon DEF ReleasesLk, QuietStep
<1>3. TreeSteady
  BY <1>e, Zenon DEF TreeSteady, At
<1>4. WakeSteady
  BY <1>e, Zenon DEF WakeSteady, WakeLabels, Dozing
<1> QED BY <1>e, <1>2, <1>3, <1>4, ReleaseFrame, TreeFrame, WakeFrame, Zenon DEF IInv

\* exit() releases wait_lock.
LEMMA ExitReleasePreserves ==
  ASSUME IInv, NEW c \in CPUS, NEW p \in Slots, ExitRelease(c, p)
  PROVE  IInv'
<1>inv. /\ TableType /\ CpuInv /\ OneCpuPerProcess /\ PlockInv /\ LkInv /\ StateInv
        /\ CursorInv /\ InitInv /\ ForkInv /\ ParentInv /\ WakeInv
  BY Zenon DEF IInv, LockInv, TreeInv
<1> USE <1>inv DEF Exec, Labels, ProcStates, PLabels, LkLabels, FreeLabels, QuietLabels,
            ForkLabels, OrphanLabels, ZombieLabels, ChildlessLabels, ScanLabels
<1>e. /\ TableType'
      /\ Exec(c, p) /\ pc[p] = "exit_release"
      /\ \A r \in Slots : pc[r]' = IF r = p THEN "exit_sched" ELSE pc[r]
      /\ lk' = NoCpu
      /\ UNCHANGED <<state, chan, plock, cproc, spc, sp, saved, cur, parent, np, pp>>
  BY SchedAssumption, SlotFacts, Zenon DEF ExitRelease, Goto, procVars, TableType
<1>2. LockInv'
  <2>1. CpuInv' /\ OneCpuPerProcess'
    BY <1>e, Zenon DEF CpuInv, OneCpuPerProcess
  <2>2. PlockInv'
    BY <1>e DEF PlockInv
  <2>3. LkInv'
    BY <1>e, Zenon DEF LkInv
  <2>4. StateInv'
    BY <1>e DEF StateInv, StateOf
  <2> QED BY <2>1, <2>2, <2>3, <2>4, Zenon DEF LockInv
<1>3. TreeSteady
  BY <1>e, Zenon DEF TreeSteady, At, CursorInv
<1>4. WakeSteady
  BY <1>e, Zenon DEF WakeSteady, WakeLabels, Dozing
<1> QED BY <1>e, <1>2, <1>3, <1>4, TreeFrame, WakeFrame, Zenon DEF IInv

\* exit() leaves for the scheduler.
LEMMA ExitSchedPreserves ==
  ASSUME IInv, NEW c \in CPUS, NEW p \in Slots, ExitSched(c, p)
  PROVE  IInv'
<1>inv. /\ TableType /\ CpuInv /\ OneCpuPerProcess /\ PlockInv /\ LkInv /\ StateInv
        /\ CursorInv /\ InitInv /\ ForkInv /\ ParentInv /\ WakeInv
  BY Zenon DEF IInv, LockInv, TreeInv
<1> USE <1>inv DEF Exec, Labels, ProcStates, PLabels, LkLabels, FreeLabels, QuietLabels,
            ForkLabels, OrphanLabels, ZombieLabels, ChildlessLabels, ScanLabels
<1>e. /\ TableType'
      /\ Exec(c, p) /\ pc[p] = "exit_sched"
      /\ \A d \in CPUS : spc[d]' = IF d = c THEN "back" ELSE spc[d]
      /\ \A r \in Slots : pc[r]' = IF r = p THEN "exited" ELSE pc[r]
      /\ UNCHANGED <<state, chan, plock, lk, cproc, sp, saved, cur, parent, np, pp>>
  BY SchedAssumption, SlotFacts, Zenon DEF ExitSched, Swtch, Goto, procVars, TableType
<1>2. LockInv'
  <2>1. CpuInv'
    BY <1>e, Zenon DEF CpuInv
  <2>2. OneCpuPerProcess'
    BY <1>e, Zenon DEF OneCpuPerProcess
  <2>3. PlockInv'
    BY <1>e, TableFacts DEF PlockInv
  <2>4. LkInv'
    BY <1>e, TableFacts, Zenon DEF LkInv, CpuInv
  <2>5. StateInv'
    BY <1>e, TableFacts DEF StateInv, StateOf, OneCpuPerProcess
  <2> QED BY <2>1, <2>2, <2>3, <2>4, <2>5, Zenon DEF LockInv
<1>3. TreeSteady
  BY <1>e DEF TreeSteady, At, CursorInv
<1>4. WakeSteady
  BY <1>e, Zenon DEF WakeSteady, WakeLabels, Dozing
<1> QED BY <1>e, <1>2, <1>3, <1>4, TreeFrame, WakeFrame, Zenon DEF IInv

\* A step that changes nothing preserves the invariant.
LEMMA StutterPreserves ==
  ASSUME IInv, UNCHANGED vars
  PROVE  IInv'
<1>1. TableType'
  BY Zenon DEF IInv, TableType, vars, schedVars, procVars
<1>2. LockSteady
  BY Zenon DEF LockSteady, QuietStep, vars, schedVars, procVars
<1>3. TreeSteady
  BY Zenon DEF TreeSteady, At, vars, schedVars, procVars
<1>4. WakeSteady
  BY Zenon DEF WakeSteady, Dozing, vars, schedVars, procVars
<1> QED BY <1>1, <1>2, <1>3, <1>4, LockFrame, TreeFrame, WakeFrame, Zenon DEF IInv

\* Every step of scheduler(), and of a kernel thread, preserves the invariant.
LEMMA NextPreserves ==
  ASSUME IInv, [Next]_vars
  PROVE  IInv'
<1>1. ASSUME NEW c \in CPUS, Scheduler(c)
      PROVE  IInv'
  BY <1>1, SchedRunPreserves, SchedSkipPreserves, SchedBackPreserves, Zenon DEF Scheduler
<1>2. ASSUME NEW c \in CPUS, NEW p \in Slots, Thread(c, p)
      PROVE  IInv'
  <2>1. CASE Forkret(c, p) \/ TrapKilled(c, p) \/ Syscall(c, p)
    BY <2>1, ForkretPreserves, TrapKilledPreserves, SyscallPreserves, Zenon
  <2>2. CASE Fork(c, p)
    BY <2>2, ForkScanPreserves, ForkAllocPreserves, ForkAllocFailsPreserves,
       ForkParentPreserves, ForkRunnablePreserves, Zenon DEF Fork
  <2>3. CASE ExitWakeInit(c, p) \/ ExitWakeParent(c, p)
    BY <2>3, WakeInitStepPreserves, WakeInitDonePreserves, WakeParentStepPreserves,
       WakeParentDonePreserves, Zenon DEF ExitWakeInit, ExitWakeParent
  <2>4. CASE Exit(c, p)
    BY <2>3, <2>4, ExitWaitLockPreserves, ReparentPreserves, ExitZombiePreserves,
       ExitReleasePreserves, ExitSchedPreserves, Zenon DEF Exit
  <2>5. CASE WaitSleep(c, p)
    BY <2>5, SleepAcquirePreserves, SleepReleasePreserves, SleepSchedPreserves,
       SleepReturnPreserves, ReacquirePreserves, Zenon DEF WaitSleep
  <2>6. CASE Wait(c, p)
    BY <2>5, <2>6, WaitLockPreserves, WaitScanPreserves, WaitReapPreserves,
       WaitCopyoutFailsPreserves, WaitDecidePreserves, Zenon DEF Wait
  <2>7. CASE Kill(c, p)
    BY <2>7, KillScanPreserves, KillFoundPreserves, Zenon DEF Kill
  <2>8. CASE Preempt(c, p)
    BY <2>8, YieldPreserves, YieldReturnPreserves, Zenon DEF Preempt
  <2> QED BY <1>2, <2>1, <2>2, <2>4, <2>6, <2>7, <2>8, Zenon DEF Thread
<1> QED BY <1>1, <1>2, StutterPreserves, Zenon DEF Next

\* The invariant holds when userinit() has made the first process.
LEMMA InitHolds == Init => IInv
<1> SUFFICES ASSUME Init PROVE IInv
  BY Zenon
<1> USE SchedAssumption, SlotFacts
<1> USE DEF Init, Exec, Labels, ProcStates, PLabels, LkLabels, FreeLabels, ForkLabels,
            OrphanLabels, ZombieLabels, ChildlessLabels, ScanLabels
<1>1. TableType
  BY DEF TableType, initproc
<1>2. CpuInv /\ OneCpuPerProcess
  BY Zenon DEF CpuInv, OneCpuPerProcess
<1>3. PlockInv /\ LkInv
  BY Zenon DEF PlockInv, LkInv
<1>4. StateInv
  BY Zenon DEF StateInv, StateOf
<1>5. CursorInv /\ InitInv
  BY Zenon DEF CursorInv, InitInv, At
<1>6. ForkInv
  BY Zenon DEF ForkInv, At
<1>7. ParentInv
  BY Zenon DEF ParentInv
<1>8. WakeInv
  BY Zenon DEF WakeInv, Dozing
<1> QED BY <1>1, <1>2, <1>3, <1>4, <1>5, <1>6, <1>7, <1>8, Zenon DEF IInv, LockInv, TreeInv

\* The process table, its locks and the threads stay consistent.
THEOREM Invariance == Spec => []IInv
  BY InitHolds, NextPreserves, PTL DEF Spec

\* A kernel stack is in use on one CPU at most, whatever fork(), exit(), wait()
\* and kill() do.
THEOREM OneCpu == Spec => []OneCpuPerProcess
<1>1. IInv => OneCpuPerProcess
  BY Zenon DEF IInv, LockInv
<1> QED BY <1>1, Invariance, PTL

\* Whoever takes the lock of a process that is not RUNNING may rely on no CPU
\* being on its stack: what wait() relies on when it frees a ZOMBIE.
THEOREM LockCoversStack == Spec => []FreeLockMeansOffCpu
<1>1. IInv => FreeLockMeansOffCpu
  BY OffCpu, Zenon DEF FreeLockMeansOffCpu
<1> QED BY <1>1, Invariance, PTL

\* The panics of sched() are never reached from yield(), sleep() or exit().
THEOREM SchedSound == Spec => []SchedNeverPanics
<1>1. ASSUME IInv PROVE SchedNeverPanics
  <2> SUFFICES ASSUME NEW c \in CPUS, spc[c] = "back"
               PROVE  /\ cproc[c] \in Slots /\ plock[cproc[c]] = c /\ lk # c
                      /\ \A q \in Slots : plock[q] = c => q = cproc[c]
                      /\ state[cproc[c]] # "RUNNING"
    BY Zenon DEF SchedNeverPanics
  <2>1. cproc[c] \in Slots
    BY <1>1, Zenon DEF IInv, LockInv, CpuInv, TableType
  <2>2. plock[cproc[c]] = c /\ \A q \in Slots : plock[q] = c => q = cproc[c]
    BY <1>1, <2>1, SchedAssumption, Zenon DEF IInv, LockInv, PlockInv
  <2>3. lk # c
    BY <1>1, SchedAssumption, Zenon DEF IInv, LockInv, LkInv
  <2>4. state[cproc[c]] # "RUNNING"
    BY <1>1, <2>1, Zenon DEF IInv, LockInv, StateInv, StateOf
  <2> QED BY <2>1, <2>2, <2>3, <2>4, Zenon
<1> QED BY <1>1, Invariance, PTL

\* fork() finds the child it is building untouched each time it takes a lock
\* again.
THEOREM ForkSafe == Spec => []ForkKeepsChild
<1>1. IInv => ForkKeepsChild
  BY SlotFacts, Zenon DEF IInv, TreeInv, ForkInv, ForkKeepsChild, ForkLabels
<1> QED BY <1>1, Invariance, PTL

\* Every started process has a living parent, in the middle of exit()'s
\* reparent() too.
THEOREM ParentsLive == Spec => []ParentAlive
<1>1. ASSUME IInv PROVE ParentAlive
  <2> SUFFICES ASSUME NEW q \in Slots \ {initproc}, state[q] \notin {"UNUSED", "USED"}
               PROVE  /\ parent[q] \in Slots \ {q}
                      /\ state[parent[q]] \notin {"UNUSED", "USED", "ZOMBIE"}
    BY Zenon DEF ParentAlive
  <2>1. parent[q] \in Slots /\ parent[q] # q /\ state[parent[q]] \notin {"UNUSED", "USED"}
    BY <1>1, Zenon DEF IInv, TreeInv, ParentInv, TableType
  <2>2. pc[parent[q]] \notin ZombieLabels
    BY <1>1, <2>1, Zenon DEF IInv, TreeInv, ParentInv, ChildlessLabels
  <2> QED BY <1>1, <2>1, <2>2, Zenon DEF IInv, LockInv, StateInv, StateOf
<1> QED BY <1>1, Invariance, PTL

\* No wakeup is lost between exit() and wait(): outside wait_lock nobody sleeps
\* over an exited child.
THEOREM NoLostExit == Spec => []NoZombieForSleeper
<1>1. ASSUME IInv PROVE NoZombieForSleeper
  <2> SUFFICES ASSUME lk = NoCpu, NEW p \in Slots, NEW q \in Slots,
                      state[q] = "ZOMBIE", parent[q] = p
               PROVE  state[p] # "SLEEPING"
    BY Zenon DEF NoZombieForSleeper
  <2>1. \A r \in Slots : pc[r] # "exit_wake_init"
    BY <1>1, Zenon DEF IInv, LockInv, LkInv, LkLabels
  <2> QED BY <1>1, <2>1, Zenon DEF IInv, WakeInv, Dozing
<1> QED BY <1>1, Invariance, PTL

\* No CPUs spin for each other's locks in a circle: wait_lock is taken before
\* any p->lock, and a p->lock is the last lock a CPU takes.
THEOREM NoDeadlock == Spec => []NoSpinDeadlock
<1>1. ASSUME IInv PROVE NoSpinDeadlock
  <2> SUFFICES ASSUME NEW S \in SUBSET CPUS, S # {},
                      \A c \in S : \E d \in S : d \in WaitsFor(c)
               PROVE  FALSE
    BY Zenon DEF NoSpinDeadlock
  <2>1. \A d \in S, s \in Slots : plock[s] # d
    BY <1>1, HolderRuns, SchedAssumption, Zenon
  <2>2. PICK c \in S, d \in S : d \in WaitsFor(c)
    BY Zenon
  <2>3. d = lk
    BY <1>1, <2>1, <2>2, SpinsFor, Zenon
  <2>4. PICK e \in S : e \in WaitsFor(d)
    BY Zenon
  <2>5. pc[cproc[d]] \in SpinLabels
    BY <1>1, <2>1, <2>4, SpinsFor, Zenon
  <2>6. pc[cproc[d]] \in LkLabels
    BY <1>1, <2>3, SchedAssumption, Zenon DEF IInv, LockInv, LkInv
  <2> QED BY <2>5, <2>6, Zenon DEF SpinLabels, LkLabels
<1> QED BY <1>1, Invariance, PTL

=============================================================================
