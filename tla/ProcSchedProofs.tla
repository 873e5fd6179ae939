-------------------------- MODULE ProcSchedProofs ---------------------------
(***************************************************************************)
(* The invariant of ProcInvariant: facts and frames that all proofs use,   *)
(* and the steps of the scheduler, of sleep(), yield() and kill(), of the  *)
(* way in and out of the kernel, and of exit() without its wakeups.        *)
(***************************************************************************)
EXTENDS ProcInvariant, TLAPS

\* Slots are numbers below NPROC; initproc is one of them and Null is not.
LEMMA SlotFacts ==
  /\ Null \notin Slots /\ initproc \in Slots
  /\ \A s \in Slots : s \in Nat /\ s < NPROC /\ NextSlot(s) \in Slots
  /\ \A k \in 0 .. NPROC : k \in Nat /\ (k < NPROC => k \in Slots /\ k + 1 \in 0 .. NPROC)
  BY SchedAssumption DEF Slots, Null, initproc, NextSlot

\* The pointers and lock owners of a well-typed table, and the special values.
LEMMA TableFacts ==
  ASSUME TableType
  PROVE  /\ NoCpu \notin CPUS /\ Null \notin Slots /\ initproc \in Slots
         /\ lk \in CPUS \cup {NoCpu}
         /\ \A d \in CPUS : sp[d] \in Slots /\ cproc[d] \in Slots \cup {Null}
         /\ \A r \in Slots : /\ plock[r] \in CPUS \cup {NoCpu}
                             /\ parent[r] \in Slots \cup {Null}
                             /\ np[r] \in Slots \cup {Null}
  BY SchedAssumption, SlotFacts, Zenon DEF TableType

\* wait_lock excludes: one thread is at a label inside it.
LEMMA LkExclusive ==
  ASSUME IInv, NEW p \in Slots, pc[p] \in LkLabels
  PROVE  \A q \in Slots : pc[q] \in LkLabels => q = p
  BY Zenon DEF IInv, LockInv, LkInv, Exec

\* A process without a CPU's stack in use and not RUNNING is on no CPU.
LEMMA OffCpu ==
  ASSUME IInv, NEW q \in Slots, plock[q] = NoCpu, state[q] # "RUNNING"
  PROVE  \A d \in CPUS : cproc[d] # q
<1> SUFFICES ASSUME NEW d \in CPUS, cproc[d] = q
             PROVE  FALSE
  BY Zenon
<1> USE SchedAssumption, SlotFacts DEF IInv, LockInv
<1>1. CASE spc[d] = "scan"
  BY <1>1, Zenon DEF CpuInv
<1>2. CASE spc[d] = "back"
  BY <1>2, Zenon DEF PlockInv
<1>3. CASE spc[d] = "run"
  <2>1. state[q] = "ZOMBIE" /\ pc[q] # "exited"
    BY <1>3, Zenon DEF StateInv, Exec
  <2>2. pc[q] \in {"exit_release", "exit_sched"}
    BY <2>1, Zenon DEF StateInv, StateOf, ZombieLabels
  <2> QED BY <2>2 DEF PlockInv, PLabels
<1> QED BY <1>1, <1>2, <1>3, Zenon DEF TableType

\* A step that does not concern WakeInv preserves it.
LEMMA WakeFrame ==
  ASSUME TableType, WakeInv, WakeSteady
  PROVE  WakeInv'
<1> USE SlotFacts DEF WakeSteady, WakeLabels
<1>1. ASSUME NEW p \in Slots, NEW q \in Slots, parent[q]' = p,
             pc[q]' = "exit_zombie" \/ (pc[q]' = "exit_wake_parent" /\ cur[q]' > p)
      PROVE  ~Dozing(p)'
  BY <1>1 DEF WakeInv
<1>2. ASSUME NEW p \in Slots, NEW q \in Slots, state[q]' = "ZOMBIE", parent[q]' = p
      PROVE  /\ Dozing(p)' => /\ p = initproc
                              /\ \E r \in Slots : pc[r]' = "exit_wake_init" /\ cur[r]' = 0
             /\ pc[p]' \notin {"wait_decide", "sleep_acquire", "sleep_release"}
             /\ pc[p]' = "wait_scan" => cur[p]' <= q
  <2>1. state[q] = "ZOMBIE" /\ parent[q] = p
    BY <1>2, Zenon
  <2>2. Dozing(p)' => /\ p = initproc
                     /\ \E r \in Slots : pc[r]' = "exit_wake_init" /\ cur[r]' = 0
    BY <2>1, Zenon DEF WakeInv
  <2> QED BY <2>1, <2>2 DEF WakeInv
<1> QED BY <1>1, <1>2, Zenon DEF WakeInv

\* A step that takes or gives no lock keeps the locks and states consistent.
LEMMA LockFrame ==
  ASSUME TableType, LockInv, LockSteady
  PROVE  LockInv'
<1> USE SchedAssumption, SlotFacts
<1> USE DEF LockInv, LockSteady, QuietStep, OffCpuStep, Exec, FreeLabels, QuietLabels, PLabels,
            LkLabels
<1>1. CpuInv' /\ OneCpuPerProcess'
  BY Zenon DEF CpuInv, OneCpuPerProcess
<1>2. PlockInv'
  BY DEF PlockInv
<1>3. LkInv'
  BY Zenon DEF LkInv, CpuInv, TableType
<1>4. ASSUME NEW r \in Slots
      PROVE  StateOf(r)'
  BY DEF StateInv, StateOf, ZombieLabels
<1>5. ASSUME NEW d \in CPUS, NEW r \in Slots
      PROVE  /\ Exec(d, r)' => state[r]' \in {"RUNNING", "ZOMBIE"} /\ pc[r]' # "exited"
             /\ spc[d]' = "back" /\ cproc[d]' = r =>
                  state[r]' # "RUNNING" /\ pc[r]' \in {"yield", "sleep_return", "exited"}
  BY Zenon DEF StateInv
<1>6. StateInv'
  BY <1>4, <1>5, Zenon DEF StateInv
<1> QED BY <1>1, <1>2, <1>3, <1>6, Zenon

\* So does acquire(&wait_lock),
LEMMA TakeFrame ==
  ASSUME TableType, LockInv, NEW c \in CPUS, NEW p \in Slots, TakesLk(c, p)
  PROVE  LockInv'
<1> USE SchedAssumption, SlotFacts
<1> USE DEF LockInv, TakesLk, Exec, FreeLabels, QuietLabels, PLabels, LkLabels
<1>1. CpuInv' /\ OneCpuPerProcess'
  BY Zenon DEF CpuInv, OneCpuPerProcess
<1>2. PlockInv'
  BY DEF PlockInv
<1>3. LkInv'
  BY Zenon DEF LkInv, TableType
<1>4. StateInv'
  BY DEF StateInv, StateOf, ZombieLabels
<1> QED BY <1>1, <1>2, <1>3, <1>4, Zenon

\* and release(&wait_lock).
LEMMA ReleaseFrame ==
  ASSUME TableType, LockInv, NEW c \in CPUS, NEW p \in Slots, ReleasesLk(c, p)
  PROVE  LockInv'
<1> USE SchedAssumption, SlotFacts
<1> USE DEF LockInv, ReleasesLk, QuietStep, OffCpuStep, Exec, FreeLabels, QuietLabels, PLabels,
            LkLabels
<1>1. CpuInv' /\ OneCpuPerProcess'
  BY Zenon DEF CpuInv, OneCpuPerProcess
<1>2. PlockInv'
  BY DEF PlockInv
<1>3. LkInv'
  BY DEF LkInv, TableType
<1>4. ASSUME NEW r \in Slots
      PROVE  StateOf(r)'
  BY DEF StateInv, StateOf, ZombieLabels
<1>5. ASSUME NEW d \in CPUS, NEW r \in Slots
      PROVE  /\ Exec(d, r)' => state[r]' \in {"RUNNING", "ZOMBIE"} /\ pc[r]' # "exited"
             /\ spc[d]' = "back" /\ cproc[d]' = r =>
                  state[r]' # "RUNNING" /\ pc[r]' \in {"yield", "sleep_return", "exited"}
  BY DEF StateInv
<1>6. StateInv'
  BY <1>4, <1>5, Zenon DEF StateInv
<1> QED BY <1>1, <1>2, <1>3, <1>6, Zenon

\* A step that nobody is born, dies or changes parent in keeps the tree.
LEMMA TreeFrame ==
  ASSUME TableType, TreeInv, TreeSteady
  PROVE  TreeInv'
<1> USE SlotFacts
<1> USE DEF TreeInv, TreeSteady
<1>1. CursorInv'
  BY Zenon DEF CursorInv
<1>2. InitInv'
  BY Zenon DEF InitInv
<1>3. ForkInv'
  BY DEF ForkInv, TableType
<1>4. ParentInv'
  BY DEF ParentInv, TableType
<1> QED BY <1>1, <1>2, <1>3, <1>4, Zenon

\* scheduler() switches to a RUNNABLE process.
LEMMA SchedRunPreserves ==
  ASSUME IInv, NEW c \in CPUS, SchedRun(c), UNCHANGED procVars
  PROVE  IInv'
<1>inv. /\ TableType /\ CpuInv /\ OneCpuPerProcess /\ PlockInv /\ LkInv /\ StateInv
        /\ CursorInv /\ InitInv /\ ForkInv /\ ParentInv /\ WakeInv
  BY Zenon DEF IInv, LockInv, TreeInv
<1> USE <1>inv DEF Exec, Labels, ProcStates, PLabels, LkLabels, FreeLabels, QuietLabels,
            ForkLabels, OrphanLabels, ZombieLabels, ChildlessLabels, ScanLabels
<1>q. PICK s \in Slots : s = sp[c]
  BY SchedAssumption, SlotFacts, Zenon DEF SchedRun, procVars, TableType
<1>e. /\ TableType'
      /\ spc[c] = "scan" /\ plock[s] = NoCpu /\ state[s] = "RUNNABLE"
      /\ \A r \in Slots : state[r]' = IF r = s THEN "RUNNING" ELSE state[r]
      /\ \A d \in CPUS : cproc[d]' = IF d = c THEN s ELSE cproc[d]
      /\ \A r \in Slots : plock[r]' = IF r = s THEN c ELSE plock[r]
      /\ \A d \in CPUS : spc[d]' = IF d = c THEN "run" ELSE spc[d]
      /\ UNCHANGED <<chan, lk, sp, pc, saved, cur, parent, np, pp>>
  BY SchedAssumption, SlotFacts, <1>q, Zenon DEF SchedRun, procVars, TableType
<1>2. LockInv'
  <2>1. CpuInv'
    BY <1>e, SchedAssumption, SlotFacts, <1>q DEF TableType, StateInv, StateOf, CpuInv
  <2>2. OneCpuPerProcess'
    BY <1>e, TableFacts DEF OneCpuPerProcess, StateInv, StateOf, PlockInv
  <2>3. PlockInv'
    <3>1. \A d \in CPUS : cproc[d] # s
      BY <1>e, OffCpu, Zenon
    <3> QED BY <1>e, <3>1, SchedAssumption, SlotFacts DEF PlockInv, StateInv, StateOf,
               CpuInv, TableType
  <2>4. LkInv'
    BY <1>e, TableFacts DEF LkInv
  <2>5. StateInv'
    BY <1>e, TableFacts DEF StateInv, StateOf, PlockInv
  <2> QED BY <2>1, <2>2, <2>3, <2>4, <2>5, Zenon DEF LockInv
<1>3. TreeSteady
  BY <1>e, Zenon DEF TreeSteady, At
<1>4. WakeSteady
  BY <1>e, Zenon DEF WakeSteady, WakeLabels, Dozing
<1> QED BY <1>e, <1>2, <1>3, <1>4, TreeFrame, WakeFrame, Zenon DEF IInv

\* yield() up to its sched().
LEMMA YieldPreserves ==
  ASSUME IInv, NEW c \in CPUS, NEW p \in Slots, Yield(c, p), UNCHANGED procVars
  PROVE  IInv'
<1>inv. /\ TableType /\ CpuInv /\ OneCpuPerProcess /\ PlockInv /\ LkInv /\ StateInv
        /\ CursorInv /\ InitInv /\ ForkInv /\ ParentInv /\ WakeInv
  BY Zenon DEF IInv, LockInv, TreeInv
<1> USE <1>inv DEF Exec, Labels, ProcStates, PLabels, LkLabels, FreeLabels, QuietLabels,
            ForkLabels, OrphanLabels, ZombieLabels, ChildlessLabels, ScanLabels
<1>e. /\ TableType'
      /\ Exec(c, p) /\ lk # c /\ plock[p] = NoCpu
      /\ \A r \in Slots : plock[r]' = IF r = p THEN c ELSE plock[r]
      /\ \A r \in Slots : state[r]' = IF r = p THEN "RUNNABLE" ELSE state[r]
      /\ \A r \in Slots : saved[r]' = IF r = p THEN pc[p] ELSE saved[r]
      /\ \A d \in CPUS : spc[d]' = IF d = c THEN "back" ELSE spc[d]
      /\ \A r \in Slots : pc[r]' = IF r = p THEN "yield" ELSE pc[r]
      /\ UNCHANGED <<chan, lk, cproc, sp, cur, parent, np, pp>>
  BY SchedAssumption, SlotFacts, Zenon DEF Yield, HoldsNone, Swtch, Goto, procVars,
     TableType
<1>f. pc[p] \in FreeLabels
  <2>1. pc[p] \notin PLabels
    BY <1>e, SchedAssumption DEF PlockInv
  <2>2. pc[p] \notin LkLabels
    BY <1>e, SlotFacts DEF LkInv, OneCpuPerProcess, TableType
  <2>3. pc[p] \notin {"none", "exited"}
    BY <1>e, Zenon DEF StateInv, StateOf
  <2> QED BY <2>1, <2>2, <2>3, Zenon DEF TableType
<1>2. LockInv'
  <2>1. CpuInv'
    BY <1>e, <1>f, Zenon DEF CpuInv
  <2>2. OneCpuPerProcess'
    BY <1>e, <1>f, Zenon DEF OneCpuPerProcess
  <2>3. PlockInv'
    BY <1>e, <1>f, TableFacts DEF PlockInv, OneCpuPerProcess
  <2>4. LkInv'
    BY <1>e, <1>f, TableFacts DEF LkInv, CpuInv
  <2>5. StateInv'
    BY <1>e, <1>f, TableFacts DEF StateInv, StateOf, OneCpuPerProcess
  <2> QED BY <2>1, <2>2, <2>3, <2>4, <2>5, Zenon DEF LockInv
<1>3. TreeSteady
  BY <1>e, <1>f DEF TreeSteady, At, StateInv, StateOf
<1>4. WakeSteady
  BY <1>e, <1>f, Zenon DEF WakeSteady, WakeLabels, Dozing
<1> QED BY <1>e, <1>2, <1>3, <1>4, TreeFrame, WakeFrame, Zenon DEF IInv

\* kill() marks its victim.
LEMMA KillFoundPreserves ==
  ASSUME IInv, NEW c \in CPUS, NEW p \in Slots, KillFound(c, p)
  PROVE  IInv'
<1>inv. /\ TableType /\ CpuInv /\ OneCpuPerProcess /\ PlockInv /\ LkInv /\ StateInv
        /\ CursorInv /\ InitInv /\ ForkInv /\ ParentInv /\ WakeInv
  BY Zenon DEF IInv, LockInv, TreeInv
<1> USE <1>inv DEF Exec, Labels, ProcStates, PLabels, LkLabels, FreeLabels, QuietLabels,
            ForkLabels, OrphanLabels, ZombieLabels, ChildlessLabels, ScanLabels
<1>q. PICK q \in Slots : q = cur[p]
  BY SchedAssumption, SlotFacts, Zenon DEF KillFound, MarkKilled, Goto, TableType
<1>e. /\ Exec(c, p) /\ pc[p] = "kill_scan" /\ plock[q] = NoCpu
      /\ \A r \in Slots :
           state[r]' = IF r = q
                       THEN (IF state[q] = "SLEEPING" THEN "RUNNABLE" ELSE state[q])
                       ELSE state[r]
      /\ \A r \in Slots : cur[r]' = IF r = p THEN 0 ELSE cur[r]
      /\ \A r \in Slots : pc[r]' = IF r = p THEN "user" ELSE pc[r]
      /\ UNCHANGED <<chan, plock, lk, cproc, spc, sp, saved, parent, np, pp>>
  BY SchedAssumption, SlotFacts, <1>q, Zenon DEF KillFound, MarkKilled, Goto, TableType
<1>1. TableType'
  BY SchedAssumption, SlotFacts DEF KillFound, MarkKilled, Goto, TableType
<1>2. LockSteady
  BY <1>e, OffCpu DEF LockSteady, QuietStep, OffCpuStep, StateOf, StateInv
<1>3. TreeSteady
  BY <1>e, Zenon DEF TreeSteady, At
<1>4. WakeSteady
  BY <1>e, Zenon DEF WakeSteady, WakeLabels, Dozing
<1> QED BY <1>1, <1>2, <1>3, <1>4, LockFrame, TreeFrame, WakeFrame, Zenon DEF IInv

\* kill() passes a slot with another pid, or gives up.
LEMMA KillScanPreserves ==
  ASSUME IInv, NEW c \in CPUS, NEW p \in Slots, KillScan(c, p)
  PROVE  IInv'
<1>inv. /\ TableType /\ CpuInv /\ OneCpuPerProcess /\ PlockInv /\ LkInv /\ StateInv
        /\ CursorInv /\ InitInv /\ ForkInv /\ ParentInv /\ WakeInv
  BY Zenon DEF IInv, LockInv, TreeInv
<1> USE <1>inv DEF Exec, Labels, ProcStates, PLabels, LkLabels, FreeLabels, QuietLabels,
            ForkLabels, OrphanLabels, ZombieLabels, ChildlessLabels, ScanLabels
<1>e. /\ TableType'
      /\ Exec(c, p) /\ pc[p] = "kill_scan"
      /\ \/ /\ \A r \in Slots : pc[r]' = IF r = p THEN "user" ELSE pc[r]
            /\ \A r \in Slots : cur[r]' = IF r = p THEN 0 ELSE cur[r]
         \/ /\ pc' = pc
            /\ \A r \in Slots \ {p} : cur[r]' = cur[r]
      /\ UNCHANGED <<state, chan, plock, lk, cproc, spc, sp, saved, parent, np, pp>>
  BY SchedAssumption, SlotFacts DEF KillScan, Goto, TableType
<1>2. LockSteady
  BY <1>e, Zenon DEF LockSteady, QuietStep
<1>3. TreeSteady
  BY <1>e DEF TreeSteady, At
<1>4. WakeSteady
  BY <1>e, Zenon DEF WakeSteady, WakeLabels, Dozing
<1> QED BY <1>e, <1>2, <1>3, <1>4, LockFrame, TreeFrame, WakeFrame, Zenon DEF IInv

\* The rest of yield().
LEMMA YieldReturnPreserves ==
  ASSUME IInv, NEW c \in CPUS, NEW p \in Slots, YieldReturn(c, p), UNCHANGED procVars
  PROVE  IInv'
<1>inv. /\ TableType /\ CpuInv /\ OneCpuPerProcess /\ PlockInv /\ LkInv /\ StateInv
        /\ CursorInv /\ InitInv /\ ForkInv /\ ParentInv /\ WakeInv
  BY Zenon DEF IInv, LockInv, TreeInv
<1> USE <1>inv DEF Exec, Labels, ProcStates, PLabels, LkLabels, FreeLabels, QuietLabels,
            ForkLabels, OrphanLabels, ZombieLabels, ChildlessLabels, ScanLabels
<1>e. /\ TableType'
      /\ Exec(c, p) /\ pc[p] = "yield" /\ saved[p] \in FreeLabels
      /\ \A r \in Slots : plock[r]' = IF r = p THEN NoCpu ELSE plock[r]
      /\ \A r \in Slots : pc[r]' = IF r = p THEN saved[p] ELSE pc[r]
      /\ \A r \in Slots : saved[r]' = IF r = p THEN "none" ELSE saved[r]
      /\ UNCHANGED <<state, chan, lk, cproc, spc, sp, cur, parent, np, pp>>
  BY SchedAssumption, SlotFacts DEF YieldReturn, Goto, procVars, TableType, StateInv,
     StateOf
<1>2. LockInv'
  <2>1. CpuInv' /\ OneCpuPerProcess'
    BY <1>e, Zenon DEF CpuInv, OneCpuPerProcess
  <2>2. PlockInv'
    BY <1>e DEF PlockInv
  <2>3. LkInv'
    BY <1>e, TableFacts DEF LkInv, CpuInv
  <2>4. StateInv'
    BY <1>e DEF StateInv, StateOf
  <2> QED BY <2>1, <2>2, <2>3, <2>4, Zenon DEF LockInv
<1>3. TreeSteady
  BY <1>e DEF TreeSteady, At
<1>4. WakeSteady
  BY <1>e, Zenon DEF WakeSteady, WakeLabels, Dozing
<1> QED BY <1>e, <1>2, <1>3, <1>4, TreeFrame, WakeFrame, Zenon DEF IInv

\* scheduler() releases the lock of the process that came back.
LEMMA SchedBackPreserves ==
  ASSUME IInv, NEW c \in CPUS, SchedBack(c), UNCHANGED procVars
  PROVE  IInv'
<1>inv. /\ TableType /\ CpuInv /\ OneCpuPerProcess /\ PlockInv /\ LkInv /\ StateInv
        /\ CursorInv /\ InitInv /\ ForkInv /\ ParentInv /\ WakeInv
  BY Zenon DEF IInv, LockInv, TreeInv
<1> USE <1>inv DEF Exec, Labels, ProcStates, PLabels, LkLabels, FreeLabels, QuietLabels,
            ForkLabels, OrphanLabels, ZombieLabels, ChildlessLabels, ScanLabels
<1>q. PICK s \in Slots : s = sp[c]
  BY SchedAssumption, SlotFacts, Zenon DEF SchedBack, procVars, TableType, CpuInv
<1>e. /\ TableType'
      /\ spc[c] = "back" /\ cproc[c] = s
      /\ \A d \in CPUS : cproc[d]' = IF d = c THEN Null ELSE cproc[d]
      /\ \A r \in Slots : plock[r]' = IF r = s THEN NoCpu ELSE plock[r]
      /\ \A d \in CPUS : spc[d]' = IF d = c THEN "scan" ELSE spc[d]
      /\ \A d \in CPUS : sp[d]' = IF d = c THEN NextSlot(s) ELSE sp[d]
      /\ UNCHANGED <<state, chan, lk, pc, saved, cur, parent, np, pp>>
  BY SchedAssumption, SlotFacts, <1>q, Zenon DEF SchedBack, procVars, TableType, CpuInv
<1>2. LockInv'
  <2>1. CpuInv'
    BY <1>e, Zenon DEF CpuInv
  <2>2. OneCpuPerProcess'
    BY <1>e DEF OneCpuPerProcess
  <2>3. PlockInv'
    BY <1>e, TableFacts DEF PlockInv, StateInv, StateOf
  <2>4. LkInv'
    BY <1>e, TableFacts DEF LkInv
  <2>5. StateInv'
    BY <1>e DEF StateInv, StateOf
  <2> QED BY <2>1, <2>2, <2>3, <2>4, <2>5, Zenon DEF LockInv
<1>3. TreeSteady
  BY <1>e, Zenon DEF TreeSteady, At
<1>4. WakeSteady
  BY <1>e, Zenon DEF WakeSteady, WakeLabels, Dozing
<1> QED BY <1>e, <1>2, <1>3, <1>4, TreeFrame, WakeFrame, Zenon DEF IInv

\* scheduler() passes a process that is not RUNNABLE.
LEMMA SchedSkipPreserves ==
  ASSUME IInv, NEW c \in CPUS, SchedSkip(c), UNCHANGED procVars
  PROVE  IInv'
<1>inv. /\ TableType /\ CpuInv /\ OneCpuPerProcess /\ PlockInv /\ LkInv /\ StateInv
        /\ CursorInv /\ InitInv /\ ForkInv /\ ParentInv /\ WakeInv
  BY Zenon DEF IInv, LockInv, TreeInv
<1> USE <1>inv DEF Exec, Labels, ProcStates, PLabels, LkLabels, FreeLabels, QuietLabels,
            ForkLabels, OrphanLabels, ZombieLabels, ChildlessLabels, ScanLabels
<1>e. /\ TableType'
      /\ spc[c] = "scan"
      /\ \A d \in CPUS : sp[d]' = IF d = c THEN NextSlot(sp[c]) ELSE sp[d]
      /\ UNCHANGED <<state, chan, plock, lk, cproc, spc, pc, saved, cur, parent, np, pp>>
  BY SchedAssumption, SlotFacts, Zenon DEF SchedSkip, procVars, TableType
<1>2. LockInv'
  <2>1. CpuInv'
    BY <1>e, Zenon DEF CpuInv
  <2>2. OneCpuPerProcess'
    BY <1>e, Zenon DEF OneCpuPerProcess
  <2>3. PlockInv'
    BY <1>e DEF PlockInv
  <2>4. LkInv'
    BY <1>e, Zenon DEF LkInv
  <2>5. StateInv'
    BY <1>e, Zenon DEF StateInv, StateOf
  <2> QED BY <2>1, <2>2, <2>3, <2>4, <2>5, Zenon DEF LockInv
<1>3. TreeSteady
  BY <1>e, Zenon DEF TreeSteady, At
<1>4. WakeSteady
  BY <1>e, Zenon DEF WakeSteady, WakeLabels, Dozing
<1> QED BY <1>e, <1>2, <1>3, <1>4, TreeFrame, WakeFrame, Zenon DEF IInv

\* sleep() leaves for the scheduler.
LEMMA SleepSchedPreserves ==
  ASSUME IInv, NEW c \in CPUS, NEW p \in Slots, SleepSched(c, p, p), UNCHANGED procVars
  PROVE  IInv'
<1>inv. /\ TableType /\ CpuInv /\ OneCpuPerProcess /\ PlockInv /\ LkInv /\ StateInv
        /\ CursorInv /\ InitInv /\ ForkInv /\ ParentInv /\ WakeInv
  BY Zenon DEF IInv, LockInv, TreeInv
<1> USE <1>inv DEF Exec, Labels, ProcStates, PLabels, LkLabels, FreeLabels, QuietLabels,
            ForkLabels, OrphanLabels, ZombieLabels, ChildlessLabels, ScanLabels
<1>e. /\ TableType'
      /\ Exec(c, p) /\ pc[p] = "sleep_sched"
      /\ \A r \in Slots : chan[r]' = IF r = p THEN p ELSE chan[r]
      /\ \A r \in Slots : state[r]' = IF r = p THEN "SLEEPING" ELSE state[r]
      /\ \A d \in CPUS : spc[d]' = IF d = c THEN "back" ELSE spc[d]
      /\ \A r \in Slots : pc[r]' = IF r = p THEN "sleep_return" ELSE pc[r]
      /\ UNCHANGED <<plock, lk, cproc, sp, saved, cur, parent, np, pp>>
  BY SchedAssumption, SlotFacts DEF SleepSched, Swtch, Goto, procVars, TableType
<1>2. LockInv'
  <2>1. CpuInv'
    BY <1>e, Zenon DEF CpuInv
  <2>2. OneCpuPerProcess'
    BY <1>e, Zenon DEF OneCpuPerProcess
  <2>3. PlockInv'
    BY <1>e, TableFacts DEF PlockInv
  <2>4. LkInv'
    BY <1>e, TableFacts, Zenon DEF LkInv, CpuInv
  <2>5. StateInv'
    BY <1>e, TableFacts DEF StateInv, StateOf, OneCpuPerProcess
  <2> QED BY <2>1, <2>2, <2>3, <2>4, <2>5, Zenon DEF LockInv
<1>3. TreeSteady
  BY <1>e DEF TreeSteady, At, StateInv, StateOf, CursorInv
<1>4. WakeSteady
  BY <1>e, Zenon DEF WakeSteady, WakeLabels, Dozing
<1> QED BY <1>e, <1>2, <1>3, <1>4, TreeFrame, WakeFrame, Zenon DEF IInv

\* sleep() releases wait_lock.
LEMMA SleepReleasePreserves ==
  ASSUME IInv, NEW c \in CPUS, NEW p \in Slots, SleepRelease(c, p), UNCHANGED procVars
  PROVE  IInv'
<1>inv. /\ TableType /\ CpuInv /\ OneCpuPerProcess /\ PlockInv /\ LkInv /\ StateInv
        /\ CursorInv /\ InitInv /\ ForkInv /\ ParentInv /\ WakeInv
  BY Zenon DEF IInv, LockInv, TreeInv
<1> USE <1>inv DEF Exec, Labels, ProcStates, PLabels, LkLabels, FreeLabels, QuietLabels,
            ForkLabels, OrphanLabels, ZombieLabels, ChildlessLabels, ScanLabels
<1>e. /\ TableType'
      /\ Exec(c, p) /\ pc[p] = "sleep_release"
      /\ \A r \in Slots : pc[r]' = IF r = p THEN "sleep_sched" ELSE pc[r]
      /\ lk' = NoCpu
      /\ UNCHANGED <<state, chan, plock, cproc, spc, sp, saved, cur, parent, np, pp>>
  BY SchedAssumption, SlotFacts, Zenon DEF SleepRelease, Goto, procVars, TableType
<1>2. LockInv'
  <2>1. CpuInv' /\ OneCpuPerProcess'
    BY <1>e, Zenon DEF CpuInv, OneCpuPerProcess
  <2>2. PlockInv'
    BY <1>e DEF PlockInv
  <2>3. LkInv'
    BY <1>e, Zenon DEF LkInv
  <2>4. StateInv'
    BY <1>e DEF StateInv, StateOf
  <2> QED BY <2>1, <2>2, <2>3, <2>4, Zenon DEF LockInv
<1>3. TreeSteady
  BY <1>e DEF TreeSteady, At, CursorInv
<1>4. WakeInv'
  <2>1. \A r \in Slots : pc[r] \in LkLabels => r = p
    BY <1>e, LkExclusive, Zenon
  <2>2. \A r, s \in Slots : state[s] = "ZOMBIE" /\ parent[s] = r => ~Dozing(r) /\ r # p
    BY <1>e, <2>1, Zenon DEF WakeInv
  <2>3. /\ state' = state /\ parent' = parent
        /\ \A r \in Slots : pc[r]' \notin LkLabels /\ (Dozing(r)' => Dozing(r) \/ r = p)
    BY <1>e, <2>1, Zenon DEF Dozing
  <2> QED BY <2>2, <2>3, Zenon DEF WakeInv
<1> QED BY <1>e, <1>2, <1>3, <1>4, TreeFrame, Zenon DEF IInv

\* sleep() takes p->lock.
LEMMA SleepAcquirePreserves ==
  ASSUME IInv, NEW c \in CPUS, NEW p \in Slots, SleepAcquire(c, p), UNCHANGED procVars
  PROVE  IInv'
<1>inv. /\ TableType /\ CpuInv /\ OneCpuPerProcess /\ PlockInv /\ LkInv /\ StateInv
        /\ CursorInv /\ InitInv /\ ForkInv /\ ParentInv /\ WakeInv
  BY Zenon DEF IInv, LockInv, TreeInv
<1> USE <1>inv DEF Exec, Labels, ProcStates, PLabels, LkLabels, FreeLabels, QuietLabels,
            ForkLabels, OrphanLabels, ZombieLabels, ChildlessLabels, ScanLabels
<1>e. /\ TableType'
      /\ Exec(c, p) /\ pc[p] = "sleep_acquire" /\ plock[p] = NoCpu
      /\ \A r \in Slots : plock[r]' = IF r = p THEN c ELSE plock[r]
      /\ \A r \in Slots : pc[r]' = IF r = p THEN "sleep_release" ELSE pc[r]
      /\ UNCHANGED <<state, chan, lk, cproc, spc, sp, saved, cur, parent, np, pp>>
  BY SchedAssumption, SlotFacts, Zenon DEF SleepAcquire, Goto, procVars, TableType
<1>2. LockInv'
  <2>1. CpuInv' /\ OneCpuPerProcess'
    BY <1>e, Zenon DEF CpuInv, OneCpuPerProcess
  <2>2. PlockInv'
    BY <1>e, TableFacts DEF PlockInv, OneCpuPerProcess
  <2>3. LkInv'
    BY <1>e, Zenon DEF LkInv
  <2>4. StateInv'
    BY <1>e DEF StateInv, StateOf
  <2> QED BY <2>1, <2>2, <2>3, <2>4, Zenon DEF LockInv
<1>3. TreeSteady
  BY <1>e DEF TreeSteady, At, CursorInv
<1>4. WakeInv'
  BY <1>e, SlotFacts DEF WakeInv, Dozing
<1> QED BY <1>e, <1>2, <1>3, <1>4, TreeFrame, Zenon DEF IInv

\* sleep() is back and releases p->lock.
LEMMA SleepReturnPreserves ==
  ASSUME IInv, NEW c \in CPUS, NEW p \in Slots, SleepReturn(c, p), UNCHANGED procVars
  PROVE  IInv'
<1>inv. /\ TableType /\ CpuInv /\ OneCpuPerProcess /\ PlockInv /\ LkInv /\ StateInv
        /\ CursorInv /\ InitInv /\ ForkInv /\ ParentInv /\ WakeInv
  BY Zenon DEF IInv, LockInv, TreeInv
<1> USE <1>inv DEF Exec, Labels, ProcStates, PLabels, LkLabels, FreeLabels, QuietLabels,
            ForkLabels, OrphanLabels, ZombieLabels, ChildlessLabels, ScanLabels
<1>e. /\ TableType'
      /\ Exec(c, p) /\ pc[p] = "sleep_return"
      /\ \A r \in Slots : chan[r]' = IF r = p THEN Null ELSE chan[r]
      /\ \A r \in Slots : plock[r]' = IF r = p THEN NoCpu ELSE plock[r]
      /\ \A r \in Slots : pc[r]' = IF r = p THEN "sleep_reacquire" ELSE pc[r]
      /\ UNCHANGED <<state, lk, cproc, spc, sp, saved, cur, parent, np, pp>>
  BY SchedAssumption, SlotFacts, Zenon DEF SleepReturn, Goto, procVars, TableType
<1>2. LockInv'
  <2>1. CpuInv' /\ OneCpuPerProcess'
    BY <1>e, Zenon DEF CpuInv, OneCpuPerProcess
  <2>2. PlockInv'
    BY <1>e DEF PlockInv
  <2>3. LkInv'
    BY <1>e, TableFacts, Zenon DEF LkInv, CpuInv
  <2>4. StateInv'
    BY <1>e DEF StateInv, StateOf
  <2> QED BY <2>1, <2>2, <2>3, <2>4, Zenon DEF LockInv
<1>3. TreeSteady
  BY <1>e, Zenon DEF TreeSteady, At, CursorInv
<1>4. WakeSteady
  BY <1>e, Zenon DEF WakeSteady, WakeLabels, Dozing
<1> QED BY <1>e, <1>2, <1>3, <1>4, TreeFrame, WakeFrame, Zenon DEF IInv

\* sleep() takes wait_lock again.
LEMMA ReacquirePreserves ==
  ASSUME IInv, NEW c \in CPUS, NEW p \in Slots,
         AcquireLk(c, p, "sleep_reacquire", "wait_scan"), UNCHANGED procVars
  PROVE  IInv'
<1>inv. /\ TableType /\ CpuInv /\ OneCpuPerProcess /\ PlockInv /\ LkInv /\ StateInv
        /\ CursorInv /\ InitInv /\ ForkInv /\ ParentInv /\ WakeInv
  BY Zenon DEF IInv, LockInv, TreeInv
<1> USE <1>inv DEF Exec, Labels, ProcStates, PLabels, LkLabels, FreeLabels, QuietLabels,
            ForkLabels, OrphanLabels, ZombieLabels, ChildlessLabels, ScanLabels
<1>e. /\ TableType'
      /\ Exec(c, p) /\ pc[p] = "sleep_reacquire" /\ lk = NoCpu
      /\ \A r \in Slots : pc[r]' = IF r = p THEN "wait_scan" ELSE pc[r]
      /\ lk' = c
      /\ UNCHANGED <<state, chan, plock, cproc, spc, sp, saved, cur, parent, np, pp>>
  BY SchedAssumption, SlotFacts, Zenon DEF AcquireLk, Goto, procVars, TableType
<1>2. TakesLk(c, p)
  BY <1>e, Zenon DEF TakesLk
<1>3. TreeSteady
  BY <1>e, Zenon DEF TreeSteady, At
<1>4. WakeInv'
  <2> USE SchedAssumption, SlotFacts
  <2>1. /\ cur[p] = 0 /\ \A r \in Slots : pc[r] \notin LkLabels
    BY <1>e, Zenon DEF CursorInv, LkInv, At
  <2>2. state' = state /\ parent' = parent /\ \A r \in Slots : Dozing(r)' => Dozing(r)
    BY <1>e, Zenon DEF Dozing
  <2>3. \A r \in Slots : pc[r]' \in LkLabels => pc[r]' = "wait_scan" /\ cur[r]' = 0
    BY <1>e, <2>1, Zenon
  <2>4. \A r, s \in Slots : state[s] = "ZOMBIE" /\ parent[s] = r => ~Dozing(r)
    BY <2>1, Zenon DEF WakeInv
  <2> QED BY <2>2, <2>3, <2>4 DEF WakeInv
<1> QED BY <1>e, <1>2, <1>3, <1>4, TakeFrame, TreeFrame, Zenon DEF IInv

\* A new process enters user space.
LEMMA ForkretPreserves ==
  ASSUME IInv, NEW c \in CPUS, NEW p \in Slots, Forkret(c, p)
  PROVE  IInv'
<1>inv. /\ TableType /\ CpuInv /\ OneCpuPerProcess /\ PlockInv /\ LkInv /\ StateInv
        /\ CursorInv /\ InitInv /\ ForkInv /\ ParentInv /\ WakeInv
  BY Zenon DEF IInv, LockInv, TreeInv
<1> USE <1>inv DEF Exec, Labels, ProcStates, PLabels, LkLabels, FreeLabels, QuietLabels,
            ForkLabels, OrphanLabels, ZombieLabels, ChildlessLabels, ScanLabels
<1>e. /\ TableType'
      /\ Exec(c, p) /\ pc[p] = "forkret"
      /\ \A r \in Slots : plock[r]' = IF r = p THEN NoCpu ELSE plock[r]
      /\ \A r \in Slots : pc[r]' = IF r = p THEN "user" ELSE pc[r]
      /\ UNCHANGED <<state, chan, lk, cproc, spc, sp, saved, cur, parent, np, pp>>
  BY SchedAssumption, SlotFacts, Zenon DEF Forkret, Goto, procVars, TableType
<1>2. LockInv'
  <2>1. CpuInv' /\ OneCpuPerProcess'
    BY <1>e, Zenon DEF CpuInv, OneCpuPerProcess
  <2>2. PlockInv'
    BY <1>e DEF PlockInv
  <2>3. LkInv'
    BY <1>e, TableFacts, Zenon DEF LkInv, CpuInv
  <2>4. StateInv'
    BY <1>e DEF StateInv, StateOf
  <2> QED BY <2>1, <2>2, <2>3, <2>4, Zenon DEF LockInv
<1>3. TreeSteady
  BY <1>e, Zenon DEF TreeSteady, At, CursorInv
<1>4. WakeSteady
  BY <1>e, Zenon DEF WakeSteady, WakeLabels, Dozing
<1> QED BY <1>e, <1>2, <1>3, <1>4, TreeFrame, WakeFrame, Zenon DEF IInv

\* A killed process goes to exit().
LEMMA TrapKilledPreserves ==
  ASSUME IInv, NEW c \in CPUS, NEW p \in Slots, TrapKilled(c, p)
  PROVE  IInv'
<1>inv. /\ TableType /\ CpuInv /\ OneCpuPerProcess /\ PlockInv /\ LkInv /\ StateInv
        /\ CursorInv /\ InitInv /\ ForkInv /\ ParentInv /\ WakeInv
  BY Zenon DEF IInv, LockInv, TreeInv
<1> USE <1>inv DEF Exec, Labels, ProcStates, PLabels, LkLabels, FreeLabels, QuietLabels,
            ForkLabels, OrphanLabels, ZombieLabels, ChildlessLabels, ScanLabels
<1>e. /\ TableType'
      /\ Exec(c, p) /\ pc[p] = "user"
      /\ \A r \in Slots : pc[r]' = IF r = p THEN ExitLabel(p) ELSE pc[r]
      /\ UNCHANGED <<state, chan, plock, lk, cproc, spc, sp, saved, cur, parent, np, pp>>
  BY SchedAssumption, SlotFacts, Zenon DEF TrapKilled, ExitLabel, Goto, procVars, TableType
<1>2. LockSteady
  BY <1>e, Zenon DEF LockSteady, QuietStep, ExitLabel
<1>3. TreeSteady
  BY <1>e, Zenon DEF TreeSteady, At, ExitLabel, CursorInv
<1>4. WakeSteady
  BY <1>e, Zenon DEF WakeSteady, WakeLabels, Dozing, ExitLabel
<1> QED BY <1>e, <1>2, <1>3, <1>4, LockFrame, TreeFrame, WakeFrame, Zenon DEF IInv

\* A system call begins.
LEMMA SyscallPreserves ==
  ASSUME IInv, NEW c \in CPUS, NEW p \in Slots, Syscall(c, p)
  PROVE  IInv'
<1>inv. /\ TableType /\ CpuInv /\ OneCpuPerProcess /\ PlockInv /\ LkInv /\ StateInv
        /\ CursorInv /\ InitInv /\ ForkInv /\ ParentInv /\ WakeInv
  BY Zenon DEF IInv, LockInv, TreeInv
<1> USE <1>inv DEF Exec, Labels, ProcStates, PLabels, LkLabels, FreeLabels, QuietLabels,
            ForkLabels, OrphanLabels, ZombieLabels, ChildlessLabels, ScanLabels
<1>e. /\ TableType'
      /\ Exec(c, p) /\ pc[p] = "user"
      /\ \E l \in {"fork_scan", "wait_lock", "kill_scan", ExitLabel(p)} :
           \A r \in Slots : pc[r]' = IF r = p THEN l ELSE pc[r]
      /\ UNCHANGED <<state, chan, plock, lk, cproc, spc, sp, saved, cur, parent, np, pp>>
  BY SchedAssumption, SlotFacts DEF Syscall, ExitLabel, Goto, TableType
<1>2. LockSteady
  BY <1>e, Zenon DEF LockSteady, QuietStep, ExitLabel
<1>3. TreeSteady
  BY <1>e, Zenon DEF TreeSteady, At, ExitLabel, CursorInv
<1>4. WakeSteady
  BY <1>e, Zenon DEF WakeSteady, WakeLabels, Dozing, ExitLabel
<1> QED BY <1>e, <1>2, <1>3, <1>4, LockFrame, TreeFrame, WakeFrame, Zenon DEF IInv

\* exit() takes wait_lock.
LEMMA ExitWaitLockPreserves ==
  ASSUME IInv, NEW c \in CPUS, NEW p \in Slots, ExitWaitLock(c, p)
  PROVE  IInv'
<1>inv. /\ TableType /\ CpuInv /\ OneCpuPerProcess /\ PlockInv /\ LkInv /\ StateInv
        /\ CursorInv /\ InitInv /\ ForkInv /\ ParentInv /\ WakeInv
  BY Zenon DEF IInv, LockInv, TreeInv
<1> USE <1>inv DEF Exec, Labels, ProcStates, PLabels, LkLabels, FreeLabels, QuietLabels,
            ForkLabels, OrphanLabels, ZombieLabels, ChildlessLabels, ScanLabels
<1>e. /\ TableType'
      /\ Exec(c, p) /\ pc[p] = "exit_wait_lock" /\ lk = NoCpu
      /\ \A r \in Slots : pc[r]' = IF r = p THEN "exit_reparent" ELSE pc[r]
      /\ lk' = c
      /\ UNCHANGED <<state, chan, plock, cproc, spc, sp, saved, cur, parent, np, pp>>
  BY SchedAssumption, SlotFacts, Zenon DEF ExitWaitLock, AcquireLk, Goto, procVars,
     TableType
<1>2. TakesLk(c, p)
  BY <1>e, Zenon DEF TakesLk
<1>3. TreeInv'
  <2>1. CursorInv'
    BY <1>e, Zenon DEF CursorInv, At
  <2>2. InitInv'
    BY <1>e, TableFacts, Zenon DEF InitInv, At
  <2>3. ForkInv'
    BY <1>e DEF ForkInv, At
  <2>4. ParentInv'
    <3> USE SchedAssumption, SlotFacts
    <3>1. pp[p] = 0
      BY <1>e, Zenon DEF CursorInv
    <3>2. \A r \in Slots : ~(r < 0)
      BY SMT
    <3> QED BY <1>e, <3>1, <3>2, Zenon DEF ParentInv
  <2> QED BY <2>1, <2>2, <2>3, <2>4, Zenon DEF TreeInv
<1>4. WakeSteady
  BY <1>e, Zenon DEF WakeSteady, WakeLabels, Dozing
<1> QED BY <1>e, <1>2, <1>3, <1>4, TakeFrame, WakeFrame, Zenon DEF IInv

\* The end of reparent()'s wakeup(initproc).
LEMMA WakeInitDonePreserves ==
  ASSUME IInv, NEW c \in CPUS, NEW p \in Slots,
         WakeupDone(c, p, "exit_wake_init", "exit_reparent"), UNCHANGED procVars
  PROVE  IInv'
<1>inv. /\ TableType /\ CpuInv /\ OneCpuPerProcess /\ PlockInv /\ LkInv /\ StateInv
        /\ CursorInv /\ InitInv /\ ForkInv /\ ParentInv /\ WakeInv
  BY Zenon DEF IInv, LockInv, TreeInv
<1> USE <1>inv DEF Exec, Labels, ProcStates, PLabels, LkLabels, FreeLabels, QuietLabels,
            ForkLabels, OrphanLabels, ZombieLabels, ChildlessLabels, ScanLabels
<1>e. /\ TableType'
      /\ Exec(c, p) /\ pc[p] = "exit_wake_init" /\ cur[p] = NPROC
      /\ \A r \in Slots : cur[r]' = IF r = p THEN 0 ELSE cur[r]
      /\ \A r \in Slots : pc[r]' = IF r = p THEN "exit_reparent" ELSE pc[r]
      /\ UNCHANGED <<state, chan, plock, lk, cproc, spc, sp, saved, parent, np, pp>>
  BY SchedAssumption, SlotFacts DEF WakeupDone, Goto, procVars, TableType
<1>2. LockSteady
  BY <1>e, Zenon DEF LockSteady, QuietStep
<1>3. TreeSteady
  BY <1>e, Zenon DEF TreeSteady, At
<1>4. WakeInv'
  <2> USE SchedAssumption, SlotFacts
  <2>1. \A r \in Slots : pc[r] \in LkLabels => r = p
    BY <1>e, LkExclusive, Zenon
  <2>2. \A r \in Slots : ~(pc[r] = "exit_wake_init" /\ cur[r] = 0)
    BY <1>e, <2>1, Zenon
  <2>3. state' = state /\ parent' = parent /\ \A r \in Slots : Dozing(r)' => Dozing(r)
    BY <1>e, Zenon DEF Dozing
  <2>4. \A r \in Slots : pc[r]' \in LkLabels => r = p
    BY <1>e, <2>1, Zenon
  <2> QED BY <1>e, <2>2, <2>3, <2>4 DEF WakeInv
<1> QED BY <1>e, <1>2, <1>3, <1>4, LockFrame, TreeFrame, Zenon DEF IInv

=============================================================================
