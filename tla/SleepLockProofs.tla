-------------------------- MODULE SleepLockProofs --------------------------
(***************************************************************************)
(* The sleeplock of module SleepLock is correct for every number of        *)
(* processes and CPUs: sched() never panics, no process is on two CPUs, at *)
(* most one thread is inside the lock, and no wakeup is lost.              *)
(***************************************************************************)
EXTENDS SleepLock, TLAPS

\* The labels at which a thread on a CPU holds its own p->lock, and holds lk.
PLabels == {"yield", "sleep_release", "sleep_sched", "sleep_return"}
LkLabels == {"check", "release", "wakeup", "unlock", "sleep_acquire", "sleep_release"}

\* c->proc and the loop variable of scheduler() agree.
CpuInv ==
  \A c \in CPUS :
    /\ spc[c] = "scan" => cproc[c] = Null
    /\ spc[c] # "scan" => cproc[c] = sp[c]

\* p->lock is held by the CPU whose thread is at a label of PLabels, and by
\* the CPU that is just back in scheduler(); a thread on its way to sleep
\* does not lose it.
PlockInv ==
  /\ \A p \in Slots : plock[p] # NoCpu =>
       /\ cproc[plock[p]] = p
       /\ spc[plock[p]] = "run" => pc[p] \in PLabels
  /\ \A c \in CPUS, p \in Slots :
       cproc[c] = p /\ (spc[c] = "back" \/ pc[p] \in PLabels) => plock[p] = c
  /\ \A p \in Slots : pc[p] \in {"sleep_release", "sleep_sched"} => plock[p] # NoCpu

\* lk is held by the CPU whose thread is at a label of LkLabels.
LkInv ==
  /\ lk # NoCpu => spc[lk] = "run" /\ pc[cproc[lk]] \in LkLabels
  /\ \A p \in Slots : pc[p] \in LkLabels => lk # NoCpu /\ Exec(lk, p)

\* How p->state goes with the place of the thread.
StateInv ==
  /\ \A p \in Slots :
       /\ state[p] \in {"RUNNABLE", "RUNNING", "SLEEPING"}
       /\ state[p] = "RUNNABLE" => pc[p] \in {"yield", "sleep_return"}
       /\ state[p] = "SLEEPING" => pc[p] = "sleep_return" /\ chan[p] = SleepChan
       /\ pc[p] = "yield" => saved[p] \in {"idle", "held", "sleep_reacquire"}
       /\ pc[p] # "wakeup" => cur[p] = 0
  /\ \A c \in CPUS, p \in Slots : Exec(c, p) => state[p] = "RUNNING"
  /\ \A c \in CPUS : spc[c] = "back" => state[sp[c]] # "RUNNING"

HolderInv ==
  /\ locked = 1 <=> holder # Null
  /\ \A p \in Slots : holder = p <=> At(p) \in {"held", "release"}

\* A thread that has decided to sleep still sees the lock taken, or a waker
\* has yet to come to it.
WakeInv ==
  /\ \A p \in Slots : pc[p] \in {"sleep_acquire", "sleep_release"} => locked = 1
  /\ \A p \in Slots :
       (pc[p] = "sleep_sched" \/ state[p] = "SLEEPING") /\ locked = 0 =>
         \E q \in Slots : pc[q] = "wakeup" /\ cur[q] <= p

IInv ==
  /\ TypeOK /\ CpuInv /\ OneCpuPerProcess /\ PlockInv /\ LkInv
  /\ StateInv /\ HolderInv /\ WakeInv

\* The scan of scheduler() stays inside the process table.
LEMMA NextSlotInSlots == \A s \in Slots : NextSlot(s) \in Slots
  BY SchedAssumption DEF Slots, NextSlot

\* scheduler() switching to a RUNNABLE process preserves the invariant.
LEMMA SchedRunPreserves ==
  ASSUME IInv, NEW c \in CPUS, SchedRun(c), UNCHANGED <<locked, holder>>
  PROVE  IInv'
<1> USE SchedAssumption
<1> USE DEF IInv, Slots, Null, Exec, Labels, ProcStates, PLabels, LkLabels, SleepChan
<1>1. TypeOK'
  BY DEF SchedRun, TypeOK
<1>2. CpuInv'
  BY DEF SchedRun, TypeOK, CpuInv
<1>3. OneCpuPerProcess'
  BY DEF SchedRun, TypeOK, CpuInv, OneCpuPerProcess, PlockInv, StateInv
<1>4. PlockInv'
  BY DEF SchedRun, TypeOK, CpuInv, PlockInv, StateInv
<1>5. LkInv'
  BY DEF SchedRun, LkInv
<1>6. StateInv'
  <2>1. \A x \in Slots :
          /\ state[x]' \in {"RUNNABLE", "RUNNING", "SLEEPING"}
          /\ state[x]' = state[x] \/ (x = sp[c] /\ state[x]' = "RUNNING")
    BY DEF SchedRun, StateInv
  <2>2. \A d \in CPUS : d # c => spc[d]' = spc[d] /\ cproc[d]' = cproc[d] /\ sp[d]' = sp[d]
    BY DEF SchedRun, TypeOK
  <2>3. spc[c]' = "run" /\ cproc[c]' = sp[c] /\ state[sp[c]]' = "RUNNING"
    BY DEF SchedRun, TypeOK
  <2>4. \A d \in CPUS : spc[d] = "back" => sp[d] # sp[c]
    <3> SUFFICES ASSUME NEW d \in CPUS, spc[d] = "back"
                 PROVE  plock[sp[d]] = d
      BY DEF SchedRun
    <3>1. cproc[d] = sp[d] /\ sp[d] \in Slots
      BY DEF CpuInv, TypeOK
    <3> QED BY <3>1 DEF PlockInv
  <2> QED BY <2>1, <2>2, <2>3, <2>4 DEF SchedRun, StateInv
<1>7. HolderInv'
  BY DEF SchedRun, HolderInv, At
<1>8. WakeInv'
  BY DEF SchedRun, WakeInv
<1> QED BY <1>1, <1>2, <1>3, <1>4, <1>5, <1>6, <1>7, <1>8

\* scheduler() passing a process that is not RUNNABLE preserves the invariant.
LEMMA SchedSkipPreserves ==
  ASSUME IInv, NEW c \in CPUS, SchedSkip(c), UNCHANGED <<locked, holder>>
  PROVE  IInv'
<1> USE SchedAssumption
<1> USE DEF IInv, Slots, Null, Exec, Labels, ProcStates, PLabels, LkLabels, SleepChan
<1>1. TypeOK'
  BY NextSlotInSlots DEF SchedSkip, TypeOK
<1>2. CpuInv'
  BY DEF SchedSkip, CpuInv
<1>3. OneCpuPerProcess'
  BY DEF SchedSkip, OneCpuPerProcess
<1>4. PlockInv'
  BY DEF SchedSkip, PlockInv
<1>5. LkInv'
  BY DEF SchedSkip, LkInv
<1>6. StateInv'
  BY DEF SchedSkip, StateInv
<1>7. HolderInv'
  BY DEF SchedSkip, HolderInv, At
<1>8. WakeInv'
  BY DEF SchedSkip, WakeInv
<1> QED BY <1>1, <1>2, <1>3, <1>4, <1>5, <1>6, <1>7, <1>8

\* scheduler() releasing the lock of the process that came back preserves the invariant.
LEMMA SchedBackPreserves ==
  ASSUME IInv, NEW c \in CPUS, SchedBack(c), UNCHANGED <<locked, holder>>
  PROVE  IInv'
<1> USE SchedAssumption
<1> USE DEF IInv, Slots, Null, Exec, Labels, ProcStates, PLabels, LkLabels, SleepChan
<1>1. TypeOK'
  BY NextSlotInSlots DEF SchedBack, TypeOK
<1>2. CpuInv'
  BY DEF SchedBack, TypeOK, CpuInv
<1>3. OneCpuPerProcess'
  BY DEF SchedBack, OneCpuPerProcess
<1>4. PlockInv'
  BY DEF SchedBack, NextSlot, TypeOK, CpuInv, OneCpuPerProcess, PlockInv, StateInv
<1>5. LkInv'
  BY DEF SchedBack, LkInv
<1>6. StateInv'
  BY DEF SchedBack, TypeOK, StateInv
<1>7. HolderInv'
  BY DEF SchedBack, HolderInv, At
<1>8. WakeInv'
  BY DEF SchedBack, WakeInv
<1> QED BY <1>1, <1>2, <1>3, <1>4, <1>5, <1>6, <1>7, <1>8

\* yield() up to its sched() preserves the invariant.
LEMMA YieldPreserves ==
  ASSUME IInv, NEW c \in CPUS, NEW p \in Slots, Yield(c, p), UNCHANGED <<locked, holder>>
  PROVE  IInv'
<1> USE SchedAssumption
<1> USE DEF IInv, Slots, Null, Exec, Labels, ProcStates, PLabels, LkLabels, SleepChan
<1>1. TypeOK'
  BY DEF Yield, Swtch, Goto, TypeOK
<1>2. CpuInv'
  BY DEF Yield, Swtch, CpuInv
<1>3. OneCpuPerProcess'
  BY DEF Yield, OneCpuPerProcess
<1>4. PlockInv'
  BY DEF Yield, HoldsNone, Swtch, Goto, TypeOK, CpuInv, OneCpuPerProcess, PlockInv
<1>5. LkInv'
  BY DEF Yield, HoldsNone, Swtch, Goto, TypeOK, OneCpuPerProcess, LkInv
<1>6. StateInv'
  BY DEF Yield, HoldsNone, Swtch, Goto, TypeOK, CpuInv, OneCpuPerProcess, PlockInv, LkInv,
       StateInv
<1>7. HolderInv'
  <2>1. \A x \in Slots : (At(x) \in {"held", "release"})' <=> At(x) \in {"held", "release"}
    BY DEF Yield, Swtch, Goto, TypeOK, PlockInv, At
  <2> QED BY <2>1 DEF HolderInv
<1>8. WakeInv'
  BY DEF Yield, HoldsNone, Swtch, Goto, TypeOK, OneCpuPerProcess, LkInv, WakeInv
<1> QED BY <1>1, <1>2, <1>3, <1>4, <1>5, <1>6, <1>7, <1>8

\* The rest of yield() preserves the invariant.
LEMMA YieldReturnPreserves ==
  ASSUME IInv, NEW c \in CPUS, NEW p \in Slots, YieldReturn(c, p), UNCHANGED <<locked, holder>>
  PROVE  IInv'
<1> USE SchedAssumption
<1> USE DEF IInv, Slots, Null, Exec, Labels, ProcStates, PLabels, LkLabels, SleepChan
<1>1. TypeOK'
  BY DEF YieldReturn, Goto, TypeOK, StateInv
<1>2. CpuInv'
  BY DEF YieldReturn, CpuInv
<1>3. OneCpuPerProcess'
  BY DEF YieldReturn, OneCpuPerProcess
<1>4. PlockInv'
  <2>1. saved[p] \in {"idle", "held", "sleep_reacquire"}
    BY DEF YieldReturn, StateInv
  <2>2. /\ pc' = [pc EXCEPT ![p] = saved[p]] /\ pc'[p] \notin PLabels
        /\ plock' = [plock EXCEPT ![p] = NoCpu] /\ cproc' = cproc /\ spc' = spc
    BY <2>1 DEF YieldReturn, Goto, TypeOK
  <2>3. \A d \in CPUS : cproc[d] = p => d = c /\ spc[d] = "run"
    BY DEF YieldReturn, OneCpuPerProcess
  <2> QED BY <2>2, <2>3 DEF TypeOK, PlockInv
<1>5. LkInv'
  <2>1. saved[p] \in {"idle", "held", "sleep_reacquire"}
    BY DEF YieldReturn, StateInv
  <2> QED BY <2>1 DEF YieldReturn, Goto, LkInv
<1>6. StateInv'
  <2>1. saved[p] \in {"idle", "held", "sleep_reacquire"}
    BY DEF YieldReturn, StateInv
  <2> QED BY <2>1 DEF YieldReturn, Goto, TypeOK, StateInv
<1>7. HolderInv'
  BY DEF YieldReturn, Goto, TypeOK, HolderInv, At
<1>8. WakeInv'
  <2>1. saved[p] \in {"idle", "held", "sleep_reacquire"}
    BY DEF YieldReturn, StateInv
  <2> QED BY <2>1 DEF YieldReturn, Goto, WakeInv
<1> QED BY <1>1, <1>2, <1>3, <1>4, <1>5, <1>6, <1>7, <1>8

\* sleep() taking p->lock preserves the invariant.
LEMMA SleepAcquirePreserves ==
  ASSUME IInv, NEW c \in CPUS, NEW p \in Slots, SleepAcquire(c, p), UNCHANGED <<locked, holder>>
  PROVE  IInv'
<1> USE SchedAssumption
<1> USE DEF IInv, Slots, Null, Exec, Labels, ProcStates, PLabels, LkLabels, SleepChan
<1>1. TypeOK'
  BY DEF SleepAcquire, Goto, TypeOK
<1>2. CpuInv'
  BY DEF SleepAcquire, CpuInv
<1>3. OneCpuPerProcess'
  BY DEF SleepAcquire, OneCpuPerProcess
<1>4. PlockInv'
  BY DEF SleepAcquire, Goto, TypeOK, OneCpuPerProcess, PlockInv
<1>5. LkInv'
  BY DEF SleepAcquire, Goto, LkInv
<1>6. StateInv'
  BY DEF SleepAcquire, Goto, StateInv
<1>7. HolderInv'
  <2>1. \A x \in Slots : (At(x) \in {"held", "release"})' <=> At(x) \in {"held", "release"}
    BY DEF SleepAcquire, Goto, At
  <2> QED BY <2>1 DEF HolderInv
<1>8. WakeInv'
  BY DEF SleepAcquire, WakeInv
<1> QED BY <1>1, <1>2, <1>3, <1>4, <1>5, <1>6, <1>7, <1>8

\* sleep() releasing lk preserves the invariant.
LEMMA SleepReleasePreserves ==
  ASSUME IInv, NEW c \in CPUS, NEW p \in Slots, SleepRelease(c, p), UNCHANGED <<locked, holder>>
  PROVE  IInv'
<1> USE SchedAssumption
<1> USE DEF IInv, Slots, Null, Exec, Labels, ProcStates, PLabels, LkLabels, SleepChan
<1>1. TypeOK'
  BY DEF SleepRelease, Goto, TypeOK
<1>2. CpuInv'
  BY DEF SleepRelease, CpuInv
<1>3. OneCpuPerProcess'
  BY DEF SleepRelease, OneCpuPerProcess
<1>4. PlockInv'
  BY DEF SleepRelease, Goto, PlockInv
<1>5. LkInv'
  BY DEF SleepRelease, Goto, TypeOK, LkInv
<1>6. StateInv'
  BY DEF SleepRelease, Goto, StateInv
<1>7. HolderInv'
  <2>1. \A x \in Slots : (At(x) \in {"held", "release"})' <=> At(x) \in {"held", "release"}
    BY DEF SleepRelease, Goto, At
  <2> QED BY <2>1 DEF HolderInv
<1>8. WakeInv'
  BY DEF SleepRelease, WakeInv
<1> QED BY <1>1, <1>2, <1>3, <1>4, <1>5, <1>6, <1>7, <1>8

\* sleep() switching to the scheduler preserves the invariant.
LEMMA SleepSchedPreserves ==
  ASSUME IInv, NEW c \in CPUS, NEW p \in Slots, SleepSched(c, p, SleepChan),
       UNCHANGED <<locked, holder>>
  PROVE  IInv'
<1> USE SchedAssumption
<1> USE DEF IInv, Slots, Null, Exec, Labels, ProcStates, PLabels, LkLabels, SleepChan
<1>1. TypeOK'
  BY DEF SleepSched, Swtch, Goto, TypeOK
<1>2. CpuInv'
  BY DEF SleepSched, Swtch, CpuInv
<1>3. OneCpuPerProcess'
  BY DEF SleepSched, OneCpuPerProcess
<1>4. PlockInv'
  BY DEF SleepSched, Swtch, Goto, PlockInv
<1>5. LkInv'
  BY DEF SleepSched, Swtch, Goto, LkInv
<1>6. StateInv'
  BY DEF SleepSched, Swtch, Goto, TypeOK, CpuInv, OneCpuPerProcess, StateInv
<1>7. HolderInv'
  BY DEF SleepSched, Swtch, Goto, LkInv, HolderInv, At
<1>8. WakeInv'
  BY DEF SleepSched, Swtch, Goto, WakeInv
<1> QED BY <1>1, <1>2, <1>3, <1>4, <1>5, <1>6, <1>7, <1>8

\* sleep() releasing p->lock after the wakeup preserves the invariant.
LEMMA SleepReturnPreserves ==
  ASSUME IInv, NEW c \in CPUS, NEW p \in Slots, SleepReturn(c, p), UNCHANGED <<locked, holder>>
  PROVE  IInv'
<1> USE SchedAssumption
<1> USE DEF IInv, Slots, Null, Exec, Labels, ProcStates, PLabels, LkLabels, SleepChan
<1>1. TypeOK'
  BY DEF SleepReturn, Goto, TypeOK
<1>2. CpuInv'
  BY DEF SleepReturn, CpuInv
<1>3. OneCpuPerProcess'
  BY DEF SleepReturn, OneCpuPerProcess
<1>4. PlockInv'
  BY DEF SleepReturn, Goto, TypeOK, PlockInv
<1>5. LkInv'
  BY DEF SleepReturn, Goto, LkInv
<1>6. StateInv'
  BY DEF SleepReturn, Goto, StateInv
<1>7. HolderInv'
  BY DEF SleepReturn, Goto, LkInv, HolderInv, At
<1>8. WakeInv'
  BY DEF SleepReturn, Goto, WakeInv
<1> QED BY <1>1, <1>2, <1>3, <1>4, <1>5, <1>6, <1>7, <1>8

\* sleep() taking lk again preserves the invariant.
LEMMA ReacquirePreserves ==
  ASSUME IInv, NEW c \in CPUS, NEW p \in Slots, AcquireLk(c, p, "sleep_reacquire", "check"),
       UNCHANGED <<locked, holder>>
  PROVE  IInv'
<1> USE SchedAssumption
<1> USE DEF IInv, Slots, Null, Exec, Labels, ProcStates, PLabels, LkLabels, SleepChan
<1>1. TypeOK'
  BY DEF AcquireLk, Goto, TypeOK
<1>2. CpuInv'
  BY DEF AcquireLk, CpuInv
<1>3. OneCpuPerProcess'
  BY DEF AcquireLk, OneCpuPerProcess
<1>4. PlockInv'
  BY DEF AcquireLk, Goto, PlockInv
<1>5. LkInv'
  BY DEF AcquireLk, Goto, TypeOK, LkInv
<1>6. StateInv'
  BY DEF AcquireLk, Goto, StateInv
<1>7. HolderInv'
  BY DEF AcquireLk, Goto, LkInv, HolderInv, At
<1>8. WakeInv'
  BY DEF AcquireLk, Goto, WakeInv
<1> QED BY <1>1, <1>2, <1>3, <1>4, <1>5, <1>6, <1>7, <1>8

\* acquiresleep() taking lk->lk preserves the invariant.
LEMMA AcquireSleepPreserves ==
  ASSUME IInv, NEW c \in CPUS, NEW p \in Slots, AcquireSleep(c, p)
  PROVE  IInv'
<1> USE SchedAssumption
<1> USE DEF IInv, Slots, Null, Exec, Labels, ProcStates, PLabels, LkLabels, SleepChan
<1>1. TypeOK'
  BY DEF AcquireSleep, AcquireLk, Goto, TypeOK
<1>2. CpuInv'
  BY DEF AcquireSleep, AcquireLk, CpuInv
<1>3. OneCpuPerProcess'
  BY DEF AcquireSleep, AcquireLk, OneCpuPerProcess
<1>4. PlockInv'
  BY DEF AcquireSleep, AcquireLk, Goto, PlockInv
<1>5. LkInv'
  BY DEF AcquireSleep, AcquireLk, Goto, TypeOK, LkInv
<1>6. StateInv'
  BY DEF AcquireSleep, AcquireLk, Goto, StateInv
<1>7. HolderInv'
  BY DEF AcquireSleep, AcquireLk, Goto, LkInv, HolderInv, At
<1>8. WakeInv'
  BY DEF AcquireSleep, AcquireLk, Goto, WakeInv
<1> QED BY <1>1, <1>2, <1>3, <1>4, <1>5, <1>6, <1>7, <1>8

\* acquiresleep() going to sleep preserves the invariant.
LEMMA AcquireSleepWaitPreserves ==
  ASSUME IInv, NEW c \in CPUS, NEW p \in Slots, AcquireSleepWait(c, p)
  PROVE  IInv'
<1> USE SchedAssumption
<1> USE DEF IInv, Slots, Null, Exec, Labels, ProcStates, PLabels, LkLabels, SleepChan
<1>1. TypeOK'
  BY DEF AcquireSleepWait, Goto, TypeOK
<1>2. CpuInv'
  BY DEF AcquireSleepWait, CpuInv
<1>3. OneCpuPerProcess'
  BY DEF AcquireSleepWait, OneCpuPerProcess
<1>4. PlockInv'
  BY DEF AcquireSleepWait, Goto, PlockInv
<1>5. LkInv'
  BY DEF AcquireSleepWait, Goto, LkInv
<1>6. StateInv'
  BY DEF AcquireSleepWait, Goto, StateInv
<1>7. HolderInv'
  BY DEF AcquireSleepWait, Goto, HolderInv, At
<1>8. WakeInv'
  BY DEF AcquireSleepWait, WakeInv
<1> QED BY <1>1, <1>2, <1>3, <1>4, <1>5, <1>6, <1>7, <1>8

\* acquiresleep() taking the sleeplock preserves the invariant.
LEMMA AcquireSleepTakePreserves ==
  ASSUME IInv, NEW c \in CPUS, NEW p \in Slots, AcquireSleepTake(c, p)
  PROVE  IInv'
<1> USE SchedAssumption
<1> USE DEF IInv, Slots, Null, Exec, Labels, ProcStates, PLabels, LkLabels, SleepChan
<1>1. TypeOK'
  BY DEF AcquireSleepTake, Goto, TypeOK
<1>2. CpuInv'
  BY DEF AcquireSleepTake, CpuInv
<1>3. OneCpuPerProcess'
  BY DEF AcquireSleepTake, OneCpuPerProcess
<1>4. PlockInv'
  BY DEF AcquireSleepTake, Goto, PlockInv
<1>5. LkInv'
  BY DEF AcquireSleepTake, Goto, TypeOK, LkInv
<1>6. StateInv'
  BY DEF AcquireSleepTake, Goto, StateInv
<1>7. HolderInv'
  BY DEF AcquireSleepTake, Goto, TypeOK, HolderInv, At
<1>8. WakeInv'
  BY DEF AcquireSleepTake, WakeInv
<1> QED BY <1>1, <1>2, <1>3, <1>4, <1>5, <1>6, <1>7, <1>8

\* releasesleep() taking lk->lk preserves the invariant.
LEMMA ReleaseSleepPreserves ==
  ASSUME IInv, NEW c \in CPUS, NEW p \in Slots, ReleaseSleep(c, p)
  PROVE  IInv'
<1> USE SchedAssumption
<1> USE DEF IInv, Slots, Null, Exec, Labels, ProcStates, PLabels, LkLabels, SleepChan
<1>1. TypeOK'
  BY DEF ReleaseSleep, AcquireLk, Goto, TypeOK
<1>2. CpuInv'
  BY DEF ReleaseSleep, AcquireLk, CpuInv
<1>3. OneCpuPerProcess'
  BY DEF ReleaseSleep, AcquireLk, OneCpuPerProcess
<1>4. PlockInv'
  BY DEF ReleaseSleep, AcquireLk, Goto, PlockInv
<1>5. LkInv'
  BY DEF ReleaseSleep, AcquireLk, Goto, TypeOK, LkInv
<1>6. StateInv'
  BY DEF ReleaseSleep, AcquireLk, Goto, StateInv
<1>7. HolderInv'
  BY DEF ReleaseSleep, AcquireLk, Goto, HolderInv, At
<1>8. WakeInv'
  BY DEF ReleaseSleep, AcquireLk, Goto, WakeInv
<1> QED BY <1>1, <1>2, <1>3, <1>4, <1>5, <1>6, <1>7, <1>8

\* releasesleep() clearing locked and pid preserves the invariant.
LEMMA ReleaseSleepClearPreserves ==
  ASSUME IInv, NEW c \in CPUS, NEW p \in Slots, ReleaseSleepClear(c, p)
  PROVE  IInv'
<1> USE SchedAssumption
<1> USE DEF IInv, Slots, Null, Exec, Labels, ProcStates, PLabels, LkLabels, SleepChan
<1>1. TypeOK'
  BY DEF ReleaseSleepClear, Goto, TypeOK
<1>2. CpuInv'
  BY DEF ReleaseSleepClear, CpuInv
<1>3. OneCpuPerProcess'
  BY DEF ReleaseSleepClear, OneCpuPerProcess
<1>4. PlockInv'
  BY DEF ReleaseSleepClear, Goto, PlockInv
<1>5. LkInv'
  BY DEF ReleaseSleepClear, Goto, LkInv
<1>6. StateInv'
  BY DEF ReleaseSleepClear, Goto, StateInv
<1>7. HolderInv'
  BY DEF ReleaseSleepClear, Goto, TypeOK, HolderInv, At
<1>8. WakeInv'
  <2>1. pc[p]' = "wakeup" /\ cur[p]' = 0
    BY DEF ReleaseSleepClear, Goto, TypeOK, StateInv
  <2>2. \A x \in Slots : pc[x]' \notin {"sleep_acquire", "sleep_release"}
    BY DEF ReleaseSleepClear, Goto, LkInv
  <2>3. \A x \in Slots : 0 <= x
    OBVIOUS
  <2> QED BY <2>1, <2>2, <2>3 DEF WakeInv
<1> QED BY <1>1, <1>2, <1>3, <1>4, <1>5, <1>6, <1>7, <1>8

\* One turn of wakeup() preserves the invariant.
LEMMA WakeupStepPreserves ==
  ASSUME IInv, NEW c \in CPUS, NEW p \in Slots, WakeupStep(c, p, "wakeup", SleepChan),
       UNCHANGED <<locked, holder>>
  PROVE  IInv'
<1> USE SchedAssumption
<1> USE DEF IInv, Slots, Null, Exec, Labels, ProcStates, PLabels, LkLabels, SleepChan
<1>1. TypeOK'
  <2>1. cur[p] \in Slots /\ cur[p] + 1 \in 0 .. NPROC
    BY DEF WakeupStep, TypeOK
  <2> QED BY <2>1 DEF WakeupStep, TypeOK
<1>2. CpuInv'
  BY DEF WakeupStep, CpuInv
<1>3. OneCpuPerProcess'
  BY DEF WakeupStep, OneCpuPerProcess
<1>4. PlockInv'
  BY DEF WakeupStep, PlockInv
<1>5. LkInv'
  BY DEF WakeupStep, LkInv
<1>6. StateInv'
  BY DEF WakeupStep, StateInv
<1>7. HolderInv'
  BY DEF WakeupStep, HolderInv, At
<1>8. WakeInv'
  <2>1. cur[p] \in Slots /\ cur[p]' = cur[p] + 1 /\ pc[p]' = "wakeup"
    BY DEF WakeupStep, TypeOK
  <2>2. \A x \in Slots : pc[x] = "wakeup" => x = p
    BY DEF WakeupStep, LkInv
  <2>3. \A x \in Slots : pc[x]' = pc[x] /\ (state[x]' = "SLEEPING" => state[x] = "SLEEPING")
    BY DEF WakeupStep, TypeOK
  <2>4. pc[cur[p]] # "sleep_sched"
    BY <2>1 DEF WakeupStep, PlockInv
  <2>5. state'[cur[p]] # "SLEEPING"
    <3>1. state'[cur[p]] = IF cur[p] # p /\ state[cur[p]] = "SLEEPING" /\ chan[cur[p]] = SleepChan
                           THEN "RUNNABLE" ELSE state[cur[p]]
      BY <2>1 DEF WakeupStep, TypeOK
    <3>2. state[p] = "RUNNING"
      BY DEF WakeupStep, StateInv
    <3>3. state[cur[p]] = "SLEEPING" => chan[cur[p]] = SleepChan
      BY <2>1 DEF StateInv
    <3> QED BY <3>1, <3>2, <3>3
  <2>6. ASSUME NEW x \in Slots, pc[x]' = "sleep_sched" \/ state[x]' = "SLEEPING", locked' = 0
        PROVE  cur[p]' <= x
    <3>1. cur[p] <= x
      BY <2>2, <2>3, <2>6 DEF WakeInv
    <3>2. ASSUME cur[p] = x PROVE FALSE
      <4>1. pc[x]' = pc[x]
        BY <2>3
      <4> QED BY <2>4, <2>5, <2>6, <3>2, <4>1
    <3> QED BY <3>1, <3>2, <2>1
  <2> QED BY <2>1, <2>3, <2>6 DEF WakeInv
<1> QED BY <1>1, <1>2, <1>3, <1>4, <1>5, <1>6, <1>7, <1>8

\* The end of wakeup() preserves the invariant.
LEMMA WakeupDonePreserves ==
  ASSUME IInv, NEW c \in CPUS, NEW p \in Slots, WakeupDone(c, p, "wakeup", "unlock"),
       UNCHANGED <<locked, holder>>
  PROVE  IInv'
<1> USE SchedAssumption
<1> USE DEF IInv, Slots, Null, Exec, Labels, ProcStates, PLabels, LkLabels, SleepChan
<1>1. TypeOK'
  BY DEF WakeupDone, Goto, TypeOK
<1>2. CpuInv'
  BY DEF WakeupDone, CpuInv
<1>3. OneCpuPerProcess'
  BY DEF WakeupDone, OneCpuPerProcess
<1>4. PlockInv'
  BY DEF WakeupDone, Goto, PlockInv
<1>5. LkInv'
  BY DEF WakeupDone, Goto, LkInv
<1>6. StateInv'
  BY DEF WakeupDone, Goto, TypeOK, StateInv
<1>7. HolderInv'
  <2>1. \A x \in Slots : (At(x) \in {"held", "release"})' <=> At(x) \in {"held", "release"}
    BY DEF WakeupDone, Goto, At
  <2> QED BY <2>1 DEF HolderInv
<1>8. WakeInv'
  BY DEF WakeupDone, Goto, WakeInv
<1> QED BY <1>1, <1>2, <1>3, <1>4, <1>5, <1>6, <1>7, <1>8

\* releasesleep() releasing lk->lk preserves the invariant.
LEMMA ReleaseSleepUnlockPreserves ==
  ASSUME IInv, NEW c \in CPUS, NEW p \in Slots, ReleaseSleepUnlock(c, p)
  PROVE  IInv'
<1> USE SchedAssumption
<1> USE DEF IInv, Slots, Null, Exec, Labels, ProcStates, PLabels, LkLabels, SleepChan
<1>1. TypeOK'
  BY DEF ReleaseSleepUnlock, Goto, TypeOK
<1>2. CpuInv'
  BY DEF ReleaseSleepUnlock, CpuInv
<1>3. OneCpuPerProcess'
  BY DEF ReleaseSleepUnlock, OneCpuPerProcess
<1>4. PlockInv'
  BY DEF ReleaseSleepUnlock, Goto, TypeOK, PlockInv
<1>5. LkInv'
  BY DEF ReleaseSleepUnlock, Goto, TypeOK, LkInv
<1>6. StateInv'
  BY DEF ReleaseSleepUnlock, Goto, TypeOK, StateInv
<1>7. HolderInv'
  <2>1. \A x \in Slots : (At(x) \in {"held", "release"})' <=> At(x) \in {"held", "release"}
    BY DEF ReleaseSleepUnlock, Goto, TypeOK, At
  <2> QED BY <2>1 DEF ReleaseSleepUnlock, HolderInv
<1>8. WakeInv'
  BY DEF ReleaseSleepUnlock, Goto, WakeInv
<1> QED BY <1>1, <1>2, <1>3, <1>4, <1>5, <1>6, <1>7, <1>8

\* The wakeup of a sleeper by kill() preserves the invariant.
LEMMA KillWakesPreserves ==
  ASSUME IInv, NEW c \in CPUS, NEW p \in Slots, NEW q \in Slots, KillWakes(c, p, q)
  PROVE  IInv'
<1> USE SchedAssumption
<1> USE DEF IInv, Slots, Null, Exec, Labels, ProcStates, PLabels, LkLabels, SleepChan
<1>1. TypeOK'
  BY DEF KillWakes, TypeOK
<1>2. CpuInv'
  BY DEF KillWakes, CpuInv
<1>3. OneCpuPerProcess'
  BY DEF KillWakes, OneCpuPerProcess
<1>4. PlockInv'
  BY DEF KillWakes, PlockInv
<1>5. LkInv'
  BY DEF KillWakes, LkInv
<1>6. StateInv'
  BY DEF KillWakes, StateInv
<1>7. HolderInv'
  BY DEF KillWakes, HolderInv, At
<1>8. WakeInv'
  <2>1. pc' = pc /\ cur' = cur /\ locked' = locked
    BY DEF KillWakes
  <2>2. \A x \in Slots : state'[x] = "SLEEPING" => state[x] = "SLEEPING"
    BY DEF KillWakes, TypeOK
  <2> QED BY <2>1, <2>2 DEF WakeInv
<1> QED BY <1>1, <1>2, <1>3, <1>4, <1>5, <1>6, <1>7, <1>8

\* A step that changes nothing preserves the invariant.
LEMMA StutterPreserves ==
  ASSUME IInv, UNCHANGED vars
  PROVE  IInv'
<1>1. TypeOK' /\ CpuInv' /\ OneCpuPerProcess'
  BY DEF IInv, vars, schedVars, TypeOK, CpuInv, OneCpuPerProcess
<1>2. PlockInv' /\ LkInv'
  BY DEF IInv, vars, schedVars, PlockInv, LkInv, Exec
<1>3. StateInv' /\ HolderInv' /\ WakeInv'
  BY DEF IInv, vars, schedVars, StateInv, HolderInv, WakeInv, Exec, At
<1> QED BY <1>1, <1>2, <1>3 DEF IInv

\* Every step of the specification preserves the invariant.
LEMMA NextPreserves == IInv /\ [Next]_vars => IInv'
<1> SUFFICES ASSUME IInv, [Next]_vars PROVE IInv'
  OBVIOUS
<1>1. CASE UNCHANGED vars
  BY <1>1, StutterPreserves
<1>2. ASSUME NEW c \in CPUS, Scheduler(c) PROVE IInv'
  BY <1>2, SchedRunPreserves, SchedSkipPreserves, SchedBackPreserves DEF Scheduler
<1>3. ASSUME NEW c \in CPUS, NEW p \in Slots, Thread(c, p) PROVE IInv'
  <2>1. CASE Preempt(c, p)
    BY <2>1, YieldPreserves, YieldReturnPreserves DEF Preempt
  <2>2. CASE Sleep(c, p)
    BY <2>2, SleepAcquirePreserves, SleepReleasePreserves, SleepSchedPreserves,
       SleepReturnPreserves, ReacquirePreserves DEF Sleep
  <2>3. CASE ReleaseSleepWakeup(c, p)
    BY <2>3, WakeupStepPreserves, WakeupDonePreserves DEF ReleaseSleepWakeup
  <2>4. CASE AcquireSleep(c, p) \/ AcquireSleepWait(c, p) \/ AcquireSleepTake(c, p)
    BY <2>4, AcquireSleepPreserves, AcquireSleepWaitPreserves, AcquireSleepTakePreserves
  <2>5. CASE ReleaseSleep(c, p) \/ ReleaseSleepClear(c, p) \/ ReleaseSleepUnlock(c, p)
    BY <2>5, ReleaseSleepPreserves, ReleaseSleepClearPreserves, ReleaseSleepUnlockPreserves
  <2>6. CASE \E q \in Slots : KillWakes(c, p, q)
    BY <2>6, KillWakesPreserves
  <2> QED BY <1>3, <2>1, <2>2, <2>3, <2>4, <2>5, <2>6 DEF Thread
<1> QED BY <1>1, <1>2, <1>3 DEF Next

\* The invariant holds when the threads start.
LEMMA InitHolds == Init => IInv
BY SchedAssumption DEF Init, IInv, TypeOK, CpuInv, OneCpuPerProcess, PlockInv, LkInv,
       StateInv, HolderInv, WakeInv, Exec, At, Slots, Null, ProcStates, Labels, LkLabels

\* The inductive invariant holds in every reachable state.
THEOREM Invariance == Spec => []IInv
BY InitHolds, NextPreserves, PTL DEF Spec

\* Types are respected, for every number of processes and CPUs.
THEOREM TypeCorrect == Spec => []TypeOK
BY Invariance, PTL DEF IInv

\* scheduler() never puts one kernel stack on two CPUs.
THEOREM OneCpu == Spec => []OneCpuPerProcess
BY Invariance, PTL DEF IInv

\* The holder of p->lock of a process that is not RUNNING has it off every CPU.
THEOREM FreeLockOffCpu == Spec => []FreeLockMeansOffCpu
<1>1. IInv => FreeLockMeansOffCpu
  <2> SUFFICES ASSUME IInv, NEW p \in Slots, plock[p] = NoCpu, state[p] # "RUNNING",
                      NEW c \in CPUS, cproc[c] = p
               PROVE  FALSE
    BY DEF FreeLockMeansOffCpu
  <2>1. spc[c] # "scan"
    BY DEF IInv, CpuInv, Slots, Null
  <2>2. spc[c] # "run"
    BY DEF IInv, StateInv, Exec
  <2>3. spc[c] # "back"
    BY SchedAssumption DEF IInv, PlockInv
  <2> QED BY <2>1, <2>2, <2>3 DEF IInv, TypeOK
<1> QED BY <1>1, Invariance, PTL

\* None of the panics of sched() is reachable.
THEOREM SchedSafe == Spec => []SchedNeverPanics
<1>1. IInv => SchedNeverPanics
  <2> SUFFICES ASSUME IInv, NEW c \in CPUS, spc[c] = "back"
               PROVE  /\ cproc[c] \in Slots
                      /\ plock[cproc[c]] = c
                      /\ lk # c
                      /\ \A q \in Slots : plock[q] = c => q = cproc[c]
                      /\ state[cproc[c]] # "RUNNING"
    BY DEF SchedNeverPanics
  <2>1. cproc[c] = sp[c] /\ sp[c] \in Slots
    BY DEF IInv, CpuInv, TypeOK
  <2>2. plock[cproc[c]] = c
    BY <2>1 DEF IInv, PlockInv
  <2>3. lk # c
    BY SchedAssumption DEF IInv, LkInv
  <2>4. \A q \in Slots : plock[q] = c => q = cproc[c]
    BY SchedAssumption DEF IInv, PlockInv
  <2>5. state[cproc[c]] # "RUNNING"
    BY <2>1 DEF IInv, StateInv
  <2> QED BY <2>1, <2>2, <2>3, <2>4, <2>5
<1> QED BY <1>1, Invariance, PTL

\* No wakeup of a sleeplock is ever lost.
THEOREM NoLostWakeup == Spec => []NoSleeperOnFreeLock
<1>1. IInv => NoSleeperOnFreeLock
  BY DEF IInv, WakeInv, LkInv, LkLabels, NoSleeperOnFreeLock
<1> QED BY <1>1, Invariance, PTL

\* The set of threads inside the lock is what lk->pid says.
LEMMA InsideIsHolder == IInv => Inside = IF holder = Null THEN {} ELSE {holder}
BY DEF IInv, TypeOK, HolderInv, Inside, Slots, Null

\* lk->locked and lk->pid, and so holdingsleep(), tell who is inside.
THEOREM HolderCorrect == Spec => []HolderIsInside
<1>1. IInv => HolderIsInside
  BY InsideIsHolder DEF IInv, HolderInv, HolderIsInside, Inside
<1> QED BY <1>1, Invariance, PTL

\* acquiresleep() and releasesleep() implement the abstract lock: at most one
\* thread is inside, and it is the one that leaves.
THEOREM Refinement == Spec => ImplementsMutex
<1>1. Init => M!Init
  BY InitHolds, InsideIsHolder DEF Init, M!Init
<1>2. IInv /\ [Next]_vars => [M!Next]_Inside
  <2> SUFFICES ASSUME IInv, [Next]_vars PROVE [M!Next]_Inside
    OBVIOUS
  <2>1. Inside = IF holder = Null THEN {} ELSE {holder}
    BY InsideIsHolder
  <2>2. Inside' = IF holder' = Null THEN {} ELSE {holder'}
    <3>1. IInv'
      BY NextPreserves
    <3> QED BY <3>1 DEF IInv, TypeOK, HolderInv, Inside, Slots, Null
  <2>3. ASSUME NEW c \in CPUS, NEW p \in Slots, AcquireSleepTake(c, p)
        PROVE  M!Enter(p)
    BY <2>1, <2>2, <2>3 DEF AcquireSleepTake, M!Enter, IInv, HolderInv, Slots, Null
  <2>4. ASSUME NEW c \in CPUS, NEW p \in Slots, ReleaseSleepClear(c, p)
        PROVE  M!Leave(p)
    <3>1. holder = p
      BY <2>4 DEF ReleaseSleepClear, IInv, HolderInv, At
    <3> QED BY <2>1, <2>2, <2>4, <3>1 DEF ReleaseSleepClear, M!Leave, Slots, Null
  <2>5. CASE holder' = holder
    BY <2>1, <2>2, <2>5
  <2>6. holder' = holder
        \/ \E c \in CPUS, p \in Slots : AcquireSleepTake(c, p) \/ ReleaseSleepClear(c, p)
    <3>1. ASSUME NEW c \in CPUS, Scheduler(c) PROVE holder' = holder
      BY <3>1 DEF Scheduler
    <3>2. ASSUME NEW c \in CPUS, NEW p \in Slots, Thread(c, p)
          PROVE  holder' = holder \/ AcquireSleepTake(c, p) \/ ReleaseSleepClear(c, p)
      <4>1. CASE Preempt(c, p) \/ Sleep(c, p)
        BY <4>1 DEF Preempt, Sleep
      <4>2. CASE AcquireSleep(c, p) \/ AcquireSleepWait(c, p)
        BY <4>2 DEF AcquireSleep, AcquireSleepWait
      <4>3. CASE ReleaseSleep(c, p) \/ ReleaseSleepWakeup(c, p) \/ ReleaseSleepUnlock(c, p)
        BY <4>3 DEF ReleaseSleep, ReleaseSleepWakeup, ReleaseSleepUnlock
      <4>4. CASE \E q \in Slots : KillWakes(c, p, q)
        BY <4>4 DEF KillWakes
      <4> QED BY <3>2, <4>1, <4>2, <4>3, <4>4 DEF Thread
    <3> QED BY <3>1, <3>2 DEF Next, vars
  <2> QED BY <2>3, <2>4, <2>5, <2>6 DEF M!Next
<1> QED BY <1>1, <1>2, Invariance, PTL DEF Spec, ImplementsMutex, M!Spec

=============================================================================
