-------------------------------- MODULE Proc --------------------------------
(***************************************************************************)
(* The life of processes in kernel/proc.c: fork(), exit(), wait(), kill()  *)
(* and the traps that call them, over the scheduler, sleep() and wakeup()  *)
(* of module Sched.  lk is wait_lock.                                      *)
(*                                                                         *)
(* User programs are arbitrary: a process in user space makes any system   *)
(* call of its set of calls at any time.  Open files, memory and names     *)
(* belong to other components; what fork() and exit() do to them cannot    *)
(* block on, or be seen through, the state modelled here, except that an   *)
(* allocation may fail.                                                    *)
(***************************************************************************)
EXTENDS Sched

CONSTANTS
  MaxPid,     \* bound: fork() is called only while nextpid <= MaxPid
  InitCalls,  \* the system calls the program of initproc makes
  UserCalls,  \* the system calls the other programs make
  KillArgs    \* the pids they pass to kill()

SysCalls == {"fork", "wait", "exit", "kill"}

ASSUME ProcAssumption ==
  /\ MaxPid \in Nat
  /\ InitCalls \subseteq SysCalls
  /\ UserCalls \subseteq SysCalls
  /\ KillArgs \subseteq Nat

VARIABLES
  pid,       \* p->pid
  parent,    \* p->parent
  killed,    \* p->killed
  nextpid,   \* the pid allocpid() returns next
  np,        \* fork(): the new process
  pp,        \* reparent(): its loop variable
  havekids,  \* wait(): its local of that name
  karg       \* kill(): its argument

procVars == <<pid, parent, killed, nextpid, np, pp, havekids, karg>>
vars == <<schedVars, procVars>>

\* initproc is the process userinit() allocates first.
initproc == 0

Labels ==
  {"none", "forkret", "user", "panic",
   "fork_scan", "fork_parent", "fork_runnable",
   "exit_wait_lock", "exit_reparent", "exit_wake_init", "exit_wake_parent",
   "exit_zombie", "exit_release", "exit_sched", "exited",
   "wait_lock", "wait_scan", "wait_decide",
   "kill_scan", "yield",
   "sleep_acquire", "sleep_release", "sleep_sched", "sleep_return",
   "sleep_reacquire"}

\* Every variable holds a value of its C type, with labels for code addresses.
TypeOK ==
  /\ state \in [Slots -> ProcStates]
  /\ chan \in [Slots -> Slots \cup {Null}]
  /\ plock \in [Slots -> CPUS \cup {NoCpu}]
  /\ lk \in CPUS \cup {NoCpu}
  /\ cproc \in [CPUS -> Slots \cup {Null}]
  /\ spc \in [CPUS -> {"scan", "run", "back"}]
  /\ sp \in [CPUS -> Slots]
  /\ pc \in [Slots -> Labels]
  /\ saved \in [Slots -> Labels]
  /\ cur \in [Slots -> 0 .. NPROC]
  /\ pid \in [Slots -> Nat]
  /\ parent \in [Slots -> Slots \cup {Null}]
  /\ killed \in [Slots -> BOOLEAN]
  /\ nextpid \in Nat
  /\ np \in [Slots -> Slots \cup {Null}]
  /\ pp \in [Slots -> 0 .. NPROC]
  /\ havekids \in [Slots -> BOOLEAN]
  /\ karg \in [Slots -> Nat]

\* After procinit() and userinit(): initproc is RUNNABLE, about to start in
\* forkret(); the other slots are UNUSED.
Init ==
  /\ state = [p \in Slots |-> IF p = initproc THEN "RUNNABLE" ELSE "UNUSED"]
  /\ chan = [p \in Slots |-> Null]
  /\ plock = [p \in Slots |-> NoCpu]
  /\ lk = NoCpu
  /\ cproc = [c \in CPUS |-> Null]
  /\ spc = [c \in CPUS |-> "scan"]
  /\ sp = [c \in CPUS |-> 0]
  /\ pc = [p \in Slots |-> IF p = initproc THEN "forkret" ELSE "none"]
  /\ saved = [p \in Slots |-> "none"]
  /\ cur = [p \in Slots |-> 0]
  /\ pid = [p \in Slots |-> IF p = initproc THEN 1 ELSE 0]
  /\ parent = [p \in Slots |-> Null]
  /\ killed = [p \in Slots |-> FALSE]
  /\ nextpid = 2
  /\ np = [p \in Slots |-> Null]
  /\ pp = [p \in Slots |-> 0]
  /\ havekids = [p \in Slots |-> FALSE]
  /\ karg = [p \in Slots |-> 0]

-----------------------------------------------------------------------------
(* User space and the trap into the kernel *)

\* A new process starts: release the p->lock that scheduler() took for it.
Forkret(c, p) ==
  /\ Exec(c, p)
  /\ pc[p] = "forkret"
  /\ plock' = [plock EXCEPT ![p] = NoCpu]
  /\ Goto(p, "user")
  /\ UNCHANGED <<state, chan, lk, cproc, spc, sp, saved, cur, procVars>>

Calls(p) == IF p = initproc THEN InitCalls ELSE UserCalls

\* exit() of initproc panics; any other process goes on to wait_lock.
ExitLabel(p) == IF p = initproc THEN "panic" ELSE "exit_wait_lock"

\* Mutant: exit() takes p->lock before wait_lock.
TrapKilledLocks(c, p) ==
  /\ Exec(c, p)
  /\ pc[p] = "user"
  /\ killed[p]
  /\ plock[p] = NoCpu
  /\ plock' = [plock EXCEPT ![p] = c]
  /\ Goto(p, ExitLabel(p))
  /\ UNCHANGED <<state, chan, lk, cproc, spc, sp, saved, cur, procVars>>

\* usertrap() of a killed process: exit(-1), whatever it trapped for.
TrapKilled(c, p) ==
  /\ Exec(c, p)
  /\ pc[p] = "user"
  /\ killed[p]
  /\ Goto(p, ExitLabel(p))
  /\ UNCHANGED <<state, chan, plock, lk, cproc, spc, sp, saved, cur, procVars>>

\* usertrap() and syscall(): the trap of a system call by a live process.
Syscall(c, p) ==
  /\ Exec(c, p)
  /\ pc[p] = "user"
  /\ ~killed[p]
  /\ \/ /\ "fork" \in Calls(p) /\ nextpid <= MaxPid
        /\ Goto(p, "fork_scan")
        /\ UNCHANGED karg
     \/ /\ "wait" \in Calls(p)
        /\ Goto(p, "wait_lock")
        /\ UNCHANGED karg
     \/ /\ "exit" \in Calls(p)
        /\ Goto(p, ExitLabel(p))
        /\ UNCHANGED karg
     \/ /\ "kill" \in Calls(p)
        /\ \E k \in KillArgs : karg' = [karg EXCEPT ![p] = k]
        /\ Goto(p, "kill_scan")
  /\ UNCHANGED <<state, chan, plock, lk, cproc, spc, sp, saved, cur,
                 pid, parent, killed, nextpid, np, pp, havekids>>

-----------------------------------------------------------------------------
(* fork() *)

\* allocproc() looks at slot cur: not UNUSED, or past the end of the table.
ForkScan(c, p) ==
  /\ Exec(c, p)
  /\ pc[p] = "fork_scan"
  /\ \/ /\ cur[p] = NPROC
        /\ cur' = [cur EXCEPT ![p] = 0]
        /\ Goto(p, "user")
     \/ /\ cur[p] < NPROC
        /\ plock[cur[p]] = NoCpu
        /\ state[cur[p]] # "UNUSED"
        /\ cur' = [cur EXCEPT ![p] = @ + 1]
        /\ UNCHANGED pc
  /\ UNCHANGED <<state, chan, plock, lk, cproc, spc, sp, saved, procVars>>

\* The fields freeproc(q) clears.
FreeProc(q) ==
  /\ pid' = [pid EXCEPT ![q] = 0]
  /\ parent' = [parent EXCEPT ![q] = Null]
  /\ chan' = [chan EXCEPT ![q] = Null]
  /\ killed' = [killed EXCEPT ![q] = FALSE]
  /\ state' = [state EXCEPT ![q] = "UNUSED"]

\* allocpid(), under pid_lock.
AllocPid == nextpid' = nextpid + 1

\* Mutant: allocproc() leaves the slot UNUSED until fork() makes it RUNNABLE.
AllocProcUnused(q) ==
  /\ AllocPid
  /\ pid' = [pid EXCEPT ![q] = nextpid]
  /\ state' = state

\* What allocproc() makes of slot q.
AllocProc(q) ==
  /\ AllocPid
  /\ pid' = [pid EXCEPT ![q] = nextpid]
  /\ state' = [state EXCEPT ![q] = "USED"]

\* allocproc() finds slot cur UNUSED and fork() copies the parent into it,
\* all under the lock of that slot.
ForkAlloc(c, p) ==
  /\ Exec(c, p)
  /\ pc[p] = "fork_scan"
  /\ cur[p] < NPROC
  /\ plock[cur[p]] = NoCpu
  /\ state[cur[p]] = "UNUSED"
  /\ AllocProc(cur[p])
  /\ np' = [np EXCEPT ![p] = cur[p]]
  /\ pc' = [pc EXCEPT ![p] = "fork_parent", ![cur[p]] = "forkret"]
  /\ cur' = [cur EXCEPT ![p] = 0]
  /\ UNCHANGED <<chan, plock, lk, cproc, spc, sp, saved,
                 parent, killed, pp, havekids, karg>>

\* The same, when an allocation or uvmcopy() fails: the slot is freed again,
\* its pid is lost, fork() returns -1.
ForkAllocFails(c, p) ==
  /\ Exec(c, p)
  /\ pc[p] = "fork_scan"
  /\ cur[p] < NPROC
  /\ plock[cur[p]] = NoCpu
  /\ state[cur[p]] = "UNUSED"
  /\ AllocPid
  /\ FreeProc(cur[p])
  /\ Goto(p, "user")
  /\ cur' = [cur EXCEPT ![p] = 0]
  /\ UNCHANGED <<plock, lk, cproc, spc, sp, saved, np, pp, havekids, karg>>

\* np->parent = p, under wait_lock.
ForkParent(c, p) ==
  /\ Exec(c, p)
  /\ pc[p] = "fork_parent"
  /\ lk = NoCpu
  /\ parent' = [parent EXCEPT ![np[p]] = p]
  /\ Goto(p, "fork_runnable")
  /\ UNCHANGED <<state, chan, plock, lk, cproc, spc, sp, saved, cur,
                 pid, killed, nextpid, np, pp, havekids, karg>>

\* np->state = RUNNABLE, under np->lock.
ForkRunnable(c, p) ==
  /\ Exec(c, p)
  /\ pc[p] = "fork_runnable"
  /\ plock[np[p]] = NoCpu
  /\ state' = [state EXCEPT ![np[p]] = "RUNNABLE"]
  /\ np' = [np EXCEPT ![p] = Null]
  /\ Goto(p, "user")
  /\ UNCHANGED <<chan, plock, lk, cproc, spc, sp, saved, cur,
                 pid, parent, killed, nextpid, pp, havekids, karg>>

-----------------------------------------------------------------------------
(* exit() *)

ExitWaitLock(c, p) ==
  /\ AcquireLk(c, p, "exit_wait_lock", "exit_reparent")
  /\ UNCHANGED procVars

\* Mutant: reparent() clears p->parent.
AdoptNobody(q) == parent' = [parent EXCEPT ![q] = Null]

\* What reparent() does to a child.
Adopt(q) == parent' = [parent EXCEPT ![q] = initproc]

\* One turn of reparent()'s loop: a child of p is given to initproc, which
\* is then woken.
Reparent(c, p) ==
  /\ Exec(c, p)
  /\ pc[p] = "exit_reparent"
  /\ \/ /\ pp[p] = NPROC
        /\ pp' = [pp EXCEPT ![p] = 0]
        /\ Goto(p, "exit_wake_parent")
        /\ UNCHANGED parent
     \/ /\ pp[p] < NPROC
        /\ pp' = [pp EXCEPT ![p] = @ + 1]
        /\ \/ /\ parent[pp[p]] = p
              /\ Adopt(pp[p])
              /\ Goto(p, "exit_wake_init")
           \/ /\ parent[pp[p]] # p
              /\ UNCHANGED <<parent, pc>>
  /\ UNCHANGED <<state, chan, plock, lk, cproc, spc, sp, saved, cur,
                 pid, killed, nextpid, np, havekids, karg>>

\* wakeup(initproc) inside reparent()
ExitWakeInit(c, p) ==
  /\ \/ WakeupStep(c, p, "exit_wake_init", initproc)
     \/ WakeupDone(c, p, "exit_wake_init", "exit_reparent")
  /\ UNCHANGED procVars

\* Mutant: exit() does not wake the parent.
ExitWakeNobody(c, p) ==
  /\ Exec(c, p)
  /\ pc[p] = "exit_wake_parent"
  /\ Goto(p, "exit_zombie")
  /\ UNCHANGED <<state, chan, plock, lk, cproc, spc, sp, saved, cur, procVars>>

\* wakeup(p->parent)
ExitWakeParent(c, p) ==
  /\ \/ WakeupStep(c, p, "exit_wake_parent", parent[p])
     \/ WakeupDone(c, p, "exit_wake_parent", "exit_zombie")
  /\ UNCHANGED procVars

\* Mutant: ZOMBIE is set without acquiring p->lock.
ExitZombieUnlocked(c, p) ==
  /\ Exec(c, p)
  /\ pc[p] = "exit_zombie"
  /\ state' = [state EXCEPT ![p] = "ZOMBIE"]
  /\ Goto(p, "exit_release")
  /\ UNCHANGED <<chan, plock, lk, cproc, spc, sp, saved, cur, procVars>>

\* acquire(&p->lock); p->state = ZOMBIE
ExitZombie(c, p) ==
  /\ Exec(c, p)
  /\ pc[p] = "exit_zombie"
  /\ plock[p] = NoCpu
  /\ plock' = [plock EXCEPT ![p] = c]
  /\ state' = [state EXCEPT ![p] = "ZOMBIE"]
  /\ Goto(p, "exit_release")
  /\ UNCHANGED <<chan, lk, cproc, spc, sp, saved, cur, procVars>>

\* release(&wait_lock)
ExitRelease(c, p) ==
  /\ Exec(c, p)
  /\ pc[p] = "exit_release"
  /\ lk' = NoCpu
  /\ Goto(p, "exit_sched")
  /\ UNCHANGED <<state, chan, plock, cproc, spc, sp, saved, cur, procVars>>

\* sched(), never to return
ExitSched(c, p) ==
  /\ Exec(c, p)
  /\ pc[p] = "exit_sched"
  /\ Swtch(c, p, "exited")
  /\ UNCHANGED <<state, chan, plock, lk, cproc, sp, saved, cur, procVars>>

-----------------------------------------------------------------------------
(* wait() *)

WaitLock(c, p) ==
  /\ AcquireLk(c, p, "wait_lock", "wait_scan")
  /\ UNCHANGED procVars

\* One turn of the scan over a slot that is not an exited child of p.
WaitScan(c, p) ==
  /\ Exec(c, p)
  /\ pc[p] = "wait_scan"
  /\ \/ /\ cur[p] = NPROC
        /\ cur' = [cur EXCEPT ![p] = 0]
        /\ Goto(p, "wait_decide")
        /\ UNCHANGED havekids
     \/ /\ cur[p] < NPROC
        /\ parent[cur[p]] # p
        /\ cur' = [cur EXCEPT ![p] = @ + 1]
        /\ UNCHANGED <<pc, havekids>>
     \/ /\ cur[p] < NPROC
        /\ parent[cur[p]] = p
        /\ plock[cur[p]] = NoCpu
        /\ state[cur[p]] # "ZOMBIE"
        /\ havekids' = [havekids EXCEPT ![p] = TRUE]
        /\ cur' = [cur EXCEPT ![p] = @ + 1]
        /\ UNCHANGED pc
  /\ UNCHANGED <<state, chan, plock, lk, cproc, spc, sp, saved,
                 pid, parent, killed, nextpid, np, pp, karg>>

\* The scan finds an exited child: free it and return its pid.
WaitReap(c, p) ==
  /\ Exec(c, p)
  /\ pc[p] = "wait_scan"
  /\ cur[p] < NPROC
  /\ parent[cur[p]] = p
  /\ plock[cur[p]] = NoCpu
  /\ state[cur[p]] = "ZOMBIE"
  /\ FreeProc(cur[p])
  /\ pc' = [pc EXCEPT ![cur[p]] = "none", ![p] = "user"]
  /\ lk' = NoCpu
  /\ cur' = [cur EXCEPT ![p] = 0]
  /\ havekids' = [havekids EXCEPT ![p] = FALSE]
  /\ UNCHANGED <<plock, cproc, spc, sp, saved, nextpid, np, pp, karg>>

\* The same, when copyout() of the exit status fails: return -1, keep the
\* child.
WaitCopyoutFails(c, p) ==
  /\ Exec(c, p)
  /\ pc[p] = "wait_scan"
  /\ p # initproc    \* init.c passes a null address: no copyout()
  /\ cur[p] < NPROC
  /\ parent[cur[p]] = p
  /\ plock[cur[p]] = NoCpu
  /\ state[cur[p]] = "ZOMBIE"
  /\ Goto(p, "user")
  /\ lk' = NoCpu
  /\ cur' = [cur EXCEPT ![p] = 0]
  /\ havekids' = [havekids EXCEPT ![p] = FALSE]
  /\ UNCHANGED <<state, chan, plock, cproc, spc, sp, saved,
                 pid, parent, killed, nextpid, np, pp, karg>>

\* After the scan: give up without children or when killed, else sleep.
WaitDecide(c, p) ==
  /\ Exec(c, p)
  /\ pc[p] = "wait_decide"
  /\ \/ /\ ~havekids[p] \/ killed[p]
        /\ lk' = NoCpu
        /\ Goto(p, "user")
     \/ /\ havekids[p] /\ ~killed[p]
        /\ Goto(p, "sleep_acquire")
        /\ UNCHANGED lk
  /\ havekids' = [havekids EXCEPT ![p] = FALSE]
  /\ UNCHANGED <<state, chan, plock, cproc, spc, sp, saved, cur,
                 pid, parent, killed, nextpid, np, pp, karg>>

\* sleep(p, &wait_lock)
WaitSleep(c, p) ==
  /\ \/ SleepAcquire(c, p)
     \/ SleepRelease(c, p)
     \/ SleepSched(c, p, p)
     \/ SleepReturn(c, p)
     \/ AcquireLk(c, p, "sleep_reacquire", "wait_scan")
  /\ UNCHANGED procVars

-----------------------------------------------------------------------------
(* kill() *)

\* One turn of the loop over a slot with another pid, or the end of it.
KillScan(c, p) ==
  /\ Exec(c, p)
  /\ pc[p] = "kill_scan"
  /\ \/ /\ cur[p] = NPROC
        /\ cur' = [cur EXCEPT ![p] = 0]
        /\ karg' = [karg EXCEPT ![p] = 0]
        /\ Goto(p, "user")
     \/ /\ cur[p] < NPROC
        /\ plock[cur[p]] = NoCpu
        /\ pid[cur[p]] # karg[p]
        /\ cur' = [cur EXCEPT ![p] = @ + 1]
        /\ UNCHANGED <<pc, karg>>
  /\ UNCHANGED <<state, chan, plock, lk, cproc, spc, sp, saved,
                 pid, parent, killed, nextpid, np, pp, havekids>>

\* What kill() does to its victim.
MarkKilled(q) ==
  /\ killed' = [killed EXCEPT ![q] = TRUE]
  /\ state' = [state EXCEPT ![q] = IF @ = "SLEEPING" THEN "RUNNABLE" ELSE @]

\* The slot has the pid: mark it killed, wake it if it sleeps, return 0.
KillFound(c, p) ==
  /\ Exec(c, p)
  /\ pc[p] = "kill_scan"
  /\ cur[p] < NPROC
  /\ plock[cur[p]] = NoCpu
  /\ pid[cur[p]] = karg[p]
  /\ MarkKilled(cur[p])
  /\ cur' = [cur EXCEPT ![p] = 0]
  /\ karg' = [karg EXCEPT ![p] = 0]
  /\ Goto(p, "user")
  /\ UNCHANGED <<chan, plock, lk, cproc, spc, sp, saved,
                 pid, parent, nextpid, np, pp, havekids>>

-----------------------------------------------------------------------------

Scheduler(c) ==
  /\ SchedRun(c) \/ SchedSkip(c) \/ SchedBack(c)
  /\ UNCHANGED procVars

Preempt(c, p) ==
  /\ Yield(c, p) \/ YieldReturn(c, p)
  /\ UNCHANGED procVars

Fork(c, p) ==
  \/ ForkScan(c, p) \/ ForkAlloc(c, p) \/ ForkAllocFails(c, p)
  \/ ForkParent(c, p) \/ ForkRunnable(c, p)

Exit(c, p) ==
  \/ ExitWaitLock(c, p) \/ Reparent(c, p) \/ ExitWakeInit(c, p)
  \/ ExitWakeParent(c, p) \/ ExitZombie(c, p) \/ ExitRelease(c, p)
  \/ ExitSched(c, p)

Wait(c, p) ==
  \/ WaitLock(c, p) \/ WaitScan(c, p) \/ WaitReap(c, p)
  \/ WaitCopyoutFails(c, p) \/ WaitDecide(c, p) \/ WaitSleep(c, p)

Kill(c, p) == KillScan(c, p) \/ KillFound(c, p)

Thread(c, p) ==
  \/ Forkret(c, p) \/ TrapKilled(c, p) \/ Syscall(c, p)
  \/ Fork(c, p) \/ Exit(c, p) \/ Wait(c, p) \/ Kill(c, p) \/ Preempt(c, p)

Next ==
  \/ \E c \in CPUS : Scheduler(c)
  \/ \E c \in CPUS, p \in Slots : Thread(c, p)

Spec == Init /\ [][Next]_vars

-----------------------------------------------------------------------------
(* Safety *)

\* Where p's thread stands once a preemption is over.
At(p) == IF pc[p] = "yield" THEN saved[p] ELSE pc[p]

\* The CPUs that hold a lock c is spinning for in acquire().
WaitsFor(c) ==
  IF spc[c] = "scan" THEN {plock[sp[c]]}
  ELSE IF spc[c] # "run" THEN {}
  ELSE LET p == cproc[c] IN
    {x \in CPUS \cup {NoCpu} :
      \/ /\ pc[p] \in {"exit_wait_lock", "wait_lock", "sleep_reacquire", "fork_parent"}
         /\ x = lk
      \/ /\ pc[p] \in {"exit_zombie", "sleep_acquire"}
         /\ x = plock[p]
      \/ /\ pc[p] = "fork_runnable"
         /\ x = plock[np[p]]
      \/ /\ pc[p] \in {"fork_scan", "kill_scan"}
         /\ cur[p] < NPROC
         /\ x = plock[cur[p]]
      \/ /\ pc[p] \in {"exit_wake_init", "exit_wake_parent"}
         /\ cur[p] < NPROC /\ cur[p] # p
         /\ x = plock[cur[p]]
      \/ /\ pc[p] = "wait_scan"
         /\ cur[p] < NPROC /\ parent[cur[p]] = p
         /\ x = plock[cur[p]]} \ {NoCpu}

\* No CPUs wait for each other's spinlocks in a circle, and none acquires a
\* lock it holds: wait_lock is always taken before any p->lock.
NoSpinDeadlock ==
  \A S \in SUBSET CPUS :
    S # {} => \E c \in S : \A d \in S : d \notin WaitsFor(c)

\* No lost wakeup between exit() and wait(): while nobody is inside wait_lock,
\* no process sleeps that has an exited child to reap.
NoZombieForSleeper ==
  lk = NoCpu =>
    \A p, q \in Slots :
      state[q] = "ZOMBIE" /\ parent[q] = p => state[p] # "SLEEPING"

\* exit() leaves no child with a dead parent: at every moment each process that
\* has started has a parent that is alive and can still wait() for it.
ParentAlive ==
  \A q \in Slots \ {initproc} :
    state[q] \notin {"UNUSED", "USED"} =>
      /\ parent[q] \in Slots \ {q}
      /\ state[parent[q]] \notin {"UNUSED", "USED", "ZOMBIE"}

\* fork() lets go of np->lock twice before its child may run; the child is
\* still its own each time it takes the lock again.
ForkKeepsChild ==
  \A p \in Slots : At(p) \in {"fork_parent", "fork_runnable"} =>
    /\ np[p] \in Slots
    /\ state[np[p]] = "USED"
    /\ parent[np[p]] = IF At(p) = "fork_parent" THEN Null ELSE p
    /\ \A q \in Slots : q # p => np[q] # np[p]

=============================================================================
