------------------------------- MODULE Sched -------------------------------
(***************************************************************************)
(* Kernel threads, CPUs and the locks between them: the part of            *)
(* kernel/proc.c and kernel/spinlock.c that every blocking operation of    *)
(* xv6 is built on.  One CPU runs either its scheduler() loop or the       *)
(* kernel thread of one process; the two hand p->lock to each other across *)
(* swtch().                                                                *)
(*                                                                         *)
(* The module defines the steps of scheduler(), yield(), sleep() and       *)
(* wakeup() on the state they share.  It has no Next: SleepLock and Proc   *)
(* extend it with the code that calls these functions.                     *)
(*                                                                         *)
(* A step is a stretch of code between two points at which another CPU can *)
(* observe or change what it reads.  p->lock and lk, the condition lock    *)
(* given to sleep(), are held across such points and so are state; the     *)
(* leaf locks (pid_lock, kmem.lock, ...) are taken and given back inside   *)
(* one step.                                                               *)
(***************************************************************************)
EXTENDS Integers

CONSTANTS
  NPROC,   \* number of slots of the process table proc[]
  CPUS,    \* the harts
  NoCpu    \* lk->cpu of a lock nobody holds

ASSUME SchedAssumption ==
  /\ NPROC \in Nat \ {0}
  /\ NoCpu \notin CPUS

Slots == 0 .. NPROC - 1

\* The null pointer, where a pointer to a slot or a channel is expected.
Null == -1

ProcStates == {"UNUSED", "USED", "SLEEPING", "RUNNABLE", "RUNNING", "ZOMBIE"}

VARIABLES
  state,   \* p->state
  chan,    \* p->chan
  plock,   \* the CPU that holds p->lock
  lk,      \* the CPU that holds the condition lock
  cproc,   \* c->proc
  spc,     \* c is in scheduler()'s scan, in a process, or just back in scheduler()
  sp,      \* the loop variable p of c's scheduler()
  pc,      \* where the kernel thread of a process stands
  saved,   \* where a preempted kernel thread continues after yield()
  cur      \* loop variable of the table scan a kernel thread is in

schedVars == <<state, chan, plock, lk, cproc, spc, sp, pc, saved, cur>>

\* CPU c executes the kernel thread of p.
Exec(c, p) == spc[c] = "run" /\ cproc[c] = p

\* c holds no spinlock: noff is 0 and interrupts are enabled.
HoldsNone(c) == lk # c /\ \A q \in Slots : plock[q] # c

\* p's thread goes on to label l.
Goto(p, l) == pc' = [pc EXCEPT ![p] = l]

-----------------------------------------------------------------------------
(* scheduler() *)

NextSlot(p) == IF p = NPROC - 1 THEN 0 ELSE p + 1

\* One turn of the loop over a RUNNABLE process: acquire p->lock and switch to
\* the process with the lock still held.
SchedRun(c) ==
  /\ spc[c] = "scan"
  /\ plock[sp[c]] = NoCpu
  /\ state[sp[c]] = "RUNNABLE"
  /\ state' = [state EXCEPT ![sp[c]] = "RUNNING"]
  /\ cproc' = [cproc EXCEPT ![c] = sp[c]]
  /\ plock' = [plock EXCEPT ![sp[c]] = c]
  /\ spc' = [spc EXCEPT ![c] = "run"]
  /\ UNCHANGED <<chan, lk, sp, pc, saved, cur>>

\* One turn over a process that is not RUNNABLE.
SchedSkip(c) ==
  /\ spc[c] = "scan"
  /\ plock[sp[c]] = NoCpu
  /\ state[sp[c]] # "RUNNABLE"
  /\ sp' = [sp EXCEPT ![c] = NextSlot(sp[c])]
  /\ UNCHANGED <<state, chan, plock, lk, cproc, spc, pc, saved, cur>>

\* swtch() has returned to scheduler(): forget the process, release its lock.
SchedBack(c) ==
  /\ spc[c] = "back"
  /\ cproc' = [cproc EXCEPT ![c] = Null]
  /\ plock' = [plock EXCEPT ![sp[c]] = NoCpu]
  /\ spc' = [spc EXCEPT ![c] = "scan"]
  /\ sp' = [sp EXCEPT ![c] = NextSlot(sp[c])]
  /\ UNCHANGED <<state, chan, lk, pc, saved, cur>>

\* sched(): the thread on c switches to c's scheduler and stays at label l.
Swtch(c, p, l) ==
  /\ spc' = [spc EXCEPT ![c] = "back"]
  /\ Goto(p, l)

-----------------------------------------------------------------------------
(* yield(), called by usertrap() and kerneltrap() on a timer interrupt *)

Yield(c, p) ==
  /\ Exec(c, p)
  /\ HoldsNone(c)
  /\ plock[p] = NoCpu
  /\ plock' = [plock EXCEPT ![p] = c]
  /\ state' = [state EXCEPT ![p] = "RUNNABLE"]
  /\ saved' = [saved EXCEPT ![p] = pc[p]]
  /\ Swtch(c, p, "yield")
  /\ UNCHANGED <<chan, lk, cproc, sp, cur>>

\* Back from sched(): release p->lock and continue where the timer struck.
YieldReturn(c, p) ==
  /\ Exec(c, p)
  /\ pc[p] = "yield"
  /\ plock' = [plock EXCEPT ![p] = NoCpu]
  /\ Goto(p, saved[p])
  /\ saved' = [saved EXCEPT ![p] = "none"]
  /\ UNCHANGED <<state, chan, lk, cproc, spc, sp, cur>>

-----------------------------------------------------------------------------
(* sleep(ch, lk), called with lk held *)

\* Mutant: sleep() releases lk without taking p->lock first.
SleepAcquireSkipped(c, p) ==
  /\ Exec(c, p)
  /\ pc[p] = "sleep_acquire"
  /\ Goto(p, "sleep_release")
  /\ UNCHANGED <<state, chan, plock, lk, cproc, spc, sp, saved, cur>>

\* acquire(&p->lock)
SleepAcquire(c, p) ==
  /\ Exec(c, p)
  /\ pc[p] = "sleep_acquire"
  /\ plock[p] = NoCpu
  /\ plock' = [plock EXCEPT ![p] = c]
  /\ Goto(p, "sleep_release")
  /\ UNCHANGED <<state, chan, lk, cproc, spc, sp, saved, cur>>

\* Mutant: sleep() keeps lk.
SleepReleaseSkipped(c, p) ==
  /\ Exec(c, p)
  /\ pc[p] = "sleep_release"
  /\ Goto(p, "sleep_sched")
  /\ UNCHANGED <<state, chan, plock, lk, cproc, spc, sp, saved, cur>>

\* release(lk)
SleepRelease(c, p) ==
  /\ Exec(c, p)
  /\ pc[p] = "sleep_release"
  /\ lk' = NoCpu
  /\ Goto(p, "sleep_sched")
  /\ UNCHANGED <<state, chan, plock, cproc, spc, sp, saved, cur>>

\* p->chan = ch; p->state = SLEEPING; sched()
SleepSched(c, p, ch) ==
  /\ Exec(c, p)
  /\ pc[p] = "sleep_sched"
  /\ chan' = [chan EXCEPT ![p] = ch]
  /\ state' = [state EXCEPT ![p] = "SLEEPING"]
  /\ Swtch(c, p, "sleep_return")
  /\ UNCHANGED <<plock, lk, cproc, sp, saved, cur>>

\* Awake and scheduled again: p->chan = 0; release(&p->lock)
SleepReturn(c, p) ==
  /\ Exec(c, p)
  /\ pc[p] = "sleep_return"
  /\ chan' = [chan EXCEPT ![p] = Null]
  /\ plock' = [plock EXCEPT ![p] = NoCpu]
  /\ Goto(p, "sleep_reacquire")
  /\ UNCHANGED <<state, lk, cproc, spc, sp, saved, cur>>

\* A thread at label from takes lk and goes on to label to: the acquire(lk)
\* at the end of sleep() and the one at the head of a critical section.
AcquireLk(c, p, from, to) ==
  /\ Exec(c, p)
  /\ pc[p] = from
  /\ lk = NoCpu
  /\ lk' = c
  /\ Goto(p, to)
  /\ UNCHANGED <<state, chan, plock, cproc, spc, sp, saved, cur>>

-----------------------------------------------------------------------------
(* wakeup(ch), as the loop at label from that leaves for label to *)

\* One turn: lock slot cur[p] unless it is the caller's own, wake a sleeper on
\* ch, unlock.
WakeupStep(c, p, from, ch) ==
  /\ Exec(c, p)
  /\ pc[p] = from
  /\ cur[p] < NPROC
  /\ cur[p] # p => plock[cur[p]] = NoCpu
  /\ state' = [state EXCEPT ![cur[p]] =
       IF cur[p] # p /\ @ = "SLEEPING" /\ chan[cur[p]] = ch THEN "RUNNABLE" ELSE @]
  /\ cur' = [cur EXCEPT ![p] = @ + 1]
  /\ UNCHANGED <<chan, plock, lk, cproc, spc, sp, pc, saved>>

WakeupDone(c, p, from, to) ==
  /\ Exec(c, p)
  /\ pc[p] = from
  /\ cur[p] = NPROC
  /\ cur' = [cur EXCEPT ![p] = 0]
  /\ Goto(p, to)
  /\ UNCHANGED <<state, chan, plock, lk, cproc, spc, sp, saved>>

-----------------------------------------------------------------------------
(* What the hand-over of p->lock across swtch() guarantees *)

\* A kernel stack is in use on one CPU at most: scheduler() of one CPU never
\* switches to a process that another CPU still runs or has not yet left.
OneCpuPerProcess ==
  \A c, d \in CPUS : cproc[c] # Null /\ cproc[c] = cproc[d] => c = d

\* What p->lock is for: whoever takes the lock of a process that is not
\* RUNNING may rely on no CPU being on its stack ("make sure the child isn't
\* still in exit() or swtch()" in wait()).
FreeLockMeansOffCpu ==
  \A p \in Slots :
    plock[p] = NoCpu /\ state[p] # "RUNNING" => \A c \in CPUS : cproc[c] # p

\* sched() never panics: a thread that switches to the scheduler holds its
\* own p->lock, holds no other spinlock (noff == 1) and has changed p->state.
SchedNeverPanics ==
  \A c \in CPUS : spc[c] = "back" =>
    /\ cproc[c] \in Slots
    /\ plock[cproc[c]] = c
    /\ lk # c
    /\ \A q \in Slots : plock[q] = c => q = cproc[c]
    /\ state[cproc[c]] # "RUNNING"

=============================================================================
