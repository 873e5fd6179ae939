----------------------------- MODULE SleepLock -----------------------------
(***************************************************************************)
(* kernel/sleeplock.c: a lock that is waited for asleep, at the            *)
(* granularity of the spinlocks and of sleep()/wakeup() of module Sched.   *)
(* lk is the sleeplock's own spinlock lk->lk.                              *)
(*                                                                         *)
(* Every process of the table is a kernel thread that acquires and         *)
(* releases one sleeplock forever, may be preempted wherever interrupts    *)
(* are on, and may be woken by a kill() meant for it while it waits.       *)
(***************************************************************************)
EXTENDS Sched

VARIABLES
  locked,  \* lk->locked
  holder   \* lk->pid, as the slot of the process (Null for pid 0)

vars == <<schedVars, locked, holder>>

\* The address of the sleeplock, the channel its waiters sleep on.
SleepChan == NPROC

Labels == {"idle", "check", "held", "release", "wakeup", "unlock", "yield",
           "sleep_acquire", "sleep_release", "sleep_sched", "sleep_return",
           "sleep_reacquire"}

\* Every variable holds a value of its C type, with labels for code addresses.
TypeOK ==
  /\ state \in [Slots -> ProcStates]
  /\ chan \in [Slots -> Slots \cup {SleepChan, Null}]
  /\ plock \in [Slots -> CPUS \cup {NoCpu}]
  /\ lk \in CPUS \cup {NoCpu}
  /\ cproc \in [CPUS -> Slots \cup {Null}]
  /\ spc \in [CPUS -> {"scan", "run", "back"}]
  /\ sp \in [CPUS -> Slots]
  /\ pc \in [Slots -> Labels]
  /\ saved \in [Slots -> Labels \cup {"none"}]
  /\ cur \in [Slots -> 0 .. NPROC]
  /\ locked \in {0, 1}
  /\ holder \in Slots \cup {Null}

\* Every thread is RUNNABLE and will start as a preempted thread resumes: by
\* releasing the p->lock that scheduler() took.
Init ==
  /\ state = [p \in Slots |-> "RUNNABLE"]
  /\ chan = [p \in Slots |-> Null]
  /\ plock = [p \in Slots |-> NoCpu]
  /\ lk = NoCpu
  /\ cproc = [c \in CPUS |-> Null]
  /\ spc = [c \in CPUS |-> "scan"]
  /\ sp = [c \in CPUS |-> 0]
  /\ pc = [p \in Slots |-> "yield"]
  /\ saved = [p \in Slots |-> "idle"]
  /\ cur = [p \in Slots |-> 0]
  /\ locked = 0
  /\ holder = Null

-----------------------------------------------------------------------------
(* acquiresleep() *)

AcquireSleep(c, p) ==
  /\ AcquireLk(c, p, "idle", "check")
  /\ UNCHANGED <<locked, holder>>

\* The loop's test finds the lock taken: sleep.
AcquireSleepWait(c, p) ==
  /\ Exec(c, p)
  /\ pc[p] = "check"
  /\ locked = 1
  /\ Goto(p, "sleep_acquire")
  /\ UNCHANGED <<state, chan, plock, lk, cproc, spc, sp, saved, cur, locked, holder>>

\* Mutant: "if" for "while" around sleep().
AcquireSleepTakeUnchecked(c, p) ==
  /\ Exec(c, p)
  /\ pc[p] = "check"
  /\ locked' = 1
  /\ holder' = p
  /\ lk' = NoCpu
  /\ Goto(p, "held")
  /\ UNCHANGED <<state, chan, plock, cproc, spc, sp, saved, cur>>

\* The loop's test finds the lock free: take it and release lk.
AcquireSleepTake(c, p) ==
  /\ Exec(c, p)
  /\ pc[p] = "check"
  /\ locked = 0
  /\ locked' = 1
  /\ holder' = p
  /\ lk' = NoCpu
  /\ Goto(p, "held")
  /\ UNCHANGED <<state, chan, plock, cproc, spc, sp, saved, cur>>

(* releasesleep() *)

ReleaseSleep(c, p) ==
  /\ AcquireLk(c, p, "held", "release")
  /\ UNCHANGED <<locked, holder>>

ReleaseSleepClear(c, p) ==
  /\ Exec(c, p)
  /\ pc[p] = "release"
  /\ locked' = 0
  /\ holder' = Null
  /\ Goto(p, "wakeup")
  /\ UNCHANGED <<state, chan, plock, lk, cproc, spc, sp, saved, cur>>

\* Mutant: no wakeup().
ReleaseSleepNoWakeup(c, p) ==
  /\ Exec(c, p)
  /\ pc[p] = "wakeup"
  /\ Goto(p, "unlock")
  /\ UNCHANGED <<state, chan, plock, lk, cproc, spc, sp, saved, cur, locked, holder>>

ReleaseSleepWakeup(c, p) ==
  /\ \/ WakeupStep(c, p, "wakeup", SleepChan)
     \/ WakeupDone(c, p, "wakeup", "unlock")
  /\ UNCHANGED <<locked, holder>>

ReleaseSleepUnlock(c, p) ==
  /\ Exec(c, p)
  /\ pc[p] = "unlock"
  /\ lk' = NoCpu
  /\ Goto(p, "idle")
  /\ UNCHANGED <<state, chan, plock, cproc, spc, sp, saved, cur, locked, holder>>

(* sleep(lk, &lk->lk) *)

Sleep(c, p) ==
  /\ \/ SleepAcquire(c, p)
     \/ SleepRelease(c, p)
     \/ SleepSched(c, p, SleepChan)
     \/ SleepReturn(c, p)
     \/ AcquireLk(c, p, "sleep_reacquire", "check")
  /\ UNCHANGED <<locked, holder>>

\* The part of kill() a waiter for a sleeplock can notice: it is made
\* RUNNABLE although nobody called wakeup().
KillWakes(c, p, q) ==
  /\ Exec(c, p)
  /\ pc[p] = "idle"
  /\ plock[q] = NoCpu
  /\ state[q] = "SLEEPING"
  /\ state' = [state EXCEPT ![q] = "RUNNABLE"]
  /\ UNCHANGED <<chan, plock, lk, cproc, spc, sp, pc, saved, cur, locked, holder>>

Scheduler(c) ==
  /\ SchedRun(c) \/ SchedSkip(c) \/ SchedBack(c)
  /\ UNCHANGED <<locked, holder>>

Preempt(c, p) ==
  /\ Yield(c, p) \/ YieldReturn(c, p)
  /\ UNCHANGED <<locked, holder>>

Thread(c, p) ==
  \/ AcquireSleep(c, p)
  \/ AcquireSleepWait(c, p)
  \/ AcquireSleepTake(c, p)
  \/ ReleaseSleep(c, p)
  \/ ReleaseSleepClear(c, p)
  \/ ReleaseSleepWakeup(c, p)
  \/ ReleaseSleepUnlock(c, p)
  \/ Sleep(c, p)
  \/ Preempt(c, p)
  \/ \E q \in Slots : KillWakes(c, p, q)

Next ==
  \/ \E c \in CPUS : Scheduler(c)
  \/ \E c \in CPUS, p \in Slots : Thread(c, p)

Spec == Init /\ [][Next]_vars

-----------------------------------------------------------------------------
(* Safety *)

\* Where p's thread stands once a preemption is over.
At(p) == IF pc[p] = "yield" THEN saved[p] ELSE pc[p]

\* The threads that have returned from acquiresleep() and have not yet given
\* the lock back.
Inside == {p \in Slots : At(p) \in {"held", "release"}}

M == INSTANCE Mutex WITH Threads <- Slots, inside <- Inside

\* acquiresleep() and releasesleep() implement a mutual exclusion lock.
ImplementsMutex == M!Spec

\* What holdingsleep() reports is the truth: the lock is marked as taken, with
\* this pid, exactly by the thread that is inside.
HolderIsInside ==
  /\ (locked = 1) <=> (Inside # {})
  /\ \A p \in Slots : (holder = p) <=> (p \in Inside)

\* No lost wakeup ("Once we hold p->lock, we can be guaranteed that we won't
\* miss any wakeup", sleep()): nobody sleeps on a free lock unless a thread
\* inside lk is still on its way through wakeup()'s loop to it.
NoSleeperOnFreeLock ==
  locked = 0 /\ lk = NoCpu => \A p \in Slots : state[p] # "SLEEPING"

-----------------------------------------------------------------------------
(* Liveness *)

\* The steps of p's thread inside acquiresleep() and releasesleep().
KernelStep(p) ==
  \E c \in CPUS :
    \/ AcquireSleepWait(c, p) \/ AcquireSleepTake(c, p) \/ ReleaseSleepClear(c, p)
    \/ ReleaseSleepWakeup(c, p) \/ ReleaseSleepUnlock(c, p)
    \/ Sleep(c, p)

Timer(p) == \E c \in CPUS : Preempt(c, p)

\* A CPU that spins in acquire() gets a lock that is free again and again; a
\* timer interrupt comes again and again; a holder calls releasesleep().
Fairness ==
  /\ \A c \in CPUS : SF_vars(Scheduler(c))
  /\ \A p \in Slots :
       /\ SF_vars(KernelStep(p))
       /\ SF_vars(Timer(p))
       /\ SF_vars(\E c \in CPUS : ReleaseSleep(c, p))

FairSpec == Spec /\ Fairness

\* A thread that waits always runs again: releasesleep() leaves no sleeper
\* behind, however long others hold the lock, and the round-robin scan of
\* scheduler() passes no RUNNABLE thread for ever.
SleeperWakes == \A p \in Slots : []<>(state[p] = "RUNNING")

=============================================================================
