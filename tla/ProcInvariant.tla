--------------------------- MODULE ProcInvariant ---------------------------
(***************************************************************************)
(* The inductive invariant of the process table, in three parts (who holds *)
(* which lock and in which state a process is; the family tree; who sleeps *)
(* and who has exited), and the steps that leave each part alone.          *)
(***************************************************************************)
EXTENDS Proc

\* The labels at which a thread on a CPU holds its own p->lock, and wait_lock,
\* and those at which it holds neither and may be preempted.
PLabels == {"forkret", "yield", "sleep_release", "sleep_sched", "sleep_return",
            "exit_release", "exit_sched"}
LkLabels == {"exit_reparent", "exit_wake_init", "exit_wake_parent", "exit_zombie",
             "exit_release", "wait_scan", "wait_decide", "sleep_acquire", "sleep_release"}
FreeLabels == {"user", "panic", "fork_scan", "fork_parent", "fork_runnable",
               "exit_wait_lock", "wait_lock", "kill_scan", "sleep_reacquire"}

\* The labels of fork() after allocproc(), of exit() before and after it has
\* become a ZOMBIE, and of the loops over the process table.
ForkLabels == {"fork_parent", "fork_runnable"}
OrphanLabels == {"exit_reparent", "exit_wake_init"}
ZombieLabels == {"exit_release", "exit_sched", "exited"}
ChildlessLabels == {"exit_wake_parent", "exit_zombie"} \cup ZombieLabels
ScanLabels == {"fork_scan", "kill_scan", "exit_wake_init", "exit_wake_parent", "wait_scan"}

\* The part of TypeOK that the rest of the invariant relies on.
TableType ==
  /\ state \in [Slots -> ProcStates]
  /\ chan \in [Slots -> Slots \cup {Null}]
  /\ plock \in [Slots -> CPUS \cup {NoCpu}]
  /\ lk \in CPUS \cup {NoCpu}
  /\ cproc \in [CPUS -> Slots \cup {Null}]
  /\ spc \in [CPUS -> {"scan", "run", "back"}]
  /\ sp \in [CPUS -> Slots]
  /\ pc \in [Slots -> Labels]
  /\ saved \in [Slots -> Labels]
  /\ cur \in [Slots -> 0 .. NPROC]
  /\ parent \in [Slots -> Slots \cup {Null}]
  /\ np \in [Slots -> Slots \cup {Null}]
  /\ pp \in [Slots -> 0 .. NPROC]

\* c->proc and the loop variable of scheduler() agree.
CpuInv ==
  \A c \in CPUS :
    /\ spc[c] = "scan" => cproc[c] = Null
    /\ spc[c] # "scan" => cproc[c] = sp[c]

\* p->lock is held by the CPU whose thread is at a label of PLabels, and by
\* the CPU that is just back in scheduler(); a thread on its way to sleep
\* does not lose it.
PlockInv ==
  /\ \A p \in Slots : plock[p] # NoCpu =>
       /\ cproc[plock[p]] = p
       /\ spc[plock[p]] = "run" => pc[p] \in PLabels
  /\ \A c \in CPUS, p \in Slots :
       cproc[c] = p /\ (spc[c] = "back" \/ pc[p] \in PLabels) => plock[p] = c
  /\ \A p \in Slots : pc[p] \in {"sleep_release", "sleep_sched"} => plock[p] # NoCpu

\* wait_lock is held by the CPU whose thread is at a label of LkLabels.
LkInv ==
  /\ lk # NoCpu => spc[lk] = "run" /\ pc[cproc[lk]] \in LkLabels
  /\ \A p \in Slots : pc[p] \in LkLabels => lk # NoCpu /\ Exec(lk, p)

\* How p->state goes with the place of the thread, and with the CPU it is on.
StateOf(p) ==
  /\ state[p] = "UNUSED" <=> pc[p] = "none"
  /\ state[p] = "USED" => pc[p] = "forkret"
  /\ state[p] = "RUNNABLE" => pc[p] \in {"forkret", "yield", "sleep_return"}
  /\ state[p] = "SLEEPING" => pc[p] = "sleep_return" /\ chan[p] = p
  /\ state[p] = "ZOMBIE" <=> pc[p] \in ZombieLabels
  /\ pc[p] = "yield" => saved[p] \in FreeLabels
StateInv ==
  /\ \A p \in Slots : StateOf(p)
  /\ \A c \in CPUS, p \in Slots :
       /\ Exec(c, p) => state[p] \in {"RUNNING", "ZOMBIE"} /\ pc[p] # "exited"
       /\ spc[c] = "back" /\ cproc[c] = p =>
            state[p] # "RUNNING" /\ pc[p] \in {"yield", "sleep_return", "exited"}

\* The loops over the table start at its beginning.
CursorInv ==
  \A p \in Slots :
    /\ At(p) \notin ScanLabels => cur[p] = 0
    /\ pc[p] \notin OrphanLabels => pp[p] = 0

\* initproc is nobody's child and never exits.
InitInv ==
  /\ parent[initproc] = Null
  /\ state[initproc] \notin {"UNUSED", "USED"}
  /\ At(initproc) \notin {"exit_wait_lock"} \cup OrphanLabels \cup ChildlessLabels

\* np is the child that fork() is building, and no other call's.
ForkInv ==
  \A p \in Slots :
    /\ At(p) \notin ForkLabels => np[p] = Null
    /\ At(p) \in ForkLabels =>
         /\ np[p] \in Slots /\ state[np[p]] = "USED"
         /\ parent[np[p]] = IF At(p) = "fork_parent" THEN Null ELSE p
    /\ \A q \in Slots : q # p /\ np[p] = np[q] => np[p] = Null

\* A parent is a process that has started; who has passed reparent() has no
\* child, and who is in it has none among the slots it has passed.
ParentInv ==
  \A q \in Slots :
    /\ parent[q] # Null => /\ parent[q] # q /\ state[q] # "UNUSED"
                           /\ state[parent[q]] \notin {"UNUSED", "USED"}
    /\ state[q] \notin {"UNUSED", "USED"} /\ q # initproc => parent[q] # Null
    /\ pc[q] \in ChildlessLabels => \A r \in Slots : parent[r] # q
    /\ pc[q] \in OrphanLabels => \A r \in Slots : r < pp[q] => parent[r] # q

\* p sleeps, or has released wait_lock in order to.
Dozing(p) == pc[p] = "sleep_sched" \/ state[p] = "SLEEPING"

\* exit() makes its process a ZOMBIE only when the parent is awake; and the
\* parent of a ZOMBIE is awake and will find it, or is initproc, to which
\* reparent() has just given the ZOMBIE and which it is about to wake.
WakeInv ==
  /\ \A p, q \in Slots :
       parent[q] = p /\ (pc[q] = "exit_zombie" \/ (pc[q] = "exit_wake_parent" /\ cur[q] > p)) =>
         ~Dozing(p)
  /\ \A p, q \in Slots :
       state[q] = "ZOMBIE" /\ parent[q] = p =>
         /\ Dozing(p) => /\ p = initproc
                         /\ \E r \in Slots : pc[r] = "exit_wake_init" /\ cur[r] = 0
         /\ pc[p] \notin {"wait_decide", "sleep_acquire", "sleep_release"}
         /\ pc[p] = "wait_scan" => cur[p] <= q

\* The locks and the states of the processes; the family tree; and both, with
\* WakeInv: the inductive invariant.
LockInv == CpuInv /\ OneCpuPerProcess /\ PlockInv /\ LkInv /\ StateInv
TreeInv == CursorInv /\ InitInv /\ ForkInv /\ ParentInv
IInv == TableType /\ LockInv /\ TreeInv /\ WakeInv

-----------------------------------------------------------------------------
(* The steps that one part of the invariant does not notice *)

\* The labels at which wait_lock is held and no p->lock.
QuietLabels == {"exit_reparent", "exit_wake_init", "exit_wake_parent", "exit_zombie",
                "wait_scan", "wait_decide", "sleep_acquire"}

\* r is on no CPU, nobody has its lock, and it takes a state that suits its label.
OffCpuStep(r) ==
  /\ plock[r] = NoCpu /\ \A d \in CPUS : cproc[d] # r
  /\ pc[r] \notin LkLabels
  /\ pc[r]' \notin LkLabels \cup {"sleep_release", "sleep_sched"}
  /\ StateOf(r)'

\* r stays where it is, moves between labels of A, or changes off its CPU.
QuietStep(r, A) ==
  \/ pc[r]' = pc[r] /\ state[r]' = state[r] /\ chan[r]' = chan[r]
  \/ pc[r] \in A /\ pc[r]' \in A /\ state[r]' = state[r] /\ chan[r]' = chan[r]
  \/ OffCpuStep(r)

\* No lock changes hands, and each process moves between labels with the same
\* locks or changes off its CPU.
LockSteady ==
  /\ UNCHANGED <<plock, lk, cproc, spc, sp, saved>>
  /\ \A r \in Slots : QuietStep(r, FreeLabels) \/ QuietStep(r, QuietLabels)

\* p takes, or releases, wait_lock and does nothing else to the locks.
TakesLk(c, p) ==
  /\ UNCHANGED <<plock, cproc, spc, sp, saved, state, chan>>
  /\ Exec(c, p) /\ lk = NoCpu /\ lk' = c
  /\ pc[p] \in FreeLabels /\ pc[p]' \in QuietLabels
  /\ \A r \in Slots \ {p} : pc[r]' = pc[r]
ReleasesLk(c, p) ==
  /\ UNCHANGED <<plock, cproc, spc, sp, saved>>
  /\ Exec(c, p) /\ lk' = NoCpu
  /\ pc[p] \in QuietLabels /\ pc[p]' \in FreeLabels
  /\ state[p]' = state[p] /\ chan[p]' = chan[p]
  /\ \A r \in Slots \ {p} : QuietStep(r, {})

\* Nobody is born, dies or changes parent, and no call of fork(), exit() or
\* reparent() begins or ends.
TreeSteady ==
  /\ UNCHANGED <<parent, np, pp>>
  /\ \A r \in Slots :
       /\ \/ At(r)' = At(r) /\ cur[r]' = cur[r]
          \/ At(r)' \in ScanLabels
          \/ cur[r]' = 0
       /\ \/ state[r]' = state[r]
          \/ state[r] \notin {"UNUSED", "USED"} /\ state[r]' \notin {"UNUSED", "USED"}
       /\ \/ At(r)' = At(r)
          \/ At(r) \notin ForkLabels /\ At(r)' \notin ForkLabels
       /\ pc[r] \in OrphanLabels <=> pc[r]' \in OrphanLabels
       /\ pc[r]' \in ChildlessLabels => pc[r] \in ChildlessLabels
       /\ At(r)' \in {"exit_wait_lock"} \cup OrphanLabels \cup ChildlessLabels =>
            At(r) \in {"exit_wait_lock"} \cup OrphanLabels \cup ChildlessLabels \/ r # initproc

\* A step that does not concern WakeInv: it puts nobody to sleep, makes no
\* ZOMBIE, and moves nobody into, or out of, the code that WakeInv is about.
WakeLabels == {"exit_wake_init", "exit_wake_parent", "exit_zombie", "wait_scan",
               "wait_decide", "sleep_acquire", "sleep_release"}
WakeSteady ==
  \A r \in Slots :
    /\ Dozing(r)' => Dozing(r)
    /\ state[r]' = "ZOMBIE" => state[r] = "ZOMBIE"
    /\ state[r]' = "ZOMBIE" \/ pc[r]' \in WakeLabels => parent[r]' = parent[r]
    /\ pc[r]' \in WakeLabels \/ pc[r] = "exit_wake_init" =>
         pc[r]' = pc[r] /\ cur[r]' = cur[r]

=============================================================================
