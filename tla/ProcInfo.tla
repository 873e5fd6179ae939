------------------------------ MODULE ProcInfo ------------------------------
(***************************************************************************)
(* procinfo() of kernel/proc.c, the getprocs system call of the labs: a    *)
(* walk over the process table that takes no lock, so that every field it  *)
(* reads may change under it while the processes of module Proc go on.     *)
(*                                                                         *)
(* Every load of a field another CPU may write is a step.  p->parent is    *)
(* loaded once: nothing is stored between its two uses.  One getprocs call *)
(* runs at a time (a bound); sz and name are left out.                     *)
(***************************************************************************)
EXTENDS Proc, Sequences

CONSTANT InfoCallers   \* bound: the slots whose programs call getprocs

VARIABLES
  entry,    \* procinfo: the struct pstat being filled
  ptr,      \* the loaded p->parent
  out,      \* the array in user memory
  nprocs,   \* its length, and the value returned
  steady    \* history: the slots whose process has run since the call began

infoVars == <<entry, ptr, out, nprocs, steady>>
allVars == <<vars, infoVars>>

InfoLabels == {"info_test", "info_pid", "info_state", "info_parent", "info_ppid",
               "info_copyout", "info_return"}

NoEntry == [pid |-> 0, state |-> "UNUSED", ppid |-> 0]

InfoInit ==
  /\ Init
  /\ entry = NoEntry
  /\ ptr = Null
  /\ out = <<>>
  /\ nprocs = 0
  /\ steady = {}

Started == {q \in Slots : state[q] \notin {"UNUSED", "USED"}}

\* sys_getprocs(): the system call enters procinfo().
GetProcs(c, p) ==
  /\ Exec(c, p)
  /\ pc[p] = "user" /\ ~killed[p]
  /\ p \in InfoCallers
  /\ \A q \in Slots : At(q) \notin InfoLabels
  /\ Goto(p, "info_test")
  /\ out' = <<>>
  /\ nprocs' = 0
  /\ steady' = Started
  /\ UNCHANGED <<state, chan, plock, lk, cproc, spc, sp, saved, cur, procVars,
                 entry, ptr>>

\* The head of the loop: skip an UNUSED slot, count any other.
InfoTest(c, p) ==
  /\ Exec(c, p)
  /\ pc[p] = "info_test"
  /\ \/ /\ cur[p] = NPROC
        /\ cur' = [cur EXCEPT ![p] = 0]
        /\ Goto(p, "info_return")
        /\ UNCHANGED nprocs
     \/ /\ cur[p] < NPROC
        /\ state[cur[p]] = "UNUSED"
        /\ cur' = [cur EXCEPT ![p] = @ + 1]
        /\ UNCHANGED <<pc, nprocs>>
     \/ /\ cur[p] < NPROC
        /\ state[cur[p]] # "UNUSED"
        /\ nprocs' = nprocs + 1
        /\ Goto(p, "info_pid")
        /\ UNCHANGED cur
  /\ UNCHANGED <<state, chan, plock, lk, cproc, spc, sp, saved, procVars,
                 entry, ptr, out, steady>>

\* One load into the entry, or of p->parent, at label from.
InfoLoad(c, p, from, to, e, q) ==
  /\ Exec(c, p)
  /\ pc[p] = from
  /\ entry' = e
  /\ ptr' = q
  /\ Goto(p, to)
  /\ UNCHANGED <<state, chan, plock, lk, cproc, spc, sp, saved, cur, procVars,
                 out, nprocs, steady>>

InfoPid(c, p) ==
  InfoLoad(c, p, "info_pid", "info_state", [entry EXCEPT !.pid = pid[cur[p]]], ptr)

InfoState(c, p) ==
  InfoLoad(c, p, "info_state", "info_parent", [entry EXCEPT !.state = state[cur[p]]], ptr)

InfoParent(c, p) ==
  InfoLoad(c, p, "info_parent", "info_ppid", entry, parent[cur[p]])

\* Mutant: ppid is the pid of the process itself.
InfoPpidOwn(c, p) ==
  InfoLoad(c, p, "info_ppid", "info_copyout",
           [entry EXCEPT !.ppid = IF ptr = Null THEN 0 ELSE pid[cur[p]]], Null)

InfoPpid(c, p) ==
  InfoLoad(c, p, "info_ppid", "info_copyout",
           [entry EXCEPT !.ppid = IF ptr = Null THEN 0 ELSE pid[ptr]], Null)

\* Mutant: addr is not advanced.
InfoCopyoutInPlace(c, p) ==
  /\ Exec(c, p)
  /\ pc[p] = "info_copyout"
  /\ out' = <<entry>>
  /\ entry' = NoEntry
  /\ cur' = [cur EXCEPT ![p] = @ + 1]
  /\ Goto(p, "info_test")
  /\ UNCHANGED <<state, chan, plock, lk, cproc, spc, sp, saved, procVars,
                 ptr, nprocs, steady>>

\* copyout() and the next slot
InfoCopyout(c, p) ==
  /\ Exec(c, p)
  /\ pc[p] = "info_copyout"
  /\ out' = Append(out, entry)
  /\ entry' = NoEntry
  /\ cur' = [cur EXCEPT ![p] = @ + 1]
  /\ Goto(p, "info_test")
  /\ UNCHANGED <<state, chan, plock, lk, cproc, spc, sp, saved, procVars,
                 ptr, nprocs, steady>>

\* copyout() fails: return -1.
InfoCopyoutFails(c, p) ==
  /\ Exec(c, p)
  /\ pc[p] = "info_copyout"
  /\ entry' = NoEntry
  /\ cur' = [cur EXCEPT ![p] = 0]
  /\ out' = <<>>
  /\ nprocs' = 0
  /\ steady' = {}
  /\ Goto(p, "user")
  /\ UNCHANGED <<state, chan, plock, lk, cproc, spc, sp, saved, procVars, ptr>>

\* The caller has looked at the result; the array is forgotten.
InfoReturn(c, p) ==
  /\ Exec(c, p)
  /\ pc[p] = "info_return"
  /\ out' = <<>>
  /\ nprocs' = 0
  /\ steady' = {}
  /\ Goto(p, "user")
  /\ UNCHANGED <<state, chan, plock, lk, cproc, spc, sp, saved, cur, procVars,
                 entry, ptr>>

Info(c, p) ==
  \/ GetProcs(c, p) \/ InfoTest(c, p) \/ InfoPid(c, p) \/ InfoState(c, p)
  \/ InfoParent(c, p) \/ InfoPpid(c, p) \/ InfoCopyout(c, p)
  \/ InfoCopyoutFails(c, p) \/ InfoReturn(c, p)

\* A step of module Proc; a slot that it frees holds its process no more.
ProcStep ==
  /\ Next
  /\ steady' = {q \in steady : state'[q] # "UNUSED"}
  /\ UNCHANGED <<entry, ptr, out, nprocs>>

InfoNext ==
  \/ ProcStep
  \/ \E c \in CPUS, p \in Slots : Info(c, p)

InfoSpec == InfoInit /\ [][InfoNext]_allVars

-----------------------------------------------------------------------------

Returning == \E p \in Slots : At(p) = "info_return"

\* getprocs misses nobody and lists nobody twice: a process that exists from
\* the beginning of the call to its end has exactly one entry.
SteadyListedOnce ==
  Returning =>
    /\ nprocs = Len(out)
    /\ \A q \in steady :
         \E k \in 1 .. Len(out) :
           /\ out[k].pid = pid[q]
           /\ \A j \in 1 .. Len(out) : out[j].pid = pid[q] => j = k

\* The parent of such a process is right, too, if it also exists all the time
\* and is not an adoptive one (initproc, by an exit() during the call).
SteadyParent ==
  Returning =>
    \A q \in steady, k \in 1 .. Len(out) :
      out[k].pid = pid[q] /\ parent[q] \in steady \ {initproc} =>
        out[k].ppid = pid[parent[q]]

\* "info for current processes": every entry describes a process.
EntriesAreProcesses ==
  \A k \in 1 .. Len(out) : out[k].pid > 0 /\ out[k].state # "UNUSED"

=============================================================================
