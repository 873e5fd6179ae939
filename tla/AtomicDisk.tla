----------------------------- MODULE AtomicDisk -----------------------------
(***************************************************************************)
(* What begin_op(), log_write() and end_op() promise to the file system: a *)
(* disk whose contents move from one state without active operations to    *)
(* another, however often the machine crashes.  Module Log is shown to     *)
(* implement it.                                                           *)
(***************************************************************************)
CONSTANTS Procs, Blocks, Vals

VARIABLES
  current,   \* the contents the running system reads
  stable,    \* the contents a crash now would leave
  active     \* the processes between begin_op() and end_op()

vars == <<current, stable, active>>

Init ==
  /\ current \in [Blocks -> Vals]
  /\ stable = current
  /\ active = {}

Begin(p) ==
  /\ p \notin active
  /\ active' = active \cup {p}
  /\ UNCHANGED <<current, stable>>

Write(p, b, v) ==
  /\ p \in active
  /\ current' = [current EXCEPT ![b] = v]
  /\ UNCHANGED <<stable, active>>

End(p) ==
  /\ p \in active
  /\ active' = active \ {p}
  /\ UNCHANGED <<current, stable>>

\* Updates become durable together, and only when no operation is half done.
Commit ==
  /\ active = {}
  /\ stable' = current
  /\ UNCHANGED <<current, active>>

Crash ==
  /\ current' = stable
  /\ active' = {}
  /\ UNCHANGED stable

Next ==
  \/ \E p \in Procs : Begin(p) \/ End(p)
  \/ \E p \in Procs, b \in Blocks, v \in Vals : Write(p, b, v)
  \/ Commit
  \/ Crash

Spec == Init /\ [][Next]_vars

=============================================================================
