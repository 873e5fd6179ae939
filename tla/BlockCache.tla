----------------------------- MODULE BlockCache -----------------------------
(***************************************************************************)
(* What the buffer cache promises to the log and the file system: one      *)
(* process at a time uses a block, everyone sees the last change of it, a  *)
(* change reaches the disk only when its owner writes it, and a block that *)
(* is neither owned nor pinned may fall back to its contents on disk.      *)
(***************************************************************************)
CONSTANTS Procs, Blocks, Vals, Nil

VARIABLES
  view,    \* the contents a reader of a block sees
  stable,  \* the contents on disk
  owner,   \* the process that has the block locked, or Nil
  pinned   \* blocks that must stay in memory

vars == <<view, stable, owner, pinned>>

Init ==
  /\ view \in [Blocks -> Vals]
  /\ stable = view
  /\ owner = [b \in Blocks |-> Nil]
  /\ pinned = {}

Acquire(b) ==
  /\ owner[b] = Nil
  /\ \E p \in Procs : owner' = [owner EXCEPT ![b] = p]
  /\ UNCHANGED <<view, stable, pinned>>

Release(b) ==
  /\ owner[b] # Nil
  /\ owner' = [owner EXCEPT ![b] = Nil]
  /\ UNCHANGED <<view, stable, pinned>>

Modify(b) ==
  /\ owner[b] # Nil
  /\ \E v \in Vals : view' = [view EXCEPT ![b] = v]
  /\ UNCHANGED <<stable, owner, pinned>>

Flush(b) ==
  /\ owner[b] # Nil
  /\ stable' = [stable EXCEPT ![b] = view[b]]
  /\ UNCHANGED <<view, owner, pinned>>

Pin(b) ==
  /\ owner[b] # Nil
  /\ \/ pinned' = pinned \cup {b}
     \/ pinned' = pinned \ {b}
  /\ UNCHANGED <<view, stable, owner>>

Evict(b) ==
  /\ owner[b] = Nil
  /\ b \notin pinned
  /\ view' = [view EXCEPT ![b] = stable[b]]
  /\ UNCHANGED <<stable, owner, pinned>>

Next ==
  \E b \in Blocks : Acquire(b) \/ Release(b) \/ Modify(b) \/ Flush(b) \/ Pin(b) \/ Evict(b)

Spec == Init /\ [][Next]_vars

=============================================================================
