------------------------------- MODULE Mutex -------------------------------
(***************************************************************************)
(* What a lock promises: at most one thread is inside.  kernel/defs.h      *)
(* offers it as acquiresleep() and releasesleep(); module SleepLock is     *)
(* shown to implement it.                                                  *)
(***************************************************************************)
CONSTANT Threads

VARIABLE inside   \* the threads between acquiresleep() and releasesleep()

Init == inside = {}

Enter(t) == inside = {} /\ inside' = {t}

Leave(t) == t \in inside /\ inside' = inside \ {t}

Next == \E t \in Threads : Enter(t) \/ Leave(t)

Spec == Init /\ [][Next]_inside

=============================================================================
