----------------------------- MODULE TaskGroup -----------------------------
(***************************************************************************)
(* What a TaskGroup promises (include/lld/Core/Parallel.h): tasks may be   *)
(* spawned by its owner or by a task that has not returned yet, each of    *)
(* them runs once, and sync() returns only when all have returned. Nothing *)
(* is said here of threads, latches and condition variables.               *)
(***************************************************************************)
CONSTANT Tasks

VARIABLES
  spawned,   \* the tasks handed to spawn()
  returned,  \* the tasks whose closure has returned
  synced     \* sync() has returned

vars == <<spawned, returned, synced>>

Init ==
  /\ spawned = {}
  /\ returned = {}
  /\ synced = FALSE

\* The owner spawns before it syncs, a task before it returns.
Spawn(t) ==
  /\ t \notin spawned
  /\ ~synced \/ spawned # returned
  /\ spawned' = spawned \cup {t}
  /\ UNCHANGED <<returned, synced>>

Return(t) ==
  /\ t \in spawned \ returned
  /\ returned' = returned \cup {t}
  /\ UNCHANGED <<spawned, synced>>

Sync ==
  /\ ~synced
  /\ returned = spawned
  /\ synced' = TRUE
  /\ UNCHANGED <<spawned, returned>>

Next == Sync \/ \E t \in Tasks : Spawn(t) \/ Return(t)

\* A task that was spawned returns, and sync() comes back.
Spec ==
  /\ Init
  /\ [][Next]_vars
  /\ WF_vars(Sync)
  /\ \A t \in Tasks : WF_vars(Return(t))
=============================================================================
