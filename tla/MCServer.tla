----------------------------- MODULE MCServer -----------------------------
(* Instances of Server for TLC.  Deadlock is not an error in them: a       *)
(* goroutine of WaitUntilStopped whose caller has left keeps the mutex for *)
(* ever, a panic ends the process, and the names of nodes and listeners    *)
(* run out.                                                                *)
EXTENDS Server, TLC

Symmetry == Permutations(Clients) \cup Permutations(Waiters)
              \cup Permutations(Nodes) \cup Permutations(Listeners)
===========================================================================
