----------------------------- MODULE MCStartup -----------------------------
(* Startup with few processes.                                             *)
EXTENDS Startup, TLC

Symmetry == Permutations(Processes)
============================================================================
