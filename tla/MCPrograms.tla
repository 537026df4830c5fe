---------------------------- MODULE MCPrograms ----------------------------
(* The two programs for TLC: more signals than the channel has places for, *)
(* and threads that call the library at the same time.  Both programs end, *)
(* so deadlock is not an error.                                            *)
EXTENDS Programs
===========================================================================
