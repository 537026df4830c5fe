----------------------------- MODULE Programs -----------------------------
(***************************************************************************)
(* The two programs that are built around the server: cmd/hybrid with its  *)
(* interrupt handler, and the library for mobile applications.  program    *)
(* says which of them runs; the variables of the other one keep their      *)
(* first values.                                                           *)
(***************************************************************************)
EXTENDS Interrupt

CONSTANT Threads   \* of the application that uses the library

VARIABLES program, thread, init, destroy, ln, ctx, serving, mServer, mCancel,
          service, crashed

M == INSTANCE Mobile WITH panicked <- crashed

libraryVars == <<thread, init, destroy, ln, ctx, serving, mServer, mCancel, service, crashed>>
programVars == <<program, intrVars, libraryVars>>

ProgramsInit == program \in {"hybrid", "library"} /\ IntrInit /\ M!Init

HybridStays == UNCHANGED <<program, intrVars>>
LibraryStays == UNCHANGED <<program, libraryVars>>

HybridNext == program = "hybrid" /\ IntrNext /\ LibraryStays
LibraryNext == program = "library" /\ M!Next /\ HybridStays

ProgramsNext == HybridNext \/ LibraryNext

ProgramsSpec == ProgramsInit /\ [][ProgramsNext]_programVars

(* The fairness of either module, for the program that runs.               *)
HybridFairness ==
  /\ WF_programVars(program = "hybrid" /\ LoopStep /\ LibraryStays)
  /\ WF_programVars(program = "hybrid" /\ Cancel /\ LibraryStays)
  /\ WF_programVars(program = "hybrid" /\ MainStep /\ LibraryStays)

LibraryFairness ==
  /\ WF_programVars(program = "library" /\ M!InitRuns /\ HybridStays)
  /\ SF_programVars(program = "library" /\ M!DestroyRuns /\ HybridStays)
  /\ \A t \in Threads : WF_programVars(program = "library" /\ M!Done(t) /\ HybridStays)

ProgramsFairSpec == ProgramsSpec /\ HybridFairness /\ LibraryFairness

(* A failed DoInitOnce leaves no listener and no live context behind, and  *)
(* nothing set ("Do clean internally if err", mobile.go:27).               *)
FailedInitIsClean == M!FailedInitIsClean

(* Whoever waits in Done gets an answer unless the process has panicked,   *)
(* provided that a cancelled service stops (DoInitOnce, DoDestroyOnce).    *)
DoneReturns == M!DoneReturns

(* The calls are "Safe to be called multi times with multi threads", the   *)
(* comment on DoDestroyOnce says: in no order do they panic.               *)
CallsAreSafe == M!CallsAreSafe

(* DoDestroyOnce does "clean things like freeing resources, closing        *)
(* listeners": when it is done the gRPC listener is closed.                *)
DestroyClosesListener == M!DestroyClosesListener
===========================================================================
