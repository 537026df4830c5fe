----------------------------- MODULE Interrupt -----------------------------
(***************************************************************************)
(* The interrupt handler of the hybrid program and the end of main         *)
(* (src/cmd/hybrid/hybrid.go): signals go through a channel with one place *)
(* to a goroutine that cancels main's context on the first and ends the    *)
(* process on the second.  Main waits for the context and the service, and *)
(* closes the handler.                                                     *)
(***************************************************************************)
EXTENDS Naturals

CONSTANT MaxSignals   \* bound on the signals sent to the process

ASSUME InterruptAssumption == MaxSignals \in Nat

VARIABLES
  signals,   \* how many were sent
  sig,       \* how many wait in the channel
  closed,    \* the channel is closed
  notify,    \* signal.Notify is in force
  loop,      \* the goroutine of Handle: range, handle, stop, ended
  count,     \* the signals it took
  canceller, \* the goroutine that cancels: none, run, done
  wg,        \* IntrHandler.wg
  ctxDone,   \* main's context
  main,      \* start, wait, service, close, wgWait, return, exited, killed
  panicked   \* a signal was sent on the closed channel

intrVars == <<signals, sig, closed, notify, loop, count, canceller, wg, ctxDone, main, panicked>>

IntrTypeOK ==
  /\ signals \in 0 .. MaxSignals /\ sig \in 0 .. 1 /\ count \in 0 .. MaxSignals
  /\ closed \in BOOLEAN /\ notify \in BOOLEAN /\ ctxDone \in BOOLEAN /\ panicked \in BOOLEAN
  /\ loop \in {"range", "handle", "stop", "ended"}
  /\ canceller \in {"none", "run", "done"}
  /\ wg \in 0 .. 2
  /\ main \in {"start", "wait", "service", "close", "wgWait", "return", "exited", "killed"}

(* After setupInterruptHandler.                                            *)
IntrInit ==
  /\ signals = 0 /\ sig = 0 /\ closed = FALSE /\ notify = TRUE
  /\ loop = "range" /\ count = 0 /\ canceller = "none" /\ wg = 1
  /\ ctxDone = FALSE /\ main = "start" /\ panicked = FALSE

Alive == main \notin {"exited", "killed"} /\ ~panicked

(* os/signal sends without blocking to every channel notified.             *)
Signal ==
  /\ Alive /\ notify /\ signals < MaxSignals
  /\ signals' = signals + 1
  /\ IF closed THEN panicked' = TRUE /\ UNCHANGED sig
               ELSE sig' = 1 /\ UNCHANGED panicked
  /\ UNCHANGED <<closed, notify, loop, count, canceller, wg, ctxDone, main>>

Receive ==
  /\ Alive /\ loop = "range"
  /\ \/ /\ sig = 1
        /\ sig' = 0 /\ count' = count + 1 /\ loop' = "handle"
     \/ /\ sig = 0 /\ closed
        /\ loop' = "stop" /\ UNCHANGED <<sig, count>>
  /\ UNCHANGED <<signals, closed, notify, canceller, wg, ctxDone, main, panicked>>

HandlerFunc_Once ==
  /\ Alive /\ loop = "handle"
  /\ loop' = "range"
  /\ IF count = 1
     THEN wg' = wg + 1 /\ canceller' = "run"
     ELSE UNCHANGED <<wg, canceller>>
  /\ UNCHANGED <<signals, sig, closed, notify, count, ctxDone, main, panicked>>

HandlerFunc ==
  /\ Alive /\ loop = "handle"
  /\ loop' = "range"
  /\ IF count = 1
     THEN wg' = wg + 1 /\ canceller' = "run" /\ UNCHANGED main
     ELSE main' = "killed" /\ UNCHANGED <<wg, canceller>>
  /\ UNCHANGED <<signals, sig, closed, notify, count, ctxDone, panicked>>

StopNotify ==
  /\ Alive /\ loop = "stop"
  /\ notify' = FALSE /\ loop' = "ended" /\ wg' = wg - 1
  /\ UNCHANGED <<signals, sig, closed, count, canceller, ctxDone, main, panicked>>

Cancel_NotDone ==
  /\ Alive /\ canceller = "run"
  /\ ctxDone' = TRUE /\ canceller' = "done"
  /\ UNCHANGED <<signals, sig, closed, notify, loop, count, wg, main, panicked>>

Cancel ==
  /\ Alive /\ canceller = "run"
  /\ ctxDone' = TRUE /\ canceller' = "done" /\ wg' = wg - 1
  /\ UNCHANGED <<signals, sig, closed, notify, loop, count, main, panicked>>

(* The goroutine of ServeGrpc cancels the context when serving ends.       *)
ServeGrpcEnds ==
  /\ Alive /\ ~ctxDone
  /\ ctxDone' = TRUE
  /\ UNCHANGED <<signals, sig, closed, notify, loop, count, canceller, wg, main, panicked>>

(* Main: NewServer, the listener and Start, where log.Fatalf skips the     *)
(* deferred calls; then the context, WaitUntilStopped and the deferred     *)
(* Close.                                                                  *)
MainWaits ==
  /\ Alive
  /\ \/ main = "start" /\ main' \in {"wait", "killed"}
     \/ main = "wait" /\ ctxDone /\ main' = "service"
     \/ main = "service" /\ main' = "close"
  /\ UNCHANGED <<signals, sig, closed, notify, loop, count, canceller, wg, ctxDone, panicked>>

CloseHandler ==
  /\ Alive /\ main = "close"
  /\ closed' = TRUE /\ main' = "wgWait"
  /\ UNCHANGED <<signals, sig, notify, loop, count, canceller, wg, ctxDone, panicked>>

WgWait_NotWaiting ==
  /\ Alive /\ main = "wgWait"
  /\ main' = "return"
  /\ UNCHANGED <<signals, sig, closed, notify, loop, count, canceller, wg, ctxDone, panicked>>

WgWait ==
  /\ Alive /\ main = "wgWait" /\ wg = 0
  /\ main' = "return"
  /\ UNCHANGED <<signals, sig, closed, notify, loop, count, canceller, wg, ctxDone, panicked>>

(* Main's own deferred cancel comes after.                                 *)
MainReturns ==
  /\ Alive /\ main = "return"
  /\ ctxDone' = TRUE /\ main' = "exited"
  /\ UNCHANGED <<signals, sig, closed, notify, loop, count, canceller, wg, panicked>>

LoopStep == Receive \/ HandlerFunc \/ StopNotify
MainStep == (main # "service" /\ MainWaits) \/ CloseHandler \/ WgWait \/ MainReturns

IntrNext == Signal \/ LoopStep \/ Cancel \/ ServeGrpcEnds \/ MainWaits \/ CloseHandler \/ WgWait \/ MainReturns

IntrSpec == IntrInit /\ [][IntrNext]_intrVars

(* The goroutines run; whether the service stops is not theirs to say.     *)
IntrFairness == WF_intrVars(LoopStep) /\ WF_intrVars(Cancel) /\ WF_intrVars(MainStep)

IntrFairSpec == IntrSpec /\ IntrFairness

----------------------------------------------------------------------------
ServiceStops == main = "service" ~> main # "service"

(* An interrupt cancels the context or ends the process, and a service     *)
(* that then stops lets the process end: main, the handler's loop and the  *)
(* cancelling goroutine never wait for each other in Close (handlerFunc,   *)
(* main, IntrHandler.Close).                                               *)
InterruptEnds ==
  /\ sig = 1 ~> ctxDone \/ ~Alive
  /\ ServiceStops => (sig = 1 ~> ~Alive)

(* A second interrupt kills the process wherever the shutdown stands, in   *)
(* the wait of Close too (handlerFunc's default case): the handler never   *)
(* goes back to its loop from it.                                          *)
SecondKills == count >= 2 /\ loop # "handle" => main = "killed"

(* When main has returned nothing of the handler is left: no goroutine, no *)
(* signal unread, no notification (Close).                                 *)
NothingLeft ==
  main = "exited" => loop = "ended" /\ ~notify /\ sig = 0 /\ canceller # "run"

(* The handler can be "cleanly shut down", the comment on IntrHandler      *)
(* says: no signal meets a closed channel.                                 *)
CleanShutdown == ~panicked
============================================================================
