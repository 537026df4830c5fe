------------------------------- MODULE Mobile -------------------------------
(***************************************************************************)
(* The entry points of the mobile library (src/gomobile/mobile.go).        *)
(* Threads of the application call DoInitOnce and DoDestroyOnce in any     *)
(* order and wait with Done.  A ConcurrentRunner (external) runs its       *)
(* function once, whoever calls first.                                     *)
(***************************************************************************)
EXTENDS Naturals

CONSTANT Threads

VARIABLES
  thread,   \* thread -> idle, init, destroy (waiting in Done), back
  init,     \* no, sink, listen, context, server, serve, assign, return, done, failed
  destroy,  \* no, cancel, wait, done
  ln,       \* the gRPC listener: none, open, closed
  ctx,      \* the context of the server: none, live, done
  serving,  \* the goroutine of ServeGrpc: no, yes, ended
  mServer,  \* m.server is set
  mCancel,  \* m.cancel is set
  service,  \* the service of the server: none, running, stopped
  panicked

vars == <<thread, init, destroy, ln, ctx, serving, mServer, mCancel, service, panicked>>

(* The values of the variables.                                            *)
TypeOK ==
  /\ thread \in [Threads -> {"idle", "init", "destroy", "back"}]
  /\ init \in {"no", "sink", "listen", "context", "server", "serve", "assign", "return", "done", "failed"}
  /\ destroy \in {"no", "cancel", "wait", "done"}
  /\ ln \in {"none", "open", "closed"} /\ ctx \in {"none", "live", "done"}
  /\ serving \in {"no", "yes", "ended"} /\ service \in {"none", "running", "stopped"}
  /\ mServer \in BOOLEAN /\ mCancel \in BOOLEAN /\ panicked \in BOOLEAN

Init ==
  /\ thread = [t \in Threads |-> "idle"]
  /\ init = "no" /\ destroy = "no" /\ ln = "none" /\ ctx = "none" /\ serving = "no"
  /\ mServer = FALSE /\ mCancel = FALSE /\ service = "none" /\ panicked = FALSE

InitEnded == init \in {"done", "failed"}

----------------------------------------------------------------------------
(* The callers.                                                            *)
CallInit(t) ==
  /\ ~panicked /\ thread[t] = "idle"
  /\ thread' = [thread EXCEPT ![t] = "init"]
  /\ init' = IF init = "no" THEN "sink" ELSE init
  /\ UNCHANGED <<destroy, ln, ctx, serving, mServer, mCancel, service, panicked>>

CallDestroy(t) ==
  /\ ~panicked /\ thread[t] = "idle"
  /\ thread' = [thread EXCEPT ![t] = "destroy"]
  /\ destroy' = IF destroy = "no" THEN "cancel" ELSE destroy
  /\ UNCHANGED <<init, ln, ctx, serving, mServer, mCancel, service, panicked>>

Done(t) ==
  /\ ~panicked
  /\ \/ thread[t] = "init" /\ InitEnded
     \/ thread[t] = "destroy" /\ destroy = "done"
  /\ \E next \in {"back", "idle"} : thread' = [thread EXCEPT ![t] = next]
  /\ UNCHANGED <<init, destroy, ln, ctx, serving, mServer, mCancel, service, panicked>>

----------------------------------------------------------------------------
(* The function of DoInitOnce, in its steps; a step that fails returns     *)
(* through the deferred undo of the earlier ones.                          *)
InitStep ==
  /\ ~panicked
  /\ \/ init = "sink" /\ init' = "listen" /\ UNCHANGED <<ln, ctx, serving, mServer, mCancel>>
     \/ init = "listen" /\ init' = "context" /\ ln' = "open" /\ UNCHANGED <<ctx, serving, mServer, mCancel>>
     \/ init = "context" /\ init' = "server" /\ ctx' = "live" /\ UNCHANGED <<ln, serving, mServer, mCancel>>
     \/ init = "server" /\ init' = "serve" /\ serving' = "yes" /\ UNCHANGED <<ln, ctx, mServer, mCancel>>
     \/ init = "serve" /\ init' = "assign" /\ mServer' = TRUE /\ UNCHANGED <<ln, ctx, serving, mCancel>>
     \/ init = "assign" /\ init' = "return" /\ mCancel' = TRUE /\ UNCHANGED <<ln, ctx, serving, mServer>>
     \/ init = "return" /\ init' = "done" /\ UNCHANGED <<ln, ctx, serving, mServer, mCancel>>
  /\ UNCHANGED <<thread, destroy, service, panicked>>

(* Mutant: the deferred function leaves the listener open.                 *)
InitFails_KeepsListener ==
  /\ ~panicked /\ init \in {"sink", "listen", "server"}
  /\ init' = "failed"
  /\ ctx' = IF ctx = "live" THEN "done" ELSE ctx
  /\ UNCHANGED <<thread, destroy, ln, serving, mServer, mCancel, service, panicked>>

InitFails ==
  /\ ~panicked /\ init \in {"sink", "listen", "server"}
  /\ init' = "failed"
  /\ ln' = IF ln = "open" THEN "closed" ELSE ln
  /\ ctx' = IF ctx = "live" THEN "done" ELSE ctx
  /\ UNCHANGED <<thread, destroy, serving, mServer, mCancel, service, panicked>>

(* The goroutine of ServeGrpc: gRPC closes the listener when an accept     *)
(* fails for good, and the context is cancelled.                           *)
ServeGrpcEnds ==
  /\ ~panicked /\ serving = "yes"
  /\ serving' = "ended" /\ ln' = "closed" /\ ctx' = "done"
  /\ UNCHANGED <<thread, init, destroy, mServer, mCancel, service, panicked>>

(* RPCs, and the end of a service whose context is done.  Only a wait      *)
(* clears a service that has stopped.                                      *)
RpcStart ==
  /\ ~panicked /\ serving = "yes" /\ service = "none"
  /\ service' = "running"
  /\ UNCHANGED <<thread, init, destroy, ln, ctx, serving, mServer, mCancel, panicked>>

RpcStop ==
  /\ ~panicked /\ serving = "yes" /\ service = "running"
  /\ service' = "stopped"
  /\ UNCHANGED <<thread, init, destroy, ln, ctx, serving, mServer, mCancel, panicked>>

RpcWait ==
  /\ ~panicked /\ serving = "yes" /\ service = "stopped"
  /\ service' = "none"
  /\ UNCHANGED <<thread, init, destroy, ln, ctx, serving, mServer, mCancel, panicked>>

ServiceCancelled ==
  /\ ~panicked /\ service = "running" /\ ctx = "done"
  /\ service' = "stopped"
  /\ UNCHANGED <<thread, init, destroy, ln, ctx, serving, mServer, mCancel, panicked>>

----------------------------------------------------------------------------
(* What a read of a field of m may give: fields are not guarded, so until  *)
(* init has ended an assigned one may still be read as nil.                *)
Reads(set) == IF InitEnded THEN {set} ELSE {set, FALSE}

(* Mutant: DoDestroyOnce waits without having cancelled.                   *)
DestroyCancels_NoCancel ==
  /\ ~panicked /\ destroy = "cancel"
  /\ \E cancel \in Reads(mCancel) :
       IF cancel THEN destroy' = "wait" /\ UNCHANGED panicked
                 ELSE panicked' = TRUE /\ UNCHANGED destroy
  /\ UNCHANGED <<thread, init, ln, ctx, serving, mServer, mCancel, service>>

DestroyCancels ==
  /\ ~panicked /\ destroy = "cancel"
  /\ \E cancel \in Reads(mCancel) :
       IF cancel THEN destroy' = "wait" /\ ctx' = "done" /\ UNCHANGED panicked
                 ELSE panicked' = TRUE /\ UNCHANGED <<destroy, ctx>>
  /\ UNCHANGED <<thread, init, ln, serving, mServer, mCancel, service>>

(* WaitUntilStopped returns at once when there is no service.              *)
DestroyWaits ==
  /\ ~panicked /\ destroy = "wait"
  /\ \E server \in Reads(mServer) :
       IF server
       THEN service # "running" /\ service' = "none" /\ destroy' = "done" /\ UNCHANGED panicked
       ELSE panicked' = TRUE /\ UNCHANGED <<service, destroy>>
  /\ UNCHANGED <<thread, init, ln, ctx, serving, mServer, mCancel>>

----------------------------------------------------------------------------
InitRuns == InitStep \/ InitFails
DestroyRuns == DestroyCancels \/ DestroyWaits

Next ==
  \/ \E t \in Threads : CallInit(t) \/ CallDestroy(t) \/ Done(t)
  \/ InitRuns \/ DestroyRuns
  \/ ServeGrpcEnds \/ RpcStart \/ RpcStop \/ RpcWait \/ ServiceCancelled

Spec == Init /\ [][Next]_vars

(* The functions run; the wait of DoDestroyOnce gets the server's mutex in *)
(* the end, whatever RPCs do.                                              *)
Fairness ==
  /\ WF_vars(InitRuns) /\ SF_vars(DestroyRuns)
  /\ \A t \in Threads : WF_vars(Done(t))

FairSpec == Spec /\ Fairness

----------------------------------------------------------------------------
(* A failed DoInitOnce leaves no listener and no live context behind, and  *)
(* nothing set ("Do clean internally if err", the deferred functions).     *)
FailedInitIsClean ==
  init = "failed" => ln # "open" /\ ctx # "live" /\ ~mServer /\ ~mCancel

CancelledServicesStop == service = "running" /\ ctx = "done" ~> service # "running"

(* Whoever waits in Done gets an answer, the thread that came first or a   *)
(* later one, unless the process has panicked: provided a service stops    *)
(* when its context is cancelled, which DoDestroyOnce does before it waits *)
(* (DoInitOnce, DoDestroyOnce).                                            *)
DoneReturns ==
  CancelledServicesStop =>
    \A t \in Threads :
      thread[t] \in {"init", "destroy"} ~> thread[t] \in {"idle", "back"} \/ panicked

(* The calls are "Safe to be called multi times with multi threads", the   *)
(* comment on DoDestroyOnce says: in no order do they panic.               *)
CallsAreSafe == ~panicked

(* DoDestroyOnce does "clean things like freeing resources, closing        *)
(* listeners": when it is done the gRPC listener is closed.                *)
DestroyClosesListener == destroy = "done" => ln # "open"
=============================================================================
