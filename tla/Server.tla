------------------------------ MODULE Server ------------------------------
(***************************************************************************)
(* grpc.Server and grpc.Service (src/grpc/server.go, service.go): the RPC  *)
(* handlers that start, stop, wait for and bind to the service, and the    *)
(* goroutine that takes a cancelled service down.                          *)
(*                                                                         *)
(* A handler runs under Server.mu.  What it does from Lock to its return   *)
(* is one action, unless goroutines that do not take the mutex can see it  *)
(* half done: the handler then keeps mu between its steps.  A service and  *)
(* its node have one name, an element of Nodes.                            *)
(***************************************************************************)
EXTENDS Node, Naturals

CONSTANTS
  Clients,       \* callers of the RPCs; each has one call at a time
  Waiters,       \* goroutines WaitUntilStopped may leave behind
  BindSeqStart,  \* Config.BindSeqStart
  BindMod,       \* bindSeq is a uint32: 2^32, less on small instances
  BindSeqLimit   \* bound on bindSeq: no bind is made beyond it

ASSUME ServerAssumption ==
  /\ BindMod \in Nat /\ BindSeqStart \in Nat /\ BindSeqLimit \in Nat
  /\ BindIds = 0 .. (BindMod - 1)
  /\ BindSeqStart \in BindIds
  /\ ConfigBindId <= BindSeqStart       \* NewServer: ErrConfigBindId
  /\ None \notin Clients \cup Waiters
  /\ Clients \cap Waiters = {}

VARIABLES
  mu,         \* who holds Server.mu: a client, a waiter or None
  service,    \* Server.service
  bindSeq,    \* Server.bindSeq
  pc,         \* handler of a client: idle, lock, config, go, wait
  op,         \* the RPC a client has called
  target,     \* the node whose Start method value a Bind RPC evaluated
  binding,    \* the listener a handler has stored and not handed to eg.Go
  waiterPc,   \* goroutine of WaitUntilStopped: free, await, lock, send
  waiterSvc,  \* the service it waits for
  waiterFor,  \* the client that receives from its errc, None once it left
  svcPc,      \* waitUntilStopped: none, running, closing, egwait, ipfswait,
              \* stopped
  ipfsUp,     \* services whose ipfs process has not closed
  ctxDone,    \* Config.Context, the parent of every service, is cancelled
  panicked    \* a handler has dereferenced a nil service

waiterVars == <<waiterPc, waiterSvc, waiterFor>>
serviceVars == <<svcPc, ipfsUp, ctxDone>>
handlerVars == <<pc, op, target, binding>>
vars == <<nodeVars, mu, service, bindSeq, handlerVars, waiterVars,
          serviceVars, panicked>>

Rpcs == {"Start", "Stop", "WaitUntilStopped", "BindConfigProxy",
         "UnbindConfigProxy", "Bind", "Unbind"}

TypeOK ==
  /\ NodeTypeOK
  /\ mu \in Clients \cup Waiters \cup {None}
  /\ service \in Nodes \cup {None}
  /\ bindSeq \in BindIds
  /\ pc \in [Clients -> {"idle", "lock", "config", "go", "wait"}]
  /\ op \in [Clients -> Rpcs \cup {"none"}]
  /\ target \in [Clients -> Nodes \cup {None}]
  /\ binding \in [Clients -> Listeners \cup {None}]
  /\ waiterPc \in [Waiters -> {"free", "await", "lock", "send"}]
  /\ waiterSvc \in [Waiters -> Nodes \cup {None}]
  /\ waiterFor \in [Waiters -> Clients \cup {None}]
  /\ svcPc \in [Nodes -> {"none", "running", "closing", "egwait", "ipfswait",
                          "stopped"}]
  /\ ipfsUp \in SUBSET Nodes
  /\ ctxDone \in BOOLEAN
  /\ panicked \in BOOLEAN

Init ==
  /\ NodeInit
  /\ mu = None
  /\ service = None
  /\ bindSeq = BindSeqStart
  /\ pc = [c \in Clients |-> "idle"]
  /\ op = [c \in Clients |-> "none"]
  /\ target = [c \in Clients |-> None]
  /\ binding = [c \in Clients |-> None]
  /\ waiterPc = [w \in Waiters |-> "free"]
  /\ waiterSvc = [w \in Waiters |-> None]
  /\ waiterFor = [w \in Waiters |-> None]
  /\ svcPc = [n \in Nodes |-> "none"]
  /\ ipfsUp = {}
  /\ ctxDone = FALSE
  /\ panicked = FALSE

---------------------------------------------------------------------------
(* The steps every handler is made of.                                     *)

(* The handler of RPC o has the mutex to itself.                           *)
Locked(c, o) == pc[c] = "lock" /\ op[c] = o /\ mu = None

(* The handler returns and its deferred Unlock runs.                       *)
Return(c) ==
  /\ pc' = [pc EXCEPT ![c] = "idle"]
  /\ op' = [op EXCEPT ![c] = "none"]
  /\ target' = [target EXCEPT ![c] = None]
  /\ binding' = [binding EXCEPT ![c] = None]
  /\ mu' = None

(* The handler goes on to p without releasing the mutex.                   *)
Goto(c, p) ==
  /\ pc' = [pc EXCEPT ![c] = p]
  /\ mu' = c
  /\ UNCHANGED <<op, target>>

(* An RPC other than Bind reads nothing before it takes the mutex.         *)
Call(c, o) ==
  /\ pc[c] = "idle"
  /\ o # "Bind"
  /\ pc' = [pc EXCEPT ![c] = "lock"]
  /\ op' = [op EXCEPT ![c] = o]
  /\ UNCHANGED <<nodeVars, mu, service, bindSeq, target, binding, waiterVars,
                 serviceVars, panicked>>

(* BindProxy, BindIpfsApi and BindIpfsGateway evaluate the method value    *)
(* s.service.node.StartX before doBind locks the mutex.                    *)
CallBind(c) ==
  /\ pc[c] = "idle"
  /\ \/ /\ service = None
        /\ panicked' = TRUE
        /\ UNCHANGED handlerVars
     \/ /\ service # None
        /\ pc' = [pc EXCEPT ![c] = "lock"]
        /\ op' = [op EXCEPT ![c] = "Bind"]
        /\ target' = [target EXCEPT ![c] = service]
        /\ UNCHANGED <<binding, panicked>>
  /\ UNCHANGED <<nodeVars, mu, service, bindSeq, waiterVars, serviceVars>>

---------------------------------------------------------------------------
(* Start: refused while Server.service is set.  grpc.Start either fails    *)
(* and leaves the service nil, or creates the node, connects ipfs and      *)
(* launches waitUntilStopped.  With Config.Bind set the handler goes on to *)
(* StartConfigProxy.                                                       *)
StartRefused(c) ==
  /\ Locked(c, "Start")
  /\ service # None
  /\ Return(c)
  /\ UNCHANGED <<nodeVars, service, bindSeq, waiterVars, serviceVars, panicked>>

StartFails(c) ==
  /\ Locked(c, "Start")
  /\ service = None
  /\ Return(c)
  /\ UNCHANGED <<nodeVars, service, bindSeq, waiterVars, serviceVars, panicked>>

StartService(c, n) ==
  /\ Locked(c, "Start")
  /\ service = None
  /\ New(n, ctxDone)
  /\ service' = n
  /\ svcPc' = [svcPc EXCEPT ![n] = "running"]
  /\ ipfsUp' = ipfsUp \cup {n}
  /\ Return(c) \/ (Goto(c, "config") /\ UNCHANGED binding)
  /\ UNCHANGED <<bindSeq, waiterVars, ctxDone, panicked>>

(* BindConfigProxy, up to the call of StartConfigProxy.                    *)
BindConfigProxy(c) ==
  /\ Locked(c, "BindConfigProxy")
  /\ \/ service = None /\ Return(c)               \* ErrNoService
     \/ service # None /\ Goto(c, "config") /\ UNCHANGED binding
  /\ UNCHANGED <<nodeVars, service, bindSeq, waiterVars, serviceVars, panicked>>

(* StartConfigProxy returns an error: ErrConfigBindNotSet, or Listen's.    *)
StartConfigProxyFails(c) ==
  /\ pc[c] = "config"
  /\ Return(c)
  /\ UNCHANGED <<nodeVars, service, bindSeq, waiterVars, serviceVars, panicked>>

StartConfigProxy(c, l) ==
  /\ pc[c] = "config"
  /\ ConfigAddrFree(service)
  /\ StoreListener(service, ConfigBindId, l, FALSE)
  /\ Goto(c, "go")
  /\ binding' = [binding EXCEPT ![c] = l]
  /\ UNCHANGED <<service, bindSeq, waiterVars, serviceVars, panicked>>

(* Mutant: bindSeq is incremented after the id was used.                   *)
doBind_PostIncrement(c, l, http) ==
  /\ Locked(c, "Bind")
  /\ service # None
  /\ bindSeq < BindSeqLimit
  /\ bindSeq' = (bindSeq + 1) % BindMod
  /\ StoreListener(target[c], bindSeq, l, http)
  /\ Goto(c, "go")
  /\ binding' = [binding EXCEPT ![c] = l]
  /\ UNCHANGED <<service, waiterVars, serviceVars, panicked>>

(* doBind once Listen has succeeded: the next id, and the Start method of  *)
(* the node that was read before the mutex was taken.                      *)
doBind(c, l, http) ==
  /\ Locked(c, "Bind")
  /\ service # None
  /\ bindSeq < BindSeqLimit
  /\ bindSeq' = (bindSeq + 1) % BindMod
  /\ StoreListener(target[c], bindSeq', l, http)
  /\ Goto(c, "go")
  /\ binding' = [binding EXCEPT ![c] = l]
  /\ UNCHANGED <<service, waiterVars, serviceVars, panicked>>

(* doBind returns ErrNoService or the error of Listen.                     *)
doBindFails(c) ==
  /\ Locked(c, "Bind")
  /\ Return(c)
  /\ UNCHANGED <<nodeVars, service, bindSeq, waiterVars, serviceVars, panicked>>

(* The eg.Go at the end of StartProxy, StartIpfsApi and StartIpfsGateway;  *)
(* the handler returns.                                                    *)
StartServing(c) ==
  /\ pc[c] = "go"
  /\ GoServe(binding[c])
  /\ Return(c)
  /\ UNCHANGED <<service, bindSeq, waiterVars, serviceVars, panicked>>

(* Unbind and UnbindConfigProxy.                                           *)
UnbindId(c, id) ==
  /\ IF service = None THEN UNCHANGED nodeVars ELSE StopListener(service, id)
  /\ Return(c)
  /\ UNCHANGED <<service, bindSeq, waiterVars, serviceVars, panicked>>

Unbind(c, id) == Locked(c, "Unbind") /\ UnbindId(c, id)
UnbindConfigProxy(c) ==
  Locked(c, "UnbindConfigProxy") /\ UnbindId(c, ConfigBindId)

(* Stop cancels the context of the service and leaves Server.service set.  *)
Stop(c) ==
  /\ Locked(c, "Stop")
  /\ IF service = None THEN UNCHANGED nodeVars ELSE CancelAll({service})
  /\ Return(c)
  /\ UNCHANGED <<service, bindSeq, waiterVars, serviceVars, panicked>>

---------------------------------------------------------------------------
(* WaitUntilStopped: it reads the service under the mutex, then leaves a   *)
(* goroutine behind and selects on errc and on its own context.            *)

(* Mutant: the early return forgets to unlock.                             *)
WaitNoService_NoUnlock(c) ==
  /\ Locked(c, "WaitUntilStopped")
  /\ service = None
  /\ pc' = [pc EXCEPT ![c] = "idle"]
  /\ op' = [op EXCEPT ![c] = "none"]
  /\ mu' = c
  /\ UNCHANGED <<nodeVars, service, bindSeq, target, binding, waiterVars,
                 serviceVars, panicked>>

WaitNoService(c) ==
  /\ Locked(c, "WaitUntilStopped")
  /\ service = None
  /\ Return(c)
  /\ UNCHANGED <<nodeVars, service, bindSeq, waiterVars, serviceVars, panicked>>

WaitUntilStopped(c, w) ==
  /\ Locked(c, "WaitUntilStopped")
  /\ service # None
  /\ waiterPc[w] = "free"
  /\ waiterPc' = [waiterPc EXCEPT ![w] = "await"]
  /\ waiterSvc' = [waiterSvc EXCEPT ![w] = service]
  /\ waiterFor' = [waiterFor EXCEPT ![w] = c]
  /\ pc' = [pc EXCEPT ![c] = "wait"]
  /\ UNCHANGED <<nodeVars, mu, service, bindSeq, op, target, binding,
                 serviceVars, panicked>>

(* ctx.Done of the caller: nobody receives from errc any more.             *)
WaitCancelled(c) ==
  /\ pc[c] = "wait"
  /\ pc' = [pc EXCEPT ![c] = "idle"]
  /\ op' = [op EXCEPT ![c] = "none"]
  /\ waiterFor' = [w \in Waiters |-> IF waiterFor[w] = c THEN None ELSE waiterFor[w]]
  /\ UNCHANGED <<nodeVars, mu, service, bindSeq, target, binding, waiterPc,
                 waiterSvc, serviceVars, panicked>>

(* service.WaitUntilStopped returns in the goroutine.                      *)
WaiterWakes(w) ==
  /\ waiterPc[w] = "await"
  /\ svcPc[waiterSvc[w]] = "stopped"
  /\ waiterPc' = [waiterPc EXCEPT ![w] = "lock"]
  /\ UNCHANGED <<nodeVars, mu, service, bindSeq, handlerVars, waiterSvc,
                 waiterFor, serviceVars, panicked>>

(* Mutant: the goroutine clears Server.service whatever it is now.         *)
WaiterClears_AnyService(w) ==
  /\ waiterPc[w] = "lock"
  /\ mu = None
  /\ mu' = w
  /\ service' = None
  /\ waiterPc' = [waiterPc EXCEPT ![w] = "send"]
  /\ UNCHANGED <<nodeVars, bindSeq, handlerVars, waiterSvc, waiterFor,
                 serviceVars, panicked>>

(* Mutant: a goroutine that finds another service returns without sending. *)
WaiterClears_NoSend(w) ==
  /\ waiterPc[w] = "lock"
  /\ mu = None
  /\ \/ /\ service = waiterSvc[w]
        /\ mu' = w
        /\ service' = None
        /\ waiterPc' = [waiterPc EXCEPT ![w] = "send"]
     \/ /\ service # waiterSvc[w]
        /\ waiterPc' = [waiterPc EXCEPT ![w] = "free"]
        /\ UNCHANGED <<mu, service>>
  /\ UNCHANGED <<nodeVars, bindSeq, handlerVars, waiterSvc, waiterFor,
                 serviceVars, panicked>>

(* The goroutine locks the mutex and clears Server.service if it is still  *)
(* the one it waited for.                                                  *)
WaiterClears(w) ==
  /\ waiterPc[w] = "lock"
  /\ mu = None
  /\ mu' = w
  /\ service' = IF service = waiterSvc[w] THEN None ELSE service
  /\ waiterPc' = [waiterPc EXCEPT ![w] = "send"]
  /\ UNCHANGED <<nodeVars, bindSeq, handlerVars, waiterSvc, waiterFor,
                 serviceVars, panicked>>

(* errc is unbuffered: the send completes when the handler receives, and   *)
(* only then does the deferred Unlock run.                                 *)
WaiterSends(w) ==
  /\ waiterPc[w] = "send"
  /\ waiterFor[w] # None
  /\ waiterPc' = [waiterPc EXCEPT ![w] = "free"]
  /\ waiterSvc' = [waiterSvc EXCEPT ![w] = None]
  /\ waiterFor' = [waiterFor EXCEPT ![w] = None]
  /\ Return(waiterFor[w])
  /\ UNCHANGED <<nodeVars, service, bindSeq, serviceVars, panicked>>

---------------------------------------------------------------------------
(* Service.waitUntilStopped: node.Close, db.Close, ErrGroupWait, the ipfs  *)
(* process, close(stopped).                                                *)
svcFrame == <<mu, service, bindSeq, handlerVars, waiterVars, ctxDone, panicked>>

svcGoto(n, p) == svcPc' = [svcPc EXCEPT ![n] = p]

ServiceCloses(n) ==
  /\ svcPc[n] = "running"
  /\ n \in cancelled
  /\ CloseBegin(n)
  /\ svcGoto(n, "closing")
  /\ UNCHANGED <<svcFrame, ipfsUp>>

ServiceCloseVisits(n, id) ==
  /\ svcPc[n] = "closing"
  /\ CloseVisit(n, id)
  /\ UNCHANGED <<svcFrame, svcPc, ipfsUp>>

ServiceClosed(n) ==
  /\ svcPc[n] = "closing"
  /\ CloseEnd(n)
  /\ svcGoto(n, "egwait")
  /\ UNCHANGED <<svcFrame, ipfsUp>>

ServiceGroupDone(n) ==
  /\ svcPc[n] = "egwait"
  /\ ErrGroupWait(n)
  /\ svcGoto(n, "ipfswait")
  /\ UNCHANGED <<svcFrame, ipfsUp>>

(* ipfs.Proccess().Err() blocks until the ipfs process has closed.         *)
ServiceStopped(n) ==
  /\ svcPc[n] = "ipfswait"
  /\ n \notin ipfsUp
  /\ svcGoto(n, "stopped")
  /\ UNCHANGED <<nodeVars, svcFrame, ipfsUp>>

(* The ipfs process closes: its context is not the service's, and only the *)
(* shutdown command of the ipfs API ends it.                               *)
IpfsCloses(n) ==
  /\ n \in ipfsUp
  /\ ipfsUp' = ipfsUp \ {n}
  /\ UNCHANGED <<nodeVars, svcFrame, svcPc>>

(* Config.Context is cancelled (an interrupt, or gRPC has stopped): every  *)
(* service context derives from it.                                        *)
ContextDone ==
  /\ ~ctxDone
  /\ ctxDone' = TRUE
  /\ CancelAll({n \in Nodes : nodeState[n] # "absent"})
  /\ UNCHANGED <<mu, service, bindSeq, handlerVars, waiterVars, svcPc, ipfsUp,
                 panicked>>

(* The goroutines of the node, which share no lock with the handlers.      *)
NodeGoroutine(l) ==
  /\ ServeReturns(l) \/ DeferredDelete(l)
  /\ UNCHANGED <<svcFrame, svcPc, ipfsUp>>

NodeAcceptFails(l) ==
  /\ AcceptFails(l)
  /\ UNCHANGED <<svcFrame, svcPc, ipfsUp>>

NodeIpfsReturns(n) ==
  /\ IpfsServeReturns(n)
  /\ UNCHANGED <<svcFrame, svcPc, ipfsUp>>

---------------------------------------------------------------------------
Handler(c) ==
  \/ StartRefused(c) \/ StartFails(c) \/ \E n \in Nodes : StartService(c, n)
  \/ BindConfigProxy(c) \/ StartConfigProxyFails(c)
  \/ \E l \in Listeners : StartConfigProxy(c, l)
  \/ \E l \in Listeners, http \in BOOLEAN : doBind(c, l, http)
  \/ doBindFails(c) \/ StartServing(c)
  \/ \E id \in BindIds : Unbind(c, id)
  \/ UnbindConfigProxy(c) \/ Stop(c) \/ WaitNoService(c)
  \/ \E w \in Waiters : WaitUntilStopped(c, w)

Waiter(w) == WaiterWakes(w) \/ WaiterClears(w) \/ WaiterSends(w)

ServiceGoroutine(n) ==
  \/ ServiceCloses(n) \/ \E id \in BindIds : ServiceCloseVisits(n, id)
  \/ ServiceClosed(n) \/ ServiceGroupDone(n) \/ ServiceStopped(n)
  \/ NodeIpfsReturns(n)

Caller(c) == CallBind(c) \/ WaitCancelled(c) \/ \E o \in Rpcs : Call(c, o)

Environment ==
  \/ ContextDone
  \/ \E n \in Nodes : IpfsCloses(n)
  \/ \E l \in Listeners : NodeAcceptFails(l)

Next ==
  /\ ~panicked
  /\ \/ \E c \in Clients : Caller(c) \/ Handler(c)
     \/ \E w \in Waiters : Waiter(w)
     \/ \E n \in Nodes : ServiceGoroutine(n)
     \/ \E l \in Listeners : NodeGoroutine(l)
     \/ Environment

Spec == Init /\ [][Next]_vars

(* Goroutines run; the mutex is fair to those that wait for it (a Go mutex *)
(* in starvation mode is handed over in order), so a handler or waiter     *)
(* that is infinitely often able to take it does.  Callers and the         *)
(* environment owe nothing, and no Accept has to fail.                     *)
Fairness ==
  /\ \A c \in Clients : SF_vars(~panicked /\ Handler(c))
  /\ \A w \in Waiters : SF_vars(~panicked /\ Waiter(w))
  /\ \A n \in Nodes : WF_vars(~panicked /\ ServiceGoroutine(n))
  /\ \A l \in Listeners : WF_vars(~panicked /\ NodeGoroutine(l))

FairSpec == Spec /\ Fairness

---------------------------------------------------------------------------
(* Server.service is dropped only when it has stopped: a service that runs *)
(* or is being taken down is the current one, so no two services ever hold *)
(* the store and the ipfs repository at once (Start, WaitUntilStopped and  *)
(* the goroutines it leaves behind).                                       *)
OneServiceAtATime ==
  \A n \in Nodes : svcPc[n] \notin {"none", "stopped"} => service = n

(* The ids doBind gives out are not the id of Config.Bind ("The value      *)
(* should not be used by user", node.go:42).                               *)
BindIdsAreNotConfig ==
  \A c \in Clients :
     pc[c] = "go" /\ op[c] = "Bind" => lnId[binding[c]] # ConfigBindId

(* They are never given out twice either, even to handlers that hold       *)
(* different nodes (Server.bindSeq).                                       *)
BindIdsUnique ==
  /\ BindIdsAreNotConfig
  /\ \A k, l \in Listeners :
        /\ lnState[k] # "free" /\ lnState[l] # "free" /\ k # l
        /\ lnId[k] = lnId[l]
        => lnId[k] = ConfigBindId

(* Who holds the mutex: a handler between two of its steps, or a goroutine *)
(* of WaitUntilStopped blocked on errc.  If such a goroutine still has a   *)
(* receiver, that client is in its select: the send can complete.          *)
MutexHeld ==
  /\ \A c \in Clients : pc[c] \in {"config", "go"} <=> mu = c
  /\ \A w \in Waiters : waiterPc[w] = "send" <=> mu = w
  /\ \A w \in Waiters : waiterFor[w] # None => pc[waiterFor[w]] = "wait"

(* The server keeps to what the node asks of its caller (Node, FreshId).   *)
NodeContract == NodeSpec

(* A Start that returns an error leaves no service, so that another Start  *)
(* is not refused ("check the config, then start from grpc client.",       *)
(* hybrid.go:71).                                                          *)
FailedStartLeavesNoService ==
  [][\A c \in Clients :
        op[c] = "Start" /\ StartConfigProxyFails(c) => service' = None]_vars

(* A Bind without a service is refused, by the check in doBind             *)
(* (server.go:173), and does not crash the server.                         *)
NoPanic == ~panicked

---------------------------------------------------------------------------
(* Callers of WaitUntilStopped stay until it returns, and Bind is not      *)
(* called without a service.                                               *)
CallersStay ==
  [](/\ \A w \in Waiters : waiterPc[w] # "free" => waiterFor[w] # None
     /\ ~panicked)

(* Every listener the node serves is in its table and was stored before    *)
(* Close began.                                                            *)
Reachable(n) ==
  \A l \in Listeners :
     lnNode[l] = n /\ Live(l) => groupListeners[n][lnId[l]] = l /\ ~lnLate[l]

(* Every handler gets the mutex and returns or waits, as long as no caller *)
(* of WaitUntilStopped gives up: a handler keeps the mutex for a bounded   *)
(* time, and so does the goroutine that sends on errc (server.go:123-131). *)
RpcsReturn ==
  CallersStay => \A c \in Clients : pc[c] = "lock" ~> pc[c] \in {"idle", "wait"}

(* WaitUntilStopped returns once its service has stopped.                  *)
WaitReturns ==
  CallersStay =>
    \A c \in Clients, w \in Waiters :
       waiterFor[w] = c /\ svcPc[waiterSvc[w]] = "stopped" ~> waiterFor[w] # c

(* A cancelled service stops, if its ipfs process closes and its node      *)
(* serves no listener that Close cannot reach (waitUntilStopped).          *)
StopCompletes ==
  \A n \in Nodes :
     [](~panicked /\ Reachable(n)) /\ <>[](n \notin ipfsUp)
       => (n \in cancelled ~> svcPc[n] = "stopped")

(* An interrupt takes every service down ("Received another interrupt      *)
(* before graceful shutdown", hybrid.go:143).                              *)
GracefulShutdown ==
  []~panicked =>
    \A n \in Nodes : ctxDone /\ svcPc[n] # "none" ~> svcPc[n] = "stopped"
===========================================================================
