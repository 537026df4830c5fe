--------------------------- MODULE ServerProofs ---------------------------
(***************************************************************************)
(* For any clients, waiters, nodes and listeners.                          *)
(*                                                                         *)
(* The node: under every caller that keeps to FreshId, each listener bound *)
(* under an id of its own stays in the table as long as it is served, and  *)
(* Close closes all those bound before it.                                 *)
(*                                                                         *)
(* The server: there is one service at a time, the mutex is held by whom   *)
(* MutexHeld says, and, as long as bindSeq does not wrap around, the       *)
(* server is a caller of the node that keeps to FreshId: it implements     *)
(* NodeSpec.                                                               *)
(***************************************************************************)
EXTENDS Server, TLAPS

---------------------------------------------------------------------------
(* The node.                                                               *)

(* A listener that was never created has no goroutine; one that was        *)
(* belongs to a node that exists.                                          *)
ListenersPlaced ==
  \A l \in Listeners :
     IF lnState[l] = "free" THEN serve[l] = "none"
     ELSE lnNode[l] \in Nodes /\ nodeState[lnNode[l]] # "absent"

(* What FreshId keeps: two listeners of a node share at most the id of     *)
(* Config.Bind.                                                            *)
IdsUsedOnce ==
  \A k, l \in Listeners :
     /\ k # l
     /\ lnState[k] # "free" /\ lnState[l] # "free"
     /\ lnNode[k] = lnNode[l] /\ lnId[k] = lnId[l]
     => lnId[k] = ConfigBindId

(* Entries, with the fact that an entry's listener was created.            *)
EntriesPlaced ==
  \A n \in Nodes, id \in BindIds : groupListeners[n][id] # None =>
     /\ lnState[groupListeners[n][id]] # "free"
     /\ lnNode[groupListeners[n][id]] = n
     /\ lnId[groupListeners[n][id]] = id
     /\ serve[groupListeners[n][id]] # "done"

(* During Close, a listener that is live and was bound before Close is     *)
(* under a key the Range has still to visit.                               *)
CloseHasToVisit ==
  \A l \in Listeners :
     /\ lnState[l] # "free"
     /\ nodeState[lnNode[l]] \in {"closing", "closed"}
     /\ Live(l) /\ lnId[l] # ConfigBindId /\ ~lnLate[l]
     => nodeState[lnNode[l]] = "closing" /\ lnId[l] \in rangeLeft[lnNode[l]]

(* The inductive invariant.                                                *)
NodeInv ==
  /\ NodeTypeOK
  /\ ListenersPlaced
  /\ IdsUsedOnce
  /\ EntriesPlaced
  /\ BoundListenersRegistered
  /\ CloseHasToVisit

(* Initially no node, no listener and no entry exists (New).               *)
LEMMA NodeInitInv == NodeInit => NodeInv
  BY NodeAssumption
  DEF NodeInit, NodeInv, NodeTypeOK, ListenersPlaced, IdsUsedOnce,
      EntriesPlaced, BoundListenersRegistered, CloseHasToVisit, Live

(* New and the cancel function touch no listener.                          *)
LEMMA LifecycleKeepsInv ==
  ASSUME NodeInv,
         \/ \E n \in Nodes, done \in BOOLEAN : New(n, done)
         \/ \E S \in SUBSET Nodes : CancelAll(S)
         \/ \E n \in Nodes : IpfsServeReturns(n)
         \/ \E n \in Nodes : ErrGroupWait(n)
  PROVE  NodeInv'
<1> USE NodeAssumption DEF NodeInv
<1>1. NodeTypeOK'
  BY DEF NodeTypeOK, New, CancelAll, IpfsServeReturns, ErrGroupWait, lnVars
<1>2. /\ UNCHANGED <<groupListeners, lnState, lnNode, lnId, lnLate, serve, rangeLeft>>
      /\ \A n \in Nodes : \/ nodeState'[n] = nodeState[n]
                          \/ nodeState[n] = "absent" /\ nodeState'[n] = "open"
  BY DEF NodeTypeOK, New, CancelAll, IpfsServeReturns, ErrGroupWait, lnVars
<1>3. ListenersPlaced' /\ IdsUsedOnce' /\ EntriesPlaced' /\ BoundListenersRegistered'
  BY <1>2 DEF ListenersPlaced, IdsUsedOnce, EntriesPlaced,
              BoundListenersRegistered, Live
<1>4. CloseHasToVisit'
  BY <1>2 DEF CloseHasToVisit, ListenersPlaced, Live
<1> QED BY <1>1, <1>3, <1>4

(* Storing a listener under a fresh id, or under the id of Config.Bind.    *)
LEMMA StartListenerKeepsInv ==
  ASSUME NodeInv,
         NEW n \in Nodes, NEW id \in BindIds, NEW l \in Listeners,
         NEW http \in BOOLEAN, StartListener(n, id, l, http)
  PROVE  NodeInv'
<1> USE NodeAssumption DEF NodeInv, StartListener, StoreListener
<1>1. NodeTypeOK'
  BY DEF NodeTypeOK
<1>2. ListenersPlaced'
  BY DEF NodeTypeOK, ListenersPlaced
<1>3. IdsUsedOnce'
  BY DEF NodeTypeOK, IdsUsedOnce, FreshId
<1>4. EntriesPlaced'
  BY DEF NodeTypeOK, EntriesPlaced, ListenersPlaced
<1>5. BoundListenersRegistered'
  BY DEF NodeTypeOK, BoundListenersRegistered, Live, FreshId, ListenersPlaced
<1>6. CloseHasToVisit'
  BY Zenon DEF NodeTypeOK, CloseHasToVisit, Live, ListenersPlaced
<1> QED BY <1>1, <1>2, <1>3, <1>4, <1>5, <1>6

(* Closing the listener of one entry can only make listeners less live.    *)
LEMMA CloseEntryEffect ==
  ASSUME NodeInv, NEW n \in Nodes, NEW id \in BindIds,
         lnState' = CloseEntry(n, id)
  PROVE  /\ lnState' \in [Listeners -> {"free", "open", "closed"}]
         /\ \A l \in Listeners : lnState'[l] = "free" <=> lnState[l] = "free"
         /\ \A l \in Listeners : lnState'[l] = "open" => lnState[l] = "open"
         /\ \A l \in Listeners : lnState'[l] = "open" => groupListeners[n][id] # l
  BY NodeAssumption DEF NodeInv, NodeTypeOK, EntriesPlaced, CloseEntry

(* StopListener closes at most the listener of the entry it loads.         *)
LEMMA StopListenerKeepsInv ==
  ASSUME NodeInv, NEW n \in Nodes, NEW id \in BindIds, StopListener(n, id)
  PROVE  NodeInv'
<1> USE NodeAssumption DEF NodeInv, StopListener
<1>1. NodeTypeOK' BY CloseEntryEffect DEF NodeTypeOK
<1>2. ListenersPlaced' BY CloseEntryEffect DEF ListenersPlaced
<1>3. IdsUsedOnce' BY CloseEntryEffect DEF IdsUsedOnce
<1>4. EntriesPlaced' BY CloseEntryEffect DEF EntriesPlaced, NodeTypeOK
<1>5. BoundListenersRegistered' BY CloseEntryEffect DEF BoundListenersRegistered, Live
<1>6. CloseHasToVisit' BY CloseEntryEffect DEF CloseHasToVisit, Live
<1> QED BY <1>1, <1>2, <1>3, <1>4, <1>5, <1>6

(* A visit of the Range: a live listener bound before Close under the      *)
(* visited key is the one the table holds, so it is closed.                *)
LEMMA CloseVisitKeepsInv ==
  ASSUME NodeInv, NEW n \in Nodes, NEW id \in BindIds, CloseVisit(n, id)
  PROVE  NodeInv'
<1> USE NodeAssumption DEF NodeInv, CloseVisit
<1>1. NodeTypeOK' BY CloseEntryEffect DEF NodeTypeOK
<1>2. ListenersPlaced' BY CloseEntryEffect DEF ListenersPlaced
<1>3. IdsUsedOnce' BY CloseEntryEffect DEF IdsUsedOnce
<1>4. EntriesPlaced' BY CloseEntryEffect DEF EntriesPlaced, NodeTypeOK
<1>5. BoundListenersRegistered' BY CloseEntryEffect DEF BoundListenersRegistered, Live
<1>6. CloseHasToVisit'
  <2> SUFFICES ASSUME NEW l \in Listeners,
                      lnState[l] # "free", Live(l)', lnId[l] # ConfigBindId,
                      ~lnLate[l], nodeState[lnNode[l]] \in {"closing", "closed"}
               PROVE  /\ nodeState[lnNode[l]] = "closing"
                      /\ lnId[l] \in rangeLeft'[lnNode[l]]
    BY CloseEntryEffect DEF CloseHasToVisit
  <2>1. Live(l) /\ lnNode[l] \in Nodes
    BY CloseEntryEffect DEF Live, ListenersPlaced
  <2>2. ~(lnNode[l] = n /\ lnId[l] = id)
    BY <2>1, CloseEntryEffect DEF BoundListenersRegistered, Live
  <2> QED BY <2>1, <2>2 DEF CloseHasToVisit, NodeTypeOK
<1> QED BY <1>1, <1>2, <1>3, <1>4, <1>5, <1>6

(* Begin and end of Close.                                                 *)
LEMMA CloseKeepsInv ==
  ASSUME NodeInv, NEW n \in Nodes, CloseBegin(n) \/ CloseEnd(n)
  PROVE  NodeInv'
<1> USE NodeAssumption DEF NodeInv, CloseBegin, CloseEnd, lnVars
<1>1. NodeTypeOK'
  <2>1. CASE CloseBegin(n)
    <3>1. rangeLeft' \in [Nodes -> SUBSET BindIds]
      <4>1. rangeLeft' = [rangeLeft EXCEPT ![n] = BindIds] BY <2>1
      <4>2. BindIds \in SUBSET BindIds OBVIOUS
      <4> QED BY <4>1, <4>2 DEF NodeTypeOK
    <3> QED BY <2>1, <3>1 DEF NodeTypeOK
  <2>2. CASE CloseEnd(n) BY <2>2 DEF NodeTypeOK
  <2> QED BY <2>1, <2>2
<1>2. ListenersPlaced' BY DEF ListenersPlaced, NodeTypeOK
<1>3. IdsUsedOnce' BY DEF IdsUsedOnce
<1>4. EntriesPlaced' BY DEF EntriesPlaced
<1>5. BoundListenersRegistered' BY DEF BoundListenersRegistered, Live
<1>6. CloseHasToVisit' BY DEF CloseHasToVisit, Live, ListenersPlaced, NodeTypeOK
<1> QED BY <1>1, <1>2, <1>3, <1>4, <1>5, <1>6

(* The goroutine of a listener: only its deferred Delete touches the       *)
(* table, and by IdsUsedOnce it removes no other live bound listener.      *)
LEMMA ListenerStepKeepsInv ==
  ASSUME NodeInv, NEW l \in Listeners, ListenerStep(l)
  PROVE  NodeInv'
<1> USE NodeAssumption DEF NodeInv
<1>1. CASE GoServe(l) \/ ServeReturns(l) \/ AcceptFails(l)
  <2> USE <1>1 DEF GoServe, ServeReturns, AcceptFails, lnVars
  <2>1. NodeTypeOK' BY Zenon DEF NodeTypeOK
  <2>2. /\ UNCHANGED <<groupListeners, lnNode, lnId, lnLate, nodeState, rangeLeft>>
        /\ \A k \in Listeners : /\ Live(k)' => Live(k)
                                /\ lnState'[k] = "free" <=> lnState[k] = "free"
                                /\ serve'[k] = "done" <=> serve[k] = "done"
                                /\ lnState[k] = "free" => serve'[k] = serve[k]
    BY DEF NodeTypeOK, Live, ListenersPlaced
  <2>3. ListenersPlaced' BY <2>2 DEF ListenersPlaced
  <2>4. IdsUsedOnce' BY <2>2 DEF IdsUsedOnce
  <2>5. EntriesPlaced' BY <2>2 DEF EntriesPlaced, NodeTypeOK
  <2>6. BoundListenersRegistered' BY <2>2 DEF BoundListenersRegistered
  <2>7. CloseHasToVisit' BY <2>2 DEF CloseHasToVisit
  <2> QED BY <2>1, <2>3, <2>4, <2>5, <2>6, <2>7
<1>2. CASE DeferredDelete(l)
  <2> USE <1>2 DEF DeferredDelete, lnVars
  <2>0. lnNode[l] \in Nodes /\ lnId[l] \in BindIds /\ lnState[l] # "free"
    BY DEF ListenersPlaced, NodeTypeOK
  <2>1. NodeTypeOK' BY <2>0 DEF NodeTypeOK
  <2>2. ListenersPlaced' BY DEF ListenersPlaced, NodeTypeOK
  <2>3. IdsUsedOnce' BY DEF IdsUsedOnce
  <2>4. EntriesPlaced' BY <2>0 DEF EntriesPlaced, NodeTypeOK
  <2>5. BoundListenersRegistered'
    <3> SUFFICES ASSUME NEW k \in Listeners, Live(k)', lnId[k] # ConfigBindId
                 PROVE  groupListeners'[lnNode[k]][lnId[k]] = k
      BY DEF BoundListenersRegistered
    <3>1. Live(k) /\ k # l BY DEF Live, NodeTypeOK
    <3>2. groupListeners[lnNode[k]][lnId[k]] = k
      BY <3>1 DEF BoundListenersRegistered
    <3>3. ~(lnNode[k] = lnNode[l] /\ lnId[k] = lnId[l])
      BY <3>1, <2>0 DEF IdsUsedOnce, Live
    <3>4. lnNode[k] \in Nodes /\ lnId[k] \in BindIds
      BY <3>1 DEF ListenersPlaced, NodeTypeOK, Live
    <3> QED BY <3>2, <3>3, <3>4, <2>0 DEF NodeTypeOK
  <2>6. CloseHasToVisit' BY DEF CloseHasToVisit, Live, NodeTypeOK
  <2> QED BY <2>1, <2>2, <2>3, <2>4, <2>5, <2>6
<1> QED BY <1>1, <1>2 DEF ListenerStep

(* Every step of the node, and none, keeps the invariant.                  *)
LEMMA NodeNextInv == NodeInv /\ [NodeNext]_nodeVars => NodeInv'
<1> SUFFICES ASSUME NodeInv, [NodeNext]_nodeVars PROVE NodeInv'
  OBVIOUS
<1>1. ASSUME NEW n \in Nodes, NodeStep(n) PROVE NodeInv'
  BY <1>1, LifecycleKeepsInv, StartListenerKeepsInv, StopListenerKeepsInv,
     CloseVisitKeepsInv, CloseKeepsInv DEF NodeStep
<1>2. ASSUME NEW l \in Listeners, ListenerStep(l) PROVE NodeInv'
  BY <1>2, ListenerStepKeepsInv
<1>3. ASSUME NEW S \in SUBSET Nodes, CancelAll(S) PROVE NodeInv'
  BY <1>3, LifecycleKeepsInv
<1>4. CASE UNCHANGED nodeVars
  BY <1>4 DEF nodeVars, lnVars, NodeInv, NodeTypeOK, ListenersPlaced,
     IdsUsedOnce, EntriesPlaced, BoundListenersRegistered, CloseHasToVisit, Live
<1> QED BY <1>1, <1>2, <1>3, <1>4 DEF NodeNext

(* The invariant of the table and the goroutines (StartProxy,              *)
(* StopListener, the deferred Delete, Close).                              *)
THEOREM NodeInvariance == NodeSpec => []NodeInv
  BY NodeInitInv, NodeNextInv, PTL DEF NodeSpec

(* A listener served under an id of its own is in the table: Unbind and    *)
(* Close reach it.                                                         *)
THEOREM BoundListenersStayRegistered == NodeSpec => []BoundListenersRegistered
<1>1. NodeInv => BoundListenersRegistered BY DEF NodeInv
<1> QED BY <1>1, NodeInvariance, PTL

(* No entry of the table outlives the goroutine of its listener.           *)
THEOREM EntriesAlwaysHaveServers == NodeSpec => []EntriesHaveServers
<1>1. NodeInv => EntriesHaveServers
  BY DEF NodeInv, EntriesPlaced, EntriesHaveServers
<1> QED BY <1>1, NodeInvariance, PTL

(* Close has closed every listener bound under an id of its own before it. *)
THEOREM CloseReachesAll == NodeSpec => []CloseReachesBoundListeners
<1>1. NodeInv => CloseReachesBoundListeners
  BY DEF NodeInv, CloseHasToVisit, CloseReachesBoundListeners
<1> QED BY <1>1, NodeInvariance, PTL

---------------------------------------------------------------------------
(* The server.                                                             *)

(* A service and its node are created together, and Server.service is one  *)
(* that was created (grpc.Start).                                          *)
ServicesPlaced ==
  /\ \A n \in Nodes : svcPc[n] = "none" <=> nodeState[n] = "absent"
  /\ service # None => svcPc[service] # "none"

(* What a handler relies on between its steps: Server.service is set while *)
(* it starts the configured proxy, the node of a Bind exists, the listener *)
(* it is about to serve was created.                                       *)
HandlersPlaced ==
  \A c \in Clients :
     /\ pc[c] = "config" => service # None /\ op[c] # "Bind"
     /\ pc[c] = "lock" /\ op[c] = "Bind" => target[c] # None
     /\ pc[c] = "go" => binding[c] # None /\ lnState[binding[c]] # "free"

(* A goroutine of WaitUntilStopped that was woken up waited for a service  *)
(* that has stopped, and no two of them send to the same client.           *)
WaitersPlaced ==
  \A w \in Waiters :
     /\ waiterPc[w] # "free" => waiterSvc[w] # None
     /\ waiterPc[w] \in {"lock", "send"} => svcPc[waiterSvc[w]] = "stopped"
     /\ \A v \in Waiters : waiterFor[v] = waiterFor[w] => v = w \/ waiterFor[w] = None

(* The inductive invariant.                                                *)
ServerInv ==
  /\ TypeOK
  /\ MutexHeld
  /\ ServicesPlaced
  /\ HandlersPlaced
  /\ WaitersPlaced
  /\ OneServiceAtATime

(* bindSeq bounds the ids in use, and those it gave out differ.            *)
IdsBounded ==
  /\ ConfigBindId <= bindSeq
  /\ \A l \in Listeners : lnState[l] # "free" => lnId[l] <= bindSeq
  /\ BindIdsUnique

USE DEF vars, handlerVars, waiterVars, serviceVars, svcFrame, nodeVars, lnVars

(* NewServer: no service, nobody holds the mutex.                          *)
LEMMA InitInv == Init => ServerInv
<1> SUFFICES ASSUME Init PROVE ServerInv
  OBVIOUS
<1> USE NodeAssumption, ServerAssumption DEF Init
<1>1. NodeTypeOK
  BY NodeInitInv DEF NodeInv
<1>2. TypeOK
  BY <1>1, Zenon DEF TypeOK
<1>3. MutexHeld
  BY DEF MutexHeld
<1>4. ServicesPlaced /\ HandlersPlaced /\ WaitersPlaced /\ OneServiceAtATime
  BY DEF ServicesPlaced, HandlersPlaced, WaitersPlaced, OneServiceAtATime, NodeInit
<1> QED BY <1>2, <1>3, <1>4 DEF ServerInv

(* A bindSeq that has not reached 2^32 is not changed by the wrap around.  *)
LEMMA ModSmall ==
  ASSUME NEW a \in Nat, NEW b \in Nat, a < b
  PROVE  a % b = a
  OBVIOUS

(* bindSeq stays a uint32 (doBind).                                        *)
LEMMA NextId == ASSUME bindSeq \in BindIds PROVE (bindSeq + 1) % BindMod \in BindIds
  BY ServerAssumption

---------------------------------------------------------------------------
(* The steps of a node whose caller need not keep to FreshId: New, what    *)
(* else a call or the service does to a node, what its goroutines do.      *)
CallStep(n) ==
  \/ \E id \in BindIds, l \in Listeners, http \in BOOLEAN :
        StoreListener(n, id, l, http)
  \/ \E id \in BindIds : StopListener(n, id) \/ CloseVisit(n, id)
  \/ CloseBegin(n) \/ CloseEnd(n) \/ IpfsServeReturns(n) \/ ErrGroupWait(n)

RunStep ==
  \/ \E n \in Nodes : CallStep(n)
  \/ \E l \in Listeners : ListenerStep(l)
  \/ \E S \in SUBSET Nodes : CancelAll(S)
  \/ UNCHANGED nodeVars

(* They keep the types of the node's variables, forget no listener and     *)
(* create no node.                                                         *)
LEMMA RunStepEffect ==
  ASSUME NodeTypeOK, RunStep
  PROVE  /\ NodeTypeOK'
         /\ \A k \in Listeners : lnState[k] # "free" => lnState'[k] # "free"
         /\ \A m \in Nodes : nodeState'[m] = "absent" <=> nodeState[m] = "absent"
<1> DEFINE Goal == /\ NodeTypeOK'
                   /\ \A k \in Listeners : lnState[k] # "free" => lnState'[k] # "free"
                   /\ \A m \in Nodes : nodeState'[m] = "absent" <=> nodeState[m] = "absent"
<1> USE NodeAssumption
<1>1. ASSUME NEW n \in Nodes, CallStep(n) PROVE Goal
  <2>1. ASSUME NEW id \in BindIds, NEW l \in Listeners, NEW http \in BOOLEAN,
               StoreListener(n, id, l, http)
        PROVE  Goal
    BY <2>1 DEF NodeTypeOK, StoreListener
  <2>2. ASSUME NEW id \in BindIds, StopListener(n, id) \/ CloseVisit(n, id)
        PROVE  Goal
    <3>1. /\ lnState' \in [Listeners -> {"free", "open", "closed"}]
          /\ \A k \in Listeners : lnState[k] # "free" => lnState'[k] # "free"
      BY <2>2 DEF StopListener, CloseVisit, CloseEntry, NodeTypeOK
    <3> QED BY <2>2, <3>1 DEF StopListener, CloseVisit, NodeTypeOK
  <2>3. CASE CloseBegin(n)
    <3>1. BindIds \in SUBSET BindIds OBVIOUS
    <3>2. rangeLeft' \in [Nodes -> SUBSET BindIds]
      BY <2>3, <3>1 DEF CloseBegin, NodeTypeOK
    <3> QED BY <2>3, <3>2 DEF CloseBegin, NodeTypeOK
  <2>4. CASE CloseEnd(n) \/ IpfsServeReturns(n) \/ ErrGroupWait(n)
    BY <2>4 DEF NodeTypeOK, CloseEnd, IpfsServeReturns, ErrGroupWait
  <2> QED BY <1>1, <2>1, <2>2, <2>3, <2>4 DEF CallStep
<1>2. ASSUME NEW l \in Listeners, ListenerStep(l) PROVE Goal
  <2>1. CASE GoServe(l) \/ ServeReturns(l) \/ AcceptFails(l)
    BY <2>1, Zenon DEF NodeTypeOK, GoServe, ServeReturns, AcceptFails
  <2>2. CASE DeferredDelete(l)
    <3>1. lnNode[l] \in Nodes \cup {None} /\ lnId[l] \in BindIds BY DEF NodeTypeOK
    <3>2. groupListeners' \in [Nodes -> [BindIds -> Listeners \cup {None}]]
      BY <2>2, <3>1, Zenon DEF DeferredDelete, NodeTypeOK
    <3> QED BY <2>2, <3>2 DEF DeferredDelete, NodeTypeOK
  <2> QED BY <1>2, <2>1, <2>2 DEF ListenerStep
<1>3. ASSUME NEW S \in SUBSET Nodes, CancelAll(S) PROVE Goal
  BY <1>3 DEF NodeTypeOK, CancelAll
<1>4. CASE UNCHANGED nodeVars
  BY <1>4 DEF NodeTypeOK
<1> QED BY <1>1, <1>2, <1>3, <1>4 DEF RunStep

---------------------------------------------------------------------------
(* One lemma per kind of server action.                                    *)
(* An RPC that arrives holds nothing yet; a Bind that finds a service      *)
(* keeps its node.                                                         *)
LEMMA CallKeepsInv ==
  ASSUME ServerInv, NEW c \in Clients, NEW o \in Rpcs, Call(c, o) \/ CallBind(c)
  PROVE  ServerInv'
<1> USE NodeAssumption, ServerAssumption DEF ServerInv, Call, CallBind
<1>1. TypeOK'
  <2>1. NodeTypeOK' BY DEF TypeOK, NodeTypeOK
  <2>2. panicked' \in BOOLEAN BY Zenon DEF TypeOK
  <2> QED BY <2>1, <2>2 DEF TypeOK, Rpcs
<1>2. MutexHeld' BY DEF TypeOK, MutexHeld
<1>3. ServicesPlaced' BY Zenon DEF ServicesPlaced
<1>4. HandlersPlaced'
  <2>1. /\ lnState' = lnState /\ service' = service /\ binding' = binding
        OBVIOUS
  <2>2. CASE Call(c, o)       BY <2>1, <2>2 DEF HandlersPlaced, TypeOK
  <2>3. CASE CallBind(c)      BY <2>1, <2>3 DEF HandlersPlaced, TypeOK
  <2> QED BY <2>2, <2>3
<1>5. WaitersPlaced' /\ OneServiceAtATime' BY DEF WaitersPlaced, OneServiceAtATime
<1> QED BY <1>1, <1>2, <1>3, <1>4, <1>5

(* A handler that holds the mutex, or takes it, and returns.               *)
LEMMA ReturnKeepsMutex ==
  ASSUME ServerInv, NEW c \in Clients, mu \in {None, c}, pc[c] # "wait",
         Return(c), UNCHANGED waiterVars
  PROVE  MutexHeld'
  BY NodeAssumption, ServerAssumption
  DEF ServerInv, TypeOK, MutexHeld, Return

(* A handler that takes the mutex, or holds it, and goes on.               *)
LEMMA GotoKeepsMutex ==
  ASSUME ServerInv, NEW c \in Clients, mu \in {None, c}, pc[c] # "wait",
         NEW p \in {"config", "go"}, Goto(c, p), UNCHANGED waiterVars
  PROVE  MutexHeld'
  BY NodeAssumption, ServerAssumption
  DEF ServerInv, TypeOK, MutexHeld, Goto

(* The handlers that return in one step, and the eg.Go a Bind ends with.   *)
LEMMA HandlerReturnsKeepsInv ==
  ASSUME ServerInv, NEW c \in Clients, NEW id \in BindIds,
         \/ StartRefused(c) \/ StartFails(c) \/ StartConfigProxyFails(c)
         \/ doBindFails(c) \/ Unbind(c, id) \/ UnbindConfigProxy(c)
         \/ Stop(c) \/ WaitNoService(c) \/ StartServing(c)
  PROVE  ServerInv'
<1> USE NodeAssumption, ServerAssumption DEF ServerInv
<1>1. /\ Return(c) /\ UNCHANGED <<service, bindSeq, waiterVars, serviceVars, panicked>>
      /\ mu \in {None, c} /\ pc[c] # "wait"
  BY Zenon DEF StartRefused, StartFails, StartConfigProxyFails, doBindFails, Unbind,
         UnbindConfigProxy, UnbindId, Stop, WaitNoService, StartServing, Locked,
         MutexHeld
<1>2. RunStep
  <2>1. CASE StartServing(c)
    <3>1. binding[c] \in Listeners /\ GoServe(binding[c])
      BY <2>1, Zenon DEF StartServing, HandlersPlaced, TypeOK
    <3> QED BY <3>1, Zenon DEF RunStep, ListenerStep
  <2>2. CASE Stop(c)
    <3>1. CASE service = None BY <2>2, <3>1 DEF Stop, RunStep
    <3>2. CASE service # None
      <4>1. {service} \in SUBSET Nodes BY <3>2 DEF TypeOK
      <4>2. CancelAll({service}) BY <2>2, <3>2 DEF Stop
      <4> QED BY <4>1, <4>2 DEF RunStep
    <3> QED BY <3>1, <3>2
  <2>3. CASE Unbind(c, id) \/ UnbindConfigProxy(c)
    <3>1. \/ UNCHANGED nodeVars
          \/ service \in Nodes /\ \E i \in BindIds : StopListener(service, i)
      BY <2>3 DEF Unbind, UnbindConfigProxy, UnbindId, TypeOK
    <3> QED BY <3>1 DEF RunStep, CallStep
  <2>4. CASE \/ StartRefused(c) \/ StartFails(c) \/ StartConfigProxyFails(c)
             \/ doBindFails(c) \/ WaitNoService(c)
    <3>1. UNCHANGED nodeVars
      BY <2>4, Zenon DEF StartRefused, StartFails, StartConfigProxyFails, doBindFails,
                  WaitNoService
    <3> QED BY <3>1 DEF RunStep
  <2> QED BY <2>1, <2>2, <2>3, <2>4
<1>3. /\ NodeTypeOK'
      /\ \A k \in Listeners : lnState[k] # "free" => lnState'[k] # "free"
      /\ \A m \in Nodes : nodeState'[m] = "absent" <=> nodeState[m] = "absent"
  BY <1>2, RunStepEffect, Zenon DEF TypeOK
<1>4. TypeOK' BY <1>1, <1>3, Zenon DEF TypeOK, Return
<1>5. MutexHeld' BY <1>1, ReturnKeepsMutex
<1>6. ServicesPlaced' BY <1>1, <1>3, Zenon DEF ServicesPlaced, TypeOK
<1>7. HandlersPlaced'
  <2> SUFFICES ASSUME NEW d \in Clients
               PROVE  /\ pc'[d] = "config" => service' # None /\ op'[d] # "Bind"
                      /\ pc'[d] = "lock" /\ op'[d] = "Bind" => target'[d] # None
                      /\ pc'[d] = "go" => binding'[d] # None /\ lnState'[binding'[d]] # "free"
    BY Zenon DEF HandlersPlaced
  <2>1. CASE d = c
    <3>1. pc'[c] = "idle" BY <1>1 DEF Return, TypeOK
    <3> QED BY <2>1, <3>1
  <2>2. CASE d # c
    <3>1. /\ pc'[d] = pc[d] /\ op'[d] = op[d] /\ target'[d] = target[d]
          /\ binding'[d] = binding[d] /\ service' = service
      BY <1>1, <2>2 DEF Return, TypeOK
    <3>2. binding[d] # None => binding[d] \in Listeners BY DEF TypeOK
    <3> QED BY <1>3, <3>1, <3>2 DEF HandlersPlaced
  <2> QED BY <2>1, <2>2, Zenon
<1>8. WaitersPlaced' /\ OneServiceAtATime' BY <1>1 DEF WaitersPlaced, OneServiceAtATime
<1> QED BY <1>4, <1>5, <1>6, <1>7, <1>8

(* WaitUntilStopped, its caller and the goroutine it leaves behind.        *)
LEMMA WaitKeepsInv ==
  ASSUME ServerInv, NEW c \in Clients, NEW w \in Waiters,
         WaitUntilStopped(c, w) \/ WaitCancelled(c)
  PROVE  ServerInv'
<1> USE NodeAssumption, ServerAssumption DEF ServerInv, WaitUntilStopped, WaitCancelled, Locked
<1>1. TypeOK'
  <2>1. NodeTypeOK' BY DEF TypeOK, NodeTypeOK
  <2> QED BY <2>1 DEF TypeOK
<1>2. MutexHeld' BY DEF TypeOK, MutexHeld
<1>3. ServicesPlaced' BY Zenon DEF ServicesPlaced
<1>4. HandlersPlaced' BY DEF HandlersPlaced, TypeOK
<1>5. WaitersPlaced' BY DEF WaitersPlaced, TypeOK, MutexHeld
<1>6. OneServiceAtATime' BY DEF OneServiceAtATime
<1> QED BY <1>1, <1>2, <1>3, <1>4, <1>5, <1>6

(* The goroutine of WaitUntilStopped clears a service that has stopped,    *)
(* under the mutex, and hands it back with the answer.                     *)
LEMMA WaiterKeepsInv ==
  ASSUME ServerInv, NEW w \in Waiters, Waiter(w)
  PROVE  ServerInv'
<1> USE NodeAssumption, ServerAssumption DEF ServerInv
<1>1. CASE WaiterWakes(w)
  <2> USE <1>1 DEF WaiterWakes
  <2>1. NodeTypeOK' BY DEF TypeOK, NodeTypeOK
  <2>2. TypeOK' BY <2>1 DEF TypeOK
  <2>3. MutexHeld' BY DEF TypeOK, MutexHeld
  <2>4. WaitersPlaced' BY DEF WaitersPlaced, TypeOK
  <2>5. ServicesPlaced' /\ HandlersPlaced' /\ OneServiceAtATime'
    BY DEF ServicesPlaced, HandlersPlaced, OneServiceAtATime
  <2> QED BY <2>2, <2>3, <2>4, <2>5, Zenon
<1>2. CASE WaiterClears(w)
  <2> USE <1>2 DEF WaiterClears
  <2>1. NodeTypeOK' BY DEF TypeOK, NodeTypeOK
  <2>2. TypeOK' BY <2>1 DEF TypeOK
  <2>3. MutexHeld' BY DEF TypeOK, MutexHeld
  <2>4. WaitersPlaced' BY DEF WaitersPlaced, TypeOK
  <2>5. ServicesPlaced' BY DEF ServicesPlaced
  <2>6. HandlersPlaced' BY DEF HandlersPlaced, MutexHeld
  <2>7. OneServiceAtATime' BY DEF OneServiceAtATime, WaitersPlaced
  <2> QED BY <2>2, <2>3, <2>4, <2>5, <2>6, <2>7
<1>3. CASE WaiterSends(w)
  <2> DEFINE c == waiterFor[w]
  <2> USE <1>3 DEF WaiterSends, Return
  <2>0. c \in Clients /\ pc[c] = "wait" /\ mu = w BY DEF TypeOK, MutexHeld
  <2>1. NodeTypeOK' BY DEF TypeOK, NodeTypeOK
  <2>2. TypeOK' BY <2>0, <2>1 DEF TypeOK
  <2>3. MutexHeld'
    <3>1. \A d \in Clients : pc'[d] \in {"config", "go"} <=> mu' = d
      BY <2>0 DEF TypeOK, MutexHeld
    <3>2. \A v \in Waiters : waiterPc'[v] = "send" <=> mu' = v
      BY <2>0 DEF TypeOK, MutexHeld
    <3>3. \A v \in Waiters : waiterFor'[v] # None => pc'[waiterFor'[v]] = "wait"
      BY <2>0 DEF TypeOK, MutexHeld, WaitersPlaced
    <3> QED BY <3>1, <3>2, <3>3 DEF MutexHeld
  <2>4. WaitersPlaced' BY DEF WaitersPlaced, TypeOK
  <2>5. HandlersPlaced' BY <2>0 DEF HandlersPlaced, TypeOK
  <2>6. ServicesPlaced' /\ OneServiceAtATime' BY DEF ServicesPlaced, OneServiceAtATime
  <2> QED BY <2>2, <2>3, <2>4, <2>5, <2>6
<1> QED BY <1>1, <1>2, <1>3 DEF Waiter

(* Start, once grpc.Start has succeeded: there was no service before, so   *)
(* all others have stopped.                                                *)
LEMMA StartServiceKeepsInv ==
  ASSUME ServerInv, NEW c \in Clients, NEW n \in Nodes, StartService(c, n)
  PROVE  ServerInv'
<1> USE NodeAssumption, ServerAssumption DEF ServerInv, StartService, Locked
<1>1. NodeTypeOK' BY DEF TypeOK, NodeTypeOK, New
<1>2. TypeOK' BY <1>1 DEF TypeOK, Return, Goto
<1>3. MutexHeld' BY ReturnKeepsMutex, GotoKeepsMutex, Zenon
<1>4. ServicesPlaced' BY DEF ServicesPlaced, TypeOK, NodeTypeOK, New
<1>5. HandlersPlaced'
  <2> SUFFICES ASSUME NEW d \in Clients
               PROVE  /\ pc'[d] = "config" => service' # None /\ op'[d] # "Bind"
                      /\ pc'[d] = "lock" /\ op'[d] = "Bind" => target'[d] # None
                      /\ pc'[d] = "go" => binding'[d] # None /\ lnState'[binding'[d]] # "free"
    BY DEF HandlersPlaced
  <2>1. CASE d = c
    <3>1. pc'[c] \in {"idle", "config"} /\ (pc'[c] = "config" => op'[c] = "Start")
      BY DEF Return, Goto, TypeOK
    <3>2. service' # None BY DEF TypeOK
    <3> QED BY <2>1, <3>1, <3>2
  <2>2. CASE d # c
    <3>1. /\ pc'[d] = pc[d] /\ op'[d] = op[d] /\ target'[d] = target[d]
          /\ binding'[d] = binding[d]
      BY <2>2 DEF Return, Goto, TypeOK
    <3>2. pc[d] \notin {"config", "go"} BY Zenon DEF MutexHeld
    <3> QED BY <3>1, <3>2, Zenon DEF HandlersPlaced
  <2> QED BY <2>1, <2>2
<1>6. WaitersPlaced' BY DEF WaitersPlaced, TypeOK, ServicesPlaced, New
<1>7. OneServiceAtATime' BY DEF OneServiceAtATime, TypeOK
<1> QED BY <1>2, <1>3, <1>4, <1>5, <1>6, <1>7

(* The handlers that store a listener, and BindConfigProxy before it does. *)
LEMMA BindKeepsInv ==
  ASSUME ServerInv, NEW c \in Clients,
         \/ BindConfigProxy(c)
         \/ \E l \in Listeners : StartConfigProxy(c, l)
         \/ \E l \in Listeners, http \in BOOLEAN : doBind(c, l, http)
  PROVE  ServerInv'
<1> USE NodeAssumption, ServerAssumption DEF ServerInv
<1> DEFINE Effect ==
      /\ Return(c) \/ (/\ service # None /\ op[c] # "Bind"
                       /\ Goto(c, "config") /\ UNCHANGED binding)
         \/ \E l \in Listeners : /\ Goto(c, "go") /\ lnState'[l] # "free"
                                 /\ binding' = [binding EXCEPT ![c] = l]
      /\ UNCHANGED <<service, waiterVars, serviceVars, panicked>>
      /\ bindSeq' \in BindIds
      /\ mu \in {None, c} /\ pc[c] # "wait"
<1>1. Effect
  <2>1. CASE BindConfigProxy(c) BY <2>1 DEF BindConfigProxy, Locked, TypeOK
  <2>2. ASSUME NEW l \in Listeners, StartConfigProxy(c, l) PROVE Effect
    <3>1. lnState'[l] # "free" BY <2>2, Zenon DEF StartConfigProxy, StoreListener, TypeOK, NodeTypeOK
    <3>2. mu = c BY <2>2, Zenon DEF StartConfigProxy, MutexHeld
    <3> QED BY <2>2, <3>1, <3>2, Zenon DEF StartConfigProxy, TypeOK
  <2>3. ASSUME NEW l \in Listeners, NEW http \in BOOLEAN, doBind(c, l, http)
        PROVE  Effect
    <3>1. lnState'[l] # "free"
      <4>1. lnState' = [lnState EXCEPT ![l] = "open"] BY <2>3, Zenon DEF doBind, StoreListener
      <4>2. DOMAIN lnState = Listeners BY DEF TypeOK, NodeTypeOK
      <4> QED BY <4>1, <4>2
    <3>2. bindSeq' \in BindIds BY <2>3, NextId DEF doBind, TypeOK
    <3> QED BY <2>3, <3>1, <3>2, Zenon DEF doBind, Locked
  <2> QED BY <2>1, <2>2, <2>3, Zenon
<1>2. RunStep
  <2>1. CASE BindConfigProxy(c) BY <2>1 DEF BindConfigProxy, RunStep
  <2>2. ASSUME NEW l \in Listeners, StartConfigProxy(c, l) PROVE RunStep
    <3>1. service \in Nodes /\ StoreListener(service, ConfigBindId, l, FALSE)
      BY <2>2, Zenon DEF StartConfigProxy, HandlersPlaced, TypeOK
    <3> QED BY <3>1, Zenon DEF RunStep, CallStep
  <2>3. ASSUME NEW l \in Listeners, NEW http \in BOOLEAN, doBind(c, l, http)
        PROVE  RunStep
    <3>1. /\ target[c] \in Nodes /\ bindSeq' \in BindIds
          /\ StoreListener(target[c], bindSeq', l, http)
      BY <2>3, NextId DEF doBind, Locked, HandlersPlaced, TypeOK
    <3> QED BY <3>1, Zenon DEF RunStep, CallStep
  <2> QED BY <2>1, <2>2, <2>3
<1>3. /\ NodeTypeOK'
      /\ \A k \in Listeners : lnState[k] # "free" => lnState'[k] # "free"
      /\ \A m \in Nodes : nodeState'[m] = "absent" <=> nodeState[m] = "absent"
  BY <1>2, RunStepEffect, Zenon DEF TypeOK
<1>4. TypeOK'
  <2>1. CASE Return(c) BY <1>1, <1>3, <2>1, Zenon DEF TypeOK, Return
  <2>2. CASE Goto(c, "config") /\ UNCHANGED binding BY <1>1, <1>3, <2>2, Zenon DEF TypeOK, Goto
  <2>3. ASSUME NEW l \in Listeners, Goto(c, "go"), binding' = [binding EXCEPT ![c] = l]
        PROVE  TypeOK'
    BY <1>1, <1>3, <2>3, Zenon DEF TypeOK, Goto
  <2> QED BY <1>1, <2>1, <2>2, <2>3, Zenon
<1>5. MutexHeld' BY <1>1, ReturnKeepsMutex, GotoKeepsMutex, Zenon
<1>6. ServicesPlaced' BY <1>1, <1>3, Zenon DEF ServicesPlaced, TypeOK
<1>7. HandlersPlaced'
  <2> SUFFICES ASSUME NEW d \in Clients
               PROVE  /\ pc'[d] = "config" => service' # None /\ op'[d] # "Bind"
                      /\ pc'[d] = "lock" /\ op'[d] = "Bind" => target'[d] # None
                      /\ pc'[d] = "go" => binding'[d] # None /\ lnState'[binding'[d]] # "free"
    BY DEF HandlersPlaced
  <2>1. CASE d = c
    <3>1. CASE Return(c)
      <4>1. pc'[c] = "idle" BY <3>1 DEF Return, TypeOK
      <4> QED BY <2>1, <4>1
    <3>2. CASE service # None /\ op[c] # "Bind" /\ Goto(c, "config")
      <4>1. pc'[c] = "config" /\ op'[c] = op[c] /\ service' = service
        BY <1>1, <3>2 DEF Goto, TypeOK
      <4> QED BY <2>1, <3>2, <4>1, Zenon
    <3>3. ASSUME NEW l \in Listeners, Goto(c, "go"), lnState'[l] # "free",
                 binding' = [binding EXCEPT ![c] = l]
          PROVE  pc'[c] = "go" /\ binding'[c] = l /\ l # None
      BY <3>3, Zenon DEF Goto, TypeOK
    <3> QED BY <1>1, <2>1, <3>1, <3>2, <3>3, Zenon
  <2>2. CASE d # c
    <3>1. /\ pc'[d] = pc[d] /\ op'[d] = op[d] /\ target'[d] = target[d]
          /\ binding'[d] = binding[d] /\ service' = service
      BY <1>1, <2>2 DEF Return, Goto, TypeOK
    <3>2. binding[d] # None => binding[d] \in Listeners BY DEF TypeOK
    <3> QED BY <1>3, <3>1, <3>2, Zenon DEF HandlersPlaced
  <2> QED BY <2>1, <2>2, Zenon
<1>8. WaitersPlaced' /\ OneServiceAtATime' BY <1>1, Zenon DEF WaitersPlaced, OneServiceAtATime
<1> QED BY <1>4, <1>5, <1>6, <1>7, <1>8

(* waitUntilStopped, the goroutines of the node and the environment: the   *)
(* handlers, the waiters and the mutex are left alone.                     *)
LEMMA BackgroundKeepsInv ==
  ASSUME ServerInv,
         \/ \E n \in Nodes : ServiceGoroutine(n)
         \/ \E l \in Listeners : NodeGoroutine(l)
         \/ Environment
  PROVE  ServerInv'
<1> USE NodeAssumption, ServerAssumption DEF ServerInv
<1> DEFINE Frame == UNCHANGED <<mu, service, bindSeq, handlerVars, waiterVars, panicked>>
           Types == /\ ipfsUp' \in SUBSET Nodes /\ ctxDone' \in BOOLEAN
                    /\ svcPc' \in [Nodes -> {"none", "running", "closing", "egwait",
                                             "ipfswait", "stopped"}]
           Forward == \A n \in Nodes : /\ svcPc'[n] = "none" <=> svcPc[n] = "none"
                                       /\ svcPc[n] = "stopped" => svcPc'[n] = "stopped"
<1>1. Frame /\ Types /\ Forward
  <2> DEFINE Goal == Frame /\ Types /\ Forward
  <2>1. ASSUME NEW n \in Nodes, ServiceGoroutine(n) PROVE Goal
    <3> USE DEF svcGoto, TypeOK
    <3>1. CASE ServiceCloses(n) BY <3>1 DEF ServiceCloses
    <3>2. CASE ServiceClosed(n) BY <3>2 DEF ServiceClosed
    <3>3. CASE ServiceGroupDone(n) BY <3>3 DEF ServiceGroupDone
    <3>4. CASE ServiceStopped(n) BY <3>4 DEF ServiceStopped
    <3> QED BY <2>1, <3>1, <3>2, <3>3, <3>4
       , Zenon DEF ServiceGoroutine, ServiceCloseVisits, NodeIpfsReturns
  <2>2. ASSUME NEW l \in Listeners, NodeGoroutine(l) \/ NodeAcceptFails(l) PROVE Goal
    BY <2>2 DEF NodeGoroutine, NodeAcceptFails, TypeOK
  <2>3. CASE ContextDone BY <2>3, Zenon DEF ContextDone, TypeOK
  <2>4. ASSUME NEW n \in Nodes, IpfsCloses(n) PROVE Goal
    BY <2>4 DEF IpfsCloses, TypeOK
  <2> QED BY <2>1, <2>2, <2>3, <2>4 DEF Environment
<1>2. RunStep
  <2>1. CASE \E n \in Nodes : ServiceGoroutine(n)
    BY <2>1, Zenon DEF RunStep, CallStep, ServiceGoroutine, ServiceCloses,
       ServiceCloseVisits, ServiceClosed, ServiceGroupDone, ServiceStopped,
       NodeIpfsReturns
  <2>2. CASE \E l \in Listeners : NodeGoroutine(l) \/ NodeAcceptFails(l)
    BY <2>2 DEF RunStep, ListenerStep, NodeGoroutine, NodeAcceptFails
  <2>3. CASE ContextDone
    <3>1. {n \in Nodes : nodeState[n] # "absent"} \in SUBSET Nodes OBVIOUS
    <3> QED BY <2>3, <3>1 DEF ContextDone, RunStep
  <2>4. CASE \E n \in Nodes : IpfsCloses(n) BY <2>4 DEF IpfsCloses, RunStep
  <2> QED BY <2>1, <2>2, <2>3, <2>4 DEF Environment
<1>3. /\ NodeTypeOK'
      /\ \A k \in Listeners : lnState[k] # "free" => lnState'[k] # "free"
      /\ \A m \in Nodes : nodeState'[m] = "absent" <=> nodeState[m] = "absent"
  BY <1>2, RunStepEffect DEF TypeOK
<1>4. TypeOK' BY <1>1, <1>3 DEF TypeOK
<1>5. MutexHeld' BY <1>1 DEF MutexHeld
<1>6. ServicesPlaced'
  <2>1. \A n \in Nodes : svcPc'[n] = "none" <=> nodeState'[n] = "absent"
    BY <1>1, <1>3 DEF ServicesPlaced
  <2>2. service # None => svcPc'[service] # "none"
    BY <1>1 DEF ServicesPlaced, TypeOK
  <2> QED BY <1>1, <2>1, <2>2 DEF ServicesPlaced
<1>7. HandlersPlaced'
  <2>1. \A d \in Clients : pc[d] = "go" => binding[d] \in Listeners /\ binding[d] # None
    BY DEF HandlersPlaced, TypeOK
  <2>2. \A d \in Clients : pc[d] = "go" => lnState'[binding[d]] # "free"
    BY <1>3, <2>1, Zenon DEF HandlersPlaced
  <2> QED BY <1>1, <2>1, <2>2 DEF HandlersPlaced
<1>8. WaitersPlaced'
  <2>1. \A w \in Waiters : waiterPc[w] \in {"lock", "send"} => svcPc'[waiterSvc[w]] = "stopped"
    BY <1>1 DEF WaitersPlaced, TypeOK
  <2> QED BY <1>1, <2>1, Zenon DEF WaitersPlaced
<1>9. OneServiceAtATime' BY <1>1 DEF OneServiceAtATime, TypeOK
<1> QED BY <1>4, <1>5, <1>6, <1>7, <1>8, <1>9

(* Every step of the server, and none, keeps the invariant.                *)
LEMMA NextInv == ServerInv /\ [Next]_vars => ServerInv'
<1> SUFFICES ASSUME ServerInv, [Next]_vars PROVE ServerInv'
  OBVIOUS
<1>1. ASSUME NEW c \in Clients, Caller(c) PROVE ServerInv'
  <2>1. CASE WaitCancelled(c)
    <3>1. CASE Waiters = {}
      <4> USE <2>1, <3>1, NodeAssumption, ServerAssumption DEF ServerInv, WaitCancelled
      <4>1. TypeOK'
        <5>1. NodeTypeOK' BY Zenon DEF TypeOK, NodeTypeOK
        <5> QED BY <5>1 DEF TypeOK
      <4>2. MutexHeld'
        <5>1. c # mu BY Zenon DEF MutexHeld
        <5>2. \A d \in Clients : pc'[d] \in {"config", "go"} <=> pc[d] \in {"config", "go"}
          BY DEF TypeOK
        <5> QED BY <5>1, <5>2, Zenon DEF MutexHeld
      <4>3. ServicesPlaced' BY Zenon DEF ServicesPlaced
      <4>4. HandlersPlaced' BY DEF HandlersPlaced, TypeOK
      <4>5. WaitersPlaced' /\ OneServiceAtATime' BY Zenon DEF WaitersPlaced, OneServiceAtATime
      <4> QED BY <4>1, <4>2, <4>3, <4>4, <4>5
    <3>2. CASE \E w \in Waiters : TRUE BY <2>1, <3>2, WaitKeepsInv
    <3> QED BY <3>1, <3>2
  <2>2. CASE CallBind(c)
    <3>1. "Start" \in Rpcs BY DEF Rpcs
    <3> QED BY <2>2, <3>1, CallKeepsInv
  <2>3. CASE \E o \in Rpcs : Call(c, o) BY <2>3, CallKeepsInv
  <2> QED BY <1>1, <2>1, <2>2, <2>3 DEF Caller
<1>2. ASSUME NEW c \in Clients, Handler(c) PROVE ServerInv'
  <2>1. ConfigBindId \in BindIds BY NodeAssumption
  <2> QED BY <1>2, <2>1, StartServiceKeepsInv, BindKeepsInv, HandlerReturnsKeepsInv,
             WaitKeepsInv DEF Handler
<1>3. ASSUME NEW w \in Waiters, Waiter(w) PROVE ServerInv'
  BY <1>3, WaiterKeepsInv
<1>4. CASE \/ \E n \in Nodes : ServiceGoroutine(n)
           \/ \E l \in Listeners : NodeGoroutine(l)
           \/ Environment
  BY <1>4, BackgroundKeepsInv
<1>5. CASE UNCHANGED vars
  <2>1. NodeTypeOK' BY <1>5 DEF ServerInv, TypeOK, NodeTypeOK
  <2>2. TypeOK' BY <1>5, <2>1 DEF ServerInv, TypeOK
  <2>3. MutexHeld' /\ ServicesPlaced' BY <1>5, Zenon DEF ServerInv, MutexHeld, ServicesPlaced
  <2>4. HandlersPlaced' BY <1>5, Zenon DEF ServerInv, HandlersPlaced
  <2>5. WaitersPlaced' /\ OneServiceAtATime'
    BY <1>5 DEF ServerInv, WaitersPlaced, OneServiceAtATime
  <2> QED BY <2>2, <2>3, <2>4, <2>5 DEF ServerInv
<1> QED BY <1>1, <1>2, <1>3, <1>4, <1>5 DEF Next

(* The invariant of the server: its mutex, its service, the goroutines of  *)
(* WaitUntilStopped (server.go, service.go).                               *)
THEOREM ServerInvariance == Spec => []ServerInv
  BY InitInv, NextInv, PTL DEF Spec

(* Every variable of server and node keeps its type.                       *)
THEOREM TypeCorrectness == Spec => []TypeOK
<1>1. ServerInv => TypeOK BY DEF ServerInv
<1> QED BY <1>1, ServerInvariance, PTL

(* However Start, Stop, WaitUntilStopped and the goroutines it leaves      *)
(* behind interleave, a service that has not stopped is Server.service.    *)
THEOREM OneService == Spec => []OneServiceAtATime
<1>1. ServerInv => OneServiceAtATime BY DEF ServerInv
<1> QED BY <1>1, ServerInvariance, PTL

(* Server.mu is held exactly by a handler between two of its steps or by a *)
(* goroutine that sends on errc.                                           *)
THEOREM MutexHolder == Spec => []MutexHeld
<1>1. ServerInv => MutexHeld BY DEF ServerInv
<1> QED BY <1>1, ServerInvariance, PTL

---------------------------------------------------------------------------
(* The refinement.  A step that stores no listener is a step of the node,  *)
(* or none, and gives out no id.                                           *)
NoStore ==
  /\ UNCHANGED <<bindSeq, lnId>>
  /\ \A k \in Listeners : lnState'[k] = "free" <=> lnState[k] = "free"
  /\ \A c \in Clients : pc'[c] = "go" =>
        pc[c] = "go" /\ op'[c] = op[c] /\ binding'[c] = binding[c]

(* The table and the state of listeners are only touched by the node.      *)
LEMMA EntryStaysCreated ==
  ASSUME NodeInv, NEW n \in Nodes, NEW id \in BindIds, lnState' = CloseEntry(n, id)
  PROVE  \A k \in Listeners : lnState'[k] = "free" <=> lnState[k] = "free"
  BY CloseEntryEffect

(* A caller does nothing to a node.                                        *)
LEMMA CallerStores ==
  ASSUME ServerInv, NEW c \in Clients, Caller(c)
  PROVE  NoStore /\ UNCHANGED nodeVars
<1> USE DEF NoStore, ServerInv, TypeOK
<1>1. CASE CallBind(c) BY <1>1 DEF CallBind
<1>2. CASE WaitCancelled(c) BY <1>2 DEF WaitCancelled
<1>3. ASSUME NEW o \in Rpcs, Call(c, o) PROVE NoStore /\ UNCHANGED nodeVars
  BY <1>3 DEF Call
<1> QED BY <1>1, <1>2, <1>3, Zenon DEF Caller

(* Nor does a goroutine of WaitUntilStopped.                               *)
LEMMA WaiterStores ==
  ASSUME ServerInv, NEW w \in Waiters, Waiter(w)
  PROVE  NoStore /\ UNCHANGED nodeVars
<1>1. waiterFor[w] # None => waiterFor[w] \in Clients
  BY DEF ServerInv, TypeOK
<1> QED BY <1>1, Zenon DEF Waiter, WaiterWakes, WaiterClears, WaiterSends, Return, NoStore,
       ServerInv, TypeOK

(* What the service and the goroutines of a node do to it are steps of the *)
(* node.                                                                   *)
LEMMA BackgroundStores ==
  ASSUME ServerInv, NodeInv,
         \/ \E n \in Nodes : ServiceGoroutine(n)
         \/ \E l \in Listeners : NodeGoroutine(l)
         \/ Environment
  PROVE  NoStore /\ (NodeNext \/ UNCHANGED nodeVars)
<1>1. ASSUME NEW n \in Nodes, ServiceGoroutine(n)
      PROVE  NoStore /\ (NodeNext \/ UNCHANGED nodeVars)
  <2>1. CASE \E id \in BindIds : ServiceCloseVisits(n, id)
    <3> PICK id \in BindIds : ServiceCloseVisits(n, id) BY <2>1
    <3>1. \A k \in Listeners : lnState'[k] = "free" <=> lnState[k] = "free"
      BY EntryStaysCreated, Zenon DEF ServiceCloseVisits, CloseVisit
    <3> QED BY <3>1, Zenon DEF ServiceCloseVisits, CloseVisit, NoStore, NodeNext, NodeStep
  <2>2. CASE ServiceCloses(n) \/ ServiceClosed(n) \/ ServiceGroupDone(n) \/ ServiceStopped(n)
             \/ NodeIpfsReturns(n)
    BY <2>2, Zenon DEF ServiceCloses, ServiceClosed, ServiceGroupDone, ServiceStopped,
       NodeIpfsReturns, CloseBegin, CloseEnd, ErrGroupWait, IpfsServeReturns,
       NoStore, NodeNext, NodeStep
  <2> QED BY <1>1, <2>1, <2>2 DEF ServiceGoroutine
<1>2. ASSUME NEW l \in Listeners, NodeGoroutine(l) \/ NodeAcceptFails(l)
      PROVE  NoStore /\ NodeNext
  <2>1. ListenerStep(l)
    BY <1>2 DEF NodeGoroutine, NodeAcceptFails, ListenerStep
  <2>2. NoStore
    <3>1. UNCHANGED <<bindSeq, pc, op, binding>>
      BY <1>2 DEF NodeGoroutine, NodeAcceptFails
    <3>2. UNCHANGED lnId /\ \A k \in Listeners : lnState'[k] = "free" <=> lnState[k] = "free"
      <4>1. lnState \in [Listeners -> {"free", "open", "closed"}]
        BY DEF ServerInv, TypeOK, NodeTypeOK
      <4>2. CASE ServeReturns(l) \/ DeferredDelete(l)
        BY <4>2 DEF ServeReturns, DeferredDelete
      <4>3. CASE AcceptFails(l) BY <4>1, <4>3 DEF AcceptFails
      <4> QED BY <1>2, <4>2, <4>3, Zenon DEF NodeGoroutine, NodeAcceptFails
    <3> QED BY <3>1, <3>2, Zenon DEF NoStore
  <2> QED BY <2>1, <2>2 DEF NodeNext
<1>3. CASE ContextDone
  <2>1. {n \in Nodes : nodeState[n] # "absent"} \in SUBSET Nodes OBVIOUS
  <2> QED BY <1>3, <2>1, Zenon DEF ContextDone, CancelAll, NoStore, NodeNext
<1>4. CASE \E n \in Nodes : IpfsCloses(n)
  BY <1>4, Zenon DEF IpfsCloses, NoStore
<1> QED BY <1>1, <1>2, <1>3, <1>4 DEF Environment

(* The handlers that store no listener: a step of the node, or none.       *)
LEMMA HandlerStores ==
  ASSUME ServerInv, NodeInv, NEW c \in Clients, Handler(c),
         ~ \E l \in Listeners : StartConfigProxy(c, l),
         ~ \E l \in Listeners, http \in BOOLEAN : doBind(c, l, http)
  PROVE  NoStore /\ (NodeNext \/ UNCHANGED nodeVars)
<1> USE DEF Return, Goto
<1>1. CASE StartServing(c)
  <2>1. binding[c] \in Listeners /\ GoServe(binding[c])
    BY <1>1, Zenon DEF StartServing, HandlersPlaced, ServerInv, TypeOK
  <2>2. NoStore
    BY <1>1, <2>1, Zenon DEF StartServing, GoServe, NoStore, ServerInv, TypeOK
  <2> QED BY <2>1, <2>2 DEF NodeNext, ListenerStep
<1>2. CASE Stop(c)
  <2>1. NoStore BY <1>2, Zenon DEF Stop, CancelAll, NoStore, ServerInv, TypeOK
  <2>2. service # None => service \in Nodes /\ {service} \in SUBSET Nodes
    BY DEF ServerInv, TypeOK
  <2> QED BY <1>2, <2>1, <2>2 DEF Stop, NodeNext
<1>3. CASE UnbindConfigProxy(c) \/ \E id \in BindIds : Unbind(c, id)
  <2> PICK id \in BindIds : UnbindId(c, id)
    BY <1>3, NodeAssumption DEF UnbindConfigProxy, Unbind
  <2>1. CASE service = None
    BY <2>1 DEF UnbindId, NoStore, ServerInv, TypeOK
  <2>2. CASE service # None
    <3>1. service \in Nodes /\ StopListener(service, id)
      BY <2>2 DEF UnbindId, ServerInv, TypeOK
    <3>2. \A k \in Listeners : lnState'[k] = "free" <=> lnState[k] = "free"
      BY <3>1, EntryStaysCreated, Zenon DEF StopListener
    <3>3. NoStore
      BY <3>1, <3>2, Zenon DEF UnbindId, StopListener, NoStore, ServerInv, TypeOK
    <3> QED BY <3>1, <3>3 DEF NodeNext, NodeStep
  <2> QED BY <2>1, <2>2
<1>4. CASE \E n \in Nodes : StartService(c, n)
  <2> PICK n \in Nodes : StartService(c, n) BY <1>4
  <2>1. NoStore
    BY Zenon DEF StartService, New, NoStore, ServerInv, TypeOK
  <2>2. ctxDone \in BOOLEAN BY DEF ServerInv, TypeOK
  <2>3. NodeStep(n) BY <2>2 DEF StartService, NodeStep
  <2> QED BY <2>1, <2>3 DEF NodeNext
<1>5. CASE \/ StartRefused(c) \/ StartFails(c) \/ BindConfigProxy(c)
           \/ StartConfigProxyFails(c) \/ doBindFails(c) \/ WaitNoService(c)
           \/ \E w \in Waiters : WaitUntilStopped(c, w)
  BY <1>5, Zenon DEF StartRefused, StartFails, BindConfigProxy, StartConfigProxyFails,
     doBindFails, WaitNoService, WaitUntilStopped, NoStore, ServerInv, TypeOK
<1> QED BY <1>1, <1>2, <1>3, <1>4, <1>5 DEF Handler

(* A step that stores no listener leaves the ids as they are.              *)
LEMMA IdsKept ==
  ASSUME ServerInv, IdsBounded, NoStore
  PROVE  IdsBounded'
<1>1. BindIdsAreNotConfig'
  BY Zenon DEF NoStore, IdsBounded, BindIdsUnique, BindIdsAreNotConfig
<1>2. BindIdsUnique'
  BY <1>1 DEF NoStore, IdsBounded, BindIdsUnique
<1> QED BY <1>2, Zenon DEF NoStore, IdsBounded

(* doBind: the id is above all those in use, so it is fresh.               *)
LEMMA doBindIsNodeStep ==
  ASSUME BindSeqLimit < BindMod, ServerInv, IdsBounded,
         NEW c \in Clients, NEW l \in Listeners, NEW http \in BOOLEAN,
         doBind(c, l, http)
  PROVE  IdsBounded' /\ NodeNext
<1> USE NodeAssumption, ServerAssumption DEF ServerInv
<1>1. /\ bindSeq' = bindSeq + 1 /\ bindSeq' \in BindIds /\ bindSeq \in Nat
      /\ ConfigBindId \in Nat /\ ConfigBindId < bindSeq'
  <2>1. bindSeq \in Nat /\ bindSeq + 1 < BindMod /\ ConfigBindId \in Nat
    <3>1. bindSeq \in BindIds /\ bindSeq < BindSeqLimit BY DEF doBind, TypeOK
    <3> QED BY <3>1
  <2>2. (bindSeq + 1) % BindMod = bindSeq + 1 BY <2>1, ModSmall
  <2>3. bindSeq' = bindSeq + 1 BY <2>2 DEF doBind
  <2>4. bindSeq + 1 \in BindIds BY <2>1
  <2>5. ConfigBindId < bindSeq + 1 BY <2>1 DEF IdsBounded
  <2> QED BY <2>1, <2>3, <2>4, <2>5
<1>2. \A k \in Listeners : lnId[k] \in Nat
  <2>1. \A k \in Listeners : lnId[k] \in BindIds BY DEF TypeOK, NodeTypeOK
  <2> QED BY <2>1
<1>3. target[c] \in Nodes /\ StoreListener(target[c], bindSeq', l, http)
  BY DEF doBind, Locked, HandlersPlaced, TypeOK
<1>4. FreshId(target[c], bindSeq')
  <2>1. \A k \in Listeners : lnState[k] # "free" => lnId[k] <= bindSeq
    BY DEF IdsBounded
  <2>2. \A k \in Listeners : lnId[k] <= bindSeq => lnId[k] # bindSeq'
    BY <1>1, <1>2
  <2> QED BY <2>1, <2>2, Zenon DEF FreshId
<1>5. NodeNext
  <2>1. bindSeq' # ConfigBindId BY <1>1
  <2>2. StartListener(target[c], bindSeq', l, http)
    BY <1>3, <1>4, <2>1, Zenon DEF StartListener
  <2>3. NodeStep(target[c]) BY <1>1, <2>2 DEF NodeStep
  <2> QED BY <1>3, <2>3, Zenon DEF NodeNext
<1>6. /\ lnId' = [lnId EXCEPT ![l] = bindSeq'] /\ lnState' = [lnState EXCEPT ![l] = "open"]
      /\ lnState[l] = "free" /\ binding' = [binding EXCEPT ![c] = l]
      /\ lnId \in [Listeners -> BindIds] /\ lnState \in [Listeners -> {"free", "open", "closed"}]
  BY <1>3, Zenon DEF doBind, StoreListener, TypeOK, NodeTypeOK
<1>7. \A k \in Listeners : lnState'[k] # "free" =>
         lnId'[k] <= bindSeq' /\ (k # l => lnId'[k] < bindSeq')
  BY <1>1, <1>2, <1>6 DEF IdsBounded
<1>8. BindIdsAreNotConfig'
  <2>1. mu = None /\ mu' = c /\ pc' = [pc EXCEPT ![c] = "go"] BY DEF doBind, Locked, Goto
  <2>2. \A d \in Clients : d # c => pc'[d] # "go" BY <2>1 DEF MutexHeld, TypeOK
  <2>3. binding'[c] = l BY <1>6 DEF TypeOK
  <2>4. lnId'[l] = bindSeq' /\ bindSeq' # ConfigBindId BY <1>1, <1>6
  <2> QED BY <2>2, <2>3, <2>4 DEF BindIdsAreNotConfig
<1>9. BindIdsUnique'
  <2> SUFFICES ASSUME NEW j \in Listeners, NEW k \in Listeners, j # k,
                      lnState'[j] # "free", lnState'[k] # "free", lnId'[j] = lnId'[k]
               PROVE  lnId'[j] = ConfigBindId
    BY <1>8 DEF BindIdsUnique
  <2>1. j # l /\ k # l BY <1>1, <1>2, <1>6, <1>7
  <2> QED BY <2>1, <1>6 DEF IdsBounded, BindIdsUnique
<1> QED BY <1>1, <1>5, <1>7, <1>9 DEF IdsBounded

(* StartConfigProxy: the address was free, the id is that of Config.Bind.  *)
LEMMA StartConfigProxyIsNodeStep ==
  ASSUME ServerInv, IdsBounded,
         NEW c \in Clients, NEW l \in Listeners, StartConfigProxy(c, l)
  PROVE  IdsBounded' /\ NodeNext
<1> USE NodeAssumption, ServerAssumption DEF ServerInv
<1>1. service \in Nodes /\ StoreListener(service, ConfigBindId, l, FALSE)
  BY Zenon DEF StartConfigProxy, HandlersPlaced, TypeOK
<1>2. NodeNext
  BY <1>1, Zenon DEF StartConfigProxy, NodeNext, NodeStep, StartListener
<1>3. /\ lnId' = [lnId EXCEPT ![l] = ConfigBindId] /\ lnState' = [lnState EXCEPT ![l] = "open"]
      /\ lnState[l] = "free" /\ binding' = [binding EXCEPT ![c] = l] /\ bindSeq' = bindSeq
      /\ lnId \in [Listeners -> BindIds] /\ lnState \in [Listeners -> {"free", "open", "closed"}]
  BY <1>1, Zenon DEF StartConfigProxy, StoreListener, TypeOK, NodeTypeOK
<1>4. \A k \in Listeners : lnState'[k] # "free" => lnId'[k] <= bindSeq'
  BY <1>3 DEF IdsBounded
<1>5. BindIdsAreNotConfig'
  <2>1. /\ pc[c] = "config" /\ mu' = c
        /\ pc' = [pc EXCEPT ![c] = "go"] /\ op' = op
    BY DEF StartConfigProxy, Goto
  <2>2. op'[c] # "Bind" BY <2>1 DEF HandlersPlaced
  <2>3. \A d \in Clients : d # c => pc'[d] # "go" BY <2>1 DEF MutexHeld, TypeOK
  <2> QED BY <2>2, <2>3 DEF BindIdsAreNotConfig
<1>6. BindIdsUnique'
  BY <1>3, <1>5 DEF IdsBounded, BindIdsUnique
<1> QED BY <1>2, <1>3, <1>4, <1>6 DEF IdsBounded

(* Every step of the server, as long as bindSeq does not wrap around.      *)
LEMMA NextIsNodeStep ==
  ASSUME BindSeqLimit < BindMod, ServerInv, NodeInv, IdsBounded, [Next]_vars
  PROVE  IdsBounded' /\ [NodeNext]_nodeVars
<1>1. ASSUME NEW c \in Clients, Handler(c) PROVE IdsBounded' /\ [NodeNext]_nodeVars
  BY <1>1, HandlerStores, IdsKept, doBindIsNodeStep, StartConfigProxyIsNodeStep
<1>2. ASSUME NEW c \in Clients, Caller(c) PROVE IdsBounded' /\ [NodeNext]_nodeVars
  BY <1>2, CallerStores, IdsKept
<1>3. ASSUME NEW w \in Waiters, Waiter(w) PROVE IdsBounded' /\ [NodeNext]_nodeVars
  BY <1>3, WaiterStores, IdsKept
<1>4. CASE \/ \E n \in Nodes : ServiceGoroutine(n)
           \/ \E l \in Listeners : NodeGoroutine(l)
           \/ Environment
  BY <1>4, BackgroundStores, IdsKept
<1>5. CASE UNCHANGED vars
  <2>1. NoStore BY <1>5 DEF NoStore
  <2> QED BY <1>5, <2>1, IdsKept
<1> QED BY <1>1, <1>2, <1>3, <1>4, <1>5, Zenon DEF Next

(* Before the first Bind no listener has an id.                            *)
LEMMA InitIds == Init => IdsBounded /\ NodeInv
<1> SUFFICES ASSUME Init PROVE IdsBounded /\ NodeInv
  OBVIOUS
<1>1. NodeInv BY NodeInitInv DEF Init
<1>2. ConfigBindId <= bindSeq BY ServerAssumption DEF Init
<1>3. \A l \in Listeners : lnState[l] = "free" BY DEF Init, NodeInit
<1>4. \A c \in Clients : pc[c] = "idle" BY DEF Init
<1> QED BY <1>1, <1>2, <1>3, <1>4 DEF IdsBounded, BindIdsUnique, BindIdsAreNotConfig

(* As long as bindSeq does not wrap around, the server, all of its         *)
(* handlers and goroutines together, is a caller the guarantees of the     *)
(* node hold for: it implements NodeSpec (doBind, StartConfigProxy).       *)
THEOREM ServerRefinesNode ==
  ASSUME BindSeqLimit < BindMod
  PROVE  Spec => NodeContract
<1>1. ServerInv /\ NodeInv /\ IdsBounded /\ [Next]_vars
        => NodeInv' /\ IdsBounded' /\ [NodeNext]_nodeVars
  BY NextIsNodeStep, NodeNextInv
<1>2. Init => NodeInit BY DEF Init
<1> QED BY <1>1, <1>2, InitIds, ServerInvariance, PTL DEF Spec, NodeSpec, NodeContract

(* Server.bindSeq gives out no id twice, nor the id of Config.Bind, before *)
(* it wraps around (doBind).                                               *)
THEOREM BindIdsNeverReused ==
  ASSUME BindSeqLimit < BindMod
  PROVE  Spec => []BindIdsUnique
<1>1. ServerInv /\ NodeInv /\ IdsBounded /\ [Next]_vars => NodeInv' /\ IdsBounded'
  BY NextIsNodeStep, NodeNextInv
<1>2. IdsBounded => BindIdsUnique BY DEF IdsBounded
<1> QED BY <1>1, <1>2, InitIds, ServerInvariance, PTL DEF Spec

(* Hence in the running server Close reaches every listener bound before   *)
(* it, whatever the handlers do meanwhile, and the table and the listeners *)
(* that are served agree.                                                  *)
THEOREM ServerCloseReachesAll ==
  ASSUME BindSeqLimit < BindMod
  PROVE  Spec => [](/\ BoundListenersRegistered
                     /\ EntriesHaveServers
                     /\ CloseReachesBoundListeners)
  BY ServerRefinesNode, BoundListenersStayRegistered, EntriesAlwaysHaveServers,
     CloseReachesAll, PTL
  DEF NodeContract
===========================================================================
