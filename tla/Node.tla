------------------------------- MODULE Node -------------------------------
(***************************************************************************)
(* node.Node (src/node/node.go): the listeners a node serves, the          *)
(* goroutines of its errgroup, and Close.                                  *)
(*                                                                         *)
(* groupListeners is a sync.Map from a bind id to a net.Listener.  Every   *)
(* stored listener gets a goroutine that serves it and whose deferred      *)
(* call deletes the id it was stored under, whatever the id maps to then.  *)
(* The actions are indexed by the node: grpc.Server creates one node per   *)
(* service it starts, and an older node may still be in use.               *)
(***************************************************************************)
CONSTANTS
  Nodes,          \* nodes a server may create, one per service
  Listeners,      \* net.Listener values net.Listen may return
  BindIds,        \* keys of groupListeners (uint32)
  ConfigBindId,   \* the key StartConfigProxy uses
  None            \* no listener, no node

ASSUME NodeAssumption ==
  /\ ConfigBindId \in BindIds
  /\ None \notin Listeners \cup Nodes

VARIABLES
  nodeState,       \* closeOnce of a node: absent, open, closing, closed
  cancelled,       \* nodes whose context is cancelled
  groupListeners,  \* the sync.Map of every node
  rangeLeft,       \* keys the Range of Close has not visited yet
  ipfsServing,     \* nodes whose ipfs listeners are still being served
  waited,          \* nodes whose ErrGroupWait has returned
  lnState,         \* free (not created yet), open, closed
  lnNode,          \* node a listener was stored in
  lnId,            \* id it was stored under
  lnHttp,          \* served by http.Serve rather than netutil.SimpleServe
  lnLate,          \* history: stored when Close had already begun
  serve            \* its goroutine: none, stored, serving, returned, done

lnVars == <<lnState, lnNode, lnId, lnHttp, lnLate>>
nodeVars == <<nodeState, cancelled, groupListeners, rangeLeft, ipfsServing,
              waited, lnVars, serve>>

NodeTypeOK ==
  /\ nodeState \in [Nodes -> {"absent", "open", "closing", "closed"}]
  /\ cancelled \in SUBSET Nodes
  /\ groupListeners \in [Nodes -> [BindIds -> Listeners \cup {None}]]
  /\ rangeLeft \in [Nodes -> SUBSET BindIds]
  /\ ipfsServing \in SUBSET Nodes
  /\ waited \in SUBSET Nodes
  /\ lnState \in [Listeners -> {"free", "open", "closed"}]
  /\ lnNode \in [Listeners -> Nodes \cup {None}]
  /\ lnId \in [Listeners -> BindIds]
  /\ lnHttp \in [Listeners -> BOOLEAN]
  /\ lnLate \in [Listeners -> BOOLEAN]
  /\ serve \in [Listeners -> {"none", "stored", "serving", "returned", "done"}]

NodeInit ==
  /\ nodeState = [n \in Nodes |-> "absent"]
  /\ cancelled = {}
  /\ groupListeners = [n \in Nodes |-> [id \in BindIds |-> None]]
  /\ rangeLeft = [n \in Nodes |-> {}]
  /\ ipfsServing = {}
  /\ waited = {}
  /\ lnState = [l \in Listeners |-> "free"]
  /\ lnNode = [l \in Listeners |-> None]
  /\ lnId = [l \in Listeners |-> ConfigBindId]
  /\ lnHttp = [l \in Listeners |-> FALSE]
  /\ lnLate = [l \in Listeners |-> FALSE]
  /\ serve = [l \in Listeners |-> "none"]

---------------------------------------------------------------------------
(* New: the ipfs listeners are served from the start.  The context of the *)
(* node may already be cancelled, when its parent was.                     *)
New(n, done) ==
  /\ nodeState[n] = "absent"
  /\ nodeState' = [nodeState EXCEPT ![n] = "open"]
  /\ ipfsServing' = ipfsServing \cup {n}
  /\ cancelled' = IF done THEN cancelled \cup {n} ELSE cancelled
  /\ UNCHANGED <<groupListeners, rangeLeft, waited, lnVars, serve>>

(* The cancel function of the contexts a set of nodes was created with.   *)
CancelAll(S) ==
  /\ cancelled' = cancelled \cup S
  /\ UNCHANGED <<nodeState, groupListeners, rangeLeft, ipfsServing, waited,
                 lnVars, serve>>

(* StartProxy, StartIpfsApi and StartIpfsGateway up to eg.Go: a listener   *)
(* that was just opened is stored under id, over what was there.           *)
StoreListener(n, id, l, http) ==
  /\ nodeState[n] # "absent"
  /\ lnState[l] = "free"
  /\ groupListeners' = [groupListeners EXCEPT ![n][id] = l]
  /\ lnState' = [lnState EXCEPT ![l] = "open"]
  /\ lnNode' = [lnNode EXCEPT ![l] = n]
  /\ lnId' = [lnId EXCEPT ![l] = id]
  /\ lnHttp' = [lnHttp EXCEPT ![l] = http]
  /\ lnLate' = [lnLate EXCEPT ![l] = nodeState[n] # "open"]
  /\ serve' = [serve EXCEPT ![l] = "stored"]
  /\ UNCHANGED <<nodeState, cancelled, rangeLeft, ipfsServing, waited>>

(* eg.Go: the serving goroutine starts.                                    *)
GoServe(l) ==
  /\ serve[l] = "stored"
  /\ serve' = [serve EXCEPT ![l] = "serving"]
  /\ UNCHANGED <<nodeState, cancelled, groupListeners, rangeLeft, ipfsServing,
                 waited, lnVars>>

(* Accept fails because the listener was closed: the serve loop returns.   *)
ServeReturns(l) ==
  /\ serve[l] = "serving"
  /\ lnState[l] = "closed"
  /\ serve' = [serve EXCEPT ![l] = "returned"]
  /\ UNCHANGED <<nodeState, cancelled, groupListeners, rangeLeft, ipfsServing,
                 waited, lnVars>>

(* Accept fails for another reason, not a temporary one.  http.Serve       *)
(* closes the listener before it returns, SimpleServe leaves it open.      *)
AcceptFails(l) ==
  /\ serve[l] = "serving"
  /\ lnState[l] = "open"
  /\ serve' = [serve EXCEPT ![l] = "returned"]
  /\ lnState' = [lnState EXCEPT ![l] = IF lnHttp[l] THEN "closed" ELSE "open"]
  /\ UNCHANGED <<nodeState, cancelled, groupListeners, rangeLeft, ipfsServing,
                 waited, lnNode, lnId, lnHttp, lnLate>>

(* The deferred groupListeners.Delete(uniqueId); the goroutine ends.       *)
DeferredDelete(l) ==
  /\ serve[l] = "returned"
  /\ serve' = [serve EXCEPT ![l] = "done"]
  /\ groupListeners' = [groupListeners EXCEPT ![lnNode[l]][lnId[l]] = None]
  /\ UNCHANGED <<nodeState, cancelled, rangeLeft, ipfsServing, waited, lnVars>>

(* What closing the listener stored under id of node n leaves of lnState.  *)
CloseEntry(n, id) ==
  IF groupListeners[n][id] = None THEN lnState
  ELSE [lnState EXCEPT ![groupListeners[n][id]] = "closed"]

StopListener(n, id) ==
  /\ lnState' = CloseEntry(n, id)
  /\ UNCHANGED <<nodeState, cancelled, groupListeners, rangeLeft, ipfsServing,
                 waited, lnNode, lnId, lnHttp, lnLate, serve>>

(* Close, inside closeOnce: the ipfs listeners first, then the Range.      *)
CloseBegin(n) ==
  /\ nodeState[n] = "open"
  /\ nodeState' = [nodeState EXCEPT ![n] = "closing"]
  /\ rangeLeft' = [rangeLeft EXCEPT ![n] = BindIds]
  /\ UNCHANGED <<cancelled, groupListeners, ipfsServing, waited, lnVars, serve>>

(* Mutant: the callback of Range returns false, which ends the Range.      *)
CloseVisit_StopsRange(n, id) ==
  /\ id \in rangeLeft[n]
  /\ rangeLeft' = [rangeLeft EXCEPT ![n] = {}]
  /\ lnState' = CloseEntry(n, id)
  /\ UNCHANGED <<nodeState, cancelled, groupListeners, ipfsServing, waited,
                 lnNode, lnId, lnHttp, lnLate, serve>>

(* Range visits every key at most once and sees what it maps to then.      *)
CloseVisit(n, id) ==
  /\ id \in rangeLeft[n]
  /\ rangeLeft' = [rangeLeft EXCEPT ![n] = @ \ {id}]
  /\ lnState' = CloseEntry(n, id)
  /\ UNCHANGED <<nodeState, cancelled, groupListeners, ipfsServing, waited,
                 lnNode, lnId, lnHttp, lnLate, serve>>

(* The Range is over; the file clients are closed last.                    *)
CloseEnd(n) ==
  /\ nodeState[n] = "closing"
  /\ rangeLeft[n] = {}
  /\ nodeState' = [nodeState EXCEPT ![n] = "closed"]
  /\ UNCHANGED <<cancelled, groupListeners, rangeLeft, ipfsServing, waited,
                 lnVars, serve>>

(* core.Serve of the ipfs listeners returns: their context derives from    *)
(* the node's, and Close cancels it too.                                   *)
IpfsServeReturns(n) ==
  /\ n \in ipfsServing
  /\ n \in cancelled \/ nodeState[n] \in {"closing", "closed"}
  /\ ipfsServing' = ipfsServing \ {n}
  /\ UNCHANGED <<nodeState, cancelled, groupListeners, rangeLeft, waited,
                 lnVars, serve>>

(* eg.Wait returns once every goroutine handed to eg.Go has ended.         *)
ErrGroupWait(n) ==
  /\ nodeState[n] = "closed"
  /\ n \notin ipfsServing
  /\ \A l \in Listeners :
        lnNode[l] = n => serve[l] \notin {"serving", "returned"}
  /\ waited' = waited \cup {n}
  /\ UNCHANGED <<nodeState, cancelled, groupListeners, rangeLeft, ipfsServing,
                 lnVars, serve>>

---------------------------------------------------------------------------
(* net.Listen on the address of Config.Bind fails while the node still     *)
(* holds that address open.                                                *)
ConfigAddrFree(n) ==
  \A l \in Listeners :
     lnState[l] = "open" /\ lnNode[l] = n => lnId[l] # ConfigBindId

(* What the node asks of its caller: an id other than ConfigBindId is      *)
(* used for one listener only.                                             *)
FreshId(n, id) ==
  \A l \in Listeners : lnState[l] # "free" /\ lnNode[l] = n => lnId[l] # id

StartListener(n, id, l, http) ==
  /\ IF id = ConfigBindId THEN ConfigAddrFree(n) ELSE FreshId(n, id)
  /\ StoreListener(n, id, l, http)

(* A node under any caller that keeps to FreshId.                          *)
NodeStep(n) ==
  \/ \E done \in BOOLEAN : New(n, done)
  \/ CloseBegin(n)
  \/ \E id \in BindIds : CloseVisit(n, id)
  \/ CloseEnd(n)
  \/ IpfsServeReturns(n)
  \/ ErrGroupWait(n)
  \/ \E id \in BindIds : StopListener(n, id)
  \/ \E id \in BindIds, l \in Listeners, http \in BOOLEAN :
        StartListener(n, id, l, http)

ListenerStep(l) ==
  GoServe(l) \/ ServeReturns(l) \/ AcceptFails(l) \/ DeferredDelete(l)

NodeNext ==
  \/ \E n \in Nodes : NodeStep(n)
  \/ \E l \in Listeners : ListenerStep(l)
  \/ \E S \in SUBSET Nodes : CancelAll(S)

NodeSpec == NodeInit /\ [][NodeNext]_nodeVars

---------------------------------------------------------------------------
(* A listener that accepts connections, or is about to.                    *)
Live(l) == lnState[l] = "open" /\ serve[l] \in {"stored", "serving"}

(* While a listener bound under an id of its own is served, the table      *)
(* holds it under that id: Unbind and Close reach it (StartProxy,          *)
(* StopListener, and the Delete that each goroutine defers).               *)
BoundListenersRegistered ==
  \A l \in Listeners :
     Live(l) /\ lnId[l] # ConfigBindId => groupListeners[lnNode[l]][lnId[l]] = l

(* The same for the listener of Config.Bind, whose id is used again after  *)
(* every UnbindConfigProxy ("ConfigBindId as key of StartProxy for         *)
(* Config.Bind", node.go:41).                                              *)
ConfigListenerRegistered ==
  \A l \in Listeners :
     Live(l) /\ lnId[l] = ConfigBindId => groupListeners[lnNode[l]][lnId[l]] = l

(* No entry outlives the goroutine that serves its listener: what          *)
(* StopListener or Close finds in the table belongs to a goroutine that    *)
(* has not ended, under the id and in the node it was stored with.         *)
EntriesHaveServers ==
  \A n \in Nodes, id \in BindIds :
     LET l == groupListeners[n][id] IN
     l # None => lnNode[l] = n /\ lnId[l] = id /\ serve[l] # "done"

(* Once Close has returned, a listener still served under an id of its own *)
(* was bound after Close had begun: the Range of Close misses none of the  *)
(* earlier ones, however it interleaves with binds, unbinds and the        *)
(* deferred deletes.                                                       *)
CloseReachesBoundListeners ==
  \A l \in Listeners :
     /\ lnState[l] # "free"
     /\ nodeState[lnNode[l]] = "closed"
     /\ Live(l) /\ lnId[l] # ConfigBindId
     => lnLate[l]
===========================================================================
