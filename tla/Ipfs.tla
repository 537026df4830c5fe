------------------------------- MODULE Ipfs -------------------------------
(***************************************************************************)
(* ipfs.Ipfs and its Listeners (src/pkg/ipfs/daemon.go, net.go,            *)
(* server.go): a node that goes online and offline, the HTTP handlers of   *)
(* its API and gateway, listeners that outlive the daemon they are         *)
(* registered with, and the streams that peers open to them.               *)
(*                                                                         *)
(* Connect and Disconnect hold Ipfs.mu throughout, but are several steps   *)
(* here: streams arrive and HTTP requests are served without the mutex.    *)
(* Daemons are numbered as they start.                                     *)
(***************************************************************************)
EXTENDS Integers

CONSTANTS
  Protocols,
  Listeners,   \* the Listener objects that Listen makes
  Streams,     \* the streams that peers open
  Good,        \* the streams whose token verifies
  None,
  MaxDaemons   \* bound on the daemons started

ASSUME IpfsAssumption ==
  /\ Good \subseteq Streams
  /\ None \notin Listeners \cup Protocols
  /\ Streams \cap {"none", "select", "ended"} = {}
  /\ MaxDaemons \in Nat

VARIABLES
  ipfsNode,       \* a daemon's number, Offline, or Nil
  daemons,        \* the number of daemons started
  alive,          \* the daemons that still run
  apiServer,      \* a daemon whose handler it holds, Offline, or Nil for the
  gatewayServer,  \*   handler that answers with an error
  pc,             \* the next step of the holder of hi.mu, or "free"
  listeners,      \* hi.listeners
  handlers,       \* the stream handlers on each daemon's host
  ln,             \* a listener's state: new, open, unlisted, closed
  protocol,
  verify,         \* the listeners SetVerify was called on
  accept,         \* a listener's Serve goroutine: none, select, ended, or the
                  \*   stream it received
  stream,         \* none, sent, received, accepted, closed
  owner,          \* the listener whose onStream has the stream
  done,           \* hi.ctx is done
  panicked

nodeVars == <<ipfsNode, daemons, alive>>
httpVars == <<apiServer, gatewayServer>>
lnVars == <<listeners, handlers, ln, protocol>>
serveVars == <<verify, accept>>
streamVars == <<stream, owner>>
vars == <<nodeVars, httpVars, pc, lnVars, serveVars, streamVars, done, panicked>>

Offline == 0
Nil == -1
Daemons == 1 .. MaxDaemons
Modes == Daemons \cup {Offline, Nil}

NoHandlers == [p \in Protocols |-> None]

TypeOK ==
  /\ ipfsNode \in Modes /\ daemons \in 0 .. MaxDaemons /\ alive \subseteq Daemons
  /\ apiServer \in Modes /\ gatewayServer \in Modes
  /\ pc \in {"free", "api", "gateway", "swap", "reopen", "apiOff", "gatewayOff"}
  /\ listeners \in [Protocols -> Listeners \cup {None}]
  /\ handlers \in [Daemons -> [Protocols -> Listeners \cup {None}]]
  /\ ln \in [Listeners -> {"new", "open", "unlisted", "closed"}]
  /\ protocol \in [Listeners -> Protocols \cup {None}]
  /\ verify \subseteq Listeners
  /\ accept \in [Listeners -> {"none", "select", "ended"} \cup Streams]
  /\ stream \in [Streams -> {"none", "sent", "received", "accepted", "closed"}]
  /\ owner \in [Streams -> Listeners \cup {None}]
  /\ done \in BOOLEAN /\ panicked \in BOOLEAN

(* NewIpfs, when it succeeds.                                              *)
Init ==
  /\ ipfsNode = Offline /\ daemons = 0 /\ alive = {}
  /\ apiServer = Offline /\ gatewayServer = Offline
  /\ pc = "free"
  /\ listeners = NoHandlers
  /\ handlers = [d \in Daemons |-> NoHandlers]
  /\ ln = [l \in Listeners |-> "new"]
  /\ protocol = [l \in Listeners |-> None]
  /\ verify = {}
  /\ accept = [l \in Listeners |-> "none"]
  /\ stream = [s \in Streams |-> "none"]
  /\ owner = [s \in Streams |-> None]
  /\ done = FALSE /\ panicked = FALSE

isOnline == ipfsNode \in Daemons

(* Every operation that takes hi.mu and then asks isOnline: Connect,       *)
(* Disconnect, Listen, Dial and the core API.  A nil node is dereferenced. *)
CallsOnline == pc = "free" /\ ~panicked

NilNodeUsed ==
  /\ CallsOnline /\ ipfsNode = Nil
  /\ panicked' = TRUE
  /\ UNCHANGED <<nodeVars, httpVars, pc, lnVars, serveVars, streamVars, done>>

---------------------------------------------------------------------------
(* Connect.  A daemon that does not start leaves no trace: onErr undoes    *)
(* what was begun.                                                         *)
StartDaemon ==
  /\ CallsOnline /\ ipfsNode = Offline
  /\ daemons < MaxDaemons
  /\ daemons' = daemons + 1
  /\ alive' = alive \cup {daemons'}
  /\ pc' = "api"
  /\ UNCHANGED <<ipfsNode, httpVars, lnVars, serveVars, streamVars, done, panicked>>

(* Without the API handler, or without the gateway's, Connect returns and  *)
(* the daemon goes on running.                                             *)
SetApiOnline(ok) ==
  /\ pc = "api" /\ ~panicked
  /\ apiServer' = IF ok THEN daemons ELSE Nil
  /\ pc' = IF ok THEN "gateway" ELSE "free"
  /\ UNCHANGED <<nodeVars, gatewayServer, lnVars, serveVars, streamVars, done, panicked>>

SetGatewayOnline(ok) ==
  /\ pc = "gateway" /\ ~panicked
  /\ gatewayServer' = IF ok THEN daemons ELSE Nil
  /\ pc' = IF ok THEN "swap" ELSE "free"
  /\ UNCHANGED <<nodeVars, apiServer, lnVars, serveVars, streamVars, done, panicked>>

UseDaemon_Forgets ==
  /\ pc = "swap" /\ ~panicked
  /\ ipfsNode' = daemons
  /\ pc' = "free"
  /\ UNCHANGED <<daemons, alive, httpVars, lnVars, serveVars, streamVars, done, panicked>>

(* The daemon replaces the offline node, and every listener's handler is   *)
(* set on its host.                                                        *)
UseDaemon ==
  /\ pc = "swap" /\ ~panicked
  /\ ipfsNode' = daemons
  /\ handlers' = [handlers EXCEPT ![daemons] = listeners]
  /\ pc' = "free"
  /\ UNCHANGED <<daemons, alive, httpVars, listeners, ln, protocol, serveVars,
                 streamVars, done, panicked>>

---------------------------------------------------------------------------
(* Disconnect.                                                             *)
CloseDaemon ==
  /\ CallsOnline /\ isOnline
  /\ alive' = alive \ {ipfsNode}
  /\ pc' = "reopen"
  /\ UNCHANGED <<ipfsNode, daemons, httpVars, lnVars, serveVars, streamVars, done,
                 panicked>>

CreateOfflineNode(ok) ==
  /\ pc = "reopen" /\ ~panicked
  /\ ipfsNode' = IF ok THEN Offline ELSE Nil
  /\ pc' = "apiOff"
  /\ UNCHANGED <<daemons, alive, httpVars, lnVars, serveVars, streamVars, done, panicked>>

SetApiOffline ==
  /\ pc = "apiOff" /\ ~panicked
  /\ apiServer' = ipfsNode
  /\ pc' = "gatewayOff"
  /\ UNCHANGED <<nodeVars, gatewayServer, lnVars, serveVars, streamVars, done, panicked>>

SetGatewayOffline_Keeps ==
  /\ pc = "gatewayOff" /\ ~panicked
  /\ pc' = "free"
  /\ UNCHANGED <<nodeVars, httpVars, lnVars, serveVars, streamVars, done, panicked>>

SetGatewayOffline ==
  /\ pc = "gatewayOff" /\ ~panicked
  /\ gatewayServer' = ipfsNode
  /\ pc' = "free"
  /\ UNCHANGED <<nodeVars, apiServer, lnVars, serveVars, streamVars, done, panicked>>

---------------------------------------------------------------------------
(* Listen; a protocol that has a listener is refused.  A handler left by   *)
(* an earlier listener for the protocol is replaced.                       *)
Listen(l, p) ==
  /\ CallsOnline /\ ipfsNode # Nil
  /\ ln[l] = "new" /\ listeners[p] = None
  /\ ln' = [ln EXCEPT ![l] = "open"]
  /\ protocol' = [protocol EXCEPT ![l] = p]
  /\ listeners' = [listeners EXCEPT ![p] = l]
  /\ handlers' = IF isOnline THEN [handlers EXCEPT ![ipfsNode][p] = l] ELSE handlers
  /\ UNCHANGED <<nodeVars, httpVars, pc, serveVars, streamVars, done, panicked>>

(* Listener.close, under closeOnce: out of the map with the mutex, then    *)
(* cancelled without it.  The handler stays on the daemon's host.          *)
Unlist(l) ==
  /\ pc = "free" /\ ~panicked
  /\ ln[l] = "open"
  /\ listeners' = [listeners EXCEPT ![protocol[l]] = None]
  /\ ln' = [ln EXCEPT ![l] = "unlisted"]
  /\ UNCHANGED <<nodeVars, httpVars, pc, handlers, protocol, serveVars, streamVars,
                 done, panicked>>

CancelListener(l) ==
  /\ ln[l] = "unlisted" /\ ~panicked
  /\ ln' = [ln EXCEPT ![l] = "closed"]
  /\ UNCHANGED <<nodeVars, httpVars, pc, listeners, handlers, protocol, serveVars,
                 streamVars, done, panicked>>

(* The service's context, the parent of every listener's, is cancelled.    *)
Cancel ==
  /\ ~done /\ ~panicked
  /\ done' = TRUE
  /\ UNCHANGED <<nodeVars, httpVars, pc, lnVars, serveVars, streamVars, panicked>>

CtxDone(l) == done \/ ln[l] = "closed"

---------------------------------------------------------------------------
(* node.New sets the verifier, then serves the listener.                   *)
SetVerify(l) ==
  /\ ln[l] # "new" /\ l \notin verify /\ ~panicked
  /\ verify' = verify \cup {l}
  /\ UNCHANGED <<nodeVars, httpVars, pc, lnVars, accept, streamVars, done, panicked>>

Serve(l) ==
  /\ l \in verify /\ accept[l] = "none" /\ ~panicked
  /\ accept' = [accept EXCEPT ![l] = "select"]
  /\ UNCHANGED <<nodeVars, httpVars, pc, lnVars, verify, streamVars, done, panicked>>

(* A peer opens a stream: the host of a running daemon calls onStream of   *)
(* the listener whose handler it holds.                                    *)
OpenStream(s, d, p) ==
  /\ stream[s] = "none" /\ ~panicked
  /\ d \in alive /\ handlers[d][p] # None
  /\ stream' = [stream EXCEPT ![s] = "sent"]
  /\ owner' = [owner EXCEPT ![s] = handlers[d][p]]
  /\ UNCHANGED <<nodeVars, httpVars, pc, lnVars, serveVars, done, panicked>>

(* onStream's and Accept's selects meet on conCh; when the context is done *)
(* either may still choose the channel.                                    *)
Receive(s) ==
  /\ stream[s] = "sent" /\ ~panicked
  /\ accept[owner[s]] = "select"
  /\ stream' = [stream EXCEPT ![s] = "received"]
  /\ accept' = [accept EXCEPT ![owner[s]] = s]
  /\ UNCHANGED <<nodeVars, httpVars, pc, lnVars, verify, owner, done, panicked>>

OnStreamDone_Waits(s) == FALSE /\ UNCHANGED vars

OnStreamDone(s) ==
  /\ stream[s] = "sent" /\ ~panicked
  /\ CtxDone(owner[s])
  /\ stream' = [stream EXCEPT ![s] = "closed"]
  /\ UNCHANGED <<nodeVars, httpVars, pc, lnVars, serveVars, owner, done, panicked>>

(* Accept verifies the stream and returns it or closes it; the Serve loop  *)
(* calls Accept again.                                                     *)
AcceptStream(l) ==
  /\ accept[l] \in Streams /\ ~panicked
  /\ stream' = [stream EXCEPT ![accept[l]] =
                  IF l \notin verify \/ accept[l] \in Good THEN "accepted" ELSE "closed"]
  /\ accept' = [accept EXCEPT ![l] = "select"]
  /\ UNCHANGED <<nodeVars, httpVars, pc, lnVars, verify, owner, done, panicked>>

AcceptDone_ParentOnly(l) ==
  /\ accept[l] = "select" /\ ~panicked
  /\ ln[l] = "open" /\ done
  /\ accept' = [accept EXCEPT ![l] = "ended"]
  /\ UNCHANGED <<nodeVars, httpVars, pc, lnVars, verify, streamVars, done, panicked>>

AcceptDone(l) ==
  /\ accept[l] = "select" /\ ~panicked
  /\ CtxDone(l)
  /\ accept' = [accept EXCEPT ![l] = "ended"]
  /\ UNCHANGED <<nodeVars, httpVars, pc, lnVars, verify, streamVars, done, panicked>>

---------------------------------------------------------------------------
ServeStep(l) == SetVerify(l) \/ Serve(l) \/ AcceptStream(l) \/ AcceptDone(l)

Next ==
  \/ NilNodeUsed
  \/ StartDaemon
  \/ \E ok \in BOOLEAN : SetApiOnline(ok) \/ SetGatewayOnline(ok) \/ CreateOfflineNode(ok)
  \/ UseDaemon \/ CloseDaemon \/ SetApiOffline \/ SetGatewayOffline
  \/ \E l \in Listeners, p \in Protocols : Listen(l, p)
  \/ \E l \in Listeners : Unlist(l) \/ CancelListener(l) \/ ServeStep(l)
  \/ Cancel
  \/ \E s \in Streams, d \in Daemons, p \in Protocols : OpenStream(s, d, p)
  \/ \E s \in Streams : Receive(s) \/ OnStreamDone(s)

Spec == Init /\ [][Next]_vars

(* The goroutines of listeners and streams run; what calls Connect,        *)
(* Disconnect, Listen, Close and the peers need not.                       *)
Fairness ==
  /\ \A l \in Listeners : WF_vars(CancelListener(l)) /\ WF_vars(ServeStep(l))
  /\ \A s \in Streams : WF_vars(Receive(s)) /\ WF_vars(OnStreamDone(s))

FairSpec == Spec /\ Fairness

---------------------------------------------------------------------------
(* The map holds exactly the listeners that are open: closing a listener   *)
(* once more never removes its successor for the same protocol             *)
(* (Listen, Listener.Close).                                               *)
MapIsOpen ==
  /\ \A l \in Listeners : ln[l] = "open" => listeners[protocol[l]] = l
  /\ \A p \in Protocols : listeners[p] # None => ln[listeners[p]] = "open"

(* While online and outside Connect and Disconnect, streams for the        *)
(* protocol of every open listener reach that listener, whether it began   *)
(* before the daemon, with it, or after another listener of its protocol   *)
(* was closed (Connect, setStreamHandlerToDaemonHost, close).              *)
OpenIsReached ==
  pc = "free" /\ isOnline =>
    /\ ipfsNode \in alive
    /\ \A l \in Listeners : ln[l] = "open" => handlers[ipfsNode][protocol[l]] = l

(* Streams come in through the current daemon only: a daemon that Connect  *)
(* gave up, or that Disconnect replaced, has no listener's handler         *)
(* (Connect's early returns, Disconnect).                                  *)
OnlyCurrentServes ==
  pc = "free" => \A d \in alive : handlers[d] # NoHandlers => d = ipfsNode

(* Once Connect or Disconnect has returned, the gateway serves the current *)
(* daemon and nothing else, the API serves it too, and neither holds the   *)
(* handler of a daemon that has closed (HttpServer.SetOnline, SetOffline). *)
ServersFollowNode ==
  pc = "free" =>
    /\ gatewayServer \in Daemons => gatewayServer = ipfsNode
    /\ apiServer \in Daemons => apiServer \in alive
    /\ isOnline => apiServer = ipfsNode /\ gatewayServer = ipfsNode

(* Accept returns no stream whose token does not verify (SetVerify before  *)
(* Serve in node.New).                                                     *)
VerifiedOnly == \A s \in Streams : stream[s] = "accepted" => s \in Good

(* Every stream handed to onStream is accepted or closed, also when its    *)
(* listener closes or the service stops before Accept gets to it           *)
(* (onStream's and Accept's selects).                                      *)
StreamsSettle ==
  \A s \in Streams :
    stream[s] = "sent" ~> stream[s] \in {"accepted", "closed"} \/ panicked

(* A listener that closes ends its Serve goroutine, for which the node's   *)
(* errgroup waits (Accept, SimpleServe).                                   *)
CloseEndsServe ==
  \A l \in Listeners : ln[l] = "unlisted" ~> accept[l] = "ended" \/ panicked

(* An online operation done offline is answered by ErrIsOffline, as the    *)
(* comment on ErrIsOffline says: it does not use a nil node.               *)
OfflineIsAnswered == ~panicked
===========================================================================
