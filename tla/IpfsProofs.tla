---------------------------- MODULE IpfsProofs ----------------------------
(* The invariants of Ipfs hold for any number of protocols, listeners,     *)
(* streams and daemons.                                                    *)
EXTENDS Ipfs, TLAPS

(* The listeners in the map are open, and know the protocol they are       *)
(* under.                                                                  *)
MapInv ==
  /\ \A l \in Listeners :
       ln[l] = "open" => protocol[l] \in Protocols /\ listeners[protocol[l]] = l
  /\ \A p \in Protocols :
       listeners[p] # None => ln[listeners[p]] = "open" /\ protocol[listeners[p]] = p

(* What Connect and Disconnect have done at each of their steps.           *)
StepInv ==
  /\ pc \in {"api", "gateway", "swap"} =>
       ipfsNode = Offline /\ daemons \in alive /\ handlers[daemons] = NoHandlers
  /\ pc \in {"gateway", "swap"} => apiServer = daemons
  /\ pc = "swap" => gatewayServer = daemons
  /\ pc = "reopen" => ipfsNode \notin alive
  /\ pc \in {"apiOff", "gatewayOff"} => ipfsNode \notin Daemons
  /\ pc = "gatewayOff" => apiServer = ipfsNode

(* Daemons not yet started have no handlers; of those running only the     *)
(* current one has; and the HTTP servers hold no other's, but for the      *)
(* steps that change them.                                                 *)
DaemonInv ==
  /\ alive \subseteq 1 .. daemons
  /\ \A d \in Daemons : d > daemons => handlers[d] = NoHandlers
  /\ \A d \in alive : handlers[d] # NoHandlers => d = ipfsNode
  /\ pc = "free" /\ isOnline =>
       /\ ipfsNode \in alive
       /\ apiServer = ipfsNode /\ gatewayServer = ipfsNode
       /\ \A p \in Protocols : listeners[p] # None => handlers[ipfsNode][p] = listeners[p]
  /\ pc \in {"free", "api", "gateway"} /\ gatewayServer \in Daemons =>
       gatewayServer = ipfsNode
  /\ pc \notin {"reopen", "apiOff"} /\ apiServer \in Daemons => apiServer \in alive

(* A listener is served only after its verifier is set.                    *)
VerifyInv ==
  /\ \A l \in Listeners : accept[l] # "none" => l \in verify
  /\ VerifiedOnly

ConnInv == TypeOK /\ MapInv /\ StepInv /\ DaemonInv

USE IpfsAssumption

(* The holder of the mutex and the daemons start as NewIpfs leaves them.   *)
LEMMA InitConn == Init => ConnInv
<1> SUFFICES ASSUME Init PROVE ConnInv
  OBVIOUS
<1> USE DEF Init, NoHandlers, Offline, Nil, Daemons, Modes
<1>1. TypeOK
  <2>1. /\ ipfsNode \in Modes /\ daemons \in 0 .. MaxDaemons /\ alive \subseteq Daemons
        /\ apiServer \in Modes /\ gatewayServer \in Modes
    OBVIOUS
  <2>2. /\ listeners \in [Protocols -> Listeners \cup {None}]
        /\ handlers \in [Daemons -> [Protocols -> Listeners \cup {None}]]
    OBVIOUS
  <2>3. /\ ln \in [Listeners -> {"new", "open", "unlisted", "closed"}]
        /\ protocol \in [Listeners -> Protocols \cup {None}]
        /\ accept \in [Listeners -> {"none", "select", "ended"} \cup Streams]
        /\ verify \subseteq Listeners
    OBVIOUS
  <2>4. /\ stream \in [Streams -> {"none", "sent", "received", "accepted", "closed"}]
        /\ owner \in [Streams -> Listeners \cup {None}]
    OBVIOUS
  <2>5. done \in BOOLEAN /\ panicked \in BOOLEAN
    BY Zenon
  <2> QED
    BY <2>1, <2>2, <2>3, <2>4, <2>5 DEF TypeOK
<1>2. MapInv /\ StepInv
  BY DEF MapInv, StepInv
<1>3. DaemonInv
  BY DEF DaemonInv, isOnline
<1> QED
  BY <1>1, <1>2, <1>3 DEF ConnInv

(* Every step keeps the types.                                             *)
LEMMA StepType == TypeOK /\ StepInv /\ [Next]_vars => TypeOK'
<1> SUFFICES ASSUME TypeOK, StepInv, [Next]_vars PROVE TypeOK'
  OBVIOUS
<1> USE DEF TypeOK, nodeVars, httpVars, lnVars, serveVars, streamVars, Modes, Daemons,
          Offline, Nil
<1>1. CASE NilNodeUsed
  BY <1>1 DEF NilNodeUsed
<1>2. CASE StartDaemon
  BY <1>2 DEF StartDaemon
<1>3. ASSUME NEW ok \in BOOLEAN, SetApiOnline(ok) PROVE TypeOK'
  BY <1>3 DEF SetApiOnline, StepInv
<1>4. ASSUME NEW ok \in BOOLEAN, SetGatewayOnline(ok) PROVE TypeOK'
  BY <1>4 DEF SetGatewayOnline, StepInv
<1>5. ASSUME NEW ok \in BOOLEAN, CreateOfflineNode(ok) PROVE TypeOK'
  BY <1>5 DEF CreateOfflineNode
<1>6. CASE UseDaemon
  BY <1>6 DEF UseDaemon, StepInv
<1>7. CASE CloseDaemon
  BY <1>7 DEF CloseDaemon
<1>8. CASE SetApiOffline \/ SetGatewayOffline
  BY <1>8 DEF SetApiOffline, SetGatewayOffline
<1>9. ASSUME NEW l \in Listeners, NEW p \in Protocols, Listen(l, p) PROVE TypeOK'
  BY <1>9 DEF Listen, isOnline
<1>10. ASSUME NEW l \in Listeners, Unlist(l) \/ CancelListener(l) PROVE TypeOK'
  BY <1>10 DEF Unlist, CancelListener
<1>11. ASSUME NEW l \in Listeners, ServeStep(l) PROVE TypeOK'
  <2>1. CASE SetVerify(l)
    BY <2>1 DEF SetVerify
  <2>2. CASE Serve(l) \/ AcceptDone(l)
    BY <2>2 DEF Serve, AcceptDone
  <2>3. CASE AcceptStream(l)
    BY <2>3 DEF AcceptStream
  <2> QED
    BY <1>11, <2>1, <2>2, <2>3 DEF ServeStep
<1>12. CASE Cancel
  BY <1>12 DEF Cancel
<1>13. ASSUME NEW s \in Streams, NEW d \in Daemons, NEW p \in Protocols, OpenStream(s, d, p)
       PROVE TypeOK'
  BY <1>13 DEF OpenStream
<1>14. ASSUME NEW s \in Streams, Receive(s) \/ OnStreamDone(s) PROVE TypeOK'
  <2>1. CASE Receive(s)
    BY <2>1 DEF Receive
  <2>2. CASE OnStreamDone(s)
    BY <2>2 DEF OnStreamDone
  <2> QED
    BY <1>14, <2>1, <2>2
<1>15. CASE UNCHANGED vars
  BY <1>15 DEF vars
<1> QED
  BY <1>1, <1>2, <1>3, <1>4, <1>5, <1>6, <1>7, <1>8, <1>9, <1>10, <1>11, <1>12, <1>13,
     <1>14, <1>15 DEF Next

(* Only Listen and Close change the map.                                   *)
LEMMA StepMap == TypeOK /\ MapInv /\ [Next]_vars => MapInv'
<1> SUFFICES ASSUME TypeOK, MapInv, [Next]_vars PROVE MapInv'
  OBVIOUS
<1> USE DEF TypeOK, MapInv, nodeVars, httpVars, lnVars, serveVars, streamVars
<1>1. ASSUME NEW l \in Listeners, NEW p \in Protocols, Listen(l, p) PROVE MapInv'
  BY <1>1 DEF Listen
<1>2. ASSUME NEW l \in Listeners, Unlist(l) PROVE MapInv'
  BY <1>2 DEF Unlist
<1>3. ASSUME NEW l \in Listeners, CancelListener(l) PROVE MapInv'
  BY <1>3 DEF CancelListener
<1>4. CASE UNCHANGED <<listeners, ln, protocol>>
  BY <1>4
<1> QED
  <2>1. CASE \/ NilNodeUsed \/ StartDaemon \/ UseDaemon \/ CloseDaemon
             \/ SetApiOffline \/ SetGatewayOffline \/ Cancel
             \/ \E ok \in BOOLEAN :
                  SetApiOnline(ok) \/ SetGatewayOnline(ok) \/ CreateOfflineNode(ok)
    BY <2>1, <1>4 DEF NilNodeUsed, StartDaemon, UseDaemon, CloseDaemon, SetApiOffline,
      SetGatewayOffline, Cancel, SetApiOnline, SetGatewayOnline, CreateOfflineNode
  <2>2. CASE \/ \E l \in Listeners : ServeStep(l)
             \/ \E s \in Streams, d \in Daemons, p \in Protocols : OpenStream(s, d, p)
             \/ \E s \in Streams : Receive(s) \/ OnStreamDone(s)
    BY <2>2, <1>4 DEF ServeStep, SetVerify, Serve, AcceptStream, AcceptDone, OpenStream,
      Receive, OnStreamDone
  <2> QED
    BY <1>1, <1>2, <1>3, <1>4, <2>1, <2>2 DEF Next, vars

(* What the invariants of the daemons are about, left alone by a step of a *)
(* stream, of a Serve goroutine, or of a cancelled context.                *)
quiet == <<nodeVars, httpVars, pc, listeners, handlers>>

(* Every step of Connect and Disconnect leaves daemons, handlers and       *)
(* servers as the next one expects them, and Listen and Close keep them    *)
(* in agreement with the map.                                              *)
LEMMA StepDaemon == ConnInv /\ [Next]_vars => StepInv' /\ DaemonInv'
<1> SUFFICES ASSUME ConnInv, [Next]_vars PROVE StepInv' /\ DaemonInv'
  OBVIOUS
<1> USE DEF ConnInv, TypeOK, StepInv, DaemonInv, nodeVars, httpVars, lnVars, isOnline,
          CallsOnline, Modes, Daemons, Offline, Nil
<1>1. CASE StartDaemon
  BY <1>1 DEF StartDaemon
<1>2. ASSUME NEW ok \in BOOLEAN, SetApiOnline(ok) PROVE StepInv' /\ DaemonInv'
  BY <1>2 DEF SetApiOnline
<1>3. ASSUME NEW ok \in BOOLEAN, SetGatewayOnline(ok) PROVE StepInv' /\ DaemonInv'
  BY <1>3 DEF SetGatewayOnline
<1>4. CASE UseDaemon
  BY <1>4 DEF UseDaemon
<1>5. CASE CloseDaemon
  BY <1>5 DEF CloseDaemon
<1>6. ASSUME NEW ok \in BOOLEAN, CreateOfflineNode(ok) PROVE StepInv' /\ DaemonInv'
  BY <1>6 DEF CreateOfflineNode
<1>7. CASE SetApiOffline
  BY <1>7 DEF SetApiOffline
<1>8. CASE SetGatewayOffline
  BY <1>8 DEF SetGatewayOffline
<1>9. ASSUME NEW l \in Listeners, NEW p \in Protocols, Listen(l, p)
      PROVE StepInv' /\ DaemonInv'
  BY <1>9 DEF Listen
<1>10. ASSUME NEW l \in Listeners, Unlist(l) PROVE StepInv' /\ DaemonInv'
  BY <1>10 DEF Unlist
<1>11. CASE UNCHANGED quiet
  BY <1>11 DEF quiet
<1> QED
  <2>1. CASE \/ NilNodeUsed \/ Cancel
             \/ \E l \in Listeners : CancelListener(l) \/ ServeStep(l)
    BY <2>1, <1>11 DEF quiet, NilNodeUsed, Cancel, CancelListener, ServeStep, SetVerify, Serve,
      AcceptStream, AcceptDone
  <2>2. CASE \/ \E s \in Streams, d \in Daemons, p \in Protocols : OpenStream(s, d, p)
             \/ \E s \in Streams : Receive(s) \/ OnStreamDone(s)
    BY <2>2, <1>11 DEF quiet, OpenStream, Receive, OnStreamDone
  <2> QED
    BY <1>1, <1>2, <1>3, <1>4, <1>5, <1>6, <1>7, <1>8, <1>9, <1>10, <1>11, <2>1, <2>2
    DEF Next, vars, quiet

(* The connection's invariant holds of every reachable state.              *)
THEOREM IpfsInvariance == Spec => []ConnInv
<1>1. Init => ConnInv
  BY InitConn
<1>2. ConnInv /\ [Next]_vars => ConnInv'
  BY StepType, StepMap, StepDaemon DEF ConnInv
<1> QED
  BY <1>1, <1>2, PTL DEF Spec

(* The map holds exactly the open listeners.                               *)
THEOREM TheMapIsOpen == Spec => []MapIsOpen
<1>1. ConnInv => MapIsOpen
  BY DEF ConnInv, MapInv, MapIsOpen
<1> QED
  BY <1>1, IpfsInvariance, PTL

(* While online, every open listener is reached through the daemon, and no *)
(* other daemon leads to a listener.                                       *)
THEOREM OpenListenersAreReached == Spec => [](OpenIsReached /\ OnlyCurrentServes)
<1>1. ConnInv => OpenIsReached /\ OnlyCurrentServes
  <2> SUFFICES ASSUME ConnInv PROVE OpenIsReached /\ OnlyCurrentServes
    OBVIOUS
  <2>1. ASSUME NEW l \in Listeners, ln[l] = "open"
        PROVE  protocol[l] \in Protocols /\ listeners[protocol[l]] = l /\ l # None
    BY <2>1 DEF ConnInv, TypeOK, MapInv
  <2> QED
    BY <2>1 DEF ConnInv, DaemonInv, OpenIsReached, OnlyCurrentServes
<1> QED
  BY <1>1, IpfsInvariance, PTL

(* The gateway and the API serve the daemon there is.                      *)
THEOREM TheServersFollow == Spec => []ServersFollowNode
<1>1. ConnInv => ServersFollowNode
  BY DEF ConnInv, DaemonInv, ServersFollowNode
<1> QED
  BY <1>1, IpfsInvariance, PTL

(* No listener accepts a stream that does not verify.                      *)
THEOREM OnlyVerifiedStreams == Spec => []VerifiedOnly
<1> USE DEF VerifyInv, VerifiedOnly
<1>1. Init => VerifyInv
  BY DEF Init
<1>2. ConnInv /\ VerifyInv /\ [Next]_vars => VerifyInv'
  <2> SUFFICES ASSUME TypeOK, VerifyInv, [Next]_vars PROVE VerifyInv'
    BY DEF ConnInv
  <2> USE DEF TypeOK
  <2>1. ASSUME NEW l \in Listeners, SetVerify(l) \/ Serve(l) \/ AcceptDone(l) PROVE VerifyInv'
    BY <2>1 DEF SetVerify, Serve, AcceptDone, streamVars
  <2>2. ASSUME NEW l \in Listeners, AcceptStream(l) PROVE VerifyInv'
    BY <2>2 DEF AcceptStream
  <2>3. ASSUME NEW s \in Streams, NEW d \in Daemons, NEW p \in Protocols, OpenStream(s, d, p)
        PROVE VerifyInv'
    BY <2>3 DEF OpenStream, serveVars
  <2>4. ASSUME NEW s \in Streams, Receive(s) PROVE VerifyInv'
    BY <2>4 DEF Receive
  <2>5. ASSUME NEW s \in Streams, OnStreamDone(s) PROVE VerifyInv'
    BY <2>5 DEF OnStreamDone, serveVars
  <2>6. CASE UNCHANGED <<serveVars, streamVars>>
    BY <2>6 DEF serveVars, streamVars
  <2> QED
    <3>1. CASE \/ NilNodeUsed \/ StartDaemon \/ UseDaemon \/ CloseDaemon
               \/ SetApiOffline \/ SetGatewayOffline \/ Cancel
               \/ \E ok \in BOOLEAN :
                    SetApiOnline(ok) \/ SetGatewayOnline(ok) \/ CreateOfflineNode(ok)
      BY <3>1, <2>6 DEF NilNodeUsed, StartDaemon, UseDaemon, CloseDaemon, SetApiOffline,
        SetGatewayOffline, Cancel, SetApiOnline, SetGatewayOnline, CreateOfflineNode
    <3>2. CASE \E l \in Listeners : Unlist(l) \/ CancelListener(l)
               \/ \E p \in Protocols : Listen(l, p)
      BY <3>2, <2>6 DEF Unlist, CancelListener, Listen
    <3> QED
      BY <2>1, <2>2, <2>3, <2>4, <2>5, <2>6, <3>1, <3>2 DEF Next, ServeStep, vars
<1>3. VerifyInv => VerifiedOnly
  OBVIOUS
<1> QED
  BY <1>1, <1>2, <1>3, IpfsInvariance, PTL DEF Spec
===========================================================================
