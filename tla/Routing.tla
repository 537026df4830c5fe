------------------------------ MODULE Routing -----------------------------
(***************************************************************************)
(* A request on its way through the nodes: what each node's core.Context   *)
(* makes of its Host (src/pkg/core/context.go), where core.Core sends it   *)
(* (core.go), and how H2Client hands it to the next node's ServeHTTP       *)
(* (src/pkg/proxy/h2client.go, src/pkg/core/coreh2server.go).              *)
(*                                                                         *)
(* Which proxy a router picks is left open, among those it may return.     *)
(* Bodies and responses are the tunnel's; paths are left out.              *)
(***************************************************************************)
EXTENDS Domain

CONSTANTS
  Nodes,
  Proxies,      \* Proxies[n][name]: the node of an IpfsServer of n, or Exist
  Exist,        \* an HttpProxyServer
  Routed,       \* Routed[n]: the nodes whose proxies n's routers may return
  LocalServers, \* LocalServers[n]: hostnames n serves itself
  Wishes,       \* what clients mean to reach: dial, keyword and route
  OtherHosts,   \* other hostnames they ask for
  Ports,        \* and the ports
  NoPort        \* no port in the Host

ASSUME RoutingAssumption ==
  /\ \A n \in Nodes : /\ Proxies[n] \in [DOMAIN Proxies[n] -> Nodes \union {Exist}]
                      /\ DOMAIN Proxies[n] \subseteq Names
                      /\ Routed[n] \subseteq Nodes
                      /\ LocalServers[n] \subseteq Seq(Labels)
  /\ OtherHosts \subseteq Seq(Labels)
  /\ \A w \in Wishes : /\ w.dial \in Seq(Labels) \ {Empty}
                       /\ w.kw \in {"over", "with"}
                       /\ w.route \in Seq(Names)
  /\ Exist \notin Nodes
  /\ NoPort \notin Ports /\ {"80", "443"} \subseteq Ports

(* A wish can be read back from its hostname: its host is none of hybrid's *)
(* and, as the last ".with." comes before any ".over.", has no such label  *)
(* before an over.                                                         *)
ASSUME WishesAssumption ==
  \A w \in Wishes : /\ ~HasSuffixHybrid(w.dial)
                    /\ w.kw = "over" => \A i \in 2 .. Len(w.dial) : w.dial[i] # Word("with")

VARIABLES
  asked,   \* what the client asked for
  at,      \* the node that holds the request
  req,     \* the request as it has arrived at the node
  via,     \* history: the names of the proxies it went through
  outcome, \* none, or how it ended
  sent     \* the host and port dialled, and the Host that was sent there

vars == <<asked, at, req, via, outcome, sent>>

Request ==
  [host : Seq(Labels), port : Ports \union {NoPort},
   kind : {"connect", "upgrade", "plain"}, scheme : {"", "http", "https"}]

NotSent == [dial |-> Empty, port |-> NoPort, host |-> Empty]

(* What a client asks for: a wish, or a hostname as it stands.             *)
Targets ==
  Wishes \union [dial : OtherHosts, kw : {"none"}, route : {<<>>}]

HostOf(t) ==
  IF t.kw = "none" THEN t.dial
  ELSE t.dial \o <<Word(t.kw)>> \o [i \in DOMAIN t.route |-> Word(t.route[i])]
         \o <<Word("hybrid")>>

(* A CONNECT comes with a port and no scheme; the rest is absolute.        *)
Asked ==
  [target : Targets, port : Ports, kind : {"connect"}, scheme : {""}]
    \union [target : Targets, port : Ports \union {NoPort},
            kind : {"upgrade", "plain"}, scheme : {"http", "https"}]

Init ==
  /\ asked \in Asked
  /\ at \in Nodes
  /\ req = [host |-> HostOf(asked.target), port |-> asked.port,
            kind |-> asked.kind, scheme |-> asked.scheme]
  /\ via = <<>>
  /\ outcome = "none"
  /\ sent = NotSent

---------------------------------------------------------------------------
(* newContext.                                                             *)

DefaultPort(scheme) == IF scheme = "http" THEN "80" ELSE "443"

(* parseHostPortIP: Context.Connect, which an upgrade sets too, wants a    *)
(* port.                                                                   *)
HostPortParsed == req.kind \in {"connect", "upgrade"} => req.port # NoPort

Port ==
  IF req.port = NoPort THEN DefaultPort(req.scheme) ELSE req.port

(* parseDomain: the Domain of the Context, d below.                        *)
D == NewDomain(req.host)

ContextOK(d) == HostPortParsed /\ d.ok

(* adjustRequestAndDialHost: Host becomes NextHostname and the port.       *)
AdjustedHost(d) == IF d.IsHybrid THEN d.NextHostname ELSE req.host

AdjustedPort(d) == IF d.IsHybrid THEN Port ELSE req.port

(* DialHostPort, or the HostPort of a request that is not hybrid.          *)
DialHost(d) == IF d.IsHybrid THEN d.DialHostname ELSE req.host

---------------------------------------------------------------------------
(* The hop: H2Client.Proxy puts the scheme before the Host, ServeHTTP      *)
(* takes it off again together with the scheme's port.                     *)

(* ServeHTTP that takes off either port whatever the scheme.               *)
TrimPort_Both(scheme, port) == IF port \in {"80", "443"} THEN NoPort ELSE port

TrimPort(scheme, port) == IF port = DefaultPort(scheme) THEN NoPort ELSE port

(* http2.Transport sends no upgrade.                                       *)
Hop(d, to) ==
  LET scheme == IF req.scheme = "https" THEN "https" ELSE "http"
  IN  /\ req.kind # "upgrade"
      /\ at' = to
      /\ req' = [host |-> AdjustedHost(d),
                 port |-> TrimPort(scheme, AdjustedPort(d)),
                 kind |-> req.kind, scheme |-> scheme]
      /\ UNCHANGED <<asked, outcome, sent>>

Ends(how) ==
  /\ outcome' = how
  /\ UNCHANGED <<asked, at, req, via>>

(* A node that drops the request it cannot parse.                          *)
BadRequest_Unanswered(d) ==
  /\ outcome = "none" /\ ~ContextOK(d)
  /\ UNCHANGED vars

(* newContext fails: 400, at whichever node.                               *)
BadRequest(d) ==
  /\ outcome = "none" /\ ~ContextOK(d)
  /\ Ends("bad") /\ sent' = sent

Active(d) == outcome = "none" /\ ContextOK(d)

AtEnd(d) == d.IsHybrid /\ d.IsEnd

ToNext(d) == d.IsHybrid /\ ~d.IsEnd /\ d.Next \in DOMAIN Proxies[at]

(* A local server of this name comes first.                                *)
ServeLocal(d) ==
  /\ Active(d) /\ AtEnd(d)
  /\ d.DialHostname \in LocalServers[at]
  /\ Ends("served")
  /\ sent' = [dial |-> d.DialHostname, port |-> Port, host |-> AdjustedHost(d)]

(* with needs a local server.                                              *)
WithNotFound(d) ==
  /\ Active(d) /\ AtEnd(d)
  /\ d.DialHostname \notin LocalServers[at] /\ ~d.IsOver
  /\ Ends("notfound") /\ sent' = sent

(* Core.Proxy: the node's proxy of the name Next.                          *)
ProxyNext(d) ==
  /\ Active(d) /\ ToNext(d)
  /\ Proxies[at][d.Next] # Exist
  /\ via' = Append(via, d.Next)
  /\ Hop(d, Proxies[at][d.Next])

(* An existing http proxy gets the request as the next node would.         *)
ProxyExist(d) ==
  /\ Active(d) /\ ToNext(d)
  /\ Proxies[at][d.Next] = Exist
  /\ outcome' = "proxied"
  /\ via' = Append(via, d.Next)
  /\ sent' = [dial |-> Empty, port |-> Port, host |-> AdjustedHost(d)]
  /\ UNCHANGED <<asked, at, req>>

NextNotFound(d) ==
  /\ Active(d) /\ d.IsHybrid /\ ~d.IsEnd
  /\ d.Next \notin DOMAIN Proxies[at]
  /\ Ends("notfound") /\ sent' = sent

(* routeProxy is for the end of an over request and for plain requests.    *)
ToRouteProxy(d) ==
  \/ AtEnd(d) /\ d.IsOver /\ d.DialHostname \notin LocalServers[at]
  \/ ~d.IsHybrid

(* A router returns the proxy of another node.                             *)
RouteToNode(d) ==
  /\ Active(d) /\ ToRouteProxy(d)
  /\ \E to \in Routed[at] : Hop(d, to)
  /\ via' = via

(* No router has a proxy, or it is DIRECT or an existing http proxy.       *)
RouteDirect(d) ==
  /\ Active(d) /\ ToRouteProxy(d)
  /\ Ends("dialled")
  /\ sent' = [dial |-> DialHost(d), port |-> Port, host |-> AdjustedHost(d)]

(* The proxy's Do returns an error: 502.                                   *)
BadGateway(d) ==
  /\ Active(d)
  /\ ToRouteProxy(d) \/ ToNext(d)
  /\ Ends("badgateway") /\ sent' = sent

Next ==
  \E d \in {D} :
    \/ BadRequest(d) \/ ServeLocal(d) \/ WithNotFound(d) \/ ProxyNext(d)
    \/ ProxyExist(d) \/ NextNotFound(d) \/ RouteToNode(d) \/ RouteDirect(d)
    \/ BadGateway(d)

Spec == Init /\ [][Next]_vars /\ WF_vars(Next)

---------------------------------------------------------------------------
(* Properties.                                                             *)

(* Every variable has its type, and what is sent somewhere has a port.     *)
TypeOK ==
  /\ asked \in Asked /\ req \in Request
  /\ at \in Nodes
  /\ via \in Seq(Names)
  /\ outcome \in {"none", "bad", "served", "notfound", "dialled", "proxied",
                  "badgateway"}
  /\ sent # NotSent =>
       sent \in [dial : Seq(Labels), port : Ports, host : Seq(Labels)]

(* The client asked for a host by the rules.                               *)
Wished == asked.target.kw # "none"

AskedPort ==
  IF asked.port = NoPort THEN DefaultPort(asked.scheme) ELSE asked.port

(* The names in a hostname are the proxies the request goes through, in    *)
(* their order and none twice, and it reaches its end after the last one:  *)
(* "Domain changes when past to nodes", domain.go.                         *)
RouteFollowed ==
  Wished =>
    /\ Len(via) <= Len(asked.target.route)
    /\ via = SubSeq(asked.target.route, 1, Len(via))
    /\ outcome \in {"served", "dialled"} => via = asked.target.route

(* At the end of the way the host and the port asked for are dialled.  "If *)
(* over, use DialHostname as Host in the end.  If with, use the begin host *)
(* as Host in the end."                                                    *)
HostAtEnd ==
  Wished /\ outcome \in {"served", "dialled"} =>
    sent = [dial |-> asked.target.dial, port |-> AskedPort,
            host |-> IF asked.target.kw = "over" THEN asked.target.dial
                     ELSE HostOf(asked.target)]

(* Every request is answered, if every hop is: marks move on and the       *)
(* routers of the instance send nothing in a circle.                       *)
RequestEnds == <>(outcome # "none")

(* H2Client says "Host => authority|target, so the real schema can be      *)
(* ignored": what one node accepts the next does not refuse.               *)
NotRefusedLater ==
  Wished /\ via # <<>> => outcome # "bad"

(* Domain says "if use `with` instead of `over`, c send: GET               *)
(* http://192.168.22.22.with.a.b.c.hybrid/a": the last node sends it on.   *)
WithIsSent ==
  Wished /\ via = asked.target.route => outcome # "notfound"

(* Domain says "IsHybrid, if false, DialHostname and IsEnd are set."       *)
PlainIsEnd == D.ok /\ ~D.IsHybrid => D.IsEnd

(* cmd/hybrid says one may visit a server itself,                          *)
(* "http://over.server_name_in_hybrid_json.hybrid/index.html".             *)
VisitServer ==
  \A name \in Names :
    req.host = <<Word("over"), Word(name), Word("hybrid")>> => D.ok
===========================================================================
