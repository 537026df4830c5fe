------------------------------ MODULE Routers ------------------------------
(***************************************************************************)
(* The routers of a node: node.New makes them and the file client          *)
(* (src/node/node.go, parse.go), core.routeProxy asks them in their order  *)
(* (src/pkg/core/core.go), for requests that come at the same time.        *)
(* AdpRouter keeps the hosts its rules have matched in a map, and          *)
(* IPNetRouter may hand a request to FileProxyRouterClient, which serves   *)
(* the archive of ZipFs (src/pkg/proxy).                                   *)
(*                                                                         *)
(* A host is a name or an address.  The adblock matcher is external: it    *)
(* answers by its rules, or runs out of its 5 seconds.                     *)
(***************************************************************************)
EXTENDS ZipFs

CONSTANTS
  Requests,
  Hosts,     \* Context.HostNoPort
  Paths,     \* Request.URL.Path, names of ZipFs
  Redirect,  \* the paths FileServer.Redirect has
  Proxies,   \* the names of n.proxies, DIRECT among them
  Configs,   \* Config.Routers: sequences of RouterItem
  EtcHosts,  \* the hosts file: EtcHosts[address] is a host
  Disabled,  \* HYBRID_ROUTER_DISABLED
  Nil        \* no proxy

(* A RouterItem has fields for either kind; kind says which are set.       *)
RouterItem ==
  [name : STRING, kind : {"adp", "ipnet", "both", "none"}, match : SUBSET Hosts,
   yes : STRING, no : STRING, etcHosts : BOOLEAN, fileTest : BOOLEAN]

ASSUME RoutersAssumption ==
  /\ Configs \subseteq Seq(RouterItem)
  /\ DOMAIN EtcHosts \subseteq Hosts /\ \A a \in DOMAIN EtcHosts : EtcHosts[a] \in Hosts
  /\ "DIRECT" \in Proxies /\ Nil \notin Proxies \union {"file"} /\ "file" \notin Proxies
  /\ Redirect \subseteq Paths /\ Paths \subseteq Names

VARIABLES
  config,    \* Config.Routers
  node,      \* new, up, failed, closed
  routers,   \* how many routers New has made
  zip,       \* the archive: no, open, closed
  blockedIps,\* of each AdpRouter
  pc,        \* request -> none, route, match, store, do, done
  req,       \* its host, path and kind
  at,        \* the router it is at
  proxy,     \* the proxy that was chosen
  answer,    \* what the file client has answered
  verdict,   \* history: what the last AdpRouter found: none, blocked, passed
  found,     \* history: the hosts each AdpRouter has found blocked
  knew       \* history: the host was among them when the request came to it

nodeVars == <<config, node, routers, zip>>
requestVars == <<pc, req, at, proxy, answer, verdict, found, knew>>
vars == <<zipVars, nodeVars, blockedIps, requestVars>>

(* A plain request comes on a connection or over http2; an upgrade comes   *)
(* on a connection, and Context.Connect is set.                            *)
Request == [host : Hosts, path : Paths, kind : {"plain", "http2", "upgrade"}]
NoRequest == [host |-> Nil, path |-> Root, kind |-> "plain"]
NoAnswer == Answer("none", Root, TRUE)

TypeOK ==
  /\ ZipTypeOK
  /\ config \in Configs /\ routers \in 0 .. Len(config)
  /\ node \in {"new", "up", "failed", "closed"} /\ zip \in {"no", "open", "closed"}
  /\ blockedIps \in [DOMAIN config -> SUBSET Hosts] /\ found \in [DOMAIN config -> SUBSET Hosts]
  /\ pc \in [Requests -> {"none", "route", "match", "store", "do", "done"}]
  /\ req \in [Requests -> Request \union {NoRequest}]
  /\ at \in [Requests -> 1 .. Len(config) + 1]
  /\ proxy \in [Requests -> Proxies \union {"file", Nil}]
  /\ answer \in [Requests -> [code : Codes, of : Names, ok : BOOLEAN]]
  /\ verdict \in [Requests -> {"none", "blocked", "passed"}]
  /\ knew \in [Requests -> BOOLEAN]

Init ==
  /\ ZipInit
  /\ config \in Configs /\ node = "new" /\ routers = 0 /\ zip = "no"
  /\ blockedIps = [i \in DOMAIN config |-> {}]
  /\ pc = [r \in Requests |-> "none"] /\ req = [r \in Requests |-> NoRequest]
  /\ at = [r \in Requests |-> 1] /\ proxy = [r \in Requests |-> Nil]
  /\ answer = [r \in Requests |-> NoAnswer]
  /\ verdict = [r \in Requests |-> "none"] /\ knew = [r \in Requests |-> FALSE]
  /\ found = [i \in DOMAIN config |-> {}]

----------------------------------------------------------------------------
(* node.New.                                                               *)

(* NewFileProxyRouterClient, before any router is made.                    *)
OpenFileClient ==
  /\ node = "new" /\ zip = "no"
  /\ IF CanOpen THEN zip' = "open" /\ UNCHANGED node
                ELSE node' = "failed" /\ UNCHANGED zip
  /\ UNCHANGED <<zipVars, config, routers, blockedIps, requestVars>>

(* newRouter: one kind, and names that exist; a name that does not stands  *)
(* also for an address that does not parse.  The directory of the rules    *)
(* may be unreadable or have none: newAdpRouter, readRulesDir, init.       *)
Resolves(item) ==
  /\ item.kind \in {"adp", "ipnet"}
  /\ {item.yes, item.no} \subseteq Proxies \union {Nil}

(* The addresses of the hosts file that init adds to blockedIps.           *)
HostsBlocked(item) ==
  IF item.kind = "adp" /\ item.etcHosts
  THEN {a \in DOMAIN EtcHosts : EtcHosts[a] \in item.match} ELSE {}

NewRouter ==
  /\ node = "new" /\ zip = "open" /\ routers < Len(config)
  /\ Resolves(config[routers + 1])
  /\ \E blocked \in SUBSET HostsBlocked(config[routers + 1]) :
        blockedIps' = [blockedIps EXCEPT ![routers + 1] = blocked]
  /\ routers' = routers + 1
  /\ UNCHANGED <<zipVars, config, node, zip, requestVars>>

(* Close is called when a router cannot be made.                           *)
NewRouterFails ==
  /\ node = "new" /\ zip = "open" /\ routers < Len(config)
  /\ ~Resolves(config[routers + 1]) \/ config[routers + 1].kind = "adp"
  /\ node' = "failed" /\ zip' = "closed"
  /\ UNCHANGED <<zipVars, config, routers, blockedIps, requestVars>>

(* It is not when a proxy or, later, a listener cannot be.                 *)
NewFails ==
  /\ node = "new" /\ routers \in {0, Len(config)}
  /\ node' = "failed"
  /\ UNCHANGED <<zipVars, config, routers, zip, blockedIps, requestVars>>

NewDone ==
  /\ node = "new" /\ zip = "open" /\ routers = Len(config)
  /\ node' = "up"
  /\ UNCHANGED <<zipVars, config, routers, zip, blockedIps, requestVars>>

(* Close does not wait for requests that are under way.                    *)
Close ==
  /\ node = "up"
  /\ node' = "closed" /\ zip' = "closed"
  /\ UNCHANGED <<zipVars, config, routers, blockedIps, requestVars>>

----------------------------------------------------------------------------
(* routeProxy.                                                             *)
Arrive(r) ==
  /\ node = "up" /\ pc[r] = "none"
  /\ \E q \in Request : req' = [req EXCEPT ![r] = q]
  /\ pc' = [pc EXCEPT ![r] = "route"]
  /\ UNCHANGED <<zipVars, nodeVars, blockedIps, at, proxy, answer, verdict, found, knew>>

Router(r) == config[at[r]]
Asked(r) == pc[r] = "route" /\ at[r] <= Len(config)

(* A router has returned p: nil asks the next one.                         *)
Returns(r, p) ==
  /\ proxy' = [proxy EXCEPT ![r] = p]
  /\ at' = [at EXCEPT ![r] = IF p = Nil THEN @ + 1 ELSE @]
  /\ pc' = [pc EXCEPT ![r] = IF p = Nil THEN "route" ELSE "do"]

SkipDisabled(r) ==
  /\ Asked(r) /\ Router(r).name \in Disabled
  /\ at' = [at EXCEPT ![r] = @ + 1]
  /\ UNCHANGED <<zipVars, nodeVars, blockedIps, pc, req, proxy, answer, verdict, found, knew>>

NoRouterLeft(r) ==
  /\ pc[r] = "route" /\ at[r] > Len(config)
  /\ proxy' = [proxy EXCEPT ![r] = "DIRECT"]
  /\ pc' = [pc EXCEPT ![r] = "do"]
  /\ UNCHANGED <<zipVars, nodeVars, blockedIps, req, at, answer, verdict, found, knew>>

(* FileProxyRouterClient.Route.                                            *)
FileRoutes(q) ==
  \/ q.kind # "upgrade" /\ CanRequest(q.path)
  \/ q.path \in Redirect

(* IPNetRouter.Route: the file client is asked for matched hosts only.     *)
NetRoute(r) ==
  /\ Asked(r) /\ Router(r).kind = "ipnet" /\ Router(r).name \notin Disabled
  /\ Returns(r, IF req[r].host \notin Router(r).match THEN Router(r).no
                ELSE IF Router(r).fileTest /\ FileRoutes(req[r]) THEN "file"
                ELSE Router(r).yes)
  /\ UNCHANGED <<zipVars, nodeVars, blockedIps, req, answer, verdict, found, knew>>

(* AdpRouter.Route has found the host blocked, or not.                     *)
Found(r, blocked) ==
  /\ Returns(r, IF blocked THEN Router(r).yes ELSE Router(r).no)
  /\ verdict' = [verdict EXCEPT ![r] = IF blocked THEN "blocked" ELSE "passed"]
  /\ found' = IF blocked THEN [found EXCEPT ![at[r]] = @ \union {req[r].host}] ELSE found

(* blocked: the map is read under RLock.                                   *)
AdpLookup(r) ==
  /\ Asked(r) /\ Router(r).kind = "adp" /\ Router(r).name \notin Disabled
  /\ knew' = [knew EXCEPT ![r] = req[r].host \in found[at[r]]]
  /\ IF req[r].host \in blockedIps[at[r]]
     THEN Found(r, TRUE)
     ELSE /\ pc' = [pc EXCEPT ![r] = "match"]
          /\ verdict' = [verdict EXCEPT ![r] = "none"]
          /\ UNCHANGED <<at, proxy, found>>
  /\ UNCHANGED <<zipVars, nodeVars, blockedIps, req, answer>>

(* Mutant: a match that failed blocks the host.                            *)
AdpMatch_FailureBlocks(r) ==
  /\ pc[r] = "match"
  /\ pc' = [pc EXCEPT ![r] = "store"]
  /\ UNCHANGED <<zipVars, nodeVars, blockedIps, req, at, proxy, answer, verdict, found, knew>>

(* AdpMatch, with no lock held: by the rules, or FALSE when it fails.      *)
AdpMatch(r) ==
  /\ pc[r] = "match"
  /\ \/ /\ req[r].host \in Router(r).match
        /\ pc' = [pc EXCEPT ![r] = "store"]
        /\ UNCHANGED <<at, proxy, verdict, found>>
     \/ Found(r, FALSE)
  /\ UNCHANGED <<zipVars, nodeVars, blockedIps, req, answer, knew>>

(* Mutant: what was matched is not kept.                                   *)
AdpStore_NotKept(r) ==
  /\ pc[r] = "store"
  /\ Found(r, TRUE)
  /\ UNCHANGED <<zipVars, nodeVars, blockedIps, req, answer, knew>>

(* The map is written under Lock.                                          *)
AdpStore(r) ==
  /\ pc[r] = "store"
  /\ blockedIps' = [blockedIps EXCEPT ![at[r]] = @ \union {req[r].host}]
  /\ Found(r, TRUE)
  /\ UNCHANGED <<zipVars, nodeVars, req, answer, knew>>

----------------------------------------------------------------------------
(* Context.proxy: the proxy's Do, of which only the file client's is here. *)
DoOther(r) ==
  /\ pc[r] = "do" /\ proxy[r] # "file"
  /\ pc' = [pc EXCEPT ![r] = "done"]
  /\ UNCHANGED <<zipVars, nodeVars, blockedIps, req, at, proxy, answer, verdict, found, knew>>

Served(q) == IF q.path = Index THEN Root ELSE q.path

(* Mutant: the path of the index is left as it is.                         *)
FileDo_IndexKept(q) ==
  IF q.path \in Redirect
  THEN {Answer(IF q.kind = "http2" THEN "panic" ELSE "301", q.path, TRUE)}
  ELSE RoundTrip(q.path) \union
         IF zip = "open" THEN {} ELSE {Answer("500", q.path, TRUE), Answer("cut", q.path, TRUE)}

(* FileProxyRouterClient.Do.  A redirect is written to Context.Writer,     *)
(* which is nil over http2; reads of a closed archive fail.                *)
FileDo(q) ==
  IF q.path \in Redirect
  THEN {Answer(IF q.kind = "http2" THEN "panic" ELSE "301", q.path, TRUE)}
  ELSE RoundTrip(Served(q)) \union
         IF zip = "open" THEN {} ELSE {Answer("500", q.path, TRUE), Answer("cut", q.path, TRUE)}

DoFile(r) ==
  /\ pc[r] = "do" /\ proxy[r] = "file"
  /\ \E a \in FileDo(req[r]) : answer' = [answer EXCEPT ![r] = a]
  /\ pc' = [pc EXCEPT ![r] = "done"]
  /\ UNCHANGED <<zipVars, nodeVars, blockedIps, req, at, proxy, verdict, found, knew>>

----------------------------------------------------------------------------
(* hybrid-zip is not run on an archive that a node has open.               *)
Packs ==
  /\ zip = "no"
  /\ Pack
  /\ UNCHANGED <<nodeVars, blockedIps, requestVars>>

New == OpenFileClient \/ NewRouter \/ NewRouterFails \/ NewFails \/ NewDone

Handle(r) ==
  \/ SkipDisabled(r) \/ NoRouterLeft(r) \/ NetRoute(r)
  \/ AdpLookup(r) \/ AdpMatch(r) \/ AdpStore(r) \/ DoOther(r) \/ DoFile(r)

Next ==
  \/ Packs \/ New \/ Close
  \/ \E r \in Requests : Arrive(r) \/ Handle(r)

Spec == Init /\ [][Next]_vars

----------------------------------------------------------------------------
PackedFiles == {dir[i] : i \in {j \in DOMAIN dir : Packed(dir[j])}}

(* A node serves whole archives only: when New has opened one, every file  *)
(* of the directory that is to be packed is in it, and ContentInfo.toml    *)
(* knows them all, whatever went wrong in a run of hybrid-zip before or    *)
(* when New came in between (generate writes ContentInfo.toml last).       *)
OpenedIsWhole ==
  zip # "no" =>
    /\ entries = {Entry(f) : f \in PackedFiles}
    /\ meta = {f.name : f \in {g \in PackedFiles : ~Compressed(g)}}

(* No other file is stored under the path's name or its name with .gz.     *)
StoredAlone(path) ==
  \A f \in PackedFiles : Entry(f).name \in {path, Gz(path)} => f.name = path

(* What the file client answers is the file that was packed under the path *)
(* (or the index of the directory), encoded as the answer's header says.   *)
(* Two things are left out: files x and x.gz in one directory, where one   *)
(* may be stored under the name of the other, and an index that was not    *)
(* compressed, which the header of a directory does not know of            *)
(* (processFile, gz, RoundTrip).                                           *)
ServedRight ==
  \A r \in Requests :
     LET path == Served(req[r])
         asked == IF path = Root THEN Index ELSE path
     IN  /\ answer[r].code = "200"
         /\ StoredAlone(asked)
         /\ path = Root => \E f \in PackedFiles : f.name = Index /\ Compressed(f)
         => answer[r].of = asked /\ answer[r].ok

(* Route's test and Do agree: a request that was given to the file client  *)
(* is not told that there is no such file, unless it asked for a           *)
(* compressed file by its stored name, nor sent elsewhere without a        *)
(* Redirect of its path (CanRequest, Open, and the rewriting of            *)
(* /index.html in Do, which http.FileServer would redirect for ever).      *)
FileClientAnswers ==
  \A r \in Requests :
     proxy[r] = "file" /\ pc[r] = "done" =>
       /\ answer[r].code = "404" =>
            \E i \in DOMAIN dir : Compressed(dir[i]) /\ Gz(dir[i].name) = req[r].path
       /\ answer[r].code = "301" => req[r].path \in Redirect

(* A host that an AdpRouter has found blocked stays blocked for every      *)
(* request that comes to the router after that, also when the matcher      *)
(* would now run out of time (blockedIps, read and written by concurrent   *)
(* requests).                                                              *)
BlockedStays == \A r \in Requests : knew[r] => verdict[r] # "passed"

(* Nothing is blocked without a rule: the host is matched, or its address  *)
(* is that of a matched host in the hosts file, if those are to count.  A  *)
(* match that fails blocks nothing and leaves nothing behind.              *)
BlockedIsRuled ==
  \A i \in DOMAIN config : found[i] \subseteq config[i].match \union HostsBlocked(config[i])
============================================================================
