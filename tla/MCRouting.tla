----------------------------- MODULE MCRouting ----------------------------
(* Instances of Routing for TLC: three nodes that know each other under    *)
(* names of their own, one of them with a local server, and requests of    *)
(* every kind over routes of up to three names.  A request that has        *)
(* ended takes no step, so deadlock is not an error.                       *)
EXTENDS Routing, TLC

CONSTANTS n1, n2, n3

(* b is n2 to n1, and n3 to n2 and n3; c is a proxy to n3 alone.           *)
MCProxies ==
  (n1 :> [a |-> n1, b |-> n2]) @@ (n2 :> [a |-> n1, b |-> n3])
    @@ (n3 :> [a |-> n1, b |-> n3, c |-> Exist])

MCNodes == {n1, n2, n3}

(* The routers of n1 may send to n2, and those of n2 to n3.                *)
MCRouted == (n1 :> {n2}) @@ (n2 :> {n3}) @@ (n3 :> {})

Api == <<Word("api")>>
Site == <<Word("a"), Word("site")>>

MCLocalServers == (n1 :> {}) @@ (n2 :> {Api}) @@ (n3 :> {Api})

(* Routes with circles, to a host that two nodes serve and to one that no  *)
(* node does.                                                              *)
MCWishes ==
  [dial : {Api, Site}, kw : {"over", "with"},
   route : UNION {[1 .. k -> {"a", "b", "c"}] : k \in 0 .. 3}]

(* A plain host, hosts NewDomain refuses, a client that sends a mark, and  *)
(* a hybrid host within another.                                           *)
MCOtherHosts ==
  LET h(ws) == [i \in DOMAIN ws |-> Word(ws[i])]
  IN  {Site, h(<<"hybrid">>), h(<<"site", "hybrid">>),
       h(<<"over", "a", "hybrid">>), h(<<"site", "over", "", "hybrid">>),
       h(<<"site", "over", "with", "hybrid">>),
       h(<<"site", "with", "a", "over", "b", "hybrid">>),
       h(<<"site", "over", "a", "hybrid", "over", "b", "hybrid">>)}
      \union {<<Word("site"), Word("over")>> \o r \o <<Word("hybrid")>> :
              r \in {<<Dashed("a"), Word("b")>>, <<Word("a"), Dashed("b")>>,
                    <<Dashed("a"), Dashed("b")>>, <<Dashed("")>>,
                    <<Word("a"), Word("a_0")>>,
                    <<Dashed("a"), Word("b"), Dashed("c")>>}}
===========================================================================
