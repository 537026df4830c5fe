----------------------------- MODULE MCTunnel -----------------------------
(* Tunnel for every kind of request: http2 requests have no Upgrade.       *)
EXTENDS Tunnel

AllKinds ==
  {k \in [method : Methods, via : Vias, sink : Sinks] :
     k.method = "UPGRADE" => k.sink = "writer"}
===========================================================================
