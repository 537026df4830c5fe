----------------------------- MODULE MCRouters -----------------------------
(* An instance of Routers for TLC.  A node that has failed or closed and   *)
(* requests that are done take no step: deadlock is not an error.          *)
EXTENDS Routers, TLC

Name(b, n) == [base |-> b, gz |-> n]
File(b, n, k) == [name |-> Name(b, n), kind |-> k]

(* Directories with a compressed or a short index, with files of every     *)
(* kind, and with files whose names end in .gz.                            *)
MCDirs ==
  {<<File("a", 0, "text"), File("a", 1, "binary"), File("index", 0, "text")>>,
   <<File("a", 0, "ignored"), File("b", 0, "binary"), File("index", 0, "small")>>,
   <<File("a", 0, "empty"), File("a", 1, "binary"), File("b", 0, "text")>>}

MCPaths == {Root, Index, Name("a", 0), Name("a", 1), Name("b", 0), Name("old", 0)}
MCRedirect == {Name("old", 0)}

(* ad is matched by the rules, and ip is its address in the hosts file.    *)
MCEtcHosts == "ip" :> "ad"

Adp(n, yes, no, etc) ==
  [name |-> n, kind |-> "adp", match |-> {"ad"}, yes |-> yes, no |-> no,
   etcHosts |-> etc, fileTest |-> FALSE]
Net(n, yes, no) ==
  [name |-> n, kind |-> "ipnet", match |-> {"ip"}, yes |-> yes, no |-> no,
   etcHosts |-> FALSE, fileTest |-> TRUE]

(* Either order, a router that is disabled, an item with two kinds and one *)
(* that names no proxy.                                                    *)
MCConfigs ==
  {<<Adp("x", "far", Nil, TRUE), Net("y", "DIRECT", "far")>>,
   <<Net("y", Nil, Nil), Adp("x", Nil, "DIRECT", FALSE)>>,
   <<Net("off", "far", "far"), Net("y", Nil, "far")>>,
   <<Net("y", "gone", Nil)>>,
   <<[Adp("x", "far", Nil, TRUE) EXCEPT !.kind = "both"]>>}

Symmetry == Permutations(Requests)
============================================================================
