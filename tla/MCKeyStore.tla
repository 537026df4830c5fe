---------------------------- MODULE MCKeyStore ----------------------------
(* Instances of KeyStore for TLC: two callers that contend for the mutex,  *)
(* and a sequence long enough for ids to be deleted and asked for again.   *)
(* A caller may be refused for want of ids at MaxSeq, which is a failed    *)
(* transaction here.                                                       *)
EXTENDS KeyStore

Symmetry == Permutations(Callers) \union Permutations(PublicKeys)
===========================================================================
