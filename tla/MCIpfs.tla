------------------------------ MODULE MCIpfs ------------------------------
(* Ipfs with few listeners and streams.  Liveness is checked, so listeners *)
(* are not declared symmetric.  The daemons run out and listeners close    *)
(* for good, so deadlock is not an error.                                  *)
EXTENDS Ipfs
===========================================================================
