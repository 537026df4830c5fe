----------------------------- MODULE MCCrypto -----------------------------
(* Instances of CryptoPipe for TLC: blocks of two bytes, a tag of one, and *)
(* queues of one or two blocks, so that channels are met full and empty.   *)
(* WriteTo ends, so deadlock is not an error.                              *)
EXTENDS CryptoPipe
===========================================================================
