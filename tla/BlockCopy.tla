----------------------------- MODULE BlockCopy -----------------------------
(***************************************************************************)
(* What writerTo.WriteTo promises (src/pkg/cryptofile): the blocks of the  *)
(* source reach the destination one after the other, and success is        *)
(* reported when all of them have, after which nothing is written.         *)
(***************************************************************************)
EXTENDS Naturals

VARIABLES total,    \* blocks the source has
          copied,   \* blocks that have reached the destination
          outcome   \* running, ok, err

copyVars == <<total, copied, outcome>>

CopyInit == total \in Nat /\ copied = 0 /\ outcome = "running"

CopyBlock ==
  /\ outcome = "running"
  /\ copied < total
  /\ copied' = copied + 1
  /\ UNCHANGED <<total, outcome>>

Succeed ==
  /\ outcome = "running"
  /\ copied = total
  /\ outcome' = "ok"
  /\ UNCHANGED <<total, copied>>

Fail ==
  /\ outcome = "running"
  /\ outcome' = "err"
  /\ UNCHANGED <<total, copied>>

CopyNext == CopyBlock \/ Succeed \/ Fail

CopySpec == CopyInit /\ [][CopyNext]_copyVars
===========================================================================
