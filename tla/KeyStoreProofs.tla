-------------------------- MODULE KeyStoreProofs --------------------------
(***************************************************************************)
(* KeyStore never uses an id twice and loses no key, for any number of     *)
(* callers and any bound on the sequence.                                  *)
(*                                                                         *)
(* That the sequence is ahead of every id used is not inductive: Release   *)
(* writes back the position of a Sequence object, and Save uses an id that *)
(* was leased some steps before.  The invariant says where the id of the   *)
(* caller that holds the mutex stands between the ids used and the         *)
(* sequence.                                                               *)
(***************************************************************************)
EXTENDS KeyStore, TLAPS

(* Callers between Lock and the reply.                                     *)
Inside == {"sequence", "next", "again", "release", "set"}

(* Only the holder of the mutex is inside.                                 *)
MutexHeld == \A c \in Callers : pc[c] \in Inside => mu = c

(* What a caller's Sequence and id are to the database at each step.       *)
CallerPlaced(c) ==
  /\ pc[c] = "next" =>
       seq[c].next < Current /\ \A id \in saved : id < seq[c].next
  /\ pc[c] = "again" =>
       seq[c].next = 1 /\ Current >= 1 /\ saved = {}
  /\ pc[c] = "release" =>
       /\ ak[c].id # 0 /\ ak[c].id < seq[c].next /\ seq[c].next <= Current
       /\ \A id \in saved : id < ak[c].id
  /\ pc[c] = "set" =>
       /\ ak[c].id # 0 /\ ak[c].id < Current
       /\ \A id \in saved : id < ak[c].id

(* The inductive invariant.                                                *)
KeyInv ==
  /\ TypeOK
  /\ MutexHeld
  /\ \A c \in Callers : CallerPlaced(c)
  /\ SequenceAhead
  /\ ZeroIsForMeta
  /\ Ids \subseteq saved

---------------------------------------------------------------------------
(* NewServer's database is empty and nobody is inside.                     *)
LEMMA InitKeyInv == Init => KeyInv
<1> SUFFICES ASSUME Init PROVE KeyInv
  OBVIOUS
<1> USE KeyStoreAssumption
<1>1. TypeOK
  <2>1. ak \in [Callers -> AuthKey]
    <3>1. \A k \in PublicKeys :
            [id |-> 0, key |-> k, createdAt |-> 0, expiresAt |-> 0] \in AuthKey
      BY DEF AuthKey
    <3> QED
      BY <3>1 DEF Init
  <2>2. seq \in [Callers -> [next : Nat, leased : Nat]]
    BY DEF Init, NoSeq
  <2>3. keys \subseteq AuthKey /\ saved \subseteq Nat /\ meta \in BOOLEAN
    BY DEF Init
  <2> QED
    BY <2>1, <2>2, <2>3 DEF Init, TypeOK
<1>2. MutexHeld /\ \A c \in Callers : CallerPlaced(c)
  BY DEF Init, MutexHeld, Inside, CallerPlaced
<1>3. SequenceAhead /\ ZeroIsForMeta /\ Ids \subseteq saved
  BY DEF Init, SequenceAhead, ZeroIsForMeta, Ids
<1> QED
  BY <1>1, <1>2, <1>3 DEF KeyInv

(* A step that leaves database and mutex alone and changes one caller      *)
(* outside the mutex.                                                      *)
LEMMA AddKeepsInv ==
  ASSUME KeyInv, NEW c \in Callers, AddVerifyKey(c) PROVE KeyInv'
<1> USE KeyStoreAssumption
<1>1. TypeOK'
  <2>1. \A life \in Lives : Clamp(life) \in Nat
    BY DEF Clamp
  <2>2. PICK k \in PublicKeys, life \in Lives :
          ak' = [ak EXCEPT ![c] = [id |-> 0, key |-> k, createdAt |-> now,
                                   expiresAt |-> now + Clamp(life)]]
    BY DEF AddVerifyKey
  <2>3. now + Clamp(life) \in Nat /\ now \in Nat
    BY <2>1 DEF KeyInv, TypeOK
  <2>4. [id |-> 0, key |-> k, createdAt |-> now,
         expiresAt |-> now + Clamp(life)] \in AuthKey
    BY <2>3 DEF AuthKey
  <2>5. ak' \in [Callers -> AuthKey]
    BY <2>2, <2>4 DEF KeyInv, TypeOK
  <2> QED
    BY <2>5 DEF KeyInv, TypeOK, AddVerifyKey, db
<1>2. MutexHeld'
  BY DEF KeyInv, TypeOK, MutexHeld, Inside, AddVerifyKey
<1>3. ASSUME NEW d \in Callers PROVE CallerPlaced(d)'
  <2>1. CASE d = c
    BY <2>1 DEF KeyInv, TypeOK, AddVerifyKey, CallerPlaced
  <2>2. CASE d # c
    <3>1. ak'[d] = ak[d] /\ pc'[d] = pc[d]
      BY <2>2 DEF KeyInv, TypeOK, AddVerifyKey
    <3> QED
      BY <3>1 DEF KeyInv, AddVerifyKey, CallerPlaced, Current, db
  <2> QED
    BY <2>1, <2>2
<1>4. SequenceAhead' /\ ZeroIsForMeta' /\ (Ids \subseteq saved)'
  BY DEF KeyInv, SequenceAhead, ZeroIsForMeta, Ids, Current, AddVerifyKey, db
<1> QED
  BY <1>1, <1>2, <1>3, <1>4 DEF KeyInv

(* While one caller is inside the others are not.                          *)
LEMMA OthersOutside ==
  ASSUME KeyInv, NEW c \in Callers, pc[c] \in Inside,
         NEW d \in Callers, d # c
  PROVE  pc[d] \notin Inside
BY DEF KeyInv, MutexHeld

(* Lock, NextId and Release: the steps of the holder that leave the keys   *)
(* alone.                                                                  *)
LEMMA HolderKeepsInv ==
  ASSUME KeyInv, NEW c \in Callers,
         \/ Lock(c) \/ GetSequence(c) \/ Next1(c) \/ Next2(c) \/ Release(c)
         \/ ReleaseAndFail(c) \/ ReleaseFails(c) \/ Fail(c)
  PROVE  KeyInv'
<1> USE KeyStoreAssumption
<1> DEFINE Holder == pc[c] \in Inside \/ Lock(c)
<1>0. /\ Holder
      /\ mu = c \/ Lock(c)
      /\ keys' = keys /\ saved' = saved /\ meta' = meta /\ now' = now
      /\ \A d \in Callers : d # c => pc'[d] = pc[d]
  <2>1. pc[c] \in Inside \/ Lock(c)
    BY DEF Inside, GetSequence, Next1, Next2, Release, ReleaseAndFail,
           ReleaseFails, Fail
  <2> QED
    BY <2>1 DEF KeyInv, TypeOK, MutexHeld, Lock, GetSequence, Next1, Next2,
       Release, ReleaseAndFail, ReleaseFails, Fail, db
<1>1. \A d \in Callers : d # c => pc[d] \notin Inside
  BY <1>0, OthersOutside DEF KeyInv, MutexHeld, Lock
<1>2. TypeOK'
  <2>1. Current \in Nat /\ Current + 1 \in Nat
    BY DEF Current, KeyInv, TypeOK
  <2>2. seq[c] \in [next : Nat, leased : Nat] /\ seq[c].next \in Nat
    BY DEF KeyInv, TypeOK
  <2>3. ak[c] \in AuthKey
    BY DEF KeyInv, TypeOK
  <2>4. stored' \in Nat \union {None}
    BY <2>1, <2>2 DEF KeyInv, TypeOK, Lock, GetSequence, UpdateLease, Next1,
       Next2, Release, ReleaseAndFail, SequenceRelease, ReleaseFails, Fail, db
  <2>5. seq' \in [Callers -> [next : Nat, leased : Nat]]
    BY <2>1, <2>2 DEF KeyInv, TypeOK, Lock, GetSequence, UpdateLease, Next1,
       Next2, Release, ReleaseAndFail, ReleaseFails, Fail
  <2>6. ak' \in [Callers -> AuthKey]
    <3>1. \A n \in Nat : [ak[c] EXCEPT !.id = n] \in AuthKey
      BY <2>3 DEF AuthKey
    <3> QED
      BY <3>1, <2>1, <2>2 DEF KeyInv, TypeOK, Lock, GetSequence, UpdateLease,
         Next1, Next2, Release, ReleaseAndFail, ReleaseFails, Fail
  <2>7. /\ mu' \in Callers \union {None}
        /\ pc' \in [Callers -> {"idle", "lock", "sequence", "next", "again",
                                "release", "set"}]
    BY DEF KeyInv, TypeOK, Lock, GetSequence, Next1, Next2, Release,
       ReleaseAndFail, ReleaseFails, Fail
  <2> QED
    BY <1>0, <2>4, <2>5, <2>6, <2>7 DEF KeyInv, TypeOK
<1>3. MutexHeld'
  <2>1. pc'[c] \in Inside => mu' = c
    BY <1>0 DEF KeyInv, TypeOK, Inside, Lock, GetSequence, Next1, Next2,
       Release, ReleaseAndFail, ReleaseFails, Fail
  <2> QED
    BY <2>1, <1>0, <1>1 DEF MutexHeld
<1>4. ASSUME NEW d \in Callers PROVE CallerPlaced(d)'
  <2>1. CASE d # c
    BY <2>1, <1>0, <1>1 DEF CallerPlaced, Inside
  <2>2. CASE d = c
    <3> USE <2>2
    <3>1. CASE Lock(c)
      BY <3>1 DEF KeyInv, TypeOK, Lock, CallerPlaced
    <3>2. CASE GetSequence(c)
      BY <3>2 DEF KeyInv, TypeOK, GetSequence, UpdateLease, CallerPlaced,
         Current, SequenceAhead
    <3>3. CASE Next1(c)
      BY <3>3 DEF KeyInv, TypeOK, AuthKey, Next1, CallerPlaced, Current, db
    <3>4. CASE Next2(c)
      BY <3>4 DEF KeyInv, TypeOK, AuthKey, Next2, CallerPlaced, Current
    <3>5. CASE Release(c)
      BY <3>5 DEF KeyInv, TypeOK, AuthKey, Release, SequenceRelease,
         CallerPlaced, Current
    <3>6. CASE ReleaseFails(c)
      BY <3>6 DEF KeyInv, TypeOK, AuthKey, ReleaseFails, CallerPlaced,
         Current, db
    <3>7. CASE ReleaseAndFail(c) \/ Fail(c)
      BY <3>7 DEF KeyInv, TypeOK, ReleaseAndFail, Fail, CallerPlaced
    <3> QED
      BY <3>1, <3>2, <3>3, <3>4, <3>5, <3>6, <3>7
  <2> QED
    BY <2>1, <2>2
<1>5. SequenceAhead'
  <2>1. CASE Release(c) \/ ReleaseAndFail(c)
    BY <2>1, <1>0 DEF KeyInv, TypeOK, AuthKey, SequenceAhead, Current,
       Release, ReleaseAndFail, SequenceRelease, CallerPlaced
  <2>2. CASE ~(Release(c) \/ ReleaseAndFail(c))
    <3>1. Current' >= Current
      BY <2>2 DEF KeyInv, TypeOK, Current, Lock, GetSequence, UpdateLease,
         Next1, Next2, ReleaseFails, Fail, db
    <3>2. Current \in Nat /\ Current' \in Nat
      BY <1>2 DEF KeyInv, TypeOK, Current
    <3> QED
      BY <3>1, <3>2, <1>0 DEF KeyInv, TypeOK, SequenceAhead
  <2> QED
    BY <2>1, <2>2
<1>6. ZeroIsForMeta' /\ (Ids \subseteq saved)'
  BY <1>0 DEF KeyInv, ZeroIsForMeta, Ids
<1> QED
  BY <1>2, <1>3, <1>4, <1>5, <1>6 DEF KeyInv

(* Set stores the key of the holder under an id above all used ids.        *)
LEMMA SetKeepsInv ==
  ASSUME KeyInv, NEW c \in Callers, Set(c) PROVE KeyInv'
<1> USE KeyStoreAssumption
<1>1. \A d \in Callers : d # c => pc[d] \notin Inside
  BY OthersOutside DEF Set, Inside
<1>2. ak[c] \in AuthKey /\ ak[c].id \in Nat
  BY DEF KeyInv, TypeOK, AuthKey
<1>3. TypeOK'
  BY <1>2 DEF KeyInv, TypeOK, Set
<1>4. \A d \in Callers : pc'[d] \notin Inside
  BY <1>1 DEF KeyInv, TypeOK, Set, Inside
<1>5. MutexHeld' /\ \A d \in Callers : CallerPlaced(d)'
  BY <1>4 DEF MutexHeld, CallerPlaced, Inside
<1>6. SequenceAhead' /\ ZeroIsForMeta'
  BY <1>2 DEF KeyInv, TypeOK, Set, CallerPlaced, SequenceAhead, ZeroIsForMeta,
     Current
<1>7. (Ids \subseteq saved)'
  BY DEF KeyInv, Set, Ids
<1> QED
  BY <1>3, <1>5, <1>6, <1>7 DEF KeyInv

(* Deletes, meta, the clock and a crash move no id.                        *)
LEMMA OthersKeepInv ==
  ASSUME KeyInv, (\E id \in 0 .. MaxSeq : Delete(id)) \/ SetMeta \/ DeleteMeta
                 \/ Tick \/ Crash
  PROVE  KeyInv'
<1> USE KeyStoreAssumption
<1>1. /\ keys' \subseteq keys /\ saved' = saved /\ stored' = stored
      /\ ak' = ak /\ seq' = seq
  BY DEF Delete, SetMeta, DeleteMeta, Tick, Crash, db
<1>2. meta' \in BOOLEAN /\ now' \in Nat
  <2>1. meta' = meta \/ meta' = TRUE \/ meta' = FALSE
    BY Zenon DEF Delete, SetMeta, DeleteMeta, Tick, Crash, db
  <2>2. meta' \in BOOLEAN
    BY <2>1, Zenon DEF KeyInv, TypeOK
  <2>3. now' \in Nat
    BY DEF KeyInv, TypeOK, Delete, SetMeta, DeleteMeta, Tick, Crash
  <2> QED
    BY <2>2, <2>3
<1>3. \/ pc' = pc /\ mu' = mu
      \/ pc' = [c \in Callers |-> "idle"] /\ mu' = None
  BY DEF Delete, SetMeta, DeleteMeta, Tick, Crash
<1>4. TypeOK'
  <2>1. /\ mu' \in Callers \union {None}
        /\ pc' \in [Callers -> {"idle", "lock", "sequence", "next", "again",
                                "release", "set"}]
    BY <1>3 DEF KeyInv, TypeOK
  <2> QED
    BY <2>1, <1>1, <1>2 DEF KeyInv, TypeOK
<1>5. MutexHeld' /\ \A c \in Callers : CallerPlaced(c)'
  BY <1>1, <1>3 DEF KeyInv, MutexHeld, CallerPlaced, Inside, Current
<1>6. SequenceAhead' /\ ZeroIsForMeta' /\ (Ids \subseteq saved)'
  BY <1>1 DEF KeyInv, SequenceAhead, ZeroIsForMeta, Ids, Current
<1> QED
  BY <1>4, <1>5, <1>6 DEF KeyInv

(* Every step of the store keeps the invariant.                            *)
LEMMA NextKeepsInv == KeyInv /\ [Next]_vars => KeyInv'
<1> SUFFICES ASSUME KeyInv, [Next]_vars PROVE KeyInv'
  OBVIOUS
<1>1. CASE \E c \in Callers : CallerStep(c)
  BY <1>1, AddKeepsInv, HolderKeepsInv, SetKeepsInv DEF CallerStep
<1>2. CASE ~(\E c \in Callers : CallerStep(c)) /\ Next
  BY <1>2, OthersKeepInv DEF Next
<1>3. CASE UNCHANGED vars
  BY <1>3 DEF vars, db, KeyInv, TypeOK, MutexHeld, CallerPlaced, Current,
     SequenceAhead, ZeroIsForMeta, Ids
<1> QED
  BY <1>1, <1>2, <1>3

(* The invariant holds in every state of the store.                        *)
THEOREM KeyStoreInvariance == Spec => []KeyInv
BY InitKeyInv, NextKeepsInv, PTL DEF Spec

(* A database left at any point, by a crash or a failed transaction, has a *)
(* sequence beyond every id used, and id 0 is left to the meta.            *)
THEOREM SequenceStaysAhead == Spec => [](SequenceAhead /\ ZeroIsForMeta)
<1>1. KeyInv => SequenceAhead /\ ZeroIsForMeta
  BY DEF KeyInv
<1> QED
  BY <1>1, KeyStoreInvariance, PTL

(* Save never stores a key under an id that any key has ever had.          *)
THEOREM NoIdIsReused == Spec => IdsNeverReused
<1>1. KeyInv /\ [Next]_vars => [\A k \in keys' \ keys : k.id \notin saved]_vars
  <2> SUFFICES ASSUME KeyInv, Next, NEW k \in keys' \ keys
               PROVE  k.id \notin saved
    OBVIOUS
  <2>1. PICK c \in Callers : Set(c)
    BY DEF Next, CallerStep, AddVerifyKey, Lock, GetSequence, Next1, Next2,
       Release, ReleaseAndFail, ReleaseFails, Fail, Delete, SetMeta,
       DeleteMeta, Tick, Crash, db
  <2>2. k = ak[c] /\ ak[c].id \in Nat
    BY <2>1 DEF Set, KeyInv, TypeOK, AuthKey
  <2> QED
    BY <2>1, <2>2 DEF Set, KeyInv, TypeOK, CallerPlaced
<1> QED
  BY <1>1, KeyStoreInvariance, PTL DEF Spec, IdsNeverReused

(* A stored key leaves the database by DeleteVerifyKey only.               *)
THEOREM KeysAreKept == Spec => KeysOnlyDeleted
<1>1. KeyInv /\ [Next]_vars =>
        [\A k \in keys \ keys' : k.id # 0 /\ Ids' = Ids \ {k.id}]_vars
  <2> SUFFICES ASSUME KeyInv, Next, NEW k \in keys \ keys'
               PROVE  k.id # 0 /\ Ids' = Ids \ {k.id}
    OBVIOUS
  <2>1. \A c \in Callers : ~Set(c)
    <3> SUFFICES ASSUME NEW c \in Callers, Set(c) PROVE FALSE
      OBVIOUS
    <3>1. k.id \in saved /\ k.id \in Nat /\ ak[c].id \in Nat
      BY DEF KeyInv, TypeOK, AuthKey, Ids
    <3>2. k.id = ak[c].id
      BY DEF Set
    <3> QED
      BY <3>1, <3>2 DEF Set, KeyInv, CallerPlaced
  <2>2. PICK id \in 0 .. MaxSeq : Delete(id)
    BY <2>1 DEF Next, CallerStep, AddVerifyKey, Lock, GetSequence, Next1,
       Next2, Release, ReleaseAndFail, ReleaseFails, Fail, SetMeta,
       DeleteMeta, Tick, Crash, db
  <2>3. k.id = id /\ id # 0 /\ keys' = {j \in keys : j.id # id}
    BY <2>2 DEF Delete
  <2> QED
    BY <2>3 DEF Ids
<1> QED
  BY <1>1, KeyStoreInvariance, PTL DEF Spec, KeysOnlyDeleted
===========================================================================
