----------------------------- MODULE KeyStore -----------------------------
(***************************************************************************)
(* authstore.KeyStore (src/pkg/authstore/keystore.go) behind the verify    *)
(* key calls of grpc.Server (src/grpc/server.go): the keys that peers      *)
(* sign their tokens with, kept in badger under one prefix.                *)
(*                                                                         *)
(* Under the prefix itself badger keeps the sequence that ids come from,   *)
(* under id 0 the store keeps its meta, under the other ids the keys.      *)
(* Each badger transaction is a step, may fail (the service that stops     *)
(* closes the database without taking Server.mu), and may be followed by a *)
(* crash; what is committed survives it.  Values, tags and signatures are  *)
(* left out: a public key is a model value.                                *)
(***************************************************************************)
EXTENDS Integers, FiniteSets, SequencesExt

CONSTANTS
  Callers,    \* concurrent calls of AddVerifyKey
  PublicKeys, \* AddVerifyKeyRequest.Key
  Lives,      \* AddVerifyKeyRequest.LifeSeconds
  MinLife, MaxLife, \* Config.MinVerifyKeyLife, MaxVerifyKeyLife
  DefaultMinLife,   \* DefaultMinVerifyKeyLife
  None,       \* no holder of the mutex, no sequence in the database
  MaxTime,    \* bound on the clock
  MaxSeq      \* bound on the sequence

(* NewServer refuses a maximum below the minimum.                          *)
ASSUME KeyStoreAssumption ==
  /\ None \notin Callers /\ None \notin Nat
  /\ Lives \subseteq Nat
  /\ MinLife \in Nat /\ MaxLife \in Nat /\ MinLife <= MaxLife
  /\ DefaultMinLife \in Nat
  /\ MaxTime \in Nat /\ MaxSeq \in Nat

VARIABLES
  now,    \* time.Now().Unix()
  stored, \* the sequence in the database, or None
  meta,   \* whether id 0 holds meta
  keys,   \* the AuthKey records in the database
  mu,     \* the caller that holds Server.mu, or None
  pc,     \* a caller's place in AddVerifyKey
  ak,     \* the AuthKey it saves
  seq,    \* its badger.Sequence
  saved   \* history: the ids under which a key was ever stored

db == <<stored, meta, keys, saved>>
vars == <<now, db, mu, pc, ak, seq>>

AuthKey ==
  [id : Nat, key : PublicKeys, createdAt : Nat, expiresAt : Nat]

NoSeq == [next |-> 0, leased |-> 0]

Ids == {k.id : k \in keys}

Init ==
  /\ now = 0
  /\ stored = None /\ meta = FALSE /\ keys = {} /\ saved = {}
  /\ mu = None
  /\ pc = [c \in Callers |-> "idle"]
  /\ ak \in [Callers -> {[id |-> 0, key |-> k, createdAt |-> 0,
                          expiresAt |-> 0] : k \in PublicKeys}]
  /\ seq = [c \in Callers |-> NoSeq]

---------------------------------------------------------------------------
(* badger.Sequence with a bandwidth of 1.                                  *)

Current == IF stored = None THEN 0 ELSE stored

(* updateLease reads the sequence and stores one more in a transaction.    *)
UpdateLease(c) ==
  /\ Current < MaxSeq
  /\ stored' = Current + 1
  /\ seq' = [seq EXCEPT ![c] = [next |-> Current, leased |-> Current + 1]]

(* A Release that gives back the id it has just handed out.                *)
SequenceRelease_GivesBack(c) == stored' = seq[c].next - 1

(* Release stores what the sequence object would hand out next.            *)
SequenceRelease(c) == stored' = seq[c].next

---------------------------------------------------------------------------
(* AddVerifyKey.                                                           *)

Clamp(life) ==
  LET capped == IF life > MaxLife THEN MaxLife ELSE life
  IN  IF capped < MinLife THEN MinLife ELSE capped

AddVerifyKey(c) ==
  /\ pc[c] = "idle"
  /\ \E k \in PublicKeys, life \in Lives :
       ak' = [ak EXCEPT ![c] = [id |-> 0, key |-> k, createdAt |-> now,
                                expiresAt |-> now + Clamp(life)]]
  /\ pc' = [pc EXCEPT ![c] = "lock"]
  /\ UNCHANGED <<now, db, mu, seq>>

(* AddVerifyKey without the mutex.                                         *)
Lock_Free(c) ==
  /\ pc[c] = "lock"
  /\ pc' = [pc EXCEPT ![c] = "sequence"]
  /\ UNCHANGED <<now, db, mu, ak, seq>>

Lock(c) ==
  /\ pc[c] = "lock" /\ mu = None
  /\ mu' = c
  /\ pc' = [pc EXCEPT ![c] = "sequence"]
  /\ UNCHANGED <<now, db, ak, seq>>

(* NextId: the Sequence leases its first id, which may be 0.               *)
GetSequence(c) ==
  /\ pc[c] = "sequence"
  /\ UpdateLease(c)
  /\ pc' = [pc EXCEPT ![c] = "next"]
  /\ UNCHANGED <<now, meta, keys, saved, mu, ak>>

(* seq.Next within the lease touches the Sequence only.                    *)
Next1(c) ==
  /\ pc[c] = "next"
  /\ ak' = [ak EXCEPT ![c].id = seq[c].next]
  /\ seq' = [seq EXCEPT ![c].next = @ + 1]
  /\ pc' = [pc EXCEPT ![c] = IF seq[c].next = 0 THEN "again" ELSE "release"]
  /\ UNCHANGED <<now, db, mu>>

(* The lease was for one id: the second Next leases anew.                  *)
Next2(c) ==
  /\ pc[c] = "again"
  /\ Current < MaxSeq
  /\ stored' = Current + 1
  /\ ak' = [ak EXCEPT ![c].id = Current]
  /\ seq' = [seq EXCEPT ![c] = [next |-> Current + 1, leased |-> Current + 1]]
  /\ pc' = [pc EXCEPT ![c] = "release"]
  /\ UNCHANGED <<now, meta, keys, saved, mu>>

(* The deferred Release, after which Save goes on.                         *)
Release(c) ==
  /\ pc[c] = "release"
  /\ SequenceRelease(c)
  /\ pc' = [pc EXCEPT ![c] = "set"]
  /\ UNCHANGED <<now, meta, keys, saved, mu, ak, seq>>

(* The deferred Release of a NextId that has failed.                       *)
ReleaseAndFail(c) ==
  /\ pc[c] = "again"
  /\ SequenceRelease(c)
  /\ pc' = [pc EXCEPT ![c] = "idle"]
  /\ mu' = None
  /\ UNCHANGED <<now, meta, keys, saved, ak, seq>>

(* Nobody looks at the error of Release.                                   *)
ReleaseFails(c) ==
  /\ pc[c] = "release"
  /\ pc' = [pc EXCEPT ![c] = "set"]
  /\ UNCHANGED <<now, db, mu, ak, seq>>

(* The transaction of Save, and the reply.                                 *)
Set(c) ==
  /\ pc[c] = "set"
  /\ keys' = {k \in keys : k.id # ak[c].id} \union {ak[c]}
  /\ saved' = saved \union {ak[c].id}
  /\ pc' = [pc EXCEPT ![c] = "idle"]
  /\ mu' = None
  /\ UNCHANGED <<now, stored, meta, ak, seq>>

(* A transaction has failed, or there is no service: AddVerifyKey returns  *)
(* an error.                                                               *)
Fail(c) ==
  /\ pc[c] \in {"sequence", "again", "set"}
  /\ pc' = [pc EXCEPT ![c] = "idle"]
  /\ mu' = None
  /\ UNCHANGED <<now, db, ak, seq>>

---------------------------------------------------------------------------
(* The other calls.                                                        *)

(* DeleteVerifyKey holds the mutex for its one transaction.                *)
Delete(id) ==
  /\ mu = None /\ id # 0
  /\ keys' = {k \in keys : k.id # id}
  /\ UNCHANGED <<now, stored, meta, saved, mu, pc, ak, seq>>

SetMeta ==
  /\ meta' = TRUE
  /\ UNCHANGED <<now, stored, keys, saved, mu, pc, ak, seq>>

DeleteMeta ==
  /\ meta' = FALSE
  /\ UNCHANGED <<now, stored, keys, saved, mu, pc, ak, seq>>

Tick ==
  /\ now < MaxTime
  /\ now' = now + 1
  /\ UNCHANGED <<db, mu, pc, ak, seq>>

(* The process ends at any point and starts again on the same database.    *)
Crash ==
  /\ mu' = None
  /\ pc' = [c \in Callers |-> "idle"]
  /\ UNCHANGED <<now, db, ak, seq>>

(* GetKey, which verifies a token without the mutex: does the key count?   *)
GetKey(id) ==
  \E k \in keys : k.id = id /\ id # 0 /\ ~(k.expiresAt > now)

(* Slice walks the prefix from start.  Backwards it passes the meta, which *)
(* it skips, and ends at the sequence, which it takes for a key and cannot *)
(* unmarshal.  There is a buffer for each of size items, and no test that  *)
(* they are enough.                                                        *)
Slice(start, size, reverse) ==
  LET first == IF start = 0 /\ ~reverse THEN 1 ELSE start
      met == {k \in keys : IF reverse THEN k.id <= first ELSE k.id >= first}
      order(a, b) == IF reverse THEN a.id > b.id ELSE a.id < b.id
      atSequence == reverse /\ stored # None
      items == Cardinality(met) + IF atSequence THEN 1 ELSE 0
  IN  [panic |-> items > size, err |-> atSequence,
       keys |-> SetToSortSeq(met, order)]

CallerStep(c) ==
  \/ AddVerifyKey(c) \/ Lock(c) \/ GetSequence(c) \/ Next1(c) \/ Next2(c)
  \/ Release(c) \/ ReleaseAndFail(c) \/ ReleaseFails(c) \/ Set(c) \/ Fail(c)

Next ==
  \/ \E c \in Callers : CallerStep(c)
  \/ \E id \in 0 .. MaxSeq : Delete(id)
  \/ SetMeta \/ DeleteMeta \/ Tick \/ Crash

Spec == Init /\ [][Next]_vars

---------------------------------------------------------------------------
(* Properties.                                                             *)

(* Every variable has its type.                                            *)
TypeOK ==
  /\ now \in Nat
  /\ stored \in Nat \union {None}
  /\ meta \in BOOLEAN
  /\ keys \subseteq AuthKey
  /\ saved \subseteq Nat
  /\ mu \in Callers \union {None}
  /\ pc \in [Callers -> {"idle", "lock", "sequence", "next", "again",
                         "release", "set"}]
  /\ ak \in [Callers -> AuthKey]
  /\ seq \in [Callers -> [next : Nat, leased : Nat]]

(* Save stores a new key under an id that no key ever had, deleted keys    *)
(* and keys stored before a crash included: a token that names a deleted   *)
(* key is never verified with a later one.  The sequence object lives for  *)
(* one NextId, and Release writes its position back.                       *)
IdsNeverReused == [][\A k \in keys' \ keys : k.id \notin saved]_vars

(* A stored key stays as it was stored until DeleteVerifyKey names its id: *)
(* no Save overwrites it, no failure or crash loses it.                    *)
KeysOnlyDeleted ==
  [][\A k \in keys \ keys' : k.id # 0 /\ Ids' = Ids \ {k.id}]_vars

(* "NextId starts from 1, 0 is for meta": no key is stored over the meta.  *)
ZeroIsForMeta == 0 \notin saved

(* The sequence in the database is beyond every id that was ever used, so  *)
(* that a process started after a crash at any point takes a new id.       *)
SequenceAhead == \A id \in saved : id < Current

(* ErrKeyExpired says "key expired": a key that has not expired is not     *)
(* refused.                                                                *)
UnexpiredKeysCount == \A k \in keys : k.expiresAt > now => GetKey(k.id)

(* hybrid.go and mobile.go set the limits to 0 with the comment "use       *)
(* default": a key then lives for the default minimum at least.            *)
DefaultLife ==
  \A k \in keys : k.expiresAt - k.createdAt >= DefaultMinLife

(* The request's key is commented "unique": no two stored keys are the     *)
(* same public key.                                                        *)
KeysUnique == \A j, k \in keys : j.key = k.key => j = k

(* A reverse Slice with room for every item reports no error: its loop     *)
(* means to skip what is not a key.                                        *)
ReverseSliceSucceeds ==
  \A start \in Ids : ~Slice(start, Cardinality(keys) + 1, TRUE).err
===========================================================================
