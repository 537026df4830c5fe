---------------------------- MODULE TunnelProofs ---------------------------
(***************************************************************************)
(* Proofs about Tunnel, for every set of requests and any number of pieces *)
(* that a client and a remote send.                                        *)
(***************************************************************************)
EXTENDS Tunnel, FiniteSetTheorems, SequenceTheorems, TLAPS

(* What there is at each place of the serving goroutine.                   *)
Places ==
  /\ main \in {"new", "dispatch"} =>
       /\ got = <<>> /\ up = <<>> /\ down = <<>> /\ said = 0
       /\ send = "none" /\ ours = "none" /\ remote = "none" /\ flush = "none"
  /\ main \in {"head", "roundtrip"} => got = <<>> /\ flush = "none"
  /\ flush \in {"run", "flushing"} => main \in {"copy", "stop"}
  /\ main = "returned" => ours # "open"
  /\ ours = "none" => send = "none"

(* What the goroutine that sends is sending.                               *)
Sending ==
  /\ send \in {"request", "body"} => kind.via # "transport"
  /\ send = "body" => HasBody

(* Before NewContext a client that waits has sent a body at most, and      *)
(* nothing that NewContext could lose.                                     *)
UpKept ==
  ~Eager =>
    /\ main = "new" => cmore = 0 /\ (kind.method # "POST" => cin = <<>>)
    /\ UpWhole

(* While the client is there no data is lost on its way to it.             *)
DownKept ==
  client # "gone" => Count(got, "data") + Count(down, "data") = said

IsData(s) == \A i \in 1 .. Len(s) : s[i] = "data"

(* Some answer, and data after it.                                         *)
IsAnswer(s) ==
  s # <<>> => s[1] # "data" /\ \A i \in 2 .. Len(s) : s[i] = "data"

(* What is still to be copied to a client that asked to connect: an answer *)
(* until it has got one, and then data.                                    *)
AnswerKept ==
  Connect =>
    /\ IsAnswer(got)
    /\ client # "gone" /\ main # "returned" =>
         /\ got = <<>> => IsAnswer(down)
         /\ got # <<>> => IsData(down)
         /\ kind.via = "direct" /\ main \notin {"new", "dispatch"} => got # <<>>

(* Nothing but the remote's close ends the copying, if the client stays,   *)
(* no write to the remote failed and no body closes the connection.        *)
Undisturbed ==
  client = "open" /\ ~upFailed /\ (kind.method = "POST" => kind.via = "transport")

RemoteEnded ==
  Undisturbed =>
    /\ main # "returned" => send # "close" /\ ours # "closed"
    /\ main = "stop" => down = <<>> /\ remote = "closed"
    /\ main = "returned" /\ ours = "closed" /\ "err" \notin Range(got) =>
         down = <<>> /\ remote = "closed"

IInv ==
  /\ TypeOK /\ Places /\ Sending /\ UpKept /\ DownKept /\ AnswerKept
  /\ RemoteEnded

---------------------------------------------------------------------------
(* How many pieces of a kind there are in a sequence.                      *)

(* Counting gives a number, whatever is counted.                           *)
LEMMA CountType ==
  ASSUME NEW S, NEW s \in Seq(S), NEW p
  PROVE  /\ Count(s, p) \in Nat
         /\ IsFiniteSet({i \in DOMAIN s : s[i] = p})
<1>1. DOMAIN s = 1 .. Len(s) /\ Len(s) \in Nat
  BY LenProperties
<1>2. IsFiniteSet(1 .. Len(s))
  BY <1>1, FS_Interval
<1>3. {i \in DOMAIN s : s[i] = p} \in SUBSET (1 .. Len(s))
  BY <1>1
<1>4. IsFiniteSet({i \in DOMAIN s : s[i] = p})
  BY <1>2, <1>3, FS_Subset
<1> QED BY <1>4, FS_CardinalityType DEF Count

(* Of two sequences after one another: the sum.                            *)
LEMMA CountConcat ==
  ASSUME NEW S, NEW s \in Seq(S), NEW t \in Seq(S), NEW p
  PROVE  Count(s \o t, p) = Count(s, p) + Count(t, p)
<1> DEFINE A == {i \in DOMAIN s : s[i] = p}
           B == {i \in DOMAIN t : t[i] = p}
           shift == [i \in B |-> Len(s) + i]
           C == {Len(s) + i : i \in B}
<1>1. /\ DOMAIN s = 1 .. Len(s) /\ Len(s) \in Nat
      /\ DOMAIN t = 1 .. Len(t) /\ Len(t) \in Nat
  BY LenProperties
<1>2. /\ DOMAIN (s \o t) = 1 .. Len(s) + Len(t)
      /\ \A i \in 1 .. Len(s) + Len(t) :
           (s \o t)[i] = IF i <= Len(s) THEN s[i] ELSE t[i - Len(s)]
  BY ConcatProperties, LenProperties
<1>3. IsFiniteSet(A) /\ IsFiniteSet(B)
  BY CountType, Zenon
<1>4. shift \in Bijection(B, C)
  <2>1. shift \in [B -> C]
    OBVIOUS
  <2>2. \A a, b \in B : shift[a] = shift[b] => a = b
    BY <1>1
  <2>3. \A c \in C : \E b \in B : shift[b] = c
    OBVIOUS
  <2> HIDE DEF B, C, shift
  <2> QED BY <2>1, <2>2, <2>3 DEF Bijection, Injection, Surjection, IsInjective
<1>5. IsFiniteSet(C) /\ Cardinality(C) = Cardinality(B)
  BY <1>3, <1>4, FS_Bijection DEF ExistsBijection
<1>6. {i \in DOMAIN (s \o t) : (s \o t)[i] = p} = A \cup C
  <2>1. ASSUME NEW i \in DOMAIN (s \o t), (s \o t)[i] = p PROVE i \in A \cup C
    <3>1. CASE i <= Len(s) BY <3>1, <2>1, <1>1, <1>2
    <3>2. CASE i > Len(s)
      <4>1. i - Len(s) \in B BY <3>2, <2>1, <1>1, <1>2
      <4>2. i = Len(s) + (i - Len(s)) BY <3>2, <1>1, <1>2
      <4> QED BY <4>1, <4>2
    <3> QED BY <3>1, <3>2, <1>1, <1>2
  <2>2. ASSUME NEW i \in A PROVE i \in DOMAIN (s \o t) /\ (s \o t)[i] = p
    BY <1>1, <1>2
  <2>3. ASSUME NEW i \in B
        PROVE  Len(s) + i \in DOMAIN (s \o t) /\ (s \o t)[Len(s) + i] = p
    BY <1>1, <1>2
  <2> QED BY <2>1, <2>2, <2>3
<1>7. A \cap C = {}
  BY <1>1
<1>8. Cardinality(A \cup C) = Cardinality(A) + Cardinality(C)
  <2>1. Cardinality(A \cup C) = Cardinality(A) + Cardinality(C) - Cardinality(A \cap C)
    BY <1>3, <1>5, FS_Union, Zenon
  <2>2. Cardinality(A) \in Nat /\ Cardinality(C) \in Nat
    BY <1>3, <1>5, FS_CardinalityType
  <2> HIDE DEF A, C
  <2>3. Cardinality(A \cap C) = 0
    BY <1>7, FS_EmptySet, Zenon
  <2> QED BY <2>1, <2>2, <2>3
<1> QED BY <1>5, <1>6, <1>8, Zenon DEF Count

(* Of no piece, and of one.                                                *)
LEMMA CountOne ==
  ASSUME NEW x, NEW p
  PROVE  /\ Count(<<>>, p) = 0
         /\ Count(<<x>>, p) = IF x = p THEN 1 ELSE 0
<1>1. {i \in DOMAIN <<>> : <<>>[i] = p} = {}
  OBVIOUS
<1>2. {i \in DOMAIN <<x>> : <<x>>[i] = p} = IF x = p THEN {1} ELSE {}
  OBVIOUS
<1> QED BY <1>1, <1>2, FS_EmptySet, FS_Singleton, Zenon DEF Count

(* A piece more.                                                           *)
LEMMA CountAppend ==
  ASSUME NEW S, NEW s \in Seq(S), NEW x \in S, NEW p
  PROVE  Count(Append(s, x), p) = Count(s, p) + Count(<<x>>, p)
<1>1. Append(s, x) = s \o <<x>> /\ <<x>> \in Seq(S)
  BY AppendIsConcat
<1>2. Count(s \o <<x>>, p) = Count(s, p) + Count(<<x>>, p)
  BY <1>1, CountConcat, Zenon
<1> QED BY <1>1, <1>2

(* The first n pieces and the others.                                      *)
LEMMA CountSplit ==
  ASSUME NEW S, NEW s \in Seq(S), NEW n \in 0 .. Len(s), NEW p
  PROVE  Count(s, p) = Count(SubSeq(s, 1, n), p) + Count(SubSeq(s, n + 1, Len(s)), p)
<1>1. Len(s) \in Nat
  BY LenProperties
<1>2. s = SubSeq(s, 1, n) \o SubSeq(s, n + 1, Len(s))
  <2>1. 1 \in 1 .. Len(s) + 1 /\ n \in 1 - 1 .. Len(s) /\ Len(s) \in n .. Len(s)
    BY <1>1
  <2>2. SubSeq(s, 1, n) \o SubSeq(s, n + 1, Len(s)) = SubSeq(s, 1, Len(s))
    BY <2>1, ConcatAdjacentSubSeq, Zenon
  <2>3. SubSeq(s, 1, Len(s)) = s
    BY SubSeqFull, Zenon
  <2> QED BY <2>2, <2>3, Zenon
<1>3. SubSeq(s, 1, n) \in Seq(S) /\ SubSeq(s, n + 1, Len(s)) \in Seq(S)
  BY <1>1, SubSeqProperties
<1>4. Count(SubSeq(s, 1, n) \o SubSeq(s, n + 1, Len(s)), p)
        = Count(SubSeq(s, 1, n), p) + Count(SubSeq(s, n + 1, Len(s)), p)
  BY <1>3, CountConcat, Zenon
<1> QED BY <1>2, <1>4, Zenon

(* The first piece and the others.                                         *)
LEMMA CountTail ==
  ASSUME NEW S, NEW s \in Seq(S), s # <<>>, NEW p
  PROVE  Count(s, p) = Count(<<Head(s)>>, p) + Count(Tail(s), p)
<1>1. Len(s) \in Nat /\ 1 \in 0 .. Len(s)
  BY EmptySeq
<1>2. SubSeq(s, 1, 1) = <<Head(s)>>
  <2>1. /\ SubSeq(s, 1, 1) \in Seq(S) /\ Len(SubSeq(s, 1, 1)) = 1
        /\ SubSeq(s, 1, 1)[1] = s[1]
    BY <1>1, SubSeqProperties
  <2>2. <<Head(s)>> \in Seq(S) /\ Len(<<Head(s)>>) = 1 /\ <<Head(s)>>[1] = s[1]
    BY <1>1
  <2>3. /\ Len(SubSeq(s, 1, 1)) = Len(<<Head(s)>>)
        /\ \A i \in 1 .. Len(SubSeq(s, 1, 1)) : SubSeq(s, 1, 1)[i] = <<Head(s)>>[i]
    BY <2>1, <2>2
  <2> QED BY <2>1, <2>2, <2>3, SeqEqual, Zenon
<1>3. SubSeq(s, 1 + 1, Len(s)) = Tail(s)
  BY TailIsSubSeq
<1>4. Count(s, p) = Count(SubSeq(s, 1, 1), p) + Count(SubSeq(s, 1 + 1, Len(s)), p)
  BY <1>1, CountSplit, Zenon
<1> QED BY <1>2, <1>3, <1>4, Zenon

---------------------------------------------------------------------------
(* The steps keep every conjunct of the invariant.                         *)

GotPieces == {"ok", "refused", "data", "err"}
DownPieces == {"ok", "refused", "data"}

(* Writing appends to what a client that is there has got.                 *)
LEMMA WriteTypes ==
  ASSUME got \in Seq(GotPieces), NEW s \in Seq(GotPieces), Write(s)
  PROVE  got' \in Seq(GotPieces)
<1>1. got \o s \in Seq(GotPieces)
  BY ConcatProperties, Zenon
<1> QED BY <1>1 DEF Write

(* So an error answered keeps the types.                                   *)
LEMMA ReturnErrTypes ==
  ASSUME TypeOK, ReturnErr
  PROVE  /\ got' \in Seq(GotPieces)
         /\ main' = "returned"
         /\ ours' \in {"none", "open", "closed"}
<1>1. got \in Seq(GotPieces)
  BY DEF TypeOK, GotPieces
<1>2. <<"err">> \in Seq(GotPieces)
  BY DEF GotPieces
<1>3. Write(<<"err">>)
  BY DEF ReturnErr
<1>4. got' \in Seq(GotPieces)
  BY <1>1, <1>2, <1>3, WriteTypes, Zenon
<1> QED BY <1>4 DEF ReturnErr, TypeOK

(* What is read from the remote is a part of what it sent.                 *)
LEMMA DownTypes ==
  ASSUME TypeOK
  PROVE  /\ got \in Seq(GotPieces)
         /\ down \in Seq(DownPieces) /\ Len(down) \in Nat
         /\ down # <<>> => /\ Tail(down) \in Seq(DownPieces)
                           /\ Head(down) \in DownPieces
                           /\ <<Head(down)>> \in Seq(GotPieces)
         /\ \A n \in 1 .. Len(down) :
              /\ SubSeq(down, 1, n) \in Seq(GotPieces)
              /\ SubSeq(down, n + 1, Len(down)) \in Seq(DownPieces)
<1>1. down \in Seq(DownPieces) /\ Len(down) \in Nat
  BY LenProperties DEF TypeOK, DownPieces
<1>2. down # <<>> => /\ Tail(down) \in Seq(DownPieces)
                     /\ Head(down) \in DownPieces
  BY <1>1, HeadTailProperties, Zenon
<1>3. ASSUME down # <<>> PROVE <<Head(down)>> \in Seq(GotPieces)
  BY <1>2, <1>3 DEF DownPieces, GotPieces
<1>4. ASSUME NEW n \in 1 .. Len(down)
      PROVE  /\ SubSeq(down, 1, n) \in Seq(GotPieces)
             /\ SubSeq(down, n + 1, Len(down)) \in Seq(DownPieces)
  <2>1. \A i \in 1 .. n : down[i] \in GotPieces
    BY <1>1 DEF DownPieces, GotPieces
  <2>2. \A i \in n + 1 .. Len(down) : down[i] \in DownPieces
    BY <1>1
  <2>3. 1 \in Int /\ n \in Int /\ n + 1 \in Int /\ Len(down) \in Int
    BY <1>1
  <2> QED BY <2>1, <2>2, <2>3, SubSeqProperties, Zenon
<1>5. got \in Seq(GotPieces)
  BY DEF TypeOK, GotPieces
<1> QED BY <1>1, <1>2, <1>3, <1>4, <1>5

(* What is read from the client is a part of what it sent.                 *)
LEMMA CinTypes ==
  ASSUME TypeOK
  PROVE  /\ cin \in Seq({"body", "more"}) /\ Len(cin) \in Nat
         /\ cin # <<>> => /\ Tail(cin) \in Seq({"body", "more"})
                          /\ Head(cin) \in {"body", "more"}
                          /\ Append(up, Head(cin)) \in Seq({"head", "body", "more"})
         /\ \A n \in 0 .. Len(cin) :
              SubSeq(cin, n + 1, Len(cin)) \in Seq({"body", "more"})
<1> DEFINE P == {"body", "more"}
<1>1. cin \in Seq(P) /\ Len(cin) \in Nat
  BY LenProperties DEF TypeOK
<1>2. cin # <<>> => Tail(cin) \in Seq(P) /\ Head(cin) \in P
  <2> HIDE DEF P
  <2> QED BY <1>1, HeadTailProperties, Zenon
<1>3. ASSUME cin # <<>> PROVE Append(up, Head(cin)) \in Seq({"head", "body", "more"})
  BY <1>2, <1>3 DEF TypeOK
<1>4. ASSUME NEW n \in 0 .. Len(cin)
      PROVE  SubSeq(cin, n + 1, Len(cin)) \in Seq(P)
  <2> HIDE DEF P
  <2>1. \A i \in n + 1 .. Len(cin) : cin[i] \in P
    BY <1>1
  <2>2. n + 1 \in Int /\ Len(cin) \in Int
    BY <1>1
  <2> QED BY <2>1, <2>2, SubSeqProperties, Zenon
<1> QED BY <1>1, <1>2, <1>3, <1>4

(* Every step keeps the types.                                             *)
LEMMA TypeStep == TypeOK /\ [Next]_vars => TypeOK'
<1> SUFFICES ASSUME TypeOK, [Next]_vars PROVE TypeOK'
  OBVIOUS
<1> USE DEF clientVars, remoteVars
<1>0. CASE UNCHANGED vars BY <1>0 DEF TypeOK, vars
<1>1. CASE NewContext
  <2>1. cin' \in Seq({"body", "more"}) BY <1>1, CinTypes DEF NewContext
  <2> QED BY <1>1, <2>1 DEF NewContext, TypeOK
<1>2. CASE ReverseToResponse BY <1>2 DEF ReverseToResponse, TypeOK
<1>3. CASE DialFails
  BY <1>3, ReturnErrTypes DEF DialFails, TypeOK, GotPieces
<1>4. CASE Direct
  <2>1. got' \in Seq(GotPieces)
    <3>1. got \in Seq(GotPieces) /\ <<"ok">> \in Seq(GotPieces)
      BY DEF TypeOK, GotPieces
    <3>2. Write(<<"ok">>) \/ got' = got
      BY <1>4 DEF Direct
    <3> QED BY <3>1, <3>2, WriteTypes, Zenon
  <2> QED BY <1>4, <2>1 DEF Direct, Dialled, StartCopy, TypeOK, GotPieces
<1>5. CASE ProxyUp BY <1>5 DEF ProxyUp, Dialled, StartCopy, TypeOK
<1>6. CASE PipeTransport
  <2>1. up' \in Seq({"head", "body", "more"}) BY <1>6 DEF PipeTransport
  <2> QED BY <1>6, <2>1 DEF PipeTransport, Dialled, TypeOK
<1>7. CASE ReadResponse
  <2>1. CASE ReturnErr /\ UNCHANGED <<flush, down>>
    BY <1>7, <2>1, ReturnErrTypes DEF ReadResponse, TypeOK, GotPieces
  <2>2. CASE /\ \E n \in 1 .. Len(down) :
                  /\ Write(SubSeq(down, 1, n))
                  /\ down' = SubSeq(down, n + 1, Len(down))
             /\ StartCopy /\ UNCHANGED ours
    <3>1. got' \in Seq(GotPieces) /\ down' \in Seq(DownPieces)
      BY <2>2, DownTypes, WriteTypes, Zenon
    <3> QED BY <1>7, <2>2, <3>1
         DEF ReadResponse, StartCopy, TypeOK, GotPieces, DownPieces
  <2> QED BY <1>7, <2>1, <2>2 DEF ReadResponse
<1>8. CASE RoundTrip
  <2>1. CASE ReturnErr /\ UNCHANGED <<flush, down>>
    BY <1>8, <2>1, ReturnErrTypes DEF RoundTrip, TypeOK, GotPieces
  <2>2. CASE /\ down # <<>>
             /\ IF Connect THEN Write(<<"ok">>) /\ down' = Tail(down)
                           ELSE UNCHANGED <<got, down>>
             /\ StartCopy /\ UNCHANGED ours
    <3>1. down' \in Seq(DownPieces)
      BY <2>2, DownTypes, Zenon
    <3>2. <<"ok">> \in Seq(GotPieces) /\ (Write(<<"ok">>) \/ got' = got)
      BY <2>2 DEF GotPieces
    <3>3. got' \in Seq(GotPieces)
      BY <3>2, DownTypes, WriteTypes, Zenon
    <3> QED BY <1>8, <2>2, <3>1, <3>3
         DEF RoundTrip, StartCopy, TypeOK, GotPieces, DownPieces
  <2> QED BY <1>8, <2>1, <2>2 DEF RoundTrip
<1>9. CASE CopyFromRemote
  <2>1. down # <<>> /\ down' = Tail(down) /\ Write(<<Head(down)>>)
    BY <1>9 DEF CopyFromRemote
  <2>2. got' \in Seq(GotPieces) /\ down' \in Seq(DownPieces)
    BY <2>1, DownTypes, WriteTypes, Zenon
  <2> QED BY <1>9, <2>2 DEF CopyFromRemote, TypeOK, GotPieces, DownPieces
<1>10. CASE CopyFromRemoteEnds BY <1>10 DEF CopyFromRemoteEnds, TypeOK
<1>11. CASE Return BY <1>11 DEF Return, TypeOK
<1>12. CASE FlushLoop BY <1>12 DEF FlushLoop, TypeOK
<1>13. CASE SendHead
  <2>1. up' \in Seq({"head", "body", "more"})
    <3>1. up' = Append(up, "head") \/ up' = up BY <1>13 DEF SendHead
    <3>2. up \in Seq({"head", "body", "more"}) BY DEF TypeOK
    <3> QED BY <3>1, <3>2
  <2>2. upFailed' \in BOOLEAN BY <1>13, Zenon DEF SendHead, TypeOK
  <2> QED BY <1>13, <2>1, <2>2 DEF SendHead, TypeOK
<1>14. CASE SendBody
  <2>1. up' \in Seq({"head", "body", "more"}) /\ cin' \in Seq({"body", "more"})
    BY <1>14, CinTypes, Zenon DEF SendBody, TypeOK
  <2>2. upFailed' \in BOOLEAN BY <1>14, Zenon DEF SendBody, TypeOK
  <2> QED BY <1>14, <2>1, <2>2 DEF SendBody, TypeOK
<1>15. CASE CopyToRemote
  <2>1. up' \in Seq({"head", "body", "more"}) /\ cin' \in Seq({"body", "more"})
    BY <1>15, CinTypes, Zenon DEF CopyToRemote, TypeOK
  <2>2. upFailed' \in BOOLEAN BY <1>15, Zenon DEF CopyToRemote, TypeOK
  <2> QED BY <1>15, <2>1, <2>2 DEF CopyToRemote, TypeOK
<1>16. CASE CloseRemote BY <1>16 DEF CloseRemote, TypeOK
<1>17. CASE TransportSends
  <2>1. up' \in Seq({"head", "body", "more"}) /\ cin' \in Seq({"body", "more"})
    BY <1>17, CinTypes, Zenon DEF TransportSends, TypeOK
  <2> QED BY <1>17, <2>1 DEF TransportSends, TypeOK
<1>18. CASE ClientSends
  <2>1. cin' \in Seq({"body", "more"})
    <3>1. cin' = Append(cin, "body") \/ cin' = Append(cin, "more")
      BY <1>18 DEF ClientSends
    <3>2. cin \in Seq({"body", "more"}) BY DEF TypeOK
    <3> QED BY <3>1, <3>2
  <2>2. cmore' \in 0 .. MaxMore
    BY <1>18, TunnelAssumption DEF ClientSends, TypeOK
  <2> QED BY <1>18, <2>1, <2>2 DEF ClientSends, TypeOK
<1>19. CASE ClientCloses BY <1>19 DEF ClientCloses, TypeOK
<1>20. CASE RemoteSends
  <2>1. down' \in Seq({"ok", "refused", "data"})
    BY <1>20 DEF RemoteSends, Answers, TypeOK
  <2>2. said' \in 0 .. MaxData
    BY <1>20, TunnelAssumption DEF RemoteSends, Answers, TypeOK
  <2> QED BY <1>20, <2>1, <2>2 DEF RemoteSends, TypeOK
<1>21. CASE RemoteCloses BY <1>21 DEF RemoteCloses, TypeOK
<1> QED
  BY <1>0, <1>1, <1>2, <1>3, <1>4, <1>5, <1>6, <1>7, <1>8, <1>9, <1>10, <1>11,
     <1>12, <1>13, <1>14, <1>15, <1>16, <1>17, <1>18, <1>19, <1>20, <1>21, Zenon
  DEF Next, MainStep, SendStep

(* Every step keeps what there is at each place of the serving goroutine:  *)
(* nothing is read, sent or flushed before it has dialled, and Return ends *)
(* the flushing and closes our end.                                        *)
LEMMA PlacesStep == TypeOK /\ Places /\ [Next]_vars => Places'
<1> SUFFICES ASSUME TypeOK, Places, [Next]_vars PROVE Places'
  OBVIOUS
<1> USE DEF clientVars, remoteVars
<1>0. CASE UNCHANGED vars BY <1>0 DEF Places, vars
<1>1. CASE NewContext BY <1>1 DEF NewContext, Places
<1>2. CASE ReverseToResponse BY <1>2 DEF ReverseToResponse, Places
<1>3. CASE DialFails BY <1>3 DEF DialFails, ReturnErr, Places
<1>4. CASE Direct BY <1>4 DEF Direct, Dialled, StartCopy, Places
<1>5. CASE ProxyUp BY <1>5 DEF ProxyUp, Dialled, StartCopy, Places
<1>6. CASE PipeTransport BY <1>6 DEF PipeTransport, Dialled, Places
<1>7. CASE ReadResponse
  BY <1>7 DEF ReadResponse, ReturnErr, StartCopy, Places, TypeOK
<1>8. CASE RoundTrip BY <1>8 DEF RoundTrip, ReturnErr, StartCopy, Places, TypeOK
<1>9. CASE CopyFromRemote BY <1>9 DEF CopyFromRemote, Places
<1>10. CASE CopyFromRemoteEnds BY <1>10 DEF CopyFromRemoteEnds, Places
<1>11. CASE Return BY <1>11 DEF Return, Places
<1>12. CASE FlushLoop BY <1>12 DEF FlushLoop, Places
<1>13. CASE SendHead BY <1>13 DEF SendHead, Places
<1>14. CASE SendBody BY <1>14 DEF SendBody, Places
<1>15. CASE CopyToRemote BY <1>15 DEF CopyToRemote, Places
<1>16. CASE CloseRemote BY <1>16 DEF CloseRemote, Places
<1>17. CASE TransportSends BY <1>17 DEF TransportSends, Places
<1>18. CASE ClientSends BY <1>18 DEF ClientSends, Places
<1>19. CASE ClientCloses BY <1>19 DEF ClientCloses, Places
<1>20. CASE RemoteSends BY <1>20 DEF RemoteSends, Places
<1>21. CASE RemoteCloses BY <1>21 DEF RemoteCloses, Places
<1> QED
  BY <1>0, <1>1, <1>2, <1>3, <1>4, <1>5, <1>6, <1>7, <1>8, <1>9, <1>10, <1>11,
     <1>12, <1>13, <1>14, <1>15, <1>16, <1>17, <1>18, <1>19, <1>20, <1>21, Zenon
  DEF Next, MainStep, SendStep

(* The request and its body are sent by SendRequest alone; every other     *)
(* step leaves the kind of the request and what is being sent alone.       *)
LEMMA SendingStep == Sending /\ [Next]_vars => Sending'
<1> SUFFICES ASSUME Sending, [Next]_vars PROVE Sending'
  OBVIOUS
<1>1. CASE UNCHANGED <<kind, send>> BY <1>1 DEF Sending, HasBody
<1>2. CASE Direct BY <1>2 DEF Direct, Dialled, Sending
<1>3. CASE ProxyUp BY <1>3 DEF ProxyUp, Dialled, Sending
<1>4. CASE PipeTransport BY <1>4 DEF PipeTransport, Sending
<1>5. CASE SendHead BY <1>5 DEF SendHead, Sending, HasBody
<1>6. CASE SendBody BY <1>6 DEF SendBody, Sending, HasBody
<1>7. CASE CopyToRemote BY <1>7 DEF CopyToRemote, Sending
<1>8. CASE CloseRemote BY <1>8 DEF CloseRemote, Sending
<1>9. CASE TransportSends BY <1>9 DEF TransportSends, Sending
<1>10. ASSUME [Next]_vars
       PROVE  \/ UNCHANGED <<kind, send>>
              \/ Direct \/ ProxyUp \/ PipeTransport \/ SendStep
  BY <1>10, Zenon DEF Next, MainStep, vars, NewContext, ReverseToResponse, DialFails,
     ReadResponse, RoundTrip, CopyFromRemote, CopyFromRemoteEnds, Return,
     FlushLoop, ClientSends, ClientCloses, RemoteSends, RemoteCloses
<1> QED
  BY <1>1, <1>2, <1>3, <1>4, <1>5, <1>6, <1>7, <1>8, <1>9, <1>10, Zenon
  DEF SendStep

UpPieces == {"head", "body", "more"}
CinPieces == {"body", "more"}

(* A piece passed on from the client to the remote is not counted twice    *)
(* nor lost.                                                               *)
LEMMA PassUp ==
  ASSUME TypeOK, cin # <<>>, up' = Append(up, Head(cin)), cin' = Tail(cin)
  PROVE  Count(up', "more") + Count(cin', "more") = Count(up, "more") + Count(cin, "more")
<1>1. cin \in Seq(CinPieces) /\ up \in Seq(UpPieces)
  BY DEF TypeOK, CinPieces, UpPieces
<1>2. Head(cin) \in UpPieces /\ Tail(cin) \in Seq(CinPieces)
  BY CinTypes DEF CinPieces, UpPieces
<1>3. Count(cin, "more") = Count(<<Head(cin)>>, "more") + Count(Tail(cin), "more")
  BY <1>1, CountTail, Zenon
<1>4. Count(Append(up, Head(cin)), "more") = Count(up, "more") + Count(<<Head(cin)>>, "more")
  BY <1>1, <1>2, CountAppend, Zenon
<1>5. Count(up, "more") \in Nat /\ Count(Tail(cin), "more") \in Nat
  BY <1>1, <1>2, CountType, Zenon
<1>6. Count(<<Head(cin)>>, "more") \in Nat
  BY CountOne
<1> QED BY <1>3, <1>4, <1>5, <1>6

(* Every step keeps count of what a client that waits for its answer has   *)
(* sent.                                                                   *)
LEMMA UpKeptStep == TypeOK /\ Places /\ UpKept /\ [Next]_vars => UpKept'
<1> SUFFICES ASSUME TypeOK, Places, UpKept, [Next]_vars, ~Eager
             PROVE  /\ main' = "new" => cmore' = 0 /\ (kind'.method # "POST" => cin' = <<>>)
                    /\ UpWhole'
  BY DEF UpKept
<1> USE DEF clientVars, remoteVars
<1> DEFINE more == Count(up, "more") + Count(cin, "more")
<1>a. main = "new" => cmore = 0 /\ (kind.method # "POST" => cin = <<>>)
  BY DEF UpKept
<1>b. ~upFailed => more = cmore
  BY DEF UpKept, UpWhole
<1>c. cin \in Seq(CinPieces) /\ up \in Seq(UpPieces) /\ cmore \in Nat
  BY TunnelAssumption DEF TypeOK, CinPieces, UpPieces
<1>d. Count(up, "more") \in Nat /\ Count(cin, "more") \in Nat
  BY <1>c, CountType, Zenon
<1>g. /\ Count(Append(up, "head"), "more") = Count(up, "more")
      /\ Count(Append(cin, "body"), "more") = Count(cin, "more")
      /\ Count(Append(cin, "more"), "more") = Count(cin, "more") + 1
  <2>1. ASSUME NEW x \in UpPieces
        PROVE  Count(Append(up, x), "more") = Count(up, "more") + Count(<<x>>, "more")
    BY <1>c, CountAppend, Zenon
  <2>2. ASSUME NEW x \in CinPieces
        PROVE  Count(Append(cin, x), "more") = Count(cin, "more") + Count(<<x>>, "more")
    BY <1>c, CountAppend, Zenon
  <2>3. /\ Count(<<"head">>, "more") = 0 /\ Count(<<"body">>, "more") = 0
        /\ Count(<<"more">>, "more") = 1
    BY CountOne
  <2> QED BY <2>1, <2>2, <2>3, <1>d DEF UpPieces, CinPieces
<1>e. more' = Count(up', "more") + Count(cin', "more")
  BY DEF Count
<1>f. UpWhole' <=> (~upFailed' => more' = cmore')
  BY DEF UpWhole, Count
<1> HIDE DEF more
<1>1. CASE UNCHANGED <<kind, up, cin, cmore, upFailed>> /\ (main' = "new" => main = "new")
  <2>1. more' = more BY <1>1, <1>e DEF more
  <2> QED BY <1>1, <2>1, <1>a, <1>b, <1>f
<1>2. CASE NewContext
  <2>1. PICK n \in 0 .. Len(cin) : /\ n > 0 => kind.method # "POST"
                                   /\ cin' = SubSeq(cin, n + 1, Len(cin))
    BY <1>2 DEF NewContext
  <2>2. n = 0
    BY <2>1, <1>2, <1>a DEF NewContext
  <2>3. cin' = cin
    <3>1. cin' = SubSeq(cin, 1, Len(cin)) BY <2>1, <2>2
    <3> QED BY <3>1, <1>c, SubSeqFull, Zenon
  <2>4. more' = more BY <1>2, <2>3, <1>e, Zenon DEF more, NewContext
  <2> QED BY <1>2, <2>4, <1>b, <1>f DEF NewContext
<1>3. CASE PipeTransport
  <2>1. up = <<>> /\ up' = Append(up, "head") /\ cin' = cin /\ main' # "new"
    BY <1>3 DEF PipeTransport, Dialled, Places
  <2>2. more' = more BY <2>1, <1>e, <1>g DEF more
  <2> QED BY <1>3, <2>1, <2>2, <1>b, <1>f DEF PipeTransport, Dialled
<1>4. CASE SendHead
  <2>1. main' # "new" /\ UNCHANGED <<cin, cmore>>
    BY <1>4 DEF SendHead, Places
  <2>2. CASE up' = Append(up, "head") /\ UNCHANGED upFailed
    <3>1. more' = more BY <2>1, <2>2, <1>e, <1>g DEF more
    <3> QED BY <2>1, <2>2, <3>1, <1>b, <1>f
  <2>3. CASE upFailed' = TRUE BY <2>1, <2>3, <1>f
  <2> QED BY <1>4, <2>2, <2>3, Zenon DEF SendHead
<1>5. CASE SendBody
  <2>1. main' # "new" /\ UNCHANGED cmore
    BY <1>5 DEF SendBody, Places
  <2>2. CASE /\ cin # <<>> /\ up' = Append(up, Head(cin)) /\ cin' = Tail(cin)
             /\ UNCHANGED upFailed
    BY <2>1, <2>2, <1>b, <1>e, <1>f, PassUp DEF more
  <2>3. CASE upFailed' = TRUE BY <2>1, <2>3, <1>f
  <2>4. CASE UNCHANGED <<up, cin, upFailed>>
    BY <2>1, <2>4, <1>b, <1>e, <1>f DEF more
  <2> QED BY <1>5, <2>2, <2>3, <2>4, Zenon DEF SendBody
<1>6. CASE CopyToRemote
  <2>1. main' # "new" /\ UNCHANGED cmore
    BY <1>6 DEF CopyToRemote, Places
  <2>2. CASE /\ cin # <<>> /\ up' = Append(up, Head(cin)) /\ cin' = Tail(cin)
             /\ UNCHANGED upFailed
    BY <2>1, <2>2, <1>b, <1>e, <1>f, PassUp DEF more
  <2>3. CASE upFailed' = TRUE BY <2>1, <2>3, <1>f
  <2>4. CASE UNCHANGED <<up, cin, upFailed>>
    BY <2>1, <2>4, <1>b, <1>e, <1>f DEF more
  <2> QED BY <1>6, <2>2, <2>3, <2>4, Zenon DEF CopyToRemote
<1>7. CASE TransportSends
  <2>1. main' # "new" /\ UNCHANGED <<cmore, upFailed>>
    BY <1>7 DEF TransportSends, Places
  <2>2. CASE cin # <<>> /\ up' = Append(up, Head(cin)) /\ cin' = Tail(cin)
    BY <2>1, <2>2, <1>b, <1>e, <1>f, PassUp DEF more
  <2>3. CASE UNCHANGED <<up, cin>>
    BY <2>1, <2>3, <1>b, <1>e, <1>f DEF more
  <2> QED BY <1>7, <2>2, <2>3 DEF TransportSends
<1>8. CASE ClientSends
  <2>1. CASE /\ kind.method = "POST" /\ cin' = Append(cin, "body") /\ UNCHANGED cmore
    <3>1. more' = more BY <1>8, <2>1, <1>e, <1>g DEF more, ClientSends
    <3> QED BY <1>8, <2>1, <3>1, <1>a, <1>b, <1>f DEF ClientSends
  <2>2. CASE /\ Eager \/ got # <<>>
             /\ cin' = Append(cin, "more") /\ cmore' = cmore + 1
    <3>1. main # "new" BY <2>2 DEF Places
    <3>2. more' = more + 1 BY <1>8, <2>2, <1>e, <1>g, <1>d DEF more, ClientSends
    <3> QED BY <1>8, <2>2, <3>1, <3>2, <1>b, <1>c, <1>f DEF ClientSends
  <2> QED BY <1>8, <2>1, <2>2 DEF ClientSends
<1>9. ASSUME [Next]_vars
      PROVE  \/ UNCHANGED <<kind, up, cin, cmore, upFailed>> /\ (main' = "new" => main = "new")
             \/ NewContext \/ PipeTransport \/ ClientSends \/ SendStep
  BY <1>9, Zenon DEF Next, MainStep, vars, ReverseToResponse, DialFails, ReturnErr,
     Direct, ProxyUp, Dialled, StartCopy, ReadResponse, RoundTrip,
     CopyFromRemote, CopyFromRemoteEnds, Return, FlushLoop, ClientCloses,
     RemoteSends, RemoteCloses
<1>10. CASE CloseRemote BY <1>10, <1>1 DEF CloseRemote
<1> QED
  BY <1>1, <1>2, <1>3, <1>4, <1>5, <1>6, <1>7, <1>8, <1>9, <1>10, Zenon
  DEF SendStep

(* Data counted in what a client has got and in an answer written to it.   *)
LEMMA CountWrite ==
  ASSUME TypeOK, NEW s \in Seq(GotPieces), client # "gone", Write(s)
  PROVE  /\ got' = got \o s
         /\ Count(got', "data") = Count(got, "data") + Count(s, "data")
<1>1. got' = got \o s
  BY DEF Write
<1>2. got \in Seq(GotPieces)
  BY DownTypes
<1>3. Count(got \o s, "data") = Count(got, "data") + Count(s, "data")
  BY <1>2, CountConcat, Zenon
<1> QED BY <1>1, <1>3

(* Every step keeps count of what the remote said while the client is      *)
(* there; the answer that RoundTrip replaces is no data.                   *)
LEMMA DownKeptStep ==
  TypeOK /\ Places /\ DownKept /\ AnswerKept /\ [Next]_vars => DownKept'
<1> SUFFICES ASSUME TypeOK, Places, DownKept, AnswerKept, [Next]_vars, client' # "gone"
             PROVE  Count(got', "data") + Count(down', "data") = said'
  BY DEF DownKept, Count
<1> USE DEF clientVars, remoteVars
<1>a. client # "gone"
  <2>1. client' = client \/ ClientCloses
    BY Zenon DEF Next, MainStep, SendStep, vars, NewContext, ReverseToResponse,
       DialFails, Direct, ProxyUp, PipeTransport, Dialled, ReadResponse,
       RoundTrip, CopyFromRemote, CopyFromRemoteEnds, Return, FlushLoop,
       SendHead, SendBody, CopyToRemote, CloseRemote, TransportSends,
       ClientSends, RemoteSends, RemoteCloses
  <2> QED BY <2>1 DEF ClientCloses
<1>b. Count(got, "data") + Count(down, "data") = said
  BY <1>a DEF DownKept
<1>c. got \in Seq(GotPieces) /\ down \in Seq(DownPieces) /\ said \in Nat
  BY DownTypes, TunnelAssumption DEF TypeOK
<1>d. Count(got, "data") \in Nat /\ Count(down, "data") \in Nat
  BY <1>c, CountType, Zenon
<1>e. /\ <<"ok">> \in Seq(GotPieces) /\ Count(<<"ok">>, "data") = 0
      /\ <<"err">> \in Seq(GotPieces) /\ Count(<<"err">>, "data") = 0
  BY CountOne DEF GotPieces
<1>f. /\ Write(<<"ok">>) => Count(got', "data") = Count(got, "data")
      /\ Write(<<"err">>) => Count(got', "data") = Count(got, "data")
  <2>1. ASSUME Write(<<"ok">>) PROVE Count(got', "data") = Count(got, "data")
    <3>1. Count(got', "data") = Count(got, "data") + Count(<<"ok">>, "data")
      BY <2>1, <1>a, <1>e, CountWrite, Zenon
    <3> QED BY <3>1, <1>e, <1>d
  <2>2. ASSUME Write(<<"err">>) PROVE Count(got', "data") = Count(got, "data")
    <3>1. Count(got', "data") = Count(got, "data") + Count(<<"err">>, "data")
      BY <2>2, <1>a, <1>e, CountWrite, Zenon
    <3> QED BY <3>1, <1>e, <1>d
  <2> QED BY <2>1, <2>2
<1>1. CASE UNCHANGED <<got, down, said>>
  BY <1>1, <1>b
<1>2. CASE Write(<<"err">>) /\ UNCHANGED <<down, said>>
  BY <1>2, <1>b, <1>f
<1>3. CASE Direct
  BY <1>3, <1>1, <1>b, <1>f DEF Direct, Dialled
<1>4. CASE ReadResponse
  <2>1. CASE \E n \in 1 .. Len(down) :
               /\ Write(SubSeq(down, 1, n))
               /\ down' = SubSeq(down, n + 1, Len(down))
    <3>1. PICK n \in 1 .. Len(down) :
               /\ Write(SubSeq(down, 1, n))
               /\ down' = SubSeq(down, n + 1, Len(down))
      BY <2>1
    <3>2. /\ SubSeq(down, 1, n) \in Seq(GotPieces)
          /\ SubSeq(down, n + 1, Len(down)) \in Seq(DownPieces)
          /\ n \in 0 .. Len(down)
      BY DownTypes
    <3>3. Count(got', "data") = Count(got, "data") + Count(SubSeq(down, 1, n), "data")
      BY <3>1, <3>2, <1>a, CountWrite, Zenon
    <3>4. Count(down, "data")
            = Count(SubSeq(down, 1, n), "data") + Count(SubSeq(down, n + 1, Len(down)), "data")
      BY <3>2, <1>c, CountSplit, Zenon
    <3>5. Count(SubSeq(down, 1, n), "data") \in Nat /\ Count(SubSeq(down, n + 1, Len(down)), "data") \in Nat
      BY <3>2, CountType, Zenon
    <3>6. said' = said BY <1>4 DEF ReadResponse
    <3> QED BY <3>1, <3>3, <3>4, <3>5, <3>6, <1>b, <1>d
  <2> QED BY <1>4, <2>1, <1>2 DEF ReadResponse, ReturnErr
<1>5. CASE RoundTrip
  <2>1. CASE Connect /\ down # <<>> /\ Write(<<"ok">>) /\ down' = Tail(down)
    <3>1. Head(down) # "data"
      BY <1>5, <2>1, <1>a, <1>c DEF AnswerKept, IsAnswer, Places, RoundTrip
    <3>2. Count(down, "data") = Count(<<Head(down)>>, "data") + Count(Tail(down), "data")
      BY <2>1, <1>c, CountTail, Zenon
    <3>3. Tail(down) \in Seq(DownPieces)
      BY <2>1, DownTypes
    <3>4. Count(Tail(down), "data") \in Nat
      BY <3>3, CountType, Zenon
    <3>5. said' = said BY <1>5 DEF RoundTrip
    <3>6. Count(<<Head(down)>>, "data") = 0 BY <3>1, CountOne
    <3> QED BY <2>1, <3>2, <3>4, <3>5, <3>6, <1>b, <1>f
  <2> QED BY <1>5, <2>1, <1>1, <1>2 DEF RoundTrip, ReturnErr
<1>6. CASE CopyFromRemote
  <2>1. down # <<>> /\ down' = Tail(down) /\ Write(<<Head(down)>>) /\ said' = said
    BY <1>6 DEF CopyFromRemote
  <2>2. <<Head(down)>> \in Seq(GotPieces) /\ Tail(down) \in Seq(DownPieces)
    BY <2>1, DownTypes
  <2>3. Count(got', "data") = Count(got, "data") + Count(<<Head(down)>>, "data")
    BY <2>1, <2>2, <1>a, CountWrite, Zenon
  <2>4. Count(down, "data") = Count(<<Head(down)>>, "data") + Count(Tail(down), "data")
    BY <2>1, <1>c, CountTail, Zenon
  <2>5. Count(<<Head(down)>>, "data") \in Nat
    BY CountOne
  <2>6. Count(Tail(down), "data") \in Nat
    BY <2>2, CountType, Zenon
  <2> QED BY <2>1, <2>3, <2>4, <2>5, <2>6, <1>b, <1>d
<1>7. CASE RemoteSends
  <2>1. PICK a \in Answers :
          /\ said' = IF a = "data" THEN said + 1 ELSE said
          /\ down' = Append(down, a)
    BY <1>7 DEF RemoteSends
  <2>2. a \in DownPieces
    BY DEF Answers, DownPieces
  <2>3. Count(Append(down, a), "data") = Count(down, "data") + Count(<<a>>, "data")
    BY <2>2, <1>c, CountAppend, Zenon
  <2>4. got' = got BY <1>7 DEF RemoteSends
  <2>5. Count(<<a>>, "data") = IF a = "data" THEN 1 ELSE 0
    BY CountOne, Zenon
  <2> QED BY <2>1, <2>3, <2>4, <2>5, <1>b, <1>c, <1>d
<1>8. \/ UNCHANGED <<got, down, said>>
      \/ Write(<<"err">>) /\ UNCHANGED <<down, said>>
      \/ Direct \/ ReadResponse \/ RoundTrip \/ CopyFromRemote \/ RemoteSends
  BY Zenon DEF Next, MainStep, SendStep, vars, NewContext, ReverseToResponse,
     DialFails, ReturnErr, ProxyUp, PipeTransport, Dialled,
     CopyFromRemoteEnds, Return, FlushLoop, SendHead, SendBody,
     CopyToRemote, CloseRemote, TransportSends, ClientSends, ClientCloses,
     RemoteCloses
<1> QED BY <1>1, <1>2, <1>3, <1>4, <1>5, <1>6, <1>7, <1>8

(* An answer with data after it, and data as it is sent and read.          *)
LEMMA AnswerAppend ==
  ASSUME NEW S, NEW s \in Seq(S), NEW x \in S
  PROVE  /\ x # "data" => IsAnswer(<<x>>)
         /\ IsData(s) /\ x = "data" => IsData(Append(s, x))
         /\ IsAnswer(s) /\ s # <<>> /\ x = "data" => IsAnswer(Append(s, x))
<1>1. /\ Len(Append(s, x)) = Len(s) + 1
      /\ \A i \in 1 .. Len(s) : Append(s, x)[i] = s[i]
      /\ Append(s, x)[Len(s) + 1] = x
      /\ Len(s) \in Nat
  BY AppendProperties, LenProperties
<1>2. s # <<>> => Len(s) > 0
  BY <1>1, EmptySeq
<1> QED BY <1>1, <1>2 DEF IsAnswer, IsData

(* What is left of an answer when pieces are taken from its front is data. *)
LEMMA AnswerSplit ==
  ASSUME NEW S, NEW s \in Seq(S), s # <<>>
  PROVE  /\ IsData(s) => Head(s) = "data" /\ IsData(Tail(s))
         /\ IsAnswer(s) =>
              /\ Head(s) # "data" /\ IsData(Tail(s))
              /\ \A n \in 1 .. Len(s) :
                   /\ SubSeq(s, 1, n) # <<>> /\ IsAnswer(SubSeq(s, 1, n))
                   /\ IsData(SubSeq(s, n + 1, Len(s)))
<1>1. Len(s) \in Nat /\ Len(s) > 0 /\ Head(s) = s[1]
  BY EmptySeq
<1>2. /\ Len(Tail(s)) = Len(s) - 1
      /\ \A i \in 1 .. Len(Tail(s)) : Tail(s)[i] = s[i + 1]
  BY HeadTailProperties, Zenon
<1>3. ASSUME IsAnswer(s), NEW n \in 1 .. Len(s)
      PROVE  /\ SubSeq(s, 1, n) # <<>> /\ IsAnswer(SubSeq(s, 1, n))
             /\ IsData(SubSeq(s, n + 1, Len(s)))
  <2>1. /\ \A i \in 1 .. n : s[i] \in S
        /\ \A i \in n + 1 .. Len(s) : s[i] \in S
        /\ 1 \in Int /\ n \in Int /\ n + 1 \in Int /\ Len(s) \in Int
    BY <1>1
  <2>2. /\ Len(SubSeq(s, 1, n)) = n
        /\ \A i \in 1 .. n : SubSeq(s, 1, n)[i] = s[i]
    BY <2>1, <1>1, SubSeqProperties
  <2>6. /\ Len(SubSeq(s, n + 1, Len(s))) = Len(s) - n
        /\ \A i \in 1 .. Len(s) - n : SubSeq(s, n + 1, Len(s))[i] = s[n + i]
    BY <2>1, <1>1, SubSeqProperties
  <2>3. SubSeq(s, 1, n) # <<>>
    BY <2>2, <1>1
  <2>4. IsAnswer(SubSeq(s, 1, n))
    BY <2>2, <1>1, <1>3 DEF IsAnswer
  <2>5. IsData(SubSeq(s, n + 1, Len(s)))
    BY <2>6, <1>1, <1>3 DEF IsAnswer, IsData
  <2> QED BY <2>3, <2>4, <2>5
<1>4. IsData(s) => Head(s) = "data" /\ IsData(Tail(s))
  BY <1>1, <1>2 DEF IsData
<1>5. IsAnswer(s) => Head(s) # "data" /\ IsData(Tail(s))
  BY <1>1, <1>2 DEF IsData, IsAnswer
<1> QED BY <1>3, <1>4, <1>5

(* Every step keeps the answer before the data: an error is answered only  *)
(* while the client has got nothing.                                       *)
LEMMA AnswerKeptStep ==
  TypeOK /\ Places /\ DownKept /\ AnswerKept /\ [Next]_vars => AnswerKept'
<1> SUFFICES ASSUME TypeOK, Places, DownKept, AnswerKept, [Next]_vars, Connect'
             PROVE  /\ IsAnswer(got')
                    /\ client' # "gone" /\ main' # "returned" =>
                         /\ got' = <<>> => IsAnswer(down')
                         /\ got' # <<>> => IsData(down')
                         /\ kind'.via = "direct" /\ main' \notin {"new", "dispatch"} => got' # <<>>
  BY DEF AnswerKept, IsAnswer, IsData
<1> USE DEF clientVars, remoteVars
<1>a. kind' = kind /\ Connect /\ (client' = client \/ ClientCloses)
  <2>1. kind' = kind /\ (client' = client \/ ClientCloses)
    BY Zenon DEF Next, MainStep, SendStep, vars, NewContext, ReverseToResponse,
       DialFails, Direct, ProxyUp, PipeTransport, Dialled, ReadResponse,
       RoundTrip, CopyFromRemote, CopyFromRemoteEnds, Return, FlushLoop,
       SendHead, SendBody, CopyToRemote, CloseRemote, TransportSends,
       ClientSends, ClientCloses, RemoteSends, RemoteCloses
  <2> QED BY <2>1 DEF Connect
<1>b. client' # "gone" => client # "gone"
  BY <1>a DEF ClientCloses
<1>c. got \in Seq(GotPieces) /\ down \in Seq(DownPieces)
  BY DownTypes
<1>d. IsAnswer(got)
  BY <1>a DEF AnswerKept
<1>e. ASSUME client # "gone", main # "returned"
      PROVE  /\ got = <<>> => IsAnswer(down)
             /\ got # <<>> => IsData(down)
             /\ kind.via = "direct" /\ main \notin {"new", "dispatch"} => got # <<>>
  BY <1>a, <1>e DEF AnswerKept
<1>f. \A s : got = <<>> /\ s \in Seq(GotPieces) => got \o s = s
  BY ConcatEmptySeq, Zenon
<1>g. ASSUME Write(<<"err">>), got = <<>> PROVE IsAnswer(got')
  <2>1. got' = got \/ got' = got \o <<"err">> BY <1>g DEF Write
  <2>2. <<"err">> \in Seq(GotPieces) /\ IsAnswer(<<"err">>)
    BY DEF GotPieces, IsAnswer
  <2> QED BY <2>1, <2>2, <1>d, <1>f, <1>g
<1>h. ASSUME Write(<<"ok">>), got = <<>>
      PROVE  IsAnswer(got') /\ (client # "gone" => got' # <<>>)
  <2>1. got' = IF client = "gone" THEN got ELSE got \o <<"ok">> BY <1>h DEF Write
  <2>2. <<"ok">> \in Seq(GotPieces) /\ IsAnswer(<<"ok">>) /\ <<"ok">> # <<>>
    BY DEF GotPieces, IsAnswer
  <2> QED BY <2>1, <2>2, <1>d, <1>f, <1>h
<1> HIDE DEF Write, IsAnswer, IsData, Connect
<1> DEFINE Untouched ==
             /\ UNCHANGED <<got, down>>
             /\ \/ main' \in {"returned", "dispatch", main}
                \/ main \notin {"new", "dispatch", "returned"}
                \/ main = "dispatch" /\ kind.via # "direct"
             /\ main = "returned" => main' = "returned"
<1>1. CASE Untouched
  BY <1>1, <1>a, <1>b, <1>d, <1>e
<1>2. CASE ReturnErr /\ got = <<>>
  BY <1>2, <1>g DEF ReturnErr
<1>3. CASE Direct
  <2>1. got = <<>> /\ down = <<>> /\ down' = down /\ Write(<<"ok">>)
    BY <1>3, <1>a DEF Direct, Dialled, Places
  <2>2. IsData(down')
    BY <2>1 DEF IsData
  <2> QED BY <2>1, <2>2, <1>b, <1>h
<1>4. CASE ReadResponse
  <2> SUFFICES ASSUME ~ReturnErr
               PROVE  /\ IsAnswer(got')
                      /\ client' # "gone" => got' # <<>> /\ IsData(down')
    BY <1>4, <1>2 DEF ReadResponse, Places
  <2>1. got = <<>> /\ down # <<>> /\ main = "head" /\ main' = "copy"
    BY <1>4 DEF ReadResponse, StartCopy, Places
  <2>2. PICK n \in 1 .. Len(down) :
               /\ Write(SubSeq(down, 1, n))
               /\ down' = SubSeq(down, n + 1, Len(down))
    BY <1>4 DEF ReadResponse
  <2>3. CASE client = "gone"
    BY <2>2, <2>3, <1>b, <1>d DEF Write
  <2>4. CASE client # "gone"
    <3>1. IsAnswer(down) BY <2>1, <2>4, <1>e
    <3>2. /\ SubSeq(down, 1, n) # <<>> /\ IsAnswer(SubSeq(down, 1, n))
          /\ IsData(SubSeq(down, n + 1, Len(down)))
      BY <2>1, <3>1, <1>c, AnswerSplit, Zenon
    <3>3. SubSeq(down, 1, n) \in Seq(GotPieces)
      BY DownTypes
    <3>4. got' = SubSeq(down, 1, n)
      BY <2>1, <2>2, <2>4, <3>3, <1>f DEF Write
    <3> QED BY <2>2, <3>2, <3>4
  <2> QED BY <2>3, <2>4
<1>5. CASE RoundTrip
  <2> SUFFICES ASSUME ~ReturnErr
               PROVE  /\ IsAnswer(got')
                      /\ client' # "gone" => got' # <<>> /\ IsData(down')
    BY <1>5, <1>2 DEF RoundTrip, Places
  <2>1. /\ got = <<>> /\ down # <<>> /\ main = "roundtrip" /\ main' = "copy"
        /\ Write(<<"ok">>) /\ down' = Tail(down)
    BY <1>5, <1>a DEF RoundTrip, StartCopy, Places
  <2>2. ASSUME client # "gone" PROVE IsData(down')
    <3>1. IsAnswer(down) BY <2>1, <2>2, <1>e
    <3>2. IsData(Tail(down)) BY <2>1, <3>1, <1>c, AnswerSplit, Zenon
    <3> QED BY <2>1, <3>2
  <2> QED BY <2>1, <2>2, <1>b, <1>h
<1>6. CASE CopyFromRemote
  <2>1. /\ down # <<>> /\ main = "copy" /\ Write(<<Head(down)>>)
        /\ down' = Tail(down)
    BY <1>6 DEF CopyFromRemote
  <2>2. CASE client = "gone"
    BY <2>1, <2>2, <1>b, <1>d DEF Write
  <2>3. CASE client # "gone"
    <3>1. <<Head(down)>> \in Seq(GotPieces) /\ Head(down) \in GotPieces
      BY <2>1, DownTypes DEF DownPieces, GotPieces
    <3>2. got' = got \o <<Head(down)>> BY <2>1, <2>3 DEF Write
    <3>3. got' = Append(got, Head(down))
      BY <3>1, <3>2, <1>c, AppendIsConcat, Zenon
    <3>4. got' # <<>>
      BY <3>1, <3>3, <1>c, AppendProperties, Zenon
    <3>5. CASE got = <<>>
      <4>1. IsAnswer(down) BY <2>1, <2>3, <3>5, <1>e
      <4>2. Head(down) # "data" /\ IsData(Tail(down))
        BY <2>1, <4>1, <1>c, AnswerSplit, Zenon
      <4>3. IsAnswer(<<Head(down)>>)
        BY <4>2, <3>1, <1>c, AnswerAppend, Zenon
      <4>4. got' = <<Head(down)>>
        BY <3>1, <3>2, <3>5, <1>f
      <4> QED BY <2>1, <3>4, <4>2, <4>3, <4>4
    <3>6. CASE got # <<>>
      <4>1. IsData(down) BY <2>1, <2>3, <3>6, <1>e
      <4>2. Head(down) = "data" /\ IsData(Tail(down))
        BY <2>1, <4>1, <1>c, AnswerSplit, Zenon
      <4>3. IsAnswer(Append(got, Head(down)))
        BY <4>2, <3>1, <3>6, <1>c, <1>d, AnswerAppend, Zenon
      <4> QED BY <2>1, <3>3, <3>4, <4>2, <4>3
    <3> QED BY <3>5, <3>6
  <2> QED BY <2>2, <2>3
<1>7. CASE RemoteSends
  <2>1. PICK a \in Answers : down' = Append(down, a)
    BY <1>7 DEF RemoteSends
  <2>2. a \in DownPieces
    BY DEF Answers, DownPieces
  <2>3. got' = got /\ main' = main /\ client' = client /\ ours = "open"
    BY <1>7 DEF RemoteSends
  <2> SUFFICES ASSUME client # "gone", main # "returned"
               PROVE  /\ got = <<>> => IsAnswer(Append(down, a))
                      /\ got # <<>> => IsData(Append(down, a))
    BY <2>1, <2>3, <1>a, <1>d, <1>e
  <2>4. main \notin {"new", "dispatch"}
    BY <2>3 DEF Places
  <2>5. ASSUME got # <<>> PROVE IsData(Append(down, a))
    <3>1. IsData(down) /\ a = "data" BY <2>5, <1>e DEF Answers
    <3> QED BY <3>1, <2>2, <1>c, AnswerAppend, Zenon
  <2>6. ASSUME got = <<>> PROVE IsAnswer(Append(down, a))
    <3>1. IsAnswer(down) /\ kind.via # "direct" BY <2>4, <2>6, <1>e
    <3>2. CASE down # <<>>
      <4>1. a = "data" BY <3>2 DEF Answers
      <4> QED BY <4>1, <3>1, <3>2, <2>2, <1>c, AnswerAppend, Zenon
    <3>3. CASE down = <<>>
      <4>1. said = 0
        <5>1. Count(got, "data") + Count(down, "data") = said BY DEF DownKept
        <5>2. Count(<<>>, "data") = 0 BY CountOne, Zenon
        <5> QED BY <5>1, <5>2, <2>6, <3>3
      <4>2. a # "data" BY <2>6, <3>1, <3>3, <4>1, <1>a DEF Answers
      <4>3. IsAnswer(<<a>>) BY <4>2, <2>2, <1>c, AnswerAppend, Zenon
      <4>4. Append(down, a) = <<a>> BY <3>3
      <4> QED BY <4>3, <4>4
    <3> QED BY <3>2, <3>3
  <2> QED BY <2>5, <2>6
<1>9. CASE DialFails
  BY <1>9, <1>2 DEF DialFails, Places
<1>8. \/ Untouched \/ DialFails \/ Direct \/ ReadResponse \/ RoundTrip
      \/ CopyFromRemote \/ RemoteSends
  BY Zenon DEF Next, MainStep, SendStep, vars, NewContext, ReverseToResponse,
     ProxyUp, PipeTransport, Dialled, StartCopy,
     CopyFromRemoteEnds, Return, FlushLoop, SendHead, SendBody,
     CopyToRemote, CloseRemote, TransportSends, ClientSends, ClientCloses,
     RemoteCloses
<1> HIDE DEF Untouched
<1> QED BY <1>1, <1>2, <1>3, <1>4, <1>5, <1>6, <1>7, <1>8, <1>9, Zenon

(* Whatever has been answered stays in what the client got.                *)
LEMMA GotGrows ==
  ASSUME TypeOK, NEW s \in Seq(GotPieces), Write(s), "err" \notin Range(got')
  PROVE  "err" \notin Range(got) /\ (client # "gone" => "err" \notin Range(s))
<1>1. got \in Seq(GotPieces)
  BY DownTypes
<1>2. Range(got \o s) = Range(got) \cup Range(s)
  <2>1. \A t, u \in Seq(GotPieces) : Range(t \o u) = Range(t) \cup Range(u)
    BY RangeConcatenation, Zenon
  <2> QED BY <1>1, <2>1
<1> QED BY <1>2 DEF Write

(* Every step keeps that only the remote ends the copying to a client that *)
(* stays.                                                                  *)
LEMMA RemoteEndedStep ==
  TypeOK /\ Places /\ Sending /\ RemoteEnded /\ [Next]_vars => RemoteEnded'
<1>0. (Range(got))' = Range(got')
  BY DEF Range
<1> SUFFICES ASSUME TypeOK, Places, Sending, RemoteEnded, [Next]_vars, Undisturbed'
             PROVE  /\ main' # "returned" => send' # "close" /\ ours' # "closed"
                    /\ main' = "stop" => down' = <<>> /\ remote' = "closed"
                    /\ main' = "returned" /\ ours' = "closed" /\ "err" \notin Range(got') =>
                         down' = <<>> /\ remote' = "closed"
  BY <1>0, Zenon DEF RemoteEnded
<1> USE DEF clientVars, remoteVars
<1>a. /\ kind' = kind /\ client = "open" /\ client' = "open"
      /\ ~upFailed /\ (kind.method = "POST" => kind.via = "transport")
  <2>1. /\ kind' = kind /\ (client' = client \/ ClientCloses)
        /\ upFailed' = upFailed \/ upFailed' = TRUE
    BY Zenon DEF Next, MainStep, SendStep, vars, NewContext, ReverseToResponse,
       DialFails, Direct, ProxyUp, PipeTransport, Dialled, ReadResponse,
       RoundTrip, CopyFromRemote, CopyFromRemoteEnds, Return, FlushLoop,
       SendHead, SendBody, CopyToRemote, CloseRemote, TransportSends,
       ClientSends, ClientCloses, RemoteSends, RemoteCloses
  <2> QED BY <2>1 DEF Undisturbed, ClientCloses
<1>b. /\ main # "returned" => send # "close" /\ ours # "closed"
      /\ main = "stop" => down = <<>> /\ remote = "closed"
      /\ main = "returned" /\ ours = "closed" /\ "err" \notin Range(got) =>
           down = <<>> /\ remote = "closed"
  BY <1>a DEF RemoteEnded, Undisturbed
<1>c. ASSUME ReturnErr PROVE "err" \in Range(got') /\ main' = "returned"
  <2>1. <<"err">> \in Seq(GotPieces) /\ "err" \in Range(<<"err">>)
    BY DEF GotPieces, Range
  <2>2. Write(<<"err">>) /\ main' = "returned"
    BY <1>c DEF ReturnErr
  <2> QED BY <2>1, <2>2, <1>a, GotGrows, Zenon
<1> HIDE DEF Range
<1>1. CASE UNCHANGED <<got, main, send, ours, down, remote>>
  BY <1>1, <1>b
<1>2. CASE ReturnErr BY <1>2, <1>c
<1>3. CASE NewContext BY <1>3, <1>b DEF NewContext
<1>4. CASE ReverseToResponse BY <1>4 DEF ReverseToResponse, Places
<1>5. CASE Direct BY <1>5 DEF Direct, Dialled, StartCopy
<1>6. CASE ProxyUp BY <1>6 DEF ProxyUp, Dialled, StartCopy
<1>7. CASE PipeTransport BY <1>7 DEF PipeTransport, Dialled
<1>8. CASE ReadResponse
  BY <1>8, <1>2, <1>b DEF ReadResponse, StartCopy
<1>9. CASE RoundTrip
  BY <1>9, <1>2, <1>b DEF RoundTrip, StartCopy
<1>10. CASE CopyFromRemote BY <1>10, <1>a, <1>b DEF CopyFromRemote
<1>11. CASE CopyFromRemoteEnds BY <1>11, <1>b DEF CopyFromRemoteEnds
<1>12. CASE Return BY <1>12, <1>b DEF Return
<1>13. CASE SendHead BY <1>13, <1>b DEF SendHead
<1>14. CASE SendBody
  BY <1>14, <1>a, <1>b DEF SendBody, Undisturbed, Sending, HasBody, Connect
<1>15. CASE CopyToRemote
  BY <1>15, <1>a, <1>b DEF CopyToRemote, Undisturbed, ClientEOF
<1>16. CASE CloseRemote BY <1>16, <1>b DEF CloseRemote, Places, TypeOK
<1>17. CASE TransportSends
  BY <1>17, <1>a, <1>b DEF TransportSends, ClientEOF, Places, TypeOK
<1>18. CASE RemoteSends BY <1>18, <1>b DEF RemoteSends
<1>19. CASE RemoteCloses BY <1>19, <1>b DEF RemoteCloses
<1>20. \/ UNCHANGED <<got, main, send, ours, down, remote>> \/ ReturnErr
       \/ NewContext \/ ReverseToResponse \/ Direct \/ ProxyUp \/ PipeTransport
       \/ ReadResponse \/ RoundTrip \/ CopyFromRemote \/ CopyFromRemoteEnds
       \/ Return \/ SendStep \/ RemoteSends \/ RemoteCloses
  BY DEF Next, MainStep, vars, DialFails, FlushLoop, ClientSends, ClientCloses
<1> QED
  BY <1>1, <1>2, <1>3, <1>4, <1>5, <1>6, <1>7, <1>8, <1>9, <1>10, <1>11, <1>12,
     <1>13, <1>14, <1>15, <1>16, <1>17, <1>18, <1>19, <1>20, Zenon
  DEF SendStep

---------------------------------------------------------------------------
(* The invariant.                                                          *)

(* Nothing has been sent, copied or lost when the request comes in.        *)
LEMMA TunnelInit == Init => IInv
<1> SUFFICES ASSUME Init PROVE IInv
  OBVIOUS
<1>1. TypeOK
  <2>1. upFailed \in BOOLEAN BY Zenon DEF Init
  <2>2. cmore \in 0 .. MaxMore /\ said \in 0 .. MaxData
    BY TunnelAssumption DEF Init
  <2> QED BY <2>1, <2>2 DEF Init, TypeOK
<1>2. Count(<<>>, "data") = 0 /\ Count(<<>>, "more") = 0
  BY CountOne, Zenon
<1>3. Places /\ Sending
  BY DEF Init, Places, Sending
<1>4. UpKept /\ DownKept
  BY <1>2 DEF Init, UpKept, UpWhole, DownKept
<1>5. AnswerKept /\ RemoteEnded
  BY DEF Init, AnswerKept, IsAnswer, RemoteEnded
<1> QED BY <1>1, <1>3, <1>4, <1>5 DEF IInv

(* The invariant holds in every reachable state of a request's tunnel.     *)
THEOREM TunnelInvariance == Spec => []IInv
<1>1. IInv /\ [Next]_vars => IInv'
  BY TypeStep, PlacesStep, SendingStep, UpKeptStep, DownKeptStep,
     AnswerKeptStep, RemoteEndedStep, Zenon DEF IInv
<1> QED BY TunnelInit, <1>1, PTL DEF Spec

(* Every variable of the tunnel keeps its type.                            *)
THEOREM TunnelTypes == Spec => []TypeOK
<1>1. IInv => TypeOK BY DEF IInv
<1> QED BY TunnelInvariance, <1>1, PTL

(* A client that keeps its connection open has been sent everything the    *)
(* remote said when Direct, ProxyUp or PipeTransport returns, and that is  *)
(* after the remote closed.                                                *)
THEOREM ResponseIsWhole == Spec => []ResponseWhole
<1>1. IInv => ResponseWhole
  <2> SUFFICES ASSUME IInv, main = "returned", ours = "closed", client = "open",
                      ~upFailed, "err" \notin Range(got),
                      kind.method = "POST" => kind.via = "transport"
               PROVE  remote = "closed" /\ Count(got, "data") = said
    BY DEF ResponseWhole
  <2>1. down = <<>> /\ remote = "closed"
    BY DEF IInv, RemoteEnded, Undisturbed
  <2>2. Count(got, "data") + Count(down, "data") = said
    BY DEF IInv, DownKept
  <2>3. Count(<<>>, "data") = 0
    BY CountOne, Zenon
  <2>4. got \in Seq(GotPieces)
    BY DownTypes DEF IInv
  <2>5. Count(got, "data") \in Nat
    BY <2>4, CountType, Zenon
  <2> QED BY <2>1, <2>2, <2>3, <2>5
<1> QED BY TunnelInvariance, <1>1, PTL

(* Whatever a client sends that waits for its answer, copyToRemote and the *)
(* transport pass on every piece once, unless a write failed.              *)
THEOREM UpIsWhole == ~Eager => (Spec => []UpWhole)
<1> SUFFICES ASSUME ~Eager PROVE Spec => []UpWhole
  OBVIOUS
<1>1. IInv => UpWhole BY DEF IInv, UpKept
<1> QED BY TunnelInvariance, <1>1, PTL

(* A client that asked to connect is answered once, and before any data.   *)
THEOREM AnswerComesFirst == Spec => []AnsweredFirst
<1>1. IInv => AnsweredFirst
  <2> SUFFICES ASSUME IInv, Connect, got # <<>>
               PROVE  Head(got) # "data" /\ \A i \in 2 .. Len(got) : got[i] = "data"
    BY DEF AnsweredFirst
  <2>1. IsAnswer(got) BY DEF IInv, AnswerKept
  <2>2. got \in Seq(GotPieces) BY DownTypes DEF IInv
  <2>3. Head(got) # "data" BY <2>1, <2>2, AnswerSplit, Zenon
  <2> QED BY <2>1, <2>3 DEF IsAnswer
<1> QED BY TunnelInvariance, <1>1, PTL

(* maxLatencyWriter.stop keeps flushLoop from a ResponseWriter whose       *)
(* handler has returned.                                                   *)
THEOREM FlushIsInHandler == Spec => []FlushInHandler
<1>1. IInv => FlushInHandler BY DEF IInv, Places, FlushInHandler
<1> QED BY TunnelInvariance, <1>1, PTL
===========================================================================
