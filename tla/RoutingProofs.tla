--------------------------- MODULE RoutingProofs ---------------------------
(***************************************************************************)
(* Proofs about Routing for any nodes, proxies, routers and wishes: the    *)
(* mark in a hostname moves one name further with every hop, so that a     *)
(* request goes through the proxies its hostname names, in their order,    *)
(* and the host and port asked for are dialled after the last one.         *)
(***************************************************************************)
EXTENDS Routing, SequenceTheorems, FiniteSetTheorems, TLAPS

(* The names of a route with the k-th marked; with none for 0 and for one  *)
(* past the last.                                                          *)
Marked(route, k) ==
  [i \in DOMAIN route |-> IF i = k THEN Dashed(route[i]) ELSE Word(route[i])]

(* The hostname of a wish when the node of the k-th name holds it.         *)
HostAt(t, k) ==
  t.dial \o <<Word(t.kw)>> \o Marked(t.route, k) \o <<Word("hybrid")>>

---------------------------------------------------------------------------
(* Domain.                                                                 *)

(* A marked route is a sequence of labels as long as the route.            *)
LEMMA MarkedType ==
  ASSUME NEW route \in Seq(Names), NEW k \in Nat
  PROVE  /\ Marked(route, k) \in Seq(Labels)
         /\ Len(Marked(route, k)) = Len(route)
         /\ DOMAIN Marked(route, k) = 1 .. Len(route)
         /\ \A i \in 1 .. Len(route) :
              Marked(route, k)[i] = IF i = k THEN Dashed(route[i]) ELSE Word(route[i])
<1>1. DOMAIN route = 1 .. Len(route) /\ Len(route) \in Nat
      OBVIOUS
<1>2. ASSUME NEW i \in 1 .. Len(route)
      PROVE  (IF i = k THEN Dashed(route[i]) ELSE Word(route[i])) \in Labels
  <2>1. route[i] \in Names OBVIOUS
  <2> QED BY <2>1, Zenon DEF Dashed, Word, Labels
<1>3. Marked(route, k) \in [1 .. Len(route) -> Labels]
      BY <1>1, <1>2 DEF Marked
<1> QED BY <1>1, <1>3 DEF Marked

(* The loop over rawRouters finds the mark.                                *)
LEMMA MarkFound ==
  ASSUME NEW route \in Seq(Names), NEW k \in 0 .. Len(route)
  PROVE  MarkAt(Marked(route, k)) = k
<1> DEFINE r == Marked(route, k)
<1>1. DOMAIN r = 1 .. Len(route) /\ Len(route) \in Nat
      BY MarkedType
<1>2. \A i \in DOMAIN r : r[i].dash <=> i = k
  <2> SUFFICES ASSUME NEW i \in DOMAIN r PROVE r[i].dash <=> i = k
      OBVIOUS
  <2>1. r[i] = IF i = k THEN Dashed(route[i]) ELSE Word(route[i])
        BY <1>1, MarkedType
  <2> QED BY <2>1 DEF Dashed, Word
<1> HIDE DEF r
<1>3. CASE k = 0 BY <1>1, <1>2, <1>3 DEF MarkAt, r
<1>4. CASE k # 0
  <2>1. k \in DOMAIN r BY <1>1, <1>4
  <2>2. \A i \in DOMAIN r : (r[i].dash /\ \A j \in 1 .. i - 1 : ~r[j].dash) <=> i = k
        BY <1>1, <1>2, <2>1
  <2>3. (CHOOSE i \in DOMAIN r : r[i].dash /\ \A j \in 1 .. i - 1 : ~r[j].dash) = k
        BY <2>1, <2>2
  <2>4. \E i \in DOMAIN r : r[i].dash
        BY <1>2, <2>1
  <2> QED BY <2>3, <2>4 DEF MarkAt, r
<1> QED BY <1>3, <1>4

(* nameRegex accepts every name of the route.                              *)
LEMMA MarkedAccepted ==
  ASSUME NEW route \in Seq(Names), NEW k \in 0 .. Len(route)
  PROVE  RouteAccepted(Marked(route, k))
<1> DEFINE r == Marked(route, k)
<1>1. Len(r) = Len(route) /\ Len(route) \in Nat /\ MarkAt(r) = k
      BY MarkedType, MarkFound
<1>2. ASSUME NEW i \in 1 .. Len(route)
      PROVE  IF i = k THEN r[i].word \in Names ELSE IsHybridName(r[i])
  <2>1. r[i] = IF i = k THEN Dashed(route[i]) ELSE Word(route[i])
        BY MarkedType
  <2>2. route[i] \in Names OBVIOUS
  <2> QED BY <2>1, <2>2 DEF Dashed, Word, IsHybridName
<1> HIDE DEF r
<1> QED BY <1>1, <1>2 DEF RouteAccepted, r

(* The mark goes one name further, and is gone after the last.             *)
LEMMA MarkMoves ==
  ASSUME NEW route \in Seq(Names), NEW k \in 0 .. Len(route)
  PROVE  MoveMark(Marked(route, k)) = Marked(route, k + 1)
<1> DEFINE r == Marked(route, k)
<1>1. DOMAIN r = DOMAIN route /\ DOMAIN route = 1 .. Len(route) /\ MarkAt(r) = k
      BY MarkedType, MarkFound
<1>2. ASSUME NEW i \in DOMAIN route
      PROVE  (CASE i = k -> Word(r[i].word) [] i = k + 1 -> Dashed(r[i].word) [] OTHER -> r[i])
             = (IF i = k + 1 THEN Dashed(route[i]) ELSE Word(route[i]))
  <2>1. r[i] = IF i = k THEN Dashed(route[i]) ELSE Word(route[i])
        BY <1>1, MarkedType
  <2>2. r[i].word = route[i]
        BY <2>1 DEF Dashed, Word
  <2> QED BY <2>1, <2>2
<1> HIDE DEF r
<1>3. MoveMark(r) = [i \in DOMAIN route |-> IF i = k + 1 THEN Dashed(route[i]) ELSE Word(route[i])]
      BY <1>1, <1>2 DEF MoveMark
<1> QED BY <1>3 DEF Marked, r

(* No label of a marked route is a keyword.                                *)
LEMMA MarkedNoKeyword ==
  ASSUME NEW route \in Seq(Names), NEW k \in Nat, NEW i \in 1 .. Len(route),
         NEW kw \in Keywords
  PROVE  Marked(route, k)[i] # Word(kw)
<1>1. route[i] \in Names
      OBVIOUS
<1>2. route[i] # kw
      BY <1>1, DomainAssumption, Zenon
<1>3. Marked(route, k)[i] = IF i = k THEN Dashed(route[i]) ELSE Word(route[i])
      BY MarkedType
<1> QED BY <1>2, <1>3 DEF Dashed, Word

(* The hostname of a wish and its parts.                                   *)
LEMMA HostParts ==
  ASSUME NEW w \in Wishes, NEW k \in Nat
  PROVE  /\ w.dial \in Seq(Labels) /\ Len(w.dial) \in Nat /\ Len(w.dial) >= 1
         /\ w.route \in Seq(Names) /\ w.kw \in {"over", "with"}
         /\ Len(HostAt(w, k)) = Len(w.dial) + Len(w.route) + 2
         /\ HostAt(w, k) \in Seq(Labels)
         /\ \A i \in 1 .. Len(w.dial) : HostAt(w, k)[i] = w.dial[i]
         /\ HostAt(w, k)[Len(w.dial) + 1] = Word(w.kw)
         /\ \A i \in 1 .. Len(w.route) :
              HostAt(w, k)[Len(w.dial) + 1 + i] = Marked(w.route, k)[i]
         /\ HostAt(w, k)[Len(HostAt(w, k))] = Word("hybrid")
         /\ SubSeq(HostAt(w, k), 1, Len(w.dial)) = w.dial
         /\ SubSeq(HostAt(w, k), Len(w.dial) + 2, Len(HostAt(w, k)) - 1) = Marked(w.route, k)
<1> DEFINE dial == w.dial
           kw == Word(w.kw)
           r == Marked(w.route, k)
           suffix == Word("hybrid")
           h == HostAt(w, k)
           n == Len(dial)
<1>a. /\ dial \in Seq(Labels) /\ dial # Empty /\ w.route \in Seq(Names)
      /\ w.kw \in {"over", "with"}
      BY RoutingAssumption
<1>b. kw \in Labels /\ suffix \in Labels
      BY <1>a, Zenon DEF Word, Labels, Keywords
<1>c. r \in Seq(Labels) /\ Len(r) = Len(w.route)
      BY <1>a, MarkedType
<1>d. h = dial \o <<kw>> \o r \o <<suffix>>
      BY DEF HostAt
<1>e. n \in Nat /\ n >= 1
      BY <1>a DEF Empty
<1>f. dial \in Seq(Labels) /\ r \in Seq(Labels)
      BY <1>a, <1>c
<1> HIDE DEF dial, kw, r, suffix, h
<1>1. /\ h \in Seq(Labels) /\ n \in Nat /\ Len(r) \in Nat
      /\ Len(h) = n + Len(r) + 2
      BY <1>b, <1>d, <1>f
<1>2. \A i \in 1 .. n : h[i] = dial[i]
      BY <1>b, <1>d, <1>f
<1>3. h[n + 1] = kw
      BY <1>b, <1>d, <1>f
<1>4. \A i \in 1 .. Len(r) : h[n + 1 + i] = r[i]
      BY <1>b, <1>d, <1>f
<1>5. h[Len(h)] = suffix
      BY <1>b, <1>d, <1>f
<1> HIDE DEF n
<1>6. SubSeq(h, 1, n) = dial
  <2>1. SubSeq(h, 1, n) \in Seq(Labels) /\ Len(SubSeq(h, 1, n)) = n
        /\ \A i \in 1 .. n : SubSeq(h, 1, n)[i] = h[i]
        BY <1>1
  <2> QED BY <1>f, <1>2, <2>1, SeqEqual, SMT DEF n
<1>7. SubSeq(h, n + 2, Len(h) - 1) = r
  <2> DEFINE e == Len(h) - 1
             q == SubSeq(h, n + 2, e)
  <2>1. e \in Nat /\ e = n + 1 + Len(r)
        BY <1>1
  <2>2. q \in Seq(Labels) /\ Len(q) = IF n + 2 <= e THEN e - (n + 2) + 1 ELSE 0
        BY <1>1, <2>1
  <2>3. Len(q) = Len(r)
    <3> HIDE DEF e, q
    <3> QED BY <1>1, <2>1, <2>2
  <2>4. ASSUME NEW i \in 1 .. Len(r) PROVE q[i] = h[n + 1 + i]
    <3>1. n + 2 <= e /\ i \in 1 .. e - (n + 2) + 1
          BY <1>1, <2>1
    <3>2. q[i] = h[n + 2 + i - 1]
          BY <1>1, <2>1, <3>1
    <3>3. n + 2 + i - 1 = n + 1 + i
          BY <1>1
    <3> QED BY <3>2, <3>3, Zenon
  <2> HIDE DEF e, q
  <2>5. q \in Seq(Labels) /\ \A i \in 1 .. Len(q) : q[i] = r[i]
        BY <1>4, <2>2, <2>3, <2>4
  <2>6. q = r
        BY <1>f, <2>3, <2>5, SeqEqual, Zenon
  <2> QED BY <2>6 DEF q, e
<1> QED BY <1>a, <1>c, <1>e, <1>1, <1>2, <1>3, <1>4, <1>5, <1>6, <1>7, Zenon DEF n, h, r, kw, suffix, dial

(* The keyword is found where the wish has put it.                         *)
LEMMA KeywordFound ==
  ASSUME NEW w \in Wishes, NEW k \in Nat
  PROVE  KeywordAt(HostAt(w, k)) = Len(w.dial) + 1
<1> DEFINE n == Len(w.dial)
           r == Marked(w.route, k)
           h == HostAt(w, k)
<1>1. w.route \in Seq(Names) /\ w.kw \in {"over", "with"}
      BY HostParts, Zenon
<1>2. n \in Nat /\ n >= 1
      BY HostParts, Zenon
<1>3. Len(r) = Len(w.route) /\ Len(r) \in Nat
      BY <1>1, MarkedType
<1>4. /\ \A i \in 1 .. n : h[i] = w.dial[i]
      /\ h[n + 1] = Word(w.kw)
      BY HostParts, Zenon
<1>5. /\ Len(h) = n + Len(r) + 2
      /\ \A i \in 1 .. Len(r) : h[n + 1 + i] = r[i]
  <2>1. Len(h) = n + Len(w.route) + 2
        BY HostParts, Zenon
  <2>2. \A i \in 1 .. Len(w.route) : h[n + 1 + i] = r[i]
        BY HostParts, Zenon
  <2> QED BY <1>3, <2>1, <2>2, Zenon
<1>6. ASSUME NEW i \in 1 .. Len(r), NEW kw \in Keywords PROVE r[i] # Word(kw)
      BY <1>1, <1>3, MarkedNoKeyword
<1> HIDE DEF n, r, h
<1>7. ASSUME NEW kw \in Keywords, NEW i \in KeywordsAt(h, kw) PROVE i <= n + 1
  <2> SUFFICES ASSUME i > n + 1 PROVE FALSE
      BY <1>2 DEF KeywordsAt
  <2> DEFINE j == i - (n + 1)
  <2>1. j \in 1 .. Len(r) /\ i = n + 1 + j /\ h[i] = Word(kw)
        BY <1>2, <1>3, <1>4, <1>5 DEF KeywordsAt
  <2> HIDE DEF j
  <2>2. h[n + 1 + j] = r[j]
        BY <1>5, <2>1
  <2> QED BY <1>6, <2>1, <2>2
<1>8. n + 1 \in KeywordsAt(h, w.kw)
      BY <1>2, <1>3, <1>4, <1>5 DEF KeywordsAt
<1>9. Max(KeywordsAt(h, w.kw)) = n + 1
  <2>1. w.kw \in Keywords BY <1>1 DEF Keywords
  <2>2. \A j \in KeywordsAt(h, w.kw) : j <= n + 1
        BY <1>7, <2>1
  <2>3. \A i \in KeywordsAt(h, w.kw) : i \in Nat
        BY DEF KeywordsAt
  <2> QED BY <1>2, <1>8, <2>2, <2>3 DEF Max
<1>10. CASE w.kw = "with"
  <2>1. KeywordsAt(h, "with") # {}
        BY <1>8, <1>10
  <2>2. KeywordAt(h) = n + 1
        BY <1>9, <1>10, <2>1 DEF KeywordAt
  <2> QED BY <2>2 DEF h, n
<1>11. CASE w.kw = "over"
  <2>1. KeywordsAt(h, "with") = {}
    <3> SUFFICES ASSUME NEW i \in KeywordsAt(h, "with") PROVE FALSE
        OBVIOUS
    <3>1. i \in 2 .. n + 1 /\ h[i] = Word("with")
          BY <1>7 DEF KeywordsAt, Keywords
    <3>2. i # n + 1
          BY <1>4, <1>11, <3>1 DEF Word
    <3>3. w.dial[i] = Word("with")
          BY <1>2, <1>4, <3>1, <3>2
    <3>4. \A j \in 2 .. n : w.dial[j] # Word("with")
          BY <1>11, WishesAssumption DEF n
    <3> QED BY <1>2, <3>1, <3>2, <3>3, <3>4
  <2> QED BY <1>8, <1>9, <1>11, <2>1 DEF KeywordAt, h, n
<1> QED BY <1>1, <1>10, <1>11

(* NewDomain takes from a hostname what was put into it, for any host,     *)
(* keyword and route and wherever the mark stands: the host to dial, the   *)
(* next name and the hostname to send there, with the mark on the next     *)
(* name.                                                                   *)
THEOREM WishRead ==
  ASSUME NEW w \in Wishes, NEW k \in 0 .. Len(w.route)
  PROVE  LET d == NewDomain(HostAt(w, k))
         IN  /\ d.ok /\ d.IsHybrid
             /\ d.IsOver <=> w.kw = "over"
             /\ d.DialHostname = w.dial
             /\ d.IsEnd <=> k = Len(w.route)
             /\ k # Len(w.route) => d.Next = w.route[k + 1]
             /\ d.NextHostname = IF w.kw = "over" /\ k = Len(w.route) THEN w.dial
                                 ELSE HostAt(w, k + 1)
<1> DEFINE n == Len(w.dial)
           r == Marked(w.route, k)
           h == HostAt(w, k)
<1>0. k \in Nat /\ Len(w.route) \in Nat
      BY HostParts
<1>1. /\ n \in Nat /\ n >= 1 /\ w.route \in Seq(Names)
      /\ w.kw \in {"over", "with"}
      BY <1>0, HostParts, Zenon
<1>2. /\ Len(h) = n + Len(w.route) + 2 /\ h[Len(h)] = Word("hybrid")
      /\ h[n + 1] = Word(w.kw)
      BY <1>0, HostParts, Zenon
<1>3. SubSeq(h, 1, n) = w.dial /\ SubSeq(h, n + 2, Len(h) - 1) = r
      BY <1>0, HostParts, Zenon
<1>4. KeywordAt(h) = n + 1
      BY <1>0, KeywordFound
<1>5. MarkAt(r) = k /\ RouteAccepted(r) /\ MoveMark(r) = Marked(w.route, k + 1)
      BY <1>1, MarkFound, MarkedAccepted, MarkMoves
<1>6. /\ Len(r) = Len(w.route)
      /\ \A i \in 1 .. Len(w.route) : r[i] = IF i = k THEN Dashed(w.route[i]) ELSE Word(w.route[i])
      BY <1>0, <1>1, MarkedType
<1> HIDE DEF n, r, h
<1>7. k # Len(w.route) => r[k + 1].word = w.route[k + 1]
  <2> SUFFICES ASSUME k # Len(w.route) PROVE r[k + 1].word = w.route[k + 1]
      OBVIOUS
  <2>1. k + 1 \in 1 .. Len(w.route) /\ k + 1 # k
        BY <1>0
  <2>2. r[k + 1] = Word(w.route[k + 1])
        BY <1>6, <2>1
  <2> QED BY <2>2 DEF Word
<1>8. HasSuffixHybrid(h)
      BY <1>0, <1>1, <1>2 DEF HasSuffixHybrid
<1>9. Word(w.kw) = Word("over") <=> w.kw = "over"
      BY Zenon DEF Word
<1>10. HostAt(w, k + 1)
       = w.dial \o <<Word(w.kw)>> \o Marked(w.route, k + 1) \o <<Word("hybrid")>>
      BY DEF HostAt
<1>11. /\ KeywordAt(h) # 0 /\ h[KeywordAt(h)] = Word(w.kw)
       /\ SubSeq(h, 1, KeywordAt(h) - 1) = w.dial
       /\ SubSeq(h, KeywordAt(h) + 1, Len(h) - 1) = r
  <2>1. KeywordAt(h) - 1 = n /\ KeywordAt(h) + 1 = n + 2 /\ KeywordAt(h) # 0
        BY <1>1, <1>4
  <2> QED BY <1>2, <1>3, <1>4, <2>1, Zenon
<1> DEFINE isOver == Word(w.kw) = Word("over")
           isBegin == k = 0
           isEnd == k = Len(w.route)
           next == IF isEnd THEN "" ELSE r[k + 1].word
           nextHost == IF isOver /\ isEnd THEN w.dial
                       ELSE w.dial \o <<Word(w.kw)>> \o MoveMark(r) \o <<Word("hybrid")>>
           d == NewDomain(h)
<1>12. d = [ok |-> TRUE, IsHybrid |-> TRUE, IsOver |-> isOver, DialHostname |-> w.dial,
            Next |-> next, IsBegin |-> isBegin, IsEnd |-> isEnd, NextHostname |-> nextHost]
       BY <1>5, <1>6, <1>8, <1>11, Zenon DEF NewDomain
<1> HIDE DEF isOver, isBegin, isEnd, next, nextHost, d
<1>13. d.ok /\ d.IsHybrid
       BY <1>12
<1>14. d.IsOver <=> w.kw = "over"
  <2>1. d.IsOver = isOver BY <1>12
  <2> QED BY <1>9, <2>1, Zenon DEF isOver
<1>15. d.DialHostname = w.dial
       BY <1>12
<1>16. d.IsEnd <=> k = Len(w.route)
  <2>1. d.IsEnd = isEnd BY <1>12
  <2> QED BY <2>1, Zenon DEF isEnd
<1>17. k # Len(w.route) => d.Next = w.route[k + 1]
  <2>1. d.Next = next BY <1>12
  <2> QED BY <1>7, <2>1 DEF next, isEnd
<1>18. d.NextHostname = IF w.kw = "over" /\ k = Len(w.route) THEN w.dial
                        ELSE HostAt(w, k + 1)
  <2>1. d.NextHostname = nextHost BY <1>12
  <2> QED BY <1>5, <1>9, <1>10, <2>1, Zenon DEF nextHost, isOver, isEnd
<1> QED BY <1>13, <1>14, <1>15, <1>16, <1>17, <1>18 DEF d, h

(* NewDomain of a host that is not one of hybrid's.                        *)
LEMMA PlainRead ==
  ASSUME NEW h, ~HasSuffixHybrid(h)
  PROVE  NewDomain(h).ok /\ ~NewDomain(h).IsHybrid
<1>1. NewDomain(h) = NotHybrid(h)
      BY DEF NewDomain
<1> QED BY <1>1 DEF NotHybrid, Bad

(* LastIndex finds the keyword if it is there.                             *)
LEMMA LargestFound ==
  ASSUME NEW L \in Nat, NEW S \in SUBSET (0 .. L), S # {}
  PROVE  Max(S) \in S
<1> DEFINE T == {i + 1 .. L : i \in S}
           less == StrictSubsetOrdering(0 .. L)
<1>1. T \subseteq FiniteSubsetsOf(0 .. L) /\ T # {}
  <2>1. \A i \in S : i + 1 .. L \in SUBSET (0 .. L)
        OBVIOUS
  <2>2. IsFiniteSet(0 .. L)
        BY 0 \in Int, L \in Int, FS_Interval
  <2>3. FiniteSubsetsOf(0 .. L) = SUBSET (0 .. L)
        BY <2>2, FS_FiniteSubsetsOfFinite, Zenon
  <2>4. ASSUME NEW t \in T PROVE t \in SUBSET (0 .. L)
        BY <2>1
  <2>5. T # {}
        BY Zenon
  <2> HIDE DEF T
  <2> QED BY <2>3, <2>4, <2>5
<1>2. PICK m \in T : \A j \in T : ~(<<j, m>> \in less)
  <2>1. IsWellFoundedOn(less, FiniteSubsetsOf(0 .. L))
        BY FS_StrictSubsetOrderingWellFounded
  <2> HIDE DEF T, less
  <2> QED BY <1>1, <2>1, WFMin, Zenon
<1>3. PICK x \in S : m = x + 1 .. L
      OBVIOUS
<1>4. ASSUME NEW y \in S PROVE x >= y
  <2> SUFFICES ASSUME x < y PROVE FALSE
      OBVIOUS
  <2>1. y + 1 .. L \in T /\ ~(<<y + 1 .. L, x + 1 .. L>> \in less)
        BY <1>2, <1>3, Zenon
  <2>2. /\ y + 1 .. L \subseteq x + 1 .. L
        /\ y \in x + 1 .. L /\ y \notin y + 1 .. L
        /\ x + 1 .. L \in SUBSET (0 .. L) /\ y + 1 .. L \in SUBSET (0 .. L)
        OBVIOUS
  <2> QED BY <2>1, <2>2 DEF StrictSubsetOrdering
<1> QED BY <1>4, Zenon DEF Max

(* A keyword stands between two other labels.                              *)
LEMMA KeywordRange ==
  ASSUME NEW h \in Seq(Labels), KeywordAt(h) # 0
  PROVE  KeywordAt(h) \in 2 .. Len(h) - 1
<1>1. ASSUME NEW kw, KeywordsAt(h, kw) # {}
      PROVE  Max(KeywordsAt(h, kw)) \in 2 .. Len(h) - 1
  <2>1. Len(h) \in Nat /\ KeywordsAt(h, kw) \in SUBSET (0 .. Len(h))
        BY DEF KeywordsAt
  <2>2. Max(KeywordsAt(h, kw)) \in KeywordsAt(h, kw)
        BY <1>1, <2>1, LargestFound, Zenon
  <2> QED BY <2>2 DEF KeywordsAt
<1> QED BY <1>1 DEF KeywordAt

(* NewDomain gives hostnames.                                              *)
LEMMA DomainType ==
  ASSUME NEW h \in Seq(Labels)
  PROVE  /\ NewDomain(h).DialHostname \in Seq(Labels)
         /\ NewDomain(h).NextHostname \in Seq(Labels)
<1>1. CASE ~HasSuffixHybrid(h)
  <2>1. NewDomain(h) = NotHybrid(h)
        BY <1>1 DEF NewDomain
  <2> QED BY <2>1 DEF NotHybrid, Bad, Empty
<1>2. CASE NewDomain(h) = Bad
  <2>1. Bad.DialHostname = Empty /\ Bad.NextHostname = Empty
        BY DEF Bad
  <2> QED BY <1>2, <2>1 DEF Empty
<1>3. CASE HasSuffixHybrid(h) /\ NewDomain(h) # Bad
  <2> DEFINE k == KeywordAt(h)
             dial == SubSeq(h, 1, k - 1)
             route == SubSeq(h, k + 1, Len(h) - 1)
             m == MarkAt(route)
             isOver == h[k] = Word("over")
             isBegin == m = 0
             isEnd == m = Len(route)
             next == IF isEnd THEN "" ELSE route[m + 1].word
             nextHost == IF isOver /\ isEnd THEN dial
                         ELSE dial \o <<h[k]>> \o MoveMark(route) \o <<Word("hybrid")>>
  <2>1. k # 0
        BY <1>3, Zenon DEF NewDomain
  <2>2. k \in 2 .. Len(h) - 1 /\ Len(h) \in Nat
        BY <2>1, KeywordRange
  <2>3. NewDomain(h) = [ok |-> TRUE, IsHybrid |-> TRUE, IsOver |-> isOver, DialHostname |-> dial,
                        Next |-> next, IsBegin |-> isBegin, IsEnd |-> isEnd,
                        NextHostname |-> nextHost]
        BY <1>3, Zenon DEF NewDomain
  <2>4. dial \in Seq(Labels) /\ route \in Seq(Labels) /\ h[k] \in Labels
    <3> HIDE DEF k
    <3> QED BY <2>2
  <2>5. MoveMark(route) \in Seq(Labels)
    <3> HIDE DEF route
    <3>1. route \in [1 .. Len(route) -> Labels] /\ Len(route) \in Nat
          BY <2>4
    <3>2. ASSUME NEW i \in DOMAIN route
          PROVE  (CASE i = m -> Word(route[i].word) [] i = m + 1 -> Dashed(route[i].word)
                    [] OTHER -> route[i]) \in Labels
      <4>1. route[i] \in Labels BY <3>1
      <4>2. Word(route[i].word) \in Labels /\ Dashed(route[i].word) \in Labels
            BY <4>1, Zenon DEF Labels, Word, Dashed
      <4> QED BY <4>1, <4>2
    <3>3. MoveMark(route) \in [1 .. Len(route) -> Labels]
          BY <3>1, <3>2 DEF MoveMark
    <3> QED BY <3>1, <3>3
  <2>6. Word("hybrid") \in Labels
        BY Zenon DEF Word, Labels, Keywords
  <2>7. nextHost \in Seq(Labels)
    <3> HIDE DEF dial, route, k, m
    <3> QED BY <2>4, <2>5, <2>6
  <2> HIDE DEF dial, route, k, m, isOver, isBegin, isEnd, next, nextHost
  <2> QED BY <2>3, <2>4, <2>7
<1> QED BY <1>1, <1>2, <1>3

---------------------------------------------------------------------------
(* Routing.                                                                *)

(* The proxies a request went through are the first of its route.          *)
Followed ==
  /\ Len(via) <= Len(asked.target.route)
  /\ via = SubSeq(asked.target.route, 1, Len(via))

(* The mark in the hostname is on the name of the last proxy.              *)
OnTheWay == req.host = HostAt(asked.target, Len(via))

(* Routers have taken an over request further after the end of its route.  *)
PastTheEnd ==
  /\ asked.target.kw = "over" /\ via = asked.target.route
  /\ req.host = asked.target.dial

(* No hop changes the port that is meant, given or the scheme's own.       *)
PortKept == Port = AskedPort /\ (req.scheme = "" => req.port # NoPort)

WayKept ==
  Wished =>
    /\ Followed
    /\ outcome = "none" => (OnTheWay \/ PastTheEnd) /\ PortKept
    /\ outcome \in {"served", "dialled"} => via = asked.target.route /\ HostAtEnd

IInv == TypeOK /\ WayKept

(* What a client may ask for.                                              *)
LEMMA AskedTypes ==
  ASSUME NEW a \in Asked
  PROVE  /\ a.target \in Targets /\ a.port \in Ports \union {NoPort}
         /\ a.kind \in {"connect", "upgrade", "plain"}
         /\ a.scheme \in {"", "http", "https"}
         /\ a.scheme = "" => a.port # NoPort
         /\ a.target.kw # "none" => a.target \in Wishes
         /\ a.target.kw = "none" => a.target.dial \in OtherHosts
<1>1. /\ a.target \in Targets /\ a.port \in Ports \union {NoPort}
      /\ a.kind \in {"connect", "upgrade", "plain"}
      /\ a.scheme \in {"", "http", "https"}
      BY Zenon DEF Asked
<1>2. a.scheme = "" => a.port # NoPort
      BY RoutingAssumption, Zenon DEF Asked
<1>3. ASSUME NEW t \in Targets
      PROVE  (t.kw # "none" => t \in Wishes) /\ (t.kw = "none" => t.dial \in OtherHosts)
  <2>1. CASE t \in Wishes
    <3>1. t.kw \in {"over", "with"} BY <2>1, RoutingAssumption
    <3> QED BY <2>1, <3>1
  <2>2. CASE t \in [dial : OtherHosts, kw : {"none"}, route : {<<>>}]
        BY <2>2
  <2> QED BY <2>1, <2>2 DEF Targets
<1> QED BY <1>1, <1>2, <1>3, Zenon

(* A client sends its wish without a mark, and that is the Host again when *)
(* the mark has gone past the last name.                                   *)
LEMMA UnmarkedHost ==
  ASSUME NEW w \in Wishes
  PROVE  /\ HostOf(w) = HostAt(w, 0)
         /\ HostOf(w) = HostAt(w, Len(w.route) + 1)
<1>1. w.kw # "none" /\ DOMAIN w.route = 1 .. Len(w.route) /\ Len(w.route) \in Nat
      BY RoutingAssumption
<1> DEFINE plain == [i \in DOMAIN w.route |-> Word(w.route[i])]
<1>2. Marked(w.route, 0) = plain
      BY <1>1 DEF Marked
<1>3. Marked(w.route, Len(w.route) + 1) = plain
      BY <1>1 DEF Marked
<1>4. HostOf(w) = w.dial \o <<Word(w.kw)>> \o plain \o <<Word("hybrid")>>
      BY <1>1, Zenon DEF HostOf
<1> HIDE DEF plain
<1> QED BY <1>2, <1>3, <1>4, Zenon DEF HostAt

(* Every client's request is as WayKept says before its first node.        *)
LEMMA RoutingInit == Init => IInv
<1> SUFFICES ASSUME Init PROVE IInv
    OBVIOUS
<1> DEFINE w == asked.target
<1>1. /\ asked \in Asked /\ at \in Nodes /\ via = <<>> /\ outcome = "none" /\ sent = NotSent
      /\ req = [host |-> HostOf(w), port |-> asked.port,
                kind |-> asked.kind, scheme |-> asked.scheme]
      BY DEF Init
<1>2. HostOf(w) \in Seq(Labels)
  <2>1. CASE w.kw = "none"
    <3>1. w.dial \in Seq(Labels)
          BY <1>1, <2>1, AskedTypes, RoutingAssumption, Zenon
    <3> QED BY <2>1, <3>1 DEF HostOf
  <2>2. CASE w.kw # "none"
    <3>1. w \in Wishes
          BY <1>1, <2>2, AskedTypes, Zenon
    <3>2. HostAt(w, 0) \in Seq(Labels)
      <4>1. 0 \in Nat OBVIOUS
      <4> QED BY <3>1, <4>1, HostParts, Zenon
    <3> QED BY <3>1, <3>2, UnmarkedHost
  <2> QED BY <2>1, <2>2
<1>3. TypeOK
  <2>1. req \in Request
        BY <1>1, <1>2, AskedTypes, Zenon DEF Request
  <2>2. via \in Seq(Names)
        BY <1>1
  <2> QED BY <1>1, <2>1, <2>2 DEF TypeOK
<1>4. ASSUME Wished PROVE Followed /\ OnTheWay /\ PortKept
  <2>1. w \in Wishes
        BY <1>1, <1>4, AskedTypes, Zenon DEF Wished
  <2>2. w.route \in Seq(Names)
        BY <2>1, RoutingAssumption
  <2>3. Followed
        BY <1>1, <2>2 DEF Followed
  <2>4. OnTheWay
        BY <1>1, <2>1, UnmarkedHost DEF OnTheWay
  <2>5. PortKept
        BY <1>1, AskedTypes, Zenon DEF PortKept, Port, AskedPort
  <2> QED BY <2>3, <2>4, <2>5
<1> QED BY <1>1, <1>3, <1>4 DEF IInv, WayKept

(* What a node reads in a wish it holds.                                   *)
LEMMA WishedDomain ==
  ASSUME TypeOK, WayKept, Wished, outcome = "none"
  PROVE  LET w == asked.target
         IN  /\ w \in Wishes /\ w.route \in Seq(Names) /\ Followed /\ PortKept
             /\ \/ /\ D.ok /\ D.IsHybrid
                   /\ D.IsOver <=> w.kw = "over"
                   /\ D.DialHostname = w.dial
                   /\ D.IsEnd <=> Len(via) = Len(w.route)
                   /\ ~D.IsEnd => D.Next = w.route[Len(via) + 1]
                   /\ D.NextHostname = IF w.kw = "over" /\ D.IsEnd THEN w.dial
                                       ELSE HostAt(w, Len(via) + 1)
                \/ D.ok /\ ~D.IsHybrid /\ PastTheEnd
<1> DEFINE w == asked.target
           k == Len(via)
<1>1. w \in Wishes
      BY AskedTypes, Zenon DEF TypeOK, Wished
<1>2. w.route \in Seq(Names) /\ Followed /\ PortKept /\ (OnTheWay \/ PastTheEnd)
      BY <1>1, RoutingAssumption DEF WayKept
<1>3. k \in 0 .. Len(w.route)
      BY <1>2 DEF TypeOK, Followed
<1> HIDE DEF w
<1>4. CASE OnTheWay
  <2>1. D = NewDomain(HostAt(w, k))
        BY <1>4 DEF OnTheWay, D, w
  <2> HIDE DEF k
  <2>2. /\ D.ok /\ D.IsHybrid
        /\ D.IsOver <=> w.kw = "over"
        /\ D.DialHostname = w.dial
        BY <1>1, <1>3, <2>1, WishRead
  <2>3. /\ D.IsEnd <=> k = Len(w.route)
        /\ k # Len(w.route) => D.Next = w.route[k + 1]
        BY <1>1, <1>3, <2>1, WishRead
  <2>4. D.NextHostname = IF w.kw = "over" /\ k = Len(w.route) THEN w.dial
                         ELSE HostAt(w, k + 1)
        BY <1>1, <1>3, <2>1, WishRead
  <2>5. D.NextHostname = IF w.kw = "over" /\ D.IsEnd THEN w.dial
                         ELSE HostAt(w, k + 1)
        BY <2>3, <2>4
  <2> QED BY <1>1, <1>2, <2>2, <2>3, <2>5 DEF w, k
<1>5. CASE PastTheEnd
  <2>1. D = NewDomain(w.dial) /\ ~HasSuffixHybrid(w.dial)
        BY <1>1, <1>5, WishesAssumption DEF PastTheEnd, D, w
  <2>2. D.ok /\ ~D.IsHybrid
        BY <2>1, PlainRead
  <2> QED BY <1>1, <1>2, <1>5, <2>2 DEF w
<1> QED BY <1>2, <1>4, <1>5

(* The next node means the same port, whatever H2Client and ServeHTTP put  *)
(* in and take off.                                                        *)
LEMMA HopKeepsPort ==
  ASSUME NEW d, NEW to, PortKept, Hop(d, to), req \in Request
  PROVE  PortKept'
<1> DEFINE s == IF req.scheme = "https" THEN "https" ELSE "http"
<1>1. /\ req'.port = TrimPort(s, AdjustedPort(d)) /\ req'.scheme = s /\ asked' = asked
      BY DEF Hop
<1>2. DefaultPort(s) # NoPort
      BY RoutingAssumption DEF DefaultPort
<1>3. AdjustedPort(d) = NoPort => req.port = NoPort /\ Port = DefaultPort(s)
  <2>1. Port # NoPort
        BY RoutingAssumption DEF Port, DefaultPort
  <2>2. req.port = NoPort => req.scheme \in {"http", "https"}
        BY Zenon DEF PortKept, Request
  <2> QED BY <2>1, <2>2 DEF AdjustedPort, Port, DefaultPort
<1>4. AdjustedPort(d) # NoPort => AdjustedPort(d) = Port
      BY DEF AdjustedPort, Port
<1>5. Port' = IF req'.port = NoPort THEN DefaultPort(req'.scheme) ELSE req'.port
      BY DEF Port
<1>6. Port' = Port
      BY <1>1, <1>2, <1>3, <1>4, <1>5 DEF TrimPort
<1>7. AskedPort' = AskedPort
      BY <1>1 DEF AskedPort
<1>8. req'.scheme # ""
      BY <1>1
<1> QED BY <1>6, <1>7, <1>8, Zenon DEF PortKept

(* One more name of the route, and the mark on it.                         *)
LEMMA ViaGrows ==
  ASSUME NEW route \in Seq(Names), NEW v \in Seq(Names),
         Len(v) < Len(route), v = SubSeq(route, 1, Len(v))
  PROVE  /\ Len(Append(v, route[Len(v) + 1])) = Len(v) + 1
         /\ Append(v, route[Len(v) + 1]) = SubSeq(route, 1, Len(v) + 1)
<1> DEFINE n == Len(v)
           q == SubSeq(route, 1, n + 1)
           a == Append(v, route[n + 1])
<1>1. n \in Nat /\ Len(route) \in Nat /\ n + 1 \in 1 .. Len(route) /\ route[n + 1] \in Names
      OBVIOUS
<1>2. a \in Seq(Names) /\ Len(a) = n + 1 /\ a[n + 1] = route[n + 1]
      /\ \A i \in 1 .. n : a[i] = v[i]
      BY <1>1
<1>3. \A i \in 1 .. n : v[i] = route[i]
  <2>1. \A i \in 1 .. n : SubSeq(route, 1, n)[i] = route[i]
    <3> HIDE DEF n
    <3> QED BY <1>1
  <2> QED BY <2>1
<1>4. q \in Seq(Names) /\ Len(q) = n + 1 /\ \A i \in 1 .. n + 1 : q[i] = route[i]
  <2> HIDE DEF n
  <2> QED BY <1>1
<1>5. \A i \in 1 .. Len(a) : a[i] = q[i]
  <2> HIDE DEF a, q, n
  <2> QED BY <1>1, <1>2, <1>3, <1>4
<1>6. a = q
  <2> HIDE DEF a, q
  <2>1. Len(a) = Len(q) BY <1>2, <1>4
  <2> QED BY <1>2, <1>4, <1>5, <2>1, SeqEqual, Zenon
<1> QED BY <1>2, <1>6

(* A hop hands on a well-formed request.                                   *)
LEMMA HopTypes ==
  ASSUME TypeOK, NEW to \in Nodes, Hop(D, to)
  PROVE  /\ req' \in Request /\ at' \in Nodes
         /\ asked' = asked /\ outcome' = outcome /\ sent' = sent
<1>1. req \in Request
      BY DEF TypeOK
<1>2. AdjustedHost(D) \in Seq(Labels)
      BY <1>1, DomainType, Zenon DEF AdjustedHost, D, Request
<1>3. AdjustedPort(D) \in Ports \union {NoPort}
      BY <1>1, RoutingAssumption, Zenon DEF AdjustedPort, Port, DefaultPort, Request
<1>4. \A s : TrimPort(s, AdjustedPort(D)) \in Ports \union {NoPort}
      BY <1>3 DEF TrimPort
<1>5. req.kind \in {"connect", "upgrade", "plain"}
      BY <1>1, Zenon DEF Request
<1>6. req' \in Request
  <2> DEFINE s == IF req.scheme = "https" THEN "https" ELSE "http"
  <2>1. req' = [host |-> AdjustedHost(D), port |-> TrimPort(s, AdjustedPort(D)),
                kind |-> req.kind, scheme |-> s]
        BY DEF Hop
  <2>2. s \in {"", "http", "https"}
        OBVIOUS
  <2> HIDE DEF s
  <2> QED BY <1>2, <1>4, <1>5, <2>1, <2>2, Zenon DEF Request
<1> QED BY <1>6 DEF Hop

(* What is sent to a server or a proxy is well formed and has a port.      *)
LEMMA SentTypes ==
  ASSUME TypeOK
  PROVE  /\ D.DialHostname \in Seq(Labels) /\ AdjustedHost(D) \in Seq(Labels)
         /\ DialHost(D) \in Seq(Labels) /\ Port \in Ports
<1>1. req \in Request /\ req.host \in Seq(Labels)
      BY Zenon DEF TypeOK, Request
<1>2. D.DialHostname \in Seq(Labels) /\ D.NextHostname \in Seq(Labels)
      BY <1>1, DomainType DEF D
<1>3. Port \in Ports
      BY <1>1, RoutingAssumption, Zenon DEF Port, DefaultPort, Request
<1> QED BY <1>1, <1>2, <1>3 DEF AdjustedHost, DialHost

(* Every step of every node keeps the types.                               *)
LEMMA TypeStep == TypeOK /\ [Next]_vars => TypeOK'
<1> SUFFICES ASSUME TypeOK, [Next]_vars PROVE TypeOK'
    OBVIOUS
<1>0. at \in Nodes /\ DOMAIN Proxies[at] \subseteq Names /\ Routed[at] \subseteq Nodes
      BY RoutingAssumption DEF TypeOK
<1>1. CASE BadRequest(D) BY <1>1 DEF BadRequest, Ends, TypeOK
<1>2. CASE ServeLocal(D)
      BY <1>2, SentTypes DEF ServeLocal, Ends, TypeOK
<1>3. CASE WithNotFound(D) BY <1>3 DEF WithNotFound, Ends, TypeOK
<1>4. CASE ProxyNext(D)
  <2>1. D.Next \in DOMAIN Proxies[at] /\ Proxies[at][D.Next] # Exist
        BY <1>4 DEF ProxyNext, ToNext
  <2>2. Proxies[at][D.Next] \in Nodes
        BY <1>0, <2>1, RoutingAssumption
  <2>3. via' \in Seq(Names)
        BY <1>0, <1>4, <2>1 DEF ProxyNext, TypeOK
  <2>4. Hop(D, Proxies[at][D.Next])
        BY <1>4 DEF ProxyNext
  <2>5. /\ req' \in Request /\ at' \in Nodes
        /\ asked' = asked /\ outcome' = outcome /\ sent' = sent
        BY <2>2, <2>4, HopTypes
  <2> QED BY <2>3, <2>5 DEF TypeOK
<1>5. CASE ProxyExist(D)
  <2>1. D.Next \in Names
        BY <1>0, <1>5 DEF ProxyExist, ToNext
  <2>2. via' \in Seq(Names)
        BY <1>5, <2>1 DEF ProxyExist, TypeOK
  <2>3. Empty \in Seq(Labels)
        BY DEF Empty
  <2> QED BY <1>5, <2>2, <2>3, SentTypes DEF ProxyExist, TypeOK
<1>6. CASE NextNotFound(D) BY <1>6 DEF NextNotFound, Ends, TypeOK
<1>7. CASE RouteToNode(D)
  <2>1. PICK to \in Routed[at] : Hop(D, to)
        BY <1>7 DEF RouteToNode
  <2>2. /\ req' \in Request /\ at' \in Nodes
        /\ asked' = asked /\ outcome' = outcome /\ sent' = sent
        BY <1>0, <2>1, HopTypes
  <2> QED BY <1>7, <2>2 DEF TypeOK, RouteToNode
<1>8. CASE RouteDirect(D)
      BY <1>8, SentTypes DEF RouteDirect, Ends, TypeOK
<1>9. CASE BadGateway(D) BY <1>9 DEF BadGateway, Ends, TypeOK
<1>10. CASE UNCHANGED vars BY <1>10 DEF vars, TypeOK
<1> QED BY <1>1, <1>2, <1>3, <1>4, <1>5, <1>6, <1>7, <1>8, <1>9, <1>10 DEF Next

(* Every step of every node keeps a wish on its way.                       *)
LEMMA WayStep == TypeOK /\ WayKept /\ [Next]_vars => WayKept'
<1> SUFFICES ASSUME TypeOK, WayKept, [Next]_vars PROVE WayKept'
    OBVIOUS
<1>0. CASE UNCHANGED vars
      BY <1>0, Zenon DEF vars, WayKept, Wished, Followed, OnTheWay, PastTheEnd, PortKept, Port,
                  AskedPort, HostAtEnd
<1> SUFFICES ASSUME Next PROVE WayKept'
    BY <1>0
<1>1. asked' = asked /\ outcome = "none"
      BY DEF Next, BadRequest, ServeLocal, WithNotFound, ProxyNext, ProxyExist, NextNotFound,
             RouteToNode, RouteDirect, BadGateway, Active, Ends, Hop
<1> SUFFICES ASSUME Wished PROVE WayKept'
    BY <1>1 DEF WayKept, Wished
<1> DEFINE w == asked.target
           k == Len(via)
           Hybrid == /\ D.ok /\ D.IsHybrid
                     /\ D.IsOver <=> w.kw = "over"
                     /\ D.DialHostname = w.dial
                     /\ D.IsEnd <=> k = Len(w.route)
                     /\ ~D.IsEnd => D.Next = w.route[k + 1]
                     /\ D.NextHostname = IF w.kw = "over" /\ D.IsEnd THEN w.dial
                                         ELSE HostAt(w, k + 1)
           Plain == D.ok /\ ~D.IsHybrid /\ PastTheEnd
<1>2. w \in Wishes /\ w.route \in Seq(Names) /\ Followed /\ PortKept /\ (Hybrid \/ Plain)
      BY <1>1, WishedDomain
<1>3. Followed /\ k \in Nat /\ Len(w.route) \in Nat /\ k <= Len(w.route)
      BY <1>2 DEF Followed, TypeOK
<1>4. k = Len(w.route) => via = w.route
      BY <1>2 DEF Followed
<1>5. UNCHANGED via => Followed'
      BY <1>1, <1>3 DEF Followed
<1> HIDE DEF w, k
<1>6. ASSUME UNCHANGED via, outcome' \notin {"none", "served", "dialled"} PROVE WayKept'
      BY <1>5, <1>6 DEF WayKept
<1>7. CASE BadRequest(D) \/ WithNotFound(D) \/ NextNotFound(D) \/ BadGateway(D)
      BY <1>6, <1>7 DEF BadRequest, WithNotFound, NextNotFound, BadGateway, Ends
<1>8. CASE ServeLocal(D)
  <2>1. Hybrid /\ D.IsEnd
        BY <1>2, <1>8 DEF ServeLocal, AtEnd
  <2>2. k = Len(w.route)
        BY <2>1
  <2>3. D.NextHostname = IF w.kw = "over" THEN w.dial ELSE HostOf(w)
        BY <1>2, <2>1, <2>2, UnmarkedHost
  <2>4. sent' = [dial |-> w.dial, port |-> Port, host |-> D.NextHostname]
        BY <1>8, <2>1 DEF ServeLocal, AdjustedHost
  <2>5. via' = via /\ outcome' = "served"
        BY <1>8 DEF ServeLocal, Ends
  <2>6. Port = AskedPort
        BY <1>2, Zenon DEF PortKept
  <2>7. HostAtEnd'
        BY <1>1, <2>3, <2>4, <2>6 DEF HostAtEnd, AskedPort, w
  <2> QED BY <1>1, <1>4, <1>5, <2>2, <2>5, <2>7 DEF WayKept, w
<1>9. CASE ProxyNext(D) \/ ProxyExist(D)
  <2>1. Hybrid /\ ~D.IsEnd /\ via' = Append(via, D.Next)
        BY <1>2, <1>9 DEF ProxyNext, ProxyExist, ToNext
  <2>2. k < Len(w.route) /\ D.Next = w.route[k + 1]
        BY <1>3, <2>1
  <2>3. Len(via') = k + 1 /\ via' = SubSeq(w.route, 1, k + 1)
        BY <1>2, <2>1, <2>2, ViaGrows DEF k, Followed, TypeOK, w
  <2>4. Followed'
        BY <1>1, <1>3, <2>2, <2>3 DEF Followed, w
  <2>5. CASE ProxyNext(D)
    <3>1. Hop(D, Proxies[at][D.Next]) /\ outcome' = "none"
          BY <1>1, <2>5 DEF ProxyNext, Hop
    <3>2. PortKept'
          BY <1>2, <3>1, HopKeepsPort DEF TypeOK
    <3>3. req'.host = HostAt(w, k + 1)
          BY <2>1, <3>1 DEF Hop, AdjustedHost
    <3>4. OnTheWay'
          BY <1>1, <2>3, <3>3 DEF OnTheWay, w
    <3> QED BY <2>4, <3>1, <3>2, <3>4 DEF WayKept
  <2>6. CASE ProxyExist(D)
    <3>1. outcome' = "proxied"
          BY <2>6 DEF ProxyExist
    <3> QED BY <2>4, <3>1 DEF WayKept
  <2> QED BY <1>9, <2>5, <2>6
<1>10. CASE RouteToNode(D) \/ RouteDirect(D)
  <2>1. /\ via' = via /\ k = Len(w.route) /\ w.kw = "over"
        /\ AdjustedHost(D) = w.dial /\ DialHost(D) = w.dial
    <3>1. via' = via /\ ToRouteProxy(D)
          BY <1>10 DEF RouteToNode, RouteDirect, Ends
    <3>2. CASE Hybrid
          BY <3>1, <3>2 DEF ToRouteProxy, AtEnd, AdjustedHost, DialHost
    <3>3. CASE Plain
          BY <3>1, <3>3 DEF PastTheEnd, AdjustedHost, DialHost, w, k
    <3> QED BY <1>2, <3>2, <3>3
  <2>2. via' = w.route /\ via = w.route
        BY <1>4, <2>1
  <2>3. CASE RouteToNode(D)
    <3>1. PICK to \in Routed[at] : Hop(D, to)
          BY <2>3 DEF RouteToNode
    <3>2. PortKept'
          BY <1>2, <3>1, HopKeepsPort DEF TypeOK
    <3>3. req'.host = w.dial /\ outcome' = "none"
          BY <1>1, <2>1, <3>1 DEF Hop
    <3>4. PastTheEnd'
          BY <1>1, <2>1, <2>2, <3>3 DEF PastTheEnd, w
    <3> QED BY <1>5, <2>1, <3>2, <3>3, <3>4 DEF WayKept
  <2>4. CASE RouteDirect(D)
    <3>1. /\ sent' = [dial |-> w.dial, port |-> Port, host |-> w.dial]
          /\ outcome' = "dialled"
          BY <2>1, <2>4 DEF RouteDirect, Ends
    <3>2. Port = AskedPort
          BY <1>2, Zenon DEF PortKept
    <3>3. HostAtEnd'
          BY <1>1, <2>1, <3>1, <3>2 DEF HostAtEnd, AskedPort, w
    <3> QED BY <1>1, <1>5, <2>1, <2>2, <3>1, <3>3 DEF WayKept, w
  <2> QED BY <1>10, <2>3, <2>4
<1> QED BY <1>7, <1>8, <1>9, <1>10 DEF Next

(* The inductive invariant, for any network of nodes and any wishes that   *)
(* can be read back.                                                       *)
THEOREM RoutingInvariance == Spec => []IInv
<1>1. IInv /\ [Next]_vars => IInv'
      BY TypeStep, WayStep DEF IInv
<1> QED BY <1>1, RoutingInit, PTL DEF Spec

(* The types: every request that is handed on is well formed, and whatever *)
(* is sent to a server or a proxy has a port (newContext).                 *)
THEOREM RoutingTypes == Spec => []TypeOK
<1>1. IInv => TypeOK
      BY DEF IInv
<1> QED BY <1>1, RoutingInvariance, PTL

(* A request goes through the proxies that its hostname names, in their    *)
(* order, and ends after the last one (NewDomain, Core.Proxy).             *)
THEOREM RouteIsFollowed == Spec => []RouteFollowed
<1>1. IInv => RouteFollowed
      BY DEF IInv, WayKept, Followed, RouteFollowed
<1> QED BY <1>1, RoutingInvariance, PTL

(* At its end the host and the port asked for are dialled, with the Host   *)
(* that Domain promises (adjustRequestAndDialHost, H2Client, ServeHTTP).   *)
THEOREM HostReachesTheEnd == Spec => []HostAtEnd
<1>1. IInv => HostAtEnd
      BY DEF IInv, WayKept, HostAtEnd
<1> QED BY <1>1, RoutingInvariance, PTL
=============================================================================
