------------------------------ MODULE Domain ------------------------------
(***************************************************************************)
(* domain.NewDomain (src/pkg/domain/domain.go): a hostname names the host  *)
(* to reach, a keyword, and the nodes to go through,                       *)
(*     x.over.a.b.c.hybrid                                                 *)
(* and a dash marks the node that holds the request.                       *)
(*                                                                         *)
(* A hostname is the sequence of its labels.  A label is a word with or    *)
(* without a leading dash, and of words the code tells apart: keywords,    *)
(* names nameRegex accepts, the empty word, and words nameRegex refuses.   *)
(***************************************************************************)
EXTENDS Naturals, Sequences, FiniteSetsExt

CONSTANTS
  Names,   \* words that are hybrid names
  Refused  \* words that nameRegex does not match

Keywords == {"hybrid", "over", "with"}

ASSUME DomainAssumption ==
  (Names \union Refused) \intersect (Keywords \union {""}) = {}

Word(w) == [dash |-> FALSE, word |-> w]
Dashed(w) == [dash |-> TRUE, word |-> w]

Labels == [dash : BOOLEAN, word : Names \union Refused \union Keywords \union {""}]

Empty == <<>>

IsHybridName(label) == ~label.dash /\ label.word \in Names

Bad == [ok |-> FALSE, IsHybrid |-> TRUE, IsOver |-> FALSE,
        DialHostname |-> Empty, Next |-> "", IsBegin |-> FALSE,
        IsEnd |-> FALSE, NextHostname |-> Empty]

NotHybrid(h) ==
  [Bad EXCEPT !.ok = TRUE, !.IsHybrid = FALSE, !.DialHostname = h]

HasSuffixHybrid(h) == Len(h) > 1 /\ h[Len(h)] = Word("hybrid")

(* Where ".with." stands last, or else ".over.": between two other labels. *)
KeywordsAt(h, kw) == {i \in 2 .. Len(h) - 1 : h[i] = Word(kw)}

KeywordAt(h) ==
  IF KeywordsAt(h, "with") # {} THEN Max(KeywordsAt(h, "with"))
  ELSE IF KeywordsAt(h, "over") # {} THEN Max(KeywordsAt(h, "over"))
  ELSE 0

(* The loop over rawRouters: the place of the first dash, or 0.            *)
MarkAt(route) ==
  IF \E i \in DOMAIN route : route[i].dash
  THEN CHOOSE i \in DOMAIN route :
         route[i].dash /\ \A j \in 1 .. i - 1 : ~route[j].dash
  ELSE 0

(* What the loop has looked at when it ends: every name up to the mark and *)
(* the one after it.                                                       *)
RouteAccepted(route) ==
  LET m == MarkAt(route)
      upTo == IF m = 0 THEN Len(route)
              ELSE IF m < Len(route) THEN m + 1 ELSE m
  IN  \A i \in 1 .. upTo :
        IF i = m THEN route[i].word \in Names ELSE IsHybridName(route[i])

(* NewDomain that leaves the mark where it is.                            *)
MoveMark_Stays(route) ==
  [i \in DOMAIN route |->
     IF i = 1 THEN Dashed(route[i].word) ELSE route[i]]

(* The mark goes to the next node; after the last one it is gone.          *)
MoveMark(route) ==
  LET m == MarkAt(route)
  IN  [i \in DOMAIN route |->
         CASE i = m     -> Word(route[i].word)
           [] i = m + 1 -> Dashed(route[i].word)
           [] OTHER     -> route[i]]

NewDomain(h) ==
  LET k == KeywordAt(h)
      isOver == h[k] = Word("over")
      dial == SubSeq(h, 1, k - 1)
      route == SubSeq(h, k + 1, Len(h) - 1)
      m == MarkAt(route)
      isEnd == m = Len(route)  \* the empty route included
  IN  IF ~HasSuffixHybrid(h) THEN NotHybrid(h)
      ELSE IF k = 0 \/ ~RouteAccepted(route) THEN Bad
      ELSE [ok |-> TRUE, IsHybrid |-> TRUE, IsOver |-> isOver,
            DialHostname |-> dial,
            Next |-> IF isEnd THEN "" ELSE route[m + 1].word,
            IsBegin |-> m = 0, IsEnd |-> isEnd,
            NextHostname |->
              IF isOver /\ isEnd THEN dial
              ELSE dial \o <<h[k]>> \o MoveMark(route)
                     \o <<Word("hybrid")>>]
===========================================================================
