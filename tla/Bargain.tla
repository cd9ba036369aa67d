------------------------------- MODULE Bargain -------------------------------
(***************************************************************************)
(* What the fabric promises about agreements, without saying how: a deal   *)
(* is open until it is closed once, as settled or abandoned; the world     *)
(* changes exactly when a deal settles, by the terms on the table, between *)
(* the one who put them there and another participant; a trade moves the   *)
(* marks of those two only and never below zero.  Laws 4 and 6 of the      *)
(* fabric design.  There are no envelopes, brains, timers, turns or gates. *)
(***************************************************************************)
EXTENDS Protocol

CONSTANT NoThing

VARIABLES things, marks,
          deals      \* the deals ever opened: [status, parts, offer]

bargainVars == <<things, marks, deals>>

Deal == [status : {"open", "settled", "abandoned"},
         parts : SUBSET Names,
         offer : [from : Names, terms : Terms \cup {NoTerms}]]

BargainInit ==
  /\ things = [n \in Names |-> NoThing]
  /\ marks = [n \in Names |-> 0]
  /\ deals = <<>>

(***************************************************************************)
(* The world outside: a voice gets a body, or is given marks.              *)
(***************************************************************************)
Incarnate(v) ==
  /\ things' = [things EXCEPT ![v] = things'[v]]
  /\ things'[v] # NoThing
  /\ UNCHANGED <<marks, deals>>

Endow(v) ==
  /\ marks' = [marks EXCEPT ![v] = marks'[v]]
  /\ marks'[v] >= marks[v]
  /\ UNCHANGED <<things, deals>>

(***************************************************************************)
(* The life of a deal.                                                     *)
(***************************************************************************)
Open ==
  /\ Len(deals') = Len(deals) + 1
  /\ LET d == deals'[Len(deals')]
     IN  /\ d.status = "open"
         /\ d.offer.from \in d.parts
         /\ deals' = Append(deals, d)
  /\ UNCHANGED <<things, marks>>

Counter(e) ==
  /\ deals[e].status = "open"
  /\ deals' = [deals EXCEPT ![e].offer = deals'[e].offer]
  /\ UNCHANGED <<things, marks>>

Abandon(e) ==
  /\ deals[e].status = "open"
  /\ deals' = [deals EXCEPT ![e].status = "abandoned"]
  /\ UNCHANGED <<things, marks>>

Swap(offer, by) ==
  LET t == offer.terms
  IN  /\ t.type = "trade"
      /\ {t.buyer, t.seller} \subseteq {offer.from, by}
      /\ t.price \in 0 .. marks[t.buyer]
      /\ \/ t.buyer = t.seller /\ UNCHANGED marks
         \/ /\ t.buyer # t.seller
            /\ marks' = [[marks EXCEPT ![t.buyer] = @ - t.price] EXCEPT ![t.seller] = @ + t.price]
      /\ UNCHANGED things

Adjust(offer, parts) ==
  /\ offer.terms.type \in ComfortTypes
  /\ \E p \in parts :
       /\ things[p] # NoThing
       /\ things' = [things EXCEPT ![p][offer.terms.type] = offer.terms.value]
  /\ UNCHANGED marks

Close(e, by) ==
  LET d == deals[e]
  IN  /\ d.status = "open"
      /\ d.offer.terms # NoTerms
      /\ by \in d.parts \ {d.offer.from}
      /\ Swap(d.offer, by) \/ Adjust(d.offer, d.parts)
      /\ deals' = [deals EXCEPT ![e].status = "settled"]

BargainNext ==
  \/ \E v \in Names : Incarnate(v) \/ Endow(v)
  \/ Open
  \/ \E e \in DOMAIN deals :
       Counter(e) \/ Abandon(e) \/ \E by \in Names : Close(e, by)

BargainSpec == BargainInit /\ [][BargainNext]_bargainVars
=============================================================================
