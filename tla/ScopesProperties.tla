-------------------------- MODULE ScopesProperties --------------------------
(***************************************************************************)
(* What several scopes behind one server owe a principal's answer, and the *)
(* instance TLC checks it on.                                              *)
(***************************************************************************)
EXTENDS Scopes

(***************************************************************************)
(* A yes that closes an exchange is that of one of its parties to somebody *)
(* else's offer, under the number its principal was asked about: in the    *)
(* scope of the ask the offer asked about, or one that countered it while  *)
(* the answer was on its way; in another scope an exchange of the same     *)
(* number, which only the shared index led to, and only if a voice there   *)
(* named the resident, who does not live there.  A no closes nothing, and  *)
(* a counter-offer the resident's own agent made meanwhile is not accepted *)
(* by its principal's yes.                                                 *)
(***************************************************************************)
Closes(s, e) == deals[s][e].status = "open" /\ deals'[s][e].status # "open"

AsAsked(ask, s, d) == s = ask.scope /\ d.offer = ask.offer

Countered(ask, s, d) == s = ask.scope /\ d.offer > ask.offer

Misrouted(ask, s) == s # ask.scope /\ ask.voice \notin Here(s)

YesBindsAParty == [][
  \A k \in Calls, s \in ScopeIds :
    \A e \in DOMAIN deals[s] :
      answers[k].stage = "ready" /\ answers'[k] # answers[k] /\ Closes(s, e)
        => LET ask == answers[k].ask
               d   == deals[s][e]
           IN  /\ answers[k].approve /\ e = ask.exc
               /\ ask.voice \in d.parts
               /\ d.proposer \in Here(s) \ {ask.voice}
               /\ AsAsked(ask, s, d) \/ Countered(ask, s, d) \/ Misrouted(ask, s)]_vars

(***************************************************************************)
(* An answer that was posted and never reaches its exchange, while that is *)
(* open, crossed an exchange of the same number in another scope, or its   *)
(* exchange never came into the index because a full queue dropped the     *)
(* proposal that opened it.  Declines, counter-offers, dropped settles and *)
(* asks, failed stores and slow writers lead none astray.                  *)
(***************************************************************************)
Missed(a) ==
  a.stage \in {"unknown", "nothing"} \/ (a.stage = "landed" /\ a.at # a.ask.scope)

Twin(ask) == \E s \in ScopeIds \ {ask.scope} : ask.exc \in DOMAIN deals[s]

NeverListed(ask) == <<ask.scope, ask.exc>> \in unlisted

OnlyTwinsGoAstray ==
  \A k \in Calls :
    LET a == answers[k]
    IN  Missed(a) /\ IsOpen(a.ask.scope, a.ask.exc) => Twin(a.ask) \/ NeverListed(a.ask)

-----------------------------------------------------------------------------
(***************************************************************************)
(* index: "which scope owns each exchange".  Said of an open exchange      *)
(* whose opening was not dropped and all of whose envelopes the writer has *)
(* indexed.                                                                *)
(***************************************************************************)
AllIndexed(s, e) ==
  <<s, e>> \notin unlisted /\ \A i \in DOMAIN appendQ[s] : appendQ[s][i].exc # e

IndexNamesOwner ==
  \A s \in ScopeIds : \A e \in DOMAIN deals[s] :
    IsOpen(s, e) /\ AllIndexed(s, e) => e \in DOMAIN index /\ index[e] = s

-----------------------------------------------------------------------------
(***************************************************************************)
(* A household and a street with a seed each, and a resident who can move  *)
(* into either.                                                            *)
(***************************************************************************)
MCSeedsOf == [s \in {"household", "street"} |->
                IF s = "household" THEN {"heating"} ELSE {"shop"}]

(***************************************************************************)
(* What TLC follows up.  Nothing beyond the end of the one answer, since   *)
(* no exchange opens again; she moves into the household, the street being *)
(* its mirror image; two envelopes wait at most, in one queue or in both;  *)
(* and the one counter-offer TurnCap leaves room for is made at home.      *)
(***************************************************************************)
MCBounds ==
  /\ \A k \in Calls : answers[k].stage \in {"unused", "sent", "found", "ready"}
  /\ claimed["her"] # "street"
  /\ Len(appendQ["household"]) + Len(appendQ["street"]) <= 2
  /\ \A e \in DOMAIN deals["street"] : deals["street"][e].offer = 1
=============================================================================
