----------------------- MODULE OrchestratorProperties -----------------------
(***************************************************************************)
(* What makes the orchestrator correct.                                    *)
(***************************************************************************)
EXTENDS Orchestrator

(***************************************************************************)
(* Reading a step: the envelopes it put on the record.                     *)
(***************************************************************************)
Recorded == {out'[i] : i \in DOMAIN out'}

Spoke == uttSeq' # uttSeq

Live(tm) == ~Stale(tm)

-----------------------------------------------------------------------------
(***************************************************************************)
(* No sequence of credits and trades overdraws anyone: the price check in  *)
(* World.Apply is enough, for negative prices and self-trades too.         *)
(***************************************************************************)
MarksNeverNegative == \A n \in Names : marks[n] >= 0

(***************************************************************************)
(* Of all the thinks a voice has in flight, those of replaced charters     *)
(* included, at most one can still speak: a new trigger or a re-claim      *)
(* makes every older one stale, wherever it was (the generation check of   *)
(* scheduleThink and think).                                               *)
(***************************************************************************)
OneLiveThink ==
  \A t, u \in timers : t.voice = u.voice /\ Live(t) /\ Live(u) => t = u

(***************************************************************************)
(* The compaction of excOrder never loses an open exchange, so adoption    *)
(* still finds it.                                                         *)
(***************************************************************************)
OpenStaysListed == \A e \in DOMAIN exchanges : IsOpen(e) => e \in excOrder

(***************************************************************************)
(* The gates' prediction (settleTarget) is the funnel's decision           *)
(* (lifecycle), whoever accepts, whatever the accept addresses and whether *)
(* or not it names an exchange; the repository's own tripwire test calls a *)
(* drift between the two an economic-boundary bug.                         *)
(***************************************************************************)
GatePredictsFunnel ==
  \A from, to \in Names, e \in 0 .. Len(exchanges) + 1 :
    LET env == [from |-> from, to |-> <<to>>, kind |-> "accept", exc |-> e,
                terms |-> NoTerms]
    IN  SettleTarget(env) = IF Matches(env, ExchangeOf(env))
                            THEN ExchangeOf(env) ELSE NoExc

(***************************************************************************)
(* Law 6.  Speech changes the world only in a step that puts an accept and *)
(* its settle on the record: the settle carries the terms that were        *)
(* pending, somebody else's, in an open exchange the accepter takes part   *)
(* in.  And a settle on the record means the world now says so.            *)
(***************************************************************************)
LawfulSettle(accept, settle) ==
  LET x == exchanges[settle.exc]
      t == x.pending.terms
  IN  /\ accept.kind = "accept" /\ settle.kind = "settle"
      /\ accept.exc = settle.exc /\ IsOpen(settle.exc)
      /\ accept.from \in SetOf(x.parts) \ {x.pending.from}
      /\ settle.terms = t
      /\ t.type = "trade" =>
           /\ \A n \in Names : marks'[n] # marks[n] => n \in {accept.from, x.pending.from}
           /\ t.buyer # t.seller => marks'[t.buyer] = marks[t.buyer] - t.price
      /\ t.type # "trade" =>
           \E p \in SetOf(x.parts) :
             things[p] # NoThing /\ things'[p][t.type] = t.value

WorldChangesOnRecord == [][
  /\ Spoke /\ (marks' # marks \/ things' # things) => Len(out') = 2
  /\ (\E p \in Recorded : p.kind = "settle") \/ (Spoke /\ (marks' # marks \/ things' # things))
       => LawfulSettle(out'[1], out'[2])]_vars

(***************************************************************************)
(* Law 4 for marks, over the whole life of a deal.  When a trade settles,  *)
(* the buyer either spoke through a charter that allowed the price (the    *)
(* charter it holds if its brain accepted, one it has held if its brain    *)
(* proposed), or did not speak through its brain at all: it was injected,  *)
(* with its principal's consent.  And a brain never accepts a trade under  *)
(* a charter that wants the principal asked.                               *)
(***************************************************************************)
AuthorisedTrade(accept, x) ==
  LET t == x.pending.terms
      side == IF t.buyer = accept.from THEN accept.via ELSE x.pending.via
  IN  /\ accept.via = "think" => Current(accept.from).charter.solo
      /\ side = "think" =>
           \E i \in DOMAIN entries[t.buyer] :
             /\ t.price <= entries[t.buyer][i].charter.limit
             /\ t.buyer = accept.from => i = Len(entries[t.buyer])

TradesAreAuthorised == [][
  \A p \in Recorded :
    p.kind = "settle" /\ p.terms.type = "trade"
      => AuthorisedTrade(out'[1], exchanges[p.exc])]_vars

(***************************************************************************)
(* Whatever a brain proposes is in the mandate its voice holds when the    *)
(* words reach the record, even if the voice was re-claimed under another  *)
(* charter while the brain was thinking.                                   *)
(***************************************************************************)
MandateHoldsOnRecord == [][
  \A p \in Recorded :
    p.via = "think" /\ p.kind = "propose"
      => p.terms.type \in Current(p.from).charter.mayPropose]_vars

(***************************************************************************)
(* The exchange gate runs again after the brain call: an exchange that was *)
(* abandoned while a voice was thinking in it gets no reply, and none that *)
(* reached the turn cap gets one from a think inside it.                   *)
(***************************************************************************)
NoLateReply == [][
  \A p \in Recorded, tm \in timers \ timers' :
    p.via = "think" /\ tm.voice = p.from /\ tm.phase = "thinking"
      => ~Abandoned(tm.exc) /\ ~Capped(tm.exc) /\ Live(tm)]_vars

(***************************************************************************)
(* A closed exchange never changes again, in particular never settles      *)
(* twice, however late an accept arrives.                                  *)
(***************************************************************************)
ClosedIsFinal == [][
  \A e \in DOMAIN exchanges :
    exchanges[e].status # "open" => exchanges'[e] = exchanges[e]]_vars

(***************************************************************************)
(* Every think ends: superseded, failed, gated or spoken.                  *)
(***************************************************************************)
HasThink(v, i, g) ==
  \E tm \in timers : tm.voice = v /\ tm.inc = i /\ tm.gen = g

EveryThinkEnds ==
  \A v \in Names, i \in 1 .. MaxInc, g \in 1 .. 3 * MaxUtt :
    HasThink(v, i, g) ~> ~HasThink(v, i, g)

-----------------------------------------------------------------------------
(***************************************************************************)
(* The orchestrator implements Bargain: an exchange is a deal.             *)
(***************************************************************************)
Deals == [e \in DOMAIN exchanges |->
            [status |-> exchanges[e].status,
             parts |-> SetOf(exchanges[e].parts),
             offer |-> [from |-> exchanges[e].pending.from,
                        terms |-> exchanges[e].pending.terms]]]

Promise == INSTANCE Bargain WITH deals <- Deals

(***************************************************************************)
(* Whatever brains say and callers inject, agreements obey Bargain.        *)
(***************************************************************************)
KeepsBargain == Promise!BargainSpec

=============================================================================
