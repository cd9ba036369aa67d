------------------------------- MODULE Scopes -------------------------------
(***************************************************************************)
(* Several scopes behind one composition root                              *)
(* (fabric/cmd/fabricd/compose.go): an orchestrator, an append queue and a *)
(* writer for each, but one server, and so one map of claimed names and    *)
(* one consent index.  Every orchestrator numbers its exchanges from 1     *)
(* under the same run id, so an exchange of one scope has the id of its    *)
(* twin in the other.                                                      *)
(*                                                                         *)
(* A consent crosses all of it: an ask goes down its scope's pipeline to   *)
(* the principal's page, the answer is posted, the index says into which   *)
(* scope it goes.  What Fabricd and Orchestrator model of one scope in     *)
(* detail (thinks, gates, adoption, marks, shutdown) is here a choice: a   *)
(* voice says what it likes, names whom it likes, the world accepts or     *)
(* refuses.  Says, hails and murmurs share the queues and are left out, so *)
(* a queue may be found full at any time.                                  *)
(***************************************************************************)
EXTENDS Integers, Sequences

CONSTANTS
  ScopeIds,     \* the scopes, household and street
  SeedsOf,      \* the seed voices of each scope
  Residents,    \* the agent voices that can be claimed
  Calls,        \* names for the answers that can be posted
  Addressed,    \* whom an opening proposal may name in its To
  NoScope,
  TurnCap,      \* Config.TurnCap, 12 in the code
  QueueSize,    \* appendQueueSize, 1024 in the code
  MaxDeals      \* bound: exchanges per scope

SeedVoices == UNION {SeedsOf[s] : s \in ScopeIds}

Voices == SeedVoices \cup Residents

ASSUME ScopesAssumption ==
  /\ NoScope \notin ScopeIds
  /\ Addressed \subseteq SUBSET Voices
  /\ SeedVoices \cap Residents = {}      \* no seed's name ends in "-agent"
  /\ TurnCap \in Nat \ {0} /\ QueueSize \in Nat /\ MaxDeals \in Nat

VARIABLES
  claimed,      \* server.claimed: resident -> scope
  deals,        \* per scope, its exchanges; the id is the position
  appendQ,      \* scopeState.appendQ
  index,        \* server.exchanges: id -> scope; the proposer only addresses
  prompts,      \* the asks that stand before their principals, unanswered
  answers,      \* the principals' answers, from the page to the funnel
  unlisted      \* history: exchanges whose opening a full queue dropped

vars == <<claimed, deals, appendQ, index, prompts, answers, unlisted>>

(***************************************************************************)
(* An exchange.  Its pending proposal is a number that stands for the      *)
(* terms: 1 for the one that opened it, one more for each counter-offer.   *)
(* Its turns are left out: a reply at the cap becomes a withdraw, which a  *)
(* voice may say anyway; what is left is how many proposals fit.           *)
(***************************************************************************)
Deal == [status : {"open", "settled", "abandoned"}, parts : SUBSET Voices,
         proposer : Voices, offer : Nat]

VoiceKinds == {"propose", "accept", "decline", "withdraw", "ask_principal"}

Ask == [voice : Residents, scope : ScopeIds, exc : Nat, offer : Nat]

Note ==             \* of all envelopes only an ask's sender matters down the line
  [kind : (VoiceKinds \cup {"settle"}) \ {"ask_principal"}, exc : Nat]
    \cup [kind : {"ask_principal"}, exc : Nat, ask : Ask]

Unposted == [stage |-> "unused"]

Answer == {Unposted}
  \cup [stage : {"sent", "lost", "unknown"}, ask : Ask, approve : BOOLEAN]
  \cup [stage : {"found", "ready", "nothing", "landed"}, ask : Ask, approve : BOOLEAN,
        at : ScopeIds]

ScopesTypeOK ==
  /\ claimed \in [Residents -> ScopeIds \cup {NoScope}]
  /\ deals \in [ScopeIds -> Seq(Deal)]
  /\ appendQ \in [ScopeIds -> Seq(Note)]
  /\ \A s \in ScopeIds : Len(appendQ[s]) <= QueueSize
  /\ DOMAIN index \subseteq Nat
  /\ \A e \in DOMAIN index : index[e] \in ScopeIds
  /\ prompts \subseteq Ask
  /\ answers \in [Calls -> Answer]
  /\ unlisted \subseteq ScopeIds \X Nat

ScopesInit ==
  /\ claimed = [v \in Residents |-> NoScope]
  /\ deals = [s \in ScopeIds |-> <<>>]
  /\ appendQ = [s \in ScopeIds |-> <<>>]
  /\ index = [e \in {} |-> e]
  /\ prompts = {}
  /\ answers = [k \in Calls |-> Unposted]
  /\ unlisted = {}

(***************************************************************************)
(* onClaim: a name is claimed once in the whole world, not once per scope. *)
(***************************************************************************)
Claim(v, s) ==
  /\ claimed[v] = NoScope
  /\ claimed' = [claimed EXCEPT ![v] = s]
  /\ UNCHANGED <<deals, appendQ, index, prompts, answers, unlisted>>

Here(s) == SeedsOf[s] \cup {v \in Residents : claimed[v] = s}

(***************************************************************************)
(* The funnel of one scope: what goes on the record, under one mutex.      *)
(***************************************************************************)
IsOpen(s, e) == e \in DOMAIN deals[s] /\ deals[s][e].status = "open"

MatchesAnyVoice(s, v, kind, e) ==   \* variant: from an outsider too
  /\ kind = "accept"
  /\ IsOpen(s, e)
  /\ v # deals[s][e].proposer

Matches(s, v, kind, e) ==
  /\ kind = "accept"
  /\ IsOpen(s, e)
  /\ v \in deals[s][e].parts \ {deals[s][e].proposer}

(***************************************************************************)
(* Append, one envelope at a time and never waiting: what finds the queue  *)
(* full is dropped.                                                        *)
(***************************************************************************)
Kept(notes) == {<<>>, notes} \cup {<<notes[i]>> : i \in DOMAIN notes}

Put(s, notes) ==
  \E kept \in Kept(notes) :
    /\ Len(appendQ[s]) + Len(kept) <= QueueSize
    /\ appendQ' = [appendQ EXCEPT ![s] = @ \o kept]

Said(kind, e) == [kind |-> kind, exc |-> e]

Asked(s, v, e) ==
  [kind |-> "ask_principal", exc |-> e,
   ask |-> [voice |-> v, scope |-> s, exc |-> e, offer |-> deals[s][e].offer]]

Opening(s, v, to) ==                \* a bare propose opens an exchange
  LET e == Len(deals[s]) + 1
  IN  /\ deals' = [deals EXCEPT ![s] = Append(@,
           [status |-> "open", parts |-> {v} \cup to, proposer |-> v, offer |-> 1])]
      /\ Put(s, <<Said("propose", e)>>)
      /\ unlisted' = IF appendQ' = appendQ THEN unlisted \cup {<<s, e>>} ELSE unlisted

Turn(s, v, kind, e, status) ==
  deals' = [deals EXCEPT ![s][e] =
    IF kind = "propose"
    THEN [status |-> status, parts |-> @.parts, proposer |-> v, offer |-> @.offer + 1]
    ELSE [status |-> status, parts |-> @.parts, proposer |-> @.proposer, offer |-> @.offer]]

Funnel(s, v, kind, e) ==
  LET said == IF kind = "ask_principal" THEN Asked(s, v, e) ELSE Said(kind, e)
  IN  /\ \/ /\ ~IsOpen(s, e)           \* record only
            /\ UNCHANGED deals
            /\ Put(s, <<said>>)
         \/ /\ IsOpen(s, e)            \* one more turn
            /\ ~Matches(s, v, kind, e)
            /\ Turn(s, v, kind, e, IF kind = "withdraw" THEN "abandoned" ELSE "open")
            /\ Put(s, <<said>>)
         \/ /\ Matches(s, v, kind, e)  \* settles, or the world refuses
            /\ \E r \in {[status |-> "settled", kind |-> "settle"],
                         [status |-> "abandoned", kind |-> "decline"]} :
                 /\ Turn(s, v, kind, e, r.status)
                 /\ Put(s, <<said, Said(r.kind, e)>>)
      /\ UNCHANGED unlisted

(***************************************************************************)
(* A voice of the scope opens an exchange with whomever it names, present  *)
(* or not, or speaks in one.  exchangeGate: nothing goes into an abandoned *)
(* exchange, and no proposal into one at the turn cap.  Only a resident    *)
(* has a principal whom it may ask.                                        *)
(***************************************************************************)
VoiceOpens(s, v, to) ==
  /\ v \in Here(s)
  /\ Len(deals[s]) < MaxDeals
  /\ Opening(s, v, to)
  /\ UNCHANGED <<claimed, index, prompts, answers>>

VoiceSpeaks(s, v, kind, e) ==
  /\ v \in Here(s)
  /\ kind = "ask_principal" => v \in Residents
  /\ deals[s][e].status # "abandoned"
  /\ kind = "propose" /\ IsOpen(s, e) => deals[s][e].offer < TurnCap
  /\ Funnel(s, v, kind, e)
  /\ UNCHANGED <<claimed, index, prompts, answers>>

(***************************************************************************)
(* The writer of one scope: index first, then store and broadcast, if the  *)
(* store does its part.  On the page an ask becomes a prompt and any       *)
(* closing envelope takes its exchange's prompts away.  One step: what     *)
(* another scope's writer does in between could as well come before or     *)
(* after.                                                                  *)
(***************************************************************************)
IndexedForgetsDeclined(s, p) ==     \* variant: pruned on decline too
  IF p.kind = "propose"
  THEN [e \in DOMAIN index \cup {p.exc} |->
          IF e = p.exc THEN s ELSE index[e]]
  ELSE IF p.kind \in {"settle", "withdraw", "decline"}
  THEN [e \in DOMAIN index \ {p.exc} |-> index[e]]
  ELSE index

Indexed(s, p) ==
  IF p.kind = "propose"
  THEN [e \in DOMAIN index \cup {p.exc} |->
          IF e = p.exc THEN s ELSE index[e]]
  ELSE IF p.kind \in {"settle", "withdraw"}
  THEN [e \in DOMAIN index \ {p.exc} |-> index[e]]
  ELSE index

Shown(s, p) ==
  IF p.kind = "ask_principal"
  THEN prompts \cup {p.ask}
  ELSE IF p.kind = "propose" THEN prompts
  ELSE {a \in prompts : ~(a.scope = s /\ a.exc = p.exc)}

Record(s) ==
  /\ appendQ[s] # <<>>
  /\ appendQ' = [appendQ EXCEPT ![s] = Tail(@)]
  /\ index' = Indexed(s, Head(appendQ[s]))
  /\ prompts' \in {Shown(s, Head(appendQ[s])), prompts}
  /\ UNCHANGED <<claimed, deals, answers, unlisted>>

(***************************************************************************)
(* The answer: the page takes the buttons away and posts it, once; the     *)
(* post may be lost.  onConsent then takes three locks one after the       *)
(* other: the index, the pending terms, the funnel.                        *)
(***************************************************************************)
Post(k, a, approve) ==
  /\ answers[k] = Unposted
  /\ a \in prompts
  /\ prompts' = {b \in prompts : ~(b.voice = a.voice /\ b.exc = a.exc)}
  /\ answers' = [answers EXCEPT ![k] = [stage |-> "sent", ask |-> a, approve |-> approve]]
  /\ UNCHANGED <<claimed, deals, appendQ, index, unlisted>>

PostIsLost(k) ==
  /\ answers[k].stage = "sent"
  /\ answers' = [answers EXCEPT ![k].stage = "lost"]
  /\ UNCHANGED <<claimed, deals, appendQ, index, prompts, unlisted>>

Routed(a, stage, s) == [stage |-> stage, ask |-> a.ask, approve |-> a.approve, at |-> s]

Look(k) ==
  LET a == answers[k]
      e == a.ask.exc
  IN  /\ a.stage = "sent"
      /\ answers' = [answers EXCEPT ![k] =
           IF e \notin DOMAIN index THEN [a EXCEPT !.stage = "unknown"]
           ELSE Routed(a, IF a.approve THEN "found" ELSE "ready", index[e])]
      /\ UNCHANGED <<claimed, deals, appendQ, index, prompts, unlisted>>

Pending(k) ==
  LET a == answers[k]
  IN  /\ a.stage = "found"
      /\ answers' = [answers EXCEPT ![k] =
           Routed(a, IF IsOpen(a.at, a.ask.exc) THEN "ready" ELSE "nothing", a.at)]
      /\ UNCHANGED <<claimed, deals, appendQ, index, prompts, unlisted>>

Land(k) ==
  LET a == answers[k]
  IN  /\ a.stage = "ready"
      /\ Funnel(a.at, a.ask.voice, IF a.approve THEN "accept" ELSE "decline", a.ask.exc)
      /\ answers' = [answers EXCEPT ![k] = Routed(a, "landed", a.at)]
      /\ UNCHANGED <<claimed, index, prompts>>

ScopesNext ==
  \/ \E v \in Residents, s \in ScopeIds : Claim(v, s)
  \/ \E s \in ScopeIds, v \in Voices :
       \/ \E to \in Addressed : VoiceOpens(s, v, to)
       \/ \E kind \in VoiceKinds, e \in DOMAIN deals[s] : VoiceSpeaks(s, v, kind, e)
  \/ \E s \in ScopeIds : Record(s)
  \/ \E k \in Calls :
       \/ \E a \in prompts, approve \in BOOLEAN : Post(k, a, approve)
       \/ PostIsLost(k) \/ Look(k) \/ Pending(k) \/ Land(k)

ScopesSpec == ScopesInit /\ [][ScopesNext]_vars
=============================================================================
