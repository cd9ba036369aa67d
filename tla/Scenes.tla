------------------------------- MODULE Scenes -------------------------------
(***************************************************************************)
(* The two scopes fabricd boots (fabric/internal/scenes), with the fake    *)
(* brains that run them by default (fabric/internal/brain/fake.go): an     *)
(* orchestrator whose Relevant and Think are no longer free choices but    *)
(* the seeds' rule lists.  Seeds and residents have entered; a run is what *)
(* principals say to their agents, and what the voices make of it.         *)
(*                                                                         *)
(* Temperatures are in half degrees.  Of what a body or a say contains     *)
(* only the word a rule looks for is kept; murmurs, which no rule looks    *)
(* at, are left out.                                                       *)
(***************************************************************************)
EXTENDS Orchestrator

CONSTANTS
  Words,         \* what a principal says, by the rule it triggers
  RecentWindow,  \* recentWindow
  MaxSays        \* bound: what principals say, in all

VARIABLES
  minds,         \* per scheduled think: its trigger and, once begun, its view
  lastTemp,      \* the number of the last settle of a temperature, or 0
  answer,        \* what became of each ask_principal, by exchange
  passed,        \* history: exchanges with a think that was superseded
  said           \* how often principals have spoken

sceneVars == <<vars, minds, lastTemp, answer, passed, said>>

Residents == DOMAIN PrincipalOf

Principals == {PrincipalOf[v] : v \in Residents}

(***************************************************************************)
(* Household, Street, ResidentCharter and the 100 marks of a claim.        *)
(***************************************************************************)
Holding(may, solo) == [kind |-> "thing", mayPropose |-> may, solo |-> solo, limit |-> 0]

HouseholdCharters ==
  [heating  |-> Holding({"temperature.set"}, TRUE),
   lamp     |-> Holding({"lamp.set"}, TRUE),
   curtains |-> Holding({"curtains.set"}, TRUE),
   door     |-> Holding({}, FALSE)]

StreetCharters == [shop |-> Holding({"trade"}, TRUE)]

ResidentCharter ==
  [kind |-> "person", mayPropose |-> ComfortTypes \cup {"trade"}, solo |-> TRUE,
   limit |-> 10]

Stake == 100

Body ==                             \* Seed.State; a key a body lacks reads as 0
  [c \in ComfortTypes |-> IF c = "temperature.set" THEN 42 ELSE 1]

Peopled(seeds) ==
  [n \in Names |->
     IF n \in DOMAIN seeds THEN <<[charter |-> seeds[n], gen |-> 0]>>
     ELSE IF n \in Residents THEN <<[charter |-> ResidentCharter, gen |-> 0]>>
     ELSE <<>>]

ScenesInit ==
  /\ \E seeds \in {HouseholdCharters, StreetCharters} :
       /\ entries = Peopled(seeds)
       /\ things = [n \in Names |-> IF n \in DOMAIN seeds THEN Body ELSE NoThing]
  /\ marks = [n \in Names |-> IF n \in Residents THEN Stake ELSE 0]
  /\ exchanges = <<>> /\ excOrder = {}
  /\ timers = {} /\ uttSeq = 0 /\ out = <<>>
  /\ minds = [k \in {} |-> k]
  /\ lastTemp = 0
  /\ answer = [e \in {} |-> e]
  /\ passed = {} /\ said = 0

(***************************************************************************)
(* The rules.  Respond is what the first rule of voice v that matches      *)
(* trigger t answers; w is v's view.  Fake.Relevant asks whether there is  *)
(* one, Fake.Think answers with it.                                        *)
(***************************************************************************)
Act(to, kind, terms) == [to |-> <<to>>, kind |-> kind, terms |-> terms]

Hail == [to |-> <<>>, kind |-> "hail", terms |-> NoTerms]

Silence == [to |-> <<>>, kind |-> "say", terms |-> NoTerms]

Comfort(type, value) == [type |-> type, form |-> "ok", value |-> value]

Bid(buyer) ==
  [type |-> "trade", form |-> "ok", price |-> 3, buyer |-> buyer, seller |-> "shop"]

Proposes(t, type) == t.kind = "propose" /\ t.terms # NoTerms /\ t.terms.type = type

Middle(a, b) == (a + b + 1) \div 2  \* roundHalf of the mean

Distance(a, b) == IF a < b THEN b - a ELSE a - b

(***************************************************************************)
(* "voice:principal:..." is no agent's and no seed's name, and no seed's   *)
(* name ends in "-agent".  The schemas accept what the rules propose: the  *)
(* temperatures of Values, of which any two have their middle in Values.   *)
(***************************************************************************)
ASSUME ScenesAssumption ==
  LET Seeds == DOMAIN HouseholdCharters \cup DOMAIN StreetCharters
  IN  /\ Seeds \cup Residents \subseteq Names
      /\ Seeds \cap Residents = {}
      /\ Principals \cap (Seeds \cup Residents) = {}
      /\ {0, 1, 38, 42, 46} \subseteq Values /\ Values \subseteq Nat
      /\ \A x, y \in Values :
           Middle(x, y) \in Values /\ Comfort("temperature.set", x) \in SchemaValid
      /\ Comfort("lamp.set", 1) \in SchemaValid
      /\ \A v \in Residents : Bid(v) \in SchemaValid
      /\ RecentWindow \in Nat /\ MaxSays \in Nat

(***************************************************************************)
(* True of any string; said here because the provers do not know it.       *)
(***************************************************************************)
ASSUME LiteralsAssumption == ComfortTypes \cup {"trade"} \subseteq STRING

HeatingWavers(t, w) ==              \* variant: a far ask of an unsettled body is let be
  IF Distance(t.terms.value, w.temp) > 3
  THEN IF w.settled
       THEN Act(t.from, "propose", Comfort("temperature.set", Middle(t.terms.value, w.temp)))
       ELSE Silence
  ELSE Act(t.from, "accept", t.terms)

HeatingResponds(t, w) ==
  IF Distance(t.terms.value, w.temp) > 3 /\ w.settled
  THEN Act(t.from, "propose", Comfort("temperature.set", Middle(t.terms.value, w.temp)))
  ELSE Act(t.from, "accept", t.terms)

ResidentHaggles(v, t) ==            \* variant: insists instead of taking the middle
  CASE t.from \in Principals /\ t.word = "cold" ->
         Act("heating", "propose", Comfort("temperature.set", 46))
    [] t.from \in Principals /\ t.word = "warm" ->
         Act("heating", "propose", Comfort("temperature.set", 38))
    [] t.from = "heating" /\ Proposes(t, "temperature.set") ->
         Act("heating", "propose", Comfort("temperature.set", 38))
    [] OTHER -> Silence

ResidentBuys(v, t) ==               \* variant: takes a trade without asking
  CASE t.from \in Principals /\ t.word = "sweet" -> Hail
    [] Proposes(t, "trade") -> Act(t.from, "accept", t.terms)
    [] OTHER -> Silence

ResidentResponds(v, t) ==
  CASE t.from \in Principals /\ t.word = "cold" ->
         Act("heating", "propose", Comfort("temperature.set", 46))
    [] t.from \in Principals /\ t.word = "warm" ->
         Act("heating", "propose", Comfort("temperature.set", 38))
    [] t.from \in Principals /\ t.word = "dark" ->
         Act("lamp", "propose", Comfort("lamp.set", 1))
    [] t.from \in Principals /\ t.word = "sweet" -> Hail
    [] Proposes(t, "trade") -> Act(PrincipalOf[v], "ask_principal", NoTerms)
    [] t.from = "heating" /\ Proposes(t, "temperature.set") ->
         Act("heating", "accept", t.terms)
    [] OTHER -> Silence

Respond(v, t, w) ==
  CASE v = "heating" /\ Proposes(t, "temperature.set") -> HeatingResponds(t, w)
    [] v = "lamp" /\ Proposes(t, "lamp.set") -> Act(t.from, "accept", t.terms)
    [] v = "curtains" /\ Proposes(t, "curtains.set") -> Act(t.from, "accept", t.terms)
    [] v = "door" /\ t.kind = "hail" -> Act(t.from, "say", NoTerms)
    [] v = "shop" /\ t.kind = "hail" -> Act(t.from, "propose", Bid(t.from))
    [] v \in Residents -> ResidentResponds(v, t)
    [] OTHER -> Silence

(***************************************************************************)
(* Orchestrator.view, as far as a rule reads it.                           *)
(***************************************************************************)
NoView == [temp |-> 0, settled |-> FALSE]

View(v) ==
  [temp |-> IF things[v] = NoThing THEN 0 ELSE things[v]["temperature.set"],
   settled |-> lastTemp # 0 /\ lastTemp > uttSeq - RecentWindow]

Trigger(post, word) ==
  [from |-> post.from, kind |-> post.kind, terms |-> post.terms, word |-> word]

(***************************************************************************)
(* What a step of the orchestrator does to the minds: exactly the voices   *)
(* that have a rule for what was recorded are scheduled, and remember it;  *)
(* a think that begins remembers its view.  No voice has a rule for an     *)
(* accept, a settle or a decline, so of two envelopes neither triggers.    *)
(***************************************************************************)
Hit(word) ==
  UNION {{v \in Audience(out'[i]) : Respond(v, Trigger(out'[i], word), View(v)) # Silence} :
           i \in DOMAIN out'}

Key(tm) == <<tm.voice, tm.gen>>

Mind(tm, word) ==
  LET known == Key(tm) \in DOMAIN minds
  IN  [trigger |-> IF known THEN minds[Key(tm)].trigger ELSE Trigger(out'[1], word),
       view |-> IF known /\ minds[Key(tm)].view # NoView THEN minds[Key(tm)].view
                ELSE IF tm.phase = "thinking" THEN View(tm.voice) ELSE NoView]

Heard(word) ==
  /\ {v \in Names : entries'[v] # entries[v]} = Hit(word)
  /\ minds' = [k \in {Key(tm) : tm \in timers'} |->
                 Mind(CHOOSE tm \in timers' : Key(tm) = k, word)]
  /\ passed' = passed \cup
       {tm.exc : tm \in {u \in timers : ~Stale(u) /\ entries'[u.voice] # entries[u.voice]}}
  /\ lastTemp' = IF \E i \in DOMAIN out' : /\ out'[i].kind = "settle"
                                           /\ out'[i].terms.type = "temperature.set"
                 THEN uttSeq' ELSE lastTemp

(***************************************************************************)
(* What happens: a principal speaks, or answers an ask (onConsent, see     *)
(* Fabricd), or a think goes on.  The fake answers every trigger it was    *)
(* scheduled for, so a think ends without a word only where the            *)
(* orchestrator discards it.                                               *)
(***************************************************************************)
Says(v, word) ==
  /\ said < MaxSays
  /\ PrincipalSays(v)
  /\ Heard(word)
  /\ said' = said + 1
  /\ UNCHANGED answer

Answers(e, approve) ==
  LET offer == exchanges[e].pending
  IN  /\ answer[e] = "waiting"
      /\ IsOpen(e)
      /\ Inject([from |-> offer.terms.buyer, to |-> <<offer.from>>,
                 kind |-> IF approve THEN "accept" ELSE "decline",
                 terms |-> IF approve THEN offer.terms ELSE NoTerms], e)
      /\ Heard("")
      /\ answer' = [answer EXCEPT ![e] = IF approve THEN "yes" ELSE "no"]
      /\ UNCHANGED said

Scripted(tm) == Respond(tm.voice, minds[Key(tm)].trigger, minds[Key(tm)].view)

Discarded(tm) ==
  Stale(tm) \/ Abandoned(tm.exc) \/ Barred(Reply(tm, Scripted(tm)), OwnEntry(tm).charter)

Speaks(tm) ==
  /\ ThinkSpeaks(tm, Scripted(tm))
  /\ Heard(IF Scripted(tm) = Hail THEN minds[Key(tm)].trigger.word ELSE "")
  /\ answer' = IF Scripted(tm).kind = "ask_principal"
               THEN [e \in DOMAIN answer \cup {tm.exc} |->
                       IF e = tm.exc THEN "waiting" ELSE answer[e]]
               ELSE answer
  /\ UNCHANGED said

Continues(tm) ==
  /\ \/ Fire(tm) \/ ThinkBegin(tm) \/ ThinkCapped(tm)
     \/ tm.phase = "thinking" /\ Discarded(tm) /\ ThinkFails(tm)
  /\ Heard("")
  /\ UNCHANGED <<answer, said>>

Thinks == \E tm \in timers : Continues(tm) \/ Speaks(tm)

ScenesNext ==
  \/ \E v \in Residents, word \in Words : Says(v, word)
  \/ \E e \in DOMAIN answer, approve \in BOOLEAN : Answers(e, approve)
  \/ Thinks

ScenesSpec == ScenesInit /\ [][ScenesNext]_sceneVars

(***************************************************************************)
(* While thinks are scheduled, one of them goes on: timers expire and      *)
(* callbacks get the mutex.  Principals owe nothing.                       *)
(***************************************************************************)
ScenesFairSpec == ScenesSpec /\ WF_sceneVars(Thinks)
=============================================================================
