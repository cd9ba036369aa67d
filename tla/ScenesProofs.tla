---------------------------- MODULE ScenesProofs ----------------------------
(***************************************************************************)
(* What comes of the seeds' and the residents' rules: nothing is bought    *)
(* unasked, nobody is left hanging, and the talk ends.                     *)
(***************************************************************************)
EXTENDS OrchestratorProofs, ScenesProperties, Sums

(***************************************************************************)
(* The invariant of the script: what every rule leads to.  The voices are  *)
(* those of one of the two scopes and the residents, each entered once.    *)
(***************************************************************************)
Charters(seeds) ==
  [n \in DOMAIN seeds \cup Residents |->
     IF n \in DOMAIN seeds THEN seeds[n] ELSE ResidentCharter]

InCast(seeds) ==
  \A n \in Names :
    IF n \in DOMAIN seeds \cup Residents
    THEN Len(entries[n]) = 1 /\ entries[n][1].charter = Charters(seeds)[n]
    ELSE entries[n] = <<>>

CastInv == InCast(HouseholdCharters) \/ InCast(StreetCharters)

(***************************************************************************)
(* Offers are those the rules make, between two voices, and a trade is bid *)
(* by the shop.                                                            *)
(***************************************************************************)
ScriptTerms ==
  {Comfort("temperature.set", x) : x \in Values} \cup {Comfort("lamp.set", 1)}
    \cup {Bid(v) : v \in Residents}

OfferOK(x) ==
  /\ x.pending.terms \in ScriptTerms
  /\ x.pending.terms.type = "trade"
       => /\ x.pending.terms.buyer \in Residents \cap SetOf(x.parts)
          /\ x.pending.from \notin Residents

OffersOK == \A e \in DOMAIN exchanges : OfferOK(exchanges[e])

(***************************************************************************)
(* Every think has a trigger and a view, and was scheduled by one of the   *)
(* rules: on a principal's word or a hail outside every exchange, or on an *)
(* offer of the other party in an exchange about what is offered.          *)
(***************************************************************************)
Triggers ==
  [from : Names, kind : Kinds, terms : Terms \cup {NoTerms}, word : Words \cup {""}]

Views == [temp : Values, settled : BOOLEAN]

MindsOK ==
  minds \in [{Key(tm) : tm \in timers} -> [trigger : Triggers, view : Views]]

TakesOffer(v, t) ==
  \/ v = "heating" /\ t.terms.type = "temperature.set"
  \/ v = "lamp" /\ t.terms.type = "lamp.set"
  \/ v \in Residents /\ t.terms.type = "trade"
  \/ v \in Residents /\ t.from = "heating" /\ t.terms.type = "temperature.set"

Prompted(v, exc, t) ==
  \/ /\ v \in Residents /\ t.from \in Principals /\ t.kind = "say"
     /\ t.word \in {"cold", "warm", "dark", "sweet"} /\ exc = NoExc
  \/ /\ v \in {"door", "shop"} /\ t.from \in Residents /\ t.kind = "hail"
     /\ exc = NoExc
  \/ /\ t.kind = "propose" /\ exc \in DOMAIN exchanges
     /\ t.terms \in ScriptTerms
     /\ t.terms.type = exchanges[exc].pending.terms.type
     /\ SetOf(exchanges[exc].parts) = {v, t.from} /\ v # t.from
     /\ t.from \in Residents \cup {"heating", "shop"}
     /\ t.from = "shop" <=> t.terms.type = "trade"
     /\ TakesOffer(v, t)

ThinksPrompted == \A tm \in timers : Prompted(tm.voice, tm.exc, minds[Key(tm)].trigger)

AsksOK ==
  /\ answer \in [DOMAIN answer -> {"waiting", "yes", "no"}]
  /\ \A e \in DOMAIN answer :
       e \in DOMAIN exchanges /\ exchanges[e].pending.terms.type = "trade"

ScriptInv == IInv /\ CastInv /\ OffersOK /\ MindsOK /\ ThinksPrompted /\ AsksOK

(***************************************************************************)
(* What the voices may still say on the words already said: to a word the  *)
(* hail and what follows, to a hail the bid and what follows, to a bid the *)
(* ask, and to an ask an answer and its settlement; a counter-offer is     *)
(* accepted.                                                               *)
(***************************************************************************)
Load(t) ==
  CASE t.kind = "say" -> 5
    [] t.kind = "hail" -> 4
    [] OTHER -> IF t.from = "heating" THEN 2 ELSE 3

Weigh(m) == [k \in DOMAIN m |-> Load(m[k].trigger)]

Loads(m) == SumFunctionOnSet(Weigh(m), DOMAIN m)

Waiting == {e \in DOMAIN answer : answer[e] = "waiting"}

TalkInv ==
  /\ IsFiniteSet(DOMAIN minds) /\ IsFiniteSet(DOMAIN answer)
  /\ said \in Nat
  /\ uttSeq + Loads(minds) + 2 * Cardinality(Waiting) <= 6 * said

(***************************************************************************)
(* An open exchange is attended while the one its offer is made to thinks  *)
(* of the answer, and then it thinks of that very offer.                   *)
(***************************************************************************)
Attends(tm) ==
  ~Stale(tm) /\ minds[Key(tm)].trigger.kind = "propose" /\ IsOpen(tm.exc)

OffersFresh ==
  \A tm \in timers :
    Attends(tm) => exchanges[tm.exc].pending.from = minds[Key(tm)].trigger.from

Answerless(e) == e \in DOMAIN answer /\ answer[e] \in {"waiting", "no"}

Remembered(e) ==
  \/ \E tm \in timers : Attends(tm) /\ tm.exc = e
  \/ Answerless(e)
  \/ Unattended(e)
  \/ e \in passed

NoneForgotten == \A e \in DOMAIN exchanges : IsOpen(e) => Remembered(e)

LeftInv == OffersFresh /\ NoneForgotten

-----------------------------------------------------------------------------
(***************************************************************************)
(* The rules.                                                              *)
(***************************************************************************)
LEMMA SeedNames ==
  /\ DOMAIN HouseholdCharters = {"heating", "lamp", "curtains", "door"}
  /\ DOMAIN StreetCharters = {"shop"}
BY DEF HouseholdCharters, StreetCharters

LEMMA SeedsAreNames ==
  /\ {"heating", "lamp", "curtains", "door", "shop"} \cup Residents \subseteq Names
  /\ {"heating", "lamp", "curtains", "door", "shop"} \cap Residents = {}
  /\ Principals \cap ({"heating", "lamp", "curtains", "door", "shop"} \cup Residents) = {}
  /\ Principals \subseteq Names
  /\ \A v \in Residents : PrincipalOf[v] \in Principals
<1>1. DOMAIN HouseholdCharters \cup DOMAIN StreetCharters
        = {"heating", "lamp", "curtains", "door", "shop"}
  BY SeedNames
<1>2. Principals \subseteq Names /\ \A v \in Residents : PrincipalOf[v] \in Principals
  BY PrincipalAssumption DEF Principals, Residents
<1> QED
  BY <1>1, <1>2, ScenesAssumption

LEMMA ScriptTermsOK ==
  /\ ScriptTerms \subseteq SchemaValid /\ ScriptTerms \subseteq Terms
  /\ NoTerms \notin ScriptTerms
  /\ {0, 1, 38, 42, 46} \subseteq Values /\ Values \subseteq Nat
  /\ \A t \in ScriptTerms :
       /\ t.type \in {"temperature.set", "lamp.set", "trade"}
       /\ t.type = "temperature.set" => t.value \in Values
       /\ t.type = "trade" => t.buyer \in Residents /\ t = Bid(t.buyer)
<1>1. ScriptTerms \subseteq SchemaValid
  BY ScenesAssumption DEF ScriptTerms
<1>2. \A t \in ScriptTerms :
        /\ t.type \in {"temperature.set", "lamp.set", "trade"}
        /\ t.type = "temperature.set" => t.value \in Values
        /\ t.type = "trade" => t.buyer \in Residents /\ t = Bid(t.buyer)
  BY DEF ScriptTerms, Comfort, Bid
<1> QED
  BY <1>1, <1>2, ScenesAssumption, TermsAssumption

(***************************************************************************)
(* What wakes which voice: the left-hand sides of the rules.               *)
(***************************************************************************)
Wakes(v, t) ==
  \/ v \in Residents /\ t.from \in Principals /\ t.word \in {"cold", "warm", "dark", "sweet"}
  \/ v \in {"door", "shop"} /\ t.kind = "hail"
  \/ Proposes(t, "curtains.set") /\ v = "curtains"
  \/ t.kind = "propose" /\ t.terms # NoTerms /\ TakesOffer(v, t)

LEMMA RulesWake ==
  ASSUME NEW v \in Names, NEW t, NEW w, Respond(v, t, w) # Silence
  PROVE  Wakes(v, t)
BY SeedsAreNames DEF Respond, ResidentResponds, Wakes, TakesOffer, Proposes

(***************************************************************************)
(* And the right-hand sides: what a voice says, by what woke it.           *)
(***************************************************************************)
LEMMA WordIsAnswered ==
  ASSUME NEW v \in Residents, NEW t, NEW w, t.from \in Principals, t.kind = "say",
         t.word \in {"cold", "warm", "dark", "sweet"}
  PROVE  \/ t.word = "sweet" /\ Respond(v, t, w) = Hail
         \/ t.word # "sweet"
            /\ \E x \in Values :
                 Respond(v, t, w) = Act("heating", "propose", Comfort("temperature.set", x))
         \/ t.word # "sweet"
            /\ Respond(v, t, w) = Act("lamp", "propose", Comfort("lamp.set", 1))
<1>1. v \notin {"heating", "lamp", "curtains", "door", "shop"}
  BY SeedsAreNames
<1>2. Respond(v, t, w) = ResidentResponds(v, t)
  BY <1>1 DEF Respond
<1>3. 38 \in Values /\ 46 \in Values
  BY ScriptTermsOK
<1> QED
  BY <1>2, <1>3 DEF ResidentResponds, Proposes

LEMMA HailIsAnswered ==
  ASSUME NEW v \in {"door", "shop"}, NEW t, NEW w, t.kind = "hail"
  PROVE  \/ v = "door" /\ Respond(v, t, w) = Act(t.from, "say", NoTerms)
         \/ v = "shop" /\ Respond(v, t, w) = Act(t.from, "propose", Bid(t.from))
BY SeedsAreNames DEF Respond, Proposes

LEMMA OfferIsAnswered ==
  ASSUME NEW v, NEW t, NEW w, t.kind = "propose", t.terms # NoTerms, TakesOffer(v, t),
         t.from \notin Principals
  PROVE  \/ /\ t.terms.type # "trade"
            /\ Respond(v, t, w) = Act(t.from, "accept", t.terms)
         \/ /\ v = "heating" /\ t.terms.type = "temperature.set"
            /\ Respond(v, t, w)
                 = Act(t.from, "propose", Comfort("temperature.set", Middle(t.terms.value, w.temp)))
         \/ /\ v \in Residents /\ t.terms.type = "trade"
            /\ Respond(v, t, w) = Act(PrincipalOf[v], "ask_principal", NoTerms)
<1>1. CASE v = "heating" /\ t.terms.type = "temperature.set"
  BY <1>1, SeedsAreNames DEF Respond, HeatingResponds, Proposes
<1>2. CASE v = "lamp" /\ t.terms.type = "lamp.set"
  BY <1>2, SeedsAreNames DEF Respond, Proposes
<1>3. ASSUME v \in Residents PROVE Respond(v, t, w) = ResidentResponds(v, t)
  BY <1>3, SeedsAreNames DEF Respond
<1>4. CASE v \in Residents /\ t.terms.type = "trade"
  BY <1>3, <1>4 DEF ResidentResponds, Proposes
<1>5. CASE v \in Residents /\ t.from = "heating" /\ t.terms.type = "temperature.set"
  <2>1. ResidentResponds(v, t) = Act("heating", "accept", t.terms)
    BY <1>5 DEF ResidentResponds, Proposes
  <2> QED
    BY <1>3, <1>5, <2>1
<1> QED
  BY <1>1, <1>2, <1>4, <1>5 DEF TakesOffer

LEMMA ActsAreNotSilence ==
  /\ \A n, k, t : Act(n, k, t) # Silence
  /\ Hail # Silence
<1>1. ASSUME NEW n, NEW k, NEW t PROVE Act(n, k, t) # Silence
  <2>1. Act(n, k, t).to = <<n>> /\ Silence.to = <<>>
    BY DEF Act, Silence
  <2>2. <<n>> # <<>>
    OBVIOUS
  <2> QED
    BY <2>1, <2>2
<1>2. Hail.kind = "hail" /\ Silence.kind = "say"
  BY DEF Hail, Silence
<1> QED
  BY <1>1, <1>2

-----------------------------------------------------------------------------
(***************************************************************************)
(* Scheduling, of voices entered once: those whose entry a record changes  *)
(* have a think of its exchange, of a number not used before; of the       *)
(* others, the thinks that were there stay.                                *)
(***************************************************************************)
LEMMA SeqFirst ==
  ASSUME NEW S, NEW s \in Seq(S), s # <<>>
  PROVE  1 \in DOMAIN s /\ s[1] \in S
<1>1. Len(s) # 0 /\ Len(s) \in Nat
  BY EmptySeq
<1> QED
  BY <1>1

LEMMA SeqOfOne ==
  ASSUME NEW S, NEW s \in Seq(S), s # <<>>, Len(s) <= 1
  PROVE  Len(s) = 1 /\ 1 \in DOMAIN s /\ s[1] \in S
<1>1. Len(s) # 0 /\ Len(s) \in Nat
  BY EmptySeq
<1>2. Len(s) = 1
  BY <1>1
<1>3. 1 \in DOMAIN s
  BY <1>2
<1> QED
  BY <1>2, <1>3

EnteredOnce == \A n \in Names : Len(entries[n]) <= 1

Known(v, gen) == \E tm \in timers : tm.voice = v /\ tm.gen = gen

LEMMA RecordThinks ==
  ASSUME IInv, EnteredOnce, NEW posts \in Seq(Post), posts # <<>>,
         NEW idle \in SUBSET timers, Record(posts, idle)
  PROVE  /\ \A n \in Names :
              /\ Len(entries'[n]) = Len(entries[n])
              /\ entries[n] # <<>> => entries'[n][1].charter = entries[n][1].charter
         /\ \A tm \in timers' :
              \/ tm \in idle
              \/ /\ tm.exc = posts[1].exc /\ ~Known(tm.voice, tm.gen)
                 /\ entries'[tm.voice] # entries[tm.voice]
                 /\ tm.inc = 1 /\ entries'[tm.voice][1].gen = tm.gen
         /\ \A tm \in idle : tm \in timers' \/ entries'[tm.voice] # entries[tm.voice]
         /\ \A v \in Names :
              entries'[v] # entries[v]
                => \E tm \in timers' :
                     /\ tm.voice = v /\ tm.exc = posts[1].exc /\ ~Known(v, tm.gen)
                     /\ entries'[v][tm.inc].gen = tm.gen
<1>1. /\ entries \in [Names -> Seq(Entry)] /\ timers \subseteq Timer
      /\ ThinksOK(timers, entries)
  BY DEF IInv, TypeOK
<1>2. PICK first \in SUBSET (IF Len(posts) = 2 THEN Relevant(posts[2]) ELSE {}),
           last \in SUBSET Relevant(posts[1]) :
        LET E == Bumped(entries, first)
            T == Scheduled(idle, entries, first, posts[1].exc)
        IN  /\ timers' = Scheduled(T, E, last, posts[1].exc)
            /\ entries' = Bumped(E, last)
  BY DEF Record
<1> DEFINE E == Bumped(entries, first)
           T == Scheduled(idle, entries, first, posts[1].exc)
<1>3. /\ first \in SUBSET Names /\ last \in SUBSET Names
      /\ \A v \in first \cup last : entries[v] # <<>>
  BY <1>2 DEF Relevant, Audience, Registered
<1>4. /\ E \in [Names -> Seq(Entry)]
      /\ \A v \in Names :
           /\ Len(E[v]) = Len(entries[v])
           /\ \A i \in 1 .. Len(entries[v]) :
                E[v][i] = IF v \in first /\ i = Len(entries[v])
                          THEN Newer(entries[v][i]) ELSE entries[v][i]
  BY <1>1, <1>3, BumpedFacts
<1>5. timers' = Scheduled(T, E, last, posts[1].exc) /\ entries' = Bumped(E, last)
  BY <1>2
<1> HIDE DEF E
<1>6. \A v \in last : E[v] # <<>>
  <2>1. ASSUME NEW v \in last PROVE E[v] # <<>>
    <3>1. Len(entries[v]) # 0 /\ Len(E[v]) = Len(entries[v])
      BY <1>1, <1>3, <1>4
    <3> QED
      BY <3>1
  <2> QED
    BY <2>1
<1>7. /\ entries' \in [Names -> Seq(Entry)]
      /\ \A v \in Names :
           /\ Len(entries'[v]) = Len(E[v])
           /\ \A i \in 1 .. Len(E[v]) :
                entries'[v][i] = IF v \in last /\ i = Len(E[v])
                                 THEN Newer(E[v][i]) ELSE E[v][i]
  BY <1>3, <1>4, <1>5, <1>6, BumpedFacts
<1>8. \A n \in Names : entries[n] # <<>> => Len(entries[n]) = 1 /\ entries[n][1] \in Entry
  <2>1. ASSUME NEW n \in Names, entries[n] # <<>>
        PROVE  Len(entries[n]) = 1 /\ entries[n][1] \in Entry
    <3>1. entries[n] \in Seq(Entry) /\ Len(entries[n]) <= 1
      BY <1>1 DEF EnteredOnce
    <3> QED
      BY <2>1, <3>1, SeqOfOne
  <2> QED
    BY <2>1
<1>9. \A x \in Entry : Newer(x) \in Entry /\ Newer(x).charter = x.charter
                       /\ Newer(x).gen = x.gen + 1 /\ x.gen \in Nat
  BY DEF Newer, Entry
<1>10. ASSUME NEW n \in Names
       PROVE  /\ Len(entries'[n]) = Len(entries[n])
              /\ entries[n] # <<>> =>
                   /\ entries'[n][1].charter = entries[n][1].charter
                   /\ E[n][1].gen = entries[n][1].gen + (IF n \in first THEN 1 ELSE 0)
                   /\ entries'[n][1].gen = E[n][1].gen + (IF n \in last THEN 1 ELSE 0)
                   /\ entries[n][1].gen \in Nat
  <2>1. Len(entries'[n]) = Len(entries[n])
    BY <1>4, <1>7
  <2>2. ASSUME entries[n] # <<>>
        PROVE  /\ E[n][1] = IF n \in first THEN Newer(entries[n][1]) ELSE entries[n][1]
               /\ entries'[n][1] = IF n \in last THEN Newer(E[n][1]) ELSE E[n][1]
    <3>1. Len(entries[n]) = 1 /\ 1 \in 1 .. Len(entries[n])
      BY <1>8, <2>2
    <3> QED
      BY <1>4, <1>7, <3>1
  <2>3. ASSUME entries[n] # <<>>
        PROVE  /\ E[n][1] \in Entry /\ entries[n][1] \in Entry
               /\ E[n][1].gen = entries[n][1].gen + (IF n \in first THEN 1 ELSE 0)
               /\ E[n][1].charter = entries[n][1].charter
    <3>1. CASE n \in first
      BY <1>8, <1>9, <2>2, <2>3, <3>1
    <3>2. CASE n \notin first
      <4>1. E[n][1] = entries[n][1] /\ entries[n][1] \in Entry /\ entries[n][1].gen \in Nat
        BY <1>8, <1>9, <2>2, <2>3, <3>2
      <4> QED
        BY <3>2, <4>1
    <3> QED
      BY <3>1, <3>2
  <2>4. ASSUME entries[n] # <<>>
        PROVE  /\ entries'[n][1].gen = E[n][1].gen + (IF n \in last THEN 1 ELSE 0)
               /\ entries'[n][1].charter = E[n][1].charter
    <3>1. CASE n \in last
      BY <1>9, <2>2, <2>3, <2>4, <3>1
    <3>2. CASE n \notin last
      <4>1. entries'[n][1] = E[n][1] /\ E[n][1].gen \in Nat
        BY <1>9, <2>2, <2>3, <2>4, <3>2
      <4> QED
        BY <3>2, <4>1
    <3> QED
      BY <3>1, <3>2
  <2> QED
    BY <1>9, <2>1, <2>3, <2>4
<1>11. ASSUME NEW n \in Names, n \notin first \cup last
       PROVE  entries'[n] = entries[n]
  <2>1. \A i \in 1 .. Len(entries[n]) : entries'[n][i] = entries[n][i]
    BY <1>4, <1>7, <1>11
  <2>2. entries[n] \in Seq(Entry) /\ entries'[n] \in Seq(Entry)
    BY <1>1, <1>7
  <2> QED
    BY <1>10, <2>1, <2>2
<1>12. ASSUME NEW n \in first \cup last
       PROVE  n \in Names /\ entries[n] # <<>> /\ Len(entries[n]) = 1 /\ Len(E[n]) = 1
              /\ entries'[n] # entries[n]
  <2>1. n \in Names /\ entries[n] # <<>> /\ Len(entries[n]) = 1 /\ Len(E[n]) = 1
    BY <1>3, <1>4, <1>8
  <2>2. entries'[n][1].gen # entries[n][1].gen
    BY <1>10, <1>12, <2>1
  <2> QED
    BY <2>1, <2>2
<1>13. ASSUME NEW v \in Names, entries[v] # <<>>, NEW g \in Nat, g > entries[v][1].gen
       PROVE  ~Known(v, g)
  <2>1. ASSUME NEW tm \in timers, tm.voice = v, tm.gen = g PROVE FALSE
    <3>1. tm.inc \in 1 .. Len(entries[v]) /\ tm.gen <= entries[v][tm.inc].gen
      BY <1>1, <2>1 DEF ThinksOK, Owned
    <3>2. tm.inc = 1
      BY <1>8, <1>13, <3>1
    <3> QED
      BY <1>10, <1>13, <2>1, <3>1, <3>2
  <2> QED
    BY <2>1 DEF Known
<1> DEFINE New1(v) == [voice |-> v, inc |-> Len(entries[v]),
                       gen |-> entries[v][Len(entries[v])].gen + 1,
                       exc |-> posts[1].exc, phase |-> "armed"]
           New2(v) == [voice |-> v, inc |-> Len(E[v]), gen |-> E[v][Len(E[v])].gen + 1,
                       exc |-> posts[1].exc, phase |-> "armed"]
<1>14. T = (idle \ Cancelled(idle, first)) \cup {New1(v) : v \in first}
  BY DEF Scheduled
<1>15. timers' = (T \ Cancelled(T, last)) \cup {New2(v) : v \in last}
  BY <1>5 DEF Scheduled
<1>16. \A v \in first : /\ New1(v).voice = v /\ New1(v).inc = 1 /\ New1(v).exc = posts[1].exc
                        /\ New1(v).gen = entries[v][1].gen + 1
  BY <1>12
<1>17. \A v \in last : /\ New2(v).voice = v /\ New2(v).inc = 1 /\ New2(v).exc = posts[1].exc
                       /\ New2(v).gen = E[v][1].gen + 1
  BY <1>12
<1> HIDE DEF T, New1, New2
<1>18. ASSUME NEW tm \in timers', tm \notin idle
       PROVE  /\ tm.exc = posts[1].exc /\ ~Known(tm.voice, tm.gen)
              /\ entries'[tm.voice] # entries[tm.voice]
              /\ tm.inc = 1 /\ entries'[tm.voice][1].gen = tm.gen
  <2>1. CASE tm \in T \ Cancelled(T, last)
    <3>1. PICK v \in first : tm = New1(v)
      BY <1>14, <1>18, <2>1
    <3>2. tm.phase = "armed" /\ tm.voice = v /\ v \notin last
      BY <2>1, <3>1 DEF New1, Cancelled
    <3>3. tm.gen \in Nat /\ tm.gen > entries[v][1].gen /\ entries'[v][1].gen = tm.gen
      BY <1>10, <1>12, <1>16, <3>1, <3>2
    <3> QED
      BY <1>12, <1>13, <1>16, <3>1, <3>3
  <2>2. CASE \E v \in last : tm = New2(v)
    <3>1. PICK v \in last : tm = New2(v)
      BY <2>2
    <3>2. tm.gen \in Nat /\ tm.gen > entries[v][1].gen /\ entries'[v][1].gen = tm.gen
      <4>1. /\ entries[v][1].gen \in Nat /\ entries'[v][1].gen = E[v][1].gen + 1
            /\ E[v][1].gen \in {entries[v][1].gen, entries[v][1].gen + 1}
        BY <1>10, <1>12
      <4>2. tm.gen = E[v][1].gen + 1
        BY <1>17, <3>1
      <4> QED
        BY <4>1, <4>2
    <3>3. tm.voice = v /\ tm.inc = 1 /\ tm.exc = posts[1].exc
      BY <1>17, <3>1
    <3>4. v \in Names /\ entries[v] # <<>> /\ entries'[v] # entries[v]
      BY <1>12
    <3>5. ~Known(v, tm.gen)
      BY <1>13, <3>2, <3>4
    <3> QED
      BY <3>2, <3>3, <3>4, <3>5
  <2> QED
    BY <1>15, <2>1, <2>2
<1>19. ASSUME NEW tm \in idle, tm \notin timers'
       PROVE  entries'[tm.voice] # entries[tm.voice]
  <2>1. tm \in Cancelled(idle, first) \/ tm \in Cancelled(T, last)
    BY <1>14, <1>15, <1>19
  <2>2. tm.voice \in first \cup last
    BY <2>1 DEF Cancelled
  <2> QED
    BY <1>12, <2>2
<1>20. ASSUME NEW v \in Names, entries'[v] # entries[v]
       PROVE  \E tm \in timers' :
                /\ tm.voice = v /\ tm.exc = posts[1].exc /\ ~Known(v, tm.gen)
                /\ entries'[v][tm.inc].gen = tm.gen
  <2>1. v \in first \cup last
    BY <1>11, <1>20
  <2>2. CASE v \in last
    <3>1. New2(v) \in timers'
      BY <1>15, <2>2
    <3>2. New2(v).gen \in Nat /\ New2(v).gen > entries[v][1].gen
          /\ entries'[v][1].gen = New2(v).gen
      BY <1>10, <1>12, <1>17, <2>2
    <3> QED
      BY <1>12, <1>13, <1>17, <2>2, <3>1, <3>2
  <2>3. CASE v \in first /\ v \notin last
    <3>1. New1(v) \in timers'
      BY <1>14, <1>15, <1>16, <2>3 DEF Cancelled
    <3>2. New1(v).gen \in Nat /\ New1(v).gen > entries[v][1].gen
          /\ entries'[v][1].gen = New1(v).gen
      BY <1>10, <1>12, <1>16, <2>3
    <3> QED
      BY <1>12, <1>13, <1>16, <2>3, <3>1, <3>2
  <2> QED
    BY <2>1, <2>2, <2>3
<1> QED
  BY <1>10, <1>18, <1>19, <1>20

-----------------------------------------------------------------------------
(***************************************************************************)
(* Of voices entered once, no two thinks have the same key.                *)
(***************************************************************************)
LEMMA CastEnteredOnce ==
  ASSUME CastInv
  PROVE  EnteredOnce
<1>1. Len(<<>>) = 0
  OBVIOUS
<1>2. \A n \in Names : Len(entries[n]) = 1 \/ entries[n] = <<>>
  BY Zenon DEF CastInv, InCast
<1>3. 0 <= 1 /\ 1 <= 1
  OBVIOUS
<1> QED
  BY <1>1, <1>2, <1>3, Zenon DEF EnteredOnce

LEMMA KeysDiffer ==
  ASSUME NEW T \in SUBSET Timer, NEW E \in [Names -> Seq(Entry)], ThinksOK(T, E),
         \A n \in Names : Len(E[n]) <= 1
  PROVE  /\ \A tm \in T : tm.inc = 1
         /\ \A x, y \in T : Key(x) = Key(y) => x = y
<1>1. ASSUME NEW tm \in T PROVE tm.inc = 1
  <2>1. tm.voice \in Names
    BY DEF Timer
  <2>2. tm.inc \in 1 .. Len(E[tm.voice]) /\ Len(E[tm.voice]) \in Nat
    BY <2>1 DEF ThinksOK, Owned
  <2>3. Len(E[tm.voice]) <= 1
    BY <2>1
  <2> QED
    BY <2>2, <2>3
<1>2. ASSUME NEW x \in T, NEW y \in T, Key(x) = Key(y) PROVE x = y
  <2>1. x.voice = y.voice /\ x.gen = y.gen
    BY <1>2 DEF Key
  <2> QED
    BY <1>1, <2>1 DEF ThinksOK, Distinct
<1> QED
  BY <1>1, <1>2

LEMMA KnownKeys ==
  ASSUME NEW tm
  PROVE  Key(tm) \in {Key(x) : x \in timers} <=> Known(tm.voice, tm.gen)
BY DEF Key, Known

LEMMA ViewType ==
  ASSUME TypeOK, NEW v \in Names
  PROVE  View(v) \in Views /\ NoView \in Views
<1>1. things[v] \in ThingState \cup {NoThing}
  BY DEF TypeOK, WorldTypeOK
<1>2. things[v] # NoThing => things[v]["temperature.set"] \in Values
  BY <1>1 DEF ThingState, ComfortTypes
<1>3. 0 \in Values
  BY ScriptTermsOK
<1>4. View(v).temp \in Values /\ View(v).settled \in BOOLEAN
  BY <1>2, <1>3 DEF View
<1> QED
  BY <1>3, <1>4 DEF View, NoView, Views

(***************************************************************************)
(* What Heard makes of the minds: a think keeps its trigger from the step  *)
(* that scheduled it, where it is the first envelope of the record.        *)
(***************************************************************************)
LEMMA MindsStep ==
  ASSUME ScriptInv, IInv', EnteredOnce', NEW word \in Words \cup {""}, Heard(word),
         \A tm \in timers' :
           Known(tm.voice, tm.gen) \/ (out' \in Seq(Post) /\ out' # <<>>)
  PROVE  /\ MindsOK'
         /\ \A tm \in timers' :
              minds'[Key(tm)].trigger =
                IF Known(tm.voice, tm.gen) THEN minds[Key(tm)].trigger
                ELSE Trigger(out'[1], word)
<1> DEFINE K == {Key(tm) : tm \in timers'}
           Of(k) == CHOOSE tm \in timers' : Key(tm) = k
<1>1. minds' = [k \in K |-> Mind(Of(k), word)]
  BY DEF Heard
<1>2. ASSUME NEW x \in timers', NEW y \in timers', Key(x) = Key(y) PROVE x = y
  <2>1. /\ timers' \in SUBSET Timer /\ entries' \in [Names -> Seq(Entry)]
        /\ ThinksOK(timers', entries') /\ \A n \in Names : Len(entries'[n]) <= 1
    BY DEF IInv, TypeOK, EnteredOnce
  <2> QED
    BY <1>2, <2>1, KeysDiffer
<1>3. \A tm \in timers' : Of(Key(tm)) = tm
  BY <1>2
<1> HIDE DEF Of
<1>4. \A tm \in timers' : Key(tm) \in K /\ minds'[Key(tm)] = Mind(tm, word)
  BY <1>1, <1>3
<1>5. minds \in [{Key(tm) : tm \in timers} -> [trigger : Triggers, view : Views]]
  BY DEF ScriptInv, MindsOK
<1>6. ASSUME NEW tm \in timers'
      PROVE  /\ Mind(tm, word) \in [trigger : Triggers, view : Views]
             /\ Mind(tm, word).trigger =
                  IF Known(tm.voice, tm.gen) THEN minds[Key(tm)].trigger
                  ELSE Trigger(out'[1], word)
  <2>1. Key(tm) \in DOMAIN minds <=> Known(tm.voice, tm.gen)
    BY <1>5, KnownKeys
  <2>2. tm.voice \in Names
    BY DEF IInv, TypeOK, Timer
  <2>3. View(tm.voice) \in Views /\ NoView \in Views
    BY <2>2, ViewType DEF ScriptInv, IInv
  <2>4. Known(tm.voice, tm.gen) => minds[Key(tm)] \in [trigger : Triggers, view : Views]
    BY <1>5, <2>1
  <2>5. ASSUME ~Known(tm.voice, tm.gen) PROVE Trigger(out'[1], word) \in Triggers
    <3>1. out' \in Seq(Post) /\ out' # <<>>
      BY <2>5
    <3>2. out'[1] \in Post
      BY <3>1, SeqFirst
    <3> QED
      BY <3>2 DEF Trigger, Triggers, Post
  <2>6. Mind(tm, word).trigger = IF Known(tm.voice, tm.gen) THEN minds[Key(tm)].trigger
                                 ELSE Trigger(out'[1], word)
    BY <2>1 DEF Mind
  <2>7. Mind(tm, word).trigger \in Triggers
    BY <2>4, <2>5, <2>6
  <2>8. Mind(tm, word).view \in Views
    BY <2>1, <2>3, <2>4 DEF Mind
  <2> QED
    BY <2>6, <2>7, <2>8 DEF Mind
<1>7. ASSUME NEW k \in K PROVE minds'[k] \in [trigger : Triggers, view : Views]
  <2>1. PICK tm \in timers' : k = Key(tm)
    OBVIOUS
  <2> QED
    BY <1>4, <1>6, <2>1
<1>8. MindsOK'
  <2>1. minds' \in [K -> [trigger : Triggers, view : Views]]
    BY <1>1, <1>7
  <2> QED
    BY <2>1 DEF MindsOK
<1> QED
  BY <1>4, <1>6, <1>8

(***************************************************************************)
(* Exchanges keep their parties and what they are about, so a think stays  *)
(* prompted.                                                               *)
(***************************************************************************)
ExchangesGrow ==
  \A e \in DOMAIN exchanges :
    /\ e \in DOMAIN exchanges'
    /\ exchanges'[e].parts = exchanges[e].parts
    /\ exchanges'[e].pending.terms.type = exchanges[e].pending.terms.type

LEMMA PromptedStays ==
  ASSUME ExchangesGrow, NEW v, NEW exc, NEW t, Prompted(v, exc, t)
  PROVE  Prompted(v, exc, t)'
BY DEF ExchangesGrow, Prompted

LEMMA CastStays ==
  ASSUME CastInv,
         \A n \in Names :
           /\ Len(entries'[n]) = Len(entries[n])
           /\ entries[n] # <<>> => entries'[n][1].charter = entries[n][1].charter,
         entries \in [Names -> Seq(Entry)], entries' \in [Names -> Seq(Entry)]
  PROVE  CastInv' /\ \A n \in Names : entries'[n] = <<>> <=> entries[n] = <<>>
<1>1. ASSUME NEW n \in Names
      PROVE  /\ Len(entries[n]) = 1 => entries[n] # <<>>
             /\ entries'[n] = <<>> <=> entries[n] = <<>>
  <2>1. entries[n] \in Seq(Entry) /\ entries'[n] \in Seq(Entry)
        /\ Len(entries'[n]) = Len(entries[n])
    OBVIOUS
  <2> QED
    BY <2>1, EmptySeq
<1>2. ASSUME NEW seeds, InCast(seeds)
      PROVE  InCast(seeds)'
  <2>1. ASSUME NEW n \in Names, n \in DOMAIN seeds \cup Residents
        PROVE  Len(entries'[n]) = 1 /\ entries'[n][1].charter = Charters(seeds)[n]
    <3>1. Len(entries[n]) = 1 /\ entries[n][1].charter = Charters(seeds)[n]
      BY <1>2, <2>1 DEF InCast
    <3> QED
      BY <1>1, <3>1
  <2>2. ASSUME NEW n \in Names, n \notin DOMAIN seeds \cup Residents
        PROVE  entries'[n] = <<>>
    BY <1>1, <1>2, <2>2 DEF InCast
  <2> QED
    BY <2>1, <2>2 DEF InCast
<1> QED
  BY <1>1, <1>2 DEF CastInv

(***************************************************************************)
(* A step that puts something on the record.  Its first envelope wakes     *)
(* whom it may, and only it: the thinks are then those there were and new  *)
(* ones that it triggered.                                                 *)
(***************************************************************************)
Woken(p, word) == {v \in Audience(p) : Respond(v, Trigger(p, word), View(v)) # Silence}

Triggered(idle, p, word) ==
  \A tm \in timers' :
    \/ tm \in idle /\ minds'[Key(tm)].trigger = minds[Key(tm)].trigger
    \/ /\ tm.voice \in Woken(p, word) /\ tm.exc = p.exc /\ ~Known(tm.voice, tm.gen)
       /\ minds'[Key(tm)].trigger = Trigger(p, word)
       /\ tm.inc = 1 /\ entries'[tm.voice][1].gen = tm.gen

Awakens(p, word) ==
  \A v \in Audience(p) :
    Wakes(v, Trigger(p, word)) => Prompted(v, p.exc, Trigger(p, word))'

WakesNobody(p, word) == \A v \in Audience(p) : ~Wakes(v, Trigger(p, word))

LEMMA ScriptStep ==
  ASSUME ScriptInv, IInv', NEW word \in Words \cup {""}, Heard(word),
         NEW posts \in Seq(Post), posts # <<>>, NEW idle \in SUBSET timers,
         Record(posts, idle), ExchangesGrow,
         Awakens(posts[1], word),
         \A i \in DOMAIN posts : i # 1 => WakesNobody(posts[i], word)
  PROVE  /\ CastInv' /\ MindsOK' /\ ThinksPrompted'
         /\ Triggered(idle, posts[1], word)
         /\ {v \in Names : entries'[v] # entries[v]} = Woken(posts[1], word)
         /\ \A n \in Names : entries'[n] = <<>> <=> entries[n] = <<>>
         /\ \A tm \in idle : tm \in timers' \/ entries'[tm.voice] # entries[tm.voice]
         /\ \A v \in Woken(posts[1], word) : \E tm \in timers' :
              /\ tm.voice = v /\ tm.exc = posts[1].exc /\ ~Stale(tm)'
              /\ minds'[Key(tm)].trigger = Trigger(posts[1], word)
<1>1. /\ entries \in [Names -> Seq(Entry)] /\ entries' \in [Names -> Seq(Entry)]
      /\ timers \subseteq Timer /\ timers' \subseteq Timer
  BY DEF ScriptInv, IInv, TypeOK
<1>2. EnteredOnce /\ IInv /\ CastInv
  BY CastEnteredOnce DEF ScriptInv
<1>3. /\ \A n \in Names :
           /\ Len(entries'[n]) = Len(entries[n])
           /\ entries[n] # <<>> => entries'[n][1].charter = entries[n][1].charter
      /\ \A tm \in timers' :
           \/ tm \in idle
           \/ /\ tm.exc = posts[1].exc /\ ~Known(tm.voice, tm.gen)
              /\ entries'[tm.voice] # entries[tm.voice]
              /\ tm.inc = 1 /\ entries'[tm.voice][1].gen = tm.gen
      /\ \A tm \in idle : tm \in timers' \/ entries'[tm.voice] # entries[tm.voice]
      /\ \A v \in Names :
           entries'[v] # entries[v]
             => \E tm \in timers' :
                  /\ tm.voice = v /\ tm.exc = posts[1].exc /\ ~Known(v, tm.gen)
                  /\ entries'[v][tm.inc].gen = tm.gen
  BY <1>2, RecordThinks
<1>4. CastInv' /\ \A n \in Names : entries'[n] = <<>> <=> entries[n] = <<>>
  BY <1>1, <1>2, <1>3, CastStays
<1>5. out' = posts
  BY DEF Record
<1>6. \A v \in Names : \A t, w : Respond(v, t, w) # Silence => Wakes(v, t)
  BY RulesWake
<1>7. Hit(word) = Woken(posts[1], word)
  <2>1. 1 \in DOMAIN posts
    BY SeqFirst
  <2>2. ASSUME NEW i \in DOMAIN posts, i # 1, NEW v \in Audience(posts[i])
        PROVE  Respond(v, Trigger(posts[i], word), View(v)) = Silence
    BY <1>6, <2>2 DEF WakesNobody, Audience
  <2> DEFINE Moved(i) ==
               {v \in Audience(out'[i]) :
                  Respond(v, Trigger(out'[i], word), View(v)) # Silence}
  <2>3. Hit(word) = UNION {Moved(i) : i \in DOMAIN out'}
    BY DEF Hit
  <2>4. Moved(1) = Woken(posts[1], word)
    BY <1>5 DEF Woken
  <2>5. \A i \in DOMAIN posts : i # 1 => Moved(i) = {}
    BY <1>5, <2>2
  <2>6. Hit(word) = UNION {Moved(i) : i \in DOMAIN posts}
    BY <1>5, <2>3
  <2> HIDE DEF Moved
  <2>7. ASSUME NEW v \in Hit(word) PROVE v \in Moved(1)
    <3>1. PICK i \in DOMAIN posts : v \in Moved(i)
      BY <2>6
    <3> QED
      BY <2>5, <3>1
  <2>8. ASSUME NEW v \in Moved(1) PROVE v \in Hit(word)
    BY <2>1, <2>6
  <2> QED
    BY <2>4, <2>7, <2>8
<1>8. {v \in Names : entries'[v] # entries[v]} = Woken(posts[1], word)
  BY <1>7 DEF Heard
<1>9. \A tm \in timers' : Known(tm.voice, tm.gen) \/ (out' \in Seq(Post) /\ out' # <<>>)
  BY <1>5
<1>10. EnteredOnce'
  BY <1>2, <1>3 DEF EnteredOnce
<1>11. /\ MindsOK'
       /\ \A tm \in timers' :
            minds'[Key(tm)].trigger =
              IF Known(tm.voice, tm.gen) THEN minds[Key(tm)].trigger
              ELSE Trigger(out'[1], word)
  BY <1>9, <1>10, MindsStep
<1>12. ASSUME NEW tm \in timers'
       PROVE  \/ tm \in idle /\ minds'[Key(tm)].trigger = minds[Key(tm)].trigger
              \/ /\ tm.voice \in Woken(posts[1], word) /\ tm.exc = posts[1].exc
                 /\ ~Known(tm.voice, tm.gen)
                 /\ minds'[Key(tm)].trigger = Trigger(posts[1], word)
                 /\ tm.inc = 1 /\ entries'[tm.voice][1].gen = tm.gen
  <2>1. CASE tm \in idle
    BY <1>11, <2>1 DEF Known
  <2>2. CASE tm \notin idle
    <3>1. tm.voice \in Names
      BY <1>1 DEF Timer
    <3>2. /\ tm.exc = posts[1].exc /\ ~Known(tm.voice, tm.gen)
          /\ entries'[tm.voice] # entries[tm.voice]
          /\ tm.inc = 1 /\ entries'[tm.voice][1].gen = tm.gen
      BY <1>3, <2>2
    <3> QED
      BY <1>5, <1>8, <1>11, <3>1, <3>2
  <2> QED
    BY <2>1, <2>2
<1>13. ASSUME NEW tm \in timers'
       PROVE  Prompted(tm.voice, tm.exc, minds[Key(tm)].trigger)'
  <2>1. PICK t : t = minds'[Key(tm)].trigger
    OBVIOUS
  <2>2. CASE tm \in idle /\ t = minds[Key(tm)].trigger
    <3>1. Prompted(tm.voice, tm.exc, t)
      BY <2>2 DEF ScriptInv, ThinksPrompted
    <3>2. Prompted(tm.voice, tm.exc, t)'
      BY <3>1, PromptedStays
    <3> QED
      BY <2>1, <3>2 DEF Prompted
  <2>3. CASE /\ tm.voice \in Woken(posts[1], word) /\ tm.exc = posts[1].exc
             /\ t = Trigger(posts[1], word)
    <3>1. tm.voice \in Audience(posts[1]) /\ tm.voice \in Names
          /\ Wakes(tm.voice, Trigger(posts[1], word))
      BY <1>6, <2>3 DEF Woken, Audience
    <3>2. Prompted(tm.voice, tm.exc, t)'
      BY <2>3, <3>1 DEF Awakens
    <3> QED
      BY <2>1, <3>2 DEF Prompted
  <2> QED
    BY <1>12, <2>1, <2>2, <2>3
<1>14. ThinksPrompted'
  BY <1>13 DEF ThinksPrompted
<1>15. ASSUME NEW v \in Woken(posts[1], word)
       PROVE  \E tm \in timers' :
                /\ tm.voice = v /\ tm.exc = posts[1].exc /\ ~Stale(tm)'
                /\ minds'[Key(tm)].trigger = Trigger(posts[1], word)
  <2>1. v \in Names /\ entries'[v] # entries[v]
    BY <1>8
  <2>2. PICK tm \in timers' : /\ tm.voice = v /\ tm.exc = posts[1].exc /\ ~Known(v, tm.gen)
                              /\ entries'[v][tm.inc].gen = tm.gen
    BY <1>3, <2>1
  <2>3. ~Stale(tm)'
    BY <2>2 DEF Stale, OwnEntry
  <2> QED
    BY <1>5, <1>11, <2>2, <2>3
<1> QED
  BY <1>3, <1>4, <1>8, <1>11, <1>12, <1>14, <1>15 DEF Triggered

(***************************************************************************)
(* A step without a word keeps the voices, and no think is new.            *)
(***************************************************************************)
LEMMA QuietStep ==
  ASSUME ScriptInv, IInv', Heard(""), out' = <<>>, UNCHANGED <<exchanges, entries>>,
         \A tm \in timers' : \E old \in timers :
           old.voice = tm.voice /\ old.gen = tm.gen /\ old.exc = tm.exc
  PROVE  /\ CastInv' /\ OffersOK' /\ MindsOK' /\ ThinksPrompted' /\ ExchangesGrow
         /\ \A tm \in timers' : minds'[Key(tm)].trigger = minds[Key(tm)].trigger
<1>1. CastInv' /\ OffersOK' /\ ExchangesGrow
  BY DEF ScriptInv, CastInv, InCast, OffersOK, OfferOK, ExchangesGrow
<1>2. EnteredOnce'
  BY CastEnteredOnce DEF ScriptInv, EnteredOnce
<1>3. \A tm \in timers' : Known(tm.voice, tm.gen)
  BY DEF Known
<1>4. /\ MindsOK'
      /\ \A tm \in timers' : minds'[Key(tm)].trigger = minds[Key(tm)].trigger
  BY <1>2, <1>3, MindsStep
<1>5. ASSUME NEW tm \in timers'
      PROVE  Prompted(tm.voice, tm.exc, minds[Key(tm)].trigger)'
  <2>1. PICK old \in timers : old.voice = tm.voice /\ old.gen = tm.gen /\ old.exc = tm.exc
    OBVIOUS
  <2>2. Key(old) = Key(tm)
    BY <2>1 DEF Key
  <2>3. PICK t : t = minds'[Key(tm)].trigger
    OBVIOUS
  <2>4. Prompted(tm.voice, tm.exc, t)
    BY <1>4, <2>1, <2>2, <2>3 DEF ScriptInv, ThinksPrompted
  <2>5. Prompted(tm.voice, tm.exc, t)'
    BY <1>1, <2>4, PromptedStays
  <2> QED
    BY <2>3, <2>5 DEF Prompted
<1> QED
  BY <1>1, <1>4, <1>5 DEF ThinksPrompted

-----------------------------------------------------------------------------
(***************************************************************************)
(* What the rules and the principals say, and where.  An offer is of the   *)
(* script, to one voice that takes it, and opens an exchange or counters   *)
(* in one of the two about the same.                                       *)
(***************************************************************************)
OfferedTo(env, n) ==
  /\ env.to = <<n>> /\ n # env.from
  /\ env.kind = "propose" /\ env.terms \in ScriptTerms
  /\ env.from \in Residents \cup {"heating", "shop"}
  /\ env.from = "shop" <=> env.terms.type = "trade"
  /\ env.terms.type = "trade" => env.exc = NoExc /\ env.terms.buyer = n
  /\ TakesOffer(n, env)
  /\ env.exc # NoExc =>
       /\ env.exc \in DOMAIN exchanges
       /\ exchanges[env.exc].pending.terms.type = env.terms.type
       /\ SetOf(exchanges[env.exc].parts) = {n, env.from}

Opens(env) ==                       \* words that wake someone
  \/ /\ env.kind = "say" /\ env.exc = NoExc /\ env.from \in Principals
     /\ \E v \in Residents : env.to = <<v>>
  \/ env.kind = "hail" /\ env.exc = NoExc /\ env.from \in Residents
  \/ \E n \in Names : OfferedTo(env, n)

Ends(env) ==                        \* words that wake nobody
  /\ env.from \notin Principals
  /\ \/ env.kind = "say"
     \/ /\ env.kind \in {"accept", "decline", "ask_principal"}
        /\ env.exc \in DOMAIN exchanges

Spoken(env) == Opens(env) \/ Ends(env)

LEMMA SetOfOne ==
  /\ \A n : SetOf(<<n>>) = {n}
  /\ \A m, n : SetOf(<<m>> \o <<n>>) = {m, n}
<1>1. ASSUME NEW n PROVE SetOf(<<n>>) = {n}
  BY DEF SetOf
<1>2. ASSUME NEW m, NEW n PROVE SetOf(<<m>> \o <<n>>) = {m, n}
  <2> DEFINE s == <<m>> \o <<n>>
             S == {m, n}
  <2>1. <<m>> \in Seq(S) /\ <<n>> \in Seq(S) /\ Len(<<m>>) = 1 /\ Len(<<n>>) = 1
        /\ <<m>>[1] = m /\ <<n>>[1] = n
    OBVIOUS
  <2>2. Len(s) = 2 /\ s \in Seq(S) /\ s[1] = m /\ s[2] = n
    BY <2>1
  <2>3. DOMAIN s = {1, 2}
    BY <2>2
  <2> HIDE DEF s
  <2>4. SetOf(s) = {m, n}
    BY <2>2, <2>3 DEF SetOf
  <2> QED
    BY <2>4 DEF s
<1> QED
  BY <1>1, <1>2

(***************************************************************************)
(* Nothing of it is bare, so it stays in the exchange it names.            *)
(***************************************************************************)
LEMMA SpokenStays ==
  ASSUME IInv, NEW env, Spoken(env)
  PROVE  ~Bare(env) /\ ExchangeOf(env) = env.exc /\ NoExc \notin DOMAIN exchanges
<1>1. NoExc \notin DOMAIN exchanges
  BY DEF IInv, TypeOK, NoExc
<1>2. ~Bare(env)
  BY <1>1 DEF Spoken, Opens, Ends, OfferedTo, Bare
<1> QED
  BY <1>1, <1>2 DEF ExchangeOf

(***************************************************************************)
(* What the funnel does with it: one envelope or two, of which only the    *)
(* first can wake anyone; a new exchange, or a turn of the one named.      *)
(***************************************************************************)
Opening(env) == env.kind = "propose" /\ env.exc = NoExc

SpokenPost(env, via) == Posted(env, IF Opening(env) THEN NextId ELSE env.exc, via)

Follows(posts) ==
  /\ Len(posts) = 2 /\ posts[1].kind = "accept"
  /\ posts[2].kind \in {"settle", "decline"} /\ posts[2].from = posts[1].from

ExchangesMove(env) ==
  /\ DOMAIN exchanges' = DOMAIN exchanges \cup (IF Opening(env) THEN {NextId} ELSE {})
  /\ NextId \notin DOMAIN exchanges
  /\ \A e \in DOMAIN exchanges : e # env.exc => exchanges'[e] = exchanges[e]
  /\ Opening(env) =>
       LET x == exchanges'[NextId]
       IN  /\ x.parts = <<env.from>> \o env.to
           /\ x.pending.from = env.from /\ x.pending.terms = env.terms
  /\ env.exc \in DOMAIN exchanges =>
       LET x == exchanges[env.exc]
           y == exchanges'[env.exc]
       IN  /\ y.parts = x.parts
           /\ \/ y.pending = x.pending /\ (y.status = "open" => env.kind # "propose")
              \/ /\ env.kind = "propose"
                 /\ y.pending.from = env.from /\ y.pending.terms = env.terms
           /\ y.status = "open" => x.status = "open" /\ ~Matches(env, env.exc)

LEMMA EmitSpoken ==
  ASSUME IInv, NEW env \in Envelope, Spoken(env), NEW via \in Vias,
         NEW idle \in SUBSET timers, Emit(env, via, idle)
  PROVE  /\ IInv' /\ ExchangesMove(env)
         /\ \E posts \in Seq(Post) :
              /\ posts # <<>> /\ Record(posts, idle)
              /\ posts[1] = SpokenPost(env, via)
              /\ Len(posts) = 1 \/ Follows(posts)
<1>1. IInv'
  BY EmitOK
<1>2. ~Bare(env) /\ ExchangeOf(env) = env.exc /\ NoExc \notin DOMAIN exchanges
  BY SpokenStays
<1>3. /\ exchanges \in Seq(Exchange)
      /\ DOMAIN exchanges = 1 .. Len(exchanges) /\ Len(exchanges) \in Nat
  BY DEF IInv, TypeOK
<1>4. NextId \notin DOMAIN exchanges
  BY <1>3 DEF NextId
<1>5. out' \in Seq(Post)
  BY <1>1 DEF IInv, TypeOK
<1>6. ASSUME NEW x, Record(<<x>>, idle), x = SpokenPost(env, via)
      PROVE  \E posts \in Seq(Post) :
               /\ posts # <<>> /\ Record(posts, idle)
               /\ posts[1] = SpokenPost(env, via)
               /\ Len(posts) = 1 \/ Follows(posts)
  <2>1. <<x>> \in Seq(Post)
    BY <1>5, <1>6 DEF Record
  <2>2. <<x>> # <<>> /\ <<x>>[1] = x /\ Len(<<x>>) = 1
    OBVIOUS
  <2> QED
    BY <1>6, <2>1, <2>2
<1>7. ASSUME NEW x, NEW y, Record(<<x, y>>, idle), x = SpokenPost(env, via),
             y.kind \in {"settle", "decline"}, y.from = x.from, env.kind = "accept"
      PROVE  \E posts \in Seq(Post) :
               /\ posts # <<>> /\ Record(posts, idle)
               /\ posts[1] = SpokenPost(env, via)
               /\ Len(posts) = 1 \/ Follows(posts)
  <2>1. <<x, y>> \in Seq(Post)
    BY <1>5, <1>7 DEF Record
  <2>2. <<x, y>> # <<>> /\ <<x, y>>[1] = x /\ <<x, y>>[2] = y /\ Len(<<x, y>>) = 2
    OBVIOUS
  <2>3. Follows(<<x, y>>)
    BY <1>7, <2>2 DEF Follows, SpokenPost, Posted
  <2> QED
    BY <1>7, <2>1, <2>2, <2>3
<1>8. ASSUME NEW x, NEW status, NEW pending, IsOpen(env.exc), x = exchanges[env.exc],
             exchanges' = [exchanges EXCEPT ![env.exc] = Turn(x, status, pending)],
             \/ pending = x.pending /\ (status = "open" => env.kind # "propose")
             \/ /\ env.kind = "propose"
                /\ pending.from = env.from /\ pending.terms = env.terms,
             status = "open" => ~Matches(env, env.exc)
      PROVE  ExchangesMove(env)
  <2>1. env.exc \in DOMAIN exchanges /\ env.exc # NoExc /\ exchanges[env.exc].status = "open"
    BY <1>2, <1>8 DEF IsOpen
  <2>2. ~Opening(env)
    BY <2>1 DEF Opening
  <2>3. /\ exchanges'[env.exc] = Turn(x, status, pending)
        /\ DOMAIN exchanges' = DOMAIN exchanges
        /\ \A e \in DOMAIN exchanges : e # env.exc => exchanges'[e] = exchanges[e]
    BY <1>8, <2>1
  <2> QED
    BY <1>4, <1>8, <2>1, <2>2, <2>3 DEF ExchangesMove, Turn
<1>9. CASE Crystallize(env, via, idle)
  <2> DEFINE x == [status |-> "open", parts |-> <<env.from>> \o env.to, turns |-> 1,
                   pending |-> [from |-> env.from, terms |-> env.terms, via |-> via]]
  <2>1. Opening(env) /\ Record(<<SpokenPost(env, via)>>, idle) /\ exchanges' = Append(exchanges, x)
    BY <1>9 DEF Crystallize, Opening, SpokenPost
  <2>2. /\ x.parts = <<env.from>> \o env.to
        /\ x.pending.from = env.from /\ x.pending.terms = env.terms
    OBVIOUS
  <2> HIDE DEF x
  <2>3. /\ DOMAIN exchanges' = DOMAIN exchanges \cup {NextId}
        /\ exchanges'[NextId] = x
        /\ \A e \in DOMAIN exchanges : exchanges'[e] = exchanges[e]
    BY <1>3, <2>1 DEF NextId
  <2>4. env.exc \notin DOMAIN exchanges
    BY <1>2, <2>1 DEF Opening
  <2>5. ExchangesMove(env)
    BY <1>4, <2>1, <2>2, <2>3, <2>4 DEF ExchangesMove
  <2> QED
    BY <1>1, <1>6, <2>1, <2>5
<1>10. CASE RecordOnly(env, via, idle)
  <2>1. ~Opening(env) /\ ~IsOpen(env.exc) /\ exchanges' = exchanges
        /\ Record(<<SpokenPost(env, via)>>, idle)
    BY <1>2, <1>10 DEF RecordOnly, Opening, SpokenPost
  <2>2. ExchangesMove(env)
    BY <1>4, <2>1 DEF ExchangesMove, IsOpen
  <2> QED
    BY <1>1, <1>6, <2>1, <2>2
<1>11. CASE Converse(env, via, idle)
  <2> DEFINE x == exchanges[env.exc]
             offer == [from |-> env.from, terms |-> env.terms, via |-> via]
             status == IF env.kind = "withdraw" THEN "abandoned" ELSE "open"
             pending == IF env.kind = "propose" THEN offer ELSE x.pending
  <2>1. /\ IsOpen(env.exc) /\ ~Matches(env, env.exc)
        /\ exchanges' = [exchanges EXCEPT ![env.exc] = Turn(x, status, pending)]
        /\ Record(<<Posted(env, env.exc, via)>>, idle)
    BY <1>2, <1>11 DEF Converse
  <2>2. \/ pending = x.pending /\ (status = "open" => env.kind # "propose")
        \/ /\ env.kind = "propose"
           /\ pending.from = env.from /\ pending.terms = env.terms
    OBVIOUS
  <2>3. ExchangesMove(env)
    <3> HIDE DEF status, pending
    <3> QED
      BY <1>8, <2>1, <2>2
  <2>4. env.exc # NoExc
    BY <1>2, <2>1 DEF IsOpen
  <2>5. Record(<<SpokenPost(env, via)>>, idle)
    BY <2>1, <2>4 DEF SpokenPost, Opening
  <2> QED
    BY <1>1, <1>6, <2>3, <2>5
<1>12. CASE Settle(env, via, idle) \/ Refuse(env, via, idle)
  <2> DEFINE x == exchanges[env.exc]
  <2>1. Matches(env, env.exc) /\ IsOpen(env.exc) /\ env.kind = "accept"
    BY <1>2, <1>12 DEF Settle, Refuse, Matches
  <2>2. PICK status \in {"settled", "abandoned"} :
          exchanges' = [exchanges EXCEPT ![env.exc] = Turn(x, status, x.pending)]
    BY <1>2, <1>12 DEF Settle, Refuse
  <2>3. ExchangesMove(env)
    BY <1>8, <2>1, <2>2
  <2>4. env.exc # NoExc /\ SpokenPost(env, via) = Posted(env, env.exc, via)
    BY <1>2, <2>1 DEF IsOpen, SpokenPost, Opening
  <2>5. CASE Settle(env, via, idle)
    <3> DEFINE y == Synthesized(env, env.exc, "settle", Others(x.parts, env.from), x.pending.terms)
    <3>1. Record(<<Posted(env, env.exc, via), y>>, idle)
      BY <1>2, <2>5 DEF Settle
    <3>2. y.kind = "settle" /\ y.from = env.from /\ SpokenPost(env, via).from = env.from
      BY DEF Synthesized, SpokenPost, Posted
    <3> HIDE DEF y
    <3> QED
      BY <1>1, <1>7, <2>1, <2>3, <2>4, <3>1, <3>2
  <2>6. CASE Refuse(env, via, idle)
    <3> DEFINE y == Synthesized(env, env.exc, "decline", {x.pending.from}, NoTerms)
    <3>1. Record(<<Posted(env, env.exc, via), y>>, idle)
      BY <1>2, <2>6 DEF Refuse
    <3>2. y.kind = "decline" /\ y.from = env.from /\ SpokenPost(env, via).from = env.from
      BY DEF Synthesized, SpokenPost, Posted
    <3> HIDE DEF y
    <3> QED
      BY <1>1, <1>7, <2>1, <2>3, <2>4, <3>1, <3>2
  <2> QED
    BY <1>12, <2>5, <2>6
<1> QED
  BY <1>9, <1>10, <1>11, <1>12 DEF Emit

(***************************************************************************)
(* So exchanges keep their parties and their subject, and what is offered  *)
(* in them is of the script.                                               *)
(***************************************************************************)
LEMMA MovesGrow ==
  ASSUME ScriptInv, NEW env \in Envelope, Spoken(env), ExchangesMove(env)
  PROVE  ExchangesGrow /\ OffersOK'
<1>1. \A e \in DOMAIN exchanges : OfferOK(exchanges[e])
  BY DEF ScriptInv, OffersOK
<1>2. env.kind = "propose" => \E n \in Names : OfferedTo(env, n)
  BY DEF Spoken, Opens, Ends
<1>3. ASSUME NEW e \in DOMAIN exchanges
      PROVE  /\ exchanges'[e].parts = exchanges[e].parts
             /\ exchanges'[e].pending.terms.type = exchanges[e].pending.terms.type
             /\ OfferOK(exchanges'[e])
  <2>1. CASE e # env.exc
    BY <1>1, <2>1 DEF ExchangesMove
  <2>2. CASE e = env.exc /\ exchanges'[e].pending = exchanges[e].pending
    <3>1. exchanges'[e].parts = exchanges[e].parts
      BY <2>2 DEF ExchangesMove
    <3> QED
      BY <1>1, <2>2, <3>1 DEF OfferOK
  <2>3. CASE /\ e = env.exc /\ env.kind = "propose"
             /\ exchanges'[e].pending.from = env.from
             /\ exchanges'[e].pending.terms = env.terms
    <3>1. exchanges'[e].parts = exchanges[e].parts
      BY <2>3 DEF ExchangesMove
    <3>2. PICK n \in Names : OfferedTo(env, n)
      BY <1>2, <2>3
    <3>3. env.exc # NoExc
      BY <2>3, SpokenStays DEF ScriptInv
    <3>4. /\ env.terms \in ScriptTerms /\ env.terms.type # "trade"
          /\ exchanges[e].pending.terms.type = env.terms.type
      BY <2>3, <3>2, <3>3 DEF OfferedTo
    <3> QED
      BY <2>3, <3>1, <3>4 DEF OfferOK
  <2> QED
    BY <2>1, <2>2, <2>3 DEF ExchangesMove
<1>4. ASSUME Opening(env) PROVE OfferOK(exchanges'[NextId])
  <2>1. PICK n \in Names : OfferedTo(env, n)
    BY <1>2, <1>4 DEF Opening
  <2>2. /\ exchanges'[NextId].parts = <<env.from>> \o <<n>>
        /\ exchanges'[NextId].pending.from = env.from
        /\ exchanges'[NextId].pending.terms = env.terms
    BY <1>4, <2>1 DEF ExchangesMove, OfferedTo
  <2>3. SetOf(exchanges'[NextId].parts) = {env.from, n}
    BY <2>2, SetOfOne
  <2>4. env.terms.type = "trade" => env.terms.buyer = n /\ n \in Residents /\ env.from = "shop"
    BY <2>1, ScriptTermsOK DEF OfferedTo
  <2>5. env.terms \in ScriptTerms /\ "shop" \notin Residents
    BY <2>1, SeedsAreNames DEF OfferedTo
  <2> QED
    BY <2>2, <2>3, <2>4, <2>5 DEF OfferOK
<1>5. DOMAIN exchanges' = DOMAIN exchanges \cup (IF Opening(env) THEN {NextId} ELSE {})
  BY DEF ExchangesMove
<1> QED
  BY <1>3, <1>4, <1>5 DEF ExchangesGrow, OffersOK

(***************************************************************************)
(* Whom the words wake is prompted by them; what follows wakes nobody.     *)
(***************************************************************************)
LEMMA SpokenAwakens ==
  ASSUME ScriptInv, NEW env \in Envelope, Spoken(env), NEW via,
         ExchangesMove(env), NEW word, NEW p, p = SpokenPost(env, via)
  PROVE  Awakens(p, word)
<1>1. /\ p.from = env.from /\ p.kind = env.kind /\ p.terms = env.terms
      /\ p.to = SetOf(env.to)
      /\ p.exc = IF Opening(env) THEN NextId ELSE env.exc
  BY DEF SpokenPost, Posted
<1> SUFFICES ASSUME NEW v \in Audience(p), NEW t, t = Trigger(p, word), Wakes(v, t)
             PROVE  Prompted(v, p.exc, t)'
  BY DEF Awakens
<1>2. t.from = env.from /\ t.kind = env.kind /\ t.terms = env.terms /\ t.word = word
  BY <1>1 DEF Trigger
<1>3. NoTerms \notin ScriptTerms
      /\ \A x \in ScriptTerms : x.type \in {"temperature.set", "lamp.set", "trade"}
  BY ScriptTermsOK
<1>4. /\ v \in Names /\ v # env.from
      /\ p.to = {} \/ v \in SetOf(env.to)
      /\ env.kind # "ask_principal"
  BY <1>1 DEF Audience
<1>5. CASE env.kind = "say"
  <2>1. v \in Residents /\ env.from \in Principals /\ word \in {"cold", "warm", "dark", "sweet"}
    BY <1>2, <1>5 DEF Wakes, Proposes
  <2>2. env.exc = NoExc /\ p.exc = NoExc
    BY <1>1, <1>5, <2>1 DEF Spoken, Opens, Ends, OfferedTo, Opening
  <2> QED
    BY <1>2, <1>5, <2>1, <2>2 DEF Prompted
<1>6. CASE env.kind = "hail"
  <2>1. env.from \in Residents /\ env.exc = NoExc /\ p.exc = NoExc
    BY <1>1, <1>6 DEF Spoken, Opens, Ends, OfferedTo, Opening
  <2>2. env.from \notin Principals
    BY <2>1, SeedsAreNames
  <2>3. v \in {"door", "shop"}
    BY <1>2, <1>6, <2>2 DEF Wakes, Proposes
  <2> QED
    BY <1>2, <1>6, <2>1, <2>3 DEF Prompted
<1>7. CASE env.kind = "propose"
  <2>1. PICK n \in Names : OfferedTo(env, n)
    BY <1>7 DEF Spoken, Opens, Ends
  <2>2. /\ env.to = <<n>> /\ n # env.from /\ env.terms \in ScriptTerms
        /\ env.from \in Residents \cup {"heating", "shop"}
        /\ env.from = "shop" <=> env.terms.type = "trade"
        /\ TakesOffer(n, env)
    BY <2>1 DEF OfferedTo
  <2>3. SetOf(env.to) = {n} /\ p.to = {n}
    BY <1>1, <2>2, SetOfOne
  <2>4. v = n
    BY <1>4, <2>3
  <2>5. env.from \notin Principals /\ env.terms.type # "curtains.set"
    BY <1>3, <2>2, SeedsAreNames
  <2>6. TakesOffer(v, t)
    BY <1>2, <1>7, <2>5 DEF Wakes, Proposes
  <2>7. /\ p.exc \in DOMAIN exchanges'
        /\ exchanges'[p.exc].pending.terms.type = env.terms.type
        /\ SetOf(exchanges'[p.exc].parts) = {v, env.from}
    <3>1. CASE Opening(env)
      <4>1. /\ p.exc = NextId /\ NextId \in DOMAIN exchanges'
            /\ exchanges'[NextId].parts = <<env.from>> \o <<n>>
            /\ exchanges'[NextId].pending.terms = env.terms
        BY <1>1, <2>2, <3>1 DEF ExchangesMove
      <4>2. SetOf(exchanges'[NextId].parts) = {env.from, n}
        BY <4>1, SetOfOne
      <4> QED
        BY <2>4, <4>1, <4>2
    <3>2. CASE ~Opening(env)
      <4>1. /\ p.exc = env.exc /\ env.exc \in DOMAIN exchanges
            /\ exchanges[env.exc].pending.terms.type = env.terms.type
            /\ SetOf(exchanges[env.exc].parts) = {n, env.from}
        BY <1>1, <1>7, <2>1, <3>2 DEF OfferedTo, Opening
      <4>2. ExchangesGrow
        BY MovesGrow
      <4> QED
        BY <2>4, <4>1, <4>2 DEF ExchangesGrow
    <3> QED
      BY <3>1, <3>2
  <2> QED
    BY <1>2, <1>7, <2>2, <2>4, <2>6, <2>7 DEF Prompted
<1>8. CASE env.kind \notin {"say", "hail", "propose"}
  <2>1. env.from \notin Principals
    BY <1>8 DEF Spoken, Opens, Ends, OfferedTo
  <2> QED
    BY <1>2, <1>8, <2>1 DEF Wakes, Proposes
<1> QED
  BY <1>5, <1>6, <1>7, <1>8

LEMMA FollowsWakesNobody ==
  ASSUME NEW env \in Envelope, Spoken(env), NEW via, NEW word, NEW posts \in Seq(Post),
         posts[1] = SpokenPost(env, via), Len(posts) = 1 \/ Follows(posts)
  PROVE  \A i \in DOMAIN posts : i # 1 => WakesNobody(posts[i], word)
<1> SUFFICES ASSUME NEW i \in DOMAIN posts, i # 1, NEW v, Wakes(v, Trigger(posts[i], word))
             PROVE  v \notin Audience(posts[i])
  BY DEF WakesNobody
<1>1. Follows(posts) /\ i = 2
  BY DEF Follows
<1>2. posts[2].kind \in {"settle", "decline"} /\ posts[2].from = env.from
  BY <1>1 DEF Follows, SpokenPost, Posted
<1>3. v \in Residents /\ env.from \in Principals
  BY <1>1, <1>2 DEF Wakes, Proposes, Trigger
<1>4. env.kind = "accept"
  BY <1>1 DEF Follows, SpokenPost, Posted
<1> QED
  BY <1>3, <1>4 DEF Spoken, Opens, Ends, OfferedTo

(***************************************************************************)
(* What putting envelope p on the record does to the thinks.               *)
(***************************************************************************)
Effects(p, word, idle) ==
  /\ Triggered(idle, p, word)
  /\ {v \in Names : entries'[v] # entries[v]} = Woken(p, word)
  /\ \A n \in Names : entries'[n] = <<>> <=> entries[n] = <<>>
  /\ \A tm \in idle : tm \in timers' \/ entries'[tm.voice] # entries[tm.voice]
  /\ \A v \in Woken(p, word) : \E tm \in timers' :
       /\ tm.voice = v /\ tm.exc = p.exc /\ ~Stale(tm)'
       /\ minds'[Key(tm)].trigger = Trigger(p, word)

LEMMA SpokenStep ==
  ASSUME ScriptInv, NEW env \in Envelope, Spoken(env), NEW via \in Vias,
         NEW idle \in SUBSET timers, Emit(env, via, idle),
         NEW word \in Words \cup {""}, Heard(word)
  PROVE  /\ IInv' /\ CastInv' /\ OffersOK' /\ MindsOK' /\ ThinksPrompted'
         /\ ExchangesMove(env) /\ ExchangesGrow
         /\ (uttSeq' = uttSeq + 1 \/ (env.kind = "accept" /\ uttSeq' = uttSeq + 2))
         /\ \E p \in Post : p = SpokenPost(env, via) /\ Effects(p, word, idle)
<1>1. IInv
  BY DEF ScriptInv
<1>2. IInv' /\ ExchangesMove(env)
  BY <1>1, EmitSpoken
<1>3. PICK posts \in Seq(Post) :
        /\ posts # <<>> /\ Record(posts, idle)
        /\ posts[1] = SpokenPost(env, via)
        /\ Len(posts) = 1 \/ Follows(posts)
  BY <1>1, EmitSpoken
<1>4. ExchangesGrow /\ OffersOK'
  BY <1>2, MovesGrow
<1>5. posts[1] \in Post
  BY <1>3, SeqFirst
<1>6. Awakens(posts[1], word)
  BY <1>2, <1>3, SpokenAwakens
<1>7. \A i \in DOMAIN posts : i # 1 => WakesNobody(posts[i], word)
  BY <1>3, FollowsWakesNobody
<1>8. /\ CastInv' /\ MindsOK' /\ ThinksPrompted'
      /\ Effects(posts[1], word, idle)
  BY <1>2, <1>3, <1>4, <1>6, <1>7, ScriptStep DEF Effects
<1>9. (uttSeq' = uttSeq + 1 \/ (env.kind = "accept" /\ uttSeq' = uttSeq + 2))
  <2>1. uttSeq' = uttSeq + Len(posts)
    BY <1>3 DEF Record
  <2>3. posts[1].kind = env.kind
    <3>1. SpokenPost(env, via).kind = env.kind
      BY DEF SpokenPost, Posted
    <3> QED
      BY <1>3, <3>1
  <2>2. Follows(posts) => Len(posts) = 2 /\ env.kind = "accept"
    BY <2>3 DEF Follows
  <2> QED
    BY <1>3, <2>1, <2>2
<1> QED
  BY <1>2, <1>3, <1>4, <1>5, <1>8, <1>9

(***************************************************************************)
(* A think that runs into the turn cap withdraws, which wakes nobody.      *)
(***************************************************************************)
Withdrawn(e) ==
  /\ DOMAIN exchanges' = DOMAIN exchanges
  /\ exchanges'[e].status = "abandoned"
  /\ \A d \in DOMAIN exchanges : d # e => exchanges'[d] = exchanges[d]

LEMMA OnlyFirst ==
  ASSUME NEW S, NEW x, NEW s \in Seq(S), s = <<x>>
  PROVE  \A i \in DOMAIN s : i = 1
<1>1. Len(s) = 1
  OBVIOUS
<1>2. DOMAIN s = 1 .. Len(s)
  OBVIOUS
<1> QED
  BY <1>1, <1>2

LEMMA WithdrawStep ==
  ASSUME ScriptInv, NEW tm \in timers, IsOpen(tm.exc),
         CapWithdraw(tm.voice, tm.exc, timers \ {tm}), Heard("")
  PROVE  /\ IInv' /\ CastInv' /\ OffersOK' /\ MindsOK' /\ ThinksPrompted'
         /\ ExchangesGrow /\ Withdrawn(tm.exc)
         /\ uttSeq' = uttSeq + 1
         /\ \E p \in Post : Effects(p, "", timers \ {tm}) /\ Woken(p, "") = {}
<1>1. IInv /\ tm.voice \in Names /\ tm.exc \in Nat /\ tm.exc \in DOMAIN exchanges
  BY DEF ScriptInv, IInv, TypeOK, Timer, IsOpen
<1>2. IInv'
  BY <1>1, CapWithdrawOK
<1> DEFINE x == exchanges[tm.exc]
           y == Turn(x, "abandoned", x.pending)
<1>3. PICK post : /\ post = [from |-> tm.voice, to |-> Others(x.parts, tm.voice),
                             kind |-> "withdraw", exc |-> tm.exc, terms |-> NoTerms,
                             via |-> "cap"]
                  /\ Record(<<post>>, timers \ {tm})
  BY DEF CapWithdraw
<1>4. exchanges' = [exchanges EXCEPT ![tm.exc] = y]
  BY DEF CapWithdraw
<1>5. y.parts = x.parts /\ y.pending = x.pending /\ y.status = "abandoned"
  BY DEF Turn
<1> HIDE DEF y
<1>6. /\ DOMAIN exchanges' = DOMAIN exchanges /\ exchanges'[tm.exc] = y
      /\ \A d \in DOMAIN exchanges : d # tm.exc => exchanges'[d] = exchanges[d]
  BY <1>1, <1>4
<1>7. ExchangesGrow /\ Withdrawn(tm.exc)
  BY <1>5, <1>6 DEF ExchangesGrow, Withdrawn
<1>8. OffersOK'
  <2>1. \A e \in DOMAIN exchanges : OfferOK(exchanges[e])
    BY DEF ScriptInv, OffersOK
  <2>2. \A e \in DOMAIN exchanges :
          /\ exchanges'[e].parts = exchanges[e].parts
          /\ exchanges'[e].pending = exchanges[e].pending
    BY <1>5, <1>6
  <2>3. \A e \in DOMAIN exchanges : OfferOK(exchanges'[e])
    BY <2>1, <2>2 DEF OfferOK
  <2> QED
    BY <1>6, <2>3 DEF OffersOK
<1>9. <<post>> \in Seq(Post) /\ <<post>> # <<>> /\ <<post>>[1] = post /\ Len(<<post>>) = 1
  <2>1. out' = <<post>> /\ out' \in Seq(Post)
    BY <1>2, <1>3 DEF Record, IInv, TypeOK
  <2> QED
    BY <2>1
<1>10. post \in Post
  <2>1. <<post>>[1] \in Post
    BY <1>9, SeqFirst
  <2> QED
    BY <1>9, <2>1
<1>11. WakesNobody(post, "")
  <2>1. Prompted(tm.voice, tm.exc, minds[Key(tm)].trigger)
    BY DEF ScriptInv, ThinksPrompted
  <2>2. tm.voice \notin Principals
    BY <2>1, SeedsAreNames DEF Prompted, TakesOffer
  <2>3. post.from = tm.voice /\ post.kind = "withdraw"
    BY <1>3
  <2> QED
    BY <2>2, <2>3 DEF WakesNobody, Wakes, Trigger, Proposes
<1>12. Awakens(post, "") /\ "" \in Words \cup {""} /\ timers \ {tm} \in SUBSET timers
  BY <1>11 DEF Awakens, WakesNobody
<1>13. PICK posts \in Seq(Post) : posts = <<post>>
  BY <1>9
<1>14. /\ CastInv' /\ MindsOK' /\ ThinksPrompted'
       /\ Effects(post, "", timers \ {tm})
  <2>1. posts # <<>> /\ posts[1] = post /\ Record(posts, timers \ {tm})
    BY <1>3, <1>9, <1>13
  <2>2. \A i \in DOMAIN posts : i # 1 => WakesNobody(posts[i], "")
    BY <1>13, OnlyFirst
  <2>3. Awakens(posts[1], "")
    BY <1>12, <2>1
  <2>4. /\ CastInv' /\ MindsOK' /\ ThinksPrompted'
        /\ Effects(posts[1], "", timers \ {tm})
    <3> HIDE DEF x
    <3> QED
      BY <1>2, <1>7, <1>12, <2>1, <2>2, <2>3, ScriptStep DEF Effects
  <2> QED
    BY <2>1, <2>4
<1>15. Woken(post, "") = {}
  <2>1. \A v \in Names : \A t, w : Respond(v, t, w) # Silence => Wakes(v, t)
    BY RulesWake
  <2>2. Audience(post) \subseteq Names
    BY DEF Audience
  <2> QED
    BY <1>11, <2>1, <2>2 DEF Woken, WakesNobody
<1>16. uttSeq' = uttSeq + 1
  BY <1>3, <1>9 DEF Record
<1> QED
  BY <1>2, <1>7, <1>8, <1>10, <1>14, <1>15, <1>16

-----------------------------------------------------------------------------
(***************************************************************************)
(* What a think says, by what triggered it: to a word a hail or an offer,  *)
(* to a hail a word or the bid, to an offer an accept, the middle or, for  *)
(* a trade, the ask.                                                       *)
(***************************************************************************)
Answered(t, env) ==
  \/ t.kind = "say" /\ env.kind = "hail" /\ env.from \in Residents /\ env.exc = NoExc
  \/ /\ t.kind = "say" /\ env.from \in Residents /\ env.exc = NoExc
     /\ \E n \in Names : OfferedTo(env, n)
  \/ t.kind = "hail" /\ env.kind = "say" /\ env.from = "door"
  \/ /\ t.kind = "hail" /\ env.from = "shop" /\ env.exc = NoExc
     /\ \E n \in Names : OfferedTo(env, n)
  \/ /\ t.kind = "propose" /\ env.exc \in DOMAIN exchanges
     /\ env.kind = "accept" /\ env.terms = t.terms /\ t.terms.type # "trade"
  \/ /\ t.kind = "propose" /\ env.exc \in DOMAIN exchanges
     /\ env.from = "heating" /\ OfferedTo(env, t.from)
  \/ /\ t.kind = "propose" /\ env.exc \in DOMAIN exchanges
     /\ env.kind = "ask_principal" /\ t.terms.type = "trade" /\ env.from \in Residents

LEMMA TriggerKnown ==
  ASSUME ScriptInv, NEW tm \in timers
  PROVE  /\ minds[Key(tm)].trigger \in Triggers /\ minds[Key(tm)].view \in Views
         /\ Key(tm) \in DOMAIN minds
         /\ Prompted(tm.voice, tm.exc, minds[Key(tm)].trigger)
<1>1. Prompted(tm.voice, tm.exc, minds[Key(tm)].trigger)
  BY DEF ScriptInv, ThinksPrompted
<1>2. minds \in [{Key(x) : x \in timers} -> [trigger : Triggers, view : Views]]
  BY DEF ScriptInv, MindsOK
<1>3. minds[Key(tm)] \in [trigger : Triggers, view : Views] /\ Key(tm) \in DOMAIN minds
  BY <1>2
<1> QED
  BY <1>1, <1>3

ReplyOK(tm, t, a, env) ==
  /\ env \in Envelope /\ Spoken(env) /\ Answered(t, env)
  /\ env.from = tm.voice /\ env.exc = tm.exc /\ env.kind = a.kind
  /\ t.word \in Words \cup {""}

LEMMA Replies ==
  ASSUME ScriptInv, NEW tm \in timers
  PROVE  ReplyOK(tm, minds[Key(tm)].trigger, Scripted(tm), Reply(tm, Scripted(tm)))
<1> SUFFICES ASSUME NEW t, t = minds[Key(tm)].trigger, NEW a, a = Scripted(tm),
                    NEW env, env = Reply(tm, a)
             PROVE  ReplyOK(tm, t, a, env)
  OBVIOUS
<1> DEFINE v == tm.voice
<1>1. v \in Names /\ tm.exc \in Nat
  BY DEF ScriptInv, IInv, TypeOK, Timer
<1>2. Prompted(v, tm.exc, t) /\ t \in Triggers /\ minds[Key(tm)].view \in Views
  BY TriggerKnown
<1>3. PICK w \in Views : a = Respond(v, t, w)
  BY <1>2 DEF Scripted
<1>4. /\ env.from = v /\ env.exc = tm.exc /\ env.kind = a.kind /\ env.to = a.to
      /\ env.terms = a.terms
  BY DEF Reply
<1>5. a.to \in Seq(Names) /\ a.kind \in Kinds /\ a.terms \in Terms \cup {NoTerms}
      => env \in Envelope
  BY <1>1 DEF Reply, Envelope
<1>6. t.from \in Names /\ t.word \in Words \cup {""}
  BY <1>2 DEF Triggers
<1>7. /\ {"heating", "lamp", "curtains", "door", "shop"} \cup Residents \subseteq Names
      /\ {"heating", "lamp", "curtains", "door", "shop"} \cap Residents = {}
      /\ Principals \cap ({"heating", "lamp", "curtains", "door", "shop"} \cup Residents) = {}
      /\ \A r \in Residents : PrincipalOf[r] \in Principals
  BY SeedsAreNames
<1>8. /\ ScriptTerms \subseteq Terms /\ NoTerms \notin ScriptTerms
      /\ \A x \in Values : Comfort("temperature.set", x) \in ScriptTerms
      /\ Comfort("lamp.set", 1) \in ScriptTerms
      /\ \A r \in Residents : Bid(r) \in ScriptTerms
  BY ScriptTermsOK DEF ScriptTerms
<1>9. ASSUME NEW n \in Names PROVE <<n>> \in Seq(Names)
  OBVIOUS
<1>10. "propose" \in Kinds /\ "accept" \in Kinds /\ "ask_principal" \in Kinds /\ "say" \in Kinds
       /\ "hail" \in Kinds
  BY DEF Kinds
<1>11. ASSUME NEW n, NEW k, NEW x
       PROVE  Act(n, k, x).to = <<n>> /\ Act(n, k, x).kind = k /\ Act(n, k, x).terms = x
  BY DEF Act
<1> HIDE DEF v, ReplyOK
<1>12. CASE /\ v \in Residents /\ t.from \in Principals /\ t.kind = "say"
            /\ t.word \in {"cold", "warm", "dark", "sweet"} /\ tm.exc = NoExc
  <2>1. CASE a = Hail
    <3>1. a.to = <<>> /\ a.kind = "hail" /\ a.terms = NoTerms /\ <<>> \in Seq(Names)
      BY <2>1 DEF Hail
    <3>2. env \in Envelope
      BY <1>5, <1>10, <3>1
    <3>3. Answered(t, env) /\ Spoken(env)
      BY <1>4, <1>12, <3>1 DEF Answered, Spoken, Opens
    <3> QED
      BY <1>2, <1>4, <1>6, <3>2, <3>3 DEF v, ReplyOK
  <2>2. ASSUME NEW n \in {"heating", "lamp"}, NEW x \in ScriptTerms,
               \/ n = "heating" /\ x.type = "temperature.set"
               \/ n = "lamp" /\ x.type = "lamp.set",
               a = Act(n, "propose", x)
        PROVE  env \in Envelope /\ Answered(t, env) /\ Spoken(env)
    <3>1. env.to = <<n>> /\ env.kind = "propose" /\ env.terms = x
      BY <1>4, <1>11, <2>2
    <3>2. n \in Names /\ <<n>> \in Seq(Names) /\ n # v
      BY <1>7, <1>9, <1>12, <2>2
    <3>3. env \in Envelope
      BY <1>4, <1>5, <1>8, <1>10, <3>1, <3>2
    <3>4. OfferedTo(env, n)
      BY <1>4, <1>7, <1>12, <2>2, <3>1, <3>2 DEF OfferedTo, TakesOffer
    <3>5. Answered(t, env) /\ Spoken(env)
      BY <1>4, <1>12, <3>2, <3>4 DEF Answered, Spoken, Opens
    <3> QED
      BY <3>3, <3>5
  <2>3. /\ \A x : Comfort("temperature.set", x).type = "temperature.set"
        /\ Comfort("lamp.set", 1).type = "lamp.set"
    BY DEF Comfort
  <2>4. CASE \E x \in Values : a = Act("heating", "propose", Comfort("temperature.set", x))
    BY <1>2, <1>4, <1>6, <1>8, <2>2, <2>3, <2>4 DEF v, ReplyOK
  <2>5. CASE a = Act("lamp", "propose", Comfort("lamp.set", 1))
    BY <1>2, <1>4, <1>6, <1>8, <2>2, <2>3, <2>5 DEF v, ReplyOK
  <2> QED
    BY <1>3, <1>12, <2>1, <2>4, <2>5, WordIsAnswered
<1>13. CASE /\ v \in {"door", "shop"} /\ t.from \in Residents /\ t.kind = "hail"
            /\ tm.exc = NoExc
  <2>1. <<t.from>> \in Seq(Names)
    BY <1>6, <1>9
  <2>2. CASE v = "door" /\ a = Act(t.from, "say", NoTerms)
    <3>0. a.to = <<t.from>> /\ a.kind = "say" /\ a.terms = NoTerms
      BY <2>2 DEF Act
    <3>1. env.to = <<t.from>> /\ env.kind = "say" /\ env.terms = NoTerms
      BY <1>4, <3>0
    <3>2. env \in Envelope
      <4>1. a.to \in Seq(Names) /\ a.kind \in Kinds /\ a.terms \in Terms \cup {NoTerms}
        BY <1>10, <2>1, <3>0
      <4> QED
        BY <1>5, <4>1
    <3>3. Answered(t, env)
      BY <1>4, <1>13, <2>2, <3>1 DEF Answered
    <3>4. Spoken(env)
      BY <1>4, <1>7, <1>13, <2>2, <3>1 DEF Spoken, Ends
    <3> QED
      BY <1>2, <1>4, <1>6, <3>2, <3>3, <3>4 DEF v, ReplyOK
  <2>3. CASE v = "shop" /\ a = Act(t.from, "propose", Bid(t.from))
    <3>0. a.to = <<t.from>> /\ a.kind = "propose" /\ a.terms = Bid(t.from)
      BY <2>3 DEF Act
    <3>1. env.to = <<t.from>> /\ env.kind = "propose" /\ env.terms = Bid(t.from)
      BY <1>4, <3>0
    <3>2. env \in Envelope
      <4>1. a.to \in Seq(Names) /\ a.kind \in Kinds /\ a.terms \in Terms \cup {NoTerms}
        BY <1>8, <1>10, <1>13, <2>1, <3>0
      <4> QED
        BY <1>5, <4>1
    <3>3. Bid(t.from).buyer = t.from /\ Bid(t.from).type = "trade"
      BY DEF Bid
    <3>4. t.from # "shop"
      BY <1>7, <1>13
    <3>5. OfferedTo(env, t.from)
      BY <1>4, <1>8, <1>13, <2>3, <3>1, <3>3, <3>4 DEF OfferedTo, TakesOffer
    <3>6. Answered(t, env) /\ Spoken(env)
      BY <1>4, <1>6, <1>13, <2>3, <3>5 DEF Answered, Spoken, Opens
    <3> QED
      BY <1>2, <1>4, <1>6, <3>2, <3>6 DEF v, ReplyOK
  <2> QED
    BY <1>3, <1>13, <2>2, <2>3, HailIsAnswered
<1>14. CASE /\ t.kind = "propose" /\ tm.exc \in DOMAIN exchanges
            /\ t.terms \in ScriptTerms
            /\ t.terms.type = exchanges[tm.exc].pending.terms.type
            /\ SetOf(exchanges[tm.exc].parts) = {v, t.from} /\ v # t.from
            /\ t.from \in Residents \cup {"heating", "shop"}
            /\ t.from = "shop" <=> t.terms.type = "trade"
            /\ TakesOffer(v, t)
  <2>1. <<t.from>> \in Seq(Names)
    BY <1>6, <1>9
  <2>2. t.from \notin Principals /\ t.terms # NoTerms /\ v \notin Principals
    BY <1>7, <1>8, <1>14 DEF TakesOffer
  <2>3. CASE t.terms.type # "trade" /\ a = Act(t.from, "accept", t.terms)
    <3>0. a.to = <<t.from>> /\ a.kind = "accept" /\ a.terms = t.terms
      BY <2>3 DEF Act
    <3>1. env.to = <<t.from>> /\ env.kind = "accept" /\ env.terms = t.terms
      BY <1>4, <3>0
    <3>2. env \in Envelope
      <4>1. a.to \in Seq(Names) /\ a.kind \in Kinds /\ a.terms \in Terms \cup {NoTerms}
        BY <1>8, <1>10, <1>14, <2>1, <3>0
      <4> QED
        BY <1>5, <4>1
    <3>3. Answered(t, env)
      BY <1>4, <1>14, <2>3, <3>1 DEF Answered
    <3>4. Spoken(env)
      BY <1>4, <1>14, <2>2, <3>1 DEF Spoken, Ends
    <3> QED
      BY <1>2, <1>4, <1>6, <3>2, <3>3, <3>4 DEF v, ReplyOK
  <2>4. CASE /\ v = "heating" /\ t.terms.type = "temperature.set"
             /\ a = Act(t.from, "propose",
                        Comfort("temperature.set", Middle(t.terms.value, w.temp)))
    <3> DEFINE m == Middle(t.terms.value, w.temp)
               c == Comfort("temperature.set", m)
    <3>1. t.terms.value \in Values /\ w.temp \in Values
      BY <1>14, <2>4, ScriptTermsOK DEF Views
    <3>2. m \in Values
      BY <3>1, ScenesAssumption
    <3>3. c \in ScriptTerms /\ c.type = "temperature.set"
      BY <1>8, <3>2 DEF Comfort
    <3>8. a = Act(t.from, "propose", c)
      BY <2>4
    <3> HIDE DEF c
    <3>4. env.to = <<t.from>> /\ env.kind = "propose" /\ env.terms = c
      BY <1>4, <1>11, <3>8
    <3>5. env \in Envelope
      BY <1>4, <1>5, <1>8, <1>10, <2>1, <3>3, <3>4
    <3>6. OfferedTo(env, t.from)
      BY <1>4, <1>14, <2>4, <3>3, <3>4 DEF OfferedTo, TakesOffer
    <3>7. Answered(t, env) /\ Spoken(env)
      BY <1>4, <1>6, <1>14, <2>4, <3>6 DEF Answered, Spoken, Opens
    <3> QED
      BY <1>2, <1>4, <1>6, <3>5, <3>7 DEF v, ReplyOK
  <2>5. CASE /\ v \in Residents /\ t.terms.type = "trade"
             /\ a = Act(PrincipalOf[v], "ask_principal", NoTerms)
    <3>1. env.to = <<PrincipalOf[v]>> /\ env.kind = "ask_principal" /\ env.terms = NoTerms
      BY <1>4, <1>11, <2>5
    <3>2. <<PrincipalOf[v]>> \in Seq(Names)
      <4>1. PrincipalOf[v] \in Names
        BY <2>5, PrincipalAssumption DEF Residents
      <4> QED
        BY <1>9, <4>1
    <3>3. env \in Envelope
      BY <1>4, <1>5, <1>10, <3>1, <3>2
    <3>4. Answered(t, env) /\ Spoken(env)
      BY <1>4, <1>14, <2>2, <2>5, <3>1 DEF Answered, Spoken, Ends
    <3> QED
      BY <1>2, <1>4, <1>6, <3>3, <3>4 DEF v, ReplyOK
  <2>6. \/ /\ t.terms.type # "trade"
           /\ Respond(v, t, w) = Act(t.from, "accept", t.terms)
        \/ /\ v = "heating" /\ t.terms.type = "temperature.set"
           /\ Respond(v, t, w)
                = Act(t.from, "propose", Comfort("temperature.set", Middle(t.terms.value, w.temp)))
        \/ /\ v \in Residents /\ t.terms.type = "trade"
           /\ Respond(v, t, w) = Act(PrincipalOf[v], "ask_principal", NoTerms)
    <3>1. t.kind = "propose" /\ TakesOffer(v, t)
      BY <1>14
    <3> QED
      BY <2>2, <3>1, OfferIsAnswered
  <2> QED
    BY <1>3, <2>3, <2>4, <2>5, <2>6, Zenon
<1> QED
  BY <1>2, <1>12, <1>13, <1>14 DEF Prompted

-----------------------------------------------------------------------------
(***************************************************************************)
(* The steps of a scope.  Asks stay asks of a trade.                       *)
(***************************************************************************)
LEMMA AsksStay ==
  ASSUME AsksOK, ExchangesGrow, UNCHANGED answer
  PROVE  AsksOK'
BY DEF AsksOK, ExchangesGrow

LEMMA AskPut ==
  ASSUME AsksOK, ExchangesGrow, NEW e \in DOMAIN exchanges,
         exchanges[e].pending.terms.type = "trade", NEW x \in {"waiting", "yes", "no"},
         answer' = [d \in DOMAIN answer \cup {e} |-> IF d = e THEN x ELSE answer[d]]
  PROVE  AsksOK'
<1>1. DOMAIN answer' = DOMAIN answer \cup {e}
  OBVIOUS
<1>2. answer' \in [DOMAIN answer' -> {"waiting", "yes", "no"}]
  BY <1>1 DEF AsksOK
<1>3. \A d \in DOMAIN answer' :
        d \in DOMAIN exchanges /\ exchanges[d].pending.terms.type = "trade"
  BY <1>1 DEF AsksOK
<1>4. \A d \in DOMAIN answer' :
        d \in DOMAIN exchanges' /\ exchanges'[d].pending.terms.type = "trade"
  BY <1>3 DEF ExchangesGrow
<1> QED
  BY <1>2, <1>4 DEF AsksOK

(***************************************************************************)
(* A step that speaks.                                                     *)
(***************************************************************************)
Speech(env, via, word, idle) ==
  /\ Spoken(env) /\ Emit(env, via, idle) /\ Heard(word)
  /\ ExchangesMove(env) /\ ExchangesGrow
  /\ uttSeq' = uttSeq + 1 \/ (env.kind = "accept" /\ uttSeq' = uttSeq + 2)
  /\ \E p \in Post : p = SpokenPost(env, via) /\ Effects(p, word, idle)

LEMMA SaysStep ==
  ASSUME ScriptInv, NEW v \in Residents, NEW word \in Words, Says(v, word)
  PROVE  /\ ScriptInv'
         /\ \E env \in Envelope :
              /\ env.kind = "say" /\ env.from \in Principals /\ env.to = <<v>>
              /\ env.exc = NoExc
              /\ Speech(env, "principal", word, timers)
<1>1. PICK env : env = [from |-> PrincipalOf[v], to |-> <<v>>, kind |-> "say",
                        exc |-> NoExc, terms |-> NoTerms]
  OBVIOUS
<1>2. v \in Names /\ PrincipalOf[v] \in Names /\ PrincipalOf[v] \in Principals
  BY SeedsAreNames, PrincipalAssumption DEF Residents
<1>3. <<v>> \in Seq(Names)
  BY <1>2
<1>4. env \in Envelope
  BY <1>1, <1>2, <1>3 DEF Envelope, Kinds, NoExc
<1>5. /\ env.kind = "say" /\ env.from \in Principals /\ env.to = <<v>>
      /\ env.exc = NoExc
  BY <1>1, <1>2
<1>6. Spoken(env)
  BY <1>5 DEF Spoken, Opens
<1>7. Emit(env, "principal", timers) /\ Heard(word) /\ UNCHANGED answer
  BY <1>1 DEF Says, PrincipalSays
<1>8. "principal" \in Vias /\ word \in Words \cup {""} /\ timers \in SUBSET timers
  BY DEF Vias
<1>9. /\ IInv' /\ CastInv' /\ OffersOK' /\ MindsOK' /\ ThinksPrompted'
      /\ Speech(env, "principal", word, timers)
  BY <1>4, <1>6, <1>7, <1>8, SpokenStep DEF Speech
<1>10. AsksOK'
  BY <1>7, <1>9, AsksStay DEF ScriptInv, Speech
<1> QED
  BY <1>4, <1>5, <1>9, <1>10 DEF ScriptInv

Verdict(e, approve, env) ==
  LET offer == exchanges[e].pending
  IN  /\ env.from = offer.terms.buyer /\ env.to = <<offer.from>> /\ env.exc = e
      /\ env.kind = (IF approve THEN "accept" ELSE "decline")
      /\ env.terms = (IF approve THEN offer.terms ELSE NoTerms)

LEMMA AnswersStep ==
  ASSUME ScriptInv, NEW e \in DOMAIN answer, NEW approve \in BOOLEAN, Answers(e, approve)
  PROVE  /\ ScriptInv'
         /\ \E env \in Envelope :
              /\ Verdict(e, approve, env) /\ Ends(env)
              /\ Speech(env, "inject", "", timers)
<1> DEFINE offer == exchanges[e].pending
           i == [from |-> offer.terms.buyer, to |-> <<offer.from>>,
                 kind |-> IF approve THEN "accept" ELSE "decline",
                 terms |-> IF approve THEN offer.terms ELSE NoTerms]
<1>1. e \in DOMAIN exchanges /\ offer.terms.type = "trade"
  BY DEF ScriptInv, AsksOK
<1>2. offer.terms \in ScriptTerms /\ offer.terms.buyer \in Residents
  BY <1>1 DEF ScriptInv, OffersOK, OfferOK
<1>3. e \in Nat /\ offer.from \in Names /\ offer.terms \in Terms \cup {NoTerms}
  <2>1. exchanges \in Seq(Exchange)
    BY DEF ScriptInv, IInv, TypeOK
  <2>2. exchanges[e] \in Exchange /\ e \in Nat
    BY <1>1, <2>1
  <2>3. offer \in Offer
    BY <2>2 DEF Exchange
  <2> QED
    BY <2>2, <2>3 DEF Offer
<1>4. offer.terms.buyer \in Names /\ offer.terms.buyer \notin Principals
  BY <1>2, SeedsAreNames
<1>5. <<offer.from>> \in Seq(Names)
  BY <1>3
<1>6. Inject(i, e) /\ Heard("")
  BY DEF Answers
<1>7. PICK env : env = [from |-> i.from, to |-> i.to, kind |-> i.kind, exc |-> e,
                        terms |-> i.terms]
  OBVIOUS
<1>8. Emit(env, "inject", timers)
  BY <1>6, <1>7 DEF Inject
<1>9. Verdict(e, approve, env)
  BY <1>7 DEF Verdict
<1> HIDE DEF i
<1>10. env \in Envelope
  <2>1. env.kind \in Kinds
    BY <1>9 DEF Verdict, Kinds
  <2>2. env.terms \in Terms \cup {NoTerms} /\ env.from \in Names /\ env.exc \in Nat
        /\ env.to \in Seq(Names)
    BY <1>3, <1>4, <1>5, <1>9 DEF Verdict
  <2> QED
    BY <1>7, <2>1, <2>2 DEF Envelope
<1>11. Ends(env)
  BY <1>1, <1>4, <1>9 DEF Verdict, Ends
<1>12. Spoken(env) /\ "inject" \in Vias /\ "" \in Words \cup {""} /\ timers \in SUBSET timers
  BY <1>11 DEF Spoken, Vias
<1>13. /\ IInv' /\ CastInv' /\ OffersOK' /\ MindsOK' /\ ThinksPrompted'
       /\ Speech(env, "inject", "", timers)
  BY <1>6, <1>8, <1>10, <1>12, SpokenStep DEF Speech
<1>14. AsksOK'
  <2> DEFINE x == IF approve THEN "yes" ELSE "no"
  <2>1. answer' = [answer EXCEPT ![e] = x]
    BY DEF Answers
  <2>2. answer' = [d \in DOMAIN answer \cup {e} |-> IF d = e THEN x ELSE answer[d]]
    BY <2>1
  <2>3. x \in {"waiting", "yes", "no"}
    OBVIOUS
  <2> HIDE DEF x
  <2>4. AsksOK /\ ExchangesGrow
    BY <1>13 DEF ScriptInv, Speech
  <2> QED
    BY <1>1, <2>2, <2>3, <2>4, AskPut
<1> QED
  BY <1>9, <1>10, <1>11, <1>13, <1>14 DEF ScriptInv

LEMMA SpeaksStep ==
  ASSUME ScriptInv, NEW tm \in timers, Speaks(tm),
         NEW t, t = minds[Key(tm)].trigger,
         NEW a, a = Scripted(tm), NEW env, env = Reply(tm, a)
  PROVE  /\ ScriptInv' /\ Answered(t, env)
         /\ env \in Envelope /\ env.from = tm.voice /\ env.exc = tm.exc
         /\ \E word \in Words \cup {""} :
              /\ env.kind = "propose" => word = ""
              /\ Speech(env, "think", word, timers \ {tm})
<1>3. /\ env \in Envelope /\ Spoken(env) /\ Answered(t, env)
      /\ env.from = tm.voice /\ env.exc = tm.exc /\ env.kind = a.kind
      /\ t.word \in Words \cup {""}
  <2>1. ReplyOK(tm, t, a, env)
    BY Replies
  <2> QED
    BY <2>1 DEF ReplyOK
<1>4. PICK word : word = IF a = Hail THEN t.word ELSE ""
  OBVIOUS
<1>5. Emit(env, "think", timers \ {tm}) /\ Heard(word)
  BY <1>4 DEF Speaks, ThinkSpeaks
<1>6. /\ word \in Words \cup {""} /\ "think" \in Vias /\ timers \ {tm} \in SUBSET timers
      /\ env.kind = "propose" => word = ""
  <2>1. a = Hail => env.kind # "propose"
    <3>1. Hail.kind = "hail"
      BY DEF Hail
    <3> QED
      BY <1>3, <3>1, Zenon
  <2>2. word \in Words \cup {""}
    BY <1>3, <1>4
  <2>3. "think" \in Vias
    BY DEF Vias
  <2> QED
    BY <1>4, <2>1, <2>2, <2>3
<1>7. /\ IInv' /\ CastInv' /\ OffersOK' /\ MindsOK' /\ ThinksPrompted'
      /\ Speech(env, "think", word, timers \ {tm})
  BY <1>3, <1>5, <1>6, SpokenStep DEF Speech
<1>8. AsksOK /\ ExchangesGrow
  BY <1>7 DEF ScriptInv, Speech
<1>9. AsksOK'
  <2>1. CASE env.kind # "ask_principal"
    <3>1. UNCHANGED answer
      BY <1>3, <2>1 DEF Speaks
    <3> QED
      BY <1>8, <3>1, AsksStay
  <2>2. CASE env.kind = "ask_principal"
    <3>1. answer' = [d \in DOMAIN answer \cup {tm.exc} |->
                       IF d = tm.exc THEN "waiting" ELSE answer[d]]
      BY <1>3, <2>2 DEF Speaks
    <3>2. tm.exc \in DOMAIN exchanges /\ t.terms.type = "trade" /\ t.kind = "propose"
      BY <1>3, <2>2 DEF Answered, OfferedTo
    <3>3. Prompted(tm.voice, tm.exc, t)
      BY TriggerKnown
    <3>4. exchanges[tm.exc].pending.terms.type = "trade"
      BY <3>2, <3>3 DEF Prompted
    <3>5. "waiting" \in {"waiting", "yes", "no"}
      OBVIOUS
    <3> QED
      BY <1>8, <3>1, <3>2, <3>4, <3>5, AskPut
  <2> QED
    BY <2>1, <2>2
<1>10. ScriptInv'
  BY <1>7, <1>9 DEF ScriptInv
<1> QED
  BY <1>3, <1>6, <1>7, <1>10

(***************************************************************************)
(* A think that goes on without a word, and one that the cap ends.         *)
(***************************************************************************)
Quiet(tm) ==
  /\ UNCHANGED <<things, marks, entries, exchanges, excOrder, uttSeq, answer, said>>
  /\ \/ timers' = timers \ {tm} /\ Discarded(tm)
     \/ \E phase \in {"fired", "thinking"} :
          timers' = (timers \ {tm}) \cup {[tm EXCEPT !.phase = phase]}
  /\ \A x \in timers' : minds'[Key(x)].trigger = minds[Key(x)].trigger

Caps(tm) ==
  /\ ~Stale(tm) /\ IsOpen(tm.exc) /\ Withdrawn(tm.exc) /\ ExchangesGrow
  /\ UNCHANGED <<things, marks, answer, said>>
  /\ uttSeq' = uttSeq + 1
  /\ \E p \in Post : Effects(p, "", timers \ {tm}) /\ Woken(p, "") = {}

LEMMA ContinuesStep ==
  ASSUME ScriptInv, NEW tm \in timers, Continues(tm)
  PROVE  ScriptInv' /\ (Quiet(tm) \/ Caps(tm))
<1>1. Heard("") /\ UNCHANGED <<answer, said>>
  BY DEF Continues
<1>2. IInv /\ tm.voice \in Names /\ tm \in Timer
  BY DEF ScriptInv, IInv, TypeOK, Timer
<1>3. ASSUME IInv', out' = <<>>,
             UNCHANGED <<things, marks, entries, exchanges, excOrder, uttSeq>>,
             \/ timers' = timers \ {tm} /\ Discarded(tm)
             \/ \E phase \in {"fired", "thinking"} :
                  timers' = (timers \ {tm}) \cup {[tm EXCEPT !.phase = phase]}
      PROVE  ScriptInv' /\ Quiet(tm)
  <2>1. ASSUME NEW x \in timers'
        PROVE  \E old \in timers :
                 old.voice = x.voice /\ old.gen = x.gen /\ old.exc = x.exc
    <3>1. CASE x \in timers
      BY <3>1
    <3>2. ASSUME NEW phase, x = [tm EXCEPT !.phase = phase]
          PROVE  tm.voice = x.voice /\ tm.gen = x.gen /\ tm.exc = x.exc
      BY <1>2, <3>2 DEF Timer
    <3> QED
      BY <1>3, <3>1, <3>2
  <2>2. /\ CastInv' /\ OffersOK' /\ MindsOK' /\ ThinksPrompted' /\ ExchangesGrow
        /\ \A x \in timers' : minds'[Key(x)].trigger = minds[Key(x)].trigger
    BY <1>1, <1>3, <2>1, QuietStep
  <2>3. AsksOK'
    BY <1>1, <2>2, AsksStay DEF ScriptInv
  <2> QED
    BY <1>1, <1>3, <2>2, <2>3 DEF ScriptInv, Quiet
<1>4. CASE Fire(tm)
  <2>1. IInv' /\ out' = <<>> /\ timers' = (timers \ {tm}) \cup {[tm EXCEPT !.phase = "fired"]}
        /\ UNCHANGED <<things, marks, entries, exchanges, excOrder, uttSeq>>
    BY <1>2, <1>4, PhaseOK DEF Fire
  <2> QED
    BY <1>3, <2>1
<1>5. ASSUME Drop(tm), Discarded(tm) PROVE ScriptInv' /\ Quiet(tm)
  <2>1. IInv'
    BY <1>2, <1>5, DropOK
  <2> QED
    BY <1>3, <1>5, <2>1 DEF Drop
<1>6. ASSUME ~Stale(tm), Capped(tm.exc), CapWithdraw(tm.voice, tm.exc, timers \ {tm})
      PROVE  ScriptInv' /\ Caps(tm)
  <2>1. IsOpen(tm.exc)
    BY <1>6 DEF Capped
  <2>2. /\ IInv' /\ CastInv' /\ OffersOK' /\ MindsOK' /\ ThinksPrompted'
        /\ ExchangesGrow /\ Withdrawn(tm.exc)
        /\ uttSeq' = uttSeq + 1
        /\ \E p \in Post : Effects(p, "", timers \ {tm}) /\ Woken(p, "") = {}
    BY <1>1, <1>6, <2>1, WithdrawStep
  <2>3. AsksOK'
    BY <1>1, <2>2, AsksStay DEF ScriptInv
  <2>4. UNCHANGED <<things, marks>>
    BY <1>6 DEF CapWithdraw
  <2> QED
    BY <1>1, <1>6, <2>1, <2>2, <2>3, <2>4 DEF ScriptInv, Caps
<1>7. CASE ThinkBegin(tm)
  <2>1. CASE (Stale(tm) \/ Abandoned(tm.exc)) /\ Drop(tm)
    BY <1>5, <2>1 DEF Discarded
  <2>2. CASE ~Stale(tm) /\ Capped(tm.exc) /\ CapWithdraw(tm.voice, tm.exc, timers \ {tm})
    BY <1>6, <2>2
  <2>3. CASE /\ timers' = (timers \ {tm}) \cup {[tm EXCEPT !.phase = "thinking"]}
             /\ out' = <<>>
             /\ UNCHANGED <<things, marks, entries, exchanges, excOrder, uttSeq>>
    <3>1. IInv'
      BY <1>2, <1>7, ThinkBeginOK
    <3> QED
      BY <1>3, <2>3, <3>1
  <2> QED
    BY <1>7, <2>1, <2>2, <2>3 DEF ThinkBegin
<1>8. CASE ThinkCapped(tm)
  BY <1>6, <1>8 DEF ThinkCapped
<1>9. CASE Discarded(tm) /\ ThinkFails(tm)
  BY <1>5, <1>9 DEF ThinkFails
<1> QED
  BY <1>4, <1>7, <1>8, <1>9 DEF Continues

-----------------------------------------------------------------------------
(***************************************************************************)
(* The script holds from the start.                                        *)
(***************************************************************************)
LEMMA ChartersAreCharters ==
  /\ ResidentCharter \in Charter
  /\ \A seeds \in {HouseholdCharters, StreetCharters} :
       \A n \in DOMAIN seeds : seeds[n] \in Charter
<1>1. /\ "temperature.set" \in STRING /\ "lamp.set" \in STRING /\ "curtains.set" \in STRING
      /\ "trade" \in STRING
  BY LiteralsAssumption DEF ComfortTypes
<1>2. ASSUME NEW kind \in VoiceKinds, NEW may \in SUBSET STRING, NEW solo \in BOOLEAN,
             NEW limit \in Int
      PROVE  [kind |-> kind, mayPropose |-> may, solo |-> solo, limit |-> limit] \in Charter
  BY DEF Charter
<1>3. "thing" \in VoiceKinds /\ "person" \in VoiceKinds /\ 0 \in Int /\ 10 \in Int
  BY DEF VoiceKinds
<1>4. ComfortTypes \cup {"trade"} \in SUBSET STRING
  BY <1>1 DEF ComfortTypes
<1>5. ResidentCharter \in Charter
  BY <1>2, <1>3, <1>4, Zenon DEF ResidentCharter
<1>6. ASSUME NEW may \in SUBSET STRING, NEW solo \in BOOLEAN
      PROVE  Holding(may, solo) \in Charter
  BY <1>2, <1>3, Zenon DEF Holding
<1>7. /\ Holding({"temperature.set"}, TRUE) \in Charter
      /\ Holding({"lamp.set"}, TRUE) \in Charter
      /\ Holding({"curtains.set"}, TRUE) \in Charter
      /\ Holding({}, FALSE) \in Charter
      /\ Holding({"trade"}, TRUE) \in Charter
  <2>1. /\ {"temperature.set"} \in SUBSET STRING /\ {"lamp.set"} \in SUBSET STRING
        /\ {"curtains.set"} \in SUBSET STRING /\ {} \in SUBSET STRING
        /\ {"trade"} \in SUBSET STRING
    BY <1>1
  <2> QED
    BY <1>6, <2>1, Zenon
<1>8. /\ HouseholdCharters["heating"] = Holding({"temperature.set"}, TRUE)
      /\ HouseholdCharters["lamp"] = Holding({"lamp.set"}, TRUE)
      /\ HouseholdCharters["curtains"] = Holding({"curtains.set"}, TRUE)
      /\ HouseholdCharters["door"] = Holding({}, FALSE)
      /\ StreetCharters["shop"] = Holding({"trade"}, TRUE)
  BY DEF HouseholdCharters, StreetCharters
<1>9. \A n \in {"heating", "lamp", "curtains", "door"} : HouseholdCharters[n] \in Charter
  BY <1>7, <1>8, Zenon
<1>10. \A n \in {"shop"} : StreetCharters[n] \in Charter
  BY <1>7, <1>8, Zenon
<1> QED
  BY <1>5, <1>9, <1>10, SeedNames

LEMMA ScriptInit == ScenesInit => ScriptInv
<1> SUFFICES ASSUME ScenesInit PROVE ScriptInv
  OBVIOUS
<1>1. PICK seeds \in {HouseholdCharters, StreetCharters} :
        /\ entries = Peopled(seeds)
        /\ things = [n \in Names |-> IF n \in DOMAIN seeds THEN Body ELSE NoThing]
  BY DEF ScenesInit
<1>2. Body \in ThingState
  <2>1. 42 \in Values /\ 1 \in Values
    BY ScriptTermsOK
  <2> QED
    BY <2>1 DEF Body, ThingState
<1>3. WorldTypeOK
  <2>1. things \in [Names -> ThingState \cup {NoThing}]
    BY <1>1, <1>2
  <2>2. marks \in [Names -> Int]
    BY DEF ScenesInit, Stake
  <2> QED
    BY <2>1, <2>2 DEF WorldTypeOK
<1> DEFINE Is(c) == <<[charter |-> c, gen |-> 0]>>
<1>4. ASSUME NEW c \in Charter
      PROVE  Is(c) \in Seq(Entry) /\ Len(Is(c)) = 1 /\ Is(c)[1].charter = c
  BY DEF Entry
<1>5. ASSUME NEW n \in Names
      PROVE  /\ entries[n] \in Seq(Entry)
             /\ IF n \in DOMAIN seeds \cup Residents
                THEN Len(entries[n]) = 1 /\ entries[n][1].charter = Charters(seeds)[n]
                ELSE entries[n] = <<>>
  <2>1. CASE n \in DOMAIN seeds
    <3>1. seeds[n] \in Charter /\ entries[n] = Is(seeds[n]) /\ Charters(seeds)[n] = seeds[n]
      BY <1>1, <2>1, ChartersAreCharters DEF Peopled, Charters
    <3> HIDE DEF Is
    <3> QED
      BY <1>4, <2>1, <3>1
  <2>2. CASE n \notin DOMAIN seeds /\ n \in Residents
    <3>1. ResidentCharter \in Charter /\ entries[n] = Is(ResidentCharter)
          /\ Charters(seeds)[n] = ResidentCharter
      BY <1>1, <2>2, ChartersAreCharters DEF Peopled, Charters
    <3> HIDE DEF Is
    <3> QED
      BY <1>4, <2>2, <3>1
  <2>3. CASE n \notin DOMAIN seeds \cup Residents
    <3>1. entries[n] = <<>> /\ <<>> \in Seq(Entry)
      BY <1>1, <2>3 DEF Peopled
    <3> QED
      BY <2>3, <3>1
  <2> QED
    BY <2>1, <2>2, <2>3
<1>6. CastInv
  BY <1>1, <1>5 DEF CastInv, InCast
<1>7. IInv
  <2>1. entries \in [Names -> Seq(Entry)]
    <3>1. entries = [n \in Names |-> entries[n]]
      BY <1>1 DEF Peopled
    <3> QED
      BY <1>5, <3>1
  <2>2. <<>> \in Seq(Exchange) /\ <<>> \in Seq(Post) /\ 0 \in Nat
    OBVIOUS
  <2>3. ThinksOK({}, entries)
    BY DEF ThinksOK, Owned, Distinct, Retired
  <2> QED
    BY <1>3, <2>1, <2>2, <2>3 DEF ScenesInit, IInv, TypeOK
<1>8. OffersOK /\ ThinksPrompted
  <2>1. DOMAIN exchanges = {}
    BY DEF ScenesInit
  <2> QED
    BY <2>1 DEF ScenesInit, OffersOK, ThinksPrompted
<1>9. MindsOK
  BY DEF ScenesInit, MindsOK
<1>10. AsksOK
  BY DEF ScenesInit, AsksOK
<1> QED
  BY <1>6, <1>7, <1>8, <1>9, <1>10 DEF ScriptInv

LEMMA ScriptNext == ScriptInv /\ [ScenesNext]_sceneVars => ScriptInv'
<1> SUFFICES ASSUME ScriptInv, [ScenesNext]_sceneVars PROVE ScriptInv'
  OBVIOUS
<1>1. ASSUME NEW v \in Residents, NEW word \in Words, Says(v, word) PROVE ScriptInv'
  BY <1>1, SaysStep
<1>2. ASSUME NEW e \in DOMAIN answer, NEW approve \in BOOLEAN, Answers(e, approve)
      PROVE  ScriptInv'
  BY <1>2, AnswersStep
<1>3. ASSUME NEW tm \in timers, Continues(tm) PROVE ScriptInv'
  BY <1>3, ContinuesStep
<1>4. ASSUME NEW tm \in timers, Speaks(tm) PROVE ScriptInv'
  BY <1>4, SpeaksStep
<1>5. CASE UNCHANGED sceneVars
  <2>1. UNCHANGED <<things, marks, entries, exchanges, excOrder, timers, uttSeq, out,
                    minds, answer>>
    BY <1>5 DEF sceneVars, vars
  <2>2. IInv'
    BY <2>1 DEF ScriptInv, IInv, TypeOK, WorldTypeOK
  <2>3. CastInv' /\ OffersOK'
    BY <2>1 DEF ScriptInv, CastInv, InCast, OffersOK, OfferOK
  <2>4. MindsOK' /\ AsksOK'
    BY <2>1 DEF ScriptInv, MindsOK, AsksOK
  <2>5. ASSUME NEW tm \in timers'
        PROVE  Prompted(tm.voice, tm.exc, minds[Key(tm)].trigger)'
    <3>1. Prompted(tm.voice, tm.exc, minds[Key(tm)].trigger)
      BY <2>1 DEF ScriptInv, ThinksPrompted
    <3> QED
      BY <2>1, <3>1 DEF Prompted
  <2> QED
    BY <2>2, <2>3, <2>4, <2>5 DEF ScriptInv, ThinksPrompted
<1> QED
  BY <1>1, <1>2, <1>3, <1>4, <1>5 DEF ScenesNext, Thinks

LEMMA ScriptHolds == ScenesSpec => []ScriptInv
<1> QED
  BY ScriptInit, ScriptNext, PTL DEF ScenesSpec

-----------------------------------------------------------------------------
(***************************************************************************)
(* Nothing is bought unasked.  Marks move only where an accept settles the *)
(* exchange it names.                                                      *)
(***************************************************************************)
LEMMA MarksMoveInASettle ==
  ASSUME IInv, NEW env, Spoken(env), NEW via, NEW idle, Emit(env, via, idle)
  PROVE  \/ UNCHANGED marks
         \/ /\ env.kind = "accept" /\ env.exc \in DOMAIN exchanges
            /\ exchanges'[env.exc].status = "settled"
            /\ \E owner : Apply(owner, exchanges[env.exc].pending.terms)
<1>1. ExchangeOf(env) = env.exc
  BY SpokenStays
<1>2. CASE Settle(env, via, idle)
  <2> DEFINE x == exchanges[env.exc]
  <2>1. Matches(env, env.exc) /\ Apply(Owner(x.parts, env.from), x.pending.terms)
        /\ exchanges' = [exchanges EXCEPT ![env.exc] = Turn(x, "settled", x.pending)]
    BY <1>1, <1>2 DEF Settle
  <2>2. env.kind = "accept" /\ env.exc \in DOMAIN exchanges
    BY <2>1 DEF Matches, IsOpen
  <2>3. exchanges'[env.exc].status = "settled"
    BY <2>1, <2>2 DEF Turn
  <2> QED
    BY <2>1, <2>2, <2>3
<1>3. CASE Crystallize(env, via, idle) \/ RecordOnly(env, via, idle)
           \/ Converse(env, via, idle) \/ Refuse(env, via, idle)
  BY <1>3 DEF Crystallize, RecordOnly, Converse, Refuse
<1> QED
  BY <1>2, <1>3 DEF Emit

LEMMA ComfortIsFree ==
  ASSUME NEW t, t.type # "trade", NEW owner, Apply(owner, t)
  PROVE  UNCHANGED marks
BY DEF Apply

LEMMA BuyerPays ==
  ASSUME WorldTypeOK, NEW t \in ScriptTerms, t.type = "trade", NEW owner, Apply(owner, t),
         NEW v \in Residents, marks'[v] < marks[v]
  PROVE  v = t.buyer
<1>1. t.buyer \in Residents /\ t = Bid(t.buyer)
  BY ScriptTermsOK
<1>2. t.seller = "shop" /\ t.price = 3
  BY <1>1 DEF Bid
<1>3. /\ "shop" \in Names /\ v \in Names /\ t.buyer \in Names /\ v # "shop"
      /\ t.buyer # "shop"
  BY <1>1, SeedsAreNames
<1>4. marks \in [Names -> Int]
  BY DEF WorldTypeOK
<1>5. marks' = [[marks EXCEPT ![t.buyer] = @ - t.price] EXCEPT ![t.seller] = @ + t.price]
  BY DEF Apply, ComfortTypes
<1>6. v # t.buyer => marks'[v] = marks[v]
  BY <1>2, <1>3, <1>4, <1>5
<1> QED
  BY <1>3, <1>4, <1>6

LEMMA BoughtWhenAsked ==
  ASSUME ScriptInv, [ScenesNext]_sceneVars, NEW v \in Residents, marks'[v] < marks[v]
  PROVE  \E e \in DOMAIN answer :
           /\ answer[e] = "waiting" /\ answer'[e] = "yes"
           /\ exchanges'[e].status = "settled"
           /\ exchanges[e].pending.terms.buyer = v
<1>1. ~UNCHANGED marks
  <2>1. v \in Names /\ marks \in [Names -> Int]
    BY SeedsAreNames DEF ScriptInv, IInv, TypeOK, WorldTypeOK
  <2> QED
    BY <2>1
<1>2. IInv /\ WorldTypeOK
  BY DEF ScriptInv, IInv, TypeOK
<1>3. ASSUME NEW r \in Residents, NEW word \in Words, Says(r, word) PROVE FALSE
  <2>1. PICK env \in Envelope : /\ env.kind = "say"
                                /\ Speech(env, "principal", word, timers)
    BY <1>3, SaysStep
  <2>2. Spoken(env) /\ Emit(env, "principal", timers)
    BY <2>1 DEF Speech
  <2> QED
    BY <1>1, <1>2, <2>1, <2>2, MarksMoveInASettle
<1>4. ASSUME NEW e \in DOMAIN answer, NEW approve \in BOOLEAN, Answers(e, approve)
      PROVE  /\ answer[e] = "waiting" /\ answer'[e] = "yes"
             /\ exchanges'[e].status = "settled"
             /\ exchanges[e].pending.terms.buyer = v
  <2>1. PICK env \in Envelope : /\ Verdict(e, approve, env)
                                /\ Speech(env, "inject", "", timers)
    BY <1>4, AnswersStep
  <2>2. Spoken(env) /\ Emit(env, "inject", timers)
    BY <2>1 DEF Speech
  <2>3. env.kind = "accept" /\ exchanges'[env.exc].status = "settled"
        /\ \E owner : Apply(owner, exchanges[env.exc].pending.terms)
    BY <1>1, <1>2, <2>2, MarksMoveInASettle
  <2>4. approve /\ env.exc = e
    BY <2>1, <2>3 DEF Verdict
  <2>5. answer[e] = "waiting" /\ answer'[e] = "yes"
    BY <1>4, <2>4 DEF Answers
  <2>6. exchanges[e].pending.terms \in ScriptTerms /\ exchanges[e].pending.terms.type = "trade"
    BY DEF ScriptInv, AsksOK, OffersOK, OfferOK
  <2>7. exchanges[e].pending.terms.buyer = v
    BY <1>2, <2>3, <2>4, <2>6, BuyerPays
  <2> QED
    BY <2>3, <2>4, <2>5, <2>7
<1>5. ASSUME NEW tm \in timers, Continues(tm) PROVE FALSE
  BY <1>1, <1>5, ContinuesStep DEF Quiet, Caps
<1>6. ASSUME NEW tm \in timers, Speaks(tm) PROVE FALSE
  <2>1. PICK t, env : t = minds[Key(tm)].trigger /\ env = Reply(tm, Scripted(tm))
    OBVIOUS
  <2>2. /\ Answered(t, env) /\ env.exc = tm.exc
        /\ \E word \in Words \cup {""} : Speech(env, "think", word, timers \ {tm})
    BY <1>6, <2>1, SpeaksStep
  <2>3. Spoken(env) /\ Emit(env, "think", timers \ {tm})
    BY <2>2 DEF Speech
  <2>4. env.kind = "accept"
        /\ \E owner : Apply(owner, exchanges[env.exc].pending.terms)
    BY <1>1, <1>2, <2>3, MarksMoveInASettle
  <2>5. t.kind = "propose" /\ t.terms.type # "trade"
    BY <2>2, <2>4 DEF Answered, OfferedTo
  <2>6. Prompted(tm.voice, tm.exc, t)
    BY <2>1, TriggerKnown
  <2>7. exchanges[env.exc].pending.terms.type # "trade"
    BY <2>2, <2>5, <2>6 DEF Prompted
  <2> QED
    BY <1>1, <2>4, <2>7, ComfortIsFree
<1>7. CASE UNCHANGED sceneVars
  BY <1>1, <1>7 DEF sceneVars, vars
<1> QED
  BY <1>3, <1>4, <1>5, <1>6, <1>7 DEF ScenesNext, Thinks

(***************************************************************************)
(* A resident's marks go only in the step of its principal's yes, by which *)
(* the exchange it was asked about settles: scenes.Household's "ask before *)
(* anything irreversible", for any set of residents, of temperatures, of   *)
(* comforts and of turns the orchestrator is built with.                   *)
(***************************************************************************)
THEOREM NothingIsBoughtUnasked == ScenesSpec => NothingBoughtUnasked
<1>1. ScriptInv /\ [ScenesNext]_sceneVars
        => [\A v \in Residents :
              marks'[v] < marks[v]
                => \E e \in DOMAIN answer :
                     /\ answer[e] = "waiting" /\ answer'[e] = "yes"
                     /\ exchanges'[e].status = "settled"
                     /\ exchanges[e].pending.terms.buyer = v]_sceneVars
  BY BoughtWhenAsked
<1> QED
  BY <1>1, ScriptHolds, PTL DEF ScenesSpec, NothingBoughtUnasked

-----------------------------------------------------------------------------
(***************************************************************************)
(* Nobody is left hanging.  A voice has at most one live think: what a     *)
(* word does to the live ones is either nothing, or it replaces them.      *)
(***************************************************************************)
LEMMA LiveThinksAgree ==
  ASSUME NEW T \in SUBSET Timer, NEW E \in [Names -> Seq(Entry)], ThinksOK(T, E),
         \A n \in Names : Len(E[n]) <= 1,
         NEW x \in T, NEW y \in T, x.voice = y.voice,
         E[x.voice][x.inc].gen = x.gen, E[y.voice][y.inc].gen = y.gen
  PROVE  x = y
<1>1. x.inc = 1 /\ y.inc = 1
  BY KeysDiffer
<1>2. Key(x) = Key(y)
  BY <1>1 DEF Key
<1> QED
  BY <1>2, KeysDiffer

LEMMA LiveThinksDiffer ==
  ASSUME ScriptInv, NEW x \in timers, NEW y \in timers, x.voice = y.voice,
         ~Stale(x), ~Stale(y)
  PROVE  x = y
<1>1. /\ timers \in SUBSET Timer /\ entries \in [Names -> Seq(Entry)]
      /\ ThinksOK(timers, entries)
  BY DEF ScriptInv, IInv, TypeOK
<1>2. \A n \in Names : Len(entries[n]) <= 1
  BY CastEnteredOnce DEF ScriptInv, EnteredOnce
<1>3. entries[x.voice][x.inc].gen = x.gen /\ entries[y.voice][y.inc].gen = y.gen
  BY DEF Stale, OwnEntry
<1> QED
  BY <1>1, <1>2, <1>3, LiveThinksAgree

LEMMA LiveAfter ==
  ASSUME ScriptInv, ScriptInv', NEW p, NEW word, NEW idle \in SUBSET timers,
         Effects(p, word, idle), NEW u \in timers', ~Stale(u)'
  PROVE  \/ /\ u \in idle /\ ~Stale(u)
            /\ minds'[Key(u)].trigger = minds[Key(u)].trigger
         \/ /\ u.voice \in Woken(p, word) /\ u.exc = p.exc
            /\ minds'[Key(u)].trigger = Trigger(p, word)
<1>1. \/ u \in idle /\ minds'[Key(u)].trigger = minds[Key(u)].trigger
      \/ /\ u.voice \in Woken(p, word) /\ u.exc = p.exc
         /\ minds'[Key(u)].trigger = Trigger(p, word)
  BY DEF Effects, Triggered
<1>2. CASE entries'[u.voice] = entries[u.voice]
  BY <1>1, <1>2 DEF Stale, OwnEntry
<1>3. CASE entries'[u.voice] # entries[u.voice]
  <2>1. u.voice \in Names
    BY DEF ScriptInv, IInv, TypeOK, Timer
  <2>2. u.voice \in Woken(p, word)
    BY <1>3, <2>1 DEF Effects
  <2>3. PICK tm \in timers' : /\ tm.voice = u.voice /\ tm.exc = p.exc /\ ~Stale(tm)'
                              /\ minds'[Key(tm)].trigger = Trigger(p, word)
    BY <2>2 DEF Effects
  <2>4. /\ timers' \in SUBSET Timer /\ entries' \in [Names -> Seq(Entry)]
        /\ ThinksOK(timers', entries')
    BY DEF ScriptInv, IInv, TypeOK
  <2>5. \A n \in Names : Len(entries'[n]) <= 1
    <3>1. EnteredOnce'
      BY CastEnteredOnce, PTL DEF ScriptInv
    <3> QED
      BY <3>1 DEF EnteredOnce
  <2>6. entries'[u.voice][u.inc].gen = u.gen /\ entries'[tm.voice][tm.inc].gen = tm.gen
    BY <2>3 DEF Stale, OwnEntry
  <2>7. u = tm
    BY <2>3, <2>4, <2>5, <2>6, LiveThinksAgree
  <2> QED
    BY <2>2, <2>3, <2>7
<1> QED
  BY <1>2, <1>3

LEMMA LiveStays ==
  ASSUME ScriptInv, NEW p, NEW word, NEW idle \in SUBSET timers, Effects(p, word, idle),
         Heard(word), NEW u \in idle, ~Stale(u)
  PROVE  \/ /\ u \in timers' /\ ~Stale(u)'
            /\ minds'[Key(u)].trigger = minds[Key(u)].trigger
         \/ u.exc \in passed'
<1>1. CASE entries'[u.voice] = entries[u.voice]
  <2>1. u \in timers' /\ Known(u.voice, u.gen)
    BY <1>1 DEF Effects, Known
  <2>2. minds'[Key(u)].trigger = minds[Key(u)].trigger
    BY <2>1 DEF Effects, Triggered
  <2> QED
    BY <1>1, <2>1, <2>2 DEF Stale, OwnEntry
<1>2. CASE entries'[u.voice] # entries[u.voice]
  <2>1. u \in {x \in timers : ~Stale(x) /\ entries'[x.voice] # entries[x.voice]}
    BY <1>2
  <2> QED
    BY <2>1 DEF Heard
<1> QED
  BY <1>1, <1>2

(***************************************************************************)
(* An offer makes the one it is made to think, if that one is there.       *)
(***************************************************************************)
LEMMA OffersWake ==
  ASSUME ScriptInv, NEW env \in Envelope, NEW n \in Names, OfferedTo(env, n), NEW via,
         NEW word, NEW p, p = SpokenPost(env, via)
  PROVE  n \in Woken(p, word) \/ ~Registered(n)
<1> SUFFICES ASSUME Registered(n) PROVE n \in Woken(p, word)
  OBVIOUS
<1>1. env.to = <<n>> /\ SetOf(<<n>>) = {n}
  BY SetOfOne DEF OfferedTo
<1>2. p.from = env.from /\ p.kind = "propose" /\ p.terms = env.terms /\ p.to = {n}
  BY <1>1 DEF SpokenPost, Posted, OfferedTo
<1>3. n \in Audience(p)
  BY <1>2 DEF Audience, OfferedTo
<1>4. PICK t : t = Trigger(p, word)
  OBVIOUS
<1>5. t.from = env.from /\ t.kind = "propose" /\ t.terms = env.terms
  BY <1>2, <1>4 DEF Trigger
<1>6. t.terms # NoTerms /\ t.from \notin Principals /\ TakesOffer(n, t)
  BY <1>5, SeedsAreNames, ScriptTermsOK DEF OfferedTo, TakesOffer
<1>7. \E m, k, x : Respond(n, t, View(n)) = Act(m, k, x)
  BY <1>5, <1>6, OfferIsAnswered
<1>8. Respond(n, t, View(n)) # Silence
  BY <1>7, ActsAreNotSilence
<1> QED
  BY <1>3, <1>4, <1>8 DEF Woken

(***************************************************************************)
(* What a word leaves of the invariant.  A think that ends in it, g, ends  *)
(* in an answer: an accept that settles, another offer or the ask.         *)
(***************************************************************************)
Undisturbed(env, idle) ==
  env.kind = "propose" => \A u \in idle : Attends(u) => u.exc # env.exc

AnsweredBy(env, idle) ==
  \A g \in timers \ idle :
    Attends(g) => /\ g.exc = env.exc
                  /\ \/ Matches(env, env.exc)
                     \/ \E n \in Names : OfferedTo(env, n)
                     \/ Answerless(env.exc)'

AnswersKept ==
  \A e \in DOMAIN exchanges : Answerless(e) /\ IsOpen(e)' => Answerless(e)'

LEMMA OpenBefore ==
  ASSUME IInv, NEW env, ExchangesMove(env), NEW e \in DOMAIN exchanges, IsOpen(e)'
  PROVE  /\ IsOpen(e)
         /\ e = env.exc => ~Matches(env, e)
         /\ exchanges'[e].pending # exchanges[e].pending => e = env.exc /\ env.kind = "propose"
<1>1. e \in DOMAIN exchanges' /\ exchanges'[e].status = "open"
  BY DEF IsOpen
<1>2. CASE e = env.exc
  BY <1>1, <1>2 DEF ExchangesMove, IsOpen
<1>3. CASE e # env.exc
  BY <1>1, <1>3 DEF ExchangesMove, IsOpen
<1> QED
  BY <1>2, <1>3

LEMMA FreshAfterWord ==
  ASSUME ScriptInv, ScriptInv', OffersFresh, NEW env \in Envelope, Spoken(env), NEW via,
         ExchangesMove(env), NEW word, NEW idle \in SUBSET timers, NEW p,
         p = SpokenPost(env, via), Effects(p, word, idle), Undisturbed(env, idle)
  PROVE  OffersFresh'
<1> SUFFICES ASSUME NEW u \in timers', Attends(u)'
             PROVE  exchanges'[u.exc].pending.from = minds'[Key(u)].trigger.from
  BY DEF OffersFresh
<1>1. ~Stale(u)' /\ minds'[Key(u)].trigger.kind = "propose" /\ IsOpen(u.exc)'
  BY DEF Attends
<1>2. /\ p.from = env.from /\ p.kind = env.kind
      /\ p.exc = IF Opening(env) THEN NextId ELSE env.exc
  BY DEF SpokenPost, Posted
<1>3. CASE /\ u \in idle /\ ~Stale(u)
           /\ minds'[Key(u)].trigger = minds[Key(u)].trigger
  <2>1. u.exc \in DOMAIN exchanges
    <3>1. Prompted(u.voice, u.exc, minds[Key(u)].trigger)
      BY <1>3, TriggerKnown
    <3> QED
      BY <1>1, <1>3, <3>1 DEF Prompted
  <2>2. /\ IsOpen(u.exc)
        /\ exchanges'[u.exc].pending # exchanges[u.exc].pending
             => u.exc = env.exc /\ env.kind = "propose"
    BY <1>1, <2>1, OpenBefore DEF ScriptInv
  <2>3. Attends(u)
    BY <1>1, <1>3, <2>2 DEF Attends
  <2>4. exchanges'[u.exc].pending = exchanges[u.exc].pending
    BY <1>3, <2>2, <2>3 DEF Undisturbed
  <2> QED
    BY <1>3, <2>3, <2>4 DEF OffersFresh
<1>4. CASE u.exc = p.exc /\ minds'[Key(u)].trigger = Trigger(p, word)
  <2>1. minds'[Key(u)].trigger.from = env.from /\ env.kind = "propose"
    BY <1>1, <1>2, <1>4 DEF Trigger
  <2>2. CASE Opening(env)
    BY <1>2, <1>4, <2>1, <2>2 DEF ExchangesMove
  <2>3. CASE ~Opening(env)
    <3>1. u.exc = env.exc /\ env.exc # NoExc
      BY <1>2, <1>4, <2>1, <2>3 DEF Opening
    <3>2. env.exc \in DOMAIN exchanges
      BY <2>1, <3>1 DEF Spoken, Opens, Ends, OfferedTo
    <3>3. exchanges'[env.exc].status = "open"
      BY <1>1, <3>1 DEF IsOpen
    <3> QED
      BY <2>1, <3>1, <3>2, <3>3 DEF ExchangesMove
  <2> QED
    BY <2>2, <2>3
<1> QED
  BY <1>1, <1>3, <1>4, LiveAfter

LEMMA OfferIsRemembered ==
  ASSUME ScriptInv, ScriptInv', NEW env \in Envelope, NEW n \in Names, OfferedTo(env, n),
         NEW via, ExchangesMove(env), NEW word, NEW idle \in SUBSET timers, NEW p,
         p = SpokenPost(env, via), Effects(p, word, idle), IsOpen(p.exc)',
         n \in SetOf(exchanges'[p.exc].parts)
  PROVE  Remembered(p.exc)'
<1>1. CASE n \in Woken(p, word)
  <2>1. PICK tm \in timers' : /\ tm.exc = p.exc /\ ~Stale(tm)'
                              /\ minds'[Key(tm)].trigger = Trigger(p, word)
    BY <1>1 DEF Effects
  <2>2. Trigger(p, word).kind = "propose"
    BY DEF Trigger, SpokenPost, Posted, OfferedTo
  <2>3. Attends(tm)'
    BY <2>1, <2>2 DEF Attends
  <2> QED
    BY <2>1, <2>3 DEF Remembered
<1>2. CASE ~Registered(n)
  <2>1. ~Registered(n)'
    BY <1>2 DEF Effects, Registered
  <2>2. Unattended(p.exc)'
    BY <2>1 DEF Unattended
  <2> QED
    BY <2>2 DEF Remembered
<1> QED
  BY <1>1, <1>2, OffersWake

LEMMA RememberedAfterWord ==
  ASSUME ScriptInv, ScriptInv', NoneForgotten, NEW env \in Envelope, Spoken(env), NEW via,
         ExchangesMove(env), ExchangesGrow, NEW word, Heard(word),
         NEW idle \in SUBSET timers, NEW p, p = SpokenPost(env, via),
         Effects(p, word, idle), AnsweredBy(env, idle), AnswersKept
  PROVE  NoneForgotten'
<1> SUFFICES ASSUME NEW e \in DOMAIN exchanges', IsOpen(e)' PROVE Remembered(e)'
  BY DEF NoneForgotten
<1>1. /\ p.exc = IF Opening(env) THEN NextId ELSE env.exc
      /\ e \in DOMAIN exchanges \/ (Opening(env) /\ e = NextId)
  BY DEF SpokenPost, Posted, ExchangesMove
<1>2. CASE Opening(env) /\ e = NextId
  <2>1. PICK n \in Names : OfferedTo(env, n)
    BY <1>2 DEF Opening, Spoken, Opens, Ends
  <2>2. exchanges'[e].parts = <<env.from>> \o <<n>>
    BY <1>2, <2>1 DEF ExchangesMove, OfferedTo
  <2>3. n \in SetOf(exchanges'[e].parts)
    BY <2>2, SetOfOne
  <2>4. e = p.exc
    BY <1>1, <1>2
  <2> QED
    BY <2>1, <2>3, <2>4, OfferIsRemembered
<1>3. CASE e \in DOMAIN exchanges
  <2>1. IsOpen(e) /\ (e = env.exc => ~Matches(env, e)) /\ Remembered(e)
    BY <1>3, OpenBefore DEF ScriptInv, NoneForgotten
  <2>2. CASE Answerless(e)
    BY <1>3, <2>2 DEF AnswersKept, Remembered
  <2>3. CASE Unattended(e)
    <3>1. PICK q \in SetOf(exchanges[e].parts) : ~Registered(q)
      BY <2>3 DEF Unattended
    <3>2. exchanges'[e].parts = exchanges[e].parts /\ exchanges[e].parts \in Seq(Names)
      <4>1. exchanges \in Seq(Exchange)
        BY DEF ScriptInv, IInv, TypeOK
      <4>2. exchanges[e] \in Exchange
        BY <1>3, <4>1
      <4> QED
        BY <1>3, <4>2 DEF ExchangesGrow, Exchange
    <3>3. q \in Names
      BY <3>1, <3>2 DEF SetOf
    <3>4. ~Registered(q)'
      BY <3>1, <3>3 DEF Effects, Registered
    <3> QED
      BY <3>1, <3>2, <3>4 DEF Remembered, Unattended
  <2>4. CASE e \in passed
    BY <2>4 DEF Heard, Remembered
  <2>5. ASSUME NEW u \in timers, Attends(u), u.exc = e PROVE Remembered(e)'
    <3>1. CASE u \in idle
      <4>1. ~Stale(u) /\ minds[Key(u)].trigger.kind = "propose"
        BY <2>5 DEF Attends
      <4>2. \/ /\ u \in timers' /\ ~Stale(u)'
               /\ minds'[Key(u)].trigger = minds[Key(u)].trigger
            \/ e \in passed'
        BY <2>5, <3>1, <4>1, LiveStays
      <4>3. CASE e \in passed'
        BY <4>3 DEF Remembered
      <4>4. CASE /\ u \in timers' /\ ~Stale(u)'
                 /\ minds'[Key(u)].trigger = minds[Key(u)].trigger
        <5>1. Attends(u)'
          BY <2>5, <4>1, <4>4 DEF Attends
        <5> QED
          BY <2>5, <4>4, <5>1 DEF Remembered
      <4> QED
        BY <4>2, <4>3, <4>4
    <3>2. CASE u \notin idle
      <4>1. e = env.exc /\ \/ \E n \in Names : OfferedTo(env, n)
                           \/ Answerless(e)'
        BY <2>1, <2>5, <3>2 DEF AnsweredBy
      <4>2. CASE Answerless(e)'
        BY <4>2 DEF Remembered
      <4>3. ASSUME NEW n \in Names, OfferedTo(env, n) PROVE Remembered(e)'
        <5>1. env.exc # NoExc /\ SetOf(exchanges[e].parts) = {n, env.from}
          <6>1. NoExc \notin DOMAIN exchanges
            BY SpokenStays DEF ScriptInv
          <6> QED
            BY <1>3, <4>1, <4>3, <6>1 DEF OfferedTo
        <5>2. p.exc = e
          BY <1>1, <4>1, <5>1 DEF Opening
        <5>3. n \in SetOf(exchanges'[e].parts)
          BY <1>3, <5>1 DEF ExchangesGrow
        <5> QED
          BY <4>3, <5>2, <5>3, OfferIsRemembered
      <4> QED
        BY <4>1, <4>2, <4>3
    <3> QED
      BY <3>1, <3>2
  <2> QED
    BY <2>1, <2>2, <2>3, <2>4, <2>5 DEF Remembered
<1> QED
  BY <1>1, <1>2, <1>3

(***************************************************************************)
(* A live think of an offer is never barred: what it says is in its        *)
(* charter, and an accept settles.                                         *)
(***************************************************************************)
LEMMA HeatingMayPropose ==
  ASSUME ScriptInv, NEW tm \in timers, tm.voice = "heating"
  PROVE  OwnEntry(tm).charter.mayPropose = {"temperature.set"}
<1>1. /\ "heating" \in Names /\ "heating" \notin Residents
      /\ "heating" \in DOMAIN HouseholdCharters /\ "heating" \notin DOMAIN StreetCharters
  BY SeedsAreNames, SeedNames
<1>2. tm.inc \in 1 .. Len(entries["heating"])
  BY DEF ScriptInv, IInv, ThinksOK, Owned
<1>3. entries["heating"] # <<>>
  <2>1. 1 .. Len(<<>>) = {}
    OBVIOUS
  <2> QED
    BY <1>2, <2>1
<1>4. InCast(HouseholdCharters)
  BY <1>1, <1>3 DEF ScriptInv, CastInv, InCast
<1>5. /\ Len(entries["heating"]) = 1
      /\ entries["heating"][1].charter = Charters(HouseholdCharters)["heating"]
  BY <1>1, <1>4 DEF InCast
<1>6. tm.inc = 1
  BY <1>2, <1>5
<1>7. Charters(HouseholdCharters)["heating"] = HouseholdCharters["heating"]
  BY <1>1 DEF Charters
<1>8. HouseholdCharters["heating"].mayPropose = {"temperature.set"}
  BY DEF HouseholdCharters, Holding
<1> QED
  BY <1>5, <1>6, <1>7, <1>8 DEF OwnEntry

LEMMA OffersAreAnswered ==
  ASSUME ScriptInv, OffersFresh, NEW tm \in timers, Attends(tm),
         NEW env, env = Reply(tm, Scripted(tm))
  PROVE  /\ ~Barred(env, OwnEntry(tm).charter)
         /\ env.kind = "accept" => Matches(env, env.exc)
<1> DEFINE charter == OwnEntry(tm).charter
<1>1. PICK t : t = minds[Key(tm)].trigger
  OBVIOUS
<1>2. ReplyOK(tm, t, Scripted(tm), env)
  BY <1>1, Replies
<1>3. Answered(t, env) /\ env.from = tm.voice /\ env.exc = tm.exc
  BY <1>2 DEF ReplyOK
<1>4. t.kind = "propose" /\ IsOpen(tm.exc) /\ exchanges[tm.exc].pending.from = t.from
  BY <1>1 DEF Attends, OffersFresh
<1>5. /\ tm.exc \in DOMAIN exchanges /\ t.terms \in ScriptTerms
      /\ t.terms.type = exchanges[tm.exc].pending.terms.type
      /\ SetOf(exchanges[tm.exc].parts) = {tm.voice, t.from} /\ tm.voice # t.from
      /\ TakesOffer(tm.voice, t)
  <2>1. Prompted(tm.voice, tm.exc, t)
    BY <1>1, TriggerKnown
  <2> QED
    BY <1>4, <2>1 DEF Prompted
<1>6. ScriptTerms \subseteq SchemaValid /\ NoTerms \notin ScriptTerms
  BY ScriptTermsOK
<1>7. exchanges[tm.exc].pending.terms \in ScriptTerms
  BY <1>5 DEF ScriptInv, OffersOK, OfferOK
<1>8. tm.exc # NoExc
  BY <1>5 DEF ScriptInv, IInv, TypeOK, NoExc
<1> HIDE DEF charter
<1>9. CASE env.kind = "accept"
  <2>1. env.terms = t.terms /\ t.terms.type # "trade"
    BY <1>3, <1>4, <1>9 DEF Answered, OfferedTo
  <2>2. Matches(env, env.exc)
    BY <1>3, <1>4, <1>5, <1>6, <1>7, <1>9 DEF Matches
  <2>3. SettleTarget(env) # NoExc => SettleTarget(env) = tm.exc
    BY <1>3, <1>8 DEF SettleTarget
  <2>4. ~AcceptBarred(env, charter)
    BY <1>5, <1>6, <2>1, <2>3 DEF AcceptBarred
  <2>5. ~Barred(env, charter)
    BY <1>9, <2>4 DEF Barred
  <2> QED
    BY <2>2, <2>5 DEF charter
<1>10. CASE env.kind = "propose"
  <2>1. env.from = "heating" /\ OfferedTo(env, t.from)
    BY <1>3, <1>4, <1>10 DEF Answered
  <2>2. env.terms \in ScriptTerms /\ env.terms.type = t.terms.type
    BY <1>3, <1>5, <1>8, <2>1 DEF OfferedTo
  <2>3. t.terms.type = "temperature.set"
    BY <1>3, <1>5, <2>1, SeedsAreNames DEF TakesOffer
  <2>4. charter.mayPropose = {"temperature.set"}
    BY <1>3, <2>1, HeatingMayPropose DEF charter
  <2>5. ~ProposeBarred(env, charter)
    BY <1>6, <2>2, <2>3, <2>4 DEF ProposeBarred, Overspends
  <2> QED
    BY <1>10, <2>5 DEF Barred, charter
<1>11. CASE env.kind \notin {"accept", "propose"}
  <2>1. env.kind = "ask_principal"
    BY <1>3, <1>4, <1>11 DEF Answered, OfferedTo
  <2> QED
    BY <2>1 DEF Barred
<1> QED
  BY <1>9, <1>10, <1>11

LEMMA NotDiscarded ==
  ASSUME ScriptInv, OffersFresh, NEW tm \in timers, Attends(tm)
  PROVE  ~Discarded(tm)
<1>1. ~Barred(Reply(tm, Scripted(tm)), OwnEntry(tm).charter)
  BY OffersAreAnswered
<1> QED
  BY <1>1 DEF Attends, Discarded, Abandoned, IsOpen

(***************************************************************************)
(* Every step keeps the invariant.                                         *)
(***************************************************************************)
LEMMA LeftSays ==
  ASSUME ScriptInv, LeftInv, NEW v \in Residents, NEW word \in Words, Says(v, word)
  PROVE  LeftInv'
<1>1. PICK env \in Envelope : env.kind = "say" /\ Speech(env, "principal", word, timers)
  BY SaysStep
<1>2. ScriptInv' /\ Heard(word) /\ UNCHANGED answer
  BY SaysStep DEF Says
<1>3. PICK p \in Post : p = SpokenPost(env, "principal") /\ Effects(p, word, timers)
  BY <1>1 DEF Speech
<1>4. Spoken(env) /\ ExchangesMove(env) /\ ExchangesGrow
  BY <1>1 DEF Speech
<1>5. Undisturbed(env, timers) /\ AnsweredBy(env, timers) /\ AnswersKept
  BY <1>1, <1>2 DEF Undisturbed, AnsweredBy, AnswersKept, Answerless
<1> QED
  BY <1>2, <1>3, <1>4, <1>5, FreshAfterWord, RememberedAfterWord DEF LeftInv

LEMMA LeftAnswers ==
  ASSUME ScriptInv, LeftInv, NEW e \in DOMAIN answer, NEW approve \in BOOLEAN,
         Answers(e, approve)
  PROVE  LeftInv'
<1>1. PICK env \in Envelope : /\ Verdict(e, approve, env)
                              /\ Speech(env, "inject", "", timers)
  BY AnswersStep
<1>2. ScriptInv' /\ Heard("") /\ IsOpen(e)
      /\ answer' = [answer EXCEPT ![e] = IF approve THEN "yes" ELSE "no"]
  BY AnswersStep DEF Answers
<1>3. PICK p \in Post : p = SpokenPost(env, "inject") /\ Effects(p, "", timers)
  BY <1>1 DEF Speech
<1>4. Spoken(env) /\ ExchangesMove(env) /\ ExchangesGrow
  BY <1>1 DEF Speech
<1>5. env.kind \in {"accept", "decline"}
  BY <1>1 DEF Verdict
<1>6. ASSUME approve PROVE Matches(env, e)
  <2> DEFINE x == exchanges[e].pending
  <2>1. e \in DOMAIN exchanges /\ OfferOK(exchanges[e]) /\ x.terms.type = "trade"
    BY DEF ScriptInv, AsksOK, OffersOK
  <2>2. /\ x.terms \in ScriptTerms /\ x.from \notin Residents
        /\ x.terms.buyer \in Residents \cap SetOf(exchanges[e].parts)
    BY <2>1 DEF OfferOK
  <2>3. env.kind = "accept" /\ env.from = x.terms.buyer
    BY <1>1, <1>6 DEF Verdict
  <2> QED
    BY <1>2, <2>2, <2>3, ScriptTermsOK DEF Matches
<1>7. AnswersKept
  <2> SUFFICES ASSUME NEW d \in DOMAIN exchanges, Answerless(d), IsOpen(d)'
               PROVE  Answerless(d)'
    BY DEF AnswersKept
  <2>1. CASE d # e
    BY <1>2, <2>1 DEF Answerless
  <2>2. CASE d = e
    <3>1. env.exc = e
      BY <1>1 DEF Verdict
    <3>2. ~Matches(env, e)
      BY <1>4, <2>2, <3>1, OpenBefore DEF ScriptInv
    <3>3. ~approve
      BY <1>6, <3>2
    <3> QED
      BY <1>2, <2>2, <3>3 DEF Answerless
  <2> QED
    BY <2>1, <2>2
<1>8. Undisturbed(env, timers) /\ AnsweredBy(env, timers)
  BY <1>5 DEF Undisturbed, AnsweredBy
<1> QED
  BY <1>2, <1>3, <1>4, <1>7, <1>8, FreshAfterWord, RememberedAfterWord DEF LeftInv

LEMMA LeftSpeaks ==
  ASSUME ScriptInv, LeftInv, NEW tm \in timers, Speaks(tm)
  PROVE  LeftInv'
<1>1. PICK t, env : t = minds[Key(tm)].trigger /\ env = Reply(tm, Scripted(tm))
  OBVIOUS
<1>2. PICK word : Speech(env, "think", word, timers \ {tm})
  BY <1>1, SpeaksStep
<1>3. /\ ScriptInv' /\ Answered(t, env)
      /\ env \in Envelope /\ env.from = tm.voice /\ env.exc = tm.exc
  BY <1>1, SpeaksStep
<1>4. PICK p \in Post : p = SpokenPost(env, "think") /\ Effects(p, word, timers \ {tm})
  BY <1>2 DEF Speech
<1>5. Spoken(env) /\ ExchangesMove(env) /\ ExchangesGrow
  BY <1>2 DEF Speech
<1>6. env.kind = Scripted(tm).kind
  BY <1>1 DEF Reply
<1>7. Heard(word)
  BY <1>2 DEF Speech
<1>8. AnswersKept
  BY <1>6 DEF Speaks, AnswersKept, Answerless
<1>9. AnsweredBy(env, timers \ {tm})
  <2> SUFFICES ASSUME Attends(tm)
               PROVE  \/ Matches(env, env.exc)
                      \/ \E n \in Names : OfferedTo(env, n)
                      \/ Answerless(env.exc)'
    BY <1>3 DEF AnsweredBy
  <2>1. t.kind = "propose"
    BY <1>1 DEF Attends
  <2>2. CASE env.kind = "accept"
    BY <1>1, <2>2, OffersAreAnswered DEF LeftInv
  <2>3. CASE env.kind = "propose"
    BY <1>5, <2>3 DEF Spoken, Opens, Ends
  <2>4. CASE env.kind = "ask_principal"
    <3>1. answer' = [e \in DOMAIN answer \cup {tm.exc} |->
                       IF e = tm.exc THEN "waiting" ELSE answer[e]]
      BY <1>6, <2>4 DEF Speaks
    <3> QED
      BY <1>3, <3>1 DEF Answerless
  <2> QED
    BY <1>3, <2>1, <2>2, <2>3, <2>4 DEF Answered, OfferedTo
<1>10. Undisturbed(env, timers \ {tm})
  <2> SUFFICES ASSUME env.kind = "propose", NEW u \in timers \ {tm}, Attends(u),
                      u.exc = env.exc
               PROVE  FALSE
    BY DEF Undisturbed
  <2>1. PICK s : s = minds[Key(u)].trigger
    OBVIOUS
  <2>2. Prompted(u.voice, u.exc, s) /\ s.kind = "propose"
        /\ exchanges[u.exc].pending.from = s.from
    BY <2>1, TriggerKnown DEF Attends, LeftInv, OffersFresh
  <2>3. u.exc \in DOMAIN exchanges /\ SetOf(exchanges[u.exc].parts) = {u.voice, s.from}
        /\ u.voice # s.from
    BY <2>2 DEF Prompted
  <2>4. env.exc # NoExc
    BY <1>5, <2>3, SpokenStays DEF ScriptInv
  <2>5. t.kind = "propose"
    BY <1>3, <2>4 DEF Answered
  <2>6. ~Stale(tm) /\ Attends(tm)
    BY <1>1, <1>3, <2>5 DEF Attends, Speaks, ThinkSpeaks
  <2>7. exchanges[tm.exc].pending.from = t.from
    BY <1>1, <2>6 DEF LeftInv, OffersFresh
  <2>8. /\ SetOf(exchanges[tm.exc].parts) = {tm.voice, t.from} /\ tm.voice # t.from
    <3>1. Prompted(tm.voice, tm.exc, t)
      BY <1>1, TriggerKnown
    <3> QED
      BY <2>5, <3>1 DEF Prompted
  <2>9. u.voice = tm.voice
    BY <1>3, <2>2, <2>3, <2>7, <2>8
  <2>10. u = tm
    BY <2>6, <2>9, LiveThinksDiffer DEF Attends
  <2> QED
    BY <2>10
<1> QED
  BY <1>3, <1>4, <1>5, <1>7, <1>8, <1>9, <1>10, FreshAfterWord, RememberedAfterWord DEF LeftInv

LEMMA LeftContinues ==
  ASSUME ScriptInv, LeftInv, NEW tm \in timers, Continues(tm)
  PROVE  LeftInv'
<1>1. ScriptInv' /\ Heard("") /\ UNCHANGED answer
  BY ContinuesStep DEF Continues
<1>2. passed \subseteq passed'
  BY <1>1 DEF Heard
<1>3. timers \subseteq Timer
  BY DEF ScriptInv, IInv, TypeOK
<1>4. CASE Quiet(tm)
  <2>1. /\ UNCHANGED <<entries, exchanges, answer>>
        /\ \A x \in timers' : minds'[Key(x)].trigger = minds[Key(x)].trigger
        /\ \/ timers' = timers \ {tm} /\ Discarded(tm)
           \/ \E phase \in {"fired", "thinking"} :
                timers' = (timers \ {tm}) \cup {[tm EXCEPT !.phase = phase]}
    BY <1>4 DEF Quiet
  <2>2. ASSUME NEW x \in timers', NEW u \in timers, Key(x) = Key(u), x.voice = u.voice,
               x.inc = u.inc, x.gen = u.gen, x.exc = u.exc
        PROVE  Attends(x)' <=> Attends(u)
    BY <2>1, <2>2 DEF Attends, Stale, OwnEntry, IsOpen
  <2>3. \A phase : LET x == [tm EXCEPT !.phase = phase]
                   IN  /\ Key(x) = Key(tm) /\ x.voice = tm.voice /\ x.inc = tm.inc
                       /\ x.gen = tm.gen /\ x.exc = tm.exc
    BY <1>3 DEF Timer, Key
  <2>4. ASSUME NEW x \in timers'
        PROVE  \E u \in timers : /\ Key(x) = Key(u) /\ x.voice = u.voice /\ x.inc = u.inc
                                 /\ x.gen = u.gen /\ x.exc = u.exc
    <3>1. CASE x \in timers
      BY <3>1
    <3>2. ASSUME NEW phase, x = [tm EXCEPT !.phase = phase]
          PROVE  /\ Key(x) = Key(tm) /\ x.voice = tm.voice /\ x.inc = tm.inc
                 /\ x.gen = tm.gen /\ x.exc = tm.exc
      BY <2>3, <3>2
    <3> QED
      BY <2>1, <3>1, <3>2
  <2>5. ASSUME NEW u \in timers, Attends(u)
        PROVE  \E x \in timers' : /\ Key(x) = Key(u) /\ x.voice = u.voice /\ x.inc = u.inc
                                  /\ x.gen = u.gen /\ x.exc = u.exc
    <3>1. CASE u # tm
      BY <2>1, <3>1
    <3>2. CASE u = tm
      <4>1. ~Discarded(tm)
        BY <2>5, <3>2, NotDiscarded DEF LeftInv
      <4>2. PICK phase \in {"fired", "thinking"} : [tm EXCEPT !.phase = phase] \in timers'
        BY <2>1, <4>1
      <4> QED
        BY <2>3, <3>2, <4>2
    <3> QED
      BY <3>1, <3>2
  <2>6. OffersFresh'
    <3>1. ASSUME NEW x \in timers', Attends(x)'
          PROVE  exchanges'[x.exc].pending.from = minds'[Key(x)].trigger.from
      <4>1. PICK u \in timers : /\ Key(x) = Key(u) /\ x.voice = u.voice /\ x.inc = u.inc
                                /\ x.gen = u.gen /\ x.exc = u.exc
        BY <2>4
      <4>2. Attends(u)
        BY <2>2, <3>1, <4>1
      <4>3. exchanges[u.exc].pending.from = minds[Key(u)].trigger.from
        BY <4>2 DEF LeftInv, OffersFresh
      <4> QED
        BY <2>1, <4>1, <4>3
    <3> QED
      BY <3>1 DEF OffersFresh
  <2>7. ASSUME NEW e \in DOMAIN exchanges, IsOpen(e) PROVE Remembered(e)'
    <3>1. Remembered(e)
      BY <2>7 DEF LeftInv, NoneForgotten
    <3>2. ASSUME NEW u \in timers, Attends(u), u.exc = e PROVE Remembered(e)'
      <4>1. PICK x \in timers' : /\ Key(x) = Key(u) /\ x.voice = u.voice /\ x.inc = u.inc
                                 /\ x.gen = u.gen /\ x.exc = u.exc
        BY <2>5, <3>2
      <4>2. Attends(x)'
        BY <2>2, <3>2, <4>1
      <4> QED
        BY <3>2, <4>1, <4>2 DEF Remembered
    <3>3. Answerless(e) \/ Unattended(e) \/ e \in passed => Remembered(e)'
      BY <1>2, <2>1 DEF Remembered, Answerless, Unattended, Registered
    <3> QED
      BY <3>1, <3>2, <3>3 DEF Remembered
  <2>8. NoneForgotten'
    BY <2>1, <2>7 DEF NoneForgotten, IsOpen
  <2> QED
    BY <2>6, <2>8 DEF LeftInv
<1>5. CASE Caps(tm)
  <2>1. Withdrawn(tm.exc) /\ ExchangesGrow /\ UNCHANGED answer
    BY <1>5 DEF Caps
  <2>2. PICK p \in Post : Effects(p, "", timers \ {tm}) /\ Woken(p, "") = {}
    BY <1>5 DEF Caps
  <2>3. \A e \in DOMAIN exchanges' : IsOpen(e)' => e # tm.exc /\ e \in DOMAIN exchanges
                                       /\ IsOpen(e) /\ exchanges'[e] = exchanges[e]
    BY <2>1 DEF Withdrawn, IsOpen
  <2>4. ASSUME NEW n \in Names PROVE entries'[n] = entries[n]
    BY <2>2 DEF Effects
  <2>5. OffersFresh'
    <3> SUFFICES ASSUME NEW u \in timers', Attends(u)'
                 PROVE  exchanges'[u.exc].pending.from = minds'[Key(u)].trigger.from
      BY DEF OffersFresh
    <3>1. ~Stale(u)' /\ minds'[Key(u)].trigger.kind = "propose" /\ IsOpen(u.exc)'
      BY DEF Attends
    <3>2. /\ u \in timers \ {tm} /\ ~Stale(u)
          /\ minds'[Key(u)].trigger = minds[Key(u)].trigger
      <4>1. timers \ {tm} \in SUBSET timers /\ u.voice \notin Woken(p, "")
        BY <2>2
      <4>2. Effects(p, "", timers \ {tm}) /\ ScriptInv'
        BY <1>1, <2>2
      <4> QED
        BY <3>1, <4>1, <4>2, LiveAfter
    <3>3. IsOpen(u.exc) /\ exchanges'[u.exc] = exchanges[u.exc]
      BY <2>3, <3>1 DEF IsOpen
    <3>4. Attends(u)
      BY <3>1, <3>2, <3>3 DEF Attends
    <3> QED
      BY <3>2, <3>3, <3>4 DEF LeftInv, OffersFresh
  <2>6. ASSUME NEW e \in DOMAIN exchanges', IsOpen(e)' PROVE Remembered(e)'
    <3>1. e # tm.exc /\ e \in DOMAIN exchanges /\ IsOpen(e) /\ exchanges'[e] = exchanges[e]
      BY <2>3, <2>6
    <3>2. Remembered(e)
      BY <3>1 DEF LeftInv, NoneForgotten
    <3>3. ASSUME NEW u \in timers, Attends(u), u.exc = e PROVE Remembered(e)'
      <4>1. u \in timers \ {tm} /\ ~Stale(u) /\ minds[Key(u)].trigger.kind = "propose"
        BY <3>1, <3>3 DEF Attends
      <4>2. \/ /\ u \in timers' /\ ~Stale(u)'
               /\ minds'[Key(u)].trigger = minds[Key(u)].trigger
            \/ e \in passed'
        BY <1>1, <2>2, <3>3, <4>1, LiveStays
      <4>3. CASE e \in passed'
        BY <4>3 DEF Remembered
      <4>4. CASE /\ u \in timers' /\ ~Stale(u)'
                 /\ minds'[Key(u)].trigger = minds[Key(u)].trigger
        <5>1. Attends(u)'
          BY <2>6, <3>3, <4>1, <4>4 DEF Attends
        <5> QED
          BY <3>3, <4>4, <5>1 DEF Remembered
      <4> QED
        BY <4>2, <4>3, <4>4
    <3>4. Answerless(e) \/ e \in passed => Remembered(e)'
      BY <1>2, <2>1 DEF Remembered, Answerless
    <3>5. ASSUME Unattended(e) PROVE Remembered(e)'
      <4>1. PICK q \in SetOf(exchanges[e].parts) : ~Registered(q)
        BY <3>5 DEF Unattended
      <4>2. q \in Names
        <5>1. exchanges \in Seq(Exchange)
          BY DEF ScriptInv, IInv, TypeOK
        <5>2. exchanges[e] \in Exchange
          BY <3>1, <5>1
        <5> QED
          BY <4>1, <5>2 DEF Exchange, SetOf
      <4>3. ~Registered(q)'
        BY <2>4, <4>1, <4>2 DEF Registered
      <4> QED
        BY <3>1, <4>1, <4>3 DEF Remembered, Unattended
    <3> QED
      BY <3>2, <3>3, <3>4, <3>5 DEF Remembered
  <2> QED
    BY <2>5, <2>6 DEF LeftInv, NoneForgotten
<1> QED
  BY <1>4, <1>5, ContinuesStep

LEMMA LeftInit == ScenesInit => LeftInv
<1> SUFFICES ASSUME ScenesInit PROVE LeftInv
  OBVIOUS
<1>1. DOMAIN exchanges = {} /\ timers = {}
  BY DEF ScenesInit
<1> QED
  BY <1>1 DEF LeftInv, OffersFresh, NoneForgotten

LEMMA LeftNext == ScriptInv /\ LeftInv /\ [ScenesNext]_sceneVars => LeftInv'
<1> SUFFICES ASSUME ScriptInv, LeftInv, [ScenesNext]_sceneVars PROVE LeftInv'
  OBVIOUS
<1>1. CASE UNCHANGED sceneVars
  <2>1. UNCHANGED <<entries, exchanges, timers, minds, answer, passed>>
    BY <1>1 DEF sceneVars, vars
  <2>2. OffersFresh'
    BY <2>1 DEF LeftInv, OffersFresh, Attends, Stale, OwnEntry, IsOpen
  <2>3. \A e \in DOMAIN exchanges : Remembered(e) => Remembered(e)'
    BY <2>1 DEF Remembered, Attends, Stale, OwnEntry, IsOpen, Answerless, Unattended, Registered
  <2>4. NoneForgotten'
    BY <2>1, <2>3 DEF LeftInv, NoneForgotten, IsOpen
  <2> QED
    BY <2>2, <2>4 DEF LeftInv
<1> QED
  BY <1>1, LeftSays, LeftAnswers, LeftContinues, LeftSpeaks DEF ScenesNext, Thinks

(***************************************************************************)
(* When every think is over, an exchange that is still open waits for a    *)
(* principal or was declined by one, has a party that is not in the scope, *)
(* or was passed over because a later trigger superseded the think that    *)
(* would have answered it (Schedule's new generation): the rules and the   *)
(* charters of the two casts leave no other.                               *)
(***************************************************************************)
THEOREM NobodyIsLeftHanging == ScenesSpec => []NobodyLeftHanging
<1>1. LeftInv => NobodyLeftHanging
  BY DEF LeftInv, NoneForgotten, Remembered, Answerless, NobodyLeftHanging
<1> QED
  BY <1>1, LeftInit, LeftNext, ScriptHolds, PTL DEF ScenesSpec

-----------------------------------------------------------------------------
(***************************************************************************)
(* The talk ends.  What the minds have left to say, after a step that      *)
(* keeps some of the thinks and adds one at most.                          *)
(***************************************************************************)
LEMMA LoadNat ==
  /\ \A t : Load(t) \in Nat /\ Load(t) >= 2
  /\ \A m : \A k \in DOMAIN m : Weigh(m)[k] = Load(m[k].trigger)
<1>1. \A t : Load(t) \in Nat /\ Load(t) >= 2
  BY DEF Load
<1> QED
  BY <1>1 DEF Weigh

LEMMA LoadsMove ==
  ASSUME NEW m, IsFiniteSet(DOMAIN m), NEW n, NEW I \in SUBSET DOMAIN m, NEW k,
         NEW c \in Nat,
         \A x \in DOMAIN n :
           \/ x \in I /\ n[x].trigger = m[x].trigger
           \/ x = k /\ x \notin DOMAIN m /\ Load(n[x].trigger) = c
  PROVE  /\ IsFiniteSet(DOMAIN n)
         /\ Loads(n) \in Nat /\ SumFunctionOnSet(Weigh(m), I) \in Nat
         /\ Loads(n) <= SumFunctionOnSet(Weigh(m), I) + c
<1> DEFINE w == Weigh(m)
           u == Weigh(n)
           S == DOMAIN n \ {k}
           Sum(f, T) == SumFunctionOnSet(f, T)
<1>1. /\ \A x \in DOMAIN m : w[x] \in Nat /\ w[x] \in Int /\ w[x] = Load(m[x].trigger)
      /\ \A x \in DOMAIN n : u[x] \in Nat /\ u[x] \in Int /\ u[x] = Load(n[x].trigger)
  BY LoadNat
<1>2. IsFiniteSet(I)
  BY FS_Subset
<1>3. IsFiniteSet(I \cup {k})
  BY <1>2, FS_AddElement
<1>4. DOMAIN n \subseteq I \cup {k}
  OBVIOUS
<1>5. IsFiniteSet(DOMAIN n) /\ IsFiniteSet(S)
  BY <1>3, <1>4, FS_Subset
<1> HIDE DEF w, u, S
<1>6. ASSUME NEW R, R \subseteq DOMAIN n, R \subseteq I,
             \A x \in R : n[x].trigger = m[x].trigger
      PROVE  Sum(u, R) <= Sum(w, I) /\ Sum(u, R) \in Int
  <2>1. IsFiniteSet(R)
    BY <1>2, <1>6, FS_Subset
  <2>2. \A x \in R : w[x] \in Int /\ u[x] \in Int /\ u[x] = w[x]
    BY <1>1, <1>6
  <2>3. Sum(u, R) = Sum(w, R)
    BY <2>1, <2>2, SumAgree
  <2>4. Sum(w, R) <= Sum(w, I)
    BY <1>1, <1>2, <1>6, SumMonotonic
  <2>5. Sum(u, R) \in Int
    BY <2>1, <2>2, SumInt
  <2> QED
    BY <2>3, <2>4, <2>5
<1>7. Sum(u, DOMAIN n) \in Nat /\ Sum(w, I) \in Nat
  BY <1>1, <1>2, <1>5, SumNat
<1>8. Sum(u, DOMAIN n) <= Sum(w, I) + c
  <2>1. CASE \A x \in DOMAIN n : x \in I /\ n[x].trigger = m[x].trigger
    <3>1. Sum(u, DOMAIN n) <= Sum(w, I)
      BY <1>6, <2>1
    <3> QED
      BY <1>7, <3>1
  <2>2. CASE k \in DOMAIN n /\ k \notin DOMAIN m /\ Load(n[k].trigger) = c
    <3>1. u[k] = c /\ k \in DOMAIN n
      BY <1>1, <2>2
    <3>2. Sum(u, DOMAIN n) = u[k] + Sum(u, DOMAIN n \ {k})
      BY <1>1, <1>5, <3>1, SumPick
    <3>3. Sum(u, S) <= Sum(w, I) /\ Sum(u, S) \in Int
      <4>1. S \subseteq DOMAIN n /\ S \subseteq I /\ \A x \in S : n[x].trigger = m[x].trigger
        BY DEF S
      <4> QED
        BY <1>6, <4>1
    <3> QED
      BY <1>7, <3>1, <3>2, <3>3 DEF S
  <2> QED
    BY <2>1, <2>2
<1> QED
  BY <1>5, <1>7, <1>8 DEF Loads, w, u

(***************************************************************************)
(* A word wakes one voice at most: the one it is said or offered to, or,   *)
(* if it is a hail, the door of the household or the shop of the street.   *)
(***************************************************************************)
LEMMA WakesOne ==
  ASSUME ScriptInv, NEW env \in Envelope, Spoken(env), NEW via, NEW word, NEW p,
         p = SpokenPost(env, via)
  PROVE  /\ Ends(env) => Woken(p, word) = {}
         /\ \E n : Woken(p, word) \subseteq {n}
<1>1. p.from = env.from /\ p.kind = env.kind /\ p.terms = env.terms /\ p.to = SetOf(env.to)
  BY DEF SpokenPost, Posted
<1>2. \A n \in Woken(p, word) : n \in Audience(p) /\ n \in Names /\ Wakes(n, Trigger(p, word))
  BY RulesWake DEF Woken, Audience
<1>3. Trigger(p, word).from = env.from /\ Trigger(p, word).kind = env.kind
      /\ Trigger(p, word).terms = env.terms
  BY <1>1 DEF Trigger
<1>4. Ends(env) => Woken(p, word) = {}
  BY <1>2, <1>3 DEF Ends, Wakes, Proposes
<1>5. ASSUME NEW m, env.to = <<m>> PROVE Woken(p, word) \subseteq {m}
  <2>1. p.to = {m}
    BY <1>1, <1>5, SetOfOne
  <2> QED
    BY <1>2, <2>1 DEF Audience
<1>6. ASSUME env.kind = "hail", env.from \in Residents
      PROVE  \E n : Woken(p, word) \subseteq {n}
  <2>1. env.from \notin Principals
    BY <1>6, SeedsAreNames
  <2>2. \A n \in Woken(p, word) : n \in {"door", "shop"} /\ Registered(n)
    BY <1>2, <1>3, <1>6, <2>1 DEF Wakes, Proposes, Audience
  <2>3. /\ "door" \in Names /\ "shop" \in Names
        /\ "shop" \notin DOMAIN HouseholdCharters \cup Residents
        /\ "door" \notin DOMAIN StreetCharters \cup Residents
    BY SeedsAreNames, SeedNames
  <2>4. entries["shop"] = <<>> \/ entries["door"] = <<>>
    BY <2>3 DEF ScriptInv, CastInv, InCast
  <2>5. CASE entries["shop"] = <<>>
    BY <2>2, <2>5 DEF Registered
  <2>6. CASE entries["door"] = <<>>
    BY <2>2, <2>6 DEF Registered
  <2> QED
    BY <2>4, <2>5, <2>6
<1>7. \E n : Woken(p, word) \subseteq {n}
  BY <1>4, <1>5, <1>6 DEF Spoken, Opens, OfferedTo
<1> QED
  BY <1>4, <1>7

LEMMA LoadsAfterWord ==
  ASSUME ScriptInv, ScriptInv', TalkInv, NEW p, NEW word, NEW idle \in SUBSET timers,
         Effects(p, word, idle), NEW n, Woken(p, word) \subseteq {n},
         NEW c \in Nat, Woken(p, word) # {} => Load(Trigger(p, word)) = c
  PROVE  /\ IsFiniteSet(DOMAIN minds') /\ Loads(minds') \in Nat
         /\ SumFunctionOnSet(Weigh(minds), {Key(tm) : tm \in idle}) \in Nat
         /\ Loads(minds') <= SumFunctionOnSet(Weigh(minds), {Key(tm) : tm \in idle}) + c
<1> DEFINE I == {Key(tm) : tm \in idle}
           k == <<n, entries'[n][1].gen>>
<1>1. DOMAIN minds = {Key(tm) : tm \in timers} /\ DOMAIN minds' = {Key(tm) : tm \in timers'}
  BY DEF ScriptInv, MindsOK
<1>2. I \in SUBSET DOMAIN minds
  BY <1>1
<1>3. ASSUME NEW x \in DOMAIN minds'
      PROVE  \/ x \in I /\ minds'[x].trigger = minds[x].trigger
             \/ x = k /\ x \notin DOMAIN minds /\ Load(minds'[x].trigger) = c
  <2>1. PICK tm \in timers' : x = Key(tm)
    BY <1>1
  <2>2. CASE tm \in idle /\ minds'[Key(tm)].trigger = minds[Key(tm)].trigger
    BY <2>1, <2>2
  <2>3. CASE /\ tm.voice \in Woken(p, word) /\ ~Known(tm.voice, tm.gen)
             /\ minds'[Key(tm)].trigger = Trigger(p, word)
             /\ entries'[tm.voice][1].gen = tm.gen
    <3>1. tm.voice = n
      BY <2>3
    <3>2. x = k
      BY <2>1, <2>3, <3>1 DEF Key
    <3>3. x \notin DOMAIN minds
      BY <1>1, <2>1, <2>3, KnownKeys
    <3> QED
      BY <2>1, <2>3, <3>2, <3>3
  <2> QED
    BY <2>2, <2>3 DEF Effects, Triggered
<1> HIDE DEF I, k
<1>4. IsFiniteSet(DOMAIN minds)
  BY DEF TalkInv
<1>5. /\ IsFiniteSet(DOMAIN minds') /\ Loads(minds') \in Nat
      /\ SumFunctionOnSet(Weigh(minds), I) \in Nat
      /\ Loads(minds') <= SumFunctionOnSet(Weigh(minds), I) + c
  <2>1. PICK m, m2 : m = minds /\ m2 = minds'
    OBVIOUS
  <2>2. /\ IsFiniteSet(DOMAIN m) /\ I \in SUBSET DOMAIN m
        /\ \A x \in DOMAIN m2 :
             \/ x \in I /\ m2[x].trigger = m[x].trigger
             \/ x = k /\ x \notin DOMAIN m /\ Load(m2[x].trigger) = c
    BY <1>2, <1>3, <1>4, <2>1
  <2>3. /\ IsFiniteSet(DOMAIN m2)
        /\ Loads(m2) \in Nat /\ SumFunctionOnSet(Weigh(m), I) \in Nat
        /\ Loads(m2) <= SumFunctionOnSet(Weigh(m), I) + c
    BY <2>2, LoadsMove
  <2> QED
    BY <2>1, <2>3
<1> QED
  BY <1>5 DEF I

(***************************************************************************)
(* The thinks left are all, or all but one.                                *)
(***************************************************************************)
LEMMA LoadsLeft ==
  ASSUME ScriptInv, TalkInv, NEW tm \in timers, NEW t, t = minds[Key(tm)].trigger
  PROVE  /\ Loads(minds) \in Nat
         /\ SumFunctionOnSet(Weigh(minds), {Key(u) : u \in timers}) = Loads(minds)
         /\ SumFunctionOnSet(Weigh(minds), {Key(u) : u \in timers \ {tm}})
              = Loads(minds) - Load(t)
<1> DEFINE w == Weigh(minds)
           k == Key(tm)
<1>1. DOMAIN minds = {Key(u) : u \in timers} /\ IsFiniteSet(DOMAIN minds)
  BY DEF ScriptInv, MindsOK, TalkInv
<1>2. /\ \A x \in DOMAIN minds : w[x] \in Nat /\ w[x] \in Int
      /\ k \in DOMAIN minds /\ w[k] = Load(t)
  BY <1>1, LoadNat
<1>3. {Key(u) : u \in timers \ {tm}} = DOMAIN minds \ {k}
  <2>1. /\ timers \in SUBSET Timer /\ entries \in [Names -> Seq(Entry)]
        /\ ThinksOK(timers, entries)
    BY DEF ScriptInv, IInv, TypeOK
  <2>2. \A n \in Names : Len(entries[n]) <= 1
    BY CastEnteredOnce DEF ScriptInv, EnteredOnce
  <2>3. \A x, y \in timers : Key(x) = Key(y) => x = y
    BY <2>1, <2>2, KeysDiffer
  <2> HIDE DEF w
  <2> QED
    BY <1>1, <2>3
<1> HIDE DEF w, k
<1>4. SumFunctionOnSet(w, DOMAIN minds) = w[k] + SumFunctionOnSet(w, DOMAIN minds \ {k})
  BY <1>1, <1>2, SumPick
<1>5. SumFunctionOnSet(w, DOMAIN minds) \in Nat
  BY <1>1, <1>2, SumNat
<1>6. SumFunctionOnSet(w, DOMAIN minds \ {k}) \in Int
  <2>1. IsFiniteSet(DOMAIN minds \ {k})
    BY <1>1, FS_Subset
  <2> QED
    BY <1>2, <2>1, SumInt
<1>7. Load(t) \in Nat
  BY LoadNat
<1> QED
  BY <1>1, <1>2, <1>3, <1>4, <1>5, <1>6, <1>7 DEF Loads, w

LEMMA LoadsAll ==
  ASSUME ScriptInv, TalkInv
  PROVE  /\ Loads(minds) \in Nat
         /\ SumFunctionOnSet(Weigh(minds), {Key(u) : u \in timers}) = Loads(minds)
<1>1. DOMAIN minds = {Key(u) : u \in timers} /\ IsFiniteSet(DOMAIN minds)
  BY DEF ScriptInv, MindsOK, TalkInv
<1>2. \A x \in DOMAIN minds : Weigh(minds)[x] \in Nat
  BY LoadNat
<1>3. SumFunctionOnSet(Weigh(minds), DOMAIN minds) \in Nat
  BY <1>1, <1>2, SumNat
<1> QED
  BY <1>1, <1>3 DEF Loads

LEMMA WaitingCounts ==
  ASSUME TalkInv
  PROVE  IsFiniteSet(Waiting) /\ Cardinality(Waiting) \in Nat
<1>1. Waiting \in SUBSET DOMAIN answer
  BY DEF Waiting
<1>2. IsFiniteSet(Waiting)
  BY <1>1, FS_Subset DEF TalkInv
<1> QED
  BY <1>2, FS_CardinalityType

(***************************************************************************)
(* Every step keeps the account.                                           *)
(***************************************************************************)
LEMMA TalkSays ==
  ASSUME ScriptInv, TalkInv, NEW v \in Residents, NEW word \in Words, Says(v, word)
  PROVE  TalkInv'
<1>1. PICK env \in Envelope : /\ env.kind = "say" /\ env.from \in Principals
                              /\ Speech(env, "principal", word, timers)
  BY SaysStep
<1>2. ScriptInv' /\ UNCHANGED answer /\ said' = said + 1 /\ uttSeq' = uttSeq + 1
  BY <1>1, SaysStep DEF Says, Speech
<1>3. PICK p \in Post : p = SpokenPost(env, "principal") /\ Effects(p, word, timers)
  BY <1>1 DEF Speech
<1>4. PICK n : Woken(p, word) \subseteq {n}
  BY <1>1, <1>3, WakesOne DEF Speech
<1>5. Load(Trigger(p, word)) = 5 /\ 5 \in Nat /\ timers \in SUBSET timers
  BY <1>1, <1>3 DEF Load, Trigger, SpokenPost, Posted
<1>6. /\ IsFiniteSet(DOMAIN minds') /\ Loads(minds') \in Nat
      /\ Loads(minds') <= SumFunctionOnSet(Weigh(minds), {Key(tm) : tm \in timers}) + 5
  BY <1>2, <1>3, <1>4, <1>5, LoadsAfterWord
<1>7. /\ Loads(minds) \in Nat
      /\ SumFunctionOnSet(Weigh(minds), {Key(u) : u \in timers}) = Loads(minds)
  BY LoadsAll
<1>8. Waiting' = Waiting /\ Cardinality(Waiting) \in Nat
  BY <1>2, WaitingCounts DEF Waiting
<1>9. uttSeq \in Nat
  BY DEF ScriptInv, IInv, TypeOK
<1>10. said \in Nat /\ uttSeq + Loads(minds) + 2 * Cardinality(Waiting) <= 6 * said
  BY DEF TalkInv
<1>11. uttSeq' + Loads(minds') + 2 * Cardinality(Waiting') <= 6 * said'
  BY <1>2, <1>6, <1>7, <1>8, <1>9, <1>10
<1> QED
  BY <1>2, <1>6, <1>10, <1>11 DEF TalkInv

LEMMA TalkAnswers ==
  ASSUME ScriptInv, TalkInv, NEW e \in DOMAIN answer, NEW approve \in BOOLEAN,
         Answers(e, approve)
  PROVE  TalkInv'
<1>1. PICK env \in Envelope : Ends(env) /\ Speech(env, "inject", "", timers)
  BY AnswersStep
<1>2. /\ ScriptInv' /\ UNCHANGED said /\ answer[e] = "waiting"
      /\ answer' = [answer EXCEPT ![e] = IF approve THEN "yes" ELSE "no"]
      /\ uttSeq' = uttSeq + 1 \/ uttSeq' = uttSeq + 2
  BY <1>1, AnswersStep DEF Answers, Speech
<1>3. PICK p \in Post : p = SpokenPost(env, "inject") /\ Effects(p, "", timers)
  BY <1>1 DEF Speech
<1>4. Woken(p, "") = {}
  BY <1>1, <1>3, WakesOne DEF Speech
<1>5. 0 \in Nat /\ timers \in SUBSET timers /\ Woken(p, "") \subseteq {e}
      /\ (Woken(p, "") # {} => Load(Trigger(p, "")) = 0)
  BY <1>4
<1>6. /\ IsFiniteSet(DOMAIN minds') /\ Loads(minds') \in Nat
      /\ Loads(minds') <= SumFunctionOnSet(Weigh(minds), {Key(tm) : tm \in timers}) + 0
  BY <1>2, <1>3, <1>5, LoadsAfterWord
<1>7. /\ Loads(minds) \in Nat
      /\ SumFunctionOnSet(Weigh(minds), {Key(u) : u \in timers}) = Loads(minds)
  BY LoadsAll
<1>8. Waiting' = Waiting \ {e} /\ e \in Waiting /\ DOMAIN answer' = DOMAIN answer
  BY <1>2 DEF Waiting
<1>9. IsFiniteSet(Waiting) /\ Cardinality(Waiting) \in Nat
  BY WaitingCounts
<1>10. Cardinality(Waiting') = Cardinality(Waiting) - 1
  BY <1>8, <1>9, FS_RemoveElement
<1>11. uttSeq \in Nat
  BY DEF ScriptInv, IInv, TypeOK
<1>12. /\ said \in Nat /\ uttSeq + Loads(minds) + 2 * Cardinality(Waiting) <= 6 * said
       /\ IsFiniteSet(DOMAIN answer)
  BY DEF TalkInv
<1>13. uttSeq' + Loads(minds') + 2 * Cardinality(Waiting') <= 6 * said'
  BY <1>2, <1>6, <1>7, <1>9, <1>10, <1>11, <1>12
<1> QED
  BY <1>2, <1>6, <1>8, <1>12, <1>13 DEF TalkInv

(***************************************************************************)
(* A think has said what it still had to say; what it woke has less.       *)
(***************************************************************************)
Affords(t, env, p, word) ==
  \E c \in Nat :
    /\ Woken(p, word) # {} => Load(Trigger(p, word)) = c
    /\ 1 + c <= Load(t)
    /\ env.kind = "accept" => 2 + c <= Load(t)
    /\ env.kind = "ask_principal" => 3 + c <= Load(t)

LEMMA SpeechCosts ==
  ASSUME ScriptInv, NEW tm \in timers, NEW env \in Envelope, Spoken(env),
         Answered(minds[Key(tm)].trigger, env), env.from = tm.voice,
         NEW via, NEW word
  PROVE  Affords(minds[Key(tm)].trigger, env, SpokenPost(env, via), word)
<1> SUFFICES ASSUME NEW t, t = minds[Key(tm)].trigger, NEW p, p = SpokenPost(env, via)
             PROVE  \E c \in Nat :
                      /\ Woken(p, word) # {} => Load(Trigger(p, word)) = c
                      /\ 1 + c <= Load(t)
                      /\ env.kind = "accept" => 2 + c <= Load(t)
                      /\ env.kind = "ask_principal" => 3 + c <= Load(t)
  BY DEF Affords
<1>1. Prompted(tm.voice, tm.exc, t)
  BY TriggerKnown
<1>2. /\ Trigger(p, word).from = env.from /\ Trigger(p, word).kind = env.kind
      /\ Trigger(p, word).terms = env.terms
  BY DEF Trigger, SpokenPost, Posted
<1>3. Load(t) \in Nat /\ Load(t) >= 2
  BY LoadNat
<1>4. ~Opens(env) => Woken(p, word) = {}
  BY WakesOne DEF Spoken
<1>5. CASE t.kind = "say"
  <2>1. Load(t) = 5
    BY <1>5 DEF Load
  <2>2. CASE env.kind = "hail"
    <3>1. Load(Trigger(p, word)) = 4
      BY <1>2, <2>2 DEF Load
    <3> QED
      BY <2>1, <2>2, <3>1
  <2>3. CASE env.kind = "propose"
    <3>1. Load(Trigger(p, word)) \in {2, 3}
      BY <1>2, <2>3 DEF Load
    <3> QED
      BY <2>1, <2>3, <3>1
  <2> QED
    BY <1>5, <2>2, <2>3 DEF Answered, OfferedTo
<1>6. CASE t.kind = "hail"
  <2>1. Load(t) = 4
    BY <1>6 DEF Load
  <2>2. CASE env.kind = "say" /\ env.from = "door"
    <3>1. Woken(p, word) = {}
      BY <1>4, <2>2, SeedsAreNames DEF Opens, OfferedTo
    <3> QED
      BY <2>1, <2>2, <3>1
  <2>3. CASE env.kind = "propose"
    <3>1. Load(Trigger(p, word)) \in {2, 3}
      BY <1>2, <2>3 DEF Load
    <3> QED
      BY <2>1, <2>3, <3>1
  <2> QED
    BY <1>6, <2>2, <2>3 DEF Answered, OfferedTo
<1>7. CASE t.kind = "propose"
  <2>1. Load(t) = IF t.from = "heating" THEN 2 ELSE 3
    BY <1>7 DEF Load
  <2>2. CASE env.kind = "accept"
    <3>1. Woken(p, word) = {}
      BY <1>4, <2>2 DEF Opens, OfferedTo
    <3>2. 1 + 0 <= Load(t) /\ 2 + 0 <= Load(t) /\ 0 \in Nat
      BY <1>3
    <3>3. env.kind # "ask_principal"
      BY <2>2
    <3> QED
      BY <3>1, <3>2, <3>3, Zenon
  <2>3. CASE env.kind = "propose" /\ env.from = "heating"
    <3>1. Load(Trigger(p, word)) = 2
      BY <1>2, <2>3 DEF Load
    <3>2. t.from # "heating"
      BY <1>1, <1>7, <2>3 DEF Prompted
    <3> QED
      BY <2>1, <2>3, <3>1, <3>2
  <2>4. CASE env.kind = "ask_principal" /\ t.terms.type = "trade"
    <3>1. Woken(p, word) = {}
      BY <1>4, <2>4 DEF Opens, OfferedTo
    <3>2. t.from = "shop"
      BY <1>1, <1>7, <2>4 DEF Prompted
    <3> QED
      BY <2>1, <2>4, <3>1, <3>2
  <2> QED
    BY <1>7, <2>2, <2>3, <2>4 DEF Answered, OfferedTo
<1> QED
  BY <1>5, <1>6, <1>7 DEF Answered

LEMMA TalkSpeaks ==
  ASSUME ScriptInv, TalkInv, NEW tm \in timers, Speaks(tm)
  PROVE  TalkInv'
<1>1. PICK t, env : t = minds[Key(tm)].trigger /\ env = Reply(tm, Scripted(tm))
  OBVIOUS
<1>2. PICK word : Speech(env, "think", word, timers \ {tm})
  BY <1>1, SpeaksStep
<1>3. /\ ScriptInv' /\ Answered(t, env)
      /\ env \in Envelope /\ env.from = tm.voice /\ env.exc = tm.exc
  BY <1>1, SpeaksStep
<1>4. PICK p \in Post : p = SpokenPost(env, "think") /\ Effects(p, word, timers \ {tm})
  BY <1>2 DEF Speech
<1>5. Spoken(env) /\ (uttSeq' = uttSeq + 1 \/ (env.kind = "accept" /\ uttSeq' = uttSeq + 2))
  BY <1>2 DEF Speech
<1>6. env.kind = Scripted(tm).kind
  BY <1>1 DEF Reply
<1>7. PICK n : Woken(p, word) \subseteq {n}
  BY <1>3, <1>4, <1>5, WakesOne
<1>8. PICK c \in Nat : /\ Woken(p, word) # {} => Load(Trigger(p, word)) = c
                       /\ 1 + c <= Load(t)
                       /\ env.kind = "accept" => 2 + c <= Load(t)
                       /\ env.kind = "ask_principal" => 3 + c <= Load(t)
  <2>1. Affords(t, env, p, word)
    BY <1>1, <1>3, <1>4, <1>5, SpeechCosts
  <2> QED
    BY <2>1 DEF Affords
<1> DEFINE left == SumFunctionOnSet(Weigh(minds), {Key(u) : u \in timers \ {tm}})
<1>9. /\ IsFiniteSet(DOMAIN minds') /\ Loads(minds') \in Nat
      /\ Loads(minds') <= left + c
  <2>1. timers \ {tm} \in SUBSET timers
    OBVIOUS
  <2> QED
    BY <1>3, <1>4, <1>7, <1>8, <2>1, LoadsAfterWord
<1>10. Loads(minds) \in Nat /\ left = Loads(minds) - Load(t) /\ Load(t) \in Nat
  BY <1>1, LoadsLeft, LoadNat
<1> HIDE DEF left
<1>11. IsFiniteSet(Waiting) /\ Cardinality(Waiting) \in Nat
  BY WaitingCounts
<1>12. uttSeq \in Nat
  BY DEF ScriptInv, IInv, TypeOK
<1>13. /\ said \in Nat /\ uttSeq + Loads(minds) + 2 * Cardinality(Waiting) <= 6 * said
       /\ IsFiniteSet(DOMAIN answer)
  BY DEF TalkInv
<1>14. said' = said
  BY DEF Speaks
<1>15. CASE env.kind # "ask_principal"
  <2>1. answer' = answer
    BY <1>6, <1>15 DEF Speaks
  <2>2. Waiting' = Waiting /\ DOMAIN answer' = DOMAIN answer
    BY <2>1 DEF Waiting
  <2>4. uttSeq' + Loads(minds') <= uttSeq + Loads(minds)
        /\ uttSeq' + Loads(minds') \in Nat
    BY <1>5, <1>8, <1>9, <1>10, <1>12
  <2>3. uttSeq' + Loads(minds') + 2 * Cardinality(Waiting) <= 6 * said
    BY <1>10, <1>11, <1>12, <1>13, <2>4
  <2> QED
    BY <1>9, <1>13, <1>14, <2>2, <2>3 DEF TalkInv
<1>16. CASE env.kind = "ask_principal"
  <2>1. answer' = [e \in DOMAIN answer \cup {tm.exc} |->
                     IF e = tm.exc THEN "waiting" ELSE answer[e]]
    BY <1>6, <1>16 DEF Speaks
  <2>2. Waiting' = Waiting \cup {tm.exc} /\ DOMAIN answer' = DOMAIN answer \cup {tm.exc}
    BY <2>1 DEF Waiting
  <2>3. IsFiniteSet(DOMAIN answer')
    BY <1>13, <2>2, FS_AddElement
  <2>4. Cardinality(Waiting') <= Cardinality(Waiting) + 1 /\ Cardinality(Waiting') \in Nat
    <3>1. PICK S : S = Waiting
      OBVIOUS
    <3>2. Cardinality(S \cup {tm.exc})
            = IF tm.exc \in S THEN Cardinality(S) ELSE Cardinality(S) + 1
      BY <1>11, <3>1, FS_AddElement
    <3> QED
      BY <1>11, <2>2, <3>1, <3>2
  <2>5. uttSeq' = uttSeq + 1
    BY <1>5, <1>16
  <2>6. uttSeq' + Loads(minds') + 2 <= uttSeq + Loads(minds)
        /\ uttSeq' + Loads(minds') \in Nat
    BY <1>8, <1>9, <1>10, <1>12, <1>16, <2>5
  <2>7. uttSeq' + Loads(minds') + 2 * Cardinality(Waiting') <= 6 * said
    BY <1>10, <1>11, <1>12, <1>13, <2>4, <2>6
  <2> QED
    BY <1>9, <1>13, <1>14, <2>3, <2>7 DEF TalkInv
<1> QED
  BY <1>15, <1>16

LEMMA TalkContinues ==
  ASSUME ScriptInv, TalkInv, NEW tm \in timers, Continues(tm)
  PROVE  TalkInv'
<1>1. ScriptInv' /\ UNCHANGED <<answer, said>>
  BY ContinuesStep DEF Continues
<1>2. Waiting' = Waiting /\ Cardinality(Waiting) \in Nat
  BY <1>1, WaitingCounts DEF Waiting
<1>3. uttSeq \in Nat
  BY DEF ScriptInv, IInv, TypeOK
<1>4. /\ said \in Nat /\ uttSeq + Loads(minds) + 2 * Cardinality(Waiting) <= 6 * said
      /\ IsFiniteSet(DOMAIN answer) /\ IsFiniteSet(DOMAIN minds)
  BY DEF TalkInv
<1>5. Loads(minds) \in Nat
  BY LoadsAll
<1>6. CASE Quiet(tm)
  <2>1. DOMAIN minds = {Key(u) : u \in timers} /\ DOMAIN minds' = {Key(u) : u \in timers'}
    BY <1>1 DEF ScriptInv, MindsOK
  <2>2. /\ UNCHANGED uttSeq
        /\ \A x \in timers' : minds'[Key(x)].trigger = minds[Key(x)].trigger
        /\ \/ timers' = timers \ {tm}
           \/ \E phase : timers' = (timers \ {tm}) \cup {[tm EXCEPT !.phase = phase]}
    BY <1>6 DEF Quiet
  <2>3. ASSUME NEW x \in timers' PROVE Key(x) \in DOMAIN minds
    <3>1. CASE x \in timers
      BY <2>1, <3>1
    <3>2. ASSUME NEW phase, x = [tm EXCEPT !.phase = phase] PROVE Key(x) = Key(tm)
      <4>1. tm \in Timer
        BY DEF ScriptInv, IInv, TypeOK
      <4> QED
        BY <3>2, <4>1 DEF Timer, Key
    <3> QED
      BY <2>1, <2>2, <3>1, <3>2
  <2>4. PICK m, m2 : m = minds /\ m2 = minds'
    OBVIOUS
  <2>5. \A x \in DOMAIN m2 : x \in DOMAIN m /\ m2[x].trigger = m[x].trigger
    BY <2>1, <2>2, <2>3, <2>4
  <2>6. IsFiniteSet(DOMAIN m) /\ DOMAIN m \in SUBSET DOMAIN m /\ 0 \in Nat
    BY <1>4, <2>4
  <2>7. /\ IsFiniteSet(DOMAIN m2) /\ Loads(m2) \in Nat
        /\ Loads(m2) <= SumFunctionOnSet(Weigh(m), DOMAIN m) + 0
    BY <2>5, <2>6, LoadsMove
  <2>8. Loads(minds') \in Nat /\ Loads(minds') <= Loads(minds) /\ IsFiniteSet(DOMAIN minds')
    BY <1>5, <2>4, <2>7 DEF Loads
  <2>9. uttSeq' + Loads(minds') + 2 * Cardinality(Waiting) <= 6 * said
    BY <1>2, <1>3, <1>4, <1>5, <2>2, <2>8
  <2> QED
    BY <1>1, <1>2, <1>4, <2>8, <2>9 DEF TalkInv
<1>7. CASE Caps(tm)
  <2>1. PICK p \in Post : Effects(p, "", timers \ {tm}) /\ Woken(p, "") = {}
    BY <1>7 DEF Caps
  <2>2. /\ Woken(p, "") \subseteq {tm} /\ 0 \in Nat /\ timers \ {tm} \in SUBSET timers
        /\ (Woken(p, "") # {} => Load(Trigger(p, "")) = 0)
    BY <2>1
  <2>3. /\ IsFiniteSet(DOMAIN minds') /\ Loads(minds') \in Nat
        /\ Loads(minds')
             <= SumFunctionOnSet(Weigh(minds), {Key(u) : u \in timers \ {tm}}) + 0
    BY <1>1, <2>1, <2>2, LoadsAfterWord
  <2>4. PICK t : t = minds[Key(tm)].trigger
    OBVIOUS
  <2>5. /\ SumFunctionOnSet(Weigh(minds), {Key(u) : u \in timers \ {tm}})
             = Loads(minds) - Load(t)
        /\ Load(t) \in Nat /\ Load(t) >= 2
    BY <2>4, LoadsLeft, LoadNat
  <2>6. uttSeq' = uttSeq + 1
    BY <1>7 DEF Caps
  <2>7. uttSeq' + Loads(minds') + 2 * Cardinality(Waiting) <= 6 * said
    BY <1>2, <1>3, <1>4, <1>5, <2>3, <2>5, <2>6
  <2> QED
    BY <1>1, <1>2, <1>4, <2>3, <2>7 DEF TalkInv
<1> QED
  BY <1>6, <1>7, ContinuesStep

LEMMA TalkInit == ScenesInit => TalkInv
<1> SUFFICES ASSUME ScenesInit PROVE TalkInv
  OBVIOUS
<1>1. DOMAIN minds = {} /\ DOMAIN answer = {} /\ uttSeq = 0 /\ said = 0 /\ Waiting = {}
  BY DEF ScenesInit, Waiting
<1>2. IsFiniteSet({}) /\ Cardinality({}) = 0
  BY FS_EmptySet
<1>3. Loads(minds) = 0
  BY <1>1, SumEmpty DEF Loads
<1> QED
  BY <1>1, <1>2, <1>3 DEF TalkInv

LEMMA TalkNext == ScriptInv /\ TalkInv /\ [ScenesNext]_sceneVars => TalkInv'
<1> SUFFICES ASSUME ScriptInv, TalkInv, [ScenesNext]_sceneVars PROVE TalkInv'
  OBVIOUS
<1>1. CASE UNCHANGED sceneVars
  <2>1. UNCHANGED <<uttSeq, minds, answer, said>>
    BY <1>1 DEF sceneVars, vars
  <2> QED
    BY <2>1 DEF TalkInv, Loads, Weigh, Waiting
<1> QED
  BY <1>1, TalkSays, TalkAnswers, TalkContinues, TalkSpeaks DEF ScenesNext, Thinks

(***************************************************************************)
(* The voices do not talk among themselves for ever: what a principal says *)
(* leads to six envelopes at most, its own included, whatever the order in *)
(* which timers fire and brains return.  Each think has an account of what *)
(* its rule can still lead to, and no rule answers with more than it has.  *)
(***************************************************************************)
THEOREM TalkEnds == ScenesSpec => []TalkIsBounded
<1>1. ScriptInv /\ TalkInv => TalkIsBounded
  <2> SUFFICES ASSUME ScriptInv, TalkInv PROVE uttSeq <= 6 * said
    BY DEF TalkIsBounded
  <2>1. Loads(minds) \in Nat /\ Cardinality(Waiting) \in Nat
    BY LoadsAll, WaitingCounts
  <2>2. uttSeq \in Nat /\ said \in Nat
        /\ uttSeq + Loads(minds) + 2 * Cardinality(Waiting) <= 6 * said
    BY DEF ScriptInv, IInv, TypeOK, TalkInv
  <2> QED
    BY <2>1, <2>2
<1> QED
  BY <1>1, TalkInit, TalkNext, ScriptHolds, PTL DEF ScenesSpec
=============================================================================
