------------------------- MODULE OrchestratorProofs -------------------------
(***************************************************************************)
(* Proofs that the orchestrator's state stays well typed, that a voice     *)
(* never has two thinks that can still speak, and that the fabric's laws   *)
(* are kept.  Exchanges and marks: nobody is overdrawn, closed exchanges   *)
(* are final, open ones are never lost, and the gates predict the funnel.  *)
(* Laws: agreements obey Bargain, and the world changes on record only.    *)
(* Mandates: what brains propose and accept their charters allow, and they *)
(* do not speak where they are too late.                                   *)
(***************************************************************************)
EXTENDS OrchestratorProperties, SequenceTheorems, WellFoundedInduction, TLAPS

(***************************************************************************)
(* Every think belongs to a known entry and is not newer than it, no two   *)
(* thinks of an entry share a generation, and the thinks of a replaced     *)
(* entry are stale.                                                        *)
(***************************************************************************)
Owned(T, E) ==
  \A t \in T : t.inc \in 1 .. Len(E[t.voice]) /\ t.gen <= E[t.voice][t.inc].gen

Distinct(T) ==
  \A t, u \in T : t.voice = u.voice /\ t.inc = u.inc /\ t.gen = u.gen => t = u

Retired(T, E) ==
  \A t \in T : t.inc < Len(E[t.voice]) => t.gen < E[t.voice][t.inc].gen

ThinksOK(T, E) == Owned(T, E) /\ Distinct(T) /\ Retired(T, E)

IInv == TypeOK /\ ThinksOK(timers, entries)

-----------------------------------------------------------------------------
(***************************************************************************)
(* < on Nat, as the relation the library proves well-founded.              *)
(***************************************************************************)
LEMMA LessThanAsSet == OpToRel(<, Nat) = {p \in Nat \X Nat : p[1] < p[2]}
BY DEF OpToRel

(***************************************************************************)
(* The oldest of some exchanges is one of them and none is older (the      *)
(* adoption scan of lifecycle stops at the first open exchange).           *)
(***************************************************************************)
LEMMA LeastIsIn ==
  ASSUME NEW S \in SUBSET Nat, S # {}
  PROVE  Least(S) \in S /\ \A y \in S : Least(S) <= y
<1>1. PICK x \in S : \A y \in S : ~(<<y, x>> \in OpToRel(<, Nat))
  BY NatLessThanWellFounded, WFMin
<1>2. \A y \in S : <<y, x>> \notin {p \in Nat \X Nat : p[1] < p[2]}
  BY <1>1, LessThanAsSet, Zenon
<1>3. ASSUME NEW y \in S PROVE x <= y
  <2>1. x \in Nat /\ y \in Nat
    OBVIOUS
  <2>2. ~(<<y, x>>[1] < <<y, x>>[2])
    BY <1>2, <2>1, Zenon
  <2> QED
    BY <2>1, <2>2
<1> QED
  BY <1>3 DEF Least

-----------------------------------------------------------------------------
(***************************************************************************)
(* Scheduling.                                                             *)
(***************************************************************************)

(***************************************************************************)
(* An entry in its next generation, what Bumped makes of it.               *)
(***************************************************************************)
Newer(x) == [x EXCEPT !.gen = @ + 1]

(***************************************************************************)
(* Bumping generations changes nothing but the generation of the last      *)
(* entry of the voices hit.                                                *)
(***************************************************************************)
LEMMA BumpedFacts ==
  ASSUME NEW E \in [Names -> Seq(Entry)], NEW hits \in SUBSET Names,
         \A v \in hits : E[v] # <<>>
  PROVE  /\ Bumped(E, hits) \in [Names -> Seq(Entry)]
         /\ \A v \in Names :
              /\ Len(Bumped(E, hits)[v]) = Len(E[v])
              /\ \A i \in 1 .. Len(E[v]) :
                   Bumped(E, hits)[v][i] =
                     IF v \in hits /\ i = Len(E[v])
                     THEN Newer(E[v][i]) ELSE E[v][i]
<1>1. ASSUME NEW v \in Names
      PROVE  /\ Bumped(E, hits)[v] \in Seq(Entry)
             /\ Len(Bumped(E, hits)[v]) = Len(E[v])
             /\ \A i \in 1 .. Len(E[v]) :
                  Bumped(E, hits)[v][i] =
                    IF v \in hits /\ i = Len(E[v])
                    THEN Newer(E[v][i]) ELSE E[v][i]
  <2> DEFINE n == Len(E[v])
             x == Newer(E[v][n])
  <2>1. CASE v \notin hits
    BY <2>1 DEF Bumped
  <2>2. CASE v \in hits
    <3>1. E[v] \in Seq(Entry) /\ E[v] # <<>>
      BY <2>2
    <3>2. n \in 1 .. Len(E[v]) /\ E[v][n] \in Entry
      BY <3>1
    <3>3. x \in Entry
      BY <3>2 DEF Entry, Newer
    <3>4. Bumped(E, hits)[v] = [E[v] EXCEPT ![n] = x]
      BY <2>2 DEF Bumped, Newer
    <3> HIDE DEF x
    <3>5. [E[v] EXCEPT ![n] = x] \in Seq(Entry)
      BY <3>1, <3>2, <3>3, ExceptSeq
    <3>6. Len([E[v] EXCEPT ![n] = x]) = n
      BY <3>1, <3>2, <3>3, ExceptSeq
    <3>7. \A i \in 1 .. n : [E[v] EXCEPT ![n] = x][i] = IF i = n THEN x ELSE E[v][i]
      BY <3>1, <3>2
    <3> QED
      BY <2>2, <3>4, <3>5, <3>6, <3>7 DEF x
  <2> QED
    BY <2>1, <2>2
<1>2. Bumped(E, hits) = [v \in Names |-> Bumped(E, hits)[v]]
  BY DEF Bumped
<1> QED
  BY <1>1, <1>2


(***************************************************************************)
(* Scheduling the thinks of registered voices keeps all that is known of   *)
(* timers: the one new think of a voice has the one new generation.        *)
(***************************************************************************)
LEMMA ScheduledOK ==
  ASSUME NEW E \in [Names -> Seq(Entry)], NEW T \in SUBSET Timer,
         NEW hits \in SUBSET Names, \A v \in hits : E[v] # <<>>,
         NEW exc \in Nat, ThinksOK(T, E)
  PROVE  /\ Scheduled(T, E, hits, exc) \in SUBSET Timer
         /\ ThinksOK(Scheduled(T, E, hits, exc), Bumped(E, hits))
<1> DEFINE B == Bumped(E, hits)
           S == Scheduled(T, E, hits, exc)
           New(v) == [voice |-> v, inc |-> Len(E[v]), gen |-> E[v][Len(E[v])].gen + 1,
                      exc |-> exc, phase |-> "armed"]
<1>1. /\ B \in [Names -> Seq(Entry)]
      /\ \A v \in Names :
           /\ Len(B[v]) = Len(E[v])
           /\ \A i \in 1 .. Len(E[v]) :
                B[v][i] = IF v \in hits /\ i = Len(E[v])
                          THEN Newer(E[v][i]) ELSE E[v][i]
  BY BumpedFacts
<1>2. S \subseteq T \cup {New(v) : v \in hits}
  BY DEF Scheduled
<1>3. ASSUME NEW v \in hits
      PROVE  /\ New(v) \in Timer
             /\ Len(E[v]) \in 1 .. Len(B[v])
             /\ E[v][Len(E[v])] \in Entry
             /\ B[v][Len(E[v])].gen = E[v][Len(E[v])].gen + 1
  <2>1. Len(E[v]) \in 1 .. Len(E[v]) /\ E[v][Len(E[v])] \in Entry
    OBVIOUS
  <2>2. E[v][Len(E[v])].gen \in Nat
    BY <2>1 DEF Entry
  <2>3. B[v][Len(E[v])] = Newer(E[v][Len(E[v])])
    BY <1>1, <2>1
  <2> QED
    BY <1>1, <2>1, <2>2, <2>3 DEF Timer, Entry, Newer
<1>4. ASSUME NEW t \in T
      PROVE  /\ t \in Timer
             /\ t.inc \in 1 .. Len(E[t.voice])
             /\ E[t.voice][t.inc].gen \in Nat
             /\ t.gen <= E[t.voice][t.inc].gen
             /\ B[t.voice][t.inc].gen \in Nat
             /\ E[t.voice][t.inc].gen <= B[t.voice][t.inc].gen
             /\ t.inc < Len(E[t.voice]) =>
                  B[t.voice][t.inc].gen = E[t.voice][t.inc].gen
  <2>1. t \in Timer /\ t.voice \in Names
    BY DEF Timer
  <2>2. t.inc \in 1 .. Len(E[t.voice]) /\ t.gen <= E[t.voice][t.inc].gen
    BY DEF ThinksOK, Owned
  <2>3. E[t.voice][t.inc] \in Entry
    BY <2>1, <2>2
  <2>4. E[t.voice][t.inc].gen \in Nat /\ t.gen \in Nat
    BY <2>1, <2>3 DEF Entry, Timer
  <2>5. CASE t.voice \in hits /\ t.inc = Len(E[t.voice])
    <3>1. B[t.voice][t.inc] = Newer(E[t.voice][t.inc])
      BY <1>1, <2>1, <2>2, <2>5
    <3>2. B[t.voice][t.inc].gen = E[t.voice][t.inc].gen + 1
      BY <2>3, <3>1 DEF Entry, Newer
    <3> QED
      BY <2>1, <2>2, <2>4, <2>5, <3>2
  <2>6. CASE ~(t.voice \in hits /\ t.inc = Len(E[t.voice]))
    <3>1. B[t.voice][t.inc] = E[t.voice][t.inc]
      BY <1>1, <2>1, <2>2, <2>6
    <3> QED
      BY <2>1, <2>2, <2>4, <3>1
  <2> QED
    BY <2>5, <2>6
<1> HIDE DEF B, S, New
<1>5. S \in SUBSET Timer
  BY <1>2, <1>3, <1>4
<1>6. Owned(S, B)
  <2> SUFFICES ASSUME NEW t \in S
               PROVE  t.inc \in 1 .. Len(B[t.voice]) /\ t.gen <= B[t.voice][t.inc].gen
    BY DEF Owned
  <2>1. CASE t \in T
    <3>1. t.voice \in Names /\ t.gen \in Nat
      BY <1>4, <2>1 DEF Timer
    <3>2. t.inc \in 1 .. Len(B[t.voice])
      BY <1>1, <1>4, <2>1, <3>1
    <3>3. t.gen <= B[t.voice][t.inc].gen
      BY <1>4, <2>1, <3>1
    <3> QED
      BY <3>2, <3>3
  <2>2. ASSUME NEW v \in hits, t = New(v)
        PROVE  t.inc \in 1 .. Len(B[t.voice]) /\ t.gen <= B[t.voice][t.inc].gen
    BY <1>3, <2>2 DEF New, Entry
  <2> QED
    BY <1>2, <2>1, <2>2
<1>7. Distinct(S)
  <2> SUFFICES ASSUME NEW t \in S, NEW u \in S,
                      t.voice = u.voice, t.inc = u.inc, t.gen = u.gen
               PROVE  t = u
    BY DEF Distinct
  <2>1. CASE t \in T /\ u \in T
    BY <2>1 DEF ThinksOK, Distinct
  <2>2. ASSUME NEW v \in hits, NEW x \in T
        PROVE  ~(x.voice = v /\ x.inc = Len(E[v]) /\ x.gen = E[v][Len(E[v])].gen + 1)
    BY <1>3, <1>4 DEF Entry, Timer
  <2>3. ASSUME NEW v \in hits
        PROVE  /\ t = New(v) => u \notin T
               /\ u = New(v) => t \notin T
    BY <2>2 DEF New
  <2>4. ASSUME NEW v \in hits, NEW w \in hits, t = New(v), u = New(w)
        PROVE  t = u
    BY <2>4 DEF New
  <2> QED
    BY <1>2, <2>1, <2>3, <2>4
<1>8. Retired(S, B)
  <2> SUFFICES ASSUME NEW t \in S, t.inc < Len(B[t.voice])
               PROVE  t.gen < B[t.voice][t.inc].gen
    BY DEF Retired
  <2>1. CASE t \in T
    <3>1. t.voice \in Names /\ t.inc < Len(E[t.voice])
      BY <1>1, <1>4, <2>1 DEF Timer
    <3> QED
      BY <1>4, <2>1, <3>1 DEF ThinksOK, Retired
  <2>2. ASSUME NEW v \in hits, t = New(v)
        PROVE  FALSE
    BY <1>1, <2>2 DEF New
  <2> QED
    BY <1>2, <2>1, <2>2
<1> QED
  BY <1>5, <1>6, <1>7, <1>8 DEF ThinksOK, B, S

(***************************************************************************)
(* Putting one or two envelopes of one exchange on the record keeps the    *)
(* scheduling state in order.                                              *)
(***************************************************************************)
LEMMA RecordOK ==
  ASSUME entries \in [Names -> Seq(Entry)], uttSeq \in Nat,
         NEW posts \in Seq(Post), posts # <<>>,
         NEW idle \in SUBSET Timer, ThinksOK(idle, entries),
         Record(posts, idle)
  PROVE  /\ entries' \in [Names -> Seq(Entry)]
         /\ timers' \in SUBSET Timer
         /\ uttSeq' \in Nat
         /\ out' \in Seq(Post)
         /\ ThinksOK(timers', entries')
<1>1. posts[1] \in Post /\ posts[1].exc \in Nat /\ Len(posts) \in Nat
  <2>1. posts[1] \in Post /\ Len(posts) \in Nat
    OBVIOUS
  <2> QED
    BY <2>1 DEF Post
<1>2. PICK first \in SUBSET (IF Len(posts) = 2 THEN Relevant(posts[2]) ELSE {}),
           last \in SUBSET Relevant(posts[1]) :
        LET E == Bumped(entries, first)
            T == Scheduled(idle, entries, first, posts[1].exc)
        IN  /\ timers' = Scheduled(T, E, last, posts[1].exc)
            /\ entries' = Bumped(E, last)
  BY DEF Record
<1> DEFINE E == Bumped(entries, first)
           T == Scheduled(idle, entries, first, posts[1].exc)
<1>3. first \in SUBSET Names /\ \A v \in first : entries[v] # <<>>
  BY <1>2 DEF Relevant, Audience, Registered
<1>4. last \in SUBSET Names /\ \A v \in last : entries[v] # <<>>
  BY <1>2 DEF Relevant, Audience, Registered
<1>5. T \in SUBSET Timer /\ ThinksOK(T, E)
  BY <1>1, <1>3, ScheduledOK
<1>6. E \in [Names -> Seq(Entry)] /\ \A v \in Names : Len(E[v]) = Len(entries[v])
  BY <1>3, BumpedFacts
<1>7. timers' = Scheduled(T, E, last, posts[1].exc) /\ entries' = Bumped(E, last)
  BY <1>2
<1> HIDE DEF E, T
<1>8. \A v \in last : E[v] # <<>>
  <2> TAKE v \in last
  <2>1. entries[v] \in Seq(Entry) /\ entries[v] # <<>> /\ Len(E[v]) = Len(entries[v])
    BY <1>4, <1>6
  <2>2. Len(entries[v]) # 0
    BY <2>1
  <2> QED
    BY <2>1, <2>2
<1>9. entries' \in [Names -> Seq(Entry)]
  BY <1>4, <1>6, <1>7, <1>8, BumpedFacts
<1>10. timers' \in SUBSET Timer /\ ThinksOK(timers', entries')
  BY <1>1, <1>4, <1>5, <1>6, <1>7, <1>8, ScheduledOK
<1>11. uttSeq' \in Nat /\ out' \in Seq(Post)
  BY <1>1 DEF Record
<1> QED
  BY <1>9, <1>10, <1>11

(***************************************************************************)
(* Fewer thinks are in order too.                                          *)
(***************************************************************************)
LEMMA ThinksSubset ==
  ASSUME NEW T, NEW E, NEW U \in SUBSET T, ThinksOK(T, E)
  PROVE  ThinksOK(U, E)
BY DEF ThinksOK, Owned, Distinct, Retired

-----------------------------------------------------------------------------
(***************************************************************************)
(* The funnel.  Terms that apply leave the world well typed.               *)
(***************************************************************************)
LEMMA ApplyType ==
  ASSUME WorldTypeOK, NEW owner, NEW t \in Terms,
         Applies(owner, t), Apply(owner, t)
  PROVE  WorldTypeOK'
<1>1. CASE t.type \in ComfortTypes
  <2>1. things' = [things EXCEPT ![owner][t.type] = t.value] /\ marks' = marks
    BY <1>1 DEF Apply, ComfortTypes
  <2>2. things[owner] # NoThing /\ t.value \in Values
    BY <1>1, TermsAssumption DEF Applies, ComfortTypes
  <2>3. owner \in Names => [things[owner] EXCEPT ![t.type] = t.value] \in ThingState
    BY <1>1, <2>2 DEF WorldTypeOK, ThingState
  <2> QED
    BY <2>1, <2>3 DEF WorldTypeOK
<1>2. CASE t.type = "trade"
  <2>1. /\ marks' = [[marks EXCEPT ![t.buyer] = @ - t.price] EXCEPT ![t.seller] = @ + t.price]
        /\ things' = things
    BY <1>2 DEF Apply, ComfortTypes
  <2>2. t.price \in Int /\ t.buyer \in Names /\ t.seller \in Names
    BY <1>2, TermsAssumption
  <2> QED
    BY <2>1, <2>2 DEF WorldTypeOK
<1> QED
  BY <1>1, <1>2 DEF Apply

(***************************************************************************)
(* One more turn of an exchange is an exchange.                            *)
(***************************************************************************)
LEMMA TurnType ==
  ASSUME NEW x \in Exchange, NEW status \in {"open", "settled", "abandoned"},
         NEW pending \in Offer
  PROVE  Turn(x, status, pending) \in Exchange
BY DEF Turn, Exchange

(***************************************************************************)
(* Whatever lifecycle makes of an envelope, the funnel keeps the invariant *)
(* (inject, with every thing it does to exchanges, world and timers).      *)
(***************************************************************************)
LEMMA EmitOK ==
  ASSUME IInv, NEW env \in Envelope, NEW via \in Vias,
         NEW idle \in SUBSET timers, Emit(env, via, idle)
  PROVE  IInv'
<1> DEFINE e == ExchangeOf(env)
           offer == [from |-> env.from, terms |-> env.terms, via |-> via]
<1>0. /\ exchanges \in Seq(Exchange) /\ excOrder \in SUBSET DOMAIN exchanges
      /\ entries \in [Names -> Seq(Entry)] /\ uttSeq \in Nat
      /\ WorldTypeOK
      /\ idle \in SUBSET Timer /\ ThinksOK(idle, entries)
  BY ThinksSubset DEF IInv, TypeOK
<1>1. /\ env.from \in Names /\ env.to \in Seq(Names) /\ SetOf(env.to) \in SUBSET Names
      /\ env.kind \in Kinds /\ env.exc \in Nat /\ env.terms \in Terms \cup {NoTerms}
  BY DEF Envelope, SetOf
<1>2. offer \in Offer
  BY <1>1 DEF Offer
<1>3. Compacted(env) \in SUBSET DOMAIN exchanges
  BY <1>0 DEF Compacted
<1>4. ASSUME NEW x \in Nat PROVE Posted(env, x, via) \in Post
  BY <1>1 DEF Posted, Post
<1>5. ASSUME NEW posts \in Seq(Post), posts # <<>>, Record(posts, idle)
      PROVE  /\ entries' \in [Names -> Seq(Entry)]
             /\ timers' \in SUBSET Timer
             /\ uttSeq' \in Nat
             /\ out' \in Seq(Post)
             /\ ThinksOK(timers', entries')
  BY <1>0, <1>5, RecordOK
<1> HIDE DEF offer
<1>6. CASE Crystallize(env, via, idle)
  <2> DEFINE x == [status |-> "open", parts |-> <<env.from>> \o env.to,
                   turns |-> 1, pending |-> offer]
  <2>1. <<env.from>> \o env.to \in Seq(Names)
    BY <1>1
  <2>2. x \in Exchange
    BY <1>2, <2>1 DEF Exchange
  <2>3. exchanges' = Append(exchanges, x)
    BY <1>6 DEF Crystallize, offer
  <2> HIDE DEF x
  <2>4. /\ exchanges' \in Seq(Exchange)
        /\ DOMAIN exchanges' = DOMAIN exchanges \cup {NextId}
        /\ NextId \in Nat
    BY <1>0, <2>2, <2>3 DEF NextId
  <2>5. excOrder' \in SUBSET DOMAIN exchanges'
    BY <1>0, <1>6, <2>4 DEF Crystallize
  <2>6. WorldTypeOK'
    BY <1>0, <1>6 DEF Crystallize, WorldTypeOK
  <2>7. <<Posted(env, NextId, via)>> \in Seq(Post) /\ <<Posted(env, NextId, via)>> # <<>>
    BY <1>4, <2>4
  <2>8. Record(<<Posted(env, NextId, via)>>, idle)
    BY <1>6 DEF Crystallize
  <2> QED
    BY <1>5, <2>4, <2>5, <2>6, <2>7, <2>8 DEF IInv, TypeOK
<1>7. e \in Nat
  <2>1. Adopters(env) \in SUBSET Nat
    BY <1>0, <1>3 DEF Adopters
  <2> QED
    BY <1>1, <2>1, LeastIsIn DEF ExchangeOf
<1>8. CASE RecordOnly(env, via, idle)
  <2>1. <<Posted(env, e, via)>> \in Seq(Post) /\ <<Posted(env, e, via)>> # <<>>
    BY <1>4, <1>7
  <2>2. Record(<<Posted(env, e, via)>>, idle)
    BY <1>8 DEF RecordOnly
  <2>3. /\ exchanges' \in Seq(Exchange)
        /\ excOrder' \in SUBSET DOMAIN exchanges'
        /\ WorldTypeOK'
    BY <1>0, <1>3, <1>8 DEF RecordOnly, WorldTypeOK
  <2> QED
    BY <1>5, <2>1, <2>2, <2>3 DEF IInv, TypeOK
<1> HIDE DEF e
<1>9. ASSUME IsOpen(e), NEW y \in Exchange, exchanges' = [exchanges EXCEPT ![e] = y],
             excOrder' = Compacted(env), WorldTypeOK',
             NEW posts \in Seq(Post), posts # <<>>, Record(posts, idle)
      PROVE  IInv'
  <2>1. e \in 1 .. Len(exchanges)
    BY <1>0, <1>9 DEF IsOpen
  <2>2. exchanges' \in Seq(Exchange) /\ DOMAIN exchanges' = DOMAIN exchanges
    BY <1>0, <1>9, <2>1, ExceptSeq
  <2> QED
    BY <1>3, <1>5, <1>9, <2>2 DEF IInv, TypeOK
<1>10. IsOpen(e) => exchanges[e] \in Exchange
  BY <1>0 DEF IsOpen
<1>11. CASE Converse(env, via, idle)
  <2> DEFINE y == Turn(exchanges[e],
                       IF env.kind = "withdraw" THEN "abandoned" ELSE "open",
                       IF env.kind = "propose" THEN offer ELSE exchanges[e].pending)
  <2>1. IsOpen(e) /\ exchanges' = [exchanges EXCEPT ![e] = y]
    BY <1>11 DEF Converse, e, offer
  <2>2. y \in Exchange
    BY <1>2, <1>10, <2>1, TurnType DEF Exchange
  <2>4. excOrder' = Compacted(env) /\ WorldTypeOK'
    BY <1>0, <1>11 DEF Converse, WorldTypeOK
  <2>5. <<Posted(env, e, via)>> \in Seq(Post) /\ <<Posted(env, e, via)>> # <<>>
    BY <1>4, <1>7
  <2>6. Record(<<Posted(env, e, via)>>, idle)
    BY <1>11 DEF Converse, e
  <2> HIDE DEF y
  <2> QED
    BY <1>9, <2>1, <2>2, <2>4, <2>5, <2>6
<1>12. ASSUME Matches(env, e)
       PROVE  /\ IsOpen(e)
              /\ exchanges[e].pending.terms \in Terms
              /\ exchanges[e].pending.from \in Names
              /\ Others(exchanges[e].parts, env.from) \in SUBSET Names
  BY <1>10, <1>12 DEF Matches, Exchange, Offer, Others, SetOf
<1>13. ASSUME NEW kind \in {"settle", "decline"}, NEW to \in SUBSET Names,
              NEW terms \in Terms \cup {NoTerms}
       PROVE  Synthesized(env, e, kind, to, terms) \in Post
  BY <1>1, <1>7 DEF Synthesized, Post, Kinds, Vias
<1>14. CASE Settle(env, via, idle)
  <2> DEFINE x == exchanges[e]
             y == Turn(x, "settled", x.pending)
             posts == <<Posted(env, e, via),
                        Synthesized(env, e, "settle", Others(x.parts, env.from),
                                    x.pending.terms)>>
  <2>1. /\ Matches(env, e)
        /\ CanSettle(x, env.from)
        /\ Apply(Owner(x.parts, env.from), x.pending.terms)
        /\ exchanges' = [exchanges EXCEPT ![e] = y]
        /\ excOrder' = Compacted(env)
        /\ Record(posts, idle)
    BY <1>14 DEF Settle, e
  <2>2. IsOpen(e) /\ y \in Exchange
    BY <1>10, <1>12, <2>1, TurnType DEF Exchange
  <2>4. WorldTypeOK'
    BY <1>0, <1>12, <2>1, ApplyType DEF CanSettle
  <2>5. posts \in Seq(Post) /\ posts # <<>>
    BY <1>4, <1>7, <1>12, <1>13, <2>1
  <2> HIDE DEF y, posts
  <2> QED
    BY <1>9, <2>1, <2>2, <2>4, <2>5
<1>15. CASE Refuse(env, via, idle)
  <2> DEFINE x == exchanges[e]
             y == Turn(x, "abandoned", x.pending)
             posts == <<Posted(env, e, via),
                        Synthesized(env, e, "decline", {x.pending.from}, NoTerms)>>
  <2>1. /\ Matches(env, e)
        /\ exchanges' = [exchanges EXCEPT ![e] = y]
        /\ excOrder' = Compacted(env)
        /\ things' = things /\ marks' = marks
        /\ Record(posts, idle)
    BY <1>15 DEF Refuse, e
  <2>2. IsOpen(e) /\ y \in Exchange
    BY <1>10, <1>12, <2>1, TurnType DEF Exchange
  <2>4. WorldTypeOK'
    BY <1>0, <2>1 DEF WorldTypeOK
  <2>5. posts \in Seq(Post) /\ posts # <<>>
    BY <1>4, <1>7, <1>12, <1>13, <2>1
  <2> HIDE DEF y, posts
  <2> QED
    BY <1>9, <2>1, <2>2, <2>4, <2>5
<1> QED
  BY <1>6, <1>8, <1>11, <1>14, <1>15 DEF Emit

(***************************************************************************)
(* So does the withdraw that the turn cap forces.                          *)
(***************************************************************************)
LEMMA CapWithdrawOK ==
  ASSUME IInv, NEW v \in Names, NEW e \in Nat, IsOpen(e),
         NEW idle \in SUBSET timers, CapWithdraw(v, e, idle)
  PROVE  IInv'
<1> DEFINE y == Turn(exchanges[e], "abandoned", exchanges[e].pending)
           post == [from |-> v, to |-> Others(exchanges[e].parts, v),
                    kind |-> "withdraw", exc |-> e, terms |-> NoTerms, via |-> "cap"]
<1>0. /\ exchanges \in Seq(Exchange) /\ excOrder \in SUBSET DOMAIN exchanges
      /\ entries \in [Names -> Seq(Entry)] /\ uttSeq \in Nat
      /\ WorldTypeOK
      /\ idle \in SUBSET Timer /\ ThinksOK(idle, entries)
  BY ThinksSubset DEF IInv, TypeOK
<1>1. e \in 1 .. Len(exchanges) /\ exchanges[e] \in Exchange
  BY <1>0 DEF IsOpen
<1>2. y \in Exchange
  BY <1>1, TurnType DEF Exchange
<1>3. /\ exchanges' = [exchanges EXCEPT ![e] = y]
      /\ things' = things /\ marks' = marks /\ excOrder' = excOrder
      /\ Record(<<post>>, idle)
  BY DEF CapWithdraw
<1>4. Others(exchanges[e].parts, v) \in SUBSET Names
  BY <1>1 DEF Exchange, Others, SetOf
<1>5. post \in Post
  BY <1>4 DEF Post, Kinds, Vias
<1>6. exchanges' \in Seq(Exchange) /\ DOMAIN exchanges' = DOMAIN exchanges
  <2> HIDE DEF y
  <2> QED
    BY <1>0, <1>1, <1>2, <1>3, ExceptSeq
<1> HIDE DEF y, post
<1>7. /\ entries' \in [Names -> Seq(Entry)] /\ timers' \in SUBSET Timer
      /\ uttSeq' \in Nat /\ out' \in Seq(Post) /\ ThinksOK(timers', entries')
  <2>1. <<post>> \in Seq(Post) /\ <<post>> # <<>>
    BY <1>5
  <2> QED
    BY <1>0, <1>3, <2>1, RecordOK
<1> QED
  BY <1>0, <1>3, <1>6, <1>7 DEF IInv, TypeOK, WorldTypeOK

-----------------------------------------------------------------------------
(***************************************************************************)
(* The public calls.  A voice gets a body, or not, of the right type.      *)
(***************************************************************************)
LEMMA EmbodyType ==
  ASSUME WorldTypeOK, NEW c, c.voice \in Names, c.init \in ThingState \cup {NoThing},
         Embody(c), marks' = marks
  PROVE  WorldTypeOK'
BY DEF WorldTypeOK, Embody, Register

(***************************************************************************)
(* A first claim finds no think of that voice to disturb.                  *)
(***************************************************************************)
LEMMA AddVoiceOK ==
  ASSUME IInv, NEW c, c.voice \in Names, c.charter \in Charter,
         c.init \in ThingState \cup {NoThing}, AddVoice(c)
  PROVE  IInv'
<1> DEFINE new == [charter |-> c.charter, gen |-> 0]
<1>1. new \in Entry /\ c.voice \in Names
  BY DEF Entry
<1>2. <<new>> \in Seq(Entry) /\ entries' = [entries EXCEPT ![c.voice] = <<new>>]
  BY <1>1 DEF AddVoice
<1> HIDE DEF new
<1>3. WorldTypeOK'
  BY EmbodyType DEF IInv, TypeOK, AddVoice
<1>4. entries' \in [Names -> Seq(Entry)] /\ out' \in Seq(Post)
  BY <1>1, <1>2 DEF IInv, TypeOK, AddVoice
<1>5. \A t \in timers : t.voice # c.voice
  <2> SUFFICES ASSUME NEW t \in timers, t.voice = c.voice PROVE FALSE
    OBVIOUS
  <2>1. entries[t.voice] = <<>>
    BY DEF AddVoice, Registered
  <2> QED
    BY <2>1 DEF IInv, ThinksOK, Owned
<1>6. \A t \in timers : entries'[t.voice] = entries[t.voice]
  BY <1>2, <1>5 DEF IInv, TypeOK, Timer
<1>7. ThinksOK(timers, entries')
  BY <1>6 DEF IInv, ThinksOK, Owned, Retired
<1> QED
  BY <1>3, <1>4, <1>7 DEF IInv, TypeOK, AddVoice

(***************************************************************************)
(* BumpedFacts for a single voice, as a re-claim uses it.                  *)
(***************************************************************************)
LEMMA BumpedOne ==
  ASSUME NEW E \in [Names -> Seq(Entry)], NEW v \in Names, E[v] # <<>>
  PROVE  /\ Bumped(E, {v}) \in [Names -> Seq(Entry)]
         /\ \A w \in Names :
              /\ Len(Bumped(E, {v})[w]) = Len(E[w])
              /\ \A i \in 1 .. Len(E[w]) :
                   Bumped(E, {v})[w][i] =
                     IF w = v /\ i = Len(E[w])
                     THEN Newer(E[w][i]) ELSE E[w][i]
<1>0. PICK hits \in SUBSET Names : hits = {v}
  OBVIOUS
<1>1. \A w : w \in hits <=> w = v
  BY <1>0
<1>2. \A w \in hits : E[w] # <<>>
  BY <1>1
<1>3. /\ Bumped(E, hits) \in [Names -> Seq(Entry)]
      /\ \A w \in Names :
           /\ Len(Bumped(E, hits)[w]) = Len(E[w])
           /\ \A i \in 1 .. Len(E[w]) :
                Bumped(E, hits)[w][i] =
                  IF w \in hits /\ i = Len(E[w])
                  THEN Newer(E[w][i]) ELSE E[w][i]
  BY <1>2, BumpedFacts
<1>4. ASSUME NEW w \in Names, NEW i \in 1 .. Len(E[w])
      PROVE  Bumped(E, hits)[w][i] =
               IF w = v /\ i = Len(E[w])
               THEN Newer(E[w][i]) ELSE E[w][i]
  BY <1>1, <1>3
<1>5. /\ Bumped(E, hits) \in [Names -> Seq(Entry)]
      /\ \A w \in Names :
           /\ Len(Bumped(E, hits)[w]) = Len(E[w])
           /\ \A i \in 1 .. Len(E[w]) :
                Bumped(E, hits)[w][i] =
                  IF w = v /\ i = Len(E[w])
                  THEN Newer(E[w][i]) ELSE E[w][i]
  BY <1>3, <1>4
<1> QED
  BY <1>0, <1>5

(***************************************************************************)
(* A re-claim makes the thinks of the replaced entry stale: their          *)
(* generation is behind for good.                                          *)
(***************************************************************************)
LEMMA ReclaimVoiceOK ==
  ASSUME IInv, NEW c \in Cast, ReclaimVoice(c)
  PROVE  IInv'
<1> DEFINE v == c.voice
           new == [charter |-> c.charter, gen |-> 0]
           B == Bumped(entries, {v})
           U == timers \ Cancelled(timers, {v})
<1>0. /\ entries \in [Names -> Seq(Entry)] /\ entries[v] # <<>>
      /\ timers \in SUBSET Timer /\ ThinksOK(timers, entries)
  BY DEF IInv, TypeOK, ReclaimVoice, Registered
<1>1. new \in Entry /\ v \in Names
  BY CastAssumption DEF Entry
<1>2. /\ B \in [Names -> Seq(Entry)]
      /\ \A w \in Names :
           /\ Len(B[w]) = Len(entries[w])
           /\ \A i \in 1 .. Len(entries[w]) :
                B[w][i] = IF w = v /\ i = Len(entries[w])
                          THEN Newer(entries[w][i]) ELSE entries[w][i]
  BY <1>0, <1>1, BumpedOne
<1>3. entries' = [entries EXCEPT ![v] = Append(B[v], new)] /\ timers' = U
  BY DEF ReclaimVoice
<1>4. WorldTypeOK'
  BY EmbodyType, CastAssumption DEF IInv, TypeOK, ReclaimVoice
<1> HIDE DEF v, new, B
<1>5. entries' \in [Names -> Seq(Entry)]
  BY <1>0, <1>1, <1>2, <1>3
<1>6. U \in SUBSET timers
  OBVIOUS
<1>7. ASSUME NEW t \in U
      PROVE  /\ t.inc \in 1 .. Len(entries'[t.voice])
             /\ t.gen <= entries'[t.voice][t.inc].gen
             /\ t.inc < Len(entries'[t.voice]) => t.gen < entries'[t.voice][t.inc].gen
  <2>1. /\ t \in timers /\ t.voice \in Names /\ t.gen \in Nat
        /\ t.inc \in 1 .. Len(entries[t.voice])
        /\ t.gen <= entries[t.voice][t.inc].gen
        /\ t.inc < Len(entries[t.voice]) => t.gen < entries[t.voice][t.inc].gen
    BY <1>0 DEF Timer, ThinksOK, Owned, Retired
  <2>2. CASE t.voice # v
    BY <1>0, <1>1, <1>3, <2>1, <2>2
  <2>3. CASE t.voice = v
    <3>1. B[v] \in Seq(Entry) /\ Len(B[v]) = Len(entries[v])
      BY <1>1, <1>2
    <3>2. entries'[v] = Append(B[v], new)
      BY <1>0, <1>1, <1>3
    <3>3. t.inc \in 1 .. Len(B[v]) /\ entries'[v][t.inc] = B[v][t.inc]
      BY <2>1, <2>3, <3>1, <3>2
    <3>4. Len(entries'[v]) = Len(entries[v]) + 1
      BY <1>1, <3>1, <3>2
    <3>5. entries[v][t.inc] \in Entry /\ entries[v][t.inc].gen \in Nat
      <4>1. entries[v][t.inc] \in Entry
        BY <1>0, <1>1, <2>1, <2>3
      <4> QED
        BY <4>1 DEF Entry
    <3>6. CASE t.inc = Len(entries[v])
      <4>1. B[v][t.inc] = Newer(entries[v][t.inc])
        BY <1>1, <1>2, <2>1, <2>3, <3>6
      <4>2. B[v][t.inc].gen = entries[v][t.inc].gen + 1
        BY <3>5, <4>1 DEF Entry, Newer
      <4> QED
        BY <2>1, <2>3, <3>3, <3>4, <3>5, <4>2
    <3>7. CASE t.inc # Len(entries[v])
      <4>1. B[v][t.inc] = entries[v][t.inc]
        BY <1>1, <1>2, <2>1, <2>3, <3>7
      <4>2. t.inc < Len(entries[v])
        BY <1>0, <1>1, <2>1, <2>3, <3>7
      <4> QED
        BY <2>1, <2>3, <3>3, <3>4, <3>5, <4>1, <4>2
    <3> QED
      BY <3>6, <3>7
  <2> QED
    BY <2>2, <2>3
<1>8. ThinksOK(timers', entries')
  <2>1. Owned(U, entries') /\ Retired(U, entries')
    BY <1>7 DEF Owned, Retired
  <2>2. Distinct(U)
    BY <1>0, <1>6 DEF ThinksOK, Distinct
  <2> QED
    BY <1>3, <2>1, <2>2 DEF ThinksOK
<1> QED
  BY <1>3, <1>4, <1>5, <1>8 DEF IInv, TypeOK, ReclaimVoice

(***************************************************************************)
(* Credit touches nothing but marks.                                       *)
(***************************************************************************)
LEMMA CreditVoiceOK ==
  ASSUME IInv, NEW c, c.voice \in Names, c.n \in Nat, CreditVoice(c)
  PROVE  IInv'
BY DEF IInv, TypeOK, WorldTypeOK, CreditVoice, Credit

(***************************************************************************)
(* A principal speaks through the funnel.                                  *)
(***************************************************************************)
LEMMA PrincipalSaysOK ==
  ASSUME IInv, NEW v \in DOMAIN PrincipalOf, PrincipalSays(v)
  PROVE  IInv'
<1> DEFINE env == [from |-> PrincipalOf[v], to |-> <<v>>, kind |-> "say",
                   exc |-> NoExc, terms |-> NoTerms]
<1>1. env \in Envelope
  BY PrincipalAssumption DEF Envelope, Kinds, NoExc
<1>2. "principal" \in Vias /\ Emit(env, "principal", timers)
  BY DEF PrincipalSays, Vias
<1> HIDE DEF env
<1> QED
  BY <1>1, <1>2, EmitOK

(***************************************************************************)
(* An outside envelope, into any exchange or none, goes through the        *)
(* funnel.                                                                 *)
(***************************************************************************)
LEMMA InjectOK ==
  ASSUME IInv, NEW i, i.from \in Names, i.to \in Seq(Names), i.kind \in Kinds,
         i.terms \in Terms \cup {NoTerms}, NEW e \in Nat, Inject(i, e)
  PROVE  IInv'
<1> DEFINE env == [from |-> i.from, to |-> i.to, kind |-> i.kind, exc |-> e,
                   terms |-> i.terms]
<1>1. env \in Envelope
  BY DEF Envelope
<1>2. "inject" \in Vias /\ Emit(env, "inject", timers)
  BY DEF Inject, Vias
<1> HIDE DEF env
<1> QED
  BY <1>1, <1>2, EmitOK

-----------------------------------------------------------------------------
(***************************************************************************)
(* Thinks.  One that ends in silence leaves the rest in order.             *)
(***************************************************************************)
LEMMA DropOK ==
  ASSUME IInv, NEW tm \in timers, Drop(tm)
  PROVE  IInv'
<1>1. /\ ThinksOK(timers \ {tm}, entries) /\ timers' = timers \ {tm}
      /\ entries' = entries
  BY ThinksSubset DEF IInv, Drop
<1> QED
  BY <1>1 DEF IInv, TypeOK, WorldTypeOK, Drop

(***************************************************************************)
(* A think that moves from timer to callback to brain keeps its identity.  *)
(***************************************************************************)
LEMMA PhaseOK ==
  ASSUME IInv, NEW tm \in timers, NEW phase \in {"armed", "fired", "thinking"},
         timers' = (timers \ {tm}) \cup {[tm EXCEPT !.phase = phase]},
         out' = <<>>,
         UNCHANGED <<things, marks, entries, exchanges, excOrder, uttSeq>>
  PROVE  IInv'
<1> DEFINE new == [tm EXCEPT !.phase = phase]
<1>1. /\ new \in Timer /\ new.voice = tm.voice /\ new.inc = tm.inc
      /\ new.gen = tm.gen
  BY DEF IInv, TypeOK, Timer
<1>2. timers' = (timers \ {tm}) \cup {new} /\ entries' = entries
  OBVIOUS
<1> HIDE DEF new
<1>3. timers' \in SUBSET Timer
  BY <1>1, <1>2 DEF IInv, TypeOK
<1>4. Owned(timers', entries') /\ Retired(timers', entries')
  BY <1>1, <1>2 DEF IInv, ThinksOK, Owned, Retired
<1>5. Distinct(timers')
  <2>1. Distinct(timers)
    BY DEF IInv, ThinksOK
  <2> QED
    BY <1>1, <1>2, <2>1 DEF Distinct
<1> QED
  BY <1>3, <1>4, <1>5 DEF IInv, TypeOK, WorldTypeOK, ThinksOK

(***************************************************************************)
(* The callback before the brain call: discard, gate or think.             *)
(***************************************************************************)
LEMMA ThinkBeginOK ==
  ASSUME IInv, NEW tm \in timers, ThinkBegin(tm)
  PROVE  IInv'
<1>1. tm.voice \in Names /\ tm.exc \in Nat
  BY DEF IInv, TypeOK, Timer
<1>2. CASE Drop(tm)
  BY <1>2, DropOK
<1>3. CASE Capped(tm.exc) /\ CapWithdraw(tm.voice, tm.exc, timers \ {tm})
  BY <1>1, <1>3, CapWithdrawOK DEF Capped
<1>4. CASE /\ timers' = (timers \ {tm}) \cup {[tm EXCEPT !.phase = "thinking"]}
           /\ out' = <<>>
           /\ UNCHANGED <<things, marks, entries, exchanges, excOrder, uttSeq>>
  BY <1>4, PhaseOK
<1> QED
  BY <1>2, <1>3, <1>4 DEF ThinkBegin

(***************************************************************************)
(* The callback after the brain call: a reply goes through the funnel.     *)
(***************************************************************************)
LEMMA ThinkSpeaksOK ==
  ASSUME IInv, NEW tm \in timers, NEW a \in Acts, ThinkSpeaks(tm, a)
  PROVE  IInv'
<1>1. Reply(tm, a) \in Envelope
  BY SpeechAssumption DEF IInv, TypeOK, Timer, Reply, Envelope
<1>2. "think" \in Vias /\ timers \ {tm} \in SUBSET timers
  BY DEF Vias
<1>3. Emit(Reply(tm, a), "think", timers \ {tm})
  BY DEF ThinkSpeaks
<1> QED
  BY <1>1, <1>2, <1>3, EmitOK

(***************************************************************************)
(* Every step of a think keeps the invariant.                              *)
(***************************************************************************)
LEMMA ProgressOK ==
  ASSUME IInv, NEW tm \in timers, Progress(tm)
  PROVE  IInv'
<1>1. CASE Fire(tm)
  BY <1>1, PhaseOK DEF Fire
<1>2. CASE ThinkBegin(tm)
  BY <1>2, ThinkBeginOK
<1>3. CASE ThinkFails(tm)
  BY <1>3, DropOK DEF ThinkFails
<1>4. CASE ThinkCapped(tm)
  <2>1. tm.voice \in Names /\ tm.exc \in Nat
    BY DEF IInv, TypeOK, Timer
  <2> QED
    BY <1>4, <2>1, CapWithdrawOK DEF ThinkCapped, Capped
<1>5. ASSUME NEW a \in Acts, ThinkSpeaks(tm, a) PROVE IInv'
  BY <1>5, ThinkSpeaksOK
<1> QED
  BY <1>1, <1>2, <1>3, <1>4, <1>5 DEF Progress

-----------------------------------------------------------------------------
(***************************************************************************)
(* The theorems. The invariant holds at the start.                         *)
(***************************************************************************)
LEMMA InitOK == Init => IInv
<1> SUFFICES ASSUME Init PROVE IInv
  OBVIOUS
<1>1. WorldTypeOK
  BY DEF Init, WorldInit, WorldTypeOK
<1>2. <<>> \in Seq(Entry) /\ <<>> \in Seq(Exchange) /\ <<>> \in Seq(Post)
  OBVIOUS
<1>3. ThinksOK({}, entries)
  BY DEF ThinksOK, Owned, Distinct, Retired
<1> QED
  BY <1>1, <1>2, <1>3 DEF Init, IInv, TypeOK

(***************************************************************************)
(* Every step of the orchestrator keeps the invariant.                     *)
(***************************************************************************)
LEMMA NextOK == IInv /\ [Next]_vars => IInv'
<1> SUFFICES ASSUME IInv, [Next]_vars PROVE IInv'
  OBVIOUS
<1>1. CASE UNCHANGED vars
  BY <1>1 DEF vars, IInv, TypeOK, WorldTypeOK
<1>2. ASSUME NEW c \in Cast, AddVoice(c) \/ ReclaimVoice(c) PROVE IInv'
  BY <1>2, AddVoiceOK, ReclaimVoiceOK, CastAssumption
<1>3. ASSUME NEW c \in Credits, CreditVoice(c) PROVE IInv'
  BY <1>3, CreditVoiceOK, CreditsAssumption
<1>4. ASSUME NEW v \in DOMAIN PrincipalOf, PrincipalSays(v) PROVE IInv'
  BY <1>4, PrincipalSaysOK
<1>5. ASSUME NEW i \in Injections, NEW e \in 0 .. Len(exchanges) + 1, Inject(i, e)
      PROVE  IInv'
  <2>1. e \in Nat
    BY DEF IInv, TypeOK
  <2> QED
    BY <1>5, <2>1, InjectOK, SpeechAssumption
<1>6. ASSUME NEW tm \in timers, Progress(tm) PROVE IInv'
  BY <1>6, ProgressOK
<1> QED
  BY <1>1, <1>2, <1>3, <1>4, <1>5, <1>6 DEF Next

(***************************************************************************)
(* The invariant of the scheduling protocol holds in every reachable       *)
(* state: every think belongs to an entry, is not newer than it, has its   *)
(* generation to itself, and is stale once its entry was replaced (the     *)
(* generation counters of AddVoice, scheduleThink and think).              *)
(***************************************************************************)
THEOREM InductiveInvariant == Spec => []IInv
<1> QED
  BY InitOK, NextOK, PTL DEF Spec

(***************************************************************************)
(* The state of the orchestrator stays well typed: in particular excOrder  *)
(* lists known exchanges only and pending offers are always there.         *)
(***************************************************************************)
THEOREM TypeCorrect == Spec => []TypeOK
<1>1. IInv => TypeOK
  BY DEF IInv
<1> QED
  BY <1>1, InductiveInvariant, PTL

(***************************************************************************)
(* A think that can still speak runs under the charter its voice holds     *)
(* (the generation check after a re-claim).                                *)
(***************************************************************************)
LEMMA LiveIsCurrent ==
  ASSUME IInv, NEW x \in timers, Live(x)
  PROVE  x.inc = Len(entries[x.voice]) /\ OwnEntry(x) = Current(x.voice)
<1>1. /\ x.inc \in 1 .. Len(entries[x.voice])
      /\ x.gen \in Nat /\ x.voice \in Names
      /\ entries[x.voice] \in Seq(Entry)
  BY DEF IInv, TypeOK, ThinksOK, Owned, Timer
<1>2. ~(x.inc < Len(entries[x.voice]))
  <2>1. ASSUME x.inc < Len(entries[x.voice]) PROVE FALSE
    <3>1. x.gen < entries[x.voice][x.inc].gen
      BY <2>1 DEF IInv, ThinksOK, Retired
    <3> QED
      BY <1>1, <3>1 DEF Live, Stale, OwnEntry
  <2> QED
    BY <2>1
<1> QED
  BY <1>1, <1>2 DEF OwnEntry, Current

(***************************************************************************)
(* However triggers, re-claims and slow brains interleave, a voice has at  *)
(* most one think that can still speak.                                    *)
(***************************************************************************)
THEOREM AtMostOneLiveThink == Spec => []OneLiveThink
<1>1. IInv => OneLiveThink
  <2> SUFFICES ASSUME IInv, NEW t \in timers, NEW u \in timers,
                      t.voice = u.voice, Live(t), Live(u)
               PROVE  t = u
    BY DEF OneLiveThink
  <2>1. t.inc = u.inc /\ t.gen = u.gen
    BY LiveIsCurrent DEF Live, Stale, OwnEntry
  <2> QED
    BY <2>1 DEF IInv, ThinksOK, Distinct
<1> QED
  BY <1>1, InductiveInvariant, PTL
-----------------------------------------------------------------------------
(***************************************************************************)
(* Marks.  A settle that World.Apply agrees to leaves no balance negative: *)
(* the price is at least zero and the buyer has it, also when buyer and    *)
(* seller are the same voice.                                              *)
(***************************************************************************)
LEMMA ApplyKeepsMarks ==
  ASSUME WorldTypeOK, MarksNeverNegative, NEW owner, NEW t \in Terms,
         Applies(owner, t), Apply(owner, t)
  PROVE  MarksNeverNegative'
<1>1. CASE t.type \in ComfortTypes
  BY <1>1 DEF Apply, ComfortTypes, MarksNeverNegative
<1>2. CASE t.type = "trade"
  <2>1. marks' = [[marks EXCEPT ![t.buyer] = @ - t.price] EXCEPT ![t.seller] = @ + t.price]
    BY <1>2 DEF Apply, ComfortTypes
  <2>2. /\ t.price \in Int /\ t.buyer \in Names /\ t.seller \in Names
        /\ 0 <= t.price /\ t.price <= marks[t.buyer]
    BY <1>2, TermsAssumption DEF Applies, ComfortTypes, WorldTypeOK
  <2>3. marks \in [Names -> Int] /\ \A n \in Names : marks[n] >= 0
    BY DEF WorldTypeOK, MarksNeverNegative
  <2>4. ASSUME NEW n \in Names PROVE marks'[n] >= 0
    BY <2>1, <2>2, <2>3
  <2> QED
    BY <2>4 DEF MarksNeverNegative
<1> QED
  BY <1>1, <1>2 DEF Apply

(***************************************************************************)
(* So the funnel never overdraws: marks move only where it settles.        *)
(***************************************************************************)
LEMMA EmitKeepsMarks ==
  ASSUME TypeOK, MarksNeverNegative, NEW env, NEW via, NEW idle,
         Emit(env, via, idle)
  PROVE  MarksNeverNegative'
<1>1. CASE marks' = marks
  BY <1>1 DEF MarksNeverNegative
<1>2. CASE Settle(env, via, idle)
  <2> DEFINE x == exchanges[ExchangeOf(env)]
             t == x.pending.terms
             owner == Owner(x.parts, env.from)
  <2>1. x \in Exchange
    BY <1>2 DEF Settle, Matches, IsOpen, TypeOK
  <2>2. t \in Terms
    BY <1>2, <2>1 DEF Settle, Matches, Exchange, Offer
  <2>3. Applies(owner, t) /\ Apply(owner, t)
    BY <1>2 DEF Settle, CanSettle
  <2> HIDE DEF t, owner
  <2> QED
    BY <2>2, <2>3, ApplyKeepsMarks DEF TypeOK
<1> QED
  BY <1>1, <1>2 DEF Emit, Crystallize, RecordOnly, Converse, Refuse

(***************************************************************************)
(* Nor does any other step.                                                *)
(***************************************************************************)
LEMMA NextKeepsMarks ==
  ASSUME TypeOK, MarksNeverNegative, [Next]_vars
  PROVE  MarksNeverNegative'
<1>1. CASE marks' = marks
  BY <1>1 DEF MarksNeverNegative
<1>2. ASSUME NEW env, NEW via, NEW idle, Emit(env, via, idle)
      PROVE  MarksNeverNegative'
  BY <1>2, EmitKeepsMarks
<1>3. ASSUME NEW c \in Cast, AddVoice(c) \/ ReclaimVoice(c) PROVE marks' = marks
  BY <1>3 DEF AddVoice, ReclaimVoice
<1>4. ASSUME NEW c \in Credits, CreditVoice(c) PROVE MarksNeverNegative'
  <2>1. /\ c.voice \in Names /\ c.n \in Nat
        /\ marks' = [marks EXCEPT ![c.voice] = @ + c.n]
    BY <1>4, CreditsAssumption DEF CreditVoice, Credit
  <2>2. marks \in [Names -> Int]
    BY DEF TypeOK, WorldTypeOK
  <2> QED
    BY <2>1, <2>2 DEF MarksNeverNegative
<1>5. ASSUME NEW v \in DOMAIN PrincipalOf, PrincipalSays(v)
      PROVE  MarksNeverNegative'
  BY <1>2, <1>5 DEF PrincipalSays
<1>6. ASSUME NEW i \in Injections, NEW e, Inject(i, e) PROVE MarksNeverNegative'
  BY <1>2, <1>6 DEF Inject
<1>7. ASSUME NEW tm \in timers, Progress(tm) PROVE MarksNeverNegative'
  <2>1. CASE marks' = marks
    BY <1>1, <2>1
  <2>2. ASSUME NEW a \in Acts, ThinkSpeaks(tm, a) PROVE MarksNeverNegative'
    BY <1>2, <2>2 DEF ThinkSpeaks
  <2> QED
    BY <1>7, <2>1, <2>2
       DEF Progress, Fire, ThinkBegin, ThinkFails, ThinkCapped, Drop, CapWithdraw
<1> QED
  BY <1>1, <1>3, <1>4, <1>5, <1>6, <1>7 DEF Next, vars

(***************************************************************************)
(* No run of the orchestrator overdraws anyone, whatever the prices, the   *)
(* charters and the credits (World.Apply, World.Credit).                   *)
(***************************************************************************)
THEOREM NobodyOverdrawn == Spec => []MarksNeverNegative
<1>1. Init => MarksNeverNegative
  BY DEF Init, WorldInit, MarksNeverNegative
<1>2. TypeOK /\ MarksNeverNegative /\ [Next]_vars => MarksNeverNegative'
  BY NextKeepsMarks
<1> QED
  BY <1>1, <1>2, TypeCorrect, PTL DEF Spec

-----------------------------------------------------------------------------
(***************************************************************************)
(* Exchanges.  What a step may do to them and to their list: a closed one  *)
(* stays as it is, an open one is not dropped and a new one is listed.     *)
(***************************************************************************)
Finality ==
  /\ \A e \in DOMAIN exchanges :
       exchanges[e].status # "open" => exchanges'[e] = exchanges[e]
  /\ OpenStaysListed => OpenStaysListed'

(***************************************************************************)
(* One more turn of an open exchange, whatever becomes of it, leaves the   *)
(* others alone; the compaction of the list drops closed ones only.        *)
(***************************************************************************)
LEMMA TurnKeepsFinality ==
  ASSUME TypeOK, NEW e, IsOpen(e), NEW status, NEW pending,
         exchanges' = [exchanges EXCEPT ![e] = Turn(@, status, pending)],
         \A d \in excOrder : IsOpen(d) => d \in excOrder'
  PROVE  Finality
<1>1. \A d \in DOMAIN exchanges : d # e => exchanges'[d] = exchanges[d]
  OBVIOUS
<1>2. DOMAIN exchanges' = DOMAIN exchanges
  OBVIOUS
<1>3. ASSUME OpenStaysListed PROVE OpenStaysListed'
  <2>1. ASSUME NEW d \in DOMAIN exchanges', exchanges'[d].status = "open"
        PROVE  IsOpen(d)
    BY <1>1, <1>2, <2>1 DEF IsOpen
  <2> QED
    BY <1>2, <1>3, <2>1 DEF OpenStaysListed, IsOpen
<1> QED
  BY <1>1, <1>3 DEF Finality, IsOpen

(***************************************************************************)
(* The funnel keeps closed exchanges closed and open ones listed.          *)
(***************************************************************************)
LEMMA EmitKeepsFinality ==
  ASSUME TypeOK, NEW env, NEW via, NEW idle, Emit(env, via, idle)
  PROVE  Finality
<1>1. \A d \in excOrder : IsOpen(d) => d \in Compacted(env)
  BY DEF Compacted
<1>2. CASE Crystallize(env, via, idle)
  <2> DEFINE new == [status |-> "open", parts |-> <<env.from>> \o env.to, turns |-> 1,
                     pending |-> [from |-> env.from, terms |-> env.terms, via |-> via]]
  <2>1. exchanges' = Append(exchanges, new) /\ excOrder' = excOrder \cup {NextId}
    BY <1>2 DEF Crystallize
  <2> HIDE DEF new
  <2>2. exchanges \in Seq(Exchange)
    BY DEF TypeOK
  <2>3. /\ DOMAIN exchanges' = DOMAIN exchanges \cup {NextId}
        /\ \A d \in DOMAIN exchanges : exchanges'[d] = exchanges[d]
    BY <2>1, <2>2 DEF NextId
  <2> QED
    BY <2>1, <2>3 DEF Finality, OpenStaysListed, IsOpen
<1>3. CASE RecordOnly(env, via, idle)
  BY <1>1, <1>3 DEF RecordOnly, Finality, OpenStaysListed, IsOpen
<1>4. CASE Converse(env, via, idle)
  BY <1>1, <1>4, TurnKeepsFinality DEF Converse
<1>5. CASE Settle(env, via, idle)
  BY <1>1, <1>5, TurnKeepsFinality DEF Settle, Matches
<1>6. CASE Refuse(env, via, idle)
  BY <1>1, <1>6, TurnKeepsFinality DEF Refuse, Matches
<1> QED
  BY <1>2, <1>3, <1>4, <1>5, <1>6 DEF Emit

(***************************************************************************)
(* So does every step of the orchestrator.                                 *)
(***************************************************************************)
LEMMA NextKeepsFinality ==
  ASSUME TypeOK, [Next]_vars
  PROVE  Finality
<1>1. CASE UNCHANGED <<exchanges, excOrder>>
  BY <1>1 DEF Finality, OpenStaysListed, IsOpen
<1>2. ASSUME NEW env, NEW via, NEW idle, Emit(env, via, idle) PROVE Finality
  BY <1>2, EmitKeepsFinality
<1>3. ASSUME NEW v, NEW e, NEW idle, Capped(e), CapWithdraw(v, e, idle)
      PROVE  Finality
  BY <1>3, TurnKeepsFinality DEF CapWithdraw, Capped
<1>4. ASSUME NEW c, AddVoice(c) \/ ReclaimVoice(c) \/ CreditVoice(c)
      PROVE  UNCHANGED <<exchanges, excOrder>>
  BY <1>4 DEF AddVoice, ReclaimVoice, CreditVoice
<1>5. ASSUME NEW v, PrincipalSays(v) PROVE Finality
  BY <1>2, <1>5 DEF PrincipalSays
<1>6. ASSUME NEW i, NEW e, Inject(i, e) PROVE Finality
  BY <1>2, <1>6 DEF Inject
<1>7. ASSUME NEW tm, Progress(tm) PROVE Finality
  <2>1. CASE Fire(tm)
    BY <1>1, <2>1 DEF Fire
  <2>2. CASE ThinkBegin(tm)
    BY <1>1, <1>3, <2>2 DEF ThinkBegin, Drop
  <2>3. CASE ThinkFails(tm)
    BY <1>1, <2>3 DEF ThinkFails, Drop
  <2>4. CASE ThinkCapped(tm)
    BY <1>3, <2>4 DEF ThinkCapped
  <2>5. ASSUME NEW a \in Acts, ThinkSpeaks(tm, a) PROVE Finality
    BY <1>2, <2>5 DEF ThinkSpeaks
  <2> QED
    BY <1>7, <2>1, <2>2, <2>3, <2>4, <2>5 DEF Progress
<1>8. CASE UNCHANGED vars
  BY <1>1, <1>8 DEF vars
<1> QED
  BY <1>1, <1>4, <1>5, <1>6, <1>7, <1>8 DEF Next

(***************************************************************************)
(* An exchange that was settled or abandoned is never touched again: no    *)
(* late accept settles it a second time (the closed checks of lifecycle    *)
(* and of exchangeGate).                                                   *)
(***************************************************************************)
THEOREM ClosedForGood == Spec => ClosedIsFinal
<1>1. TypeOK /\ [Next]_vars =>
        [\A e \in DOMAIN exchanges :
           exchanges[e].status # "open" => exchanges'[e] = exchanges[e]]_vars
  BY NextKeepsFinality DEF Finality
<1> QED
  BY <1>1, TypeCorrect, PTL DEF Spec, ClosedIsFinal

(***************************************************************************)
(* However often adoption compacts the list, it still finds every open     *)
(* exchange (the scan of excOrder in lifecycle).                           *)
(***************************************************************************)
THEOREM OpenIsListed == Spec => []OpenStaysListed
<1>1. Init => OpenStaysListed
  BY DEF Init, OpenStaysListed
<1>2. TypeOK /\ OpenStaysListed /\ [Next]_vars => OpenStaysListed'
  BY NextKeepsFinality DEF Finality
<1> QED
  BY <1>1, <1>2, TypeCorrect, PTL DEF Spec

(***************************************************************************)
(* For any accept at all, settleTarget finds what lifecycle will settle.   *)
(***************************************************************************)
LEMMA GateAgrees ==
  ASSUME NEW env, env.kind = "accept"
  PROVE  SettleTarget(env) = IF Matches(env, ExchangeOf(env))
                             THEN ExchangeOf(env) ELSE NoExc
<1> DEFINE joined == {d \in excOrder : IsOpen(d) /\ Meets(env.to, exchanges[d].parts)}
           target == IF env.exc # NoExc THEN env.exc
                     ELSE IF joined # {} THEN Least(joined) ELSE NoExc
<1>1. env.exc = NoExc => Adopters(env) = joined
  BY DEF Adopters, Compacted, Bare
<1>2. ExchangeOf(env) = target
  BY <1>1 DEF ExchangeOf, Bare
<1>3. SettleTarget(env) =
        IF /\ IsOpen(target)
           /\ exchanges[target].pending.terms # NoTerms
           /\ env.from # exchanges[target].pending.from
           /\ env.from \in SetOf(exchanges[target].parts)
        THEN target ELSE NoExc
  BY DEF SettleTarget
<1> HIDE DEF target, joined
<1> QED
  BY <1>2, <1>3 DEF Matches

(***************************************************************************)
(* settleTarget and lifecycle resolve every accept to the same exchange    *)
(* and agree whether it settles, in every state: the consent and spend     *)
(* gates never look at the wrong offer.                                    *)
(***************************************************************************)
THEOREM GateIsFaithful == Spec => []GatePredictsFunnel
<1>1. GatePredictsFunnel
  BY GateAgrees DEF GatePredictsFunnel
<1> QED
  BY <1>1, PTL

-----------------------------------------------------------------------------
(***************************************************************************)
(* Whoever speaks hands the funnel a well-typed envelope.                  *)
(***************************************************************************)
LEMMA SaysEnvelope ==
  ASSUME NEW v \in DOMAIN PrincipalOf
  PROVE  [from |-> PrincipalOf[v], to |-> <<v>>, kind |-> "say",
          exc |-> NoExc, terms |-> NoTerms] \in Envelope
BY PrincipalAssumption DEF Envelope, Kinds, NoExc

LEMMA InjectEnvelope ==
  ASSUME NEW i \in Injections, NEW e \in Nat
  PROVE  [from |-> i.from, to |-> i.to, kind |-> i.kind, exc |-> e,
          terms |-> i.terms] \in Envelope
BY SpeechAssumption DEF Envelope

LEMMA ReplyEnvelope ==
  ASSUME TypeOK, NEW tm \in timers, NEW a \in Acts
  PROVE  Reply(tm, a) \in Envelope
BY SpeechAssumption DEF TypeOK, Timer, Reply, Envelope

-----------------------------------------------------------------------------
(***************************************************************************)
(* A matching accept whose terms apply.  What Settle does to the world,    *)
(* once for the refinement and once for law 6.                             *)
(***************************************************************************)
LEMMA OwnerTakesPart ==
  ASSUME NEW parts \in Seq(Names), NEW accepter \in SetOf(parts)
  PROVE  Owner(parts, accepter) \in SetOf(parts)
<1> DEFINE bodies == {i \in DOMAIN parts : IsThing(parts[i])}
<1>1. CASE bodies = {}
  BY <1>1 DEF Owner
<1>2. CASE bodies # {}
  <2>1. bodies \in SUBSET Nat /\ bodies \subseteq DOMAIN parts
    OBVIOUS
  <2>2. Owner(parts, accepter) = parts[Least(bodies)]
    BY <1>2 DEF Owner
  <2> HIDE DEF bodies
  <2>3. Least(bodies) \in DOMAIN parts
    BY <1>2, <2>1, LeastIsIn
  <2> QED
    BY <2>2, <2>3 DEF SetOf
<1> QED
  BY <1>1, <1>2

LEMMA SettleFacts ==
  ASSUME TypeOK, NEW env \in Envelope, NEW via, NEW idle, Settle(env, via, idle)
  PROVE  LET e == ExchangeOf(env)
             x == exchanges[e]
             t == x.pending.terms
             owner == Owner(x.parts, env.from)
         IN  /\ IsOpen(e) /\ x \in Exchange /\ t \in Terms
             /\ env.from \in SetOf(x.parts) \ {x.pending.from}
             /\ Applies(owner, t) /\ Apply(owner, t)
             /\ owner \in SetOf(x.parts) /\ owner \in Names
             /\ t.type = "trade" => {t.buyer, t.seller} \subseteq {x.pending.from, env.from}
             /\ exchanges' = [exchanges EXCEPT ![e] = Turn(x, "settled", x.pending)]
             /\ out' = <<Posted(env, e, via),
                         Synthesized(env, e, "settle", Others(x.parts, env.from), t)>>
<1> DEFINE e == ExchangeOf(env)
           x == exchanges[e]
           t == x.pending.terms
           owner == Owner(x.parts, env.from)
<1>1. IsOpen(e) /\ x \in Exchange
  BY DEF Settle, Matches, IsOpen, TypeOK
<1>2. /\ env.from \in SetOf(x.parts) \ {x.pending.from}
      /\ t # NoTerms
      /\ CanSettle(x, env.from) /\ Apply(owner, t)
      /\ exchanges' = [exchanges EXCEPT ![e] = Turn(x, "settled", x.pending)]
  BY DEF Settle, Matches
<1>3. out' = <<Posted(env, e, via),
               Synthesized(env, e, "settle", Others(x.parts, env.from), t)>>
  BY DEF Settle, Record
<1>4. t \in Terms /\ x.parts \in Seq(Names)
  BY <1>1, <1>2 DEF Exchange, Offer
<1>5. Applies(owner, t) /\ PartiesPresent(x.pending, env.from)
  BY <1>2 DEF CanSettle
<1>6. owner \in SetOf(x.parts)
  BY <1>2, <1>4, OwnerTakesPart
<1>7. owner \in Names
  BY <1>4, <1>6 DEF SetOf
<1>8. t.type = "trade" => {t.buyer, t.seller} \subseteq {x.pending.from, env.from}
  BY <1>5 DEF PartiesPresent, Applies, ApplyReads, PartiesRead
<1> QED
  BY <1>1, <1>2, <1>3, <1>4, <1>5, <1>6, <1>7, <1>8

-----------------------------------------------------------------------------
(***************************************************************************)
(* Refinement.  The deals Bargain sees.                                    *)
(***************************************************************************)
DealOf(x) == [status |-> x.status, parts |-> SetOf(x.parts),
              offer |-> [from |-> x.pending.from, terms |-> x.pending.terms]]

LEMMA DealsFacts ==
  ASSUME TypeOK
  PROVE  /\ Deals = [e \in DOMAIN exchanges |-> DealOf(exchanges[e])]
         /\ Len(Deals) = Len(exchanges)
         /\ DOMAIN exchanges = 1 .. Len(exchanges) /\ Len(exchanges) \in Nat
BY DEF TypeOK, Deals, DealOf

(***************************************************************************)
(* A turn of an open exchange changes its deal only, and not who takes     *)
(* part in it.                                                             *)
(***************************************************************************)
Turned(e, status, pending) ==
  exchanges' = [exchanges EXCEPT ![e] = Turn(@, status, pending)]

DealMoves(e, status, from, terms) ==
  /\ e \in DOMAIN Deals /\ Deals[e] = DealOf(exchanges[e])
  /\ Deals[e].status = "open"
  /\ Deals' = [Deals EXCEPT ![e] =
       [status |-> status, parts |-> SetOf(exchanges[e].parts),
        offer |-> [from |-> from, terms |-> terms]]]

LEMMA TurnOfDeal ==
  ASSUME TypeOK, NEW e, IsOpen(e), NEW status, NEW pending, Turned(e, status, pending)
  PROVE  DealMoves(e, status, pending.from, pending.terms)
<1> DEFINE d == DealOf(Turn(exchanges[e], status, pending))
<1>1. e \in DOMAIN exchanges /\ exchanges[e].status = "open"
  BY DEF IsOpen
<1>2. /\ Deals = [i \in DOMAIN exchanges |-> DealOf(exchanges[i])]
      /\ Deals' = [i \in DOMAIN exchanges' |-> DealOf(exchanges'[i])]
  BY DEF Deals, DealOf
<1>3. d = [status |-> status, parts |-> SetOf(exchanges[e].parts),
           offer |-> [from |-> pending.from, terms |-> pending.terms]]
  BY DEF DealOf, Turn
<1>4. /\ DOMAIN exchanges' = DOMAIN exchanges
      /\ \A i \in DOMAIN exchanges :
           exchanges'[i] = IF i = e THEN Turn(exchanges[e], status, pending)
                           ELSE exchanges[i]
  BY DEF Turned
<1>5. Deals' = [Deals EXCEPT ![e] = d]
  BY <1>1, <1>2, <1>4
<1>6. Deals[e] = DealOf(exchanges[e]) /\ Deals[e].status = "open"
  BY <1>1, <1>2 DEF DealOf
<1> HIDE DEF d
<1> QED
  BY <1>1, <1>2, <1>3, <1>5, <1>6 DEF DealMoves

(***************************************************************************)
(* What an open deal becomes, in the words of Bargain.                     *)
(***************************************************************************)
LEMMA StatusMoves ==
  ASSUME NEW e, NEW status, DealMoves(e, status, exchanges[e].pending.from,
                                      exchanges[e].pending.terms)
  PROVE  Deals' = [Deals EXCEPT ![e].status = status]
<1> DEFINE offer == [from |-> exchanges[e].pending.from,
                     terms |-> exchanges[e].pending.terms]
<1>1. Deals[e] = [status |-> exchanges[e].status, parts |-> SetOf(exchanges[e].parts),
                  offer |-> offer]
  BY DEF DealMoves, DealOf
<1>2. Deals' = [Deals EXCEPT ![e] =
        [status |-> status, parts |-> SetOf(exchanges[e].parts), offer |-> offer]]
  BY DEF DealMoves
<1> HIDE DEF offer
<1>3. [Deals[e] EXCEPT !.status = status] =
        [status |-> status, parts |-> SetOf(exchanges[e].parts), offer |-> offer]
  BY <1>1
<1> QED
  BY <1>2, <1>3

LEMMA OfferMoves ==
  ASSUME NEW e, NEW from, NEW terms, DealMoves(e, "open", from, terms)
  PROVE  Deals' = [Deals EXCEPT ![e].offer = Deals'[e].offer]
<1> DEFINE offer == [from |-> from, terms |-> terms]
           parts == SetOf(exchanges[e].parts)
<1>1. /\ Deals[e] = [status |-> "open", parts |-> parts, offer |-> Deals[e].offer]
      /\ e \in DOMAIN Deals
  BY DEF DealMoves, DealOf
<1>2. Deals' = [Deals EXCEPT ![e] = [status |-> "open", parts |-> parts, offer |-> offer]]
  BY DEF DealMoves
<1> HIDE DEF offer, parts
<1>3. Deals'[e].offer = offer
  BY <1>1, <1>2
<1>4. [Deals[e] EXCEPT !.offer = offer] = [status |-> "open", parts |-> parts, offer |-> offer]
  BY <1>1
<1>5. [Deals EXCEPT ![e].offer = offer] = [Deals EXCEPT ![e] = [Deals[e] EXCEPT !.offer = offer]]
  OBVIOUS
<1> QED
  BY <1>2, <1>3, <1>4, <1>5

LEMMA CrystallizeOpens ==
  ASSUME TypeOK, NEW env \in Envelope, NEW via, NEW idle, Crystallize(env, via, idle)
  PROVE  Promise!Open
<1> DEFINE new == [status |-> "open", parts |-> <<env.from>> \o env.to, turns |-> 1,
                   pending |-> [from |-> env.from, terms |-> env.terms, via |-> via]]
           n == Len(exchanges) + 1
           d == DealOf(new)
<1>1. /\ exchanges \in Seq(Exchange) /\ exchanges' = Append(exchanges, new)
      /\ UNCHANGED <<things, marks>>
  BY DEF TypeOK, Crystallize
<1>2. new.status = "open" /\ new.pending.from \in SetOf(new.parts)
  <2>1. env.to \in Seq(Names)
    BY DEF Envelope
  <2>2. 1 \in DOMAIN new.parts /\ new.parts[1] = env.from
    BY <2>1
  <2> QED
    BY <2>2 DEF SetOf
<1> HIDE DEF new
<1>3. /\ DOMAIN exchanges' = 1 .. n /\ n \in Nat /\ exchanges'[n] = new
      /\ \A i \in 1 .. Len(exchanges) : exchanges'[i] = exchanges[i]
  BY <1>1
<1>4. Deals = [i \in 1 .. Len(exchanges) |-> DealOf(exchanges[i])] /\ Len(Deals) = n - 1
  BY <1>1, DealsFacts
<1>5. Deals' = [i \in 1 .. n |-> DealOf(exchanges'[i])]
  BY <1>3 DEF Deals, DealOf
<1>6. Len(Deals') = n /\ Deals'[n] = d
  BY <1>3, <1>5
<1>7. d.status = "open" /\ d.offer.from \in d.parts
  BY <1>2 DEF DealOf
<1> HIDE DEF d
<1>8. Deals' = Append(Deals, d)
  <2>1. Append(Deals, d) = [i \in 1 .. n |-> IF i = n THEN d ELSE Deals[i]]
    BY <1>4, <1>3
  <2>2. \A i \in 1 .. n : Deals'[i] = IF i = n THEN d ELSE Deals[i]
    BY <1>3, <1>4, <1>5, <1>6
  <2> QED
    BY <1>5, <2>1, <2>2
<1> QED
  BY <1>1, <1>4, <1>6, <1>7, <1>8 DEF Promise!Open

LEMMA ConverseCounters ==
  ASSUME TypeOK, NEW env, NEW via, NEW idle, Converse(env, via, idle)
  PROVE  \E e \in DOMAIN Deals : Promise!Counter(e) \/ Promise!Abandon(e)
<1> DEFINE e == ExchangeOf(env)
           status == IF env.kind = "withdraw" THEN "abandoned" ELSE "open"
           pending == IF env.kind = "propose"
                      THEN [from |-> env.from, terms |-> env.terms, via |-> via]
                      ELSE exchanges[e].pending
<1>1. IsOpen(e) /\ UNCHANGED <<things, marks>> /\ Turned(e, status, pending)
  BY DEF Converse, IsOpen, Turned
<1> HIDE DEF e, status, pending
<1>2. DealMoves(e, status, pending.from, pending.terms)
  BY <1>1, TurnOfDeal
<1>3. CASE env.kind = "withdraw"
  <2>1. status = "abandoned" /\ pending = exchanges[e].pending
    BY <1>3 DEF status, pending
  <2>2. Deals' = [Deals EXCEPT ![e].status = "abandoned"]
    BY <1>2, <2>1, StatusMoves
  <2> QED
    BY <1>1, <1>2, <2>2 DEF Promise!Abandon, DealMoves
<1>4. CASE env.kind # "withdraw"
  <2>1. status = "open"
    BY <1>4 DEF status
  <2>2. Deals' = [Deals EXCEPT ![e].offer = Deals'[e].offer]
    BY <1>2, <2>1, OfferMoves
  <2> QED
    BY <1>1, <1>2, <2>2 DEF Promise!Counter, DealMoves
<1> QED
  BY <1>3, <1>4

(***************************************************************************)
(* What the world refuses or the turn cap ends is an abandoned deal.       *)
(***************************************************************************)
LEMMA EndedIsAbandoned ==
  ASSUME TypeOK, NEW e, IsOpen(e), UNCHANGED <<things, marks>>,
         Turned(e, "abandoned", exchanges[e].pending)
  PROVE  \E i \in DOMAIN Deals : Promise!Abandon(i)
<1>1. DealMoves(e, "abandoned", exchanges[e].pending.from, exchanges[e].pending.terms)
  BY TurnOfDeal
<1>2. Deals' = [Deals EXCEPT ![e].status = "abandoned"]
  BY <1>1, StatusMoves
<1> QED
  BY <1>1, <1>2 DEF Promise!Abandon, DealMoves

LEMMA SettleCloses ==
  ASSUME TypeOK, NEW env \in Envelope, NEW via, NEW idle, Settle(env, via, idle)
  PROVE  \E e \in DOMAIN Deals : Promise!Close(e, env.from)
<1> DEFINE e == ExchangeOf(env)
           x == exchanges[e]
           t == x.pending.terms
           owner == Owner(x.parts, env.from)
<1>1. /\ IsOpen(e) /\ x \in Exchange /\ t \in Terms
      /\ env.from \in SetOf(x.parts) \ {x.pending.from}
      /\ Applies(owner, t) /\ Apply(owner, t)
      /\ owner \in SetOf(x.parts)
      /\ t.type = "trade" => {t.buyer, t.seller} \subseteq {x.pending.from, env.from}
      /\ exchanges' = [exchanges EXCEPT ![e] = Turn(x, "settled", x.pending)]
  BY SettleFacts
<1> HIDE DEF e
<1>2. DealMoves(e, "settled", x.pending.from, t)
  <2>1. Turned(e, "settled", x.pending)
    BY <1>1 DEF Turned
  <2> QED
    BY <1>1, <2>1, TurnOfDeal
<1>3. /\ e \in DOMAIN Deals /\ Deals[e].status = "open"
      /\ Deals[e] = [status |-> x.status, parts |-> SetOf(x.parts),
                     offer |-> [from |-> x.pending.from, terms |-> t]]
  BY <1>2 DEF DealMoves, DealOf
<1>4. Deals' = [Deals EXCEPT ![e].status = "settled"]
  BY <1>2, StatusMoves
<1>5. Deals[e].offer.terms = t /\ Deals[e].offer.from = x.pending.from
      /\ Deals[e].parts = SetOf(x.parts)
  BY <1>3
<1> HIDE DEF t, owner, x
<1>6. CASE t.type = "trade"
  <2>1. /\ ~(t.type \in ComfortTypes)
        /\ marks' = [[marks EXCEPT ![t.buyer] = @ - t.price] EXCEPT ![t.seller] = @ + t.price]
        /\ UNCHANGED things
        /\ t.price >= 0 /\ marks[t.buyer] >= t.price
    BY <1>1, <1>6 DEF Apply, Applies, ComfortTypes
  <2>2. t.price \in Int /\ t.buyer \in Names /\ t.seller \in Names /\ marks \in [Names -> Int]
    BY <1>1, <1>6, TermsAssumption DEF TypeOK, WorldTypeOK
  <2>3. t.price \in 0 .. marks[t.buyer]
    BY <2>1, <2>2
  <2>4. t.buyer = t.seller => marks' = marks
    BY <2>1, <2>2
  <2>5. t.buyer # t.seller =>
          marks' = [[marks EXCEPT ![t.buyer] = @ - t.price] EXCEPT ![t.seller] = @ + t.price]
    BY <2>1
  <2>6. Promise!Swap(Deals[e].offer, env.from)
    BY <1>1, <1>5, <1>6, <2>1, <2>3, <2>4, <2>5 DEF Promise!Swap
  <2> QED
    BY <1>1, <1>3, <1>4, <1>5, <2>6, TermsAssumption DEF Promise!Close
<1>7. CASE t.type # "trade"
  <2>1. /\ t.type \in ComfortTypes /\ things[owner] # NoThing
        /\ things' = [things EXCEPT ![owner][t.type] = t.value]
        /\ UNCHANGED marks
    BY <1>1, <1>7 DEF Apply, Applies
  <2>2. Promise!Adjust(Deals[e].offer, Deals[e].parts)
    BY <1>1, <1>5, <2>1 DEF Promise!Adjust, Promise!ComfortTypes, ComfortTypes
  <2> QED
    BY <1>1, <1>3, <1>4, <1>5, <2>2, TermsAssumption DEF Promise!Close
<1> QED
  BY <1>6, <1>7

LEMMA EmitKeepsBargain ==
  ASSUME TypeOK, NEW env \in Envelope, NEW via, NEW idle, Emit(env, via, idle)
  PROVE  [Promise!BargainNext]_(Promise!bargainVars)
<1>1. env.from \in Names
  BY DEF Envelope
<1>2. CASE Crystallize(env, via, idle)
  BY <1>2, CrystallizeOpens DEF Promise!BargainNext
<1>3. CASE RecordOnly(env, via, idle)
  BY <1>3 DEF RecordOnly, Promise!bargainVars, Deals
<1>4. CASE Converse(env, via, idle)
  BY <1>4, ConverseCounters DEF Promise!BargainNext
<1>5. CASE Settle(env, via, idle)
  BY <1>1, <1>5, SettleCloses DEF Promise!BargainNext
<1>6. CASE Refuse(env, via, idle)
  <2>1. /\ IsOpen(ExchangeOf(env)) /\ UNCHANGED <<things, marks>>
        /\ Turned(ExchangeOf(env), "abandoned", exchanges[ExchangeOf(env)].pending)
    BY <1>6 DEF Refuse, Matches, Turned
  <2> QED
    BY <2>1, EndedIsAbandoned DEF Promise!BargainNext
<1> QED
  BY <1>2, <1>3, <1>4, <1>5, <1>6 DEF Emit

(***************************************************************************)
(* Outside the funnel only a body, marks or a capped exchange change what  *)
(* Bargain sees.                                                           *)
(***************************************************************************)
LEMMA EmbodyKeepsBargain ==
  ASSUME TypeOK, NEW c \in Cast, Embody(c), UNCHANGED <<marks, exchanges>>
  PROVE  [Promise!BargainNext]_(Promise!bargainVars)
<1>1. Deals' = Deals
  BY DEF Deals
<1>2. CASE UNCHANGED things
  BY <1>1, <1>2 DEF Promise!bargainVars
<1>3. CASE c.init # NoThing /\ Register(c.voice, c.init)
  <2>1. c.voice \in Names /\ c.voice \in DOMAIN things
    BY CastAssumption DEF TypeOK, WorldTypeOK
  <2>2. things'[c.voice] = c.init /\ things' = [things EXCEPT ![c.voice] = things'[c.voice]]
    BY <1>3, <2>1 DEF Register
  <2> QED
    BY <1>1, <1>3, <2>1, <2>2 DEF Promise!Incarnate, Promise!BargainNext
<1> QED
  BY <1>2, <1>3 DEF Embody

LEMMA CapKeepsBargain ==
  ASSUME TypeOK, NEW v, NEW e, Capped(e), NEW idle, CapWithdraw(v, e, idle)
  PROVE  [Promise!BargainNext]_(Promise!bargainVars)
<1>1. IsOpen(e) /\ UNCHANGED <<things, marks>>
      /\ Turned(e, "abandoned", exchanges[e].pending)
  BY DEF Capped, CapWithdraw, Turned
<1> QED
  BY <1>1, EndedIsAbandoned DEF Promise!BargainNext

LEMMA NextKeepsBargain ==
  ASSUME IInv, [Next]_vars
  PROVE  [Promise!BargainNext]_(Promise!bargainVars)
<1>1. CASE UNCHANGED <<things, marks, exchanges>>
  BY <1>1 DEF Promise!bargainVars, Deals
<1>2. ASSUME NEW c \in Cast, AddVoice(c) \/ ReclaimVoice(c)
      PROVE  [Promise!BargainNext]_(Promise!bargainVars)
  BY <1>2, EmbodyKeepsBargain DEF IInv, AddVoice, ReclaimVoice
<1>3. ASSUME NEW c \in Credits, CreditVoice(c)
      PROVE  [Promise!BargainNext]_(Promise!bargainVars)
  <2>1. /\ c.voice \in Names /\ c.n \in Nat /\ marks \in [Names -> Int]
        /\ marks' = [marks EXCEPT ![c.voice] = @ + c.n]
        /\ UNCHANGED <<things, exchanges>>
    BY <1>3, CreditsAssumption DEF IInv, TypeOK, WorldTypeOK, CreditVoice, Credit
  <2>2. /\ marks'[c.voice] = marks[c.voice] + c.n /\ marks[c.voice] \in Int
        /\ marks' = [marks EXCEPT ![c.voice] = marks'[c.voice]]
    BY <2>1
  <2>3. Deals' = Deals
    BY <2>1 DEF Deals
  <2>4. marks'[c.voice] >= marks[c.voice]
    BY <2>1, <2>2
  <2> QED
    BY <2>1, <2>2, <2>3, <2>4 DEF Promise!Endow, Promise!BargainNext
<1>4. ASSUME NEW env \in Envelope, NEW via, NEW idle, Emit(env, via, idle)
      PROVE  [Promise!BargainNext]_(Promise!bargainVars)
  BY <1>4, EmitKeepsBargain DEF IInv
<1>5. ASSUME NEW v \in DOMAIN PrincipalOf, PrincipalSays(v)
      PROVE  [Promise!BargainNext]_(Promise!bargainVars)
  BY <1>4, <1>5, SaysEnvelope DEF PrincipalSays
<1>6. ASSUME NEW i \in Injections, NEW e \in Nat, Inject(i, e)
      PROVE  [Promise!BargainNext]_(Promise!bargainVars)
  BY <1>4, <1>6, InjectEnvelope DEF Inject
<1>7. ASSUME NEW tm \in timers, Progress(tm)
      PROVE  [Promise!BargainNext]_(Promise!bargainVars)
  <2>1. CASE UNCHANGED <<things, marks, exchanges>>
    BY <1>1, <2>1
  <2>2. CASE Capped(tm.exc) /\ CapWithdraw(tm.voice, tm.exc, timers \ {tm})
    BY <2>2, CapKeepsBargain DEF IInv
  <2>3. ASSUME NEW a \in Acts, ThinkSpeaks(tm, a)
        PROVE  [Promise!BargainNext]_(Promise!bargainVars)
    BY <1>4, <2>3, ReplyEnvelope DEF ThinkSpeaks, IInv
  <2> QED
    BY <1>7, <2>1, <2>2, <2>3
       DEF Progress, Fire, ThinkBegin, ThinkFails, ThinkCapped, Drop
<1>8. ASSUME NEW e \in 0 .. Len(exchanges) + 1 PROVE e \in Nat
  BY <1>8 DEF IInv, TypeOK
<1> QED
  BY <1>1, <1>2, <1>3, <1>5, <1>6, <1>7, <1>8 DEF Next, vars

(***************************************************************************)
(* The orchestrator implements Bargain, whatever brains say and callers    *)
(* inject: deals close once, and the world changes exactly when one is     *)
(* settled by another participant, on the terms on the table.              *)
(***************************************************************************)
THEOREM AgreementsAreKept == Spec => KeepsBargain
<1>1. Init => Promise!BargainInit
  BY DEF Init, WorldInit, Promise!BargainInit, Deals
<1>2. IInv /\ [Next]_vars => [Promise!BargainNext]_(Promise!bargainVars)
  BY NextKeepsBargain
<1> QED
  BY <1>1, <1>2, InductiveInvariant, PTL DEF Spec, KeepsBargain, Promise!BargainSpec

-----------------------------------------------------------------------------
(***************************************************************************)
(* Law 6.  What a call of the funnel puts on the record: the envelope      *)
(* itself and perhaps one the funnel made; a settle only if it settles.    *)
(***************************************************************************)
LEMMA EmitPosts ==
  ASSUME NEW env, NEW via, NEW idle, Emit(env, via, idle), NEW p \in Recorded
  PROVE  /\ \/ p.via = "synth"
            \/ /\ p.from = env.from /\ p.kind = env.kind /\ p.terms = env.terms
               /\ p.via = via
         /\ p.kind = "settle" => env.kind = "settle" \/ Settle(env, via, idle)
<1>1. ASSUME NEW a, out' = <<a>> PROVE Recorded = {a}
  BY <1>1 DEF Recorded
<1>2. ASSUME NEW a, NEW b, out' = <<a, b>> PROVE Recorded = {a, b}
  BY <1>2 DEF Recorded
<1>3. ASSUME NEW e, out' = <<Posted(env, e, via)>>
      PROVE  /\ p.from = env.from /\ p.kind = env.kind /\ p.terms = env.terms
             /\ p.via = via
  BY <1>1, <1>3 DEF Posted
<1>4. ASSUME NEW e, NEW kind, NEW to, NEW terms,
             out' = <<Posted(env, e, via), Synthesized(env, e, kind, to, terms)>>
      PROVE  \/ p.via = "synth" /\ p.kind = kind
             \/ /\ p.from = env.from /\ p.kind = env.kind /\ p.terms = env.terms
                /\ p.via = via
  BY <1>2, <1>4 DEF Posted, Synthesized
<1>5. CASE Crystallize(env, via, idle) \/ RecordOnly(env, via, idle)
           \/ Converse(env, via, idle)
  BY <1>3, <1>5 DEF Crystallize, RecordOnly, Converse, Record
<1>6. CASE Settle(env, via, idle)
  BY <1>4, <1>6 DEF Settle, Record
<1>7. CASE Refuse(env, via, idle)
  BY <1>4, <1>7 DEF Refuse, Record
<1> QED
  BY <1>5, <1>6, <1>7 DEF Emit

(***************************************************************************)
(* A step in which the world speaks of a settle, or speaks and changes.    *)
(***************************************************************************)
RecordLaw ==
  /\ Spoke /\ (marks' # marks \/ things' # things) => Len(out') = 2
  /\ (\E p \in Recorded : p.kind = "settle") \/ (Spoke /\ (marks' # marks \/ things' # things))
       => LawfulSettle(out'[1], out'[2])

LEMMA SettleIsLawful ==
  ASSUME TypeOK, NEW env \in Envelope, NEW via, NEW idle, Settle(env, via, idle)
  PROVE  RecordLaw
<1> DEFINE e == ExchangeOf(env)
           x == exchanges[e]
           t == x.pending.terms
           owner == Owner(x.parts, env.from)
<1>1. /\ IsOpen(e) /\ x \in Exchange /\ t \in Terms
      /\ env.from \in SetOf(x.parts) \ {x.pending.from}
      /\ Applies(owner, t) /\ Apply(owner, t)
      /\ owner \in SetOf(x.parts) /\ owner \in Names
      /\ t.type = "trade" => {t.buyer, t.seller} \subseteq {x.pending.from, env.from}
      /\ out' = <<Posted(env, e, via),
                  Synthesized(env, e, "settle", Others(x.parts, env.from), t)>>
  BY SettleFacts
<1>2. env.kind = "accept"
  BY DEF Settle, Matches
<1> HIDE DEF e, owner
<1>3. /\ Len(out') = 2
      /\ out'[1].kind = "accept" /\ out'[2].kind = "settle" /\ out'[1].exc = out'[2].exc
      /\ out'[2].exc = e /\ out'[2].terms = t /\ out'[1].from = env.from
  BY <1>1, <1>2 DEF Posted, Synthesized
<1>4. CASE t.type = "trade"
  <2>1. /\ marks' = [[marks EXCEPT ![t.buyer] = @ - t.price] EXCEPT ![t.seller] = @ + t.price]
        /\ t.buyer \in Names /\ t.seller \in Names /\ marks \in [Names -> Int]
    BY <1>1, <1>4, TermsAssumption DEF Apply, ComfortTypes, TypeOK, WorldTypeOK
  <2> HIDE DEF t
  <2>2. /\ \A n \in Names : marks'[n] # marks[n] => n \in {t.buyer, t.seller}
        /\ t.buyer # t.seller => marks'[t.buyer] = marks[t.buyer] - t.price
    BY <2>1
  <2>3. \A n \in Names : marks'[n] # marks[n] => n \in {env.from, x.pending.from}
    BY <1>1, <1>4, <2>2
  <2>4. LawfulSettle(out'[1], out'[2])
    BY <1>1, <1>3, <1>4, <2>2, <2>3 DEF LawfulSettle, t
  <2> QED
    BY <1>3, <2>4 DEF RecordLaw
<1>5. CASE t.type # "trade"
  <2>1. /\ t.type \in ComfortTypes /\ things[owner] # NoThing
        /\ things' = [things EXCEPT ![owner][t.type] = t.value]
        /\ things \in [Names -> ThingState \cup {NoThing}]
    BY <1>1, <1>5 DEF Apply, Applies, TypeOK, WorldTypeOK
  <2> HIDE DEF t
  <2>2. things[owner] \in [ComfortTypes -> Values]
    BY <1>1, <2>1 DEF ThingState
  <2>3. things'[owner] = [things[owner] EXCEPT ![t.type] = t.value]
    BY <1>1, <2>1
  <2>4. things'[owner][t.type] = t.value
    BY <2>1, <2>2, <2>3
  <2>5. LawfulSettle(out'[1], out'[2])
    BY <1>1, <1>3, <1>5, <2>1, <2>4 DEF LawfulSettle, t
  <2> QED
    BY <1>3, <2>5 DEF RecordLaw
<1> QED
  BY <1>4, <1>5

LEMMA EmitIsLawful ==
  ASSUME TypeOK, NEW env \in Envelope, env.kind # "settle", NEW via, NEW idle,
         Emit(env, via, idle)
  PROVE  RecordLaw
<1>1. CASE Settle(env, via, idle)
  BY <1>1, SettleIsLawful
<1>2. CASE ~Settle(env, via, idle)
  <2>1. UNCHANGED <<things, marks>>
    BY <1>2 DEF Emit, Crystallize, RecordOnly, Converse, Refuse
  <2>2. \A p \in Recorded : p.kind # "settle"
    BY <1>2, EmitPosts
  <2> QED
    BY <2>1, <2>2 DEF RecordLaw
<1> QED
  BY <1>1, <1>2

LEMMA NextIsLawful ==
  ASSUME IInv, Next
  PROVE  RecordLaw
<1>1. ASSUME out' = <<>>, uttSeq' = uttSeq PROVE RecordLaw
  BY <1>1 DEF RecordLaw, Recorded, Spoke
<1>2. ASSUME NEW c \in Cast, AddVoice(c) \/ ReclaimVoice(c) PROVE RecordLaw
  BY <1>1, <1>2 DEF AddVoice, ReclaimVoice
<1>3. ASSUME NEW c \in Credits, CreditVoice(c) PROVE RecordLaw
  BY <1>1, <1>3 DEF CreditVoice
<1>4. ASSUME NEW v \in DOMAIN PrincipalOf, PrincipalSays(v) PROVE RecordLaw
  BY <1>4, SaysEnvelope, EmitIsLawful DEF PrincipalSays, IInv
<1>5. ASSUME NEW i \in Injections, NEW e \in Nat, Inject(i, e) PROVE RecordLaw
  BY <1>5, InjectEnvelope, EmitIsLawful DEF Inject, IInv
<1>6. ASSUME NEW v, NEW e, NEW idle, CapWithdraw(v, e, idle) PROVE RecordLaw
  <2>1. UNCHANGED <<things, marks>>
    BY <1>6 DEF CapWithdraw
  <2>2. PICK post : out' = <<post>> /\ post.kind = "withdraw"
    BY <1>6 DEF CapWithdraw, Record
  <2>3. Recorded = {post}
    BY <2>2 DEF Recorded
  <2> QED
    BY <2>1, <2>2, <2>3 DEF RecordLaw
<1>7. ASSUME NEW tm \in timers, Progress(tm) PROVE RecordLaw
  <2>1. ASSUME NEW a \in Acts, ThinkSpeaks(tm, a) PROVE RecordLaw
    <3>1. Reply(tm, a) \in Envelope /\ Reply(tm, a).kind # "settle"
      BY <2>1, ReplyEnvelope DEF ThinkSpeaks, Barred, IInv
    <3> QED
      BY <2>1, <3>1, EmitIsLawful DEF ThinkSpeaks, IInv
  <2> QED
    BY <1>1, <1>6, <1>7, <2>1
       DEF Progress, Fire, ThinkBegin, ThinkFails, ThinkCapped, Drop
<1>8. ASSUME NEW e \in 0 .. Len(exchanges) + 1 PROVE e \in Nat
  BY <1>8 DEF IInv, TypeOK
<1> QED
  BY <1>2, <1>3, <1>4, <1>5, <1>7, <1>8 DEF Next

(***************************************************************************)
(* Law 6: speech changes the world only in a step that puts a matching     *)
(* accept and its settle on the record, and every settle on the record did *)
(* change it as it says (inject, lifecycle, settleExchange).               *)
(***************************************************************************)
THEOREM OnlySettlesChangeTheWorld == Spec => WorldChangesOnRecord
<1>1. IInv /\ [Next]_vars => [RecordLaw]_vars
  BY NextIsLawful
<1> QED
  BY <1>1, InductiveInvariant, PTL DEF Spec, WorldChangesOnRecord, RecordLaw

-----------------------------------------------------------------------------
(***************************************************************************)
(* What stands on the record as a brain's words was said by a live think,  *)
(* through the gates.                                                      *)
(***************************************************************************)
LEMMA BrainSpoke ==
  ASSUME IInv, Next, NEW p \in Recorded, p.via = "think"
  PROVE  \E tm \in timers, a \in Acts :
           /\ ThinkSpeaks(tm, a)
           /\ p.from = tm.voice /\ p.kind = a.kind /\ p.terms = a.terms
<1>1. ASSUME out' = <<>> PROVE FALSE
  BY <1>1 DEF Recorded
<1>2. ASSUME NEW c, AddVoice(c) \/ ReclaimVoice(c) \/ CreditVoice(c) PROVE FALSE
  BY <1>1, <1>2 DEF AddVoice, ReclaimVoice, CreditVoice
<1>3. ASSUME NEW v, PrincipalSays(v) PROVE FALSE
  BY <1>3, EmitPosts DEF PrincipalSays
<1>4. ASSUME NEW i, NEW e, Inject(i, e) PROVE FALSE
  BY <1>4, EmitPosts DEF Inject
<1>5. ASSUME NEW v, NEW e, NEW idle, CapWithdraw(v, e, idle) PROVE FALSE
  <2>1. PICK post : out' = <<post>> /\ post.via = "cap"
    BY <1>5 DEF CapWithdraw, Record
  <2>2. Recorded = {post}
    BY <2>1 DEF Recorded
  <2> QED
    BY <2>1, <2>2
<1>6. PICK tm \in timers : Progress(tm)
  BY <1>2, <1>3, <1>4 DEF Next
<1>7. PICK a \in Acts : ThinkSpeaks(tm, a)
  BY <1>1, <1>5, <1>6 DEF Progress, Fire, ThinkBegin, ThinkFails, ThinkCapped, Drop
<1>8. /\ p.from = Reply(tm, a).from /\ p.kind = Reply(tm, a).kind
      /\ p.terms = Reply(tm, a).terms
  BY <1>7, EmitPosts DEF ThinkSpeaks
<1> QED
  BY <1>7, <1>8 DEF Reply

(***************************************************************************)
(* A proposal on the record is in the mandate its voice holds now, because *)
(* the gate judged it by the charter of a think that is not stale.         *)
(***************************************************************************)
THEOREM ProposalsAreMandated == Spec => MandateHoldsOnRecord
<1>1. ASSUME IInv, Next, NEW p \in Recorded, p.via = "think", p.kind = "propose"
      PROVE  p.terms.type \in Current(p.from).charter.mayPropose
  <2>1. PICK tm \in timers, a \in Acts :
           /\ ThinkSpeaks(tm, a)
           /\ p.from = tm.voice /\ p.kind = a.kind /\ p.terms = a.terms
    BY <1>1, BrainSpoke
  <2>2. a.terms.type \in OwnEntry(tm).charter.mayPropose
    BY <1>1, <2>1 DEF ThinkSpeaks, Barred, ProposeBarred, Reply
  <2>3. OwnEntry(tm) = Current(tm.voice)
    BY <1>1, <2>1, LiveIsCurrent DEF ThinkSpeaks, Live
  <2> QED
    BY <2>1, <2>2, <2>3
<1>2. IInv /\ [Next]_vars =>
        [\A p \in Recorded : p.via = "think" /\ p.kind = "propose"
           => p.terms.type \in Current(p.from).charter.mayPropose]_vars
  BY <1>1
<1> QED
  BY <1>2, InductiveInvariant, PTL DEF Spec, MandateHoldsOnRecord

-----------------------------------------------------------------------------
(***************************************************************************)
(* Routing stops armed timers only.                                        *)
(***************************************************************************)
LEMMA EmitSparesThinking ==
  ASSUME NEW env, NEW via, NEW idle, Emit(env, via, idle),
         NEW tm \in idle, tm.phase = "thinking"
  PROVE  tm \in timers'
<1>1. ASSUME NEW posts, Record(posts, idle) PROVE tm \in timers'
  BY <1>1 DEF Record, Scheduled, Cancelled
<1> QED
  BY <1>1 DEF Emit, Crystallize, RecordOnly, Converse, Settle, Refuse

(***************************************************************************)
(* A think that ends with words was still wanted: its exchange was neither *)
(* abandoned nor at the turn cap while it thought (the second exchangeGate *)
(* and the generation check after Think).                                  *)
(***************************************************************************)
THEOREM RepliesAreTimely == Spec => NoLateReply
<1>1. ASSUME IInv, Next, NEW p \in Recorded, NEW tm \in timers \ timers',
             p.via = "think", tm.voice = p.from, tm.phase = "thinking"
      PROVE  ~Abandoned(tm.exc) /\ ~Capped(tm.exc) /\ Live(tm)
  <2>1. PICK u \in timers, a \in Acts : ThinkSpeaks(u, a)
    BY <1>1, BrainSpoke
  <2>2. tm = u
    BY <1>1, <2>1, EmitSparesThinking DEF ThinkSpeaks
  <2> QED
    BY <2>1, <2>2 DEF ThinkSpeaks, Live
<1>2. IInv /\ [Next]_vars =>
        [\A p \in Recorded, tm \in timers \ timers' :
           p.via = "think" /\ tm.voice = p.from /\ tm.phase = "thinking"
             => ~Abandoned(tm.exc) /\ ~Capped(tm.exc) /\ Live(tm)]_vars
  BY <1>1
<1> QED
  BY <1>2, InductiveInvariant, PTL DEF Spec, NoLateReply

-----------------------------------------------------------------------------
(***************************************************************************)
(* Law 4.  A settle looks at the charter of the accepter only; that the    *)
(* buyer's own offer was allowed must be remembered from when it was made. *)
(* Every trade a brain has on the table as its own buyer was within the    *)
(* limit of a charter its voice has held.                                  *)
(***************************************************************************)
Allowed(offer, E) ==
  LET t == offer.terms
  IN  /\ offer.via = "think"
      /\ t # NoTerms /\ t.type = "trade" /\ SpendReads(t) /\ t.buyer = offer.from
      => \E i \in DOMAIN E[t.buyer] : t.price <= E[t.buyer][i].charter.limit

OffersAllowed == \A e \in DOMAIN exchanges : Allowed(exchanges[e].pending, entries)

LawInv == IInv /\ OffersAllowed

(***************************************************************************)
(* The charters a voice has held stay on file: triggers bump generations   *)
(* only, a re-claim adds one more.                                         *)
(***************************************************************************)
Filed(E, F) ==
  \A v \in Names : \A i \in DOMAIN E[v] :
    i \in DOMAIN F[v] /\ F[v][i].charter = E[v][i].charter

LEMMA BumpedFiled ==
  ASSUME NEW E \in [Names -> Seq(Entry)], NEW hits \in SUBSET Names,
         \A v \in hits : E[v] # <<>>
  PROVE  Filed(E, Bumped(E, hits)) /\ Bumped(E, hits) \in [Names -> Seq(Entry)]
<1> DEFINE B == Bumped(E, hits)
<1>1. /\ B \in [Names -> Seq(Entry)]
      /\ \A v \in Names :
           /\ Len(B[v]) = Len(E[v])
           /\ \A i \in 1 .. Len(E[v]) :
                B[v][i] = IF v \in hits /\ i = Len(E[v]) THEN Newer(E[v][i]) ELSE E[v][i]
  BY BumpedFacts
<1> HIDE DEF B
<1>2. ASSUME NEW v \in Names, NEW i \in DOMAIN E[v]
      PROVE  i \in DOMAIN B[v] /\ B[v][i].charter = E[v][i].charter
  <2>1. E[v] \in Seq(Entry) /\ B[v] \in Seq(Entry) /\ i \in 1 .. Len(E[v])
    BY <1>1
  <2>2. E[v][i] \in Entry
    BY <2>1
  <2>3. Newer(E[v][i]).charter = E[v][i].charter
    BY <2>2 DEF Newer, Entry
  <2> QED
    BY <1>1, <2>1, <2>3
<1>3. Filed(E, B)
  BY <1>2 DEF Filed
<1> QED
  BY <1>1, <1>3 DEF B

LEMMA RecordFiled ==
  ASSUME IInv, NEW posts, NEW idle, Record(posts, idle)
  PROVE  Filed(entries, entries')
<1>1. entries \in [Names -> Seq(Entry)]
  BY DEF IInv, TypeOK
<1>2. PICK first \in SUBSET (IF Len(posts) = 2 THEN Relevant(posts[2]) ELSE {}),
           last \in SUBSET Relevant(posts[1]) :
        entries' = Bumped(Bumped(entries, first), last)
  BY DEF Record
<1>3. \A post : \A v \in Relevant(post) : v \in Names /\ entries[v] # <<>>
  BY DEF Relevant, Audience, Registered
<1>4. /\ first \in SUBSET Names /\ last \in SUBSET Names
      /\ \A v \in first \cup last : entries[v] # <<>>
  BY <1>2, <1>3
<1> DEFINE E == Bumped(entries, first)
<1>5. Filed(entries, E) /\ E \in [Names -> Seq(Entry)]
  BY <1>1, <1>4, BumpedFiled
<1>6. \A v \in Names : Len(E[v]) = Len(entries[v])
  BY <1>1, <1>4, BumpedFacts
<1> HIDE DEF E
<1>7. \A v \in last : E[v] # <<>>
  BY <1>1, <1>4, <1>5, <1>6
<1>8. Filed(E, Bumped(E, last))
  BY <1>4, <1>5, <1>7, BumpedFiled
<1> QED
  BY <1>2, <1>5, <1>8 DEF Filed, E

LEMMA EmitFiled ==
  ASSUME IInv, NEW env, NEW via, NEW idle, Emit(env, via, idle)
  PROVE  Filed(entries, entries')
BY RecordFiled DEF Emit, Crystallize, RecordOnly, Converse, Settle, Refuse

LEMMA AllowedStays ==
  ASSUME IInv, NEW e \in DOMAIN exchanges, Allowed(exchanges[e].pending, entries),
         Filed(entries, entries')
  PROVE  Allowed(exchanges[e].pending, entries')
<1> DEFINE offer == exchanges[e].pending
           t == offer.terms
<1>1. offer \in Offer
  <2>1. exchanges[e] \in Exchange
    BY DEF IInv, TypeOK
  <2> QED
    BY <2>1 DEF Exchange
<1> HIDE DEF offer
<1>2. SUFFICES ASSUME offer.via = "think", t # NoTerms, t.type = "trade", SpendReads(t),
                      t.buyer = offer.from
               PROVE  \E i \in DOMAIN entries'[t.buyer] :
                        t.price <= entries'[t.buyer][i].charter.limit
  BY DEF Allowed, offer
<1>3. t.buyer \in Names
  BY <1>1, <1>2 DEF Offer
<1>4. PICK i \in DOMAIN entries[t.buyer] : t.price <= entries[t.buyer][i].charter.limit
  BY <1>2 DEF Allowed, offer
<1>5. i \in DOMAIN entries'[t.buyer]
      /\ entries'[t.buyer][i].charter = entries[t.buyer][i].charter
  BY <1>3, <1>4 DEF Filed
<1> QED
  BY <1>4, <1>5

(***************************************************************************)
(* The funnel puts nothing else on the table than what it was handed.      *)
(***************************************************************************)
LEMMA EmitOffers ==
  ASSUME IInv, NEW env \in Envelope, NEW via, NEW idle, Emit(env, via, idle),
         NEW e \in DOMAIN exchanges'
  PROVE  \/ e \in DOMAIN exchanges /\ exchanges'[e].pending = exchanges[e].pending
         \/ /\ env.kind = "propose"
            /\ exchanges'[e].pending = [from |-> env.from, terms |-> env.terms, via |-> via]
<1>1. exchanges \in Seq(Exchange)
  BY DEF IInv, TypeOK
<1>2. ASSUME NEW d, NEW status, NEW pending, IsOpen(d),
             exchanges' = [exchanges EXCEPT ![d] = Turn(exchanges[d], status, pending)]
      PROVE  /\ e \in DOMAIN exchanges
             /\ exchanges'[e].pending =
                  IF e = d THEN pending ELSE exchanges[e].pending
  BY <1>1, <1>2 DEF IsOpen, Turn
<1>3. CASE Crystallize(env, via, idle)
  <2> DEFINE new == [status |-> "open", parts |-> <<env.from>> \o env.to, turns |-> 1,
                     pending |-> [from |-> env.from, terms |-> env.terms, via |-> via]]
  <2>1. exchanges' = Append(exchanges, new) /\ env.kind = "propose"
    BY <1>3 DEF Crystallize
  <2>2. new.pending = [from |-> env.from, terms |-> env.terms, via |-> via]
    OBVIOUS
  <2> HIDE DEF new
  <2>3. exchanges'[e] = new \/ (e \in DOMAIN exchanges /\ exchanges'[e] = exchanges[e])
    BY <1>1, <2>1
  <2> QED
    BY <2>1, <2>2, <2>3
<1>4. CASE RecordOnly(env, via, idle)
  BY <1>4 DEF RecordOnly
<1>5. CASE Converse(env, via, idle)
  BY <1>2, <1>5 DEF Converse
<1>6. CASE Settle(env, via, idle)
  BY <1>2, <1>6 DEF Settle, Matches
<1>7. CASE Refuse(env, via, idle)
  BY <1>2, <1>7 DEF Refuse, Matches
<1> QED
  BY <1>3, <1>4, <1>5, <1>6, <1>7 DEF Emit

LEMMA EmitKeepsAllowed ==
  ASSUME LawInv, NEW env \in Envelope, NEW via, NEW idle, Emit(env, via, idle),
         env.kind = "propose" =>
           Allowed([from |-> env.from, terms |-> env.terms, via |-> via], entries')
  PROVE  OffersAllowed'
<1>1. Filed(entries, entries')
  BY EmitFiled DEF LawInv
<1>2. ASSUME NEW e \in DOMAIN exchanges' PROVE Allowed(exchanges'[e].pending, entries')
  BY <1>1, <1>2, EmitOffers, AllowedStays DEF LawInv, OffersAllowed
<1> QED
  BY <1>2 DEF OffersAllowed

(***************************************************************************)
(* A brain's proposal passed the spend gate under its own charter, which   *)
(* is on file.                                                             *)
(***************************************************************************)
LEMMA ReplyAllowed ==
  ASSUME IInv, NEW tm \in timers, NEW a \in Acts, ThinkSpeaks(tm, a), a.kind = "propose"
  PROVE  Allowed([from |-> tm.voice, terms |-> a.terms, via |-> "think"], entries')
<1> DEFINE t == a.terms
<1>1. SUFFICES ASSUME t # NoTerms, t.type = "trade", SpendReads(t), t.buyer = tm.voice
               PROVE  \E i \in DOMAIN entries'[t.buyer] :
                        t.price <= entries'[t.buyer][i].charter.limit
  BY DEF Allowed
<1>2. /\ tm.voice \in Names /\ entries[tm.voice] \in Seq(Entry)
      /\ tm.inc \in DOMAIN entries[tm.voice]
  BY DEF IInv, TypeOK, Timer, ThinksOK, Owned
<1>3. OwnEntry(tm).charter.limit \in Int
  <2>1. OwnEntry(tm) \in Entry
    BY <1>2 DEF OwnEntry
  <2> QED
    BY <2>1 DEF Entry, Charter
<1>4. t.price \in Int
  <2>1. t \in Terms
    BY <1>1, SpeechAssumption
  <2> QED
    BY <1>1, <2>1, TermsAssumption
<1>5. ~(t.price > OwnEntry(tm).charter.limit)
  BY <1>1 DEF ThinkSpeaks, Barred, ProposeBarred, Reply, Overspends
<1>6. t.price <= OwnEntry(tm).charter.limit
  BY <1>3, <1>4, <1>5
<1>7. Filed(entries, entries')
  BY EmitFiled DEF ThinkSpeaks
<1>8. tm.inc \in DOMAIN entries'[tm.voice]
      /\ entries'[tm.voice][tm.inc].charter = OwnEntry(tm).charter
  BY <1>2, <1>7 DEF Filed, OwnEntry
<1> QED
  BY <1>1, <1>6, <1>8

LEMMA NextKeepsAllowed ==
  ASSUME LawInv, [Next]_vars
  PROVE  OffersAllowed'
<1>0. /\ IInv /\ entries \in [Names -> Seq(Entry)]
      /\ \A e \in DOMAIN exchanges : Allowed(exchanges[e].pending, entries)
  BY DEF LawInv, OffersAllowed, IInv, TypeOK
<1>1. ASSUME Filed(entries, entries'), UNCHANGED exchanges PROVE OffersAllowed'
  BY <1>0, <1>1, AllowedStays DEF OffersAllowed
<1>2. ASSUME entries' = entries PROVE Filed(entries, entries')
  BY <1>2 DEF Filed
<1>3. ASSUME NEW c \in Cast, AddVoice(c) PROVE OffersAllowed'
  <2>1. Filed(entries, entries')
    BY <1>0, <1>3, CastAssumption DEF AddVoice, Registered, Filed
  <2> QED
    BY <1>1, <1>3, <2>1 DEF AddVoice
<1>4. ASSUME NEW c \in Cast, ReclaimVoice(c) PROVE OffersAllowed'
  <2> DEFINE v == c.voice
             B == Bumped(entries, {v})
             new == [charter |-> c.charter, gen |-> 0]
  <2>1. v \in Names /\ entries[v] # <<>>
    BY <1>4, CastAssumption DEF ReclaimVoice, Registered
  <2>2. Filed(entries, B) /\ B \in [Names -> Seq(Entry)]
    BY <1>0, <2>1, BumpedFiled
  <2>3. entries' = [entries EXCEPT ![v] = Append(B[v], new)] /\ UNCHANGED exchanges
    BY <1>4 DEF ReclaimVoice
  <2> HIDE DEF B, new, v
  <2>4. B[v] \in Seq(Entry)
    BY <2>1, <2>2
  <2>5. \A i \in DOMAIN B[v] :
          i \in DOMAIN Append(B[v], new) /\ Append(B[v], new)[i] = B[v][i]
    BY <2>4
  <2>6. \A w \in Names : entries'[w] = IF w = v THEN Append(B[v], new) ELSE entries[w]
    BY <1>0, <2>1, <2>3
  <2>7. Filed(entries, entries')
    <3> SUFFICES ASSUME NEW w \in Names, NEW i \in DOMAIN entries[w]
                 PROVE  i \in DOMAIN entries'[w] /\ entries'[w][i].charter = entries[w][i].charter
      BY DEF Filed
    <3>1. i \in DOMAIN B[w] /\ B[w][i].charter = entries[w][i].charter
      BY <2>2 DEF Filed
    <3>2. CASE w = v
      BY <2>1, <2>5, <2>6, <3>1, <3>2
    <3>3. CASE w # v
      BY <2>6, <3>3
    <3> QED
      BY <3>2, <3>3
  <2> QED
    BY <1>1, <2>3, <2>7
<1>5. ASSUME NEW c, CreditVoice(c) PROVE OffersAllowed'
  BY <1>1, <1>2, <1>5 DEF CreditVoice
<1>6. ASSUME NEW v \in DOMAIN PrincipalOf, PrincipalSays(v) PROVE OffersAllowed'
  BY <1>6, SaysEnvelope, EmitKeepsAllowed DEF PrincipalSays
<1>7. ASSUME NEW i \in Injections, NEW e \in Nat, Inject(i, e) PROVE OffersAllowed'
  <2>1. Allowed([from |-> i.from, terms |-> i.terms, via |-> "inject"], entries')
    BY DEF Allowed
  <2> QED
    BY <1>7, <2>1, InjectEnvelope, EmitKeepsAllowed DEF Inject
<1>8. ASSUME NEW v, NEW e, NEW idle, Capped(e), CapWithdraw(v, e, idle)
      PROVE  OffersAllowed'
  <2>1. Filed(entries, entries')
    BY <1>0, <1>8, RecordFiled DEF CapWithdraw
  <2>2. exchanges' = [exchanges EXCEPT ![e] =
          Turn(exchanges[e], "abandoned", exchanges[e].pending)]
    BY <1>8 DEF CapWithdraw
  <2>3. DOMAIN exchanges' = DOMAIN exchanges
        /\ \A d \in DOMAIN exchanges : exchanges'[d].pending = exchanges[d].pending
    BY <2>2 DEF Turn
  <2> QED
    BY <1>0, <2>1, <2>3, AllowedStays DEF OffersAllowed
<1>9. ASSUME NEW tm \in timers, Progress(tm) PROVE OffersAllowed'
  <2>1. CASE UNCHANGED <<entries, exchanges>>
    BY <1>1, <1>2, <2>1
  <2>2. ASSUME NEW a \in Acts, ThinkSpeaks(tm, a) PROVE OffersAllowed'
    <3>1. /\ Reply(tm, a) \in Envelope /\ Reply(tm, a).kind = a.kind
          /\ Reply(tm, a).from = tm.voice /\ Reply(tm, a).terms = a.terms
      BY <1>0, ReplyEnvelope DEF IInv, Reply
    <3>2. a.kind = "propose" =>
            Allowed([from |-> tm.voice, terms |-> a.terms, via |-> "think"], entries')
      BY <1>0, <2>2, ReplyAllowed
    <3>3. Emit(Reply(tm, a), "think", timers \ {tm})
      BY <2>2 DEF ThinkSpeaks
    <3> QED
      BY <3>1, <3>2, <3>3, EmitKeepsAllowed
  <2> QED
    BY <1>8, <1>9, <2>1, <2>2
       DEF Progress, Fire, ThinkBegin, ThinkFails, ThinkCapped, Drop
<1>10. CASE UNCHANGED vars
  BY <1>1, <1>2, <1>10 DEF vars
<1>11. ASSUME NEW e \in 0 .. Len(exchanges) + 1 PROVE e \in Nat
  BY <1>0, <1>11 DEF IInv, TypeOK
<1> QED
  BY <1>3, <1>4, <1>5, <1>6, <1>7, <1>9, <1>10, <1>11 DEF Next

LEMMA OffersStayAllowed == Spec => []LawInv
<1>1. Init => LawInv
  BY InitOK DEF Init, LawInv, OffersAllowed
<1>2. LawInv /\ [Next]_vars => LawInv'
  BY NextOK, NextKeepsAllowed DEF LawInv
<1> QED
  BY <1>1, <1>2, PTL DEF Spec

-----------------------------------------------------------------------------
(***************************************************************************)
(* A brain's accept settles a trade only under a charter that lets it, the *)
(* one its voice holds, and within its limit if it buys: the gate asked    *)
(* about the very exchange the funnel settles.                             *)
(***************************************************************************)
LEMMA AcceptAllowed ==
  ASSUME IInv, NEW tm \in timers, NEW a \in Acts, ThinkSpeaks(tm, a),
         Settle(Reply(tm, a), "think", timers \ {tm}),
         exchanges[ExchangeOf(Reply(tm, a))].pending.terms.type = "trade"
  PROVE  LET t == exchanges[ExchangeOf(Reply(tm, a))].pending.terms
         IN  /\ Current(tm.voice).charter.solo
             /\ t.buyer = tm.voice => t.price <= Current(tm.voice).charter.limit
<1> DEFINE env == Reply(tm, a)
           e == ExchangeOf(env)
           t == exchanges[e].pending.terms
           charter == OwnEntry(tm).charter
<1>1. env.kind = "accept" /\ Matches(env, e) /\ env.from = tm.voice /\ env \in Envelope
  BY ReplyEnvelope DEF Settle, Matches, Reply, IInv
<1>2. SettleTarget(env) = e
  BY <1>1, GateAgrees
<1>3. e # NoExc
  <2>1. e \in DOMAIN exchanges
    BY <1>1 DEF Matches, IsOpen
  <2> QED
    BY <2>1 DEF IInv, TypeOK, NoExc
<1>4. charter.solo /\ ~Overspends(tm.voice, charter, t)
  <2>1. ~AcceptBarred(env, charter)
    BY <1>1 DEF ThinkSpeaks, Barred
  <2> QED
    BY <1>1, <1>2, <1>3, <2>1 DEF AcceptBarred
<1>5. OwnEntry(tm) = Current(tm.voice)
  BY LiveIsCurrent DEF ThinkSpeaks, Live
<1>6. t \in Terms /\ ApplyReads(t)
  BY <1>1, SettleFacts DEF IInv, Applies
<1>7. t.price \in Int
  BY <1>6, TermsAssumption
<1>8. charter.limit \in Int
  <2>1. OwnEntry(tm) \in Entry
    <3>1. /\ entries[tm.voice] \in Seq(Entry) /\ tm.inc \in DOMAIN entries[tm.voice]
      BY DEF IInv, TypeOK, Timer, ThinksOK, Owned
    <3> QED
      BY <3>1 DEF OwnEntry
  <2> QED
    BY <2>1 DEF Entry, Charter
<1>9. t.buyer = tm.voice => t.price <= charter.limit
  BY <1>4, <1>6, <1>7, <1>8 DEF Overspends, SpendReads, ApplyReads
<1> QED
  BY <1>4, <1>5, <1>9

TradeLaw ==
  \A p \in Recorded :
    p.kind = "settle" /\ p.terms.type = "trade"
      => AuthorisedTrade(out'[1], exchanges[p.exc])

LEMMA SettleIsAuthorised ==
  ASSUME LawInv, NEW env \in Envelope, NEW via, NEW idle, Settle(env, via, idle),
         LET t == exchanges[ExchangeOf(env)].pending.terms
         IN  via = "think" /\ t.type = "trade" =>
               /\ Current(env.from).charter.solo
               /\ t.buyer = env.from => t.price <= Current(env.from).charter.limit
                                        /\ entries[env.from] # <<>>
  PROVE  TradeLaw
<1> DEFINE e == ExchangeOf(env)
           x == exchanges[e]
           t == x.pending.terms
           owner == Owner(x.parts, env.from)
           accept == Posted(env, e, via)
           settle == Synthesized(env, e, "settle", Others(x.parts, env.from), t)
<1>1. /\ IsOpen(e) /\ x \in Exchange /\ t \in Terms /\ Applies(owner, t)
      /\ t.type = "trade" => {t.buyer, t.seller} \subseteq {x.pending.from, env.from}
      /\ out' = <<accept, settle>> /\ env.kind = "accept" /\ t # NoTerms
      /\ env.from \in SetOf(x.parts) \ {x.pending.from}
  BY SettleFacts, TermsAssumption DEF LawInv, IInv, Settle, Matches
<1>2. /\ accept.kind = "accept" /\ accept.from = env.from /\ accept.via = via
      /\ settle.exc = e /\ settle.terms = t
  BY <1>1 DEF Posted, Synthesized
<1>3. \A p \in Recorded : p.kind = "settle" => p = settle
  BY <1>1, <1>2 DEF Recorded
<1>4. out'[1] = accept
  BY <1>1
<1> HIDE DEF accept, settle, owner
<1>5. ASSUME t.type = "trade" PROVE AuthorisedTrade(accept, x)
  <2>1. CASE t.buyer = env.from
    <3>1. ASSUME via = "think"
          PROVE  \E i \in DOMAIN entries[t.buyer] :
                   /\ t.price <= entries[t.buyer][i].charter.limit
                   /\ i = Len(entries[t.buyer])
      <4>1. /\ entries[env.from] # <<>>
            /\ t.price <= Current(env.from).charter.limit
        BY <1>5, <2>1, <3>1
      <4>2. env.from \in Names /\ entries[env.from] \in Seq(Entry)
        BY DEF Envelope, LawInv, IInv, TypeOK
      <4>3. Len(entries[env.from]) \in DOMAIN entries[env.from]
        BY <4>1, <4>2
      <4> QED
        BY <2>1, <4>1, <4>3 DEF Current
    <3> QED
      BY <1>2, <1>5, <2>1, <3>1 DEF AuthorisedTrade
  <2>2. CASE t.buyer # env.from
    <3>1. t.buyer = x.pending.from
      BY <1>1, <1>5, <2>2
    <3>2. SpendReads(t)
      BY <1>1 DEF Applies, ApplyReads, SpendReads
    <3>3. Allowed(x.pending, entries)
      BY <1>1 DEF LawInv, OffersAllowed, IsOpen
    <3>4. x.pending.via = "think" =>
            \E i \in DOMAIN entries[t.buyer] : t.price <= entries[t.buyer][i].charter.limit
      BY <1>1, <1>5, <3>1, <3>2, <3>3 DEF Allowed
    <3> QED
      BY <1>2, <1>5, <2>2, <3>4 DEF AuthorisedTrade
  <2> QED
    BY <2>1, <2>2
<1> QED
  BY <1>2, <1>3, <1>4, <1>5 DEF TradeLaw

LEMMA NextIsAuthorised ==
  ASSUME LawInv, Next
  PROVE  TradeLaw
<1>0. IInv
  BY DEF LawInv
<1>1. ASSUME \A p \in Recorded : p.kind # "settle" PROVE TradeLaw
  BY <1>1 DEF TradeLaw
<1>2. ASSUME out' = <<>> PROVE TradeLaw
  BY <1>1, <1>2 DEF Recorded
<1>3. ASSUME NEW env \in Envelope, env.kind # "settle", NEW via, via # "think", NEW idle,
             Emit(env, via, idle)
      PROVE  TradeLaw
  BY <1>1, <1>3, EmitPosts, SettleIsAuthorised
<1>4. ASSUME NEW v \in DOMAIN PrincipalOf, PrincipalSays(v) PROVE TradeLaw
  BY <1>3, <1>4, SaysEnvelope DEF PrincipalSays
<1>5. ASSUME NEW i \in Injections, NEW e \in Nat, Inject(i, e) PROVE TradeLaw
  BY <1>3, <1>5, InjectEnvelope DEF Inject
<1>6. ASSUME NEW v, NEW e, NEW idle, CapWithdraw(v, e, idle) PROVE TradeLaw
  <2>1. PICK post : out' = <<post>> /\ post.kind = "withdraw"
    BY <1>6 DEF CapWithdraw, Record
  <2>2. Recorded = {post}
    BY <2>1 DEF Recorded
  <2> QED
    BY <1>1, <2>1, <2>2
<1>7. ASSUME NEW tm \in timers, NEW a \in Acts, ThinkSpeaks(tm, a) PROVE TradeLaw
  <2>1. /\ Reply(tm, a) \in Envelope /\ Reply(tm, a).from = tm.voice
        /\ Reply(tm, a).kind # "settle"
        /\ Emit(Reply(tm, a), "think", timers \ {tm})
    BY <1>0, <1>7, ReplyEnvelope DEF IInv, Reply, ThinkSpeaks, Barred
  <2>2. CASE Settle(Reply(tm, a), "think", timers \ {tm})
    <3>1. entries[tm.voice] # <<>>
      BY <1>0 DEF IInv, TypeOK, Timer, ThinksOK, Owned
    <3> QED
      BY <1>0, <1>7, <2>1, <2>2, <3>1, AcceptAllowed, SettleIsAuthorised
  <2>3. CASE ~Settle(Reply(tm, a), "think", timers \ {tm})
    BY <1>1, <2>1, <2>3, EmitPosts
  <2> QED
    BY <2>2, <2>3
<1>8. ASSUME NEW e \in 0 .. Len(exchanges) + 1 PROVE e \in Nat
  BY <1>0, <1>8 DEF IInv, TypeOK
<1> QED
  BY <1>2, <1>4, <1>5, <1>6, <1>7, <1>8
     DEF Next, AddVoice, ReclaimVoice, CreditVoice, Progress, Fire, ThinkBegin,
         ThinkFails, ThinkCapped, Drop

(***************************************************************************)
(* Law 4 for marks: whenever a trade settles, the buyer's brain, if it was *)
(* its brain that spoke, spoke within a limit its voice was given, and no  *)
(* brain settles a trade whose charter wants the principal asked (the      *)
(* consent and spend gates), however claims, offers and thinks interleave. *)
(***************************************************************************)
THEOREM MarksMoveWithAuthority == Spec => TradesAreAuthorised
<1>1. LawInv /\ [Next]_vars => [TradeLaw]_vars
  BY NextIsAuthorised
<1> QED
  BY <1>1, OffersStayAllowed, PTL DEF Spec, TradesAreAuthorised, TradeLaw
=============================================================================
