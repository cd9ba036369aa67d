---------------------------- MODULE Orchestrator ----------------------------
(***************************************************************************)
(* One scope's orchestrator (fabric/internal/orchestrator): every envelope *)
(* goes through one funnel, which keeps the exchanges, settles matching    *)
(* accepts on the world and schedules the voices' thinks.                  *)
(*                                                                         *)
(* The mutex makes each public call, each timer callback up to the brain   *)
(* call and each continuation after it one atomic step; these are the      *)
(* actions below.  Brains run off the lock, so anything may happen between *)
(* ThinkBegin and the reply.  Brains are external: Relevant answers what   *)
(* it likes and Think returns any action of Acts, silence or an error.     *)
(*                                                                         *)
(* A few operators stand before the one they vary and are used nowhere:    *)
(* each is that definition with one bug of the kind the code guards        *)
(* against, and the properties are checked to notice it (see README).      *)
(***************************************************************************)
EXTENDS World

CONSTANTS
  Cast,          \* the AddVoice calls that can be made: [voice, charter, init]
  Credits,       \* [voice, n]: the Credit calls that can be made
  PrincipalOf,   \* the pseudo-voice PrincipalSays speaks with, per voice
  Injections,    \* what outside callers inject: envelopes less exc
  Listeners,     \* the voices whose brain may find a trigger relevant
  Acts,          \* what a brain can say: [to, kind, terms]
  TurnCap,       \* Config.TurnCap
  MaxUtt,        \* bound: no new outside envelope or reply beyond this many
  MaxInc,        \* bound: AddVoice calls per voice
  MaxMarks       \* bound: Credit never raises a balance beyond this

ASSUME CastAssumption ==
  \A c \in Cast : /\ c.voice \in Names
                  /\ c.charter \in Charter
                  /\ c.init \in ThingState \cup {NoThing}

ASSUME CreditsAssumption == \A c \in Credits : c.voice \in Names /\ c.n \in Nat

ASSUME PrincipalAssumption ==
  \A v \in DOMAIN PrincipalOf : v \in Names /\ PrincipalOf[v] \in Names

ASSUME SpeechAssumption ==
  /\ Listeners \subseteq Names
  /\ \A i \in Injections : /\ i.from \in Names
                           /\ i.to \in Seq(Names)
                           /\ i.kind \in Kinds
                           /\ i.terms \in Terms \cup {NoTerms}
  /\ \A a \in Acts : /\ a.to \in Seq(Names)
                     /\ a.kind \in Kinds
                     /\ a.terms \in Terms \cup {NoTerms}

ASSUME BoundsAssumption ==
  TurnCap \in Nat \ {0} /\ MaxUtt \in Nat /\ MaxInc \in Nat /\ MaxMarks \in Nat

VARIABLES
  entries,     \* per name, its successive voiceEntry records; the last is the
               \* one in Orchestrator.voices, the others live in closures only
  exchanges,   \* Orchestrator.exchanges; the id is the position
  excOrder,    \* the ids still in Orchestrator.excOrder.  Ids are appended in
               \* increasing order, so a set ordered by < stands for the list
  timers,      \* the scheduled thinks, each a closure over (entry, gen, trigger)
  uttSeq,      \* Orchestrator.uttSeq
  out          \* what the last step handed to Config.Append, in order

vars == <<things, marks, entries, exchanges, excOrder, timers, uttSeq, out>>

Entry == [charter : Charter, gen : Nat]

Offer == [from : Names, terms : Terms \cup {NoTerms}, via : Vias]

(***************************************************************************)
(* An exchange; closed and outcome are one status.  participants is the    *)
(* From-then-To list; the code drops repeated names, which neither         *)
(* membership nor the first thing in the list can tell.  Of the pending    *)
(* propose, only its sender and terms are ever read.                       *)
(***************************************************************************)
Exchange == [status : {"open", "settled", "abandoned"},
             parts : Seq(Names),
             turns : Nat,
             pending : Offer]

(***************************************************************************)
(* A think, from Schedule to its end.  "armed": the timer can still be     *)
(* stopped.  "fired": its callback waits for the mutex and Stop comes too  *)
(* late.  "thinking": the brain runs, off the lock.  Of the trigger only   *)
(* its exchange matters to the orchestrator.                               *)
(***************************************************************************)
Timer == [voice : Names, inc : Nat, gen : Nat, exc : Nat,
          phase : {"armed", "fired", "thinking"}]

TypeOK ==
  /\ WorldTypeOK
  /\ entries \in [Names -> Seq(Entry)]
  /\ exchanges \in Seq(Exchange)
  /\ excOrder \subseteq DOMAIN exchanges
  /\ timers \subseteq Timer
  /\ uttSeq \in Nat
  /\ out \in Seq(Post)

Init ==
  /\ WorldInit
  /\ entries = [n \in Names |-> <<>>]
  /\ exchanges = <<>>
  /\ excOrder = {}
  /\ timers = {}
  /\ uttSeq = 0
  /\ out = <<>>

(***************************************************************************)
(* Reading the state.                                                      *)
(***************************************************************************)
Registered(v) == entries[v] # <<>>

Current(v) == entries[v][Len(entries[v])]

IsThing(v) == Registered(v) /\ Current(v).charter.kind = "thing"

IsOpen(e) == e \in DOMAIN exchanges /\ exchanges[e].status = "open"

Least(S) == CHOOSE x \in S : \A y \in S : x <= y

Others(parts, except) == SetOf(parts) \ {except}

Meets(to, parts) == SetOf(to) \cap SetOf(parts) # {}

(***************************************************************************)
(* Scheduling.  A relevant trigger cancels the voice's armed timer, if     *)
(* any, and opens a new generation; hits is the set of voices whose brain  *)
(* finds the trigger relevant.                                             *)
(***************************************************************************)
Bumped(E, hits) ==
  [v \in Names |-> IF v \in hits THEN [E[v] EXCEPT ![Len(E[v])].gen = @ + 1]
                   ELSE E[v]]

Cancelled(T, hits) == {tm \in T : tm.voice \in hits /\ tm.phase = "armed"}

Scheduled(T, E, hits, exc) ==
  (T \ Cancelled(T, hits))
    \cup {[voice |-> v, inc |-> Len(E[v]), gen |-> E[v][Len(E[v])].gen + 1,
           exc |-> exc, phase |-> "armed"] : v \in hits}

(***************************************************************************)
(* route: the voices an envelope reaches.  A principal is nobody's brain,  *)
(* so ask_principal reaches none.                                          *)
(***************************************************************************)
Audience(post) ==
  IF post.kind = "ask_principal" THEN {}
  ELSE {v \in Names : /\ Registered(v)
                      /\ v # post.from
                      /\ post.to = {} \/ v \in post.to}

Relevant(post) == Audience(post) \cap Listeners

(***************************************************************************)
(* Append and route what a step puts on the record.  inject settles before *)
(* it routes, so of two envelopes the second, synthesized one is routed    *)
(* first; both belong to the same exchange.  idle is the timers the step   *)
(* starts from.  A voice both envelopes reach is rescheduled twice within  *)
(* one critical section: the debounce is taken to outlast that section.    *)
(***************************************************************************)
Record(posts, idle) ==
  /\ out' = posts
  /\ uttSeq' = uttSeq + Len(posts)
  /\ \E first \in SUBSET (IF Len(posts) = 2 THEN Relevant(posts[2]) ELSE {}),
        last \in SUBSET Relevant(posts[1]) :
       LET E == Bumped(entries, first)
           T == Scheduled(idle, entries, first, posts[1].exc)
       IN  /\ timers' = Scheduled(T, E, last, posts[1].exc)
           /\ entries' = Bumped(E, last)

Posted(env, exc, via) ==
  [from |-> env.from, to |-> SetOf(env.to), kind |-> env.kind, exc |-> exc,
   terms |-> env.terms, via |-> via]

(***************************************************************************)
(* lifecycle, adoption: an accept or decline without an exchange id joins  *)
(* the oldest open exchange it addresses a participant of; the scan drops  *)
(* closed ids from excOrder.                                               *)
(***************************************************************************)
Bare(env) == env.exc = NoExc /\ env.kind \in {"accept", "decline"}

CompactedDropsOthers(env) ==
  IF Bare(env) THEN {e \in excOrder : IsOpen(e) /\ Meets(env.to, exchanges[e].parts)}
  ELSE excOrder

Compacted(env) == IF Bare(env) THEN {e \in excOrder : IsOpen(e)} ELSE excOrder

Adopters(env) == {e \in Compacted(env) : Meets(env.to, exchanges[e].parts)}

ExchangeOf(env) ==
  IF Bare(env) /\ Adopters(env) # {} THEN Least(Adopters(env)) ELSE env.exc

(***************************************************************************)
(* The accept that settles: from a participant other than the one whose    *)
(* propose is pending.                                                     *)
(***************************************************************************)
MatchesOwnOffer(env, e) ==
  /\ env.kind = "accept"
  /\ IsOpen(e)
  /\ exchanges[e].pending.terms # NoTerms
  /\ env.from \in SetOf(exchanges[e].parts)

Matches(env, e) ==
  /\ env.kind = "accept"
  /\ IsOpen(e)
  /\ exchanges[e].pending.terms # NoTerms
  /\ env.from # exchanges[e].pending.from
  /\ env.from \in SetOf(exchanges[e].parts)

(***************************************************************************)
(* settleExchange: the party check of a trade and the owner of the body a  *)
(* comfort term sets.                                                      *)
(***************************************************************************)
PartiesUnchecked(offer, accepter) == TRUE

PartiesPresent(offer, accepter) ==
  offer.terms.type = "trade" /\ PartiesRead(offer.terms) =>
    {offer.terms.buyer, offer.terms.seller} \subseteq {offer.from, accepter}

Owner(parts, accepter) ==
  LET bodies == {i \in DOMAIN parts : IsThing(parts[i])}
  IN  IF bodies = {} THEN accepter ELSE parts[Least(bodies)]

CanSettle(x, accepter) ==
  /\ PartiesPresent(x.pending, accepter)
  /\ Applies(Owner(x.parts, accepter), x.pending.terms)

Synthesized(env, e, kind, to, terms) ==
  [from |-> env.from, to |-> to, kind |-> kind, exc |-> e, terms |-> terms,
   via |-> "synth"]

(***************************************************************************)
(* inject, by what lifecycle makes of the envelope.                        *)
(***************************************************************************)
Turn(x, status, pending) ==
  [status |-> status, parts |-> x.parts, turns |-> x.turns + 1,
   pending |-> pending]

LastId == Len(exchanges)

NextId == Len(exchanges) + 1

Crystallize(env, via, idle) ==     \* a bare propose opens an exchange
  /\ env.kind = "propose" /\ env.exc = NoExc
  /\ exchanges' = Append(exchanges,
       [status |-> "open", parts |-> <<env.from>> \o env.to, turns |-> 1,
        pending |-> [from |-> env.from, terms |-> env.terms, via |-> via]])
  /\ excOrder' = excOrder \cup {NextId}
  /\ UNCHANGED <<things, marks>>
  /\ Record(<<Posted(env, NextId, via)>>, idle)

RecordOnly(env, via, idle) ==      \* no exchange, an unknown or a closed one
  /\ ~(env.kind = "propose" /\ env.exc = NoExc)
  /\ ~IsOpen(ExchangeOf(env))
  /\ excOrder' = Compacted(env)
  /\ UNCHANGED <<things, marks, exchanges>>
  /\ Record(<<Posted(env, ExchangeOf(env), via)>>, idle)

Converse(env, via, idle) ==        \* one more turn of an open exchange
  LET e == ExchangeOf(env)
      offer == [from |-> env.from, terms |-> env.terms, via |-> via]
  IN  /\ IsOpen(e)
      /\ ~Matches(env, e)
      /\ exchanges' = [exchanges EXCEPT ![e] = Turn(@,
           IF env.kind = "withdraw" THEN "abandoned" ELSE "open",
           IF env.kind = "propose" THEN offer ELSE @.pending)]
      /\ excOrder' = Compacted(env)
      /\ UNCHANGED <<things, marks>>
      /\ Record(<<Posted(env, e, via)>>, idle)

Settle(env, via, idle) ==          \* a matching accept whose terms apply
  LET e == ExchangeOf(env)
      x == exchanges[e]
  IN  /\ Matches(env, e)
      /\ CanSettle(x, env.from)
      /\ Apply(Owner(x.parts, env.from), x.pending.terms)
      /\ exchanges' = [exchanges EXCEPT ![e] = Turn(@, "settled", x.pending)]
      /\ excOrder' = Compacted(env)
      /\ Record(<<Posted(env, e, via),
                  Synthesized(env, e, "settle", Others(x.parts, env.from),
                              x.pending.terms)>>, idle)

Refuse(env, via, idle) ==          \* a matching accept the world turns down
  LET e == ExchangeOf(env)
      x == exchanges[e]
  IN  /\ Matches(env, e)
      /\ ~CanSettle(x, env.from)
      /\ exchanges' = [exchanges EXCEPT ![e] = Turn(@, "abandoned", x.pending)]
      /\ excOrder' = Compacted(env)
      /\ UNCHANGED <<things, marks>>
      /\ Record(<<Posted(env, e, via),
                  Synthesized(env, e, "decline", {x.pending.from}, NoTerms)>>,
                idle)

Emit(env, via, idle) ==
  \/ Crystallize(env, via, idle)
  \/ RecordOnly(env, via, idle)
  \/ Converse(env, via, idle)
  \/ Settle(env, via, idle)
  \/ Refuse(env, via, idle)

(***************************************************************************)
(* settleTarget: the exchange env would settle were it injected now, or    *)
(* NoExc.  The consent and spend gates ask it before the funnel decides.   *)
(***************************************************************************)
SettleTargetByIdOnly(env) ==
  IF Matches(env, env.exc) THEN env.exc ELSE NoExc

SettleTargetAnyVoice(env) ==
  LET e == ExchangeOf(env)
  IN  IF /\ IsOpen(e)
         /\ exchanges[e].pending.terms # NoTerms
         /\ env.from # exchanges[e].pending.from
      THEN e ELSE NoExc

SettleTarget(env) ==
  LET joined == {e \in excOrder : IsOpen(e) /\ Meets(env.to, exchanges[e].parts)}
      e == IF env.exc # NoExc THEN env.exc
           ELSE IF joined # {} THEN Least(joined) ELSE NoExc
  IN  IF /\ IsOpen(e)
         /\ exchanges[e].pending.terms # NoTerms
         /\ env.from # exchanges[e].pending.from
         /\ env.from \in SetOf(exchanges[e].parts)
      THEN e ELSE NoExc

(***************************************************************************)
(* exchangeGate, run before and after the brain call.                      *)
(***************************************************************************)
Abandoned(e) == e \in DOMAIN exchanges /\ exchanges[e].status = "abandoned"

Capped(e) == IsOpen(e) /\ exchanges[e].turns >= TurnCap

CapWithdraw(v, e, idle) ==
  /\ exchanges' = [exchanges EXCEPT ![e] = Turn(@, "abandoned", @.pending)]
  /\ UNCHANGED <<things, marks, excOrder>>
  /\ Record(<<[from |-> v, to |-> Others(exchanges[e].parts, v),
               kind |-> "withdraw", exc |-> e, terms |-> NoTerms,
               via |-> "cap"]>>, idle)

(***************************************************************************)
(* The gates a reply passes before it is injected.                         *)
(***************************************************************************)
Overspends(v, charter, t) ==
  /\ t.type = "trade"
  /\ SpendReads(t)
  /\ t.buyer = v
  /\ t.price > charter.limit

ProposeBarred(env, charter) ==
  \/ env.terms = NoTerms
  \/ env.terms.type \notin charter.mayPropose
  \/ Overspends(env.from, charter, env.terms)
  \/ env.terms \notin SchemaValid

AcceptBarred(env, charter) ==
  \/ LET e == SettleTarget(env)
         t == exchanges[e].pending.terms
     IN  /\ e # NoExc
         /\ t.type = "trade"
         /\ ~charter.solo \/ Overspends(env.from, charter, t)
  \/ env.terms \notin SchemaValid \cup {NoTerms}

Barred(env, charter) ==
  \/ env.kind = "settle"
  \/ env.kind = "propose" /\ ProposeBarred(env, charter)
  \/ env.kind = "accept" /\ AcceptBarred(env, charter)

(***************************************************************************)
(* Public calls.  A re-claim replaces the entry: the old one's timer is    *)
(* stopped and its generation bumped, the new one starts at generation 0.  *)
(***************************************************************************)
Embody(c) ==
  IF c.charter.kind = "thing" /\ c.init # NoThing
  THEN Register(c.voice, c.init) ELSE UNCHANGED things

AddVoice(c) ==
  /\ ~Registered(c.voice)
  /\ entries' = [entries EXCEPT ![c.voice] = <<[charter |-> c.charter, gen |-> 0]>>]
  /\ Embody(c)
  /\ out' = <<>>
  /\ UNCHANGED <<marks, exchanges, excOrder, timers, uttSeq>>

ReclaimWithoutBump(c) ==
  /\ Registered(c.voice)
  /\ Len(entries[c.voice]) < MaxInc
  /\ timers' = timers \ Cancelled(timers, {c.voice})
  /\ entries' = [entries EXCEPT
       ![c.voice] = Append(@, [charter |-> c.charter, gen |-> 0])]
  /\ Embody(c)
  /\ out' = <<>>
  /\ UNCHANGED <<marks, exchanges, excOrder, uttSeq>>

ReclaimVoice(c) ==
  LET old == Bumped(entries, {c.voice})[c.voice]
  IN  /\ Registered(c.voice)
      /\ Len(entries[c.voice]) < MaxInc
      /\ timers' = timers \ Cancelled(timers, {c.voice})
      /\ entries' = [entries EXCEPT
           ![c.voice] = Append(old, [charter |-> c.charter, gen |-> 0])]
      /\ Embody(c)
      /\ out' = <<>>
      /\ UNCHANGED <<marks, exchanges, excOrder, uttSeq>>

CreditVoice(c) ==
  /\ marks[c.voice] + c.n <= MaxMarks
  /\ Credit(c.voice, c.n)
  /\ out' = <<>>
  /\ UNCHANGED <<things, entries, exchanges, excOrder, timers, uttSeq>>

PrincipalSays(v) ==
  /\ uttSeq < MaxUtt
  /\ Emit([from |-> PrincipalOf[v], to |-> <<v>>, kind |-> "say",
           exc |-> NoExc, terms |-> NoTerms], "principal", timers)

Inject(i, e) ==
  /\ uttSeq < MaxUtt
  /\ i.kind # "settle"                  \* an external settle is dropped
  /\ Emit([from |-> i.from, to |-> i.to, kind |-> i.kind, exc |-> e,
           terms |-> i.terms], "inject", timers)

(***************************************************************************)
(* A think.  Its closure holds its own voiceEntry, entries[voice][inc];    *)
(* it is stale once that entry's generation has moved on.                  *)
(***************************************************************************)
OwnEntry(tm) == entries[tm.voice][tm.inc]

NeverStale(tm) == FALSE

Stale(tm) == OwnEntry(tm).gen # tm.gen

Fire(tm) ==                        \* the timer expires, the callback starts
  /\ tm.phase = "armed"
  /\ timers' = (timers \ {tm}) \cup {[tm EXCEPT !.phase = "fired"]}
  /\ out' = <<>>
  /\ UNCHANGED <<things, marks, entries, exchanges, excOrder, uttSeq>>

Drop(tm) ==                        \* the think ends without a word
  /\ timers' = timers \ {tm}
  /\ out' = <<>>
  /\ UNCHANGED <<things, marks, entries, exchanges, excOrder, uttSeq>>

(***************************************************************************)
(* The callback has the mutex: discard, gate, or leave it for the brain.   *)
(***************************************************************************)
ThinkBegin(tm) ==
  /\ tm.phase = "fired"
  /\ \/ /\ Stale(tm) \/ Abandoned(tm.exc)
        /\ Drop(tm)
     \/ /\ ~Stale(tm)
        /\ Capped(tm.exc)
        /\ CapWithdraw(tm.voice, tm.exc, timers \ {tm})
     \/ /\ ~Stale(tm)
        /\ ~Abandoned(tm.exc)
        /\ ~Capped(tm.exc)
        /\ timers' = (timers \ {tm}) \cup {[tm EXCEPT !.phase = "thinking"]}
        /\ out' = <<>>
        /\ UNCHANGED <<things, marks, entries, exchanges, excOrder, uttSeq>>

(***************************************************************************)
(* The brain is done and the callback has the mutex again.  A stale        *)
(* result, an error, an abandoned exchange, silence and a barred action    *)
(* all end without a word.                                                 *)
(***************************************************************************)
Reply(tm, a) == [from |-> tm.voice, to |-> a.to, kind |-> a.kind,
                 exc |-> tm.exc, terms |-> a.terms]

ThinkHangs(tm) == FALSE

ThinkFails(tm) == tm.phase = "thinking" /\ Drop(tm)

ThinkCapped(tm) ==
  /\ tm.phase = "thinking"
  /\ ~Stale(tm)
  /\ Capped(tm.exc)
  /\ CapWithdraw(tm.voice, tm.exc, timers \ {tm})

SpeaksUngated(tm, a) ==            \* without the second run of exchangeGate
  /\ tm.phase = "thinking"
  /\ uttSeq < MaxUtt
  /\ ~Stale(tm)
  /\ ~Barred(Reply(tm, a), OwnEntry(tm).charter)
  /\ Emit(Reply(tm, a), "think", timers \ {tm})

ThinkSpeaks(tm, a) ==
  /\ tm.phase = "thinking"
  /\ uttSeq < MaxUtt
  /\ ~Stale(tm)
  /\ ~Abandoned(tm.exc)
  /\ ~Capped(tm.exc)
  /\ ~Barred(Reply(tm, a), OwnEntry(tm).charter)
  /\ Emit(Reply(tm, a), "think", timers \ {tm})

Progress(tm) ==
  \/ Fire(tm)
  \/ ThinkBegin(tm)
  \/ ThinkFails(tm)
  \/ ThinkCapped(tm)
  \/ \E a \in Acts : ThinkSpeaks(tm, a)

Next ==
  \/ \E c \in Cast : AddVoice(c) \/ ReclaimVoice(c)
  \/ \E c \in Credits : CreditVoice(c)
  \/ \E v \in DOMAIN PrincipalOf : PrincipalSays(v)
  \/ \E i \in Injections, e \in 0 .. Len(exchanges) + 1 : Inject(i, e)
  \/ \E tm \in timers : Progress(tm)

Spec == Init /\ [][Next]_vars

(***************************************************************************)
(* Timers expire, callbacks get the mutex and, by ThinkTimeout, brains     *)
(* return: each voice's thinks make progress.  Callers owe nothing.        *)
(***************************************************************************)
Fairness == \A v \in Names :
  WF_vars(\E tm \in timers : tm.voice = v /\ Progress(tm))

FairSpec == Spec /\ Fairness
=============================================================================
