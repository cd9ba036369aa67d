----------------------------- MODULE PageProofs -----------------------------
(***************************************************************************)
(* Proofs about the visitor's page: what it shows is what the feed and the *)
(* line brought, once each; and a claim the gateway still honours is given *)
(* up only after its dials failed as often as the rule says.               *)
(***************************************************************************)
EXTENDS PageProperties, SequenceTheorems, TLAPS

-----------------------------------------------------------------------------
(***************************************************************************)
(* The inductive invariant.                                                *)
(***************************************************************************)
Typed ==
  /\ PageTypeOK
  /\ posting => granted # 0
  /\ since \in 0 .. Len(record)

(***************************************************************************)
(* An item of the thread stands for the frame it came with, an ask for a   *)
(* prompt and another for a bubble, which only the feed brings; the line   *)
(* carries asks, all of them younger than the thread.                      *)
(***************************************************************************)
StandsFor(it) ==
  /\ it.id \in 1 .. Len(record)
  /\ it.kind = "consent" => record[it.id].kind = "ask"
  /\ it.kind = "bubble" => record[it.id].kind # "ask" /\ it.id <= lastSeq /\ ~it.answered

Origins == \A i \in DOMAIN items : StandsFor(items[i])

OnWire == \A id \in ToSet(wire) : id > since /\ record[id].kind = "ask"

AnswersStay ==
  \A id \in answered :
    id \in gone \/ \E i \in DOMAIN items : items[i].id = id /\ items[i].answered

(***************************************************************************)
(* Of what the feed is past, the thread has shown each ask the feed did    *)
(* not skip; of all there is, each ask the line did not lose.              *)
(***************************************************************************)
FeedShows ==
  claim # NoToken =>
    \A id \in since + 1 .. lastSeq :
      record[id].kind = "ask" => Shown(id) \/ id \in passed

LineShows ==
  claim # NoToken =>
    \A id \in since + 1 .. Len(record) :
      record[id].kind = "ask" /\ record[id].exc # NoExc
        => Shown(id) \/ id \in ToSet(wire) \/ id \in deaf

(***************************************************************************)
(* With a good token, each close that counts was a dial that failed.       *)
(***************************************************************************)
BlinksCount ==
  claim \in tokens =>
    /\ blinks >= fast
    /\ line.cut /\ line.pc # "open" => blinks > fast

PInv ==
  /\ Typed /\ Origins /\ OnWire /\ AnswersStay /\ FeedShows /\ LineShows /\ BlinksCount
  /\ PromptedOnce /\ NoGhostPrompt

-----------------------------------------------------------------------------
(***************************************************************************)
(* What the reducer may make of the thread.  An heir is the same item,     *)
(* perhaps answered since.                                                 *)
(***************************************************************************)
Heir(a, b) ==
  /\ b.id = a.id /\ b.kind = a.kind /\ b.exc = a.exc
  /\ a.answered => b.answered
  /\ b.answered => a.answered \/ a.kind = "consent"

OneOfEach(its) == \A i, j \in DOMAIN its : its[i].id = its[j].id => i = j

(***************************************************************************)
(* A thread that carries on another: each item is an heir or a new one,    *)
(* each item has its heir or is forgotten for good.                        *)
(***************************************************************************)
CarriesOn(its, new) ==
  /\ its \in Seq(Item) /\ Len(its) <= ItemCap
  /\ OneOfEach(its)
  /\ \A i \in DOMAIN its : its[i] \in new \/ \E k \in DOMAIN items : Heir(items[k], its[i])
  /\ \A k \in DOMAIN items :
       \/ \E i \in DOMAIN its : Heir(items[k], its[i])
       \/ items[k].id \notin Ids(its)
  /\ \A it \in new : \E i \in DOMAIN its : its[i] = it

(***************************************************************************)
(* Answering the prompts of an exchange.                                   *)
(***************************************************************************)
LEMMA ResolveFacts ==
  ASSUME NEW its \in Seq(Item), NEW exc
  PROVE  LET r == resolveConsents(its, exc)
         IN  /\ r \in Seq(Item) /\ Len(r) = Len(its) /\ DOMAIN r = DOMAIN its
             /\ \A i \in DOMAIN its : Heir(its[i], r[i])
             /\ \A i \in DOMAIN its : r[i].kind = "consent" /\ r[i].exc = exc => r[i].answered
<1> DEFINE r == resolveConsents(its, exc)
<1>1. ASSUME NEW it \in Item
      PROVE  /\ [it EXCEPT !.answered = TRUE] \in Item
             /\ Heir(it, it)
             /\ it.kind = "consent" => Heir(it, [it EXCEPT !.answered = TRUE])
             /\ [it EXCEPT !.answered = TRUE].answered
  BY DEF Item, Heir
<1>2. \A i \in DOMAIN its : its[i] \in Item
  OBVIOUS
<1>3. r = [i \in 1 .. Len(its) |->
             IF its[i].kind = "consent" /\ its[i].exc = exc
             THEN [its[i] EXCEPT !.answered = TRUE] ELSE its[i]]
  BY DEF resolveConsents
<1>4. \A i \in DOMAIN its :
        r[i] = IF its[i].kind = "consent" /\ its[i].exc = exc
               THEN [its[i] EXCEPT !.answered = TRUE] ELSE its[i]
  BY <1>3
<1> HIDE DEF r
<1>5. r \in [1 .. Len(its) -> Item]
  <2>1. \A i \in 1 .. Len(its) :
          (IF its[i].kind = "consent" /\ its[i].exc = exc
           THEN [its[i] EXCEPT !.answered = TRUE] ELSE its[i]) \in Item
    <3>1. \A x \in Item : [x EXCEPT !.answered = TRUE] \in Item
      BY DEF Item
    <3>2. \A i \in 1 .. Len(its) : its[i] \in Item
      OBVIOUS
    <3> QED
      BY <3>1, <3>2
  <2> QED
    BY <1>3, <2>1
<1>6. r \in Seq(Item) /\ Len(r) = Len(its) /\ DOMAIN r = DOMAIN its
  BY <1>5, SeqDef
<1>7. ASSUME NEW i \in DOMAIN its
      PROVE  /\ Heir(its[i], r[i])
             /\ r[i].kind = "consent" /\ r[i].exc = exc => r[i].answered
  <2>1. CASE its[i].kind = "consent" /\ its[i].exc = exc
    BY <1>1, <1>2, <1>4, <2>1
  <2>2. CASE ~(its[i].kind = "consent" /\ its[i].exc = exc)
    BY <1>1, <1>2, <1>4, <2>2
  <2> QED
    BY <2>1, <2>2
<1> QED
  BY <1>6, <1>7 DEF r

(***************************************************************************)
(* Appending an item forgets the oldest one when the thread is full.       *)
(***************************************************************************)
LEMMA AppendFacts ==
  ASSUME NEW its \in Seq(Item), Len(its) <= ItemCap, NEW it \in Item
  PROVE  LET r == appendItem(its, it)
         IN  /\ r \in Seq(Item) /\ Len(r) <= ItemCap /\ Len(r) >= 1
             /\ r[Len(r)] = it
             /\ \E d \in {0, 1} :
                  /\ Len(r) = Len(its) + 1 - d
                  /\ \A i \in 1 .. Len(r) - 1 : r[i] = its[i + d]
<1> DEFINE out == Append(its, it)
           r == appendItem(its, it)
<1>1. ItemCap \in Nat \ {0} /\ Len(its) \in Nat
  BY PageAssumption
<1>2. /\ out \in Seq(Item) /\ Len(out) = Len(its) + 1 /\ out[Len(its) + 1] = it
      /\ \A i \in 1 .. Len(its) : out[i] = its[i]
  BY AppendProperties
<1> HIDE DEF out
<1>3. CASE Len(out) > ItemCap
  <2>1. r = Tail(out)
    BY <1>3 DEF appendItem, out
  <2>2. /\ Tail(out) \in Seq(Item) /\ Len(Tail(out)) = Len(out) - 1
        /\ \A i \in 1 .. Len(Tail(out)) : Tail(out)[i] = out[i + 1]
    BY <1>1, <1>2, HeadTailProperties
  <2>3. Len(r) = Len(its) /\ Len(r) >= 1 /\ Len(r) <= ItemCap /\ r \in Seq(Item)
    BY <1>1, <1>2, <1>3, <2>1, <2>2
  <2>4. \A i \in 1 .. Len(r) : r[i] = out[i + 1]
    BY <2>1, <2>2
  <2> HIDE DEF r
  <2>5. r[Len(r)] = it
    BY <1>1, <1>2, <2>3, <2>4
  <2>6. \A i \in 1 .. Len(r) - 1 : r[i] = its[i + 1]
    BY <1>1, <1>2, <2>3, <2>4
  <2> QED
    BY <1>1, <2>3, <2>5, <2>6 DEF r
<1>4. CASE ~(Len(out) > ItemCap)
  <2>1. r = out
    BY <1>4 DEF appendItem, out
  <2> HIDE DEF r
  <2>2. \A i \in 1 .. Len(r) - 1 : r[i] = its[i + 0]
    BY <1>1, <1>2, <2>1
  <2> QED
    BY <1>1, <1>2, <1>4, <2>1, <2>2 DEF r
<1> QED
  BY <1>3, <1>4

(***************************************************************************)
(* The thread carries itself on, and with the prompts of an exchange       *)
(* answered.                                                               *)
(***************************************************************************)
LEMMA CarriesItself ==
  ASSUME items \in Seq(Item), Len(items) <= ItemCap, OneOfEach(items)
  PROVE  CarriesOn(items, {})
<1>1. \A it : Heir(it, it)
  BY DEF Heir
<1> QED
  BY <1>1 DEF CarriesOn

LEMMA CarriesResolved ==
  ASSUME items \in Seq(Item), Len(items) <= ItemCap, OneOfEach(items), NEW exc
  PROVE  CarriesOn(resolveConsents(items, exc), {})
<1> DEFINE r == resolveConsents(items, exc)
<1>1. /\ r \in Seq(Item) /\ Len(r) = Len(items) /\ DOMAIN r = DOMAIN items
      /\ \A i \in DOMAIN items : Heir(items[i], r[i])
  BY ResolveFacts
<1> HIDE DEF r
<1>2. \A i \in DOMAIN items : r[i].id = items[i].id
  BY <1>1 DEF Heir
<1>3. OneOfEach(r)
  BY <1>1, <1>2 DEF OneOfEach
<1> QED
  BY <1>1, <1>3 DEF CarriesOn, r

(***************************************************************************)
(* And with one more item, unlike any it has.                              *)
(***************************************************************************)
LEMMA CarriesAppended ==
  ASSUME NEW its, CarriesOn(its, {}), NEW it \in Item, it.id \notin Ids(items)
  PROVE  CarriesOn(appendItem(its, it), {it})
<1> DEFINE r == appendItem(its, it)
<1>1. /\ its \in Seq(Item) /\ Len(its) <= ItemCap /\ Len(its) \in Nat
      /\ OneOfEach(its)
      /\ \A i \in DOMAIN its : \E k \in DOMAIN items : Heir(items[k], its[i])
      /\ \A k \in DOMAIN items :
           (\E i \in DOMAIN its : Heir(items[k], its[i])) \/ items[k].id \notin Ids(its)
  BY DEF CarriesOn
<1>2. /\ r \in Seq(Item) /\ Len(r) <= ItemCap /\ Len(r) >= 1
      /\ r[Len(r)] = it
      /\ \E d \in {0, 1} :
           /\ Len(r) = Len(its) + 1 - d
           /\ \A i \in 1 .. Len(r) - 1 : r[i] = its[i + d]
  BY <1>1, AppendFacts
<1> HIDE DEF r
<1>3. PICK d \in {0, 1} :
        /\ Len(r) = Len(its) + 1 - d
        /\ \A i \in 1 .. Len(r) - 1 : r[i] = its[i + d]
  BY <1>2
<1>4. \A i \in DOMAIN its : its[i].id \in Ids(items)
  BY <1>1 DEF Heir, Ids
<1>5. /\ Len(r) \in Nat \ {0} /\ DOMAIN r = 1 .. Len(r) /\ DOMAIN its = 1 .. Len(its)
      /\ Len(r) \in DOMAIN r
      /\ \A i \in DOMAIN r : i # Len(r) => i + d \in DOMAIN its /\ r[i] = its[i + d]
  <2>1. Len(r) \in Nat \ {0} /\ DOMAIN r = 1 .. Len(r) /\ DOMAIN its = 1 .. Len(its)
    BY <1>1, <1>2
  <2>2. ASSUME NEW i \in DOMAIN r, i # Len(r)
        PROVE  i + d \in DOMAIN its /\ r[i] = its[i + d]
    <3>1. i \in 1 .. Len(r) - 1
      BY <2>1, <2>2
    <3> QED
      BY <1>1, <1>3, <2>1, <3>1
  <2> QED
    BY <2>1, <2>2
<1>6. \A i \in DOMAIN r : i # Len(r) => r[i].id # it.id
  BY <1>4, <1>5
<1>7. OneOfEach(r)
  <2> SUFFICES ASSUME NEW i \in DOMAIN r, NEW j \in DOMAIN r, r[i].id = r[j].id PROVE i = j
    BY DEF OneOfEach
  <2>1. CASE i # Len(r) /\ j # Len(r)
    <3>1. its[i + d].id = its[j + d].id /\ i + d \in DOMAIN its /\ j + d \in DOMAIN its
      BY <1>5, <2>1
    <3>2. i + d = j + d
      BY <1>1, <3>1 DEF OneOfEach
    <3> QED
      BY <1>5, <3>2
  <2>2. CASE i = Len(r) \/ j = Len(r)
    BY <1>2, <1>6, <2>2
  <2> QED
    BY <2>1, <2>2
<1>8. \A i \in DOMAIN r : r[i] \in {it} \/ \E k \in DOMAIN items : Heir(items[k], r[i])
  BY <1>1, <1>2, <1>5
<1>9. ASSUME NEW k \in DOMAIN items
      PROVE  (\E i \in DOMAIN r : Heir(items[k], r[i])) \/ items[k].id \notin Ids(r)
  <2> SUFFICES ASSUME items[k].id \in Ids(r) PROVE \E i \in DOMAIN r : Heir(items[k], r[i])
    OBVIOUS
  <2>1. PICK i \in DOMAIN r : r[i].id = items[k].id
    BY DEF Ids
  <2>2. items[k].id # it.id
    BY DEF Ids
  <2>3. i # Len(r)
    BY <1>2, <2>1, <2>2
  <2>4. i + d \in DOMAIN its /\ its[i + d].id = items[k].id /\ r[i] = its[i + d]
    BY <1>5, <2>1, <2>3
  <2>5. PICK j \in DOMAIN its : Heir(items[k], its[j])
    BY <1>1, <2>4 DEF Ids
  <2>6. its[j].id = its[i + d].id
    BY <2>4, <2>5 DEF Heir
  <2>7. j = i + d
    BY <1>1, <2>4, <2>6 DEF OneOfEach
  <2> QED
    BY <2>4, <2>5, <2>7
<1>10. \A x \in {it} : \E i \in DOMAIN r : r[i] = x
  BY <1>2, <1>5
<1> QED
  BY <1>2, <1>7, <1>8, <1>9, <1>10 DEF CarriesOn, r

-----------------------------------------------------------------------------
(***************************************************************************)
(* The steps that change the thread: it carries on, and with it all that   *)
(* was shown or answered.                                                  *)
(***************************************************************************)
LEMMA ThreadKeeps ==
  ASSUME PInv, NEW its, NEW new \in SUBSET Item, CarriesOn(its, new), Thread(its),
         record' = record, lastSeq' >= lastSeq, lastSeq' \in Nat,
         \A it \in new : StandsFor(it)' /\ ~it.answered /\ it.id \notin Ids(items)
  PROVE  /\ items' \in Seq(Item) /\ Len(items') <= ItemCap
         /\ Origins' /\ AnswersStay' /\ PromptedOnce'
         /\ \A id : Shown(id) => Shown(id)'
         /\ \A it \in new : it.kind = "consent" => Shown(it.id)'
<1>1. /\ items' = its /\ gone' = gone \cup (Ids(items) \ Ids(its))
      /\ answered' = answered \cup {its[i].id : i \in {j \in DOMAIN its : its[j].answered}}
  BY DEF Thread
<1>2. /\ its \in Seq(Item) /\ Len(its) <= ItemCap /\ OneOfEach(its)
      /\ \A i \in DOMAIN its : its[i] \in new \/ \E k \in DOMAIN items : Heir(items[k], its[i])
      /\ \A k \in DOMAIN items :
           (\E i \in DOMAIN its : Heir(items[k], its[i])) \/ items[k].id \notin Ids(its)
      /\ \A it \in new : \E i \in DOMAIN its : its[i] = it
  BY DEF CarriesOn
<1>3. /\ items \in Seq(Item) /\ OneOfEach(items)
      /\ \A k \in DOMAIN items : StandsFor(items[k]) /\ items[k].id \in Nat
  BY DEF PInv, Typed, PageTypeOK, PromptedOnce, OneOfEach, Origins, StandsFor
<1>4. Origins'
  <2> SUFFICES ASSUME NEW i \in DOMAIN its PROVE StandsFor(its[i])'
    BY <1>1 DEF Origins
  <2>1. CASE its[i] \in new
    BY <2>1
  <2>2. ASSUME NEW k \in DOMAIN items, Heir(items[k], its[i]) PROVE StandsFor(its[i])'
    <3>1. StandsFor(items[k]) /\ items[k].id \in Nat /\ lastSeq \in Nat
      BY <1>3 DEF PInv, Typed, PageTypeOK
    <3>2. /\ its[i].id = items[k].id /\ its[i].kind = items[k].kind
          /\ its[i].answered => items[k].answered \/ items[k].kind = "consent"
      BY <2>2 DEF Heir
    <3> QED
      BY <3>1, <3>2 DEF StandsFor
  <2> QED
    BY <1>2, <2>1, <2>2
<1>5. ASSUME NEW k \in DOMAIN items
      PROVE  \/ items[k].id \in gone'
             \/ \E i \in DOMAIN its : Heir(items[k], its[i])
  BY <1>1, <1>2 DEF Ids
<1>6. AnswersStay'
  <2> SUFFICES ASSUME NEW id \in answered', id \notin gone'
               PROVE  \E i \in DOMAIN its : its[i].id = id /\ its[i].answered
    BY <1>1 DEF AnswersStay
  <2>1. CASE id \in {its[i].id : i \in {j \in DOMAIN its : its[j].answered}}
    BY <2>1
  <2>2. CASE id \in answered
    <3>1. id \notin gone
      BY <1>1
    <3>2. PICK k \in DOMAIN items : items[k].id = id /\ items[k].answered
      BY <2>2, <3>1 DEF PInv, AnswersStay
    <3>3. PICK i \in DOMAIN its : Heir(items[k], its[i])
      BY <1>5, <3>2
    <3> QED
      BY <3>2, <3>3 DEF Heir
  <2> QED
    BY <1>1, <2>1, <2>2
<1>7. PromptedOnce'
  <2>1. ASSUME NEW i \in DOMAIN its, Open(its[i]) PROVE its[i].id \notin answered' \ gone'
    <3> SUFFICES ASSUME its[i].id \in answered', its[i].id \notin gone' PROVE FALSE
      OBVIOUS
    <3>1. PICK j \in DOMAIN its : its[j].id = its[i].id /\ its[j].answered
      BY <1>1, <1>6 DEF AnswersStay
    <3> QED
      BY <1>2, <2>1, <3>1 DEF OneOfEach, Open
  <2> QED
    BY <1>1, <1>2, <2>1 DEF PromptedOnce, OneOfEach
<1>8. ASSUME NEW id, Shown(id) PROVE Shown(id)'
  <2>1. CASE id \in gone
    BY <1>1, <2>1 DEF Shown
  <2>2. CASE Prompted(items, id)
    <3>1. PICK k \in DOMAIN items : items[k].kind = "consent" /\ items[k].id = id
      BY <2>2 DEF Prompted
    <3>2. CASE id \in gone'
      BY <3>2 DEF Shown
    <3>3. CASE \E i \in DOMAIN its : Heir(items[k], its[i])
      BY <1>1, <3>1, <3>3 DEF Shown, Prompted, Heir
    <3> QED
      BY <1>5, <3>1, <3>2, <3>3
  <2> QED
    BY <1>8, <2>1, <2>2 DEF Shown
<1>9. ASSUME NEW it \in new, it.kind = "consent" PROVE Shown(it.id)'
  BY <1>1, <1>2, <1>9 DEF Shown, Prompted
<1> QED
  BY <1>1, <1>2, <1>4, <1>6, <1>7, <1>8, <1>9

(***************************************************************************)
(* A prompt of the line: new, or the feed has shown it.                    *)
(***************************************************************************)
LEMMA NewPrompt ==
  ASSUME PInv, NEW id \in 1 .. Len(record), record[id].kind = "ask", ~Prompted(items, id)
  PROVE  /\ Prompt(id) \in Item /\ id \notin Ids(items)
         /\ Prompt(id).id = id /\ Prompt(id).kind = "consent" /\ ~Prompt(id).answered
         /\ StandsFor(Prompt(id))
<1>1. record \in Seq(Frame) /\ id \in Nat /\ record[id] \in Frame
  BY DEF PInv, Typed, PageTypeOK
<1>2. Prompt(id) \in Item
  BY <1>1 DEF Prompt, Item, Frame
<1>3. Prompt(id).id = id /\ Prompt(id).kind = "consent" /\ ~Prompt(id).answered
  BY DEF Prompt
<1>4. id \notin Ids(items)
  <2> SUFFICES ASSUME NEW i \in DOMAIN items, items[i].id = id PROVE FALSE
    BY DEF Ids
  <2>1. items[i].kind = "bubble"
    <3>1. items \in Seq(Item)
      BY DEF PInv, Typed, PageTypeOK
    <3>2. items[i] \in Item
      BY <3>1
    <3> QED
      BY <3>2 DEF Prompted, Item
  <2> QED
    BY <2>1 DEF PInv, Origins, StandsFor
<1> QED
  BY <1>2, <1>3, <1>4 DEF StandsFor

-----------------------------------------------------------------------------
(***************************************************************************)
(* A step that leaves alone the thread and what it was made from.          *)
(***************************************************************************)
LEMMA QuietKeeps ==
  ASSUME PInv, UNCHANGED <<record, thread, feed, wire, deaf, claim, since>>,
         Typed', BlinksCount'
  PROVE  PInv'
<1>1. UNCHANGED <<record, items, gone, answered, lastSeq, passed, wire, deaf, claim, since>>
  BY DEF thread, feed
<1>2. Origins' /\ AnswersStay' /\ PromptedOnce' /\ NoGhostPrompt'
  BY <1>1 DEF PInv, Origins, StandsFor, AnswersStay, PromptedOnce, NoGhostPrompt
<1>3. \A id : Shown(id)' <=> Shown(id)
  BY <1>1 DEF Shown, Prompted
<1>4. OnWire' /\ FeedShows' /\ LineShows'
  BY <1>1, <1>3 DEF PInv, OnWire, FeedShows, LineShows
<1> QED
  BY <1>2, <1>4 DEF PInv

(***************************************************************************)
(* A step that starts a new thread.                                        *)
(***************************************************************************)
LEMMA AnewKeeps ==
  ASSUME NewThread, wire' = <<>>, Typed', BlinksCount', FeedShows', LineShows'
  PROVE  PInv'
<1>1. items' = <<>> /\ answered' = {} /\ DOMAIN items' = {}
  BY DEF NewThread
<1>2. Origins' /\ AnswersStay' /\ PromptedOnce' /\ NoGhostPrompt'
  BY <1>1 DEF Origins, AnswersStay, PromptedOnce, NoGhostPrompt
<1>3. ToSet(wire') = {}
  BY DEF ToSet
<1> QED
  BY <1>2, <1>3 DEF PInv, OnWire

(***************************************************************************)
(* A line whose socket is cut, or not.                                     *)
(***************************************************************************)
LEMMA CutLine ==
  ASSUME NEW l \in [pc : {"off", "waiting", "dialing", "joined", "open"}, cut : BOOLEAN],
         NEW b \in BOOLEAN
  PROVE  /\ [l EXCEPT !.cut = b]
              \in [pc : {"off", "waiting", "dialing", "joined", "open"}, cut : BOOLEAN]
         /\ [l EXCEPT !.cut = b].pc = l.pc
         /\ l = NoLine /\ b = FALSE => [l EXCEPT !.cut = b] = NoLine
<1>1. /\ [l EXCEPT !.cut = b]
           \in [pc : {"off", "waiting", "dialing", "joined", "open"}, cut : BOOLEAN]
      /\ [l EXCEPT !.cut = b].pc = l.pc
  OBVIOUS
<1>2. [l EXCEPT !.cut = b].cut = b
  OBVIOUS
<1>3. \A r \in [pc : {"off", "waiting", "dialing", "joined", "open"}, cut : BOOLEAN] :
        r = [pc |-> r.pc, cut |-> r.cut]
  OBVIOUS
<1>4. [l EXCEPT !.cut = b] = [pc |-> l.pc, cut |-> b]
  BY <1>1, <1>2, <1>3
<1>5. ASSUME l = NoLine, b = FALSE PROVE [l EXCEPT !.cut = b] = NoLine
  <2>1. l.pc = "off"
    BY <1>5 DEF NoLine
  <2> QED
    BY <1>4, <1>5, <2>1 DEF NoLine
<1> QED
  BY <1>1, <1>5

(***************************************************************************)
(* The gateway's side.                                                     *)
(***************************************************************************)
LEMMA ServerKeeps ==
  ASSUME PInv, Restart \/ Grant \/ PostFails
  PROVE  PInv'
<1>0. Typed /\ BlinksCount
  BY DEF PInv
<1>1. CASE Restart
  <2>1. /\ UNCHANGED <<record, thread, feed, wire, deaf, claim, since>>
        /\ tokens' = {} /\ line' = [line EXCEPT !.cut = line.pc \in {"dialing", "joined", "open"}]
        /\ UNCHANGED <<record, granted, items, lastSeq, fast, wire, blinks, posting, saved, claim,
                       since, faults, reloads>>
    BY <1>1 DEF Restart, thread, feed, identity, bounds
  <2>2. /\ line' \in [pc : {"off", "waiting", "dialing", "joined", "open"}, cut : BOOLEAN]
        /\ line = NoLine => line' = NoLine
    <3> DEFINE b == line.pc \in {"dialing", "joined", "open"}
    <3>1. b \in BOOLEAN /\ (line = NoLine => b = FALSE)
      BY DEF NoLine
    <3>2. line' = [line EXCEPT !.cut = b]
      BY <2>1
    <3> HIDE DEF b
    <3> QED
      BY <1>0, <3>1, <3>2, CutLine DEF Typed, PageTypeOK
  <2>3. Typed'
    BY <1>0, <2>1, <2>2 DEF Typed, PageTypeOK
  <2>4. BlinksCount'
    BY <2>1 DEF BlinksCount
  <2> QED
    BY <2>1, <2>3, <2>4, QuietKeeps
<1>2. CASE Grant
  <2>1. /\ claim = NoToken /\ granted < MaxClaims /\ granted' = granted + 1
        /\ tokens' = {granted + 1} /\ posting' = TRUE
        /\ UNCHANGED <<record, thread, feed, wire, deaf, claim, since>>
        /\ UNCHANGED <<record, items, lastSeq, line, fast, wire, blinks, saved, claim, since,
                       faults, reloads>>
    BY <1>2 DEF Grant, thread, feed, private, bounds
  <2>2. Typed'
    BY <1>0, <2>1, PageAssumption DEF Typed, PageTypeOK
  <2>3. BlinksCount'
    BY <1>0, <2>1 DEF BlinksCount, Typed, PageTypeOK, NoToken
  <2> QED
    BY <2>1, <2>2, <2>3, QuietKeeps
<1>3. CASE PostFails
  <2>1. /\ posting' = FALSE
        /\ UNCHANGED <<record, thread, feed, wire, deaf, claim, since>>
        /\ UNCHANGED <<record, tokens, granted, items, lastSeq, line, fast, wire, blinks, saved,
                       claim, since, faults, reloads>>
    BY <1>3 DEF PostFails, server, thread, feed, private, bounds
  <2>2. Typed' /\ BlinksCount'
    BY <1>0, <2>1 DEF Typed, PageTypeOK, BlinksCount
  <2> QED
    BY <2>1, <2>2, QuietKeeps
<1> QED
  BY <1>1, <1>2, <1>3

(***************************************************************************)
(* The line's way from waiting to open, and its cuts.                      *)
(***************************************************************************)
LEMMA DialKeeps ==
  ASSUME PInv, Dial \/ Join \/ LineOpens \/ Cut
  PROVE  PInv'
<1>0. Typed /\ BlinksCount
  BY DEF PInv
<1> DEFINE Line == [pc : {"off", "waiting", "dialing", "joined", "open"}, cut : BOOLEAN]
<1>1. ASSUME UNCHANGED <<record, thread, feed, wire, deaf, claim, since>>,
             UNCHANGED <<tokens, granted, posting, saved, reloads>>,
             line' \in Line, line # NoLine, fast' \in 0 .. FastCloses - 1, blinks' \in Nat,
             faults' \in 0 .. MaxFaults, BlinksCount'
      PROVE  PInv'
  <2>1. UNCHANGED <<items, lastSeq>>
    BY <1>1 DEF thread, feed
  <2>2. Typed'
    BY <1>0, <1>1, <2>1 DEF Typed, PageTypeOK
  <2> QED
    BY <1>1, <2>2, QuietKeeps
<1>2. /\ line \in Line /\ fast \in 0 .. FastCloses - 1 /\ blinks \in Nat
      /\ faults \in 0 .. MaxFaults /\ MaxFaults \in Nat /\ FastCloses \in Nat \ {0}
  BY <1>0, PageAssumption DEF Typed, PageTypeOK
<1>3. CASE Dial
  <2>1. line = Waiting /\ line' = [pc |-> "dialing", cut |-> FALSE]
        /\ UNCHANGED <<tokens, claim, fast, blinks, faults>>
    BY <1>3 DEF Dial, server, identity, bounds
  <2>2. line' \in Line /\ line # NoLine /\ ~line'.cut
    BY <2>1 DEF Waiting, NoLine
  <2>3. BlinksCount'
    BY <1>0, <2>1, <2>2 DEF BlinksCount
  <2> QED
    BY <1>1, <1>2, <1>3, <2>1, <2>2, <2>3 DEF Dial, server, identity, bounds
<1>4. CASE Join
  <2>1. line = [pc |-> "dialing", cut |-> FALSE] /\ line' = [line EXCEPT !.pc = "joined"]
        /\ UNCHANGED <<tokens, claim, fast, blinks, faults>>
    BY <1>4 DEF Join, server, identity, bounds
  <2>2. line' \in Line /\ line # NoLine /\ ~line'.cut
    BY <2>1 DEF NoLine
  <2>3. BlinksCount'
    BY <1>0, <2>1, <2>2 DEF BlinksCount
  <2> QED
    BY <1>1, <1>2, <1>4, <2>1, <2>2, <2>3 DEF Join, server, identity, bounds
<1>5. CASE LineOpens
  <2>1. line = [pc |-> "joined", cut |-> FALSE] /\ line' = [line EXCEPT !.pc = "open"]
        /\ fast' = 0 /\ blinks' = 0 /\ UNCHANGED <<tokens, claim, faults>>
    BY <1>5 DEF LineOpens, server, identity, bounds
  <2>2. line' \in Line /\ line # NoLine /\ ~line'.cut
    BY <2>1 DEF NoLine
  <2>3. BlinksCount'
    BY <2>1, <2>2 DEF BlinksCount
  <2> QED
    BY <1>1, <1>2, <1>5, <2>1, <2>2, <2>3 DEF LineOpens, server, identity, bounds
<1>6. CASE Cut
  <2>1. /\ line.pc \in {"dialing", "joined", "open"} /\ ~line.cut /\ faults < MaxFaults
        /\ line' = [line EXCEPT !.cut = TRUE] /\ faults' = faults + 1
        /\ blinks' = IF line.pc # "open" /\ claim \in tokens THEN blinks + 1 ELSE blinks
        /\ UNCHANGED <<tokens, claim, fast>>
    BY <1>6 DEF Cut, server, identity
  <2>2. line' \in Line /\ line # NoLine /\ line'.pc = line.pc
    BY <1>2, <2>1, CutLine DEF NoLine
  <2>3. BlinksCount'
    BY <1>0, <1>2, <2>1, <2>2 DEF BlinksCount
  <2> QED
    BY <1>1, <1>2, <1>6, <2>1, <2>2, <2>3 DEF Cut, server, identity
<1> QED
  BY <1>3, <1>4, <1>5, <1>6

(***************************************************************************)
(* The steps that forget the thread: the claim granted, and the page       *)
(* loaded anew.                                                            *)
(***************************************************************************)
LEMMA AnewSteps ==
  ASSUME PInv, Claimed \/ Reload
  PROVE  PInv'
<1>0. Typed /\ 0 \in 0 .. FastCloses - 1
  BY PageAssumption DEF PInv
<1>1. <<>> \in Seq(Item) /\ Len(<<>>) = 0
  OBVIOUS
<1>2. <<>> \in Seq(1 .. Len(record)) /\ ItemCap \in Nat
  BY PageAssumption
<1>3. CASE Claimed
  <2>1. /\ posting /\ posting' = FALSE /\ saved' = granted /\ claim' = granted
        /\ since' = lastSeq /\ NewThread /\ items' = <<>> /\ line' = Waiting
        /\ fast' = 0 /\ blinks' = 0 /\ wire' = <<>> /\ deaf' = 1 .. Len(record)
        /\ UNCHANGED <<record, tokens, granted, lastSeq, faults, reloads>>
    BY <1>3 DEF Claimed, NewThread, server, feed, bounds
  <2>2. Typed'
    <3>1. /\ items' \in Seq(Item) /\ Len(items') <= ItemCap
          /\ wire' \in Seq(1 .. Len(record'))
      BY <1>1, <1>2, <2>1
    <3>2. line' \in [pc : {"off", "waiting", "dialing", "joined", "open"}, cut : BOOLEAN]
      BY <2>1 DEF Waiting
    <3>3. /\ granted # 0 /\ granted \in 0 .. granted /\ lastSeq \in Nat /\ claim' # NoToken
      BY <1>0, <2>1 DEF Typed, PageTypeOK, NoToken
    <3> QED
      BY <1>0, <2>1, <3>1, <3>2, <3>3 DEF Typed, PageTypeOK
  <2>3. BlinksCount'
    BY <2>1 DEF BlinksCount, Waiting
  <2>4. lastSeq \in Nat
    BY <1>0 DEF Typed, PageTypeOK
  <2>5. FeedShows' /\ LineShows'
    BY <2>1, <2>4 DEF FeedShows, LineShows
  <2> QED
    BY <2>1, <2>2, <2>3, <2>5, AnewKeeps
<1>4. CASE Reload
  <2>1. /\ reloads < MaxReloads /\ reloads' = reloads + 1 /\ NewThread /\ items' = <<>>
        /\ lastSeq' = 0 /\ posting' = FALSE /\ claim' = saved /\ since' = 0
        /\ line' = (IF saved = NoToken THEN NoLine ELSE Waiting)
        /\ fast' = 0 /\ blinks' = 0 /\ wire' = <<>> /\ deaf' = 1 .. Len(record)
        /\ UNCHANGED <<record, tokens, granted, saved, faults>>
    BY <1>4 DEF Reload, NewThread, server
  <2>2. ~line'.cut /\ line' \in [pc : {"off", "waiting", "dialing", "joined", "open"}, cut : BOOLEAN]
    BY <2>1 DEF Waiting, NoLine
  <2>3. Typed'
    <3>1. /\ items' \in Seq(Item) /\ Len(items') <= ItemCap
          /\ wire' \in Seq(1 .. Len(record'))
      BY <1>1, <1>2, <2>1
    <3>2. reloads' \in 0 .. MaxReloads /\ Len(record) \in Nat
      BY <1>0, <2>1, PageAssumption DEF Typed, PageTypeOK
    <3>3. claim' = NoToken => items' = <<>> /\ line' = NoLine
      BY <2>1
    <3>4. lastSeq' \in 0 .. Len(record') /\ since' \in 0 .. Len(record') /\ claim' \in 0 .. granted
      BY <1>0, <2>1, <3>2 DEF Typed, PageTypeOK
    <3> QED
      BY <1>0, <2>1, <2>2, <3>1, <3>2, <3>3, <3>4 DEF Typed, PageTypeOK
  <2>4. BlinksCount'
    BY <2>1, <2>2 DEF BlinksCount
  <2>5. FeedShows' /\ LineShows'
    BY <2>1 DEF FeedShows, LineShows
  <2> QED
    BY <2>1, <2>3, <2>4, <2>5, AnewKeeps
<1> QED
  BY <1>3, <1>4

-----------------------------------------------------------------------------
(***************************************************************************)
(* The asks on the line.                                                   *)
(***************************************************************************)
LEMMA WireFacts ==
  ASSUME NEW n \in Nat, NEW w \in Seq(1 .. n)
  PROVE  /\ w \in Seq(1 .. n + 1) /\ ToSet(w) \subseteq 1 .. n
         /\ Append(w, n + 1) \in Seq(1 .. n + 1)
         /\ ToSet(Append(w, n + 1)) = ToSet(w) \cup {n + 1}
         /\ w # <<>> => /\ Head(w) \in 1 .. n /\ Tail(w) \in Seq(1 .. n)
                        /\ ToSet(w) = {Head(w)} \cup ToSet(Tail(w))
<1>1. w \in [1 .. Len(w) -> 1 .. n] /\ Len(w) \in Nat
  OBVIOUS
<1>2. w \in [1 .. Len(w) -> 1 .. n + 1]
  BY <1>1
<1>3. w \in Seq(1 .. n + 1) /\ n + 1 \in 1 .. n + 1
  BY <1>1, <1>2, SeqDef
<1>4. ToSet(w) \subseteq 1 .. n
  BY <1>1 DEF ToSet
<1>5. /\ Append(w, n + 1) \in Seq(1 .. n + 1) /\ Len(Append(w, n + 1)) = Len(w) + 1
      /\ Append(w, n + 1)[Len(w) + 1] = n + 1
      /\ \A i \in 1 .. Len(w) : Append(w, n + 1)[i] = w[i]
  BY <1>3, AppendProperties
<1>6. ToSet(Append(w, n + 1)) = ToSet(w) \cup {n + 1}
  <2> DEFINE a == Append(w, n + 1)
  <2>1. DOMAIN a = 1 .. Len(w) + 1 /\ DOMAIN w = 1 .. Len(w)
    BY <1>1, <1>5
  <2> HIDE DEF a
  <2>2. \A x : (\E i \in DOMAIN a : a[i] = x) <=> (x = n + 1 \/ \E i \in DOMAIN w : w[i] = x)
    BY <1>1, <1>5, <2>1 DEF a
  <2> QED
    BY <2>2 DEF ToSet, a
<1>7. ASSUME w # <<>>
      PROVE  /\ Head(w) \in 1 .. n /\ Tail(w) \in Seq(1 .. n)
             /\ ToSet(w) = {Head(w)} \cup ToSet(Tail(w))
  <2> DEFINE t == Tail(w)
  <2>1. /\ Head(w) \in 1 .. n /\ t \in Seq(1 .. n) /\ Len(t) = Len(w) - 1
        /\ Head(w) = w[1] /\ \A i \in 1 .. Len(t) : t[i] = w[i + 1]
    BY <1>7, HeadTailProperties
  <2>2. DOMAIN w = 1 .. Len(w) /\ DOMAIN t = 1 .. Len(w) - 1 /\ Len(w) >= 1
    BY <1>1, <1>7, <2>1
  <2> HIDE DEF t
  <2>3. \A x : (\E i \in DOMAIN w : w[i] = x) <=> (x = Head(w) \/ \E i \in DOMAIN t : t[i] = x)
    <3> SUFFICES ASSUME NEW x
                 PROVE  (\E i \in DOMAIN w : w[i] = x)
                          <=> (x = Head(w) \/ \E i \in DOMAIN t : t[i] = x)
      OBVIOUS
    <3>0. Len(w) \in Nat
      BY <1>1
    <3>1. ASSUME NEW i \in DOMAIN w, w[i] = x, i # 1 PROVE \E j \in DOMAIN t : t[j] = x
      <4>1. i - 1 \in 1 .. Len(w) - 1 /\ (i - 1) + 1 = i
        BY <2>2, <3>0, <3>1
      <4>2. i - 1 \in DOMAIN t /\ t[i - 1] = w[i]
        BY <2>1, <2>2, <4>1
      <4> QED
        BY <3>1, <4>2
    <3>2. ASSUME NEW j \in DOMAIN t, t[j] = x PROVE \E i \in DOMAIN w : w[i] = x
      <4>0. j \in 1 .. Len(w) - 1 /\ Len(t) = Len(w) - 1
        BY <2>1, <2>2, <3>2
      <4>1. j + 1 \in 1 .. Len(w) /\ j \in 1 .. Len(t)
        BY <3>0, <4>0
      <4>2. j + 1 \in DOMAIN w /\ w[j + 1] = x
        BY <2>1, <2>2, <3>2, <4>1
      <4> QED
        BY <4>2
    <3>3. 1 \in DOMAIN w /\ w[1] = Head(w)
      BY <2>1, <2>2, <3>0
    <3> QED
      BY <3>1, <3>2, <3>3, Zenon
  <2>4. ToSet(w) = {Head(w)} \cup ToSet(t)
    BY <2>3 DEF ToSet
  <2> QED
    BY <2>1, <2>4 DEF t
<1> QED
  BY <1>3, <1>4, <1>5, <1>6, <1>7

(***************************************************************************)
(* The agent's frames: the page has not seen a new one, and an ask is on   *)
(* the line or lost to it.                                                 *)
(***************************************************************************)
LEMMA UtterKeeps ==
  ASSUME PInv, NEW frame \in Frame, Utter(frame)
  PROVE  PInv'
<1> DEFINE n == Len(record)
<1>1. /\ Typed /\ record \in Seq(Frame) /\ n \in Nat /\ wire \in Seq(1 .. n)
      /\ lastSeq \in 0 .. n /\ since \in 0 .. n
  BY DEF PInv, Typed, PageTypeOK
<1>2. /\ n < MaxRecord /\ record' = Append(record, frame)
      /\ UNCHANGED <<tokens, granted, items, gone, answered, lastSeq, passed, line, fast, blinks,
                     posting, saved, claim, since, faults, reloads>>
  BY DEF Utter, thread, feed, identity, bounds
<1>3. /\ record' \in Seq(Frame) /\ Len(record') = n + 1
      /\ \A i \in 1 .. n : record'[i] = record[i]
      /\ record'[n + 1] = frame
  BY <1>1, <1>2, AppendProperties
<1>4. \/ frame.kind # "ask" /\ wire' = wire /\ deaf' = deaf
      \/ frame.kind = "ask" /\ wire' = Append(wire, n + 1) /\ deaf' = deaf
      \/ frame.kind = "ask" /\ wire' = wire /\ deaf' = deaf \cup {n + 1}
  BY DEF Utter
<1> HIDE DEF n
<1>5. /\ wire \in Seq(1 .. n + 1) /\ ToSet(wire) \subseteq 1 .. n
      /\ Append(wire, n + 1) \in Seq(1 .. n + 1)
      /\ ToSet(Append(wire, n + 1)) = ToSet(wire) \cup {n + 1}
  BY <1>1, WireFacts
<1>6. Typed'
  <2>1. wire' \in Seq(1 .. Len(record'))
    BY <1>3, <1>4, <1>5
  <2>2. /\ Len(record') <= MaxRecord /\ lastSeq' \in 0 .. Len(record')
        /\ since' \in 0 .. Len(record')
    BY <1>1, <1>2, <1>3, PageAssumption
  <2> QED
    BY <1>1, <1>2, <1>3, <2>1, <2>2 DEF Typed, PageTypeOK
<1>7. Origins'
  <2> SUFFICES ASSUME NEW i \in DOMAIN items PROVE StandsFor(items[i])'
    BY <1>2 DEF Origins
  <2>1. StandsFor(items[i])
    BY DEF PInv, Origins
  <2> QED
    BY <1>1, <1>2, <1>3, <2>1 DEF StandsFor, n
<1>8. AnswersStay' /\ PromptedOnce'
  BY <1>2 DEF PInv, AnswersStay, PromptedOnce
<1>9. NoGhostPrompt'
  <2> SUFFICES ASSUME NEW i \in DOMAIN items, Open(items[i]),
                      items[i].id \notin passed \cup gone,
                      NEW seq \in (items[i].id + 1 .. lastSeq) \ passed, Concludes(record'[seq])
               PROVE  record'[seq].exc # items[i].exc
    BY <1>2 DEF NoGhostPrompt
  <2>1. items[i].id \in 1 .. n
    BY DEF PInv, Origins, StandsFor, n
  <2>2. record'[seq] = record[seq]
    BY <1>1, <1>3, <2>1
  <2> QED
    BY <2>2 DEF PInv, NoGhostPrompt
<1>10. OnWire'
  <2> SUFFICES ASSUME NEW id \in ToSet(wire') PROVE id > since /\ record'[id].kind = "ask"
    BY <1>2 DEF OnWire
  <2>1. CASE id \in ToSet(wire)
    BY <1>3, <1>5, <2>1 DEF PInv, OnWire
  <2>2. CASE id = n + 1 /\ frame.kind = "ask"
    BY <1>1, <1>3, <2>2
  <2> QED
    BY <1>4, <1>5, <2>1, <2>2
<1>11. \A id : Shown(id)' <=> Shown(id)
  BY <1>2 DEF Shown, Prompted
<1>12. FeedShows'
  <2> SUFFICES ASSUME claim # NoToken, NEW id \in since + 1 .. lastSeq,
                      record'[id].kind = "ask"
               PROVE  Shown(id) \/ id \in passed
    BY <1>2, <1>11 DEF FeedShows
  <2>1. record'[id] = record[id]
    BY <1>1, <1>3
  <2> QED
    BY <2>1 DEF PInv, FeedShows
<1>13. LineShows'
  <2> SUFFICES ASSUME claim # NoToken, NEW id \in since + 1 .. n + 1,
                      record'[id].kind = "ask", record'[id].exc # NoExc
               PROVE  Shown(id) \/ id \in ToSet(wire') \/ id \in deaf'
    BY <1>2, <1>3, <1>11 DEF LineShows
  <2>1. CASE id = n + 1
    BY <1>3, <1>4, <1>5, <2>1
  <2>2. CASE id # n + 1
    <3>1. id \in since + 1 .. n /\ record'[id] = record[id]
      BY <1>1, <1>3, <2>2
    <3>2. Shown(id) \/ id \in ToSet(wire) \/ id \in deaf
      BY <3>1 DEF PInv, LineShows, n
    <3> QED
      BY <1>4, <1>5, <3>2
  <2> QED
    BY <2>1, <2>2
<1>14. BlinksCount'
  BY <1>2 DEF PInv, BlinksCount
<1> QED
  BY <1>6, <1>7, <1>8, <1>9, <1>10, <1>12, <1>13, <1>14 DEF PInv

-----------------------------------------------------------------------------
(***************************************************************************)
(* A prompt still open in the next thread was open before, or is new.      *)
(***************************************************************************)
LEMMA OpenHeirs ==
  ASSUME NEW its, NEW new, CarriesOn(its, new), NEW i \in DOMAIN its, Open(its[i])
  PROVE  \/ its[i] \in new
         \/ \E k \in DOMAIN items :
              Open(items[k]) /\ items[k].id = its[i].id /\ items[k].exc = its[i].exc
BY DEF CarriesOn, Heir, Open

(***************************************************************************)
(* A thread with a claim, after a step that leaves claim and line alone.   *)
(***************************************************************************)
LEMMA ThreadTyped ==
  ASSUME Typed, items' \in Seq(Item), Len(items') <= ItemCap,
         claim = NoToken => items' = <<>>,
         wire' \in Seq(1 .. Len(record)), lastSeq' \in 0 .. Len(record),
         UNCHANGED <<record, tokens, granted, posting, saved, claim, since, line, fast, blinks,
                     faults, reloads>>
  PROVE  Typed'
BY DEF Typed, PageTypeOK

(***************************************************************************)
(* A prompt comes on the line.                                             *)
(***************************************************************************)
LEMMA LineMessageKeeps ==
  ASSUME PInv, LineMessage
  PROVE  PInv'
<1>0. PICK h : h = Head(wire)
  OBVIOUS
<1> DEFINE skip == record[h].exc = NoExc \/ Prompted(items, h)
           its == IF skip THEN items ELSE appendItem(items, Prompt(h))
           new == IF skip THEN {} ELSE {Prompt(h)}
<1>1. /\ line.pc = "open" /\ wire # <<>> /\ wire' = Tail(wire) /\ Thread(its)
      /\ UNCHANGED <<record, tokens, granted, lastSeq, passed, line, fast, blinks, deaf,
                     posting, saved, claim, since, faults, reloads>>
  BY <1>0 DEF LineMessage, server, feed, identity, bounds
<1>2. /\ Typed /\ wire \in Seq(1 .. Len(record)) /\ Len(record) \in Nat
      /\ items \in Seq(Item) /\ Len(items) <= ItemCap /\ OneOfEach(items)
      /\ lastSeq \in 0 .. Len(record) /\ since \in Nat
  BY DEF PInv, Typed, PageTypeOK, PromptedOnce, OneOfEach
<1>3. /\ h \in 1 .. Len(record) /\ Tail(wire) \in Seq(1 .. Len(record))
      /\ ToSet(wire) = {h} \cup ToSet(Tail(wire))
  BY <1>0, <1>1, <1>2, WireFacts
<1>4. h > since /\ record[h].kind = "ask"
  BY <1>3 DEF PInv, OnWire
<1>5. claim # NoToken
  BY <1>1, <1>2 DEF Typed, PageTypeOK, NoLine
<1>6. CarriesOn(items, {})
  BY <1>2, CarriesItself
<1>7. /\ CarriesOn(its, new) /\ new \in SUBSET Item
      /\ \A it \in new : /\ it = Prompt(h) /\ ~skip /\ it.id = h /\ it.kind = "consent"
                         /\ StandsFor(it)' /\ ~it.answered /\ it.id \notin Ids(items)
  <2>1. CASE skip
    BY <1>6, <2>1
  <2>2. CASE ~skip
    <3>1. /\ Prompt(h) \in Item /\ h \notin Ids(items) /\ StandsFor(Prompt(h))
          /\ Prompt(h).id = h /\ Prompt(h).kind = "consent" /\ ~Prompt(h).answered
      BY <1>3, <1>4, <2>2, NewPrompt
    <3>2. CarriesOn(appendItem(items, Prompt(h)), {Prompt(h)})
      BY <1>6, <3>1, CarriesAppended
    <3>3. \A it \in {Prompt(h)} : StandsFor(it)'
      BY <1>1, <3>1 DEF StandsFor
    <3> QED
      BY <2>2, <3>1, <3>2, <3>3
  <2> QED
    BY <2>1, <2>2
<1> HIDE DEF its, new, skip
<1>8. /\ items' \in Seq(Item) /\ Len(items') <= ItemCap
      /\ Origins' /\ AnswersStay' /\ PromptedOnce'
      /\ \A id : Shown(id) => Shown(id)'
      /\ \A it \in new : it.kind = "consent" => Shown(it.id)'
  BY <1>1, <1>2, <1>7, ThreadKeeps
<1>9. Typed'
  BY <1>1, <1>2, <1>3, <1>5, <1>8, ThreadTyped
<1>10. Shown(h)' \/ record[h].exc = NoExc
  <2>1. CASE skip
    BY <1>8, <2>1 DEF skip, Shown
  <2>2. CASE ~skip
    BY <1>7, <1>8, <2>2 DEF new
  <2> QED
    BY <2>1, <2>2
<1>11. items' = its /\ \A id \in gone : id \in gone'
  BY <1>1 DEF Thread
<1>12. NoGhostPrompt'
  <2> SUFFICES ASSUME NEW i \in DOMAIN its, Open(its[i]),
                      its[i].id \notin passed \cup gone',
                      NEW seq \in (its[i].id + 1 .. lastSeq) \ passed, Concludes(record[seq])
               PROVE  record[seq].exc # its[i].exc
    BY <1>1, <1>11 DEF NoGhostPrompt
  <2>1. CASE its[i] \in new
    <3>1. its[i].id = h /\ ~Prompted(items, h) /\ h \in Nat
      BY <1>3, <1>7, <2>1 DEF skip
    <3>2. h \in since + 1 .. lastSeq
      BY <1>2, <1>4, <3>1
    <3>3. Shown(h) \/ h \in passed
      BY <1>4, <1>5, <3>2 DEF PInv, FeedShows
    <3> QED
      BY <1>11, <3>1, <3>3 DEF Shown
  <2>2. CASE its[i] \notin new
    <3>1. PICK k \in DOMAIN items :
            Open(items[k]) /\ items[k].id = its[i].id /\ items[k].exc = its[i].exc
      BY <1>7, <2>2, OpenHeirs
    <3> QED
      BY <1>11, <3>1 DEF PInv, NoGhostPrompt
  <2> QED
    BY <2>1, <2>2
<1>13. OnWire'
  BY <1>1, <1>3 DEF PInv, OnWire
<1>14. FeedShows'
  BY <1>1, <1>8 DEF PInv, FeedShows
<1>15. LineShows'
  <2> SUFFICES ASSUME NEW id \in since + 1 .. Len(record),
                      record[id].kind = "ask", record[id].exc # NoExc
               PROVE  Shown(id)' \/ id \in ToSet(Tail(wire)) \/ id \in deaf
    BY <1>1 DEF LineShows
  <2>1. Shown(id) \/ id \in ToSet(wire) \/ id \in deaf
    BY <1>5 DEF PInv, LineShows
  <2> QED
    BY <1>3, <1>8, <1>10, <2>1
<1>16. BlinksCount'
  BY <1>1 DEF PInv, BlinksCount
<1> QED
  BY <1>8, <1>9, <1>12, <1>13, <1>14, <1>15, <1>16 DEF PInv

(***************************************************************************)
(* The line closes: a dial that failed counts, the claim may lapse.        *)
(***************************************************************************)
LEMMA LineClosesKeeps ==
  ASSUME PInv, LineCloses
  PROVE  PInv'
<1>1. /\ Typed /\ BlinksCount /\ wire \in Seq(1 .. Len(record)) /\ Len(record) \in Nat
      /\ fast \in 0 .. FastCloses - 1 /\ blinks \in Nat /\ FastCloses \in Nat \ {0}
      /\ items \in Seq(Item) /\ Len(items) <= ItemCap
  BY PageAssumption DEF PInv, Typed, PageTypeOK
<1>2. <<>> \in Seq(1 .. Len(record)) /\ ToSet(<<>>) = {}
  BY DEF ToSet
<1>3. claim # NoToken
  BY <1>1 DEF LineCloses, Closing, Typed, PageTypeOK, NoLine
<1>4. claim \in tokens /\ line.pc # "open" => blinks > fast
  BY <1>1 DEF LineCloses, Closing, BlinksCount
<1>5. ASSUME Requeue, fast' \in 0 .. FastCloses - 1, claim \in tokens => blinks >= fast'
      PROVE  PInv'
  <2>1. /\ line' = Waiting /\ deaf' = deaf \cup ToSet(wire) /\ wire' = <<>>
        /\ UNCHANGED <<record, tokens, granted, items, gone, answered, lastSeq, passed, blinks,
                       posting, saved, claim, since, faults, reloads>>
    BY <1>5 DEF Requeue, Silent, server, thread, feed, identity, bounds
  <2>2. ~line'.cut /\ line' \in [pc : {"off", "waiting", "dialing", "joined", "open"}, cut : BOOLEAN]
    BY <2>1 DEF Waiting
  <2>3. wire' \in Seq(1 .. Len(record'))
    BY <1>2, <2>1
  <2>4. Typed'
    BY <1>1, <1>3, <1>5, <2>1, <2>2, <2>3 DEF Typed, PageTypeOK
  <2>5. BlinksCount'
    BY <1>5, <2>1, <2>2 DEF BlinksCount
  <2>6. \A id : Shown(id)' <=> Shown(id)
    BY <2>1 DEF Shown, Prompted
  <2>7. Origins' /\ AnswersStay' /\ PromptedOnce' /\ NoGhostPrompt'
    BY <2>1 DEF PInv, Origins, StandsFor, AnswersStay, PromptedOnce, NoGhostPrompt
  <2>8. OnWire' /\ FeedShows' /\ LineShows'
    BY <1>2, <2>1, <2>6 DEF PInv, OnWire, FeedShows, LineShows
  <2> QED
    BY <2>4, <2>5, <2>7, <2>8 DEF PInv
<1>6. ASSUME Lapse PROVE PInv'
  <2>1. /\ saved' = NoToken /\ claim' = NoToken /\ NewThread /\ items' = <<>>
        /\ line' = NoLine /\ fast' = 0 /\ wire' = <<>>
        /\ UNCHANGED <<record, tokens, granted, lastSeq, passed, blinks, posting, since, faults,
                       reloads>>
    BY <1>6 DEF Lapse, Silent, NewThread, server, feed, bounds
  <2>2. ~line'.cut /\ line' \in [pc : {"off", "waiting", "dialing", "joined", "open"}, cut : BOOLEAN]
    BY <2>1 DEF NoLine
  <2>3. Typed'
    <3>1. /\ items' \in Seq(Item) /\ Len(items') <= ItemCap
          /\ wire' \in Seq(1 .. Len(record'))
      <4>1. <<>> \in Seq(Item) /\ Len(<<>>) = 0
        OBVIOUS
      <4> QED
        BY <1>2, <2>1, <4>1, PageAssumption
    <3>2. saved' \in 0 .. granted' /\ claim' \in 0 .. granted' /\ fast' \in 0 .. FastCloses - 1
      BY <1>1, <2>1 DEF Typed, PageTypeOK, NoToken
    <3> QED
      BY <1>1, <2>1, <2>2, <3>1, <3>2 DEF Typed, PageTypeOK
  <2>4. BlinksCount' /\ FeedShows' /\ LineShows'
    BY <1>1, <2>1, <2>2 DEF BlinksCount, FeedShows, LineShows
  <2> QED
    BY <2>1, <2>3, <2>4, AnewKeeps
<1>7. CASE line.pc = "open" /\ Requeue /\ UNCHANGED fast
  BY <1>1, <1>5, <1>7 DEF BlinksCount
<1>8. CASE line.pc # "open" /\ fast + 1 < FastCloses /\ Requeue /\ fast' = fast + 1
  BY <1>1, <1>4, <1>5, <1>8
<1> QED
  BY <1>6, <1>7, <1>8 DEF LineCloses

-----------------------------------------------------------------------------
(***************************************************************************)
(* A frame comes on the feed.  The thread carries on with at most the      *)
(* frame's own item, and shows no open prompt of what the frame concluded. *)
(***************************************************************************)
LEMMA ReduceCarries ==
  ASSUME PInv, NEW seq \in lastSeq + 1 .. Len(record), NEW its \in Reduce(seq)
  PROVE  \E new \in SUBSET Item :
           /\ CarriesOn(its, new)
           /\ \A it \in new :
                /\ it.id = seq /\ it.id \notin Ids(items) /\ ~it.answered
                /\ it.kind = "consent" => record[seq].kind = "ask"
                /\ it.kind = "bubble" => record[seq].kind # "ask"
           /\ claim # NoToken /\ record[seq].kind = "ask" =>
                Prompted(items, seq) \/ \E it \in new : it.kind = "consent"
           /\ claim = NoToken => its = items
           /\ Concludes(record[seq]) =>
                \A i \in DOMAIN its : Open(its[i]) => its[i].exc # record[seq].exc
<1> DEFINE frame == record[seq]
           r == Resolved(frame)
<1>1. /\ items \in Seq(Item) /\ Len(items) <= ItemCap /\ OneOfEach(items)
      /\ lastSeq \in Nat /\ Len(record) \in Nat /\ record \in Seq(Frame)
      /\ claim = NoToken => items = <<>>
  BY DEF PInv, Typed, PageTypeOK, PromptedOnce, OneOfEach
<1>2. seq \in 1 .. Len(record) /\ frame \in Frame
  BY <1>1
<1>3. CarriesOn(items, {})
  BY <1>1, CarriesItself
<1>4. CASE claim = NoToken
  <2>1. its = items /\ DOMAIN its = {}
    BY <1>1, <1>4 DEF Reduce
  <2> QED
    BY <1>3, <1>4, <2>1
<1>5. CASE claim # NoToken /\ frame.kind = "ask"
  <2>1. ~Concludes(frame)
    BY <1>5 DEF Concludes
  <2>2. CASE Prompted(items, seq)
    <3>1. its = items
      BY <1>5, <2>2 DEF Reduce
    <3> QED
      BY <1>3, <1>5, <2>1, <2>2, <3>1
  <2>3. CASE ~Prompted(items, seq)
    <3>1. its = appendItem(items, Prompt(seq))
      BY <1>5, <2>3 DEF Reduce
    <3>2. /\ Prompt(seq) \in Item /\ seq \notin Ids(items)
          /\ Prompt(seq).id = seq /\ Prompt(seq).kind = "consent" /\ ~Prompt(seq).answered
      BY <1>2, <1>5, <2>3, NewPrompt
    <3>3. CarriesOn(its, {Prompt(seq)})
      BY <1>3, <3>1, <3>2, CarriesAppended
    <3> {Prompt(seq)} \in SUBSET Item
      BY <3>2
    <3> WITNESS {Prompt(seq)} \in SUBSET Item
    <3> QED
      BY <1>5, <2>1, <3>2, <3>3
  <2> QED
    BY <2>2, <2>3
<1>6. CASE claim # NoToken /\ frame.kind # "ask"
  <2>1. its \in {r, appendItem(r, Bubble(seq))}
    BY <1>6 DEF Reduce
  <2>2. /\ CarriesOn(r, {})
        /\ Concludes(frame) =>
             \A i \in DOMAIN r : r[i].kind = "consent" /\ r[i].exc = frame.exc => r[i].answered
    <3>1. CASE Concludes(frame)
      <4>1. r = resolveConsents(items, frame.exc)
        BY <3>1 DEF Resolved
      <4> HIDE DEF r
      <4>2. CarriesOn(r, {})
        BY <1>1, <4>1, CarriesResolved
      <4>3. DOMAIN r = DOMAIN items
            /\ \A i \in DOMAIN items : r[i].kind = "consent" /\ r[i].exc = frame.exc => r[i].answered
        BY <1>1, <4>1, ResolveFacts
      <4> QED
        BY <4>2, <4>3
    <3>2. CASE ~Concludes(frame)
      BY <1>3, <3>2 DEF Resolved
    <3> QED
      BY <3>1, <3>2
  <2>3. /\ Bubble(seq) \in Item /\ Bubble(seq).id = seq /\ Bubble(seq).kind = "bubble"
        /\ ~Bubble(seq).answered
    BY <1>2 DEF Bubble, Item
  <2>4. seq \notin Ids(items)
    <3> SUFFICES ASSUME NEW i \in DOMAIN items, items[i].id = seq PROVE FALSE
      BY DEF Ids
    <3>1. items[i] \in Item /\ StandsFor(items[i])
      BY <1>1 DEF PInv, Origins
    <3>2. items[i].kind = "bubble" /\ items[i].id <= lastSeq
      BY <1>6, <3>1 DEF StandsFor, Item
    <3> QED
      BY <1>1, <1>2, <3>2
  <2> HIDE DEF r
  <2>5. CASE its = r
    <3>1. \A i \in DOMAIN its : Open(its[i]) /\ Concludes(frame) => its[i].exc # frame.exc
      BY <2>2, <2>5 DEF Open
    <3> QED
      BY <1>6, <2>2, <2>5, <3>1
  <2>6. CASE its = appendItem(r, Bubble(seq))
    <3>1. CarriesOn(its, {Bubble(seq)})
      BY <2>2, <2>3, <2>4, <2>6, CarriesAppended
    <3>2. r \in Seq(Item) /\ Len(r) <= ItemCap /\ its \in Seq(Item)
      BY <2>2, <3>1 DEF CarriesOn
    <3>3. \A i \in DOMAIN its : its[i] = Bubble(seq) \/ \E j \in DOMAIN r : its[i] = r[j]
      <4>1. /\ its[Len(its)] = Bubble(seq) /\ Len(its) \in Nat /\ Len(r) \in Nat
            /\ \E d \in {0, 1} :
                 /\ Len(its) = Len(r) + 1 - d
                 /\ \A i \in 1 .. Len(its) - 1 : its[i] = r[i + d]
        <5> DEFINE a == appendItem(r, Bubble(seq))
        <5>1. /\ a \in Seq(Item) /\ Len(a) <= ItemCap /\ Len(a) >= 1
              /\ a[Len(a)] = Bubble(seq)
              /\ \E d \in {0, 1} :
                   /\ Len(a) = Len(r) + 1 - d
                   /\ \A i \in 1 .. Len(a) - 1 : a[i] = r[i + d]
          BY <2>3, <3>2, AppendFacts
        <5>2. its = a
          BY <2>6
        <5> HIDE DEF a
        <5>3. Len(a) \in Nat /\ Len(r) \in Nat
          BY <3>2, <5>1
        <5> QED
          BY <5>1, <5>2, <5>3, Zenon
      <4>2. PICK d \in {0, 1} :
              /\ Len(its) = Len(r) + 1 - d
              /\ \A i \in 1 .. Len(its) - 1 : its[i] = r[i + d]
        BY <4>1
      <4>3. ASSUME NEW i \in DOMAIN its, i # Len(its) PROVE \E j \in DOMAIN r : its[i] = r[j]
        <5>1. i \in 1 .. Len(its) - 1
          BY <3>2, <4>1, <4>3
        <5>2. i + d \in DOMAIN r /\ its[i] = r[i + d]
          <6>0. /\ Len(its) \in Nat /\ Len(r) \in Nat /\ Len(its) = Len(r) + 1 - d
                /\ DOMAIN r = 1 .. Len(r)
            BY <3>2, <4>2
          <6>1. i + d \in 1 .. Len(r) /\ DOMAIN r = 1 .. Len(r)
            BY <5>1, <6>0
          <6> QED
            BY <4>2, <5>1, <6>1
        <5> QED
          BY <5>2
      <4> QED
        BY <4>1, <4>3
    <3>4. \A i \in DOMAIN its : Open(its[i]) /\ Concludes(frame) => its[i].exc # frame.exc
      BY <2>2, <2>3, <3>3 DEF Open
    <3> {Bubble(seq)} \in SUBSET Item
      BY <2>3
    <3> WITNESS {Bubble(seq)} \in SUBSET Item
    <3> QED
      BY <1>6, <2>3, <2>4, <3>1, <3>4
  <2> QED
    BY <2>1, <2>5, <2>6
<1> QED
  BY <1>4, <1>5, <1>6

LEMMA FrameKeeps ==
  ASSUME PInv, FrameArrives
  PROVE  PInv'
<1>1. PICK seq \in lastSeq + 1 .. Len(record) :
        /\ \E its \in Reduce(seq) : Thread(its)
        /\ lastSeq' = seq /\ passed' = passed \cup (lastSeq + 1 .. seq - 1)
        /\ UNCHANGED <<server, private, identity, bounds>>
  BY DEF FrameArrives
<1>2. PICK its \in Reduce(seq) : Thread(its)
  BY <1>1
<1>3. PICK new \in SUBSET Item :
        /\ CarriesOn(its, new)
        /\ \A it \in new :
             /\ it.id = seq /\ it.id \notin Ids(items) /\ ~it.answered
             /\ it.kind = "consent" => record[seq].kind = "ask"
             /\ it.kind = "bubble" => record[seq].kind # "ask"
        /\ claim # NoToken /\ record[seq].kind = "ask" =>
             Prompted(items, seq) \/ \E it \in new : it.kind = "consent"
        /\ claim = NoToken => its = items
        /\ Concludes(record[seq]) =>
             \A i \in DOMAIN its : Open(its[i]) => its[i].exc # record[seq].exc
  BY ReduceCarries
<1>4. UNCHANGED <<record, tokens, granted, line, fast, wire, blinks, deaf, posting, saved, claim,
                  since, faults, reloads>>
  BY <1>1 DEF server, private, identity, bounds
<1>5. /\ Typed /\ lastSeq \in 0 .. Len(record) /\ Len(record) \in Nat /\ since \in Nat
      /\ claim = NoToken => items = <<>>
      /\ wire \in Seq(1 .. Len(record))
  BY DEF PInv, Typed, PageTypeOK
<1>6. seq \in 1 .. Len(record) /\ lastSeq' = seq /\ seq >= lastSeq /\ seq \in Nat
  BY <1>1, <1>5
<1>7. \A it \in new : StandsFor(it)' /\ ~it.answered /\ it.id \notin Ids(items)
  BY <1>3, <1>4, <1>6 DEF StandsFor
<1>8. /\ items' \in Seq(Item) /\ Len(items') <= ItemCap
      /\ Origins' /\ AnswersStay' /\ PromptedOnce'
      /\ \A id : Shown(id) => Shown(id)'
      /\ \A it \in new : it.kind = "consent" => Shown(it.id)'
  BY <1>2, <1>3, <1>4, <1>6, <1>7, ThreadKeeps
<1>9. items' = its /\ \A id \in gone : id \in gone'
  BY <1>2 DEF Thread
<1>10. Typed'
  BY <1>3, <1>4, <1>5, <1>6, <1>8, <1>9, ThreadTyped
<1>11. NoGhostPrompt'
  <2> SUFFICES ASSUME NEW i \in DOMAIN its, Open(its[i]),
                      its[i].id \notin passed' \cup gone',
                      NEW n \in (its[i].id + 1 .. seq) \ passed', Concludes(record[n])
               PROVE  record[n].exc # its[i].exc
    BY <1>4, <1>6, <1>9 DEF NoGhostPrompt
  <2>1. CASE n = seq
    BY <1>3, <2>1
  <2>2. CASE n # seq
    <3>0. its[i].id \in 1 .. Len(record)
      BY <1>4, <1>8, <1>9 DEF Origins, StandsFor
    <3>1. n \in Nat /\ n < seq /\ n > its[i].id
      BY <1>6, <2>2, <3>0
    <3>2. n \notin lastSeq + 1 .. seq - 1 /\ n \notin passed
      BY <1>1
    <3>3. n \in its[i].id + 1 .. lastSeq
      BY <1>5, <1>6, <3>0, <3>1, <3>2
    <3>4. its[i] \notin new
      BY <1>3, <3>1
    <3>5. PICK k \in DOMAIN items :
            Open(items[k]) /\ items[k].id = its[i].id /\ items[k].exc = its[i].exc
      BY <1>3, <3>4, OpenHeirs
    <3>6. items[k].id \notin passed \cup gone
      BY <1>1, <1>9, <3>5
    <3> QED
      BY <3>2, <3>3, <3>5, <3>6 DEF PInv, NoGhostPrompt
  <2> QED
    BY <2>1, <2>2
<1>12. OnWire' /\ BlinksCount'
  BY <1>4 DEF PInv, OnWire, BlinksCount
<1>13. FeedShows'
  <2> SUFFICES ASSUME claim # NoToken, NEW id \in since + 1 .. seq, record[id].kind = "ask"
               PROVE  Shown(id)' \/ id \in passed'
    BY <1>4, <1>6 DEF FeedShows
  <2>1. CASE id = seq
    <3>1. CASE Prompted(items, seq)
      BY <1>8, <2>1, <3>1 DEF Shown
    <3>2. CASE \E it \in new : it.kind = "consent"
      BY <1>3, <1>8, <2>1, <3>2
    <3> QED
      BY <1>3, <2>1, <3>1, <3>2
  <2>2. CASE id \in lastSeq + 1 .. seq - 1
    BY <1>1, <2>2
  <2>3. CASE id \in since + 1 .. lastSeq
    BY <1>1, <1>8, <2>3 DEF PInv, FeedShows
  <2> QED
    BY <1>5, <1>6, <2>1, <2>2, <2>3
<1>14. LineShows'
  BY <1>4, <1>8 DEF PInv, LineShows
<1> QED
  BY <1>8, <1>10, <1>11, <1>12, <1>13, <1>14 DEF PInv

(***************************************************************************)
(* The visitor answers.                                                    *)
(***************************************************************************)
LEMMA AnswerKeeps ==
  ASSUME PInv, Answer
  PROVE  PInv'
<1>1. PICK i \in DOMAIN items :
        /\ Thread(resolveConsents(items, items[i].exc))
        /\ UNCHANGED <<server, feed, private, identity, bounds>>
  BY DEF Answer
<1>2. PICK its : its = resolveConsents(items, items[i].exc)
  OBVIOUS
<1>3. /\ Thread(its)
      /\ UNCHANGED <<record, tokens, granted, lastSeq, passed, line, fast, wire, blinks, deaf,
                     posting, saved, claim, since, faults, reloads>>
  BY <1>1, <1>2 DEF server, feed, private, identity, bounds
<1>4. /\ Typed /\ items \in Seq(Item) /\ Len(items) <= ItemCap /\ OneOfEach(items)
      /\ lastSeq \in 0 .. Len(record) /\ Len(record) \in Nat
      /\ wire \in Seq(1 .. Len(record)) /\ (claim = NoToken => items = <<>>)
  BY DEF PInv, Typed, PageTypeOK, PromptedOnce, OneOfEach
<1>5. CarriesOn(its, {})
  BY <1>2, <1>4, CarriesResolved
<1>6. {} \in SUBSET Item /\ lastSeq' >= lastSeq /\ lastSeq' \in Nat
  BY <1>3, <1>4
<1>7. /\ items' \in Seq(Item) /\ Len(items') <= ItemCap
      /\ Origins' /\ AnswersStay' /\ PromptedOnce'
      /\ \A id : Shown(id) => Shown(id)'
  BY <1>3, <1>5, <1>6, ThreadKeeps
<1>8. claim # NoToken
  BY <1>1, <1>4
<1>9. Typed'
  BY <1>3, <1>4, <1>7, <1>8, ThreadTyped
<1>10. items' = its /\ \A id \in gone : id \in gone'
  BY <1>3 DEF Thread
<1>11. NoGhostPrompt'
  <2> SUFFICES ASSUME NEW j \in DOMAIN its, Open(its[j]),
                      its[j].id \notin passed \cup gone',
                      NEW seq \in (its[j].id + 1 .. lastSeq) \ passed, Concludes(record[seq])
               PROVE  record[seq].exc # its[j].exc
    BY <1>3, <1>10 DEF NoGhostPrompt
  <2>1. PICK k \in DOMAIN items :
          Open(items[k]) /\ items[k].id = its[j].id /\ items[k].exc = its[j].exc
    BY <1>5, OpenHeirs
  <2> QED
    BY <1>10, <2>1 DEF PInv, NoGhostPrompt
<1>12. OnWire' /\ FeedShows' /\ LineShows' /\ BlinksCount'
  BY <1>3, <1>7 DEF PInv, OnWire, FeedShows, LineShows, BlinksCount
<1> QED
  BY <1>7, <1>9, <1>11, <1>12 DEF PInv

-----------------------------------------------------------------------------
LEMMA PageStarts == PageInit => PInv
<1> SUFFICES ASSUME PageInit PROVE PInv
  OBVIOUS
<1>1. <<>> \in Seq(Frame) /\ <<>> \in Seq(Item) /\ Len(<<>>) = 0 /\ DOMAIN <<>> = {}
  OBVIOUS
<1>2. <<>> \in Seq(1 .. Len(record)) /\ ToSet(<<>>) = {}
  BY DEF ToSet
<1>3. NoLine \in [pc : {"off", "waiting", "dialing", "joined", "open"}, cut : BOOLEAN]
  BY DEF NoLine
<1>4. Typed
  <2>1. /\ record = <<>> /\ tokens = {} /\ granted = 0 /\ posting = FALSE /\ saved = 0 /\ claim = 0
        /\ items = <<>> /\ lastSeq = 0 /\ line = NoLine /\ fast = 0 /\ wire = <<>> /\ blinks = 0
        /\ faults = 0 /\ reloads = 0 /\ since = 0
    BY DEF PageInit, NoToken
  <2>2. record \in Seq(Frame) /\ Len(record) = 0 /\ items \in Seq(Item) /\ Len(items) = 0
    BY <1>1, <2>1
  <2>3. wire \in Seq(1 .. Len(record))
    BY <1>2, <2>1
  <2>4. /\ MaxRecord \in Nat /\ MaxClaims \in Nat /\ ItemCap \in Nat /\ MaxFaults \in Nat
        /\ MaxReloads \in Nat /\ 0 \in 0 .. FastCloses - 1
    BY PageAssumption
  <2>5. /\ Len(record) <= MaxRecord /\ Len(items) <= ItemCap
        /\ granted \in 0 .. MaxClaims /\ saved \in 0 .. granted /\ claim \in 0 .. granted
        /\ lastSeq \in 0 .. Len(record) /\ since \in 0 .. Len(record)
        /\ blinks \in Nat /\ faults \in 0 .. MaxFaults /\ reloads \in 0 .. MaxReloads
    BY <2>1, <2>2, <2>4
  <2> QED
    BY <1>3, <2>1, <2>2, <2>3, <2>4, <2>5 DEF Typed, PageTypeOK
<1>5. Origins /\ AnswersStay /\ PromptedOnce /\ NoGhostPrompt
  BY <1>1 DEF PageInit, Origins, AnswersStay, PromptedOnce, NoGhostPrompt
<1>6. OnWire /\ FeedShows /\ LineShows /\ BlinksCount
  BY <1>2 DEF PageInit, OnWire, FeedShows, LineShows, BlinksCount
<1> QED
  BY <1>4, <1>5, <1>6 DEF PInv

LEMMA PageKeeps == PInv /\ [PageNext]_pageVars => PInv'
<1> SUFFICES ASSUME PInv, [PageNext]_pageVars PROVE PInv'
  OBVIOUS
<1>1. CASE UNCHANGED pageVars
  <2>1. UNCHANGED <<record, thread, feed, wire, deaf, claim, since>>
        /\ UNCHANGED <<tokens, granted, posting, saved, line, fast, blinks, faults, reloads>>
    BY <1>1 DEF pageVars, server, private, identity, bounds
  <2>2. UNCHANGED <<items, lastSeq>>
    BY <2>1 DEF thread, feed
  <2>3. Typed' /\ BlinksCount'
    BY <2>1, <2>2 DEF PInv, Typed, PageTypeOK, BlinksCount
  <2> QED
    BY <2>1, <2>3, QuietKeeps
<1>2. CASE \E frame \in Frame : Utter(frame)
  BY <1>2, UtterKeeps
<1>3. CASE Restart \/ Grant \/ PostFails
  BY <1>3, ServerKeeps
<1>4. CASE Claimed \/ Reload
  BY <1>4, AnewSteps
<1>5. CASE Dial \/ Join \/ LineOpens \/ Cut
  BY <1>5, DialKeeps
<1>6. CASE LineMessage
  BY <1>6, LineMessageKeeps
<1>7. CASE LineCloses
  BY <1>7, LineClosesKeeps
<1>8. CASE FrameArrives
  BY <1>8, FrameKeeps
<1>9. CASE Answer
  BY <1>9, AnswerKeeps
<1> QED
  BY <1>1, <1>2, <1>3, <1>4, <1>5, <1>6, <1>7, <1>8, <1>9 DEF PageNext

LEMMA PageHolds == PageSpec => []PInv
<1> QED
  BY PageStarts, PageKeeps, PTL DEF PageSpec

(***************************************************************************)
(* The page's state has the shapes the reducer and the line rely on: a     *)
(* page without a claim has no thread and no line.                         *)
(***************************************************************************)
THEOREM PageTypeCorrect == PageSpec => []PageTypeOK
<1>1. PInv => PageTypeOK
  BY DEF PInv, Typed
<1> QED
  BY <1>1, PageHolds, PTL

(***************************************************************************)
(* However feed and line interleave, an ask is shown once and an answered  *)
(* prompt stays answered.                                                  *)
(***************************************************************************)
THEOREM AsksShownOnce == PageSpec => []PromptedOnce
<1>1. PInv => PromptedOnce
  BY DEF PInv
<1> QED
  BY <1>1, PageHolds, PTL

(***************************************************************************)
(* No prompt waits on an exchange the page has seen closed since the ask.  *)
(***************************************************************************)
THEOREM NoPromptOutlivesItsExchange == PageSpec => []NoGhostPrompt
<1>1. PInv => NoGhostPrompt
  BY DEF PInv
<1> QED
  BY <1>1, PageHolds, PTL

(***************************************************************************)
(* An ask the feed is past was shown, unless the feed skipped it and the   *)
(* line lost it: each of the two makes up for the other.                   *)
(***************************************************************************)
THEOREM AsksReachThePrincipal == PageSpec => []AskReachesPrincipal
<1>1. ASSUME PInv PROVE AskReachesPrincipal
  <2> SUFFICES ASSUME NEW id \in since + 1 .. lastSeq, claim # NoToken,
                      record[id].kind = "ask", record[id].exc # NoExc, id \notin ToSet(wire)
               PROVE  Shown(id) \/ id \in passed \cap deaf
    BY DEF AskReachesPrincipal
  <2>1. since \in Nat /\ lastSeq \in 0 .. Len(record) /\ Len(record) \in Nat
    BY <1>1 DEF PInv, Typed, PageTypeOK
  <2>2. id \in since + 1 .. Len(record)
    BY <2>1
  <2>3. Shown(id) \/ id \in passed
    BY <1>1 DEF PInv, FeedShows
  <2>4. Shown(id) \/ id \in deaf
    BY <1>1, <2>2 DEF PInv, LineShows
  <2> QED
    BY <2>3, <2>4
<1> QED
  BY <1>1, PageHolds, PTL

(***************************************************************************)
(* A claim the gateway still knows is given up only after FastCloses dials *)
(* failed in a row.                                                        *)
(***************************************************************************)
THEOREM ClaimsLapseWhenEarned == PageSpec => LapseIsEarned
<1>1. ASSUME PInv, [PageNext]_pageVars
      PROVE  [GivesUp => claim \notin tokens \/ blinks >= FastCloses]_pageVars
  <2> SUFFICES ASSUME PageNext, GivesUp, claim \in tokens PROVE blinks >= FastCloses
    BY <1>1
  <2>1. claim # NoToken /\ claim' = NoToken /\ reloads' = reloads
    BY DEF GivesUp
  <2>2. /\ fast \in Nat /\ blinks \in Nat /\ FastCloses \in Nat /\ reloads \in Nat
        /\ granted \in Nat /\ posting => granted # 0
    BY <1>1, PageAssumption DEF PInv, Typed, PageTypeOK
  <2>3. CASE LineCloses
    <3>1. line.pc # "open" /\ fast + 1 >= FastCloses
      BY <2>1, <2>3 DEF LineCloses, Requeue, identity
    <3>2. line.cut
      BY <2>3 DEF LineCloses, Closing
    <3>3. blinks > fast
      BY <1>1, <3>1, <3>2 DEF PInv, BlinksCount
    <3> QED
      BY <2>2, <3>1, <3>3
  <2>4. CASE Claimed
    BY <1>1, <2>1, <2>4 DEF Claimed, PInv, Typed, NoToken
  <2>5. CASE Reload
    BY <2>1, <2>2, <2>5 DEF Reload
  <2>6. ASSUME UNCHANGED claim PROVE FALSE
    BY <2>1, <2>6
  <2>7. CASE (\E frame \in Frame : Utter(frame)) \/ Restart \/ Dial \/ Join \/ LineOpens \/ Cut
             \/ LineMessage \/ FrameArrives \/ Answer
    BY <2>6, <2>7 DEF Utter, Restart, Dial, Join, LineOpens, Cut, LineMessage, FrameArrives,
                      Answer, identity
  <2>8. CASE Grant \/ PostFails
    BY <2>6, <2>8 DEF Grant, PostFails
  <2> QED
    BY <2>3, <2>4, <2>5, <2>7, <2>8 DEF PageNext
<1> QED
  BY <1>1, PageHolds, PTL DEF PageSpec, LapseIsEarned
=============================================================================
