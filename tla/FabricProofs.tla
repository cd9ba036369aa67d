---------------------------- MODULE FabricProofs ----------------------------
(***************************************************************************)
(* From Append to the feed: no envelope vanishes, none overtakes another,  *)
(* and the feed shows only what was recorded, whatever the store, the      *)
(* queue and the shutdown do.                                              *)
(***************************************************************************)
EXTENDS OrchestratorProofs, FabricdProperties, Sums

-----------------------------------------------------------------------------
(***************************************************************************)
(* The inductive invariant.  Given counts the envelopes Append has been    *)
(* given; each of them is somewhere in the pipeline, and behind each other *)
(* as they were given: those recorded or failed, then the one in hand,     *)
(* then the queue.  What was dropped is not among them, except for the     *)
(* rest of the queue once the writer is done and will not take it.         *)
(***************************************************************************)
Given == uttSeq - Len(out) + handed

Somewhere == SetOf(queue) \cup InHand \cup SetOf(utterances) \cup dropped \cup failed

Climbs(items) == \A i, j \in DOMAIN items : i < j => items[i].n < items[j].n

Below(A, B) == \A a \in A, b \in B : a.n < b.n

Apart(A, B) == \A a \in A, b \in B : a.n # b.n

PipeTypeOK ==
  /\ handed \in 0 .. Len(out) /\ Len(out) <= uttSeq
  /\ queue \in Seq(Item) /\ Len(queue) <= QueueSize
  /\ dropped \in SUBSET Item /\ failed \in SUBSET Item
  /\ writer \in Writer
  /\ utterances \in Seq(Item)
  /\ feed \in Seq(Nat)
  /\ storeFails \in Nat
  /\ stopping \in BOOLEAN

Covered ==
  /\ \A i \in Somewhere : i.n \in 1 .. Given
  /\ \A n \in 1 .. Given : \E i \in Somewhere : i.n = n

InOrder ==
  /\ Climbs(queue) /\ Climbs(utterances)
  /\ Below(SetOf(utterances) \cup failed, InHand \cup SetOf(queue))
  /\ Below(InHand, SetOf(queue))

DroppedApart ==
  /\ Apart(dropped, SetOf(utterances) \cup InHand)
  /\ writer.pc # "done" => Apart(dropped, SetOf(queue))

Sent ==
  /\ Rising(feed)
  /\ \A i \in DOMAIN feed :
       feed[i] \in DOMAIN utterances /\ utterances[feed[i]] \notin failed

ToSend ==
  writer.pc = "send" =>
    /\ utterances # <<>>
    /\ utterances[Len(utterances)] \notin failed
    /\ \A i \in DOMAIN feed : feed[i] < Len(utterances)

PipeInv == PipeTypeOK /\ Covered /\ InOrder /\ DroppedApart /\ Sent /\ ToSend

RootTypeOK ==
  /\ claims \in [Residents -> {"free", "reserved", "embodied", "held"}]
  /\ shadow \in [Names -> Int]
  /\ DOMAIN index \subseteq Nat \ {0} /\ SetOf(index) \subseteq Names
  /\ consents \in [Calls -> Consent]

FabricInv == IInv /\ PipeInv /\ RootTypeOK

-----------------------------------------------------------------------------
(***************************************************************************)
(* Taking from a queue and adding to a sequence.                           *)
(***************************************************************************)
LEMMA TakeFirst ==
  ASSUME NEW q \in Seq(Item), q # <<>>, Climbs(q)
  PROVE  /\ Head(q) \in Item /\ Tail(q) \in Seq(Item) /\ Len(Tail(q)) = Len(q) - 1
         /\ SetOf(q) = {Head(q)} \cup SetOf(Tail(q))
         /\ Climbs(Tail(q)) /\ Below({Head(q)}, SetOf(Tail(q)))
<1>1. /\ Head(q) \in Item /\ Tail(q) \in Seq(Item) /\ Len(Tail(q)) = Len(q) - 1
      /\ Head(q) = q[1] /\ 1 \in DOMAIN q
      /\ \A i \in DOMAIN Tail(q) : i + 1 \in DOMAIN q /\ Tail(q)[i] = q[i + 1] /\ i \in Nat /\ i > 0
      /\ \A i \in DOMAIN q : i = 1 \/ (i - 1 \in DOMAIN Tail(q) /\ q[i] = Tail(q)[i - 1])
  OBVIOUS
<1>2. SetOf(q) = {Head(q)} \cup SetOf(Tail(q))
  <2>1. ASSUME NEW x \in SetOf(q) PROVE x = Head(q) \/ x \in SetOf(Tail(q))
    <3>1. PICK i \in DOMAIN q : x = q[i]
      BY DEF SetOf
    <3>2. i = 1 \/ (i - 1 \in DOMAIN Tail(q) /\ q[i] = Tail(q)[i - 1])
      BY <1>1, <3>1
    <3>3. Tail(q)[i - 1] \in SetOf(Tail(q)) \/ i - 1 \notin DOMAIN Tail(q)
      BY Zenon DEF SetOf
    <3> QED
      BY <1>1, <3>1, <3>2, <3>3, Zenon
  <2>2. Head(q) \in SetOf(q) /\ \A x \in SetOf(Tail(q)) : x \in SetOf(q)
    BY <1>1 DEF SetOf
  <2> QED
    BY <2>1, <2>2
<1>3. Climbs(Tail(q))
  BY <1>1 DEF Climbs
<1>4. Below({Head(q)}, SetOf(Tail(q)))
  BY <1>1 DEF Climbs, Below, SetOf
<1> QED
  BY <1>1, <1>2, <1>3, <1>4

(***************************************************************************)
(* Append puts the new item behind all others.                             *)
(***************************************************************************)
LEMMA PutLast ==
  ASSUME NEW q \in Seq(Item), NEW x \in Item
  PROVE  /\ Append(q, x) \in Seq(Item) /\ Len(Append(q, x)) = Len(q) + 1
         /\ Append(q, x)[Len(q) + 1] = x
         /\ \A i \in DOMAIN q : i \in DOMAIN Append(q, x) /\ Append(q, x)[i] = q[i]
         /\ SetOf(Append(q, x)) = SetOf(q) \cup {x}
         /\ Climbs(q) /\ Below(SetOf(q), {x}) => Climbs(Append(q, x))
<1>1. /\ Append(q, x) \in Seq(Item) /\ Len(Append(q, x)) = Len(q) + 1
      /\ Append(q, x)[Len(q) + 1] = x
      /\ \A i \in DOMAIN q : i \in DOMAIN Append(q, x) /\ Append(q, x)[i] = q[i]
      /\ \A i \in DOMAIN Append(q, x) : i \in DOMAIN q \/ i = Len(q) + 1
      /\ Len(q) + 1 \in DOMAIN Append(q, x)
      /\ \A i \in DOMAIN q : i \in Nat /\ i < Len(q) + 1
  OBVIOUS
<1>2. SetOf(Append(q, x)) = SetOf(q) \cup {x}
  BY <1>1 DEF SetOf
<1>3. ASSUME Climbs(q), Below(SetOf(q), {x}) PROVE Climbs(Append(q, x))
  <2> SUFFICES ASSUME NEW i \in DOMAIN Append(q, x), NEW j \in DOMAIN Append(q, x), i < j
               PROVE  Append(q, x)[i].n < Append(q, x)[j].n
    BY DEF Climbs
  <2>1. CASE j \in DOMAIN q
    BY <1>1, <1>3, <2>1 DEF Climbs
  <2>2. CASE j = Len(q) + 1
    <3>1. i \in DOMAIN q /\ q[i] \in SetOf(q)
      BY <1>1, <2>2 DEF SetOf
    <3> QED
      BY <1>1, <1>3, <2>2, <3>1 DEF Below
  <2> QED
    BY <1>1, <2>1, <2>2
<1> QED
  BY <1>1, <1>2, <1>3

(***************************************************************************)
(* What the writer holds.                                                  *)
(***************************************************************************)
LEMMA WriterFacts ==
  ASSUME writer \in Writer
  PROVE  /\ writer.pc \in {"store", "send"} =>
              writer.item \in Item /\ Rest(writer) \in {Idle, [pc |-> "draining"]}
         /\ writer.pc = "store" =>
              [writer EXCEPT !.pc = "send"] \in Writer /\ [writer EXCEPT !.pc = "send"].pc = "send"
         /\ InHand \in SUBSET Item
         /\ writer.pc = "store" => InHand = {writer.item}
         /\ writer.pc # "store" => InHand = {}
BY DEF Writer, Idle, Rest, InHand

(***************************************************************************)
(* A writer at rest has nothing in hand.                                   *)
(***************************************************************************)
LEMMA RestingWriter ==
  ASSUME NEW w \in {Idle, [pc |-> "draining"], [pc |-> "done"]}
  PROVE  w \in Writer /\ w.pc \notin {"store", "send"}
BY DEF Writer, Idle

-----------------------------------------------------------------------------
(***************************************************************************)
(* The steps of the pipeline.  Append is given the next envelope.          *)
(***************************************************************************)
LEMMA HandOverKeeps ==
  ASSUME FabricInv, HandOver
  PROVE  PipeInv'
<1> DEFINE x == Offered
<1>0. /\ out \in Seq(Post) /\ uttSeq \in Nat
      /\ handed \in 0 .. Len(out) /\ Len(out) <= uttSeq
      /\ queue \in Seq(Item) /\ utterances \in Seq(Item)
      /\ dropped \in SUBSET Item /\ failed \in SUBSET Item
      /\ handed # Len(out) /\ handed' = handed + 1
      /\ UNCHANGED <<vars, failed, writer, utterances, feed, storeFails, stopping>>
  BY DEF FabricInv, IInv, TypeOK, PipeInv, PipeTypeOK, HandOver, Unlocked
<1>1. Given \in Nat /\ Given' = Given + 1 /\ handed' \in 0 .. Len(out')
  BY <1>0 DEF Given, vars
<1>2. x \in Item /\ x.n = Given + 1
  BY <1>0 DEF Offered, Item, Given
<1>3. InHand' = InHand
  BY <1>0 DEF InHand
<1>4. InHand \in SUBSET Item
  BY WriterFacts DEF FabricInv, PipeInv, PipeTypeOK
<1>5. \A i \in Somewhere : i.n < x.n /\ i.n # x.n
  BY <1>1, <1>2 DEF FabricInv, PipeInv, Covered
<1> HIDE DEF x
<1>6. CASE /\ Len(queue) < QueueSize
           /\ queue' = Append(queue, x) /\ dropped' = dropped
  <2>1. /\ queue' \in Seq(Item) /\ Len(queue') <= QueueSize
        /\ SetOf(queue') = SetOf(queue) \cup {x}
        /\ Climbs(queue')
    <3>1. Climbs(queue) /\ Below(SetOf(queue), {x})
      BY <1>5 DEF Below, Somewhere, FabricInv, PipeInv, InOrder
    <3>2. /\ Append(queue, x) \in Seq(Item) /\ Len(Append(queue, x)) = Len(queue) + 1
          /\ SetOf(Append(queue, x)) = SetOf(queue) \cup {x}
          /\ Climbs(Append(queue, x))
      BY <1>0, <1>2, <3>1, PutLast
    <3> QED
      BY <1>0, <1>6, <3>2, FabricAssumption
  <2>2. Somewhere' = Somewhere \cup {x}
    BY <1>0, <1>3, <1>6, <2>1 DEF Somewhere
  <2>3. PipeTypeOK'
    BY <1>0, <1>1, <1>6, <2>1 DEF PipeTypeOK, FabricInv, PipeInv, vars
  <2>4. InOrder'
    BY <1>0, <1>3, <1>5, <2>1 DEF InOrder, Below, Somewhere, FabricInv, PipeInv
  <2>5. DroppedApart'
    BY <1>0, <1>3, <1>5, <1>6, <2>1 DEF DroppedApart, Apart, Somewhere, FabricInv, PipeInv
  <2> QED
    BY <1>0, <1>1, <1>2, <1>5, <2>2, <2>3, <2>4, <2>5
    DEF PipeInv, FabricInv, Covered, Sent, ToSend
<1>7. CASE /\ dropped' = dropped \cup {x} /\ queue' = queue
  <2>2. Somewhere' = Somewhere \cup {x}
    BY <1>0, <1>3, <1>7 DEF Somewhere
  <2>3. PipeTypeOK'
    BY <1>0, <1>1, <1>2, <1>7 DEF PipeTypeOK, FabricInv, PipeInv, vars
  <2>4. InOrder'
    BY <1>0, <1>3, <1>7 DEF InOrder, FabricInv, PipeInv
  <2>5. DroppedApart'
    BY <1>0, <1>3, <1>5, <1>7 DEF DroppedApart, Apart, Somewhere, FabricInv, PipeInv
  <2> QED
    BY <1>0, <1>1, <1>2, <1>5, <2>2, <2>3, <2>4, <2>5
    DEF PipeInv, FabricInv, Covered, Sent, ToSend
<1> QED
  BY <1>6, <1>7 DEF HandOver, x

(***************************************************************************)
(* The writer takes the first of the queue.                                *)
(***************************************************************************)
LEMMA TakeKeeps ==
  ASSUME FabricInv, Take
  PROVE  PipeInv'
<1> DEFINE x == Head(queue)
<1>0. /\ queue \in Seq(Item) /\ queue # <<>> /\ Len(queue) <= QueueSize /\ Climbs(queue)
      /\ writer \in Writer /\ writer.pc \notin {"store", "send", "done"}
      /\ writer' = [pc |-> "store", item |-> x, draining |-> Draining]
      /\ queue' = Tail(queue)
      /\ UNCHANGED <<vars, handed, dropped, failed, utterances, feed, storeFails, stopping>>
  BY DEF FabricInv, PipeInv, PipeTypeOK, InOrder, Take
<1>1. /\ x \in Item /\ queue' \in Seq(Item) /\ Len(queue') = Len(queue) - 1
      /\ SetOf(queue) = {x} \cup SetOf(queue')
      /\ Climbs(queue') /\ Below({x}, SetOf(queue'))
  BY <1>0, TakeFirst
<1>2. /\ writer' \in Writer /\ writer'.pc = "store" /\ writer'.item = x
      /\ InHand = {} /\ InHand' = {x}
  BY <1>0, <1>1 DEF Writer, Draining, InHand
<1> HIDE DEF x
<1>3. Somewhere' = Somewhere /\ Given' = Given
  BY <1>0, <1>1, <1>2 DEF Somewhere, Given, vars
<1>4. PipeTypeOK'
  <2>1. Len(queue') <= QueueSize
    BY <1>0, <1>1, FabricAssumption
  <2> QED
    BY <1>0, <1>1, <1>2, <2>1 DEF PipeTypeOK, FabricInv, PipeInv, vars
<1>5. InOrder'
  BY <1>0, <1>1, <1>2 DEF InOrder, Below, FabricInv, PipeInv
<1>6. DroppedApart'
  BY <1>0, <1>1, <1>2 DEF DroppedApart, Apart, FabricInv, PipeInv
<1> QED
  BY <1>0, <1>2, <1>3, <1>4, <1>5, <1>6 DEF PipeInv, FabricInv, Covered, Sent, ToSend

(***************************************************************************)
(* The store takes the envelope in hand.                                   *)
(***************************************************************************)
LEMMA StoredKeeps ==
  ASSUME FabricInv, Stored
  PROVE  PipeInv'
<1> DEFINE x == writer.item
<1>0. /\ utterances \in Seq(Item) /\ writer \in Writer /\ writer.pc = "store"
      /\ utterances' = Append(utterances, x) /\ storeFails' = 0
      /\ writer' = [writer EXCEPT !.pc = "send"]
      /\ UNCHANGED <<vars, handed, queue, dropped, failed, feed, stopping>>
  BY DEF FabricInv, PipeInv, PipeTypeOK, Stored
<1>1. /\ x \in Item /\ InHand = {x} /\ InHand' = {}
      /\ writer' \in Writer /\ writer'.pc = "send"
  BY <1>0, WriterFacts DEF InHand
<1>2. /\ Below(SetOf(utterances) \cup failed, {x}) /\ Climbs(utterances)
      /\ Below({x}, SetOf(queue)) /\ Apart(dropped, SetOf(utterances) \cup {x})
  BY <1>1 DEF FabricInv, PipeInv, InOrder, Below, DroppedApart
<1> HIDE DEF x
<1>3. /\ utterances' \in Seq(Item) /\ Len(utterances') = Len(utterances) + 1
      /\ utterances'[Len(utterances) + 1] = x
      /\ \A i \in DOMAIN utterances : i \in DOMAIN utterances' /\ utterances'[i] = utterances[i]
      /\ SetOf(utterances') = SetOf(utterances) \cup {x}
      /\ Climbs(utterances')
  <2>1. Below(SetOf(utterances), {x})
    BY <1>2 DEF Below
  <2> QED
    BY <1>0, <1>1, <1>2, <2>1, PutLast
<1>4. Somewhere' = Somewhere /\ Given' = Given
  BY <1>0, <1>1, <1>3 DEF Somewhere, Given, vars
<1>5. PipeTypeOK'
  BY <1>0, <1>1, <1>3 DEF PipeTypeOK, FabricInv, PipeInv, vars
<1>6. InOrder'
  BY <1>0, <1>1, <1>2, <1>3 DEF InOrder, Below, FabricInv, PipeInv
<1>7. DroppedApart'
  BY <1>0, <1>1, <1>2, <1>3 DEF DroppedApart, Apart, FabricInv, PipeInv
<1>8. x \notin failed
  <2>1. x.n \in Nat
    BY <1>1 DEF Item
  <2> QED
    BY <1>2, <2>1 DEF Below
<1>9. Sent'
  BY <1>0, <1>3 DEF Sent, FabricInv, PipeInv
<1>10. ToSend'
  <2>1. Len(utterances) \in Nat /\ utterances' # <<>>
    BY <1>0, <1>3
  <2>2. \A i \in DOMAIN feed : feed[i] <= Len(utterances) /\ feed[i] \in Nat
    BY <1>0 DEF FabricInv, PipeInv, Sent
  <2> QED
    BY <1>0, <1>3, <1>8, <2>1, <2>2 DEF ToSend
<1> QED
  BY <1>0, <1>4, <1>5, <1>6, <1>7, <1>9, <1>10 DEF PipeInv, FabricInv, Covered

(***************************************************************************)
(* The store reports an error: its row is there or not, and never          *)
(* broadcast.                                                              *)
(***************************************************************************)
LEMMA StoreFailsKeeps ==
  ASSUME FabricInv, StoreFails
  PROVE  PipeInv'
<1> DEFINE x == writer.item
<1>0. /\ utterances \in Seq(Item) /\ writer \in Writer /\ writer.pc = "store"
      /\ utterances' \in {utterances, Append(utterances, x)}
      /\ storeFails' = storeFails + 1 /\ failed' = failed \cup {x}
      /\ writer' = Rest(writer)
      /\ UNCHANGED <<vars, handed, queue, dropped, feed, stopping>>
  BY DEF FabricInv, PipeInv, PipeTypeOK, StoreFails
<1>1. /\ x \in Item /\ InHand = {x} /\ InHand' = {}
      /\ writer' \in Writer /\ writer'.pc \notin {"store", "send"}
  <2>1. x \in Item /\ InHand = {x} /\ writer' \in {Idle, [pc |-> "draining"], [pc |-> "done"]}
    BY <1>0, WriterFacts
  <2>2. writer' \in Writer /\ writer'.pc \notin {"store", "send"}
    BY <2>1, RestingWriter
  <2> QED
    BY <2>1, <2>2 DEF InHand
<1>2. /\ Below(SetOf(utterances) \cup failed, {x}) /\ Climbs(utterances)
      /\ Below({x}, SetOf(queue)) /\ Apart(dropped, SetOf(utterances) \cup {x})
  BY <1>1 DEF FabricInv, PipeInv, InOrder, Below, DroppedApart
<1> HIDE DEF x
<1>3. /\ utterances' \in Seq(Item)
      /\ \A i \in DOMAIN utterances : i \in DOMAIN utterances' /\ utterances'[i] = utterances[i]
      /\ SetOf(utterances') \in {SetOf(utterances), SetOf(utterances) \cup {x}}
      /\ Climbs(utterances')
  <2>1. Below(SetOf(utterances), {x})
    BY <1>2 DEF Below
  <2>2. CASE utterances' = utterances
    BY <1>0, <1>2, <2>2
  <2>3. CASE utterances' = Append(utterances, x)
    BY <1>0, <1>1, <1>2, <2>1, <2>3, PutLast
  <2> QED
    BY <1>0, <2>2, <2>3
<1>4. Somewhere' = Somewhere /\ Given' = Given
  BY <1>0, <1>1, <1>3 DEF Somewhere, Given, vars
<1>5. PipeTypeOK'
  BY <1>0, <1>1, <1>3 DEF PipeTypeOK, FabricInv, PipeInv, vars
<1>6. InOrder'
  BY <1>0, <1>1, <1>2, <1>3 DEF InOrder, Below, FabricInv, PipeInv
<1>7. DroppedApart'
  BY <1>0, <1>1, <1>2, <1>3 DEF DroppedApart, Apart, FabricInv, PipeInv
<1>8. \A u \in SetOf(utterances) : u # x
  <2>1. x.n \in Nat
    BY <1>1 DEF Item
  <2> QED
    BY <1>2, <2>1 DEF Below
<1>9. Sent'
  <2>1. \A i \in DOMAIN feed : utterances[feed[i]] \in SetOf(utterances)
    BY DEF FabricInv, PipeInv, Sent, SetOf
  <2> QED
    BY <1>0, <1>3, <1>8, <2>1 DEF Sent, FabricInv, PipeInv
<1>10. ToSend'
  BY <1>1 DEF ToSend
<1> QED
  BY <1>0, <1>4, <1>5, <1>6, <1>7, <1>9, <1>10 DEF PipeInv, FabricInv, Covered

(***************************************************************************)
(* What was recorded is broadcast.                                         *)
(***************************************************************************)
LEMMA BroadcastKeeps ==
  ASSUME FabricInv, Broadcast
  PROVE  PipeInv'
<1>0. /\ utterances \in Seq(Item) /\ writer \in Writer /\ writer.pc = "send"
      /\ feed \in Seq(Nat) /\ feed' = Append(feed, Len(utterances))
      /\ writer' = Rest(writer)
      /\ UNCHANGED <<vars, handed, queue, dropped, failed, utterances, storeFails, stopping>>
  BY DEF FabricInv, PipeInv, PipeTypeOK, Broadcast
<1>1. /\ InHand = {} /\ InHand' = {}
      /\ writer' \in Writer /\ writer'.pc \notin {"store", "send"}
  <2>1. InHand = {} /\ writer' \in {Idle, [pc |-> "draining"], [pc |-> "done"]}
    BY <1>0, WriterFacts
  <2>2. writer' \in Writer /\ writer'.pc \notin {"store", "send"}
    BY <2>1, RestingWriter
  <2> QED
    BY <2>1, <2>2 DEF InHand
<1>2. Somewhere' = Somewhere /\ Given' = Given
  BY <1>0, <1>1 DEF Somewhere, Given, vars
<1>3. /\ feed' \in Seq(Nat)
      /\ \A i \in DOMAIN feed' :
           \/ i = Len(feed) + 1 /\ feed'[i] = Len(utterances)
           \/ i \in DOMAIN feed /\ feed'[i] = feed[i]
      /\ \A i \in DOMAIN feed : i \in Nat /\ i < Len(feed) + 1 /\ feed[i] \in Nat
      /\ Len(utterances) \in Nat
  <2>1. Len(utterances) \in Nat
    BY <1>0
  <2> QED
    BY <1>0, <2>1
<1>4. PipeTypeOK'
  BY <1>0, <1>1, <1>3 DEF PipeTypeOK, FabricInv, PipeInv, vars
<1>5. InOrder' /\ DroppedApart'
  BY <1>0, <1>1 DEF InOrder, DroppedApart, FabricInv, PipeInv
<1>6. /\ utterances # <<>> /\ utterances[Len(utterances)] \notin failed
      /\ \A i \in DOMAIN feed : feed[i] < Len(utterances)
      /\ Rising(feed)
      /\ \A i \in DOMAIN feed : feed[i] \in DOMAIN utterances /\ utterances[feed[i]] \notin failed
  BY <1>0 DEF FabricInv, PipeInv, Sent, ToSend
<1>7. Len(utterances) \in DOMAIN utterances
  BY <1>0, <1>6
<1>8. Rising(feed')
  <2> SUFFICES ASSUME NEW i \in DOMAIN feed', NEW j \in DOMAIN feed', i < j
               PROVE  feed'[i] < feed'[j]
    BY DEF Rising
  <2>1. i \in DOMAIN feed /\ feed'[i] = feed[i]
    BY <1>3
  <2> QED
    BY <1>3, <1>6, <2>1 DEF Rising
<1>9. Sent'
  BY <1>0, <1>3, <1>6, <1>7, <1>8 DEF Sent
<1>10. ToSend'
  BY <1>1 DEF ToSend
<1> QED
  BY <1>0, <1>2, <1>4, <1>5, <1>9, <1>10 DEF PipeInv, FabricInv, Covered

(***************************************************************************)
(* Shutdown: the deadline counts what is queued as dropped.                *)
(***************************************************************************)
LEMMA ShutdownKeeps ==
  ASSUME FabricInv, Stop \/ NoticeStop \/ Drained \/ DeadlinePasses
  PROVE  PipeInv'
<1>0. /\ queue \in Seq(Item) /\ Len(queue) <= QueueSize /\ Climbs(queue)
      /\ writer \in Writer /\ dropped \in SUBSET Item
      /\ UNCHANGED <<vars, handed, failed, utterances, feed, storeFails>>
  BY DEF FabricInv, PipeInv, PipeTypeOK, InOrder, Stop, NoticeStop, Drained, DeadlinePasses
<1>1. CASE Stop
  <2>1. UNCHANGED <<queue, dropped, writer>> /\ stopping' \in BOOLEAN
    BY <1>1 DEF Stop
  <2>2. InHand' = InHand /\ Given' = Given /\ Somewhere' = Somewhere
    BY <1>0, <2>1 DEF InHand, Given, Somewhere, vars
  <2> QED
    BY <1>0, <2>1, <2>2
    DEF FabricInv, PipeInv, PipeTypeOK, Covered, InOrder, DroppedApart, Sent, ToSend, vars
<1>2. ASSUME writer.pc \in {"idle", "draining"},
             writer' \in {Idle, [pc |-> "draining"], [pc |-> "done"]}
      PROVE  /\ InHand = {} /\ InHand' = {}
             /\ writer' \in Writer /\ writer'.pc \notin {"store", "send"}
  BY <1>2, RestingWriter DEF InHand
<1>3. CASE NoticeStop \/ Drained
  <2>1. /\ UNCHANGED <<queue, dropped, stopping>>
        /\ writer.pc \in {"idle", "draining"}
        /\ writer' \in {Idle, [pc |-> "draining"], [pc |-> "done"]}
    BY <1>3 DEF NoticeStop, Drained, Draining, Idle
  <2>2. Given' = Given /\ Somewhere' = Somewhere
    BY <1>0, <1>2, <2>1 DEF Given, Somewhere, vars
  <2>3. ToSend' /\ DroppedApart'
    BY <1>0, <1>2, <2>1 DEF FabricInv, PipeInv, ToSend, DroppedApart
  <2> QED
    BY <1>0, <1>2, <2>1, <2>2, <2>3
    DEF FabricInv, PipeInv, PipeTypeOK, Covered, InOrder, Sent, vars
<1>4. CASE DeadlinePasses
  <2>1. /\ queue # <<>> /\ queue' = Tail(queue) /\ dropped' = dropped \cup SetOf(queue)
        /\ writer.pc = "draining" /\ writer' = [pc |-> "done"] /\ stopping' = stopping
    BY <1>4 DEF DeadlinePasses, Draining
  <2>2. /\ queue' \in Seq(Item) /\ Len(queue') = Len(queue) - 1 /\ Climbs(queue')
        /\ Head(queue) \in Item
        /\ SetOf(queue) = {Head(queue)} \cup SetOf(queue')
    BY <1>0, <2>1, TakeFirst
  <2>3. /\ InHand = {} /\ InHand' = {}
        /\ writer' \in Writer /\ writer'.pc = "done"
    BY <1>2, <2>1
  <2>4. Given' = Given /\ Somewhere' = Somewhere
    BY <1>0, <2>1, <2>2, <2>3 DEF Given, Somewhere, vars
  <2>5. SetOf(queue) \in SUBSET Item /\ Len(queue') <= QueueSize
    BY <1>0, <2>2, FabricAssumption DEF SetOf
  <2>6. PipeTypeOK'
    BY <1>0, <2>1, <2>2, <2>3, <2>5 DEF FabricInv, PipeInv, PipeTypeOK, vars
  <2>7. InOrder'
    BY <1>0, <2>2, <2>3 DEF FabricInv, PipeInv, InOrder, Below
  <2>8. Apart(SetOf(queue), SetOf(utterances))
    <3>1. SetOf(utterances) \in SUBSET Item
      BY DEF FabricInv, PipeInv, PipeTypeOK, SetOf
    <3>2. \A i \in Item : i.n \in Nat
      BY DEF Item
    <3> QED
      BY <2>5, <3>1, <3>2 DEF FabricInv, PipeInv, InOrder, Below, Apart
  <2>9. DroppedApart'
    BY <1>0, <2>1, <2>3, <2>8 DEF FabricInv, PipeInv, DroppedApart, Apart
  <2> QED
    BY <1>0, <2>3, <2>4, <2>6, <2>7, <2>9 DEF FabricInv, PipeInv, Covered, Sent, ToSend
<1> QED
  BY <1>1, <1>3, <1>4

-----------------------------------------------------------------------------
(***************************************************************************)
(* Calls into the orchestrator.  Each numbers exactly the envelopes it     *)
(* hands out, so that with the last call's all given, Given does not move. *)
(***************************************************************************)
LEMMA EmitCounts ==
  ASSUME NEW env, NEW via, NEW idle, Emit(env, via, idle)
  PROVE  uttSeq' = uttSeq + Len(out')
BY DEF Emit, Crystallize, RecordOnly, Converse, Settle, Refuse, Record

(***************************************************************************)
(* A step that emits nothing numbers none.                                 *)
(***************************************************************************)
LEMMA QuietCounts ==
  ASSUME uttSeq \in Nat, uttSeq' = uttSeq, out' = <<>>
  PROVE  uttSeq' = uttSeq + Len(out')
OBVIOUS

(***************************************************************************)
(* The steps of a think.                                                   *)
(***************************************************************************)
LEMMA ProgressCounts ==
  ASSUME IInv, NEW tm, Progress(tm)
  PROVE  uttSeq' = uttSeq + Len(out')
<1>1. uttSeq \in Nat
  BY DEF IInv, TypeOK
<1>2. ASSUME NEW v, NEW e, NEW idle, CapWithdraw(v, e, idle) PROVE uttSeq' = uttSeq + Len(out')
  BY <1>2 DEF CapWithdraw, Record
<1>3. CASE Fire(tm) \/ ThinkFails(tm)
  BY <1>1, <1>3, QuietCounts DEF Fire, ThinkFails, Drop
<1>4. CASE ThinkBegin(tm)
  BY <1>1, <1>2, <1>4, QuietCounts DEF ThinkBegin, Drop
<1>5. CASE ThinkCapped(tm)
  BY <1>2, <1>5 DEF ThinkCapped
<1>6. ASSUME NEW a \in Acts, ThinkSpeaks(tm, a) PROVE uttSeq' = uttSeq + Len(out')
  BY <1>6, EmitCounts DEF ThinkSpeaks
<1> QED
  BY <1>3, <1>4, <1>5, <1>6 DEF Progress

(***************************************************************************)
(* The pipeline does not notice a call: its envelopes are yet to be given. *)
(***************************************************************************)
LEMMA LockedKeeps ==
  ASSUME FabricInv, NEW C, Locked(C), IInv', uttSeq' = uttSeq + Len(out')
  PROVE  PipeInv'
<1>1. /\ handed = Len(out) /\ handed' = 0
      /\ UNCHANGED <<queue, dropped, failed, writer, utterances, feed, storeFails, stopping>>
  BY DEF Locked, Unlocked
<1>2. uttSeq \in Nat /\ Len(out) \in Nat /\ Len(out') \in Nat
  BY DEF FabricInv, IInv, TypeOK
<1>3. Given' = Given
  BY <1>1, <1>2 DEF Given
<1>4. InHand' = InHand /\ Somewhere' = Somewhere
  BY <1>1 DEF InHand, Somewhere
<1> QED
  BY <1>1, <1>2, <1>3, <1>4
  DEF FabricInv, PipeInv, PipeTypeOK, Covered, InOrder, DroppedApart, Sent, ToSend

(***************************************************************************)
(* Seeds, murmurs, what principals say and thinks.                         *)
(***************************************************************************)
LEMMA WorldKeeps ==
  ASSUME FabricInv,
         \/ \E c \in Cast : Seed(c)
         \/ \E v \in Residents : SayOnLine(v)
         \/ \E i \in Injections : Murmur(i)
         \/ \E tm \in timers : Locked(Progress(tm)) /\ UNCHANGED root
  PROVE  FabricInv'
<1>0. IInv /\ uttSeq \in Nat
  BY DEF FabricInv, IInv, TypeOK
<1>1. ASSUME NEW C, Locked(C), UNCHANGED root, IInv', uttSeq' = uttSeq + Len(out')
      PROVE  FabricInv'
  <2>1. PipeInv'
    BY <1>1, LockedKeeps
  <2> QED
    BY <1>1, <2>1 DEF FabricInv, RootTypeOK, root
<1>2. ASSUME NEW c \in Cast, Seed(c) PROVE FabricInv'
  <2>1. AddVoice(c) /\ Locked(AddVoice(c)) /\ UNCHANGED root
    BY <1>2 DEF Seed, Locked
  <2>2. IInv'
    BY <1>0, <2>1, AddVoiceOK, CastAssumption
  <2>3. uttSeq' = uttSeq + Len(out')
    BY <1>0, <2>1, QuietCounts DEF AddVoice
  <2> QED
    BY <1>1, <2>1, <2>2, <2>3
<1>3. ASSUME NEW v \in Residents, SayOnLine(v) PROVE FabricInv'
  <2>1. PrincipalSays(v) /\ Locked(PrincipalSays(v)) /\ UNCHANGED root
    BY <1>3 DEF SayOnLine, Locked
  <2>2. IInv'
    BY <1>0, <2>1, PrincipalSaysOK, FabricAssumption
  <2>3. uttSeq' = uttSeq + Len(out')
    BY <2>1, EmitCounts DEF PrincipalSays
  <2> QED
    BY <1>1, <2>1, <2>2, <2>3
<1>4. ASSUME NEW i \in Injections, Murmur(i) PROVE FabricInv'
  <2>1. Inject(i, NoExc) /\ Locked(Inject(i, NoExc)) /\ UNCHANGED root
    BY <1>4 DEF Murmur, Locked
  <2>2. IInv'
    BY <1>0, <2>1, InjectOK, SpeechAssumption DEF NoExc
  <2>3. uttSeq' = uttSeq + Len(out')
    BY <2>1, EmitCounts DEF Inject
  <2> QED
    BY <1>1, <2>1, <2>2, <2>3
<1>5. ASSUME NEW tm \in timers, Locked(Progress(tm)), UNCHANGED root PROVE FabricInv'
  <2>1. Progress(tm)
    BY <1>5 DEF Locked
  <2> QED
    BY <1>0, <1>1, <1>5, <2>1, ProgressOK, ProgressCounts
<1> QED
  BY <1>2, <1>3, <1>4, <1>5

(***************************************************************************)
(* A claim.                                                                *)
(***************************************************************************)
LEMMA ClaimKeeps ==
  ASSUME FabricInv, NEW v \in Residents, Reserve(v) \/ EmbodyResident(v) \/ Grant(v)
  PROVE  FabricInv'
<1>0. /\ IInv /\ uttSeq \in Nat /\ v \in Names
      /\ claims \in [Residents -> {"free", "reserved", "embodied", "held"}]
      /\ shadow \in [Names -> Int]
  BY FabricAssumption DEF FabricInv, IInv, TypeOK, RootTypeOK
<1>1. CASE Reserve(v)
  <2>1. /\ claims' = [claims EXCEPT ![v] = "reserved"]
        /\ shadow' = [shadow EXCEPT ![v] = @ + Stake]
        /\ UNCHANGED <<vars, pipeline, index, consents>>
    BY <1>1 DEF Reserve
  <2>2. RootTypeOK'
    BY <1>0, <2>1, FabricAssumption DEF FabricInv, RootTypeOK
  <2>3. IInv'
    BY <1>0, <2>1 DEF IInv, TypeOK, WorldTypeOK, vars
  <2>4. PipeInv'
    BY <2>1 DEF FabricInv, PipeInv, PipeTypeOK, Covered, Given, InHand, Somewhere, InOrder,
                DroppedApart, Sent, ToSend, vars, pipeline
  <2> QED
    BY <2>2, <2>3, <2>4 DEF FabricInv
<1>2. CASE EmbodyResident(v)
  <2> DEFINE c == [voice |-> v, charter |-> ResidentCharter, init |-> NoThing]
  <2>1. AddVoice(c) /\ Locked(AddVoice(c)) /\ claims' = [claims EXCEPT ![v] = "embodied"]
        /\ UNCHANGED <<shadow, index, consents>>
    BY <1>2 DEF EmbodyResident, Locked
  <2>2. c.voice \in Names /\ c.charter \in Charter /\ c.init \in ThingState \cup {NoThing}
    BY <1>0, FabricAssumption
  <2> HIDE DEF c
  <2>3. IInv'
    BY <1>0, <2>1, <2>2, AddVoiceOK
  <2>4. uttSeq' = uttSeq + Len(out')
    BY <1>0, <2>1, QuietCounts DEF AddVoice
  <2>5. RootTypeOK'
    BY <1>0, <2>1 DEF FabricInv, RootTypeOK
  <2> QED
    BY <2>1, <2>3, <2>4, <2>5, LockedKeeps DEF FabricInv
<1>3. CASE Grant(v)
  <2> DEFINE c == [voice |-> v, n |-> Stake]
  <2>1. CreditVoice(c) /\ Locked(CreditVoice(c)) /\ claims' = [claims EXCEPT ![v] = "held"]
        /\ UNCHANGED <<shadow, index, consents>>
    BY <1>3 DEF Grant, Locked
  <2>2. c.voice \in Names /\ c.n \in Nat
    BY <1>0, FabricAssumption
  <2> HIDE DEF c
  <2>3. IInv'
    BY <1>0, <2>1, <2>2, CreditVoiceOK
  <2>4. uttSeq' = uttSeq + Len(out')
    BY <1>0, <2>1, QuietCounts DEF CreditVoice
  <2>5. RootTypeOK'
    BY <1>0, <2>1 DEF FabricInv, RootTypeOK
  <2> QED
    BY <2>1, <2>3, <2>4, <2>5, LockedKeeps DEF FabricInv
<1> QED
  BY <1>1, <1>2, <1>3

(***************************************************************************)
(* A consent.                                                              *)
(***************************************************************************)
LEMMA ConsentKeeps ==
  ASSUME FabricInv, NEW k \in Calls,
         \/ \E v \in Residents, e \in DOMAIN index, approve \in BOOLEAN :
              ConsentRead(k, v, e, approve)
         \/ ConsentPending(k)
         \/ ConsentInject(k)
  PROVE  FabricInv'
<1>0. /\ IInv /\ uttSeq \in Nat
      /\ consents \in [Calls -> Consent]
      /\ DOMAIN index \subseteq Nat \ {0} /\ SetOf(index) \subseteq Names
  BY DEF FabricInv, IInv, TypeOK, RootTypeOK
<1>1. ASSUME NEW c \in Consent, consents' = [consents EXCEPT ![k] = c],
             UNCHANGED <<vars, pipeline, claims, shadow, index>>
      PROVE  FabricInv'
  <2>1. RootTypeOK'
    BY <1>0, <1>1 DEF FabricInv, RootTypeOK
  <2>2. IInv'
    BY <1>0, <1>1 DEF IInv, TypeOK, WorldTypeOK, vars
  <2>3. PipeInv'
    BY <1>1 DEF FabricInv, PipeInv, PipeTypeOK, Covered, Given, InHand, Somewhere, InOrder,
                DroppedApart, Sent, ToSend, vars, pipeline
  <2> QED
    BY <2>1, <2>2, <2>3 DEF FabricInv
<1>2. ASSUME NEW v \in Residents, NEW e \in DOMAIN index, NEW approve \in BOOLEAN,
             ConsentRead(k, v, e, approve)
      PROVE  FabricInv'
  <2> DEFINE to == IF index[e] = v THEN <<>> ELSE <<index[e]>>
             c == [stage |-> "read", voice |-> v, exc |-> e, to |-> to,
                   approve |-> approve, terms |-> NoTerms]
  <2>1. to \in Seq(Names) /\ e \in Nat
    <3>1. index[e] \in Names
      BY <1>0 DEF SetOf
    <3> QED
      BY <1>0, <3>1
  <2>2. c \in Consent
    <3> HIDE DEF to
    <3> QED
      BY <2>1 DEF Consent
  <2> QED
    BY <1>1, <1>2, <2>2 DEF ConsentRead
<1>3. CASE ConsentPending(k)
  <2> DEFINE c == consents[k]
             t == exchanges[c.exc].pending.terms
  <2>1. /\ c.stage = "read" /\ UNCHANGED <<vars, pipeline, claims, shadow, index>>
        /\ \/ consents' = [consents EXCEPT ![k] = [stage |-> "over"]]
           \/ /\ IsOpen(c.exc)
              /\ consents' = [consents EXCEPT ![k] = [c EXCEPT !.stage = "ready", !.terms = t]]
    BY <1>3 DEF ConsentPending
  <2>2. [stage |-> "over"] \in Consent
    BY DEF Consent
  <2>3. ASSUME IsOpen(c.exc) PROVE [c EXCEPT !.stage = "ready", !.terms = t] \in Consent
    <3>1. exchanges[c.exc] \in Exchange
      BY <1>0, <2>3 DEF IInv, TypeOK, IsOpen
    <3>2. t \in Terms \cup {NoTerms}
      BY <3>1 DEF Exchange, Offer
    <3>3. c \in Consent
      BY <1>0
    <3> HIDE DEF c, t
    <3>4. c \in [stage : {"read", "ready"}, voice : Residents, exc : Nat, to : Seq(Names),
                approve : BOOLEAN, terms : Terms \cup {NoTerms}]
      BY <2>1, <3>3 DEF Consent, Unused
    <3>5. [c EXCEPT !.stage = "ready", !.terms = t]
            \in [stage : {"read", "ready"}, voice : Residents, exc : Nat, to : Seq(Names),
                approve : BOOLEAN, terms : Terms \cup {NoTerms}]
      BY <3>2, <3>4
    <3> QED
      BY <3>5 DEF Consent
  <2> HIDE DEF c, t
  <2> QED
    BY <1>1, <2>1, <2>2, <2>3
<1>4. CASE ConsentInject(k)
  <2> DEFINE c == consents[k]
             i == [from |-> c.voice, to |-> c.to,
                   kind |-> IF c.approve THEN "accept" ELSE "decline", terms |-> c.terms]
  <2>1. /\ c.stage \in {"read", "ready"}
        /\ Inject(i, c.exc) /\ Locked(Inject(i, c.exc))
        /\ consents' = [consents EXCEPT ![k] = [stage |-> "over"]]
        /\ UNCHANGED <<claims, shadow, index>>
    BY <1>4 DEF ConsentInject, Locked
  <2>2. /\ c.voice \in Names /\ c.to \in Seq(Names) /\ c.exc \in Nat
        /\ c.terms \in Terms \cup {NoTerms}
    <3>1. c \in Consent
      BY <1>0
    <3> HIDE DEF c
    <3> QED
      BY <2>1, <3>1, FabricAssumption DEF Consent, Unused
  <2>3. i.from \in Names /\ i.to \in Seq(Names) /\ i.kind \in Kinds
        /\ i.terms \in Terms \cup {NoTerms}
    BY <2>2 DEF Kinds
  <2> HIDE DEF c, i
  <2>4. IInv'
    BY <1>0, <2>1, <2>2, <2>3, InjectOK
  <2>5. uttSeq' = uttSeq + Len(out')
    BY <2>1, EmitCounts DEF Inject
  <2>6. RootTypeOK'
    BY <1>0, <2>1 DEF FabricInv, RootTypeOK, Consent
  <2> QED
    BY <2>1, <2>4, <2>5, <2>6, LockedKeeps DEF FabricInv
<1> QED
  BY <1>2, <1>3, <1>4

(***************************************************************************)
(* The index and the shadow ledger stay typed under every envelope.        *)
(***************************************************************************)
LEMMA MovesType ==
  ASSUME NEW ledger \in [Names -> Int], NEW post \in Post
  PROVE  Moves(ledger, post) \in [Names -> Int]
<1> DEFINE t == post.terms
<1>1. t \in Terms \cup {NoTerms}
  BY DEF Post
<1>2. CASE t # NoTerms /\ t.type = "trade"
  <2>1. t.price \in Int /\ t.buyer \in Names /\ t.seller \in Names
    BY <1>1, <1>2, TermsAssumption
  <2> HIDE DEF t
  <2>2. [[ledger EXCEPT ![t.buyer] = @ - t.price] EXCEPT ![t.seller] = @ + t.price] \in [Names -> Int]
    BY <2>1
  <2> QED
    BY <2>2 DEF Moves, t
<1>3. CASE ~(t # NoTerms /\ t.type = "trade")
  BY <1>3 DEF Moves
<1> QED
  BY <1>2, <1>3

(***************************************************************************)
(* The consent index holds numbers of exchanges and names of voices.       *)
(***************************************************************************)
LEMMA IndexedType ==
  ASSUME DOMAIN index \subseteq Nat \ {0}, SetOf(index) \subseteq Names, NEW post \in Post
  PROVE  /\ DOMAIN Indexed(post) \subseteq Nat \ {0}
         /\ SetOf(Indexed(post)) \subseteq Names
<1>1. post.from \in Names /\ post.exc \in Nat
  BY DEF Post
<1>2. \A e \in DOMAIN index : index[e] \in Names
  BY DEF SetOf
<1>3. CASE post.kind = "propose" /\ post.exc # NoExc
  <2>1. Indexed(post) = [e \in DOMAIN index \cup {post.exc} |->
                           IF e = post.exc THEN post.from ELSE index[e]]
    BY <1>3 DEF Indexed
  <2>2. \A e \in DOMAIN index \cup {post.exc} : Indexed(post)[e] \in Names
    BY <1>1, <1>2, <2>1
  <2>3. DOMAIN Indexed(post) = DOMAIN index \cup {post.exc}
    BY <2>1
  <2> QED
    BY <1>1, <1>3, <2>2, <2>3 DEF SetOf, NoExc
<1>4. CASE ~(post.kind = "propose" /\ post.exc # NoExc)
  <2>1. Indexed(post) \in {[e \in DOMAIN index \ {post.exc} |-> index[e]], index}
    BY <1>4 DEF Indexed
  <2>2. DOMAIN Indexed(post) \subseteq DOMAIN index
        /\ \A e \in DOMAIN Indexed(post) : Indexed(post)[e] = index[e]
    BY <2>1
  <2> QED
    BY <1>2, <2>2 DEF SetOf
<1> QED
  BY <1>3, <1>4

(***************************************************************************)
(* The pipeline, with what the writer does to index and ledger.            *)
(***************************************************************************)
LEMMA PipelineKeeps ==
  ASSUME FabricInv, HandOver \/ WriterSteps \/ Stop
  PROVE  FabricInv'
<1>1. IInv'
  <2>1. UNCHANGED vars
    BY DEF HandOver, WriterSteps, Stop, Take, Stored, StoreFails, Broadcast, NoticeStop,
           Drained, DeadlinePasses
  <2> QED
    BY <2>1 DEF FabricInv, IInv, TypeOK, WorldTypeOK, vars
<1>2. PipeInv'
  BY HandOverKeeps, TakeKeeps, StoredKeeps, StoreFailsKeeps, BroadcastKeeps, ShutdownKeeps
  DEF WriterSteps
<1>3. RootTypeOK'
  <2>1. CASE Take
    <3>1. /\ queue \in Seq(Item) /\ queue # <<>>
          /\ shadow' = Moves(shadow, Head(queue).post)
          /\ index' = Indexed(Head(queue).post)
          /\ UNCHANGED <<claims, consents>>
      BY <2>1 DEF FabricInv, PipeInv, PipeTypeOK, Take
    <3>2. Head(queue) \in Item
      BY <3>1
    <3>3. Head(queue).post \in Post
      BY <3>2 DEF Item
    <3> QED
      BY <3>1, <3>3, MovesType, IndexedType DEF FabricInv, RootTypeOK
  <2>2. CASE ~Take
    <3>1. UNCHANGED root
      BY <2>2 DEF HandOver, WriterSteps, Stop, Stored, StoreFails, Broadcast, NoticeStop,
                  Drained, DeadlinePasses
    <3> QED
      BY <3>1 DEF FabricInv, RootTypeOK, root
  <2> QED
    BY <2>1, <2>2
<1> QED
  BY <1>1, <1>2, <1>3 DEF FabricInv

-----------------------------------------------------------------------------
(***************************************************************************)
(* The theorems.                                                           *)
(***************************************************************************)
(***************************************************************************)
(* The initial state satisfies the invariant.                              *)
(***************************************************************************)
LEMMA FabricStarts == FabricInit => FabricInv
<1> SUFFICES ASSUME FabricInit PROVE FabricInv
  OBVIOUS
<1>1. IInv /\ uttSeq = 0 /\ out = <<>>
  BY InitOK DEF FabricInit, Init
<1>2. /\ handed = 0 /\ queue = <<>> /\ dropped = {} /\ failed = {} /\ writer = Idle
      /\ utterances = <<>> /\ feed = <<>> /\ storeFails = 0 /\ stopping = FALSE
  BY DEF FabricInit
<1>3. InHand = {} /\ writer.pc = "idle" /\ writer \in Writer
  BY <1>2 DEF InHand, Idle, Writer
<1>4. /\ Len(out) = 0 /\ Len(queue) = 0 /\ Given = 0
      /\ SetOf(queue) = {} /\ SetOf(utterances) = {}
  <2>1. Len(<<>>) = 0 /\ DOMAIN <<>> = {}
    OBVIOUS
  <2>2. Len(out) = 0 /\ Len(queue) = 0
    BY <1>1, <1>2, <2>1
  <2>3. Given = 0
    <3>1. uttSeq = 0 /\ handed = 0
      BY <1>1, <1>2
    <3> QED
      BY <2>2, <3>1 DEF Given
  <2>4. SetOf(<<>>) = {}
    BY <2>1, Zenon DEF SetOf
  <2> QED
    BY <1>2, <2>2, <2>3, <2>4
<1>5. PipeTypeOK
  <2>1. <<>> \in Seq(Item) /\ <<>> \in Seq(Nat)
    OBVIOUS
  <2>2. dropped \in SUBSET Item /\ failed \in SUBSET Item
    BY <1>2
  <2>3. handed \in 0 .. Len(out) /\ Len(out) <= uttSeq /\ Len(queue) <= QueueSize
    <3>1. uttSeq = 0 /\ handed = 0
      BY <1>1, <1>2
    <3> QED
      BY <1>4, <3>1, FabricAssumption
  <2> QED
    BY <1>2, <1>3, <1>4, <2>1, <2>2, <2>3 DEF PipeTypeOK
<1>6. Covered
  BY <1>2, <1>3, <1>4 DEF Covered, Somewhere
<1>7. InOrder /\ DroppedApart
  BY <1>2, <1>3, <1>4 DEF InOrder, DroppedApart, Climbs, Below, Apart
<1>8. Sent /\ ToSend
  BY <1>2, <1>3 DEF Sent, ToSend, Rising
<1>9. RootTypeOK
  BY DEF FabricInit, RootTypeOK, SetOf, Consent
<1> QED
  BY <1>1, <1>5, <1>6, <1>7, <1>8, <1>9 DEF FabricInv, PipeInv

(***************************************************************************)
(* Every step preserves it.                                                *)
(***************************************************************************)
LEMMA FabricKeeps == FabricInv /\ [FabricNext]_fabricVars => FabricInv'
<1> SUFFICES ASSUME FabricInv, [FabricNext]_fabricVars PROVE FabricInv'
  OBVIOUS
<1>1. CASE UNCHANGED fabricVars
  <2>1. UNCHANGED vars /\ UNCHANGED pipeline /\ UNCHANGED root
    BY <1>1 DEF fabricVars
  <2>2. IInv' /\ RootTypeOK'
    BY <2>1 DEF FabricInv, IInv, TypeOK, WorldTypeOK, RootTypeOK, vars, root
  <2>3. PipeInv'
    BY <2>1 DEF FabricInv, PipeInv, PipeTypeOK, Covered, Given, InHand, Somewhere, InOrder,
                DroppedApart, Sent, ToSend, vars, pipeline
  <2> QED
    BY <2>2, <2>3 DEF FabricInv
<1>2. CASE FabricNext
  BY <1>2, WorldKeeps, ClaimKeeps, ConsentKeeps, PipelineKeeps DEF FabricNext
<1> QED
  BY <1>1, <1>2

(***************************************************************************)
(* The invariant of the pipeline holds in every reachable state.           *)
(***************************************************************************)
LEMMA FabricHolds == FabricSpec => []FabricInv
BY FabricStarts, FabricKeeps, PTL DEF FabricSpec

(***************************************************************************)
(* The state of the composition root stays well typed: in particular the   *)
(* queue stays within its size and the index names voices.                 *)
(***************************************************************************)
THEOREM FabricTypeCorrect == FabricSpec => []FabricTypeOK
<1>1. FabricInv => FabricTypeOK
  <2> SUFFICES ASSUME FabricInv PROVE FabricTypeOK
    OBVIOUS
  <2>1. feed \in Seq(DOMAIN utterances)
    BY DEF FabricInv, PipeInv, PipeTypeOK, Sent
  <2> QED
    BY <2>1 DEF FabricInv, IInv, PipeInv, PipeTypeOK, RootTypeOK, FabricTypeOK
<1> QED
  BY <1>1, FabricHolds, PTL

(***************************************************************************)
(* Whatever the queue, the store and the shutdown do, every envelope the   *)
(* orchestrator numbered is on its way, recorded, or counted as dropped or *)
(* failed, and the record is in the order of utterances.                   *)
(***************************************************************************)
THEOREM NoEnvelopeVanishes == FabricSpec => []NothingVanishes
<1> DEFINE all == ToHand \cup SetOf(queue) \cup InHand \cup SetOf(utterances)
                    \cup dropped \cup failed
<1>1. ASSUME FabricInv PROVE NothingVanishes
  <2>0. /\ uttSeq \in Nat /\ Len(out) \in 0 .. uttSeq /\ handed \in 0 .. Len(out)
        /\ Given \in 0 .. uttSeq
    BY <1>1 DEF FabricInv, IInv, TypeOK, PipeInv, PipeTypeOK, Given
  <2>1. /\ \A i \in ToHand : i.n \in Given + 1 .. uttSeq
        /\ \A n \in Given + 1 .. uttSeq : \E i \in ToHand : i.n = n
    <3>1. ASSUME NEW i \in ToHand PROVE i.n \in Given + 1 .. uttSeq
      BY <2>0 DEF ToHand, Given
    <3>2. ASSUME NEW n \in Given + 1 .. uttSeq PROVE \E i \in ToHand : i.n = n
      <4> DEFINE j == n - uttSeq + Len(out)
                 x == [n |-> uttSeq - Len(out) + j, post |-> out[j]]
      <4>1. j \in handed + 1 .. Len(out) /\ uttSeq - Len(out) + j = n
        BY <2>0 DEF Given
      <4>2. x \in ToHand
        BY <4>1 DEF ToHand
      <4> QED
        BY <4>1, <4>2
    <3> QED
      BY <3>1, <3>2
  <2>2. all = ToHand \cup Somewhere
    BY DEF Somewhere
  <2> HIDE DEF all
  <2>3. Numbers(all) = 1 .. uttSeq
    <3>1. ASSUME NEW i \in all PROVE i.n \in 1 .. uttSeq
      BY <1>1, <2>0, <2>1, <2>2 DEF FabricInv, PipeInv, Covered
    <3>2. ASSUME NEW n \in 1 .. uttSeq PROVE \E i \in all : i.n = n
      <4>1. n \in 1 .. Given \/ n \in Given + 1 .. uttSeq
        BY <2>0
      <4> QED
        BY <1>1, <2>1, <2>2, <4>1 DEF FabricInv, PipeInv, Covered
    <3> QED
      BY <3>1, <3>2 DEF Numbers
  <2>4. Numbers(SetOf(utterances)) \cap Numbers(InHand \cup SetOf(queue) \cup dropped) = {}
    <3> SUFFICES ASSUME NEW u \in SetOf(utterances),
                        NEW i \in InHand \cup SetOf(queue) \cup dropped, u.n = i.n
                 PROVE  FALSE
      BY DEF Numbers
    <3>1. u.n \in Nat
      BY <1>1, <2>0 DEF FabricInv, PipeInv, Covered, Somewhere
    <3> QED
      BY <1>1, <3>1 DEF FabricInv, PipeInv, InOrder, DroppedApart, Below, Apart
  <2>5. Rising([i \in DOMAIN utterances |-> utterances[i].n])
    BY <1>1 DEF FabricInv, PipeInv, InOrder, Climbs, Rising
  <2> QED
    BY <2>3, <2>4, <2>5 DEF NothingVanishes, all
<1> QED
  BY <1>1, FabricHolds, PTL

(***************************************************************************)
(* The feed shows only what the store said it recorded, in the order of    *)
(* the record.                                                             *)
(***************************************************************************)
THEOREM FeedFollowsRecord == FabricSpec => []FeedIsHonest
<1>1. FabricInv => FeedIsHonest
  BY DEF FabricInv, PipeInv, Sent, FeedIsHonest
<1> QED
  BY <1>1, FabricHolds, PTL

-----------------------------------------------------------------------------
(***************************************************************************)
(* The consent index.  What decides it for an exchange are the proposals,  *)
(* settles and withdrawals that name it; the last of them counts.  The     *)
(* index knows the last of those the writer has taken, the orchestrator    *)
(* the last of all it numbered.                                            *)
(***************************************************************************)
Decides(i, e) == i.post.exc = e /\ i.post.kind \in {"propose", "settle", "withdraw"}

Verdict(S, e, d) ==
  d \in S /\ Decides(d, e) /\ \A i \in S : Decides(i, e) => i.n <= d.n

Seen == InHand \cup SetOf(utterances) \cup failed

Known == Seen \cup Unindexed

OneEach ==
  /\ \A i \in Known : i \in Item /\ i.n <= uttSeq
  /\ \A i, j \in Known : i.n = j.n => i = j

IndexFollows ==
  \A e \in Nat \ {0} :
    /\ e \in DOMAIN index =>
         \E d \in Seen : Verdict(Seen, e, d) /\ d.post.kind = "propose" /\ d.post.from = index[e]
    /\ \A d \in Seen : Verdict(Seen, e, d) /\ d.post.kind = "propose" => e \in DOMAIN index

DealsAreKnown ==
  \A e \in DOMAIN exchanges :
    /\ exchanges[e].status = "open" =>
         \E d \in Known : /\ Verdict(Known, e, d) /\ d.post.kind = "propose"
                          /\ d.post.from = exchanges[e].pending.from
    /\ exchanges[e].status = "settled" =>
         \E s \in Known : s.post.exc = e /\ s.post.kind = "settle"

CatchInv == OneEach /\ IndexFollows /\ DealsAreKnown

(***************************************************************************)
(* What a call puts on record about each exchange: an open one has a new   *)
(* offer, or nothing that decides it; one that settles says so.            *)
(***************************************************************************)
Follows ==
  \A e \in DOMAIN exchanges' :
    /\ exchanges'[e].status = "open" =>
         \/ /\ Len(out') = 1 /\ out'[1].kind = "propose" /\ out'[1].exc = e
            /\ out'[1].from = exchanges'[e].pending.from
         \/ /\ IsOpen(e) /\ exchanges'[e].pending.from = exchanges[e].pending.from
            /\ \A j \in DOMAIN out' :
                 out'[j].exc = e => out'[j].kind \notin {"propose", "settle", "withdraw"}
    /\ exchanges'[e].status = "settled" =>
         \/ e \in DOMAIN exchanges /\ exchanges[e].status = "settled"
         \/ \E j \in DOMAIN out' : out'[j].exc = e /\ out'[j].kind = "settle"

(***************************************************************************)
(* A call that changes no exchange and says nothing follows.               *)
(***************************************************************************)
LEMMA QuietFollows ==
  ASSUME exchanges' = exchanges, out' = <<>>
  PROVE  Follows
<1>1. DOMAIN out' = {}
  OBVIOUS
<1> QED
  BY <1>1 DEF Follows, IsOpen

(***************************************************************************)
(* A turn of exchange e by posts that are about e changes no other one.    *)
(***************************************************************************)
LEMMA TurnFollows ==
  ASSUME IInv, NEW e \in DOMAIN exchanges, NEW x, exchanges' = [exchanges EXCEPT ![e] = x],
         \A j \in DOMAIN out' : out'[j].exc = e,
         \/ x.status = "abandoned"
         \/ x.status = "settled" /\ \E j \in DOMAIN out' : out'[j].kind = "settle"
         \/ /\ x.status = "open" /\ Len(out') = 1
            /\ \/ out'[1].kind = "propose" /\ out'[1].exc = e /\ out'[1].from = x.pending.from
               \/ /\ IsOpen(e) /\ x.pending.from = exchanges[e].pending.from
                  /\ \A j \in DOMAIN out' : out'[j].kind \notin {"propose", "settle", "withdraw"}
  PROVE  Follows
<1>1. exchanges \in Seq(Exchange)
  BY DEF IInv, TypeOK
<1>2. /\ DOMAIN exchanges' = DOMAIN exchanges /\ exchanges'[e] = x
      /\ \A f \in DOMAIN exchanges : f # e => exchanges'[f] = exchanges[f]
  BY <1>1
<1>3. ASSUME NEW f \in DOMAIN exchanges', f # e
      PROVE  /\ exchanges'[f] = exchanges[f] /\ f \in DOMAIN exchanges
             /\ \A j \in DOMAIN out' : out'[j].exc # f
  BY <1>2, <1>3
<1> QED
  BY <1>2, <1>3 DEF Follows, IsOpen

(***************************************************************************)
(* inject follows, whoever speaks, as only the orchestrator says settle.   *)
(***************************************************************************)
LEMMA EmitFollows ==
  ASSUME IInv, NEW env, NEW via, NEW idle, env.kind # "settle", Emit(env, via, idle)
  PROVE  Follows
<1> DEFINE e == ExchangeOf(env)
           post == Posted(env, e, via)
<1>1. exchanges \in Seq(Exchange)
  BY DEF IInv, TypeOK
<1>2. \A p : LET s == <<p>> IN Len(s) = 1 /\ DOMAIN s = {1} /\ s[1] = p
  OBVIOUS
<1>3. \A p, q : LET s == <<p, q>> IN DOMAIN s = {1, 2} /\ s[1] = p /\ s[2] = q
  OBVIOUS
<1>4. CASE Crystallize(env, via, idle)
  <2> DEFINE x == [status |-> "open", parts |-> <<env.from>> \o env.to, turns |-> 1,
                   pending |-> [from |-> env.from, terms |-> env.terms, via |-> via]]
             p == Posted(env, NextId, via)
  <2>1. exchanges' = Append(exchanges, x) /\ out' = <<p>> /\ env.kind = "propose"
    BY <1>4 DEF Crystallize, Record
  <2>2. p.kind = "propose" /\ p.exc = NextId /\ p.from = env.from
    BY <2>1 DEF Posted
  <2>3. x.pending.from = env.from /\ x.status = "open"
    OBVIOUS
  <2> HIDE DEF x, p
  <2>4. /\ DOMAIN exchanges' = DOMAIN exchanges \cup {NextId} /\ exchanges'[NextId] = x
        /\ \A f \in DOMAIN exchanges : f # NextId /\ exchanges'[f] = exchanges[f]
    BY <1>1, <2>1 DEF NextId
  <2>5. Len(out') = 1 /\ DOMAIN out' = {1} /\ out'[1] = p
    BY <1>2, <2>1
  <2> QED
    BY <2>2, <2>3, <2>4, <2>5 DEF Follows, IsOpen
<1>5. CASE RecordOnly(env, via, idle)
  <2>1. exchanges' = exchanges /\ out' = <<post>> /\ ~IsOpen(e)
    BY <1>5 DEF RecordOnly, Record
  <2>2. post.exc = e
    BY DEF Posted
  <2>3. DOMAIN out' = {1} /\ out'[1] = post
    BY <1>2, <2>1
  <2> QED
    BY <2>1, <2>2, <2>3 DEF Follows, IsOpen
<1>6. CASE Converse(env, via, idle)
  <2> DEFINE offer == [from |-> env.from, terms |-> env.terms, via |-> via]
             x == Turn(exchanges[e],
                       IF env.kind = "withdraw" THEN "abandoned" ELSE "open",
                       IF env.kind = "propose" THEN offer ELSE exchanges[e].pending)
  <2>1. /\ IsOpen(e) /\ out' = <<post>> /\ e \in DOMAIN exchanges
        /\ exchanges' = [exchanges EXCEPT ![e] = x]
    BY <1>6 DEF Converse, Record, IsOpen
  <2>2. post.exc = e /\ post.kind = env.kind /\ post.from = env.from
    BY DEF Posted
  <2>3. Len(out') = 1 /\ DOMAIN out' = {1} /\ out'[1] = post
    BY <1>2, <2>1
  <2>4. /\ x.status = IF env.kind = "withdraw" THEN "abandoned" ELSE "open"
        /\ x.pending.from = IF env.kind = "propose" THEN env.from ELSE exchanges[e].pending.from
    BY DEF Turn
  <2> HIDE DEF x, post, e, offer
  <2>5. \A j \in DOMAIN out' : out'[j].exc = e /\ out'[j].kind = env.kind /\ out'[j].from = env.from
    BY <2>2, <2>3
  <2>6. CASE env.kind = "withdraw"
    BY <2>1, <2>4, <2>5, <2>6, TurnFollows
  <2>7. CASE env.kind = "propose"
    <3>1. /\ x.status = "open" /\ out'[1].kind = "propose" /\ out'[1].exc = e
          /\ out'[1].from = x.pending.from
      BY <2>2, <2>3, <2>4, <2>7
    <3>2. \A j \in DOMAIN out' : out'[j].exc = e
      BY <2>5
    <3> QED
      BY <2>1, <2>3, <3>1, <3>2, TurnFollows
  <2>8. CASE env.kind \notin {"withdraw", "propose"}
    <3>1. /\ x.status = "open" /\ x.pending.from = exchanges[e].pending.from
          /\ env.kind \notin {"propose", "settle", "withdraw"}
      BY <2>4, <2>8
    <3>2. \A j \in DOMAIN out' :
            out'[j].exc = e /\ out'[j].kind \notin {"propose", "settle", "withdraw"}
      BY <2>5, <3>1
    <3> QED
      BY <2>1, <2>3, <3>1, <3>2, TurnFollows
  <2> QED
    BY <2>6, <2>7, <2>8
<1>7. ASSUME NEW x, NEW synth, e \in DOMAIN exchanges, exchanges' = [exchanges EXCEPT ![e] = x],
             out' = <<post, synth>>, synth.exc = e,
             x.status = "abandoned" \/ (x.status = "settled" /\ synth.kind = "settle")
      PROVE  Follows
  <2>1. post.exc = e
    BY DEF Posted
  <2> HIDE DEF post, e
  <2>2. 2 \in DOMAIN out' /\ out'[2] = synth
        /\ \A j \in DOMAIN out' : out'[j] = post \/ out'[j] = synth
    BY <1>3, <1>7
  <2>3. \A j \in DOMAIN out' : out'[j].exc = e
    BY <1>7, <2>1, <2>2
  <2>4. CASE x.status = "abandoned"
    BY <1>7, <2>3, <2>4, TurnFollows
  <2>5. CASE x.status = "settled" /\ synth.kind = "settle"
    <3>1. \E j \in DOMAIN out' : out'[j].kind = "settle"
      BY <2>2, <2>5
    <3> QED
      BY <1>7, <2>3, <2>5, <3>1, TurnFollows
  <2> QED
    BY <1>7, <2>4, <2>5
<1>8. CASE Settle(env, via, idle)
  <2> DEFINE x == Turn(exchanges[e], "settled", exchanges[e].pending)
             synth == Synthesized(env, e, "settle", Others(exchanges[e].parts, env.from),
                                  exchanges[e].pending.terms)
  <2>1. e \in DOMAIN exchanges /\ exchanges' = [exchanges EXCEPT ![e] = x] /\ out' = <<post, synth>>
    BY <1>8 DEF Settle, Record, Matches, IsOpen
  <2>2. x.status = "settled" /\ synth.exc = e /\ synth.kind = "settle"
    BY DEF Turn, Synthesized
  <2> HIDE DEF x, synth, post, e
  <2> QED
    BY <1>7, <2>1, <2>2
<1>9. CASE Refuse(env, via, idle)
  <2> DEFINE x == Turn(exchanges[e], "abandoned", exchanges[e].pending)
             synth == Synthesized(env, e, "decline", {exchanges[e].pending.from}, NoTerms)
  <2>1. e \in DOMAIN exchanges /\ exchanges' = [exchanges EXCEPT ![e] = x] /\ out' = <<post, synth>>
    BY <1>9 DEF Refuse, Record, Matches, IsOpen
  <2>2. x.status = "abandoned" /\ synth.exc = e
    BY DEF Turn, Synthesized
  <2> HIDE DEF x, synth, post, e
  <2> QED
    BY <1>7, <2>1, <2>2
<1> QED
  BY <1>4, <1>5, <1>6, <1>8, <1>9 DEF Emit

(***************************************************************************)
(* So does every step of a think.                                          *)
(***************************************************************************)
LEMMA ProgressFollows ==
  ASSUME IInv, NEW tm, Progress(tm)
  PROVE  Follows
<1>1. ASSUME NEW v, NEW e, NEW idle, Capped(e), CapWithdraw(v, e, idle) PROVE Follows
  <2> DEFINE x == Turn(exchanges[e], "abandoned", exchanges[e].pending)
  <2>1. e \in DOMAIN exchanges /\ exchanges' = [exchanges EXCEPT ![e] = x]
    BY <1>1 DEF Capped, IsOpen, CapWithdraw
  <2>2. x.status = "abandoned"
    BY DEF Turn
  <2>3. \A j \in DOMAIN out' : out'[j].exc = e
    BY <1>1 DEF CapWithdraw, Record
  <2> HIDE DEF x
  <2> QED
    BY <2>1, <2>2, <2>3, TurnFollows
<1>2. CASE Fire(tm) \/ ThinkFails(tm)
  BY <1>2, QuietFollows DEF Fire, ThinkFails, Drop
<1>3. CASE ThinkBegin(tm)
  BY <1>1, <1>3, QuietFollows DEF ThinkBegin, Drop
<1>4. CASE ThinkCapped(tm)
  BY <1>1, <1>4 DEF ThinkCapped
<1>5. ASSUME NEW a \in Acts, ThinkSpeaks(tm, a) PROVE Follows
  <2>1. Emit(Reply(tm, a), "think", timers \ {tm}) /\ Reply(tm, a).kind # "settle"
    BY <1>5 DEF ThinkSpeaks, Barred
  <2> QED
    BY <2>1, EmitFollows
<1> QED
  BY <1>2, <1>3, <1>4, <1>5 DEF Progress

-----------------------------------------------------------------------------
(***************************************************************************)
(* A call that follows hands its envelopes to Append behind all others.    *)
(***************************************************************************)
LEMMA CallCatches ==
  ASSUME FabricInv, IInv', CatchInv, Follows, index' = index,
         UNCHANGED <<queue, dropped, failed, writer, utterances>>,
         handed = Len(out), handed' = 0, uttSeq' = uttSeq + Len(out')
  PROVE  CatchInv'
<1>0. /\ uttSeq \in Nat /\ out \in Seq(Post) /\ out' \in Seq(Post)
      /\ Len(out') \in Nat /\ DOMAIN out' = 1 .. Len(out') /\ uttSeq' \in Nat
  BY DEF FabricInv, IInv, TypeOK
<1>1. ToHand = {}
  <2>1. Len(out) + 1 .. Len(out) = {}
    BY <1>0
  <2> QED
    BY <2>1 DEF ToHand
<1>2. \A x \in ToHand' : \E j \in DOMAIN out' : x = [n |-> uttSeq + j, post |-> out'[j]]
  BY <1>0 DEF ToHand
<1>3. \A j \in DOMAIN out' : [n |-> uttSeq + j, post |-> out'[j]] \in ToHand'
  BY <1>0 DEF ToHand
<1>4. /\ Seen' = Seen /\ Seen \subseteq Known
      /\ Known' = Known \cup ToHand'
  <2>1. InHand' = InHand
    BY DEF InHand
  <2> QED
    BY <1>1, <2>1 DEF Seen, Known, Unindexed
<1>5. \A x \in ToHand' : x \in Item /\ x.n > uttSeq /\ x.n <= uttSeq'
  BY <1>0, <1>2 DEF Item
<1>6. \A i \in Known : i \in Item /\ i.n <= uttSeq /\ i.n \in Nat
  BY DEF CatchInv, OneEach, Item
<1>7. OneEach'
  <2>1. ASSUME NEW i \in ToHand', NEW j \in ToHand', i.n = j.n PROVE i = j
    BY <1>0, <1>2, <2>1
  <2>2. ASSUME NEW i \in Known, NEW j \in ToHand' PROVE i.n # j.n /\ j.n # i.n
    BY <1>0, <1>5, <1>6, <2>2 DEF Item
  <2>3. \A i \in Known' : i \in Item /\ i.n <= uttSeq'
    BY <1>0, <1>4, <1>5, <1>6 DEF Item
  <2>4. \A i, j \in Known : i.n = j.n => i = j
    BY DEF CatchInv, OneEach
  <2>5. \A i, j \in Known' : i.n = j.n => i = j
    BY <1>4, <2>1, <2>2, <2>4, Zenon
  <2> QED
    BY <2>3, <2>5 DEF OneEach
<1>8. IndexFollows'
  BY <1>4 DEF CatchInv, IndexFollows, Verdict
<1>9. ASSUME NEW e \in DOMAIN exchanges', exchanges'[e].status = "open"
      PROVE  \E d \in Known' : /\ Verdict(Known', e, d) /\ d.post.kind = "propose"
                              /\ d.post.from = exchanges'[e].pending.from
  <2>1. CASE /\ Len(out') = 1 /\ out'[1].kind = "propose" /\ out'[1].exc = e
             /\ out'[1].from = exchanges'[e].pending.from
    <3> DEFINE x == [n |-> uttSeq + 1, post |-> out'[1]]
    <3>1. x \in ToHand' /\ x.n = uttSeq + 1 /\ x.post = out'[1]
      BY <1>0, <1>3, <2>1
    <3>2. \A i \in ToHand' : i.n = uttSeq + 1
      BY <1>0, <1>2, <2>1
    <3>3. \A i \in Known' : i.n <= x.n
      BY <1>0, <1>4, <1>6, <3>1, <3>2
    <3> HIDE DEF x
    <3> QED
      BY <1>4, <2>1, <3>1, <3>3 DEF Verdict, Decides
  <2>2. CASE /\ IsOpen(e) /\ exchanges'[e].pending.from = exchanges[e].pending.from
             /\ \A j \in DOMAIN out' :
                  out'[j].exc = e => out'[j].kind \notin {"propose", "settle", "withdraw"}
    <3>1. PICK d \in Known : /\ Verdict(Known, e, d) /\ d.post.kind = "propose"
                             /\ d.post.from = exchanges[e].pending.from
      BY <2>2 DEF IsOpen, CatchInv, DealsAreKnown
    <3>2. \A i \in ToHand' : ~Decides(i, e)
      BY <1>2, <2>2 DEF Decides
    <3>3. Verdict(Known', e, d)
      BY <1>4, <3>1, <3>2 DEF Verdict
    <3> QED
      BY <1>4, <2>2, <3>1, <3>3
  <2> QED
    BY <1>9, <2>1, <2>2 DEF Follows
<1>10. ASSUME NEW e \in DOMAIN exchanges', exchanges'[e].status = "settled"
       PROVE  \E s \in Known' : s.post.exc = e /\ s.post.kind = "settle"
  <2>1. CASE e \in DOMAIN exchanges /\ exchanges[e].status = "settled"
    BY <1>4, <2>1 DEF CatchInv, DealsAreKnown
  <2>2. CASE \E j \in DOMAIN out' : out'[j].exc = e /\ out'[j].kind = "settle"
    <3>1. PICK j \in DOMAIN out' : out'[j].exc = e /\ out'[j].kind = "settle"
      BY <2>2
    <3> DEFINE x == [n |-> uttSeq + j, post |-> out'[j]]
    <3>2. x \in ToHand' /\ x.post = out'[j]
      BY <1>3
    <3> QED
      BY <1>4, <3>1, <3>2
  <2> QED
    BY <1>10, <2>1, <2>2 DEF Follows
<1> QED
  BY <1>7, <1>8, <1>9, <1>10 DEF CatchInv, DealsAreKnown

(***************************************************************************)
(* A step that only moves envelopes along, or none.                        *)
(***************************************************************************)
LEMMA QuietCatches ==
  ASSUME CatchInv, UNCHANGED <<exchanges, uttSeq, index>>, Seen' = Seen, Known' = Known
  PROVE  CatchInv'
BY DEF CatchInv, OneEach, IndexFollows, DealsAreKnown, Verdict

(***************************************************************************)
(* What the writer takes is newer than all the index has seen.             *)
(***************************************************************************)
LEMMA TakeCatches ==
  ASSUME FabricInv, CatchInv, Take
  PROVE  CatchInv'
<1> DEFINE x == Head(queue)
<1>1. /\ queue \in Seq(Item) /\ queue # <<>> /\ Climbs(queue)
      /\ writer.pc \in {"idle", "draining"}
      /\ writer' = [pc |-> "store", item |-> x, draining |-> Draining]
      /\ queue' = Tail(queue) /\ index' = Indexed(x.post)
      /\ UNCHANGED <<vars, handed, dropped, failed, utterances>>
  BY DEF FabricInv, PipeInv, PipeTypeOK, InOrder, Take
<1>2. /\ x \in Item /\ SetOf(queue) = {x} \cup SetOf(queue')
  BY <1>1, TakeFirst
<1>3. InHand = {} /\ InHand' = {x}
  BY <1>1 DEF InHand
<1>4. Below(Seen, {x})
  BY <1>2, <1>3 DEF FabricInv, PipeInv, InOrder, Below, Seen
<1>5. /\ Seen' = Seen \cup {x}
      /\ Known' = Known /\ exchanges' = exchanges /\ uttSeq' = uttSeq
  <2>1. ToHand' = ToHand
    BY <1>1 DEF ToHand, vars
  <2> QED
    BY <1>1, <1>2, <1>3, <2>1 DEF Seen, Known, Unindexed, vars
<1> HIDE DEF x
<1>6. OneEach' /\ DealsAreKnown'
  BY <1>5 DEF CatchInv, OneEach, DealsAreKnown, Verdict
<1>7. x.n \in Nat /\ \A d \in Seen : d.n < x.n /\ d.n \in Nat
  BY <1>2, <1>4 DEF Below, CatchInv, OneEach, Known, Item
<1>8. ASSUME NEW e \in Nat \ {0}
      PROVE  /\ e \in DOMAIN index' =>
                  \E d \in Seen' : /\ Verdict(Seen', e, d) /\ d.post.kind = "propose"
                                  /\ d.post.from = index'[e]
             /\ \A d \in Seen' : Verdict(Seen', e, d) /\ d.post.kind = "propose"
                                 => e \in DOMAIN index'
  <2>0. /\ e \in DOMAIN index =>
             \E d \in Seen : Verdict(Seen, e, d) /\ d.post.kind = "propose" /\ d.post.from = index[e]
        /\ \A d \in Seen : Verdict(Seen, e, d) /\ d.post.kind = "propose" => e \in DOMAIN index
    BY DEF CatchInv, IndexFollows
  <2>1. CASE Decides(x, e)
    <3>1. Verdict(Seen', e, x) /\ \A d \in Seen' : Verdict(Seen', e, d) => d = x
      BY <1>5, <1>7, <2>1 DEF Verdict
    <3>2. CASE x.post.kind = "propose"
      <4>1. index' = [f \in DOMAIN index \cup {e} |-> IF f = e THEN x.post.from ELSE index[f]]
        BY <1>1, <2>1, <3>2 DEF Decides, Indexed, NoExc
      <4>2. e \in DOMAIN index' /\ index'[e] = x.post.from
        BY <4>1
      <4> QED
        BY <1>5, <3>1, <3>2, <4>2
    <3>3. CASE x.post.kind \in {"settle", "withdraw"}
      <4>1. index' = [f \in DOMAIN index \ {e} |-> index[f]]
        BY <1>1, <2>1, <3>3 DEF Decides, Indexed
      <4>2. e \notin DOMAIN index'
        BY <4>1
      <4> QED
        BY <3>1, <3>3, <4>2
    <3> QED
      BY <2>1, <3>2, <3>3 DEF Decides
  <2>2. CASE ~Decides(x, e)
    <3>1. \A d : Verdict(Seen', e, d) <=> Verdict(Seen, e, d)
      BY <1>5, <2>2 DEF Verdict
    <3>2. /\ e \in DOMAIN index' <=> e \in DOMAIN index
          /\ e \in DOMAIN index => index'[e] = index[e]
      <4>1. CASE x.post.kind = "propose" /\ x.post.exc # NoExc
        <5>1. index' = [f \in DOMAIN index \cup {x.post.exc} |->
                          IF f = x.post.exc THEN x.post.from ELSE index[f]]
          BY <1>1, <4>1 DEF Indexed
        <5>2. x.post.exc # e
          BY <2>2, <4>1 DEF Decides
        <5> QED
          BY <5>1, <5>2
      <4>2. CASE x.post.kind \in {"settle", "withdraw"}
        <5>1. index' = [f \in DOMAIN index \ {x.post.exc} |-> index[f]]
          BY <1>1, <4>2 DEF Indexed
        <5>2. x.post.exc # e
          BY <2>2, <4>2 DEF Decides
        <5> QED
          BY <5>1, <5>2
      <4>3. CASE ~(x.post.kind = "propose" /\ x.post.exc # NoExc)
                 /\ x.post.kind \notin {"settle", "withdraw"}
        BY <1>1, <4>3 DEF Indexed
      <4> QED
        BY <4>1, <4>2, <4>3
    <3> QED
      BY <1>5, <2>0, <3>1, <3>2 DEF Verdict
  <2> QED
    BY <2>1, <2>2
<1> QED
  BY <1>6, <1>8 DEF CatchInv, IndexFollows

(***************************************************************************)
(* The other steps of the pipeline move an envelope from one place to the  *)
(* next.                                                                   *)
(***************************************************************************)
LEMMA PipelineCatches ==
  ASSUME FabricInv, CatchInv, HandOver \/ WriterSteps \/ Stop
  PROVE  CatchInv'
<1>0. /\ out \in Seq(Post) /\ uttSeq \in Nat /\ handed \in 0 .. Len(out)
      /\ queue \in Seq(Item) /\ Climbs(queue) /\ utterances \in Seq(Item)
      /\ writer \in Writer
  BY DEF FabricInv, IInv, TypeOK, PipeInv, PipeTypeOK, InOrder
<1>1. CASE HandOver
  <2>1. /\ handed # Len(out) /\ handed' = handed + 1
        /\ UNCHANGED <<vars, index, failed, writer, utterances>>
        /\ \/ queue' = Append(queue, Offered) /\ dropped' = dropped
           \/ dropped' = dropped \cup {Offered} /\ queue' = queue
    BY <1>1 DEF HandOver, Unlocked, root
  <2>2. /\ UNCHANGED <<exchanges, uttSeq, index>> /\ out' = out /\ InHand' = InHand
    BY <2>1 DEF vars, InHand
  <2>3. ToHand = {Offered} \cup ToHand'
    <3>1. \A x : x \in ToHand <=>
            \E j \in handed + 1 .. Len(out) : x = [n |-> uttSeq - Len(out) + j, post |-> out[j]]
      BY DEF ToHand
    <3>2. \A x : x \in ToHand' <=>
            \E j \in handed + 2 .. Len(out) : x = [n |-> uttSeq - Len(out) + j, post |-> out[j]]
      BY <1>0, <2>1, <2>2 DEF ToHand
    <3>3. handed + 1 .. Len(out) = {handed + 1} \cup handed + 2 .. Len(out)
      BY <1>0, <2>1
    <3>4. Offered = [n |-> uttSeq - Len(out) + (handed + 1), post |-> out[handed + 1]]
      BY <1>0 DEF Offered
    <3> QED
      BY <3>1, <3>2, <3>3, <3>4
  <2>4. Offered \in Item
    BY <1>0, <2>1 DEF Offered, Item, FabricInv, PipeInv, PipeTypeOK
  <2>5. SetOf(Append(queue, Offered)) = SetOf(queue) \cup {Offered}
    BY <1>0, <2>4, PutLast
  <2>6. Seen' = Seen
    BY <2>1, <2>2 DEF Seen
  <2>7. Known' = Known
    BY <2>1, <2>3, <2>5, <2>6 DEF Known, Unindexed
  <2> QED
    BY <2>2, <2>6, <2>7, QuietCatches
<1>2. ASSUME UNCHANGED vars, UNCHANGED root, handed' = handed, Seen' = Seen,
             SetOf(queue)' \cup dropped' = SetOf(queue) \cup dropped
      PROVE  CatchInv'
  <2>1. ToHand' = ToHand /\ UNCHANGED <<exchanges, uttSeq, index>>
    BY <1>2 DEF ToHand, vars, root
  <2>2. Known' = Known
    BY <1>2, <2>1 DEF Known, Unindexed
  <2> QED
    BY <1>2, <2>1, <2>2, QuietCatches
<1>3. CASE Stored
  <2>1. /\ writer.pc = "store" /\ utterances' = Append(utterances, writer.item)
        /\ writer' = [writer EXCEPT !.pc = "send"]
        /\ UNCHANGED <<vars, root, handed, queue, dropped, failed>>
    BY <1>3 DEF Stored
  <2>2. /\ writer.item \in Item /\ InHand = {writer.item} /\ writer'.pc = "send"
    BY <1>0, <2>1, WriterFacts
  <2>3. InHand' = {}
    BY <2>2 DEF InHand
  <2>4. SetOf(utterances') = SetOf(utterances) \cup {writer.item}
    BY <1>0, <2>1, <2>2, PutLast
  <2>5. Seen' = Seen
    BY <2>1, <2>2, <2>3, <2>4 DEF Seen
  <2> QED
    BY <1>2, <2>1, <2>5
<1>4. CASE StoreFails
  <2>1. /\ writer.pc = "store" /\ utterances' \in {utterances, Append(utterances, writer.item)}
        /\ writer' = Rest(writer) /\ failed' = failed \cup {writer.item}
        /\ UNCHANGED <<vars, root, handed, queue, dropped>>
    BY <1>4 DEF StoreFails
  <2>2. /\ writer.item \in Item /\ InHand = {writer.item}
        /\ writer' \in {Idle, [pc |-> "draining"]}
    BY <1>0, <2>1, WriterFacts
  <2>3. InHand' = {}
    BY <2>2 DEF InHand, Idle
  <2>4. SetOf(Append(utterances, writer.item)) = SetOf(utterances) \cup {writer.item}
    BY <1>0, <2>2, PutLast
  <2>5. Seen' = Seen
    BY <2>1, <2>2, <2>3, <2>4 DEF Seen
  <2> QED
    BY <1>2, <2>1, <2>5
<1>5. ASSUME writer.pc # "store", writer'.pc # "store",
             UNCHANGED <<vars, root, handed, failed, utterances>>,
             SetOf(queue)' \cup dropped' = SetOf(queue) \cup dropped
      PROVE  CatchInv'
  <2>1. Seen' = Seen
    BY <1>5 DEF Seen, InHand
  <2> QED
    BY <1>2, <1>5, <2>1
<1>6. CASE Broadcast
  <2>1. writer.pc = "send" /\ writer' = Rest(writer)
        /\ UNCHANGED <<vars, root, handed, queue, dropped, failed, utterances>>
    BY <1>6 DEF Broadcast
  <2>2. writer'.pc # "store"
    BY <1>0, <2>1, WriterFacts DEF Idle
  <2> QED
    BY <1>5, <2>1, <2>2
<1>7. CASE NoticeStop \/ Drained
  <2>1. writer.pc # "store" /\ writer'.pc # "store"
        /\ UNCHANGED <<vars, root, handed, queue, dropped, failed, utterances>>
    BY <1>7 DEF NoticeStop, Drained, Draining, Idle
  <2> QED
    BY <1>5, <2>1
<1>8. CASE DeadlinePasses
  <2>1. writer.pc # "store" /\ writer'.pc # "store" /\ queue # <<>>
        /\ queue' = Tail(queue) /\ dropped' = dropped \cup SetOf(queue)
        /\ UNCHANGED <<vars, root, handed, failed, utterances>>
    BY <1>8 DEF DeadlinePasses, Draining
  <2>2. SetOf(queue) = {Head(queue)} \cup SetOf(queue')
    BY <1>0, <2>1, TakeFirst
  <2> QED
    BY <1>5, <2>1, <2>2
<1>9. CASE Stop
  <2>1. UNCHANGED <<vars, root, handed, queue, dropped, failed, writer, utterances>>
    BY <1>9 DEF Stop
  <2>2. Seen' = Seen
    BY <2>1 DEF Seen, InHand
  <2> QED
    BY <1>2, <2>1, <2>2
<1> QED
  BY <1>1, <1>3, <1>4, <1>6, <1>7, <1>8, <1>9, TakeCatches DEF WriterSteps

(***************************************************************************)
(* Every step of the fabric leaves the index to follow the deals.          *)
(***************************************************************************)
LEMMA CatchKeeps ==
  ASSUME FabricInv, FabricInv', CatchInv, [FabricNext]_fabricVars
  PROVE  CatchInv'
<1>0. IInv /\ IInv' /\ uttSeq \in Nat
  BY DEF FabricInv, IInv, TypeOK
<1>1. ASSUME NEW C, Locked(C), index' = index, Follows, uttSeq' = uttSeq + Len(out')
      PROVE  CatchInv'
  <2>1. /\ handed = Len(out) /\ handed' = 0
        /\ UNCHANGED <<queue, dropped, failed, writer, utterances>>
    BY <1>1 DEF Locked, Unlocked
  <2> QED
    BY <1>0, <1>1, <2>1, CallCatches
<1>2. ASSUME UNCHANGED <<vars, pipeline, index>> PROVE CatchInv'
  <2>1. /\ UNCHANGED <<exchanges, uttSeq, index>>
        /\ UNCHANGED <<out, handed, queue, dropped, failed, writer, utterances>>
    BY <1>2 DEF vars, pipeline
  <2>2. Seen' = Seen /\ Known' = Known
    BY <2>1 DEF Seen, Known, InHand, Unindexed, ToHand
  <2> QED
    BY <2>1, <2>2, QuietCatches
<1>3. CASE UNCHANGED fabricVars
  BY <1>2, <1>3 DEF fabricVars, root
<1>4. ASSUME NEW c, AddVoice(c), Locked(AddVoice(c)), index' = index PROVE CatchInv'
  <2>1. Follows /\ uttSeq' = uttSeq + Len(out')
    BY <1>0, <1>4, QuietFollows, QuietCounts DEF AddVoice
  <2> QED
    BY <1>1, <1>4, <2>1
<1>5. ASSUME NEW c, CreditVoice(c), Locked(CreditVoice(c)), index' = index PROVE CatchInv'
  <2>1. Follows /\ uttSeq' = uttSeq + Len(out')
    BY <1>0, <1>5, QuietFollows, QuietCounts DEF CreditVoice
  <2> QED
    BY <1>1, <1>5, <2>1
<1>6. ASSUME NEW i, NEW e, Inject(i, e), Locked(Inject(i, e)), index' = index
      PROVE  CatchInv'
  <2>1. Follows /\ uttSeq' = uttSeq + Len(out')
    BY <1>0, <1>6, EmitFollows, EmitCounts DEF Inject
  <2> QED
    BY <1>1, <1>6, <2>1
<1>7. CASE \E c \in Cast : Seed(c)
  BY <1>4, <1>7 DEF Seed, Locked, root
<1>8. ASSUME NEW v \in Residents, Reserve(v) PROVE CatchInv'
  BY <1>2, <1>8 DEF Reserve
<1>9. ASSUME NEW v \in Residents, EmbodyResident(v) PROVE CatchInv'
  BY <1>4, <1>9 DEF EmbodyResident, Locked
<1>10. ASSUME NEW v \in Residents, Grant(v) PROVE CatchInv'
  BY <1>5, <1>10 DEF Grant, Locked
<1>11. ASSUME NEW v \in Residents, SayOnLine(v) PROVE CatchInv'
  <2>1. PrincipalSays(v) /\ Locked(PrincipalSays(v)) /\ index' = index
    BY <1>11 DEF SayOnLine, Locked, root
  <2>2. Follows /\ uttSeq' = uttSeq + Len(out')
    BY <1>0, <2>1, EmitFollows, EmitCounts DEF PrincipalSays
  <2> QED
    BY <1>1, <2>1, <2>2
<1>12. ASSUME NEW i \in Injections, Murmur(i) PROVE CatchInv'
  BY <1>6, <1>12 DEF Murmur, Locked, root
<1>13. ASSUME NEW k \in Calls,
              \/ \E v \in Residents, e \in DOMAIN index, approve \in BOOLEAN :
                   ConsentRead(k, v, e, approve)
              \/ ConsentPending(k)
       PROVE  CatchInv'
  BY <1>2, <1>13 DEF ConsentRead, ConsentPending
<1>14. ASSUME NEW k \in Calls, ConsentInject(k) PROVE CatchInv'
  BY <1>6, <1>14 DEF ConsentInject, Locked
<1>15. ASSUME NEW tm \in timers, Locked(Progress(tm)), UNCHANGED root PROVE CatchInv'
  <2>1. Progress(tm)
    BY <1>15 DEF Locked
  <2>2. Follows /\ uttSeq' = uttSeq + Len(out')
    BY <1>0, <2>1, ProgressFollows, ProgressCounts
  <2> QED
    BY <1>1, <1>15, <2>2 DEF root
<1>16. CASE HandOver \/ WriterSteps \/ Stop
  BY <1>16, PipelineCatches
<1> QED
  BY <1>3, <1>7, <1>8, <1>9, <1>10, <1>11, <1>12, <1>13, <1>14, <1>15, <1>16 DEF FabricNext

(***************************************************************************)
(* At the start nothing is on record.                                      *)
(***************************************************************************)
LEMMA CatchStarts ==
  ASSUME FabricInit
  PROVE  CatchInv
<1>1. /\ out = <<>> /\ uttSeq = 0 /\ exchanges = <<>> /\ handed = 0 /\ queue = <<>>
      /\ dropped = {} /\ failed = {} /\ writer = Idle /\ utterances = <<>>
      /\ DOMAIN index = {}
  BY DEF FabricInit, Init
<1>2. SetOf(<<>>) = {} /\ DOMAIN exchanges = {} /\ Len(out) = 0
  BY <1>1 DEF SetOf
<1>3. InHand = {} /\ ToHand = {}
  BY <1>1, <1>2 DEF InHand, Idle, ToHand
<1>4. Known = {} /\ Seen = {}
  BY <1>1, <1>2, <1>3 DEF Known, Seen, Unindexed
<1> QED
  BY <1>1, <1>2, <1>4 DEF CatchInv, OneEach, IndexFollows, DealsAreKnown

(***************************************************************************)
(* Once the writer has taken all that is about an exchange, the consent    *)
(* index knows who made its pending offer; and it forgot the exchange if   *)
(* that settled, unless somebody proposed in it again.                     *)
(***************************************************************************)
THEOREM IndexFollowsDeals == FabricSpec => []IndexCatchesUp
<1>1. FabricInit => CatchInv
  BY CatchStarts
<1>2. FabricInv /\ FabricInv' /\ CatchInv /\ [FabricNext]_fabricVars => CatchInv'
  BY CatchKeeps
<1>3. ASSUME FabricInv, CatchInv PROVE IndexCatchesUp
  <2> SUFFICES ASSUME NEW e \in DOMAIN exchanges, \A i \in Unindexed : i.post.exc # e
               PROVE  /\ exchanges[e].status = "open" =>
                           e \in DOMAIN index /\ index[e] = exchanges[e].pending.from
                      /\ exchanges[e].status = "settled" => (e \in DOMAIN index => Reopened(e))
    BY DEF IndexCatchesUp
  <2>1. /\ e \in Nat \ {0}
        /\ \A i, j \in Known : i.n = j.n => i = j
        /\ \A i \in Known : i.n \in Nat
    BY <1>3 DEF FabricInv, IInv, TypeOK, CatchInv, OneEach, Item
  <2>2. Known = Seen \cup Unindexed
    BY DEF Known
  <2>3. /\ e \in DOMAIN index =>
             \E d \in Seen : Verdict(Seen, e, d) /\ d.post.kind = "propose" /\ d.post.from = index[e]
        /\ \A d \in Seen : Verdict(Seen, e, d) /\ d.post.kind = "propose" => e \in DOMAIN index
    BY <1>3, <2>1 DEF CatchInv, IndexFollows
  <2>4. CASE exchanges[e].status = "open"
    <3>1. PICK d \in Known : /\ Verdict(Known, e, d) /\ d.post.kind = "propose"
                             /\ d.post.from = exchanges[e].pending.from
      BY <1>3, <2>4 DEF CatchInv, DealsAreKnown
    <3>2. d \in Seen /\ Verdict(Seen, e, d)
      BY <2>2, <3>1 DEF Verdict, Decides
    <3>3. \A x \in Seen : Verdict(Seen, e, x) => x = d
      <4> SUFFICES ASSUME NEW x \in Seen, Verdict(Seen, e, x) PROVE x = d
        OBVIOUS
      <4>1. x.n <= d.n /\ d.n <= x.n
        BY <3>2 DEF Verdict
      <4>2. x \in Known /\ d \in Known
        BY <2>2, <3>2
      <4> QED
        BY <2>1, <4>1, <4>2
    <3> QED
      BY <2>3, <2>4, <3>1, <3>2, <3>3
  <2>5. CASE exchanges[e].status = "settled"
    <3> SUFFICES ASSUME e \in DOMAIN index PROVE Reopened(e)
      BY <2>5
    <3>1. PICK s \in Known : s.post.exc = e /\ s.post.kind = "settle"
      BY <1>3, <2>5 DEF CatchInv, DealsAreKnown
    <3>2. s \in Seen
      BY <2>2, <3>1
    <3>3. PICK p \in Seen : Verdict(Seen, e, p) /\ p.post.kind = "propose"
      BY <2>3
    <3>4. s.n <= p.n /\ s # p /\ p.post.exc = e
      BY <3>1, <3>2, <3>3 DEF Verdict, Decides
    <3>5. s.n < p.n
      BY <2>1, <2>2, <3>2, <3>4
    <3> QED
      BY <3>1, <3>2, <3>3, <3>4, <3>5 DEF Reopened, Seen
  <2> QED
    BY <2>4, <2>5
<1> QED
  BY <1>1, <1>2, <1>3, FabricHolds, PTL DEF FabricSpec

-----------------------------------------------------------------------------
(***************************************************************************)
(* The shadow ledger.  What an envelope moves does not depend on what the  *)
(* ledger held before.                                                     *)
(***************************************************************************)
LEMMA MovesAdds ==
  ASSUME NEW ledger \in [Names -> Int], NEW i \in Item, NEW n \in Names
  PROVE  /\ Net(i, n) \in Int
         /\ Moves(ledger, i.post)[n] = ledger[n] + Net(i, n)
<1> DEFINE t == i.post.terms
           zero == [m \in Names |-> 0]
<1>1. t \in Terms \cup {NoTerms} /\ ledger[n] \in Int
  BY DEF Item, Post
<1>2. zero \in [Names -> Int] /\ zero[n] = 0
  OBVIOUS
<1>3. Net(i, n) = Moves(zero, i.post)[n]
  BY DEF Net
<1> HIDE DEF zero
<1>4. CASE i.post.kind = "settle" /\ t # NoTerms /\ t.type = "trade" /\ SpendReads(t)
  <2>1. t.price \in Int /\ t.buyer \in Names /\ t.seller \in Names
    BY <1>1, <1>4, TermsAssumption
  <2>2. \A l : Moves(l, i.post)
                = [[l EXCEPT ![t.buyer] = @ - t.price] EXCEPT ![t.seller] = @ + t.price]
    BY <1>4 DEF Moves
  <2> HIDE DEF t
  <2>3. ASSUME NEW l \in [Names -> Int]
        PROVE  [[l EXCEPT ![t.buyer] = @ - t.price] EXCEPT ![t.seller] = @ + t.price][n]
                 = l[n] + (IF n = t.seller THEN t.price ELSE 0)
                        - (IF n = t.buyer THEN t.price ELSE 0)
    <3> DEFINE m == [l EXCEPT ![t.buyer] = @ - t.price]
    <3>1. m \in [Names -> Int] /\ m[n] = IF n = t.buyer THEN l[n] - t.price ELSE l[n]
      BY <2>1
    <3>2. [[l EXCEPT ![t.buyer] = @ - t.price] EXCEPT ![t.seller] = @ + t.price]
            = [m EXCEPT ![t.seller] = @ + t.price]
      OBVIOUS
    <3>3. l[n] \in Int
      OBVIOUS
    <3> HIDE DEF m
    <3> QED
      BY <2>1, <3>1, <3>2, <3>3
  <2> DEFINE change == (IF n = t.seller THEN t.price ELSE 0)
                        - (IF n = t.buyer THEN t.price ELSE 0)
  <2>4. change \in Int
    BY <2>1
  <2>5. \A l \in [Names -> Int] : Moves(l, i.post)[n] = l[n] + change
    <3> SUFFICES ASSUME NEW l \in [Names -> Int] PROVE Moves(l, i.post)[n] = l[n] + change
      OBVIOUS
    <3>1. l[n] \in Int /\ Moves(l, i.post)
             = [[l EXCEPT ![t.buyer] = @ - t.price] EXCEPT ![t.seller] = @ + t.price]
      BY <2>2
    <3> QED
      BY <2>1, <2>3, <3>1
  <2> HIDE DEF change
  <2>6. Net(i, n) = change /\ Moves(ledger, i.post)[n] = ledger[n] + change
    BY <1>2, <1>3, <2>4, <2>5
  <2> QED
    BY <2>4, <2>6
<1>5. CASE ~(i.post.kind = "settle" /\ t # NoTerms /\ t.type = "trade" /\ SpendReads(t))
  <2>1. \A l : Moves(l, i.post) = l
    BY <1>5 DEF Moves
  <2> QED
    BY <1>1, <1>2, <1>3, <2>1
<1> QED
  BY <1>4, <1>5

(***************************************************************************)
(* What envelopes are worth, one more and one less.                        *)
(***************************************************************************)
LEMMA WorthPut ==
  ASSUME NEW S \in SUBSET Item, IsFiniteSet(S), NEW x \in Item, x \notin S, NEW n \in Names
  PROVE  /\ Worth(S, n) \in Int /\ Net(x, n) \in Int
         /\ Worth(S \cup {x}, n) = Worth(S, n) + Net(x, n)
         /\ IsFiniteSet(S \cup {x})
<1> DEFINE w == [i \in S |-> Net(i, n)]
           w2 == [i \in S \cup {x} |-> Net(i, n)]
<1>1. \A i \in S \cup {x} : Net(i, n) \in Int
  <2>1. [m \in Names |-> 0] \in [Names -> Int]
    OBVIOUS
  <2> QED
    BY <2>1, MovesAdds
<1>2. /\ \A i \in S : w[i] \in Int /\ w2[i] = w[i]
      /\ w2[x] = Net(x, n) /\ w2[x] \in Int
      /\ DOMAIN w = S /\ DOMAIN w2 = S \cup {x}
  BY <1>1
<1>3. Worth(S, n) = SumFunctionOnSet(w, S) /\ Worth(S \cup {x}, n) = SumFunctionOnSet(w2, S \cup {x})
  BY <1>2 DEF Worth, SumFunction
<1> HIDE DEF w, w2
<1>4. SumFunctionOnSet(w, S) \in Int
  BY <1>2, SumInt
<1>5. SumFunctionOnSet(w2, S \cup {x}) = w2[x] + SumFunctionOnSet(w, S)
  BY <1>2, SumPut
<1> QED
  BY <1>2, <1>3, <1>4, <1>5, FS_AddElement

LEMMA WorthTake ==
  ASSUME NEW S \in SUBSET Item, IsFiniteSet(S), NEW x \in S, NEW n \in Names
  PROVE  /\ IsFiniteSet(S \ {x})
         /\ Worth(S, n) \in Int /\ Net(x, n) \in Int
         /\ Worth(S \ {x}, n) = Worth(S, n) - Net(x, n)
<1> DEFINE R == S \ {x}
<1>1. R \in SUBSET Item /\ IsFiniteSet(R) /\ x \in Item /\ x \notin R /\ R \cup {x} = S
  BY FS_Subset
<1> HIDE DEF R
<1>2. Worth(R, n) \in Int /\ Net(x, n) \in Int /\ Worth(S, n) = Worth(R, n) + Net(x, n)
  BY <1>1, WorthPut
<1> QED
  BY <1>1, <1>2 DEF R

LEMMA WorthInt ==
  ASSUME NEW S \in SUBSET Item, IsFiniteSet(S), NEW n \in Names
  PROVE  Worth(S, n) \in Int
<1> DEFINE w == [i \in S |-> Net(i, n)]
<1>1. \A i \in S : w[i] \in Int /\ DOMAIN w = S
  <2>1. [m \in Names |-> 0] \in [Names -> Int]
    OBVIOUS
  <2> QED
    BY <2>1, MovesAdds
<1>2. DOMAIN w = S /\ Worth(S, n) = SumFunctionOnSet(w, DOMAIN w)
  BY DEF Worth, SumFunction
<1> HIDE DEF w
<1>3. SumFunctionOnSet(w, S) \in Int
  BY <1>1, SumInt
<1> QED
  BY <1>2, <1>3

(***************************************************************************)
(* What a call does to the marks is what its envelopes say: the world pays *)
(* when a settle is put on record, and then only.                          *)
(***************************************************************************)
Pays ==
  \/ out' = <<>> /\ marks' = marks
  \/ Len(out') = 1 /\ marks' = Moves(marks, out'[1])
  \/ Len(out') = 2 /\ marks' = Moves(Moves(marks, out'[1]), out'[2])

LEMMA EmitPays ==
  ASSUME IInv, NEW env, NEW via, NEW idle, env.kind # "settle", Emit(env, via, idle)
  PROVE  Pays
<1> DEFINE e == ExchangeOf(env)
<1>1. \A ledger, p : p.kind # "settle" => Moves(ledger, p) = ledger
  BY DEF Moves
<1>2. \A f : Posted(env, f, via).kind # "settle"
  BY DEF Posted
<1>3. \A p : LET s == <<p>> IN Len(s) = 1 /\ s[1] = p
  OBVIOUS
<1>4. \A p, q : LET s == <<p, q>> IN Len(s) = 2 /\ s[1] = p /\ s[2] = q
  OBVIOUS
<1>5. ASSUME NEW f, out' = <<Posted(env, f, via)>>, marks' = marks PROVE Pays
  <2>1. Len(out') = 1 /\ out'[1] = Posted(env, f, via)
    BY <1>3, <1>5
  <2>2. Moves(marks, out'[1]) = marks
    BY <1>1, <1>2, <2>1
  <2> QED
    BY <1>5, <2>1, <2>2 DEF Pays
<1>6. ASSUME NEW synth, out' = <<Posted(env, e, via), synth>>, marks' = Moves(marks, synth)
      PROVE  Pays
  <2>1. Len(out') = 2 /\ out'[1] = Posted(env, e, via) /\ out'[2] = synth
    BY <1>4, <1>6
  <2>2. Moves(marks, out'[1]) = marks
    BY <1>1, <1>2, <2>1
  <2> QED
    BY <1>6, <2>1, <2>2 DEF Pays
<1>7. CASE Crystallize(env, via, idle) \/ RecordOnly(env, via, idle) \/ Converse(env, via, idle)
  <2>1. marks' = marks /\ \E f : out' = <<Posted(env, f, via)>>
    BY <1>7 DEF Crystallize, RecordOnly, Converse, Record
  <2> QED
    BY <1>5, <2>1
<1>8. CASE Settle(env, via, idle)
  <2> DEFINE x == exchanges[e]
             t == x.pending.terms
             synth == Synthesized(env, e, "settle", Others(x.parts, env.from), t)
             owner == Owner(x.parts, env.from)
  <2>1. /\ out' = <<Posted(env, e, via), synth>>
        /\ Matches(env, e) /\ CanSettle(x, env.from) /\ Apply(owner, t)
    BY <1>8 DEF Settle, Record
  <2>2. Applies(owner, t) /\ t # NoTerms
    BY <2>1 DEF CanSettle, Matches
  <2>3. synth.kind = "settle" /\ synth.terms = t
    BY DEF Synthesized
  <2> HIDE DEF synth, owner
  <2>4. marks' = Moves(marks, synth)
    <3>1. CASE t.type \in ComfortTypes
      BY <2>1, <2>3, <3>1 DEF Apply, Moves, ComfortTypes
    <3>2. CASE t.type = "trade"
      <4>1. SpendReads(t)
        BY <2>2 DEF Applies, ApplyReads, SpendReads
      <4>2. marks' = [[marks EXCEPT ![t.buyer] = @ - t.price] EXCEPT ![t.seller] = @ + t.price]
        BY <2>1, <3>2 DEF Apply, ComfortTypes
      <4> QED
        BY <2>2, <2>3, <3>2, <4>1, <4>2 DEF Moves
    <3> QED
      BY <2>2, <3>1, <3>2 DEF Applies
  <2> QED
    BY <1>6, <2>1, <2>4
<1>9. CASE Refuse(env, via, idle)
  <2> DEFINE synth == Synthesized(env, e, "decline", {exchanges[e].pending.from}, NoTerms)
  <2>1. out' = <<Posted(env, e, via), synth>> /\ marks' = marks
    BY <1>9 DEF Refuse, Record
  <2>2. synth.kind # "settle"
    BY DEF Synthesized
  <2> HIDE DEF synth
  <2> QED
    BY <1>1, <1>6, <2>1, <2>2
<1> QED
  BY <1>7, <1>8, <1>9 DEF Emit

(***************************************************************************)
(* So do the steps of a think: one that gives up moves no marks.           *)
(***************************************************************************)
LEMMA ProgressPays ==
  ASSUME IInv, NEW tm, Progress(tm)
  PROVE  Pays
<1>1. ASSUME NEW v, NEW e, NEW idle, CapWithdraw(v, e, idle) PROVE Pays
  <2>1. PICK p : out' = <<p>> /\ p.kind = "withdraw" /\ marks' = marks
    BY <1>1 DEF CapWithdraw, Record
  <2>2. Len(out') = 1 /\ out'[1] = p
    BY <2>1
  <2> QED
    BY <2>1, <2>2 DEF Pays, Moves
<1>2. CASE Fire(tm) \/ ThinkFails(tm)
  BY <1>2 DEF Fire, ThinkFails, Drop, Pays
<1>3. CASE ThinkBegin(tm)
  BY <1>1, <1>3 DEF ThinkBegin, Drop, Pays
<1>4. CASE ThinkCapped(tm)
  BY <1>1, <1>4 DEF ThinkCapped
<1>5. ASSUME NEW a \in Acts, ThinkSpeaks(tm, a) PROVE Pays
  <2>1. Emit(Reply(tm, a), "think", timers \ {tm}) /\ Reply(tm, a).kind # "settle"
    BY <1>5 DEF ThinkSpeaks, Barred
  <2> QED
    BY <2>1, EmitPays
<1> QED
  BY <1>2, <1>3, <1>4, <1>5 DEF Progress

(***************************************************************************)
(* A call's envelopes are new to all that are on their way, so that what   *)
(* the unindexed ones are worth moves as the marks do.                     *)
(***************************************************************************)
LEMMA CallSettles ==
  ASSUME FabricInv, CatchInv, IsFiniteSet(Unindexed), out' \in Seq(Post), Pays,
         uttSeq' = uttSeq + Len(out'), handed = Len(out), handed' = 0,
         UNCHANGED <<queue, dropped>>
  PROVE  /\ IsFiniteSet(Unindexed')
         /\ \A n \in Names :
              /\ marks[n] \in Int /\ marks'[n] \in Int /\ Worth(Unindexed, n) \in Int
              /\ Worth(Unindexed', n) = Worth(Unindexed, n) + marks'[n] - marks[n]
<1> DEFINE U == Unindexed
           a == [n |-> uttSeq + 1, post |-> out'[1]]
           b == [n |-> uttSeq + 2, post |-> out'[2]]
<1>1. /\ uttSeq \in Nat /\ marks \in [Names -> Int] /\ Len(out) \in Nat
      /\ \A i \in U : i \in Item /\ i.n <= uttSeq
  BY DEF FabricInv, IInv, TypeOK, WorldTypeOK, CatchInv, OneEach, Known
<1>2. U = SetOf(queue) \cup dropped
  <2>1. ToHand = {}
    BY <1>1 DEF ToHand
  <2> QED
    BY <2>1 DEF Unindexed
<1>3. Unindexed' = ToHand' \cup U
  BY <1>2 DEF Unindexed, SetOf
<1>4. /\ Len(out') \in Nat
      /\ ToHand' = {[n |-> uttSeq + j, post |-> out'[j]] : j \in 1 .. Len(out')}
  <2>1. Len(out') \in Nat
    OBVIOUS
  <2>2. uttSeq' - Len(out') = uttSeq
    BY <1>1, <2>1
  <2> QED
    BY <1>1, <2>1, <2>2 DEF ToHand
<1>5. U \in SUBSET Item /\ IsFiniteSet(U)
  BY <1>1
<1> HIDE DEF U
<1>6. CASE out' = <<>> /\ marks' = marks
  <2>1. Unindexed' = U
    BY <1>3, <1>4, <1>6
  <2>2. \A n \in Names : Worth(U, n) \in Int
    BY <1>5, WorthInt
  <2> QED
    BY <1>1, <1>5, <1>6, <2>1, <2>2 DEF U
<1>7. CASE Len(out') = 1 /\ marks' = Moves(marks, out'[1])
  <2>1. out'[1] \in Post
    <3>1. 1 \in 1 .. Len(out')
      BY <1>7
    <3> QED
      BY <3>1
  <2>2. a \in Item /\ a \notin U
    BY <1>1, <2>1 DEF Item
  <2>3. Unindexed' = U \cup {a}
    BY <1>3, <1>4, <1>7
  <2>4. a.post = out'[1]
    OBVIOUS
  <2> HIDE DEF a
  <2>5. ASSUME NEW n \in Names
        PROVE  /\ Worth(U, n) \in Int /\ Worth(U \cup {a}, n) = Worth(U, n) + marks'[n] - marks[n]
               /\ marks[n] \in Int /\ marks'[n] \in Int
    <3>1. /\ Worth(U, n) \in Int /\ Net(a, n) \in Int
          /\ Worth(U \cup {a}, n) = Worth(U, n) + Net(a, n)
      BY <1>5, <2>2, WorthPut
    <3>2. marks'[n] = marks[n] + Net(a, n) /\ marks[n] \in Int
      BY <1>1, <1>7, <2>2, <2>4, MovesAdds
    <3>3. marks'[n] \in Int /\ Net(a, n) = marks'[n] - marks[n]
      BY <3>1, <3>2
    <3> HIDE DEF U
    <3>4. Worth(U \cup {a}, n) = Worth(U, n) + marks'[n] - marks[n]
      BY <3>1, <3>2, <3>3
    <3> QED
      BY <3>1, <3>2, <3>3, <3>4
  <2>6. IsFiniteSet(U \cup {a})
    BY <1>5, FS_AddElement
  <2> QED
    BY <2>3, <2>5, <2>6 DEF U
<1>8. CASE Len(out') = 2 /\ marks' = Moves(Moves(marks, out'[1]), out'[2])
  <2> DEFINE m == Moves(marks, out'[1])
             V == U \cup {a}
  <2>1. out'[1] \in Post /\ out'[2] \in Post
    <3>1. 1 \in 1 .. Len(out') /\ 2 \in 1 .. Len(out')
      BY <1>8
    <3> QED
      BY <3>1
  <2>2. a \in Item /\ a \notin U /\ b \in Item /\ b \notin V
    BY <1>1, <2>1 DEF Item
  <2>3. Unindexed' = V \cup {b}
    <3>1. 1 .. Len(out') = {1, 2}
      BY <1>8
    <3> QED
      BY <1>3, <1>4, <3>1
  <2>4. a.post = out'[1] /\ b.post = out'[2] /\ m \in [Names -> Int]
    BY <1>1, <2>1, MovesType
  <2>5. IsFiniteSet(V) /\ V \in SUBSET Item
    <3> HIDE DEF a, b
    <3> QED
      BY <1>5, <2>2, FS_AddElement
  <2>6. IsFiniteSet(V \cup {b})
    BY <2>5, FS_AddElement
  <2> HIDE DEF a, b
  <2>7. ASSUME NEW n \in Names
        PROVE  /\ Worth(U, n) \in Int /\ Worth(V \cup {b}, n) = Worth(U, n) + marks'[n] - marks[n]
               /\ marks[n] \in Int /\ marks'[n] \in Int
    <3>1. /\ Worth(U, n) \in Int /\ Net(a, n) \in Int
          /\ Worth(V, n) = Worth(U, n) + Net(a, n)
      BY <1>5, <2>2, WorthPut
    <3>2. m[n] = marks[n] + Net(a, n) /\ marks[n] \in Int
      BY <1>1, <2>2, <2>4, MovesAdds
    <3> HIDE DEF m, V
    <3>3. /\ Net(b, n) \in Int /\ Worth(V \cup {b}, n) = Worth(V, n) + Net(b, n)
      BY <2>2, <2>5, WorthPut
    <3>4. marks'[n] = m[n] + Net(b, n)
      BY <1>8, <2>2, <2>4, MovesAdds DEF m
    <3> QED
      BY <3>1, <3>2, <3>3, <3>4
  <2> QED
    BY <2>3, <2>6, <2>7 DEF U
<1> QED
  BY <1>6, <1>7, <1>8 DEF Pays

-----------------------------------------------------------------------------
(***************************************************************************)
(* The inductive invariant of the two ledgers.                             *)
(***************************************************************************)
LedgerInv == IsFiniteSet(Unindexed) /\ LedgersAgree

(***************************************************************************)
(* The writer moves the shadow ledger by the envelope it takes, which no   *)
(* longer counts as unindexed: none is on its way twice while the writer   *)
(* runs.                                                                   *)
(***************************************************************************)
LEMMA TakeSettles ==
  ASSUME FabricInv, CatchInv, LedgerInv, Take
  PROVE  LedgerInv'
<1> DEFINE x == Head(queue)
<1>1. /\ queue \in Seq(Item) /\ queue # <<>> /\ Climbs(queue)
      /\ writer.pc # "done"
      /\ queue' = Tail(queue) /\ shadow' = Moves(shadow, x.post)
      /\ UNCHANGED <<vars, handed, dropped, claims>>
  BY DEF FabricInv, PipeInv, PipeTypeOK, InOrder, Take
<1>2. x \in Item /\ SetOf(queue) = {x} \cup SetOf(queue') /\ Below({x}, SetOf(queue'))
  BY <1>1, TakeFirst
<1>3. x.n \in Nat /\ shadow \in [Names -> Int] /\ marks \in [Names -> Int]
  BY <1>2 DEF Item, FabricInv, RootTypeOK, IInv, TypeOK, WorldTypeOK
<1>4. ToHand' = ToHand /\ marks' = marks /\ \A n : Owed(n)' = Owed(n)
  BY <1>1 DEF ToHand, vars, Owed
<1>5. x \notin SetOf(queue') /\ x \notin dropped /\ x \notin ToHand
  <2>1. x \notin SetOf(queue')
    BY <1>2, <1>3 DEF Below
  <2>2. x \notin dropped
    BY <1>1, <1>2, <1>3 DEF FabricInv, PipeInv, DroppedApart, Apart
  <2>3. x.n <= Given
    BY <1>2 DEF FabricInv, PipeInv, Covered, Somewhere
  <2>4. \A i \in ToHand : i.n > Given
    BY DEF ToHand, Given, FabricInv, PipeInv, PipeTypeOK, IInv, TypeOK
  <2>5. Given \in Int
    BY DEF Given, FabricInv, PipeInv, PipeTypeOK, IInv, TypeOK
  <2> QED
    BY <1>3, <2>1, <2>2, <2>3, <2>4, <2>5
<1>6. x \in Unindexed /\ Unindexed' = Unindexed \ {x}
  BY <1>1, <1>2, <1>4, <1>5 DEF Unindexed
<1>7. Unindexed \in SUBSET Item
  BY DEF CatchInv, OneEach, Known
<1> HIDE DEF x
<1>8. ASSUME NEW n \in Names
      PROVE  marks'[n] + Owed(n)' = shadow'[n] + Worth(Unindexed', n)
  <2>1. /\ Worth(Unindexed, n) \in Int /\ Net(x, n) \in Int
        /\ Worth(Unindexed \ {x}, n) = Worth(Unindexed, n) - Net(x, n)
    BY <1>6, <1>7, WorthTake DEF LedgerInv
  <2>2. shadow'[n] = shadow[n] + Net(x, n)
    BY <1>1, <1>2, <1>3, MovesAdds
  <2>3. marks[n] + Owed(n) = shadow[n] + Worth(Unindexed, n)
    BY DEF LedgerInv, LedgersAgree
  <2>4. shadow[n] \in Int
    BY <1>3
  <2> QED
    BY <1>4, <1>6, <2>1, <2>2, <2>3, <2>4
<1>9. IsFiniteSet(Unindexed')
  BY <1>6, FS_Subset DEF LedgerInv
<1> QED
  BY <1>8, <1>9 DEF LedgerInv, LedgersAgree

(***************************************************************************)
(* A step that changes no ledger, no claim and not what is unindexed.      *)
(***************************************************************************)
LEMMA QuietSettles ==
  ASSUME LedgerInv, UNCHANGED <<marks, shadow, claims>>, Unindexed' = Unindexed
  PROVE  LedgerInv'
BY DEF LedgerInv, LedgersAgree, Owed

(***************************************************************************)
(* The other steps of the pipeline move an envelope along, or drop it.     *)
(***************************************************************************)
LEMMA PipelineSettles ==
  ASSUME FabricInv, CatchInv, LedgerInv, HandOver \/ WriterSteps \/ Stop
  PROVE  LedgerInv'
<1>0. /\ out \in Seq(Post) /\ uttSeq \in Nat /\ handed \in 0 .. Len(out)
      /\ queue \in Seq(Item) /\ Climbs(queue)
  BY DEF FabricInv, IInv, TypeOK, PipeInv, PipeTypeOK, InOrder
<1>1. CASE HandOver
  <2>1. /\ handed # Len(out) /\ handed' = handed + 1
        /\ UNCHANGED <<out, uttSeq, marks, shadow, claims>>
        /\ \/ queue' = Append(queue, Offered) /\ dropped' = dropped
           \/ dropped' = dropped \cup {Offered} /\ queue' = queue
    BY <1>1 DEF HandOver, Unlocked, root, vars
  <2>2. ToHand = {Offered} \cup ToHand'
    <3>1. \A x : x \in ToHand <=>
            \E j \in handed + 1 .. Len(out) : x = [n |-> uttSeq - Len(out) + j, post |-> out[j]]
      BY DEF ToHand
    <3>2. \A x : x \in ToHand' <=>
            \E j \in handed + 2 .. Len(out) : x = [n |-> uttSeq - Len(out) + j, post |-> out[j]]
      BY <1>0, <2>1 DEF ToHand
    <3>3. handed + 1 .. Len(out) = {handed + 1} \cup handed + 2 .. Len(out)
      BY <1>0, <2>1
    <3>4. Offered = [n |-> uttSeq - Len(out) + (handed + 1), post |-> out[handed + 1]]
      BY <1>0 DEF Offered
    <3> QED
      BY <3>1, <3>2, <3>3, <3>4
  <2>3. Offered \in Item
    BY <1>0, <2>1 DEF Offered, Item, FabricInv, PipeInv, PipeTypeOK
  <2>4. SetOf(Append(queue, Offered)) = SetOf(queue) \cup {Offered}
    BY <1>0, <2>3, PutLast
  <2>5. Unindexed' = Unindexed
    BY <2>1, <2>2, <2>4 DEF Unindexed
  <2> QED
    BY <2>1, <2>5, QuietSettles
<1>2. ASSUME UNCHANGED <<vars, root, handed>>,
             SetOf(queue)' \cup dropped' = SetOf(queue) \cup dropped
      PROVE  LedgerInv'
  <2>1. ToHand' = ToHand /\ UNCHANGED <<marks, shadow, claims>>
    BY <1>2 DEF ToHand, vars, root
  <2>2. Unindexed' = Unindexed
    BY <1>2, <2>1 DEF Unindexed
  <2> QED
    BY <2>1, <2>2, QuietSettles
<1>3. CASE Stored \/ StoreFails \/ Broadcast \/ NoticeStop \/ Drained \/ Stop
  BY <1>2, <1>3 DEF Stored, StoreFails, Broadcast, NoticeStop, Drained, Stop
<1>4. CASE DeadlinePasses
  <2>1. /\ queue # <<>> /\ queue' = Tail(queue) /\ dropped' = dropped \cup SetOf(queue)
        /\ UNCHANGED <<vars, root, handed>>
    BY <1>4 DEF DeadlinePasses
  <2>2. SetOf(queue) = {Head(queue)} \cup SetOf(queue')
    BY <1>0, <2>1, TakeFirst
  <2> QED
    BY <1>2, <2>1, <2>2
<1> QED
  BY <1>1, <1>3, <1>4, TakeSettles DEF WriterSteps

(***************************************************************************)
(* Every step of the fabric leaves the two ledgers in step.                *)
(***************************************************************************)
LEMMA LedgerKeeps ==
  ASSUME FabricInv, FabricInv', CatchInv, LedgerInv, [FabricNext]_fabricVars
  PROVE  LedgerInv'
<1>0. /\ IInv /\ IInv' /\ uttSeq \in Nat /\ Residents \subseteq Names
      /\ out' \in Seq(Post) /\ shadow \in [Names -> Int] /\ marks \in [Names -> Int]
      /\ Stake \in Nat /\ claims \in [Residents -> {"free", "reserved", "embodied", "held"}]
  BY FabricAssumption DEF FabricInv, IInv, TypeOK, WorldTypeOK, RootTypeOK
<1>1. ASSUME NEW C, Locked(C), uttSeq' = uttSeq + Len(out'), Pays, shadow' = shadow,
             \A n \in Names : Owed(n)' = Owed(n)
      PROVE  LedgerInv'
  <2>1. handed = Len(out) /\ handed' = 0 /\ UNCHANGED <<queue, dropped>>
    BY <1>1 DEF Locked, Unlocked
  <2>2. /\ IsFiniteSet(Unindexed')
        /\ \A n \in Names :
             /\ marks[n] \in Int /\ marks'[n] \in Int /\ Worth(Unindexed, n) \in Int
             /\ Worth(Unindexed', n) = Worth(Unindexed, n) + marks'[n] - marks[n]
    BY <1>0, <1>1, <2>1, CallSettles DEF LedgerInv
  <2>3. \A n \in Names : /\ marks[n] + Owed(n) = shadow[n] + Worth(Unindexed, n)
                         /\ Owed(n) \in Int /\ shadow[n] \in Int
    BY <1>0 DEF LedgerInv, LedgersAgree, Owed
  <2>4. ASSUME NEW n \in Names
        PROVE  marks'[n] + Owed(n)' = shadow'[n] + Worth(Unindexed', n)
    <3>1. /\ marks[n] \in Int /\ marks'[n] \in Int /\ Worth(Unindexed, n) \in Int
          /\ Worth(Unindexed', n) = Worth(Unindexed, n) + marks'[n] - marks[n]
      BY <2>2
    <3>2. /\ marks[n] + Owed(n) = shadow[n] + Worth(Unindexed, n)
          /\ Owed(n) \in Int /\ shadow[n] \in Int /\ Owed(n)' = Owed(n) /\ shadow'[n] = shadow[n]
      BY <1>1, <2>3
    <3> QED
      BY <3>1, <3>2
  <2> QED
    BY <2>2, <2>4 DEF LedgerInv, LedgersAgree
<1>2. ASSUME UNCHANGED root PROVE shadow' = shadow /\ \A n \in Names : Owed(n)' = Owed(n)
  BY <1>2 DEF root, Owed
<1>3. ASSUME NEW c, AddVoice(c)
      PROVE  Pays /\ uttSeq' = uttSeq + Len(out')
  BY <1>0, <1>3, QuietCounts DEF AddVoice, Pays
<1>4. ASSUME NEW env, NEW via, Emit(env, via, timers), env.kind # "settle"
      PROVE  Pays /\ uttSeq' = uttSeq + Len(out')
  BY <1>0, <1>4, EmitPays, EmitCounts
<1>5. ASSUME UNCHANGED <<out, uttSeq, marks, shadow, claims>>, UNCHANGED <<handed, queue, dropped>>
      PROVE  LedgerInv'
  <2>1. Unindexed' = Unindexed
    BY <1>5 DEF Unindexed, ToHand
  <2> QED
    BY <1>5, <2>1, QuietSettles
<1>6. CASE UNCHANGED fabricVars
  BY <1>5, <1>6 DEF fabricVars, root, vars, pipeline
<1>7. CASE \E c \in Cast : Seed(c)
  <2>1. PICK c \in Cast : Seed(c)
    BY <1>7
  <2>2. AddVoice(c) /\ Locked(AddVoice(c)) /\ UNCHANGED root
    BY <2>1 DEF Seed, Locked
  <2> QED
    BY <1>1, <1>2, <1>3, <2>2
<1>8. ASSUME NEW v \in Residents, Reserve(v) PROVE LedgerInv'
  <2>1. /\ claims[v] = "free" /\ claims' = [claims EXCEPT ![v] = "reserved"]
        /\ shadow' = [shadow EXCEPT ![v] = @ + Stake]
        /\ UNCHANGED <<out, uttSeq, marks>> /\ UNCHANGED <<handed, queue, dropped>>
    BY <1>8 DEF Reserve, vars, pipeline
  <2>2. Unindexed' = Unindexed
    BY <2>1 DEF Unindexed, ToHand
  <2>3. Unindexed \in SUBSET Item
    BY DEF CatchInv, OneEach, Known
  <2>4. ASSUME NEW n \in Names
        PROVE  marks'[n] + Owed(n)' = shadow'[n] + Worth(Unindexed', n)
    <3>1. /\ marks[n] + Owed(n) = shadow[n] + Worth(Unindexed, n)
          /\ marks[n] \in Int /\ shadow[n] \in Int /\ marks'[n] = marks[n]
      BY <1>0, <2>1 DEF LedgerInv, LedgersAgree
    <3>2. Worth(Unindexed, n) \in Int /\ Unindexed' = Unindexed
      BY <2>2, <2>3, WorthInt DEF LedgerInv
    <3>3. CASE n = v
      <4>1. Owed(n) = 0 /\ Owed(n)' = Stake
        BY <1>0, <2>1, <3>3 DEF Owed
      <4>2. shadow'[n] = shadow[n] + Stake
        BY <1>0, <2>1, <3>3
      <4> QED
        BY <1>0, <3>1, <3>2, <4>1, <4>2
    <3>4. CASE n # v
      <4>1. Owed(n)' = Owed(n) /\ shadow'[n] = shadow[n]
        BY <1>0, <2>1, <3>4 DEF Owed
      <4> QED
        BY <3>1, <3>2, <4>1
    <3> QED
      BY <3>3, <3>4
  <2> QED
    BY <2>2, <2>4 DEF LedgerInv, LedgersAgree
<1>9. ASSUME NEW v \in Residents, EmbodyResident(v) PROVE LedgerInv'
  <2> DEFINE c == [voice |-> v, charter |-> ResidentCharter, init |-> NoThing]
  <2>1. /\ claims[v] = "reserved" /\ claims' = [claims EXCEPT ![v] = "embodied"]
        /\ AddVoice(c) /\ Locked(AddVoice(c)) /\ shadow' = shadow
    BY <1>9 DEF EmbodyResident, Locked
  <2>2. \A n \in Names : Owed(n)' = Owed(n)
    BY <1>0, <2>1 DEF Owed
  <2> HIDE DEF c
  <2> QED
    BY <1>1, <1>3, <2>1, <2>2
<1>10. ASSUME NEW v \in Residents, Grant(v) PROVE LedgerInv'
  <2>1. /\ claims[v] = "embodied" /\ claims' = [claims EXCEPT ![v] = "held"]
        /\ marks' = [marks EXCEPT ![v] = @ + Stake] /\ out' = <<>>
        /\ handed = Len(out) /\ handed' = 0
        /\ UNCHANGED <<uttSeq, shadow, queue, dropped>>
    BY <1>10 DEF Grant, Locked, Unlocked, CreditVoice, Credit
  <2>2. Unindexed' = Unindexed
    <3>1. Len(out') = 0 /\ Len(out) \in Nat
      BY <2>1 DEF FabricInv, IInv, TypeOK
    <3>2. ToHand = {} /\ ToHand' = {}
      BY <2>1, <3>1 DEF ToHand
    <3> QED
      BY <2>1, <3>2 DEF Unindexed
  <2>3. Unindexed \in SUBSET Item
    BY DEF CatchInv, OneEach, Known
  <2>4. ASSUME NEW n \in Names
        PROVE  marks'[n] + Owed(n)' = shadow'[n] + Worth(Unindexed', n)
    <3>1. /\ marks[n] + Owed(n) = shadow[n] + Worth(Unindexed, n)
          /\ marks[n] \in Int /\ shadow[n] \in Int /\ shadow'[n] = shadow[n]
      BY <1>0, <2>1 DEF LedgerInv, LedgersAgree
    <3>2. Worth(Unindexed, n) \in Int /\ Unindexed' = Unindexed
      BY <2>2, <2>3, WorthInt DEF LedgerInv
    <3>3. CASE n = v
      <4>1. Owed(n) = Stake /\ Owed(n)' = 0
        BY <1>0, <2>1, <3>3 DEF Owed
      <4>2. marks'[n] = marks[n] + Stake
        BY <1>0, <2>1, <3>3
      <4> QED
        BY <1>0, <3>1, <3>2, <4>1, <4>2
    <3>4. CASE n # v
      <4>1. Owed(n)' = Owed(n) /\ marks'[n] = marks[n]
        BY <1>0, <2>1, <3>4 DEF Owed
      <4> QED
        BY <3>1, <3>2, <4>1
    <3> QED
      BY <3>3, <3>4
  <2> QED
    BY <2>2, <2>4 DEF LedgerInv, LedgersAgree
<1>11. ASSUME NEW v \in Residents, SayOnLine(v) PROVE LedgerInv'
  <2>1. PrincipalSays(v) /\ Locked(PrincipalSays(v)) /\ UNCHANGED root
    BY <1>11 DEF SayOnLine, Locked
  <2>2. Pays /\ uttSeq' = uttSeq + Len(out')
    BY <1>4, <2>1 DEF PrincipalSays
  <2> QED
    BY <1>1, <1>2, <2>1, <2>2
<1>12. ASSUME NEW i, NEW e, Inject(i, e)
       PROVE  Pays /\ uttSeq' = uttSeq + Len(out')
  BY <1>4, <1>12 DEF Inject
<1>13. ASSUME NEW i \in Injections, Murmur(i) PROVE LedgerInv'
  <2>1. Inject(i, NoExc) /\ Locked(Inject(i, NoExc)) /\ UNCHANGED root
    BY <1>13 DEF Murmur, Locked
  <2> QED
    BY <1>1, <1>2, <1>12, <2>1
<1>14. ASSUME NEW k \in Calls,
              \/ \E v \in Residents, e \in DOMAIN index, approve \in BOOLEAN :
                   ConsentRead(k, v, e, approve)
              \/ ConsentPending(k)
       PROVE  LedgerInv'
  BY <1>5, <1>14 DEF ConsentRead, ConsentPending, vars, pipeline
<1>15. ASSUME NEW k \in Calls, ConsentInject(k) PROVE LedgerInv'
  <2>1. PICK i, e : Inject(i, e) /\ Locked(Inject(i, e)) /\ UNCHANGED <<claims, shadow>>
    BY <1>15 DEF ConsentInject, Locked
  <2>2. \A n \in Names : Owed(n)' = Owed(n)
    BY <2>1 DEF Owed
  <2> QED
    BY <1>1, <1>12, <2>1, <2>2
<1>16. ASSUME NEW tm \in timers, Locked(Progress(tm)), UNCHANGED root PROVE LedgerInv'
  <2>1. Progress(tm)
    BY <1>16 DEF Locked
  <2>2. Pays /\ uttSeq' = uttSeq + Len(out')
    BY <1>0, <2>1, ProgressPays, ProgressCounts
  <2> QED
    BY <1>1, <1>2, <1>16, <2>2
<1>17. CASE HandOver \/ WriterSteps \/ Stop
  BY <1>17, PipelineSettles
<1> QED
  BY <1>6, <1>7, <1>8, <1>9, <1>10, <1>11, <1>13, <1>14, <1>15, <1>16, <1>17 DEF FabricNext

(***************************************************************************)
(* The world's marks and the composition root's shadow of them never drift *)
(* apart: what separates them is exactly the stakes of claims half done    *)
(* and the trades on record that the writer has yet to index, or never     *)
(* will.                                                                   *)
(***************************************************************************)
THEOREM LedgersNeverDrift == FabricSpec => []LedgersAgree
<1>1. FabricInit => CatchInv /\ LedgerInv
  <2> SUFFICES ASSUME FabricInit PROVE CatchInv /\ LedgerInv
    OBVIOUS
  <2>1. CatchInv
    BY CatchStarts
  <2>2. /\ out = <<>> /\ handed = 0 /\ queue = <<>> /\ dropped = {}
        /\ marks = [n \in Names |-> 0] /\ shadow = [n \in Names |-> 0]
        /\ claims = [v \in Residents |-> "free"]
    BY DEF FabricInit, Init, WorldInit
  <2>3. Unindexed = {}
    <3>1. SetOf(<<>>) = {} /\ Len(out) = 0
      BY <2>2 DEF SetOf
    <3> QED
      BY <2>2, <3>1 DEF Unindexed, ToHand
  <2>4. \A n \in Names : Worth({}, n) = 0
    <3> SUFFICES ASSUME NEW n \in Names PROVE Worth({}, n) = 0
      OBVIOUS
    <3> DEFINE w == [i \in {} |-> Net(i, n)]
    <3>1. DOMAIN w = {} /\ Worth({}, n) = SumFunctionOnSet(w, DOMAIN w)
      BY DEF Worth, SumFunction
    <3> HIDE DEF w
    <3> QED
      BY <3>1, SumEmpty
  <2>5. \A n \in Names : Owed(n) = 0
    BY <2>2 DEF Owed
  <2> QED
    BY <2>1, <2>2, <2>3, <2>4, <2>5, FS_EmptySet DEF LedgerInv, LedgersAgree
<1>2. FabricInv /\ FabricInv' /\ CatchInv /\ LedgerInv /\ [FabricNext]_fabricVars
        => CatchInv' /\ LedgerInv'
  BY CatchKeeps, LedgerKeeps
<1>3. LedgerInv => LedgersAgree
  BY DEF LedgerInv
<1> QED
  BY <1>1, <1>2, <1>3, FabricHolds, PTL DEF FabricSpec
=============================================================================
