-------------------------- MODULE FabricdProperties --------------------------
(***************************************************************************)
(* What makes the composition root correct: its record, its shadow ledger  *)
(* and its consent index follow the orchestrator.                          *)
(***************************************************************************)
EXTENDS Fabricd, Functions

(***************************************************************************)
(* Envelopes on their way: not yet given to Append, queued, in the         *)
(* writer's hand; and those the index has not seen, or never will.         *)
(***************************************************************************)
ToHand == {[n |-> uttSeq - Len(out) + j, post |-> out[j]] : j \in handed + 1 .. Len(out)}

InHand == IF writer.pc = "store" THEN {writer.item} ELSE {}

Unindexed == ToHand \cup SetOf(queue) \cup dropped

Numbers(items) == {i.n : i \in items}

Rising(seq) == \A i, j \in DOMAIN seq : i < j => seq[i] < seq[j]

-----------------------------------------------------------------------------
(***************************************************************************)
(* The pipeline neither loses an envelope silently nor reorders two: every *)
(* utterance the orchestrator numbered is on its way, recorded, or counted *)
(* as dropped or failed, and the record is in utterance order.             *)
(***************************************************************************)
NothingVanishes ==
  /\ Numbers(ToHand \cup SetOf(queue) \cup InHand \cup SetOf(utterances)
               \cup dropped \cup failed) = 1 .. uttSeq
  /\ Numbers(SetOf(utterances)) \cap Numbers(InHand \cup SetOf(queue) \cup dropped) = {}
  /\ Rising([i \in DOMAIN utterances |-> utterances[i].n])

(***************************************************************************)
(* The feed shows only what the store said it recorded, in the record's    *)
(* order, whatever the store does.                                         *)
(***************************************************************************)
FeedIsHonest ==
  /\ Rising(feed)
  /\ \A i \in DOMAIN feed :
       feed[i] \in DOMAIN utterances /\ utterances[feed[i]] \notin failed

(***************************************************************************)
(* The shadow ledger and the world's marks differ by exactly the stakes of *)
(* claims half done and the trades the writer has not indexed, dropped     *)
(* ones included: the two never drift otherwise, even though no lock       *)
(* covers both and the index settles nothing by itself.                    *)
(***************************************************************************)
Owed(n) == IF n \in Residents /\ claims[n] \in {"reserved", "embodied"}
           THEN Stake ELSE 0

Net(item, n) == Moves([m \in Names |-> 0], item.post)[n]

Worth(items, n) == SumFunction([i \in items |-> Net(i, n)])

LedgersAgree ==
  \A n \in Names : marks[n] + Owed(n) = shadow[n] + Worth(Unindexed, n)

(***************************************************************************)
(* Once the index has seen all of an exchange, it agrees with it: of an    *)
(* open one it knows who made the pending offer, so that a consent can be  *)
(* routed after declines and counter-offers too.  A settled one it forgot, *)
(* unless somebody proposed in it afterwards, which the gates let pass and *)
(* no envelope will ever undo.                                             *)
(***************************************************************************)
Reopened(e) ==
  \E s, p \in InHand \cup SetOf(utterances) \cup failed :
    /\ s.post.exc = e /\ s.post.kind = "settle"
    /\ p.post.exc = e /\ p.post.kind = "propose" /\ p.n > s.n

IndexCatchesUp ==
  \A e \in DOMAIN exchanges :
    (\A i \in Unindexed : i.post.exc # e)
      => CASE exchanges[e].status = "open" ->
                e \in DOMAIN index /\ index[e] = exchanges[e].pending.from
           [] exchanges[e].status = "settled" ->
                e \in DOMAIN index => Reopened(e)
           [] OTHER -> TRUE

(***************************************************************************)
(* What was queued before the shutdown is recorded, or logged as parked or *)
(* failed: the writer drains.                                              *)
(***************************************************************************)
Queued(n) == n \in Numbers(SetOf(queue)) /\ ~stopping

Accounted(n) == n \in Numbers(SetOf(utterances) \cup dropped \cup failed)

QueuedIsRecorded ==
  \A n \in 1 .. 2 * MaxUtt : Queued(n) ~> Accounted(n)

=============================================================================
