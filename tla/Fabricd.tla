------------------------------- MODULE Fabricd -------------------------------
(***************************************************************************)
(* The composition root around one scope's orchestrator                    *)
(* (fabric/cmd/fabricd/compose.go): claims, the private line, consents,    *)
(* murmurs, and the pipeline that takes every envelope from the            *)
(* orchestrator's Append through a bounded queue and a single writer to    *)
(* the store and then the feed.                                            *)
(*                                                                         *)
(* Three locks matter.  The orchestrator's mutex makes each call into it   *)
(* one step; Append runs inside, so no other call gets in while a step's   *)
(* envelopes are being handed over (Unlocked), but the writer does.        *)
(* server.mu guards claims, index and shadow.  A consent or a claim takes  *)
(* them one after the other, never two at once, so each is several steps.  *)
(***************************************************************************)
EXTENDS Orchestrator

CONSTANTS
  Residents,        \* the agent voices that can be claimed
  ResidentCharter,  \* scenes.ResidentCharter
  PersonCap,        \* scopeState.personCap
  Stake,            \* the marks a claim grants, 100 in the code
  QueueSize,        \* appendQueueSize
  Calls,            \* names for the onConsent calls that can be made
  MaxFails          \* bound: consecutive store failures

ASSUME FabricAssumption ==
  /\ Residents \subseteq Names \cap DOMAIN PrincipalOf   \* "<name>-agent" speaks for name
  /\ ResidentCharter \in Charter
  /\ \A c \in Cast : c.voice \notin Residents    \* no seed ends in "-agent"
  /\ PersonCap \in Nat /\ Stake \in Nat
  /\ QueueSize \in Nat \ {0} /\ MaxFails \in Nat

VARIABLES
  handed,       \* how many of `out` the running step has given to Append
  queue,        \* scopeState.appendQ
  dropped,      \* the envelopes logged as dropped (queue full) or parked (deadline)
  failed,       \* the envelopes the store returned an error for
  writer,       \* the writer goroutine
  utterances,   \* the scope's rows of the utterances table; the seq is the position
  feed,         \* the seqs broadcast so far, in order
  storeFails,   \* server.storeFails
  claims,       \* how far each resident's onClaim got
  shadow,       \* server.marks, the shadow ledger
  index,        \* server.exchanges, the consent index: exchange id -> proposer
  consents,     \* the onConsent calls
  stopping      \* server.stop is closed

pipeline == <<handed, queue, dropped, failed, writer, utterances, feed, storeFails,
              stopping>>

root == <<claims, shadow, index, consents>>

fabricVars == <<vars, pipeline, root>>

Item == [n : Nat, post : Post]

Idle == [pc |-> "idle"]

Writer == {Idle, [pc |-> "draining"], [pc |-> "done"]}
            \cup [pc : {"store", "send"}, item : Item, draining : BOOLEAN]

Unused == [stage |-> "unused"]

Consent == {Unused, [stage |-> "over"]}
             \cup [stage : {"read", "ready"}, voice : Residents, exc : Nat,
                   to : Seq(Names), approve : BOOLEAN, terms : Terms \cup {NoTerms}]

FabricTypeOK ==
  /\ TypeOK
  /\ handed \in 0 .. Len(out)
  /\ queue \in Seq(Item) /\ Len(queue) <= QueueSize
  /\ dropped \subseteq Item /\ failed \subseteq Item
  /\ writer \in Writer
  /\ utterances \in Seq(Item)
  /\ feed \in Seq(DOMAIN utterances)
  /\ storeFails \in Nat
  /\ claims \in [Residents -> {"free", "reserved", "embodied", "held"}]
  /\ shadow \in [Names -> Int]
  /\ DOMAIN index \subseteq Nat \ {0} /\ SetOf(index) \subseteq Names
  /\ consents \in [Calls -> Consent]
  /\ stopping \in BOOLEAN

FabricInit ==
  /\ Init
  /\ handed = 0 /\ queue = <<>> /\ dropped = {} /\ failed = {} /\ writer = Idle
  /\ utterances = <<>> /\ feed = <<>> /\ storeFails = 0
  /\ claims = [v \in Residents |-> "free"]
  /\ shadow = [n \in Names |-> 0]
  /\ index = [e \in {} |-> e]
  /\ consents = [k \in Calls |-> Unused]
  /\ stopping = FALSE

(***************************************************************************)
(* A call into the orchestrator, and the Append callbacks it makes.        *)
(***************************************************************************)
Unlocked == handed = Len(out)

Locked(Call) ==
  /\ Unlocked
  /\ Call
  /\ handed' = 0
  /\ UNCHANGED <<queue, dropped, failed, writer, utterances, feed, storeFails,
                 stopping>>

Offered == [n |-> uttSeq - Len(out) + handed + 1, post |-> out[handed + 1]]

HandOverUnbounded ==                \* variant: never full
  /\ ~Unlocked
  /\ handed' = handed + 1
  /\ queue' = Append(queue, Offered)
  /\ UNCHANGED <<vars, root, dropped, failed, writer, utterances, feed, storeFails,
                 stopping>>

HandOver ==                         \* enqueue, or drop when the queue is full
  /\ ~Unlocked
  /\ handed' = handed + 1
  /\ \/ /\ Len(queue) < QueueSize
        /\ queue' = Append(queue, Offered)
        /\ UNCHANGED dropped
     \/ /\ Len(queue) = QueueSize
        /\ dropped' = dropped \cup {Offered}
        /\ UNCHANGED queue
  /\ UNCHANGED <<vars, root, failed, writer, utterances, feed, storeFails, stopping>>

Booted == \A c \in Cast : Registered(c.voice)

Seed(c) == Locked(AddVoice(c)) /\ UNCHANGED root

(***************************************************************************)
(* onClaim: the slot and the shadow stake first, under server.mu, then the *)
(* voice, then its marks.  The token comes last.                           *)
(***************************************************************************)
Taken == {v \in Residents : claims[v] # "free"}

Reserve(v) ==
  /\ claims[v] = "free"
  /\ Cardinality(Taken) < PersonCap
  /\ claims' = [claims EXCEPT ![v] = "reserved"]
  /\ shadow' = [shadow EXCEPT ![v] = @ + Stake]
  /\ UNCHANGED <<vars, pipeline, index, consents>>

EmbodyResident(v) ==
  /\ claims[v] = "reserved"
  /\ Locked(AddVoice([voice |-> v, charter |-> ResidentCharter, init |-> NoThing]))
  /\ claims' = [claims EXCEPT ![v] = "embodied"]
  /\ UNCHANGED <<shadow, index, consents>>

Grant(v) ==
  /\ claims[v] = "embodied"
  /\ Locked(CreditVoice([voice |-> v, n |-> Stake]))
  /\ claims' = [claims EXCEPT ![v] = "held"]
  /\ UNCHANGED <<shadow, index, consents>>

SayOnLine(v) ==                     \* onPrincipalSay
  /\ claims[v] = "held"
  /\ Locked(PrincipalSays(v))
  /\ UNCHANGED root

Murmur(i) == Locked(Inject(i, NoExc)) /\ UNCHANGED root

(***************************************************************************)
(* onConsent: find the exchange in the index; on approval read its pending *)
(* terms; inject.  Any token holder may name any exchange.                 *)
(***************************************************************************)
ConsentRead(k, v, e, approve) ==
  /\ consents[k] = Unused
  /\ claims[v] = "held"
  /\ e \in DOMAIN index
  /\ consents' = [consents EXCEPT ![k] =
       [stage |-> "read", voice |-> v, exc |-> e,
        to |-> IF index[e] = v THEN <<>> ELSE <<index[e]>>,
        approve |-> approve, terms |-> NoTerms]]
  /\ UNCHANGED <<vars, pipeline, claims, shadow, index>>

ConsentPending(k) ==                \* Pending, under the orchestrator's mutex
  LET c == consents[k]
      open == IsOpen(c.exc) /\ exchanges[c.exc].pending.terms # NoTerms
  IN  /\ c.stage = "read" /\ c.approve
      /\ Unlocked
      /\ consents' = [consents EXCEPT ![k] =
           IF open THEN [c EXCEPT !.stage = "ready",
                                  !.terms = exchanges[c.exc].pending.terms]
           ELSE [stage |-> "over"]]
      /\ UNCHANGED <<vars, pipeline, claims, shadow, index>>

ConsentInject(k) ==
  LET c == consents[k]
      kind == IF c.approve THEN "accept" ELSE "decline"
  IN  /\ \/ c.stage = "read" /\ ~c.approve
         \/ c.stage = "ready"
      /\ Locked(Inject([from |-> c.voice, to |-> c.to, kind |-> kind,
                        terms |-> c.terms], c.exc))
      /\ consents' = [consents EXCEPT ![k] = [stage |-> "over"]]
      /\ UNCHANGED <<claims, shadow, index>>

(***************************************************************************)
(* index: the writer's view of the stream.  The shadow ledger moves by     *)
(* every trade settle.                                                     *)
(***************************************************************************)
Moves(ledger, post) ==
  LET t == post.terms
  IN  IF post.kind = "settle" /\ t # NoTerms /\ t.type = "trade" /\ SpendReads(t)
      THEN [[ledger EXCEPT ![t.buyer] = @ - t.price] EXCEPT ![t.seller] = @ + t.price]
      ELSE ledger

IndexedOnce(post) ==                \* variant: counter-offers are not indexed
  IF post.kind = "propose" /\ post.exc # NoExc
  THEN [e \in DOMAIN index \cup {post.exc} |->
          IF e \in DOMAIN index THEN index[e] ELSE post.from]
  ELSE IF post.kind \in {"settle", "withdraw"}
  THEN [e \in DOMAIN index \ {post.exc} |-> index[e]]
  ELSE index

Indexed(post) ==
  IF post.kind = "propose" /\ post.exc # NoExc
  THEN [e \in DOMAIN index \cup {post.exc} |->
          IF e = post.exc THEN post.from ELSE index[e]]
  ELSE IF post.kind \in {"settle", "withdraw"}
  THEN [e \in DOMAIN index \ {post.exc} |-> index[e]]
  ELSE index

(***************************************************************************)
(* writer and record: take and index, store, broadcast.  A store call that *)
(* times out may have committed all the same; either way there is no       *)
(* broadcast.  Receiving an envelope and indexing it are one step: what    *)
(* runs between them sees what it would see just before.                   *)
(***************************************************************************)
Draining == writer.pc = "draining"

Rest(w) == IF w.draining THEN [pc |-> "draining"] ELSE Idle

TakeUnledgered ==                   \* variant: the shadow ledger is forgotten
  /\ writer.pc \in {"idle", "draining"}
  /\ queue # <<>>
  /\ writer' = [pc |-> "store", item |-> Head(queue), draining |-> Draining]
  /\ queue' = Tail(queue)
  /\ index' = Indexed(Head(queue).post)
  /\ UNCHANGED <<vars, handed, dropped, failed, utterances, feed, storeFails, stopping,
                 claims, consents, shadow>>

Take ==
  /\ writer.pc \in {"idle", "draining"}
  /\ queue # <<>>
  /\ writer' = [pc |-> "store", item |-> Head(queue), draining |-> Draining]
  /\ queue' = Tail(queue)
  /\ shadow' = Moves(shadow, Head(queue).post)
  /\ index' = Indexed(Head(queue).post)
  /\ UNCHANGED <<vars, handed, dropped, failed, utterances, feed, storeFails, stopping,
                 claims, consents>>

Stored ==
  /\ writer.pc = "store"
  /\ utterances' = Append(utterances, writer.item)
  /\ storeFails' = 0
  /\ writer' = [writer EXCEPT !.pc = "send"]
  /\ UNCHANGED <<vars, root, handed, queue, dropped, failed, feed, stopping>>

StoreRetries ==                     \* variant: put back instead of given up
  /\ writer.pc = "store"
  /\ storeFails < MaxFails
  /\ storeFails' = storeFails + 1
  /\ queue' = Append(queue, writer.item)
  /\ writer' = Rest(writer)
  /\ UNCHANGED <<vars, root, handed, dropped, failed, utterances, feed, stopping>>

StoreFailsAloud ==                  \* variant: broadcast all the same
  /\ writer.pc = "store"
  /\ storeFails < MaxFails
  /\ storeFails' = storeFails + 1
  /\ failed' = failed \cup {writer.item}
  /\ utterances' \in {utterances, Append(utterances, writer.item)}
  /\ writer' = [writer EXCEPT !.pc = "send"]
  /\ UNCHANGED <<vars, root, handed, queue, dropped, feed, stopping>>

StoreFails ==
  /\ writer.pc = "store"
  /\ storeFails < MaxFails
  /\ storeFails' = storeFails + 1
  /\ failed' = failed \cup {writer.item}
  /\ utterances' \in {utterances, Append(utterances, writer.item)}
  /\ writer' = Rest(writer)
  /\ UNCHANGED <<vars, root, handed, queue, dropped, feed, stopping>>

Broadcast ==
  /\ writer.pc = "send"
  /\ feed' = Append(feed, Len(utterances))
  /\ writer' = Rest(writer)
  /\ UNCHANGED <<vars, root, handed, queue, dropped, failed, utterances, storeFails, stopping>>

(***************************************************************************)
(* Shutdown.  close(s.stop), then the writer drains what is queued and     *)
(* exits; at the deadline it logs the rest as parked and gives up.  The    *)
(* queue is never closed: a late Append parks in it unseen.                *)
(***************************************************************************)
Stop ==
  /\ ~stopping
  /\ stopping' = TRUE
  /\ UNCHANGED <<vars, root, handed, queue, dropped, failed, writer, utterances, feed,
                 storeFails>>

NoticeStop ==
  /\ stopping /\ writer = Idle
  /\ writer' = [pc |-> "draining"]
  /\ UNCHANGED <<vars, root, handed, queue, dropped, failed, utterances, feed, storeFails,
                 stopping>>

ExitAtOnce ==                       \* variant: exits without draining
  /\ Draining
  /\ writer' = [pc |-> "done"]
  /\ UNCHANGED <<vars, root, handed, queue, dropped, failed, utterances, feed, storeFails,
                 stopping>>

Drained ==
  /\ Draining /\ queue = <<>>
  /\ writer' = [pc |-> "done"]
  /\ UNCHANGED <<vars, root, handed, queue, dropped, failed, utterances, feed, storeFails,
                 stopping>>

DeadlinePasses ==
  /\ Draining /\ queue # <<>>
  /\ dropped' = dropped \cup SetOf(queue)
  /\ queue' = Tail(queue)
  /\ writer' = [pc |-> "done"]
  /\ UNCHANGED <<vars, root, handed, failed, utterances, feed, storeFails, stopping>>

WriterSteps ==
  Take \/ Stored \/ StoreFails \/ Broadcast \/ NoticeStop \/ Drained \/ DeadlinePasses

FabricNext ==
  \/ \E c \in Cast : Seed(c)
  \/ /\ Booted
     /\ \/ \E v \in Residents :
             Reserve(v) \/ EmbodyResident(v) \/ Grant(v) \/ SayOnLine(v)
        \/ \E i \in Injections : Murmur(i)
        \/ \E k \in Calls :
             \/ \E v \in Residents, e \in DOMAIN index, approve \in BOOLEAN :
                  ConsentRead(k, v, e, approve)
             \/ ConsentPending(k)
             \/ ConsentInject(k)
        \/ \E tm \in timers : Locked(Progress(tm)) /\ UNCHANGED root
        \/ Stop
  \/ HandOver
  \/ WriterSteps

FabricSpec == FabricInit /\ [][FabricNext]_fabricVars

(***************************************************************************)
(* Append always returns and the writer goroutine is scheduled.            *)
(***************************************************************************)
FabricFairness == WF_fabricVars(HandOver) /\ WF_fabricVars(WriterSteps)

FabricFairSpec == FabricSpec /\ FabricFairness
=============================================================================
