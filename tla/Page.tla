-------------------------------- MODULE Page --------------------------------
(***************************************************************************)
(* One visitor's page: its claim and token (World.tsx, gateway.go          *)
(* handleClaim), the private line with its reconnects (lib/fabric.ts       *)
(* openLine, gateway.go handleLine), the public feed, and the reducer that *)
(* builds the thread of the two and decides when to fetch the world's      *)
(* state (app/world/reducer.mjs).                                          *)
(*                                                                         *)
(* The agent's principal is asked in some frames; the others either end    *)
(* an exchange or only say something.  A frame is identified by its     *)
(* seq, which stands for its envelope's id too.  Of the feed this module   *)
(* keeps what FeedProperties shows of it: frames come in order, perhaps    *)
(* with holes.                                                             *)
(***************************************************************************)
EXTENDS Integers, Sequences, FiniteSets, SequencesExt

CONSTANTS
  Exchanges,    \* exchanges the agent is in
  NoExc,        \* no exchange
  ItemCap,      \* ITEM_CAP, 200 in the code
  FastCloses,   \* closes without an open that kill a line, 3 in the code
  MaxRecord,    \* bound: frames recorded
  MaxClaims,    \* bound: tokens granted
  MaxFaults,    \* bound: sockets and requests broken
  MaxHoles,     \* bound: frames the feed skips
  MaxReloads    \* bound: reloads of the page

ASSUME PageAssumption ==
  /\ NoExc \notin Exchanges
  /\ ItemCap \in Nat \ {0} /\ FastCloses \in Nat \ {0}
  /\ MaxRecord \in Nat /\ MaxClaims \in Nat /\ MaxFaults \in Nat
  /\ MaxHoles \in Nat /\ MaxReloads \in Nat

VARIABLES
  record,    \* the frames of the agent's dealings
  tokens,    \* the gateway's tokens
  granted,   \* tokens granted so far
  posting,   \* the page's claim was granted, the answer is on its way
  saved,     \* the claim in sessionStorage
  claim,     \* the reducer's claim
  items,     \* the thread
  lastSeq,   \* of the last frame applied
  line,      \* the private line: where it is, and whether its socket is cut
  fast,      \* fastCloses
  wire,      \* asks sent on the line and not read yet
  since,     \* history: frames up to here the thread's claim is too young for
  gone,      \* history: items the thread forgot
  answered,  \* history: prompts of the thread that were answered
  passed,    \* history: frames the feed skipped
  deaf,      \* history: frames this page's line lost or was not there for
  blinks,    \* history: dials that failed with a good token since the last open
  faults, reloads

NoToken == 0

server == <<record, tokens, granted>>

thread == <<items, gone, answered>>

feed == <<lastSeq, passed>>

private == <<line, fast, wire, blinks, deaf>>

identity == <<posting, saved, claim, since>>

bounds == <<faults, reloads>>

pageVars == <<server, thread, feed, private, identity, bounds>>

Frame == [kind : {"ask", "close", "say"}, exc : Exchanges \cup {NoExc}]

Item == [id : Nat, kind : {"consent", "bubble"}, exc : Exchanges \cup {NoExc},
         answered : BOOLEAN]

NoLine == [pc |-> "off", cut |-> FALSE]

Waiting == [pc |-> "waiting", cut |-> FALSE]

PageTypeOK ==
  /\ record \in Seq(Frame) /\ Len(record) <= MaxRecord
  /\ tokens \subseteq 1 .. granted /\ granted \in 0 .. MaxClaims
  /\ posting \in BOOLEAN
  /\ saved \in 0 .. granted /\ claim \in 0 .. granted
  /\ items \in Seq(Item) /\ Len(items) <= ItemCap
  /\ claim = NoToken => items = <<>> /\ line = NoLine
  /\ lastSeq \in 0 .. Len(record)
  /\ line \in [pc : {"off", "waiting", "dialing", "joined", "open"}, cut : BOOLEAN]
  /\ fast \in 0 .. FastCloses - 1
  /\ wire \in Seq(1 .. Len(record))
  /\ blinks \in Nat /\ faults \in 0 .. MaxFaults /\ reloads \in 0 .. MaxReloads

PageInit ==
  /\ record = <<>> /\ tokens = {} /\ granted = 0
  /\ posting = FALSE /\ saved = NoToken /\ claim = NoToken /\ since = 0
  /\ items = <<>> /\ gone = {} /\ answered = {}
  /\ lastSeq = 0 /\ passed = {}
  /\ line = NoLine /\ fast = 0 /\ wire = <<>> /\ blinks = 0 /\ deaf = {}
  /\ faults = 0 /\ reloads = 0

Ids(thread_) == {thread_[i].id : i \in DOMAIN thread_}

Open(it) == it.kind = "consent" /\ ~it.answered

Prompted(its, id) == \E i \in DOMAIN its : its[i].kind = "consent" /\ its[i].id = id

Prompt(id) == [id |-> id, kind |-> "consent", exc |-> record[id].exc, answered |-> FALSE]

Bubble(id) == [id |-> id, kind |-> "bubble", exc |-> NoExc, answered |-> FALSE]

appendUncapped(its, it) == Append(its, it)     \* variant: forgets nothing

appendItem(its, it) ==
  LET out == Append(its, it)
  IN  IF Len(out) > ItemCap THEN Tail(out) ELSE out

resolveNewest(its, exc) ==          \* variant: only the last item
  [i \in DOMAIN its |->
    IF i = Len(its) /\ its[i].kind = "consent" /\ its[i].exc = exc
    THEN [its[i] EXCEPT !.answered = TRUE] ELSE its[i]]

resolveConsents(its, exc) ==
  [i \in DOMAIN its |->
    IF its[i].kind = "consent" /\ its[i].exc = exc THEN [its[i] EXCEPT !.answered = TRUE]
                                                   ELSE its[i]]

Thread(its) ==                      \* the reducer's new items, with the history
  /\ items' = its
  /\ gone' = gone \cup (Ids(items) \ Ids(its))
  /\ answered' = answered \cup {its[i].id : i \in {j \in DOMAIN its : its[j].answered}}

NewThread == items' = <<>> /\ gone' = {} /\ answered' = {}

(***************************************************************************)
(* The world: the agent, once claimed, deals and asks; every frame goes    *)
(* to the feed, an ask also to the principal's line, if it is registered.  *)
(* A restart forgets every token and cuts every socket.                    *)
(***************************************************************************)
OnLine == line.pc \in {"joined", "open"} /\ ~line.cut

Utter(frame) ==
  LET seq == Len(record) + 1
  IN  /\ tokens # {} /\ Len(record) < MaxRecord
      /\ frame.kind = "close" => frame.exc # NoExc
      /\ frame.kind = "say" => frame.exc = NoExc
      /\ record' = Append(record, frame)
      /\ IF frame.kind # "ask" THEN UNCHANGED <<wire, deaf>>
         ELSE IF OnLine /\ claim \in tokens
              THEN wire' = Append(wire, seq) /\ UNCHANGED deaf
              ELSE deaf' = deaf \cup {seq} /\ UNCHANGED wire
      /\ UNCHANGED <<tokens, granted, thread, feed, line, fast, blinks, identity, bounds>>

Restart ==
  /\ tokens # {}
  /\ tokens' = {}
  /\ line' = [line EXCEPT !.cut = line.pc \in {"dialing", "joined", "open"}]
  /\ UNCHANGED <<record, granted, thread, feed, fast, wire, blinks, deaf, identity, bounds>>

(***************************************************************************)
(* The claim: one name, granted to whoever asks first and taken until a    *)
(* restart.  A refusal changes nothing here.  The answer can be lost, or   *)
(* come after a restart, and then the name was granted for nothing.        *)
(***************************************************************************)
Grant ==
  /\ claim = NoToken /\ ~posting
  /\ tokens = {} /\ granted < MaxClaims
  /\ granted' = granted + 1 /\ tokens' = {granted + 1}
  /\ posting' = TRUE
  /\ UNCHANGED <<record, thread, feed, private, saved, claim, since, bounds>>

PostFails ==
  /\ posting
  /\ posting' = FALSE
  /\ UNCHANGED <<server, thread, feed, private, saved, claim, since, bounds>>

Claimed ==
  /\ posting
  /\ posting' = FALSE /\ saved' = granted /\ claim' = granted /\ since' = lastSeq
  /\ NewThread
  /\ line' = Waiting /\ fast' = 0 /\ blinks' = 0 /\ wire' = <<>> /\ deaf' = 1 .. Len(record)
  /\ UNCHANGED <<server, feed, bounds>>

(***************************************************************************)
(* openLine: dial, refused or registered, open, prompts, closed.  Three    *)
(* closes in a row without an open end the line and with it the claim.     *)
(***************************************************************************)
Dial ==
  /\ line = Waiting
  /\ line' = [pc |-> "dialing", cut |-> FALSE]
  /\ UNCHANGED <<server, thread, feed, fast, wire, blinks, deaf, identity, bounds>>

Join ==                             \* handleLine registers before it upgrades
  /\ line = [pc |-> "dialing", cut |-> FALSE] /\ claim \in tokens
  /\ line' = [line EXCEPT !.pc = "joined"]
  /\ UNCHANGED <<server, thread, feed, fast, wire, blinks, deaf, identity, bounds>>

LineOpens ==
  /\ line = [pc |-> "joined", cut |-> FALSE]
  /\ line' = [line EXCEPT !.pc = "open"]
  /\ fast' = 0 /\ blinks' = 0
  /\ UNCHANGED <<server, thread, feed, wire, deaf, identity, bounds>>

Cut ==                              \* the network, a full queue or a write's timeout
  /\ line.pc \in {"dialing", "joined", "open"} /\ ~line.cut /\ faults < MaxFaults
  /\ line' = [line EXCEPT !.cut = TRUE]
  /\ faults' = faults + 1
  /\ blinks' = IF line.pc # "open" /\ claim \in tokens THEN blinks + 1 ELSE blinks
  /\ UNCHANGED <<server, thread, feed, fast, wire, deaf, identity, reloads>>

PromptOncePerExchange ==            \* variant: the exchange is compared, not the id
  /\ line.pc = "open" /\ wire # <<>>
  /\ wire' = Tail(wire)
  /\ LET exc == record[Head(wire)].exc
     IN  Thread(IF exc = NoExc \/ \E i \in DOMAIN items : items[i].exc = exc THEN items
                ELSE appendItem(items, Prompt(Head(wire))))
  /\ UNCHANGED <<server, feed, line, fast, blinks, deaf, identity, bounds>>

LineMessage ==
  /\ line.pc = "open" /\ wire # <<>>
  /\ wire' = Tail(wire)
  /\ Thread(IF record[Head(wire)].exc = NoExc \/ Prompted(items, Head(wire)) THEN items
            ELSE appendItem(items, Prompt(Head(wire))))
  /\ UNCHANGED <<server, feed, line, fast, blinks, deaf, identity, bounds>>

Closing ==                          \* cut, or refused with 401
  \/ line.cut
  \/ line.pc = "dialing" /\ claim \notin tokens

Silent == deaf' = deaf \cup ToSet(wire) /\ wire' = <<>>

Requeue ==                          \* the line waits for its timer
  /\ line' = Waiting /\ Silent
  /\ UNCHANGED <<server, thread, feed, blinks, identity, bounds>>

Lapse ==                            \* "dead"
  /\ saved' = NoToken /\ claim' = NoToken
  /\ NewThread
  /\ line' = NoLine /\ fast' = 0 /\ Silent
  /\ UNCHANGED <<server, feed, blinks, posting, since, bounds>>

ClosesCountedAll ==                 \* variant: a close after an open counts too
  /\ Closing
  /\ \/ fast + 1 < FastCloses /\ Requeue /\ fast' = fast + 1
     \/ fast + 1 >= FastCloses /\ Lapse

LineCloses ==
  /\ Closing
  /\ \/ line.pc = "open" /\ Requeue /\ UNCHANGED fast
     \/ line.pc # "open" /\ fast + 1 < FastCloses /\ Requeue /\ fast' = fast + 1
     \/ line.pc # "open" /\ fast + 1 >= FastCloses /\ Lapse

(***************************************************************************)
(* The feed and the reducer's "frame".  The feed skips at most MaxHoles    *)
(* frames between two loads of the page; that it is down for a while is    *)
(* FrameArrives not happening.                                             *)
(***************************************************************************)
Concludes(frame) == frame.kind = "close" \* settle, accept, decline, withdraw

Resolved(frame) == IF Concludes(frame) THEN resolveConsents(items, frame.exc) ELSE items

ReduceAgain(seq) ==                 \* variant: the line's copy is not looked for
  LET frame == record[seq]
  IN  IF claim = NoToken THEN {items}
      ELSE IF frame.kind = "ask" THEN {appendItem(items, Prompt(seq))}
      ELSE {Resolved(frame), appendItem(Resolved(frame), Bubble(seq))}

Reduce(seq) ==                      \* a stranger's frame, or one without a body, is not shown
  LET frame == record[seq]
  IN  IF claim = NoToken THEN {items}
      ELSE IF frame.kind = "ask"
           THEN {IF Prompted(items, seq) THEN items ELSE appendItem(items, Prompt(seq))}
      ELSE {Resolved(frame), appendItem(Resolved(frame), Bubble(seq))}

FrameArrives ==
  \E seq \in lastSeq + 1 .. Len(record) :
    /\ Cardinality(passed) + seq - lastSeq - 1 <= MaxHoles
    /\ \E its \in Reduce(seq) : Thread(its)
    /\ lastSeq' = seq
    /\ passed' = passed \cup (lastSeq + 1 .. seq - 1)
    /\ UNCHANGED <<server, private, identity, bounds>>

(***************************************************************************)
(* The visitor answers a prompt, which hides the buttons at once, or loads *)
(* the page anew: sessionStorage keeps the claim, the feed starts over.    *)
(***************************************************************************)
Answer ==
  \E i \in DOMAIN items :
    /\ Open(items[i])
    /\ Thread(resolveConsents(items, items[i].exc))
    /\ UNCHANGED <<server, feed, private, identity, bounds>>

Reload ==
  /\ reloads < MaxReloads
  /\ reloads' = reloads + 1
  /\ NewThread
  /\ lastSeq' = 0 /\ passed' = {}
  /\ posting' = FALSE /\ claim' = saved /\ since' = 0
  /\ line' = IF saved = NoToken THEN NoLine ELSE Waiting
  /\ fast' = 0 /\ blinks' = 0 /\ wire' = <<>> /\ deaf' = 1 .. Len(record)
  /\ UNCHANGED <<server, saved, faults>>

PageNext ==
  \/ \E frame \in Frame : Utter(frame)
  \/ Restart
  \/ Grant \/ PostFails \/ Claimed
  \/ Dial \/ Join \/ LineOpens \/ Cut \/ LineMessage \/ LineCloses
  \/ FrameArrives \/ Answer \/ Reload

PageSpec == PageInit /\ [][PageNext]_pageVars
=============================================================================
