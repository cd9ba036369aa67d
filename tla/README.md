# A TLA+ model of the otherworld fabric

otherworld is a small world of voices. Things (a lamp, the heating, a shop) and
people's agents talk in *envelopes*; a propose opens an *exchange*, a matching
accept settles it, and only a settle may change the world (law 6). The Go
server `fabric/cmd/fabricd` runs it; a web client watches. This directory
models the server's core, model-checks it with TLC and proves part of it with
TLAPS. File and line references are to the repository's `src/`.

## 1. The system

| component | state | operations | talks to |
|---|---|---|---|
| protocol, termschema (`fabric/internal/protocol`) | none | kinds, terms, charters, envelopes; schema check of terms | everyone |
| world (`internal/world`) | things' settings, voices' marks | Register, Credit, Apply, View | called by the orchestrator under its mutex |
| orchestrator (`internal/orchestrator`) | voices with think generation and pending timer, exchanges, `excOrder`, utterance counter | AddVoice, Credit, Inject, PrincipalSays, Pending, timer callback → think | world, brains (off the lock), Append callback |
| composition root (`cmd/fabricd/compose.go`) | per server: claims, consent index; per scope: orchestrator, shadow marks ledger, append queue, store-failure count | onClaim, onPrincipalSay, onConsent, murmurs, writer, shutdown | orchestrator, store, gateway |
| token budget (`internal/budget`, `restLogger`) | tokens used, window start, rest flag | Add, Allow, Resting, observe | bedrock brain, state view |
| brains (`internal/brain`, `brain/bedrock`) | none | Relevant (under the lock), Think (off it) | orchestrator, budget |
| gateway (`internal/gateway`) | feed and line connections, tokens | Broadcast, Revoke, feed, line, claim, consent, state | composition root, clients |
| store (`internal/store`) | utterances, voices, presence | append, list since, purge, wipe | composition root |
| scenes (`internal/scenes`) | none | charters, bodies and rules of the seeds and of resident agents | fake brain |
| web client (`app/world`, `lib`) | reducer state, sockets | reduce a frame, reconnect, fetch the status line | gateway |
| runtime (`internal/runtime`) | mailboxes | Spawn, Deliver, Despawn | not wired into fabricd |

What makes it hard:

- Brains run off the orchestrator's mutex. Between the snapshot and the reply a
  voice may be triggered again, re-claimed under another charter, or lose the
  exchange it is answering; timers fire while they are being cancelled.
- Two pieces of code decide which exchange an accept settles: the gates before
  the funnel and the funnel. They must agree.
- Envelopes leave the orchestrator through a bounded queue that drops when it
  is full, to a single writer whose store may fail or time out after a commit.
- The consent path reads two locks' worth of state in three steps.
- The shadow ledger and the consent index follow the stream from afar.
- Scopes have orchestrators and queues of their own but one consent index, and
  number their exchanges alike.
- Scripted voices answer each other's answers: whether an exchange ends, and
  whether the talk does, depends on rules, views and timers together.
- The budget is checked before a think and charged after it, by several
  voices at once.
- A feed is replayed outside the registry's lock, then registered; its reader
  reconnects with a cursor, and a slow one is dropped.
- A page hears of an ask on two channels that break separately, one of them
  without a cursor.
- The page refreshes its status line when a flag changes between two renders,
  and several dispatches may fall into one render.

`PROJECT.json` lists these hazards at their lines with the properties that
watch each.

## 2. Modules

| module | models | proof |
|---|---|---|
| `Protocol` | vocabulary of envelopes, terms, charters | |
| `World` | things and marks, `Apply` | |
| `Orchestrator` | one scope's orchestrator, all of it | |
| `Bargain` | abstract: what the fabric promises about agreements | |
| `OrchestratorProperties` | properties, refinement to `Bargain` | |
| `OrchestratorProofs` | | TLAPS |
| `Scenes`, `ScenesProperties` | the orchestrator run by the seeds' own rules | |
| `ScenesProofs` | | TLAPS, extends `OrchestratorProofs` |
| `Fabricd`, `FabricdProperties` | the composition root around one orchestrator | |
| `FabricProofs` | | TLAPS, extends `OrchestratorProofs` |
| `Scopes`, `ScopesProperties` | several scopes behind one composition root | |
| `ScopesProofs` | | TLAPS |
| `Budget`, `BudgetProperties` | the token meter and the rest logger | |
| `BudgetProofs` | | TLAPS |
| `Feed`, `FeedProperties` | one reader of the public feed: writer, gateway, reconnecting socket | |
| `FeedProofs` | | TLAPS |
| `Page`, `PageProperties` | one visitor's page: claim, private line, thread | |
| `PageProofs` | | TLAPS |
| `StatusLine`, `StatusProperties` | that page's status line | |
| `Sums` | | TLAPS: lemmas about sums over a finite set, for `FabricProofs`, `BudgetProofs`, `ScenesProofs` |
| `MCOrchestrator`, `MCFabricd` | instances for TLC (the others have theirs in the cfg or in the properties module) | |

**Protocol, World.** Names, terms and values are elements of small sets. A
payload is represented by how it decodes (`Forms`): the code decodes one trade
payload with three different structs (party check, spend gates, `Apply`), and a
field of the wrong type fails only those that name it. The schema registry is
the set of terms it accepts. A trade moves marks in two assignments, the second
to the result of the first (`[[marks EXCEPT ...] EXCEPT ...]`), so that one who
trades with itself ends as it began.

**Orchestrator.** The mutex makes each public call, each timer callback up to
the brain call, and each continuation after it one action.

| action | code (`orchestrator.go`) |
|---|---|
| `AddVoice`, `ReclaimVoice` | `AddVoice` 160-182 |
| `CreditVoice`, `PrincipalSays`, `Inject` | 211-249 |
| `Fire` | the timer expires; from here Stop comes too late |
| `ThinkBegin` | callback 462-479, first exchange gate 538 |
| `ThinkFails`, `ThinkCapped`, `ThinkSpeaks` | 552-666 |
| `Emit` = `Crystallize`, `RecordOnly`, `Converse`, `Settle`, `Refuse` | the funnel `inject` 261-285 with `lifecycle` and `settleExchange` |

`Record` appends and routes: it chooses freely which addressed voices' brains
find the trigger relevant, cancels their armed timers and arms new ones.
`entries[v]` keeps the voice's *successive* entries because replaced ones
survive in the closures of their thinks. Brains are nondeterministic: any
action of `Acts`, silence, error or timeout (`ThinkFails` is all three, and the
stale, abandoned and barred replies that end as quietly). The ring of recent
envelopes, bodies and `serves` decide nothing and are left out. A debounce is
taken to be longer than one critical section, so a timer armed inside a step
cannot fire inside it.

**Bargain.** Deals that open, change their offer, and close once; the world
changes only when a deal closes, between the offerer and another participant.
`KeepsBargain` maps an exchange to a deal.

**Scenes.** Extends `Orchestrator` once more: the free choices of relevance and
answer become the rule lists of scenes, under the fake brain that runs them
(fake.go). `Respond(v, t, w)` is the answer of the first rule of `v` that
matches trigger `t`, given its view `w`; a voice finds relevant what it has a
rule for. `minds` keeps, for each scheduled think, the trigger it will answer
and the view it took; `Heard` forces what `Orchestrator` leaves open. A think
that discards its answer does so for one of the code's reasons (`Discarded`).
A principal says one of four words and answers asks; murmurs trigger no rule
and are left out. Only the household and the street are scenes fabricd boots.
`ScenesAssumption` says what the rules need of the constants: the seeds and the
residents are distinct names, principals are none of them, and the registry takes
the terms the rules send (`MCTerms`: all temperatures from 0 to 23 degrees, so that
the middle of two is one of them). `LiteralsAssumption` says of four literals that
they are strings, which the provers do not know by themselves.

**Fabricd.** Extends `Orchestrator` with what surrounds it. A call into the
orchestrator (`Locked`) is one step; its Append callbacks are handed over one
at a time (`HandOver`) while the writer runs and nobody else can enter the
mutex. `Reserve`/`EmbodyResident`/`Grant` are the three lock sections of
onClaim, `ConsentRead`/`ConsentPending`/`ConsentInject` those of onConsent.
The writer goes idle → store → send, and through draining to done. A store
failure leaves the row behind or not, as a timeout may. One scope is modelled;
what it shares with others is in `Scopes`. `IndexCatchesUp` is said of a scope that
is alone. The index does not always forget a settled exchange: a later proposal
into it is recorded and put into the index again (`Reopened`).

**Scopes.** All scopes of one server, from a claim to a principal's answer. What
`Orchestrator` and `Fabricd` model of one scope in detail is a choice here: who
speaks, whom it names and whether the world accepts a settlement. An opening
proposal makes whomever it names a party (orchestrator.go:322, bedrock.go:343), also
a resident of another scope. Terms are the number of the proposal that made them
(`offer`), so that an ask and the offer it meets can be told apart. A queue drops
what finds it full (compose.go:341); says, hails and murmurs, which are not modelled,
take room in it too, so it may be full at any time. `unlisted` is a history variable:
the exchanges whose opening proposal was dropped.

| action | code |
|---|---|
| `Claim` | onClaim's check of `server.claimed`, over all scopes |
| `VoiceOpens`, `VoiceSpeaks` | a bare propose, any other envelope, through the funnel |
| `Put`, `Kept` | Append: on the queue, or dropped where that is full |
| `Record` | the writer: `indexExchange` (compose.go:451), then store and broadcast, or not |
| `Post`, `PostIsLost` | a button (World.tsx:160, fabric.ts) and its request |
| `Look`, `Pending`, `Land` | the three lock sections of onConsent |

**Budget.** `Call(n)` is one locked meter call: roll, then add. `Allow`,
`Sample`, `Swap` and, if that flipped the flag, `Log` are the steps of
`restLogger.Allow`; `Answered` is `Add`, followed by the same. Another think may run
between the swap and its line, so only the number of lines of each kind is kept, not
their order. `spent` is a history variable.

**Feed.** What `Fabricd` calls `Stored`, `StoreFails` and `Broadcast` is here
`Commit` and `Broadcast` of one reader's scope.

| action | code |
|---|---|
| `Commit`, `Broadcast` | `record` (compose.go:425-446), `Broadcast` (gateway.go:184) |
| `Replay` | the query of `handleFeed` (gateway.go:310-321), up to ReplayLimit rows, or none if it fails |
| `Register`, `Accept` | gateway.go:331, 334 |
| `Write` | one frame of `writeLoop` onto the socket |
| `HandlerReturns` | dropped or gone: unregister and CloseNow |
| `Connect`, `OnMessage`, `OnClose`, `Close` | `openFeed` (lib/fabric.ts:38-92) and the reducer's `lastSeq` |
| `Break` | the network, or a write past its timeout |

One reader is enough, as queues are separate; it has several *connections*,
since the handler of a broken one lives on for a while. `skipped` is a history
variable: which rows were kept from the page, and why. Go's `select` chooses
freely between `dropped` and `out`, so `Write` stays possible after a drop. Seqs
count over all scopes in the database; here they count the scope's rows, which
changes nothing since only their order is used. A timed-out insert is committed
at once or never; one that commits after a later row is not modelled.

**Page.** Claims, `openLine` and the reducer's thread, for one name.

| action | code |
|---|---|
| `Grant`, `PostFails`, `Claimed` | handleClaim (gateway.go:397), its lost answer, `onSubmit` (World.tsx:137) |
| `Dial`, `Join`, `LineOpens`, `LineMessage`, `LineCloses` | `openLine` (fabric.ts:136) and `handleLine` (gateway.go:349); `LineCloses` with `Lapse` is "dead" |
| `FrameArrives` | the reducer's "frame" with `classifyFrame`, `resolveConsents`, `appendItem` |
| `Answer`, `Reload` | a button; the page loaded anew from sessionStorage, the feed from seq 0 |
| `Utter`, `Restart`, `Cut` | the world speaks, the server restarts, a socket breaks |

Of the feed `Page` keeps what `FeedProofs` proves of it: frames come in order,
perhaps with holes. All closing kinds are one kind, and a frame that is neither
an ask nor closing may or may not show a bubble (strangers' frames, empty
bodies). `since`, `gone`, `answered`, `passed`, `deaf` and `blinks` are history
variables. An answer's way to `onConsent` is in `Fabricd`; here answers only
hide buttons, and closing frames come when they come.

**StatusLine.** The effect of World.tsx:88-103 between React's renders, and the
state endpoint. The world is its number of settlements, and so are the frames
and the text. `Render` runs the effect only if `stateStale` is not what it was
at the last render. `owed` is a history variable: the news that came when a
fetch could still bring it.

**Variants.** Some definitions have a sibling just before them that nothing
uses (`NextId`/`LastId`, `Stored`/`StoreRetries`, ...). Each is the definition
with one plausible bug; `PROJECT.json` names, for every property, a variant
that breaks it when put in place, so that each property is known to bite.

## 3. Runs

| cfg | asks | instance and why it is enough |
|---|---|---|
| `Trade` | may marks move without authority or go negative; do gate and funnel agree | buyer limited to 1 mark but owning 2, prices -1, 1, 2 and undecodable; 4 utterances: propose, counter, accept + settle |
| `Room` | does the world change only on record, are open exchanges kept, does `Bargain` hold | a thing with a body, one without, absent parties, bare and misaddressed accepts, every kind of envelope into known and unknown exchanges |
| `Reclaim` | can an outdated think speak; does every think end | ada claimed twice under disjoint mandates, at every point of two thinks; turn cap 2, 3 utterances; under fairness |
| `Scenes` | do the voices fall silent, is every exchange attended to, is anything bought unasked | both scopes as booted, two residents, each of the four words, two of them in any overlap; the real turn cap and window, and 20 utterances, which two words never reach (`TalkIsBounded`) |
| `Fabric` | do record, feed, shadow ledger and index follow | one resident, one shop; queue of 2 so that it overflows; one store failure; stop at any point; one consent call |
| `Drain` | is what is queued at shutdown recorded or reported | murmurs fill the queue; fair writer |
| `Scopes` | whom can an answer bind; what leads an answer away from its exchange | two scopes with one exchange each, which are twins, opened to the resident or past her; one answer; one counter-offer; queues of two. Where TLC need not go on is in `MCBounds` |
| `Budget` | how far can spend overshoot, is each flip logged | two thinks, answers of 1-2 tokens, limit 2, three windows |
| `Feed` | can a reader go back, miss a frame, or lose one without a known cause; does it always get back | queue, replay and socket of one frame, so that each overflows at once; two connections, three rows, one break besides all drops |
| `Page` | are prompts shown once, lost, or offered for closed exchanges; when is a claim given up | three frames, so that a thread of two forgets, one hole, two cuts, one reload, a restart and a second claim; a line dies after two fast closes instead of three |
| `Status` | is news shown, when does the line stop refreshing | three settlements, so that one may come before, during and after a fetch; two failures |

One run shows where the code does not do what a comment says:

| cfg | comment | what happens |
|---|---|---|
| `ScopeOwner` | the index keeps "which scope owns each exchange and who proposed last" (compose.go:448) | all orchestrators get one run id (compose.go:328) and count from 1, so exchanges of two scopes share ids: the entry names the scope that proposed last (compose.go:458), and a settle in one scope deletes the other's |

`OnlyTwinsGoAstray` and `YesBindsAParty`, with their proofs, show what this costs. An
answer that misses its open exchange met a twin of it, or its exchange never came
into the index. A yes that meets a twin settles that one only if a proposal there
named the resident, which nothing keeps a voice from.

More differences between documentation and code were met and have no run of
their own:

- "maximum number of turns an exchange may take" (orchestrator.go:53): the cap is
  checked before adoption, so an adopted envelope gives a capped exchange
  another turn;
- approve "carr[ies] the exchange's pending terms" (compose.go:554): those read
  before the lock is released; after a counter-offer in between, a consent to
  one offer settles another (`Countered`);
- nor need they be of the exchange the principal was asked about: a yes that the
  index sends to a twin settles it, if its proposer named the resident
  (`Misrouted`);
- envelopes between replay and registration are covered by the cursor "on its
  next connect" (gateway.go:306): a later live frame moves the cursor past them,
  and no connect brings them (`HolesAreExplained` lists it);
- `consent` reports failure so that the UI "can re-surface the prompt when the
  server rejects" (fabric.ts:217): World.tsx:160 ignores what it returns;
- a bare hail opens no exchange (fabric/README.md:13, orchestrator.go:311);
- trades of a voice with `MaySettleWithoutPrincipal`, residents included
  (household.go:283), need no consent (fabric/README.md:15);
- an accept without terms settles (orchestrator.go:193 and 345);
- a propose is not "always indexed" before its ask_principal is seen
  (compose.go:450): a full queue may drop the propose and not the ask, and the
  answer then meets "unknown exchange" (`NeverListed`);
- a rolling hour may cost more than twice the limit (budget.go:4), since thinks
  in flight overshoot both windows; `HourBounded` states the real bound;
- a rest transition is not logged "exactly once" (compose.go:70): a stale sample
  flips the flag to what the meter no longer is, and that is logged too. What is
  logged once is each flip (`EveryFlipIsLogged`), and since the line comes after
  the swap, the lines of two flips may be in the wrong order;
- three closes without an open do not mean "that the token itself is being
  refused" (fabric.ts:127): an outage of about seven seconds does the same, the
  claim is forgotten and its name stays taken. `LapseIsEarned` states what holds;
- an ask outside any exchange is ignored on the line (reducer.mjs:383) and shown
  from the feed, with buttons that lead nowhere;
- "closed: the index forgets it" (compose.go:486): not for good. The gate stops
  words into an abandoned exchange only (orchestrator.go:507), so a proposal into
  a settled one is recorded and indexed again, and nothing will take it out;
- the status line is not "refreshed after every settle frame" (World.tsx:88): not
  by one that comes between the state's being read and the next render, and if
  it falls after the fetch ended, never again (`DeafOnlyByBatching`).

Bounds: `MaxUtt` stops new outside envelopes and replies, `MaxInc` re-claims,
`MaxMarks` credits, `MaxFails` consecutive store failures, `MaxTime` the clock;
in `Feed`, `MaxRows` rows, `MaxFaults` breaks, `MaxConns` handlers at a time; in
`Page`, `MaxRecord` frames, `MaxClaims`, `MaxFaults`, `MaxHoles`, `MaxReloads`; in
`Scenes`, `MaxSays` words; in `Scopes`, `MaxDeals` exchanges (`TurnCap` and
`QueueSize` are the code's own, made small); in `StatusLine`, `MaxSettles` and `MaxFaults`.
They only cut guards of actions that start something; what was started runs to
its end. Deadlock is not checked in the runs with such a bound on envelopes,
since a world in which nobody speaks has stopped legitimately; the budget never
stops and is checked. `MCBounds` in `ScopesProperties` is the one state constraint: it
is TLC's alone, and the proofs know nothing of it. TLC follows no state beyond the
end of the answer, whose exchange cannot open again; the resident moves into the
household, of which the street is the mirror image; two envelopes wait at most; and
the counter-offer is made at home.

Fairness. `Fairness` (Orchestrator): for each voice, some think of it makes
progress while it has one — timers expire, the mutex is granted, and
ThinkTimeout (orchestrator.go:476) makes every brain return. Callers owe
nothing. `ScenesFairSpec` says the same of the scope's thinks as a whole.
`FabricFairness`: Append returns and the writer goroutine is
scheduled. Nothing is assumed about the store beyond its 5 s timeout.
`FeedFairness`: the gateway's goroutines and the page's event loop are
scheduled and its reconnect timer fires (fabric.ts:76); rows, breaks and the
page's leaving are free. `StatusFairness`: React renders what was dispatched, the
endpoint answers and its answer is dispatched; settlements, frames and breaks are
free. `Page` and `Scopes` state safety only.

## 4. Proofs

TLAPS proves for all values of the constants, under the named ASSUMEs
(`TermsAssumption`, `CastAssumption`, ... : the constants are well typed):

| theorem | says |
|---|---|
| `TypeCorrect` | `Spec => []TypeOK` |
| `AtMostOneLiveThink` | `Spec => []OneLiveThink` |
| `NobodyOverdrawn` | `Spec => []MarksNeverNegative` |
| `ClosedForGood` | closed exchanges are final |
| `OpenIsListed` | open exchanges stay in `excOrder` |
| `GateIsFaithful` | `settleTarget` predicts `lifecycle` |
| `AgreementsAreKept` | the orchestrator implements `Bargain` |
| `OnlySettlesChangeTheWorld` | `WorldChangesOnRecord`: law 6 |
| `ProposalsAreMandated` | `MandateHoldsOnRecord`: no brain goes beyond its current charter |
| `RepliesAreTimely` | `NoLateReply`: none speaks into an exchange that ended |
| `MarksMoveWithAuthority` | `TradesAreAuthorised`: by mandate or by a principal |
| `ScopesTypeCorrect` | `ScopesSpec => []ScopesTypeOK` |
| `NothingIsBoughtUnasked` | `NothingBoughtUnasked`: a resident pays only in the step of its principal's yes |
| `NobodyIsLeftHanging` | `ScenesSpec => []NobodyLeftHanging` |
| `TalkEnds` | `ScenesSpec => []TalkIsBounded` |
| `ConsentBindsAParty` | `YesBindsAParty`: a yes closes only an exchange its resident is named in, on another's offer |
| `OnlyTwinsMislead` | `ScopesSpec => []OnlyTwinsGoAstray` |
| `FabricTypeCorrect` | `FabricSpec => []FabricTypeOK` |
| `NoEnvelopeVanishes` | `FabricSpec => []NothingVanishes` |
| `FeedFollowsRecord` | `FabricSpec => []FeedIsHonest` |
| `IndexFollowsDeals` | `FabricSpec => []IndexCatchesUp` |
| `LedgersNeverDrift` | `FabricSpec => []LedgersAgree` |
| `BudgetTypeCorrect` | `BudgetSpec => []BudgetTypeOK` |
| `FlipsAreLoggedOnce` | `BudgetSpec => []EveryFlipIsLogged` |
| `OvershootIsBounded` | `BudgetSpec => []OvershootBounded` |
| `HourIsBounded` | `BudgetSpec => []HourBounded` |
| `PageNeverGoesBack` | `FeedSpec => []NeverBackwards` |
| `EveryHoleIsExplained` | `FeedSpec => []HolesAreExplained` |
| `BroadcastsArrive` | `FeedSpec => []NoBroadcastMissed` |
| `FeedTypeCorrect` | `FeedSpec => []FeedTypeOK` |
| `PageTypeCorrect` | `PageSpec => []PageTypeOK` |
| `AsksShownOnce` | `PageSpec => []PromptedOnce` |
| `NoPromptOutlivesItsExchange` | `PageSpec => []NoGhostPrompt` |
| `AsksReachThePrincipal` | `PageSpec => []AskReachesPrincipal` |
| `ClaimsLapseWhenEarned` | `LapseIsEarned`: three failed dials, or a token nobody knows |

*One live think.* `OneLiveThink` is not inductive: nothing in it keeps a timer's
generation at or below its entry's, nor says that entries but the last have no
live timer. `IInv` in `OrchestratorProofs` adds both, with `TypeOK`, and that no
two thinks of an entry share a generation (`Distinct`). A trigger
and a re-claim each bump the generation, so every timer of the voice becomes
stale (`BumpedOne`) before a new one is armed at the new generation. The proof
splits into the five cases of the funnel, once for every caller (`Emit`), and
the steps of a think.

*Agreements.* With `TypeOK` known, `MarksNeverNegative`, `ClosedIsFinal` and
`OpenStaysListed` are each preserved by the funnel's cases and untouched by the
rest. `GatePredictsFunnel` holds in every state (`GateAgrees`): the oldest open
exchange the envelope meets is the same element whether or not closed ids are
compacted away first.

*Laws.* The proof takes the calls apart once: what an envelope given to `Emit`
must satisfy (`SaysEnvelope`, `InjectEnvelope`, `ReplyEnvelope`), what it posts
(`EmitPosts`), which turn of `Bargain` it is (`TurnOfDeal`) and what a settlement
moves (`SettleFacts`). Each step of the orchestrator is then at most one step of
one deal, and the world changes in none but the one that closes it by a settle.

*Mandates.* `MandateHoldsOnRecord` and `NoLateReply` are checked where a think
speaks: `Barred`, `Abandoned` and the generation are read under the same lock as
the funnel is entered, and `OneLiveThink` makes the charter of the think the
voice's last. `TradesAreAuthorised` looks further back, to the propose that a
settle closes: the inductive `LawInv` adds that every trade on the table that
its own buyer's brain put there was within a charter that voice has held. Entries
are never taken away, so a mandate once held stays known.

*Sums.* `LedgersAgree`, `HourBounded` and the proof of `TalkIsBounded` add up a
set of any size. `SumFunctionOnSet` chooses the elements one after the other and
the prover has no induction; `Sums` looks at a smallest counterexample instead,
shows that the recursion has a solution and only one on every finite set
(`SolutionExists`, `SolutionsAgree`), and from that what a sum does when an
element comes, goes or changes its weight.

*Scripts.* `ScriptInv` in `ScenesProofs` says what the rules leave of the
orchestrator's freedom: who is in the scope and under which charter, which offers
are on the table, and of every think what triggered it (`Prompted`): a word, a
hail, or an offer of the other party in a two-party exchange. What a rule
answers is then known per trigger (`Answered`), and an envelope wakes at most
one voice (`WakesOne`); a hail to all wakes the door or the shop and no other.
`NothingBoughtUnasked` follows step by step: only an accept settles a trade, no
rule accepts one, and a yes accepts for the resident whose principal was asked. For `TalkIsBounded`
each think and each unanswered ask holds an account of what can still follow
from it (`Load`: 5 after a word, 4 after a hail, 3 after an offer, 2 after the
heating's counter-offer; and 2 for an ask); an envelope costs one, two if it settles, and leaves no more than the rest to the think it wakes
(`SpeechCosts`). A superseded think is still counted until it ends, so the sum
bounds what is said in every overlap. `NobodyLeftHanging` is the last state of
`LeftInv`: an open exchange has a live think about its current offer, or one of
the four reasons to have none. The orchestrator's own bounds on an exchange's
turns are not used: the rules end by themselves.

*Scopes.* `ScopesInv` follows names: a name is claimed once in all scopes, so the
voice of an ask, a prompt or an answer lives in the scope it names, and whoever's
offer stands in an exchange lives there; who is merely named in one need not.
`AstrayInv` follows exchanges. One that is open, has no twin and whose opening came
onto its queue (`Alone`) is found: nothing queued takes it out of the index while
it is open, and its first note is a proposal, so the index knows it before its first
ask can be shown. No ask is ahead of its exchange's offers (`AskStands`). From there
`OnlyTwinsGoAstray` is the contrapositive. `YesBindsAParty` needs both: what lands
passes the funnel's own check of the parties, at home for an offer at least as late
as the one asked about, elsewhere for a resident who does not live there.

*Pipeline.* `Given` counts the envelopes given to Append. Each of them is in the
queue, in the writer's hand, recorded, dropped or failed (`Covered`), and in this
order (`InOrder`): what is recorded or failed has lower numbers than what is in
hand, and that lower ones than the queue. What was dropped is none of these, but
for the rest of the queue that a finished writer will not take. A call into the
orchestrator numbers exactly the envelopes it hands out (`EmitCounts` and its
siblings), so none of its steps moves `Given` and the pipeline's lemmas need not
know what was said; the steps of the orchestrator keep `IInv` by the lemmas of
`OrchestratorProofs`, stated for any caller.

*Index.* What decides an exchange are the proposals, settles and withdrawals that
name it; the last of them is its verdict. `CatchInv` says that the index holds
the exchanges whose verdict among the envelopes the writer has `Seen` is a
proposal (`IndexFollows`), and that the verdict among all that is `Known` is the
pending offer of an exchange that is open (`DealsAreKnown`). A call adds to what
is known only envelopes with higher numbers, and what they say follows what it
does to the exchanges (`Follows`, proved for the five cases of the funnel); the
writer takes them in order. When nothing about an exchange is outstanding the two
verdicts are one. The proof found what the run's bounds are too small for: an
exchange that settled can be put back by a proposal that comes later.

*Ledgers.* An envelope is worth to each voice what the writer will move for it.
A call that settles a trade moves the world's marks by what the one settle it
hands out is worth (`CallSettles`); `Take` moves the shadow by the same and takes
the envelope out of what is unindexed (`TakeSettles`); a claim's stake is owed
from its reservation to its grant. What the proof needs of the pipeline is that
no envelope is counted twice: the numbers of `CatchInv` and `InOrder`.

*Budget.* The invariant counts thinks in flight: used + MaxTokens × (in flight)
< Limit + MaxTokens × (all). Admission happens below the limit, so even with
everyone in flight the sum fits; a charge costs at most what its think had
reserved. It needs that a think waiting for the model carries no second
permission (`ChargedOnce`). `EveryFlipIsLogged` counts the lines still to come with
those that came: a swap that succeeds flips the flag and owes one line, whatever its
sample's age, and the lines settle that in any order. For `HourBounded` `HourInv` keeps
two sums apart, that of the current window, which is `used`, and that of the hour
before it, which was one window's when it closed and can only lose its oldest
part since; any hour lies within the two.

*Feed.* None of the properties is inductive: a frame that is fine now was fine when it
was queued, written, or promised by a replay. `FeedInv` follows the frames on
their way: cursor, wire and queue form one ascending chain, and every row between
two neighbours of it is shown, unsent or skipped with a reason; the rows up to a
connection's `since` are covered by its chain in each phase of the handler.
Handlers other than the page's live one do not matter and are left out of it.
`NoBroadcastMissed` is preserved step by step on top of it: a broadcast reaches
the queue of every registered handler or marks it as dropped, and a row leaves
queue or wire only to be shown, or below the cursor.

*Page.* `PInv` follows every ask on its two ways to the thread: what the feed is
past was shown or skipped (`FeedShows`), what was recorded is shown, unread on the
line, or was missed by it (`LineShows`); together they are `AskReachesPrincipal`.
The reducer's operations are characterised once (`CarriesOn`: every item is an
heir of one that was there, or new, and every item has its heir or is forgotten),
and what a thread may show follows for all of them (`ThreadKeeps`). That a claim
lapses only when earned needs that each close which counts was a dial that failed,
for a token the gateway knows, with one more on the way while the socket is cut
and not open (`BlinksCount`).

Every invariant the passing runs check is thus proved, and every action property
but one. Only model-checked are

- liveness: `EveryThinkEnds`, `FallsSilent`, `QueuedIsRecorded`, `QueuedIsShown`,
  `AlwaysReconnects`, `ScopeSleeps`, `NewsIsShown` (the prover handles neither
  fairness nor ENABLED);
- `DeafOnlyByBatching`, the one action property of `StatusLine`.

## 5. Plan and limits

Modelled: protocol, world, orchestrator with properties, refinement and proofs;
the scenes on it with their proofs; the composition root, for one scope in detail
and for several with their index; the budget; the feed and the page with their
proofs; the page's status line. What could follow:

1. `Feed` as an implementation of the feed `Page` assumes, by refinement.
2. `Debounce`: starvation of a voice under steady triggers
   (orchestrator.go:452-462). It needs an unbounded supply of triggers, and the
   utterance counter that everything hangs on grows with each.
3. Proofs: `DeafOnlyByBatching` of `StatusLine`.

Not modelled: the voice runtime (mailboxes and supervision, "deliberately NOT
wired in v1", cmd/fabricd/main.go:6), the landing page and assets (no state),
generated store code, prompts and wire formats of the bedrock brain (its answers
are arbitrary), the voices table and presence rows (written, purged and never
read back by a decision), the page's degraded flag, boot and flags, and a crash
of the process: exchanges, claims and marks live in memory only and a restart
starts a new world on an old record (`Page` models what it does to the tokens
and sockets).
