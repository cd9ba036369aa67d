----------------------------- MODULE StatusLine -----------------------------
(***************************************************************************)
(* The page's status line (src/app/world/World.tsx and reducer.mjs): the   *)
(* one claim it makes about now.  The text comes from GET /v0/state; a     *)
(* settle frame, or a feed that reopens, sets stateStale, an effect that   *)
(* depends on stateStale fetches, and the answer clears it.                *)
(*                                                                         *)
(* The world is its number of settlements, and so are the text and the     *)
(* settle frames.  React applies dispatches in order but renders when it   *)
(* likes, so several may fall into one render; an effect runs after a      *)
(* render that changed what it depends on, and only then.                  *)
(***************************************************************************)
EXTENDS Integers

CONSTANTS
  MaxSettles,    \* bound: settlements
  MaxFaults      \* bound: failed fetches and breaks of the feed

ASSUME StatusAssumption == MaxSettles \in Nat /\ MaxFaults \in Nat

VARIABLES
  world,         \* settlements so far, as the state endpoint reads them
  seen,          \* the newest settle frame the page has reduced
  feedOpen,      \* WorldState.feedOpen
  stale,         \* WorldState.stateStale after the last dispatch
  drawn,         \* the stateStale of the last render
  fetch,         \* the fetch under way
  line,          \* what the status line shows; -1 is the scope's bare title
  owed,          \* history: the settlements the page was told of in time, see InTime
  faults

vars == <<world, seen, feedOpen, stale, drawn, fetch, line, owed, faults>>

NoFetch == [pc |-> "none"]

Asked == [pc |-> "asked"]

Answered == [pc : {"answered"}, text : 0 .. MaxSettles]

StatusTypeOK ==
  /\ world \in 0 .. MaxSettles
  /\ seen \in 0 .. world
  /\ feedOpen \in {"null", "open", "down"}
  /\ stale \in BOOLEAN /\ drawn \in BOOLEAN
  /\ fetch \in {NoFetch, Asked} \cup Answered
  /\ line \in -1 .. world /\ owed \in -1 .. world
  /\ faults \in 0 .. MaxFaults

StatusInit ==                       \* before the first render
  /\ world = 0 /\ seen = 0
  /\ feedOpen = "null"
  /\ stale = TRUE /\ drawn = FALSE
  /\ fetch = NoFetch
  /\ line = -1 /\ owed = 0
  /\ faults = 0

(***************************************************************************)
(* The server: the world moves; the endpoint reads it for the answer.      *)
(***************************************************************************)
Settles ==
  /\ world < MaxSettles
  /\ world' = world + 1
  /\ UNCHANGED <<seen, feedOpen, stale, drawn, fetch, line, owed, faults>>

StateView ==
  /\ fetch = Asked
  /\ fetch' = [pc |-> "answered", text |-> world]
  /\ UNCHANGED <<world, seen, feedOpen, stale, drawn, line, owed, faults>>

(***************************************************************************)
(* Dispatches of the feed, which may pass over frames (see Feed).  News is *)
(* in time unless an answer that may be older is on its way, or has been   *)
(* dispatched and not rendered: in the one case the answer will wipe the   *)
(* news out, in the other the render will not see that stateStale was      *)
(* false in between, and no effect runs, then or ever after (Deaf).        *)
(***************************************************************************)
InTime == fetch = Asked \/ ~drawn

Deaf == stale /\ drawn /\ fetch = NoFetch

SettleFrame(n) ==
  /\ feedOpen = "open"
  /\ n \in seen + 1 .. world
  /\ seen' = n
  /\ stale' = TRUE
  /\ owed' = IF InTime THEN n ELSE owed
  /\ UNCHANGED <<world, feedOpen, drawn, fetch, line, faults>>

FeedOpensQuietly ==                 \* variant: a reopened feed refetches nothing
  /\ feedOpen # "open"
  /\ feedOpen' = "open"
  /\ owed' = IF InTime /\ feedOpen = "down" THEN world ELSE owed
  /\ UNCHANGED <<world, seen, stale, drawn, fetch, line, faults>>

FeedOpens ==
  /\ feedOpen # "open"
  /\ feedOpen' = "open"
  /\ stale' = (stale \/ feedOpen = "down")
  /\ owed' = IF InTime /\ feedOpen = "down" THEN world ELSE owed
  /\ UNCHANGED <<world, seen, drawn, fetch, line, faults>>

FeedCloses ==
  /\ feedOpen # "down"
  /\ faults < MaxFaults
  /\ feedOpen' = "down"
  /\ faults' = faults + 1
  /\ UNCHANGED <<world, seen, stale, drawn, fetch, line, owed>>

(***************************************************************************)
(* React renders; if stateStale is not what it was, the effect runs.  It   *)
(* aborts the fetch it started before, but that one is over by then.       *)
(***************************************************************************)
Render ==
  /\ drawn # stale
  /\ drawn' = stale
  /\ fetch' = IF stale THEN Asked ELSE fetch
  /\ UNCHANGED <<world, seen, feedOpen, stale, line, owed, faults>>

(***************************************************************************)
(* The fetch ends: its text is dispatched, or null, which keeps the line.  *)
(* Both clear stateStale.                                                  *)
(***************************************************************************)
TextKeepsStale ==                   \* variant: the answer does not disarm
  /\ fetch \in Answered
  /\ line' = fetch.text
  /\ fetch' = NoFetch
  /\ UNCHANGED <<world, seen, feedOpen, stale, drawn, owed, faults>>

Text ==
  /\ fetch \in Answered
  /\ line' = fetch.text
  /\ stale' = FALSE
  /\ fetch' = NoFetch
  /\ UNCHANGED <<world, seen, feedOpen, drawn, owed, faults>>

FetchFails ==
  /\ fetch # NoFetch
  /\ faults < MaxFaults
  /\ faults' = faults + 1
  /\ stale' = FALSE
  /\ fetch' = NoFetch
  /\ owed' = line                   \* the next settle retries
  /\ UNCHANGED <<world, seen, feedOpen, drawn, line>>

StatusNext ==
  \/ Settles \/ StateView
  \/ \E n \in 1 .. MaxSettles : SettleFrame(n)
  \/ FeedOpens \/ FeedCloses
  \/ Render \/ Text \/ FetchFails

(***************************************************************************)
(* The browser renders and the endpoint answers, or the fetch fails.       *)
(* Nobody owes a settlement, a frame or a feed.                            *)
(***************************************************************************)
StatusSpec == StatusInit /\ [][StatusNext]_vars

StatusFairness ==
  WF_vars(Render) /\ WF_vars(StateView) /\ WF_vars(Text)

StatusFairSpec == StatusSpec /\ StatusFairness
=============================================================================
