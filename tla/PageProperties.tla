--------------------------- MODULE PageProperties ---------------------------
(***************************************************************************)
(* What the page shows its visitor, and when it may give a claim up.       *)
(***************************************************************************)
EXTENDS Page

Shown(id) == id \in gone \/ Prompted(items, id)

(***************************************************************************)
(* An ask that comes on the line and on the feed is shown once, whichever  *)
(* is first (reducer.mjs:322, 377), and an answered prompt does not get    *)
(* its buttons back, unless the thread had to forget it in between.        *)
(***************************************************************************)
PromptedOnce ==
  /\ \A i, j \in DOMAIN items : items[i].id = items[j].id => i = j
  /\ \A i \in DOMAIN items : Open(items[i]) => items[i].id \notin answered \ gone

(***************************************************************************)
(* No buttons on a closed exchange (reducer.mjs:308): a prompt that waits  *)
(* was asked after every closing frame of its exchange the page has seen,  *)
(* unless the feed skipped the ask and the line brought it late, or the    *)
(* thread had forgotten it.                                                *)
(***************************************************************************)
NoGhostPrompt ==
  \A i \in DOMAIN items : Open(items[i]) =>
    LET id == items[i].id
    IN  \/ id \in passed \cup gone
        \/ \A seq \in (id + 1 .. lastSeq) \ passed :
             Concludes(record[seq]) => record[seq].exc # items[i].exc

(***************************************************************************)
(* openLine gives a claim up after three closes without an open.  With a   *)
(* token the gateway knows, it takes three failed dials to come to that.   *)
(***************************************************************************)
GivesUp == claim # NoToken /\ claim' = NoToken /\ reloads' = reloads

LapseIsEarned == [][
  GivesUp => claim \notin tokens \/ blinks >= FastCloses]_pageVars

(***************************************************************************)
(* Feed and line back each other up (reducer.mjs:322, 377): when the feed  *)
(* is past an ask in an exchange and the line has nothing unread of it,    *)
(* the thread has shown it, unless the feed skipped it and the line lost   *)
(* it too.  Asks older than the thread's claim count from a reload on.     *)
(***************************************************************************)
AskReachesPrincipal ==
  \A id \in since + 1 .. lastSeq :
    /\ claim # NoToken
    /\ record[id].kind = "ask" /\ record[id].exc # NoExc
    /\ id \notin ToSet(wire)
    => Shown(id) \/ id \in passed \cap deaf
=============================================================================
