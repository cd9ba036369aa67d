-------------------------- MODULE StatusProperties --------------------------
(***************************************************************************)
(* What the status line owes its reader.                                   *)
(***************************************************************************)
EXTENDS StatusLine

(***************************************************************************)
(* Every settlement the page learns of in time, by a settle frame or by    *)
(* reopening its feed, is in the status line before long, unless the fetch *)
(* fails: however settlements, frames, answers and renders interleave.     *)
(***************************************************************************)
NewsIsShown ==
  \A n \in 0 .. MaxSettles : owed >= n ~> line >= n \/ owed < n

(***************************************************************************)
(* The page stops refreshing for ever (stateStale is set, and no effect    *)
(* will run, because it was set at the last render too) in one way only: a *)
(* frame or a reopened feed falls between the end of a fetch and the       *)
(* render that would have shown that it ended.                             *)
(***************************************************************************)
DeafOnlyByBatching == [][Deaf' /\ ~Deaf => drawn /\ ~stale /\ fetch = NoFetch]_vars
=============================================================================
