--------------------------- MODULE BudgetProperties ---------------------------
(***************************************************************************)
(* What the budget promises, and what its comments promise beyond that.    *)
(***************************************************************************)
EXTENDS Budget, Functions, TLC

(***************************************************************************)
(* Thinks that asked and were allowed, and have not been charged yet.      *)
(***************************************************************************)
InFlight == {p \in Thinkers : thinker[p].ok \/ thinker[p].at = "called"}

(***************************************************************************)
(* A window overshoots by less than one answer for each think that can be  *)
(* under way, and what is in flight is part of that: a think is admitted   *)
(* before its price is known, but nobody is admitted after the limit.      *)
(***************************************************************************)
OvershootBounded ==
  Limit > 0 =>
    used + MaxTokens * Cardinality(InFlight)
      < Limit + MaxTokens * Cardinality(Thinkers)

(***************************************************************************)
(* Two windows meet in any hour, so an hour spends at most twice what one  *)
(* window may, overshoot included.                                         *)
(***************************************************************************)
LastHour == SumFunctionOnSet(spent, {t \in 0 .. now : t > now - Hour})

HourBounded ==
  Limit > 0 =>
    LastHour <= 2 * (Limit - 1 + MaxTokens * Cardinality(Thinkers))

(***************************************************************************)
(* Concurrent thinks that see the same change log it once: the flips that  *)
(* are logged, and those whose thinks are about to log them, are as many   *)
(* rests as wakings, and one rest more while the flag is up.  The lines    *)
(* may be out of order: another think can flip the flag back and log that  *)
(* first.                                                                  *)
(***************************************************************************)
Unsaid(w) ==
  Cardinality({p \in Thinkers : thinker[p].at = "logging" /\ Word(thinker[p].sample) = w})

Flips(w) == logged[w] + Unsaid(w)

EveryFlipIsLogged == Flips("rest") = Flips("wake") + (IF resting THEN 1 ELSE 0)

-----------------------------------------------------------------------------
(***************************************************************************)
(* The thinks are alike.                                                   *)
(***************************************************************************)
MCSymmetry == Permutations(Thinkers)
=============================================================================
