----------------------------- MODULE BudgetProofs -----------------------------
(***************************************************************************)
(* However many thinks share the meter and however their calls interleave, *)
(* a window's overshoot is bounded.                                        *)
(***************************************************************************)
EXTENDS BudgetProperties, Sums

(***************************************************************************)
(* The inductive invariant: the bound itself, the types it needs, and that *)
(* a think the model is answering carries no permission of its own, so     *)
(* charging it takes it out of flight.                                     *)
(***************************************************************************)
MeterTypeOK ==
  /\ used \in Nat
  /\ thinker \in [Thinkers -> Thinker]

ChargedOnce == \A p \in Thinkers : thinker[p].at = "called" => ~thinker[p].ok

BInv == MeterTypeOK /\ ChargedOnce /\ OvershootBounded

-----------------------------------------------------------------------------
(***************************************************************************)
(* The thinks in flight are finitely many, at most all of them.            *)
(***************************************************************************)
LEMMA FlightSize ==
  ASSUME NEW S, S \subseteq Thinkers
  PROVE  /\ IsFiniteSet(S) /\ Cardinality(S) \in Nat /\ Cardinality(Thinkers) \in Nat
         /\ MaxTokens * Cardinality(S) \in Nat
         /\ MaxTokens * Cardinality(S) <= MaxTokens * Cardinality(Thinkers)
<1>1. IsFiniteSet(S) /\ Cardinality(S) <= Cardinality(Thinkers)
  BY FS_Subset, BudgetAssumption
<1>2. Cardinality(S) \in Nat /\ Cardinality(Thinkers) \in Nat
  BY <1>1, FS_CardinalityType, BudgetAssumption
<1>3. ASSUME NEW a \in Nat, NEW b \in Nat, a <= b
      PROVE  MaxTokens * a \in Nat /\ MaxTokens * a <= MaxTokens * b
  BY <1>3, BudgetAssumption
<1> QED
  BY <1>1, <1>2, <1>3

(***************************************************************************)
(* A call that charges nothing, with the same thinks in flight or fewer,   *)
(* keeps the bound: the counter stays or starts again at zero.             *)
(***************************************************************************)
LEMMA FreeCall ==
  ASSUME BInv, used' \in {used, Rolled}, InFlight' \subseteq InFlight
  PROVE  used' \in Nat /\ OvershootBounded'
<1>1. used \in Nat /\ used' \in Nat /\ (used' = used \/ used' = 0)
  BY DEF BInv, MeterTypeOK, Rolled
<1>2. InFlight \subseteq Thinkers /\ InFlight' \subseteq Thinkers
  BY DEF InFlight
<1>3. Cardinality(InFlight') \in Nat /\ Cardinality(InFlight) \in Nat
      /\ Cardinality(InFlight') <= Cardinality(InFlight)
  BY <1>2, FlightSize, FS_Subset
<1>4. MaxTokens * Cardinality(InFlight') <= MaxTokens * Cardinality(InFlight)
  <2>1. ASSUME NEW a \in Nat, NEW b \in Nat, a <= b
        PROVE  MaxTokens * a <= MaxTokens * b
    BY <2>1, BudgetAssumption
  <2> QED
    BY <1>3, <2>1
<1>5. SUFFICES ASSUME Limit > 0
               PROVE  used' + MaxTokens * Cardinality(InFlight')
                        < Limit + MaxTokens * Cardinality(Thinkers)
  BY <1>1 DEF OvershootBounded
<1>6. used + MaxTokens * Cardinality(InFlight)
        < Limit + MaxTokens * Cardinality(Thinkers)
  BY <1>5 DEF BInv, OvershootBounded
<1>7. MaxTokens * Cardinality(InFlight) \in Nat /\ MaxTokens * Cardinality(InFlight') \in Nat
      /\ MaxTokens * Cardinality(Thinkers) \in Nat
      /\ MaxTokens * Cardinality(InFlight') <= MaxTokens * Cardinality(Thinkers)
  BY <1>2, FlightSize, Thinkers \subseteq Thinkers
<1>8. ASSUME NEW u \in Nat, NEW v \in {u, 0}, NEW f \in Nat, NEW g \in Nat, NEW t \in Nat,
             u + f < Limit + t, g <= f, g <= t, Limit > 0
      PROVE  v + g < Limit + t
  BY <1>8, BudgetAssumption
<1> QED
  BY <1>1, <1>4, <1>5, <1>6, <1>7, <1>8

(***************************************************************************)
(* Where each think is decides what is in flight: a step that moves one    *)
(* think and keeps it as much in flight as it was changes nothing.         *)
(***************************************************************************)
LEMMA SameFlight ==
  ASSUME MeterTypeOK, NEW p \in Thinkers, NEW r \in Thinker,
         thinker' = [thinker EXCEPT ![p] = r],
         (r.ok \/ r.at = "called") => (thinker[p].ok \/ thinker[p].at = "called")
  PROVE  InFlight' \subseteq InFlight
BY DEF MeterTypeOK, InFlight

(***************************************************************************)
(* Allow: admitted only below the limit, so even with everyone in flight   *)
(* the bound holds.                                                        *)
(***************************************************************************)
LEMMA AllowKeeps ==
  ASSUME BInv, NEW p \in Thinkers, Allow(p)
  PROVE  BInv'
<1> DEFINE r == [thinker[p] EXCEPT !.at = "sampling", !.ok = Answer]
<1>1. thinker \in [Thinkers -> Thinker] /\ used \in Nat
  BY DEF BInv, MeterTypeOK
<1>2. Answer \in BOOLEAN /\ used' \in {used, Rolled}
  BY <1>1 DEF Allow, Ask, Call, meter, Answer, Room, Rolled
<1>3. /\ r \in Thinker /\ r.at = "sampling" /\ r.ok = Answer
      /\ thinker' = [thinker EXCEPT ![p] = r]
  BY <1>1, <1>2 DEF Allow, Thinker
<1>4. MeterTypeOK'
  BY <1>1, <1>2, <1>3 DEF MeterTypeOK, Rolled
<1>5. ChargedOnce'
  BY <1>1, <1>3 DEF ChargedOnce, BInv
<1>6. CASE ~Answer
  <2>1. InFlight' \subseteq InFlight
    BY <1>3, <1>6, SameFlight DEF BInv
  <2> QED
    BY <1>2, <1>4, <1>5, <2>1, FreeCall DEF BInv
<1>7. CASE Answer
  <2>1. SUFFICES ASSUME Limit > 0
                 PROVE  used' + MaxTokens * Cardinality(InFlight')
                          < Limit + MaxTokens * Cardinality(Thinkers)
    BY <1>4, <1>5 DEF BInv, OvershootBounded
  <2>2. used' = Rolled /\ Rolled < Limit /\ Rolled \in Nat
    BY <1>1, <1>7, <2>1, BudgetAssumption DEF Allow, Ask, Call, Answer, Room, Rolled
  <2>3. InFlight' \subseteq Thinkers
    BY DEF InFlight
  <2>4. MaxTokens * Cardinality(InFlight') \in Nat
        /\ MaxTokens * Cardinality(InFlight') <= MaxTokens * Cardinality(Thinkers)
        /\ MaxTokens * Cardinality(Thinkers) \in Nat
    BY <2>3, FlightSize, Thinkers \subseteq Thinkers
  <2> QED
    BY <2>2, <2>4, BudgetAssumption
<1> QED
  BY <1>2, <1>6, <1>7

(***************************************************************************)
(* Answered: the answer costs at most what its think had in flight.        *)
(***************************************************************************)
LEMMA AnsweredKeeps ==
  ASSUME BInv, NEW p \in Thinkers, NEW n \in 1 .. MaxTokens, Answered(p, n)
  PROVE  BInv'
<1> DEFINE r == [thinker[p] EXCEPT !.at = "sampling"]
<1>1. thinker \in [Thinkers -> Thinker] /\ used \in Nat /\ ~thinker[p].ok
      /\ thinker[p].at = "called" /\ n \in Nat
  BY BudgetAssumption DEF BInv, MeterTypeOK, ChargedOnce, Answered
<1>2. used' = Rolled + n /\ Rolled \in Nat /\ Rolled <= used
  BY <1>1 DEF Answered, Call, Rolled
<1>3. r \in Thinker /\ r.at = "sampling" /\ ~r.ok /\ thinker' = [thinker EXCEPT ![p] = r]
  BY <1>1 DEF Answered, Thinker
<1>4. MeterTypeOK'
  BY <1>1, <1>2, <1>3 DEF MeterTypeOK
<1>5. ChargedOnce'
  BY <1>1, <1>3 DEF ChargedOnce, BInv
<1>6. p \in InFlight /\ InFlight' = InFlight \ {p}
  BY <1>1, <1>3 DEF InFlight
<1>7. SUFFICES ASSUME Limit > 0
               PROVE  used' + MaxTokens * Cardinality(InFlight')
                        < Limit + MaxTokens * Cardinality(Thinkers)
  BY <1>4, <1>5 DEF BInv, OvershootBounded
<1>8. InFlight \subseteq Thinkers
  BY DEF InFlight
<1>9. Cardinality(InFlight') = Cardinality(InFlight) - 1
  BY <1>6, <1>8, FlightSize, FS_RemoveElement
<1>10. MaxTokens * Cardinality(InFlight') = MaxTokens * Cardinality(InFlight) - MaxTokens
  <2>1. ASSUME NEW a \in Nat PROVE MaxTokens * (a - 1) = MaxTokens * a - MaxTokens
    BY BudgetAssumption
  <2> QED
    BY <1>8, <1>9, <2>1, FlightSize
<1>11. used + MaxTokens * Cardinality(InFlight)
         < Limit + MaxTokens * Cardinality(Thinkers)
  BY <1>7 DEF BInv, OvershootBounded
<1>12. MaxTokens * Cardinality(InFlight) \in Nat /\ MaxTokens * Cardinality(Thinkers) \in Nat
  BY <1>8, FlightSize, Thinkers \subseteq Thinkers
<1> QED
  BY <1>1, <1>2, <1>10, <1>11, <1>12, BudgetAssumption

(***************************************************************************)
(* The other steps charge nothing and admit nobody.                        *)
(***************************************************************************)
LEMMA QuietStepsKeep ==
  ASSUME BInv,
         \/ \E p \in Thinkers : Sample(p) \/ Swap(p) \/ Log(p) \/ ModelFails(p)
         \/ StateRead \/ Tick \/ UNCHANGED budgetVars
  PROVE  BInv'
<1>1. thinker \in [Thinkers -> Thinker] /\ used \in Nat /\ ChargedOnce
  BY DEF BInv, MeterTypeOK
<1>2. Quiet \in Thinker /\ [at |-> "called", ok |-> FALSE, sample |-> FALSE] \in Thinker
  BY DEF Quiet, Thinker
<1>3. SUFFICES used' \in {used, Rolled} /\ MeterTypeOK' /\ ChargedOnce'
               /\ InFlight' \subseteq InFlight
  BY FreeCall DEF BInv
<1>4. ASSUME NEW p \in Thinkers, NEW r \in Thinker, used' \in {used, Rolled},
             thinker' = [thinker EXCEPT ![p] = r], r.at = "called" => ~r.ok,
             (r.ok \/ r.at = "called") => (thinker[p].ok \/ thinker[p].at = "called")
      PROVE  <1>3!1
  <2>1. InFlight' \subseteq InFlight
    BY <1>4, SameFlight DEF BInv
  <2> QED
    BY <1>1, <1>4, <2>1 DEF MeterTypeOK, ChargedOnce, Rolled
<1>5. ASSUME NEW p \in Thinkers, Sample(p) PROVE <1>3!1
  <2> DEFINE r == [thinker[p] EXCEPT !.at = "swapping", !.sample = ~Answer]
  <2>1. /\ r \in Thinker /\ r.at = "swapping" /\ r.ok = thinker[p].ok
        /\ thinker' = [thinker EXCEPT ![p] = r]
    BY <1>1, <1>5 DEF Sample, Thinker, Answer, Room
  <2>2. used' \in {used, Rolled}
    BY <1>1, <1>5 DEF Sample, Ask, Call, meter, Rolled
  <2> QED
    BY <1>4, <2>1, <2>2
<1>11. ASSUME NEW p \in Thinkers, Onward(p), used' = used PROVE <1>3!1
  <2>1. thinker' = [thinker EXCEPT ![p] =
          IF @.ok THEN [at |-> "called", ok |-> FALSE, sample |-> FALSE] ELSE Quiet]
    BY <1>11 DEF Onward
  <2> QED
    BY <1>1, <1>2, <1>4, <1>11, <2>1 DEF Quiet
<1>6. ASSUME NEW p \in Thinkers, Swap(p) PROVE <1>3!1
  <2> DEFINE r == [thinker[p] EXCEPT !.at = "logging"]
  <2>1. used' = used
    BY <1>6 DEF Swap, meter
  <2>2. CASE thinker' = [thinker EXCEPT ![p].at = "logging"]
    <3>1. /\ r \in Thinker /\ r.at = "logging" /\ r.ok = thinker[p].ok
          /\ thinker' = [thinker EXCEPT ![p] = r]
      BY <1>1, <2>2 DEF Thinker
    <3> QED
      BY <1>4, <2>1, <3>1
  <2> QED
    BY <1>6, <1>11, <2>1, <2>2 DEF Swap
<1>12. ASSUME NEW p \in Thinkers, Log(p) PROVE <1>3!1
  BY <1>11, <1>12 DEF Log, meter
<1>7. ASSUME NEW p \in Thinkers, ModelFails(p) PROVE <1>3!1
  BY <1>1, <1>2, <1>4, <1>7 DEF ModelFails, meter, Quiet
<1>8. CASE StateRead
  BY <1>1, <1>8 DEF StateRead, Ask, Call, meter, MeterTypeOK, ChargedOnce, InFlight, Rolled
<1>9. CASE Tick
  BY <1>1, <1>9 DEF Tick, meter, MeterTypeOK, ChargedOnce, InFlight
<1>10. CASE UNCHANGED budgetVars
  BY <1>1, <1>10 DEF budgetVars, MeterTypeOK, ChargedOnce, InFlight
<1> QED
  BY <1>5, <1>6, <1>7, <1>8, <1>9, <1>10, <1>12

-----------------------------------------------------------------------------
(***************************************************************************)
(* The invariant holds when nobody is in flight, and every step keeps it.  *)
(***************************************************************************)
LEMMA BudgetStarts == BudgetInit => BInv
<1> SUFFICES ASSUME BudgetInit PROVE BInv
  OBVIOUS
<1>1. MeterTypeOK /\ ChargedOnce
  BY DEF BudgetInit, MeterTypeOK, ChargedOnce, Thinker, Quiet
<1>2. InFlight = {}
  BY DEF BudgetInit, InFlight, Quiet
<1>3. Cardinality(InFlight) = 0 /\ MaxTokens * Cardinality(Thinkers) \in Nat
  BY <1>2, FS_EmptySet, FlightSize, Thinkers \subseteq Thinkers
<1> QED
  BY <1>1, <1>3, BudgetAssumption DEF BudgetInit, BInv, OvershootBounded

LEMMA BoundKept == BInv /\ [BudgetNext]_budgetVars => BInv'
BY AllowKeeps, AnsweredKeeps, QuietStepsKeep DEF BudgetNext

(***************************************************************************)
(* A window never holds more than the limit and one answer per think less  *)
(* one token: restLogger's interleavings and the clock notwithstanding.    *)
(***************************************************************************)
THEOREM OvershootIsBounded == BudgetSpec => []OvershootBounded
<1>1. BInv => OvershootBounded
  BY DEF BInv
<1> QED
  BY <1>1, BudgetStarts, BoundKept, PTL DEF BudgetSpec

-----------------------------------------------------------------------------
(***************************************************************************)
(* The type invariant is inductive on its own.                             *)
(***************************************************************************)
LEMMA TypeStarts == BudgetInit => BudgetTypeOK
<1>1. BudgetInit => logged \in [{"rest", "wake"} -> Nat]
  <2>1. [w \in {"rest", "wake"} |-> 0] \in [{"rest", "wake"} -> Nat]
    OBVIOUS
  <2> QED
    BY <2>1, Zenon DEF BudgetInit
<1>2. BudgetInit => thinker \in [Thinkers -> Thinker]
  BY DEF BudgetInit, Thinker, Quiet
<1>3. BudgetInit => spent \in [0 .. MaxTime -> Nat]
  BY DEF BudgetInit
<1>4. BudgetInit => now \in 0 .. MaxTime /\ used \in Nat /\ windowStart \in -Hour .. now
                    /\ resting \in BOOLEAN
  <2>1. 0 \in 0 .. MaxTime /\ 0 \in Nat /\ -Hour \in -Hour .. 0
    BY BudgetAssumption
  <2>2. BudgetInit => now = 0 /\ used = 0 /\ windowStart = -Hour /\ resting = FALSE
    BY DEF BudgetInit
  <2> QED
    BY <2>1, <2>2
<1> QED
  BY <1>1, <1>2, <1>3, <1>4 DEF BudgetTypeOK

LEMMA TypeKept == BudgetTypeOK /\ [BudgetNext]_budgetVars => BudgetTypeOK'
<1> SUFFICES ASSUME BudgetTypeOK, [BudgetNext]_budgetVars
             PROVE  BudgetTypeOK'
  OBVIOUS
<1>1. /\ now \in 0 .. MaxTime /\ used \in Nat /\ windowStart \in -Hour .. now
      /\ thinker \in [Thinkers -> Thinker] /\ resting \in BOOLEAN
      /\ logged \in [{"rest", "wake"} -> Nat] /\ spent \in [0 .. MaxTime -> Nat]
      /\ Hour \in Nat \ {0} /\ MaxTime \in Nat /\ MaxTokens \in Nat
  BY BudgetAssumption DEF BudgetTypeOK
<1>2. ASSUME NEW n \in Nat, Call(n)
      PROVE  used' \in Nat /\ windowStart' \in -Hour .. now /\ spent' \in [0 .. MaxTime -> Nat]
  BY <1>1, <1>2 DEF Call, Rolled
<1>3. ASSUME Ask
      PROVE  used' \in Nat /\ windowStart' \in -Hour .. now /\ spent' \in [0 .. MaxTime -> Nat]
  BY <1>1, <1>2, <1>3, 0 \in Nat DEF Ask, meter
<1>4. Answer \in BOOLEAN
  BY DEF Answer, Room
<1>5. ASSUME NEW p \in Thinkers, Allow(p) PROVE BudgetTypeOK'
  BY <1>1, <1>3, <1>4, <1>5 DEF Allow, BudgetTypeOK, Thinker
<1>6. ASSUME NEW p \in Thinkers, Sample(p) PROVE BudgetTypeOK'
  <2>1. thinker' \in [Thinkers -> Thinker]
    <3>1. thinker' = [thinker EXCEPT ![p].at = "swapping", ![p].sample = ~Answer]
      BY <1>6 DEF Sample
    <3>2. \A t \in Thinker, s \in BOOLEAN :
            [t EXCEPT !.at = "swapping", !.sample = s] \in Thinker
      BY DEF Thinker
    <3> QED
      BY <1>1, <1>4, <3>1, <3>2
  <2> QED
    BY <1>1, <1>3, <1>6, <2>1 DEF Sample, BudgetTypeOK
<1>7. ASSUME NEW p \in Thinkers, Swap(p) PROVE BudgetTypeOK'
  <2>1. thinker' \in [Thinkers -> Thinker]
    <3>1. CASE Onward(p)
      BY <1>1, <3>1 DEF Onward, Thinker, Quiet
    <3>2. CASE thinker' = [thinker EXCEPT ![p].at = "logging"]
      BY <1>1, <3>2 DEF Thinker
    <3> QED
      BY <1>7, <3>1, <3>2 DEF Swap
  <2>2. thinker[p].sample \in BOOLEAN
    BY <1>1 DEF Thinker
  <2>3. resting' \in BOOLEAN
    BY <1>1, <1>7, <2>2 DEF Swap
  <2> QED
    BY <1>1, <1>7, <2>1, <2>3 DEF Swap, meter, BudgetTypeOK
<1>13. ASSUME NEW p \in Thinkers, Log(p) PROVE BudgetTypeOK'
  <2>1. thinker' \in [Thinkers -> Thinker]
    BY <1>1, <1>13 DEF Log, Onward, Thinker, Quiet
  <2>2. logged' \in [{"rest", "wake"} -> Nat]
    BY <1>1, <1>13 DEF Log, Word
  <2> QED
    BY <1>1, <1>13, <2>1, <2>2 DEF Log, meter, BudgetTypeOK
<1>8. ASSUME NEW p \in Thinkers, ModelFails(p) PROVE BudgetTypeOK'
  BY <1>1, <1>8 DEF ModelFails, meter, BudgetTypeOK, Thinker, Quiet
<1>9. ASSUME NEW p \in Thinkers, NEW n \in 1 .. MaxTokens, Answered(p, n) PROVE BudgetTypeOK'
  <2>1. n \in Nat /\ Call(n)
    BY <1>1, <1>9 DEF Answered
  <2> QED
    BY <1>1, <1>2, <1>9, <2>1 DEF Answered, BudgetTypeOK, Thinker
<1>10. CASE StateRead
  BY <1>1, <1>3, <1>10 DEF StateRead, BudgetTypeOK
<1>11. CASE Tick
  BY <1>1, <1>11 DEF Tick, meter, BudgetTypeOK
<1>12. CASE UNCHANGED budgetVars
  BY <1>1, <1>12 DEF budgetVars, BudgetTypeOK
<1> QED
  BY <1>5, <1>6, <1>7, <1>8, <1>9, <1>10, <1>11, <1>12, <1>13 DEF BudgetNext

(***************************************************************************)
(* The meter, the thinks and the logger stay well typed: no window starts  *)
(* in the future and none ends below zero.                                 *)
(***************************************************************************)
THEOREM BudgetTypeCorrect == BudgetSpec => []BudgetTypeOK
BY TypeStarts, TypeKept, PTL DEF BudgetSpec

-----------------------------------------------------------------------------
(***************************************************************************)
(* The thinks that have flipped the flag one way and not yet said so.      *)
(***************************************************************************)
Sayers(w) == {p \in Thinkers : thinker[p].at = "logging" /\ Word(thinker[p].sample) = w}

LEMMA SayersCount ==
  ASSUME NEW w
  PROVE  IsFiniteSet(Sayers(w)) /\ Unsaid(w) = Cardinality(Sayers(w)) /\ Unsaid(w) \in Nat
<1>1. Sayers(w) \subseteq Thinkers
  BY DEF Sayers
<1> QED
  BY <1>1, FlightSize DEF Unsaid, Sayers

(***************************************************************************)
(* A think that moves without being, or coming to be, about to log leaves  *)
(* the count of the unsaid alone.                                          *)
(***************************************************************************)
LEMMA SameSayers ==
  ASSUME BudgetTypeOK, NEW p \in Thinkers, NEW r, thinker' = [thinker EXCEPT ![p] = r],
         thinker[p].at # "logging", r.at # "logging", UNCHANGED <<resting, logged>>,
         EveryFlipIsLogged
  PROVE  EveryFlipIsLogged'
<1>1. thinker \in [Thinkers -> Thinker]
  BY DEF BudgetTypeOK
<1>2. \A w : Sayers(w)' = Sayers(w)
  BY <1>1 DEF Sayers
<1>3. \A w : Unsaid(w)' = Unsaid(w)
  BY <1>2 DEF Unsaid, Sayers
<1> QED
  BY <1>3 DEF EveryFlipIsLogged, Flips

(***************************************************************************)
(* Swap: a flip makes one more think that has yet to say so, and it is the *)
(* other way than the last flip.                                           *)
(***************************************************************************)
LEMMA SwapKeepsCount ==
  ASSUME BudgetTypeOK, EveryFlipIsLogged, NEW p \in Thinkers, Swap(p)
  PROVE  EveryFlipIsLogged'
<1>1. thinker \in [Thinkers -> Thinker] /\ resting \in BOOLEAN /\ thinker[p].sample \in BOOLEAN
      /\ thinker[p].at = "swapping" /\ logged \in [{"rest", "wake"} -> Nat] /\ logged' = logged
  BY DEF BudgetTypeOK, Thinker, Swap
<1>2. CASE resting # ~thinker[p].sample
  <2> DEFINE r == IF thinker[p].ok THEN [at |-> "called", ok |-> FALSE, sample |-> FALSE] ELSE Quiet
  <2>1. thinker' = [thinker EXCEPT ![p] = r] /\ r.at # "logging" /\ resting' = resting
    BY <1>1, <1>2 DEF Swap, Onward, Quiet
  <2> QED
    BY <1>1, <2>1, SameSayers
<1>3. CASE resting = ~thinker[p].sample
  <2>11. PICK mine \in {"rest", "wake"} : mine = Word(thinker[p].sample)
    BY DEF Word
  <2>12. PICK other \in {"rest", "wake"} : other = Word(resting)
    BY DEF Word
  <2>1. resting' = thinker[p].sample /\ thinker' = [thinker EXCEPT ![p].at = "logging"]
    BY <1>3 DEF Swap
  <2>2. mine # other /\ (resting' <=> mine = "rest") /\ (resting <=> other = "rest")
    BY <1>1, <1>3, <2>1, <2>11, <2>12 DEF Word
  <2>3. thinker'[p].at = "logging" /\ thinker'[p].sample = thinker[p].sample
        /\ \A q \in Thinkers \ {p} : thinker'[q] = thinker[q]
    BY <1>1, <2>1 DEF Thinker
  <2>4. p \notin Sayers(mine) /\ Sayers(mine)' = Sayers(mine) \cup {p}
    BY <1>1, <2>3, <2>11 DEF Sayers
  <2>5. Sayers(other)' = Sayers(other)
    BY <1>1, <2>2, <2>3, <2>11 DEF Sayers
  <2>6. Unsaid(mine)' = Cardinality(Sayers(mine)') /\ Unsaid(other)' = Cardinality(Sayers(other)')
    BY DEF Unsaid, Sayers
  <2>7. Cardinality(Sayers(mine) \cup {p}) = Cardinality(Sayers(mine)) + 1
    BY <2>4, SayersCount, FS_AddElement
  <2>8. Unsaid(mine)' = Unsaid(mine) + 1 /\ Unsaid(other)' = Unsaid(other)
        /\ Unsaid(mine) \in Nat /\ Unsaid(other) \in Nat
    BY <2>4, <2>5, <2>6, <2>7, SayersCount
  <2>9. CASE mine = "rest"
    <3>1. other = "wake" /\ resting' /\ ~resting
      BY <2>2, <2>9
    <3>2. Unsaid("rest")' = Unsaid("rest") + 1 /\ Unsaid("wake")' = Unsaid("wake")
          /\ Unsaid("rest") \in Nat /\ Unsaid("wake") \in Nat
      BY <2>8, <2>9, <3>1
    <3> QED
      BY <1>1, <3>1, <3>2 DEF EveryFlipIsLogged, Flips
  <2>10. CASE mine = "wake"
    <3>1. other = "rest" /\ ~resting' /\ resting
      BY <2>2, <2>10
    <3>2. Unsaid("wake")' = Unsaid("wake") + 1 /\ Unsaid("rest")' = Unsaid("rest")
          /\ Unsaid("rest") \in Nat /\ Unsaid("wake") \in Nat
      BY <2>8, <2>10, <3>1
    <3> QED
      BY <1>1, <3>1, <3>2 DEF EveryFlipIsLogged, Flips
  <2> QED
    BY <2>9, <2>10
<1> QED
  BY <1>2, <1>3

(***************************************************************************)
(* Log: what was unsaid is a line.                                         *)
(***************************************************************************)
LEMMA LogKeepsCount ==
  ASSUME BudgetTypeOK, EveryFlipIsLogged, NEW p \in Thinkers, Log(p)
  PROVE  EveryFlipIsLogged'
<1> DEFINE r == IF thinker[p].ok THEN [at |-> "called", ok |-> FALSE, sample |-> FALSE] ELSE Quiet
<1>11. PICK mine \in {"rest", "wake"} : mine = Word(thinker[p].sample)
  BY DEF Word
<1>1. thinker \in [Thinkers -> Thinker] /\ logged \in [{"rest", "wake"} -> Nat]
      /\ thinker[p].at = "logging" /\ resting' = resting
      /\ logged' = [logged EXCEPT ![mine] = @ + 1]
  BY <1>11 DEF BudgetTypeOK, Log
<1>2. thinker' = [thinker EXCEPT ![p] = r] /\ r.at # "logging"
  BY <1>1 DEF Log, Onward, Quiet
<1>3. thinker'[p].at # "logging" /\ \A q \in Thinkers \ {p} : thinker'[q] = thinker[q]
  BY <1>1, <1>2
<1>4. p \in Sayers(mine) /\ Sayers(mine)' = Sayers(mine) \ {p}
  BY <1>1, <1>3, <1>11 DEF Sayers
<1>5. ASSUME NEW w \in {"rest", "wake"}, w # mine
      PROVE  Flips(w)' = Flips(w)
  <2>1. Sayers(w)' = Sayers(w)
    BY <1>1, <1>3, <1>5, <1>11 DEF Sayers
  <2>2. Unsaid(w)' = Unsaid(w)
    BY <2>1 DEF Unsaid, Sayers
  <2>3. logged'[w] = logged[w]
    BY <1>1, <1>5
  <2> QED
    BY <2>2, <2>3 DEF Flips
<1>6. Unsaid(mine)' = Cardinality(Sayers(mine)')
  BY DEF Unsaid, Sayers
<1>7. Cardinality(Sayers(mine) \ {p}) = Cardinality(Sayers(mine)) - 1
  BY <1>4, SayersCount, FS_RemoveElement
<1>8. Unsaid(mine)' = Unsaid(mine) - 1 /\ Unsaid(mine) \in Nat /\ logged'[mine] = logged[mine] + 1
  BY <1>1, <1>4, <1>6, <1>7, SayersCount
<1>9. CASE mine = "rest"
  <2>1. Flips("rest")' = Flips("rest")
    BY <1>1, <1>8, <1>9 DEF Flips
  <2>2. Flips("wake")' = Flips("wake")
    BY <1>5, <1>9 DEF Flips
  <2> QED
    BY <1>1, <2>1, <2>2 DEF EveryFlipIsLogged
<1>10. CASE mine = "wake"
  <2>1. Flips("wake")' = Flips("wake")
    BY <1>1, <1>8, <1>10 DEF Flips
  <2>2. Flips("rest")' = Flips("rest")
    BY <1>5, <1>10 DEF Flips
  <2> QED
    BY <1>1, <2>1, <2>2 DEF EveryFlipIsLogged
<1> QED
  BY <1>9, <1>10

(***************************************************************************)
(* However late a think's sample of the meter is when it is swapped, and   *)
(* however late its line is, each flip of the flag is logged once.         *)
(***************************************************************************)
THEOREM FlipsAreLoggedOnce == BudgetSpec => []EveryFlipIsLogged
<1> DEFINE Inv == BudgetTypeOK /\ EveryFlipIsLogged
<1>1. BudgetInit => Inv
  <2> SUFFICES ASSUME BudgetInit PROVE EveryFlipIsLogged
    BY TypeStarts
  <2>1. \A w : Sayers(w) = {}
    BY DEF BudgetInit, Sayers, Quiet
  <2>2. Unsaid("rest") = 0 /\ Unsaid("wake") = 0
    BY <2>1, FS_EmptySet DEF Unsaid, Sayers
  <2>3. logged["rest"] = 0 /\ logged["wake"] = 0 /\ ~resting
    BY DEF BudgetInit
  <2> QED
    BY <2>2, <2>3 DEF EveryFlipIsLogged, Flips
<1>2. Inv /\ [BudgetNext]_budgetVars => Inv'
  <2> SUFFICES ASSUME Inv, [BudgetNext]_budgetVars
               PROVE  EveryFlipIsLogged'
    BY TypeKept
  <2>1. thinker \in [Thinkers -> Thinker]
    BY DEF BudgetTypeOK
  <2>2. CASE UNCHANGED <<thinker, resting, logged>>
    <3>1. \A w : Unsaid(w)' = Unsaid(w)
      BY <2>2 DEF Unsaid
    <3> QED
      BY <2>2, <3>1 DEF EveryFlipIsLogged, Flips
  <2>3. ASSUME NEW p \in Thinkers, Allow(p) PROVE EveryFlipIsLogged'
    <3> DEFINE r == [thinker[p] EXCEPT !.at = "sampling", !.ok = Answer]
    <3>1. thinker' = [thinker EXCEPT ![p].at = "sampling", ![p].ok = Answer]
      BY <2>3 DEF Allow
    <3>2. thinker' = [thinker EXCEPT ![p] = r] /\ r.at # "logging"
      BY <2>1, <3>1 DEF Thinker
    <3>3. thinker[p].at # "logging" /\ UNCHANGED <<resting, logged>>
      BY <2>3 DEF Allow, Quiet
    <3> QED
      BY <3>2, <3>3, SameSayers
  <2>4. ASSUME NEW p \in Thinkers, Sample(p) PROVE EveryFlipIsLogged'
    <3> DEFINE r == [thinker[p] EXCEPT !.at = "swapping", !.sample = ~Answer]
    <3>1. thinker' = [thinker EXCEPT ![p].at = "swapping", ![p].sample = ~Answer]
      BY <2>4 DEF Sample
    <3>2. thinker' = [thinker EXCEPT ![p] = r] /\ r.at # "logging"
      BY <2>1, <3>1 DEF Thinker
    <3>3. thinker[p].at # "logging" /\ UNCHANGED <<resting, logged>>
      BY <2>4 DEF Sample
    <3> QED
      BY <3>2, <3>3, SameSayers
  <2>5. ASSUME NEW p \in Thinkers, NEW n \in 1 .. MaxTokens, Answered(p, n)
        PROVE  EveryFlipIsLogged'
    <3> DEFINE r == [thinker[p] EXCEPT !.at = "sampling"]
    <3>1. thinker' = [thinker EXCEPT ![p] = r] /\ r.at # "logging" /\ thinker[p].at # "logging"
          /\ UNCHANGED <<resting, logged>>
      BY <2>1, <2>5 DEF Answered, Thinker
    <3> QED
      BY <3>1, SameSayers
  <2>6. ASSUME NEW p \in Thinkers, ModelFails(p) PROVE EveryFlipIsLogged'
    <3>1. thinker' = [thinker EXCEPT ![p] = Quiet] /\ Quiet.at # "logging"
          /\ thinker[p].at # "logging" /\ UNCHANGED <<resting, logged>>
      BY <2>6 DEF ModelFails, Quiet
    <3> QED
      BY <3>1, SameSayers
  <2>7. CASE StateRead \/ Tick \/ UNCHANGED budgetVars
    BY <2>2, <2>7 DEF StateRead, Tick, budgetVars
  <2> QED
    BY <2>3, <2>4, <2>5, <2>6, <2>7, SwapKeepsCount, LogKeepsCount DEF BudgetNext
<1> QED
  BY <1>1, <1>2, PTL DEF BudgetSpec

-----------------------------------------------------------------------------
(***************************************************************************)
(* An hour.  What was spent since the window's start is what the meter     *)
(* holds, an unused rest of it included; the hour before that start saw    *)
(* one other window at most; and nothing is spent in a window after its    *)
(* hour, nor in the future.                                                *)
(***************************************************************************)
Times == 0 .. MaxTime

ThisWindow == {t \in Times : t >= windowStart}

HourBefore == {t \in Times : windowStart - Hour < t /\ t < windowStart}

Most == Limit - 1 + MaxTokens * Cardinality(Thinkers)

Metered == SumFunctionOnSet(spent, ThisWindow) = used

BeforeBounded == Limit > 0 => SumFunctionOnSet(spent, HourBefore) <= Most

SpentInWindows ==
  \A t \in Times : t >= windowStart + Hour \/ t > now => spent[t] = 0

HourInv == BudgetTypeOK /\ BInv /\ Metered /\ BeforeBounded /\ SpentInWindows

LEMMA TimesFinite ==
  ASSUME NEW S, S \subseteq Times
  PROVE  IsFiniteSet(S)
<1>1. 0 \in Int /\ MaxTime \in Int
  BY BudgetAssumption
<1>2. IsFiniteSet(0 .. MaxTime)
  BY <1>1, FS_Interval
<1> QED
  BY <1>2, FS_Subset DEF Times

(***************************************************************************)
(* No window ever holds more than Most.                                    *)
(***************************************************************************)
LEMMA WindowBounded ==
  ASSUME BInv, Limit > 0
  PROVE  used <= Most /\ Most \in Int
<1>1. InFlight \subseteq Thinkers
  BY DEF InFlight
<1>2. MaxTokens * Cardinality(InFlight) \in Nat /\ MaxTokens * Cardinality(Thinkers) \in Nat
  BY <1>1, FlightSize, Thinkers \subseteq Thinkers
<1>3. used \in Nat /\ used + MaxTokens * Cardinality(InFlight)
                       < Limit + MaxTokens * Cardinality(Thinkers)
  BY DEF BInv, MeterTypeOK, OvershootBounded
<1> QED
  BY <1>2, <1>3, BudgetAssumption DEF Most

(***************************************************************************)
(* An hour spends at most twice what one window may.                       *)
(***************************************************************************)
LEMMA HourFollows == HourInv => HourBounded
<1> SUFFICES ASSUME HourInv, Limit > 0 PROVE LastHour <= 2 * Most
  BY DEF HourBounded, Most
<1> DEFINE L == {t \in 0 .. now : t > now - Hour}
<1>1. /\ spent \in [Times -> Nat] /\ now \in Times /\ windowStart \in Int /\ windowStart <= now
      /\ now \in Nat /\ MaxTime \in Nat /\ Hour \in Nat /\ now <= MaxTime
  BY BudgetAssumption DEF HourInv, BudgetTypeOK, Times
<1>2. L \subseteq HourBefore \cup ThisWindow
  BY <1>1 DEF HourBefore, ThisWindow, Times
<1>3. /\ HourBefore \subseteq Times /\ ThisWindow \subseteq Times
      /\ HourBefore \cap ThisWindow = {}
  BY <1>1 DEF HourBefore, ThisWindow, Times
<1>4. IsFiniteSet(HourBefore) /\ IsFiniteSet(ThisWindow) /\ IsFiniteSet(HourBefore \cup ThisWindow)
  BY <1>3, TimesFinite, HourBefore \cup ThisWindow \subseteq Times
<1>5. \A t \in HourBefore \cup ThisWindow : spent[t] \in Nat /\ spent[t] \in Int
  BY <1>1, <1>3
<1> HIDE DEF L
<1>6. SumFunctionOnSet(spent, L) <= SumFunctionOnSet(spent, HourBefore \cup ThisWindow)
  BY <1>2, <1>4, <1>5, SumMonotonic
<1>7. SumFunctionOnSet(spent, HourBefore \cup ThisWindow)
        = SumFunctionOnSet(spent, HourBefore) + used
  BY <1>3, <1>4, <1>5, SumSplit DEF HourInv, Metered
<1>8. used <= Most /\ Most \in Int /\ used \in Nat /\ SumFunctionOnSet(spent, HourBefore) <= Most
  BY WindowBounded DEF HourInv, BudgetTypeOK, BeforeBounded
<1>9. SumFunctionOnSet(spent, HourBefore) \in Nat
  BY <1>4, <1>5, SumNat
<1>10. L \subseteq HourBefore \cup ThisWindow /\ IsFiniteSet(L) /\ \A t \in L : spent[t] \in Nat
  BY <1>2, <1>4, <1>5, FS_Subset
<1>11. SumFunctionOnSet(spent, L) \in Nat
  BY <1>10, SumNat
<1> QED
  BY <1>6, <1>7, <1>8, <1>9, <1>11 DEF LastHour, L

(***************************************************************************)
(* A call keeps the books: in its window it adds what it charges, after    *)
(* the window's hour it opens another, and the old one is what the hour    *)
(* before it spent.                                                        *)
(***************************************************************************)
LEMMA CallKeepsHour ==
  ASSUME HourInv, NEW n \in Nat, Call(n), now' = now
  PROVE  Metered' /\ BeforeBounded' /\ SpentInWindows'
<1>1. /\ spent \in [Times -> Nat] /\ now \in Times /\ windowStart \in Int /\ windowStart <= now
      /\ now \in Nat /\ Hour \in Nat \ {0} /\ used \in Nat
  BY BudgetAssumption DEF HourInv, BudgetTypeOK, Times
<1>2. spent' = [spent EXCEPT ![now] = @ + n]
  BY DEF Call
<1>3. /\ spent'[now] = spent[now] + n /\ spent' \in [Times -> Nat]
      /\ \A t \in Times \ {now} : spent'[t] = spent[t]
  BY <1>1, <1>2
<1>4. \A t \in Times : spent[t] \in Int /\ spent'[t] \in Int /\ spent[t] \in Nat
  BY <1>1, <1>3
<1>5. /\ ThisWindow \subseteq Times /\ IsFiniteSet(ThisWindow)
      /\ HourBefore \subseteq Times /\ IsFiniteSet(HourBefore)
      /\ ThisWindow' \subseteq Times /\ IsFiniteSet(ThisWindow')
      /\ HourBefore' \subseteq Times /\ IsFiniteSet(HourBefore')
  BY TimesFinite DEF ThisWindow, HourBefore
<1>6. SpentInWindows'
  <2> SUFFICES ASSUME NEW t \in Times, t >= windowStart' + Hour \/ t > now
               PROVE  spent'[t] = 0
    BY DEF SpentInWindows, Times
  <2>1. t \in Int /\ windowStart' \in Int
    BY <1>1 DEF Call, Times
  <2>2. (t >= windowStart + Hour \/ t > now) /\ t # now
    BY <1>1, <2>1 DEF Call, Lapsed
  <2> QED
    BY <1>3, <2>2 DEF HourInv, SpentInWindows
<1>7. CASE ~Lapsed
  <2>1. windowStart' = windowStart /\ used' = used + n
    BY <1>7 DEF Call, Rolled
  <2>2. ThisWindow' = ThisWindow /\ HourBefore' = HourBefore
    BY <2>1 DEF ThisWindow, HourBefore, Times
  <2>3. now \in ThisWindow /\ now \notin HourBefore
    BY <1>1 DEF ThisWindow, HourBefore
  <2>4. SumFunctionOnSet(spent', ThisWindow)
          = SumFunctionOnSet(spent, ThisWindow) + spent'[now] - spent[now]
    BY <1>3, <1>4, <1>5, <2>3, SumBump
  <2>5. SumFunctionOnSet(spent', HourBefore) = SumFunctionOnSet(spent, HourBefore)
    BY <1>3, <1>4, <1>5, <2>3, SumAgree
  <2>6. SumFunctionOnSet(spent, ThisWindow) = used /\ BeforeBounded
    BY DEF HourInv, Metered
  <2>7. Metered'
    BY <1>1, <1>3, <1>4, <2>1, <2>2, <2>4, <2>6 DEF Metered
  <2>8. BeforeBounded'
    BY <2>2, <2>5, <2>6 DEF BeforeBounded, Most
  <2> QED
    BY <1>6, <2>7, <2>8
<1>8. CASE Lapsed
  <2>1. windowStart' = now /\ used' = n
    BY <1>8 DEF Call, Rolled
  <2>2. now - Hour >= windowStart
    BY <1>1, <1>8 DEF Lapsed
  <2>3. \A t \in ThisWindow' : t \in Times /\ t >= now
    BY <2>1 DEF ThisWindow, Times
  <2>4. \A t \in ThisWindow' : spent[t] = 0
    BY <1>1, <2>2, <2>3 DEF HourInv, SpentInWindows, Times
  <2>5. SumFunctionOnSet(spent, ThisWindow') = 0
    BY <1>5, <2>4, SumZero
  <2>6. now \in ThisWindow'
    BY <1>1, <2>1 DEF ThisWindow, Times
  <2>7. SumFunctionOnSet(spent', ThisWindow')
          = SumFunctionOnSet(spent, ThisWindow') + spent'[now] - spent[now]
    BY <1>3, <1>4, <1>5, <2>6, SumBump
  <2>8. Metered'
    BY <1>1, <1>3, <1>4, <2>1, <2>5, <2>7 DEF Metered
  <2>9. \A t \in HourBefore' : t \in Times /\ now - Hour < t /\ t < now
    BY <2>1 DEF HourBefore, Times
  <2>10. HourBefore' \subseteq ThisWindow
    BY <1>1, <2>2, <2>9 DEF ThisWindow, Times
  <2>11. now \notin HourBefore'
    BY <1>1, <2>9
  <2>12. SumFunctionOnSet(spent', HourBefore') = SumFunctionOnSet(spent, HourBefore')
    BY <1>3, <1>4, <1>5, <2>11, SumAgree
  <2>13. SumFunctionOnSet(spent, HourBefore') <= SumFunctionOnSet(spent, ThisWindow)
    BY <1>4, <1>5, <2>10, SumMonotonic
  <2>14. SumFunctionOnSet(spent, HourBefore') \in Int /\ SumFunctionOnSet(spent, ThisWindow) = used
    BY <1>4, <1>5, SumInt DEF HourInv, Metered
  <2>15. BeforeBounded'
    <3> SUFFICES ASSUME Limit > 0 PROVE SumFunctionOnSet(spent', HourBefore') <= Most
      BY DEF BeforeBounded, Most
    <3>1. used <= Most /\ Most \in Int
      BY WindowBounded DEF HourInv
    <3> QED
      BY <1>1, <2>12, <2>13, <2>14, <3>1
  <2> QED
    BY <1>6, <2>8, <2>15
<1> QED
  BY <1>7, <1>8

(***************************************************************************)
(* Any hour spends at most what two windows may, overshoot included.       *)
(***************************************************************************)
THEOREM HourIsBounded == BudgetSpec => []HourBounded
<1>1. BudgetInit => HourInv
  <2> SUFFICES ASSUME BudgetInit PROVE HourInv
    OBVIOUS
  <2>1. BudgetTypeOK /\ BInv
    BY TypeStarts, BudgetStarts
  <2>2. \A t \in Times : spent[t] = 0
    BY DEF BudgetInit, Times
  <2>3. ThisWindow \subseteq Times /\ HourBefore \subseteq Times
    BY DEF ThisWindow, HourBefore
  <2>4. SumFunctionOnSet(spent, ThisWindow) = 0 /\ SumFunctionOnSet(spent, HourBefore) = 0
    BY <2>2, <2>3, TimesFinite, SumZero
  <2>5. MaxTokens * Cardinality(Thinkers) \in Nat
    BY FlightSize, Thinkers \subseteq Thinkers
  <2>6. Metered /\ BeforeBounded
    BY <2>4, <2>5, BudgetAssumption DEF Metered, BeforeBounded, Most, BudgetInit
  <2> QED
    BY <2>1, <2>2, <2>6 DEF HourInv, SpentInWindows
<1>2. HourInv /\ [BudgetNext]_budgetVars => HourInv'
  <2> SUFFICES ASSUME HourInv, [BudgetNext]_budgetVars PROVE HourInv'
    OBVIOUS
  <2>1. BudgetTypeOK' /\ BInv'
    BY TypeKept, BoundKept DEF HourInv
  <2>2. CASE UNCHANGED <<now, meter>>
    BY <2>1, <2>2 DEF HourInv, Metered, BeforeBounded, SpentInWindows, ThisWindow, HourBefore,
                      Most, Times, meter
  <2>3. ASSUME NEW n \in Nat, Call(n), now' = now PROVE HourInv'
    BY <2>1, <2>3, CallKeepsHour DEF HourInv
  <2>4. CASE Tick
    <3>1. now' = now + 1 /\ UNCHANGED meter
      BY <2>4 DEF Tick
    <3>2. Metered' /\ BeforeBounded'
      BY <3>1 DEF HourInv, Metered, BeforeBounded, ThisWindow, HourBefore, Most, Times, meter
    <3>3. now \in Int /\ MaxTime \in Nat
      BY BudgetAssumption DEF HourInv, BudgetTypeOK
    <3>4. SpentInWindows'
      BY <3>1, <3>3 DEF HourInv, SpentInWindows, Times, meter
    <3> QED
      BY <2>1, <3>2, <3>4 DEF HourInv
  <2>5. ASSUME Ask, now' = now PROVE HourInv'
    BY <2>2, <2>3, <2>5, 0 \in Nat DEF Ask
  <2>6. ASSUME NEW p \in Thinkers, NEW n \in 1 .. MaxTokens, Answered(p, n) PROVE HourInv'
    <3>1. n \in Nat
      BY BudgetAssumption
    <3> QED
      BY <2>3, <2>6, <3>1 DEF Answered
  <2> QED
    BY <2>2, <2>4, <2>5, <2>6
    DEF BudgetNext, Allow, Sample, Swap, Log, ModelFails, StateRead, budgetVars, meter
<1> QED
  BY <1>1, <1>2, HourFollows, PTL DEF BudgetSpec
=============================================================================
