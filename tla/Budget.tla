-------------------------------- MODULE Budget --------------------------------
(***************************************************************************)
(* The token budget (fabric/internal/budget/budget.go), shared by every    *)
(* voice's think (internal/brain/bedrock/bedrock.go, Think), and the       *)
(* wrapper that logs rest and waking (restLogger, cmd/fabricd/compose.go). *)
(*                                                                         *)
(* A meter call holds the meter's mutex and is one step; the wrapper takes *)
(* up to four: the call, a sample of Resting, a compare-and-swap and, when *)
(* that flips the flag, a line of the log.  Thinks of different voices     *)
(* interleave between them, and between a think's Allow and its Add lies   *)
(* the model's answer.                                                     *)
(***************************************************************************)
EXTENDS Integers, FiniteSets

CONSTANTS
  Thinkers,     \* the thinks that can be under way at once
  Limit,        \* Meter.limit; 0 is unlimited
  Hour,         \* time.Hour in ticks of the model's clock
  MaxTokens,    \* the most one answer can cost
  MaxTime       \* bound: the clock stops here

ASSUME BudgetAssumption ==
  /\ IsFiniteSet(Thinkers)
  /\ Limit \in Nat /\ Hour \in Nat \ {0} /\ MaxTokens \in Nat \ {0} /\ MaxTime \in Nat

VARIABLES
  now,          \* the clock
  used,         \* Meter.used
  windowStart,  \* Meter.windowStart; Go's zero time is long ago
  thinker,      \* where each think is
  resting,      \* restLogger.resting
  logged,       \* how many lines of each word; their order is nobody's promise
  spent         \* history: the tokens recorded at each time

budgetVars == <<now, used, windowStart, thinker, resting, logged, spent>>

meter == <<used, windowStart, spent>>

Thinker ==
  [at : {"idle", "sampling", "swapping", "logging", "called"}, ok : BOOLEAN, sample : BOOLEAN]

Quiet == [at |-> "idle", ok |-> FALSE, sample |-> FALSE]

BudgetTypeOK ==
  /\ now \in 0 .. MaxTime
  /\ used \in Nat
  /\ windowStart \in -Hour .. now
  /\ thinker \in [Thinkers -> Thinker]
  /\ resting \in BOOLEAN
  /\ logged \in [{"rest", "wake"} -> Nat]
  /\ spent \in [0 .. MaxTime -> Nat]

BudgetInit ==
  /\ now = 0 /\ used = 0 /\ windowStart = -Hour
  /\ thinker = [p \in Thinkers |-> Quiet]
  /\ resting = FALSE /\ logged = [w \in {"rest", "wake"} |-> 0]
  /\ spent = [t \in 0 .. MaxTime |-> 0]

(***************************************************************************)
(* The meter: roll, then add or compare.                                   *)
(***************************************************************************)
Lapsed == now - windowStart >= Hour

Rolled == IF Lapsed THEN 0 ELSE used

RoomIncluding(u) == Limit = 0 \/ u <= Limit      \* variant: off by one

Room(u) == Limit = 0 \/ u < Limit

CallKeepingWindow(n) ==             \* variant: a lapsed window is not restarted
  /\ used' = Rolled + n
  /\ spent' = [spent EXCEPT ![now] = @ + n]
  /\ UNCHANGED windowStart

Call(n) ==                          \* Add(n); Allow and Resting are Call(0)
  /\ windowStart' = IF Lapsed THEN now ELSE windowStart
  /\ used' = Rolled + n
  /\ spent' = [spent EXCEPT ![now] = @ + n]

Ask == IF Limit = 0 THEN UNCHANGED meter ELSE Call(0)

Answer == Room(Rolled)

(***************************************************************************)
(* A think: Allow, observe, then silence or the model's call; its answer   *)
(* is added and observed.  The model may fail instead: nothing is added.   *)
(***************************************************************************)
Allow(p) ==
  /\ thinker[p] = Quiet
  /\ Ask
  /\ thinker' = [thinker EXCEPT ![p].at = "sampling", ![p].ok = Answer]
  /\ UNCHANGED <<now, resting, logged>>

Sample(p) ==                        \* observe: now := r.m.Resting()
  /\ thinker[p].at = "sampling"
  /\ Ask
  /\ thinker' = [thinker EXCEPT ![p].at = "swapping", ![p].sample = ~Answer]
  /\ UNCHANGED <<now, resting, logged>>

Onward(p) ==                        \* back from observe: to the model, or done
  thinker' = [thinker EXCEPT ![p] =
    IF @.ok THEN [at |-> "called", ok |-> FALSE, sample |-> FALSE] ELSE Quiet]

SwapUnconditionally(p) ==           \* variant: a plain store instead of the CAS
  /\ thinker[p].at = "swapping"
  /\ resting' = thinker[p].sample
  /\ IF resting \/ thinker[p].sample
     THEN thinker' = [thinker EXCEPT ![p].at = "logging"] ELSE Onward(p)
  /\ UNCHANGED <<now, meter, logged>>

Swap(p) ==                          \* observe: CompareAndSwap(!now, now)
  /\ thinker[p].at = "swapping"
  /\ IF resting = ~thinker[p].sample
     THEN /\ resting' = thinker[p].sample
          /\ thinker' = [thinker EXCEPT ![p].at = "logging"]
     ELSE UNCHANGED resting /\ Onward(p)
  /\ UNCHANGED <<now, meter, logged>>

Word(rests) == IF rests THEN "rest" ELSE "wake"

Log(p) ==                           \* observe: slog.Warn or slog.Info
  /\ thinker[p].at = "logging"
  /\ logged' = [logged EXCEPT ![Word(thinker[p].sample)] = @ + 1]
  /\ Onward(p)
  /\ UNCHANGED <<now, meter, resting>>

Answered(p, n) ==                   \* Add, on the way to its observe
  /\ thinker[p].at = "called"
  /\ Call(n)
  /\ thinker' = [thinker EXCEPT ![p].at = "sampling"]
  /\ UNCHANGED <<now, resting, logged>>

ModelFails(p) ==
  /\ thinker[p].at = "called"
  /\ thinker' = [thinker EXCEPT ![p] = Quiet]
  /\ UNCHANGED <<now, meter, resting, logged>>

StateRead == Ask /\ UNCHANGED <<now, thinker, resting, logged>>   \* stateView's resting

Tick ==
  /\ now < MaxTime
  /\ now' = now + 1
  /\ UNCHANGED <<meter, thinker, resting, logged>>

BudgetNext ==
  \/ \E p \in Thinkers :
       \/ Allow(p) \/ Sample(p) \/ Swap(p) \/ Log(p) \/ ModelFails(p)
       \/ \E n \in 1 .. MaxTokens : Answered(p, n)
  \/ StateRead
  \/ Tick

BudgetSpec == BudgetInit /\ [][BudgetNext]_budgetVars
=============================================================================
