--------------------------------- MODULE Sums ---------------------------------
(***************************************************************************)
(* What SumFunctionOnSet of the community modules computes on any finite   *)
(* set.  Its definition chooses an element, adds what it is worth to the   *)
(* sum over the rest, and says nothing of the order of choices.  The       *)
(* lemmas say what is left of that: a sum is additive, it does not depend  *)
(* on the order, nor on anything but the weights of the set's elements.    *)
(* LedgersAgree and HourBounded are about such sums; TalkIsBounded rests   *)
(* on one.                                                                 *)
(*                                                                         *)
(* The theorems on induction take operators for arguments; instead, what   *)
(* would be proved by induction on a finite set is proved here by looking  *)
(* at a smallest counterexample (SmallestSet).                             *)
(***************************************************************************)
EXTENDS Integers, FiniteSets, Functions, WellFoundedInduction, FiniteSetTheorems, TLAPS

-----------------------------------------------------------------------------
(***************************************************************************)
(* A set of natural numbers has a smallest element.                        *)
(***************************************************************************)
LEMMA SmallestNumber ==
  ASSUME NEW T \in SUBSET Nat, T # {}
  PROVE  \E n \in T : \A m \in T : n <= m
<1> DEFINE R == OpToRel(<, Nat)
<1>1. IsWellFoundedOn(R, Nat)
  BY NatLessThanWellFounded
<1>2. \A m, n \in Nat : m < n => <<m, n>> \in R
  BY DEF OpToRel
<1> HIDE DEF R
<1>3. \E x \in T : \A y \in T : <<y, x>> \notin R
  BY <1>1, WFMin
<1>4. PICK x \in T : \A y \in T : <<y, x>> \notin R
  BY <1>3
<1>5. ASSUME NEW y \in T PROVE x <= y
  <2>1. x \in Nat /\ y \in Nat /\ ~(y < x)
    BY <1>2, <1>4
  <2> QED
    BY <2>1
<1> QED
  BY <1>4, <1>5

(***************************************************************************)
(* Among some subsets of a finite set there is one that leaves them when   *)
(* any of its elements is taken away.                                      *)
(***************************************************************************)
LEMMA SmallestSet ==
  ASSUME NEW S, IsFiniteSet(S), NEW B \in SUBSET (SUBSET S), B # {}
  PROVE  \E s \in B : \A c \in s : s \ {c} \notin B
<1> DEFINE T == {Cardinality(s) : s \in B}
<1>1. \A s \in B : IsFiniteSet(s) /\ Cardinality(s) \in Nat
  BY FS_Subset, FS_CardinalityType
<1>2. T \in SUBSET Nat /\ T # {}
  BY <1>1
<1>3. PICK n \in T : \A m \in T : n <= m
  <2> HIDE DEF T
  <2> QED
    BY <1>2, SmallestNumber
<1>4. PICK s \in B : n = Cardinality(s)
  OBVIOUS
<1>5. ASSUME NEW c \in s, s \ {c} \in B PROVE FALSE
  <2>1. Cardinality(s \ {c}) = Cardinality(s) - 1
    BY <1>1, <1>5, FS_RemoveElement
  <2>2. n <= Cardinality(s \ {c})
    BY <1>3, <1>5
  <2> QED
    BY <1>1, <1>4, <2>1, <2>2
<1> QED
  BY <1>5

-----------------------------------------------------------------------------
(***************************************************************************)
(* The recursion that defines a sum, and the function it defines.          *)
(***************************************************************************)
Chosen(s) == CHOOSE x \in s : TRUE

Adds(g, w, S) ==
  \A s \in SUBSET S : g[s] = IF s = {} THEN 0 ELSE w[Chosen(s)] + g[s \ {Chosen(s)}]

Whole(w, S) ==
  CHOOSE g : g = [s \in SUBSET S |->
                    IF s = {} THEN 0 ELSE w[Chosen(s)] + g[s \ {Chosen(s)}]]

LEMMA SumUnfolds ==
  ASSUME NEW w, NEW S
  PROVE  SumFunctionOnSet(w, S) = Whole(w, S)[S]
BY DEF SumFunctionOnSet, FoldFunctionOnSet, MapThenFoldSet, Chosen, Whole

LEMMA ChosenIsIn ==
  ASSUME NEW s, s # {}
  PROVE  Chosen(s) \in s
BY DEF Chosen

(***************************************************************************)
(* Two solutions of the recursion agree wherever both are defined and the  *)
(* weights agree.                                                          *)
(***************************************************************************)
LEMMA SolutionsAgree ==
  ASSUME NEW S, IsFiniteSet(S), NEW S2, NEW w, NEW w2, NEW g, NEW g2,
         S \subseteq S2, Adds(g, w, S), Adds(g2, w2, S2),
         \A x \in S : w[x] = w2[x]
  PROVE  \A s \in SUBSET S : g[s] = g2[s]
<1> DEFINE B == {s \in SUBSET S : g[s] # g2[s]}
<1> SUFFICES ASSUME B # {} PROVE FALSE
  OBVIOUS
<1>1. PICK s \in B : \A c \in s : s \ {c} \notin B
  <2> HIDE DEF B
  <2>1. B \in SUBSET (SUBSET S)
    BY DEF B
  <2> QED
    BY <2>1, SmallestSet
<1>2. s \in SUBSET S /\ s \in SUBSET S2 /\ g[s] # g2[s]
  OBVIOUS
<1>3. s # {}
  BY <1>2 DEF Adds
<1> DEFINE c == Chosen(s)
<1>4. c \in s
  BY <1>3, ChosenIsIn
<1>5. g[s \ {c}] = g2[s \ {c}]
  BY <1>1, <1>2, <1>4
<1>6. w[c] = w2[c]
  BY <1>2, <1>4
<1>7. g[s] = w[c] + g[s \ {c}] /\ g2[s] = w2[c] + g2[s \ {c}]
  BY <1>2, <1>3 DEF Adds
<1> QED
  BY <1>2, <1>5, <1>6, <1>7

(***************************************************************************)
(* The recursion has a solution: one that is right for sets of n elements  *)
(* gives one that is right for sets of n + 1.                              *)
(***************************************************************************)
LEMMA SolutionExists ==
  ASSUME NEW S, IsFiniteSet(S), NEW w, \A x \in S : w[x] \in Int
  PROVE  \E g \in [SUBSET S -> Int] : Adds(g, w, S)
<1> DEFINE Step(g, s) == IF s = {} THEN 0 ELSE w[Chosen(s)] + g[s \ {Chosen(s)}]
           UpTo(g, n) == \A s \in SUBSET S : Cardinality(s) <= n => g[s] = Step(g, s)
           T == {n \in Nat : ~ \E g \in [SUBSET S -> Int] : UpTo(g, n)}
<1>1. \A s \in SUBSET S : IsFiniteSet(s) /\ Cardinality(s) \in Nat
                            /\ (Cardinality(s) = 0 <=> s = {})
  BY FS_Subset, FS_CardinalityType, FS_EmptySet
<1>2. \A g \in [SUBSET S -> Int], s \in SUBSET S : Step(g, s) \in Int
  <2> SUFFICES ASSUME NEW g \in [SUBSET S -> Int], NEW s \in SUBSET S, s # {}
               PROVE  w[Chosen(s)] + g[s \ {Chosen(s)}] \in Int
    OBVIOUS
  <2>1. Chosen(s) \in S /\ s \ {Chosen(s)} \in SUBSET S
    BY ChosenIsIn
  <2>2. g[s \ {Chosen(s)}] \in Int /\ w[Chosen(s)] \in Int
    BY <2>1
  <2> QED
    BY <2>2
<1>3. T = {}
  <2> SUFFICES ASSUME T # {} PROVE FALSE
    OBVIOUS
  <2>1. PICK n \in T : \A m \in T : n <= m
    <3> HIDE DEF T
    <3>1. T \in SUBSET Nat
      BY DEF T
    <3> QED
      BY <3>1, SmallestNumber
  <2>2. n \in Nat /\ ~ \E g \in [SUBSET S -> Int] : UpTo(g, n)
    OBVIOUS
  <2>3. CASE n = 0
    <3> DEFINE zero == [s \in SUBSET S |-> 0]
    <3>1. zero \in [SUBSET S -> Int]
      OBVIOUS
    <3>2. ASSUME NEW s \in SUBSET S, Cardinality(s) <= 0 PROVE zero[s] = Step(zero, s)
      BY <1>1, <3>2
    <3> QED
      BY <2>2, <2>3, <3>1, <3>2
  <2>4. CASE n # 0
    <3>1. n - 1 \in Nat /\ n - 1 \notin T
      <4> HIDE DEF T
      <4> QED
        BY <2>1, <2>2, <2>4
    <3>2. PICK g \in [SUBSET S -> Int] : UpTo(g, n - 1)
      BY <3>1
    <3> DEFINE h == [s \in SUBSET S |-> Step(g, s)]
    <3>3. h \in [SUBSET S -> Int]
      BY <1>2
    <3>4. ASSUME NEW s \in SUBSET S, Cardinality(s) <= n PROVE h[s] = Step(h, s)
      <4>1. CASE s = {}
        BY <4>1
      <4>2. CASE s # {}
        <5> DEFINE c == Chosen(s)
        <5>1. c \in s /\ s \ {c} \in SUBSET S
          BY <4>2, ChosenIsIn
        <5>2. Cardinality(s \ {c}) = Cardinality(s) - 1
          BY <1>1, <5>1, FS_RemoveElement
        <5>3. Cardinality(s \ {c}) <= n - 1
          BY <1>1, <2>2, <3>4, <5>2
        <5>4. g[s \ {c}] = Step(g, s \ {c})
          BY <3>2, <5>1, <5>3
        <5>5. h[s \ {c}] = g[s \ {c}]
          BY <5>1, <5>4
        <5> QED
          BY <4>2, <5>5
      <4> QED
        BY <4>1, <4>2
    <3>5. UpTo(h, n)
      BY <3>4
    <3> HIDE DEF h
    <3> QED
      BY <2>2, <3>3, <3>5
  <2> QED
    BY <2>3, <2>4
<1>4. Cardinality(S) \in Nat /\ \A s \in SUBSET S : Cardinality(s) <= Cardinality(S)
  BY FS_Subset, FS_CardinalityType
<1>5. Cardinality(S) \notin T
  BY <1>3
<1>6. PICK g \in [SUBSET S -> Int] : UpTo(g, Cardinality(S))
  BY <1>4, <1>5
<1> QED
  BY <1>4, <1>6 DEF Adds

(***************************************************************************)
(* What a sum is, one element taken out: the one chosen first.             *)
(***************************************************************************)
LEMMA SumIsASolution ==
  ASSUME NEW S, IsFiniteSet(S), NEW w, \A x \in S : w[x] \in Int
  PROVE  /\ Adds(Whole(w, S), w, S)
         /\ SumFunctionOnSet(w, S) = Whole(w, S)[S]
         /\ SumFunctionOnSet(w, S) \in Int
<1> DEFINE Def(g) == g = [s \in SUBSET S |->
                           IF s = {} THEN 0 ELSE w[Chosen(s)] + g[s \ {Chosen(s)}]]
<1>1. PICK g \in [SUBSET S -> Int] : Adds(g, w, S)
  BY SolutionExists
<1>2. Def(g)
  BY <1>1 DEF Adds
<1>3. Def(Whole(w, S))
  BY <1>2 DEF Whole
<1>4. Adds(Whole(w, S), w, S)
  BY <1>3 DEF Adds
<1>5. Whole(w, S)[S] = g[S]
  <2>1. \A s \in SUBSET S : Whole(w, S)[s] = g[s]
    BY <1>1, <1>4, SolutionsAgree
  <2> QED
    BY <2>1
<1> QED
  BY <1>1, <1>4, <1>5, SumUnfolds

(***************************************************************************)
(* The sum over nothing is 0; a sum of integers is an integer.             *)
(***************************************************************************)
LEMMA SumEmpty ==
  ASSUME NEW w
  PROVE  SumFunctionOnSet(w, {}) = 0
<1>1. IsFiniteSet({})
  BY FS_EmptySet
<1>2. /\ Adds(Whole(w, {}), w, {})
      /\ SumFunctionOnSet(w, {}) = Whole(w, {})[{}]
  BY <1>1, SumIsASolution
<1> QED
  BY <1>2 DEF Adds

LEMMA SumInt ==
  ASSUME NEW S, IsFiniteSet(S), NEW w, \A x \in S : w[x] \in Int
  PROVE  SumFunctionOnSet(w, S) \in Int
BY SumIsASolution

(***************************************************************************)
(* A sum depends on the weights of the set's elements only.                *)
(***************************************************************************)
LEMMA SumAgree ==
  ASSUME NEW S, IsFiniteSet(S), NEW w, NEW w2,
         \A x \in S : w[x] \in Int, \A x \in S : w2[x] = w[x]
  PROVE  SumFunctionOnSet(w2, S) = SumFunctionOnSet(w, S)
<1>1. Adds(Whole(w, S), w, S) /\ SumFunctionOnSet(w, S) = Whole(w, S)[S]
  BY SumIsASolution
<1>2. \A x \in S : w2[x] \in Int
  OBVIOUS
<1>3. Adds(Whole(w2, S), w2, S) /\ SumFunctionOnSet(w2, S) = Whole(w2, S)[S]
  BY <1>2, SumIsASolution
<1>4. \A s \in SUBSET S : Whole(w, S)[s] = Whole(w2, S)[s]
  BY <1>1, <1>3, SolutionsAgree
<1> QED
  BY <1>1, <1>3, <1>4

(***************************************************************************)
(* Any element may be taken out, not only the one that is chosen first.    *)
(***************************************************************************)
LEMMA SumChosen ==
  ASSUME NEW S, IsFiniteSet(S), NEW w, \A x \in S : w[x] \in Int, S # {}
  PROVE  SumFunctionOnSet(w, S)
           = w[Chosen(S)] + SumFunctionOnSet(w, S \ {Chosen(S)})
<1> DEFINE c == Chosen(S)
           R == S \ {c}
<1>1. Adds(Whole(w, S), w, S) /\ SumFunctionOnSet(w, S) = Whole(w, S)[S]
  BY SumIsASolution
<1>2. SumFunctionOnSet(w, S) = w[c] + Whole(w, S)[R]
  BY <1>1 DEF Adds
<1>3. IsFiniteSet(R) /\ R \subseteq S /\ \A x \in R : w[x] \in Int
  BY FS_Subset
<1> HIDE DEF R
<1>4. Adds(Whole(w, R), w, R) /\ SumFunctionOnSet(w, R) = Whole(w, R)[R]
  BY <1>3, SumIsASolution
<1>5. \A s \in SUBSET R : Whole(w, R)[s] = Whole(w, S)[s]
  BY <1>1, <1>3, <1>4, SolutionsAgree
<1>6. SumFunctionOnSet(w, R) = Whole(w, S)[R]
  BY <1>4, <1>5
<1> QED
  BY <1>2, <1>6 DEF R

LEMMA SumPick ==
  ASSUME NEW S, IsFiniteSet(S), NEW w, \A x \in S : w[x] \in Int, NEW x \in S
  PROVE  SumFunctionOnSet(w, S) = w[x] + SumFunctionOnSet(w, S \ {x})
<1> DEFINE Sum(s) == SumFunctionOnSet(w, s)
           Bad(s) == \E y \in s : Sum(s) # w[y] + Sum(s \ {y})
           B == {s \in SUBSET S : Bad(s)}
<1>1. ASSUME NEW s \in SUBSET S
      PROVE  /\ IsFiniteSet(s) /\ Sum(s) \in Int
             /\ s # {} => Sum(s) = w[Chosen(s)] + Sum(s \ {Chosen(s)})
  <2>1. IsFiniteSet(s)
    BY FS_Subset
  <2>2. \A y \in s : w[y] \in Int
    OBVIOUS
  <2> QED
    BY <2>1, <2>2, SumInt, SumChosen
<1> HIDE DEF Sum
<1>2. B = {}
  <2> SUFFICES ASSUME B # {} PROVE FALSE
    OBVIOUS
  <2>1. PICK s \in B : \A c \in s : s \ {c} \notin B
    <3> HIDE DEF B
    <3>1. B \in SUBSET (SUBSET S)
      BY DEF B
    <3> QED
      BY <3>1, SmallestSet
  <2>2. PICK y \in s : Sum(s) # w[y] + Sum(s \ {y})
    OBVIOUS
  <2> DEFINE c == Chosen(s)
             a == s \ {c}
             b == s \ {y}
             r == a \ {y}
  <2>3. s \in SUBSET S /\ c \in s
    BY <2>2, ChosenIsIn
  <2>4. Sum(s) = w[c] + Sum(a)
    BY <1>1, <2>3
  <2>5. c # y
    BY <2>2, <2>4
  <2>6. a \in SUBSET S /\ b \in SUBSET S /\ r \in SUBSET S /\ r = b \ {c} /\ y \in a /\ c \in b
    BY <2>2, <2>3, <2>5
  <2>7. ~Bad(a) /\ ~Bad(b)
    BY <2>1, <2>2, <2>3, <2>6
  <2>8. Sum(a) = w[y] + Sum(r) /\ Sum(b) = w[c] + Sum(r)
    BY <2>6, <2>7
  <2>9. Sum(r) \in Int /\ w[y] \in Int /\ w[c] \in Int
    BY <1>1, <2>2, <2>3, <2>6
  <2> HIDE DEF a, b, c, r
  <2>10. Sum(s) # w[y] + Sum(b)
    BY <2>2 DEF b
  <2> QED
    BY <2>4, <2>8, <2>9, <2>10
<1>3. ~Bad(S)
  BY <1>2
<1> QED
  BY <1>3 DEF Sum

-----------------------------------------------------------------------------
(***************************************************************************)
(* An element put in, an element's weight changed, two sets that do not    *)
(* meet, a set of elements that are worth nothing, weights at least zero.  *)
(***************************************************************************)
LEMMA SumPut ==
  ASSUME NEW S, IsFiniteSet(S), NEW x, x \notin S, NEW w, NEW w2,
         \A y \in S : w[y] \in Int, \A y \in S : w2[y] = w[y], w2[x] \in Int
  PROVE  SumFunctionOnSet(w2, S \cup {x}) = w2[x] + SumFunctionOnSet(w, S)
<1> DEFINE T == S \cup {x}
<1>1. IsFiniteSet(T) /\ x \in T /\ T \ {x} = S
  BY FS_AddElement
<1>2. \A y \in T : w2[y] \in Int
  OBVIOUS
<1> HIDE DEF T
<1>3. SumFunctionOnSet(w2, T) = w2[x] + SumFunctionOnSet(w2, S)
  BY <1>1, <1>2, SumPick
<1>4. SumFunctionOnSet(w2, S) = SumFunctionOnSet(w, S)
  BY SumAgree
<1> QED
  BY <1>3, <1>4 DEF T

LEMMA SumBump ==
  ASSUME NEW S, IsFiniteSet(S), NEW x \in S, NEW w, NEW w2,
         \A y \in S : w[y] \in Int, w2[x] \in Int,
         \A y \in S \ {x} : w2[y] = w[y]
  PROVE  SumFunctionOnSet(w2, S) = SumFunctionOnSet(w, S) + w2[x] - w[x]
<1> DEFINE R == S \ {x}
<1>1. IsFiniteSet(R) /\ \A y \in R : w[y] \in Int /\ w2[y] = w[y]
  BY FS_Subset
<1>2. \A y \in S : w2[y] \in Int
  OBVIOUS
<1>3. SumFunctionOnSet(w, S) = w[x] + SumFunctionOnSet(w, R)
  BY SumPick
<1>4. SumFunctionOnSet(w2, S) = w2[x] + SumFunctionOnSet(w2, R)
  BY <1>2, SumPick
<1> HIDE DEF R
<1>5. SumFunctionOnSet(w2, R) = SumFunctionOnSet(w, R) /\ SumFunctionOnSet(w, R) \in Int
  BY <1>1, SumAgree, SumInt
<1>6. w[x] \in Int
  OBVIOUS
<1> QED
  BY <1>3, <1>4, <1>5, <1>6

LEMMA SumSplit ==
  ASSUME NEW S, NEW T, IsFiniteSet(S), IsFiniteSet(T), S \cap T = {},
         NEW w, \A y \in S \cup T : w[y] \in Int
  PROVE  SumFunctionOnSet(w, S \cup T) = SumFunctionOnSet(w, S) + SumFunctionOnSet(w, T)
<1> DEFINE Sum(s) == SumFunctionOnSet(w, s)
           Bad(s) == Sum(s \cup T) # Sum(s) + Sum(T)
           B == {s \in SUBSET S : Bad(s)}
<1>0. IsFiniteSet(S \cup T)
  BY FS_Union
<1>1. ASSUME NEW s \in SUBSET (S \cup T)
      PROVE  Sum(s) \in Int /\ \A x \in s : Sum(s) = w[x] + Sum(s \ {x})
  <2>1. IsFiniteSet(s)
    BY <1>0, FS_Subset
  <2>2. \A y \in s : w[y] \in Int
    OBVIOUS
  <2> QED
    BY <2>1, <2>2, SumInt, SumPick
<1>2. Sum({}) = 0
  BY SumEmpty
<1> HIDE DEF Sum
<1>3. B = {}
  <2> SUFFICES ASSUME B # {} PROVE FALSE
    OBVIOUS
  <2>1. PICK s \in B : \A c \in s : s \ {c} \notin B
    <3> HIDE DEF B
    <3>1. B \in SUBSET (SUBSET S)
      BY DEF B
    <3> QED
      BY <3>1, SmallestSet
  <2>2. s \in SUBSET S /\ Bad(s)
    OBVIOUS
  <2>3. s # {}
    <3>1. {} \cup T = T /\ Sum(T) \in Int
      BY <1>1
    <3>2. 0 + Sum(T) = Sum(T)
      BY <3>1
    <3> QED
      BY <1>2, <2>2, <3>1, <3>2
  <2>4. PICK x \in s : TRUE
    BY <2>3
  <2> DEFINE r == s \ {x}
             rT == r \cup T
             sT == s \cup T
  <2>5. r \in SUBSET S /\ ~Bad(r)
    BY <2>1, <2>2, <2>4
  <2>6. rT = sT \ {x}
    BY <2>2, <2>4
  <2>7. /\ sT \in SUBSET (S \cup T) /\ rT \in SUBSET (S \cup T)
        /\ s \in SUBSET (S \cup T) /\ r \in SUBSET (S \cup T)
        /\ T \in SUBSET (S \cup T) /\ x \in sT
    BY <2>2
  <2>8. Sum(rT) = Sum(r) + Sum(T)
    BY <2>5
  <2>9. Sum(sT) # Sum(s) + Sum(T)
    BY <2>2
  <2>10. w[x] \in Int
    BY <2>2
  <2> HIDE DEF r, rT, sT
  <2>11. Sum(sT) = w[x] + Sum(rT)
    BY <1>1, <2>6, <2>7
  <2>12. Sum(s) = w[x] + Sum(r)
    BY <1>1, <2>7 DEF r
  <2>13. Sum(r) \in Int /\ Sum(T) \in Int
    BY <1>1, <2>7
  <2> QED
    BY <2>8, <2>9, <2>10, <2>11, <2>12, <2>13
<1>4. ~Bad(S)
  BY <1>3
<1> QED
  BY <1>4 DEF Sum

LEMMA SumNat ==
  ASSUME NEW S, IsFiniteSet(S), NEW w, \A y \in S : w[y] \in Nat
  PROVE  SumFunctionOnSet(w, S) \in Nat
<1> DEFINE Sum(s) == SumFunctionOnSet(w, s)
           B == {s \in SUBSET S : Sum(s) \notin Nat}
<1>1. ASSUME NEW s \in SUBSET S
      PROVE  \A x \in s : Sum(s) = w[x] + Sum(s \ {x})
  <2>1. IsFiniteSet(s)
    BY FS_Subset
  <2>2. \A y \in s : w[y] \in Int
    OBVIOUS
  <2> QED
    BY <2>1, <2>2, SumPick
<1>2. Sum({}) = 0
  BY SumEmpty
<1> HIDE DEF Sum
<1>3. B = {}
  <2> SUFFICES ASSUME B # {} PROVE FALSE
    OBVIOUS
  <2>1. PICK s \in B : \A c \in s : s \ {c} \notin B
    <3> HIDE DEF B
    <3>1. B \in SUBSET (SUBSET S)
      BY DEF B
    <3> QED
      BY <3>1, SmallestSet
  <2>2. s \in SUBSET S /\ Sum(s) \notin Nat
    OBVIOUS
  <2>3. PICK x \in s : TRUE
    BY <1>2, <2>2
  <2>4. Sum(s \ {x}) \in Nat
    BY <2>1, <2>2, <2>3
  <2>5. w[x] \in Nat
    BY <2>2
  <2>6. Sum(s) = w[x] + Sum(s \ {x})
    BY <1>1, <2>2
  <2> QED
    BY <2>2, <2>4, <2>5, <2>6
<1> QED
  BY <1>3 DEF Sum

LEMMA SumZero ==
  ASSUME NEW S, IsFiniteSet(S), NEW w, \A y \in S : w[y] = 0
  PROVE  SumFunctionOnSet(w, S) = 0
<1> DEFINE Sum(s) == SumFunctionOnSet(w, s)
           B == {s \in SUBSET S : Sum(s) # 0}
<1>1. ASSUME NEW s \in SUBSET S
      PROVE  \A x \in s : Sum(s) = w[x] + Sum(s \ {x})
  <2>1. IsFiniteSet(s)
    BY FS_Subset
  <2>2. \A y \in s : w[y] \in Int
    OBVIOUS
  <2> QED
    BY <2>1, <2>2, SumPick
<1>2. Sum({}) = 0
  BY SumEmpty
<1> HIDE DEF Sum
<1>3. B = {}
  <2> SUFFICES ASSUME B # {} PROVE FALSE
    OBVIOUS
  <2>1. PICK s \in B : \A c \in s : s \ {c} \notin B
    <3> HIDE DEF B
    <3>1. B \in SUBSET (SUBSET S)
      BY DEF B
    <3> QED
      BY <3>1, SmallestSet
  <2>2. s \in SUBSET S /\ Sum(s) # 0
    OBVIOUS
  <2>3. PICK x \in s : TRUE
    BY <1>2, <2>2
  <2>4. Sum(s \ {x}) = 0
    BY <2>1, <2>2, <2>3
  <2>5. w[x] = 0
    BY <2>2
  <2>6. Sum(s) = w[x] + Sum(s \ {x})
    BY <1>1, <2>2
  <2> QED
    BY <2>2, <2>4, <2>5, <2>6
<1> QED
  BY <1>3 DEF Sum

(***************************************************************************)
(* With weights at least zero, more elements never make a sum smaller.     *)
(***************************************************************************)
LEMMA SumMonotonic ==
  ASSUME NEW T, IsFiniteSet(T), NEW S, S \subseteq T,
         NEW w, \A y \in T : w[y] \in Nat
  PROVE  SumFunctionOnSet(w, S) <= SumFunctionOnSet(w, T)
<1> DEFINE R == T \ S
<1>1. IsFiniteSet(S) /\ IsFiniteSet(R) /\ S \cap R = {} /\ S \cup R = T
  BY FS_Subset
<1>2. \A y \in S \cup R : w[y] \in Nat /\ w[y] \in Int
  OBVIOUS
<1> HIDE DEF R
<1>3. SumFunctionOnSet(w, T) = SumFunctionOnSet(w, S) + SumFunctionOnSet(w, R)
  BY <1>1, <1>2, SumSplit
<1>4. SumFunctionOnSet(w, S) \in Nat /\ SumFunctionOnSet(w, R) \in Nat
  BY <1>1, <1>2, SumNat
<1> QED
  BY <1>3, <1>4
=============================================================================
