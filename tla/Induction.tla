------------------------------ MODULE Induction -----------------------------
(***************************************************************************)
(* Induction over the natural numbers, and sums over finite sets.          *)
(*                                                                         *)
(* Induction is stated with sets of numbers instead of predicates: a proof *)
(* by induction on P is an application to the set {n \in Nat : P(n)}.  It  *)
(* rests on the finite subsets being well-founded under strict inclusion,  *)
(* of which the numbers' intervals are a case.                             *)
(***************************************************************************)
EXTENDS Integers, FiniteSets, FiniteSetTheorems, WellFoundedInduction, TLAPS

\* A set of natural numbers that is not empty has a least member.
LEMMA LeastNumber ==
    ASSUME NEW S \in SUBSET Nat, S # {}
    PROVE  \E m \in S : \A k \in S : m <= k
<1> DEFINE upTo == {0..k : k \in S}
<1>1. upTo \subseteq FiniteSubsetsOf(Nat) /\ upTo # {}
  <2>1. ASSUME NEW k \in S PROVE 0..k \in FiniteSubsetsOf(Nat)
    <3>1. k \in Int /\ 0 \in Int /\ 0..k \in SUBSET Nat
      OBVIOUS
    <3> QED  BY <3>1, FS_Interval DEF FiniteSubsetsOf
  <2> QED  BY <2>1
<1>2. PICK U \in upTo : \A V \in upTo : <<V, U>> \notin StrictSubsetOrdering(Nat)
  BY <1>1, FS_StrictSubsetOrderingWellFounded, WFMin
<1>3. PICK m \in S : U = 0..m
  BY <1>2
<1>4. ASSUME NEW k \in S, k < m PROVE FALSE
  <2>1. /\ 0..k \subseteq 0..m /\ m \in 0..m /\ m \notin 0..k
        /\ 0..k \in SUBSET Nat /\ 0..m \in SUBSET Nat
    BY <1>4
  <2>2. <<0..k, 0..m>> \in StrictSubsetOrdering(Nat)
    <3>1. 0..k # 0..m
      BY <2>1
    <3> QED  BY <2>1, <3>1, Zenon DEF StrictSubsetOrdering
  <2> QED  BY <2>2, <1>2, <1>3
<1> QED  BY <1>4

\* Simple induction.
LEMMA EveryNumber ==
    ASSUME NEW S, 0 \in S, \A n \in Nat : n \in S => n + 1 \in S
    PROVE  Nat \subseteq S
<1> DEFINE rest == Nat \ S
<1> SUFFICES ASSUME rest # {} PROVE FALSE
  OBVIOUS
<1>1. PICK m \in rest : \A k \in rest : m <= k
  BY LeastNumber
<1>2. m - 1 \in Nat /\ m - 1 \in S
  BY <1>1
<1> QED  BY <1>2

\* Induction with the hypothesis for all smaller numbers.
LEMMA EveryNumberAfterSmaller ==
    ASSUME NEW S, \A n \in Nat : (\A k \in 0..n - 1 : k \in S) => n \in S
    PROVE  Nat \subseteq S
<1> DEFINE rest == Nat \ S
<1> SUFFICES ASSUME rest # {} PROVE FALSE
  OBVIOUS
<1>1. PICK m \in rest : \A k \in rest : m <= k
  BY LeastNumber
<1>2. \A k \in 0..m - 1 : k \in S
  BY <1>1
<1> QED  BY <1>2

-----------------------------------------------------------------------------
(***************************************************************************)
(* Sums over finite sets.  The community modules' folds take the members   *)
(* of a set in the order in which CHOOSE picks them; what a fold adds up   *)
(* to does not depend on that order.                                       *)
(***************************************************************************)

\* One step of the fold: `sum` gives the sums of the smaller sets.
AddsOne(s, sum, value) ==
    IF s = {} THEN 0
    ELSE LET x == CHOOSE x \in s : TRUE IN value[x] + sum[s \ {x}]

\* The function by which the fold is defined.
IsFold(sum, value, S) == sum = [s \in SUBSET S |-> AddsOne(s, sum, value)]

\* What is wanted of it: any member may be taken first.
IsSum(sum, value, S) ==
    /\ sum \in [SUBSET S -> Int]
    /\ sum[{}] = 0
    /\ \A T \in SUBSET S : \A x \in T : sum[T] = value[x] + sum[T \ {x}]

\* A set without one of its members.
LEMMA OneLess ==
    ASSUME NEW S, IsFiniteSet(S), NEW T \in SUBSET S, NEW x \in T
    PROVE  /\ T \ {x} \in SUBSET S /\ Cardinality(T) \in Nat \ {0}
           /\ Cardinality(T \ {x}) = Cardinality(T) - 1
<1>1. IsFiniteSet(T)
  BY FS_Subset
<1>2. Cardinality(T) \in Nat /\ Cardinality(T) # 0
  BY <1>1, FS_CardinalityType, FS_EmptySet
<1> QED  BY <1>1, <1>2, FS_RemoveElement

LEMMA FoldExists ==
    ASSUME NEW S, IsFiniteSet(S), NEW value
    PROVE  \E sum : IsFold(sum, value, S)
<1> DEFINE Small(n) == {s \in SUBSET S : Cardinality(s) <= n}
           Folded(n) == \E sum : sum = [s \in Small(n) |-> AddsOne(s, sum, value)]
           folded == {n \in Nat : Folded(n)}
<1>1. \A s \in SUBSET S : IsFiniteSet(s) /\ Cardinality(s) \in Nat
  BY FS_Subset, FS_CardinalityType
<1>2. 0 \in folded
  <2> DEFINE sum == [s \in Small(0) |-> 0]
  <2>1. \A s \in Small(0) : s = {}
    BY <1>1, FS_EmptySet
  <2>2. sum = [s \in Small(0) |-> AddsOne(s, sum, value)]
    BY <2>1 DEF AddsOne
  <2> HIDE DEF sum, Small
  <2> QED  BY <2>2
<1>3. \A n \in Nat : n \in folded => n + 1 \in folded
  <2> SUFFICES ASSUME NEW n \in Nat, n \in folded PROVE n + 1 \in folded
    OBVIOUS
  <2>0. Folded(n)
    OBVIOUS
  <2>1. PICK sum : sum = [s \in Small(n) |-> AddsOne(s, sum, value)]
    BY <2>0, Zenon
  <2> DEFINE more == [s \in Small(n + 1) |-> AddsOne(s, sum, value)]
  <2>2. \A s \in Small(n) : more[s] = sum[s]
    <3> SUFFICES ASSUME NEW s \in Small(n) PROVE more[s] = sum[s]
      OBVIOUS
    <3>1. s \in Small(n + 1)
      BY <1>1
    <3> QED  BY <2>1, <3>1
  <2>3. \A s \in Small(n + 1) : AddsOne(s, sum, value) = AddsOne(s, more, value)
    <3> SUFFICES ASSUME NEW s \in Small(n + 1), s # {}
                 PROVE  AddsOne(s, sum, value) = AddsOne(s, more, value)
      BY DEF AddsOne
    <3> DEFINE x == CHOOSE x \in s : TRUE
    <3>1. x \in s
      OBVIOUS
    <3> HIDE DEF x
    <3>2. s \ {x} \in Small(n)
      <4>1. s \in SUBSET S /\ Cardinality(s) <= n + 1
        OBVIOUS
      <4>2. /\ s \ {x} \in SUBSET S /\ Cardinality(s) \in Nat
            /\ Cardinality(s \ {x}) = Cardinality(s) - 1
        BY <3>1, <4>1, OneLess
      <4> QED  BY <4>1, <4>2
    <3>3. more[s \ {x}] = sum[s \ {x}]
      BY <2>2, <3>2
    <3> HIDE DEF more, Small
    <3> QED  BY <3>3 DEF AddsOne, x
  <2>4. more = [s \in Small(n + 1) |-> AddsOne(s, more, value)]
    BY <2>3
  <2>5. Folded(n + 1)
    <3> HIDE DEF more, Small
    <3> QED  BY <2>4
  <2> HIDE DEF Folded
  <2> QED  BY <2>5
<1> HIDE DEF folded
<1>4. Cardinality(S) \in Nat /\ Cardinality(S) \in folded
  BY <1>1, <1>2, <1>3, EveryNumber
<1>5. Small(Cardinality(S)) = SUBSET S
  <2>1. \A s \in SUBSET S : Cardinality(s) <= Cardinality(S)
    BY FS_Subset
  <2> QED  BY <2>1
<1>6. Folded(Cardinality(S))
  BY <1>4 DEF folded
<1>7. PICK sum : sum = [s \in Small(Cardinality(S)) |-> AddsOne(s, sum, value)]
  BY <1>6
<1>8. sum = [s \in SUBSET S |-> AddsOne(s, sum, value)]
  BY <1>5, <1>7
<1> QED  BY <1>8 DEF IsFold

LEMMA FoldIsSum ==
    ASSUME NEW S, IsFiniteSet(S), NEW value \in [S -> Int], NEW sum, IsFold(sum, value, S)
    PROVE  IsSum(sum, value, S)
<1>1. \A s \in SUBSET S : sum[s] = AddsOne(s, sum, value)
  BY DEF IsFold
<1>2. sum[{}] = 0
  BY <1>1 DEF AddsOne
<1>3. \A s \in SUBSET S : s # {} =>
          \E x \in s : sum[s] = value[x] + sum[s \ {x}]
  <2> SUFFICES ASSUME NEW s \in SUBSET S, s # {}
               PROVE  \E x \in s : sum[s] = value[x] + sum[s \ {x}]
    OBVIOUS
  <2> DEFINE x == CHOOSE x \in s : TRUE
  <2>1. x \in s
    OBVIOUS
  <2>2. sum[s] = value[x] + sum[s \ {x}]
    BY <1>1 DEF AddsOne
  <2> QED  BY <2>1, <2>2
<1>4. \A s \in SUBSET S : IsFiniteSet(s) /\ Cardinality(s) \in Nat
  BY FS_Subset, FS_CardinalityType
<1>5. \A T \in SUBSET S : sum[T] \in Int
  <2> DEFINE whole == {n \in Nat : \A T \in SUBSET S : Cardinality(T) = n => sum[T] \in Int}
  <2>1. 0 \in whole
    BY <1>2, <1>4, FS_EmptySet
  <2>2. ASSUME NEW n \in Nat, n \in whole PROVE n + 1 \in whole
    <3> SUFFICES ASSUME NEW T \in SUBSET S, Cardinality(T) = n + 1 PROVE sum[T] \in Int
      OBVIOUS
    <3>1. T # {}
      BY FS_EmptySet
    <3>2. PICK c \in T : sum[T] = value[c] + sum[T \ {c}]
      BY <1>3, <3>1
    <3>3. T \ {c} \in SUBSET S /\ Cardinality(T \ {c}) = n
      BY OneLess
    <3>4. sum[T \ {c}] \in Int
      BY <2>2, <3>3
    <3> QED  BY <3>2, <3>4
  <2> HIDE DEF whole
  <2>3. Nat \subseteq whole
    BY <2>1, <2>2, EveryNumber
  <2> QED  BY <1>4, <2>3 DEF whole
<1> DEFINE AnyFirst(T) == \A x \in T : sum[T] = value[x] + sum[T \ {x}]
           sound == {n \in Nat : \A T \in SUBSET S : Cardinality(T) = n => AnyFirst(T)}
<1>6. 0 \in sound
  BY <1>4, FS_EmptySet
<1>7. ASSUME NEW n \in Nat, n \in sound PROVE n + 1 \in sound
  <2> SUFFICES ASSUME NEW T \in SUBSET S, Cardinality(T) = n + 1, NEW x \in T
               PROVE  sum[T] = value[x] + sum[T \ {x}]
    OBVIOUS
  <2>1. T # {}
    OBVIOUS
  <2>2. PICK c \in T : sum[T] = value[c] + sum[T \ {c}]
    BY <1>3, <2>1
  <2>3. ASSUME x # c PROVE sum[T] = value[x] + sum[T \ {x}]
    <3>1. \A y \in T : T \ {y} \in SUBSET S /\ Cardinality(T \ {y}) = n
      BY OneLess
    <3>2. AnyFirst(T \ {c}) /\ AnyFirst(T \ {x})
      BY <1>7, <3>1
    <3> DEFINE rest == (T \ {c}) \ {x}
    <3>3. rest = (T \ {x}) \ {c} /\ rest \in SUBSET S
      OBVIOUS
    <3>4. sum[T \ {c}] = value[x] + sum[rest] /\ sum[T \ {x}] = value[c] + sum[rest]
      BY <2>3, <3>2, <3>3
    <3>5. sum[rest] \in Int /\ value[x] \in Int /\ value[c] \in Int
      BY <1>5, <3>3
    <3> HIDE DEF rest
    <3> QED  BY <2>2, <3>4, <3>5
  <2> QED  BY <2>2, <2>3
<1>9. \A T \in SUBSET S : AnyFirst(T)
  <2> HIDE DEF sound
  <2>1. Nat \subseteq sound
    BY <1>6, <1>7, EveryNumber
  <2> QED  BY <1>4, <2>1 DEF sound
<1>8. sum \in [SUBSET S -> Int]
  BY <1>5 DEF IsFold
<1> QED  BY <1>2, <1>8, <1>9 DEF IsSum

\* Two sums over sets of which one is the image of the other, value for value.
LEMMA SumsAgree ==
    ASSUME NEW S, IsFiniteSet(S), NEW value, NEW sum, IsSum(sum, value, S),
           NEW R, NEW worth, NEW total, IsSum(total, worth, R),
           NEW D \in SUBSET S, NEW h \in [D -> R],
           \A x, y \in D : h[x] = h[y] => x = y,
           \A x \in D : worth[h[x]] = value[x]
    PROVE  \A T \in SUBSET D : sum[T] = total[{h[x] : x \in T}]
<1> DEFINE Image(T) == {h[x] : x \in T}
           agree == {n \in Nat : \A T \in SUBSET D :
                                    Cardinality(T) = n => sum[T] = total[Image(T)]}
<1>1. \A s \in SUBSET D : IsFiniteSet(s) /\ Cardinality(s) \in Nat
  BY FS_Subset, FS_CardinalityType
<1>2. 0 \in agree
  <2>1. \A T \in SUBSET D : Cardinality(T) = 0 => T = {}
    BY <1>1, FS_EmptySet
  <2>2. Image({}) = {} /\ sum[{}] = total[{}]
    BY DEF IsSum
  <2> QED  BY <2>1, <2>2
<1>3. ASSUME NEW n \in Nat, n \in agree PROVE n + 1 \in agree
  <2> SUFFICES ASSUME NEW T \in SUBSET D, Cardinality(T) = n + 1
               PROVE  sum[T] = total[Image(T)]
    OBVIOUS
  <2>1. PICK x \in T : TRUE
    BY FS_EmptySet
  <2>2. T \ {x} \in SUBSET D /\ Cardinality(T \ {x}) = n
    BY <1>1, OneLess, FS_Subset
  <2>3. sum[T \ {x}] = total[Image(T \ {x})]
    BY <1>3, <2>2
  <2>4. Image(T \ {x}) = Image(T) \ {h[x]} /\ h[x] \in Image(T) /\ Image(T) \in SUBSET R
    OBVIOUS
  <2>5. sum[T] = value[x] + sum[T \ {x}]
    BY DEF IsSum
  <2> HIDE DEF Image
  <2>6. total[Image(T)] = worth[h[x]] + total[Image(T) \ {h[x]}]
    BY <2>4 DEF IsSum
  <2> QED  BY <2>3, <2>4, <2>5, <2>6
<1> HIDE DEF agree
<1>4. Nat \subseteq agree
  BY <1>2, <1>3, EveryNumber
<1> QED  BY <1>1, <1>4 DEF agree

\* A sum of values that are not negative is not negative.
LEMMA SumNotNegative ==
    ASSUME NEW S, IsFiniteSet(S), NEW value, NEW sum, IsSum(sum, value, S),
           \A x \in S : value[x] \in Nat
    PROVE  \A T \in SUBSET S : sum[T] \in Nat
<1> DEFINE natural == {n \in Nat : \A T \in SUBSET S : Cardinality(T) = n => sum[T] \in Nat}
<1>1. \A s \in SUBSET S : IsFiniteSet(s) /\ Cardinality(s) \in Nat
  BY FS_Subset, FS_CardinalityType
<1>2. 0 \in natural
  BY <1>1, FS_EmptySet DEF IsSum
<1>3. ASSUME NEW n \in Nat, n \in natural PROVE n + 1 \in natural
  <2> SUFFICES ASSUME NEW T \in SUBSET S, Cardinality(T) = n + 1 PROVE sum[T] \in Nat
    OBVIOUS
  <2>1. PICK x \in T : TRUE
    BY FS_EmptySet
  <2>2. T \ {x} \in SUBSET S /\ Cardinality(T \ {x}) = n
    BY OneLess
  <2>3. sum[T] = value[x] + sum[T \ {x}]
    BY DEF IsSum
  <2> QED  BY <1>3, <2>2, <2>3
<1> HIDE DEF natural
<1>4. Nat \subseteq natural
  BY <1>2, <1>3, EveryNumber
<1> QED  BY <1>1, <1>4 DEF natural

\* Where values are not negative, a larger set has no smaller sum.
LEMMA SumOfMore ==
    ASSUME NEW S, IsFiniteSet(S), NEW value, NEW sum, IsSum(sum, value, S),
           \A x \in S : value[x] \in Nat
    PROVE  \A T \in SUBSET S : \A U \in SUBSET T : sum[U] <= sum[T]
<1> DEFINE grows == {n \in Nat : \A T \in SUBSET S : Cardinality(T) = n =>
                                    \A U \in SUBSET T : sum[U] <= sum[T]}
<1>1. \A s \in SUBSET S : IsFiniteSet(s) /\ Cardinality(s) \in Nat /\ sum[s] \in Int
  BY FS_Subset, FS_CardinalityType DEF IsSum
<1>2. 0 \in grows
  <2>1. \A T \in SUBSET S : Cardinality(T) = 0 => T = {}
    BY <1>1, FS_EmptySet
  <2>2. sum[{}] = 0
    BY DEF IsSum
  <2>3. ASSUME NEW T \in SUBSET S, Cardinality(T) = 0, NEW U \in SUBSET T PROVE sum[U] <= sum[T]
    <3>1. T = {} /\ U = {}
      BY <2>1, <2>3
    <3> QED  BY <2>2, <3>1
  <2> QED  BY <2>3
<1>3. ASSUME NEW n \in Nat, n \in grows PROVE n + 1 \in grows
  <2> SUFFICES ASSUME NEW T \in SUBSET S, Cardinality(T) = n + 1, NEW U \in SUBSET T, U # T
               PROVE  sum[U] <= sum[T]
    BY <1>1
  <2>1. PICK x \in T : x \notin U
    OBVIOUS
  <2>2. Cardinality(T \ {x}) = Cardinality(T) - 1
    BY OneLess
  <2>3. T \ {x} \in SUBSET S /\ Cardinality(T \ {x}) = n /\ U \in SUBSET (T \ {x})
    BY <2>1, <2>2
  <2>4. sum[U] <= sum[T \ {x}]
    BY <1>3, <2>3
  <2>5. sum[T] = value[x] + sum[T \ {x}] /\ value[x] \in Nat
    BY DEF IsSum
  <2> QED  BY <1>1, <2>3, <2>4, <2>5
<1> HIDE DEF grows
<1>4. Nat \subseteq grows
  BY <1>2, <1>3, EveryNumber
<1> QED  BY <1>1, <1>4 DEF grows

\* One factor on every value is that factor on the sum.
LEMMA SumScales ==
    ASSUME NEW S, IsFiniteSet(S), NEW value, NEW sum, IsSum(sum, value, S),
           NEW k \in Int, NEW larger, NEW total, IsSum(total, larger, S),
           \A x \in S : value[x] \in Int /\ larger[x] = k * value[x]
    PROVE  \A T \in SUBSET S : total[T] = k * sum[T]
<1> DEFINE scaled == {n \in Nat : \A T \in SUBSET S :
                                     Cardinality(T) = n => total[T] = k * sum[T]}
<1>1. \A s \in SUBSET S : IsFiniteSet(s) /\ Cardinality(s) \in Nat
  BY FS_Subset, FS_CardinalityType
<1>2. 0 \in scaled
  <2>1. \A T \in SUBSET S : Cardinality(T) = 0 => T = {}
    BY <1>1, FS_EmptySet
  <2>2. sum[{}] = 0 /\ total[{}] = 0 /\ k * 0 = 0
    BY DEF IsSum
  <2>3. total[{}] = k * sum[{}]
    BY <2>2
  <2> QED  BY <2>1, <2>3
<1>3. ASSUME NEW n \in Nat, n \in scaled PROVE n + 1 \in scaled
  <2> SUFFICES ASSUME NEW T \in SUBSET S, Cardinality(T) = n + 1 PROVE total[T] = k * sum[T]
    OBVIOUS
  <2>1. PICK x \in T : TRUE
    BY FS_EmptySet
  <2>0. Cardinality(T \ {x}) = Cardinality(T) - 1
    BY OneLess
  <2>2. T \ {x} \in SUBSET S /\ Cardinality(T \ {x}) = n
    BY <2>0
  <2>3. /\ sum[T] = value[x] + sum[T \ {x}] /\ total[T] = larger[x] + total[T \ {x}]
        /\ sum[T \ {x}] \in Int
    BY DEF IsSum
  <2>4. total[T \ {x}] = k * sum[T \ {x}]
    BY <1>3, <2>2
  <2>5. \A a, b \in Int : k * (a + b) = k * a + k * b
    OBVIOUS
  <2> QED  BY <2>3, <2>4, <2>5
<1> HIDE DEF scaled
<1>4. Nat \subseteq scaled
  BY <1>2, <1>3, EveryNumber
<1> QED  BY <1>1, <1>4 DEF scaled
=============================================================================
