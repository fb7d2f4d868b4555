---------------------------- MODULE NumberProofs ----------------------------
(***************************************************************************)
(* Lemmas on natural numbers that the proofs of several components need:   *)
(* least and greatest elements, and sums over finite sets, which the       *)
(* community modules define by taking one element after another. What is   *)
(* induction elsewhere is the least counterexample here.                   *)
(***************************************************************************)
EXTENDS Integers, FiniteSets, FiniteSetTheorems, WellFoundedInduction, TLAPS

LEMMA NatMin ==
  ASSUME NEW T, T \subseteq Nat, T # {}
  PROVE  \E x \in T : \A y \in T : x <= y
<1> DEFINE R == OpToRel(<, Nat)
<1>1. IsWellFoundedOn(R, Nat)
  BY NatLessThanWellFounded
<1> HIDE DEF R
<1>2. PICK x \in T : \A y \in T : <<y, x>> \notin R
  BY <1>1, WFMin
<1>3. \A y \in Nat, z \in Nat : y < z => <<y, z>> \in R
  BY DEF R, OpToRel
<1>4. ASSUME NEW y \in T
      PROVE  x <= y
  <2>1. x \in Nat /\ y \in Nat
    OBVIOUS
  <2>2. ~(y < x)
    BY <1>2, <1>3, <2>1
  <2>3. QED
    BY <2>1, <2>2
<1>5. QED
  BY <1>4

\* A bounded set of naturals has a greatest element.
LEMMA NatMax ==
  ASSUME NEW n \in Nat, NEW S, S \subseteq 0..n, S # {}
  PROVE  \E x \in S : \A y \in S : x >= y
<1> DEFINE T == {n - x : x \in S}
<1>1. T \subseteq Nat /\ T # {}
  <2>1. \A x \in S : n - x \in Nat
    OBVIOUS
  <2>2. QED
    BY <2>1
<1>2. PICK t \in T : \A u \in T : t <= u
  BY <1>1, NatMin
<1>3. PICK x \in S : t = n - x
  OBVIOUS
<1>4. \A y \in S : n - x <= n - y
  BY <1>2, <1>3
<1>5. \A y \in S : x \in 0..n /\ y \in 0..n
  OBVIOUS
<1>6. \A y \in S : x >= y
  <2> SUFFICES ASSUME NEW y \in S PROVE x >= y
    OBVIOUS
  <2>1. n - x <= n - y /\ x \in Int /\ y \in Int
    BY <1>4, <1>5
  <2>2. QED
    BY <2>1
<1>7. QED
  BY <1>6

\* A finite set of naturals has a greatest element: the elements above one are fewest there.
LEMMA FiniteMax ==
  ASSUME NEW S, S \subseteq Nat, IsFiniteSet(S), S # {}
  PROVE  \E x \in S : \A y \in S : y <= x
<1> DEFINE above(x) == {y \in S : x < y}
           R == StrictSubsetOrdering(S)
           F == {above(x) : x \in S}
<1>1. IsWellFoundedOn(R, FiniteSubsetsOf(S)) /\ FiniteSubsetsOf(S) = SUBSET S
  BY FS_StrictSubsetOrderingWellFounded, FS_FiniteSubsetsOfFinite
<1>2. F \subseteq SUBSET S /\ F # {}
  OBVIOUS
<1> HIDE DEF R, F
<1>21. IsWellFoundedOn(R, SUBSET S)
  BY <1>1
<1>3. PICK least \in F : \A f \in F : ~(<<f, least>> \in R)
  BY <1>2, <1>21, WFMin
<1>4. PICK x \in S : least = above(x)
  BY DEF F
<1>5. ASSUME NEW y \in S
      PROVE  y <= x
  <2>1. x \in Nat /\ y \in Nat
    OBVIOUS
  <2>2. SUFFICES ASSUME x < y PROVE FALSE
    BY <2>1
  <2>3. above(y) \subseteq above(x) /\ y \in above(x) /\ y \notin above(y)
    <3>1. \A z \in S : y < z => x < z
      BY <2>1, <2>2
    <3>2. above(y) \subseteq above(x)
      BY <3>1
    <3>3. y \in above(x)
      BY <2>2
    <3>4. y \notin above(y)
      BY <2>1
    <3>5. QED
      BY <3>2, <3>3, <3>4
  <2>4. <<above(y), above(x)>> \in R
    BY <2>3 DEF R, StrictSubsetOrdering
  <2>5. QED
    BY <1>3, <1>4, <2>4 DEF F
<1>6. QED
  BY <1>5

----------------------------------------------------------------------------
(* Sums                                                                    *)

Some(s) == CHOOSE x \in s : TRUE

\* What is added up of f over s, when the sums of smaller sets are known.
AddedUp(f, s, sums) == IF s = {} THEN 0 ELSE f[Some(s)] + sums[s \ {Some(s)}]

Sums(f, S, sums) == sums = [s \in SUBSET S |-> AddedUp(f, s, sums)]

\* The sum of f over S, as MapThenSumSet and SumFunctionOnSet define it.
SumOf(f, S) == (CHOOSE sums : Sums(f, S, sums))[S]

\* The sums of all subsets exist, and are naturals.
LEMMA SumsExist ==
  ASSUME NEW S, IsFiniteSet(S), NEW f, \A x \in S : f[x] \in Nat
  PROVE  \E sums \in [SUBSET S -> Nat] : Sums(f, S, sums)
<1> DEFINE Small(n) == {s \in SUBSET S : Cardinality(s) <= n}
           Good(n, sums) == /\ sums \in [Small(n) -> Nat]
                            /\ \A s \in Small(n) : sums[s] = AddedUp(f, s, sums)
           Bad == {n \in Nat : ~\E sums : Good(n, sums)}
<1>1. \A s \in SUBSET S : IsFiniteSet(s) /\ Cardinality(s) \in Nat /\ Cardinality(s) <= Cardinality(S)
  BY FS_Subset, FS_CardinalityType
<1>2. \A s \in SUBSET S : s # {} =>
         /\ Some(s) \in s /\ s \ {Some(s)} \in SUBSET S
         /\ Cardinality(s \ {Some(s)}) = Cardinality(s) - 1
  BY <1>1, FS_RemoveElement DEF Some
<1>3. \A n \in Nat : \A sums : sums \in [Small(n) -> Nat] =>
         \A s \in SUBSET S : s # {} /\ Cardinality(s) <= n + 1 =>
            s \ {Some(s)} \in Small(n) /\ AddedUp(f, s, sums) \in Nat
  BY <1>1, <1>2 DEF AddedUp
<1>4. Bad = {}
  <2> SUFFICES ASSUME Bad # {} PROVE FALSE
    OBVIOUS
  <2>1. PICK n \in Bad : \A m \in Bad : n <= m
    BY NatMin
  <2>2. CASE n = 0
    <3> DEFINE zero == [s \in Small(0) |-> 0]
    <3>1. \A s \in Small(0) : s = {}
      BY <1>1, FS_EmptySet
    <3>2. Good(0, zero)
      BY <3>1 DEF AddedUp
    <3>3. QED
      BY <2>1, <2>2, <3>2
  <2>3. CASE n # 0
    <3> DEFINE m == n - 1
    <3>1. m \in Nat /\ n = m + 1 /\ ~(n <= m)
      BY <2>1, <2>3
    <3>2. PICK old : Good(m, old)
      BY <2>1, <3>1
    <3> DEFINE new == [s \in Small(n) |-> AddedUp(f, s, old)]
    <3>3. \A s \in Small(m) : s \in Small(n) /\ new[s] = old[s]
      BY <1>1, <3>1, <3>2
    <3>4. new \in [Small(n) -> Nat]
      BY <1>3, <3>1, <3>2 DEF AddedUp
    <3>5. \A s \in Small(n) : AddedUp(f, s, old) = AddedUp(f, s, new)
      BY <1>3, <3>1, <3>2, <3>3 DEF AddedUp
    <3>6. Good(n, new)
      BY <3>4, <3>5
    <3>7. QED
      BY <2>1, <3>6
  <2>4. QED
    BY <2>2, <2>3
<1>5. Cardinality(S) \in Nat
  BY FS_CardinalityType
<1>6. PICK sums : Good(Cardinality(S), sums)
  BY <1>4, <1>5
<1>7. Small(Cardinality(S)) = SUBSET S
  BY <1>1
<1>8. sums \in [SUBSET S -> Nat] /\ \A s \in SUBSET S : sums[s] = AddedUp(f, s, sums)
  BY <1>6, <1>7
<1>9. QED
  BY <1>8 DEF Sums

\* What the sums of subsets are: whichever element is taken first.
AddsUp(f, S, sums) ==
    /\ sums \in [SUBSET S -> Nat] /\ sums[{}] = 0
    /\ \A s \in SUBSET S : \A x \in s : sums[s] = f[x] + sums[s \ {x}]

LEMMA SumsFact ==
  ASSUME NEW S, IsFiniteSet(S), NEW f, \A x \in S : f[x] \in Nat
  PROVE  \E sums : AddsUp(f, S, sums) /\ SumOf(f, S) = sums[S]
<1> DEFINE sums == CHOOSE it : Sums(f, S, it)
<1>1. Sums(f, S, sums) /\ SumOf(f, S) = sums[S]
  BY SumsExist DEF SumOf
<1> HIDE DEF sums
<1>2. sums = [s \in SUBSET S |-> AddedUp(f, s, sums)]
  BY <1>1 DEF Sums
<1>3. \A s \in SUBSET S : IsFiniteSet(s) /\ Cardinality(s) \in Nat
  BY FS_Subset, FS_CardinalityType
<1>4. \A s \in SUBSET S : \A x \in s :
         s \ {x} \in SUBSET S /\ Cardinality(s \ {x}) = Cardinality(s) - 1
  BY <1>3, FS_RemoveElement
<1>5. \A s \in SUBSET S : s # {} =>
         Some(s) \in s /\ sums[s] = f[Some(s)] + sums[s \ {Some(s)}]
  BY <1>2 DEF Some, AddedUp
<1>6. sums[{}] = 0
  BY <1>2 DEF AddedUp
<1>7. \A s \in SUBSET S : sums[s] \in Nat
  <2> DEFINE Bad == {Cardinality(s) : s \in {t \in SUBSET S : sums[t] \notin Nat}}
  <2> SUFFICES ASSUME Bad # {} PROVE FALSE
    OBVIOUS
  <2>1. PICK n \in Bad : \A m \in Bad : n <= m
    BY <1>3, NatMin
  <2>2. PICK s \in SUBSET S : sums[s] \notin Nat /\ Cardinality(s) = n
    OBVIOUS
  <2>3. s # {}
    BY <1>6, <2>2
  <2> DEFINE r == s \ {Some(s)}
  <2>4. sums[r] \in Nat
    <3>1. r \in SUBSET S /\ Cardinality(r) = n - 1 /\ n \in Nat
      BY <1>3, <1>4, <1>5, <2>2, <2>3
    <3>2. ~(n <= Cardinality(r))
      BY <3>1
    <3>3. Cardinality(r) \notin Bad
      BY <2>1, <3>2
    <3>4. QED
      BY <3>1, <3>3
  <2>5. QED
    BY <1>5, <2>2, <2>3, <2>4
<1>8. \A s \in SUBSET S : \A x \in s : sums[s] = f[x] + sums[s \ {x}]
  <2> DEFINE Odd(s) == \E x \in s : sums[s] # f[x] + sums[s \ {x}]
             Bad == {Cardinality(s) : s \in {t \in SUBSET S : Odd(t)}}
  <2> SUFFICES ASSUME Bad # {} PROVE FALSE
    OBVIOUS
  <2>1. PICK n \in Bad : \A m \in Bad : n <= m
    BY <1>3, NatMin
  <2>2. PICK s \in SUBSET S : Odd(s) /\ Cardinality(s) = n
    OBVIOUS
  <2>3. PICK x \in s : sums[s] # f[x] + sums[s \ {x}]
    BY <2>2
  <2> DEFINE c == Some(s)
             both == s \ {c, x}
  <2>4. c \in s /\ sums[s] = f[c] + sums[s \ {c}] /\ c # x
    BY <1>5, <2>3
  <2>5. \A t \in SUBSET S : Cardinality(t) < n => ~Odd(t)
    BY <1>3, <2>1, <2>2
  <2>6. s \ {c} \in SUBSET S /\ Cardinality(s \ {c}) < n /\ s \ {x} \in SUBSET S /\ Cardinality(s \ {x}) < n
    BY <1>3, <1>4, <2>2, <2>3, <2>4
  <2>7. ~Odd(s \ {c}) /\ ~Odd(s \ {x})
    BY <2>5, <2>6
  <2>8. x \in s \ {c} /\ (s \ {c}) \ {x} = both /\ c \in s \ {x} /\ (s \ {x}) \ {c} = both
    BY <2>3, <2>4
  <2>9. sums[s \ {c}] = f[x] + sums[both] /\ sums[s \ {x}] = f[c] + sums[both]
    BY <2>7, <2>8
  <2>10. sums[both] \in Nat /\ f[x] \in Nat /\ f[c] \in Nat
    BY <1>7, <2>3, <2>4
  <2> HIDE DEF c, both
  <2>11. QED
    BY <2>3, <2>4, <2>9, <2>10
<1>9. QED
  BY <1>1, <1>2, <1>6, <1>7, <1>8 DEF AddsUp

LEMMA SumIsNat ==
  ASSUME NEW S, IsFiniteSet(S), NEW f, \A x \in S : f[x] \in Nat
  PROVE  SumOf(f, S) \in Nat
<1>1. PICK sums : AddsUp(f, S, sums) /\ SumOf(f, S) = sums[S]
  BY SumsFact
<1>2. S \in SUBSET S
  OBVIOUS
<1>3. QED
  BY <1>1, <1>2 DEF AddsUp

LEMMA Climb ==
  \A p, x, y, z, u \in Nat : p + u <= y /\ y + x <= z => p + (x + u) <= z
OBVIOUS

\* A sum over an interval is at most how far a function rises there that rises with each
\* element by what is added.
LEMMA SumRises ==
  ASSUME NEW n \in Nat, NEW f \in [0 .. n -> Nat], NEW P \in [0 .. n + 1 -> Nat],
         \A t \in 0 .. n : P[t] + f[t] <= P[t + 1],
         NEW a \in 0 .. n + 1, NEW b \in 0 .. n + 1, a <= b,
         NEW S, S = {t \in 0 .. n : a <= t /\ t < b}
  PROVE  P[a] + SumOf(f, S) <= P[b]
<1> DEFINE upTo(k) == {t \in 0 .. n : a <= t /\ t < k}
<1>1. IsFiniteSet(S)
  <2>1. S \subseteq 0 .. n /\ IsFiniteSet(0 .. n)
    BY FS_Interval
  <2>2. QED
    BY <2>1, FS_Subset
<1>2. \A t \in S : f[t] \in Nat
  OBVIOUS
<1>3. PICK sums : AddsUp(f, S, sums) /\ SumOf(f, S) = sums[S]
  BY <1>1, <1>2, SumsFact
<1> DEFINE Held(k) == P[a] + sums[upTo(k)] <= P[k]
           Bad == {k \in a .. b : ~Held(k)}
<1>4. \A k \in a .. b : k \in Nat /\ k \in 0 .. n + 1 /\ upTo(k) \in SUBSET S /\ P[k] \in Nat
  OBVIOUS
<1>5. Held(a)
  <2>1. upTo(a) = {}
    OBVIOUS
  <2>2. sums[upTo(a)] = 0 /\ P[a] \in Nat
    BY <1>3, <2>1 DEF AddsUp
  <2> HIDE DEF upTo
  <2>3. QED
    BY <2>2
<1>6. ASSUME NEW j \in a .. b, j + 1 \in a .. b, Held(j)
      PROVE  Held(j + 1)
  <2>1. j \in 0 .. n /\ P[j] + f[j] <= P[j + 1] /\ f[j] \in Nat
    BY <1>4, <1>6
  <2>2. upTo(j + 1) \in SUBSET S /\ upTo(j) \in SUBSET S
    BY <1>4, <1>6
  <2>3. j \in upTo(j + 1) /\ upTo(j + 1) \ {j} = upTo(j)
    <3>1. j \in Nat /\ a <= j
      BY <2>1, <1>6
    <3>2. j \in upTo(j + 1) /\ j \notin upTo(j)
      BY <2>1, <3>1
    <3>3. \A t \in 0 .. n : t < j + 1 <=> t < j \/ t = j
      BY <3>1
    <3>4. \A t : t \in upTo(j + 1) <=> t \in upTo(j) \/ t = j
      BY <3>2, <3>3
    <3> HIDE DEF upTo
    <3>5. QED
      BY <3>2, <3>4
  <2> HIDE DEF upTo
  <2>4. sums[upTo(j + 1)] = f[j] + sums[upTo(j)]
    <3>1. \A s \in SUBSET S : \A x \in s : sums[s] = f[x] + sums[s \ {x}]
      BY <1>3 DEF AddsUp
    <3>2. sums[upTo(j + 1)] = f[j] + sums[upTo(j + 1) \ {j}]
      BY <2>2, <2>3, <3>1
    <3>3. QED
      BY <2>3, <3>2
  <2>5. sums[upTo(j)] \in Nat /\ P[j] \in Nat /\ P[j + 1] \in Nat /\ P[a] \in Nat
    BY <1>3, <1>4, <1>6, <2>2 DEF AddsUp
  <2>6. P[a] + sums[upTo(j)] <= P[j]
    BY <1>6
  <2> DEFINE u == sums[upTo(j)]
             w == sums[upTo(j + 1)]
  <2>7. /\ w = f[j] + u /\ P[a] + u <= P[j] /\ P[j] + f[j] <= P[j + 1]
        /\ u \in Nat /\ f[j] \in Nat /\ P[a] \in Nat /\ P[j] \in Nat /\ P[j + 1] \in Nat
    BY <2>1, <2>4, <2>5, <2>6
  <2> HIDE DEF u, w
  <2>8. P[a] + w <= P[j + 1]
    BY <2>7, Climb
  <2>9. QED
    BY <2>8 DEF w
<1> HIDE DEF Held
<1>7. Bad = {}
  <2> SUFFICES ASSUME Bad # {} PROVE FALSE
    OBVIOUS
  <2>1. Bad \subseteq Nat
    BY <1>4
  <2>2. PICK k \in Bad : \A m \in Bad : k <= m
    BY <2>1, NatMin
  <2>3. k \in a .. b /\ k # a /\ ~Held(k)
    BY <1>5
  <2> DEFINE j == k - 1
  <2>4. j \in a .. b /\ j + 1 = k /\ ~(k <= j)
    BY <1>4, <2>3
  <2>5. Held(j)
    BY <2>2, <2>4
  <2>6. Held(j + 1)
    BY <1>6, <2>3, <2>4, <2>5
  <2>7. QED
    BY <2>3, <2>4, <2>6
<1>8. b \in a .. b /\ upTo(b) = S
  OBVIOUS
<1>9. Held(b)
  BY <1>7, <1>8
<1>10. QED
  BY <1>3, <1>8, <1>9 DEF Held
=============================================================================
