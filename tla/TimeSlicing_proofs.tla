-------------------------- MODULE TimeSlicing_proofs --------------------------
(***************************************************************************)
(* Facts about working time, the loop of build_time_slices and the sort of *)
(* extract_transitions_from_payload, for every issue, changelog and        *)
(* schedule.  Induction over a changelog or a set of days is by a smallest *)
(* counterexample, which the well-founded order of the numbers excludes.   *)
(***************************************************************************)
EXTENDS TimeSlicing, FiniteSetTheorems, WellFoundedInduction, TLAPS

-----------------------------------------------------------------------------
(* Induction and arithmetic. *)

LEMMA Induction ==
  ASSUME NEW S, 0 \in S, \A n \in Nat : n \in S => n + 1 \in S
  PROVE  \A n \in Nat : n \in S
  <1> DEFINE T == {n \in Nat : n \notin S}
             R == OpToRel(<, Nat)
  <1>1. IsWellFoundedOn(R, Nat)
    BY NatLessThanWellFounded
  <1>2. \A m, n \in Nat : m < n => <<m, n>> \in R
    BY DEF OpToRel
  <1> HIDE DEF R
  <1>3. T # {} => \E x \in T : \A y \in T : ~ (<<y, x>> \in R)
    <2>1. T \subseteq Nat
      OBVIOUS
    <2> HIDE DEF T
    <2>2. QED
      BY <1>1, <2>1, WFMin
  <1>4. ASSUME NEW n \in T, \A m \in T : ~ (<<m, n>> \in R) PROVE FALSE
    <2>1. n \in Nat /\ n # 0 /\ n - 1 \in Nat /\ n - 1 < n /\ (n - 1) + 1 = n
      OBVIOUS
    <2>2. n - 1 \in T
      BY <2>1
    <2>3. QED
      BY <1>2, <1>4, <2>1, <2>2
  <1>5. QED
    BY <1>3, <1>4

LEMMA MaxOfInterval ==
  ASSUME NEW m \in Nat, NEW s \in SUBSET (1..(m + 1)), m + 1 \in s
  PROVE  Max(s) = m + 1
  <1>1. \A y \in s : m + 1 >= y
    OBVIOUS
  <1>2. \A x \in s : (\A y \in s : x >= y) => x = m + 1
    OBVIOUS
  <1>3. QED
    BY <1>1, <1>2 DEF Max

LEMMA MaxIsGreatest ==
  ASSUME NEW n \in Nat, NEW s \in SUBSET (0..n), s # {}
  PROVE  Max(s) \in s /\ \A y \in s : y <= Max(s)
  <1> DEFINE Good == {k \in Nat : \A t \in SUBSET (0..k) :
                        t # {} => \E x \in t : \A y \in t : x >= y}
  <1>1. 0 \in Good
    <2>1. \A x \in 0..0 : x = 0
      OBVIOUS
    <2>2. ASSUME NEW t \in SUBSET (0..0), t # {}
          PROVE  \E x \in t : \A y \in t : x >= y
      <3>1. 0 \in t /\ \A y \in t : y = 0
        BY <2>1, <2>2
      <3>2. QED
        BY <3>1
    <2>3. QED
      BY <2>2
  <1>2. ASSUME NEW k \in Nat, k \in Good PROVE k + 1 \in Good
    <2>1. ASSUME NEW t \in SUBSET (0..(k + 1)), t # {}
          PROVE  \E x \in t : \A y \in t : x >= y
      <3>1. CASE k + 1 \in t
        BY <3>1
      <3>2. CASE k + 1 \notin t
        <4>1. t \in SUBSET (0..k)
          BY <3>2
        <4>2. QED
          BY <1>2, <2>1, <4>1
      <3>3. QED
        BY <3>1, <3>2
    <2>2. QED
      BY <2>1
  <1> HIDE DEF Good
  <1>3. n \in Good
    BY <1>1, <1>2, Induction
  <1>4. \E x \in s : \A y \in s : x >= y
    BY <1>3 DEF Good
  <1>5. Max(s) \in s /\ \A y \in s : Max(s) >= y
    BY <1>4 DEF Max
  <1>6. QED
    BY <1>5

LEMMA Division ==
  ASSUME NEW d \in Nat \ {0}, NEW x \in Int
  PROVE  /\ x \div d \in Int
         /\ (x \div d) * d <= x /\ x < (x \div d) * d + d
  OBVIOUS

LEMMA DivisionMonotonic ==
  ASSUME NEW d \in Nat \ {0}, NEW p \in Int, NEW q \in Int, p * d < q * d + d
  PROVE  p <= q
  <1>1. ASSUME p >= q + 1 PROVE FALSE
    <2>1. p * d >= (q + 1) * d
      BY <1>1
    <2>2. QED
      BY <2>1
  <1>2. QED
    BY <1>1

LEMMA DivisionUnique ==
  ASSUME NEW d \in Nat \ {0}, NEW x \in Int, NEW q \in Int,
         q * d <= x, x < q * d + d
  PROVE  q = x \div d
  <1>1. /\ x \div d \in Int /\ (x \div d) * d \in Int /\ q * d \in Int
        /\ (x \div d) * d <= x /\ x < (x \div d) * d + d
    BY Division
  <1>2. q <= x \div d
    <2>1. q * d < (x \div d) * d + d
      BY <1>1
    <2>2. QED
      BY <1>1, <2>1, DivisionMonotonic
  <1>3. x \div d <= q
    <2>1. (x \div d) * d < q * d + d
      BY <1>1
    <2>2. QED
      BY <1>1, <2>1, DivisionMonotonic
  <1>4. QED
    BY <1>1, <1>2, <1>3

-----------------------------------------------------------------------------
(* Sums.  MapThenSumSet is a function of the subsets of a set, which takes *)
(* its elements out one by one. *)

Sums(g, f, S) ==
  g = [s \in SUBSET S |->
         IF s = {} THEN 0
         ELSE f[CHOOSE x \in s : TRUE] + g[s \ {CHOOSE x \in s : TRUE}]]

LEMMA SumsAt ==
  ASSUME NEW S, NEW f, NEW g, Sums(g, f, S), NEW s \in SUBSET S
  PROVE  g[s] = IF s = {} THEN 0
                ELSE f[CHOOSE x \in s : TRUE] + g[s \ {CHOOSE x \in s : TRUE}]
  BY Zenon DEF Sums

LEMMA SumsExist ==
  ASSUME NEW S, IsFiniteSet(S), NEW f
  PROVE  \E g : Sums(g, f, S)
  <1> DEFINE Below(n) == {s \in SUBSET S : Cardinality(s) <= n}
             Next(g, s) == IF s = {} THEN 0
                         ELSE f[CHOOSE x \in s : TRUE] + g[s \ {CHOOSE x \in s : TRUE}]
             Good == {n \in Nat : \E g : \A s \in Below(n) : g[s] = Next(g, s)}
  <1>1. \A s \in SUBSET S : IsFiniteSet(s) /\ Cardinality(s) \in Nat
    BY FS_Subset, FS_CardinalityType
  <1>2. 0 \in Good
    <2> DEFINE g == [s \in Below(0) |-> 0]
    <2>1. \A s \in Below(0) : s = {}
      BY <1>1, FS_EmptySet
    <2>2. \A s \in Below(0) : g[s] = Next(g, s)
      BY <2>1
    <2>3. QED
      BY <2>2
  <1>3. ASSUME NEW n \in Nat, n \in Good PROVE n + 1 \in Good
    <2>1. PICK g : \A s \in Below(n) : g[s] = Next(g, s)
      BY <1>3
    <2> DEFINE h == [s \in Below(n + 1) |-> Next(g, s)]
    <2>2. \A s \in Below(n) : s \in Below(n + 1) /\ h[s] = g[s]
      BY <1>1, <2>1
    <2>3. ASSUME NEW s \in Below(n + 1), s # {}
          PROVE  s \ {CHOOSE x \in s : TRUE} \in Below(n)
      <3>1. (CHOOSE x \in s : TRUE) \in s
        BY <2>3
      <3>2. Cardinality(s \ {CHOOSE x \in s : TRUE}) = Cardinality(s) - 1
        BY <1>1, <3>1, FS_RemoveElement
      <3>3. QED
        BY <1>1, <3>2
    <2>4. ASSUME NEW s \in Below(n + 1) PROVE h[s] = Next(h, s)
      <3>1. h[s] = Next(g, s)
        OBVIOUS
      <3>2. CASE s = {}
        BY <3>1, <3>2
      <3>3. CASE s # {}
        <4>1. h[s \ {CHOOSE x \in s : TRUE}] = g[s \ {CHOOSE x \in s : TRUE}]
          BY <2>2, <2>3, <3>3
        <4> HIDE DEF h
        <4>2. QED
          BY <3>1, <4>1
      <3>4. QED
        BY <3>2, <3>3
    <2> HIDE DEF h, Next, Below
    <2>5. QED
      BY <2>4
  <1> HIDE DEF Good, Next, Below
  <1>4. Cardinality(S) \in Nat
    BY FS_CardinalityType
  <1>5. Cardinality(S) \in Good
    BY <1>2, <1>3, <1>4, Induction
  <1>6. PICK g : \A s \in Below(Cardinality(S)) : g[s] = Next(g, s)
    BY <1>5 DEF Good
  <1>7. \A s \in SUBSET S : s \in Below(Cardinality(S))
    BY FS_Subset DEF Below
  <1> DEFINE h == [s \in SUBSET S |-> g[s]]
  <1>8. ASSUME NEW s \in SUBSET S PROVE h[s] = Next(h, s)
    <2>1. h[s] = Next(g, s)
      BY <1>6, <1>7
    <2>2. s # {} => s \ {CHOOSE x \in s : TRUE} \in SUBSET S
      OBVIOUS
    <2>3. s # {} => h[s \ {CHOOSE x \in s : TRUE}] = g[s \ {CHOOSE x \in s : TRUE}]
      BY <2>2
    <2> HIDE DEF h
    <2>4. QED
      BY <2>1, <2>3 DEF Next
  <1>9. h = [s \in SUBSET S |-> Next(h, s)]
    BY <1>8
  <1>10. Sums(h, f, S)
    BY <1>9 DEF Sums, Next
  <1>11. QED
    BY <1>10

(* A sum does not depend on the order. *)
LEMMA SumsRemove ==
  ASSUME NEW S, IsFiniteSet(S), NEW f \in [S -> Int], NEW g, Sums(g, f, S)
  PROVE  /\ g[{}] = 0
         /\ \A s \in SUBSET S : g[s] \in Int
         /\ \A s \in SUBSET S : \A x \in s : g[s] = f[x] + g[s \ {x}]
  <1> DEFINE Fits(s) == g[s] \in Int /\ \A x \in s : g[s] = f[x] + g[s \ {x}]
             Good == {n \in Nat : \A s \in SUBSET S : Cardinality(s) <= n => Fits(s)}
  <1>1. \A s \in SUBSET S : IsFiniteSet(s) /\ Cardinality(s) \in Nat
    BY FS_Subset, FS_CardinalityType
  <1>0. Fits({}) /\ g[{}] = 0
    <2>1. g[{}] = 0
      BY SumsAt
    <2>2. QED
      BY <2>1
  <1>2. 0 \in Good
    <2>1. \A s \in SUBSET S : Cardinality(s) <= 0 => s = {}
      BY <1>1, FS_EmptySet
    <2> HIDE DEF Fits
    <2>2. QED
      BY <1>0, <2>1
  <1>3. ASSUME NEW n \in Nat, n \in Good PROVE n + 1 \in Good
    <2>1. ASSUME NEW s \in SUBSET S, Cardinality(s) <= n + 1, s # {} PROVE Fits(s)
      <3>1. ASSUME NEW x \in s PROVE s \ {x} \in SUBSET S /\ Cardinality(s \ {x}) <= n
        <4>1. IsFiniteSet(s) /\ Cardinality(s) \in Nat
          BY <1>1
        <4>2. Cardinality(s \ {x}) = Cardinality(s) - 1
          BY <4>1, FS_RemoveElement
        <4>3. QED
          BY <2>1, <4>1, <4>2
      <3>2. \A x \in s : Fits(s \ {x})
        BY <1>3, <3>1
      <3> DEFINE c == CHOOSE x \in s : TRUE
      <3>3. c \in s
        BY <2>1
      <3>4. g[s] = f[c] + g[s \ {c}]
        BY <2>1, SumsAt
      <3> HIDE DEF c
      <3>5. \A x \in s : f[x] \in Int /\ g[s \ {x}] \in Int
        BY <3>2
      <3>6. ASSUME NEW x \in s, x # c PROVE g[s] = f[x] + g[s \ {x}]
        <4>1. (s \ {c}) \ {x} = (s \ {x}) \ {c}
          OBVIOUS
        <4>2. g[s \ {c}] = f[x] + g[(s \ {c}) \ {x}]
          BY <3>2, <3>3, <3>6
        <4>3. g[s \ {x}] = f[c] + g[(s \ {x}) \ {c}]
          BY <3>2, <3>3, <3>6
        <4>4. Cardinality((s \ {x}) \ {c}) <= n
          <5>1. IsFiniteSet(s \ {x}) /\ Cardinality(s \ {x}) <= n /\ Cardinality(s \ {x}) \in Nat
            BY <1>1, <3>1
          <5>2. c \in s \ {x}
            BY <3>3, <3>6
          <5>3. Cardinality((s \ {x}) \ {c}) = Cardinality(s \ {x}) - 1
            BY <5>1, <5>2, FS_RemoveElement
          <5>4. QED
            BY <5>1, <5>3
        <4>5. g[(s \ {x}) \ {c}] \in Int
          <5>1. (s \ {x}) \ {c} \in SUBSET S
            OBVIOUS
          <5>2. QED
            BY <1>3, <4>4, <5>1
        <4>6. g[s] = f[c] + (f[x] + g[(s \ {x}) \ {c}])
          BY <3>4, <4>1, <4>2
        <4>7. f[c] \in Int /\ f[x] \in Int
          BY <3>3, <3>5
        <4>8. QED
          BY <4>3, <4>5, <4>6, <4>7
      <3>7. g[s] \in Int
        BY <3>3, <3>4, <3>5
      <3>8. QED
        BY <3>4, <3>6, <3>7
    <2> HIDE DEF Fits
    <2>2. QED
      BY <1>0, <2>1
  <1> HIDE DEF Good, Fits
  <1>4. \A n \in Nat : n \in Good
    BY <1>2, <1>3, Induction
  <1>5. \A s \in SUBSET S : Fits(s)
    BY <1>1, <1>4 DEF Good
  <1>6. QED
    BY <1>0, <1>5 DEF Fits

Joined(A, S) == UNION {A[x] : x \in S}

Sizes(f, A, S) ==
  /\ IsFiniteSet(S) /\ f \in [S -> Int]
  /\ \A x \in S : IsFiniteSet(A[x]) /\ f[x] = Cardinality(A[x])
  /\ \A x, y \in S : x # y => A[x] \cap A[y] = {}

LEMMA SumOfSizes ==
  ASSUME NEW S, NEW f, NEW g, Sums(g, f, S), NEW A, Sizes(f, A, S)
  PROVE  IsFiniteSet(Joined(A, S)) /\ g[S] = Cardinality(Joined(A, S))
  <1>0. /\ g[{}] = 0
        /\ \A s \in SUBSET S : g[s] \in Int
        /\ \A s \in SUBSET S : \A x \in s : g[s] = f[x] + g[s \ {x}]
    BY SumsRemove DEF Sizes
  <1> DEFINE All(s) == Joined(A, s)
             Fits(s) == IsFiniteSet(All(s)) /\ g[s] = Cardinality(All(s))
             Good == {n \in Nat : \A s \in SUBSET S : Cardinality(s) = n => Fits(s)}
  <1>1. \A s \in SUBSET S : IsFiniteSet(s) /\ Cardinality(s) \in Nat
    BY FS_Subset, FS_CardinalityType DEF Sizes
  <1>2. 0 \in Good
    <2>1. \A s \in SUBSET S : Cardinality(s) = 0 => s = {}
      BY <1>1, FS_EmptySet
    <2>2. g[{}] = 0
      BY <1>0
    <2>3. All({}) = {}
      BY DEF Joined
    <2> HIDE DEF All
    <2>4. Fits({})
      BY <2>2, <2>3, FS_EmptySet
    <2> HIDE DEF Fits
    <2>5. QED
      BY <2>1, <2>4
  <1>3. ASSUME NEW n \in Nat, n \in Good PROVE n + 1 \in Good
    <2>1. ASSUME NEW s \in SUBSET S, Cardinality(s) = n + 1 PROVE Fits(s)
      <3>1. PICK x \in s : TRUE
        BY <2>1, FS_EmptySet
      <3> DEFINE rest == s \ {x}
      <3>2. rest \in SUBSET S /\ Cardinality(rest) = n
        BY <1>1, <2>1, FS_RemoveElement
      <3>3. Fits(rest)
        BY <1>3, <3>2
      <3>4. g[s] = f[x] + g[rest]
        BY <1>0
      <3>5. All(s) = A[x] \cup All(rest)
        BY DEF Joined
      <3>6. A[x] \cap All(rest) = {}
        BY DEF Joined, Sizes
      <3>7. IsFiniteSet(A[x]) /\ f[x] = Cardinality(A[x])
        BY DEF Sizes
      <3> HIDE DEF All, rest
      <3>8. IsFiniteSet(All(rest)) /\ g[rest] = Cardinality(All(rest))
        BY <3>3
      <3>9. /\ IsFiniteSet(A[x] \cup All(rest))
            /\ Cardinality(A[x] \cup All(rest))
               = Cardinality(A[x]) + Cardinality(All(rest)) - Cardinality(A[x] \cap All(rest))
        BY <3>7, <3>8, FS_Union
      <3>10. Cardinality(A[x] \cap All(rest)) = 0
        BY <3>6, FS_EmptySet
      <3>11. Cardinality(A[x]) \in Nat /\ Cardinality(All(rest)) \in Nat
        BY <3>7, <3>8, FS_CardinalityType
      <3>12. QED
        BY <3>4, <3>5, <3>7, <3>8, <3>9, <3>10, <3>11
    <2> HIDE DEF Fits
    <2>2. QED
      BY <2>1
  <1> HIDE DEF Good, Fits, All
  <1>4. Cardinality(S) \in Good
    BY <1>1, <1>2, <1>3, Induction
  <1>5. Fits(S)
    BY <1>4 DEF Good
  <1>6. QED
    BY <1>5 DEF Fits, All

AddsUp(g, f, S) ==
  /\ g[{}] = 0
  /\ \A s \in SUBSET S : g[s] \in Int
  /\ \A s \in SUBSET S : \A x \in s : g[s] = f[x] + g[s \ {x}]

LEMMA SumsAddUp ==
  ASSUME NEW S, IsFiniteSet(S), NEW f \in [S -> Int], NEW g, Sums(g, f, S)
  PROVE  AddsUp(g, f, S)
  BY SumsRemove DEF AddsUp

(* A part of a sum of numbers that are not negative is not greater, and it *)
(* is all of it if the other numbers are 0.                                *)
LEMMA SumOfAPart ==
  ASSUME NEW S, IsFiniteSet(S), NEW f \in [S -> Nat], NEW g, Sums(g, f, S),
         NEW P \in SUBSET S, NEW e \in [P -> Nat], NEW h, Sums(h, e, P),
         \A x \in P : e[x] = f[x]
  PROVE  /\ h[P] \in Nat /\ h[P] <= g[S]
         /\ (\A x \in S \ P : f[x] = 0) => h[P] = g[S]
  <1>1. \A s \in SUBSET S : IsFiniteSet(s) /\ Cardinality(s) \in Nat
    BY FS_Subset, FS_CardinalityType
  <1>2. /\ g[{}] = 0
        /\ \A s \in SUBSET S : g[s] \in Int
        /\ \A s \in SUBSET S : \A x \in s : g[s] = f[x] + g[s \ {x}]
    <2>1. f \in [S -> Int]
      OBVIOUS
    <2>2. IsFiniteSet(S) /\ Sums(g, f, S)
      OBVIOUS
    <2>3. AddsUp(g, f, S)
      BY <2>1, <2>2, SumsAddUp
    <2>4. QED
      BY <2>3 DEF AddsUp
  <1>3. /\ h[{}] = 0
        /\ \A s \in SUBSET P : h[s] \in Int
        /\ \A s \in SUBSET P : \A x \in s : h[s] = e[x] + h[s \ {x}]
    <2>1. e \in [P -> Int]
      OBVIOUS
    <2>2. IsFiniteSet(P) /\ Sums(h, e, P)
      BY <1>1
    <2>3. AddsUp(h, e, P)
      BY <2>1, <2>2, SumsAddUp
    <2>4. QED
      BY <2>3 DEF AddsUp
  <1> DEFINE NoRest == \A x \in S \ P : f[x] = 0
             Fits(s) == /\ h[s \cap P] \in Nat /\ h[s \cap P] <= g[s]
                        /\ NoRest => h[s \cap P] = g[s]
             Good == {n \in Nat : \A s \in SUBSET S : Cardinality(s) = n => Fits(s)}
  <1>4. 0 \in Good
    <2>1. \A s \in SUBSET S : Cardinality(s) = 0 => s = {}
      BY <1>1, FS_EmptySet
    <2>2. {} \cap P = {}
      OBVIOUS
    <2>3. Fits({})
      BY <1>2, <1>3, <2>2
    <2> HIDE DEF Fits
    <2>4. QED
      BY <2>1, <2>3
  <1>5. ASSUME NEW n \in Nat, n \in Good PROVE n + 1 \in Good
    <2>1. ASSUME NEW s \in SUBSET S, Cardinality(s) = n + 1 PROVE Fits(s)
      <3>1. PICK x \in s : TRUE
        BY <2>1, FS_EmptySet
      <3>2. s \ {x} \in SUBSET S /\ Cardinality(s \ {x}) = n
        BY <1>1, <2>1, FS_RemoveElement
      <3>3. /\ h[(s \ {x}) \cap P] \in Nat /\ h[(s \ {x}) \cap P] <= g[s \ {x}]
            /\ NoRest => h[(s \ {x}) \cap P] = g[s \ {x}]
        BY <1>5, <3>2
      <3>4. g[s] = f[x] + g[s \ {x}] /\ f[x] \in Nat /\ g[s \ {x}] \in Int
        BY <1>2, <3>2
      <3>5. CASE x \in P
        <4>1. (s \cap P) \ {x} = (s \ {x}) \cap P /\ x \in s \cap P /\ s \cap P \in SUBSET P
          BY <3>5
        <4>2. h[s \cap P] = f[x] + h[(s \ {x}) \cap P]
          BY <1>3, <3>5, <4>1
        <4>3. QED
          BY <3>3, <3>4, <4>2
      <3>6. CASE x \notin P
        <4>1. s \cap P = (s \ {x}) \cap P
          BY <3>6
        <4>2. QED
          BY <3>3, <3>4, <4>1
      <3>7. QED
        BY <3>5, <3>6
    <2> HIDE DEF Fits
    <2>2. QED
      BY <2>1
  <1> HIDE DEF Good, Fits
  <1>6. Cardinality(S) \in Good
    BY <1>1, <1>4, <1>5, Induction
  <1>7. Fits(S) /\ S \cap P = P
    BY <1>6 DEF Good
  <1>8. QED
    BY <1>7 DEF Fits

LEMMA OneLess ==
  ASSUME NEW s, IsFiniteSet(s), NEW n \in Nat, Cardinality(s) = n + 1
  PROVE  \E x \in s : Cardinality(s \ {x}) = n
  <1>1. PICK x \in s : TRUE
    BY FS_EmptySet
  <1>2. Cardinality(s \ {x}) = Cardinality(s) - 1
    BY FS_RemoveElement
  <1>3. QED
    BY <1>2

LEMMA SumOfNats ==
  ASSUME NEW S, IsFiniteSet(S), NEW f \in [S -> Nat], NEW g, Sums(g, f, S)
  PROVE  g[S] \in Nat /\ ((\A x \in S : f[x] = 0) => g[S] = 0)
  <1>1. PICK P : P = {}
    OBVIOUS
  <1> DEFINE none == [x \in P |-> 0]
  <1>2. PICK h : Sums(h, none, P)
    BY <1>1, FS_EmptySet, SumsExist
  <1>3. none \in [P -> Nat] /\ P \in SUBSET S /\ (\A x \in P : none[x] = f[x])
    BY <1>1
  <1>4. h[P] = 0
    BY <1>1, <1>2, SumsAt
  <1>5. AddsUp(g, f, S)
    <2>1. f \in [S -> Int]
      OBVIOUS
    <2>2. QED
      BY <2>1, SumsAddUp
  <1>6. g[S] \in Int
    BY <1>5 DEF AddsUp
  <1> HIDE DEF none
  <1>7. /\ h[P] \in Nat /\ h[P] <= g[S]
        /\ (\A x \in S \ P : f[x] = 0) => h[P] = g[S]
    BY <1>2, <1>3, SumOfAPart
  <1>8. QED
    BY <1>4, <1>6, <1>7

Summed(g, f, S) == IsFiniteSet(S) /\ f \in [S -> Int] /\ Sums(g, f, S)

Compares(f, e, h, S, m, c, p, q) ==
  \A x \in S : /\ m * f[x] + e[x] <= h[x]
               /\ h[x] <= (m * f[x] + e[x]) + (IF x = p \/ x = q THEN c ELSE 0)

(* A sum of sums, but for what one or two of the summands have over. *)
LEMMA SumsCompare ==
  ASSUME NEW S, NEW m \in Nat, NEW c \in Nat, NEW p, NEW q, NEW f, NEW e, NEW h,
         NEW sf, Summed(sf, f, S), NEW se, Summed(se, e, S), NEW sh, Summed(sh, h, S),
         Compares(f, e, h, S, m, c, p, q)
  PROVE  /\ sf[S] \in Int /\ se[S] \in Int /\ sh[S] \in Int
         /\ m * sf[S] + se[S] <= sh[S]
         /\ sh[S] <= (m * sf[S] + se[S]) + (IF p = q THEN c ELSE c + c)
  <1>0. /\ IsFiniteSet(S) /\ f \in [S -> Int] /\ e \in [S -> Int] /\ h \in [S -> Int]
        /\ Sums(sf, f, S) /\ Sums(se, e, S) /\ Sums(sh, h, S)
    BY DEF Summed
  <1>1. \A s \in SUBSET S : IsFiniteSet(s) /\ Cardinality(s) \in Nat
    BY <1>0, FS_Subset, FS_CardinalityType
  <1>2. AddsUp(sf, f, S) /\ AddsUp(se, e, S) /\ AddsUp(sh, h, S)
    BY <1>0, SumsAddUp
  <1>3. /\ sf[{}] = 0 /\ se[{}] = 0 /\ sh[{}] = 0
        /\ \A s \in SUBSET S : sf[s] \in Int /\ se[s] \in Int /\ sh[s] \in Int
        /\ \A s \in SUBSET S : \A x \in s : /\ sf[s] = f[x] + sf[s \ {x}]
                                            /\ se[s] = e[x] + se[s \ {x}]
                                            /\ sh[s] = h[x] + sh[s \ {x}]
    BY <1>2 DEF AddsUp
  <1> DEFINE Over(s) == (IF p \in s THEN c ELSE 0) + (IF q \in s /\ q # p THEN c ELSE 0)
             Fits(s) == /\ m * sf[s] + se[s] <= sh[s]
                        /\ sh[s] <= (m * sf[s] + se[s]) + Over(s)
             Good == {n \in Nat : \A s \in SUBSET S : Cardinality(s) = n => Fits(s)}
  <1>4. 0 \in Good
    <2>1. \A s \in SUBSET S : Cardinality(s) = 0 => s = {}
      BY <1>1, FS_EmptySet
    <2>2. Fits({})
      BY <1>3
    <2> HIDE DEF Fits
    <2>3. QED
      BY <2>1, <2>2
  <1>5. ASSUME NEW n \in Nat, n \in Good PROVE n + 1 \in Good
    <2>1. ASSUME NEW s \in SUBSET S, Cardinality(s) = n + 1 PROVE Fits(s)
      <3>1. PICK x \in s : Cardinality(s \ {x}) = n
        BY <1>1, <2>1, OneLess, Zenon
      <3> DEFINE r == s \ {x}
      <3>2. r \in SUBSET S /\ Cardinality(r) = n
        BY <3>1
      <3>3. Fits(r)
        BY <1>5, <3>2
      <3>4. Over(s) = Over(r) + (IF x = p \/ x = q THEN c ELSE 0) /\ Over(r) \in Nat
        OBVIOUS
      <3>5. sf[s] = f[x] + sf[r] /\ se[s] = e[x] + se[r] /\ sh[s] = h[x] + sh[r]
        BY <1>3
      <3>6. /\ sf[r] \in Int /\ se[r] \in Int /\ sh[r] \in Int
            /\ f[x] \in Int /\ e[x] \in Int /\ h[x] \in Int
        BY <1>0, <1>3, <3>2
      <3>7. /\ m * f[x] + e[x] <= h[x]
            /\ h[x] <= (m * f[x] + e[x]) + (IF x = p \/ x = q THEN c ELSE 0)
        BY DEF Compares
      <3> HIDE DEF r, Over
      <3>8. m * sf[s] = m * f[x] + m * sf[r] /\ m * f[x] \in Int /\ m * sf[r] \in Int
        BY <3>5, <3>6
      <3>9. QED
        BY <3>3, <3>4, <3>5, <3>6, <3>7, <3>8
    <2> HIDE DEF Fits
    <2>2. QED
      BY <2>1
  <1> HIDE DEF Good, Fits
  <1>6. Cardinality(S) \in Good
    BY <1>1, <1>4, <1>5, Induction
  <1>7. Fits(S)
    BY <1>6 DEF Good
  <1>8. Over(S) <= IF p = q THEN c ELSE c + c
    OBVIOUS
  <1>9. sf[S] \in Int /\ se[S] \in Int /\ sh[S] \in Int /\ Over(S) \in Int /\ m * sf[S] \in Int
    BY <1>3
  <1> HIDE DEF Over
  <1>10. QED
    BY <1>7, <1>8, <1>9 DEF Fits

SecondsOn(days, a, b, sched) ==
  MapThenSumSet(LAMBDA day : WholeSeconds(WorkedOn(day, a, b, sched)), days)

LEMMA DaysAreSummed ==
  ASSUME NEW S, IsFiniteSet(S), NEW a, NEW b, NEW sched, NEW f,
         f = [day \in S |-> WholeSeconds(WorkedOn(day, a, b, sched))]
  PROVE  \E g : Sums(g, f, S) /\ SecondsOn(S, a, b, sched) = g[S]
  <1> DEFINE Eq(g) == g = [s \in SUBSET S |->
                 IF s = {} THEN 0
                 ELSE WholeSeconds(WorkedOn(CHOOSE x \in s : TRUE, a, b, sched))
                      + g[s \ {CHOOSE x \in s : TRUE}]]
             g0 == CHOOSE g : Eq(g)
  <1>1. SecondsOn(S, a, b, sched) = g0[S]
    BY DEF SecondsOn, MapThenSumSet, MapThenFoldSet
  <1>2. \A s \in SUBSET S : s # {} =>
          f[CHOOSE x \in s : TRUE] = WholeSeconds(WorkedOn(CHOOSE x \in s : TRUE, a, b, sched))
    OBVIOUS
  <1>3. \A g : Eq(g) <=> Sums(g, f, S)
    <2>1. \A g, s \in SUBSET S :
            (IF s = {} THEN 0 ELSE WholeSeconds(WorkedOn(CHOOSE x \in s : TRUE, a, b, sched))
                      + g[s \ {CHOOSE x \in s : TRUE}])
            = (IF s = {} THEN 0 ELSE f[CHOOSE x \in s : TRUE]
                      + g[s \ {CHOOSE x \in s : TRUE}])
      BY <1>2
    <2>2. QED
      BY <2>1 DEF Sums
  <1> HIDE DEF Eq
  <1>4. \E g : Eq(g)
    BY <1>3, SumsExist
  <1>5. Eq(g0)
    BY <1>4
  <1>6. QED
    BY <1>1, <1>3, <1>5

-----------------------------------------------------------------------------
(* Whole seconds. *)

LEMMA WholeSecondsOf ==
  ASSUME NEW d \in Nat
  PROVE  /\ WholeSeconds(d) \in Nat
         /\ SecondLength * WholeSeconds(d) \in Int
         /\ d - SecondLength * WholeSeconds(d) \in 0..(SecondLength - 1)
  <1>1. SecondLength \in Nat \ {0} /\ d \in Int
    BY WorkingTimeAssumption
  <1> DEFINE q == d \div SecondLength
  <1>2. WholeSeconds(d) = q
    BY DEF WholeSeconds
  <1>3. q \in Int /\ q * SecondLength <= d /\ d < q * SecondLength + SecondLength
    BY <1>1, Division
  <1>4. SecondLength * q = q * SecondLength /\ q * SecondLength \in Int
    BY <1>1, <1>3
  <1>5. q >= 0
    <2>1. 0 * SecondLength < q * SecondLength + SecondLength
      BY <1>1, <1>3, <1>4
    <2> HIDE DEF q
    <2>2. QED
      BY <1>1, <1>3, <2>1, DivisionMonotonic
  <1> HIDE DEF q
  <1>6. QED
    BY <1>1, <1>2, <1>3, <1>4, <1>5

LEMMA WholeSecondsIs ==
  ASSUME NEW d \in Nat, NEW q \in Int, SecondLength * q <= d, d < SecondLength * q + SecondLength
  PROVE  WholeSeconds(d) = q
  <1>1. SecondLength \in Nat \ {0} /\ d \in Int /\ SecondLength * q = q * SecondLength
    BY WorkingTimeAssumption
  <1>2. q = d \div SecondLength
    BY <1>1, DivisionUnique
  <1>3. QED
    BY <1>2 DEF WholeSeconds

(* No more whole seconds fit into a time than into the time they last. *)
LEMMA WholeSecondsAtLeast ==
  ASSUME NEW d \in Nat, NEW q \in Nat, SecondLength * q \in 0..d
  PROVE  WholeSeconds(d) \in Nat /\ q <= WholeSeconds(d)
  <1> DEFINE L == SecondLength
             w == WholeSeconds(d)
  <1>1. /\ L \in Nat \ {0} /\ w \in Nat /\ L * w \in Int /\ d - L * w \in 0..(L - 1)
        /\ L * q \in 0..d
    BY WholeSecondsOf, WorkingTimeAssumption
  <1> HIDE DEF L, w
  <1>2. ASSUME w < q PROVE FALSE
    <2>1. w + 1 <= q /\ L * (w + 1) = L * w + L /\ L * (w + 1) <= L * q
      BY <1>1, <1>2
    <2> DEFINE x == L * w
               y == L * q
    <2>2. x \in Int /\ y \in Int /\ d - x <= L - 1 /\ y <= d /\ x + L <= y
      BY <1>1, <2>1
    <2> HIDE DEF x, y
    <2>3. QED
      BY <1>1, <2>2
  <1>3. QED
    BY <1>1, <1>2 DEF w

(* Two durations have the whole seconds of their parts, or one more. *)
LEMMA WholeSecondsOfParts ==
  ASSUME NEW x \in Nat, NEW y \in Nat
  PROVE  WholeSeconds(x + y) - (WholeSeconds(x) + WholeSeconds(y)) \in 0..1
  <1> DEFINE u == WholeSeconds(x)
             v == WholeSeconds(y)
             w == WholeSeconds(x + y)
             L == SecondLength
  <1>1. L \in Nat \ {0} /\ x + y \in Nat
    BY WorkingTimeAssumption
  <1>2. /\ u \in Nat /\ v \in Nat /\ w \in Nat
        /\ L * u \in Int /\ L * v \in Int /\ L * w \in Int
        /\ x - L * u \in 0..(L - 1) /\ y - L * v \in 0..(L - 1)
        /\ (x + y) - L * w \in 0..(L - 1)
    BY <1>1, WholeSecondsOf
  <1> HIDE DEF u, v, w, L
  <1>3. u + v <= w
    <2>1. (u + v) * L = L * u + L * v /\ w * L = L * w
      BY <1>1, <1>2
    <2>2. (u + v) * L < w * L + L /\ u + v \in Int /\ w \in Int
      BY <1>1, <1>2, <2>1
    <2>3. QED
      BY <1>1, <2>2, DivisionMonotonic
  <1>4. w <= (u + v) + 1
    <2>1. ((u + v) + 1) * L = (L * u + L * v) + L /\ w * L = L * w
      BY <1>1, <1>2
    <2>2. w * L < ((u + v) + 1) * L + L /\ (u + v) + 1 \in Int /\ w \in Int
      BY <1>1, <1>2, <2>1
    <2>3. QED
      BY <1>1, <2>2, DivisionMonotonic
  <1>5. w - (u + v) \in 0..1
    BY <1>2, <1>3, <1>4
  <1>6. QED
    BY <1>5 DEF u, v, w

(* What lies between two whole seconds is whole seconds. *)
LEMMA WholeSecondsBetween ==
  ASSUME NEW x \in Nat, NEW y \in Nat, x <= y, x % SecondLength = 0, y % SecondLength = 0
  PROVE  SecondLength * WholeSeconds(y - x) = y - x
  <1> DEFINE L == SecondLength
             u == x \div L
             v == y \div L
  <1>1. L \in Nat \ {0} /\ y - x \in Nat
    BY WorkingTimeAssumption
  <1>2. u \in Int /\ v \in Int /\ x = L * u /\ y = L * v
    BY <1>1
  <1> HIDE DEF u, v, L
  <1>3. L * (v - u) = y - x /\ v - u \in Int
    BY <1>1, <1>2
  <1>4. SecondLength * (v - u) <= y - x /\ y - x < SecondLength * (v - u) + SecondLength
    BY <1>1, <1>3 DEF L
  <1>5. WholeSeconds(y - x) = v - u
    BY <1>1, <1>3, <1>4, WholeSecondsIs
  <1>6. QED
    BY <1>3, <1>5 DEF L

-----------------------------------------------------------------------------
(* Working time. *)

(* The worked instants of one day of an interval. *)
Instants(day, start, end, sched) ==
  {t \in start..(end - 1) :
     /\ DayOf(t + sched.offset) = day
     /\ sched.work_start <= (t + sched.offset) - day * DayLength
     /\ (t + sched.offset) - day * DayLength < sched.work_end}

LEMMA WorkedOnCounts ==
  ASSUME NEW a \in Int, NEW b \in Int, NEW day \in Int, NEW sched \in Schedules
  PROVE  /\ IsFiniteSet(Instants(day, a, b, sched))
         /\ WorkedOn(day, a + sched.offset, b + sched.offset, sched)
            = Cardinality(Instants(day, a, b, sched))
  <1> DEFINE off == sched.offset
             base == day * DayLength
             lo == Upper(a + off, base + sched.work_start) - off
             hi == Lower(b + off, base + sched.work_end) - off - 1
             worked == {t \in a..(b - 1) :
                          /\ DayOf(t + off) = day
                          /\ sched.work_start <= (t + off) - base
                          /\ (t + off) - base < sched.work_end}
  <1>1. /\ DayLength \in Nat \ {0} /\ off \in Int /\ base \in Int
        /\ sched.work_start \in 0..DayLength /\ sched.work_end \in 0..DayLength
    BY WorkingTimeAssumption DEF Schedules, TimesOfDay
  <1>2. lo \in Int /\ hi \in Int
    BY <1>1 DEF Upper, Lower
  <1>3. \A t \in Int : base <= t + off /\ t + off < base + DayLength => DayOf(t + off) = day
    <2>1. ASSUME NEW t \in Int, base <= t + off, t + off < base + DayLength
          PROVE  day = (t + off) \div DayLength
      <3>1. /\ DayLength \in Nat \ {0} /\ t + off \in Int
            /\ day * DayLength <= t + off /\ t + off < day * DayLength + DayLength
        BY <1>1, <2>1
      <3> HIDE DEF base, off, lo, hi, worked
      <3>2. QED
        BY <3>1, DivisionUnique
    <2>2. QED
      BY <2>1 DEF DayOf
  <1> HIDE DEF base, off
  <1>4. worked = lo..hi
    <2>1. ASSUME NEW t \in lo..hi PROVE t \in worked
      <3>1. /\ t \in Int /\ a <= t /\ t <= b - 1
            /\ sched.work_start <= (t + off) - base /\ (t + off) - base < sched.work_end
        BY <1>1, <1>2 DEF Upper, Lower
      <3>2. QED
        BY <1>1, <1>3, <3>1
    <2>2. ASSUME NEW t \in worked PROVE t \in lo..hi
      BY <1>1, <1>2 DEF Upper, Lower
    <2>3. QED
      BY <2>1, <2>2
  <1>5. IsFiniteSet(lo..hi) /\ Cardinality(lo..hi) = IF lo > hi THEN 0 ELSE hi - lo + 1
    BY <1>2, FS_Interval
  <1>6. WorkedOn(day, a + off, b + off, sched) = IF lo > hi THEN 0 ELSE hi - lo + 1
    BY <1>1, <1>2 DEF WorkedOn, Overlap, Upper, Lower, base
  <1>7. QED
    BY <1>4, <1>5, <1>6 DEF off, base, Instants

LEMMA DayOfFacts ==
  ASSUME NEW x \in Int, NEW y \in Int, x <= y
  PROVE  DayOf(x) \in Int /\ DayOf(y) \in Int /\ DayOf(x) <= DayOf(y)
  <1>1. DayLength \in Nat \ {0}
    BY WorkingTimeAssumption
  <1>2. /\ x \div DayLength \in Int /\ y \div DayLength \in Int
        /\ (x \div DayLength) * DayLength <= x
        /\ y < (y \div DayLength) * DayLength + DayLength
    BY <1>1, Division
  <1>3. (x \div DayLength) * DayLength < (y \div DayLength) * DayLength + DayLength
    BY <1>1, <1>2
  <1>4. x \div DayLength <= y \div DayLength
    BY <1>1, <1>2, <1>3, DivisionMonotonic
  <1>5. QED
    BY <1>2, <1>4 DEF DayOf

WorkingDays(start, end, sched) ==
  {day \in DayOf(start + sched.offset)..DayOf(end + sched.offset) : IsWorkingDay(day, sched)}

LEMMA InstantsAreWorked ==
  ASSUME NEW start \in Int, NEW end \in Int, start < end,
         NEW sched \in Schedules, sched # NoSchedule
  PROVE  /\ WorkingDays(start, end, sched) \subseteq Int
         /\ IsFiniteSet(WorkingDays(start, end, sched))
         /\ UNION {Instants(day, start, end, sched) : day \in WorkingDays(start, end, sched)}
            = {t \in start..(end - 1) : IsWorked(t, sched)}
  <1> DEFINE from == DayOf(start + sched.offset)
             to == DayOf(end + sched.offset)
  <1>1. sched.offset \in Int
    BY DEF Schedules
  <1>2. from \in Int /\ to \in Int
    BY <1>1, DayOfFacts
  <1>3. WorkingDays(start, end, sched) \in SUBSET (from..to) /\ IsFiniteSet(from..to)
    BY <1>2, FS_Interval DEF WorkingDays
  <1>4. ASSUME NEW t \in start..(end - 1), IsWorked(t, sched)
        PROVE  \E day \in WorkingDays(start, end, sched) : t \in Instants(day, start, end, sched)
    <2> DEFINE day == DayOf(t + sched.offset)
    <2>1. /\ IsWorkingDay(day, sched)
          /\ sched.work_start <= (t + sched.offset) - day * DayLength
          /\ (t + sched.offset) - day * DayLength < sched.work_end
      BY <1>4 DEF IsWorked
    <2>2. /\ start + sched.offset \in Int /\ end + sched.offset \in Int /\ t + sched.offset \in Int
          /\ start + sched.offset <= t + sched.offset /\ t + sched.offset <= end + sched.offset
      BY <1>1
    <2>3. from <= day /\ day <= to /\ day \in Int
      BY <2>2, DayOfFacts
    <2>4. day \in WorkingDays(start, end, sched)
      BY <1>2, <2>1, <2>3 DEF WorkingDays
    <2>5. t \in Instants(day, start, end, sched)
      BY <2>1 DEF Instants
    <2>6. QED
      BY <2>4, <2>5
  <1>5. ASSUME NEW day \in WorkingDays(start, end, sched), NEW t \in Instants(day, start, end, sched)
        PROVE  t \in start..(end - 1) /\ IsWorked(t, sched)
    <2>1. IsWorkingDay(day, sched)
      BY DEF WorkingDays
    <2>2. /\ t \in start..(end - 1) /\ DayOf(t + sched.offset) = day
          /\ sched.work_start <= (t + sched.offset) - day * DayLength
          /\ (t + sched.offset) - day * DayLength < sched.work_end
      BY DEF Instants
    <2>3. QED
      BY <2>1, <2>2 DEF IsWorked
  <1> HIDE DEF from, to
  <1>6. IsFiniteSet(WorkingDays(start, end, sched)) /\ WorkingDays(start, end, sched) \subseteq Int
    BY <1>2, <1>3, FS_Subset
  <1>7. QED
    BY <1>4, <1>5, <1>6

LEMMA HoursAreCounted ==
  ASSUME NEW start \in Int, NEW end \in Int, start < end,
         NEW sched \in Schedules, sched # NoSchedule, NEW f, NEW g,
         f = [day \in WorkingDays(start, end, sched) |->
                WorkedOn(day, start + sched.offset, end + sched.offset, sched)],
         Sums(g, f, WorkingDays(start, end, sched))
  PROVE  g[WorkingDays(start, end, sched)] = Worked(start, end, sched)
  <1> DEFINE worked == {t \in start..(end - 1) : IsWorked(t, sched)}
             S == WorkingDays(start, end, sched)
             A == [day \in S |-> Instants(day, start, end, sched)]
  <1>1. /\ S \subseteq Int /\ IsFiniteSet(S)
        /\ UNION {Instants(day, start, end, sched) : day \in S} = worked
    BY InstantsAreWorked
  <1>2. ASSUME NEW day \in S PROVE IsFiniteSet(A[day]) /\ f[day] = Cardinality(A[day])
    <2>1. day \in Int /\ sched \in Schedules
      BY <1>1
    <2>2. QED
      BY <2>1, WorkedOnCounts
  <1>3. \A x, y \in S : x # y => A[x] \cap A[y] = {}
    BY DEF Instants
  <1>4. f \in [S -> Int]
    <2>1. \A day \in S : f[day] \in Int
      BY <1>2, FS_CardinalityType
    <2> HIDE DEF S
    <2>2. DOMAIN f = S /\ f = [day \in S |-> f[day]]
      BY DEF S
    <2>3. QED
      BY <2>1, <2>2
  <1>5. Joined(A, S) = worked
    <2>1. Joined(A, S) = UNION {Instants(day, start, end, sched) : day \in S}
      BY DEF Joined
    <2>2. QED
      BY <1>1, <2>1
  <1>6. Sums(g, f, S)
    OBVIOUS
  <1>7. Worked(start, end, sched) = Cardinality(worked)
    BY DEF Worked
  <1> HIDE DEF A, S, worked
  <1>8. Sizes(f, A, S)
    BY <1>1, <1>2, <1>3, <1>4 DEF Sizes
  <1>9. g[S] = Cardinality(Joined(A, S))
    BY <1>6, <1>8, SumOfSizes
  <1>10. QED
    BY <1>5, <1>7, <1>9 DEF S

(* Where a day lies beside another instant. *)
LEMMA DaysAround ==
  ASSUME NEW x \in Int, NEW day \in Int
  PROVE  /\ day * DayLength \in Int /\ DayOf(x) \in Int
         /\ day < DayOf(x) => day * DayLength + DayLength <= x
         /\ day > DayOf(x) => x < day * DayLength
         /\ day * DayLength <= x /\ x < day * DayLength + DayLength => DayOf(x) = day
  <1>1. DayLength \in Nat \ {0}
    BY WorkingTimeAssumption
  <1> DEFINE q == x \div DayLength
  <1>2. q \in Int /\ q * DayLength <= x /\ x < q * DayLength + DayLength
    BY <1>1, Division
  <1>3. day * DayLength \in Int /\ q * DayLength \in Int
    BY <1>1, <1>2
  <1>4. DayOf(x) = q
    BY DEF DayOf
  <1> HIDE DEF q
  <1>5. x < day * DayLength + DayLength => q <= day
    <2>1. x < day * DayLength + DayLength => q * DayLength < day * DayLength + DayLength
      BY <1>1, <1>2, <1>3
    <2>2. QED
      BY <1>1, <1>2, <2>1, DivisionMonotonic
  <1>6. day * DayLength <= x => day <= q
    <2>1. day * DayLength <= x => day * DayLength < q * DayLength + DayLength
      BY <1>1, <1>2, <1>3
    <2>2. QED
      BY <1>1, <1>2, <2>1, DivisionMonotonic
  <1> DEFINE base == day * DayLength
  <1>7. base \in Int /\ (x < base + DayLength => q <= day) /\ (base <= x => day <= q)
    BY <1>3, <1>5, <1>6
  <1> HIDE DEF base
  <1>8. /\ day < q => base + DayLength <= x
        /\ day > q => x < base
        /\ base <= x /\ x < base + DayLength => q = day
    BY <1>1, <1>2, <1>7
  <1>9. QED
    BY <1>2, <1>3, <1>4, <1>8 DEF base

(* What is worked of a day is whole seconds, but for the first and the last *)
(* day of an interval.                                                       *)
LEMMA HoursOfDay ==
  ASSUME NEW a \in Int, NEW b \in Int, a <= b, NEW day \in Int, NEW sched \in Schedules
  PROVE  /\ WorkedOn(day, a, b, sched) \in Nat
         /\ day \notin DayOf(a)..DayOf(b) => WorkedOn(day, a, b, sched) = 0
         /\ day # DayOf(a) /\ day # DayOf(b) =>
              SecondLength * WholeSeconds(WorkedOn(day, a, b, sched)) = WorkedOn(day, a, b, sched)
  <1> DEFINE base == day * DayLength
             ws == sched.work_start
             we == sched.work_end
             w == WorkedOn(day, a, b, sched)
  <1>1. /\ DayLength \in Nat /\ ws \in 0..DayLength /\ we \in 0..DayLength
        /\ ws % SecondLength = 0 /\ we % SecondLength = 0
    BY WorkingTimeAssumption DEF Schedules, TimesOfDay
  <1>2. /\ base \in Int /\ DayOf(a) \in Int /\ DayOf(b) \in Int
        /\ day < DayOf(a) => base + DayLength <= a
        /\ day > DayOf(b) => b < base
        /\ day > DayOf(a) => a < base
        /\ day < DayOf(b) => base + DayLength <= b
    BY DaysAround
  <1>3. w = Upper(Lower(b, base + we) - Upper(a, base + ws), 0)
    BY DEF WorkedOn, Overlap
  <1> HIDE DEF base, ws, we, w
  <1>4. w \in Nat
    BY <1>1, <1>2, <1>3 DEF Upper, Lower
  <1>5. day < DayOf(a) \/ day > DayOf(b) => w = 0
    BY <1>1, <1>2, <1>3 DEF Upper, Lower
  <1>6. WholeSeconds(0) = 0
    <2>1. SecondLength \in Nat \ {0}
      BY WorkingTimeAssumption
    <2>2. SecondLength * 0 = 0
      BY <2>1
    <2>3. SecondLength * 0 <= 0 /\ 0 < SecondLength * 0 + SecondLength /\ 0 \in Nat /\ 0 \in Int
      BY <2>1, <2>2
    <2>4. QED
      BY <2>3, WholeSecondsIs
  <1>7. w = 0 => SecondLength * WholeSeconds(w) = w
    <2>1. SecondLength \in Nat \ {0}
      BY WorkingTimeAssumption
    <2>2. QED
      BY <1>6, <2>1
  <1>8. ASSUME day > DayOf(a), day < DayOf(b) PROVE SecondLength * WholeSeconds(w) = w
    <2>1. w = IF ws <= we THEN we - ws ELSE 0
      BY <1>1, <1>2, <1>3, <1>8 DEF Upper, Lower
    <2>2. CASE ws <= we
      <3>1. w = we - ws /\ ws \in Nat /\ we \in Nat
        BY <1>1, <2>1, <2>2
      <3>2. SecondLength * WholeSeconds(we - ws) = we - ws
        BY <1>1, <2>2, <3>1, WholeSecondsBetween
      <3>3. QED
        BY <3>1, <3>2
    <2>3. CASE ~(ws <= we)
      BY <1>7, <2>1, <2>3
    <2>4. QED
      BY <2>2, <2>3
  <1>9. QED
    BY <1>2, <1>4, <1>5, <1>7, <1>8 DEF w

(* The hours of a day on both sides of a cut. *)
LEMMA HoursCut ==
  ASSUME NEW a \in Int, NEW c \in Int, NEW b \in Int, a <= c, c <= b,
         NEW day \in Int, NEW sched \in Schedules
  PROVE  /\ WorkedOn(day, a, b, sched) = WorkedOn(day, a, c, sched) + WorkedOn(day, c, b, sched)
         /\ day # DayOf(c) => WorkedOn(day, a, c, sched) = 0 \/ WorkedOn(day, c, b, sched) = 0
  <1> DEFINE base == day * DayLength
             ws == sched.work_start
             we == sched.work_end
  <1>1. DayLength \in Nat /\ ws \in 0..DayLength /\ we \in 0..DayLength
    BY WorkingTimeAssumption DEF Schedules, TimesOfDay
  <1>2. /\ base \in Int /\ DayOf(c) \in Int
        /\ day < DayOf(c) => base + DayLength <= c
        /\ day > DayOf(c) => c < base
    BY DaysAround
  <1>3. /\ WorkedOn(day, a, b, sched) = Upper(Lower(b, base + we) - Upper(a, base + ws), 0)
        /\ WorkedOn(day, a, c, sched) = Upper(Lower(c, base + we) - Upper(a, base + ws), 0)
        /\ WorkedOn(day, c, b, sched) = Upper(Lower(b, base + we) - Upper(c, base + ws), 0)
    BY DEF WorkedOn, Overlap
  <1> HIDE DEF base, ws, we
  <1>4. QED
    BY <1>1, <1>2, <1>3 DEF Upper, Lower

LEMMA SecondsAreSummed ==
  ASSUME NEW start \in Int, NEW end \in Int, start < end,
         NEW sched \in Schedules, sched # NoSchedule
  PROVE  WorkingSecondsBetween(start, end, sched)
         = SecondsOn(WorkingDays(start, end, sched), start + sched.offset,
                     end + sched.offset, sched)
  <1>1. ~(start >= end)
    OBVIOUS
  <1>2. QED
    BY <1>1 DEF WorkingSecondsBetween, WorkingDays, SecondsOn

(* working_seconds_between tells the worked instants of an interval,        *)
(* whatever the schedule: int() of each working day loses less than a       *)
(* second on the first and on the last day, and nothing in between.         *)
THEOREM WorkingTimeIsCounted ==
  ASSUME NEW start \in Int, NEW end \in Int, NEW sched \in Schedules \cup {NoSchedule}
  PROVE  /\ Tells(WorkingSecondsBetween(start, end, sched), 1, Worked(start, end, sched))
         /\ WorkingSecondsBetween(start, end, sched) \in Nat
         /\ Worked(start, end, sched) \in Nat
  <1> DEFINE worked == {t \in start..(end - 1) : IsWorked(t, sched)}
             L == SecondLength
             seconds == WorkingSecondsBetween(start, end, sched)
             instants == Worked(start, end, sched)
  <1>1. worked \in SUBSET (start..(end - 1)) /\ IsFiniteSet(start..(end - 1))
    BY FS_Interval
  <1>2. IsFiniteSet(worked) /\ Cardinality(worked) \in Nat
    BY <1>1, FS_Subset, FS_CardinalityType
  <1>3. instants = Cardinality(worked) /\ instants \in Nat
    BY <1>2 DEF Worked
  <1>4. L \in Nat \ {0}
    BY WorkingTimeAssumption
  <1>5. CASE start >= end
    <2>1. worked = {}
      BY <1>5
    <2>2. seconds = 0
      BY <1>5 DEF WorkingSecondsBetween
    <2> HIDE DEF worked
    <2>3. instants = 0
      BY <1>3, <2>1, FS_EmptySet
    <2> HIDE DEF seconds, instants
    <2>4. instants - L * seconds = 0 /\ seconds \in Nat
      BY <1>4, <2>2, <2>3
    <2>5. QED
      BY <1>3, <1>4, <2>4 DEF Tells, seconds, instants, L
  <1>6. CASE start < end /\ sched = NoSchedule
    <2>1. worked = start..(end - 1)
      BY <1>6 DEF IsWorked
    <2>2. Cardinality(start..(end - 1)) = end - start
      BY <1>6, FS_Interval
    <2>3. ~(start >= end) /\ end - start \in Nat
      BY <1>6
    <2>4. seconds = WholeSeconds(end - start)
      BY <1>6, <2>3 DEF WorkingSecondsBetween
    <2>5. instants = end - start
      BY <1>3, <2>1, <2>2
    <2>6. seconds \in Nat /\ L * seconds \in Int /\ instants - L * seconds \in 0..(L - 1)
      BY <2>3, <2>4, <2>5, WholeSecondsOf
    <2> HIDE DEF seconds, instants, worked
    <2>7. instants - L * seconds \in 0..(2 * 1 * (L - 1))
      BY <1>4, <2>6
    <2>8. QED
      BY <1>3, <2>6, <2>7 DEF Tells, seconds, instants, L
  <1>7. CASE start < end /\ sched # NoSchedule
    <2> DEFINE S == WorkingDays(start, end, sched)
               ls == start + sched.offset
               le == end + sched.offset
               h == [day \in S |-> WorkedOn(day, ls, le, sched)]
               f == [day \in S |-> WholeSeconds(WorkedOn(day, ls, le, sched))]
               e == [day \in S |-> 0]
               first == DayOf(ls)
               last == DayOf(le)
    <2>1. sched \in Schedules
      BY <1>7
    <2>2. S \subseteq Int /\ IsFiniteSet(S)
      BY <1>7, <2>1, InstantsAreWorked
    <2>3. ls \in Int /\ le \in Int /\ ls <= le
      BY <1>7, <2>1 DEF Schedules
    <2>4. seconds = SecondsOn(S, ls, le, sched)
      BY <1>7, <2>1, SecondsAreSummed
    <2>5. PICK sf : Sums(sf, f, S) /\ SecondsOn(S, ls, le, sched) = sf[S]
      <3>1. f = [day \in S |-> WholeSeconds(WorkedOn(day, ls, le, sched))]
        OBVIOUS
      <3> HIDE DEF f, ls, le, S
      <3>2. QED
        BY <2>2, <3>1, DaysAreSummed
    <2>6. PICK sh : Sums(sh, h, S)
      BY <2>2, SumsExist
    <2>7. PICK se : Sums(se, e, S)
      BY <2>2, SumsExist
    <2>8. sh[S] = instants
      BY <1>7, <2>1, <2>6, HoursAreCounted
    <2>9. ASSUME NEW day \in S
          PROVE  /\ h[day] \in Nat /\ f[day] \in Nat /\ e[day] = 0 /\ L * f[day] \in Int
                 /\ L * f[day] + e[day] <= h[day]
                 /\ h[day] <= (L * f[day] + e[day])
                              + (IF day = first \/ day = last THEN L - 1 ELSE 0)
      <3> DEFINE w == WorkedOn(day, ls, le, sched)
      <3>1. day \in Int
        BY <2>2
      <3>2. w \in Nat /\ (day # first /\ day # last => L * WholeSeconds(w) = w)
        BY <2>1, <2>3, <3>1, HoursOfDay
      <3>3. h[day] = w /\ f[day] = WholeSeconds(w) /\ e[day] = 0
        OBVIOUS
      <3> HIDE DEF w, h, f, e, first, last
      <3>4. WholeSeconds(w) \in Nat /\ L * WholeSeconds(w) \in Int
            /\ w - L * WholeSeconds(w) \in 0..(L - 1)
        BY <3>2, WholeSecondsOf
      <3>5. QED
        BY <1>4, <3>2, <3>3, <3>4
    <2>10. DOMAIN h = S /\ DOMAIN f = S /\ DOMAIN e = S
      OBVIOUS
    <2>11. h = [day \in S |-> h[day]] /\ f = [day \in S |-> f[day]] /\ e = [day \in S |-> e[day]]
      OBVIOUS
    <2> HIDE DEF S, ls, le, h, f, first, last, seconds, instants, worked
    <2>12. h \in [S -> Int] /\ f \in [S -> Int] /\ e \in [S -> Int]
      BY <2>9, <2>11
    <2>14. /\ sf[S] \in Int /\ se[S] \in Int /\ sh[S] \in Int
           /\ L * sf[S] + se[S] <= sh[S]
           /\ sh[S] <= (L * sf[S] + se[S])
                       + (IF first = last THEN L - 1 ELSE (L - 1) + (L - 1))
      <3> DEFINE c == L - 1
      <3>1. L \in Nat /\ c \in Nat
        BY <1>4
      <3>2. Compares(f, e, h, S, L, c, first, last)
        BY <2>9 DEF Compares
      <3>3. Summed(sf, f, S) /\ Summed(se, e, S) /\ Summed(sh, h, S)
        BY <2>2, <2>5, <2>6, <2>7, <2>12 DEF Summed
      <3> HIDE DEF e, L, c
      <3>4. /\ sf[S] \in Int /\ se[S] \in Int /\ sh[S] \in Int
            /\ L * sf[S] + se[S] <= sh[S]
            /\ sh[S] <= (L * sf[S] + se[S]) + (IF first = last THEN c ELSE c + c)
        BY <3>1, <3>2, <3>3, SumsCompare, Zenon
      <3>5. QED
        BY <3>4 DEF c
    <2>15. se[S] = 0 /\ sf[S] >= 0
      <3>1. f \in [S -> Nat] /\ e \in [S -> Nat]
        BY <2>9, <2>11
      <3>2. \A x \in S : e[x] = 0
        OBVIOUS
      <3>3. Sums(se, e, S) /\ Sums(sf, f, S) /\ IsFiniteSet(S)
        BY <2>2, <2>5, <2>7
      <3> HIDE DEF e
      <3>4. se[S] = 0
        BY <3>1, <3>2, <3>3, SumOfNats
      <3>5. sf[S] \in Nat
        BY <3>1, <3>3, SumOfNats
      <3>6. QED
        BY <3>4, <3>5
    <2>16. seconds = sf[S] /\ instants = sh[S]
      BY <2>4, <2>5, <2>8
    <2>17. seconds \in Nat /\ L * seconds \in Int
      BY <1>4, <2>14, <2>15, <2>16
    <2>18. instants - L * seconds \in 0..(2 * 1 * (L - 1))
      BY <1>3, <1>4, <2>14, <2>15, <2>16, <2>17
    <2>19. QED
      BY <1>3, <2>17, <2>18 DEF Tells, seconds, instants, L
  <1>8. QED
    BY <1>5, <1>6, <1>7

LEMMA WorkedAdds ==
  ASSUME NEW a \in Int, NEW b \in Int, NEW cut \in a..b, NEW sched \in Schedules \cup {NoSchedule}
  PROVE  /\ Worked(a, cut, sched) + Worked(cut, b, sched) = Worked(a, b, sched)
         /\ Worked(a, b, sched) \in 0..(b - a)
  <1> DEFINE instants(x, y) == {t \in x..(y - 1) : IsWorked(t, sched)}
  <1>1. ASSUME NEW x \in Int, NEW y \in Int
        PROVE  /\ IsFiniteSet(instants(x, y)) /\ Cardinality(instants(x, y)) \in Nat
               /\ Worked(x, y, sched) = Cardinality(instants(x, y))
    <2>1. instants(x, y) \in SUBSET (x..(y - 1)) /\ IsFiniteSet(x..(y - 1))
      BY FS_Interval
    <2>2. IsFiniteSet(instants(x, y)) /\ Cardinality(instants(x, y)) \in Nat
      BY <2>1, FS_Subset, FS_CardinalityType
    <2>3. Worked(x, y, sched) = Cardinality(instants(x, y))
      BY DEF Worked
    <2>4. QED
      BY <2>2, <2>3
  <1>2. cut \in Int /\ a <= cut /\ cut <= b
    OBVIOUS
  <1>3. instants(a, cut) \cup instants(cut, b) = instants(a, b)
    BY <1>2
  <1>4. instants(a, cut) \cap instants(cut, b) = {}
    BY <1>2
  <1>5. instants(a, b) \subseteq a..(b - 1) /\ IsFiniteSet(a..(b - 1))
        /\ Cardinality(a..(b - 1)) = b - a
    <2>1. IsFiniteSet(a..(b - 1))
          /\ Cardinality(a..(b - 1)) = IF a > b - 1 THEN 0 ELSE (b - 1) - a + 1
      BY FS_Interval
    <2>2. QED
      BY <1>2, <2>1
  <1> HIDE DEF instants
  <1>6. Cardinality(instants(a, b)) <= b - a
    BY <1>5, FS_Subset
  <1>7. Cardinality(instants(a, b)) = Cardinality(instants(a, cut)) + Cardinality(instants(cut, b))
    <2>1. /\ IsFiniteSet(instants(a, cut)) /\ IsFiniteSet(instants(cut, b))
          /\ Cardinality(instants(a, cut)) \in Nat /\ Cardinality(instants(cut, b)) \in Nat
      BY <1>1, <1>2
    <2>2. Cardinality(instants(a, cut) \cup instants(cut, b))
          = Cardinality(instants(a, cut)) + Cardinality(instants(cut, b))
            - Cardinality(instants(a, cut) \cap instants(cut, b))
      BY <2>1, FS_Union
    <2>3. Cardinality(instants(a, cut) \cap instants(cut, b)) = 0
      BY <1>4, FS_EmptySet
    <2>4. Cardinality(instants(a, b)) = Cardinality(instants(a, cut) \cup instants(cut, b))
      BY <1>3
    <2>5. \A x, y, z, u \in Int : (z = 0 /\ u = x + y - z) => u = x + y
      OBVIOUS
    <2>6. Cardinality(instants(a, b)) \in Int
      BY <1>1
    <2>7. QED
      BY <2>1, <2>2, <2>3, <2>4, <2>5, <2>6
  <1>8. QED
    BY <1>1, <1>2, <1>6, <1>7

(* Cutting an interval in two counts no second twice and loses at most one, *)
(* whatever the schedule: the second that the cut divides.  And no more     *)
(* seconds are worked than pass.                                            *)
THEOREM WorkingTimeAdds ==
  ASSUME NEW a \in Int, NEW b \in Int, NEW cut \in a..b, NEW sched \in Schedules \cup {NoSchedule}
  PROVE  /\ WorkingSecondsBetween(a, b, sched)
            - (WorkingSecondsBetween(a, cut, sched) + WorkingSecondsBetween(cut, b, sched)) \in 0..1
         /\ SecondLength * WorkingSecondsBetween(a, b, sched) \in 0..(b - a)
  <1> DEFINE L == SecondLength
             whole == WorkingSecondsBetween(a, b, sched)
             before == WorkingSecondsBetween(a, cut, sched)
             after == WorkingSecondsBetween(cut, b, sched)
  <1>1. L \in Nat \ {0} /\ cut \in Int /\ a <= cut /\ cut <= b
    BY WorkingTimeAssumption
  <1>2. whole \in Nat /\ before \in Nat /\ after \in Nat
    BY <1>1, WorkingTimeIsCounted
  <1>3. L * whole \in 0..(b - a)
    <2>1. /\ Tells(whole, 1, Worked(a, b, sched)) /\ Worked(a, b, sched) \in 0..(b - a)
      BY WorkingTimeIsCounted, WorkedAdds
    <2>2. Worked(a, b, sched) - SecondLength * whole \in 0..(2 * 1 * (SecondLength - 1))
      BY <2>1, Zenon DEF Tells
    <2>3. L * whole \in Nat
      BY <1>1, <1>2
    <2> HIDE DEF whole
    <2>4. QED
      BY <1>1, <2>1, <2>2, <2>3
  <1>4. CASE cut = a
    <2>1. before = 0 /\ after = whole
      BY <1>1, <1>4 DEF WorkingSecondsBetween
    <2>2. whole - (before + after) \in 0..1
      <3> HIDE DEF whole, before, after
      <3>1. QED
        BY <1>2, <2>1
    <2>3. QED
      BY <1>3, <2>2
  <1>5. CASE cut = b
    <2>1. after = 0 /\ before = whole
      BY <1>1, <1>5 DEF WorkingSecondsBetween
    <2>2. whole - (before + after) \in 0..1
      <3> HIDE DEF whole, before, after
      <3>1. QED
        BY <1>2, <2>1
    <2>3. QED
      BY <1>3, <2>2
  <1>6. CASE a < cut /\ cut < b /\ sched = NoSchedule
    <2>1. ~(a >= cut) /\ ~(cut >= b) /\ ~(a >= b)
      BY <1>1, <1>6
    <2>2. /\ whole = WholeSeconds(b - a) /\ before = WholeSeconds(cut - a)
          /\ after = WholeSeconds(b - cut)
      BY <1>6, <2>1 DEF WorkingSecondsBetween
    <2>3. cut - a \in Nat /\ b - cut \in Nat /\ (cut - a) + (b - cut) = b - a
      BY <1>1
    <2>4. WholeSeconds((cut - a) + (b - cut))
          - (WholeSeconds(cut - a) + WholeSeconds(b - cut)) \in 0..1
      BY <2>3, WholeSecondsOfParts
    <2> HIDE DEF whole, before, after
    <2>5. whole - (before + after) \in 0..1
      BY <2>2, <2>3, <2>4
    <2>6. QED
      BY <1>3, <2>5 DEF whole, before, after, L
  <1>7. CASE a < cut /\ cut < b /\ sched # NoSchedule
    <2> DEFINE la == a + sched.offset
               lb == b + sched.offset
               lc == cut + sched.offset
               D == WorkingDays(a, b, sched)
               D1 == WorkingDays(a, cut, sched)
               D2 == WorkingDays(cut, b, sched)
               at == DayOf(lc)
               h == [day \in D |-> WholeSeconds(WorkedOn(day, la, lb, sched))]
               f == [day \in D |-> WholeSeconds(WorkedOn(day, la, lc, sched))]
               e == [day \in D |-> WholeSeconds(WorkedOn(day, lc, lb, sched))]
    <2>1. sched \in Schedules
      BY <1>7
    <2>2. la \in Int /\ lb \in Int /\ lc \in Int /\ la <= lc /\ lc <= lb /\ la <= lb
      BY <1>1, <2>1 DEF Schedules
    <2>3. /\ DayOf(la) \in Int /\ DayOf(lb) \in Int /\ DayOf(lc) \in Int
          /\ DayOf(la) <= DayOf(lc) /\ DayOf(lc) <= DayOf(lb)
      BY <2>2, DayOfFacts
    <2>4. /\ D1 = {day \in DayOf(la)..DayOf(lc) : IsWorkingDay(day, sched)}
          /\ D2 = {day \in DayOf(lc)..DayOf(lb) : IsWorkingDay(day, sched)}
          /\ D = {day \in DayOf(la)..DayOf(lb) : IsWorkingDay(day, sched)}
      BY DEF WorkingDays
    <2>5. D1 \subseteq D /\ D2 \subseteq D /\ D \subseteq Int
      BY <2>3, <2>4
    <2>6. IsFiniteSet(D)
      BY <1>1, <1>7, <2>1, InstantsAreWorked
    <2>7. IsFiniteSet(D1) /\ IsFiniteSet(D2)
      BY <2>5, <2>6, FS_Subset
    <2>8. /\ whole = SecondsOn(D, la, lb, sched)
          /\ before = SecondsOn(D1, la, lc, sched)
          /\ after = SecondsOn(D2, lc, lb, sched)
      BY <1>1, <1>7, <2>1, SecondsAreSummed
    <2>9. ASSUME NEW day \in D
          PROVE  /\ h[day] \in Nat /\ f[day] \in Nat /\ e[day] \in Nat
                 /\ f[day] + e[day] <= h[day]
                 /\ h[day] <= (f[day] + e[day]) + (IF day = at THEN 1 ELSE 0)
                 /\ day \notin D1 => f[day] = 0
                 /\ day \notin D2 => e[day] = 0
      <3> DEFINE x == WorkedOn(day, la, lc, sched)
                 y == WorkedOn(day, lc, lb, sched)
      <3>1. day \in Int
        BY <2>5
      <3>2. x \in Nat /\ y \in Nat /\ WorkedOn(day, la, lb, sched) = x + y
            /\ (day # at => x = 0 \/ y = 0)
        <4> HIDE DEF la, lb, lc
        <4>1. x \in Nat /\ y \in Nat
          BY <2>1, <2>2, <3>1, HoursOfDay
        <4>2. /\ WorkedOn(day, la, lb, sched) = x + y
              /\ (day # at => x = 0 \/ y = 0)
          BY <2>1, <2>2, <3>1, HoursCut
        <4>3. QED
          BY <4>1, <4>2
      <3>3. (day \notin D1 => x = 0) /\ (day \notin D2 => y = 0)
        <4>1. /\ day \notin D1 => day \notin DayOf(la)..DayOf(lc)
              /\ day \notin D2 => day \notin DayOf(lc)..DayOf(lb)
          BY <2>4
        <4>2. QED
          BY <2>1, <2>2, <3>1, <4>1, HoursOfDay
      <3>4. f[day] = WholeSeconds(x) /\ e[day] = WholeSeconds(y) /\ h[day] = WholeSeconds(x + y)
        BY <3>2
      <3> HIDE DEF x, y, f, e, h, D, D1, D2, at
      <3>5. /\ WholeSeconds(x) \in Nat /\ WholeSeconds(y) \in Nat /\ WholeSeconds(x + y) \in Nat
            /\ WholeSeconds(x + y) - (WholeSeconds(x) + WholeSeconds(y)) \in 0..1
        BY <3>2, WholeSecondsOf, WholeSecondsOfParts
      <3>6. WholeSeconds(0) = 0 /\ 0 + y = y /\ x + 0 = x
        <4>1. SecondLength * 0 = 0 /\ 0 < SecondLength /\ SecondLength \in Nat
          BY <1>1
        <4>2. SecondLength * 0 <= 0 /\ 0 < SecondLength * 0 + SecondLength /\ 0 \in Nat /\ 0 \in Int
          BY <4>1
        <4>3. QED
          BY <3>2, <4>2, WholeSecondsIs
      <3>7. x = 0 \/ y = 0 => WholeSeconds(x + y) = WholeSeconds(x) + WholeSeconds(y)
        <4>1. CASE x = 0
          BY <3>5, <3>6, <4>1
        <4>2. CASE y = 0
          BY <3>5, <3>6, <4>2
        <4>3. QED
          BY <4>1, <4>2
      <3>8. QED
        BY <3>2, <3>3, <3>4, <3>5, <3>6, <3>7
    <2>10. h = [day \in D |-> h[day]] /\ f = [day \in D |-> f[day]] /\ e = [day \in D |-> e[day]]
      OBVIOUS
    <2> DEFINE f1 == [day \in D1 |-> WholeSeconds(WorkedOn(day, la, lc, sched))]
               e2 == [day \in D2 |-> WholeSeconds(WorkedOn(day, lc, lb, sched))]
    <2>11. /\ \A day \in D1 : f1[day] = f[day]
           /\ \A day \in D2 : e2[day] = e[day]
           /\ f1 = [day \in D1 |-> f1[day]] /\ e2 = [day \in D2 |-> e2[day]]
      BY <2>5
    <2>12. /\ h = [day \in D |-> WholeSeconds(WorkedOn(day, la, lb, sched))]
           /\ f1 = [day \in D1 |-> WholeSeconds(WorkedOn(day, la, lc, sched))]
           /\ e2 = [day \in D2 |-> WholeSeconds(WorkedOn(day, lc, lb, sched))]
      OBVIOUS
    <2> HIDE DEF la, lb, lc, D, D1, D2, at, h, f, e, f1, e2, whole, before, after
    <2>13. PICK sh : Sums(sh, h, D) /\ SecondsOn(D, la, lb, sched) = sh[D]
      BY <2>6, <2>12, DaysAreSummed
    <2>14. PICK s1 : Sums(s1, f1, D1) /\ SecondsOn(D1, la, lc, sched) = s1[D1]
      BY <2>7, <2>12, DaysAreSummed
    <2>15. PICK s2 : Sums(s2, e2, D2) /\ SecondsOn(D2, lc, lb, sched) = s2[D2]
      BY <2>7, <2>12, DaysAreSummed
    <2>16. PICK sf : Sums(sf, f, D)
      BY <2>6, SumsExist
    <2>17. PICK se : Sums(se, e, D)
      BY <2>6, SumsExist
    <2>18. h \in [D -> Nat] /\ f \in [D -> Nat] /\ e \in [D -> Nat]
      BY <2>9, <2>10
    <2>19. f1 \in [D1 -> Nat] /\ e2 \in [D2 -> Nat]
      <3>1. (\A day \in D1 : f1[day] \in Nat) /\ (\A day \in D2 : e2[day] \in Nat)
        BY <2>5, <2>9, <2>11
      <3>2. QED
        BY <2>11, <3>1
    <2>20. s1[D1] = sf[D]
      <3>1. (\A day \in D \ D1 : f[day] = 0) /\ D1 \in SUBSET D
        BY <2>5, <2>9
      <3>2. QED
        BY <2>6, <2>11, <2>14, <2>16, <2>18, <2>19, <3>1, SumOfAPart
    <2>21. s2[D2] = se[D]
      <3>1. (\A day \in D \ D2 : e[day] = 0) /\ D2 \in SUBSET D
        BY <2>5, <2>9
      <3>2. QED
        BY <2>6, <2>11, <2>15, <2>17, <2>18, <2>19, <3>1, SumOfAPart
    <2>22. /\ sf[D] \in Int /\ se[D] \in Int /\ sh[D] \in Int
           /\ 1 * sf[D] + se[D] <= sh[D]
           /\ sh[D] <= (1 * sf[D] + se[D]) + (IF at = at THEN 1 ELSE 1 + 1)
      <3>1. Compares(f, e, h, D, 1, 1, at, at)
        <4>1. ASSUME NEW day \in D
              PROVE  /\ 1 * f[day] + e[day] <= h[day]
                     /\ h[day] <= (1 * f[day] + e[day]) + (IF day = at \/ day = at THEN 1 ELSE 0)
          <5>1. /\ h[day] \in Nat /\ f[day] \in Nat /\ e[day] \in Nat
                /\ f[day] + e[day] <= h[day]
                /\ h[day] <= (f[day] + e[day]) + (IF day = at THEN 1 ELSE 0)
            BY <2>9
          <5>2. QED
            BY <5>1
        <4>2. QED
          BY <4>1 DEF Compares
      <3>2. Summed(sf, f, D) /\ Summed(se, e, D) /\ Summed(sh, h, D)
        <4>1. h \in [D -> Int] /\ f \in [D -> Int] /\ e \in [D -> Int]
          BY <2>18
        <4>2. QED
          BY <2>6, <2>13, <2>16, <2>17, <4>1 DEF Summed
      <3>3. 1 \in Nat
        OBVIOUS
      <3>4. QED
        BY <3>1, <3>2, <3>3, SumsCompare, Zenon
    <2>23. before = sf[D] /\ after = se[D] /\ whole = sh[D]
      BY <2>8, <2>13, <2>14, <2>15, <2>20, <2>21
    <2>24. whole - (before + after) \in 0..1
      <3>1. \A x, y, z \in Int : (1 * x + y <= z /\ z <= (1 * x + y) + 1) => z - (x + y) \in 0..1
        OBVIOUS
      <3>2. /\ before \in Int /\ after \in Int /\ whole \in Int
            /\ 1 * before + after <= whole /\ whole <= (1 * before + after) + 1
        BY <2>22, <2>23
      <3>3. QED
        BY <3>1, <3>2
    <2> USE DEF whole, before, after
    <2>25. QED
      BY <1>3, <2>24, Zenon
  <1>8. QED
    BY <1>1, <1>4, <1>5, <1>6, <1>7

-----------------------------------------------------------------------------
(* The loop of build_time_slices. *)

Stay == [status : Names \cup {Null}, status_id : StatusIds \cup {Null},
         start_at : Nat, end_at : Nat, duration_seconds : Int, is_open : BOOLEAN]

(* Slices that follow each other from one instant to another. *)
Chain(s, from, to) ==
  /\ s \in Seq(Stay)
  /\ \A k \in 1..Len(s) : s[k].start_at <= s[k].end_at
  /\ \A k \in 1..(Len(s) - 1) : s[k].end_at = s[k + 1].start_at
  /\ IF Len(s) = 0 THEN from = to
     ELSE s[1].start_at = from /\ s[Len(s)].end_at = to

AllClosed(s) == \A k \in 1..Len(s) : ~s[k].is_open

Loops == [slices : Seq(Stay), prev_time : Nat, prev_status : Names \cup {Null},
          prev_status_id : StatusIds \cup {Null}]

(* The invariant of the loop. *)
LoopInv(loop, created) ==
  /\ loop \in Loops
  /\ Chain(loop.slices, created, loop.prev_time)
  /\ AllClosed(loop.slices)

(* Whatever is appended to a chain at its end leaves a chain. *)
LEMMA AppendToChain ==
  ASSUME NEW from \in Nat, NEW to \in Nat, NEW s, Chain(s, from, to),
         NEW e \in Stay, e.start_at = to, e.start_at <= e.end_at
  PROVE  Chain(Append(s, e), from, e.end_at)
PROOF
<1> DEFINE t == Append(s, e)
<1>1. s \in Seq(Stay) /\ Len(s) \in Nat
  BY DEF Chain
<1>2. /\ t \in Seq(Stay) /\ Len(t) = Len(s) + 1 /\ t[Len(s) + 1] = e
      /\ \A k \in 1..Len(s) : t[k] = s[k]
  BY <1>1
<1> HIDE DEF t
<1>3. \A k \in 1..Len(t) : t[k].start_at <= t[k].end_at
  BY <1>1, <1>2 DEF Chain
<1>4. ASSUME NEW k \in 1..(Len(t) - 1)
      PROVE  t[k].end_at = t[k + 1].start_at
  <2>1. CASE k = Len(s)
    BY <1>1, <1>2, <2>1 DEF Chain
  <2>2. CASE k # Len(s)
    BY <1>1, <1>2, <2>2 DEF Chain
  <2> QED
    BY <2>1, <2>2
<1>5. t[1].start_at = from /\ t[Len(t)].end_at = e.end_at /\ Len(t) # 0
  <2>1. CASE Len(s) = 0
    BY <1>1, <1>2, <2>1 DEF Chain
  <2>2. CASE Len(s) # 0
    BY <1>1, <1>2, <2>2 DEF Chain
  <2> QED
    BY <2>1, <2>2
<1> QED
  BY <1>2, <1>3, <1>4, <1>5 DEF Chain, t

(* A slice from where the loop is to a time not before it. *)
LEMMA SliceUpToStay ==
  ASSUME NEW loop \in Loops, NEW end \in Nat, loop.prev_time <= end,
         NEW open \in BOOLEAN, NEW sched,
         WorkingSecondsBetween(loop.prev_time, end, sched) \in Int
  PROVE  /\ SliceUpTo(loop, end, open, sched) \in Stay
         /\ SliceUpTo(loop, end, open, sched).start_at = loop.prev_time
         /\ SliceUpTo(loop, end, open, sched).end_at = end
         /\ SliceUpTo(loop, end, open, sched).is_open = open
PROOF
  BY DEF SliceUpTo, Loops, Stay

IsIssue(issue) ==
  /\ issue.created_at \in Nat /\ issue.done_at \in Nat \cup {Null}
  /\ issue.current_status \in Names

(* The loop starts with its invariant. *)
THEOREM FirstSliceInv ==
  ASSUME NEW issue, IsIssue(issue), NEW transitions \in Seq(Transitions)
  PROVE  LoopInv(FirstSlice(issue, transitions), issue.created_at)
PROOF
<1> DEFINE loop == FirstSlice(issue, transitions)
<1>1. transitions # <<>> => Head(transitions) \in Transitions
  OBVIOUS
<1>2. loop \in Loops
  BY <1>1 DEF FirstSlice, Loops, IsIssue, Transitions
<1>3. loop.slices = <<>> /\ loop.prev_time = issue.created_at
  BY DEF FirstSlice
<1> QED
  BY <1>2, <1>3 DEF LoopInv, Chain, AllClosed

(* One turn keeps it, for a transition at any time, also one before its    *)
(* predecessor, which is skipped.                                           *)
THEOREM NextSliceInv ==
  ASSUME NEW created \in Nat, NEW loop, LoopInv(loop, created),
         NEW t \in Transitions, NEW sched,
         WorkingSecondsBetween(loop.prev_time, t.at, sched) \in Int
  PROVE  LoopInv(NextSlice(loop, t, sched), created)
PROOF
<1>1. loop \in Loops /\ t.at \in Nat
  BY DEF LoopInv, Transitions
<1>2. CASE t.at < loop.prev_time
  BY <1>2 DEF NextSlice
<1>3. CASE ~(t.at < loop.prev_time)
  <2> DEFINE e == SliceUpTo(loop, t.at, FALSE, sched)
             next == NextSlice(loop, t, sched)
  <2>1. loop.prev_time <= t.at /\ loop.prev_time \in Nat
    BY <1>1, <1>3 DEF Loops
  <2>2. e \in Stay /\ e.start_at = loop.prev_time /\ e.end_at = t.at /\ ~e.is_open
    BY <1>1, <2>1 DEF SliceUpTo, Loops, Stay
  <2>3. /\ next.slices = Append(loop.slices, e) /\ next.prev_time = t.at
        /\ loop.slices \in Seq(Stay)
    BY <1>1, <1>3 DEF NextSlice, Loops
  <2>4. next \in Loops
    <3> HIDE DEF e
    <3>1. Append(loop.slices, e) \in Seq(Stay)
      BY <2>2, <2>3
    <3> USE DEF e
    <3>2. next.slices \in Seq(Stay)
      BY <2>3, <3>1
    <3> QED
      BY <1>1, <1>3, <3>2 DEF NextSlice, Loops, Transitions
  <2> HIDE DEF e, next
  <2>5. Chain(next.slices, created, next.prev_time)
    BY <2>1, <2>2, <2>3, AppendToChain DEF LoopInv
  <2>6. AllClosed(next.slices)
    BY <2>2, <2>3 DEF LoopInv, AllClosed
  <2> QED
    BY <2>4, <2>5, <2>6 DEF LoopInv, next
<1> QED
  BY <1>2, <1>3

(* What a loop with the invariant ends in is a partition of the life of    *)
(* the issue: a chain from its creation, no gaps and no overlaps, to its   *)
(* end, the clock or the last transition, of which only the last slice can *)
(* be open, and that only for an issue without a resolution.                *)
THEOREM LastSlicePartitions ==
  ASSUME NEW issue, IsIssue(issue), NEW loop, LoopInv(loop, issue.created_at),
         NEW doneStatuses, NEW now \in Nat, NEW sched,
         \A end \in Nat : WorkingSecondsBetween(loop.prev_time, end, sched) \in Int
  PROVE  LET last == LastSlice(loop, issue, doneStatuses, now, sched)
             s == Append(loop.slices, last)
         IN /\ Chain(s, issue.created_at, last.end_at)
            /\ \A k \in 1..(Len(s) - 1) : ~s[k].is_open
            /\ last.is_open => issue.done_at = Null
            /\ last.end_at = Upper(IF issue.done_at = Null THEN now ELSE issue.done_at,
                                   loop.prev_time)
PROOF
<1> DEFINE end == IF issue.done_at # Null THEN issue.done_at ELSE now
           open == ~(issue.done_at # Null \/ issue.current_status \in doneStatuses)
           last == LastSlice(loop, issue, doneStatuses, now, sched)
           s == Append(loop.slices, last)
<1>1. loop \in Loops /\ loop.prev_time \in Nat /\ loop.slices \in Seq(Stay)
  BY DEF LoopInv, Loops
<1>2. end \in Nat /\ open \in BOOLEAN
  BY DEF IsIssue
<1>3. last = SliceUpTo(loop, Upper(end, loop.prev_time), open, sched)
  BY DEF LastSlice
<1>4. open => issue.done_at = Null
  OBVIOUS
<1>5. end = IF issue.done_at = Null THEN now ELSE issue.done_at
  OBVIOUS
<1> HIDE DEF end, open, last
<1>6. Upper(end, loop.prev_time) \in Nat /\ loop.prev_time <= Upper(end, loop.prev_time)
  BY <1>1, <1>2 DEF Upper
<1>7. /\ last \in Stay /\ last.start_at = loop.prev_time
      /\ last.end_at = Upper(end, loop.prev_time) /\ last.is_open = open
  BY <1>1, <1>2, <1>3, <1>6, SliceUpToStay
<1>8. Chain(s, issue.created_at, last.end_at)
  <2>1. Chain(loop.slices, issue.created_at, loop.prev_time)
    BY DEF LoopInv
  <2>2. issue.created_at \in Nat
    BY DEF IsIssue
  <2> QED
    BY <1>1, <1>6, <1>7, <2>1, <2>2, AppendToChain
<1>9. \A k \in 1..(Len(s) - 1) : ~s[k].is_open
  BY <1>1, <1>7 DEF LoopInv, AllClosed
<1> QED
  BY <1>4, <1>5, <1>7, <1>8, <1>9 DEF last

Iter(base, transitions, sched) ==
  CHOOSE iter : iter = [s \in SUBSET (DOMAIN transitions) |->
     IF s = {} THEN base
     ELSE NextSlice(iter[s \ {Max(s)}], transitions[Max(s)], sched)]

Unrolled(g, m, base, transitions, sched) ==
  g = [s \in SUBSET (1..m) |->
         IF s = {} THEN base
         ELSE NextSlice(g[s \ {Max(s)}], transitions[Max(s)], sched)]

LEMMA IterExists ==
  ASSUME NEW base, NEW transitions, NEW sched, NEW n \in Nat
  PROVE  \E g : Unrolled(g, n, base, transitions, sched)
  <1> DEFINE Good == {m \in Nat : \E g : Unrolled(g, m, base, transitions, sched)}
  <1>1. 0 \in Good
    <2> DEFINE g == [s \in SUBSET (1..0) |-> base]
    <2>1. \A s \in SUBSET (1..0) : s = {}
      OBVIOUS
    <2>2. Unrolled(g, 0, base, transitions, sched)
      BY <2>1 DEF Unrolled
    <2>3. QED
      BY <2>2
  <1>2. ASSUME NEW m \in Nat, m \in Good PROVE m + 1 \in Good
    <2>1. PICK g : Unrolled(g, m, base, transitions, sched)
      BY <1>2
    <2> DEFINE turn(x, t) == NextSlice(x, transitions[t], sched)
               h == [s \in SUBSET (1..(m + 1)) |->
                       IF m + 1 \in s THEN turn(g[s \ {m + 1}], m + 1) ELSE g[s]]
    <2>2. \A s \in SUBSET (1..m) :
            g[s] = IF s = {} THEN base ELSE turn(g[s \ {Max(s)}], Max(s))
      BY <2>1 DEF Unrolled
    <2> HIDE DEF turn
    <2>3. ASSUME NEW s \in SUBSET (1..(m + 1))
          PROVE  h[s] = IF s = {} THEN base ELSE turn(h[s \ {Max(s)}], Max(s))
      <3>1. CASE m + 1 \in s
        <4>1. Max(s) = m + 1 /\ s # {}
          BY <3>1, MaxOfInterval
        <4>2. s \ {m + 1} \in SUBSET (1..(m + 1)) /\ m + 1 \notin s \ {m + 1}
          OBVIOUS
        <4>3. h[s \ {m + 1}] = g[s \ {m + 1}]
          BY <4>2
        <4>4. h[s] = turn(g[s \ {m + 1}], m + 1)
          BY <3>1
        <4>5. QED
          BY <4>1, <4>3, <4>4
      <3>2. CASE m + 1 \notin s
        <4>1. s \in SUBSET (1..m)
          BY <3>2
        <4>2. h[s] = g[s]
          BY <3>2
        <4>3. s # {} => s \ {Max(s)} \in SUBSET (1..(m + 1)) /\ m + 1 \notin s \ {Max(s)}
          BY <3>2
        <4>4. s # {} => h[s \ {Max(s)}] = g[s \ {Max(s)}]
          BY <4>3
        <4>5. QED
          BY <2>2, <4>1, <4>2, <4>4
      <3>3. QED
        BY <3>1, <3>2
    <2>4. Unrolled(h, m + 1, base, transitions, sched)
      BY <2>3 DEF Unrolled, turn
    <2>5. QED
      BY <2>4
  <1> HIDE DEF Good
  <1>3. n \in Good
    BY <1>1, <1>2, Induction
  <1>4. QED
    BY <1>3 DEF Good

LEMMA IterUnrolls ==
  ASSUME NEW base, NEW transitions, NEW sched, NEW n \in Nat, DOMAIN transitions = 1..n
  PROVE  Unrolled(Iter(base, transitions, sched), n, base, transitions, sched)
  <1>1. Iter(base, transitions, sched) = CHOOSE g : Unrolled(g, n, base, transitions, sched)
    BY DEF Unrolled, Iter
  <1>2. QED
    BY <1>1, IterExists

LEMMA IterTurns ==
  ASSUME NEW base, NEW transitions, NEW sched, NEW n \in Nat, DOMAIN transitions = 1..n
  PROVE  LET loop == Iter(base, transitions, sched)
         IN /\ loop[1..0] = base
            /\ \A k \in 1..n : loop[1..k] = NextSlice(loop[1..(k - 1)], transitions[k], sched)
  <1> DEFINE loop == Iter(base, transitions, sched)
  <1>1. \A s \in SUBSET (1..n) : loop[s] = IF s = {} THEN base
                 ELSE NextSlice(loop[s \ {Max(s)}], transitions[Max(s)], sched)
    <2>1. Unrolled(loop, n, base, transitions, sched)
      BY IterUnrolls
    <2> HIDE DEF loop
    <2>2. QED
      BY <2>1, Zenon DEF Unrolled
  <1> HIDE DEF loop
  <1>2. loop[1..0] = base
    <2>1. 1..0 = {} /\ 1..0 \in SUBSET (1..n)
      OBVIOUS
    <2>2. QED
      BY <1>1, <2>1
  <1>3. ASSUME NEW k \in 1..n
        PROVE  loop[1..k] = NextSlice(loop[1..(k - 1)], transitions[k], sched)
    <2>1. 1..k \in SUBSET (1..n) /\ 1..k # {} /\ (1..k) \ {k} = 1..(k - 1)
      OBVIOUS
    <2>2. Max(1..k) = k
      <3>1. k - 1 \in Nat /\ (k - 1) + 1 = k
        OBVIOUS
      <3>2. 1..k \in SUBSET (1..((k - 1) + 1)) /\ (k - 1) + 1 \in 1..k
        BY <3>1
      <3>3. QED
        BY <3>1, <3>2, MaxOfInterval
    <2>3. QED
      BY <1>1, <2>1, <2>2
  <1>4. QED
    BY <1>2, <1>3 DEF loop

(* The loop at its end. *)
Looped(issue, transitions, sched) ==
  Iter(FirstSlice(issue, transitions), transitions, sched)[DOMAIN transitions]

LEMMA BuiltByTheLoop ==
  ASSUME NEW issue, NEW transitions, NEW doneStatuses, NEW now, NEW sched
  PROVE  BuildTimeSlices(issue, transitions, doneStatuses, now, sched)
         = Append(Looped(issue, transitions, sched).slices,
                  LastSlice(Looped(issue, transitions, sched), issue, doneStatuses, now, sched))
  BY DEF BuildTimeSlices, FoldLeft, MapThenFoldSet, Iter, Looped

(* Every slice has the working time between its ends. *)
Timed(s, sched) ==
  \A k \in 1..Len(s) :
    s[k].duration_seconds = WorkingSecondsBetween(s[k].start_at, s[k].end_at, sched)

WorkSchedule(sched) == sched \in Schedules \cup {NoSchedule}

LEMMA WorkingTimeIsInt ==
  ASSUME NEW a \in Int, NEW b \in Int, NEW sched, WorkSchedule(sched)
  PROVE  WorkingSecondsBetween(a, b, sched) \in Int
  BY WorkingTimeIsCounted DEF WorkSchedule

(* The loop ends with its invariant. *)
LEMMA LoopedInv ==
  ASSUME NEW issue, IsIssue(issue), NEW transitions \in Seq(Transitions),
         NEW sched, WorkSchedule(sched)
  PROVE  /\ LoopInv(Looped(issue, transitions, sched), issue.created_at)
         /\ Timed(Looped(issue, transitions, sched).slices, sched)
  <1> DEFINE n == Len(transitions)
             created == issue.created_at
             loop == Iter(FirstSlice(issue, transitions), transitions, sched)
             Holds(k) == LoopInv(loop[1..k], created) /\ Timed(loop[1..k].slices, sched)
             S == {k \in Nat : k <= n => Holds(k)}
  <1>1. n \in Nat /\ DOMAIN transitions = 1..n /\ created \in Nat
    BY DEF IsIssue
  <1>2. loop[1..0] = FirstSlice(issue, transitions)
        /\ \A k \in 1..n : loop[1..k] = NextSlice(loop[1..(k - 1)], transitions[k], sched)
    BY <1>1, IterTurns
  <1>3. Looped(issue, transitions, sched) = loop[1..n]
    BY <1>1 DEF Looped
  <1>4. \A k \in 1..n : transitions[k] \in Transitions
    BY <1>1
  <1> HIDE DEF loop, n
  <1>5. 0 \in S
    <2>1. LoopInv(loop[1..0], created)
      BY <1>2, FirstSliceInv
    <2>2. loop[1..0].slices = <<>>
      BY <1>2 DEF FirstSlice
    <2>3. Timed(loop[1..0].slices, sched)
      BY <2>2 DEF Timed
    <2>4. QED
      BY <2>1, <2>3
  <1>6. ASSUME NEW k \in Nat, k \in S PROVE k + 1 \in S
    <2> SUFFICES ASSUME k + 1 <= n PROVE Holds(k + 1)
      OBVIOUS
    <2> DEFINE prev == loop[1..k]
               t == transitions[k + 1]
    <2>1. k + 1 \in 1..n /\ (k + 1) - 1 = k /\ k <= n
      BY <1>1
    <2>2. loop[1..(k + 1)] = NextSlice(prev, t, sched) /\ t \in Transitions
      BY <1>2, <1>4, <2>1
    <2>3. LoopInv(prev, created) /\ Timed(prev.slices, sched)
      BY <1>6, <2>1
    <2>4. prev \in Loops /\ prev.prev_time \in Nat /\ t.at \in Nat /\ prev.slices \in Seq(Stay)
      BY <2>2, <2>3 DEF LoopInv, Loops, Transitions
    <2> HIDE DEF prev, t
    <2>5. WorkingSecondsBetween(prev.prev_time, t.at, sched) \in Int
      BY <2>4, WorkingTimeIsInt
    <2>6. LoopInv(NextSlice(prev, t, sched), created)
      BY <1>1, <2>2, <2>3, <2>5, NextSliceInv
    <2>7. Timed(NextSlice(prev, t, sched).slices, sched)
      <3>1. CASE t.at < prev.prev_time
        BY <2>3, <3>1 DEF NextSlice
      <3>2. CASE ~(t.at < prev.prev_time)
        <4> DEFINE e == SliceUpTo(prev, t.at, FALSE, sched)
        <4>1. NextSlice(prev, t, sched).slices = Append(prev.slices, e)
          BY <3>2 DEF NextSlice
        <4>2. e.duration_seconds = WorkingSecondsBetween(e.start_at, e.end_at, sched)
          BY DEF SliceUpTo
        <4> HIDE DEF e
        <4>3. QED
          BY <2>3, <2>4, <4>1, <4>2 DEF Timed
      <3>3. QED
        BY <3>1, <3>2
    <2>8. QED
      BY <2>2, <2>6, <2>7
  <1> HIDE DEF S
  <1>7. n \in S
    BY <1>1, <1>5, <1>6, Induction
  <1>8. QED
    BY <1>1, <1>3, <1>7 DEF S

(* build_time_slices, for every changelog, in any order: its slices follow *)
(* each other without gaps and overlaps from the creation of the issue on, *)
(* each has the working time between its ends, and of them only the last   *)
(* can be open, and that only for an issue without a resolution.            *)
THEOREM BuiltSlicesPartition ==
  ASSUME NEW issue, IsIssue(issue), NEW transitions \in Seq(Transitions),
         NEW doneStatuses, NEW now \in Nat, NEW sched, WorkSchedule(sched)
  PROVE  LET s == BuildTimeSlices(issue, transitions, doneStatuses, now, sched)
         IN /\ Chain(s, issue.created_at, s[Len(s)].end_at) /\ Len(s) >= 1
            /\ Timed(s, sched)
            /\ \A k \in 1..(Len(s) - 1) : ~s[k].is_open
            /\ s[Len(s)].is_open => issue.done_at = Null
  <1> DEFINE loop == Looped(issue, transitions, sched)
             last == LastSlice(loop, issue, doneStatuses, now, sched)
             s == Append(loop.slices, last)
  <1>1. BuildTimeSlices(issue, transitions, doneStatuses, now, sched) = s
    BY BuiltByTheLoop
  <1>2. LoopInv(loop, issue.created_at) /\ Timed(loop.slices, sched)
    BY LoopedInv
  <1> HIDE DEF loop
  <1>3. loop.prev_time \in Nat /\ loop.slices \in Seq(Stay)
    BY <1>2 DEF LoopInv, Loops
  <1>4. \A end \in Nat : WorkingSecondsBetween(loop.prev_time, end, sched) \in Int
    BY <1>3, WorkingTimeIsInt
  <1>5. /\ Chain(s, issue.created_at, last.end_at)
        /\ \A k \in 1..(Len(s) - 1) : ~s[k].is_open
        /\ last.is_open => issue.done_at = Null
    BY <1>2, <1>4, LastSlicePartitions
  <1>6. last.duration_seconds = WorkingSecondsBetween(last.start_at, last.end_at, sched)
    BY DEF LastSlice, SliceUpTo
  <1> HIDE DEF last
  <1>7. /\ Len(s) = Len(loop.slices) + 1 /\ s[Len(s)] = last /\ Len(loop.slices) \in Nat
        /\ \A k \in 1..Len(loop.slices) : s[k] = loop.slices[k]
    BY <1>3
  <1>8. Timed(s, sched)
    BY <1>2, <1>6, <1>7 DEF Timed
  <1> HIDE DEF s
  <1>9. QED
    BY <1>1, <1>5, <1>7, <1>8

TimeOf(s, places) == MapThenSumSet(LAMBDA k : s[k].duration_seconds, places)

LEMMA SlicesAreSummed ==
  ASSUME NEW s, NEW S, IsFiniteSet(S), NEW f, f = [k \in S |-> s[k].duration_seconds]
  PROVE  \E g : Sums(g, f, S) /\ TimeOf(s, S) = g[S]
  <1> DEFINE Eq(g) == g = [t \in SUBSET S |->
                 IF t = {} THEN 0
                 ELSE s[CHOOSE x \in t : TRUE].duration_seconds
                      + g[t \ {CHOOSE x \in t : TRUE}]]
             g0 == CHOOSE g : Eq(g)
  <1>1. TimeOf(s, S) = g0[S]
    BY DEF TimeOf, MapThenSumSet, MapThenFoldSet
  <1>2. \A t \in SUBSET S : t # {} =>
          f[CHOOSE x \in t : TRUE] = s[CHOOSE x \in t : TRUE].duration_seconds
    OBVIOUS
  <1>3. \A g : Eq(g) <=> Sums(g, f, S)
    <2>1. \A g, t \in SUBSET S :
            (IF t = {} THEN 0 ELSE s[CHOOSE x \in t : TRUE].duration_seconds
                      + g[t \ {CHOOSE x \in t : TRUE}])
            = (IF t = {} THEN 0 ELSE f[CHOOSE x \in t : TRUE]
                      + g[t \ {CHOOSE x \in t : TRUE}])
      BY <1>2
    <2>2. QED
      BY <2>1 DEF Sums
  <1> HIDE DEF Eq
  <1>4. \E g : Eq(g)
    BY <1>3, SumsExist
  <1>5. Eq(g0)
    BY <1>4
  <1>6. QED
    BY <1>1, <1>3, <1>5

(* h sums e over P, which is f there, as g sums f over S. *)
IsPart(S, f, g, P, e, h) ==
  /\ IsFiniteSet(S) /\ f \in [S -> Nat] /\ Sums(g, f, S)
  /\ P \in SUBSET S /\ e \in [P -> Nat] /\ Sums(h, e, P)
  /\ \A x \in P : e[x] = f[x]

LEMMA PartOfASum ==
  ASSUME NEW S, NEW f, NEW g, NEW P, NEW e, NEW h, IsPart(S, f, g, P, e, h)
  PROVE  h[P] \in Nat /\ h[P] <= g[S]
  BY SumOfAPart DEF IsPart

(* Two sums that tell two amounts worked tell the two together. *)
LEMMA TellsAdd ==
  ASSUME NEW s1 \in Int, NEW n1 \in Nat, NEW w1 \in Int, Tells(s1, n1, w1),
         NEW s2 \in Int, NEW n2 \in Nat, NEW w2 \in Int, Tells(s2, n2, w2)
  PROVE  Tells(s1 + s2, n1 + n2, w1 + w2)
  <1> DEFINE L == SecondLength
             p1 == L * s1
             p2 == L * s2
             q1 == 2 * n1 * (L - 1)
             q2 == 2 * n2 * (L - 1)
  <1>1. L \in Nat \ {0}
    BY WorkingTimeAssumption
  <1>2. L * (s1 + s2) = p1 + p2 /\ 2 * (n1 + n2) * (L - 1) = q1 + q2
    BY <1>1
  <1>3. p1 \in Int /\ p2 \in Int /\ q1 \in Int /\ q2 \in Int
    BY <1>1
  <1>4. w1 - p1 \in 0..q1 /\ w2 - p2 \in 0..q2
    BY DEF Tells
  <1> HIDE DEF p1, p2, q1, q2
  <1>5. (w1 + w2) - (p1 + p2) \in 0..(q1 + q2)
    BY <1>3, <1>4
  <1>6. QED
    BY <1>2, <1>5 DEF Tells, L

(* The durations of slices that follow each other tell the time worked from *)
(* the first start to the last end, whatever the schedule: where two of     *)
(* them meet at most one second is lost to int(), and none is counted       *)
(* twice.  Those of some of them come to no more than the time that passed. *)
THEOREM SliceTimesAdd ==
  ASSUME NEW from \in Nat, NEW to \in Nat, NEW s, Chain(s, from, to),
         NEW sched, WorkSchedule(sched), Timed(s, sched)
  PROVE  /\ Len(s) > 0 => WorkingSecondsBetween(from, to, sched) - TimeOf(s, 1..Len(s))
                          \in 0..(Len(s) - 1)
         /\ Tells(TimeOf(s, 1..Len(s)), Len(s), Worked(from, to, sched))
         /\ from <= to
         /\ \A P \in SUBSET (1..Len(s)) :
              TimeOf(s, P) \in Nat /\ SecondLength * TimeOf(s, P) \in 0..(to - from)
  <1>0. /\ s \in Seq(Stay) /\ Len(s) \in Nat
        /\ \A k \in 1..Len(s) : s[k].start_at <= s[k].end_at
    BY DEF Chain
  <1>21. \A k \in 1..Len(s) : s[k] \in Stay
    BY <1>0
  <1>22. \A k \in 1..Len(s) : s[k].start_at \in Nat /\ s[k].end_at \in Nat
    BY <1>21 DEF Stay
  <1> DEFINE n == Len(s)
             end(k) == IF k = 0 THEN from ELSE s[k].end_at
             f == [k \in 1..n |-> s[k].duration_seconds]
             wsb(x, y) == WorkingSecondsBetween(x, y, sched)
             wkd(x, y) == Worked(x, y, sched)
  <1>1. /\ s \in Seq(Stay) /\ n \in Nat
        /\ \A k \in 1..n : /\ s[k] \in Stay /\ s[k].start_at \in Nat /\ s[k].end_at \in Nat
                           /\ s[k].start_at <= s[k].end_at
    BY <1>0, <1>21, <1>22
  <1>2. \A k \in 1..n : s[k].start_at = end(k - 1)
    BY <1>1 DEF Chain
  <1>3. \A k \in 0..n : end(k) \in Nat
    BY <1>1
  <1>4. to = end(n)
    BY <1>1 DEF Chain
  <1>5. /\ \A a, b, c \in Nat : a <= b /\ b <= c =>
             /\ wsb(a, c) - (wsb(a, b) + wsb(b, c)) \in 0..1
             /\ wkd(a, b) + wkd(b, c) = wkd(a, c)
        /\ \A a, c \in Nat : /\ wsb(a, c) \in Nat /\ wkd(a, c) \in Nat
                             /\ Tells(wsb(a, c), 1, wkd(a, c))
        /\ \A a, c \in Nat : a <= c => wkd(a, c) \in 0..(c - a)
    <2>1. sched \in Schedules \cup {NoSchedule}
      BY DEF WorkSchedule
    <2>2. ASSUME NEW a \in Nat, NEW b \in Nat, NEW c \in Nat, a <= b, b <= c
          PROVE  /\ wsb(a, c) - (wsb(a, b) + wsb(b, c)) \in 0..1
                 /\ wkd(a, b) + wkd(b, c) = wkd(a, c)
      <3>1. a \in Int /\ c \in Int /\ b \in a..c
        BY <2>2
      <3>2. QED
        BY <2>1, <3>1, WorkingTimeAdds, WorkedAdds
    <2>3. ASSUME NEW a \in Nat, NEW c \in Nat, a <= c
          PROVE  wkd(a, c) \in 0..(c - a)
      <3>1. a \in Int /\ c \in Int /\ a \in a..c
        BY <2>3
      <3>2. QED
        BY <2>1, <3>1, WorkedAdds
    <2>4. ASSUME NEW a \in Nat, NEW c \in Nat
          PROVE  wsb(a, c) \in Nat /\ wkd(a, c) \in Nat /\ Tells(wsb(a, c), 1, wkd(a, c))
      <3>1. a \in Int /\ c \in Int
        OBVIOUS
      <3>2. QED
        BY <2>1, <3>1, WorkingTimeIsCounted
    <2> HIDE DEF wsb, wkd
    <2>5. QED
      BY <2>2, <2>3, <2>4
  <1>6. \A k \in 1..n : f[k] = wsb(end(k - 1), end(k)) /\ f[k] \in Nat /\ end(k - 1) <= end(k)
    <2>1. ASSUME NEW k \in 1..n
          PROVE  f[k] = wsb(end(k - 1), end(k)) /\ f[k] \in Nat /\ end(k - 1) <= end(k)
      <3>1. f[k] = wsb(s[k].start_at, s[k].end_at)
        BY DEF Timed
      <3>2. s[k].start_at = end(k - 1) /\ s[k].end_at = end(k) /\ end(k - 1) \in Nat /\ end(k) \in Nat
            /\ end(k - 1) <= end(k)
        BY <1>1, <1>2
      <3> DEFINE x == end(k - 1)
                 y == end(k)
                 d == f[k]
      <3>3. d = wsb(x, y) /\ x \in Nat /\ y \in Nat /\ x <= y
        BY <3>1, <3>2
      <3> HIDE DEF x, y, d, wsb, wkd
      <3>4. d \in Nat
        BY <1>5, <3>3
      <3>5. QED
        BY <3>3, <3>4 DEF x, y, d
    <2>2. QED
      BY <2>1
  <1>7. f \in [1..n -> Nat] /\ f \in [1..n -> Int] /\ IsFiniteSet(1..n)
    <2>1. \A k \in 1..n : f[k] \in Nat
      BY <1>6
    <2>2. f = [k \in 1..n |-> f[k]]
      OBVIOUS
    <2>3. IsFiniteSet(1..n)
      BY <1>1, FS_Interval
    <2> HIDE DEF f, n
    <2>4. QED
      BY <2>1, <2>2, <2>3
  <1>8. PICK g : Sums(g, f, 1..n) /\ TimeOf(s, 1..n) = g[1..n]
    BY <1>7, SlicesAreSummed
  <1>9. end(0) = from
    OBVIOUS
  <1>20. \A P \in SUBSET (1..n) : \A k \in P : [x \in P |-> s[x].duration_seconds][k] = f[k]
    OBVIOUS
  <1> HIDE DEF end, f, n, wsb, wkd
  <1>10. /\ g[{}] = 0
         /\ \A t \in SUBSET (1..n) : g[t] \in Int
         /\ \A t \in SUBSET (1..n) : \A x \in t : g[t] = f[x] + g[t \ {x}]
    <2>1. AddsUp(g, f, 1..n)
      BY <1>7, <1>8, SumsAddUp
    <2>2. QED
      BY <2>1 DEF AddsUp
  <1> DEFINE Holds(k) == /\ g[1..k] \in Nat /\ from <= end(k)
                         /\ wsb(from, end(k)) - g[1..k] \in 0..(IF k = 0 THEN 0 ELSE k - 1)
                         /\ Tells(g[1..k], k, wkd(from, end(k)))
             S == {k \in Nat : k <= n => Holds(k)}
  <1>11. 0 \in S
    <2>1. PICK none : none = 1..0 /\ none = {}
      <3> HIDE DEF S, Holds
      <3>1. 1..0 = {}
        OBVIOUS
      <3>2. QED
        BY <3>1
    <2>2. wsb(from, from) = 0
      BY DEF wsb, WorkingSecondsBetween
    <2>3. wkd(from, from) = 0
      <3>1. wkd(from, from) \in 0..(from - from)
        BY <1>5
      <3>2. QED
        BY <3>1
    <2>4. g[1..0] = 0
      BY <1>10, <2>1
    <2>5. Tells(0, 0, 0)
      <3>1. SecondLength \in Nat \ {0}
        BY WorkingTimeAssumption
      <3>2. SecondLength * 0 = 0 /\ 2 * 0 * (SecondLength - 1) = 0
        BY <3>1
      <3>3. QED
        BY <3>2 DEF Tells
    <2>6. QED
      BY <1>9, <2>2, <2>3, <2>4, <2>5
  <1>12. ASSUME NEW k \in Nat, k \in S PROVE k + 1 \in S
    <2> SUFFICES ASSUME k + 1 <= n PROVE Holds(k + 1)
      OBVIOUS
    <2>1. /\ k + 1 \in 1..n /\ (k + 1) - 1 = k /\ k <= n /\ (1..(k + 1)) \ {k + 1} = 1..k
          /\ 1..(k + 1) \in SUBSET (1..n) /\ k + 1 \in 1..(k + 1) /\ k \in 0..n /\ k + 1 \in 0..n
      BY <1>1
    <2>2. g[1..(k + 1)] = f[k + 1] + g[1..k]
      <3>1. \A x \in 1..(k + 1) : g[1..(k + 1)] = f[x] + g[(1..(k + 1)) \ {x}]
        BY <1>10, <2>1
      <3>2. g[1..(k + 1)] = f[k + 1] + g[(1..(k + 1)) \ {k + 1}]
        BY <2>1, <3>1
      <3>3. QED
        BY <2>1, <3>2
    <2> DEFINE x == end(k)
               y == end(k + 1)
               d == f[k + 1]
               p == g[1..k]
    <2>3. d = wsb(x, y) /\ d \in Nat /\ x <= y /\ x \in Nat /\ y \in Nat
      BY <1>3, <1>6, <2>1
    <2>4. /\ p \in Nat /\ from <= x
          /\ wsb(from, x) - p \in 0..(IF k = 0 THEN 0 ELSE k - 1)
          /\ Tells(p, k, wkd(from, x))
      BY <1>12, <2>1
    <2>5. g[1..(k + 1)] = d + p
      BY <2>2
    <2>6. k = 0 => x = from /\ p = 0
      <3> HIDE DEF S, Holds
      <3>1. ASSUME k = 0 PROVE g[1..k] = 0 /\ end(k) = from
        <4>1. 1..k = {}
          BY <3>1
        <4>2. QED
          BY <1>9, <1>10, <3>1, <4>1
      <3>2. QED
        BY <3>1
    <2> HIDE DEF S, x, y, d, p
    <2>7. /\ wsb(from, y) - (wsb(from, x) + d) \in 0..1
          /\ wkd(from, x) + wkd(x, y) = wkd(from, y)
          /\ wsb(from, x) \in Nat /\ wsb(from, y) \in Nat
          /\ wkd(from, x) \in Nat /\ wkd(x, y) \in Nat /\ Tells(d, 1, wkd(x, y))
      BY <1>5, <2>3, <2>4
    <2>8. Tells(p + d, k + 1, wkd(from, y))
      <3>1. p \in Int /\ d \in Int /\ 1 \in Nat /\ wkd(from, x) \in Int /\ wkd(x, y) \in Int
        BY <2>3, <2>4, <2>7
      <3>2. Tells(p + d, k + 1, wkd(from, x) + wkd(x, y))
        BY <2>4, <2>7, <3>1, TellsAdd
      <3>3. QED
        BY <2>7, <3>2
    <2>9. wsb(from, y) - (d + p) \in 0..((k + 1) - 1)
      <3>1. CASE k = 0
        <4>1. wsb(from, y) = d /\ p = 0
          BY <2>3, <2>6, <3>1
        <4>2. QED
          BY <2>3, <3>1, <4>1
      <3>2. CASE k # 0
        BY <2>3, <2>4, <2>7, <3>2
      <3>3. QED
        BY <3>1, <3>2
    <2>10. d + p \in Nat /\ from <= y /\ d + p = p + d /\ k + 1 # 0
      BY <2>3, <2>4
    <2>11. QED
      BY <2>5, <2>8, <2>9, <2>10 DEF y
  <1> HIDE DEF S
  <1>13. n \in S
    BY <1>1, <1>11, <1>12, Induction
  <1>14. Holds(n)
    BY <1>1, <1>13 DEF S
  <1> DEFINE all == g[1..n]
  <1>15. SecondLength * all \in 0..(to - from)
    <2>1. wkd(from, to) - SecondLength * all \in 0..(2 * n * (SecondLength - 1))
      BY <1>4, <1>14 DEF Tells
    <2>2. wkd(from, to) \in 0..(to - from)
      BY <1>4, <1>5, <1>14
    <2>3. SecondLength \in Nat /\ all \in Nat
      BY <1>14, WorkingTimeAssumption
    <2> DEFINE product == SecondLength * all
               room == 2 * n * (SecondLength - 1)
    <2> HIDE DEF all
    <2>4. product \in Nat /\ room \in Int
      BY <1>1, <2>3
    <2>5. wkd(from, to) - product \in 0..room /\ to - from \in Int
      BY <2>1
    <2> HIDE DEF product, room
    <2>6. product \in 0..(to - from)
      BY <2>2, <2>4, <2>5
    <2>7. QED
      BY <2>6 DEF product
  <1>16. ASSUME NEW P \in SUBSET (1..n)
         PROVE  TimeOf(s, P) \in Nat /\ SecondLength * TimeOf(s, P) \in 0..(to - from)
    <2> DEFINE e == [k \in P |-> s[k].duration_seconds]
    <2>1. IsFiniteSet(P)
      BY <1>7, FS_Subset
    <2>2. \A k \in P : e[k] = f[k] /\ f[k] \in Nat
      BY <1>6, <1>20
    <2>3. e \in [P -> Nat]
      BY <2>2
    <2>4. PICK h : Sums(h, e, P) /\ TimeOf(s, P) = h[P]
      BY <2>1, SlicesAreSummed
    <2> HIDE DEF e
    <2>5. h[P] \in Nat /\ h[P] <= all
      <3> HIDE DEF Holds, S
      <3>1. PICK whole : whole = 1..n
        OBVIOUS
      <3>2. /\ IsFiniteSet(whole) /\ f \in [whole -> Nat] /\ Sums(g, f, whole)
            /\ P \in SUBSET whole /\ Sums(h, e, P) /\ e \in [P -> Nat]
        BY <1>7, <1>8, <2>3, <2>4, <3>1
      <3>3. \A x \in P : e[x] = f[x]
        BY <2>2
      <3>4. IsPart(whole, f, g, P, e, h)
        BY <3>2, <3>3 DEF IsPart
      <3>5. h[P] \in Nat /\ h[P] <= g[whole]
        BY <3>4, PartOfASum, Zenon
      <3>6. QED
        BY <3>1, <3>5
    <2>6. all \in Nat /\ SecondLength \in Nat
      BY <1>14, WorkingTimeAssumption
    <2> DEFINE part == h[P]
    <2> HIDE DEF all, part
    <2>7. part \in Nat /\ SecondLength * part \in Nat /\ SecondLength * part <= SecondLength * all
      BY <2>5, <2>6 DEF part
    <2>8. SecondLength * part \in 0..(to - from)
      BY <1>15, <2>6, <2>7
    <2>9. QED
      BY <2>4, <2>7, <2>8 DEF part
  <1>17. n > 0 => wsb(from, to) - TimeOf(s, 1..n) \in 0..(n - 1)
    BY <1>1, <1>4, <1>8, <1>14
  <1>18. Tells(TimeOf(s, 1..n), n, wkd(from, to)) /\ from <= to
    BY <1>4, <1>8, <1>14
  <1>19. QED
    BY <1>16, <1>17, <1>18 DEF n, wsb, wkd

-----------------------------------------------------------------------------
(* The slices of a changelog in order: one per stay. *)

(* What slice k of an ordered changelog starts with. *)
StartOf(issue, transitions, k) ==
  IF k = 1 THEN issue.created_at ELSE transitions[k - 1].at
StatusOf(issue, transitions, k) ==
  IF k > 1 THEN transitions[k - 1].to_status
  ELSE IF transitions = <<>> THEN issue.current_status
  ELSE transitions[1].from_status
IdOf(transitions, k) ==
  IF k > 1 THEN transitions[k - 1].to_status_id
  ELSE IF transitions = <<>> THEN Null
  ELSE transitions[1].from_status_id

InOrder(issue, transitions) ==
  \A k \in 1..Len(transitions) : StartOf(issue, transitions, k) <= transitions[k].at

(* Either all of the statuses have their ids or none has. *)
AllOrNoIds(transitions) ==
  \/ \A k \in 1..Len(transitions) : transitions[k].to_status_id # Null
  \/ \A k \in 1..Len(transitions) :
       transitions[k].to_status_id = Null /\ transitions[k].from_status_id = Null

(* The place of the loop after k transitions. *)
LoopAt(loop, issue, transitions, sched, k) ==
  /\ loop.slices \in Seq(Stay) /\ Len(loop.slices) = k
  /\ \A j \in 1..k :
       /\ loop.slices[j].status = StatusOf(issue, transitions, j)
       /\ loop.slices[j].status_id = IdOf(transitions, j)
       /\ loop.slices[j].start_at = StartOf(issue, transitions, j)
       /\ loop.slices[j].end_at = StartOf(issue, transitions, j + 1)
       /\ ~loop.slices[j].is_open
  /\ loop.prev_time = StartOf(issue, transitions, k + 1)
  /\ loop.prev_status = StatusOf(issue, transitions, k + 1)
  /\ loop.prev_status_id = IdOf(transitions, k + 1)

LEMMA LoopedAt ==
  ASSUME NEW issue, IsIssue(issue), NEW transitions \in Seq(Transitions),
         InOrder(issue, transitions), AllOrNoIds(transitions),
         NEW sched, WorkSchedule(sched)
  PROVE  LoopAt(Looped(issue, transitions, sched), issue, transitions, sched, Len(transitions))
  <1>1. Len(transitions) \in Nat /\ DOMAIN transitions = 1..Len(transitions)
    OBVIOUS
  <1>2. \A k \in 1..Len(transitions) :
          transitions[k] \in Transitions /\ transitions[k].at \in Nat
    <2>1. \A k \in 1..Len(transitions) : transitions[k] \in Transitions
      OBVIOUS
    <2>2. QED
      BY <2>1 DEF Transitions
  <1>3. issue.created_at \in Nat
    BY DEF IsIssue
  <1>4. transitions # <<>> <=> 1 \in 1..Len(transitions)
    BY <1>1
  <1>5. transitions # <<>> => Head(transitions) = transitions[1]
    BY <1>1
  <1> DEFINE n == Len(transitions)
             loop == Iter(FirstSlice(issue, transitions), transitions, sched)
             S == {k \in Nat : k <= n => LoopAt(loop[1..k], issue, transitions, sched, k)}
  <1>6. loop[1..0] = FirstSlice(issue, transitions)
        /\ \A k \in 1..n : loop[1..k] = NextSlice(loop[1..(k - 1)], transitions[k], sched)
    BY <1>1, IterTurns
  <1>7. Looped(issue, transitions, sched) = loop[1..n]
    BY <1>1 DEF Looped
  <1> HIDE DEF loop
  <1>8. 0 \in S
    <2> DEFINE first == FirstSlice(issue, transitions)
    <2>1. /\ first.slices = <<>> /\ first.prev_time = issue.created_at
          /\ first.prev_status = StatusOf(issue, transitions, 1)
          /\ first.prev_status_id = IdOf(transitions, 1)
      BY <1>5 DEF FirstSlice, StatusOf, IdOf
    <2>2. first.slices \in Seq(Stay) /\ Len(first.slices) = 0 /\ 1..0 = {}
      BY <2>1
    <2>3. StartOf(issue, transitions, 1) = issue.created_at
      BY DEF StartOf
    <2> HIDE DEF first
    <2>4. LoopAt(first, issue, transitions, sched, 0)
      BY <2>1, <2>2, <2>3 DEF LoopAt
    <2>5. QED
      BY <1>6, <2>4 DEF first
  <1>9. ASSUME NEW k \in Nat, k \in S PROVE k + 1 \in S
    <2> SUFFICES ASSUME k + 1 <= n
                 PROVE  LoopAt(loop[1..(k + 1)], issue, transitions, sched, k + 1)
      OBVIOUS
    <2> DEFINE prev == loop[1..k]
               t == transitions[k + 1]
               next == NextSlice(prev, t, sched)
               e == SliceUpTo(prev, t.at, FALSE, sched)
    <2>1. /\ k + 1 \in 1..n /\ (k + 1) - 1 = k /\ k <= n /\ k + 2 > 1 /\ k + 2 # 1
          /\ (k + 2) - 1 = k + 1 /\ (k + 1) + 1 = k + 2
      BY <1>1
    <2>2. loop[1..(k + 1)] = next /\ t \in Transitions /\ t.at \in Nat
      BY <1>2, <1>6, <2>1
    <2>3. LoopAt(prev, issue, transitions, sched, k)
      BY <1>9, <2>1
    <2>4. StartOf(issue, transitions, k + 1) \in Nat
      <3>1. CASE k = 0
        BY <1>3, <3>1 DEF StartOf
      <3>2. CASE k # 0
        BY <1>2, <2>1, <3>2 DEF StartOf
      <3>3. QED
        BY <3>1, <3>2
    <2>5. ~(t.at < prev.prev_time)
      BY <2>1, <2>2, <2>3, <2>4 DEF InOrder, LoopAt
    <2>6. /\ next.slices = Append(prev.slices, e) /\ next.prev_time = t.at
          /\ next.prev_status = t.to_status
          /\ next.prev_status_id = IF t.to_status_id # Null THEN t.to_status_id
                                   ELSE prev.prev_status_id
      BY <2>5 DEF NextSlice
    <2>7. /\ e.status = prev.prev_status /\ e.status_id = prev.prev_status_id
          /\ e.start_at = prev.prev_time /\ e.end_at = t.at /\ ~e.is_open
      BY DEF SliceUpTo
    <2>8. /\ StartOf(issue, transitions, k + 2) = t.at
          /\ StatusOf(issue, transitions, k + 2) = t.to_status
          /\ IdOf(transitions, k + 2) = t.to_status_id
      BY <2>1 DEF StartOf, StatusOf, IdOf
    <2>9. next.prev_status_id = t.to_status_id
      <3>1. CASE t.to_status_id # Null
        BY <2>6, <3>1
      <3>2. CASE t.to_status_id = Null
        <4>1. \A j \in 1..Len(transitions) :
                transitions[j].to_status_id = Null /\ transitions[j].from_status_id = Null
          BY <2>1, <3>2 DEF AllOrNoIds
        <4>2. prev.prev_status_id = IdOf(transitions, k + 1)
          BY <2>3 DEF LoopAt
        <4>3. IdOf(transitions, k + 1) = Null
          <5>1. CASE k = 0
            BY <1>1, <4>1, <5>1 DEF IdOf
          <5>2. CASE k # 0
            BY <2>1, <4>1, <5>2 DEF IdOf
          <5>3. QED
            BY <5>1, <5>2
        <4>4. QED
          BY <2>6, <3>2, <4>2, <4>3
      <3>3. QED
        BY <3>1, <3>2
    <2>10. e \in Stay
      <3>1. prev.prev_status \in Names \cup {Null} /\ prev.prev_status_id \in StatusIds \cup {Null}
        <4>1. /\ \A j \in 1..Len(transitions) :
                   /\ transitions[j].to_status \in Names /\ transitions[j].from_status \in Names
                   /\ transitions[j].to_status_id \in StatusIds \cup {Null}
                   /\ transitions[j].from_status_id \in StatusIds \cup {Null}
              /\ issue.current_status \in Names
          BY <1>2 DEF Transitions, IsIssue
        <4>2. CASE k = 0
          BY <1>4, <2>3, <4>1, <4>2 DEF LoopAt, StatusOf, IdOf
        <4>3. CASE k # 0
          <5>1. k \in 1..Len(transitions) /\ k + 1 > 1
            BY <2>1, <4>3
          <5>2. QED
            BY <2>1, <2>3, <4>1, <5>1 DEF LoopAt, StatusOf, IdOf
        <4>4. QED
          BY <4>2, <4>3
      <3>2. prev.prev_time \in Nat
        BY <2>3, <2>4 DEF LoopAt
      <3>3. WorkingSecondsBetween(prev.prev_time, t.at, sched) \in Int
        BY <2>2, <3>2, WorkingTimeIsInt
      <3>4. QED
        BY <2>2, <3>1, <3>2, <3>3 DEF SliceUpTo, Stay
    <2> HIDE DEF prev, t, next, e
    <2>11. /\ next.slices \in Seq(Stay) /\ Len(next.slices) = k + 1
           /\ next.slices[k + 1] = e
           /\ \A j \in 1..k : next.slices[j] = prev.slices[j]
      BY <2>3, <2>6, <2>10 DEF LoopAt
    <2>12. \A j \in 1..(k + 1) : j \in 1..k \/ j = k + 1
      OBVIOUS
    <2>13. \A j \in 1..(k + 1) :
             /\ next.slices[j].status = StatusOf(issue, transitions, j)
             /\ next.slices[j].status_id = IdOf(transitions, j)
             /\ next.slices[j].start_at = StartOf(issue, transitions, j)
             /\ next.slices[j].end_at = StartOf(issue, transitions, j + 1)
             /\ ~next.slices[j].is_open
      <3>1. \A j \in 1..k :
             /\ next.slices[j].status = StatusOf(issue, transitions, j)
             /\ next.slices[j].status_id = IdOf(transitions, j)
             /\ next.slices[j].start_at = StartOf(issue, transitions, j)
             /\ next.slices[j].end_at = StartOf(issue, transitions, j + 1)
             /\ ~next.slices[j].is_open
        BY <2>3, <2>11 DEF LoopAt
      <3>2. /\ next.slices[k + 1].status = StatusOf(issue, transitions, k + 1)
            /\ next.slices[k + 1].status_id = IdOf(transitions, k + 1)
            /\ next.slices[k + 1].start_at = StartOf(issue, transitions, k + 1)
            /\ next.slices[k + 1].end_at = StartOf(issue, transitions, (k + 1) + 1)
            /\ ~next.slices[k + 1].is_open
        BY <2>1, <2>3, <2>7, <2>8, <2>11 DEF LoopAt
      <3>3. QED
        BY <2>12, <3>1, <3>2
    <2>14. LoopAt(next, issue, transitions, sched, k + 1)
      BY <2>1, <2>6, <2>8, <2>9, <2>11, <2>13 DEF LoopAt
    <2>15. QED
      BY <2>2, <2>14
  <1> HIDE DEF S
  <1>10. n \in S
    BY <1>1, <1>8, <1>9, Induction
  <1>11. QED
    BY <1>1, <1>7, <1>10 DEF S

(* build_time_slices, of a changelog in order: one slice per stay, from one *)
(* change to the next and in the status of the first of them; the last ends *)
(* with the resolution of the issue or now.                                 *)
THEOREM SlicesAreStays ==
  ASSUME NEW issue, IsIssue(issue), NEW transitions \in Seq(Transitions),
         InOrder(issue, transitions), AllOrNoIds(transitions),
         NEW doneStatuses, NEW now \in Nat, NEW sched, WorkSchedule(sched)
  PROVE  LET s == BuildTimeSlices(issue, transitions, doneStatuses, now, sched)
             n == Len(transitions) + 1
             last == StartOf(issue, transitions, n)
         IN /\ Len(s) = n /\ s \in Seq(Stay)
            /\ \A k \in 1..n :
                 /\ s[k].status = StatusOf(issue, transitions, k)
                 /\ s[k].status_id = IdOf(transitions, k)
                 /\ s[k].start_at = StartOf(issue, transitions, k)
                 /\ k < n => s[k].end_at = StartOf(issue, transitions, k + 1) /\ ~s[k].is_open
            /\ s[n].end_at = Upper(IF issue.done_at = Null THEN now ELSE issue.done_at, last)
            /\ s[n].is_open <=> issue.done_at = Null /\ issue.current_status \notin doneStatuses
  <1> DEFINE loop == Looped(issue, transitions, sched)
             last == LastSlice(loop, issue, doneStatuses, now, sched)
             s == Append(loop.slices, last)
             n == Len(transitions) + 1
  <1>1. BuildTimeSlices(issue, transitions, doneStatuses, now, sched) = s
    BY BuiltByTheLoop
  <1>2. LoopAt(loop, issue, transitions, sched, Len(transitions)) /\ Len(transitions) \in Nat
    BY LoopedAt
  <1>3. Chain(s, issue.created_at, s[Len(s)].end_at)
    BY <1>1, BuiltSlicesPartition
  <1>4. s \in Seq(Stay)
    BY <1>3 DEF Chain
  <1>5. /\ last.status = loop.prev_status /\ last.status_id = loop.prev_status_id
        /\ last.start_at = loop.prev_time
        /\ last.end_at = Upper(IF issue.done_at = Null THEN now ELSE issue.done_at, loop.prev_time)
        /\ last.is_open <=> issue.done_at = Null /\ issue.current_status \notin doneStatuses
    BY DEF LastSlice, SliceUpTo
  <1> HIDE DEF loop, last
  <1>6. /\ Len(s) = n /\ s[n] = last
        /\ \A k \in 1..Len(transitions) : s[k] = loop.slices[k]
    BY <1>2 DEF LoopAt
  <1>7. \A k \in 1..n : k < n <=> k \in 1..Len(transitions)
    BY <1>2
  <1>8. \A k \in 1..n : k = n \/ k \in 1..Len(transitions)
    BY <1>2
  <1> HIDE DEF s, n
  <1>9. /\ s[n].status = StatusOf(issue, transitions, n)
        /\ s[n].status_id = IdOf(transitions, n)
        /\ s[n].start_at = StartOf(issue, transitions, n)
    BY <1>2, <1>5, <1>6 DEF LoopAt, n
  <1>10. \A k \in 1..Len(transitions) :
           /\ s[k].status = StatusOf(issue, transitions, k)
           /\ s[k].status_id = IdOf(transitions, k)
           /\ s[k].start_at = StartOf(issue, transitions, k)
           /\ s[k].end_at = StartOf(issue, transitions, k + 1) /\ ~s[k].is_open
    BY <1>2, <1>6 DEF LoopAt
  <1>11. s[n].end_at = Upper(IF issue.done_at = Null THEN now ELSE issue.done_at,
                             StartOf(issue, transitions, n))
    BY <1>2, <1>5, <1>6 DEF LoopAt, n
  <1>12. QED
    BY <1>1, <1>4, <1>5, <1>6, <1>7, <1>8, <1>9, <1>10, <1>11 DEF n

-----------------------------------------------------------------------------
(* The sort of extract_transitions_from_payload. *)

Rising(log) == \A j, k \in 1..Len(log) : j < k => log[j].at < log[k].at

Kept(changelog) ==
  {k \in DOMAIN changelog :
     \A j \in 1..(k - 1) : \/ changelog[j].at # changelog[k].at
                           \/ changelog[j].to_status # changelog[k].to_status}

Before(changelog, k) ==
  {j \in Kept(changelog) : \/ changelog[j].at < changelog[k].at
                           \/ changelog[j].at = changelog[k].at /\ j <= k}

Nth(changelog, n) ==
  CHOOSE k \in Kept(changelog) : Cardinality(Before(changelog, k)) = n

Places(place, n) == {place[k] : k \in 1..n}

(* The entries that are kept are those of the log, at some places. *)
Lists(changelog, log, place) ==
  /\ Kept(changelog) = Places(place, Len(log))
  /\ \A n \in 1..Len(log) : place[n] \in Nat /\ changelog[place[n]] = log[n]

LEMMA BeforeIsImage ==
  ASSUME NEW log \in Seq(Transitions), Rising(log), NEW changelog, NEW place,
         Lists(changelog, log, place), NEW m \in 1..Len(log)
  PROVE  Before(changelog, place[m]) = Places(place, m)
  <1>1. \A n \in 1..Len(log) : log[n].at \in Nat
    <2>1. \A n \in 1..Len(log) : log[n] \in Transitions
      OBVIOUS
    <2>2. QED
      BY <2>1 DEF Transitions
  <1>2. /\ Kept(changelog) = Places(place, Len(log))
        /\ \A n \in 1..Len(log) : place[n] \in Nat /\ changelog[place[n]] = log[n]
    BY DEF Lists
  <1>3. Len(log) \in Nat
    OBVIOUS
  <1>4. ASSUME NEW x \in Before(changelog, place[m]) PROVE x \in Places(place, m)
    <2>1. /\ x \in Kept(changelog)
          /\ changelog[x].at < changelog[place[m]].at \/ changelog[x].at = changelog[place[m]].at
      BY DEF Before
    <2>2. PICK n \in 1..Len(log) : x = place[n]
      BY <1>2, <2>1 DEF Places
    <2>3. log[n].at <= log[m].at
      BY <1>1, <1>2, <2>1, <2>2
    <2>4. ~(m < n)
      <3>1. m < n => log[m].at < log[n].at
        BY DEF Rising
      <3>2. QED
        BY <1>1, <2>3, <3>1
    <2>5. n \in 1..m
      BY <1>3, <2>4
    <2>6. QED
      BY <2>2, <2>5 DEF Places
  <1>5. ASSUME NEW n \in 1..m PROVE place[n] \in Before(changelog, place[m])
    <2>1. n \in 1..Len(log) /\ (n < m \/ n = m)
      BY <1>3
    <2>2. n < m => log[n].at < log[m].at
      BY <2>1 DEF Rising
    <2>3. \/ changelog[place[n]].at < changelog[place[m]].at
          \/ changelog[place[n]].at = changelog[place[m]].at /\ place[n] <= place[m]
      <3>1. CASE n < m
        BY <1>2, <2>1, <2>2, <3>1
      <3>2. CASE n = m
        BY <1>2, <2>1, <3>2
      <3>3. QED
        BY <2>1, <3>1, <3>2
    <2>4. QED
      BY <1>2, <2>1, <2>3 DEF Before, Places
  <1>6. QED
    BY <1>4, <1>5 DEF Places

LEMMA ImageSize ==
  ASSUME NEW m \in Nat, NEW place,
         \A j, k \in 1..m : place[j] = place[k] => j = k
  PROVE  /\ IsFiniteSet(Places(place, m))
         /\ Cardinality(Places(place, m)) = m
  <1> DEFINE T == Places(place, m)
             f == [n \in 1..m |-> place[n]]
  <1>1. f \in [1..m -> T] /\ \A t \in T : \E n \in 1..m : f[n] = t
    BY DEF Places
  <1>2. \A j, k \in 1..m : f[j] = f[k] => j = k
    OBVIOUS
  <1> HIDE DEF T, f
  <1>3. f \in Bijection(1..m, T)
    BY <1>1, <1>2 DEF Bijection, Injection, Surjection, IsInjective
  <1>4. IsFiniteSet(1..m) /\ Cardinality(1..m) = m
    <2>1. IsFiniteSet(1..m) /\ Cardinality(1..m) = IF 1 > m THEN 0 ELSE m - 1 + 1
      BY FS_Interval
    <2>2. QED
      BY <2>1
  <1>5. ExistsBijection(1..m, T)
    BY <1>3 DEF ExistsBijection
  <1>6. IsFiniteSet(T) /\ Cardinality(T) = Cardinality(1..m)
    BY <1>4, <1>5, FS_Bijection
  <1>7. QED
    BY <1>4, <1>6 DEF T

LEMMA ExtractedByRank ==
  ASSUME NEW log \in Seq(Transitions), Rising(log), NEW changelog, NEW place,
         Lists(changelog, log, place)
  PROVE  ExtractTransitions(changelog) = log
  <1>1. \A n \in 1..Len(log) : log[n].at \in Nat
    <2>1. \A n \in 1..Len(log) : log[n] \in Transitions
      OBVIOUS
    <2>2. QED
      BY <2>1 DEF Transitions
  <1>2. /\ Kept(changelog) = Places(place, Len(log))
        /\ \A n \in 1..Len(log) : place[n] \in Nat /\ changelog[place[n]] = log[n]
    BY DEF Lists
  <1>3. Len(log) \in Nat /\ DOMAIN log = 1..Len(log) /\ log = [n \in 1..Len(log) |-> log[n]]
    OBVIOUS
  <1>4. ASSUME NEW j \in 1..Len(log), NEW k \in 1..Len(log), place[j] = place[k] PROVE j = k
    <2>1. log[j].at = log[k].at
      BY <1>2, <1>4
    <2>2. ~(j < k) /\ ~(k < j)
      BY <1>1, <2>1 DEF Rising
    <2>3. QED
      BY <2>2
  <1>5. ASSUME NEW m \in 1..Len(log) PROVE Cardinality(Before(changelog, place[m])) = m
    <2>1. m \in Nat /\ \A j, k \in 1..m : place[j] = place[k] => j = k
      <3>1. \A j \in 1..m : j \in 1..Len(log)
        BY <1>3
      <3>2. QED
        BY <1>4, <3>1
    <2>2. Cardinality(Places(place, m)) = m
      BY <2>1, ImageSize
    <2>3. QED
      BY <2>2, BeforeIsImage
  <1>6. Cardinality(Kept(changelog)) = Len(log)
    <2>1. Cardinality(Places(place, Len(log))) = Len(log)
      BY <1>3, <1>4, ImageSize
    <2>2. QED
      BY <1>2, <2>1
  <1>7. ExtractTransitions(changelog) = [n \in 1..Cardinality(Kept(changelog)) |-> changelog[Nth(changelog, n)]]
    BY DEF ExtractTransitions, Kept, Before, Nth
  <1>8. ASSUME NEW n \in 1..Len(log) PROVE changelog[Nth(changelog, n)] = log[n]
    <2>1. place[n] \in Kept(changelog) /\ Cardinality(Before(changelog, place[n])) = n
      BY <1>2, <1>5 DEF Places
    <2>2. Nth(changelog, n) \in Kept(changelog) /\ Cardinality(Before(changelog, Nth(changelog, n))) = n
      BY <2>1 DEF Nth
    <2>3. PICK m \in 1..Len(log) : Nth(changelog, n) = place[m]
      BY <1>2, <2>2 DEF Places
    <2>4. m = n
      BY <1>5, <2>2, <2>3
    <2>5. QED
      BY <1>2, <2>3, <2>4
  <1>9. QED
    BY <1>3, <1>6, <1>7, <1>8

(* A changelog that has the entries of a log oldest first, newest first, or *)
(* twice over.                                                              *)
Delivers(changelog, log) ==
  LET n == Len(log)
  IN \/ DOMAIN changelog = 1..n /\ \A k \in 1..n : changelog[k] = log[k]
     \/ DOMAIN changelog = 1..n /\ \A k \in 1..n : changelog[(n + 1) - k] = log[k]
     \/ DOMAIN changelog = 1..(n + n)
        /\ \A k \in 1..n : changelog[k] = log[k] /\ changelog[n + k] = log[k]

(* extract_transitions_from_payload finds the changes of an issue in their  *)
(* order, each once, however the changelog lists them.                      *)
THEOREM ExtractedInOrder ==
  ASSUME NEW log \in Seq(Transitions), Rising(log), NEW changelog, Delivers(changelog, log)
  PROVE  ExtractTransitions(changelog) = log
  <1> DEFINE n == Len(log)
  <1>1. \A k \in 1..n : log[k].at \in Nat
    <2>1. \A k \in 1..n : log[k] \in Transitions
      OBVIOUS
    <2>2. QED
      BY <2>1 DEF Transitions
  <1>2. n \in Nat
    OBVIOUS
  <1>3. \A j, k \in 1..n : log[j].at = log[k].at => j = k
    <2>1. ASSUME NEW j \in 1..n, NEW k \in 1..n, log[j].at = log[k].at PROVE j = k
      <3>1. ~(j < k) /\ ~(k < j)
        BY <1>1, <2>1 DEF Rising
      <3>2. QED
        BY <1>2, <3>1
    <2>2. QED
      BY <2>1
  <1> HIDE DEF n
  <1>4. CASE DOMAIN changelog = 1..n /\ \A k \in 1..n : changelog[k] = log[k]
    <2> DEFINE place == [k \in 1..n |-> k]
    <2>1. Kept(changelog) = 1..n
      BY <1>2, <1>3, <1>4 DEF Kept
    <2>2. \A k \in 1..n : place[k] = k
      OBVIOUS
    <2> HIDE DEF place
    <2>3. Places(place, n) = 1..n
      BY <2>2 DEF Places
    <2>4. Lists(changelog, log, place)
      BY <1>2, <1>4, <2>1, <2>2, <2>3 DEF Lists, n
    <2>5. QED
      BY <2>4, ExtractedByRank
  <1>5. CASE DOMAIN changelog = 1..n /\ \A k \in 1..n : changelog[(n + 1) - k] = log[k]
    <2> DEFINE place == [k \in 1..n |-> (n + 1) - k]
    <2>1. \A k \in 1..n : (n + 1) - k \in 1..n /\ changelog[k] = log[(n + 1) - k]
      <3>1. ASSUME NEW k \in 1..n
            PROVE  (n + 1) - k \in 1..n /\ changelog[k] = log[(n + 1) - k]
        <4>1. (n + 1) - k \in 1..n /\ (n + 1) - ((n + 1) - k) = k
          BY <1>2
        <4>2. changelog[(n + 1) - ((n + 1) - k)] = log[(n + 1) - k]
          BY <1>5, <4>1
        <4>3. QED
          BY <4>1, <4>2
      <3>2. QED
        BY <3>1
    <2>2. Kept(changelog) = 1..n
      <3>1. ASSUME NEW k \in 1..n, NEW j \in 1..(k - 1)
            PROVE  changelog[j].at # changelog[k].at
        <4>1. j \in 1..n /\ (n + 1) - j # (n + 1) - k
          BY <1>2
        <4>2. QED
          BY <1>3, <2>1, <4>1
      <3>2. QED
        BY <1>5, <3>1 DEF Kept
    <2>3. \A k \in 1..n : place[k] = (n + 1) - k
      OBVIOUS
    <2> HIDE DEF place
    <2>4. Places(place, n) = 1..n
      <3>1. ASSUME NEW k \in 1..n PROVE k \in Places(place, n)
        <4>1. (n + 1) - k \in 1..n /\ (n + 1) - ((n + 1) - k) = k
          BY <1>2
        <4>2. place[(n + 1) - k] = k
          BY <2>3, <4>1
        <4>3. QED
          BY <4>1, <4>2 DEF Places
      <3>2. ASSUME NEW x \in Places(place, n) PROVE x \in 1..n
        BY <2>1, <2>3 DEF Places
      <3>3. QED
        BY <3>1, <3>2
    <2>5. \A k \in 1..n : place[k] \in Nat
      BY <2>1, <2>3
    <2>6. Lists(changelog, log, place)
      BY <1>5, <2>2, <2>3, <2>4, <2>5 DEF Lists, n
    <2>7. QED
      BY <2>6, ExtractedByRank
  <1>6. CASE /\ DOMAIN changelog = 1..(n + n)
             /\ \A k \in 1..n : changelog[k] = log[k] /\ changelog[n + k] = log[k]
    <2> DEFINE place == [k \in 1..n |-> k]
    <2>1. Kept(changelog) = 1..n
      <3>1. ASSUME NEW k \in 1..n PROVE k \in Kept(changelog)
        <4>1. \A j \in 1..(k - 1) : j \in 1..n /\ j # k
          BY <1>2
        <4>2. \A j \in 1..(k - 1) : changelog[j].at # changelog[k].at
          BY <1>3, <1>6, <4>1
        <4>3. k \in DOMAIN changelog
          BY <1>2, <1>6
        <4>4. QED
          BY <4>2, <4>3 DEF Kept
      <3>2. ASSUME NEW x \in Kept(changelog), x \notin 1..n PROVE FALSE
        <4>1. x \in 1..(n + n)
          BY <1>6 DEF Kept
        <4>2. x - n \in 1..n /\ n + (x - n) = x /\ x - n \in 1..(x - 1)
          BY <1>2, <3>2, <4>1
        <4>3. changelog[x - n] = changelog[x]
          BY <1>6, <4>2
        <4>4. QED
          BY <4>2, <4>3 DEF Kept
      <3>3. QED
        BY <3>1, <3>2
    <2>2. \A k \in 1..n : place[k] = k
      OBVIOUS
    <2> HIDE DEF place
    <2>3. Places(place, n) = 1..n
      BY <2>2 DEF Places
    <2>4. Lists(changelog, log, place)
      BY <1>2, <1>6, <2>1, <2>2, <2>3 DEF Lists, n
    <2>5. QED
      BY <2>4, ExtractedByRank
  <1>7. QED
    BY <1>4, <1>5, <1>6 DEF Delivers, n

=============================================================================
