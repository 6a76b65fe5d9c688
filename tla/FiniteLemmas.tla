---------------------------- MODULE FiniteLemmas ----------------------------
(***************************************************************************)
(* Facts about numbers, finite sets, recursive functions and sums that the *)
(* proofs about planning, scheduling and replays share.                    *)
(*                                                                         *)
(* Folds and recursive functions are reached through their defining        *)
(* equation: that a function satisfies it is shown by least counterexample *)
(* (FoldExists, RecursionExists), and what it computes by the induction    *)
(* lemmas over sets and numbers, which take a set, not a predicate.        *)
(***************************************************************************)
EXTENDS Integers, FiniteSets, SequencesExt,
        FiniteSetTheorems, WellFoundedInduction, NaturalsInduction, TLAPS

-----------------------------------------------------------------------------
(* Induction over numbers and over finite sets.                            *)

LEMMA Least ==
    ASSUME NEW T, T \subseteq Nat, T # {}
    PROVE  \E x \in T : \A y \in T : x <= y
  <1>1. \E x \in T : \A y \in T : ~(<<y, x>> \in OpToRel(<, Nat))
    BY NatLessThanWellFounded, WFMin
  <1>2. \A x, y \in Nat : y < x => <<y, x>> \in OpToRel(<, Nat)
    BY DEF OpToRel
  <1>3. PICK x \in T : \A y \in T : ~(<<y, x>> \in OpToRel(<, Nat))
    BY <1>1
  <1>4. ASSUME NEW y \in T PROVE x <= y
    <2>1. x \in Nat /\ y \in Nat /\ ~(y < x)
      BY <1>2, <1>3
    <2> QED BY <2>1
  <1> QED BY <1>4

LEMMA CountUp ==
    ASSUME NEW n \in Nat, NEW T, 0 \in T, \A k \in 0..(n - 1) : k \in T => k + 1 \in T
    PROVE  \A k \in 0..n : k \in T
  <1> DEFINE Bad == {k \in 0..n : k \notin T}
  <1>1. SUFFICES ASSUME Bad # {} PROVE FALSE
    OBVIOUS
  <1>2. PICK k \in Bad : \A j \in Bad : k <= j
    <2>1. Bad \subseteq Nat
      OBVIOUS
    <2> HIDE DEF Bad
    <2> QED BY <1>1, <2>1, Least
  <1>3. k \in 0..n /\ k \notin T /\ k # 0
    OBVIOUS
  <1>4. k - 1 \in 0..(n - 1) /\ k - 1 \in 0..n /\ ~(k <= k - 1) /\ (k - 1) + 1 = k
    BY <1>3
  <1>5. k - 1 \in T
    <2>1. k - 1 \notin Bad
      BY <1>2, <1>4
    <2> QED BY <1>4, <2>1
  <1> QED BY <1>3, <1>4, <1>5

LEMMA GrowSet ==
    ASSUME NEW S, IsFiniteSet(S), NEW T, {} \in T,
           \A s \in SUBSET S : \A x \in S \ s : s \in T => s \cup {x} \in T
    PROVE  S \in T
  <1> DEFINE Bad == {n \in Nat : \E s \in SUBSET S : Cardinality(s) = n /\ s \notin T}
  <1>1. SUFFICES ASSUME S \notin T PROVE FALSE
    OBVIOUS
  <1>2. \A s \in SUBSET S : IsFiniteSet(s) /\ Cardinality(s) \in Nat
    BY FS_Subset, FS_CardinalityType
  <1>3. PICK n \in Bad : \A k \in Bad : n <= k
    <2>1. Bad \subseteq Nat /\ Bad # {}
      BY <1>1, <1>2
    <2> HIDE DEF Bad
    <2> QED BY <2>1, Least
  <1>4. PICK s \in SUBSET S : Cardinality(s) = n /\ s \notin T
    OBVIOUS
  <1>5. PICK x \in s : TRUE
    BY <1>4
  <1>6. PICK r \in SUBSET S : r = s \ {x}
    BY <1>4
  <1>7. Cardinality(r) = n - 1 /\ x \notin r /\ s = r \cup {x} /\ x \in S \ r
    <2>1. Cardinality(s \ {x}) = Cardinality(s) - 1
      BY <1>2, <1>4, <1>5, FS_RemoveElement
    <2>2. x \notin s \ {x} /\ s = (s \ {x}) \cup {x}
      BY <1>5
    <2> HIDE DEF Bad
    <2> QED BY <1>4, <1>5, <1>6, <2>1, <2>2
  <1>8. n - 1 \in Nat /\ ~(n <= n - 1)
    <2>1. n \in Nat /\ Cardinality(r) \in Nat
      BY <1>2
    <2> QED BY <1>7, <2>1
  <1>9. r \in T
    <2>1. n - 1 \notin Bad
      BY <1>3, <1>8
    <2> QED BY <1>7, <1>8, <2>1
  <1> QED BY <1>4, <1>7, <1>9

-----------------------------------------------------------------------------
(* A recursive function exists: each value depends on one earlier value, of *)
(* an argument with a smaller measure.                                      *)

Recursive(h, D, m, pred, key, B, F) ==
    h = [d \in D |-> IF m[d] = 0 THEN B[d] ELSE F[<<key[d], h[pred[d]]>>]]
UpTo(D, m, n) == {d \in D : m[d] <= n}

LEMMA RecursionExists ==
    ASSUME NEW D, NEW m, NEW N \in Nat, \A d \in D : m[d] \in 0..N, NEW pred,
           \A d \in D : m[d] # 0 => pred[d] \in D /\ m[pred[d]] < m[d],
           NEW key, NEW B, NEW F
    PROVE  \E h : Recursive(h, D, m, pred, key, B, F)
  <1> DEFINE T == {n \in Nat : \E h : Recursive(h, UpTo(D, m, n), m, pred, key, B, F)}
  <1>1. 0 \in T
    <2>1. PICK h : h = [d \in UpTo(D, m, 0) |-> B[d]]
      OBVIOUS
    <2>2. \A d \in UpTo(D, m, 0) : m[d] = 0
      BY DEF UpTo
    <2>3. Recursive(h, UpTo(D, m, 0), m, pred, key, B, F)
      BY <2>1, <2>2 DEF Recursive
    <2> QED BY <2>3
  <1>2. ASSUME NEW n \in 0..(N - 1), n \in T PROVE n + 1 \in T
    <2>1. PICK old : Recursive(old, UpTo(D, m, n), m, pred, key, B, F)
      BY <1>2
    <2>2. PICK h : h = [d \in UpTo(D, m, n + 1) |-> IF m[d] = 0 THEN B[d] ELSE F[<<key[d], old[pred[d]]>>]]
      OBVIOUS
    <2>3. UpTo(D, m, n) \subseteq UpTo(D, m, n + 1)
      BY DEF UpTo
    <2>4. \A d \in UpTo(D, m, n) : h[d] = old[d]
      BY <2>1, <2>2, <2>3 DEF Recursive
    <2>5. \A d \in UpTo(D, m, n + 1) : m[d] # 0 => pred[d] \in UpTo(D, m, n)
      BY DEF UpTo
    <2>6. Recursive(h, UpTo(D, m, n + 1), m, pred, key, B, F)
      BY <2>2, <2>4, <2>5 DEF Recursive
    <2> QED BY <2>6
  <1>3. N \in T
    <2> HIDE DEF T
    <2>1. \A k \in 0..N : k \in T
      BY <1>1, <1>2, CountUp
    <2> QED BY <2>1
  <1>4. UpTo(D, m, N) = D
    BY DEF UpTo
  <1> QED BY <1>3, <1>4

-----------------------------------------------------------------------------
(* Folds over finite sets: choice[s] is taken from s, then the rest folded. *)

Folds(h, F, base, choice, S) ==
    h = [s \in SUBSET S |-> IF s = {} THEN base ELSE F[<<choice[s], h[s \ {choice[s]}]>>]]

LEMMA FoldExists ==
    ASSUME NEW S, IsFiniteSet(S), NEW choice, \A s \in SUBSET S : s # {} => choice[s] \in s,
           NEW F, NEW base
    PROVE  \E h : Folds(h, F, base, choice, S)
  <1> DEFINE m == [s \in SUBSET S |-> Cardinality(s)]
             rest == [s \in SUBSET S |-> s \ {choice[s]}]
             B == [s \in SUBSET S |-> base]
  <1>1. \A s \in SUBSET S : IsFiniteSet(s) /\ Cardinality(s) \in Nat /\ (Cardinality(s) = 0 <=> s = {})
    BY FS_Subset, FS_CardinalityType, FS_EmptySet
  <1>2. Cardinality(S) \in Nat /\ \A s \in SUBSET S : m[s] \in 0..Cardinality(S)
    BY <1>1, FS_Subset
  <1>3. ASSUME NEW s \in SUBSET S, m[s] # 0
        PROVE  rest[s] \in SUBSET S /\ m[rest[s]] < m[s]
    <2>1. choice[s] \in s
      BY <1>1, <1>3
    <2>2. Cardinality(s \ {choice[s]}) = Cardinality(s) - 1
      BY <1>1, <2>1, FS_RemoveElement
    <2>3. s \ {choice[s]} \in SUBSET S /\ Cardinality(s) \in Nat
      BY <1>1
    <2> QED BY <2>2, <2>3
  <1>4. PICK h : Recursive(h, SUBSET S, m, rest, choice, B, F)
    <2> HIDE DEF m, rest, B
    <2> QED BY <1>2, <1>3, RecursionExists
  <1>5. h = [s \in SUBSET S |-> IF m[s] = 0 THEN B[s] ELSE F[<<choice[s], h[rest[s]]>>]]
    BY <1>4 DEF Recursive
  <1>6. Folds(h, F, base, choice, S)
    BY <1>1, <1>5 DEF Folds
  <1> QED BY <1>6
-----------------------------------------------------------------------------
(* Sums: SumFunction adds up a function over its domain, in some order.    *)

\* A property of all subsets that follows from the smaller ones.
LEMMA SmallerFirst ==
    ASSUME NEW S, IsFiniteSet(S), NEW T,
           \A s \in SUBSET S : (\A r \in SUBSET s : r # s => r \in T) => s \in T
    PROVE  \A s \in SUBSET S : s \in T
  <1> DEFINE Bad == {n \in Nat : \E s \in SUBSET S : Cardinality(s) = n /\ s \notin T}
  <1>1. SUFFICES ASSUME NEW t \in SUBSET S, t \notin T PROVE FALSE
    OBVIOUS
  <1>2. \A s \in SUBSET S : IsFiniteSet(s) /\ Cardinality(s) \in Nat
    BY FS_Subset, FS_CardinalityType
  <1>3. PICK n \in Bad : \A k \in Bad : n <= k
    <2>1. Bad \subseteq Nat /\ Bad # {}
      BY <1>1, <1>2
    <2> HIDE DEF Bad
    <2> QED BY <2>1, Least
  <1>4. PICK s \in SUBSET S : Cardinality(s) = n /\ s \notin T
    OBVIOUS
  <1>5. ASSUME NEW r \in SUBSET s, r # s PROVE r \in T
    <2>1. Cardinality(r) \in Nat /\ Cardinality(r) <= n /\ Cardinality(r) # n /\ n \in Nat
      BY <1>2, <1>4, <1>5, FS_Subset
    <2>2. Cardinality(r) \notin Bad
      BY <1>3, <2>1
    <2> QED BY <2>1, <2>2
  <1> QED BY <1>4, <1>5

First(s) == CHOOSE x \in s : TRUE
Adds(h, g, S) == h = [s \in SUBSET S |-> IF s = {} THEN 0 ELSE g[First(s)] + h[s \ {First(s)}]]

LEMMA AddsExists ==
    ASSUME NEW S, IsFiniteSet(S), NEW g, \A x \in S : g[x] \in Int
    PROVE  \E h : Adds(h, g, S) /\ \A s \in SUBSET S : h[s] \in Int
  <1> DEFINE choice == [s \in SUBSET S |-> First(s)]
             F == [p \in S \X Int |-> g[p[1]] + p[2]]
  <1>1. \A s \in SUBSET S : s # {} => choice[s] \in s /\ choice[s] = First(s)
    BY DEF First
  <1>2. PICK h : Folds(h, F, 0, choice, S)
    <2> HIDE DEF choice, F
    <2> QED BY <1>1, FoldExists
  <1>3. \A s \in SUBSET S : h[s] = IF s = {} THEN 0 ELSE F[<<First(s), h[s \ {First(s)}]>>]
    <2> HIDE DEF choice, F
    <2> QED BY <1>1, <1>2 DEF Folds
  <1>4. \A x \in S, i \in Int : F[<<x, i>>] = g[x] + i /\ g[x] + i \in Int
    OBVIOUS
  <1>5. \A s \in SUBSET S : h[s] \in Int
    <2> DEFINE T == {s \in SUBSET S : h[s] \in Int}
    <2>1. ASSUME NEW s \in SUBSET S, \A r \in SUBSET s : r # s => r \in T
          PROVE  s \in T
      <3> HIDE DEF F, choice
      <3>1. CASE s = {}
        <4>1. h[s] = 0
          BY <1>3, <3>1
        <4> QED BY <4>1
      <3>2. CASE s # {}
        <4>1. s \ {First(s)} \in SUBSET s /\ s \ {First(s)} # s /\ First(s) \in S
          BY <1>1, <3>2
        <4>2. PICK i \in Int : i = h[s \ {First(s)}]
          BY <2>1, <4>1
        <4>3. h[s] = F[<<First(s), i>>]
          BY <1>3, <3>2, <4>2
        <4>4. h[s] \in Int
          BY <1>4, <4>1, <4>3
        <4> QED BY <4>4
      <3> QED BY <3>1, <3>2
    <2> HIDE DEF T, F
    <2>2. \A s \in SUBSET S : s \in T
      BY <2>1, SmallerFirst
    <2> QED BY <2>2 DEF T
  <1>6. ASSUME NEW s \in SUBSET S, s # {}
        PROVE  h[s] = g[First(s)] + h[s \ {First(s)}]
    <2> HIDE DEF F
    <2>1. First(s) \in S /\ s \ {First(s)} \in SUBSET S
      BY <1>1, <1>6
    <2> QED BY <1>3, <1>4, <1>5, <1>6, <2>1
  <1>7. DOMAIN h = SUBSET S /\ h = [s \in SUBSET S |-> h[s]]
    <2> HIDE DEF choice, F
    <2> QED BY <1>2 DEF Folds
  <1>8. Adds(h, g, S)
    <2> HIDE DEF choice, F
    <2>1. \A s \in SUBSET S : h[s] = IF s = {} THEN 0 ELSE g[First(s)] + h[s \ {First(s)}]
      BY <1>3, <1>6
    <2> QED BY <1>7, <2>1 DEF Adds
  <1> QED BY <1>5, <1>8

LEMMA AddsUnique ==
    ASSUME NEW S, NEW R, IsFiniteSet(R), R \subseteq S, NEW f, NEW g, \A x \in R : f[x] = g[x],
           NEW h, Adds(h, f, S), NEW k, Adds(k, g, R)
    PROVE  \A s \in SUBSET R : h[s] = k[s]
  <1> DEFINE T == {s \in SUBSET R : h[s] = k[s]}
  <1>1. ASSUME NEW s \in SUBSET R, \A r \in SUBSET s : r # s => r \in T
        PROVE  s \in T
    <2>1. h[s] = IF s = {} THEN 0 ELSE f[First(s)] + h[s \ {First(s)}]
      BY DEF Adds
    <2>2. k[s] = IF s = {} THEN 0 ELSE g[First(s)] + k[s \ {First(s)}]
      BY DEF Adds
    <2>3. CASE s = {}
      BY <2>1, <2>2, <2>3
    <2>4. CASE s # {}
      <3>1. First(s) \in s
        BY <2>4 DEF First
      <3>2. s \ {First(s)} \in SUBSET s /\ s \ {First(s)} # s /\ f[First(s)] = g[First(s)]
        BY <3>1
      <3>3. h[s \ {First(s)}] = k[s \ {First(s)}]
        BY <1>1, <3>2
      <3> QED BY <2>1, <2>2, <2>4, <3>2, <3>3
    <2> QED BY <2>3, <2>4
  <1> HIDE DEF T
  <1>2. \A s \in SUBSET R : s \in T
    BY <1>1, SmallerFirst
  <1> QED BY <1>2 DEF T

\* The sum of g over a finite set S.
Total(g, S) == (CHOOSE h : Adds(h, g, S))[S]

LEMMA SumIsTotal ==
    ASSUME NEW g, IsFiniteSet(DOMAIN g), \A x \in DOMAIN g : g[x] \in Int
    PROVE  SumFunction(g) = Total(g, DOMAIN g)
  <1>1. SumFunction(g) = (CHOOSE h : h = [s \in SUBSET DOMAIN g |->
            IF s = {} THEN 0 ELSE g[CHOOSE x \in s : TRUE] + h[s \ {CHOOSE x \in s : TRUE}]])[DOMAIN g]
    BY DEF SumFunction, SumFunctionOnSet, FoldFunctionOnSet, MapThenFoldSet
  <1> QED BY <1>1 DEF Total, Adds, First
LEMMA TotalOfSubsets ==
    ASSUME NEW S, IsFiniteSet(S), NEW g, \A x \in S : g[x] \in Int, NEW h, Adds(h, g, S)
    PROVE  \A R \in SUBSET S : Total(g, R) = h[R]
  <1> TAKE R \in SUBSET S
  <1>1. IsFiniteSet(R) /\ \A x \in R : g[x] \in Int
    BY FS_Subset
  <1>2. PICK k : k = CHOOSE i : Adds(i, g, R)
    OBVIOUS
  <1>3. Adds(k, g, R)
    BY <1>1, <1>2, AddsExists
  <1>4. \A s \in SUBSET R : h[s] = k[s]
    BY <1>1, <1>3, AddsUnique
  <1> QED BY <1>2, <1>4 DEF Total

LEMMA TotalStep ==
    ASSUME NEW S, IsFiniteSet(S), NEW g, \A x \in S : g[x] \in Int
    PROVE  /\ Total(g, S) \in Int /\ Total(g, {}) = 0
           /\ \A x \in S : Total(g, S) = Total(g, S \ {x}) + g[x]
  <1>1. PICK h : Adds(h, g, S) /\ \A s \in SUBSET S : h[s] \in Int
    BY AddsExists
  <1>2. \A R \in SUBSET S : Total(g, R) = h[R]
    BY <1>1, TotalOfSubsets
  <1>3. \A s \in SUBSET S : h[s] = IF s = {} THEN 0 ELSE g[First(s)] + h[s \ {First(s)}]
    BY <1>1 DEF Adds
  <1> DEFINE T == {s \in SUBSET S : \A x \in s : h[s] = h[s \ {x}] + g[x]}
  <1>4. ASSUME NEW s \in SUBSET S, \A r \in SUBSET s : r # s => r \in T, NEW x \in s
        PROVE  h[s] = h[s \ {x}] + g[x]
    <2>1. PICK y \in s : y = First(s)
      BY DEF First
    <2>2. h[s] = g[y] + h[s \ {y}]
      BY <1>3, <2>1
    <2>3. CASE x = y
      <3>1. g[y] \in Int /\ h[s \ {y}] \in Int
        BY <1>1
      <3> QED BY <2>2, <2>3, <3>1
    <2>4. CASE x # y
      <3>1. s \ {y} \in SUBSET s /\ s \ {y} # s /\ x \in s \ {y}
        BY <2>4
      <3>2. s \ {x} \in SUBSET s /\ s \ {x} # s /\ y \in s \ {x}
        BY <2>4
      <3>3. h[s \ {y}] = h[(s \ {y}) \ {x}] + g[x]
        BY <1>4, <3>1
      <3>4. h[s \ {x}] = h[(s \ {x}) \ {y}] + g[y]
        BY <1>4, <3>2
      <3>5. (s \ {x}) \ {y} = (s \ {y}) \ {x}
        OBVIOUS
      <3>6. PICK a \in Int, b \in Int, c \in Int : a = g[x] /\ b = g[y] /\ c = h[(s \ {y}) \ {x}]
        BY <1>1
      <3>7. h[s \ {y}] = c + a /\ h[s \ {x}] = c + b /\ h[s] = b + (c + a)
        BY <2>2, <3>3, <3>4, <3>5, <3>6
      <3> QED BY <3>6, <3>7
    <2> QED BY <2>3, <2>4
  <1> HIDE DEF T
  <1>5. \A s \in SUBSET S : s \in T
    <2>1. \A s \in SUBSET S : (\A r \in SUBSET s : r # s => r \in T) => s \in T
      BY <1>4 DEF T
    <2> QED BY <2>1, SmallerFirst
  <1>6. \A x \in S : h[S] = h[S \ {x}] + g[x]
    BY <1>5 DEF T
  <1>7. h[{}] = 0
    BY <1>3
  <1> QED BY <1>1, <1>2, <1>6, <1>7

LEMMA TotalGrows ==
    ASSUME NEW S, IsFiniteSet(S), NEW g, NEW x, x \notin S, \A y \in S \cup {x} : g[y] \in Int
    PROVE  Total(g, S \cup {x}) = Total(g, S) + g[x]
  <1>1. IsFiniteSet(S \cup {x}) /\ (S \cup {x}) \ {x} = S
    BY FS_AddElement
  <1> QED BY <1>1, TotalStep

IntegersOn(g, S) == \A x \in S : g[x] \in Int
AgreeOn(f, g, S) == \A x \in S : f[x] = g[x]

LEMMA TotalSame ==
    ASSUME NEW S, IsFiniteSet(S), NEW f, NEW g, AgreeOn(f, g, S), IntegersOn(g, S)
    PROVE  Total(f, S) = Total(g, S)
  <1>1. PICK h, k : h = (CHOOSE i : Adds(i, f, S)) /\ k = (CHOOSE i : Adds(i, g, S))
    OBVIOUS
  <1>2. Adds(h, f, S) /\ Adds(k, g, S)
    <2>1. IntegersOn(f, S)
      BY DEF AgreeOn, IntegersOn
    <2>2. (\E i : Adds(i, f, S)) /\ \E i : Adds(i, g, S)
      BY <2>1, AddsExists DEF IntegersOn
    <2> QED BY <1>1, <2>2
  <1>3. \A s \in SUBSET S : h[s] = k[s]
    BY <1>2, AddsUnique DEF AgreeOn
  <1> QED BY <1>1, <1>3 DEF Total

\* A sum of multiples and others.
Combines(g, c, a, b, S) == \A x \in S : g[x] = c * a[x] + b[x]

LEMMA TotalLinear ==
    ASSUME NEW S, IsFiniteSet(S), NEW c \in Int, NEW a, NEW b, NEW g,
           IntegersOn(a, S), IntegersOn(b, S), Combines(g, c, a, b, S)
    PROVE  Total(g, S) = c * Total(a, S) + Total(b, S)
  <1> DEFINE T == {s \in SUBSET S : Total(g, s) = c * Total(a, s) + Total(b, s)}
  <1>1. {} \in T
    <2>1. Total(g, {}) = 0 /\ Total(a, {}) = 0 /\ Total(b, {}) = 0
      BY TotalStep, FS_EmptySet
    <2> QED BY <2>1
  <1>2. ASSUME NEW s \in SUBSET S, NEW x \in S \ s, s \in T PROVE s \cup {x} \in T
    <2>1. IsFiniteSet(s) /\ x \notin s
      BY FS_Subset
    <2>2. IntegersOn(a, s \cup {x}) /\ IntegersOn(b, s \cup {x})
      BY DEF IntegersOn
    <2>3. IntegersOn(g, s \cup {x})
      <3> SUFFICES ASSUME NEW y \in s \cup {x} PROVE g[y] \in Int
        BY DEF IntegersOn
      <3>1. a[y] \in Int /\ b[y] \in Int /\ g[y] = c * a[y] + b[y]
        BY DEF IntegersOn, Combines
      <3> QED BY <3>1
    <2> HIDE DEF T
    <2>4. Total(a, s \cup {x}) = Total(a, s) + a[x] /\ Total(a, s) \in Int
      BY <2>1, <2>2, TotalGrows, TotalStep, SMTT(30) DEF IntegersOn
    <2>5. Total(b, s \cup {x}) = Total(b, s) + b[x] /\ Total(b, s) \in Int
      BY <2>1, <2>2, TotalGrows, TotalStep, SMTT(30) DEF IntegersOn
    <2>6. Total(g, s \cup {x}) = Total(g, s) + g[x]
      BY <2>1, <2>3, TotalGrows DEF IntegersOn
    <2>7. a[x] \in Int /\ b[x] \in Int /\ g[x] = c * a[x] + b[x]
      BY DEF IntegersOn, Combines
    <2>8. PICK i \in Int, j \in Int, u \in Int, v \in Int :
              i = Total(a, s) /\ j = Total(b, s) /\ u = a[x] /\ v = b[x]
      BY <2>4, <2>5, <2>7
    <2>9. Total(g, s) = c * i + j
      BY <1>2, <2>8 DEF T
    <2>10. (c * i + j) + (c * u + v) = c * (i + u) + (j + v)
      OBVIOUS
    <2>11. Total(g, s \cup {x}) = c * Total(a, s \cup {x}) + Total(b, s \cup {x})
      BY <2>4, <2>5, <2>6, <2>7, <2>8, <2>9, <2>10
    <2> QED BY <2>11 DEF T
  <1> HIDE DEF T
  <1>3. S \in T
    BY <1>1, <1>2, GrowSet
  <1> QED BY <1>3 DEF T

LEMMA TotalMonotone ==
    ASSUME NEW S, IsFiniteSet(S), NEW a, NEW b,
           \A x \in S : a[x] \in Int /\ b[x] \in Int /\ a[x] <= b[x]
    PROVE  Total(a, S) <= Total(b, S)
  <1> DEFINE T == {s \in SUBSET S : Total(a, s) <= Total(b, s)}
  <1>1. {} \in T
    <2>1. Total(a, {}) = 0 /\ Total(b, {}) = 0
      BY TotalStep
    <2> QED BY <2>1
  <1>2. ASSUME NEW s \in SUBSET S, NEW x \in S \ s, s \in T PROVE s \cup {x} \in T
    <2>1. IsFiniteSet(s)
      BY FS_Subset
    <2>2. PICK i \in Int, j \in Int : i = Total(a, s) /\ j = Total(b, s) /\ i <= j
      BY <1>2, <2>1, TotalStep
    <2>3. PICK u \in Int, v \in Int : u = a[x] /\ v = b[x] /\ u <= v
      OBVIOUS
    <2>4. Total(a, s \cup {x}) = i + u /\ Total(b, s \cup {x}) = j + v
      BY <2>1, <2>2, <2>3, TotalGrows
    <2> QED BY <2>2, <2>3, <2>4
  <1> HIDE DEF T
  <1>3. S \in T
    BY <1>1, <1>2, GrowSet
  <1> QED BY <1>3 DEF T

\* Sums whose terms agree, up to two factors and a bound, agree up to the sum of
\* the bounds.
Near(k, i, d, j, bound) == k * i - d * j <= d * bound /\ d * j - k * i <= d * bound

LEMMA NearAdds ==
    ASSUME NEW k \in Int, NEW d \in Int, NEW i \in Int, NEW j \in Int, NEW x \in Int,
           NEW u \in Int, NEW v \in Int, NEW y \in Int, Near(k, i, d, j, x), Near(k, u, d, v, y)
    PROVE  Near(k, i + u, d, j + v, x + y)
  <1>1. k * (i + u) = k * i + k * u /\ d * (j + v) = d * j + d * v /\ d * (x + y) = d * x + d * y
    OBVIOUS
  <1>2. k * i \in Int /\ k * u \in Int /\ d * j \in Int /\ d * v \in Int /\ d * x \in Int /\ d * y \in Int
    OBVIOUS
  <1>3. PICK ki \in Int, ku \in Int, dj \in Int, dv \in Int, dx \in Int, dy \in Int :
          ki = k * i /\ ku = k * u /\ dj = d * j /\ dv = d * v /\ dx = d * x /\ dy = d * y
    BY <1>2
  <1>4. ki - dj <= dx /\ dj - ki <= dx /\ ku - dv <= dy /\ dv - ku <= dy
    BY <1>3 DEF Near
  <1>5. (ki + ku) - (dj + dv) <= dx + dy /\ (dj + dv) - (ki + ku) <= dx + dy
    BY <1>4
  <1> QED BY <1>1, <1>3, <1>5 DEF Near

LEMMA TotalNear ==
    ASSUME NEW S, IsFiniteSet(S), NEW k \in Int, NEW d \in Int, NEW a, NEW b, NEW c,
           IntegersOn(a, S), IntegersOn(b, S), IntegersOn(c, S),
           \A x \in S : Near(k, a[x], d, b[x], c[x])
    PROVE  Near(k, Total(a, S), d, Total(b, S), Total(c, S))
  <1> DEFINE T == {s \in SUBSET S : Near(k, Total(a, s), d, Total(b, s), Total(c, s))}
  <1>1. {} \in T
    <2>1. Total(a, {}) = 0 /\ Total(b, {}) = 0 /\ Total(c, {}) = 0
      BY TotalStep DEF IntegersOn
    <2>2. Near(k, 0, d, 0, 0)
      BY DEF Near
    <2> QED BY <2>1, <2>2
  <1>2. ASSUME NEW s \in SUBSET S, NEW x \in S \ s, s \in T PROVE s \cup {x} \in T
    <2>1. IsFiniteSet(s)
      BY FS_Subset
    <2>2. PICK i \in Int, j \in Int, z \in Int : i = Total(a, s) /\ j = Total(b, s) /\ z = Total(c, s)
      BY <2>1, TotalStep DEF IntegersOn
    <2>3. PICK u \in Int, v \in Int, y \in Int : u = a[x] /\ v = b[x] /\ y = c[x]
      BY DEF IntegersOn
    <2>4. /\ Total(a, s \cup {x}) = i + u /\ Total(b, s \cup {x}) = j + v
          /\ Total(c, s \cup {x}) = z + y
      BY <2>1, <2>2, <2>3, TotalGrows DEF IntegersOn
    <2>5. Near(k, i, d, j, z) /\ Near(k, u, d, v, y)
      BY <1>2, <2>2, <2>3
    <2>6. Near(k, i + u, d, j + v, z + y)
      BY <2>5, NearAdds
    <2> QED BY <2>4, <2>6
  <1> HIDE DEF T
  <1>3. S \in T
    BY <1>1, <1>2, GrowSet
  <1> QED BY <1>3 DEF T

LEMMA TotalCounts ==
    ASSUME NEW S, IsFiniteSet(S), NEW R \in SUBSET S, NEW c \in Int, NEW g,
           \A x \in S : g[x] = IF x \in R THEN c ELSE 0
    PROVE  Total(g, S) = c * Cardinality(R)
  <1> DEFINE T == {s \in SUBSET S : Total(g, s) = c * Cardinality(s \cap R)}
  <1>1. {} \in T
    <2>1. Total(g, {}) = 0 /\ {} \cap R = {} /\ Cardinality({}) = 0
      BY TotalStep, FS_EmptySet
    <2> QED BY <2>1
  <1>2. ASSUME NEW s \in SUBSET S, NEW x \in S \ s, s \in T PROVE s \cup {x} \in T
    <2>1. IsFiniteSet(s) /\ IsFiniteSet(s \cap R) /\ x \notin s /\ \A y \in s \cup {x} : g[y] \in Int
      BY FS_Subset
    <2>2. PICK k \in Nat : k = Cardinality(s \cap R)
      BY <2>1, FS_CardinalityType
    <2>3. Total(g, s \cup {x}) = c * k + g[x]
      <3>1. Total(g, s \cup {x}) = Total(g, s) + g[x]
        BY <2>1, TotalGrows
      <3> QED BY <1>2, <2>2, <3>1
    <2>4. CASE x \in R
      <3>1. (s \cup {x}) \cap R = (s \cap R) \cup {x} /\ x \notin s \cap R
        BY <2>4
      <3>2. Cardinality((s \cup {x}) \cap R) = k + 1
        BY <2>1, <2>2, <3>1, FS_AddElement
      <3>3. g[x] = c /\ c * k + c = c * (k + 1)
        BY <2>4
      <3> QED BY <2>3, <3>2, <3>3
    <2>5. CASE x \notin R
      <3>1. (s \cup {x}) \cap R = s \cap R /\ g[x] = 0 /\ c * k + 0 = c * k
        BY <2>5
      <3> QED BY <2>2, <2>3, <3>1
    <2> QED BY <2>4, <2>5
  <1> HIDE DEF T
  <1>3. S \in T
    BY <1>1, <1>2, GrowSet
  <1>4. S \cap R = R
    OBVIOUS
  <1> QED BY <1>3, <1>4 DEF T

LEMMA TotalOfParts ==
    ASSUME NEW S, IsFiniteSet(S), NEW R, IsFiniteSet(R), S \cap R = {}, NEW g,
           \A x \in S \cup R : g[x] \in Int
    PROVE  Total(g, S \cup R) = Total(g, S) + Total(g, R)
  <1> DEFINE T == {s \in SUBSET S : Total(g, s \cup R) = Total(g, s) + Total(g, R)}
  <1>1. {} \in T
    <2>1. Total(g, {}) = 0 /\ {} \cup R = R /\ Total(g, R) \in Int
      BY TotalStep
    <2> QED BY <2>1
  <1>2. ASSUME NEW s \in SUBSET S, NEW x \in S \ s, s \in T PROVE s \cup {x} \in T
    <2>1. IsFiniteSet(s) /\ IsFiniteSet(s \cup R)
      BY FS_Subset, FS_Union
    <2>2. PICK i \in Int, j \in Int, u \in Int : i = Total(g, s) /\ j = Total(g, R) /\ u = g[x]
      BY <2>1, TotalStep
    <2>3. Total(g, s \cup {x}) = i + u
      BY <2>1, <2>2, TotalGrows
    <2>4. Total(g, (s \cup R) \cup {x}) = (i + j) + u
      <3>1. x \notin s \cup R /\ \A y \in (s \cup R) \cup {x} : g[y] \in Int
        OBVIOUS
      <3>2. Total(g, (s \cup R) \cup {x}) = Total(g, s \cup R) + g[x]
        BY <2>1, <3>1, TotalGrows
      <3> QED BY <1>2, <2>2, <3>2
    <2>5. (s \cup {x}) \cup R = (s \cup R) \cup {x}
      OBVIOUS
    <2>6. (i + j) + u = (i + u) + j
      OBVIOUS
    <2>7. Total(g, (s \cup {x}) \cup R) = Total(g, s \cup {x}) + Total(g, R)
      BY <2>2, <2>3, <2>4, <2>5, <2>6
    <2> QED BY <2>7
  <1> HIDE DEF T
  <1>3. S \in T
    BY <1>1, <1>2, GrowSet
  <1> QED BY <1>3 DEF T
LEMMA TotalNatural ==
    ASSUME NEW S, IsFiniteSet(S), NEW g, \A x \in S : g[x] \in Nat
    PROVE  Total(g, S) \in Nat
  <1> DEFINE T == {s \in SUBSET S : Total(g, s) \in Nat}
  <1>1. {} \in T
    <2>1. Total(g, {}) = 0
      BY TotalStep, FS_EmptySet
    <2> QED BY <2>1
  <1>2. ASSUME NEW s \in SUBSET S, NEW x \in S \ s, s \in T PROVE s \cup {x} \in T
    <2>1. IsFiniteSet(s) /\ x \notin s /\ \A y \in s \cup {x} : g[y] \in Int
      BY FS_Subset
    <2>2. Total(g, s \cup {x}) = Total(g, s) + g[x]
      BY <2>1, TotalGrows
    <2>3. Total(g, s) \in Nat /\ g[x] \in Nat
      BY <1>2
    <2> QED BY <2>2, <2>3
  <1> HIDE DEF T
  <1>3. S \in T
    BY <1>1, <1>2, GrowSet
  <1> QED BY <1>3 DEF T

-----------------------------------------------------------------------------
(* PlacesInOrder in an order, and division.                                    *)

LEMMA FirstNumbers ==
    ASSUME NEW n \in Nat
    PROVE  IsFiniteSet(0..(n - 1)) /\ Cardinality(0..(n - 1)) = n
  <1>1. 0 \in Int /\ n - 1 \in Int
    OBVIOUS
  <1>2. IsFiniteSet(0..(n - 1))
    BY <1>1, FS_Interval
  <1>3. Cardinality(0..(n - 1)) = IF 0 > n - 1 THEN 0 ELSE (n - 1) - 0 + 1
    BY <1>1, FS_Interval
  <1>4. (IF 0 > n - 1 THEN 0 ELSE (n - 1) - 0 + 1) = n
    OBVIOUS
  <1> QED BY <1>2, <1>3, <1>4

\* B is a strict total order of M, as a set of pairs.
Orders2(B, M) ==
    /\ \A p \in M : <<p, p>> \notin B
    /\ \A p, q \in M : p # q => <<p, q>> \in B \/ <<q, p>> \in B
    /\ \A p, q, r \in M : <<p, q>> \in B /\ <<q, r>> \in B => <<p, r>> \in B
Before(B, M, p) == {q \in M : <<q, p>> \in B}

\* The number of elements before one is its position, from 0.
LEMMA PlacesInOrder ==
    ASSUME NEW M, IsFiniteSet(M), NEW B, Orders2(B, M),
           NEW pos, pos = [p \in M |-> Cardinality(Before(B, M, p))]
    PROVE  /\ pos \in Bijection(M, 0..(Cardinality(M) - 1))
           /\ \A p, q \in M : <<p, q>> \in B => pos[p] < pos[q]
  <1>1. PICK n \in Nat : n = Cardinality(M)
    BY FS_CardinalityType
  <1>2. ASSUME NEW p \in M
        PROVE  IsFiniteSet(Before(B, M, p)) /\ pos[p] \in 0..(n - 1)
    <2>1. Before(B, M, p) \in SUBSET M /\ p \notin Before(B, M, p)
      BY DEF Before, Orders2
    <2>2. IsFiniteSet(Before(B, M, p)) /\ Cardinality(Before(B, M, p)) <= n
          /\ Cardinality(Before(B, M, p)) # n
      BY <1>1, <2>1, FS_Subset
    <2>3. Cardinality(Before(B, M, p)) \in Nat
      BY <2>2, FS_CardinalityType
    <2> QED BY <1>1, <2>2, <2>3
  <1>3. ASSUME NEW p \in M, NEW q \in M, <<p, q>> \in B
        PROVE  pos[p] < pos[q]
    <2>1. Before(B, M, p) \in SUBSET Before(B, M, q) /\ p \in Before(B, M, q) /\ p \notin Before(B, M, p)
      BY <1>3 DEF Before, Orders2
    <2>2. /\ Cardinality(Before(B, M, p)) <= Cardinality(Before(B, M, q))
          /\ Cardinality(Before(B, M, p)) # Cardinality(Before(B, M, q))
      BY <1>2, <2>1, FS_Subset
    <2>3. pos[p] \in Nat /\ pos[q] \in Nat
      BY <1>2
    <2> QED BY <2>2, <2>3
  <1>4. pos \in Injection(M, 0..(n - 1))
    <2>1. pos \in [M -> 0..(n - 1)]
      BY <1>2
    <2>2. ASSUME NEW p \in M, NEW q \in M, pos[p] = pos[q] PROVE p = q
      <3>1. SUFFICES ASSUME p # q PROVE FALSE
        OBVIOUS
      <3>2. pos[p] < pos[q] \/ pos[q] < pos[p]
        BY <1>3, <3>1 DEF Orders2
      <3>3. pos[p] \in Nat /\ pos[q] \in Nat
        BY <1>2
      <3> QED BY <2>2, <3>2, <3>3
    <2> QED BY <2>1, <2>2 DEF Injection, IsInjective
  <1>5. pos \in Surjection(M, 0..(n - 1))
    BY <1>1, <1>4, FirstNumbers, FS_Injection
  <1> QED BY <1>1, <1>3, <1>4, <1>5 DEF Bijection

LEMMA FirstOfThem ==
    ASSUME NEW M, IsFiniteSet(M), NEW n \in Nat, NEW pos \in Bijection(M, 0..(n - 1)), NEW k \in 0..n
    PROVE  Cardinality({p \in M : pos[p] < k}) = k
  <1> DEFINE L == {p \in M : pos[p] < k}
             r == [p \in L |-> pos[p]]
  <1>1. /\ pos \in [M -> 0..(n - 1)]
        /\ \A p, q \in M : pos[p] = pos[q] => p = q
        /\ \A i \in 0..(n - 1) : \E p \in M : pos[p] = i
    BY DEF Bijection, Injection, Surjection, IsInjective
  <1>2. r \in [L -> 0..(k - 1)]
    BY <1>1
  <1>3. \A i \in 0..(k - 1) : \E p \in L : r[p] = i
    <2> TAKE i \in 0..(k - 1)
    <2>1. i \in 0..(n - 1) /\ i < k
      OBVIOUS
    <2>2. PICK p \in M : pos[p] = i
      BY <1>1, <2>1
    <2> QED BY <2>1, <2>2
  <1>4. \A p, q \in L : r[p] = r[q] => p = q
    BY <1>1
  <1>5. r \in Bijection(L, 0..(k - 1))
    <2> HIDE DEF L, r
    <2> QED BY <1>2, <1>3, <1>4 DEF Bijection, Injection, Surjection, IsInjective
  <1>6. IsFiniteSet(L) /\ IsFiniteSet(0..(k - 1)) /\ Cardinality(0..(k - 1)) = k
    BY FS_Subset, FirstNumbers
  <1>7. Cardinality(0..(k - 1)) = Cardinality(L)
    <2> HIDE DEF L, r
    <2>1. ExistsBijection(L, 0..(k - 1))
      BY <1>5 DEF ExistsBijection
    <2> QED BY <1>6, <2>1, FS_Bijection
  <1> QED BY <1>6, <1>7

LEMMA Division ==
    ASSUME NEW n \in Int, NEW d \in Nat \ {0}
    PROVE  /\ n \div d \in Int /\ n % d \in 0..(d - 1)
           /\ n = d * (n \div d) + (n % d)
           /\ n >= 0 => n \div d >= 0
  OBVIOUS

-----------------------------------------------------------------------------
(* Greatest and least elements.                                            *)

LEMMA Larger ==
    ASSUME NEW a \in Int, NEW b \in Int
    PROVE  /\ Max({a, b}) = IF a >= b THEN a ELSE b
           /\ Min({a, b}) = IF a <= b THEN a ELSE b
  <1>1. ASSUME NEW x \in Int, NEW y \in Int
        PROVE  Max({x, y}) = IF x >= y THEN x ELSE y
    <2>1. PICK z : z = IF x >= y THEN x ELSE y
      OBVIOUS
    <2>2. z \in {x, y} /\ \A t \in {x, y} : z >= t
      BY <2>1
    <2>3. Max({x, y}) \in {x, y} /\ \A t \in {x, y} : Max({x, y}) >= t
      BY <2>2 DEF Max
    <2> QED BY <2>1, <2>3
  <1>2. Min({a, b}) = IF a <= b THEN a ELSE b
    <2>1. PICK z : z = IF a <= b THEN a ELSE b
      OBVIOUS
    <2>2. z \in {a, b} /\ \A t \in {a, b} : z <= t
      BY <2>1
    <2>3. Min({a, b}) \in {a, b} /\ \A t \in {a, b} : Min({a, b}) <= t
      BY <2>2 DEF Min
    <2> QED BY <2>1, <2>3
  <1> QED BY <1>1, <1>2

LEMMA MaxOfFinite ==
    ASSUME NEW S, IsFiniteSet(S), S \subseteq Int, S # {}
    PROVE  Max(S) \in S /\ \A y \in S : Max(S) >= y
  <1> DEFINE T == {s \in SUBSET S : s # {} => \E x \in s : \A y \in s : x >= y}
  <1>1. {} \in T
    OBVIOUS
  <1>2. ASSUME NEW s \in SUBSET S, NEW x \in S \ s, s \in T PROVE s \cup {x} \in T
    <2>1. CASE s = {}
      BY <2>1
    <2>2. CASE s # {}
      <3>1. PICK y \in s : \A z \in s : y >= z
        BY <1>2, <2>2
      <3>2. x \in Int /\ y \in Int /\ \A z \in s : z \in Int
        OBVIOUS
      <3>3. CASE x >= y
        <4>1. \A z \in s \cup {x} : x >= z
          BY <3>1, <3>2, <3>3
        <4> QED BY <4>1
      <3>4. CASE ~(x >= y)
        <4>1. \A z \in s \cup {x} : y >= z
          BY <3>1, <3>2, <3>4
        <4> QED BY <4>1
      <3> QED BY <3>3, <3>4
    <2> QED BY <2>1, <2>2
  <1>3. S \in T
    <2> HIDE DEF T
    <2> QED BY <1>1, <1>2, GrowSet
  <1>4. \E x \in S : \A y \in S : x >= y
    BY <1>3
  <1> QED BY <1>4 DEF Max

LEMMA SmallestOf ==
    ASSUME NEW S, S \subseteq Nat, S # {}
    PROVE  Min(S) \in S /\ \A y \in S : Min(S) <= y
  <1>1. \E x \in S : \A y \in S : x <= y
    BY Least
  <1> QED BY <1>1 DEF Min

LEMMA Greatest ==
    ASSUME NEW a \in Nat, NEW b \in Nat, NEW S, S \subseteq a..b, S # {}
    PROVE  Max(S) \in S /\ \A y \in S : Max(S) >= y
  <1> DEFINE T == {b - x : x \in S}
  <1>1. T \subseteq Nat
    <2>1. \A x \in a..b : b - x \in Nat
      OBVIOUS
    <2> QED BY <2>1
  <1>2. PICK t \in T : \A y \in T : t <= y
    <2>1. T # {}
      OBVIOUS
    <2> QED BY <1>1, <2>1, Least
  <1>3. PICK x \in S : t = b - x
    OBVIOUS
  <1>4. ASSUME NEW y \in S PROVE x >= y
    <2>1. b - x <= b - y
      BY <1>2, <1>3
    <2>2. x \in a..b /\ y \in a..b
      OBVIOUS
    <2> QED BY <2>1, <2>2
  <1> QED BY <1>4 DEF Max

-----------------------------------------------------------------------------
(* Sizes of disjoint sets, and of what two intervals share.                *)

Union(F, s) == UNION {F[x] : x \in s}
Apart(F, S) == \A x, y \in S : x # y => F[x] \cap F[y] = {}
Sizes(g, F, S) == \A x \in S : IsFiniteSet(F[x]) /\ g[x] = Cardinality(F[x])

\* The sum of the sizes of disjoint sets is the size of their union.
LEMMA SumOfSizes ==
    ASSUME NEW S, IsFiniteSet(S), NEW F, Apart(F, S), NEW g, Sizes(g, F, S)
    PROVE  IsFiniteSet(Union(F, S)) /\ Total(g, S) = Cardinality(Union(F, S))
  <1> DEFINE T == {s \in SUBSET S : IsFiniteSet(Union(F, s)) /\ Total(g, s) = Cardinality(Union(F, s))}
  <1>1. \A x \in S : g[x] \in Int /\ Cardinality(F[x]) \in Nat /\ IsFiniteSet(F[x])
    BY FS_CardinalityType DEF Sizes
  <1>2. {} \in T
    <2>1. Union(F, {}) = {}
      BY DEF Union
    <2>2. Total(g, {}) = 0
      BY TotalStep, FS_EmptySet
    <2> QED BY <2>1, <2>2, FS_EmptySet
  <1>3. ASSUME NEW s \in SUBSET S, NEW x \in S \ s, s \in T PROVE s \cup {x} \in T
    <2>1. Union(F, s \cup {x}) = Union(F, s) \cup F[x]
      BY DEF Union
    <2>2. Union(F, s) \cap F[x] = {}
      BY <1>3 DEF Union, Apart
    <2>3. IsFiniteSet(Union(F, s)) /\ Cardinality(Union(F, s)) \in Nat /\ Cardinality({}) = 0
      BY <1>3, FS_CardinalityType, FS_EmptySet
    <2>4. /\ IsFiniteSet(Union(F, s) \cup F[x])
          /\ Cardinality(Union(F, s) \cup F[x])
                = Cardinality(Union(F, s)) + Cardinality(F[x]) - Cardinality(Union(F, s) \cap F[x])
      BY <1>1, <2>3, FS_Union
    <2>5. Total(g, s \cup {x}) = Total(g, s) + g[x]
      <3>1. IsFiniteSet(s) /\ x \notin s /\ \A y \in s \cup {x} : g[y] \in Int
        BY <1>1, FS_Subset
      <3> QED BY <3>1, TotalGrows
    <2>6. Total(g, s) = Cardinality(Union(F, s)) /\ g[x] = Cardinality(F[x])
      BY <1>3 DEF Sizes
    <2>7. Cardinality(Union(F, s) \cup F[x]) = Cardinality(Union(F, s)) + Cardinality(F[x])
      <3>1. Cardinality(Union(F, s) \cap F[x]) = 0
        BY <2>2, <2>3
      <3> QED BY <1>1, <2>3, <2>4, <3>1
    <2>8. /\ IsFiniteSet(Union(F, s \cup {x}))
          /\ Total(g, s \cup {x}) = Cardinality(Union(F, s \cup {x}))
      BY <2>1, <2>4, <2>5, <2>6, <2>7
    <2>9. s \cup {x} \in SUBSET S
      OBVIOUS
    <2> QED BY <2>8, <2>9
  <1> HIDE DEF T
  <1>4. S \in T
    BY <1>2, <1>3, GrowSet
  <1> QED BY <1>4 DEF T

\* What [a, b) and [from, to) have in common.
InCommon(a, b, from, to) == Max({0, Min({b, to}) - Max({a, from})})

LEMMA CommonSlots ==
    ASSUME NEW a \in Int, NEW b \in Int, NEW from \in Int, NEW to \in Int
    PROVE  /\ IsFiniteSet((a..(b - 1)) \cap (from..(to - 1)))
           /\ Cardinality((a..(b - 1)) \cap (from..(to - 1))) = InCommon(a, b, from, to)
           /\ InCommon(a, b, from, to) \in Nat
  <1>1. PICK left \in Int : left = Max({a, from}) /\ left = IF a >= from THEN a ELSE from
    BY Larger
  <1>2. PICK right \in Int : right = Min({b, to}) /\ right = IF b <= to THEN b ELSE to
    BY Larger
  <1>3. PICK last \in Int : last = right - 1
    BY <1>2
  <1>4. /\ IsFiniteSet(left..last)
        /\ Cardinality(left..last) = IF left > last THEN 0 ELSE last - left + 1
    BY FS_Interval
  <1>5. (a..(b - 1)) \cap (from..(to - 1)) = left..last
    BY <1>1, <1>2, <1>3
  <1>6. (IF left > last THEN 0 ELSE last - left + 1) = IF right > left THEN right - left ELSE 0
    BY <1>3
  <1>7. Max({0, right - left}) = IF right > left THEN right - left ELSE 0
    <2>1. PICK gap \in Int : gap = right - left
      OBVIOUS
    <2>2. Max({0, gap}) = IF 0 >= gap THEN 0 ELSE gap
      BY Larger
    <2> QED BY <2>1, <2>2
  <1>8. InCommon(a, b, from, to) = IF right > left THEN right - left ELSE 0
    BY <1>1, <1>2, <1>7 DEF InCommon
  <1>9. InCommon(a, b, from, to) \in Nat
    BY <1>1, <1>2, <1>8
  <1> QED BY <1>4, <1>5, <1>6, <1>8, <1>9

\* Overlaps of disjoint intervals with one window add up to the slots of their
\* union there.
Spans(a, b, S) == [x \in S |-> a[x]..(b[x] - 1)]
Window(from, to) == from..(to - 1)
Overlaps(g, a, b, S, from, to) == \A x \in S : g[x] = InCommon(a[x], b[x], from, to)

LEMMA OverlapsAddUp ==
    ASSUME NEW S, IsFiniteSet(S), NEW a, NEW b, IntegersOn(a, S), IntegersOn(b, S),
           Apart(Spans(a, b, S), S), NEW from \in Int, NEW to \in Int,
           NEW g, Overlaps(g, a, b, S, from, to)
    PROVE  /\ Total(g, S) = Cardinality(Union(Spans(a, b, S), S) \cap Window(from, to))
           /\ IsFiniteSet(Union(Spans(a, b, S), S))
           /\ \A x \in S : g[x] \in Int
  <1>1. PICK F : F = Spans(a, b, S)
    OBVIOUS
  <1>2. PICK window : window = Window(from, to)
    OBVIOUS
  <1>3. PICK G : G = [x \in S |-> F[x] \cap window]
    OBVIOUS
  <1>4. ASSUME NEW x \in S
        PROVE  IsFiniteSet(G[x]) /\ g[x] = Cardinality(G[x]) /\ g[x] \in Int /\ IsFiniteSet(F[x])
    <2>1. PICK p \in Int, q \in Int : p = a[x] /\ q = b[x]
      BY <1>4 DEF IntegersOn
    <2>2. F[x] = p..(q - 1) /\ G[x] = (p..(q - 1)) \cap (from..(to - 1))
      <3>1. F[x] = a[x]..(b[x] - 1)
        BY <1>1, <1>4 DEF Spans
      <3>2. G[x] = F[x] \cap (from..(to - 1))
        BY <1>2, <1>3, <1>4 DEF Window
      <3> QED BY <2>1, <3>1, <3>2
    <2>3. g[x] = InCommon(p, q, from, to)
      BY <1>4, <2>1 DEF Overlaps
    <2>4. IsFiniteSet(p..(q - 1))
      BY FS_Interval
    <2> QED BY <2>2, <2>3, <2>4, CommonSlots
  <1>5. Sizes(g, G, S)
    BY <1>4 DEF Sizes
  <1>6. Apart(G, S)
    BY <1>1, <1>3 DEF Apart
  <1>7. Total(g, S) = Cardinality(Union(G, S))
    BY <1>5, <1>6, SumOfSizes
  <1>8. Union(G, S) = Union(F, S) \cap window
    BY <1>3 DEF Union
  <1>9. IsFiniteSet(Union(F, S))
    <2>1. PICK h : h = [x \in S |-> Cardinality(F[x])]
      OBVIOUS
    <2>2. Sizes(h, F, S)
      BY <1>4, <2>1 DEF Sizes
    <2>3. Apart(F, S)
      BY <1>1
    <2> QED BY <2>2, <2>3, SumOfSizes
  <1> QED BY <1>1, <1>2, <1>4, <1>7, <1>8, <1>9

\* An interval has as many slots as it is long.
LEMMA SpanLength ==
    ASSUME NEW a \in Int, NEW b \in Int, a <= b
    PROVE  IsFiniteSet(a..(b - 1)) /\ Cardinality(a..(b - 1)) = b - a
  <1>1. PICK c \in Int : c = b - 1
    OBVIOUS
  <1>2. IsFiniteSet(a..c) /\ Cardinality(a..c) = IF a > c THEN 0 ELSE c - a + 1
    BY FS_Interval
  <1>3. (IF a > c THEN 0 ELSE c - a + 1) = b - a
    BY <1>1
  <1> QED BY <1>1, <1>2, <1>3

\* Of a finite set, what is left of two disjoint parts of it.
LEMMA WhatIsLeft ==
    ASSUME NEW O, IsFiniteSet(O), NEW A \in SUBSET O, NEW B \in SUBSET O, A \cap B = {}
    PROVE  Cardinality(O) - Cardinality(A) - Cardinality(B) = Cardinality(O \ (A \cup B))
  <1>1. IsFiniteSet(A) /\ IsFiniteSet(B) /\ IsFiniteSet(O \ (A \cup B)) /\ IsFiniteSet(A \cup B)
    BY FS_Subset
  <1>2. PICK C : C = A \cup B
    OBVIOUS
  <1>3. Cardinality(C) = Cardinality(A) + Cardinality(B)
    <2>1. Cardinality(A \cup B) = Cardinality(A) + Cardinality(B) - Cardinality(A \cap B)
      BY <1>1, FS_Union
    <2>2. Cardinality(A \cap B) = 0 /\ Cardinality(A) \in Nat /\ Cardinality(B) \in Nat
      BY <1>1, FS_EmptySet, FS_CardinalityType
    <2> QED BY <1>2, <2>1, <2>2
  <1>4. Cardinality(O \ C) = Cardinality(O) - Cardinality(O \cap C)
    BY FS_Difference, <1>1, <1>2
  <1>5. O \cap C = C
    BY <1>2
  <1>6. /\ Cardinality(A) \in Nat /\ Cardinality(B) \in Nat /\ Cardinality(O) \in Nat
        /\ Cardinality(O \ C) \in Nat
    BY <1>1, <1>2, FS_CardinalityType
  <1> QED BY <1>2, <1>3, <1>4, <1>5, <1>6

\* A sum over a set is the sum over the parts of it.
PartTotals(h, g, F, S) == \A x \in S : IsFiniteSet(F[x]) /\ IntegersOn(g, F[x]) /\ h[x] = Total(g, F[x])

LEMMA PartsAddUp ==
    ASSUME NEW S, IsFiniteSet(S), NEW F, Apart(F, S), NEW g, NEW h, PartTotals(h, g, F, S)
    PROVE  /\ IsFiniteSet(Union(F, S)) /\ IntegersOn(g, Union(F, S)) /\ IntegersOn(h, S)
           /\ Total(h, S) = Total(g, Union(F, S))
  <1> DEFINE T == {s \in SUBSET S : IsFiniteSet(Union(F, s)) /\ Total(h, s) = Total(g, Union(F, s))}
  <1>1. \A x \in S : /\ IsFiniteSet(F[x]) /\ h[x] = Total(g, F[x]) /\ h[x] \in Int
                     /\ \A y \in F[x] : g[y] \in Int
    BY TotalStep DEF PartTotals, IntegersOn
  <1>2. {} \in T
    <2>1. Union(F, {}) = {}
      BY DEF Union
    <2>2. Total(g, {}) = 0 /\ Total(h, {}) = 0
      BY TotalStep, FS_EmptySet
    <2> QED BY <2>1, <2>2, FS_EmptySet
  <1>3. ASSUME NEW s \in SUBSET S, NEW x \in S \ s, s \in T PROVE s \cup {x} \in T
    <2>1. Union(F, s \cup {x}) = Union(F, s) \cup F[x]
      BY DEF Union
    <2>2. Union(F, s) \cap F[x] = {}
      BY <1>3 DEF Union, Apart
    <2>3. IsFiniteSet(Union(F, s)) /\ IsFiniteSet(F[x])
      BY <1>1, <1>3
    <2>4. \A y \in Union(F, s) \cup F[x] : g[y] \in Int
      BY <1>1 DEF Union
    <2>5. Total(g, Union(F, s) \cup F[x]) = Total(g, Union(F, s)) + Total(g, F[x])
      BY <2>2, <2>3, <2>4, TotalOfParts
    <2>6. Total(h, s \cup {x}) = Total(h, s) + h[x]
      <3>1. IsFiniteSet(s) /\ x \notin s /\ \A y \in s \cup {x} : h[y] \in Int
        BY <1>1, FS_Subset
      <3> QED BY <3>1, TotalGrows
    <2>7. Total(h, s \cup {x}) = Total(g, Union(F, s \cup {x}))
      BY <1>1, <1>3, <2>1, <2>5, <2>6
    <2>8. IsFiniteSet(Union(F, s \cup {x}))
      BY <2>1, <2>3, FS_Union
    <2>9. s \cup {x} \in SUBSET S
      OBVIOUS
    <2> QED BY <2>7, <2>8, <2>9
  <1>4. S \in T
    <2> HIDE DEF T
    <2> QED BY <1>2, <1>3, GrowSet
  <1>5. IntegersOn(g, Union(F, S)) /\ IntegersOn(h, S)
    BY <1>1 DEF IntegersOn, Union
  <1> QED BY <1>4, <1>5

\* A sum over a set is the sum over a numbering of it.
LEMMA TotalRenamed ==
    ASSUME NEW I, IsFiniteSet(I), NEW S, NEW c \in Bijection(I, S), NEW g, IntegersOn(g, S),
           NEW h, \A i \in I : h[i] = g[c[i]]
    PROVE  IntegersOn(h, I) /\ Total(h, I) = Total(g, S)
  <1>1. PICK F : F = [i \in I |-> {c[i]}]
    OBVIOUS
  <1>2. /\ \A i \in I : c[i] \in S
        /\ \A i, j \in I : i # j => c[i] # c[j]
        /\ \A x \in S : \E i \in I : x = c[i]
    BY DEF Bijection, Injection, Surjection, IsInjective
  <1>3. Apart(F, I)
    BY <1>1, <1>2 DEF Apart
  <1>4. PartTotals(h, g, F, I)
    <2> SUFFICES ASSUME NEW i \in I
                 PROVE  IsFiniteSet(F[i]) /\ IntegersOn(g, F[i]) /\ h[i] = Total(g, F[i])
      BY DEF PartTotals
    <2>1. PICK x \in S : x = c[i]
      BY <1>2
    <2>2. F[i] = {x} /\ g[x] \in Int /\ h[i] = g[x]
      BY <1>1, <2>1 DEF IntegersOn
    <2>3. IsFiniteSet({x})
      BY FS_Singleton
    <2>4. Total(g, {x}) = Total(g, {x} \ {x}) + g[x]
      BY <2>2, <2>3, TotalStep
    <2>5. {x} \ {x} = {}
      OBVIOUS
    <2>6. Total(g, {}) = 0
      BY FS_EmptySet, TotalStep
    <2>7. Total(g, {x}) = g[x]
      BY <2>2, <2>4, <2>5, <2>6
    <2> QED BY <2>2, <2>3, <2>7 DEF IntegersOn
  <1>5. Union(F, I) = S
    BY <1>1, <1>2 DEF Union
  <1> QED BY <1>3, <1>4, <1>5, PartsAddUp

\* A multiple of a sum.
LEMMA TotalScaled ==
    ASSUME NEW S, IsFiniteSet(S), NEW c \in Int, NEW a, IntegersOn(a, S),
           NEW g, \A x \in S : g[x] = c * a[x]
    PROVE  Total(g, S) = c * Total(a, S) /\ IntegersOn(g, S)
  <1>1. PICK zero : zero = [x \in S |-> 0]
    OBVIOUS
  <1>2. Total(zero, S) = 0
    <2>1. {} \in SUBSET S /\ 0 \in Int /\ \A x \in S : zero[x] = IF x \in {} THEN 0 ELSE 0
      BY <1>1
    <2>2. Total(zero, S) = 0 * Cardinality({})
      BY <2>1, TotalCounts
    <2> QED BY <2>2, FS_EmptySet
  <1>3. IntegersOn(zero, S)
    BY <1>1 DEF IntegersOn
  <1>4. \A x \in S : c * a[x] \in Int
    BY DEF IntegersOn
  <1>5. Combines(g, c, a, zero, S)
    <2> SUFFICES ASSUME NEW x \in S PROVE g[x] = c * a[x] + zero[x]
      BY DEF Combines
    <2>1. PICK p \in Int : p = c * a[x]
      BY <1>4
    <2> QED BY <1>1, <2>1
  <1>6. Total(g, S) = c * Total(a, S) + Total(zero, S)
    BY <1>3, <1>5, TotalLinear
  <1>7. Total(a, S) \in Int
    BY TotalStep DEF IntegersOn
  <1>8. c * Total(a, S) \in Int
    BY <1>7
  <1>9. IntegersOn(g, S)
    BY <1>4 DEF IntegersOn
  <1> QED BY <1>2, <1>6, <1>8, <1>9

\* The sum of a function's values on a set.
LEMMA SumOverSet ==
    ASSUME NEW S, IsFiniteSet(S), NEW g, IntegersOn(g, S)
    PROVE  SumFunction([x \in S |-> g[x]]) = Total(g, S) /\ Total(g, S) \in Int
  <1>1. PICK f : f = [x \in S |-> g[x]]
    OBVIOUS
  <1>2. DOMAIN f = S /\ AgreeOn(f, g, S) /\ \A x \in S : f[x] \in Int
    BY <1>1 DEF AgreeOn, IntegersOn
  <1>3. SumFunction(f) = Total(f, S)
    BY <1>2, SumIsTotal
  <1>4. Total(f, S) = Total(g, S)
    BY <1>2, TotalSame
  <1>5. Total(f, S) \in Int
    BY <1>2, TotalStep
  <1> QED BY <1>1, <1>3, <1>4, <1>5

\* Facts of arithmetic the provers need named.
LEMMA ProductTypes ==
    ASSUME NEW a \in Int, NEW b \in Int
    PROVE  a * b \in Int
  OBVIOUS

LEMMA TimesOrder ==
    ASSUME NEW f \in Nat, NEW a \in Int, NEW b \in Int, a <= b
    PROVE  f * a <= f * b
  <1>1. PICK c \in Nat : b = a + c
    <2>1. b - a \in Nat /\ b = a + (b - a)
      OBVIOUS
    <2> QED BY <2>1
  <1>2. f * b = f * a + f * c /\ f * c >= 0 /\ f * a \in Int /\ f * c \in Int
    BY <1>1
  <1> QED BY <1>2

\* A finite image, and the least and greatest of one.
LEMMA FiniteImage ==
    ASSUME NEW S, IsFiniteSet(S), NEW g
    PROVE  IsFiniteSet({g[x] : x \in S})
  <1>1. PICK f, T : f = [x \in S |-> g[x]] /\ T = {g[x] : x \in S}
    OBVIOUS
  <1>2. f \in Surjection(S, T)
    BY <1>1 DEF Surjection
  <1>3. IsFiniteSet(T)
    BY <1>2, FS_Surjection
  <1> QED BY <1>1, <1>3

LEMMA FirstAndLast ==
    ASSUME NEW S, IsFiniteSet(S), S # {}, NEW g, \A x \in S : g[x] \in Int
    PROVE  /\ \E x \in S : \A y \in S : g[x] <= g[y]
           /\ \E x \in S : \A y \in S : g[x] >= g[y]
  <1>1. PICK neg : neg = [x \in S |-> 0 - g[x]]
    OBVIOUS
  <1>2. PICK P, N : P = {g[x] : x \in S} /\ N = {neg[x] : x \in S}
    OBVIOUS
  <1>3. IsFiniteSet(P) /\ IsFiniteSet(N)
    BY <1>2, FiniteImage
  <1>4. P \subseteq Int /\ P # {} /\ N \subseteq Int /\ N # {}
    BY <1>1, <1>2
  <1>5. Max(P) \in P /\ (\A y \in P : Max(P) >= y) /\ Max(N) \in N /\ \A y \in N : Max(N) >= y
    BY <1>3, <1>4, MaxOfFinite
  <1>6. PICK x \in S : Max(P) = g[x]
    BY <1>2, <1>5
  <1>7. \A y \in S : g[x] >= g[y]
    BY <1>2, <1>5, <1>6
  <1>8. PICK z \in S : Max(N) = 0 - g[z]
    BY <1>1, <1>2, <1>5
  <1>9. ASSUME NEW y \in S PROVE g[z] <= g[y]
    <2>1. Max(N) >= neg[y]
      BY <1>2, <1>5
    <2>2. PICK i \in Int, j \in Int : i = g[z] /\ j = g[y]
      OBVIOUS
    <2>3. 0 - i >= 0 - j
      BY <1>1, <1>8, <2>1, <2>2
    <2> QED BY <2>2, <2>3
  <1> QED BY <1>7, <1>9

LEMMA FourFinite ==
    ASSUME NEW a, NEW b, NEW c, NEW d
    PROVE  IsFiniteSet({a, b, c, d})
  <1>1. IsFiniteSet({} \cup {a})
    BY FS_EmptySet, FS_AddElement
  <1>2. IsFiniteSet(({} \cup {a}) \cup {b})
    BY <1>1, FS_AddElement
  <1>3. IsFiniteSet((({} \cup {a}) \cup {b}) \cup {c})
    BY <1>2, FS_AddElement
  <1>4. IsFiniteSet(((({} \cup {a}) \cup {b}) \cup {c}) \cup {d})
    BY <1>3, FS_AddElement
  <1>5. ((({} \cup {a}) \cup {b}) \cup {c}) \cup {d} = {a, b, c, d}
    OBVIOUS
  <1> QED BY <1>4, <1>5

-----------------------------------------------------------------------------
(* The elements of a set, one after the other.                             *)

\* Those of a finite set, by any strict order of them.
LEMMA SortedSequence ==
    ASSUME NEW M, IsFiniteSet(M), NEW B, Orders2(B, M)
    PROVE  \E s \in SetToSeqs(M) : \A i, j \in DOMAIN s : i < j => <<s[i], s[j]>> \in B
  <1> DEFINE pos == [x \in M |-> Cardinality(Before(B, M, x))]
  <1>1. PICK n \in Nat : n = Cardinality(M)
    BY FS_CardinalityType
  <1>2. /\ pos \in Bijection(M, 0..(n - 1))
        /\ \A x, y \in M : <<x, y>> \in B => pos[x] < pos[y]
    BY <1>1, PlacesInOrder
  <1> HIDE DEF pos
  <1>3. /\ pos \in [M -> 0..(n - 1)] /\ \A k \in 0..(n - 1) : \E x \in M : pos[x] = k
    BY <1>2 DEF Bijection, Injection, Surjection, IsInjective
  <1> DEFINE s == [i \in 1..n |-> CHOOSE x \in M : pos[x] = i - 1]
  <1>4. \A i \in 1..n : s[i] \in M /\ pos[s[i]] = i - 1
    <2> TAKE i \in 1..n
    <2>1. i - 1 \in 0..(n - 1)
      OBVIOUS
    <2>2. \E x \in M : pos[x] = i - 1
      BY <1>3, <2>1
    <2> QED BY <2>2
  <1>5. s \in [1..n -> M] /\ DOMAIN s = 1..n
    BY <1>4
  <1> HIDE DEF s
  <1>6. \A i, j \in 1..n : i # j => s[i] # s[j]
    BY <1>4
  <1>7. s \in SetToSeqs(M)
    BY <1>1, <1>5, <1>6 DEF SetToSeqs
  <1>8. ASSUME NEW i \in 1..n, NEW j \in 1..n, i < j
        PROVE  <<s[i], s[j]>> \in B
    <2>1. s[i] \in M /\ s[j] \in M /\ pos[s[i]] = i - 1 /\ pos[s[j]] = j - 1
      BY <1>4
    <2>2. s[i] # s[j] /\ ~(pos[s[j]] < pos[s[i]])
      BY <1>8, <2>1
    <2>3. <<s[i], s[j]>> \in B \/ <<s[j], s[i]>> \in B
      BY <2>1, <2>2 DEF Orders2
    <2> QED BY <1>2, <2>1, <2>2, <2>3
  <1> QED BY <1>5, <1>7, <1>8

\* A sequence of all elements of a set, each once, misses none.
LEMMA SequenceOfAll ==
    ASSUME NEW M, IsFiniteSet(M), NEW s \in SetToSeqs(M)
    PROVE  /\ Cardinality(M) \in Nat /\ s \in [1..Cardinality(M) -> M]
           /\ \A x \in M : \E i \in 1..Cardinality(M) : s[i] = x
  <1>1. PICK n \in Nat : n = Cardinality(M)
    BY FS_CardinalityType
  <1>2. s \in [1..n -> M] /\ \A i, j \in 1..n : i # j => s[i] # s[j]
    BY <1>1 DEF SetToSeqs
  <1>3. s \in Injection(1..n, M)
    BY <1>2 DEF Injection, IsInjective
  <1>4. Cardinality(1..n) = n
    <2>1. 1 \in Int /\ n \in Int
      OBVIOUS
    <2>2. Cardinality(1..n) = IF 1 > n THEN 0 ELSE n - 1 + 1
      BY <2>1, FS_Interval
    <2>3. (IF 1 > n THEN 0 ELSE n - 1 + 1) = n
      OBVIOUS
    <2> QED BY <2>2, <2>3
  <1>5. s \in Surjection(1..n, M)
    BY <1>1, <1>3, <1>4, FS_Injection
  <1> QED BY <1>1, <1>2, <1>5 DEF Surjection
==============================================================================
