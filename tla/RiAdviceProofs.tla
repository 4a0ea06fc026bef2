--------------------------- MODULE RiAdviceProofs ---------------------------
(***************************************************************************)
(* Theorems of RiAdvice: its four safety invariants.  TodayInv is the      *)
(* inductive invariant; it has the parts MadeInv, of the runs that ended   *)
(* without a report, and PricingInv, of what fetch-pricings has so far.    *)
(* FoldLeft and MapThenSumSet hide recursive functions; the first part of  *)
(* the module unfolds them, by induction over the subsets of a finite set. *)
(***************************************************************************)
EXTENDS RiAdvice, FiniteSetTheorems, WellFoundedInduction, TLAPS

-----------------------------------------------------------------------------
(* Induction, and folds *)

\* A set of numbers that is not empty has a least one.
LEMMA NatMin == ASSUME NEW S \in SUBSET Nat, S # {} PROVE \E x \in S : \A y \in S : x <= y
<1> DEFINE R == OpToRel(<, Nat)
<1>1. \A x, y \in Nat : x < y => <<x, y>> \in R
  BY DEF OpToRel
<1>2. IsWellFoundedOn(R, Nat)
  BY NatLessThanWellFounded
<1> HIDE DEF R
<1>3. PICK x \in S : \A y \in S : ~(<<y, x>> \in R)
  BY <1>2, WFMin, Zenon
<1>4. ASSUME NEW y \in S PROVE x <= y
  <2>1. x \in Nat /\ y \in Nat
    OBVIOUS
  <2>2. ~(y < x)
    BY <1>1, <1>3, <2>1
  <2> QED BY <2>1, <2>2
<1> QED BY <1>4

\* Induction over the subsets of a finite set, for a set of subsets.
LEMMA SubsetInduction ==
    ASSUME NEW S, IsFiniteSet(S), NEW P \in SUBSET (SUBSET S), {} \in P,
           \A s \in SUBSET S : s # {} /\ (\A t \in SUBSET s : t # s => t \in P) => s \in P
    PROVE  P = SUBSET S
<1> SUFFICES ASSUME P # SUBSET S PROVE FALSE
  OBVIOUS
<1> DEFINE Sizes == {Cardinality(s) : s \in (SUBSET S) \ P}
<1>1. \A s \in SUBSET S : IsFiniteSet(s) /\ Cardinality(s) \in Nat
  BY FS_Subset, FS_CardinalityType
<1>2. Sizes \in SUBSET Nat /\ Sizes # {}
  BY <1>1
<1>3. PICK n \in Sizes : \A m \in Sizes : n <= m
  <2> HIDE DEF Sizes
  <2> QED BY <1>2, NatMin
<1>4. PICK s \in (SUBSET S) \ P : n = Cardinality(s)
  BY <1>3
<1>5. ASSUME NEW t \in SUBSET s, t # s PROVE t \in P
  <2>1. t \in SUBSET S /\ Cardinality(t) \in Nat /\ Cardinality(s) \in Nat
    BY <1>1
  <2>2. Cardinality(t) < Cardinality(s)
    BY <1>1, <1>5, <2>1, FS_Subset
  <2>3. t \notin P => Cardinality(t) \in Sizes
    BY <2>1
  <2> QED BY <1>3, <1>4, <2>1, <2>2, <2>3
<1> QED BY <1>4, <1>5

\* What a recursive definition takes from a set when it goes through it one by one.
Defines(f, S, base, pick, step) ==
    f = [s \in SUBSET S |-> IF s = {} THEN base ELSE step[<<pick[s], f[s \ {pick[s]}]>>]]

\* Two functions that a recursion over the subsets of S defines are one.
LEMMA Unique ==
    ASSUME NEW S, IsFiniteSet(S), NEW base, NEW pick, NEW step, \A s \in SUBSET S : s # {} => pick[s] \in s,
           NEW T \in SUBSET S, NEW f, NEW g, Defines(f, S, base, pick, step), Defines(g, T, base, pick, step)
    PROVE  \A s \in SUBSET T : g[s] = f[s]
<1> DEFINE Q == {u \in SUBSET T : g[u] = f[u]}
<1>1. IsFiniteSet(T)
  BY FS_Subset
<1>2. {} \in Q
  BY DEF Defines
<1>3. ASSUME NEW u \in SUBSET T, u # {}, \A v \in SUBSET u : v # u => v \in Q PROVE u \in Q
  <2>1. pick[u] \in u
    BY <1>3
  <2>2. u \ {pick[u]} \in Q
    BY <1>3, <2>1
  <2>3. g[u] = step[<<pick[u], g[u \ {pick[u]}]>>]
    BY <1>3 DEF Defines
  <2>4. f[u] = step[<<pick[u], f[u \ {pick[u]}]>>]
    BY <1>3 DEF Defines
  <2> QED BY <2>2, <2>3, <2>4
<1>4. Q = SUBSET T
  <2> HIDE DEF Q
  <2>1. Q \in SUBSET (SUBSET T)
    BY DEF Q
  <2> QED BY <1>1, <1>2, <1>3, <2>1, SubsetInduction
<1> QED BY <1>4

\* A recursive definition that takes one element after the other from a finite set.
LEMMA Recursion ==
    ASSUME NEW S, IsFiniteSet(S), NEW Z, NEW base \in Z,
           NEW pick, \A s \in SUBSET S : s # {} => pick[s] \in s,
           NEW step \in [S \X Z -> Z]
    PROVE  \E f \in [SUBSET S -> Z] : Defines(f, S, base, pick, step)
<1> DEFINE Good(s, f) == f \in [SUBSET s -> Z] /\ Defines(f, s, base, pick, step)
           P == {s \in SUBSET S : \E f : Good(s, f)}
<1>1. {} \in P
  <2> DEFINE f == [t \in SUBSET {} |-> base]
  <2>1. Good({}, f)
    BY DEF Defines
  <2> QED BY <2>1
<1>3. ASSUME NEW s \in SUBSET S, s # {}, \A t \in SUBSET s : t # s => t \in P PROVE s \in P
  <2> DEFINE r == s \ {pick[s]}
  <2>1. pick[s] \in s /\ r \in SUBSET s /\ r # s
    BY <1>3
  <2>2. PICK g : Good(r, g)
    BY <1>3, <2>1
  <2> DEFINE H(t) == CHOOSE h : Good(t, h)
             f == [t \in SUBSET s |-> IF t = {} THEN base ELSE
                      IF t = s THEN step[<<pick[s], g[r]>>] ELSE H(t)[t]]
  <2>3. \A t \in SUBSET s : t # s => Good(t, H(t))
    <3> SUFFICES ASSUME NEW t \in SUBSET s, t # s PROVE Good(t, H(t))
      OBVIOUS
    <3>1. \E h : Good(t, h)
      BY <1>3
    <3> HIDE DEF Good
    <3> QED BY <3>1
  <2>4. \A t \in SUBSET s : t # s => f[t] = H(t)[t]
    <3> SUFFICES ASSUME NEW t \in SUBSET s, t # s PROVE f[t] = H(t)[t]
      OBVIOUS
    <3>1. CASE t = {}
      <4>1. Defines(H(t), t, base, pick, step) /\ f[t] = base /\ t \in SUBSET t
        BY <2>3, <3>1
      <4> HIDE DEF H, f
      <4> QED BY <3>1, <4>1 DEF Defines
    <3>2. CASE t # {}
      BY <3>2
    <3> QED BY <3>1, <3>2
  <2>5. \A t \in SUBSET s : t # s => \A u \in SUBSET t : f[u] = H(t)[u]
    <3> SUFFICES ASSUME NEW t \in SUBSET s, t # s, NEW u \in SUBSET t PROVE f[u] = H(t)[u]
      OBVIOUS
    <3>1. u \in SUBSET s /\ u # s /\ t \in SUBSET S
      OBVIOUS
    <3>2. Good(t, H(t)) /\ Good(u, H(u))
      BY <2>3, <3>1
    <3>3. H(u)[u] = H(t)[u]
      <4>1. u \in SUBSET u /\ u \in SUBSET t /\ IsFiniteSet(t) /\ \A v \in SUBSET t : v # {} => pick[v] \in v
        BY <3>1, FS_Subset
      <4> HIDE DEF H
      <4> QED BY <3>2, <4>1, Unique
    <3> QED BY <2>4, <3>1, <3>3
  <2>6. ASSUME NEW t \in SUBSET s, t # {}
        PROVE  f[t] = step[<<pick[t], f[t \ {pick[t]}]>>]
    <3>1. pick[t] \in t
      BY <2>6
    <3>2. CASE t = s
      <4>1. f[s] = step[<<pick[s], g[r]>>]
        BY <2>6, <3>2
      <4>2. r \in SUBSET S /\ Good(r, H(r))
        <5> HIDE DEF Good, H, r
        <5> QED BY <2>1, <2>3
      <4>3. g[r] = H(r)[r]
        <5>1. r \in SUBSET r /\ IsFiniteSet(r) /\ \A u \in SUBSET r : u # {} => pick[u] \in u
          BY <2>1, FS_Subset
        <5> HIDE DEF H, r
        <5> QED BY <2>2, <4>2, <5>1, Unique
      <4>4. f[r] = H(r)[r]
        BY <2>1, <2>4
      <4> QED BY <3>2, <4>1, <4>3, <4>4
    <3>3. CASE t # s
      <4>1. Good(t, H(t)) /\ t \in SUBSET t /\ t \ {pick[t]} \in SUBSET t
        BY <2>3, <3>3
      <4>2. H(t)[t] = step[<<pick[t], H(t)[t \ {pick[t]}]>>]
        <5> HIDE DEF H
        <5> QED BY <2>6, <4>1 DEF Defines
      <4>3. f[t] = H(t)[t] /\ f[t \ {pick[t]}] = H(t)[t \ {pick[t]}]
        BY <2>5, <3>3, <4>1
      <4> QED BY <4>2, <4>3
    <3> QED BY <3>2, <3>3
  <2>7. f \in [SUBSET s -> Z]
    <3>1. ASSUME NEW t \in SUBSET s PROVE f[t] \in Z
      <4>1. CASE t = s
        <5>1. g[r] \in Z /\ pick[s] \in S
          BY <2>1, <2>2
        <5> QED BY <1>3, <4>1, <5>1
      <4>2. CASE t # s
        <5>1. H(t) \in [SUBSET t -> Z] /\ t \in SUBSET t
          BY <2>3, <4>2
        <5>2. f[t] = H(t)[t]
          BY <2>4, <4>2
        <5> HIDE DEF f, H
        <5> QED BY <5>1, <5>2
      <4> QED BY <4>1, <4>2
    <3> QED BY <3>1
  <2>8. Defines(f, s, base, pick, step)
    <3> DEFINE b(t) == IF t = {} THEN base ELSE step[<<pick[t], f[t \ {pick[t]}]>>]
    <3>1. \A t \in SUBSET s : f[t] = b(t)
      <4>1. f[{}] = base
        OBVIOUS
      <4> HIDE DEF f
      <4> QED BY <2>6, <4>1
    <3> HIDE DEF b
    <3>2. f = [t \in SUBSET s |-> f[t]]
      OBVIOUS
    <3> HIDE DEF f
    <3>3. f = [t \in SUBSET s |-> b(t)]
      BY <3>1, <3>2
    <3> QED BY <3>3 DEF b, Defines
  <2>9. Good(s, f)
    <3> HIDE DEF f
    <3> QED BY <2>7, <2>8
  <2> QED BY <2>9
<1>4. P = SUBSET S
  <2> HIDE DEF P
  <2>1. P \in SUBSET (SUBSET S)
    BY DEF P
  <2> QED BY <1>1, <1>3, <2>1, SubsetInduction
<1>5. S \in P
  BY <1>4
<1> QED BY <1>5

\* Induction up to n.
LEMMA UpTo ==
    ASSUME NEW n \in Nat, NEW P, 0 \in P, \A k \in 1 .. n : k - 1 \in P => k \in P
    PROVE  0 .. n \subseteq P
<1> DEFINE Bad == {k \in 0 .. n : k \notin P}
<1>1. ASSUME Bad # {} PROVE FALSE
  <2>1. PICK k \in Bad : \A j \in Bad : k <= j
    <3>1. Bad \in SUBSET Nat
      OBVIOUS
    <3> HIDE DEF Bad
    <3> QED BY <1>1, <3>1, NatMin
  <2>2. k \in 1 .. n /\ k - 1 \in 0 .. n
    BY <2>1
  <2>3. k - 1 \notin Bad
    BY <2>1, <2>2
  <2> QED BY <2>1, <2>2, <2>3
<1> QED BY <1>1

\* The largest of the first k numbers, and what is left without it.
LEMMA MaxOfPrefix == ASSUME NEW k \in Nat, k # 0 PROVE Max(1 .. k) = k /\ (1 .. k) \ {k} = 1 .. k - 1
<1>1. k \in 1 .. k /\ \A y \in 1 .. k : k >= y
  OBVIOUS
<1>2. \A x \in 1 .. k : (\A y \in 1 .. k : x >= y) => x = k
  BY <1>1
<1>3. Max(1 .. k) \in 1 .. k /\ \A y \in 1 .. k : Max(1 .. k) >= y
  BY <1>1 DEF Max
<1> QED BY <1>2, <1>3

\* Max picks a member of what it is given.
LEMMA MaxIn == ASSUME NEW n \in Nat, NEW s \in SUBSET (1 .. n), s # {} PROVE Max(s) \in s
<1> DEFINE T == {n - x : x \in s}
<1>0. \A x \in s : x \in Int /\ n - x \in Nat
  <2>1. \A x \in s : x \in 1 .. n
    OBVIOUS
  <2> QED BY <2>1
<1>1. T \in SUBSET Nat /\ T # {}
  BY <1>0
<1>2. PICK d \in T : \A e \in T : d <= e
  <2> HIDE DEF T
  <2> QED BY <1>1, NatMin
<1>3. PICK x \in s : d = n - x
  BY <1>2
<1>4. ASSUME NEW y \in s PROVE x >= y
  <2>1. n - y \in T
    OBVIOUS
  <2>2. n - x <= n - y
    BY <1>2, <1>3, <2>1
  <2> QED BY <1>0, <2>2
<1> QED BY <1>4 DEF Max

\* The recursion of FoldLeft.
FoldsLeft(f, n, base, step) ==
    f = [s \in SUBSET (1 .. n) |-> IF s = {} THEN base ELSE step[<<Max(s), f[s \ {Max(s)}]>>]]

\* The recursion of FoldLeft has a solution.
LEMMA LeftRecursion ==
    ASSUME NEW n \in Nat, NEW Z, NEW base \in Z, NEW step \in [(1 .. n) \X Z -> Z]
    PROVE  \E f \in [SUBSET (1 .. n) -> Z] : FoldsLeft(f, n, base, step)
<1> DEFINE pick == [s \in SUBSET (1 .. n) |-> Max(s)]
<1>1. IsFiniteSet(1 .. n)
  BY FS_Interval
<1>2. \A s \in SUBSET (1 .. n) : s # {} => pick[s] \in s
  BY MaxIn
<1>3. PICK f \in [SUBSET (1 .. n) -> Z] : Defines(f, 1 .. n, base, pick, step)
  <2> HIDE DEF pick
  <2> QED BY <1>1, <1>2, Recursion
<1> QED BY <1>3 DEF Defines, FoldsLeft

-----------------------------------------------------------------------------
(* Sums over finite sets *)

\* The recursion of MapThenSumSet.
Sums(k, f, S) ==
    k = [s \in SUBSET S |-> IF s = {} THEN 0
                            ELSE f[CHOOSE x \in s : TRUE] + k[s \ {CHOOSE x \in s : TRUE}]]

Total(f, S) == (CHOOSE k : Sums(k, f, S))[S]

\* The recursion of MapThenSumSet has a solution.
LEMMA SumExists ==
    ASSUME NEW S, IsFiniteSet(S), NEW f, \A x \in S : f[x] \in Int
    PROVE  \E k \in [SUBSET S -> Int] : Sums(k, f, S)
<1> DEFINE pick == [s \in SUBSET S |-> CHOOSE x \in s : TRUE]
           step == [x \in S \X Int |-> f[x[1]] + x[2]]
<1>1. \A s \in SUBSET S : s # {} => pick[s] \in s
  OBVIOUS
<1>2. step \in [S \X Int -> Int]
  OBVIOUS
<1>3. PICK k \in [SUBSET S -> Int] : Defines(k, S, 0, pick, step)
  <2>1. 0 \in Int
    OBVIOUS
  <2> HIDE DEF pick, step
  <2> QED BY <1>1, <1>2, <2>1, Recursion
<1>4. ASSUME NEW s \in SUBSET S, s # {}
      PROVE  step[<<pick[s], k[s \ {pick[s]}]>>] = f[CHOOSE x \in s : TRUE] + k[s \ {CHOOSE x \in s : TRUE}]
  <2>1. pick[s] = (CHOOSE x \in s : TRUE)
    OBVIOUS
  <2>2. pick[s] \in S /\ k[s \ {pick[s]}] \in Int
    BY <1>1, <1>4
  <2>3. step[<<pick[s], k[s \ {pick[s]}]>>] = f[pick[s]] + k[s \ {pick[s]}]
    <3> HIDE DEF pick
    <3> QED BY <2>2
  <2> HIDE DEF step, pick
  <2> QED BY <2>1, <2>3
<1> HIDE DEF step, pick
<1> QED BY <1>3, <1>4 DEF Defines, Sums

\* The solution only depends on the terms: it is that of any smaller set, on its subsets.
LEMMA SumUnique ==
    ASSUME NEW S, IsFiniteSet(S), NEW f, NEW g, NEW T \in SUBSET S, \A x \in T : g[x] = f[x],
           NEW k, NEW h, Sums(k, f, S), Sums(h, g, T)
    PROVE  \A s \in SUBSET T : h[s] = k[s]
<1> DEFINE Q == {u \in SUBSET T : h[u] = k[u]}
<1>1. IsFiniteSet(T)
  BY FS_Subset
<1>2. {} \in Q
  BY DEF Sums
<1>3. ASSUME NEW u \in SUBSET T, u # {}, \A v \in SUBSET u : v # u => v \in Q PROVE u \in Q
  <2> DEFINE x == CHOOSE x \in u : TRUE
  <2>1. x \in u
    BY <1>3
  <2>2. k[u] = f[x] + k[u \ {x}] /\ h[u] = g[x] + h[u \ {x}]
    BY <1>3 DEF Sums
  <2> HIDE DEF x
  <2>3. u \ {x} \in Q
    BY <1>3, <2>1
  <2> QED BY <2>1, <2>2, <2>3
<1>4. Q = SUBSET T
  <2> HIDE DEF Q
  <2>1. Q \in SUBSET (SUBSET T)
    BY DEF Q
  <2> QED BY <1>1, <1>2, <1>3, <2>1, SubsetInduction
<1> QED BY <1>4

\* A total may be read off any solution.
LEMMA TotalIs ==
    ASSUME NEW S, IsFiniteSet(S), NEW f, \A x \in S : f[x] \in Int, NEW k, Sums(k, f, S), NEW T \in SUBSET S
    PROVE  Total(f, T) = k[T]
<1> DEFINE h == CHOOSE h : Sums(h, f, T)
<1>1. IsFiniteSet(T) /\ \A x \in T : f[x] \in Int
  BY FS_Subset
<1>2. \E j : Sums(j, f, T)
  BY <1>1, SumExists
<1>3. Sums(h, f, T)
  BY <1>2
<1>4. Total(f, T) = h[T]
  BY DEF Total
<1> HIDE DEF h
<1> QED BY <1>3, <1>4, SumUnique

\* Nothing adds up to nothing.
LEMMA TotalEmpty == ASSUME NEW f PROVE Total(f, {}) = 0
<1>1. IsFiniteSet({})
  BY FS_EmptySet
<1>2. PICK k : Sums(k, f, {})
  BY <1>1, SumExists
<1>3. Total(f, {}) = k[{}]
  BY <1>1, <1>2, TotalIs
<1> QED BY <1>2, <1>3 DEF Sums

\* A total does not depend on which term is added last.
LEMMA TotalAdd ==
    ASSUME NEW S, IsFiniteSet(S), NEW f, \A x \in S : f[x] \in Int, NEW x \in S
    PROVE  /\ Total(f, S) = f[x] + Total(f, S \ {x})
           /\ Total(f, S) \in Int /\ Total(f, S \ {x}) \in Int
<1>1. PICK k \in [SUBSET S -> Int] : Sums(k, f, S)
  BY SumExists
<1> DEFINE Q == {u \in SUBSET S : \A y \in u : k[u] = f[y] + k[u \ {y}]}
<1>2. {} \in Q
  OBVIOUS
<1>3. ASSUME NEW u \in SUBSET S, u # {}, \A v \in SUBSET u : v # u => v \in Q PROVE u \in Q
  <2> DEFINE c == CHOOSE c \in u : TRUE
  <2>1. c \in u
    BY <1>3
  <2>2. k[u] = f[c] + k[u \ {c}]
    BY <1>1, <1>3 DEF Sums
  <2> HIDE DEF c
  <2> SUFFICES ASSUME NEW y \in u PROVE k[u] = f[y] + k[u \ {y}]
    OBVIOUS
  <2>3. CASE y = c
    BY <2>2, <2>3
  <2>4. CASE y # c
    <3>1. u \ {c} \in Q /\ u \ {y} \in Q
      BY <1>3, <2>1
    <3>2. k[u \ {c}] = f[y] + k[(u \ {c}) \ {y}]
      BY <2>4, <3>1
    <3>3. k[u \ {y}] = f[c] + k[(u \ {y}) \ {c}]
      BY <2>1, <2>4, <3>1
    <3>4. (u \ {c}) \ {y} = (u \ {y}) \ {c} /\ (u \ {y}) \ {c} \in SUBSET S
      OBVIOUS
    <3>5. f[y] \in Int /\ f[c] \in Int /\ k[(u \ {y}) \ {c}] \in Int
      BY <2>1, <3>4
    <3>6. k[(u \ {c}) \ {y}] = k[(u \ {y}) \ {c}]
      BY <3>4
    <3> DEFINE a == k[(u \ {y}) \ {c}]
    <3>7. k[u] = f[c] + (f[y] + a) /\ k[u \ {y}] = f[c] + a
      BY <2>2, <3>2, <3>3, <3>6
    <3>8. a \in Int
      BY <3>5
    <3> HIDE DEF a
    <3> QED BY <3>5, <3>7, <3>8
  <2> QED BY <2>3, <2>4
<1>4. Q = SUBSET S
  <2> HIDE DEF Q
  <2>1. Q \in SUBSET (SUBSET S)
    BY DEF Q
  <2> QED BY <1>2, <1>3, <2>1, SubsetInduction
<1>5. S \in Q
  BY <1>4
<1>6. k[S] = f[x] + k[S \ {x}]
  BY <1>5
<1>7. Total(f, S) = k[S] /\ Total(f, S \ {x}) = k[S \ {x}]
  BY <1>1, TotalIs
<1> QED BY <1>6, <1>7

LEMMA TotalType ==
    ASSUME NEW S, IsFiniteSet(S), NEW f, \A x \in S : f[x] \in Int
    PROVE  Total(f, S) \in Int
<1>1. CASE S = {}
  BY <1>1, TotalEmpty
<1>2. CASE S # {}
  BY <1>2, TotalAdd
<1> QED BY <1>1, <1>2

\* Equal terms have equal totals.
LEMMA TotalSame ==
    ASSUME NEW S, IsFiniteSet(S), NEW f, NEW g, \A x \in S : f[x] \in Int /\ g[x] = f[x]
    PROVE  Total(f, S) = Total(g, S)
<1>1. PICK k : Sums(k, f, S)
  BY SumExists
<1>2. PICK h : Sums(h, g, S)
  BY SumExists
<1>3. Total(f, S) = k[S] /\ Total(g, S) = h[S]
  BY <1>1, <1>2, TotalIs
<1>4. h[S] = k[S]
  BY <1>1, <1>2, SumUnique
<1> QED BY <1>3, <1>4

\* Terms that are not greater have a total that is not.
LEMMA TotalLe ==
    ASSUME NEW S, IsFiniteSet(S), NEW f, NEW g,
           \A x \in S : f[x] \in Int /\ g[x] \in Int /\ f[x] <= g[x]
    PROVE  Total(f, S) <= Total(g, S)
<1> DEFINE Q == {u \in SUBSET S : Total(f, u) <= Total(g, u)}
<1>1. {} \in Q
  BY TotalEmpty
<1>2. ASSUME NEW u \in SUBSET S, u # {}, \A v \in SUBSET u : v # u => v \in Q PROVE u \in Q
  <2>1. PICK x \in u : TRUE
    BY <1>2
  <2>2. IsFiniteSet(u)
    BY FS_Subset
  <2>3. /\ Total(f, u) = f[x] + Total(f, u \ {x}) /\ Total(f, u \ {x}) \in Int
        /\ Total(g, u) = g[x] + Total(g, u \ {x}) /\ Total(g, u \ {x}) \in Int
    BY <2>2, TotalAdd
  <2>4. u \ {x} \in Q /\ x \in S
    BY <1>2
  <2> QED BY <2>3, <2>4
<1>3. Q = SUBSET S
  <2> HIDE DEF Q
  <2>1. Q \in SUBSET (SUBSET S)
    BY DEF Q
  <2> QED BY <1>1, <1>2, <2>1, SubsetInduction
<1> QED BY <1>3

\* Sums that are equal though no term is greater have equal terms.
LEMMA TotalTight ==
    ASSUME NEW S, IsFiniteSet(S), NEW f, NEW g,
           \A x \in S : f[x] \in Int /\ g[x] \in Int /\ f[x] <= g[x],
           Total(f, S) = Total(g, S), NEW x \in S
    PROVE  f[x] = g[x]
<1>1. /\ Total(f, S) = f[x] + Total(f, S \ {x}) /\ Total(f, S \ {x}) \in Int
      /\ Total(g, S) = g[x] + Total(g, S \ {x}) /\ Total(g, S \ {x}) \in Int
  BY TotalAdd
<1>2. IsFiniteSet(S \ {x})
  BY FS_Subset
<1>3. Total(f, S \ {x}) <= Total(g, S \ {x})
  BY <1>2, TotalLe
<1>4. f[x] \in Int /\ g[x] \in Int /\ f[x] <= g[x] /\ Total(f, S) = Total(g, S)
  OBVIOUS
<1> DEFINE p == Total(f, S \ {x})
           q == Total(g, S \ {x})
           a == f[x]
           b == g[x]
<1>5. a + p = b + q /\ p <= q /\ p \in Int /\ q \in Int /\ a \in Int /\ b \in Int /\ a <= b
  BY <1>1, <1>3, <1>4
<1>6. a = b
  <2> HIDE DEF p, q, a, b
  <2> QED BY <1>5
<1> QED BY <1>6

\* The total of a set is that of a part and that of the rest.
LEMMA TotalSplit ==
    ASSUME NEW S, IsFiniteSet(S), NEW f, \A x \in S : f[x] \in Int, NEW A \in SUBSET S
    PROVE  /\ Total(f, S) = Total(f, A) + Total(f, S \ A)
           /\ Total(f, A) \in Int /\ Total(f, S \ A) \in Int
<1> DEFINE Q == {u \in SUBSET A : Total(f, u \cup (S \ A)) = Total(f, u) + Total(f, S \ A)}
<1>1. IsFiniteSet(A) /\ IsFiniteSet(S \ A) /\ \A u \in SUBSET A : IsFiniteSet(u) /\ IsFiniteSet(u \cup (S \ A))
  BY FS_Subset, FS_Union
<1>2. Total(f, A) \in Int /\ Total(f, S \ A) \in Int
  BY <1>1, TotalType
<1>3. {} \in Q
  <2>1. {} \cup (S \ A) = S \ A
    OBVIOUS
  <2> QED BY <1>2, <2>1, TotalEmpty
<1>4. ASSUME NEW u \in SUBSET A, u # {}, \A v \in SUBSET u : v # u => v \in Q PROVE u \in Q
  <2>1. PICK x \in u : TRUE
    BY <1>4
  <2> DEFINE U == u \cup (S \ A)
             r == u \ {x}
  <2>2. U \ {x} = r \cup (S \ A) /\ x \in U /\ U \in SUBSET S
    OBVIOUS
  <2>3. Total(f, U) = f[x] + Total(f, U \ {x}) /\ Total(f, U \ {x}) \in Int
    BY <1>1, <2>2, TotalAdd
  <2>4. Total(f, u) = f[x] + Total(f, r) /\ Total(f, r) \in Int
    BY <1>1, TotalAdd
  <2>5. Total(f, r \cup (S \ A)) = Total(f, r) + Total(f, S \ A) /\ f[x] \in Int
    BY <1>4
  <2> DEFINE a == Total(f, S \ A)
             b == Total(f, r)
  <2>6. Total(f, U) = f[x] + (b + a) /\ Total(f, u) = f[x] + b /\ a \in Int /\ b \in Int
    <3> HIDE DEF r, U
    <3> QED BY <1>2, <2>2, <2>3, <2>4, <2>5
  <2>7. Total(f, U) = Total(f, u) + a
    <3> HIDE DEF a, b, U
    <3> QED BY <2>5, <2>6
  <2> QED BY <2>7
<1>5. Q = SUBSET A
  <2> HIDE DEF Q
  <2>1. Q \in SUBSET (SUBSET A)
    BY DEF Q
  <2> QED BY <1>1, <1>3, <1>4, <2>1, SubsetInduction
<1>6. A \in Q /\ A \cup (S \ A) = S
  BY <1>5
<1> QED BY <1>2, <1>6

\* The total of a year is twelve times that of a month.
LEMMA TotalTwelve ==
    ASSUME NEW S, IsFiniteSet(S), NEW f, NEW g, \A x \in S : f[x] \in Int /\ g[x] = 12 * f[x]
    PROVE  Total(g, S) = 12 * Total(f, S) /\ Total(f, S) \in Int
<1> DEFINE Q == {u \in SUBSET S : Total(g, u) = 12 * Total(f, u)}
<1>1. {} \in Q
  BY TotalEmpty
<1>2. ASSUME NEW u \in SUBSET S, u # {}, \A v \in SUBSET u : v # u => v \in Q PROVE u \in Q
  <2>1. PICK x \in u : TRUE
    BY <1>2
  <2>2. IsFiniteSet(u) /\ \A y \in u : f[y] \in Int /\ g[y] \in Int
    BY FS_Subset
  <2>3. /\ Total(f, u) = f[x] + Total(f, u \ {x}) /\ Total(f, u \ {x}) \in Int
        /\ Total(g, u) = g[x] + Total(g, u \ {x}) /\ Total(g, u \ {x}) \in Int
    BY <2>2, TotalAdd
  <2>4. Total(g, u \ {x}) = 12 * Total(f, u \ {x}) /\ g[x] = 12 * f[x] /\ f[x] \in Int
    BY <1>2
  <2> DEFINE a == f[x]
             b == Total(f, u \ {x})
  <2>5. Total(g, u) = 12 * a + 12 * b /\ Total(f, u) = a + b /\ a \in Int /\ b \in Int
    BY <2>3, <2>4
  <2>6. Total(g, u) = 12 * Total(f, u)
    <3> HIDE DEF a, b
    <3> QED BY <2>5
  <2> QED BY <2>6
<1>3. Q = SUBSET S
  <2> HIDE DEF Q
  <2>1. Q \in SUBSET (SUBSET S)
    BY DEF Q
  <2> QED BY <1>1, <1>2, <2>1, SubsetInduction
<1>4. Total(f, S) \in Int
  BY TotalType
<1> QED BY <1>3, <1>4

LEMMA TotalZero ==
    ASSUME NEW S, IsFiniteSet(S), NEW f, \A x \in S : f[x] = 0
    PROVE  Total(f, S) = 0
<1> DEFINE Q == {u \in SUBSET S : Total(f, u) = 0}
<1>1. {} \in Q
  BY TotalEmpty
<1>2. ASSUME NEW u \in SUBSET S, u # {}, \A v \in SUBSET u : v # u => v \in Q PROVE u \in Q
  <2>1. PICK x \in u : TRUE
    BY <1>2
  <2>2. IsFiniteSet(u)
    BY FS_Subset
  <2>3. Total(f, u) = f[x] + Total(f, u \ {x})
    BY <2>2, TotalAdd
  <2>4. Total(f, u \ {x}) = 0 /\ f[x] = 0
    BY <1>2
  <2> QED BY <2>3, <2>4
<1>3. Q = SUBSET S
  <2> HIDE DEF Q
  <2>1. Q \in SUBSET (SUBSET S)
    BY DEF Q
  <2> QED BY <1>1, <1>2, <2>1, SubsetInduction
<1> QED BY <1>3

LEMMA TotalNat ==
    ASSUME NEW S, IsFiniteSet(S), NEW f, \A x \in S : f[x] \in Nat
    PROVE  Total(f, S) \in Nat
<1> DEFINE zero == [x \in S |-> 0]
<1>1. Total(zero, S) = 0
  <2>1. \A x \in S : zero[x] = 0
    OBVIOUS
  <2> HIDE DEF zero
  <2> QED BY <2>1, TotalZero
<1>2. Total(zero, S) <= Total(f, S)
  <2>1. \A x \in S : zero[x] \in Int /\ f[x] \in Int /\ zero[x] <= f[x]
    OBVIOUS
  <2> HIDE DEF zero
  <2> QED BY <2>1, TotalLe
<1>3. Total(f, S) \in Int
  BY TotalType
<1> QED BY <1>1, <1>2, <1>3

\* A function has finitely many values on a finite set.
LEMMA FiniteImage == ASSUME NEW S, IsFiniteSet(S), NEW b PROVE IsFiniteSet({b[x] : x \in S})
<1> DEFINE T == {b[x] : x \in S}
           f == [x \in S |-> b[x]]
<1>1. f \in Surjection(S, T)
  BY DEF Surjection
<1> QED BY <1>1, FS_Surjection

\* A sum over indices is one over what they stand for.
LEMMA TotalImage ==
    ASSUME NEW S, IsFiniteSet(S), NEW b, \A x, y \in S : b[x] = b[y] => x = y,
           NEW f, NEW g, \A x \in S : f[b[x]] \in Int /\ g[x] = f[b[x]]
    PROVE  Total(g, S) = Total(f, {b[x] : x \in S})
<1> DEFINE Q == {u \in SUBSET S : Total(g, u) = Total(f, {b[x] : x \in u})}
<1>1. {} \in Q
  <2>1. {b[x] : x \in {}} = {}
    OBVIOUS
  <2> QED BY <2>1, TotalEmpty
<1>2. ASSUME NEW u \in SUBSET S, u # {}, \A v \in SUBSET u : v # u => v \in Q PROVE u \in Q
  <2>1. PICK x \in u : TRUE
    BY <1>2
  <2> DEFINE U == {b[y] : y \in u}
             r == u \ {x}
  <2>2. IsFiniteSet(u) /\ \A y \in u : g[y] \in Int
    BY FS_Subset
  <2>3. Total(g, u) = g[x] + Total(g, r)
    BY <2>2, TotalAdd
  <2>4. IsFiniteSet(U)
    BY <2>2, FiniteImage
  <2>5. \A z \in U : f[z] \in Int
    OBVIOUS
  <2>6. U \ {b[x]} = {b[y] : y \in r} /\ b[x] \in U
    OBVIOUS
  <2>7. Total(f, U) = f[b[x]] + Total(f, U \ {b[x]})
    <3> HIDE DEF U
    <3> QED BY <2>4, <2>5, <2>6, TotalAdd
  <2>8. Total(g, r) = Total(f, {b[y] : y \in r})
    BY <1>2
  <2>9. g[x] = f[b[x]]
    OBVIOUS
  <2>10. Total(g, u) = Total(f, U)
    <3> HIDE DEF U, r
    <3> QED BY <2>3, <2>6, <2>7, <2>8, <2>9
  <2> QED BY <2>10
<1>3. Q = SUBSET S
  <2> HIDE DEF Q
  <2>1. Q \in SUBSET (SUBSET S)
    BY DEF Q
  <2> QED BY <1>1, <1>2, <2>1, SubsetInduction
<1> QED BY <1>3

-----------------------------------------------------------------------------
(* A run without a report has a reason *)

ReportKinds == {"ec2", "riEc2"}

\* The reports of each run, of documents of whatever kind.
ReportsTyped == reports = [kind \in ReportKinds |-> [n \in Runs |-> reports[kind][n]]]

\* A run that is at work has not given up, and those that have are not after it.
RunsInv ==
    /\ run \in 0 .. MaxRuns /\ unmade \subseteq 1 .. run
    /\ job # NoJob => run \in Runs \ unmade

\* No run has reported anything of a kind up to run n: its index did not exist then.
NothingUpTo(kind, n) == \A m \in 1 .. n : reports[kind][m] = {}

Reasons ==
    \A n \in unmade \ harmed : pricing = None \/ NothingUpTo("riEc2", n) \/ NothingUpTo("ec2", n)

MadeInv == ReportsTyped /\ RunsInv /\ Reasons

LEMMA RunsAre == Runs = 1 .. MaxRuns
BY DEF Runs

LEMMA InitMade == Init => MadeInv
BY AdviceAssumption DEF Init, MadeInv, ReportsTyped, ReportKinds, RunsInv, Reasons, Runs

\* What is left alone keeps the invariant; failures and prices only add to it.
LEMMA Untouched ==
    ASSUME MadeInv, UNCHANGED <<reports, run, unmade>>, job' = job \/ job' = NoJob \/ job # NoJob,
           harmed \subseteq harmed', pricing' = pricing \/ pricing' = None \/ pricing # None \/ 1 .. run \subseteq harmed'
    PROVE  MadeInv'
BY DEF MadeInv, ReportsTyped, RunsInv, Reasons, NothingUpTo, Runs, ReportKinds

\* A run begins.
LEMMA StartRunMade == ASSUME MadeInv, StartRun PROVE MadeInv'
<1>1. UNCHANGED <<reports, unmade, harmed, pricing>> /\ run' = run + 1 /\ run < MaxRuns
  BY DEF StartRun, elastic, prices
<1>2. run \in Nat /\ unmade \subseteq 1 .. run /\ MaxRuns \in Nat
  BY AdviceAssumption DEF MadeInv, RunsInv
<1>3. run' \in 0 .. MaxRuns /\ run' \in Runs \ unmade /\ unmade \subseteq 1 .. run'
  BY <1>1, <1>2, RunsAre
<1>4. ReportsTyped' /\ Reasons'
  BY <1>1 DEF MadeInv, ReportsTyped, ReportKinds, Reasons, NothingUpTo, Runs
<1> QED BY <1>1, <1>3, <1>4 DEF MadeInv, RunsInv, NoJob

\* A report is written for the last run, which has not given up, and after all those that have.
LEMMA ImportMade ==
    ASSUME MadeInv, job # NoJob, NEW kind \in ReportKinds, NEW new, NEW next, Import(kind, new, next),
           harmed \subseteq harmed'
    PROVE  MadeInv'
<1>1. UNCHANGED <<run, unmade, pricing>> /\ reports' = [reports EXCEPT ![kind][run] = new]
  BY DEF Import, prices
<1>2. run \in Runs /\ run \notin unmade /\ unmade \subseteq 1 .. run /\ run \in Nat
  BY DEF MadeInv, RunsInv, Runs
<1>3. ReportsTyped' /\ \A k \in ReportKinds, n \in Runs : n # run => reports'[k][n] = reports[k][n]
  BY <1>1, <1>2 DEF MadeInv, ReportsTyped, ReportKinds
<1>4. RunsInv'
  BY <1>1, <1>2 DEF MadeInv, RunsInv
<1>5. ASSUME NEW n \in unmade, NEW k \in ReportKinds, NothingUpTo(k, n) PROVE NothingUpTo(k, n)'
  <2>1. n \in 1 .. run /\ n # run /\ run \in 1 .. MaxRuns
    BY <1>2, RunsAre
  <2>2. \A m \in 1 .. n : m # run /\ m \in 1 .. MaxRuns
    BY <2>1, AdviceAssumption
  <2>3. \A m \in 1 .. n : reports'[k][m] = reports[k][m]
    BY <1>3, <2>2, RunsAre
  <2> QED BY <1>5, <2>3 DEF NothingUpTo
<1>6. Reasons'
  BY <1>1, <1>5 DEF MadeInv, Reasons, ReportKinds
<1> QED BY <1>3, <1>4, <1>6 DEF MadeInv

\* A failed import writes an empty report.
LEMMA ImportReportMade ==
    ASSUME MadeInv, NEW at, at # "idle", NEW kind \in ReportKinds, NEW new, NEW next, ImportReport(at, kind, new, next)
    PROVE  MadeInv'
<1>1. job # NoJob /\ harmed \subseteq harmed' /\ (Import(kind, new, next) \/ Import(kind, {}, next))
  BY DEF ImportReport, NoJob
<1> QED BY <1>1, ImportMade

\* The run gives up for a reason that stays.
LEMMA GiveUpMade ==
    ASSUME MadeInv, job # NoJob, GiveUp, harmed \subseteq harmed',
           \/ run \in harmed'
           \/ pricing = None
           \/ \E kind \in ReportKinds : ~HasIndex(kind)
    PROVE  MadeInv'
<1>1. UNCHANGED <<reports, run, pricing>> /\ job' = NoJob /\ unmade' = unmade \cup {run}
  BY DEF GiveUp, elastic, prices
<1>2. run \in 1 .. MaxRuns
  BY DEF MadeInv, RunsInv, Runs
<1>3. ASSUME NEW kind \in ReportKinds, ~HasIndex(kind) PROVE NothingUpTo(kind, run)
  BY <1>2, <1>3, AdviceAssumption DEF HasIndex, NothingUpTo, Runs
<1>4. ReportsTyped' /\ RunsInv'
  BY <1>1, <1>2 DEF MadeInv, ReportsTyped, ReportKinds, RunsInv, Runs
<1>5. Reasons'
  BY <1>1, <1>3 DEF MadeInv, Reasons, NothingUpTo, ReportKinds
<1> QED BY <1>4, <1>5 DEF MadeInv

\* A search that is answered ends nothing.
LEMMA GetReportMade ==
    ASSUME MadeInv, NEW at, at # "idle", NEW kind \in ReportKinds, NEW next, GetReport(at, kind, next)
    PROVE  MadeInv'
<1>1. job # NoJob /\ harmed' = harmed
  BY DEF GetReport, NoJob
<1>2. CASE ~Answered(kind) /\ GiveUp
  BY <1>1, <1>2, GiveUpMade DEF Answered
<1>3. CASE UNCHANGED <<reports, run, unmade, pricing>>
  BY <1>1, <1>3, Untouched
<1> QED BY <1>2, <1>3 DEF GetReport, elastic, prices

\* Every step keeps MadeInv.
LEMMA StepMade == MadeInv /\ [Next]_vars => MadeInv'
<1> SUFFICES ASSUME MadeInv, [Next]_vars PROVE MadeInv'
  OBVIOUS
<1>1. CASE StartFetch \/ FetchRegion \/ FetchFails \/ Refresh \/ ChangeInstance \/ ChangeReservation \/ ChangePrices \/ MonthEnds \/ UNCHANGED vars
  BY <1>1, Untouched DEF StartFetch, FetchRegion, FetchFails, Refresh, ChangeInstance, ChangeReservation,
     ChangePrices, MonthEnds, vars, cloud, elastic, processes, prices
<1>2. CASE SavePricing
  BY <1>2, Untouched DEF SavePricing, elastic
<1>3. CASE StartRun
  BY <1>3, StartRunMade
<1>4. CASE ImportInstances \/ ImportReservations
  BY <1>4, ImportReportMade DEF ImportInstances, ImportReservations, ReportKinds
<1>5. CASE GetRIReport \/ GetEC2Report
  BY <1>5, GetReportMade DEF GetRIReport, GetEC2Report, ReportKinds
<1>6. CASE RunFails
  <2>1. job # NoJob /\ GiveUp /\ harmed \subseteq harmed' /\ run \in harmed'
    BY <1>6 DEF RunFails, NoJob
  <2> QED BY <2>1, GiveUpMade
<1>7. CASE Advise
  <2>1. job # NoJob
    BY <1>7 DEF Advise, NoJob
  <2>2. CASE pricing = None /\ GiveUp /\ UNCHANGED harmed
    BY <2>1, <2>2, GiveUpMade
  <2>3. CASE UNCHANGED <<elastic, run, unmade, harmed, prices>>
    BY <2>1, <2>3, Untouched DEF elastic, prices
  <2> QED BY <1>7, <2>2, <2>3 DEF Advise
<1> QED BY <1>1, <1>2, <1>3, <1>4, <1>5, <1>6, <1>7 DEF Next

\* A run of process-account ends without advice only when something failed, when there was
\* no price yet, or when nothing was ever reserved or no instance ever seen, so that an
\* index did not exist (RunOnDemandToRiEc2, makeElasticSearchRequest).
THEOREM AdviceMade == AdviceSpec => []AdviceIsMade
<1>1. Init => MadeInv
  BY InitMade
<1>2. MadeInv /\ [Next]_vars => MadeInv'
  BY StepMade
<1>3. MadeInv => AdviceIsMade
  BY DEF MadeInv, Reasons, NothingUpTo, AdviceIsMade
<1> QED BY <1>1, <1>2, <1>3, PTL DEF AdviceSpec

-----------------------------------------------------------------------------
(* The prices in the database *)

\* What price lists are made of.
Items  == UNION {ToSet(list[g]) : list \in PriceLists, g \in Regions}
Keys   == {<<g, NormalizedPlatform(i), i.type>> : g \in Regions, i \in Items}
Priced == UNION {[K -> {EC2Specs(i) : i \in Items}] : K \in SUBSET Keys}
Fetches == [left : SUBSET Regions, busy : {TRUE}, parsingError : BOOLEAN, got : Priced]

KeyIn(g, item) == <<g, NormalizedPlatform(item), item.type>>

\* The prices p of region g are those of the first n items.
PricesOf(p, g, items, n) ==
    LET sold == {k \in 1 .. n : Sold(items[k])}
    IN /\ \A key \in DOMAIN p : key[1] = g => \E k \in sold : key = KeyIn(g, items[k])
       /\ \A k \in sold : KeyIn(g, items[k]) \in DOMAIN p
       /\ \A key \in DOMAIN p : key[1] = g =>
              \E k \in sold : key = KeyIn(g, items[k]) /\ p[key] = EC2Specs(items[k])

\* Price lists are sequences of items.
LEMMA Lists ==
    ASSUME NEW list \in PriceLists, NEW g \in Regions
    PROVE  /\ Len(list[g]) \in Nat /\ DOMAIN list[g] = 1 .. Len(list[g])
           /\ \A k \in 1 .. Len(list[g]) : list[g][k] \in Items
<1>1. list[g] \in Seq(ToSet(list[g]))
  BY AdviceAssumption
<1>2. \A k \in DOMAIN list[g] : list[g][k] \in ToSet(list[g])
  BY DEF ToSet
<1>3. ToSet(list[g]) \subseteq Items
  BY DEF Items
<1> HIDE DEF Items
<1> QED BY <1>1, <1>2, <1>3

\* An item adds prices and leaves the regions that are to be read.
LEMMA AddItemTyped ==
    ASSUME NEW g \in Regions, NEW f \in Fetches, NEW item \in Items
    PROVE  /\ AddItem(f, g, item) \in Fetches
           /\ AddItem(f, g, item).left = f.left
<1>1. CASE ~ Sold(item)
  BY <1>1 DEF AddItem
<1>2. CASE Sold(item) /\ Unreadable(item)
  <2>1. AddItem(f, g, item) = [f EXCEPT !.parsingError = TRUE]
    BY <1>2 DEF AddItem
  <2> QED BY <2>1 DEF Fetches
<1>3. CASE Sold(item) /\ ~ Unreadable(item)
  <2> DEFINE k == KeyIn(g, item)
             new == [x \in DOMAIN f.got \cup {k} |-> IF x = k THEN EC2Specs(item) ELSE f.got[x]]
  <2>1. AddItem(f, g, item) = [f EXCEPT !.got = new]
    BY <1>3 DEF AddItem, KeyIn
  <2>2. k \in Keys
    BY DEF Keys, KeyIn
  <2>3. PICK K \in SUBSET Keys : f.got \in [K -> {EC2Specs(i) : i \in Items}]
    BY DEF Fetches, Priced
  <2>4. new \in [K \cup {k} -> {EC2Specs(i) : i \in Items}] /\ K \cup {k} \in SUBSET Keys
    BY <2>2, <2>3
  <2>5. new \in Priced
    BY <2>4 DEF Priced
  <2> HIDE DEF new
  <2> QED BY <2>1, <2>5 DEF Fetches
<1> QED BY <1>1, <1>2, <1>3

AddItems(f, g, items) == FoldLeft(LAMBDA x, item : AddItem(x, g, item), f, items)

\* The items of a region are added one after the other.
LEMMA Added ==
    ASSUME NEW g \in Regions, NEW base \in Fetches, NEW list \in PriceLists
    PROVE  \E F \in [0 .. Len(list[g]) -> Fetches] :
               /\ F[0] = base
               /\ \A k \in 1 .. Len(list[g]) : F[k] = AddItem(F[k - 1], g, list[g][k])
               /\ AddItems(base, g, list[g]) = F[Len(list[g])]
<1> DEFINE seq == list[g]
           n == Len(seq)
           step == [x \in (1 .. n) \X Fetches |-> AddItem(x[2], g, seq[x[1]])]
           Body(k) == [s \in SUBSET (1 .. n) |-> IF s = {} THEN base ELSE AddItem(k[s \ {Max(s)}], g, seq[Max(s)])]
           K == CHOOSE k : k = Body(k)
           F == [k \in 0 .. n |-> K[1 .. k]]
<1>1. n \in Nat /\ DOMAIN seq = 1 .. n /\ \A k \in 1 .. n : seq[k] \in Items
  BY Lists
<1>2. step \in [(1 .. n) \X Fetches -> Fetches]
  BY <1>1, AddItemTyped
<1>3. PICK h \in [SUBSET (1 .. n) -> Fetches] : FoldsLeft(h, n, base, step)
  <2> HIDE DEF step, n
  <2> QED BY <1>1, <1>2, LeftRecursion
<1>4. h = Body(h)
  <2>1. ASSUME NEW s \in SUBSET (1 .. n), s # {}
        PROVE  step[<<Max(s), h[s \ {Max(s)}]>>] = AddItem(h[s \ {Max(s)}], g, seq[Max(s)])
    <3>1. Max(s) \in 1 .. n /\ h[s \ {Max(s)}] \in Fetches
      BY <1>1, <2>1, MaxIn
    <3> QED BY <3>1
  <2> HIDE DEF step
  <2> QED BY <1>3, <2>1 DEF FoldsLeft
<1>5. K = Body(K)
  <2> HIDE DEF Body
  <2> QED BY <1>4
<1>6. AddItems(base, g, seq) = K[DOMAIN seq]
  <2> HIDE DEF seq
  <2> QED BY <1>1 DEF AddItems, FoldLeft, MapThenFoldSet
<1>7. F[0] = base /\ \A k \in 1 .. n : F[k] = AddItem(F[k - 1], g, seq[k])
  <2>1. ASSUME NEW k \in 0 .. n PROVE F[k] = K[1 .. k] /\ (1 .. k) \in SUBSET (1 .. n)
    BY <1>1
  <2>2. 1 .. 0 = {}
    OBVIOUS
  <2>3. ASSUME NEW k \in 1 .. n PROVE F[k] = AddItem(F[k - 1], g, seq[k])
    <3>1. k \in Nat /\ k # 0 /\ k \in 0 .. n /\ k - 1 \in 0 .. n /\ 1 .. k # {}
      BY <1>1
    <3>2. K[1 .. k] = AddItem(K[(1 .. k) \ {Max(1 .. k)}], g, seq[Max(1 .. k)])
      <4> HIDE DEF K
      <4> QED BY <1>5, <2>1, <3>1
    <3> HIDE DEF K, F
    <3> QED BY <2>1, <3>1, <3>2, MaxOfPrefix
  <2>4. F[0] = base
    <3> HIDE DEF K
    <3> QED BY <1>1, <1>5, <2>2
  <2> QED BY <2>3, <2>4
<1>8. \A k \in 0 .. n : F[k] \in Fetches
  <2> HIDE DEF F, n, seq
  <2> DEFINE P == {k \in 0 .. n : F[k] \in Fetches}
  <2>1. 0 \in P
    BY <1>1, <1>7
  <2>2. \A k \in 1 .. n : k - 1 \in P => k \in P
    BY <1>1, <1>7, AddItemTyped
  <2>3. 0 .. n \subseteq P
    <3> HIDE DEF P
    <3> QED BY <1>1, <2>1, <2>2, UpTo
  <2> QED BY <2>3
<1>9. F \in [0 .. n -> Fetches]
  <2> HIDE DEF K
  <2> QED BY <1>8
<1>10. F[n] = K[DOMAIN seq]
  BY <1>1
<1> HIDE DEF F, K, n, seq
<1>11. /\ F[0] = base
       /\ \A k \in 1 .. n : F[k] = AddItem(F[k - 1], g, seq[k])
       /\ AddItems(base, g, seq) = F[n]
  BY <1>6, <1>7, <1>10
<1> QED BY <1>9, <1>11 DEF n, seq

\* What the items of a region add to what is known of the others.
LEMMA RegionAdded ==
    ASSUME NEW g \in Regions, NEW base \in Fetches, NEW list \in PriceLists,
           \A key \in DOMAIN base.got : key[1] # g,
           NEW new, new = AddItems(base, g, list[g])
    PROVE  /\ new \in Fetches /\ new.left = base.left
           /\ DOMAIN base.got \subseteq DOMAIN new.got
           /\ \A key \in DOMAIN base.got : new.got[key] = base.got[key]
           /\ \A key \in DOMAIN new.got \ DOMAIN base.got : key[1] = g
           /\ ~ new.parsingError => ~ base.parsingError /\ PricesOf(new.got, g, list[g], Len(list[g]))
<1> DEFINE seq == list[g]
           n == Len(seq)
           OK(f, k) == /\ f.left = base.left
                       /\ DOMAIN base.got \subseteq DOMAIN f.got
                       /\ \A key \in DOMAIN base.got : f.got[key] = base.got[key]
                       /\ \A key \in DOMAIN f.got \ DOMAIN base.got : key[1] = g
                       /\ ~ f.parsingError => ~ base.parsingError /\ PricesOf(f.got, g, seq, k)
<1>1. n \in Nat /\ \A k \in 1 .. n : seq[k] \in Items
  BY Lists
<1>2. PICK F \in [0 .. n -> Fetches] :
          /\ F[0] = base
          /\ \A k \in 1 .. n : F[k] = AddItem(F[k - 1], g, seq[k])
          /\ AddItems(base, g, list[g]) = F[n]
  BY Added
<1>a. F[0] = base /\ \A k \in 1 .. n : F[k] = AddItem(F[k - 1], g, seq[k])
  BY <1>2
<1> HIDE DEF n, seq
<1>3. OK(F[0], 0)
  <2>1. \A j : j \notin 1 .. 0
    OBVIOUS
  <2>2. \A key \in DOMAIN base.got : key[1] # g
    OBVIOUS
  <2>3. PricesOf(base.got, g, seq, 0)
    BY <2>1, <2>2 DEF PricesOf
  <2> QED BY <1>a, <2>3
<1>4. ASSUME NEW k \in 1 .. n, OK(F[k - 1], k - 1) PROVE OK(F[k], k)
  <2> DEFINE f == F[k - 1]
             item == seq[k]
  <2>1. f \in Fetches /\ item \in Items /\ F[k] = AddItem(f, g, item) /\ k \in Nat /\ k # 0
    BY <1>1, <1>a
  <2>2. \A j : j \in 1 .. k <=> j \in 1 .. k - 1 \/ j = k
    BY <2>1
  <2>a. \A j \in 1 .. k - 1 : j # k
    BY <2>1
  <2> HIDE DEF f, item
  <2>3. CASE ~ Sold(item)
    <3>1. F[k] = f
      BY <2>1, <2>3 DEF AddItem
    <3>2. PricesOf(f.got, g, seq, k - 1) => PricesOf(f.got, g, seq, k)
      BY <2>2, <2>3 DEF PricesOf, item
    <3> QED BY <1>4, <3>1, <3>2 DEF f
  <2>4. CASE Sold(item) /\ Unreadable(item)
    <3>1. F[k] = [f EXCEPT !.parsingError = TRUE]
      BY <2>1, <2>4 DEF AddItem
    <3>2. F[k].parsingError /\ F[k].left = f.left /\ F[k].got = f.got
      BY <2>1, <3>1 DEF Fetches
    <3> QED BY <1>4, <3>2 DEF f
  <2>5. CASE Sold(item) /\ ~ Unreadable(item)
    <3> DEFINE key == KeyIn(g, item)
               more == [x \in DOMAIN f.got \cup {key} |-> IF x = key THEN EC2Specs(item) ELSE f.got[x]]
    <3>1. F[k] = [f EXCEPT !.got = more]
      BY <2>1, <2>5 DEF AddItem, KeyIn
    <3>2. F[k].parsingError = f.parsingError /\ F[k].left = f.left /\ F[k].got = more
      <4> HIDE DEF more
      <4> QED BY <2>1, <3>1 DEF Fetches
    <3>3. key[1] = g
      BY DEF KeyIn
    <3>4. /\ DOMAIN more = DOMAIN f.got \cup {key} /\ more[key] = EC2Specs(item)
          /\ \A x \in DOMAIN f.got : x # key => more[x] = f.got[x]
      OBVIOUS
    <3> HIDE DEF more
    <3>5. DOMAIN base.got \subseteq DOMAIN more /\ \A x \in DOMAIN base.got : more[x] = base.got[x]
      BY <1>4, <3>3, <3>4 DEF f
    <3>6. \A x \in DOMAIN more \ DOMAIN base.got : x[1] = g
      BY <1>4, <3>3, <3>4 DEF f
    <3>7. PricesOf(f.got, g, seq, k - 1) => PricesOf(more, g, seq, k)
      <4> SUFFICES ASSUME PricesOf(f.got, g, seq, k - 1) PROVE PricesOf(more, g, seq, k)
        OBVIOUS
      <4> DEFINE was == {j \in 1 .. k - 1 : Sold(seq[j])}
                 is == {j \in 1 .. k : Sold(seq[j])}
      <4>1. is = was \cup {k} /\ k \in is /\ seq[k] = item
        BY <2>2, <2>5, <2>a DEF item
      <4>2. ASSUME NEW x \in DOMAIN more, x[1] = g
            PROVE  \E j \in is : x = KeyIn(g, seq[j]) /\ more[x] = EC2Specs(seq[j])
        <5>1. CASE x = key
          BY <3>4, <4>1, <5>1
        <5>2. CASE x # key
          <6>1. x \in DOMAIN f.got
            BY <3>4, <5>2
          <6>2. PICK j \in was : x = KeyIn(g, seq[j]) /\ f.got[x] = EC2Specs(seq[j])
            BY <4>2, <6>1 DEF PricesOf
          <6> QED BY <3>4, <4>1, <5>2, <6>1, <6>2
        <5> QED BY <5>1, <5>2
      <4>3. ASSUME NEW j \in is PROVE KeyIn(g, seq[j]) \in DOMAIN more
        BY <3>4, <4>1 DEF PricesOf
      <4> QED BY <4>2, <4>3 DEF PricesOf
    <3> QED BY <1>4, <3>2, <3>5, <3>6, <3>7 DEF f
  <2> QED BY <2>3, <2>4, <2>5
<1>5. OK(F[n], n)
  <2> DEFINE P == {k \in 0 .. n : OK(F[k], k)}
  <2> HIDE DEF OK
  <2>1. 0 \in P
    BY <1>1, <1>3
  <2>2. \A k \in 1 .. n : k - 1 \in P => k \in P
    BY <1>1, <1>4
  <2>3. 0 .. n \subseteq P
    <3> HIDE DEF P
    <3> QED BY <1>1, <2>1, <2>2, UpTo
  <2> QED BY <1>1, <2>3
<1>6. F[n] \in Fetches
  BY <1>1
<1>7. new = F[n]
  BY <1>2 DEF n, seq
<1> QED BY <1>5, <1>6, <1>7 DEF n, seq

-----------------------------------------------------------------------------
\* What fetch-pricings has so far: all prices of the regions it has read, each of one list.
FetchInv ==
    /\ market \in PriceLists /\ published \in [now : SUBSET PriceLists, row : SUBSET PriceLists]
    /\ fetch.busy \in BOOLEAN
    /\ ~ fetch.busy => fetch = NoFetch
    /\ fetch.busy =>
        /\ fetch \in Fetches /\ market \in published.now
        /\ \A key \in DOMAIN fetch.got : key[1] \in Regions \ fetch.left
        /\ ~ fetch.parsingError => \A g \in Regions \ fetch.left : \E list \in published.now :
               PricesOf(fetch.got, g, list[g], Len(list[g]))

\* The prices p of region g are those of the list, in the words of PricingIsWhole.
WholeIn(p, list, g) ==
    LET items == list[g]
        sold  == {k \in DOMAIN items : items[k].box /\ ~items[k].byol}
        Key(k) == <<g, NormalizedPlatform(items[k]), items[k].type>>
        keys  == {Key(k) : k \in sold}
    IN /\ {k \in DOMAIN p : k[1] = g} = keys
       /\ \A key \in keys : \E k \in sold : key = Key(k) /\ p[key] = EC2Specs(items[k])

Whole(p, row) == p # None => \A g \in Regions : \E list \in row : WholeIn(p, list, g)

PricingInv == FetchInv /\ Whole(pricing, published.row) /\ pricing \in Priced \cup {None}

\* PricingIsWhole is about the row and the lists it was made of.
LEMMA WholeSays == PricingIsWhole <=> Whole(pricing, published.row)
BY DEF PricingIsWhole, Whole, WholeIn

\* A region whose items were all added is whole.
LEMMA WholeIs ==
    ASSUME NEW p, NEW g \in Regions, NEW list \in PriceLists, PricesOf(p, g, list[g], Len(list[g]))
    PROVE  WholeIn(p, list, g)
<1> DEFINE items == list[g]
           sold  == {k \in DOMAIN items : items[k].box /\ ~items[k].byol}
           Key(k) == <<g, NormalizedPlatform(items[k]), items[k].type>>
           keys  == {Key(k) : k \in sold}
           now   == {k \in DOMAIN p : k[1] = g}
<1>1. sold = {k \in 1 .. Len(list[g]) : Sold(items[k])}
  BY Lists DEF Sold
<1>2. \A k : Key(k) = KeyIn(g, items[k])
  BY DEF KeyIn
<1>3. \A k : Key(k)[1] = g
  OBVIOUS
<1> HIDE DEF items, sold, Key
<1>4. \A key \in now : \E k \in sold : key = Key(k) /\ p[key] = EC2Specs(items[k])
  BY <1>1, <1>2 DEF PricesOf, items
<1>5. keys \subseteq now
  BY <1>1, <1>2, <1>3 DEF PricesOf, items
<1>6. now = keys
  BY <1>4, <1>5
<1>7. \A key \in keys : \E k \in sold : key = Key(k) /\ p[key] = EC2Specs(items[k])
  <2> HIDE DEF now, keys
  <2> QED BY <1>4, <1>6
<1> QED BY <1>6, <1>7 DEF items, sold, Key, WholeIn

LEMMA InitPricing == Init => PricingInv
BY DEF Init, PricingInv, FetchInv, Whole, NoFetch

\* A run of fetch-pricings that goes on or ends leaves the row.
LEMMA PricingUntouched ==
    ASSUME PricingInv, UNCHANGED <<market, published, pricing>>, fetch' = fetch \/ fetch' = NoFetch PROVE PricingInv'
<1>1. CASE fetch' = fetch
  BY <1>1 DEF PricingInv, FetchInv
<1>2. CASE fetch' = NoFetch
  BY <1>2 DEF PricingInv, FetchInv, NoFetch
<1> QED BY <1>1, <1>2

\* The row and the lists it was made of stay.
LEMMA RowUntouched ==
    ASSUME PricingInv, FetchInv', pricing' = pricing, published'.row = published.row PROVE PricingInv'
BY DEF PricingInv

\* Every step keeps PricingInv.
LEMMA StepPricing == PricingInv /\ [Next]_vars => PricingInv'
<1> SUFFICES ASSUME PricingInv, [Next]_vars PROVE PricingInv'
  OBVIOUS
<1>1. CASE FetchFails \/ StartRun \/ ImportInstances \/ ImportReservations \/ Refresh
           \/ ChangeInstance \/ ChangeReservation \/ MonthEnds \/ UNCHANGED vars
  BY <1>1, PricingUntouched DEF FetchFails, StartRun, ImportInstances, ImportReservations, ImportReport, Import,
     Refresh, ChangeInstance, ChangeReservation, MonthEnds, vars, cloud, elastic, processes, prices
<1>2. CASE GetRIReport \/ GetEC2Report \/ RunFails \/ Advise
  BY <1>2, PricingUntouched DEF GetRIReport, GetEC2Report, GetReport, RunFails, Advise, GiveUp, cloud, elastic, prices
<1>3. CASE StartFetch
  <2>1. /\ fetch' = [left |-> Regions, busy |-> TRUE, parsingError |-> FALSE, got |-> [k \in {} |-> None]]
        /\ published' = [published EXCEPT !.now = {market}] /\ UNCHANGED <<market, pricing>>
    BY <1>3 DEF StartFetch, cloud
  <2>2. [k \in {} |-> None] \in Priced
    <3>1. {} \in SUBSET Keys /\ [k \in {} |-> None] \in [{} -> {EC2Specs(i) : i \in Items}]
      OBVIOUS
    <3> QED BY <3>1 DEF Priced
  <2>3. FetchInv' /\ published'.row = published.row
    BY <2>1, <2>2 DEF PricingInv, FetchInv, Fetches
  <2> QED BY <2>1, <2>3, RowUntouched
<1>4. CASE FetchRegion
  <2>1. PICK g \in fetch.left : fetch' = AddItems([fetch EXCEPT !.left = @ \ {g}], g, market[g])
    BY <1>4 DEF FetchRegion, AddItems
  <2>2. UNCHANGED <<market, published, pricing>>
    BY <1>4 DEF FetchRegion, cloud
  <2>3. fetch.busy /\ fetch \in Fetches /\ market \in published.now /\ market \in PriceLists
    <3>1. g \in fetch.left
      OBVIOUS
    <3> QED BY <3>1 DEF PricingInv, FetchInv, NoFetch
  <2> DEFINE base == [fetch EXCEPT !.left = @ \ {g}]
  <2>4. base \in Fetches /\ g \in Regions /\ base.left = fetch.left \ {g} /\ base.got = fetch.got
        /\ base.parsingError = fetch.parsingError
    BY <2>3 DEF Fetches
  <2>5. \A key \in DOMAIN base.got : key[1] # g
    BY <2>3, <2>4 DEF PricingInv, FetchInv
  <2> HIDE DEF base
  <2>6. /\ fetch' \in Fetches /\ fetch'.left = base.left
        /\ DOMAIN base.got \subseteq DOMAIN fetch'.got
        /\ \A key \in DOMAIN base.got : fetch'.got[key] = base.got[key]
        /\ \A key \in DOMAIN fetch'.got \ DOMAIN base.got : key[1] = g
        /\ ~ fetch'.parsingError => ~ base.parsingError /\ PricesOf(fetch'.got, g, market[g], Len(market[g]))
    <3>1. fetch' = AddItems(base, g, market[g])
      BY <2>1 DEF base
    <3> QED BY <2>3, <2>4, <2>5, <3>1, RegionAdded
  <2>7. \A key \in DOMAIN fetch'.got : key[1] \in Regions \ fetch'.left
    BY <2>3, <2>4, <2>6 DEF PricingInv, FetchInv, Fetches
  <2>8. ASSUME ~ fetch'.parsingError, NEW h \in Regions \ fetch'.left
        PROVE  \E list \in published.now : PricesOf(fetch'.got, h, list[h], Len(list[h]))
    <3>1. CASE h = g
      BY <2>3, <2>6, <2>8, <3>1
    <3>2. CASE h # g
      <4>1. h \in Regions \ fetch.left /\ ~ fetch.parsingError
        BY <2>4, <2>6, <2>8, <3>2
      <4>2. PICK list \in published.now : PricesOf(fetch.got, h, list[h], Len(list[h]))
        BY <2>3, <4>1 DEF PricingInv, FetchInv
      <4>3. \A key : key[1] = h /\ key \in DOMAIN fetch'.got => key \in DOMAIN fetch.got /\ fetch'.got[key] = fetch.got[key]
        BY <2>4, <2>6, <3>2
      <4>4. PricesOf(fetch'.got, h, list[h], Len(list[h]))
        BY <2>4, <2>6, <4>2, <4>3 DEF PricesOf
      <4> QED BY <4>4
    <3> QED BY <3>1, <3>2
  <2>9. fetch'.busy
    BY <2>6 DEF Fetches
  <2>10. FetchInv'
    BY <2>2, <2>3, <2>6, <2>7, <2>8, <2>9 DEF PricingInv, FetchInv
  <2> QED BY <2>2, <2>10, RowUntouched
<1>5. CASE SavePricing
  <2>1. fetch.busy /\ fetch.left = {} /\ fetch' = NoFetch /\ UNCHANGED market
    BY <1>5 DEF SavePricing, cloud
  <2>2. CASE fetch.parsingError
    <3>1. UNCHANGED <<pricing, published>>
      BY <1>5, <2>2 DEF SavePricing
    <3> QED BY <2>1, <3>1, PricingUntouched
  <2>3. CASE ~ fetch.parsingError
    <3>1. pricing' = fetch.got /\ published' = [now |-> {}, row |-> published.now]
      BY <1>5, <2>3 DEF SavePricing
    <3>2. FetchInv'
      BY <2>1, <3>1 DEF PricingInv, FetchInv, NoFetch
    <3>3. ASSUME NEW g \in Regions PROVE \E list \in published.now : WholeIn(fetch.got, list, g)
      <4>1. PICK list \in published.now : PricesOf(fetch.got, g, list[g], Len(list[g]))
        BY <2>1, <2>3 DEF PricingInv, FetchInv
      <4>2. list \in PriceLists
        BY DEF PricingInv, FetchInv
      <4> QED BY <4>1, <4>2, WholeIs
    <3>4. Whole(pricing, published.row)'
      BY <3>1, <3>3 DEF Whole
    <3>5. pricing' \in Priced
      BY <2>1, <3>1 DEF PricingInv, FetchInv, Fetches
    <3> QED BY <3>2, <3>4, <3>5 DEF PricingInv
  <2> QED BY <2>2, <2>3
<1>6. CASE ChangePrices
  <2>1. PICK list \in PriceLists : /\ market' = list
        /\ published' = IF fetch.busy THEN [published EXCEPT !.now = @ \cup {list}] ELSE published
    BY <1>6 DEF ChangePrices
  <2>2. UNCHANGED <<pricing, fetch>>
    BY <1>6 DEF ChangePrices
  <2>3. FetchInv' /\ published'.row = published.row
    BY <2>1, <2>2 DEF PricingInv, FetchInv
  <2> QED BY <2>2, <2>3, RowUntouched
<1> QED BY <1>1, <1>2, <1>3, <1>4, <1>5, <1>6 DEF Next

THEOREM PricingWhole == AdviceSpec => []PricingIsWhole
<1>1. Init => PricingInv
  BY InitPricing
<1>2. PricingInv /\ [Next]_vars => PricingInv'
  BY StepPricing
<1>3. PricingInv => PricingIsWhole
  BY WholeSays DEF PricingInv
<1> QED BY <1>1, <1>2, <1>3, PTL DEF AdviceSpec

-----------------------------------------------------------------------------
(* What is not reserved *)

\* Min picks a member of what it is given.
LEMMA MinIn == ASSUME NEW s \in SUBSET Nat, s # {} PROVE Min(s) \in s
<1>1. PICK x \in s : \A y \in s : x <= y
  BY NatMin
<1> QED BY <1>1 DEF Min

Specs == {Spec(i) : i \in Instances}
ReservedSpec(r) == [region |-> r.region, type |-> r.type, platform |-> r.platform]

Counts == UNION {[K -> Nat \ {0}] : K \in SUBSET Specs}
Accs(m) == [specs : Counts, left : [1 .. m -> Nat]]

InstancesDocs(E) == IsFiniteSet(E) /\ \A d \in E : d.thing \in Instances
ReservationDocs(R) == IsFiniteSet(R) /\ \A d \in R : d.thing \in Reservations

\* The active reservations of a specification, in the order rs.
Of(rs, s) == {k \in DOMAIN rs : rs[k].state = "active" /\ ReservedSpec(rs[k].thing) = s}

\* A reservation is usable by the instances of its specification, whatever zone it names.
LEMMA MatchesIs ==
    ASSUME NEW i \in Instances, NEW r \in Reservations
    PROVE  Matches(i, r) <=> Spec(i) = ReservedSpec(r)
<1>1. i.zone = r.zone => RegionOf[i.zone] = r.region
  BY AdviceAssumption
<1>2. Matches(i, r) <=> RegionOf[i.zone] = r.region /\ i.type = r.type /\ i.platform = r.platform
  BY <1>1 DEF Matches
<1>3. Spec(i) = [region |-> RegionOf[i.zone], type |-> i.type, platform |-> i.platform]
  BY DEF Spec
<1>4. ReservedSpec(r) = [region |-> r.region, type |-> r.type, platform |-> r.platform]
  BY DEF ReservedSpec
<1> QED BY <1>2, <1>3, <1>4

\* One more of a specification, and as many of the others as before.
LEMMA AddUnreservedIs ==
    ASSUME NEW f \in Counts, NEW s \in Specs
    PROVE  /\ AddUnreserved(f, s) \in Counts
           /\ DOMAIN AddUnreserved(f, s) = DOMAIN f \cup {s}
           /\ AddUnreserved(f, s)[s] = IF s \in DOMAIN f THEN f[s] + 1 ELSE 1
           /\ \A x \in DOMAIN f : x # s => AddUnreserved(f, s)[x] = f[x]
<1> DEFINE g == AddUnreserved(f, s)
<1>1. PICK K \in SUBSET Specs : f \in [K -> Nat \ {0}]
  BY DEF Counts
<1>2. DOMAIN f = K /\ \A x \in K : f[x] \in Nat \ {0}
  BY <1>1
<1>3. g = [x \in K \cup {s} |-> (IF x \in K THEN f[x] ELSE 0) + (IF x = s THEN 1 ELSE 0)]
  BY <1>2 DEF AddUnreserved
<1> HIDE DEF g
<1>4. DOMAIN g = K \cup {s} /\ g[s] = IF s \in K THEN f[s] + 1 ELSE 1
  BY <1>2, <1>3
<1>5. \A x \in K : x # s => g[x] = f[x]
  BY <1>2, <1>3
<1>6. \A x \in K \cup {s} : g[x] \in Nat \ {0}
  BY <1>2, <1>4, <1>5
<1>7. g \in [K \cup {s} -> Nat \ {0}] /\ K \cup {s} \in SUBSET Specs
  BY <1>3, <1>4, <1>6
<1>8. g \in Counts
  BY <1>7 DEF Counts
<1> QED BY <1>2, <1>4, <1>5, <1>8 DEF g

\* What a document of the instances does: nothing, or it takes one of a reservation of
\* its kind, or, when nothing is left of them, is one more that is not reserved.
LEMMA ReserveIs ==
    ASSUME NEW m \in Nat, NEW rs, DOMAIN rs = 1 .. m, \A k \in 1 .. m : rs[k].thing \in Reservations,
           NEW acc \in Accs(m), NEW d, d.thing \in Instances
    PROVE  LET s == Spec(d.thing)
           IN /\ d.state # "running" => Reserve(acc, d, rs) = acc
              /\ d.state = "running" /\ (\E k \in Of(rs, s) : acc.left[k] # 0) =>
                     \E k \in Of(rs, s) : /\ acc.left[k] # 0
                                          /\ Reserve(acc, d, rs) = [specs |-> acc.specs,
                                                                    left |-> Spend(acc.left, k)]
              /\ d.state = "running" /\ (\A k \in Of(rs, s) : acc.left[k] = 0) =>
                     Reserve(acc, d, rs) = [specs |-> AddUnreserved(acc.specs, s), left |-> acc.left]
<1> DEFINE s == Spec(d.thing)
           usable == {k \in DOMAIN rs : /\ rs[k].state = "active" /\ acc.left[k] # 0
                                        /\ Matches(d.thing, rs[k].thing)}
<1>1. usable = {k \in Of(rs, s) : acc.left[k] # 0}
  BY MatchesIs DEF Of
<1>2. Reserve(acc, d, rs) = IF d.state # "running" THEN acc
                            ELSE IF usable # {} THEN [acc EXCEPT !.left = Spend(@, Min(usable))]
                            ELSE [acc EXCEPT !.specs = AddUnreserved(@, s)]
  BY DEF Reserve
<1>3. acc = [specs |-> acc.specs, left |-> acc.left] /\ acc.left \in [1 .. m -> Nat]
  BY DEF Accs
<1>4. usable \in SUBSET Nat
  OBVIOUS
<1> HIDE DEF usable, s
<1>5. CASE d.state = "running" /\ (\E k \in Of(rs, s) : acc.left[k] # 0)
  <2> DEFINE k == Min(usable)
  <2>1. usable # {}
    BY <1>1, <1>5
  <2>2. k \in usable
    BY <1>4, <2>1, MinIn
  <2>3. Reserve(acc, d, rs) = [acc EXCEPT !.left = Spend(@, k)]
    BY <1>2, <1>5, <2>1
  <2> HIDE DEF k
  <2>4. Reserve(acc, d, rs) = [specs |-> acc.specs, left |-> Spend(acc.left, k)]
    BY <1>3, <2>3
  <2> QED BY <1>1, <1>5, <2>2, <2>4 DEF s
<1>6. CASE d.state = "running" /\ (\A k \in Of(rs, s) : acc.left[k] = 0)
  <2>1. usable = {}
    BY <1>1, <1>6
  <2>2. Reserve(acc, d, rs) = [acc EXCEPT !.specs = AddUnreserved(@, s)]
    BY <1>2, <1>6, <2>1
  <2>3. Reserve(acc, d, rs) = [specs |-> AddUnreserved(acc.specs, s), left |-> acc.left]
    BY <1>3, <2>2
  <2> QED BY <1>6, <2>3 DEF s
<1>7. CASE d.state # "running"
  BY <1>2, <1>7
<1> QED BY <1>5, <1>6, <1>7 DEF s

\* What is left of a reservation is never negative.
LEMMA ReserveTyped ==
    ASSUME NEW m \in Nat, NEW rs, DOMAIN rs = 1 .. m, \A k \in 1 .. m : rs[k].thing \in Reservations,
           NEW acc \in Accs(m), NEW d, d.thing \in Instances
    PROVE  Reserve(acc, d, rs) \in Accs(m)
<1> DEFINE s == Spec(d.thing)
<1>1. s \in Specs
  BY DEF Specs
<1>2. acc.specs \in Counts /\ acc.left \in [1 .. m -> Nat]
  BY DEF Accs
<1>3. CASE d.state # "running"
  BY <1>3, ReserveIs
<1>4. CASE d.state = "running" /\ (\E k \in Of(rs, s) : acc.left[k] # 0)
  <2>1. PICK k \in Of(rs, s) : acc.left[k] # 0 /\ Reserve(acc, d, rs) = [specs |-> acc.specs, left |-> Spend(acc.left, k)]
    BY <1>4, ReserveIs
  <2>2. k \in 1 .. m /\ acc.left[k] \in Nat /\ acc.left[k] - 1 \in Nat
    BY <1>2, <2>1 DEF Of
  <2>3. Spend(acc.left, k) \in [1 .. m -> Nat]
    BY <1>2, <2>2 DEF Spend
  <2> QED BY <1>2, <2>1, <2>3 DEF Accs
<1>5. CASE d.state = "running" /\ (\A k \in Of(rs, s) : acc.left[k] = 0)
  <2>1. Reserve(acc, d, rs) = [specs |-> AddUnreserved(acc.specs, s), left |-> acc.left]
    BY <1>5, ReserveIs
  <2>2. AddUnreserved(acc.specs, s) \in Counts
    BY <1>1, <1>2, AddUnreservedIs
  <2> QED BY <1>2, <2>1, <2>2 DEF Accs
<1> QED BY <1>3, <1>4, <1>5

Untaken(rs) == [k \in DOMAIN rs |-> rs[k].thing.count]

ReserveAll(is, rs) ==
    FoldLeft(LAMBDA acc, i : Reserve(acc, i, rs), [specs |-> [s \in {} |-> 0], left |-> Untaken(rs)], is)

\* F is what is left, and what is not reserved, after each of the n instances.
Reserves(F, n, is, rs) ==
    /\ F[0] = [specs |-> [s \in {} |-> 0], left |-> Untaken(rs)]
    /\ \A k \in 1 .. n : F[k] = Reserve(F[k - 1], is[k], rs)
    /\ ReserveAll(is, rs) = F[n]

\* Each instance takes what those before it have left.
LEMMA OneByOne ==
    ASSUME NEW m \in Nat, NEW rs, DOMAIN rs = 1 .. m, \A k \in 1 .. m : rs[k].thing \in Reservations,
           NEW n \in Nat, NEW is, DOMAIN is = 1 .. n, \A k \in 1 .. n : is[k].thing \in Instances
    PROVE  \E F \in [0 .. n -> Accs(m)] : Reserves(F, n, is, rs)
<1> DEFINE base == [specs |-> [s \in {} |-> 0], left |-> Untaken(rs)]
           step == [x \in (1 .. n) \X Accs(m) |-> Reserve(x[2], is[x[1]], rs)]
           Body(k) == [s \in SUBSET (1 .. n) |-> IF s = {} THEN base ELSE Reserve(k[s \ {Max(s)}], is[Max(s)], rs)]
           K == CHOOSE k : k = Body(k)
           F == [k \in 0 .. n |-> K[1 .. k]]
<1>1. base \in Accs(m)
  <2>1. [s \in {} |-> 0] \in [{} -> Nat \ {0}] /\ {} \in SUBSET Specs
    OBVIOUS
  <2>2. [s \in {} |-> 0] \in Counts
    BY <2>1 DEF Counts
  <2>3. Untaken(rs) \in [1 .. m -> Nat]
    BY AdviceAssumption DEF Untaken
  <2> QED BY <2>2, <2>3 DEF Accs
<1> HIDE DEF base
<1>2. step \in [(1 .. n) \X Accs(m) -> Accs(m)]
  BY ReserveTyped
<1>3. PICK h \in [SUBSET (1 .. n) -> Accs(m)] : FoldsLeft(h, n, base, step)
  <2> HIDE DEF step
  <2> QED BY <1>1, <1>2, LeftRecursion
<1>4. h = Body(h)
  <2>1. ASSUME NEW s \in SUBSET (1 .. n), s # {}
        PROVE  step[<<Max(s), h[s \ {Max(s)}]>>] = Reserve(h[s \ {Max(s)}], is[Max(s)], rs)
    <3>1. Max(s) \in 1 .. n /\ h[s \ {Max(s)}] \in Accs(m)
      BY <2>1, MaxIn
    <3> QED BY <3>1
  <2> HIDE DEF step
  <2> QED BY <1>3, <2>1 DEF FoldsLeft
<1>5. K = Body(K)
  <2> HIDE DEF Body
  <2> QED BY <1>4
<1>6. ReserveAll(is, rs) = K[DOMAIN is]
  BY DEF ReserveAll, base, FoldLeft, MapThenFoldSet
<1>7. F[0] = base /\ \A k \in 1 .. n : F[k] = Reserve(F[k - 1], is[k], rs)
  <2>1. ASSUME NEW k \in 0 .. n PROVE F[k] = K[1 .. k] /\ (1 .. k) \in SUBSET (1 .. n)
    OBVIOUS
  <2>2. 1 .. 0 = {}
    OBVIOUS
  <2>3. ASSUME NEW k \in 1 .. n PROVE F[k] = Reserve(F[k - 1], is[k], rs)
    <3>1. k \in Nat /\ k # 0 /\ k \in 0 .. n /\ k - 1 \in 0 .. n /\ 1 .. k # {}
      OBVIOUS
    <3>2. K[1 .. k] = Reserve(K[(1 .. k) \ {Max(1 .. k)}], is[Max(1 .. k)], rs)
      <4> HIDE DEF K
      <4> QED BY <1>5, <2>1, <3>1
    <3> HIDE DEF K, F
    <3> QED BY <2>1, <3>1, <3>2, MaxOfPrefix
  <2>4. F[0] = base
    <3> HIDE DEF K
    <3> QED BY <1>5, <2>2
  <2> QED BY <2>3, <2>4
<1>8. \A k \in 0 .. n : F[k] \in Accs(m)
  <2> HIDE DEF F
  <2> DEFINE P == {k \in 0 .. n : F[k] \in Accs(m)}
  <2>1. 0 \in P
    BY <1>1, <1>7
  <2>2. ASSUME NEW k \in 1 .. n, k - 1 \in P PROVE k \in P
    <3>1. k \in 0 .. n /\ F[k - 1] \in Accs(m) /\ is[k].thing \in Instances
      BY <2>2
    <3>2. F[k] = Reserve(F[k - 1], is[k], rs)
      BY <1>7
    <3>3. F[k] \in Accs(m)
      BY <3>1, <3>2, ReserveTyped
    <3> QED BY <3>1, <3>3
  <2>3. 0 .. n \subseteq P
    <3> HIDE DEF P
    <3> QED BY <2>1, <2>2, UpTo
  <2> QED BY <2>3
<1>9. F \in [0 .. n -> Accs(m)]
  <2> HIDE DEF K
  <2> QED BY <1>8
<1>10. ReserveAll(is, rs) = F[n]
  BY <1>6
<1> HIDE DEF F, K
<1> QED BY <1>7, <1>9, <1>10 DEF base, Reserves

\* The fold of getUnreservedInstances, by name.
LEMMA UnreservedAre == ASSUME NEW is, NEW rs PROVE Unreserved(is, rs) = ReserveAll(is, rs).specs
BY DEF Unreserved, ReserveAll, Untaken

\* A document more is an instance more of its specification, when it runs.
LEMMA RunningAdd ==
    ASSUME NEW D, IsFiniteSet(D), NEW d, d \notin D, NEW s
    PROVE  /\ Cardinality(Running(D, s)) \in Nat
           /\ Cardinality(Running(D \cup {d}, s)) =
                  Cardinality(Running(D, s)) + (IF d.state = "running" /\ Spec(d.thing) = s THEN 1 ELSE 0)
<1>1. IsFiniteSet(Running(D, s))
  BY FS_Subset DEF Running
<1>2. Cardinality(Running(D, s)) \in Nat
  BY <1>1, FS_CardinalityType
<1>3. CASE d.state = "running" /\ Spec(d.thing) = s
  <2>1. Running(D \cup {d}, s) = Running(D, s) \cup {d} /\ d \notin Running(D, s)
    BY <1>3 DEF Running
  <2> QED BY <1>1, <1>2, <1>3, <2>1, FS_AddElement
<1>4. CASE ~ (d.state = "running" /\ Spec(d.thing) = s)
  <2>1. Running(D \cup {d}, s) = Running(D, s)
    BY <1>4 DEF Running
  <2> QED BY <1>2, <1>4, <2>1
<1> QED BY <1>3, <1>4

\* To take one of a reservation is to take one of the total.
LEMMA TotalTake ==
    ASSUME NEW m \in Nat, NEW f \in [1 .. m -> Nat], NEW k \in 1 .. m, NEW S \in SUBSET (1 .. m)
    PROVE  /\ Total(f, S) \in Nat
           /\ Total(Spend(f, k), S) = Total(f, S) - (IF k \in S THEN 1 ELSE 0)
<1> DEFINE g == Spend(f, k)
<1>1. IsFiniteSet(S) /\ IsFiniteSet(S \ {k})
  <2>1. IsFiniteSet(1 .. m)
    BY FS_Interval
  <2>2. S \subseteq 1 .. m /\ S \ {k} \subseteq 1 .. m
    OBVIOUS
  <2> QED BY <2>1, <2>2, FS_Subset
<1>2. \A x \in 1 .. m : f[x] \in Int /\ g[x] \in Int /\ (x # k => g[x] = f[x])
  BY DEF Spend
<1>3. g[k] = f[k] - 1
  BY DEF Spend
<1>4. Total(f, S) \in Nat
  <2>1. \A x \in S : f[x] \in Nat
    OBVIOUS
  <2> QED BY <1>1, <2>1, TotalNat
<1> HIDE DEF g
<1>5. Total(f, S \ {k}) = Total(g, S \ {k})
  <2>1. \A x \in S \ {k} : f[x] \in Int /\ g[x] = f[x]
    BY <1>2
  <2> QED BY <1>1, <2>1, TotalSame
<1>6. CASE k \in S
  <2>1. Total(f, S) = f[k] + Total(f, S \ {k}) /\ Total(f, S \ {k}) \in Int
    BY <1>1, <1>2, <1>6, TotalAdd
  <2>2. Total(g, S) = g[k] + Total(g, S \ {k})
    BY <1>1, <1>2, <1>6, TotalAdd
  <2> DEFINE a == Total(f, S \ {k})
             b == f[k]
  <2>3. Total(f, S) = b + a /\ Total(g, S) = (b - 1) + a /\ a \in Int /\ b \in Int
    BY <1>2, <1>3, <1>5, <2>1, <2>2
  <2>4. Total(g, S) = Total(f, S) - 1
    <3> HIDE DEF a, b
    <3> QED BY <2>3
  <2> QED BY <1>4, <1>6, <2>4 DEF g
<1>7. CASE k \notin S
  <2>1. S \ {k} = S
    BY <1>7
  <2>2. Total(g, S) = Total(f, S)
    BY <1>5, <2>1
  <2> QED BY <1>4, <1>7, <2>2 DEF g
<1> QED BY <1>6, <1>7

\* Whatever the order of an answer, it has each document once.
LEMMA Enumerates ==
    ASSUME NEW S, IsFiniteSet(S), NEW q \in SetToSeqs(S)
    PROVE  \E n \in Nat : /\ DOMAIN q = 1 .. n
                          /\ \A i \in 1 .. n : q[i] \in S
                          /\ \A i, j \in 1 .. n : q[i] = q[j] => i = j
                          /\ \A x \in S : \E i \in 1 .. n : q[i] = x
<1> DEFINE n == Cardinality(S)
<1>1. n \in Nat
  BY FS_CardinalityType
<1>2. q \in [1 .. n -> S] /\ \A i, j \in 1 .. n : i # j => q[i] # q[j]
  BY DEF SetToSeqs
<1>3. q \in Injection(1 .. n, S)
  BY <1>2 DEF Injection, IsInjective
<1>4. IsFiniteSet(1 .. n) /\ Cardinality(1 .. n) = n
  <2> HIDE DEF n
  <2> QED BY <1>1, FS_Interval
<1>5. q \in Surjection(1 .. n, S)
  BY <1>3, <1>4, FS_Injection
<1> QED BY <1>1, <1>2, <1>5 DEF Surjection

\* The sum of Capacity.
CountOf(D) == MapThenSumSet(LAMBDA d : d.thing.count, D)
CountOfEach(D) == [x \in D |-> x.thing.count]

\* The sum of Capacity is a total.
LEMMA CountIsTotal ==
    ASSUME NEW D, IsFiniteSet(D), \A x \in D : x.thing.count \in Int
    PROVE  CountOf(D) = Total(CountOfEach(D), D)
<1> DEFINE f == CountOfEach(D)
           Body(k) == [s \in SUBSET D |-> IF s = {} THEN 0
                          ELSE (CHOOSE x \in s : TRUE).thing.count + k[s \ {CHOOSE x \in s : TRUE}]]
           K == CHOOSE k : k = Body(k)
<1>1. \A x \in D : f[x] = x.thing.count /\ f[x] \in Int
  BY DEF CountOfEach
<1>2. \A k : Body(k) = [s \in SUBSET D |-> IF s = {} THEN 0
                          ELSE f[CHOOSE x \in s : TRUE] + k[s \ {CHOOSE x \in s : TRUE}]]
  <2>1. \A s \in SUBSET D : s # {} => f[CHOOSE x \in s : TRUE] = (CHOOSE x \in s : TRUE).thing.count
    BY <1>1
  <2> HIDE DEF f
  <2> QED BY <2>1
<1> HIDE DEF f
<1>3. PICK k : Sums(k, f, D)
  BY <1>1, SumExists
<1>4. k = Body(k)
  <2> HIDE DEF Body
  <2> QED BY <1>2, <1>3 DEF Sums
<1>5. K = Body(K)
  <2> HIDE DEF Body
  <2> QED BY <1>4
<1>6. Sums(K, f, D)
  <2> HIDE DEF Body, K
  <2> QED BY <1>2, <1>5 DEF Sums
<1>7. Total(f, D) = K[D]
  <2> HIDE DEF K
  <2> QED BY <1>1, <1>6, TotalIs
<1>8. CountOf(D) = K[D]
  BY DEF CountOf, MapThenSumSet, MapThenFoldSet
<1> QED BY <1>7, <1>8 DEF f

\* The active reservations of a specification.
Reserved(R, s) == {d \in R : d.state = "active" /\ ReservedSpec(d.thing) = s}

\* Capacity is about the active reservations of a specification.
LEMMA CapacityIs == ASSUME NEW R, NEW s \in Specs PROVE Capacity(R, s) = CountOf(Reserved(R, s))
<1>1. {d \in R : /\ d.state = "active" /\ d.thing.region = s.region
                 /\ d.thing.type = s.type /\ d.thing.platform = s.platform} = Reserved(R, s)
  BY DEF Reserved, ReservedSpec, Specs, Spec
<1> QED BY <1>1 DEF Capacity, CountOf

\* Capacity is what is untaken when nothing is reserved yet, in whatever order.
LEMMA CapacityIsTotal ==
    ASSUME NEW R, ReservationDocs(R), NEW rs \in SetToSeqs(R), NEW s \in Specs
    PROVE  Capacity(R, s) = Total(Untaken(rs), Of(rs, s)) /\ Capacity(R, s) \in Nat
<1> DEFINE D == Reserved(R, s)
<1>1. IsFiniteSet(R) /\ \A d \in R : d.thing \in Reservations
  BY DEF ReservationDocs
<1>2. PICK m \in Nat : /\ DOMAIN rs = 1 .. m
                       /\ \A i \in 1 .. m : rs[i] \in R
                       /\ \A i, j \in 1 .. m : rs[i] = rs[j] => i = j
                       /\ \A x \in R : \E i \in 1 .. m : rs[i] = x
  BY <1>1, Enumerates
<1>3. {rs[k] : k \in Of(rs, s)} = D
  BY <1>2 DEF Of, Reserved
<1>4. IsFiniteSet(D) /\ \A d \in D : d.thing.count \in Nat
  BY <1>1, FS_Subset, AdviceAssumption DEF Reserved
<1>5. IsFiniteSet(Of(rs, s)) /\ Of(rs, s) \subseteq 1 .. m
  <2>1. IsFiniteSet(1 .. m) /\ Of(rs, s) \subseteq 1 .. m
    BY <1>2, FS_Interval DEF Of
  <2> QED BY <2>1, FS_Subset
<1>6. \A k \in Of(rs, s) : rs[k] \in D /\ Untaken(rs)[k] = rs[k].thing.count
  BY <1>2, <1>3, <1>5 DEF Untaken
<1> HIDE DEF D
<1>7. \A k \in Of(rs, s) : CountOfEach(D)[rs[k]] \in Int /\ Untaken(rs)[k] = CountOfEach(D)[rs[k]]
  BY <1>4, <1>6 DEF CountOfEach
<1>8. \A i, j \in Of(rs, s) : rs[i] = rs[j] => i = j
  BY <1>2, <1>5
<1>9. Total(Untaken(rs), Of(rs, s)) = Total(CountOfEach(D), {rs[k] : k \in Of(rs, s)})
  BY <1>5, <1>7, <1>8, TotalImage
<1>10. CountOf(D) = Total(CountOfEach(D), D)
  BY <1>4, CountIsTotal
<1>11. Total(CountOfEach(D), D) \in Nat
  <2>1. \A d \in D : CountOfEach(D)[d] \in Nat
    BY <1>4 DEF CountOfEach
  <2> QED BY <1>4, <2>1, TotalNat
<1>12. Capacity(R, s) = CountOf(D)
  BY CapacityIs DEF D
<1> QED BY <1>3, <1>9, <1>10, <1>11, <1>12

CountIn(specs, s) == IF s \in DOMAIN specs THEN specs[s] ELSE 0

\* The n instances of a specification seen so far took what is gone of its t reservations,
\* and only when nothing was left of these did one count as not reserved.
Balanced(acc, rs, s, n, t) ==
    /\ n + Total(acc.left, Of(rs, s)) = CountIn(acc.specs, s) + t
    /\ s \in DOMAIN acc.specs => \A k \in Of(rs, s) : acc.left[k] = 0

Ran(d, s) == IF d.state = "running" /\ Spec(d.thing) = s THEN 1 ELSE 0

LEMMA CountInNat == ASSUME NEW f \in Counts, NEW s PROVE CountIn(f, s) \in Nat
<1>1. PICK K \in SUBSET Specs : f \in [K -> Nat \ {0}]
  BY DEF Counts
<1> QED BY <1>1 DEF CountIn

\* An instance is either reserved or counted: the balance stays.
LEMMA ReserveBalanced ==
    ASSUME NEW m \in Nat, NEW rs, DOMAIN rs = 1 .. m, \A k \in 1 .. m : rs[k].thing \in Reservations,
           NEW acc \in Accs(m), NEW d, d.thing \in Instances,
           NEW s \in Specs, NEW n \in Nat, NEW t \in Nat, Balanced(acc, rs, s, n, t)
    PROVE  Balanced(Reserve(acc, d, rs), rs, s, n + Ran(d, s), t)
<1> DEFINE z == Spec(d.thing)
           new == Reserve(acc, d, rs)
<1>1. z \in Specs
  BY DEF Specs
<1>2. acc.specs \in Counts /\ acc.left \in [1 .. m -> Nat]
  BY DEF Accs
<1>3. Of(rs, s) \in SUBSET (1 .. m)
  BY DEF Of
<1>4. CountIn(acc.specs, s) \in Nat
  BY <1>2, CountInNat
<1>5. Ran(d, s) = IF d.state = "running" /\ z = s THEN 1 ELSE 0
  BY DEF Ran
<1> HIDE DEF z
<1>6. CASE d.state # "running"
  <2>1. new = acc
    BY <1>6, ReserveIs
  <2>2. n + Ran(d, s) = n
    BY <1>5, <1>6
  <2> HIDE DEF new
  <2> QED BY <2>1, <2>2 DEF new
<1>7. CASE d.state = "running" /\ (\E k \in Of(rs, z) : acc.left[k] # 0)
  <2>1. PICK k \in Of(rs, z) : acc.left[k] # 0 /\ new = [specs |-> acc.specs, left |-> Spend(acc.left, k)]
    BY <1>7, ReserveIs DEF z
  <2> HIDE DEF new
  <2>2. k \in 1 .. m /\ (k \in Of(rs, s) <=> z = s)
    BY <2>1 DEF Of
  <2>3. /\ Total(acc.left, Of(rs, s)) \in Nat
        /\ Total(new.left, Of(rs, s)) = Total(acc.left, Of(rs, s)) - (IF k \in Of(rs, s) THEN 1 ELSE 0)
    <3> DEFINE f == acc.left
    <3>1. f \in [1 .. m -> Nat] /\ new.left = Spend(f, k)
      BY <1>2, <2>1
    <3> HIDE DEF f
    <3>2. /\ Total(f, Of(rs, s)) \in Nat
          /\ Total(new.left, Of(rs, s)) = Total(f, Of(rs, s)) - (IF k \in Of(rs, s) THEN 1 ELSE 0)
      <4>1. /\ Total(f, Of(rs, s)) \in Nat
            /\ Total(Spend(f, k), Of(rs, s)) = Total(f, Of(rs, s)) - (IF k \in Of(rs, s) THEN 1 ELSE 0)
        BY <1>3, <2>2, <3>1, TotalTake
      <4> QED BY <3>1, <4>1
    <3> QED BY <3>2 DEF f
  <2>4. new.specs = acc.specs
    BY <2>1
  <2>5. n + Ran(d, s) + Total(new.left, Of(rs, s)) = CountIn(new.specs, s) + t
    <3>1. n + Total(acc.left, Of(rs, s)) = CountIn(acc.specs, s) + t
      BY DEF Balanced
    <3>2. Total(new.left, Of(rs, s)) = Total(acc.left, Of(rs, s)) - Ran(d, s) /\ Ran(d, s) \in Int
      BY <1>5, <1>7, <2>2, <2>3
    <3> QED BY <1>4, <2>3, <2>4, <3>1, <3>2
  <2>6. ASSUME s \in DOMAIN new.specs, NEW j \in Of(rs, s) PROVE new.left[j] = 0
    <3>1. acc.left[j] = 0
      BY <2>4, <2>6 DEF Balanced
    <3>2. j # k /\ j \in 1 .. m
      BY <1>3, <2>1, <3>1
    <3>3. new.left = Spend(acc.left, k)
      BY <2>1
    <3> QED BY <1>2, <3>1, <3>2, <3>3 DEF Spend
  <2> QED BY <2>5, <2>6 DEF Balanced, new
<1>8. CASE d.state = "running" /\ (\A k \in Of(rs, z) : acc.left[k] = 0)
  <2>1. new = [specs |-> AddUnreserved(acc.specs, z), left |-> acc.left]
    BY <1>8, ReserveIs DEF z
  <2> HIDE DEF new
  <2>2. new.left = acc.left /\ new.specs = AddUnreserved(acc.specs, z)
    BY <2>1
  <2>3. /\ DOMAIN new.specs = DOMAIN acc.specs \cup {z}
        /\ new.specs[z] = IF z \in DOMAIN acc.specs THEN acc.specs[z] + 1 ELSE 1
        /\ \A x \in DOMAIN acc.specs : x # z => new.specs[x] = acc.specs[x]
    <3> DEFINE f == acc.specs
    <3>1. f \in Counts /\ new.specs = AddUnreserved(f, z)
      BY <1>2, <2>2
    <3> HIDE DEF f
    <3>2. /\ DOMAIN new.specs = DOMAIN f \cup {z}
          /\ new.specs[z] = IF z \in DOMAIN f THEN f[z] + 1 ELSE 1
          /\ \A x \in DOMAIN f : x # z => new.specs[x] = f[x]
      <4>1. /\ DOMAIN AddUnreserved(f, z) = DOMAIN f \cup {z}
            /\ AddUnreserved(f, z)[z] = IF z \in DOMAIN f THEN f[z] + 1 ELSE 1
            /\ \A x \in DOMAIN f : x # z => AddUnreserved(f, z)[x] = f[x]
        BY <1>1, <3>1, AddUnreservedIs
      <4> QED BY <3>1, <4>1
    <3> QED BY <3>2 DEF f
  <2>4. CountIn(new.specs, s) = CountIn(acc.specs, s) + Ran(d, s)
    BY <1>4, <1>5, <1>8, <2>3 DEF CountIn
  <2>5. Total(acc.left, Of(rs, s)) \in Nat
    <3>1. IsFiniteSet(Of(rs, s))
      <4>1. IsFiniteSet(1 .. m)
        BY FS_Interval
      <4> QED BY <1>3, <4>1, FS_Subset
    <3>2. \A x \in Of(rs, s) : acc.left[x] \in Nat
      BY <1>2, <1>3
    <3> QED BY <3>1, <3>2, TotalNat
  <2>6. n + Ran(d, s) + Total(new.left, Of(rs, s)) = CountIn(new.specs, s) + t
    <3>1. n + Total(acc.left, Of(rs, s)) = CountIn(acc.specs, s) + t
      BY DEF Balanced
    <3>2. Ran(d, s) \in Int
      BY <1>5
    <3> QED BY <1>4, <2>2, <2>4, <2>5, <3>1, <3>2
  <2>7. s \in DOMAIN new.specs => \A j \in Of(rs, s) : new.left[j] = 0
    BY <1>8, <2>2, <2>3 DEF Balanced
  <2> QED BY <2>6, <2>7 DEF Balanced, new
<1> QED BY <1>6, <1>7, <1>8

\* What is not reserved is what runs beyond the reservations, whatever the order.
LEMMA UnreservedIs ==
    ASSUME NEW E, InstancesDocs(E), NEW R, ReservationDocs(R),
           NEW is \in SetToSeqs(E), NEW rs \in SetToSeqs(R)
    PROVE  /\ Unreserved(is, rs) \in Counts
           /\ \A s \in Specs :
                  /\ Cardinality(Running(E, s)) \in Nat /\ Capacity(R, s) \in Nat
                  /\ s \in DOMAIN Unreserved(is, rs) <=> Cardinality(Running(E, s)) > Capacity(R, s)
                  /\ s \in DOMAIN Unreserved(is, rs) =>
                         Unreserved(is, rs)[s] = Cardinality(Running(E, s)) - Capacity(R, s)
<1>1. IsFiniteSet(R) /\ IsFiniteSet(E) /\ (\A d \in R : d.thing \in Reservations) /\ \A d \in E : d.thing \in Instances
  BY DEF ReservationDocs, InstancesDocs
<1>2. PICK m \in Nat : DOMAIN rs = 1 .. m /\ \A i \in 1 .. m : rs[i] \in R
  BY <1>1, Enumerates
<1>3. PICK n \in Nat : /\ DOMAIN is = 1 .. n
                       /\ \A i \in 1 .. n : is[i] \in E
                       /\ \A i, j \in 1 .. n : is[i] = is[j] => i = j
                       /\ \A x \in E : \E i \in 1 .. n : is[i] = x
  BY <1>1, Enumerates
<1>4. (\A k \in 1 .. m : rs[k].thing \in Reservations) /\ \A k \in 1 .. n : is[k].thing \in Instances
  BY <1>1, <1>2, <1>3
<1>5. PICK F \in [0 .. n -> Accs(m)] : Reserves(F, n, is, rs)
  <2>1. DOMAIN rs = 1 .. m
    BY <1>2
  <2>2. DOMAIN is = 1 .. n
    BY <1>3
  <2>3. \A k \in 1 .. m : rs[k].thing \in Reservations
    BY <1>4
  <2>4. \A k \in 1 .. n : is[k].thing \in Instances
    BY <1>4
  <2> QED BY <2>1, <2>2, <2>3, <2>4, OneByOne
<1>6. Unreserved(is, rs) = F[n].specs
  BY <1>5, UnreservedAre DEF Reserves
<1>7. F[n].specs \in Counts /\ F[n].left \in [1 .. m -> Nat]
  BY <1>5 DEF Accs
<1>8. ASSUME NEW s \in Specs
      PROVE  /\ Cardinality(Running(E, s)) \in Nat /\ Capacity(R, s) \in Nat
             /\ s \in DOMAIN F[n].specs <=> Cardinality(Running(E, s)) > Capacity(R, s)
             /\ s \in DOMAIN F[n].specs => F[n].specs[s] = Cardinality(Running(E, s)) - Capacity(R, s)
  <2> DEFINE t == Total(Untaken(rs), Of(rs, s))
             Seen(k) == {is[j] : j \in 1 .. k}
             N(k) == Cardinality(Running(Seen(k), s))
             P == {k \in 0 .. n : IsFiniteSet(Seen(k)) /\ N(k) \in Nat /\ Balanced(F[k], rs, s, N(k), t)}
  <2>1. t = Capacity(R, s) /\ t \in Nat
    BY CapacityIsTotal
  <2> HIDE DEF t
  <2>2. 0 \in P
    <3>1. Seen(0) = {} /\ Running({}, s) = {}
      BY DEF Running
    <3>2. N(0) = 0 /\ IsFiniteSet(Seen(0))
      BY <3>1, FS_EmptySet
    <3>3. F[0].left = Untaken(rs) /\ F[0].specs = [x \in {} |-> 0]
      BY <1>5 DEF Reserves
    <3>4. CountIn(F[0].specs, s) = 0 /\ s \notin DOMAIN F[0].specs
      BY <3>3 DEF CountIn
    <3>5. Total(F[0].left, Of(rs, s)) = t
      BY <3>3 DEF t
    <3>6. Balanced(F[0], rs, s, 0, t)
      BY <2>1, <3>4, <3>5 DEF Balanced
    <3> QED BY <3>2, <3>6
  <2>3. ASSUME NEW k \in 1 .. n, k - 1 \in P PROVE k \in P
    <3>1. k \in 0 .. n /\ k - 1 \in 0 .. n /\ F[k - 1] \in Accs(m) /\ is[k].thing \in Instances
      BY <1>4, <1>5
    <3>2. Seen(k) = Seen(k - 1) \cup {is[k]} /\ is[k] \notin Seen(k - 1)
      <4>1. 1 .. k = (1 .. k - 1) \cup {k} /\ \A j \in 1 .. k - 1 : j # k /\ j \in 1 .. n
        OBVIOUS
      <4> QED BY <1>3, <4>1
    <3>3. IsFiniteSet(Seen(k - 1)) /\ N(k - 1) \in Nat /\ Balanced(F[k - 1], rs, s, N(k - 1), t)
      BY <2>3
    <3> HIDE DEF Seen
    <3>4. N(k) = N(k - 1) + Ran(is[k], s) /\ IsFiniteSet(Seen(k))
      BY <3>2, <3>3, RunningAdd, FS_AddElement DEF Ran
    <3>5. Ran(is[k], s) \in Nat
      BY DEF Ran
    <3> HIDE DEF N
    <3>6. Balanced(F[k], rs, s, N(k - 1) + Ran(is[k], s), t)
      <4>1. F[k] = Reserve(F[k - 1], is[k], rs)
        BY <1>5 DEF Reserves
      <4> QED BY <1>2, <1>4, <2>1, <3>1, <3>3, <4>1, ReserveBalanced
    <3>7. N(k) \in Nat /\ Balanced(F[k], rs, s, N(k), t)
      BY <3>3, <3>4, <3>5, <3>6
    <3> QED BY <3>1, <3>4, <3>7
  <2>4. n \in P
    <3> HIDE DEF P
    <3>1. 0 .. n \subseteq P
      BY <2>2, <2>3, UpTo
    <3> QED BY <3>1
  <2>5. Seen(n) = E
    BY <1>3
  <2>6. Cardinality(Running(E, s)) \in Nat /\ Balanced(F[n], rs, s, Cardinality(Running(E, s)), t)
    <3>1. N(n) = Cardinality(Running(E, s))
      BY <2>5
    <3> QED BY <2>4, <3>1
  <2> HIDE DEF P, N, Seen
  <2> DEFINE c == Cardinality(Running(E, s))
             l == Total(F[n].left, Of(rs, s))
  <2>7. c + l = CountIn(F[n].specs, s) + t /\ (s \in DOMAIN F[n].specs => \A k \in Of(rs, s) : F[n].left[k] = 0)
    BY <2>6 DEF Balanced
  <2>8. IsFiniteSet(Of(rs, s)) /\ Of(rs, s) \subseteq 1 .. m
    <3>1. IsFiniteSet(1 .. m) /\ Of(rs, s) \subseteq 1 .. m
      BY <1>2, FS_Interval DEF Of
    <3> QED BY <3>1, FS_Subset
  <2>9. l \in Nat
    <3>1. \A x \in Of(rs, s) : F[n].left[x] \in Nat
      BY <1>7, <2>8
    <3> QED BY <2>8, <3>1, TotalNat
  <2>10. s \in DOMAIN F[n].specs => l = 0 /\ F[n].specs[s] \in Nat \ {0} /\ CountIn(F[n].specs, s) = F[n].specs[s]
    <3>1. s \in DOMAIN F[n].specs => F[n].specs[s] \in Nat \ {0} /\ CountIn(F[n].specs, s) = F[n].specs[s]
      <4>1. PICK K \in SUBSET Specs : F[n].specs \in [K -> Nat \ {0}]
        BY <1>7 DEF Counts
      <4> QED BY <4>1 DEF CountIn
    <3>2. s \in DOMAIN F[n].specs => l = 0
      BY <2>7, <2>8, TotalZero
    <3> QED BY <3>1, <3>2
  <2>11. s \notin DOMAIN F[n].specs => CountIn(F[n].specs, s) = 0
    BY DEF CountIn
  <2> HIDE DEF c, l
  <2>12. /\ s \in DOMAIN F[n].specs <=> c > t
         /\ s \in DOMAIN F[n].specs => F[n].specs[s] = c - t
    <3>1. c \in Nat
      BY <2>6 DEF c
    <3>2. CASE s \in DOMAIN F[n].specs
      <4> DEFINE x == F[n].specs[s]
      <4>1. c + 0 = x + t /\ x \in Nat \ {0}
        BY <2>7, <2>10, <3>2
      <4> HIDE DEF x
      <4>2. c = x + t /\ c - t = x /\ c > t
        BY <2>1, <3>1, <4>1
      <4> QED BY <3>2, <4>2 DEF x
    <3>3. CASE s \notin DOMAIN F[n].specs
      <4>1. c + l = 0 + t
        BY <2>7, <2>11, <3>3
      <4>2. ~(c > t)
        BY <2>1, <2>9, <3>1, <4>1
      <4> QED BY <3>3, <4>2
    <3> QED BY <3>2, <3>3
  <2> QED BY <2>1, <2>6, <2>12 DEF c
<1> QED BY <1>6, <1>7, <1>8

-----------------------------------------------------------------------------
(* What is saved: sums over the lines of a report *)

TodayOf(S) == MapThenSumSet(LAMBDA l : l.onDemand, S)

\* The sums of a report are totals.
LEMMA TodayIsTotal ==
    ASSUME NEW S, IsFiniteSet(S), \A x \in S : {x.onDemand, x.oneYear, x.threeYears} \subseteq Nat
    PROVE  TodayOf(S) = Total([x \in S |-> x.onDemand], S)
<1> DEFINE f == [x \in S |-> x.onDemand]
           Sum(k) == [s \in SUBSET S |-> IF s = {} THEN 0
                         ELSE (CHOOSE x \in s : TRUE).onDemand + k[s \ {CHOOSE x \in s : TRUE}]]
           K == CHOOSE k : k = Sum(k)
<1>1. \A x \in S : f[x] = x.onDemand /\ f[x] \in Int
  OBVIOUS
<1>2. \A k : Sum(k) = [s \in SUBSET S |-> IF s = {} THEN 0
                          ELSE f[CHOOSE x \in s : TRUE] + k[s \ {CHOOSE x \in s : TRUE}]]
  <2>1. \A s \in SUBSET S : s # {} => f[CHOOSE x \in s : TRUE] = (CHOOSE x \in s : TRUE).onDemand
    BY <1>1
  <2> HIDE DEF f
  <2> QED BY <2>1
<1> HIDE DEF f
<1>3. PICK k : Sums(k, f, S)
  BY <1>1, SumExists
<1>4. K = Sum(K)
  <2> HIDE DEF Sum
  <2>1. k = Sum(k)
    BY <1>2, <1>3 DEF Sums
  <2> QED BY <2>1
<1>5. Total(f, S) = K[S]
  <2> HIDE DEF Sum, K
  <2>1. Sums(K, f, S)
    BY <1>2, <1>4 DEF Sums
  <2> QED BY <1>1, <2>1, TotalIs
<1>6. TodayOf(S) = K[S]
  BY DEF TodayOf, MapThenSumSet, MapThenFoldSet
<1> QED BY <1>5, <1>6 DEF f

YearOf(S) == MapThenSumSet(LAMBDA l : 12 * l.onDemand, S)

LEMMA YearIsTotal ==
    ASSUME NEW S, IsFiniteSet(S), \A x \in S : {x.onDemand, x.oneYear, x.threeYears} \subseteq Nat
    PROVE  YearOf(S) = Total([x \in S |-> 12 * x.onDemand], S)
<1> DEFINE f == [x \in S |-> 12 * x.onDemand]
           Sum(k) == [s \in SUBSET S |-> IF s = {} THEN 0
                         ELSE (12 * (CHOOSE x \in s : TRUE).onDemand) + k[s \ {CHOOSE x \in s : TRUE}]]
           K == CHOOSE k : k = Sum(k)
<1>1. \A x \in S : f[x] = 12 * x.onDemand /\ f[x] \in Int
  OBVIOUS
<1>2. \A k : Sum(k) = [s \in SUBSET S |-> IF s = {} THEN 0
                          ELSE f[CHOOSE x \in s : TRUE] + k[s \ {CHOOSE x \in s : TRUE}]]
  <2>1. \A s \in SUBSET S : s # {} => f[CHOOSE x \in s : TRUE] = 12 * (CHOOSE x \in s : TRUE).onDemand
    BY <1>1
  <2> HIDE DEF f
  <2> QED BY <2>1
<1> HIDE DEF f
<1>3. PICK k : Sums(k, f, S)
  BY <1>1, SumExists
<1>4. K = Sum(K)
  <2> HIDE DEF Sum
  <2>1. k = Sum(k)
    BY <1>2, <1>3 DEF Sums
  <2> QED BY <2>1
<1>5. Total(f, S) = K[S]
  <2> HIDE DEF Sum, K
  <2>1. Sums(K, f, S)
    BY <1>2, <1>4 DEF Sums
  <2> QED BY <1>1, <2>1, TotalIs
<1>6. YearOf(S) = K[S]
  BY DEF YearOf, MapThenSumSet, MapThenFoldSet
<1> QED BY <1>5, <1>6 DEF f

OneYearOf(S) == MapThenSumSet(LAMBDA l : 12 * l.onDemand - 12 * l.oneYear, S)

LEMMA OneYearIsTotal ==
    ASSUME NEW S, IsFiniteSet(S), \A x \in S : {x.onDemand, x.oneYear, x.threeYears} \subseteq Nat
    PROVE  OneYearOf(S) = Total([x \in S |-> 12 * x.onDemand - 12 * x.oneYear], S)
<1> DEFINE f == [x \in S |-> 12 * x.onDemand - 12 * x.oneYear]
           Sum(k) == [s \in SUBSET S |-> IF s = {} THEN 0
                         ELSE (12 * (CHOOSE x \in s : TRUE).onDemand - 12 * (CHOOSE x \in s : TRUE).oneYear) + k[s \ {CHOOSE x \in s : TRUE}]]
           K == CHOOSE k : k = Sum(k)
<1>1. \A x \in S : f[x] = 12 * x.onDemand - 12 * x.oneYear /\ f[x] \in Int
  OBVIOUS
<1>2. \A k : Sum(k) = [s \in SUBSET S |-> IF s = {} THEN 0
                          ELSE f[CHOOSE x \in s : TRUE] + k[s \ {CHOOSE x \in s : TRUE}]]
  <2>1. \A s \in SUBSET S : s # {} => f[CHOOSE x \in s : TRUE] = 12 * (CHOOSE x \in s : TRUE).onDemand - 12 * (CHOOSE x \in s : TRUE).oneYear
    BY <1>1
  <2> HIDE DEF f
  <2> QED BY <2>1
<1> HIDE DEF f
<1>3. PICK k : Sums(k, f, S)
  BY <1>1, SumExists
<1>4. K = Sum(K)
  <2> HIDE DEF Sum
  <2>1. k = Sum(k)
    BY <1>2, <1>3 DEF Sums
  <2> QED BY <2>1
<1>5. Total(f, S) = K[S]
  <2> HIDE DEF Sum, K
  <2>1. Sums(K, f, S)
    BY <1>2, <1>4 DEF Sums
  <2> QED BY <1>1, <2>1, TotalIs
<1>6. OneYearOf(S) = K[S]
  BY DEF OneYearOf, MapThenSumSet, MapThenFoldSet
<1> QED BY <1>5, <1>6 DEF f

ThreeYearsOf(S) == MapThenSumSet(LAMBDA l : 12 * l.onDemand - 12 * l.threeYears, S)

LEMMA ThreeYearsIsTotal ==
    ASSUME NEW S, IsFiniteSet(S), \A x \in S : {x.onDemand, x.oneYear, x.threeYears} \subseteq Nat
    PROVE  ThreeYearsOf(S) = Total([x \in S |-> 12 * x.onDemand - 12 * x.threeYears], S)
<1> DEFINE f == [x \in S |-> 12 * x.onDemand - 12 * x.threeYears]
           Sum(k) == [s \in SUBSET S |-> IF s = {} THEN 0
                         ELSE (12 * (CHOOSE x \in s : TRUE).onDemand - 12 * (CHOOSE x \in s : TRUE).threeYears) + k[s \ {CHOOSE x \in s : TRUE}]]
           K == CHOOSE k : k = Sum(k)
<1>1. \A x \in S : f[x] = 12 * x.onDemand - 12 * x.threeYears /\ f[x] \in Int
  OBVIOUS
<1>2. \A k : Sum(k) = [s \in SUBSET S |-> IF s = {} THEN 0
                          ELSE f[CHOOSE x \in s : TRUE] + k[s \ {CHOOSE x \in s : TRUE}]]
  <2>1. \A s \in SUBSET S : s # {} => f[CHOOSE x \in s : TRUE] = 12 * (CHOOSE x \in s : TRUE).onDemand - 12 * (CHOOSE x \in s : TRUE).threeYears
    BY <1>1
  <2> HIDE DEF f
  <2> QED BY <2>1
<1> HIDE DEF f
<1>3. PICK k : Sums(k, f, S)
  BY <1>1, SumExists
<1>4. K = Sum(K)
  <2> HIDE DEF Sum
  <2>1. k = Sum(k)
    BY <1>2, <1>3 DEF Sums
  <2> QED BY <2>1
<1>5. Total(f, S) = K[S]
  <2> HIDE DEF Sum, K
  <2>1. Sums(K, f, S)
    BY <1>2, <1>4 DEF Sums
  <2> QED BY <1>1, <2>1, TotalIs
<1>6. ThreeYearsOf(S) = K[S]
  BY DEF ThreeYearsOf, MapThenSumSet, MapThenFoldSet
<1> QED BY <1>5, <1>6 DEF f
\* The kinds of instance that have a price, and an offer.
PricedLines(specs)  == {Line(s, specs[s]) : s \in {x \in DOMAIN specs : PricingKey(x) \in DOMAIN pricing}}
OfferedLines(specs) == {l \in PricedLines(specs) : l.advised # None}

\* The parts of a report.
LEMMA ReportIs ==
    ASSUME NEW specs
    PROVE  Report(specs) =
               [run |-> run, lines |-> OfferedLines(specs),
                saving |-> [oneYear |-> OneYearOf(OfferedLines(specs)), threeYears |-> ThreeYearsOf(OfferedLines(specs))],
                onDemand |-> TodayOf(PricedLines(specs)), prices |-> pricing, hidden |-> job.hidden]
BY DEF Report, Saving, PricedLines, OfferedLines, OneYearOf, ThreeYearsOf, TodayOf

LEMMA ReservedCostTyped == ASSUME NEW i \in Items, NEW length PROVE ReservedCost(i, length) \in Nat \cup {NoTerm}
<1>1. \A t \in i.reserved : t.hourly \in Nat
  BY AdviceAssumption DEF Items
<1> DEFINE terms == {t \in i.reserved : StandardNoUpfront(t, length)}
<1>2. CASE terms = {}
  BY <1>2 DEF ReservedCost
<1>3. CASE terms # {}
  <2>1. (CHOOSE t \in terms : TRUE) \in terms
    BY <1>3
  <2> DEFINE t == CHOOSE t \in terms : TRUE
  <2>2. ReservedCost(i, length) = t.hourly
    BY <1>3 DEF ReservedCost
  <2> QED BY <1>1, <2>1, <2>2
<1> QED BY <1>2, <1>3

LEMMA MonthlyCostTyped == ASSUME NEW h \in Nat \cup {NoTerm}, NEW n \in Nat PROVE MonthlyCost(h) * n \in Nat
<1>1. MonthlyCost(h) \in Nat
  BY DEF MonthlyCost, NoTerm, HoursPerMonth
<1> DEFINE c == MonthlyCost(h)
<1>2. c \in Nat
  BY <1>1
<1> HIDE DEF c
<1>3. c * n \in Nat
  BY <1>2
<1> QED BY <1>3 DEF c

\* The parts of a line, whose costs are natural numbers.
LEMMA LineIs ==
    ASSUME pricing \in Priced, NEW s, PricingKey(s) \in DOMAIN pricing, NEW n \in Nat
    PROVE  /\ Line(s, n).spec = s /\ Line(s, n).count = n /\ Line(s, n).advised = Advised(s)
           /\ {Line(s, n).onDemand, Line(s, n).oneYear, Line(s, n).threeYears} \subseteq Nat
<1> DEFINE p == pricing[PricingKey(s)]
<1>1. PICK i \in Items : p = EC2Specs(i)
  <2>1. PICK K \in SUBSET Keys : pricing \in [K -> {EC2Specs(i) : i \in Items}]
    BY DEF Priced
  <2> QED BY <2>1
<1>2. i.onDemand \in Nat \cup {NoTerm}
  BY AdviceAssumption DEF Items
<1>3. /\ p.onDemand \in Nat \cup {NoTerm}
      /\ p.oneYear \in Nat \cup {NoTerm}
      /\ p.threeYears \in Nat \cup {NoTerm}
  BY <1>1, <1>2, ReservedCostTyped DEF EC2Specs
<1>4. Line(s, n) = [spec |-> s, count |-> n, advised |-> Advised(s), onDemand |-> MonthlyCost(p.onDemand) * n,
                    oneYear |-> MonthlyCost(p.oneYear) * n, threeYears |-> MonthlyCost(p.threeYears) * n]
  BY DEF Line
<1> HIDE DEF p
<1>5. /\ MonthlyCost(p.onDemand) * n \in Nat /\ MonthlyCost(p.oneYear) * n \in Nat
      /\ MonthlyCost(p.threeYears) * n \in Nat
  BY <1>3, MonthlyCostTyped
<1> QED BY <1>4, <1>5

LEMMA SpecsFinite == IsFiniteSet(Specs)
<1> DEFINE b == [i \in Instances |-> Spec(i)]
<1>1. IsFiniteSet(Instances)
  BY AdviceAssumption
<1>2. IsFiniteSet({b[i] : i \in Instances})
  <2> HIDE DEF b
  <2> QED BY <1>1, FiniteImage
<1>3. {b[i] : i \in Instances} = Specs
  BY DEF Specs
<1> QED BY <1>2, <1>3

\* A report has finitely many lines.
LEMMA LinesTyped ==
    ASSUME pricing \in Priced, NEW specs \in Counts
    PROVE  /\ IsFiniteSet(PricedLines(specs)) /\ IsFiniteSet(OfferedLines(specs))
           /\ OfferedLines(specs) \subseteq PricedLines(specs)
           /\ \A l \in PricedLines(specs) : {l.onDemand, l.oneYear, l.threeYears} \subseteq Nat
<1>1. PICK K \in SUBSET Specs : specs \in [K -> Nat \ {0}]
  BY DEF Counts
<1> DEFINE D == {x \in DOMAIN specs : PricingKey(x) \in DOMAIN pricing}
           b == [s \in D |-> Line(s, specs[s])]
<1>2. IsFiniteSet(D)
  <2>1. D \subseteq Specs
    BY <1>1
  <2> QED BY <2>1, SpecsFinite, FS_Subset
<1>3. {b[s] : s \in D} = PricedLines(specs)
  BY DEF PricedLines
<1>4. IsFiniteSet({b[s] : s \in D})
  <2> HIDE DEF b, D
  <2> QED BY <1>2, FiniteImage
<1>5. OfferedLines(specs) \subseteq PricedLines(specs)
  BY DEF OfferedLines
<1>6. ASSUME NEW l \in PricedLines(specs) PROVE {l.onDemand, l.oneYear, l.threeYears} \subseteq Nat
  <2>1. PICK s \in D : l = Line(s, specs[s])
    BY DEF PricedLines
  <2>2. specs[s] \in Nat /\ PricingKey(s) \in DOMAIN pricing
    BY <1>1, <2>1
  <2> QED BY <2>1, <2>2, LineIs
<1> QED BY <1>3, <1>4, <1>5, <1>6, FS_Subset

-----------------------------------------------------------------------------
(* The reports of a run, and the last advice *)

\* A report that counts, for each kind, the instances E that ran beyond the reservations R.
NoOfferFor(a, s) ==
    \/ PricingKey(s) \notin DOMAIN a.prices
    \/ /\ ~a.prices[PricingKey(s)].currentGeneration
       /\ s.type \notin DOMAIN PreviousToCurrentGeneration

OfToday(a, E, R) ==
    /\ \A l \in a.lines : l.count = Cardinality(Running(E, l.spec)) - Capacity(R, l.spec) /\ l.count > 0
    /\ \A d \in E : LET s == Spec(d.thing) IN
           Cardinality(Running(E, s)) > Capacity(R, s) => NoOfferFor(a, s) \/ \E l \in a.lines : l.spec = s

Today(a, E, R) == a.hidden \/ E = {} \/ R = {} \/ OfToday(a, E, R)

\* AdviceIsOfToday is about the last report and the documents of its run.
LEMMA TodaySays ==
    AdviceIsOfToday <=> (advice # None => Today(advice, reports["ec2"][advice.run], reports["riEc2"][advice.run]))
BY DEF AdviceIsOfToday, Today, OfToday, NoOffer, NoOfferFor

Possible(a) ==
    /\ a.saving.oneYear <= YearOf(a.lines) /\ a.saving.threeYears <= YearOf(a.lines)
    /\ YearOf(a.lines) <= 12 * a.onDemand
    /\ a.lines # {} /\ a.saving.threeYears = YearOf(a.lines) => \A l \in a.lines : l.threeYears = 0

\* SavingIsPossible is about the last report alone.
LEMMA PossibleSays == SavingIsPossible <=> (advice # None => Possible(advice))
BY DEF SavingIsPossible, Possible, YearOf

\* The saving of what is not reserved.
LEMMA ReportPossible ==
    ASSUME pricing \in Priced, NEW specs \in Counts
    PROVE  Possible(Report(specs))
<1> DEFINE all == PricedLines(specs)
           some == OfferedLines(specs)
           rep == Report(specs)
<1>1. /\ rep.lines = some /\ rep.onDemand = TodayOf(all)
      /\ rep.saving.oneYear = OneYearOf(some) /\ rep.saving.threeYears = ThreeYearsOf(some)
  BY ReportIs
<1>2. /\ IsFiniteSet(all) /\ IsFiniteSet(some) /\ some \subseteq all
      /\ \A l \in all : {l.onDemand, l.oneYear, l.threeYears} \subseteq Nat
  BY LinesTyped
<1> HIDE DEF rep, all, some
<1>3. \A l \in some : {l.onDemand, l.oneYear, l.threeYears} \subseteq Nat
  BY <1>2
<1> DEFINE f0 == [l \in all |-> l.onDemand]
           f1 == [l \in some |-> 12 * l.onDemand]
           f2 == [l \in some |-> 12 * l.onDemand - 12 * l.oneYear]
           f3 == [l \in some |-> 12 * l.onDemand - 12 * l.threeYears]
<1>4. /\ TodayOf(all) = Total(f0, all) /\ YearOf(some) = Total(f1, some)
      /\ OneYearOf(some) = Total(f2, some) /\ ThreeYearsOf(some) = Total(f3, some)
  BY <1>2, <1>3, TodayIsTotal, YearIsTotal, OneYearIsTotal, ThreeYearsIsTotal
<1>5. /\ \A l \in all : f0[l] = l.onDemand /\ f0[l] \in Nat
      /\ \A l \in some : /\ f1[l] \in Int /\ f2[l] \in Int /\ f3[l] \in Int
                         /\ f2[l] <= f1[l] /\ f3[l] <= f1[l]
                         /\ f3[l] = f1[l] => l.threeYears = 0
                         /\ f0[l] \in Int /\ f1[l] = 12 * f0[l]
  BY <1>2, <1>3
<1> HIDE DEF f0, f1, f2, f3
<1>6. Total(f2, some) <= Total(f1, some) /\ Total(f3, some) <= Total(f1, some)
  BY <1>2, <1>5, TotalLe
<1>7. ASSUME Total(f3, some) = Total(f1, some), NEW l \in some PROVE l.threeYears = 0
  <2>1. \A x \in some : f3[x] \in Int /\ f1[x] \in Int /\ f3[x] <= f1[x]
    BY <1>5
  <2>2. f3[l] = f1[l]
    BY <1>2, <1>7, <2>1, TotalTight
  <2> QED BY <1>5, <2>2
<1>8. Total(f1, some) = 12 * Total(f0, some) /\ Total(f0, some) \in Int
  <2>1. \A l \in some : f0[l] \in Int /\ f1[l] = 12 * f0[l]
    BY <1>5
  <2> QED BY <1>2, <2>1, TotalTwelve
<1>9. Total(f0, all) = Total(f0, some) + Total(f0, all \ some) /\ Total(f0, all \ some) \in Nat
  <2>1. \A l \in all : f0[l] \in Int
    BY <1>5
  <2>2. IsFiniteSet(all \ some) /\ \A l \in all \ some : f0[l] \in Nat
    BY <1>2, <1>5, FS_Subset
  <2>3. Total(f0, all) = Total(f0, some) + Total(f0, all \ some)
    BY <1>2, <2>1, TotalSplit
  <2> QED BY <2>2, <2>3, TotalNat
<1>10. Total(f1, some) <= 12 * Total(f0, all)
  <2> DEFINE x == Total(f0, some)
             y == Total(f0, all \ some)
  <2>1. Total(f1, some) = 12 * x /\ x \in Int /\ y \in Nat /\ Total(f0, all) = x + y
    BY <1>8, <1>9
  <2> HIDE DEF x, y
  <2> QED BY <2>1
<1> QED BY <1>1, <1>4, <1>6, <1>7, <1>10 DEF Possible, rep

\* What is counted, and what may be left out.
LEMMA ReportOfToday ==
    ASSUME pricing \in Priced, NEW E, InstancesDocs(E), NEW R, ReservationDocs(R),
           NEW is \in SetToSeqs(E), NEW rs \in SetToSeqs(R)
    PROVE  OfToday(Report(Unreserved(is, rs)), E, R)
<1> DEFINE specs == Unreserved(is, rs)
           rep == Report(specs)
<1>1. specs \in Counts
  BY UnreservedIs
<1>2. ASSUME NEW s \in Specs
      PROVE  /\ s \in DOMAIN specs <=> Cardinality(Running(E, s)) > Capacity(R, s)
             /\ s \in DOMAIN specs => specs[s] = Cardinality(Running(E, s)) - Capacity(R, s)
  BY UnreservedIs
<1> HIDE DEF specs
<1>3. rep.lines = OfferedLines(specs) /\ rep.prices = pricing
  BY ReportIs
<1>4. DOMAIN specs \subseteq Specs /\ \A s \in DOMAIN specs : specs[s] \in Nat \ {0}
  <2>1. PICK K \in SUBSET Specs : specs \in [K -> Nat \ {0}]
    BY <1>1 DEF Counts
  <2> QED BY <2>1
<1> HIDE DEF rep
<1>5. ASSUME NEW l \in rep.lines
      PROVE  l.count = Cardinality(Running(E, l.spec)) - Capacity(R, l.spec) /\ l.count > 0
  <2>1. l \in PricedLines(specs)
    BY <1>3, <1>5 DEF OfferedLines
  <2>2. PICK s \in DOMAIN specs : PricingKey(s) \in DOMAIN pricing /\ l = Line(s, specs[s])
    BY <2>1 DEF PricedLines
  <2>3. l.spec = s /\ l.count = specs[s]
    BY <1>4, <2>2, LineIs
  <2>4. specs[s] = Cardinality(Running(E, s)) - Capacity(R, s) /\ specs[s] > 0
    BY <1>2, <1>4, <2>2
  <2> QED BY <2>3, <2>4
<1>6. ASSUME NEW d \in E, Cardinality(Running(E, Spec(d.thing))) > Capacity(R, Spec(d.thing))
      PROVE  NoOfferFor(rep, Spec(d.thing)) \/ \E l \in rep.lines : l.spec = Spec(d.thing)
  <2> DEFINE s == Spec(d.thing)
  <2>1. d.thing \in Instances
    BY DEF InstancesDocs
  <2>2. s \in Specs /\ s.type = d.thing.type
    BY <2>1 DEF Specs, Spec
  <2>3. s.type # None
    BY <2>1, <2>2, AdviceAssumption
  <2>4. s \in DOMAIN specs
    BY <1>2, <1>6, <2>2
  <2> HIDE DEF s
  <2>5. CASE PricingKey(s) \notin DOMAIN pricing
    BY <1>3, <2>5 DEF NoOfferFor, s
  <2>6. CASE PricingKey(s) \in DOMAIN pricing /\ Advised(s) # None
    <3> DEFINE l == Line(s, specs[s])
    <3>1. l \in PricedLines(specs) /\ l.spec = s /\ l.advised = Advised(s)
      <4>1. specs[s] \in Nat
        BY <1>4, <2>4
      <4>2. l.spec = s /\ l.advised = Advised(s)
        BY <2>6, <4>1, LineIs
      <4> QED BY <2>4, <2>6, <4>2 DEF PricedLines
    <3> HIDE DEF l
    <3>2. l \in rep.lines
      BY <1>3, <2>6, <3>1 DEF OfferedLines
    <3> QED BY <3>1, <3>2 DEF s
  <2>7. CASE PricingKey(s) \in DOMAIN pricing /\ Advised(s) = None
    <3>1. ~ pricing[PricingKey(s)].currentGeneration
      BY <2>3, <2>7 DEF Advised
    <3>2. s.type \notin DOMAIN PreviousToCurrentGeneration
      BY <2>7, <3>1, AdviceAssumption DEF Advised
    <3> QED BY <1>3, <3>1, <3>2 DEF NoOfferFor, s
  <2> QED BY <2>5, <2>6, <2>7
<1> QED BY <1>5, <1>6 DEF OfToday, rep, specs

\* The documents of the reports of a kind.
Docs(kind, D) == IF kind = "ec2" THEN InstancesDocs(D) ELSE ReservationDocs(D)

\* No run writes another's reports.
ReportsInv ==
    \A kind \in ReportKinds, n \in Runs : /\ Docs(kind, reports[kind][n])
                                          /\ n > run => reports[kind][n] = {}

\* What a run has read is what it wrote, when a search found that.
HasRead(j, r, kind) ==
    /\ Docs(kind, j[kind])
    /\ ~ j.hidden /\ r[kind] # {} => j[kind] = r[kind]

OwnReports == [kind \in ReportKinds |-> reports[kind][run]]

ReadsInv ==
    /\ job.at \in {"importInstances", "importReservations", "getReservations"} => job = [at |-> job.at]
    /\ job.at = "getInstances" => DOMAIN job = {"at", "riEc2", "hidden"} /\ HasRead(job, OwnReports, "riEc2")
    /\ job.at = "advise" => HasRead(job, OwnReports, "riEc2") /\ HasRead(job, OwnReports, "ec2")

\* The last report is of a run that is over.
LastInv == advice # None => advice.run \in 1 .. run /\ (job # NoJob => advice.run < run)

AdviceInv == advice # None =>
    /\ Today(advice, reports["ec2"][advice.run], reports["riEc2"][advice.run])
    /\ Possible(advice)

TodayInv ==
    /\ MadeInv /\ PricingInv
    /\ month \in Nat \ {0} /\ ReportsInv /\ ReadsInv /\ LastInv /\ AdviceInv

LEMMA InitToday == Init => TodayInv
<1> SUFFICES ASSUME Init PROVE TodayInv
  OBVIOUS
<1>1. MadeInv /\ PricingInv
  BY InitMade, InitPricing
<1>2. reports = [kind \in ReportKinds |-> [n \in Runs |-> {}]] /\ month = 1 /\ job = NoJob /\ advice = None
  BY DEF Init, ReportKinds
<1>3. \A kind \in ReportKinds : Docs(kind, {})
  BY FS_EmptySet DEF Docs, InstancesDocs, ReservationDocs
<1>4. ReportsInv
  BY <1>2, <1>3 DEF ReportsInv
<1>5. month \in Nat \ {0} /\ ReadsInv /\ LastInv /\ AdviceInv
  BY <1>2 DEF ReadsInv, LastInv, AdviceInv, NoJob
<1> QED BY <1>1, <1>4, <1>5 DEF TodayInv

\* What nobody touches stays right.
LEMMA AdviceKept ==
    ASSUME AdviceInv, UNCHANGED advice,
           advice # None => \A kind \in ReportKinds : reports'[kind][advice.run] = reports[kind][advice.run]
    PROVE  AdviceInv'
BY DEF AdviceInv, ReportKinds

\* What a run has read stays, or the run is over.
LEMMA ReadsKept ==
    ASSUME ReadsInv, UNCHANGED <<reports, run>>, job' = job \/ job' = NoJob
    PROVE  ReadsInv'
BY DEF ReadsInv, HasRead, OwnReports, NoJob

\* The calendar, AWS, fetch-pricings, and a run that gives up.
LEMMA TodayKept ==
    ASSUME TodayInv, MadeInv', PricingInv', UNCHANGED <<reports, run, advice>>, month' \in Nat \ {0},
           job' = job \/ job' = NoJob
    PROVE  TodayInv'
<1>1. ReadsInv' /\ AdviceInv'
  BY ReadsKept, AdviceKept DEF TodayInv
<1>2. ReportsInv' /\ LastInv'
  BY DEF TodayInv, ReportsInv, LastInv
<1> QED BY <1>1, <1>2 DEF TodayInv

\* A new run is after that of the last report, and has written nothing.
LEMMA StartRunToday == ASSUME TodayInv, MadeInv', PricingInv', StartRun PROVE TodayInv'
<1>1. UNCHANGED <<reports, advice, month>> /\ run' = run + 1 /\ job' = [at |-> "importInstances"]
  BY DEF StartRun, elastic
<1>2. run \in Nat /\ job = NoJob
  BY AdviceAssumption DEF TodayInv, MadeInv, RunsInv, StartRun
<1>3. ReadsInv'
  BY <1>1 DEF ReadsInv
<1>4. ReportsInv'
  <2>1. \A n \in Runs : n \in Nat
    BY RunsAre
  <2> QED BY <1>1, <1>2, <2>1 DEF TodayInv, ReportsInv
<1>5. LastInv'
  BY <1>1, <1>2 DEF TodayInv, LastInv
<1>6. AdviceInv'
  BY <1>1, AdviceKept DEF TodayInv
<1> QED BY <1>1, <1>3, <1>4, <1>5, <1>6 DEF TodayInv

\* A run writes no reports but its own, and so none that the last advice was made of.
LEMMA ImportToday ==
    ASSUME TodayInv, MadeInv', PricingInv', job # NoJob, NEW kind \in ReportKinds, NEW new, Docs(kind, new),
           NEW next \in {"importReservations", "getReservations"}, Import(kind, new, next)
    PROVE  TodayInv'
<1>1. UNCHANGED <<run, advice, month>> /\ reports' = [reports EXCEPT ![kind][run] = new] /\ job' = [at |-> next]
  BY DEF Import
<1>2. run \in Runs
  BY DEF TodayInv, MadeInv, RunsInv
<1>3. ASSUME NEW k \in ReportKinds, NEW n \in Runs
      PROVE  reports'[k][n] = IF k = kind /\ n = run THEN new ELSE reports[k][n]
  BY <1>1, <1>2 DEF TodayInv, MadeInv, ReportsTyped, ReportKinds
<1>4. ReportsInv'
  <2>1. \A n \in Runs : n \in Nat
    BY RunsAre
  <2> QED BY <1>1, <1>2, <1>3, <2>1 DEF TodayInv, ReportsInv
<1>5. ReadsInv'
  BY <1>1 DEF ReadsInv
<1>6. LastInv'
  BY <1>1 DEF TodayInv, LastInv
<1>7. AdviceInv'
  <2>1. advice # None => advice.run \in Runs /\ advice.run # run
    BY <1>2, RunsAre, AdviceAssumption DEF TodayInv, LastInv
  <2> QED BY <1>1, <1>3, <2>1, AdviceKept DEF TodayInv
<1> QED BY <1>1, <1>4, <1>5, <1>6, <1>7 DEF TodayInv

\* Documents of things that there are.
LEMMA ListedDocs ==
    /\ Docs("ec2", Listed(Instances, fleet)) /\ Docs("riEc2", Listed(Reservations, book))
    /\ Docs("ec2", {}) /\ Docs("riEc2", {})
<1>1. ASSUME NEW S, IsFiniteSet(S), NEW state
      PROVE  IsFiniteSet(Listed(S, state)) /\ \A d \in Listed(S, state) : d.thing \in S
  <2> DEFINE T == {x \in S : state[x] # None}
             b == [x \in T |-> [thing |-> x, state |-> state[x]]]
  <2>1. IsFiniteSet(T)
    BY <1>1, FS_Subset
  <2>2. IsFiniteSet({b[x] : x \in T})
    <3> HIDE DEF b, T
    <3> QED BY <2>1, FiniteImage
  <2>3. Listed(S, state) = {b[x] : x \in T}
    BY DEF Listed
  <2>4. \A d \in Listed(S, state) : d.thing \in S
    BY DEF Listed
  <2> QED BY <2>2, <2>3, <2>4
<1>2. IsFiniteSet(Instances) /\ IsFiniteSet(Reservations)
  BY AdviceAssumption
<1> QED BY <1>1, <1>2, FS_EmptySet DEF Docs, InstancesDocs, ReservationDocs

LEMMA ImportReportToday ==
    ASSUME TodayInv, MadeInv', PricingInv', ImportInstances \/ ImportReservations PROVE TodayInv'
<1>1. CASE ImportInstances
  <2>1. /\ job # NoJob
        /\ \/ Import("ec2", Listed(Instances, fleet), "importReservations")
           \/ Import("ec2", {}, "importReservations")
    BY <1>1 DEF ImportInstances, ImportReport, NoJob
  <2> QED BY <2>1, ListedDocs, ImportToday DEF ReportKinds
<1>2. CASE ImportReservations
  <2>1. /\ job # NoJob
        /\ \/ Import("riEc2", Listed(Reservations, book), "getReservations")
           \/ Import("riEc2", {}, "getReservations")
    BY <1>2 DEF ImportReservations, ImportReport, NoJob
  <2> QED BY <2>1, ListedDocs, ImportToday DEF ReportKinds
<1> QED BY <1>1, <1>2

-----------------------------------------------------------------------------
\* A search that finds the report of a run gives its documents.
LEMMA LastOfIs ==
    ASSUME TodayInv, run \in Runs, NEW kind \in ReportKinds
    PROVE  /\ Docs(kind, LastOf(kind))
           /\ month <= run /\ <<kind, run>> \notin unseen /\ reports[kind][run] # {} =>
                  LastOf(kind) = reports[kind][run]
<1>1. MaxRuns \in Nat /\ run \in 1 .. MaxRuns /\ month \in Nat \ {0}
  BY RunsAre, AdviceAssumption DEF TodayInv
<1>2. Found(kind) \in SUBSET (1 .. MaxRuns) /\ \A n \in Found(kind) : n <= run
  <2>1. \A n \in month .. MaxRuns : n \in 1 .. MaxRuns
    BY <1>1
  <2>2. ASSUME NEW n \in Found(kind) PROVE n <= run
    <3>1. n \in 1 .. MaxRuns /\ reports[kind][n] # {}
      BY <2>1 DEF Found
    <3> QED BY <1>1, <3>1, RunsAre DEF TodayInv, ReportsInv
  <2> QED BY <2>1, <2>2 DEF Found
<1>3. Docs(kind, {})
  BY FS_EmptySet DEF Docs, InstancesDocs, ReservationDocs
<1>4. Found(kind) # {} => Max(Found(kind)) \in Found(kind)
  BY <1>1, <1>2, MaxIn
<1>5. Docs(kind, LastOf(kind))
  BY <1>2, <1>3, <1>4, RunsAre DEF LastOf, TodayInv, ReportsInv
<1>6. ASSUME month <= run, <<kind, run>> \notin unseen, reports[kind][run] # {} PROVE LastOf(kind) = reports[kind][run]
  <2>1. run \in Found(kind)
    BY <1>1, <1>6 DEF Found
  <2>2. \A n \in Found(kind) : run >= n
    BY <1>1, <1>2
  <2>3. Max(Found(kind)) = run
    <3>1. \A x \in Found(kind) : (\A y \in Found(kind) : x >= y) => x = run
      BY <1>1, <1>2, <2>1
    <3>2. Max(Found(kind)) \in Found(kind) /\ \A y \in Found(kind) : Max(Found(kind)) >= y
      BY <2>1, <2>2 DEF Max
    <3> QED BY <3>1, <3>2
  <2> QED BY <2>1, <2>3 DEF LastOf
<1> QED BY <1>5, <1>6

\* The first report, then the second.
LEMMA ReadToday ==
    ASSUME TodayInv, MadeInv', PricingInv', NEW kind \in ReportKinds, NEW next, Read(kind, next),
           UNCHANGED <<reports, run, advice, month>>, job # NoJob,
           \/ kind = "riEc2" /\ next = "getInstances" /\ job.at = "getReservations"
           \/ kind = "ec2" /\ next = "advise" /\ job.at = "getInstances"
    PROVE  TodayInv'
<1>1. run \in Runs /\ run \in Int /\ month \in Int
  BY RunsAre DEF TodayInv, MadeInv, RunsInv
<1> DEFINE hides == ("hidden" \in DOMAIN job /\ job.hidden) \/ <<kind, run>> \in unseen \/ month > run
<1>2. /\ Docs(kind, LastOf(kind))
      /\ ~ hides /\ reports[kind][run] # {} => LastOf(kind) = reports[kind][run]
  BY <1>1, LastOfIs
<1>3. job' = [x \in DOMAIN job \cup {kind, "hidden"} |->
                 CASE x = "at" -> next [] x = kind -> LastOf(kind) [] x = "hidden" -> hides [] OTHER -> job[x]]
  BY DEF Read
<1>4. "hidden" \in DOMAIN job /\ job.hidden => hides
  OBVIOUS
<1> HIDE DEF hides
<1>5. OwnReports' = OwnReports
  BY DEF OwnReports
<1>6. OwnReports[kind] = reports[kind][run]
  BY DEF OwnReports
<1>7. ASSUME kind = "riEc2", next = "getInstances", job.at = "getReservations" PROVE ReadsInv'
  <2>1. job = [at |-> "getReservations"]
    BY <1>7 DEF TodayInv, ReadsInv
  <2>2. /\ DOMAIN job' = {"at", "riEc2", "hidden"} /\ job'.at = "getInstances"
        /\ job'.riEc2 = LastOf("riEc2") /\ job'.hidden = hides
    BY <1>3, <1>7, <2>1
  <2>3. HasRead(job', OwnReports, "riEc2")
    BY <1>2, <1>6, <1>7, <2>2 DEF HasRead
  <2> QED BY <1>5, <2>2, <2>3 DEF ReadsInv
<1>8. ASSUME kind = "ec2", next = "advise", job.at = "getInstances" PROVE ReadsInv'
  <2>1. DOMAIN job = {"at", "riEc2", "hidden"} /\ HasRead(job, OwnReports, "riEc2")
    BY <1>8 DEF TodayInv, ReadsInv
  <2>2. job'.at = "advise" /\ job'.ec2 = LastOf("ec2") /\ job'.hidden = hides /\ job'.riEc2 = job.riEc2
    BY <1>3, <1>8, <2>1
  <2>3. HasRead(job', OwnReports, "ec2")
    BY <1>2, <1>6, <1>8, <2>2 DEF HasRead
  <2>4. HasRead(job', OwnReports, "riEc2")
    BY <1>4, <2>1, <2>2 DEF HasRead
  <2> QED BY <1>5, <2>2, <2>3, <2>4 DEF ReadsInv
<1>9. ReadsInv'
  BY <1>7, <1>8
<1>10. AdviceInv'
  BY AdviceKept DEF TodayInv
<1>11. ReportsInv' /\ LastInv'
  BY DEF TodayInv, ReportsInv, LastInv
<1> QED BY <1>9, <1>10, <1>11 DEF TodayInv

LEMMA GetToday ==
    ASSUME TodayInv, MadeInv', PricingInv', GetRIReport \/ GetEC2Report PROVE TodayInv'
<1>1. CASE UNCHANGED <<reports, run, advice, month>> /\ job' = NoJob
  BY <1>1, TodayKept DEF TodayInv
<1>2. CASE GetRIReport
  BY <1>1, <1>2, ReadToday DEF GetRIReport, GetReport, GiveUp, elastic, NoJob, ReportKinds
<1>3. CASE GetEC2Report
  BY <1>1, <1>3, ReadToday DEF GetEC2Report, GetReport, GiveUp, elastic, NoJob, ReportKinds
<1> QED BY <1>2, <1>3

\* A report is made of what was read, and of the prices there are.
LEMMA AdviseToday == ASSUME TodayInv, MadeInv', PricingInv', Advise PROVE TodayInv'
<1>1. CASE pricing = None /\ GiveUp
  BY <1>1, TodayKept DEF TodayInv, GiveUp, elastic
<1>2. CASE /\ pricing # None
           /\ \E is \in SetToSeqs(job.ec2), rs \in SetToSeqs(job.riEc2) : advice' = Report(Unreserved(is, rs))
           /\ job' = NoJob /\ UNCHANGED <<elastic, month, run>>
  <2>1. PICK is \in SetToSeqs(job.ec2), rs \in SetToSeqs(job.riEc2) : advice' = Report(Unreserved(is, rs))
    BY <1>2
  <2>2. UNCHANGED <<reports, month, run>> /\ job' = NoJob /\ pricing \in Priced
    BY <1>2 DEF elastic, TodayInv, PricingInv
  <2>3. job.at = "advise" /\ HasRead(job, OwnReports, "riEc2") /\ HasRead(job, OwnReports, "ec2")
    BY DEF Advise, TodayInv, ReadsInv
  <2>4. InstancesDocs(job.ec2) /\ ReservationDocs(job.riEc2)
    BY <2>3 DEF HasRead, Docs
  <2>5. Unreserved(is, rs) \in Counts
    BY <2>1, <2>4, UnreservedIs
  <2>6. OfToday(advice', job.ec2, job.riEc2)
    BY <2>1, <2>2, <2>4, ReportOfToday
  <2>7. Possible(advice')
    BY <2>1, <2>2, <2>5, ReportPossible
  <2>8. advice'.run = run /\ advice'.hidden = job.hidden
    BY <2>1, ReportIs
  <2>9. OwnReports["ec2"] = reports["ec2"][run] /\ OwnReports["riEc2"] = reports["riEc2"][run]
    BY DEF OwnReports, ReportKinds
  <2>10. Today(advice', reports["ec2"][run], reports["riEc2"][run])
    BY <2>3, <2>6, <2>8, <2>9 DEF Today, HasRead
  <2>11. AdviceInv'
    BY <2>2, <2>7, <2>8, <2>10 DEF AdviceInv
  <2>12. LastInv'
    <3>1. run \in 1 .. run
      <4>1. run \in Runs
        BY <2>3 DEF TodayInv, MadeInv, RunsInv, NoJob
      <4> QED BY <4>1, RunsAre
    <3> QED BY <2>2, <2>8, <3>1 DEF LastInv
  <2>13. ReadsInv' /\ ReportsInv'
    BY <2>2, ReadsKept DEF TodayInv, ReportsInv
  <2> QED BY <2>2, <2>11, <2>12, <2>13 DEF TodayInv
<1> QED BY <1>1, <1>2 DEF Advise

\* Every step keeps TodayInv.
LEMMA StepToday == TodayInv /\ [Next]_vars => TodayInv'
<1> SUFFICES ASSUME TodayInv, [Next]_vars PROVE TodayInv'
  OBVIOUS
<1>0. MadeInv' /\ PricingInv'
  BY StepMade, StepPricing DEF TodayInv
<1>1. CASE StartFetch \/ FetchRegion \/ SavePricing \/ FetchFails \/ Refresh \/ ChangeInstance \/ ChangeReservation
           \/ ChangePrices \/ UNCHANGED vars
  BY <1>0, <1>1, TodayKept DEF TodayInv, StartFetch, FetchRegion, SavePricing, FetchFails, Refresh, ChangeInstance,
     ChangeReservation, ChangePrices, vars, cloud, elastic, processes, prices
<1>2. CASE MonthEnds
  <2>1. run \in Nat
    BY AdviceAssumption DEF TodayInv, MadeInv, RunsInv
  <2>2. UNCHANGED <<reports, run, advice, job>> /\ month' = run + 1
    BY <1>2 DEF MonthEnds, elastic
  <2> QED BY <1>0, <2>1, <2>2, TodayKept
<1>3. CASE StartRun
  BY <1>0, <1>3, StartRunToday
<1>4. CASE ImportInstances \/ ImportReservations
  BY <1>0, <1>4, ImportReportToday
<1>5. CASE GetRIReport \/ GetEC2Report
  BY <1>0, <1>5, GetToday
<1>6. CASE RunFails
  BY <1>0, <1>6, TodayKept DEF RunFails, GiveUp, TodayInv, elastic
<1>7. CASE Advise
  BY <1>0, <1>7, AdviseToday
<1> QED BY <1>1, <1>2, <1>3, <1>4, <1>5, <1>6, <1>7 DEF Next

\* A report counts, for each kind of instance, those that ran beyond the reservations when its
\* run asked AWS, however many there are and in whatever order ElasticSearch answered, and
\* leaves out only the kinds without an offer (getUnreservedInstances, calculateCosts).
THEOREM AdviceOfToday == AdviceSpec => []AdviceIsOfToday
<1>1. TodayInv => AdviceIsOfToday
  BY TodaySays DEF TodayInv, AdviceInv
<1> QED BY <1>1, InitToday, StepToday, PTL DEF AdviceSpec

\* The saving of a report is never more than a year of what its instances cost today, and all
\* of it only where a term is not sold (calculateCosts, getMonthlyCostPerUnit).
THEOREM SavingPossible == AdviceSpec => []SavingIsPossible
<1>1. TodayInv => SavingIsPossible
  BY PossibleSays DEF TodayInv, AdviceInv
<1> QED BY <1>1, InitToday, StepToday, PTL DEF AdviceSpec
=============================================================================
