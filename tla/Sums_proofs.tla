------------------------------ MODULE Sums_proofs ------------------------------
(***************************************************************************)
(* Laws of SumFunction and SumFunctionOnSet, which the specifications use  *)
(* for totals over actors and records.  Induction is by well-founded       *)
(* minimality (WFMin): the least natural of a set of counterexamples.      *)
(***************************************************************************)
EXTENDS Integers, Sequences, FiniteSets, Functions, Folds, FiniteSetTheorems,
        WellFoundedInduction, TLAPS

\* A non-empty set of naturals has a least element.
LEMMA Least ==
    ASSUME NEW T, T \subseteq Nat, T # {}
    PROVE  \E n \in T : \A m \in T : n <= m
<1> DEFINE R == OpToRel(<, Nat)
<1>1. IsWellFoundedOn(R, Nat)
  BY NatLessThanWellFounded
<1>2. \A x, y \in Nat : y < x => <<y, x>> \in R
  BY DEF OpToRel
<1> HIDE DEF R
<1>3. PICK n \in T : \A m \in T : ~ (<<m, n>> \in R)
  BY <1>1, WFMin
<1>4. ASSUME NEW m \in T PROVE n <= m
  <2>1. n \in Nat /\ m \in Nat /\ ~ (m < n)
    BY <1>2, <1>3
  <2> QED
    BY <2>1
<1> QED
  BY <1>4

\* A set that holds a set whenever it holds all its proper subsets holds
\* every subset of a finite set.
LEMMA SubsetInduction ==
    ASSUME NEW S, IsFiniteSet(S), NEW G,
           \A s \in SUBSET S : (\A t \in SUBSET s : t # s => t \in G) => s \in G
    PROVE  SUBSET S \subseteq G
<1> SUFFICES ASSUME NEW r \in SUBSET S, r \notin G PROVE FALSE
  OBVIOUS
<1> DEFINE T == {Cardinality(s) : s \in (SUBSET S) \ G}
<1>1. \A s \in SUBSET S : IsFiniteSet(s) /\ Cardinality(s) \in Nat
  BY FS_Subset, FS_CardinalityType
<1>2. T \subseteq Nat /\ T # {}
  BY <1>1
<1>3. PICK n \in T : \A m \in T : n <= m
  <2> HIDE DEF T
  <2> QED
    BY <1>2, Least
<1>4. PICK s \in (SUBSET S) \ G : n = Cardinality(s)
  BY <1>3
<1>5. ASSUME NEW t \in SUBSET s, t # s PROVE t \in G
  <2>1. t \in SUBSET S /\ Cardinality(t) <= n /\ Cardinality(t) # n
    BY <1>1, <1>4, <1>5, FS_Subset
  <2>2. SUFFICES ASSUME t \notin G PROVE FALSE
    OBVIOUS
  <2>3. n <= Cardinality(t)
    BY <1>3, <2>1, <2>2
  <2>4. n \in Nat /\ Cardinality(t) \in Nat
    BY <1>1, <1>4, <2>1
  <2> QED
    BY <2>1, <2>3, <2>4
<1> QED
  BY <1>4, <1>5

-----------------------------------------------------------------------------
(* The recursion behind the sums *)

Pick(s) == CHOOSE x \in s : TRUE

\* One level of the recursive function that SumFunctionOnSet(f, S) unfolds to.
Body(f, D, g) == [s \in D |-> IF s = {} THEN 0 ELSE f[Pick(s)] + g[s \ {Pick(s)}]]
Rec(f, S) == CHOOSE g : g = Body(f, SUBSET S, g)

LEMMA SumIsRec ==
    ASSUME NEW f, NEW S
    PROVE  SumFunctionOnSet(f, S) = Rec(f, S)[S]
BY DEF SumFunctionOnSet, FoldFunctionOnSet, MapThenFoldSet, Rec, Body, Pick

LEMMA PickIn == ASSUME NEW s, s # {} PROVE Pick(s) \in s
BY DEF Pick

\* The subsets of S with at most n elements.
Upto(S, n) == {s \in SUBSET S : Cardinality(s) <= n}

LEMMA RecExists ==
    ASSUME NEW f, NEW S, IsFiniteSet(S)
    PROVE  \E g : g = Body(f, SUBSET S, g)
<1>1. \A s \in SUBSET S : IsFiniteSet(s) /\ Cardinality(s) \in Nat
  BY FS_Subset, FS_CardinalityType
<1> DEFINE T == {n \in Nat : ~ \E g : g = Body(f, Upto(S, n), g)}
<1>2. T = {}
  <2> SUFFICES ASSUME T # {} PROVE FALSE
    OBVIOUS
  <2>1. PICK n \in T : \A m \in T : n <= m
    <3>1. T \subseteq Nat
      OBVIOUS
    <3> HIDE DEF T
    <3> QED
      BY <3>1, Least
  <2>2. CASE n = 0
    <3> DEFINE g == [s \in Upto(S, 0) |-> 0]
    <3>1. \A s \in Upto(S, 0) : s = {}
      BY <1>1, FS_EmptySet DEF Upto
    <3>2. g = Body(f, Upto(S, 0), g)
      BY <3>1 DEF Body
    <3> QED
      BY <2>1, <2>2, <3>2
  <2>3. CASE n # 0
    <3>1. n - 1 \in Nat /\ n - 1 \notin T
      BY <2>1, <2>3
    <3>2. PICK h : h = Body(f, Upto(S, n - 1), h)
      BY <3>1
    <3> DEFINE g == Body(f, Upto(S, n), h)
    <3>3. ASSUME NEW s \in Upto(S, n), s # {} PROVE g[s \ {Pick(s)}] = h[s \ {Pick(s)}]
      <4> DEFINE t == s \ {Pick(s)}
      <4>1. s \in SUBSET S /\ Cardinality(s) <= n /\ n \in Nat
        BY <2>1 DEF Upto
      <4>2. Cardinality(t) = Cardinality(s) - 1
        BY <1>1, <3>3, <4>1, PickIn, FS_RemoveElement
      <4>3. t \in Upto(S, n - 1) /\ t \in Upto(S, n)
        BY <1>1, <4>1, <4>2 DEF Upto
      <4>4. g[t] = IF t = {} THEN 0 ELSE f[Pick(t)] + h[t \ {Pick(t)}]
        BY <4>3 DEF Body
      <4>5. h[t] = IF t = {} THEN 0 ELSE f[Pick(t)] + h[t \ {Pick(t)}]
        <5> HIDE DEF t
        <5>1. h[t] = Body(f, Upto(S, n - 1), h)[t]
          BY <3>2
        <5> QED
          BY <4>3, <5>1 DEF Body
      <4> QED
        BY <4>4, <4>5
    <3>4. g = Body(f, Upto(S, n), g)
      BY <3>3 DEF Body
    <3> QED
      BY <2>1, <3>4
  <2> QED
    BY <2>2, <2>3
<1>3. Cardinality(S) \in Nat
  BY FS_CardinalityType
<1>4. Upto(S, Cardinality(S)) = SUBSET S
  BY FS_Subset DEF Upto
<1>5. PICK g : g = Body(f, Upto(S, Cardinality(S)), g)
  BY <1>2, <1>3
<1> QED
  BY <1>4, <1>5

LEMMA RecUnfold ==
    ASSUME NEW f, NEW S, IsFiniteSet(S), NEW s \in SUBSET S
    PROVE  Rec(f, S)[s] = IF s = {} THEN 0 ELSE f[Pick(s)] + Rec(f, S)[s \ {Pick(s)}]
<1>1. Rec(f, S) = Body(f, SUBSET S, Rec(f, S))
  BY RecExists DEF Rec
<1>2. Rec(f, S)[s] = Body(f, SUBSET S, Rec(f, S))[s]
  BY <1>1
<1> QED
  BY <1>2 DEF Body

\* A sum depends on the values of the function on its set only.
LEMMA RecSame ==
    ASSUME NEW f, NEW g, NEW S, NEW R, IsFiniteSet(S), IsFiniteSet(R),
           NEW q, q \subseteq S, q \subseteq R, \A x \in q : f[x] = g[x]
    PROVE  Rec(f, S)[q] = Rec(g, R)[q]
<1>1. IsFiniteSet(q)
  BY FS_Subset
<1> DEFINE G == {s \in SUBSET q : Rec(f, S)[s] = Rec(g, R)[s]}
<1>2. ASSUME NEW s \in SUBSET q, \A t \in SUBSET s : t # s => t \in G PROVE s \in G
  <2>1. /\ Rec(f, S)[s] = IF s = {} THEN 0 ELSE f[Pick(s)] + Rec(f, S)[s \ {Pick(s)}]
        /\ Rec(g, R)[s] = IF s = {} THEN 0 ELSE g[Pick(s)] + Rec(g, R)[s \ {Pick(s)}]
    BY RecUnfold
  <2>2. CASE s = {}
    BY <2>1, <2>2
  <2>3. CASE s # {}
    <3>1. Pick(s) \in s
      BY <2>3, PickIn
    <3>2. s \ {Pick(s)} \in G
      BY <1>2, <3>1
    <3>3. f[Pick(s)] = g[Pick(s)]
      BY <3>1
    <3> QED
      BY <2>1, <2>3, <3>2, <3>3
  <2> QED
    BY <2>2, <2>3
<1>3. SUBSET q \subseteq G
  <2> HIDE DEF G
  <2> QED
    BY <1>1, <1>2, SubsetInduction
<1> QED
  BY <1>3

-----------------------------------------------------------------------------
(* Sums *)

\* A sum over the empty set is 0; any other is one value plus the rest.
LEMMA SumUnfold ==
    ASSUME NEW f, NEW S, IsFiniteSet(S)
    PROVE  SumFunctionOnSet(f, S) =
             IF S = {} THEN 0 ELSE f[Pick(S)] + SumFunctionOnSet(f, S \ {Pick(S)})
<1>1. Rec(f, S)[S] = IF S = {} THEN 0 ELSE f[Pick(S)] + Rec(f, S)[S \ {Pick(S)}]
  BY RecUnfold
<1> DEFINE R == S \ {Pick(S)}
<1>2. IsFiniteSet(R) /\ R \subseteq S
  BY FS_RemoveElement
<1>3. Rec(f, S)[R] = Rec(f, R)[R]
  <2> HIDE DEF R
  <2> QED
    BY <1>2, RecSame
<1> QED
  BY <1>1, <1>3, SumIsRec

LEMMA SumEmpty == ASSUME NEW f PROVE SumFunctionOnSet(f, {}) = 0
BY SumUnfold, FS_EmptySet

\* A sum depends on the values on its set only.
LEMMA SumSame ==
    ASSUME NEW f, NEW g, NEW S, IsFiniteSet(S), \A x \in S : f[x] = g[x]
    PROVE  SumFunctionOnSet(f, S) = SumFunctionOnSet(g, S)
BY SumIsRec, RecSame

LEMMA SumInt ==
    ASSUME NEW f, NEW S, IsFiniteSet(S), \A x \in S : f[x] \in Int
    PROVE  SumFunctionOnSet(f, S) \in Int
<1> DEFINE G == {s \in SUBSET S : SumFunctionOnSet(f, s) \in Int}
<1>1. ASSUME NEW s \in SUBSET S, \A t \in SUBSET s : t # s => t \in G PROVE s \in G
  <2>1. /\ SumFunctionOnSet(f, s) =
             IF s = {} THEN 0 ELSE f[Pick(s)] + SumFunctionOnSet(f, s \ {Pick(s)})
    BY FS_Subset, SumUnfold
  <2>2. CASE s = {}
    BY <2>1, <2>2
  <2>3. CASE s # {}
    <3>1. Pick(s) \in s /\ s \ {Pick(s)} \in G
      BY <1>1, <2>3, PickIn
    <3> QED
      BY <2>1, <2>3, <3>1
  <2> QED
    BY <2>2, <2>3
<1>2. SUBSET S \subseteq G
  <2> HIDE DEF G
  <2> QED
    BY <1>1, SubsetInduction
<1> QED
  BY <1>2

LEMMA SumNat ==
    ASSUME NEW f, NEW S, IsFiniteSet(S), \A x \in S : f[x] \in Nat
    PROVE  SumFunctionOnSet(f, S) \in Nat
<1> DEFINE G == {s \in SUBSET S : SumFunctionOnSet(f, s) \in Nat}
<1>1. ASSUME NEW s \in SUBSET S, \A t \in SUBSET s : t # s => t \in G PROVE s \in G
  <2>1. /\ SumFunctionOnSet(f, s) =
             IF s = {} THEN 0 ELSE f[Pick(s)] + SumFunctionOnSet(f, s \ {Pick(s)})
    BY FS_Subset, SumUnfold
  <2>2. CASE s = {}
    BY <2>1, <2>2
  <2>3. CASE s # {}
    <3>1. Pick(s) \in s /\ s \ {Pick(s)} \in G
      BY <1>1, <2>3, PickIn
    <3> QED
      BY <2>1, <2>3, <3>1
  <2> QED
    BY <2>2, <2>3
<1>2. SUBSET S \subseteq G
  <2> HIDE DEF G
  <2> QED
    BY <1>1, SubsetInduction
<1> QED
  BY <1>2

\* Any element may be the one that is taken out.
LEMMA SumRemove ==
    ASSUME NEW f, NEW S, IsFiniteSet(S), \A y \in S : f[y] \in Int, NEW x \in S
    PROVE  SumFunctionOnSet(f, S) = f[x] + SumFunctionOnSet(f, S \ {x})
<1> DEFINE G == {s \in SUBSET S : \A y \in s :
                    SumFunctionOnSet(f, s) = f[y] + SumFunctionOnSet(f, s \ {y})}
<1>1. ASSUME NEW s \in SUBSET S, \A t \in SUBSET s : t # s => t \in G PROVE s \in G
  <2> SUFFICES ASSUME NEW y \in s
               PROVE  SumFunctionOnSet(f, s) = f[y] + SumFunctionOnSet(f, s \ {y})
    OBVIOUS
  <2> DEFINE p == Pick(s)
  <2>1. p \in s /\ SumFunctionOnSet(f, s) = f[p] + SumFunctionOnSet(f, s \ {p})
    BY FS_Subset, SumUnfold, PickIn
  <2>2. CASE y = p
    BY <2>1, <2>2
  <2>3. CASE y # p
    <3>1. SumFunctionOnSet(f, s \ {p}) = f[y] + SumFunctionOnSet(f, (s \ {p}) \ {y})
      BY <1>1, <2>1, <2>3
    <3>2. SumFunctionOnSet(f, s \ {y}) = f[p] + SumFunctionOnSet(f, (s \ {y}) \ {p})
      BY <1>1, <2>1, <2>3
    <3>3. (s \ {p}) \ {y} = (s \ {y}) \ {p}
      OBVIOUS
    <3>4. SumFunctionOnSet(f, (s \ {y}) \ {p}) \in Int
      BY FS_Subset, SumInt
    <3>5. f[p] \in Int /\ f[y] \in Int
      BY <2>1
    <3>6. \A a, b, c \in Int : a + (b + c) = b + (a + c)
      OBVIOUS
    <3>7. /\ SumFunctionOnSet(f, s) = f[p] + (f[y] + SumFunctionOnSet(f, (s \ {y}) \ {p}))
          /\ SumFunctionOnSet(f, s \ {y}) = f[p] + SumFunctionOnSet(f, (s \ {y}) \ {p})
      BY <2>1, <3>1, <3>2, <3>3
    <3> HIDE DEF p
    <3> QED
      BY <3>4, <3>5, <3>6, <3>7
  <2> QED
    BY <2>2, <2>3
<1>2. SUBSET S \subseteq G
  <2> HIDE DEF G
  <2> QED
    BY <1>1, SubsetInduction
<1> QED
  BY <1>2

\* Changing one value changes the sum by as much.
LEMMA SumChange ==
    ASSUME NEW f, NEW g, NEW S, IsFiniteSet(S), NEW x \in S,
           \A y \in S : f[y] \in Int, g[x] \in Int,
           \A y \in S : y # x => g[y] = f[y]
    PROVE  SumFunctionOnSet(g, S) = SumFunctionOnSet(f, S) - f[x] + g[x]
<1> DEFINE R == S \ {x}
<1>1. IsFiniteSet(R) /\ (\A y \in R : f[y] = g[y] /\ f[y] \in Int)
  BY FS_RemoveElement
<1>2. /\ SumFunctionOnSet(f, S) = f[x] + SumFunctionOnSet(f, R)
      /\ SumFunctionOnSet(g, S) = g[x] + SumFunctionOnSet(g, R)
  <2>1. \A y \in S : g[y] \in Int
    OBVIOUS
  <2> QED
    BY <2>1, SumRemove
<1> HIDE DEF R
<1>3. SumFunctionOnSet(f, R) = SumFunctionOnSet(g, R) /\ SumFunctionOnSet(f, R) \in Int
  BY <1>1, SumSame, SumInt
<1> QED
  BY <1>2, <1>3

\* The sum of a sequence grows by what is appended.
LEMMA SumAppend ==
    ASSUME NEW q \in Seq(Int), NEW x \in Int
    PROVE  SumFunction(Append(q, x)) = SumFunction(q) + x /\ SumFunction(q) \in Int
<1> DEFINE n == Len(q)
           r == Append(q, x)
<1>1. /\ n \in Nat /\ DOMAIN q = 1 .. n /\ DOMAIN r = 1 .. n + 1
      /\ \A i \in 1 .. n : r[i] = q[i] /\ q[i] \in Int
      /\ r[n + 1] = x
  OBVIOUS
<1> HIDE DEF n, r
<1>2. IsFiniteSet(1 .. n) /\ IsFiniteSet(1 .. n + 1)
  <2>1. n \in Int /\ n + 1 \in Int /\ 1 \in Int
    BY <1>1
  <2> QED
    BY <2>1, FS_Interval
<1>3. n + 1 \in 1 .. n + 1 /\ (1 .. n + 1) \ {n + 1} = 1 .. n
  BY <1>1
<1>4. \A i \in 1 .. n + 1 : r[i] \in Int
  BY <1>1
<1>5. SumFunctionOnSet(r, 1 .. n + 1) = r[n + 1] + SumFunctionOnSet(r, (1 .. n + 1) \ {n + 1})
  <2> DEFINE D == 1 .. n + 1
             last == n + 1
  <2>1. IsFiniteSet(D) /\ last \in D /\ \A i \in D : r[i] \in Int
    BY <1>2, <1>3, <1>4
  <2> HIDE DEF D, last
  <2>2. SumFunctionOnSet(r, D) = r[last] + SumFunctionOnSet(r, D \ {last})
    BY <2>1, SumRemove
  <2> QED
    BY <2>2 DEF D, last
<1>6. SumFunctionOnSet(r, 1 .. n) = SumFunctionOnSet(q, 1 .. n)
  <2> DEFINE D == 1 .. n
  <2>1. IsFiniteSet(D) /\ \A i \in D : r[i] = q[i]
    BY <1>1, <1>2
  <2> HIDE DEF D
  <2>2. SumFunctionOnSet(r, D) = SumFunctionOnSet(q, D)
    BY <2>1, SumSame
  <2> QED
    BY <2>2 DEF D
<1>7. SumFunctionOnSet(q, 1 .. n) \in Int
  <2> DEFINE D == 1 .. n
  <2>1. IsFiniteSet(D) /\ \A i \in D : q[i] \in Int
    BY <1>1, <1>2
  <2> HIDE DEF D
  <2>2. SumFunctionOnSet(q, D) \in Int
    BY <2>1, SumInt
  <2> QED
    BY <2>2 DEF D
<1>8. SumFunction(r) = SumFunctionOnSet(r, 1 .. n + 1) /\ SumFunction(q) = SumFunctionOnSet(q, 1 .. n)
  BY <1>1 DEF SumFunction
<1>9. SumFunction(r) = SumFunction(q) + x /\ SumFunction(q) \in Int
  <2>1. SumFunction(r) = x + SumFunctionOnSet(r, 1 .. n)
    BY <1>1, <1>3, <1>5, <1>8
  <2>2. SumFunction(r) = x + SumFunction(q) /\ SumFunction(q) \in Int
    BY <1>6, <1>7, <1>8, <2>1
  <2> QED
    BY <2>2
<1> QED
  BY <1>9 DEF r

\* Sums over disjoint sets add up.
LEMMA SumSplit ==
    ASSUME NEW f, NEW S, IsFiniteSet(S), \A x \in S : f[x] \in Int, NEW A \in SUBSET S
    PROVE  SumFunctionOnSet(f, S) = SumFunctionOnSet(f, A) + SumFunctionOnSet(f, S \ A)
<1> DEFINE G == {s \in SUBSET A :
                    SumFunctionOnSet(f, S) = SumFunctionOnSet(f, s) + SumFunctionOnSet(f, S \ s)}
<1>1. ASSUME NEW s \in SUBSET A, \A t \in SUBSET s : t # s => t \in G PROVE s \in G
  <2>1. CASE s = {}
    <3>1. SumFunctionOnSet(f, s) = 0 /\ S \ s = S /\ SumFunctionOnSet(f, S) \in Int
      BY <2>1, SumEmpty, SumInt
    <3> QED
      BY <3>1
  <2>2. CASE s # {}
    <3>1. PICK x \in s : TRUE
      BY <2>2
    <3> DEFINE t == s \ {x}
               R == S \ t
    <3>2. /\ IsFiniteSet(s) /\ IsFiniteSet(R) /\ IsFiniteSet(t) /\ x \in R /\ t \in G
          /\ (\A y \in s : f[y] \in Int) /\ (\A y \in R : f[y] \in Int)
          /\ R \ {x} = S \ s /\ IsFiniteSet(S \ s) /\ f[x] \in Int
      BY <1>1, <3>1, FS_Subset
    <3>3. SumFunctionOnSet(f, S) = SumFunctionOnSet(f, t) + SumFunctionOnSet(f, R)
      BY <3>2
    <3>4. SumFunctionOnSet(f, s) = f[x] + SumFunctionOnSet(f, t)
      BY <3>1, <3>2, SumRemove
    <3>5. SumFunctionOnSet(f, R) = f[x] + SumFunctionOnSet(f, S \ s)
      <4> HIDE DEF R
      <4>1. SumFunctionOnSet(f, R) = f[x] + SumFunctionOnSet(f, R \ {x})
        BY <3>2, SumRemove
      <4> QED
        BY <3>2, <4>1
    <3>6. SumFunctionOnSet(f, t) \in Int /\ SumFunctionOnSet(f, S \ s) \in Int
      BY <3>2, SumInt
    <3> HIDE DEF t, R
    <3>7. SumFunctionOnSet(f, S) = SumFunctionOnSet(f, s) + SumFunctionOnSet(f, S \ s)
      BY <3>2, <3>3, <3>4, <3>5, <3>6
    <3> QED
      BY <3>7
  <2> QED
    BY <2>1, <2>2
<1>2. IsFiniteSet(A)
  BY FS_Subset
<1>3. SUBSET A \subseteq G
  <2> HIDE DEF G
  <2> QED
    BY <1>1, <1>2, SubsetInduction
<1> QED
  BY <1>3

\* Values that are 0 may be left out.
LEMMA SumZeros ==
    ASSUME NEW f, NEW S, IsFiniteSet(S), \A x \in S : f[x] = 0
    PROVE  SumFunctionOnSet(f, S) = 0
<1> DEFINE G == {s \in SUBSET S : SumFunctionOnSet(f, s) = 0}
<1>1. ASSUME NEW s \in SUBSET S, \A t \in SUBSET s : t # s => t \in G PROVE s \in G
  <2>1. SumFunctionOnSet(f, s) =
          IF s = {} THEN 0 ELSE f[Pick(s)] + SumFunctionOnSet(f, s \ {Pick(s)})
    BY FS_Subset, SumUnfold
  <2>2. s # {} => Pick(s) \in s /\ s \ {Pick(s)} \in G
    BY <1>1, PickIn
  <2> QED
    BY <2>1, <2>2
<1>2. SUBSET S \subseteq G
  <2> HIDE DEF G
  <2> QED
    BY <1>1, SubsetInduction
<1> QED
  BY <1>2

LEMMA SumWithin ==
    ASSUME NEW f, NEW g, NEW S, IsFiniteSet(S), NEW A \in SUBSET S,
           \A x \in A : f[x] \in Int /\ g[x] = f[x],
           \A x \in S \ A : g[x] = 0
    PROVE  SumFunctionOnSet(g, S) = SumFunctionOnSet(f, A)
<1>1. IsFiniteSet(A) /\ IsFiniteSet(S \ A) /\ \A x \in S : g[x] \in Int
  BY FS_Subset
<1>2. SumFunctionOnSet(g, S) = SumFunctionOnSet(g, A) + SumFunctionOnSet(g, S \ A)
  BY <1>1, SumSplit
<1>3. SumFunctionOnSet(g, S \ A) = 0
  BY <1>1, SumZeros
<1>4. SumFunctionOnSet(g, A) = SumFunctionOnSet(f, A) /\ SumFunctionOnSet(g, A) \in Int
  BY <1>1, SumSame, SumInt
<1> QED
  BY <1>2, <1>3, <1>4

\* The sum of two functions is the sum of their sums.
LEMMA SumAdd ==
    ASSUME NEW f, NEW g, NEW h, NEW S, IsFiniteSet(S),
           \A x \in S : f[x] \in Int /\ g[x] \in Int /\ h[x] = f[x] + g[x]
    PROVE  SumFunctionOnSet(h, S) = SumFunctionOnSet(f, S) + SumFunctionOnSet(g, S)
<1> DEFINE G == {s \in SUBSET S :
                  SumFunctionOnSet(h, s) = SumFunctionOnSet(f, s) + SumFunctionOnSet(g, s)}
<1>1. ASSUME NEW s \in SUBSET S, \A t \in SUBSET s : t # s => t \in G PROVE s \in G
  <2>1. IsFiniteSet(s)
    BY FS_Subset
  <2>2. CASE s = {}
    BY <2>2, SumEmpty
  <2>3. CASE s # {}
    <3>1. PICK x \in s : s \ {x} \in G
      BY <1>1, <2>3
    <3> DEFINE t == s \ {x}
    <3>2. IsFiniteSet(t) /\ \A y \in t : f[y] \in Int /\ g[y] \in Int
      BY <2>1, FS_Subset
    <3>3. /\ SumFunctionOnSet(f, s) = f[x] + SumFunctionOnSet(f, t)
          /\ SumFunctionOnSet(g, s) = g[x] + SumFunctionOnSet(g, t)
          /\ SumFunctionOnSet(h, s) = h[x] + SumFunctionOnSet(h, t)
      <4>1. \A y \in s : f[y] \in Int /\ g[y] \in Int /\ h[y] \in Int
        OBVIOUS
      <4> QED
        BY <2>1, <4>1, SumRemove
    <3>4. SumFunctionOnSet(h, t) = SumFunctionOnSet(f, t) + SumFunctionOnSet(g, t)
      BY <3>1
    <3>5. /\ SumFunctionOnSet(f, t) \in Int /\ SumFunctionOnSet(g, t) \in Int
          /\ f[x] \in Int /\ g[x] \in Int /\ h[x] = f[x] + g[x]
      BY <3>2, SumInt
    <3> HIDE DEF t
    <3>6. SumFunctionOnSet(h, s) = SumFunctionOnSet(f, s) + SumFunctionOnSet(g, s)
      BY <3>3, <3>4, <3>5
    <3> QED
      BY <3>6
  <2> QED
    BY <2>2, <2>3
<1>2. SUBSET S \subseteq G
  <2> HIDE DEF G
  <2> QED
    BY <1>1, SubsetInduction
<1> QED
  BY <1>2

\* What holds of every value, up to two factors, holds of the sums.
LEMMA SumScaled ==
    ASSUME NEW f, NEW g, NEW a \in Nat, NEW b \in Nat, NEW S, IsFiniteSet(S),
           \A x \in S : f[x] \in Int /\ g[x] \in Int /\ a * f[x] <= b * g[x]
    PROVE  a * SumFunctionOnSet(f, S) <= b * SumFunctionOnSet(g, S)
<1> DEFINE G == {s \in SUBSET S : a * SumFunctionOnSet(f, s) <= b * SumFunctionOnSet(g, s)}
<1>1. ASSUME NEW s \in SUBSET S, \A t \in SUBSET s : t # s => t \in G PROVE s \in G
  <2>1. IsFiniteSet(s)
    BY FS_Subset
  <2>2. CASE s = {}
    <3>1. SumFunctionOnSet(f, s) = 0 /\ SumFunctionOnSet(g, s) = 0
      BY <2>2, SumEmpty
    <3> QED
      BY <3>1
  <2>3. CASE s # {}
    <3>1. PICK x \in s : s \ {x} \in G
      BY <1>1, <2>3
    <3> DEFINE t == s \ {x}
    <3>2. IsFiniteSet(t) /\ \A y \in t : f[y] \in Int /\ g[y] \in Int
      BY <2>1, FS_Subset
    <3>3. /\ SumFunctionOnSet(f, s) = f[x] + SumFunctionOnSet(f, t)
          /\ SumFunctionOnSet(g, s) = g[x] + SumFunctionOnSet(g, t)
      <4>1. \A y \in s : f[y] \in Int /\ g[y] \in Int
        OBVIOUS
      <4> QED
        BY <2>1, <4>1, SumRemove
    <3>4. a * SumFunctionOnSet(f, t) <= b * SumFunctionOnSet(g, t)
      BY <3>1
    <3>5. /\ SumFunctionOnSet(f, t) \in Int /\ SumFunctionOnSet(g, t) \in Int
          /\ f[x] \in Int /\ g[x] \in Int /\ a * f[x] <= b * g[x]
      BY <3>2, SumInt
    <3> HIDE DEF t
    <3>6. a * SumFunctionOnSet(f, s) <= b * SumFunctionOnSet(g, s)
      <4>1. \A x1, y1, x2, y2 \in Int :
               a * x1 <= b * y1 /\ a * x2 <= b * y2 => a * (x1 + x2) <= b * (y1 + y2)
        OBVIOUS
      <4> QED
        BY <3>3, <3>4, <3>5, <4>1
    <3> QED
      BY <3>6
  <2> QED
    BY <2>2, <2>3
<1>2. SUBSET S \subseteq G
  <2> HIDE DEF G
  <2> QED
    BY <1>1, SubsetInduction
<1> QED
  BY <1>2

LEMMA SumTimes ==
    ASSUME NEW f, NEW g, NEW k \in Nat, NEW S, IsFiniteSet(S),
           \A x \in S : f[x] \in Int /\ g[x] = k * f[x]
    PROVE  SumFunctionOnSet(g, S) = k * SumFunctionOnSet(f, S)
<1>1. \A x \in S : g[x] \in Int /\ 1 * g[x] <= k * f[x] /\ k * f[x] <= 1 * g[x]
  OBVIOUS
<1>2. /\ 1 * SumFunctionOnSet(g, S) <= k * SumFunctionOnSet(f, S)
      /\ k * SumFunctionOnSet(f, S) <= 1 * SumFunctionOnSet(g, S)
  BY <1>1, SumScaled
<1>3. SumFunctionOnSet(g, S) \in Int /\ k * SumFunctionOnSet(f, S) \in Int
  <2>1. SumFunctionOnSet(f, S) \in Int /\ SumFunctionOnSet(g, S) \in Int
    BY <1>1, SumInt
  <2> QED
    BY <2>1
<1>4. \A x, y \in Int : 1 * x <= y /\ y <= 1 * x => x = y
  OBVIOUS
<1> QED
  BY <1>2, <1>3, <1>4

\* A sum of naturals over a part is at most the sum over the whole, and at
\* least any one of its values.
LEMMA SumPart ==
    ASSUME NEW f, NEW S, IsFiniteSet(S), \A x \in S : f[x] \in Nat, NEW A \in SUBSET S
    PROVE  /\ SumFunctionOnSet(f, A) \in Nat /\ SumFunctionOnSet(f, S) \in Nat
           /\ SumFunctionOnSet(f, A) <= SumFunctionOnSet(f, S)
<1>1. IsFiniteSet(A) /\ IsFiniteSet(S \ A)
  BY FS_Subset
<1>2. SumFunctionOnSet(f, S) = SumFunctionOnSet(f, A) + SumFunctionOnSet(f, S \ A)
  BY SumSplit
<1>3. SumFunctionOnSet(f, A) \in Nat /\ SumFunctionOnSet(f, S \ A) \in Nat
  BY <1>1, SumNat
<1> QED
  BY <1>2, <1>3

LEMMA SumOne ==
    ASSUME NEW f, NEW x, f[x] \in Int
    PROVE  SumFunctionOnSet(f, {x}) = f[x]
<1>1. IsFiniteSet({x}) /\ {x} \ {x} = {}
  BY FS_Singleton
<1>2. SumFunctionOnSet(f, {x}) = f[x] + SumFunctionOnSet(f, {x} \ {x})
  BY <1>1, SumRemove
<1> QED
  BY <1>1, <1>2, SumEmpty

\* The elements of S that key maps to i.
Fibre(key, S, i) == {x \in S : key[x] = i}

\* A sum taken apart by the values of key: the sums over its fibres add up.
LEMMA SumFibres ==
    ASSUME NEW f, NEW F, NEW key, NEW S, IsFiniteSet(S), \A x \in S : f[x] \in Int,
           NEW I, IsFiniteSet(I), \A x \in S : key[x] \in I,
           \A i \in I : F[i] = SumFunctionOnSet(f, Fibre(key, S, i))
    PROVE  SumFunctionOnSet(F, I) = SumFunctionOnSet(f, S)
<1> DEFINE Over(s) == {x \in S : key[x] \in s}
           G == {s \in SUBSET I : SumFunctionOnSet(F, s) = SumFunctionOnSet(f, Over(s))}
<1>1. ASSUME NEW s \in SUBSET I, \A t \in SUBSET s : t # s => t \in G PROVE s \in G
  <2>1. IsFiniteSet(s)
    BY FS_Subset
  <2>2. CASE s = {}
    <3>1. Over(s) = {}
      BY <2>2
    <3> QED
      BY <2>2, <3>1, SumEmpty
  <2>3. CASE s # {}
    <3>1. PICK i \in s : s \ {i} \in G
      BY <1>1, <2>3
    <3> DEFINE t == s \ {i}
               O == Over(s)
               P == Fibre(key, S, i)
    <3>2. \A j \in s : F[j] \in Int
      <4> SUFFICES ASSUME NEW j \in s PROVE F[j] \in Int
        OBVIOUS
      <4>1. IsFiniteSet(Fibre(key, S, j)) /\ \A x \in Fibre(key, S, j) : f[x] \in Int
        BY FS_Subset DEF Fibre
      <4>2. SumFunctionOnSet(f, Fibre(key, S, j)) \in Int
        BY <4>1, SumInt
      <4> QED
        BY <4>2
    <3>3. SumFunctionOnSet(F, s) = F[i] + SumFunctionOnSet(F, t)
      BY <2>1, <3>2, SumRemove
    <3>4. /\ P \in SUBSET O /\ O \ P = Over(t) /\ IsFiniteSet(O)
          /\ \A x \in O : f[x] \in Int
      BY FS_Subset DEF Fibre
    <3>5. F[i] = SumFunctionOnSet(f, P) /\ SumFunctionOnSet(F, t) = SumFunctionOnSet(f, Over(t))
      BY <3>1
    <3>6. SumFunctionOnSet(f, O) = SumFunctionOnSet(f, P) + SumFunctionOnSet(f, O \ P)
      <4> HIDE DEF P, O
      <4> QED
        BY <3>4, SumSplit
    <3>7. SumFunctionOnSet(F, s) = SumFunctionOnSet(f, O)
      <4> HIDE DEF P, O, t, Over
      <4> QED
        BY <3>3, <3>4, <3>5, <3>6
    <3> QED
      BY <3>7
  <2> QED
    BY <2>2, <2>3
<1>2. SUBSET I \subseteq G
  <2> HIDE DEF G
  <2> QED
    BY <1>1, SubsetInduction
<1>3. Over(I) = S
  OBVIOUS
<1> QED
  BY <1>2, <1>3

=============================================================================
