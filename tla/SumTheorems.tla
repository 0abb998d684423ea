---------------------------- MODULE SumTheorems ----------------------------
(***************************************************************************)
(* What the proofs about money need to know of SumFunction (community      *)
(* module Functions), the sum of the values of a function with a finite    *)
(* domain: it satisfies its recursion, it does not depend on the order in  *)
(* which the fold picks the points, and a change at one point changes it   *)
(* by as much.                                                             *)
(*                                                                         *)
(* Induction over finite sets is had from the well-foundedness of strict   *)
(* inclusion, with the induction hypothesis as a set of subsets; induction *)
(* over an interval of the naturals comes from that.                       *)
(***************************************************************************)
EXTENDS Functions, FiniteSets, FiniteSetTheorems, WellFoundedInduction, TLAPS

\* A nonempty set of subsets of a finite set has a minimal one.
LEMMA MinimalSubset ==
  ASSUME NEW S, IsFiniteSet(S), NEW P \in SUBSET (SUBSET S), P # {}
  PROVE \E T \in P : \A U \in P : U \subseteq T => U = T
<1>1. IsWellFoundedOn(StrictSubsetOrdering(S), SUBSET S)
  BY FS_StrictSubsetOrderingWellFounded, FS_FiniteSubsetsOfFinite, Zenon
<1>2. P \subseteq SUBSET S
  OBVIOUS
<1>3. PICK T \in P : \A U \in P : ~(<<U, T>> \in StrictSubsetOrdering(S))
  BY <1>1, <1>2, WFMin, Zenon
<1>4. ASSUME NEW U \in P, U \subseteq T PROVE U = T
  <2>1. <<U, T>> \notin StrictSubsetOrdering(S)
    BY <1>3
  <2>2. U \in SUBSET S /\ T \in SUBSET S
    BY <1>2
  <2> QED BY <2>1, <2>2, <1>4 DEF StrictSubsetOrdering
<1> QED BY <1>4

\* A set of subsets that holds a set whenever it holds its proper subsets holds
\* them all.
LEMMA SubsetInduction ==
  ASSUME NEW S, IsFiniteSet(S), NEW G,
         \A T \in SUBSET S : (\A U \in SUBSET T : U # T => U \in G) => T \in G
  PROVE \A T \in SUBSET S : T \in G
<1> DEFINE P == {T \in SUBSET S : T \notin G}
<1>1. SUFFICES ASSUME P # {} PROVE FALSE
  OBVIOUS
<1>2. PICK T \in P : \A U \in P : U \subseteq T => U = T
  <2>1. P \in SUBSET (SUBSET S)
    OBVIOUS
  <2> HIDE DEF P
  <2> QED BY <1>1, <2>1, MinimalSubset
<1>3. T \in SUBSET S /\ T \notin G
  OBVIOUS
<1>4. ASSUME NEW U \in SUBSET T, U # T PROVE U \in G
  BY <1>2, <1>3, <1>4
<1> QED BY <1>3, <1>4

\* Induction up to n, with the hypothesis as a set of numbers.
LEMMA IntervalInduction ==
  ASSUME NEW n \in Nat, NEW G, 0 \in G, \A k \in 0..n : (k # n /\ k \in G) => k + 1 \in G
  PROVE \A k \in 0..n : k \in G
<1> DEFINE H == {T \in SUBSET (0..n) : \A k \in 0..n : T = 0..k => k \in G}
<1>1. ASSUME NEW T \in SUBSET (0..n), \A U \in SUBSET T : U # T => U \in H
      PROVE T \in H
  <2>1. SUFFICES ASSUME NEW k \in 0..n, T = 0..k PROVE k \in G
    OBVIOUS
  <2>2. CASE k = 0
    BY <2>2
  <2>3. CASE k # 0
    <3>1. k - 1 \in 0..n /\ k - 1 # n
      BY <2>3
    <3>2. 0..(k - 1) \in SUBSET T /\ k \in T /\ k \notin 0..(k - 1)
      BY <2>1, <2>3
    <3>3. 0..(k - 1) \in H
      BY <1>1, <3>2
    <3>4. k - 1 \in G
      BY <3>1, <3>3
    <3>5. (k - 1) + 1 = k
      OBVIOUS
    <3> QED BY <3>1, <3>4, <3>5
  <2> QED BY <2>2, <2>3
<1> HIDE DEF H
<1>2. \A T \in SUBSET (0..n) : T \in H
  <2>1. IsFiniteSet(0..n)
    BY FS_Interval
  <2>2. \A T \in SUBSET (0..n) : (\A U \in SUBSET T : U # T => U \in H) => T \in H
    BY <1>1
  <2> DEFINE S == 0..n
  <2> HIDE DEF S
  <2>3. IsFiniteSet(S) /\ \A T \in SUBSET S : (\A U \in SUBSET T : U # T => U \in H) => T \in H
    BY <2>1, <2>2 DEF S
  <2>4. \A T \in SUBSET S : T \in H
    BY <2>3, SubsetInduction
  <2> QED BY <2>4 DEF S
<1>3. ASSUME NEW k \in 0..n PROVE k \in G
  <2>1. 0..k \in SUBSET (0..n)
    OBVIOUS
  <2>2. 0..k \in H
    BY <1>2, <2>1
  <2> QED BY <2>2 DEF H
<1> QED BY <1>3

-----------------------------------------------------------------------------
\* The fold of the library's sum.

\* The member the fold takes next.
Pick(s) == CHOOSE x \in s : TRUE

\* The fold takes members only.
LEMMA PickIn == \A s : s # {} => Pick(s) \in s
BY DEF Pick

\* g is a solution of the fold's recursion on the subsets of T.
Sums(g, f, T) ==
  g = [s \in SUBSET T |-> IF s = {} THEN 0 ELSE f[Pick(s)] + g[s \ {Pick(s)}]]

\* The recursion, at one subset.
LEMMA SumsAt ==
  ASSUME NEW f, NEW g, NEW T, Sums(g, f, T), NEW s, s \subseteq T
  PROVE g[s] = IF s = {} THEN 0 ELSE f[Pick(s)] + g[s \ {Pick(s)}]
<1>1. s \in SUBSET T
  OBVIOUS
<1> QED BY <1>1, Zenon DEF Sums

\* Solutions on two sets agree where both are defined.
LEMMA SumsUnique ==
  ASSUME NEW f, NEW g, NEW h, NEW T, NEW U, IsFiniteSet(T), Sums(g, f, T), Sums(h, f, U)
  PROVE \A s \in SUBSET (T \cap U) : g[s] = h[s]
<1> DEFINE G == {s \in SUBSET (T \cap U) : g[s] = h[s]}
<1>1. ASSUME NEW s \in SUBSET (T \cap U), \A t \in SUBSET s : t # s => t \in G
      PROVE s \in G
  <2>1. s \in SUBSET T /\ s \in SUBSET U
    OBVIOUS
  <2>2. g[s] = IF s = {} THEN 0 ELSE f[Pick(s)] + g[s \ {Pick(s)}]
    BY <2>1, Zenon DEF Sums
  <2>3. h[s] = IF s = {} THEN 0 ELSE f[Pick(s)] + h[s \ {Pick(s)}]
    BY <2>1, Zenon DEF Sums
  <2>4. s # {} => g[s \ {Pick(s)}] = h[s \ {Pick(s)}]
    <3>1. s # {} => s \ {Pick(s)} \in SUBSET s /\ s \ {Pick(s)} # s
      BY PickIn
    <3>2. s # {} => s \ {Pick(s)} \in G
      BY <1>1, <3>1
    <3> QED BY <3>2
  <2> QED BY <2>2, <2>3, <2>4
<1>2. IsFiniteSet(T \cap U)
  BY FS_Intersection
<1> HIDE DEF G
<1>3. \A s \in SUBSET (T \cap U) : s \in G
  BY <1>1, <1>2, SubsetInduction
<1> QED BY <1>3 DEF G

\* The recursion has a solution: one on U comes from those on its subsets.
LEMMA SumsExist ==
  ASSUME NEW f, NEW T, IsFiniteSet(T)
  PROVE \E g : Sums(g, f, T)
<1> DEFINE G == {U \in SUBSET T : \E g : Sums(g, f, U)}
<1>1. ASSUME NEW U \in SUBSET T, \A s \in SUBSET U : s # U => s \in G
      PROVE U \in G
  <2> DEFINE Of(s) == CHOOSE g : Sums(g, f, s)
             k == [s \in SUBSET U |->
                     IF s = {} THEN 0 ELSE f[Pick(s)] + Of(s \ {Pick(s)})[s \ {Pick(s)}]]
  <2>1. \A s \in SUBSET U : s # U => Sums(Of(s), f, s)
    BY <1>1
  <2>2. ASSUME NEW s \in SUBSET U, s # U PROVE k[s] = Of(s)[s]
    <3>1. Of(s)[s] = IF s = {} THEN 0 ELSE f[Pick(s)] + Of(s)[s \ {Pick(s)}]
      <4>1. Sums(Of(s), f, s) /\ s \subseteq s
        BY <2>1, <2>2
      <4> HIDE DEF Of
      <4> QED BY <4>1, SumsAt
    <3>2. CASE s = {}
      BY <3>1, <3>2
    <3>3. CASE s # {}
      <4> DEFINE r == s \ {Pick(s)}
      <4>1. r \in SUBSET U /\ r # U /\ r \in SUBSET (s \cap r)
        BY <2>2
      <4>2. IsFiniteSet(s)
        BY FS_Subset
      <4>3. Sums(Of(s), f, s) /\ Sums(Of(r), f, r)
        BY <2>1, <2>2, <4>1
      <4> HIDE DEF Of, r
      <4>4. Of(s)[r] = Of(r)[r]
        BY <4>1, <4>2, <4>3, SumsUnique
      <4> QED BY <3>1, <3>3, <4>4 DEF r
    <3> QED BY <3>2, <3>3
  <2>3. ASSUME NEW s \in SUBSET U, s # {}
        PROVE Of(s \ {Pick(s)})[s \ {Pick(s)}] = k[s \ {Pick(s)}]
    <3>1. s \ {Pick(s)} \in SUBSET U /\ s \ {Pick(s)} # U
      BY <2>3, PickIn
    <3> HIDE DEF k, Of
    <3> QED BY <3>1, <2>2
  <2>4. Sums(k, f, U)
    <3> HIDE DEF Of
    <3> QED BY <2>3 DEF Sums
  <2> QED BY <2>4
<1> HIDE DEF G
<1>2. T \in G
  BY <1>1, SubsetInduction
<1> QED BY <1>2 DEF G

\* Any solution computes the library's sum.
LEMMA SumIsLast ==
  ASSUME NEW f, NEW T, IsFiniteSet(T), NEW U \in SUBSET T, NEW g, Sums(g, f, T)
  PROVE g[U] = SumFunctionOnSet(f, U)
<1>1. IsFiniteSet(U)
  BY FS_Subset
<1>2. PICK h : Sums(h, f, U)
  BY <1>1, SumsExist
<1> DEFINE iter == CHOOSE e : Sums(e, f, U)
<1>3. SumFunctionOnSet(f, U) = iter[U]
  BY DEF SumFunctionOnSet, FoldFunctionOnSet, MapThenFoldSet, Pick, Sums
<1>4. Sums(iter, f, U)
  BY <1>2
<1> HIDE DEF iter
<1>5. U \in SUBSET (T \cap U)
  OBVIOUS
<1> QED BY <1>3, <1>4, <1>5, SumsUnique

\* The sum of nothing.
LEMMA SumOverEmpty == \A f : SumFunctionOnSet(f, {}) = 0
<1> TAKE f
<1>1. IsFiniteSet({})
  BY FS_EmptySet
<1>2. PICK g : Sums(g, f, {})
  BY <1>1, SumsExist
<1>3. {} \in SUBSET {} /\ {} \subseteq {}
  OBVIOUS
<1>4. g[{}] = 0
  BY <1>2, <1>3, SumsAt
<1> QED BY <1>1, <1>2, <1>3, <1>4, SumIsLast

\* The recursion, for the library's sum.
LEMMA SumByPick ==
  ASSUME NEW f, NEW T, IsFiniteSet(T), T # {}
  PROVE SumFunctionOnSet(f, T) = f[Pick(T)] + SumFunctionOnSet(f, T \ {Pick(T)})
<1>1. PICK g : Sums(g, f, T)
  BY SumsExist
<1>2. T \in SUBSET T /\ T \subseteq T /\ T \ {Pick(T)} \in SUBSET T
  OBVIOUS
<1>3. g[T] = f[Pick(T)] + g[T \ {Pick(T)}]
  BY <1>1, <1>2, SumsAt
<1>4. g[T] = SumFunctionOnSet(f, T) /\ g[T \ {Pick(T)}] = SumFunctionOnSet(f, T \ {Pick(T)})
  BY <1>1, <1>2, SumIsLast
<1> QED BY <1>3, <1>4

\* Sums of naturals are naturals.
LEMMA SumType ==
  ASSUME NEW f, NEW S, IsFiniteSet(S), \A i \in S : f[i] \in Nat
  PROVE SumFunctionOnSet(f, S) \in Nat
<1> DEFINE G == {T \in SUBSET S : SumFunctionOnSet(f, T) \in Nat}
<1>1. ASSUME NEW T \in SUBSET S, \A U \in SUBSET T : U # T => U \in G
      PROVE T \in G
  <2>1. CASE T = {}
    BY <2>1, SumOverEmpty
  <2>2. CASE T # {}
    <3>1. Pick(T) \in T /\ IsFiniteSet(T)
      BY <2>2, PickIn, FS_Subset
    <3>2. SumFunctionOnSet(f, T \ {Pick(T)}) \in Nat /\ f[Pick(T)] \in Nat
      BY <1>1, <3>1
    <3> QED BY <2>2, <3>1, <3>2, SumByPick
  <2> QED BY <2>1, <2>2
<1> HIDE DEF G
<1>2. S \in G
  BY <1>1, SubsetInduction
<1> QED BY <1>2 DEF G

\* Any member of the set may be taken out first: of two members, the fold's and
\* another, either order leaves the same rest.
LEMMA SumRemove ==
  ASSUME NEW f, NEW S, IsFiniteSet(S), \A i \in S : f[i] \in Nat, NEW x \in S
  PROVE SumFunctionOnSet(f, S) = f[x] + SumFunctionOnSet(f, S \ {x})
<1> DEFINE Sum(T) == SumFunctionOnSet(f, T)
           G == {T \in SUBSET S : \A y \in T : Sum(T) = f[y] + Sum(T \ {y})}
<1>1. ASSUME NEW T \in SUBSET S, \A U \in SUBSET T : U # T => U \in G
      PROVE T \in G
  <2> SUFFICES ASSUME NEW y \in T PROVE Sum(T) = f[y] + Sum(T \ {y})
    OBVIOUS
  <2> DEFINE p == Pick(T)
  <2>1. p \in T
    BY PickIn
  <2>2. Sum(T) = f[p] + Sum(T \ {p})
    <3>1. IsFiniteSet(T)
      BY FS_Subset
    <3> QED BY <3>1, SumByPick
  <2>3. \A U \in SUBSET T : U # T => \A z \in U : Sum(U) = f[z] + Sum(U \ {z})
    BY <1>1
  <2>4. CASE y # p
    <3> HIDE DEF p
    <3>1. Sum(T \ {p}) = f[y] + Sum((T \ {p}) \ {y})
      BY <2>1, <2>3, <2>4
    <3>2. Sum(T \ {y}) = f[p] + Sum((T \ {y}) \ {p})
      BY <2>1, <2>3, <2>4
    <3>3. (T \ {y}) \ {p} = (T \ {p}) \ {y}
      OBVIOUS
    <3>4. Sum((T \ {p}) \ {y}) \in Nat
      <4>1. IsFiniteSet((T \ {p}) \ {y})
        BY FS_Subset
      <4> QED BY <4>1, SumType
    <3>5. f[p] \in Nat /\ f[y] \in Nat
      BY <2>1
    <3> HIDE DEF Sum
    <3> QED BY <2>2, <3>1, <3>2, <3>3, <3>4, <3>5
  <2> QED BY <2>2, <2>4
<1> HIDE DEF G
<1>2. S \in G
  BY <1>1, SubsetInduction
<1> QED BY <1>2 DEF G

\* Sums of functions that agree on the set are equal.
LEMMA SumAgree ==
  ASSUME NEW f, NEW g, NEW S, IsFiniteSet(S), \A i \in S : f[i] = g[i]
  PROVE SumFunctionOnSet(f, S) = SumFunctionOnSet(g, S)
<1> DEFINE G == {T \in SUBSET S : SumFunctionOnSet(f, T) = SumFunctionOnSet(g, T)}
<1>1. ASSUME NEW T \in SUBSET S, \A U \in SUBSET T : U # T => U \in G
      PROVE T \in G
  <2>1. CASE T = {}
    BY <2>1, SumOverEmpty
  <2>2. CASE T # {}
    <3>1. Pick(T) \in T /\ IsFiniteSet(T)
      BY <2>2, PickIn, FS_Subset
    <3>2. T \ {Pick(T)} \in G
      BY <1>1, <3>1
    <3>3. f[Pick(T)] = g[Pick(T)]
      BY <3>1
    <3> QED BY <2>2, <3>1, <3>2, <3>3, SumByPick
  <2> QED BY <2>1, <2>2
<1> HIDE DEF G
<1>2. S \in G
  BY <1>1, SubsetInduction
<1> QED BY <1>2 DEF G

\* The sum of sums.
LEMMA SumPlus ==
  ASSUME NEW f, NEW g, NEW h, NEW S, IsFiniteSet(S),
         \A i \in S : f[i] \in Nat /\ g[i] \in Nat /\ h[i] = f[i] + g[i]
  PROVE SumFunctionOnSet(h, S) = SumFunctionOnSet(f, S) + SumFunctionOnSet(g, S)
<1> DEFINE G == {T \in SUBSET S :
                  SumFunctionOnSet(h, T) = SumFunctionOnSet(f, T) + SumFunctionOnSet(g, T)}
<1>1. ASSUME NEW T \in SUBSET S, \A U \in SUBSET T : U # T => U \in G
      PROVE T \in G
  <2>1. CASE T = {}
    BY <2>1, SumOverEmpty
  <2>2. CASE T # {}
    <3> DEFINE R == T \ {Pick(T)}
    <3>1. Pick(T) \in T /\ IsFiniteSet(T) /\ IsFiniteSet(R)
      BY <2>2, PickIn, FS_Subset
    <3>2. SumFunctionOnSet(h, R) = SumFunctionOnSet(f, R) + SumFunctionOnSet(g, R)
      BY <1>1, <3>1
    <3>3. SumFunctionOnSet(f, R) \in Nat /\ SumFunctionOnSet(g, R) \in Nat
      BY <3>1, SumType
    <3>4. f[Pick(T)] \in Nat /\ g[Pick(T)] \in Nat /\ h[Pick(T)] = f[Pick(T)] + g[Pick(T)]
      BY <3>1
    <3>5. /\ SumFunctionOnSet(f, T) = f[Pick(T)] + SumFunctionOnSet(f, R)
          /\ SumFunctionOnSet(g, T) = g[Pick(T)] + SumFunctionOnSet(g, R)
          /\ SumFunctionOnSet(h, T) = h[Pick(T)] + SumFunctionOnSet(h, R)
      BY <2>2, <3>1, SumByPick
    <3> QED BY <3>2, <3>3, <3>4, <3>5
  <2> QED BY <2>1, <2>2
<1> HIDE DEF G
<1>2. S \in G
  BY <1>1, SubsetInduction
<1> QED BY <1>2 DEF G

-----------------------------------------------------------------------------
\* What the other modules use: sums of functions on their domains.

\* A sum of naturals is a natural.
THEOREM SumNat ==
  ASSUME NEW S, IsFiniteSet(S), NEW f \in [S -> Nat]
  PROVE SumFunction(f) \in Nat
BY SumType DEF SumFunction

\* A sum of zeros is zero.
THEOREM SumZero ==
  ASSUME NEW S, IsFiniteSet(S), NEW f, DOMAIN f = S, \A i \in S : f[i] = 0
  PROVE SumFunction(f) = 0
<1> DEFINE G == {T \in SUBSET S : SumFunctionOnSet(f, T) = 0}
<1>1. ASSUME NEW T \in SUBSET S, \A U \in SUBSET T : U # T => U \in G
      PROVE T \in G
  <2>1. CASE T = {}
    BY <2>1, SumOverEmpty
  <2>2. CASE T # {}
    <3>1. Pick(T) \in T /\ IsFiniteSet(T)
      BY <2>2, PickIn, FS_Subset
    <3>2. SumFunctionOnSet(f, T \ {Pick(T)}) = 0 /\ f[Pick(T)] = 0
      BY <1>1, <3>1
    <3> QED BY <2>2, <3>1, <3>2, SumByPick
  <2> QED BY <2>1, <2>2
<1> HIDE DEF G
<1>2. S \in G
  BY <1>1, SubsetInduction
<1> QED BY <1>2 DEF G, SumFunction

\* A sum splits as its terms do.
THEOREM SumSplit ==
  ASSUME NEW S, IsFiniteSet(S), NEW f \in [S -> Nat], NEW g \in [S -> Nat], NEW h \in [S -> Nat],
         \A i \in S : h[i] = f[i] + g[i]
  PROVE /\ SumFunction(h) = SumFunction(f) + SumFunction(g)
        /\ SumFunction(f) \in Nat /\ SumFunction(g) \in Nat
BY SumPlus, SumNat DEF SumFunction

\* A function that loses a point loses its value from the sum.
THEOREM SumWithout ==
  ASSUME NEW S, IsFiniteSet(S), NEW f \in [S -> Nat], NEW x \in S,
         NEW g, DOMAIN g = S \ {x}, \A i \in S \ {x} : g[i] = f[i]
  PROVE SumFunction(f) = f[x] + SumFunction(g) /\ SumFunction(g) \in Nat
<1>1. IsFiniteSet(S \ {x})
  BY FS_RemoveElement
<1>2. SumFunctionOnSet(f, S) = f[x] + SumFunctionOnSet(f, S \ {x})
  BY SumRemove
<1>3. SumFunctionOnSet(f, S \ {x}) = SumFunctionOnSet(g, S \ {x})
  BY <1>1, SumAgree
<1>4. SumFunctionOnSet(f, S \ {x}) \in Nat
  BY <1>1, SumType
<1> QED BY <1>2, <1>3, <1>4 DEF SumFunction

\* A function that changes at one point changes the sum by as much.
THEOREM SumChange ==
  ASSUME NEW S, IsFiniteSet(S), NEW f \in [S -> Nat], NEW g \in [S -> Nat], NEW x \in S,
         \A i \in S \ {x} : g[i] = f[i]
  PROVE /\ SumFunction(g) + f[x] = SumFunction(f) + g[x]
        /\ f[x] <= SumFunction(f)
<1> DEFINE r == [i \in S \ {x} |-> f[i]]
<1>1. SumFunction(f) = f[x] + SumFunction(r) /\ SumFunction(r) \in Nat
  BY SumWithout
<1>2. SumFunction(g) = g[x] + SumFunction(r)
  BY SumWithout
<1> HIDE DEF r
<1> QED BY <1>1, <1>2

\* A function on no point sums to zero.
LEMMA SumNone ==
  ASSUME NEW f, DOMAIN f = {}
  PROVE SumFunction(f) = 0
BY SumZero, FS_EmptySet

\* A function on one point sums to its value.
LEMMA SumOne ==
  ASSUME NEW S, NEW x \in S, \A z \in S : z = x, NEW f \in [S -> Nat]
  PROVE SumFunction(f) = f[x]
<1> DEFINE r == [i \in S \ {x} |-> f[i]]
<1>1. DOMAIN r = {} /\ f[x] \in Nat
  OBVIOUS
<1>2. IsFiniteSet(S)
  <2>1. S = {x}
    OBVIOUS
  <2> QED BY <2>1, FS_Singleton
<1>3. SumFunction(f) = f[x] + SumFunction(r)
  BY <1>2, SumWithout
<1> HIDE DEF r
<1>4. SumFunction(r) = 0
  BY <1>1, SumNone
<1> QED BY <1>1, <1>3, <1>4

\* A function on two points sums to the two values.
LEMMA SumTwo ==
  ASSUME NEW S, NEW x \in S, NEW y \in S, x # y, \A z \in S : z \in {x, y}, NEW f \in [S -> Nat]
  PROVE SumFunction(f) = f[x] + f[y]
<1> DEFINE T == S \ {x}
           r == [i \in T |-> f[i]]
<1>1. y \in T /\ \A z \in T : z = y
  OBVIOUS
<1>2. r \in [T -> Nat] /\ r[y] = f[y]
  OBVIOUS
<1>3. IsFiniteSet(S)
  <2>1. S = {y} \cup {x}
    OBVIOUS
  <2> QED BY <2>1, FS_Singleton, FS_AddElement
<1>4. SumFunction(f) = f[x] + SumFunction(r)
  BY <1>3, SumWithout
<1> HIDE DEF r, T
<1>5. SumFunction(r) = r[y]
  BY <1>1, <1>2, SumOne
<1> QED BY <1>2, <1>4, <1>5

\* A function that is zero but for one point sums to its value there.
LEMMA SumAlone ==
  ASSUME NEW S, IsFiniteSet(S), NEW f \in [S -> Nat], NEW x \in S, \A i \in S \ {x} : f[i] = 0
  PROVE SumFunction(f) = f[x]
<1> DEFINE none == [i \in S |-> 0]
<1>1. /\ none \in [S -> Nat] /\ DOMAIN none = S /\ (\A i \in S : none[i] = 0)
      /\ (\A i \in S \ {x} : f[i] = none[i]) /\ f[x] \in Nat
  OBVIOUS
<1> HIDE DEF none
<1>2. SumFunction(none) = 0
  BY <1>1, SumZero
<1>3. SumFunction(f) + none[x] = SumFunction(none) + f[x]
  BY <1>1, SumChange
<1>4. SumFunction(f) \in Nat
  BY SumNat
<1> QED BY <1>1, <1>2, <1>3, <1>4

\* A function that is zero but for two points sums to the two values.
LEMMA SumPair ==
  ASSUME NEW S, IsFiniteSet(S), NEW f \in [S -> Nat], NEW x \in S, NEW y \in S, x # y,
         \A i \in S \ {x, y} : f[i] = 0
  PROVE SumFunction(f) = f[x] + f[y]
<1> DEFINE g == [i \in S |-> IF i = x THEN f[x] ELSE 0]
<1>1. /\ g \in [S -> Nat] /\ (\A i \in S \ {x} : g[i] = 0) /\ (\A i \in S \ {y} : f[i] = g[i])
      /\ g[x] = f[x] /\ g[y] = 0 /\ f[x] \in Nat /\ f[y] \in Nat
  OBVIOUS
<1> HIDE DEF g
<1>2. SumFunction(g) = g[x]
  BY <1>1, SumAlone
<1>3. SumFunction(f) + g[y] = SumFunction(g) + f[y]
  BY <1>1, SumChange
<1>4. SumFunction(f) \in Nat
  BY SumNat
<1> QED BY <1>1, <1>2, <1>3, <1>4

=============================================================================
