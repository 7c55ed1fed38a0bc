------------------------------ MODULE SumTheorems ------------------------------
(* What SumFunctionOnSet, the sum of a function's values over a finite set, gives:   *)
(* the equation it satisfies, and how it changes with the function and the set.      *)
(* The induction is on sets of numbers and of sets, of which the least number        *)
(* principle is a consequence of the library's WFMin; by it a recursive function over *)
(* numbered steps exists. At the end, what whole parts and rests have to do with      *)
(* multiples.                                                                        *)
EXTENDS Integers, FiniteSets, FiniteSetsExt, Functions, FiniteSetTheorems, WellFoundedInduction, TLAPS

--------------------------------------------------------------------------------
(* Induction.                                                                        *)

(* The order of the natural numbers, as a relation, is well founded.                 *)
LEMMA LessIsWellFounded ==
    \E less : /\ IsWellFoundedOn(less, Nat)
              /\ \A x, y \in Nat : x < y => <<x, y>> \in less
<1>1. \A x, y \in Nat : x < y => <<x, y>> \in OpToRel(<, Nat)
  BY DEF OpToRel
<1> QED
  BY <1>1, NatLessThanWellFounded

(* Every set of numbers has a least one.                                             *)
LEMMA LeastNumber ==
    ASSUME NEW S, S \subseteq Nat, S # {}
    PROVE  \E x \in S : \A y \in S : x <= y
<1>1. PICK less : /\ IsWellFoundedOn(less, Nat)
                  /\ \A x, y \in Nat : x < y => <<x, y>> \in less
  BY LessIsWellFounded
<1>2. PICK x \in S : \A y \in S : ~(<<y, x>> \in less)
  <2>1. IsWellFoundedOn(less, Nat)
    BY <1>1
  <2> QED
    BY <2>1, WFMin, Zenon
<1>3. \A y \in S : ~(y < x)
  BY <1>1, <1>2, Zenon
<1> QED
  BY <1>3

(* Min gives the least of any numbers, Max the greatest of any that are bounded.     *)
LEMMA Least ==
    ASSUME NEW S, S \subseteq Nat, S # {}
    PROVE  Min(S) \in S /\ \A y \in S : Min(S) <= y
BY LeastNumber DEF Min

LEMMA Greatest ==
    ASSUME NEW S, S \subseteq Nat, S # {}, NEW n \in Nat, \A x \in S : x <= n
    PROVE  Max(S) \in S /\ \A y \in S : y <= Max(S)
<1> DEFINE T == {m \in Nat : \E x \in S : m = n - x}
<1>1. T \subseteq Nat /\ T # {}
  <2>1. PICK x \in S : TRUE
    OBVIOUS
  <2>2. n - x \in Nat
    BY <2>1
  <2> QED
    BY <2>1, <2>2
<1> HIDE DEF T
<1>2. PICK m \in T : \A k \in T : m <= k
  BY <1>1, LeastNumber
<1>3. PICK x \in S : m = n - x
  BY <1>2 DEF T
<1>4. ASSUME NEW y \in S PROVE y <= x
  <2>1. n - y \in Nat /\ y \in Nat /\ x \in Nat
    OBVIOUS
  <2>2. n - y \in T
    BY <2>1 DEF T
  <2> QED
    BY <1>2, <1>3, <2>1, <2>2
<1>5. \A y \in S : x >= y
  BY <1>4
<1>6. \E z \in S : \A y \in S : z >= y
  BY <1>3, <1>5
<1>7. Max(S) \in S /\ \A y \in S : Max(S) >= y
  BY <1>6 DEF Max
<1> QED
  BY <1>7

(* A set that has 0 and with every number its successor has them all.                *)
LEMMA AllNumbers ==
    ASSUME NEW S, 0 \in S, \A n \in Nat : n \in S => n + 1 \in S
    PROVE  \A n \in Nat : n \in S
<1> SUFFICES ASSUME NEW k \in Nat, k \notin S PROVE FALSE
  OBVIOUS
<1>1. PICK n \in Nat \ S : \A y \in Nat \ S : n <= y
  <2> DEFINE T == Nat \ S
  <2>1. T \subseteq Nat /\ T # {}
    OBVIOUS
  <2> QED
    BY <2>1, LeastNumber
<1>2. n # 0 /\ n - 1 \in Nat
  BY <1>1
<1>3. n - 1 \in S
  BY <1>1, <1>2
<1> QED
  BY <1>1, <1>2, <1>3

(* Removing an element from a finite set leaves a smaller one.                        *)
LEMMA Smaller ==
    ASSUME NEW S, IsFiniteSet(S), NEW x \in S
    PROVE  /\ IsFiniteSet(S \ {x}) /\ Cardinality(S) \in Nat
           /\ Cardinality(S \ {x}) \in Nat /\ Cardinality(S \ {x}) < Cardinality(S)
BY FS_RemoveElement, FS_CardinalityType

(* A proper subset of a finite set is a smaller one.                                  *)
LEMMA SmallerSubset ==
    ASSUME NEW S, IsFiniteSet(S), NEW T, T \subseteq S, T # S
    PROVE  /\ IsFiniteSet(T) /\ Cardinality(S) \in Nat
           /\ Cardinality(T) \in Nat /\ Cardinality(T) < Cardinality(S)
BY FS_Subset, FS_CardinalityType

(* What holds of the empty set and of a set once it holds of the set without some     *)
(* element, holds of every finite set: here, as membership in F.                      *)
LEMMA AllSubsets ==
    ASSUME NEW S, IsFiniteSet(S), NEW F, {} \in F,
           \A T \in SUBSET S : \A x \in S \ T : T \in F => T \cup {x} \in F
    PROVE  S \in F
<1> DEFINE N == {n \in Nat : \A T \in SUBSET S : Cardinality(T) = n => T \in F}
<1>1. 0 \in N
  BY FS_Subset, FS_EmptySet
<1>2. ASSUME NEW n \in Nat, n \in N PROVE n + 1 \in N
  <2> SUFFICES ASSUME NEW T \in SUBSET S, Cardinality(T) = n + 1 PROVE T \in F
    OBVIOUS
  <2>1. IsFiniteSet(T) /\ T # {}
    BY FS_Subset, FS_EmptySet
  <2>2. PICK x \in T : TRUE
    BY <2>1
  <2>3. Cardinality(T \ {x}) = n
    <3>1. Cardinality(T \ {x}) = Cardinality(T) - 1
      BY <2>1, <2>2, FS_RemoveElement
    <3> QED
      BY <3>1
  <2>4. T \ {x} \in F
    BY <1>2, <2>3
  <2>5. (T \ {x}) \cup {x} = T
    BY <2>2
  <2> QED
    BY <2>2, <2>4, <2>5
<1> HIDE DEF N
<1>3. Cardinality(S) \in Nat
  BY FS_CardinalityType
<1>4. Cardinality(S) \in N
  BY <1>1, <1>2, <1>3, AllNumbers
<1> QED
  BY <1>4 DEF N

(* A pass over the numbers up to N that starts with b and steps by f: there is one.       *)
IsPass(g, N, A, b, f) ==
    /\ g \in [0 .. N -> A] /\ g[0] = b
    /\ \A n \in 1 .. N : g[n] = f[n][g[n - 1]]

LEMMA PassExists ==
    ASSUME NEW N \in Nat, NEW A, NEW b \in A, NEW f \in [1 .. N -> [A -> A]]
    PROVE  \E g : IsPass(g, N, A, b, f)
<1> DEFINE F == {k \in Nat : k <= N => \E g : IsPass(g, k, A, b, f)}
<1>1. 0 \in F
  <2> DEFINE g == [n \in 0 .. 0 |-> b]
  <2>1. IsPass(g, 0, A, b, f)
    BY DEF IsPass
  <2> QED BY <2>1
<1>2. ASSUME NEW k \in Nat, k \in F PROVE k + 1 \in F
  <2> SUFFICES ASSUME k + 1 <= N PROVE \E g : IsPass(g, k + 1, A, b, f)
    OBVIOUS
  <2>1. PICK h : IsPass(h, k, A, b, f)
    BY <1>2
  <2> DEFINE g == [n \in 0 .. k + 1 |-> IF n = k + 1 THEN f[k + 1][h[k]] ELSE h[n]]
  <2>2. h[k] \in A /\ k + 1 \in 1 .. N
    BY <2>1 DEF IsPass
  <2>3. f[k + 1][h[k]] \in A
    BY <2>2
  <2>4. g \in [0 .. k + 1 -> A] /\ g[0] = b
    BY <2>1, <2>3 DEF IsPass
  <2>5. ASSUME NEW n \in 1 .. k + 1 PROVE g[n] = f[n][g[n - 1]]
    <3>1. n - 1 \in 0 .. k /\ g[n - 1] = h[n - 1]
      OBVIOUS
    <3>2. CASE n = k + 1
      BY <3>1, <3>2
    <3>3. CASE n # k + 1
      BY <2>1, <3>1, <3>3 DEF IsPass
    <3> QED BY <3>2, <3>3
  <2> HIDE DEF g
  <2> QED BY <2>4, <2>5 DEF IsPass
<1> HIDE DEF F
<1>3. N \in F
  BY <1>1, <1>2, AllNumbers
<1> QED BY <1>3 DEF F

--------------------------------------------------------------------------------
(* The equation of the sum.                                                           *)

Pick(s) == CHOOSE x \in s : TRUE

(* g is a function by which the fold over the subsets of S may be computed.           *)
IsFold(w, S, g) ==
    g = [s \in SUBSET S |-> IF s = {} THEN 0 ELSE w[Pick(s)] + g[s \ {Pick(s)}]]

(* When there is such a function, the sum is what one of them gives.                  *)
LEMMA SumIsFold ==
    ASSUME NEW w, NEW S, NEW h, IsFold(w, S, h)
    PROVE  \E g : IsFold(w, S, g) /\ SumFunctionOnSet(w, S) = g[S]
<1> DEFINE g == CHOOSE g : IsFold(w, S, g)
<1>1. IsFold(w, S, g)
  OBVIOUS
<1>2. SumFunctionOnSet(w, S) = g[S]
  BY DEF SumFunctionOnSet, FoldFunctionOnSet, MapThenFoldSet, IsFold, Pick
<1> QED
  BY <1>1, <1>2

(* The equation for one set, and that every fold over a larger set agrees.            *)
Solved(w, s) ==
    SumFunctionOnSet(w, s) = IF s = {} THEN 0
                             ELSE w[Pick(s)] + SumFunctionOnSet(w, s \ {Pick(s)})
Agreed(w, s) == \A S, g : s \subseteq S /\ IsFold(w, S, g) => g[s] = SumFunctionOnSet(w, s)

(* What the fold picks is an element.                                                  *)
LEMMA Picked == ASSUME NEW s, s # {} PROVE Pick(s) \in s
BY DEF Pick

(* The equation holds of a set once it holds of all its proper parts.                  *)
LEMMA OneMore ==
    ASSUME NEW w, NEW s, \A t \in SUBSET s : t # s => Solved(w, t) /\ Agreed(w, t)
    PROVE  Solved(w, s) /\ Agreed(w, s)
<1> DEFINE V(t) == SumFunctionOnSet(w, t)
           h == [t \in SUBSET s |-> IF t = s THEN IF s = {} THEN 0 ELSE w[Pick(s)] + V(s \ {Pick(s)})
                                    ELSE V(t)]
<1>1. \A t \in SUBSET s : t # {} => Pick(t) \in t /\ t \ {Pick(t)} \in SUBSET s /\ t \ {Pick(t)} # s
  BY Picked
<1>2. IsFold(w, s, h)
  <2>1. ASSUME NEW t \in SUBSET s
        PROVE  h[t] = IF t = {} THEN 0 ELSE w[Pick(t)] + h[t \ {Pick(t)}]
    <3>1. t # {} => h[t \ {Pick(t)}] = V(t \ {Pick(t)})
      BY <1>1
    <3>2. CASE t = s
      BY <3>1, <3>2
    <3>3. CASE t # s
      BY <3>1, <3>3 DEF Solved
    <3> QED
      BY <3>2, <3>3
  <2>2. h = [t \in SUBSET s |-> h[t]]
    OBVIOUS
  <2> HIDE DEF h
  <2> QED
    BY <2>1, <2>2 DEF IsFold
<1>3. ASSUME NEW S, NEW g, s \subseteq S, IsFold(w, S, g)
      PROVE  g[s] = IF s = {} THEN 0 ELSE w[Pick(s)] + V(s \ {Pick(s)})
  <2>1. g[s] = IF s = {} THEN 0 ELSE w[Pick(s)] + g[s \ {Pick(s)}]
    BY <1>3 DEF IsFold
  <2>2. s # {} => g[s \ {Pick(s)}] = V(s \ {Pick(s)})
    BY <1>1, <1>3 DEF Agreed
  <2> QED
    BY <2>1, <2>2
<1> HIDE DEF h
<1>4. PICK g : IsFold(w, s, g) /\ V(s) = g[s]
  BY <1>2, SumIsFold
<1>5. Solved(w, s)
  BY <1>3, <1>4 DEF Solved
<1> QED
  BY <1>3, <1>5 DEF Solved, Agreed

(* It holds of every finite set.                                                       *)
LEMMA SumSolved ==
    ASSUME NEW w, NEW S, IsFiniteSet(S)
    PROVE  Solved(w, S)
<1> DEFINE N == {n \in Nat : \A T \in SUBSET S : Cardinality(T) < n => Solved(w, T) /\ Agreed(w, T)}
<1>1. 0 \in N
  BY FS_Subset, FS_CardinalityType
<1>2. ASSUME NEW n \in Nat, n \in N PROVE n + 1 \in N
  <2> SUFFICES ASSUME NEW T \in SUBSET S, Cardinality(T) < n + 1
               PROVE  Solved(w, T) /\ Agreed(w, T)
    OBVIOUS
  <2>1. IsFiniteSet(T) /\ Cardinality(T) \in Nat
    BY FS_Subset, FS_CardinalityType
  <2>2. \A t \in SUBSET T : t # T => Solved(w, t) /\ Agreed(w, t)
    <3> SUFFICES ASSUME NEW t \in SUBSET T, t # T PROVE Solved(w, t) /\ Agreed(w, t)
      OBVIOUS
    <3>1. Cardinality(t) \in Nat /\ Cardinality(t) < Cardinality(T)
      BY <2>1, SmallerSubset
    <3>2. Cardinality(t) < n /\ t \in SUBSET S
      BY <2>1, <3>1
    <3> QED
      BY <1>2, <3>2
  <2> QED
    BY <2>2, OneMore
<1> HIDE DEF N
<1>3. Cardinality(S) \in Nat
  BY FS_CardinalityType
<1>4. Cardinality(S) + 1 \in N
  BY <1>1, <1>2, <1>3, AllNumbers
<1> QED
  BY <1>3, <1>4 DEF N

--------------------------------------------------------------------------------
(* Sums of integers.                                                                  *)

Integers(w, S) == \A x \in S : w[x] \in Int

(* The sum over no element.                                                            *)
LEMMA SumEmpty == ASSUME NEW w PROVE SumFunctionOnSet(w, {}) = 0
<1>1. Solved(w, {})
  BY FS_EmptySet, SumSolved
<1> QED
  BY <1>1 DEF Solved

(* The sum is an integer, and any element may be the one split off.                   *)
Splits(w, s) ==
    /\ SumFunctionOnSet(w, s) \in Int
    /\ \A x \in s : SumFunctionOnSet(w, s) = w[x] + SumFunctionOnSet(w, s \ {x})

(* Again from the proper parts to the set ...                                          *)
LEMMA SplitsMore ==
    ASSUME NEW w, NEW s, IsFiniteSet(s), Integers(w, s),
           \A t \in SUBSET s : t # s => Splits(w, t)
    PROVE  Splits(w, s)
<1> DEFINE V(t) == SumFunctionOnSet(w, t)
<1>1. CASE s = {}
  BY <1>1, SumEmpty DEF Splits
<1>2. CASE s # {}
  <2> DEFINE p == Pick(s)
  <2>1. p \in s
    BY <1>2, Picked
  <2>2. V(s) = w[p] + V(s \ {p})
    BY <1>2, SumSolved DEF Solved
  <2> HIDE DEF p
  <2>3. \A x \in s : V(s \ {x}) \in Int /\ w[x] \in Int
    BY DEF Splits, Integers
  <2>4. ASSUME NEW x \in s, x # p PROVE V(s) = w[x] + V(s \ {x})
    <3>1. (s \ {p}) \ {x} = (s \ {x}) \ {p}
      OBVIOUS
    <3> DEFINE rest == (s \ {x}) \ {p}
    <3>2. rest \in SUBSET s /\ rest # s
      BY <2>1
    <3>3. V(rest) \in Int
      BY <3>2 DEF Splits
    <3>4. V(s \ {p}) = w[x] + V((s \ {p}) \ {x})
      BY <2>1, <2>4 DEF Splits
    <3>5. V(s \ {x}) = w[p] + V(rest)
      BY <2>1, <2>4 DEF Splits
    <3>6. V(s \ {p}) = w[x] + V(rest)
      BY <3>1, <3>4
    <3> HIDE DEF rest, V
    <3> QED
      BY <2>1, <2>2, <2>3, <3>3, <3>5, <3>6
  <2>5. V(s) \in Int
    BY <2>1, <2>2, <2>3
  <2> QED
    BY <2>2, <2>4, <2>5 DEF Splits
<1> QED
  BY <1>1, <1>2

(* ... and so for every finite set.                                                    *)
LEMMA SumSplits ==
    ASSUME NEW w, NEW S, IsFiniteSet(S), Integers(w, S)
    PROVE  Splits(w, S)
<1> DEFINE N == {n \in Nat : \A T \in SUBSET S : Cardinality(T) < n => Splits(w, T)}
<1>1. 0 \in N
  BY FS_Subset, FS_CardinalityType
<1>2. ASSUME NEW n \in Nat, n \in N PROVE n + 1 \in N
  <2> SUFFICES ASSUME NEW T \in SUBSET S, Cardinality(T) < n + 1 PROVE Splits(w, T)
    OBVIOUS
  <2>1. IsFiniteSet(T) /\ Cardinality(T) \in Nat
    BY FS_Subset, FS_CardinalityType
  <2>2. \A t \in SUBSET T : t # T => Splits(w, t)
    <3> SUFFICES ASSUME NEW t \in SUBSET T, t # T PROVE Splits(w, t)
      OBVIOUS
    <3>1. Cardinality(t) \in Nat /\ Cardinality(t) < Cardinality(T)
      BY <2>1, SmallerSubset
    <3>2. Cardinality(t) < n /\ t \in SUBSET S
      BY <2>1, <3>1
    <3> QED
      BY <1>2, <3>2
  <2>3. Integers(w, T)
    BY DEF Integers
  <2> QED
    BY <2>1, <2>2, <2>3, SplitsMore
<1> HIDE DEF N
<1>3. Cardinality(S) \in Nat
  BY FS_CardinalityType
<1>4. Cardinality(S) + 1 \in N
  BY <1>1, <1>2, <1>3, AllNumbers
<1> QED
  BY <1>3, <1>4 DEF N

(* A sum of integers is an integer.                                                    *)
THEOREM SumIsInteger ==
    ASSUME NEW w, NEW S, IsFiniteSet(S), \A x \in S : w[x] \in Int
    PROVE  SumFunctionOnSet(w, S) \in Int
BY SumSplits DEF Integers, Splits

(* An element may be taken out of the sum ...                                          *)
THEOREM SumWithout ==
    ASSUME NEW w, NEW S, IsFiniteSet(S), \A x \in S : w[x] \in Int, NEW x \in S
    PROVE  SumFunctionOnSet(w, S) = w[x] + SumFunctionOnSet(w, S \ {x})
BY SumSplits DEF Integers, Splits

(* ... and one be added to it.                                                         *)
THEOREM SumWith ==
    ASSUME NEW w, NEW S, IsFiniteSet(S), \A y \in S : w[y] \in Int, NEW x, x \notin S, w[x] \in Int
    PROVE  SumFunctionOnSet(w, S \cup {x}) = w[x] + SumFunctionOnSet(w, S)
<1> DEFINE T == S \cup {x}
<1>1. IsFiniteSet(T) /\ x \in T /\ T \ {x} = S
  BY FS_AddElement
<1>2. \A y \in T : w[y] \in Int
  OBVIOUS
<1> HIDE DEF T
<1>3. SumFunctionOnSet(w, T) = w[x] + SumFunctionOnSet(w, T \ {x})
  BY <1>1, <1>2, SumWithout
<1> QED
  BY <1>1, <1>3 DEF T

(* Functions that agree on a set have the same sum.                                    *)
THEOREM SumOfEqual ==
    ASSUME NEW S, IsFiniteSet(S), NEW v, NEW w,
           \A x \in S : w[x] \in Int /\ v[x] = w[x]
    PROVE  SumFunctionOnSet(v, S) = SumFunctionOnSet(w, S)
<1> DEFINE F == {T \in SUBSET S : SumFunctionOnSet(v, T) = SumFunctionOnSet(w, T)}
<1>1. {} \in F
  BY SumEmpty
<1>2. ASSUME NEW T \in SUBSET S, NEW x \in S \ T, T \in F PROVE T \cup {x} \in F
  <2>1. IsFiniteSet(T)
    BY FS_Subset
  <2>2. SumFunctionOnSet(v, T \cup {x}) = v[x] + SumFunctionOnSet(v, T)
    BY <2>1, SumWith
  <2>3. SumFunctionOnSet(w, T \cup {x}) = w[x] + SumFunctionOnSet(w, T)
    BY <2>1, SumWith
  <2> QED
    BY <1>2, <2>2, <2>3
<1> HIDE DEF F
<1>3. S \in F
  BY <1>1, <1>2, AllSubsets
<1> QED
  BY <1>3 DEF F

(* A function that is at most another one has at most its sum.                         *)
THEOREM SumOfLess ==
    ASSUME NEW S, IsFiniteSet(S), NEW v, NEW w,
           \A x \in S : v[x] \in Int /\ w[x] \in Int /\ v[x] <= w[x]
    PROVE  SumFunctionOnSet(v, S) <= SumFunctionOnSet(w, S)
<1> DEFINE F == {T \in SUBSET S : SumFunctionOnSet(v, T) <= SumFunctionOnSet(w, T)}
<1>1. {} \in F
  BY SumEmpty
<1>2. ASSUME NEW T \in SUBSET S, NEW x \in S \ T, T \in F PROVE T \cup {x} \in F
  <2>1. IsFiniteSet(T)
    BY FS_Subset
  <2>2. SumFunctionOnSet(v, T \cup {x}) = v[x] + SumFunctionOnSet(v, T)
    BY <2>1, SumWith
  <2>3. SumFunctionOnSet(w, T \cup {x}) = w[x] + SumFunctionOnSet(w, T)
    BY <2>1, SumWith
  <2>4. SumFunctionOnSet(v, T) \in Int /\ SumFunctionOnSet(w, T) \in Int
    BY <2>1, SumIsInteger
  <2> QED
    BY <1>2, <2>2, <2>3, <2>4
<1> HIDE DEF F
<1>3. S \in F
  BY <1>1, <1>2, AllSubsets
<1> QED
  BY <1>3 DEF F

(* A sum of numbers that are not negative is not.                                      *)
THEOREM SumIsNatural ==
    ASSUME NEW S, IsFiniteSet(S), NEW w, \A x \in S : w[x] \in Nat
    PROVE  SumFunctionOnSet(w, S) \in Nat
<1> DEFINE F == {T \in SUBSET S : SumFunctionOnSet(w, T) \in Nat}
<1>1. {} \in F
  BY SumEmpty
<1>2. ASSUME NEW T \in SUBSET S, NEW x \in S \ T, T \in F PROVE T \cup {x} \in F
  <2>1. IsFiniteSet(T)
    BY FS_Subset
  <2>2. SumFunctionOnSet(w, T \cup {x}) = w[x] + SumFunctionOnSet(w, T)
    BY <2>1, SumWith
  <2> QED
    BY <1>2, <2>2
<1> HIDE DEF F
<1>3. S \in F
  BY <1>1, <1>2, AllSubsets
<1> QED
  BY <1>3 DEF F

(* A function that changes at one element changes the sum by the difference.            *)
THEOREM SumOfChanged ==
    ASSUME NEW S, IsFiniteSet(S), NEW v, NEW w, NEW x \in S,
           \A y \in S : v[y] \in Int /\ w[y] \in Int,
           \A y \in S \ {x} : v[y] = w[y]
    PROVE  SumFunctionOnSet(v, S) = SumFunctionOnSet(w, S) - w[x] + v[x]
<1>1. IsFiniteSet(S \ {x})
  BY FS_Subset
<1>2. SumFunctionOnSet(v, S \ {x}) = SumFunctionOnSet(w, S \ {x})
  BY <1>1, SumOfEqual
<1>3. SumFunctionOnSet(v, S) = v[x] + SumFunctionOnSet(v, S \ {x})
  BY SumWithout
<1>4. SumFunctionOnSet(w, S) = w[x] + SumFunctionOnSet(w, S \ {x})
  BY SumWithout
<1>5. SumFunctionOnSet(w, S \ {x}) \in Int
  BY <1>1, SumIsInteger
<1> QED
  BY <1>2, <1>3, <1>4, <1>5

(* One more of the same.                                                                *)
LEMMA OneMoreTime ==
    ASSUME NEW k \in Int, NEW n \in Nat
    PROVE  k * (n + 1) = k * n + k /\ k * n \in Int
OBVIOUS

(* A sum of terms of at most k is at most k for each of them.                            *)
THEOREM SumOfAtMost ==
    ASSUME NEW S, IsFiniteSet(S), NEW w, NEW k \in Int,
           \A x \in S : w[x] \in Int /\ w[x] <= k
    PROVE  SumFunctionOnSet(w, S) <= k * Cardinality(S)
<1> DEFINE F == {T \in SUBSET S : SumFunctionOnSet(w, T) <= k * Cardinality(T)}
<1>1. {} \in F
  BY SumEmpty, FS_EmptySet
<1>2. ASSUME NEW T \in SUBSET S, NEW x \in S \ T, T \in F PROVE T \cup {x} \in F
  <2>1. IsFiniteSet(T)
    BY FS_Subset
  <2>2. SumFunctionOnSet(w, T \cup {x}) = w[x] + SumFunctionOnSet(w, T)
    BY <2>1, SumWith
  <2>3. SumFunctionOnSet(w, T) \in Int
    BY <2>1, SumIsInteger
  <2>4. Cardinality(T) \in Nat /\ Cardinality(T \cup {x}) = Cardinality(T) + 1
    BY <2>1, FS_AddElement, FS_CardinalityType
  <2>5. k * (Cardinality(T) + 1) = k * Cardinality(T) + k /\ k * Cardinality(T) \in Int
    BY <2>4, OneMoreTime
  <2> QED
    BY <1>2, <2>2, <2>3, <2>4, <2>5
<1> HIDE DEF F
<1>3. S \in F
  BY <1>1, <1>2, AllSubsets
<1> QED
  BY <1>3 DEF F

(* The sum of two functions.                                                            *)
THEOREM SumOfSums ==
    ASSUME NEW S, IsFiniteSet(S), NEW u, NEW v, NEW w,
           \A x \in S : u[x] \in Int /\ v[x] \in Int /\ w[x] = u[x] + v[x]
    PROVE  SumFunctionOnSet(w, S) = SumFunctionOnSet(u, S) + SumFunctionOnSet(v, S)
<1> DEFINE F == {T \in SUBSET S :
                    SumFunctionOnSet(w, T) = SumFunctionOnSet(u, T) + SumFunctionOnSet(v, T)}
<1>1. {} \in F
  BY SumEmpty
<1>2. ASSUME NEW T \in SUBSET S, NEW x \in S \ T, T \in F PROVE T \cup {x} \in F
  <2>1. IsFiniteSet(T)
    BY FS_Subset
  <2>2. /\ SumFunctionOnSet(w, T \cup {x}) = w[x] + SumFunctionOnSet(w, T)
        /\ SumFunctionOnSet(u, T \cup {x}) = u[x] + SumFunctionOnSet(u, T)
        /\ SumFunctionOnSet(v, T \cup {x}) = v[x] + SumFunctionOnSet(v, T)
    BY <2>1, SumWith
  <2>3. SumFunctionOnSet(u, T) \in Int /\ SumFunctionOnSet(v, T) \in Int
    BY <2>1, SumIsInteger
  <2> QED
    BY <1>2, <2>2, <2>3
<1> HIDE DEF F
<1>3. S \in F
  BY <1>1, <1>2, AllSubsets
<1> QED
  BY <1>3 DEF F

(* The sum of the opposite terms is the opposite sum. *)
THEOREM SumOfOpposites ==
    ASSUME NEW S, IsFiniteSet(S), NEW v, NEW w, \A x \in S : v[x] \in Int /\ w[x] = -v[x]
    PROVE  SumFunctionOnSet(v, S) \in Int /\ SumFunctionOnSet(w, S) = -SumFunctionOnSet(v, S)
<1> DEFINE zero == [x \in S |-> 0]
           F == {T \in SUBSET S : SumFunctionOnSet(zero, T) = 0}
<1>1. {} \in F
  BY SumEmpty
<1>2. ASSUME NEW T \in SUBSET S, NEW x \in S \ T, T \in F PROVE T \cup {x} \in F
  <2>1. IsFiniteSet(T)
    BY FS_Subset
  <2>2. \A y \in T \cup {x} : zero[y] = 0
    OBVIOUS
  <2> HIDE DEF zero
  <2>3. SumFunctionOnSet(zero, T \cup {x}) = zero[x] + SumFunctionOnSet(zero, T)
    BY <2>1, <2>2, SumWith
  <2> QED BY <1>2, <2>2, <2>3
<1> HIDE DEF F
<1>3. S \in F
  BY <1>1, <1>2, AllSubsets
<1>4. SumFunctionOnSet(zero, S) = 0
  BY <1>3 DEF F
<1>5. \A x \in S : v[x] \in Int /\ w[x] \in Int /\ zero[x] = v[x] + w[x]
  OBVIOUS
<1> HIDE DEF zero
<1>6. SumFunctionOnSet(zero, S) = SumFunctionOnSet(v, S) + SumFunctionOnSet(w, S)
  BY <1>5, SumOfSums
<1>7. SumFunctionOnSet(v, S) \in Int /\ SumFunctionOnSet(w, S) \in Int
  BY <1>5, SumIsInteger
<1> QED BY <1>4, <1>6, <1>7

(* A part of a sum of numbers that are not negative is at most the whole, and is the    *)
(* whole when what is left out is zero.                                                 *)
THEOREM SumOfPart ==
    ASSUME NEW S, IsFiniteSet(S), NEW R \in SUBSET S, NEW w, \A x \in S : w[x] \in Nat
    PROVE  /\ SumFunctionOnSet(w, R) <= SumFunctionOnSet(w, S)
           /\ (\A x \in S \ R : w[x] = 0) => SumFunctionOnSet(w, R) = SumFunctionOnSet(w, S)
<1> DEFINE F == {T \in SUBSET (S \ R) :
                    /\ SumFunctionOnSet(w, R) <= SumFunctionOnSet(w, R \cup T)
                    /\ (\A x \in S \ R : w[x] = 0) =>
                          SumFunctionOnSet(w, R) = SumFunctionOnSet(w, R \cup T)}
<1>1. IsFiniteSet(R) /\ SumFunctionOnSet(w, R) \in Int
  BY FS_Subset, SumIsInteger
<1>2. {} \in F
  BY <1>1
<1>3. ASSUME NEW T \in SUBSET (S \ R), NEW x \in (S \ R) \ T, T \in F PROVE T \cup {x} \in F
  <2>1. IsFiniteSet(R \cup T) /\ x \notin R \cup T
    BY FS_Subset
  <2>2. SumFunctionOnSet(w, (R \cup T) \cup {x}) = w[x] + SumFunctionOnSet(w, R \cup T)
    BY <2>1, SumWith
  <2>3. SumFunctionOnSet(w, R \cup T) \in Int
    BY <2>1, SumIsInteger
  <2>4. (R \cup T) \cup {x} = R \cup (T \cup {x})
    OBVIOUS
  <2> QED
    BY <1>1, <1>3, <2>2, <2>3, <2>4
<1> HIDE DEF F
<1>4. S \ R \in F
  <2>1. IsFiniteSet(S \ R)
    BY FS_Subset
  <2> QED
    BY <1>2, <1>3, <2>1, AllSubsets
<1>5. R \cup (S \ R) = S
  OBVIOUS
<1> QED
  BY <1>4, <1>5 DEF F

(* A sum over two parts of a set.                                                      *)
THEOREM SumOfParts ==
    ASSUME NEW S, IsFiniteSet(S), NEW R \in SUBSET S, NEW w, \A x \in S : w[x] \in Int
    PROVE  SumFunctionOnSet(w, S) = SumFunctionOnSet(w, R) + SumFunctionOnSet(w, S \ R)
<1> DEFINE F == {T \in SUBSET (S \ R) :
                    SumFunctionOnSet(w, R \cup T)
                        = SumFunctionOnSet(w, R) + SumFunctionOnSet(w, T)}
<1>1. IsFiniteSet(R) /\ IsFiniteSet(S \ R)
  BY FS_Subset
<1>2. {} \in F
  <2>1. SumFunctionOnSet(w, R) \in Int
    BY <1>1, SumIsInteger
  <2> QED BY <2>1, SumEmpty
<1>3. ASSUME NEW T \in SUBSET (S \ R), NEW x \in (S \ R) \ T, T \in F PROVE T \cup {x} \in F
  <2>1. IsFiniteSet(T) /\ IsFiniteSet(R \cup T)
    BY <1>1, FS_Subset, FS_Union
  <2>2. SumFunctionOnSet(w, T \cup {x}) = w[x] + SumFunctionOnSet(w, T)
    BY <2>1, SumWith
  <2>3. R \cup (T \cup {x}) = (R \cup T) \cup {x} /\ x \notin R \cup T
    OBVIOUS
  <2>4. SumFunctionOnSet(w, R \cup (T \cup {x})) = w[x] + SumFunctionOnSet(w, R \cup T)
    <3>1. (\A y \in R \cup T : w[y] \in Int) /\ w[x] \in Int
      OBVIOUS
    <3> QED BY <2>1, <2>3, <3>1, SumWith
  <2>5. /\ SumFunctionOnSet(w, R) \in Int /\ SumFunctionOnSet(w, T) \in Int /\ w[x] \in Int
    <3>1. (\A y \in R : w[y] \in Int) /\ (\A y \in T : w[y] \in Int)
      OBVIOUS
    <3> QED BY <1>1, <2>1, <3>1, SumIsInteger
  <2>6. SumFunctionOnSet(w, R \cup T) = SumFunctionOnSet(w, R) + SumFunctionOnSet(w, T)
    BY <1>3
  <2>7. SumFunctionOnSet(w, R \cup (T \cup {x}))
          = SumFunctionOnSet(w, R) + SumFunctionOnSet(w, T \cup {x})
    BY <2>2, <2>4, <2>5, <2>6
  <2> QED BY <2>7
<1> HIDE DEF F
<1>4. S \ R \in F
  BY <1>1, <1>2, <1>3, AllSubsets
<1>5. R \cup (S \ R) = S
  OBVIOUS
<1> QED BY <1>4, <1>5 DEF F

(* A sum over a function's own domain.                                                 *)
LEMMA SumOfFunction ==
    ASSUME NEW f
    PROVE  SumFunction(f) = SumFunctionOnSet(f, DOMAIN f)
BY DEF SumFunction, SumFunctionOnSet, FoldFunction

--------------------------------------------------------------------------------
(* Whole parts, rests and multiples.                                                *)

(* A number lies between two multiples, by its whole part.                           *)
LEMMA Division ==
    ASSUME NEW t \in Nat, NEW n \in Nat \ {0}
    PROVE  /\ t \div n \in Nat /\ (t \div n) * n <= t /\ t < (t \div n + 1) * n
           /\ t % n = t - (t \div n) * n
BY Z3

(* Multiples stand in the order of their factors.                                    *)
LEMMA Ordered ==
    ASSUME NEW n \in Nat \ {0}, NEW k \in Nat, NEW m \in Nat
    PROVE  /\ (k <= m) <=> (k * n <= m * n)
           /\ (k < m) <=> (k * n < m * n)
           /\ k * n \in Nat /\ (k + 1) * n = k * n + n
<1>1. k * n \in Nat /\ m * n \in Nat /\ (k + 1) * n = k * n + n
  BY Z3
<1>2. ASSUME k <= m PROVE k * n <= m * n
  <2>1. (m - k) * n \in Nat /\ m * n = k * n + (m - k) * n
    BY <1>2, Z3
  <2> QED BY <1>1, <2>1
<1>3. ASSUME k < m PROVE k * n < m * n
  <2>1. (m - k - 1) * n \in Nat /\ m * n = k * n + (m - k - 1) * n + n
    BY <1>3, Z3
  <2> QED BY <1>1, <2>1
<1>4. ASSUME m <= k PROVE m * n <= k * n
  <2>1. (k - m) * n \in Nat /\ k * n = m * n + (k - m) * n
    BY <1>4, Z3
  <2> QED BY <1>1, <2>1
<1>5. ASSUME m < k PROVE m * n < k * n
  <2>1. (k - m - 1) * n \in Nat /\ k * n = m * n + (k - m - 1) * n + n
    BY <1>5, Z3
  <2> QED BY <1>1, <2>1
<1> QED BY <1>1, <1>2, <1>3, <1>4, <1>5

(* A multiple leaves no rest, and taking one away changes none.                      *)
LEMMA Multiple ==
    ASSUME NEW n \in Nat \ {0}, NEW q \in Nat
    PROVE  q * n \in Nat /\ (q * n) % n = 0
BY Z3

LEMMA SameRest ==
    ASSUME NEW n \in Nat \ {0}, NEW f \in Nat, f % n = 0, NEW x \in Nat, f <= x
    PROVE  ((x - f) % n = 0) <=> (x % n = 0)
<1> DEFINE p == f \div n
           q == x \div n
           r == (x - f) \div n
<1>1. p \in Nat /\ f = p * n
  BY Division
<1>2. q \in Nat /\ x % n = x - q * n
  BY Division
<1>3. x - f \in Nat /\ r \in Nat /\ (x - f) % n = (x - f) - r * n
  <2>1. x - f \in Nat
    OBVIOUS
  <2> QED BY <2>1, Division
<1> HIDE DEF p, q, r
<1>4. ASSUME x % n = 0 PROVE (x - f) % n = 0
  <2>1. x - f = (q - p) * n
    BY <1>1, <1>2, <1>4, Z3
  <2>2. q - p \in Nat
    <3> SUFFICES ASSUME q < p PROVE FALSE
      BY <1>1, <1>2
    <3>1. (p - q - 1) * n \in Nat /\ p * n = q * n + (p - q - 1) * n + n
      BY <1>1, <1>2, Z3
    <3> QED BY <1>1, <1>2, <1>4, <3>1, Z3
  <2> QED BY <2>1, <2>2, Multiple
<1>5. ASSUME (x - f) % n = 0 PROVE x % n = 0
  <2>1. x = (p + r) * n
    BY <1>1, <1>3, <1>5, Z3
  <2> QED BY <1>1, <1>3, <2>1, Multiple
<1> QED BY <1>4, <1>5
================================================================================
