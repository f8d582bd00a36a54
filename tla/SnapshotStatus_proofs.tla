------------------------ MODULE SnapshotStatus_proofs ------------------------
(***************************************************************************)
(* Proofs about the status algorithm for every list of reports and every   *)
(* value of the thresholds.  The weighted mean is made of sums over sets   *)
(* of reports, so the first part is what sums over finite sets obey.       *)
(***************************************************************************)
EXTENDS SnapshotStatus, FiniteSetTheorems, WellFoundedInduction, TLAPS

-----------------------------------------------------------------------------
(* Finite sets. *)

\* A set of subsets of a finite set that is not empty has a member with no other in it.
LEMMA SmallestSubset ==
  ASSUME NEW S, IsFiniteSet(S), NEW B \in SUBSET (SUBSET S), B # {}
  PROVE  \E T \in B : \A U \in B : U \subseteq T => U = T
<1>1. B \subseteq FiniteSubsetsOf(S)
  BY FS_Subset DEF FiniteSubsetsOf
<1>2. PICK T \in B : \A U \in B : ~ (<<U, T>> \in StrictSubsetOrdering(S))
  BY <1>1, FS_StrictSubsetOrderingWellFounded, WFMin, Zenon
<1>3. ASSUME NEW U \in B, U \subseteq T, U # T PROVE FALSE
  <2>1. <<U, T>> \in StrictSubsetOrdering(S)
    BY <1>3 DEF StrictSubsetOrdering
  <2> QED
    BY <1>2, <2>1
<1> QED
  BY <1>3

\* Induction over the subsets of a finite set, with the set of those of which it holds.
LEMMA FiniteSetInduction ==
  ASSUME NEW S, IsFiniteSet(S), NEW G,
         \A T \in SUBSET S : (\A U \in SUBSET T : U # T => U \in G) => T \in G
  PROVE  S \in G
<1> DEFINE Bad == {T \in SUBSET S : T \notin G}
<1> SUFFICES ASSUME S \notin G PROVE FALSE
  OBVIOUS
<1>1. PICK T \in Bad : \A U \in Bad : U \subseteq T => U = T
  <2>1. Bad \in SUBSET (SUBSET S) /\ Bad # {}
    OBVIOUS
  <2> HIDE DEF Bad
  <2> QED
    BY <2>1, SmallestSubset
<1> QED
  BY <1>1

-----------------------------------------------------------------------------
(* Sums: that the recursion of SumFunctionOnSet has a solution, which is    *)
(* unique, so that a sum is the element picked first and the sum of the     *)
(* others.                                                                  *)

Picked(T) == CHOOSE x \in T : TRUE

\* g is the recursive function that sums f up, as Folds.tla defines it
IsIter(f, g, S) ==
  g = [s \in SUBSET S |-> IF s = {} THEN 0 ELSE f[Picked(s)] + g[s \ {Picked(s)}]]

\* the equation of one subset
Equation(f, g, s) ==
  g[s] = IF s = {} THEN 0 ELSE f[Picked(s)] + g[s \ {Picked(s)}]

\* g adds up f on every subset of S
Adds(f, g, S) == \A s \in SUBSET S : Equation(f, g, s)

\* A sum is what its iteration gives for the whole set.
LEMMA SumIsIteration ==
  ASSUME NEW f, NEW S
  PROVE  SumFunctionOnSet(f, S) = (CHOOSE g : IsIter(f, g, S))[S]
  BY DEF SumFunctionOnSet, FoldFunctionOnSet, MapThenFoldSet, IsIter, Picked

\* The element picked from a set is in it.
LEMMA PickedIsIn == \A s : s # {} => Picked(s) \in s
  BY Zenon DEF Picked

\* An iteration over S adds up f on every subset of S.
LEMMA IterAdds ==
  ASSUME NEW f, NEW g, NEW S, IsIter(f, g, S), NEW T \in SUBSET S
  PROVE  Adds(f, g, T)
<1>1. \A s \in SUBSET S : Equation(f, g, s)
  BY Zenon DEF IsIter, Equation
<1> QED
  BY <1>1 DEF Adds

\* Whatever adds up f gives the same sum.
LEMMA IterUnique ==
  ASSUME NEW f, NEW g, NEW h, NEW S, IsFiniteSet(S), Adds(f, g, S), Adds(f, h, S)
  PROVE  g[S] = h[S]
<1> DEFINE G == {T \in SUBSET S : g[T] = h[T]}
<1>1. ASSUME NEW T \in SUBSET S, \A U \in SUBSET T : U # T => U \in G
      PROVE  T \in G
  <2>1. Equation(f, g, T) /\ Equation(f, h, T)
    BY DEF Adds
  <2>2. CASE T = {}
    BY <2>1, <2>2 DEF Equation
  <2>3. CASE T # {}
    <3>1. Picked(T) \in T
      BY <2>3, PickedIsIn
    <3>2. g[T \ {Picked(T)}] = h[T \ {Picked(T)}]
      BY <1>1, <3>1
    <3> QED
      BY <2>1, <2>3, <3>2 DEF Equation
  <2> QED
    BY <2>2, <2>3
<1> HIDE DEF G
<1>2. S \in G
  BY <1>1, FiniteSetInduction
<1> QED
  BY <1>2 DEF G

\* Every finite set has an iteration: it is put together from the iterations over its
\* smaller subsets.
LEMMA IterExists ==
  ASSUME NEW f, NEW S, IsFiniteSet(S)
  PROVE  \E g : IsIter(f, g, S)
<1> DEFINE G == {T \in SUBSET S : \E g : IsIter(f, g, T)}
           Iter(T) == CHOOSE g : IsIter(f, g, T)
           v(T) == Iter(T)[T]
<1>1. ASSUME NEW T \in SUBSET S, \A U \in SUBSET T : U # T => U \in G
      PROVE  T \in G
  <2> DEFINE g == [s \in SUBSET T |-> IF s = {} THEN 0 ELSE f[Picked(s)] + v(s \ {Picked(s)})]
  <2>1. ASSUME NEW U \in SUBSET T, U # T, NEW W \in SUBSET U
        PROVE  Adds(f, Iter(U), W)
    <3>1. IsIter(f, Iter(U), U)
      BY <1>1, <2>1, Zenon
    <3> HIDE DEF Iter
    <3> QED
      BY <3>1, IterAdds
  <2>2. ASSUME NEW U \in SUBSET T, U # T, NEW W \in SUBSET U PROVE Iter(U)[W] = v(W)
    <3>1. Adds(f, Iter(U), W)
      BY <2>1, <2>2
    <3>2. Adds(f, Iter(W), W)
      <4>1. W # T /\ W \in SUBSET T /\ W \in SUBSET W
        BY <2>2
      <4> HIDE DEF Iter
      <4> QED
        BY <4>1, <2>1
    <3>3. IsFiniteSet(W)
      BY FS_Subset
    <3> HIDE DEF Iter
    <3>4. Iter(U)[W] = Iter(W)[W]
      BY <3>1, <3>2, <3>3, IterUnique
    <3> QED
      BY <3>4
  <2>3. \A s \in SUBSET T : s # {} => g[s \ {Picked(s)}] = v(s \ {Picked(s)})
    <3> SUFFICES ASSUME NEW s \in SUBSET T, s # {}
                 PROVE  g[s \ {Picked(s)}] = v(s \ {Picked(s)})
      OBVIOUS
    <3> DEFINE u == s \ {Picked(s)}
    <3>1. u \in SUBSET T /\ u # T /\ u \in SUBSET u
      BY PickedIsIn
    <3>2. Equation(f, Iter(u), u)
      <4>1. Adds(f, Iter(u), u)
        <5> HIDE DEF Iter, u
        <5> QED
          BY <2>1, <3>1
      <4> QED
        BY <4>1, Zenon DEF Adds
    <3>3. u # {} => u \ {Picked(u)} \in SUBSET u /\ Iter(u)[u \ {Picked(u)}] = v(u \ {Picked(u)})
      BY <2>2, <3>1, Zenon
    <3>4. g[u] = IF u = {} THEN 0 ELSE f[Picked(u)] + v(u \ {Picked(u)})
      BY <3>1
    <3> HIDE DEF Iter, u, g
    <3> QED
      BY <3>2, <3>3, <3>4 DEF Equation, u
  <2>4. IsIter(f, g, T)
    <3> DEFINE h == [s \in SUBSET T |-> IF s = {} THEN 0 ELSE f[Picked(s)] + g[s \ {Picked(s)}]]
    <3> HIDE DEF v
    <3>1. \A s \in SUBSET T : g[s] = h[s]
      BY <2>3
    <3>2. g = h
      BY <3>1
    <3> QED
      BY <3>2 DEF IsIter
  <2> QED
    BY <2>4
<1> HIDE DEF G
<1>2. S \in G
  BY <1>1, FiniteSetInduction
<1> QED
  BY <1>2 DEF G

\* The equation that defines a sum holds of it.
LEMMA SumUnfolds ==
  ASSUME NEW f, NEW S, IsFiniteSet(S)
  PROVE  /\ S = {} => SumFunctionOnSet(f, S) = 0
         /\ S # {} => SumFunctionOnSet(f, S) =
                        f[Picked(S)] + SumFunctionOnSet(f, S \ {Picked(S)})
<1> DEFINE Iter(T) == CHOOSE g : IsIter(f, g, T)
           P == S \ {Picked(S)}
<1>1. IsFiniteSet(P) /\ P \in SUBSET S /\ S \in SUBSET S
  BY FS_Subset
<1>2. IsIter(f, Iter(S), S) /\ IsIter(f, Iter(P), P)
  BY <1>1, IterExists, Zenon
<1> HIDE DEF Iter
<1>3. Adds(f, Iter(S), P) /\ Adds(f, Iter(P), P) /\ Adds(f, Iter(S), S)
  BY <1>1, <1>2, IterAdds
<1>4. Iter(S)[P] = Iter(P)[P]
  BY <1>1, <1>3, IterUnique
<1>5. SumFunctionOnSet(f, S) = Iter(S)[S] /\ SumFunctionOnSet(f, P) = Iter(P)[P]
  BY SumIsIteration, Zenon DEF Iter
<1>6. Equation(f, Iter(S), S)
  BY <1>1, <1>3 DEF Adds
<1> QED
  BY <1>4, <1>5, <1>6, Zenon DEF Equation

\* The empty sum is zero.
LEMMA SumOfNone == \A f : SumFunctionOnSet(f, {}) = 0
  BY FS_EmptySet, SumUnfolds, Zenon

\* A sum of integers is an integer, and any element can be taken out of it.
LEMMA SumTakesOut ==
  ASSUME NEW f, NEW S, IsFiniteSet(S), \A s \in S : f[s] \in Int
  PROVE  /\ SumFunctionOnSet(f, S) \in Int
         /\ \A x \in S : SumFunctionOnSet(f, S) = f[x] + SumFunctionOnSet(f, S \ {x})
<1> DEFINE Good(T) == /\ SumFunctionOnSet(f, T) \in Int
                      /\ \A x \in T : SumFunctionOnSet(f, T) =
                                        f[x] + SumFunctionOnSet(f, T \ {x})
           G == {T \in SUBSET S : Good(T)}
<1>1. ASSUME NEW T \in SUBSET S, \A U \in SUBSET T : U # T => U \in G
      PROVE  T \in G
  <2>1. IsFiniteSet(T)
    BY FS_Subset
  <2>2. CASE T = {}
    <3>1. SumFunctionOnSet(f, T) = 0
      BY <2>1, <2>2, SumUnfolds
    <3> QED
      BY <2>2, <3>1
  <2>3. CASE T # {}
    <3> DEFINE p == Picked(T)
               Sum(U) == SumFunctionOnSet(f, U)
    <3>1. p \in T
      BY <2>3, PickedIsIn
    <3>2. Sum(T) = f[p] + Sum(T \ {p})
      BY <2>1, <2>3, SumUnfolds
    <3>3. \A x \in T : Good(T \ {x})
      BY <1>1
    <3> HIDE DEF p, Sum
    <3>4. \A x \in T : Sum(T \ {x}) \in Int /\ \A y \in T \ {x} :
                         Sum(T \ {x}) = f[y] + Sum((T \ {x}) \ {y})
      BY <3>3 DEF Sum
    <3>5. ASSUME NEW x \in T PROVE Sum(T) = f[x] + Sum(T \ {x})
      <4>1. CASE x = p
        BY <3>2, <4>1
      <4>2. CASE x # p
        <5>1. Sum(T \ {p}) = f[x] + Sum((T \ {p}) \ {x})
          BY <3>1, <3>4, <4>2
        <5>2. Sum(T \ {x}) = f[p] + Sum((T \ {x}) \ {p})
          BY <3>1, <3>4, <4>2
        <5>3. (T \ {p}) \ {x} = (T \ {x}) \ {p}
          OBVIOUS
        <5>4. Sum((T \ {p}) \ {x}) \in Int
          <6>1. (T \ {p}) \ {x} \in SUBSET T /\ (T \ {p}) \ {x} # T
            BY <3>1
          <6> QED
            BY <1>1, <6>1 DEF Sum
        <5>5. f[p] \in Int /\ f[x] \in Int
          BY <3>1
        <5>6. \A a, b, c \in Int : a + (b + c) = b + (a + c)
          OBVIOUS
        <5>7. f[p] + (f[x] + Sum((T \ {p}) \ {x})) = f[x] + (f[p] + Sum((T \ {p}) \ {x}))
          BY <5>4, <5>5, <5>6, Zenon
        <5> QED
          BY <3>2, <5>1, <5>2, <5>3, <5>7, Zenon
      <4> QED
        BY <4>1, <4>2
    <3>6. Sum(T) \in Int
      BY <3>1, <3>2, <3>4
    <3> QED
      BY <3>5, <3>6 DEF Sum
  <2> QED
    BY <2>2, <2>3
<1> HIDE DEF G
<1>2. S \in G
  BY <1>1, FiniteSetInduction
<1> QED
  BY <1>2 DEF G

\* Induction over a finite set, element by element.
LEMMA ElementInduction ==
  ASSUME NEW S, IsFiniteSet(S), NEW G, {} \in G,
         \A T \in SUBSET S : \A x \in T : T \ {x} \in G => T \in G
  PROVE  S \in G
<1>1. ASSUME NEW T \in SUBSET S, \A U \in SUBSET T : U # T => U \in G
      PROVE  T \in G
  <2>1. CASE T = {}
    BY <2>1
  <2>2. CASE T # {}
    <3>1. PICK x \in T : TRUE
      BY <2>2
    <3>2. T \ {x} \in SUBSET T /\ T \ {x} # T
      OBVIOUS
    <3>3. T \ {x} \in G
      BY <1>1, <3>2
    <3> QED
      BY <3>3
  <2> QED
    BY <2>1, <2>2
<1> QED
  BY <1>1, FiniteSetInduction

\* A sum depends on the values of the function on the set.
LEMMA SumSame ==
  ASSUME NEW f, NEW g, NEW S, IsFiniteSet(S), \A s \in S : f[s] \in Int /\ g[s] = f[s]
  PROVE  SumFunctionOnSet(g, S) = SumFunctionOnSet(f, S)
<1> DEFINE G == {T \in SUBSET S : SumFunctionOnSet(g, T) = SumFunctionOnSet(f, T)}
<1>1. {} \in G
  BY SumOfNone
<1>2. ASSUME NEW T \in SUBSET S, NEW x \in T, T \ {x} \in G PROVE T \in G
  <2>1. IsFiniteSet(T) /\ \A s \in T : f[s] \in Int /\ g[s] \in Int
    BY FS_Subset
  <2>2. /\ SumFunctionOnSet(f, T) = f[x] + SumFunctionOnSet(f, T \ {x})
        /\ SumFunctionOnSet(g, T) = g[x] + SumFunctionOnSet(g, T \ {x})
    BY <2>1, SumTakesOut
  <2> QED
    BY <1>2, <2>2
<1> HIDE DEF G
<1>3. S \in G
  BY <1>1, <1>2, ElementInduction
<1> QED
  BY <1>3 DEF G

\* What bounds each element by a multiple of another's bounds the sums alike.
LEMMA SumScaled ==
  ASSUME NEW f, NEW g, NEW k \in Int, NEW S, IsFiniteSet(S),
         \A s \in S : f[s] \in Int /\ g[s] \in Int /\ f[s] <= k * g[s]
  PROVE  SumFunctionOnSet(f, S) <= k * SumFunctionOnSet(g, S)
<1> DEFINE F(T) == SumFunctionOnSet(f, T)
           H(T) == SumFunctionOnSet(g, T)
           G == {T \in SUBSET S : F(T) <= k * H(T)}
<1>1. {} \in G
  BY SumOfNone
<1>2. ASSUME NEW T \in SUBSET S, NEW x \in T, T \ {x} \in G PROVE T \in G
  <2>1. IsFiniteSet(T) /\ IsFiniteSet(T \ {x})
    BY FS_Subset
  <2>2. F(T) = f[x] + F(T \ {x}) /\ H(T) = g[x] + H(T \ {x})
    BY <2>1, SumTakesOut
  <2>3. F(T \ {x}) \in Int /\ H(T \ {x}) \in Int
    BY <2>1, SumTakesOut
  <2>4. F(T \ {x}) <= k * H(T \ {x})
    BY <1>2
  <2> HIDE DEF F, H
  <2>5. k * (g[x] + H(T \ {x})) = k * g[x] + k * H(T \ {x})
    BY <2>3
  <2>6. F(T) <= k * H(T)
    BY <2>2, <2>3, <2>4, <2>5
  <2> QED
    BY <2>6
<1> HIDE DEF G
<1>3. S \in G
  BY <1>1, <1>2, ElementInduction
<1> QED
  BY <1>3 DEF G

\* A sum of numbers up to k is at most k times their number.
LEMMA SumBounded ==
  ASSUME NEW f, NEW k \in Nat, NEW S, IsFiniteSet(S), \A s \in S : f[s] \in 0..k
  PROVE  SumFunctionOnSet(f, S) \in 0..(k * Cardinality(S))
<1> DEFINE F(T) == SumFunctionOnSet(f, T)
           G == {T \in SUBSET S : F(T) \in 0..(k * Cardinality(T))}
<1>1. {} \in G
  <2>1. k * 0 = 0 /\ Cardinality({}) = 0
    BY FS_EmptySet
  <2> QED
    BY <2>1, SumOfNone
<1>2. ASSUME NEW T \in SUBSET S, NEW x \in T, T \ {x} \in G PROVE T \in G
  <2>1. IsFiniteSet(T)
    BY FS_Subset
  <2>2. F(T) = f[x] + F(T \ {x})
    BY <2>1, SumTakesOut
  <2>3. Cardinality(T \ {x}) = Cardinality(T) - 1 /\ Cardinality(T) \in Nat
    BY <2>1, FS_RemoveElement, FS_CardinalityType
  <2>4. F(T \ {x}) \in 0..(k * Cardinality(T \ {x})) /\ f[x] \in 0..k
    BY <1>2
  <2> HIDE DEF F
  <2>5. k * (Cardinality(T) - 1) + k = k * Cardinality(T)
    BY <2>3
  <2> QED
    BY <2>2, <2>3, <2>4, <2>5
<1> HIDE DEF G
<1>3. S \in G
  BY <1>1, <1>2, ElementInduction
<1> QED
  BY <1>3 DEF G

\* A sum of natural numbers is not negative.
LEMMA SumNotNegative ==
  ASSUME NEW f, NEW S, IsFiniteSet(S), \A s \in S : f[s] \in Nat
  PROVE  SumFunctionOnSet(f, S) >= 0
<1> DEFINE F(T) == SumFunctionOnSet(f, T)
           G == {T \in SUBSET S : F(T) >= 0}
<1>1. {} \in G
  BY SumOfNone
<1>2. ASSUME NEW T \in SUBSET S, NEW y \in T, T \ {y} \in G PROVE T \in G
  <2>1. IsFiniteSet(T) /\ IsFiniteSet(T \ {y})
    BY FS_Subset
  <2>2. F(T) = f[y] + F(T \ {y}) /\ F(T \ {y}) \in Int
    BY <2>1, SumTakesOut
  <2>3. F(T \ {y}) >= 0
    BY <1>2
  <2>4. F(T) >= 0
    <3> HIDE DEF F
    <3> QED
      BY <2>2, <2>3
  <2> QED
    BY <2>4
<1> HIDE DEF G
<1>3. S \in G
  BY <1>1, <1>2, ElementInduction
<1> QED
  BY <1>3 DEF G

\* A sum of natural numbers, one of which is positive, is positive.
LEMMA SumPositive ==
  ASSUME NEW f, NEW S, IsFiniteSet(S), \A s \in S : f[s] \in Nat, NEW x \in S, f[x] > 0
  PROVE  SumFunctionOnSet(f, S) > 0
<1> DEFINE all == SumFunctionOnSet(f, S)
           rest == SumFunctionOnSet(f, S \ {x})
<1>1. all = f[x] + rest /\ IsFiniteSet(S \ {x}) /\ rest \in Int
  BY SumTakesOut, FS_Subset
<1>2. rest >= 0
  BY <1>1, SumNotNegative
<1> HIDE DEF all, rest
<1>3. all > 0
  BY <1>1, <1>2
<1> QED
  BY <1>3 DEF all

\* A sum with one more element.
LEMMA SumWithOneMore ==
  ASSUME NEW f, NEW g, NEW S, IsFiniteSet(S), NEW y, y \notin S, g[y] \in Int,
         \A s \in S : f[s] \in Int /\ g[s] = f[s]
  PROVE  SumFunctionOnSet(g, S \cup {y}) = SumFunctionOnSet(f, S) + g[y]
<1> DEFINE more == SumFunctionOnSet(g, S \cup {y})
           less == SumFunctionOnSet(g, S)
           same == SumFunctionOnSet(f, S)
<1>1. IsFiniteSet(S \cup {y}) /\ \A s \in S \cup {y} : g[s] \in Int
  BY FS_AddElement
<1>2. (S \cup {y}) \ {y} = S
  OBVIOUS
<1>3. more = g[y] + less
  BY <1>1, <1>2, SumTakesOut
<1>4. less = same /\ same \in Int
  BY SumSame, SumTakesOut
<1> HIDE DEF more, less, same
<1>5. more = same + g[y]
  BY <1>3, <1>4
<1> QED
  BY <1>5 DEF more, same

\* A sum with one element replaced.
LEMMA SumReplaces ==
  ASSUME NEW f, NEW g, NEW S, IsFiniteSet(S), NEW x \in S,
         NEW rest, rest = S \ {x}, NEW y, y \notin rest, NEW T, T = rest \cup {y},
         f[x] \in Int, g[y] \in Int, \A s \in rest : f[s] \in Int /\ g[s] = f[s]
  PROVE  SumFunctionOnSet(g, T) = SumFunctionOnSet(f, S) - f[x] + g[y]
<1> DEFINE old == SumFunctionOnSet(f, S)
           new == SumFunctionOnSet(g, T)
           others == SumFunctionOnSet(f, rest)
<1>1. IsFiniteSet(rest) /\ \A s \in S : f[s] \in Int
  BY FS_Subset
<1>2. SumFunctionOnSet(g, rest \cup {y}) = others + g[y]
  BY <1>1, SumWithOneMore
<1>3. new = others + g[y]
  BY <1>2
<1>4. old = f[x] + others /\ others \in Int
  BY <1>1, SumTakesOut
<1> HIDE DEF old, new, others
<1>5. new = old - f[x] + g[y]
  BY <1>3, <1>4
<1> QED
  BY <1>5 DEF old, new

-----------------------------------------------------------------------------
(* Rounding. *)

\* Nearest finds every nearest integer in its range.
LEMMA NearestIs ==
  ASSUME NEW hi \in Nat, NEW n \in Int, NEW d \in Nat \ {0}
  PROVE  \A q : q \in Nearest(hi, n, d) <=> q \in 0..hi /\ IsNearest(q, n, d)
<1>1. PICK k \in Int : k = n \div d /\ k * d <= n /\ n < k * d + d
  BY Z3
<1>2. ASSUME NEW q \in 0..hi, IsNearest(q, n, d) PROVE q \in {k, k + 1}
  <2>1. -d <= 2 * (q * d - n) /\ 2 * (q * d - n) <= d /\ q * d \in Int /\ k * d \in Int
    BY <1>2 DEF IsNearest
  <2>2. q * d > k * d - d /\ q * d < k * d + 2 * d
    BY <1>1, <2>1
  <2>3. CASE q < k
    <3>1. (k - 1 - q) * d >= 0 /\ (k - 1 - q) * d = k * d - d - q * d
      BY <2>3
    <3> QED
      BY <2>1, <2>2, <3>1
  <2>4. CASE q > k + 1
    <3>1. (q - k - 2) * d >= 0 /\ (q - k - 2) * d = q * d - k * d - 2 * d
      BY <2>4
    <3> QED
      BY <2>1, <2>2, <3>1
  <2> QED
    BY <2>3, <2>4
<1> QED
  BY <1>1, <1>2, Zenon DEF Nearest

\* The values between two bounds, one not above every nearest integer and the other not
\* below, include a nearest integer.
LEMMA NearestBetween ==
  ASSUME NEW hi \in Nat, NEW n \in Int, NEW d \in Nat \ {0},
         NEW x \in 0..hi, NEW y \in 0..hi, x <= y,
         2 * (x * d - n) <= d, -d <= 2 * (y * d - n)
  PROVE  \E q \in Nearest(hi, n, d) : x <= q /\ q <= y
<1>1. PICK k \in Int : k = n \div d /\ k * d <= n /\ n < k * d + d
  BY Z3
<1>2. x * d \in Int /\ y * d \in Int /\ k * d \in Int /\ (k + 1) * d = k * d + d
  OBVIOUS
<1>3. IsNearest(k, n, d) \/ IsNearest(k + 1, n, d)
  BY <1>1, <1>2 DEF IsNearest
<1>4. x <= k + 1
  <2> SUFFICES ASSUME x > k + 1 PROVE FALSE
    OBVIOUS
  <2>1. (x - k - 2) * d >= 0 /\ (x - k - 2) * d = x * d - k * d - 2 * d
    OBVIOUS
  <2> QED
    BY <1>1, <1>2, <2>1
<1>5. k <= y
  <2> SUFFICES ASSUME y < k PROVE FALSE
    OBVIOUS
  <2>1. (k - 1 - y) * d >= 0 /\ (k - 1 - y) * d = k * d - d - y * d
    OBVIOUS
  <2> QED
    BY <1>1, <1>2, <2>1
<1>6. CASE x <= k /\ k + 1 <= y
  <2>1. k \in 0..hi /\ k + 1 \in 0..hi
    BY <1>6
  <2>2. \A q \in 0..hi : IsNearest(q, n, d) => q \in Nearest(hi, n, d)
    BY NearestIs, Zenon
  <2>3. CASE IsNearest(k, n, d)
    <3>1. k \in Nearest(hi, n, d) /\ x <= k /\ k <= y
      BY <1>6, <2>1, <2>2, <2>3
    <3> QED
      BY <3>1
  <2>4. CASE IsNearest(k + 1, n, d)
    <3>1. k + 1 \in Nearest(hi, n, d) /\ x <= k + 1 /\ k + 1 <= y
      BY <1>6, <2>1, <2>2, <2>4
    <3> QED
      BY <3>1
  <2> QED
    BY <1>3, <2>3, <2>4
<1>7. CASE x = k + 1
  <2>1. IsNearest(k + 1, n, d)
    BY <1>1, <1>2, <1>7 DEF IsNearest
  <2>2. IsNearest(x, n, d)
    BY <1>7, <2>1
  <2>3. x \in Nearest(hi, n, d)
    BY <2>2, NearestIs, Zenon
  <2> QED
    BY <2>3
<1>8. CASE y = k
  <2>1. IsNearest(k, n, d)
    BY <1>1, <1>2, <1>8 DEF IsNearest
  <2>2. IsNearest(y, n, d)
    BY <1>8, <2>1
  <2>3. y \in Nearest(hi, n, d)
    BY <2>2, NearestIs, Zenon
  <2> QED
    BY <2>3
<1> QED
  BY <1>4, <1>5, <1>6, <1>7, <1>8

\* A quotient of the range has a nearest integer, and an even one at a tie.
LEMMA NearestExists ==
  ASSUME NEW hi \in Nat, NEW n \in Int, NEW d \in Nat \ {0}, 0 <= n, n <= hi * d
  PROVE  Nearest(hi, n, d) # {} /\ HalfEven(hi, n, d) # {}
<1>1. PICK q \in Nearest(hi, n, d) : TRUE
  BY NearestBetween
<1>2. q \in 0..hi /\ IsNearest(q, n, d)
  BY NearestIs
<1>3. q * d \in Int
  BY <1>2
<1>4. CASE q % 2 = 0 \/ 2 * (q * d - n) \notin {-d, d}
  BY <1>1, <1>4 DEF HalfEven
<1>5. CASE q % 2 = 1 /\ 2 * (q * d - n) = d
  <2>1. q >= 1 /\ (q - 1) % 2 = 0 /\ (q - 1) * d = q * d - d
    BY <1>2, <1>5
  <2>2. IsNearest(q - 1, n, d) /\ q - 1 \in 0..hi
    BY <1>2, <1>3, <1>5, <2>1 DEF IsNearest
  <2> QED
    BY <2>1, <2>2, NearestIs DEF HalfEven
<1>6. CASE q % 2 = 1 /\ 2 * (q * d - n) = -d
  <2>1. (q + 1) % 2 = 0 /\ (q + 1) * d = q * d + d
    BY <1>2, <1>6
  <2>2. q + 1 <= hi
    <3> SUFFICES ASSUME q = hi PROVE FALSE
      BY <1>2
    <3> QED
      BY <1>3, <1>6
  <2>3. IsNearest(q + 1, n, d) /\ q + 1 \in 0..hi
    BY <1>2, <1>3, <1>6, <2>1, <2>2 DEF IsNearest
  <2> QED
    BY <2>1, <2>3, NearestIs DEF HalfEven
<1>7. q % 2 \in {0, 1}
  BY <1>2
<1> QED
  BY <1>4, <1>5, <1>6, <1>7

\* Two nearest integers differ by one at most.
LEMMA NearestAreClose ==
  ASSUME NEW n \in Int, NEW d \in Nat \ {0}, NEW a \in Int, NEW b \in Int,
         IsNearest(a, n, d), IsNearest(b, n, d)
  PROVE  a - b \in -1..1
  BY DEF IsNearest

\* The hundredths nearest to a quotient are within half a unit of its nearest integer.
LEMMA HundredthsAreClose ==
  ASSUME NEW n \in Int, NEW d \in Nat \ {0}, NEW a \in Int, NEW b \in Int,
         IsNearest(a, n, d), IsNearest(b, 100 * n, d)
  PROVE  100 * a - b \in -50..50
  BY DEF IsNearest

-----------------------------------------------------------------------------
(* The weighted mean. *)

\* a finite set of reports as the table holds them
Listing(R) ==
  /\ IsFiniteSet(R)
  /\ \A r \in R : r.at \in Int /\ r.status \in ReportStatus /\ r.conf \in Confidence

\* a list that enters the mean
Scorable(S) == Listing(S) /\ \A r \in S : r.status \in Scored

\* what a report adds to each of the three sums
ReportWeight(r, t) == TemporalWeight(t - r.at)
ReportScore(r, t) == ReportWeight(r, t) * r.conf
ReportValue(r, t) == StatusValue[r.status] * ReportScore(r, t)

TotalWeight(S, t) == SumFunction([r \in S |-> ReportWeight(r, t)])
TotalScore(S, t) == SumFunction([r \in S |-> ReportScore(r, t)])
TotalValue(S, t) == SumFunction([r \in S |-> ReportValue(r, t)])

\* The loop computes these three sums.
LEMMA WeightedIsMeans ==
  \A S, t : WeightedOutcomes(S, t) = Means(TotalValue(S, t), TotalScore(S, t), TotalWeight(S, t))
<1> SUFFICES ASSUME NEW S, NEW t
             PROVE  WeightedOutcomes(S, t) =
                      Means(TotalValue(S, t), TotalScore(S, t), TotalWeight(S, t))
  OBVIOUS
<1> DEFINE weight == [r \in S |-> TemporalWeight(t - r.at)]
           score == [r \in S |-> weight[r] * r.conf]
           value == [r \in S |-> StatusValue[r.status] * score[r]]
<1>1. \A r \in S : weight[r] = ReportWeight(r, t)
  BY DEF ReportWeight
<1>2. weight = [r \in S |-> ReportWeight(r, t)]
  BY DEF ReportWeight
<1>3. score = [r \in S |-> ReportScore(r, t)]
  <2> HIDE DEF weight
  <2> QED
    BY <1>1 DEF ReportScore
<1>4. value = [r \in S |-> ReportValue(r, t)]
  <2> HIDE DEF score
  <2> QED
    BY <1>3 DEF ReportValue
<1>5. WeightedOutcomes(S, t) = Means(SumFunction(value), SumFunction(score), SumFunction(weight))
  BY DEF WeightedOutcomes
<1> HIDE DEF weight, score, value
<1> QED
  BY <1>2, <1>3, <1>4, <1>5 DEF TotalWeight, TotalScore, TotalValue

\* The weight of a report never grows with its age.
LEMMA WeightDecreases ==
  ASSUME NEW a \in Int, NEW b \in Int, a <= b
  PROVE  TemporalWeight(a) \in 15..95 /\ TemporalWeight(b) <= TemporalWeight(a)
  BY WindowsAssumption DEF TemporalWeight

\* A product of a natural number by a bounded one.
LEMMA ProductBounds ==
  /\ \A w \in 15..95, c \in 0..100 : w * c \in Nat /\ w * c <= 100 * w /\ (c > 0 => w * c > 0)
  /\ \A v \in 0..3, n \in Nat : v * n \in Nat /\ v * n <= 3 * n
  OBVIOUS

\* What a report adds is bounded as the mean requires.
LEMMA ReportTerms ==
  ASSUME NEW r, NEW t \in Int, r.at \in Int, r.conf \in Confidence, r.status \in Scored
  PROVE  /\ ReportWeight(r, t) \in 15..95
         /\ ReportScore(r, t) \in Nat /\ ReportScore(r, t) <= 100 * ReportWeight(r, t)
         /\ ReportValue(r, t) \in Nat /\ ReportValue(r, t) <= 3 * ReportScore(r, t)
         /\ StatusValue[r.status] \in 0..3
         /\ r.conf > 0 => ReportScore(r, t) > 0
<1>1. ReportWeight(r, t) \in 15..95
  <2>1. t - r.at \in Int
    OBVIOUS
  <2> QED
    BY <2>1, WeightDecreases DEF ReportWeight
<1>2. StatusValue[r.status] \in 0..3
  BY DEF StatusValue, Scored
<1>3. ReportScore(r, t) \in Nat /\ ReportScore(r, t) <= 100 * ReportWeight(r, t)
      /\ (r.conf > 0 => ReportScore(r, t) > 0)
  BY <1>1, ProductBounds DEF ReportScore, Confidence
<1>4. ReportValue(r, t) \in Nat /\ ReportValue(r, t) <= 3 * ReportScore(r, t)
  BY <1>2, <1>3, ProductBounds DEF ReportValue
<1> QED
  BY <1>1, <1>2, <1>3, <1>4

\* The sums of a list that is not empty are those of a mean of 0..3 and a confidence of
\* 0..1, and its score is zero only if no report is trusted at all.
LEMMA Totals ==
  ASSUME NEW S, NEW t \in Int, Scorable(S)
  PROVE  /\ TotalWeight(S, t) \in Int /\ TotalScore(S, t) \in Nat /\ TotalValue(S, t) \in Nat
         /\ TotalScore(S, t) <= 100 * TotalWeight(S, t)
         /\ TotalValue(S, t) <= 3 * TotalScore(S, t)
         /\ S # {} => TotalWeight(S, t) > 0
         /\ (\E r \in S : r.conf > 0) => TotalScore(S, t) > 0
<1> DEFINE w == [r \in S |-> ReportWeight(r, t)]
           c == [r \in S |-> ReportScore(r, t)]
           v == [r \in S |-> ReportValue(r, t)]
<1>1. /\ \A r \in S : w[r] \in 15..95 /\ c[r] \in Nat /\ v[r] \in Nat
      /\ \A r \in S : c[r] <= 100 * w[r] /\ v[r] <= 3 * c[r] /\ c[r] >= 0 * c[r] /\ v[r] >= 0 * v[r]
      /\ \A r \in S : r.conf > 0 => c[r] > 0
  BY ReportTerms DEF Scorable, Listing
<1>2. /\ TotalWeight(S, t) = SumFunctionOnSet(w, S)
      /\ TotalScore(S, t) = SumFunctionOnSet(c, S)
      /\ TotalValue(S, t) = SumFunctionOnSet(v, S)
  BY Zenon DEF TotalWeight, TotalScore, TotalValue, SumFunction
<1> HIDE DEF w, c, v
<1>3. IsFiniteSet(S) /\ \A r \in S : w[r] \in Int /\ w[r] \in Nat /\ w[r] > 0 /\ c[r] \in Int /\ v[r] \in Int
  BY <1>1 DEF Scorable, Listing
<1>4. SumFunctionOnSet(w, S) \in Int /\ SumFunctionOnSet(c, S) \in Int /\ SumFunctionOnSet(v, S) \in Int
  BY <1>3, SumTakesOut
<1>5. SumFunctionOnSet(c, S) >= 0 /\ SumFunctionOnSet(v, S) >= 0
  BY <1>1, <1>3, SumNotNegative
<1>6. SumFunctionOnSet(c, S) <= 100 * SumFunctionOnSet(w, S)
  BY <1>1, <1>3, SumScaled
<1>7. SumFunctionOnSet(v, S) <= 3 * SumFunctionOnSet(c, S)
  BY <1>1, <1>3, SumScaled
<1>8. ASSUME S # {} PROVE SumFunctionOnSet(w, S) > 0
  BY <1>3, <1>8, SumPositive
<1>9. ASSUME NEW r \in S, r.conf > 0 PROVE SumFunctionOnSet(c, S) > 0
  BY <1>1, <1>3, <1>9, SumPositive
<1> QED
  BY <1>2, <1>4, <1>5, <1>6, <1>7, <1>8, <1>9

-----------------------------------------------------------------------------
(* The outcomes. *)

\* The results of one calculation whose sums are those of a list that is not empty.
Sums(v, n, w) ==
  /\ v \in Nat /\ n \in Nat /\ w \in Nat \ {0}
  /\ v <= 3 * n /\ n <= 100 * w

\* the average is there when the status is one of the mean's, and rounds to it
Described(o) ==
  /\ o.avg = Null <=> o.status \in {"NO_DATA", "FOOD_ENDED"}
  /\ o.avg # Null => 100 * StatusValue[o.status] - o.avg \in -50..50

\* two results of one calculation differ by what a float tie may move
Alike(o1, o2) ==
  /\ (o1.avg = Null) = (o2.avg = Null)
  /\ o1.avg # Null => o1.avg - o2.avg \in -1..1
  /\ o1.conf - o2.conf \in -1..1

\* What the three parts of an outcome of the mean are.
LEMMA MeansParts ==
  ASSUME NEW v, NEW n, NEW w, Sums(v, n, w), n # 0, NEW o \in Means(v, n, w)
  PROVE  /\ o.status \in Scored /\ IsNearest(StatusValue[o.status], v, n)
         /\ o.avg \in 0..300 /\ IsNearest(o.avg, 100 * v, n)
         /\ o.conf \in 0..100 /\ IsNearest(o.conf, n, w)
<1>1. PICK s \in Scored, a \in Nearest(300, 100 * v, n), c \in Nearest(100, n, w) :
        o = [status |-> s, avg |-> a, conf |-> c] /\ IsNearest(StatusValue[s], v, n)
  BY DEF Means
<1>2. /\ n \in Nat \ {0} /\ 100 * v \in Int /\ n \in Int /\ w \in Nat \ {0}
      /\ 300 \in Nat /\ 100 \in Nat
  BY DEF Sums
<1>3. a \in 0..300 /\ IsNearest(a, 100 * v, n)
  BY <1>2, NearestIs, ZenonT(40)
<1>4. c \in 0..100 /\ IsNearest(c, n, w)
  BY <1>2, NearestIs, Zenon
<1> QED
  BY <1>1, <1>3, <1>4

\* Any nearest status and any nearest confidence go with any nearest average.
LEMMA MeansWhole ==
  ASSUME NEW v, NEW n, NEW w, Sums(v, n, w), n # 0,
         NEW a \in Nearest(300, 100 * v, n)
  PROVE  \E o \in Means(v, n, w) : o.avg = a
<1>1. v \in Int /\ n \in Nat \ {0} /\ w \in Nat \ {0} /\ n \in Int /\ 3 \in Nat
  BY DEF Sums
<1>2. PICK q \in Nearest(3, v, n) : TRUE
  BY <1>1, NearestExists DEF Sums
<1>3. PICK c \in Nearest(100, n, w) : TRUE
  BY <1>1, NearestExists DEF Sums
<1>4. q \in 0..3 /\ IsNearest(q, v, n)
  BY <1>1, NearestIs, Zenon
<1>5. PICK s \in Scored : StatusValue[s] = q
  BY <1>4 DEF Scored, StatusValue
<1>6. [status |-> s, avg |-> a, conf |-> c] \in Means(v, n, w)
  <2>1. s \in {x \in Scored : IsNearest(StatusValue[x], v, n)}
    BY <1>4, <1>5, Zenon
  <2> DEFINE near == {x \in Scored : IsNearest(StatusValue[x], v, n)}
             avgs == Nearest(300, 100 * v, n)
             confs == Nearest(100, n, w)
  <2>2. Means(v, n, w) = IF n = 0 THEN {NoData}
                         ELSE {[status |-> z, avg |-> b, conf |-> d] :
                                 z \in near, b \in avgs, d \in confs}
    BY DEF Means
  <2>3. s \in near /\ a \in avgs /\ c \in confs
    BY <2>1
  <2> HIDE DEF near, avgs, confs
  <2> QED
    BY <2>2, <2>3
<1> QED
  BY <1>6

\* The mean has a result, its parts fit each other and no two results are far apart.
LEMMA MeansDescribed ==
  ASSUME NEW v, NEW n, NEW w, Sums(v, n, w)
  PROVE  /\ Means(v, n, w) # {}
         /\ \A o \in Means(v, n, w) : Described(o) /\ o.status # "FOOD_ENDED"
         /\ \A o \in Means(v, n, w) : o.status = "NO_DATA" => o.conf = 100
         /\ \A o1, o2 \in Means(v, n, w) : Alike(o1, o2)
<1>1. CASE n = 0
  BY <1>1 DEF Means, NoData, Described, Alike
<1>2. CASE n # 0
  <2>1. Means(v, n, w) # {}
    <3> DEFINE m == 100 * v
    <3>1. n \in Nat \ {0} /\ m \in Int /\ 0 <= m /\ m <= 300 * n
      BY <1>2 DEF Sums
    <3> HIDE DEF m
    <3>2. Nearest(300, m, n) # {}
      BY <3>1, NearestExists
    <3>3. PICK a \in Nearest(300, 100 * v, n) : TRUE
      BY <3>2 DEF m
    <3> QED
      BY <1>2, MeansWhole
  <2>2. ASSUME NEW o \in Means(v, n, w)
        PROVE  Described(o) /\ o.status \notin {"FOOD_ENDED", "NO_DATA"} /\ o.avg # Null
    <3>1. o.status \in Scored /\ IsNearest(StatusValue[o.status], v, n)
          /\ o.avg \in 0..300 /\ IsNearest(o.avg, 100 * v, n)
      BY <1>2, MeansParts
    <3>2. StatusValue[o.status] \in Int /\ o.avg \in Int /\ v \in Int /\ n \in Nat \ {0}
      BY <3>1, <1>2 DEF Scored, StatusValue, Sums
    <3>3. 100 * StatusValue[o.status] - o.avg \in -50..50
      BY <3>1, <3>2, HundredthsAreClose
    <3>4. o.avg # Null
      BY <3>1, NullAssumption
    <3> QED
      BY <3>1, <3>3, <3>4 DEF Described, Scored
  <2>3. ASSUME NEW o1 \in Means(v, n, w), NEW o2 \in Means(v, n, w) PROVE Alike(o1, o2)
    <3>1. /\ IsNearest(o1.avg, 100 * v, n) /\ IsNearest(o2.avg, 100 * v, n)
          /\ IsNearest(o1.conf, n, w) /\ IsNearest(o2.conf, n, w)
          /\ o1.avg \in Int /\ o2.avg \in Int /\ o1.conf \in Int /\ o2.conf \in Int
      BY <1>2, MeansParts
    <3>2. 100 * v \in Int /\ n \in Nat \ {0} /\ n \in Int /\ w \in Nat \ {0}
      BY <1>2 DEF Sums
    <3>3. o1.avg - o2.avg \in -1..1
      BY <3>1, <3>2, NearestAreClose
    <3>4. o1.conf - o2.conf \in -1..1
      BY <3>1, <3>2, NearestAreClose
    <3> QED
      BY <2>2, <3>3, <3>4 DEF Alike
  <2> QED
    BY <2>1, <2>2, <2>3
<1> QED
  BY <1>1, <1>2

\* Between a value that is not above the mean and one that is not below it, by more than
\* the rounding, there is a result.
LEMMA MeansBetween ==
  ASSUME NEW v, NEW n, NEW w, Sums(v, n, w), n # 0,
         NEW x \in 0..300, NEW y \in 0..300, x <= y,
         2 * (x * n - 100 * v) <= n, -n <= 2 * (y * n - 100 * v)
  PROVE  \E o \in Means(v, n, w) : o.avg \in Int /\ x <= o.avg /\ o.avg <= y
<1> DEFINE m == 100 * v
<1>1. /\ m \in Int /\ n \in Nat \ {0} /\ 300 \in Nat
      /\ 2 * (x * n - m) <= n /\ -n <= 2 * (y * n - m)
  BY DEF Sums
<1>2. \E a \in Nearest(300, m, n) : a \in Int /\ x <= a /\ a <= y
  <2> HIDE DEF m
  <2>1. PICK a \in Nearest(300, m, n) : x <= a /\ a <= y
    BY <1>1, NearestBetween, ZenonT(120)
  <2>2. a \in 0..300
    BY <1>1, NearestIs, ZenonT(40)
  <2>3. a \in Int
    BY <2>2
  <2> QED
    BY <2>1, <2>3
<1>3. PICK a \in Nearest(300, 100 * v, n) : a \in Int /\ x <= a /\ a <= y
  BY <1>2
<1>4. PICK o \in Means(v, n, w) : o.avg = a
  BY MeansWhole
<1> QED
  BY <1>3, <1>4

\* A mean that a list of reports has is one of such sums.
LEMMA ScorableSums ==
  ASSUME NEW S, NEW t \in Int, Scorable(S), S # {}
  PROVE  Sums(TotalValue(S, t), TotalScore(S, t), TotalWeight(S, t))
<1>1. TotalWeight(S, t) \in Nat \ {0}
  BY Totals
<1> QED
  BY <1>1, Totals DEF Sums

\* The outcome of a quorum: no average, and the mean of the confidences.
LEMMA QuorumDescribed ==
  ASSUME NEW S, IsFiniteSet(S), S # {}, \A r \in S : r.conf \in Confidence
  PROVE  /\ QuorumOutcomes(S) # {}
         /\ \A o \in QuorumOutcomes(S) : o.status = "FOOD_ENDED" /\ o.avg = Null
         /\ \A o1, o2 \in QuorumOutcomes(S) : Alike(o1, o2)
<1> DEFINE n == SumFunction([r \in S |-> r.conf])
           d == Cardinality(S)
           confs == HalfEven(100, n, d)
<1>1. d \in Nat \ {0}
  BY FS_CardinalityType, FS_EmptySet
<1>2. n \in 0..(100 * d)
  <2> DEFINE f == [r \in S |-> r.conf]
  <2>1. \A r \in S : f[r] \in 0..100
    BY DEF Confidence
  <2>2. n = SumFunctionOnSet(f, S)
    BY Zenon DEF SumFunction
  <2> HIDE DEF f, n
  <2> QED
    BY <2>1, <2>2, SumBounded
<1>3. QuorumOutcomes(S) = {[status |-> "FOOD_ENDED", avg |-> Null, conf |-> c] : c \in confs}
  BY Zenon DEF QuorumOutcomes
<1> HIDE DEF n, d
<1>4. confs # {}
  BY <1>1, <1>2, NearestExists
<1>5. \A c \in confs : c \in Int /\ IsNearest(c, n, d)
  <2>1. confs \subseteq Nearest(100, n, d)
    BY DEF HalfEven
  <2>2. n \in Int
    BY <1>1, <1>2
  <2> HIDE DEF confs
  <2>3. \A c \in confs : c \in 0..100 /\ IsNearest(c, n, d)
    BY <1>1, <2>1, <2>2, NearestIs
  <2> QED
    BY <2>3
<1> HIDE DEF confs
<1>6. \A c1, c2 \in confs : c1 - c2 \in -1..1
  <2>1. n \in Int
    BY <1>1, <1>2
  <2> QED
    BY <1>1, <1>5, <2>1, NearestAreClose, Zenon
<1>7. QuorumOutcomes(S) # {}
  <2>1. PICK c \in confs : TRUE
    BY <1>4
  <2>2. [status |-> "FOOD_ENDED", avg |-> Null, conf |-> c] \in QuorumOutcomes(S)
    BY <1>3
  <2> QED
    BY <2>2
<1>8. ASSUME NEW o \in QuorumOutcomes(S)
      PROVE  o.status = "FOOD_ENDED" /\ o.avg = Null /\ o.conf \in confs
  <2>1. PICK c \in confs : o = [status |-> "FOOD_ENDED", avg |-> Null, conf |-> c]
    BY <1>3
  <2> QED
    BY <2>1
<1> QED
  BY <1>6, <1>7, <1>8 DEF Alike

-----------------------------------------------------------------------------
(* The result for a list of reports. *)

\* The lists taken from a list of reports are lists of reports.
LEMMA SelectedLists ==
  ASSUME NEW R, Listing(R), NEW t \in Int
  PROVE  /\ \A w : Within(R, t, w) \subseteq R
         /\ FoodEndedReports(R, t) \subseteq R /\ ScorableReports(R, t) \subseteq R
         /\ IsFiniteSet(FoodEndedReports(R, t)) /\ Listing(FoodEndedReports(R, t))
         /\ Scorable(ScorableReports(R, t))
<1>1. /\ \A w : Within(R, t, w) \subseteq R
      /\ FoodEndedReports(R, t) \subseteq R /\ ScorableReports(R, t) \subseteq R
  BY DEF Within, FoodEndedReports, ScorableReports
<1>2. IsFiniteSet(FoodEndedReports(R, t)) /\ IsFiniteSet(ScorableReports(R, t))
  BY <1>1, FS_Subset DEF Listing
<1>3. \A r \in ScorableReports(R, t) : r.status \in Scored
  BY DEF ScorableReports
<1> QED
  BY <1>1, <1>2, <1>3 DEF Listing, Scorable

\* A quorum is never empty.
LEMMA QuorumIsSome ==
  ASSUME NEW R, Listing(R), NEW t \in Int,
         Cardinality(FoodEndedReports(R, t)) >= FoodEndedQuorum
  PROVE  FoodEndedReports(R, t) # {} /\ R # {}
<1>1. FoodEndedReports(R, t) # {}
  BY FS_EmptySet, WindowsAssumption
<1> QED
  BY <1>1, SelectedLists

\* The mean of a list is one of sums that bound each other as Sums says.
LEMMA WeightedSums ==
  ASSUME NEW S, Scorable(S), S # {}, NEW t \in Int
  PROVE  /\ Sums(TotalValue(S, t), TotalScore(S, t), TotalWeight(S, t))
         /\ WeightedOutcomes(S, t) =
              Means(TotalValue(S, t), TotalScore(S, t), TotalWeight(S, t))
  BY ScorableSums, WeightedIsMeans

\* Whatever the reports, the algorithm yields statuses, averages in 0.00..3.00 or null,
\* and confidences in 0.00..1.00.
LEMMA OutcomesTyped ==
  ASSUME NEW R, NEW t
  PROVE  ComputeStatus(R, t) \subseteq Outcome
<1>1. NoData \in Outcome
  BY DEF NoData, Outcome, SnapshotStatusEnum, Confidence
<1>2. \A hi, n, d : Nearest(hi, n, d) \subseteq 0..hi /\ HalfEven(hi, n, d) \subseteq 0..hi
  BY DEF Nearest, HalfEven
<1>3. ASSUME NEW S
      PROVE  QuorumOutcomes(S) \subseteq Outcome
  <2> DEFINE n == SumFunction([r \in S |-> r.conf])
             confs == HalfEven(100, n, Cardinality(S))
  <2>1. confs \subseteq Confidence
    BY <1>2, Zenon DEF Confidence
  <2>2. QuorumOutcomes(S) = {[status |-> "FOOD_ENDED", avg |-> Null, conf |-> c] : c \in confs}
    BY Zenon DEF QuorumOutcomes
  <2> HIDE DEF confs
  <2> QED
    BY <2>1, <2>2 DEF Outcome, SnapshotStatusEnum, ReportStatus
<1>4. \A value, total, temporal : Means(value, total, temporal) \subseteq Outcome
  <2> SUFFICES ASSUME NEW value, NEW total, NEW temporal, total # 0,
                      NEW s \in Scored, NEW a \in Nearest(300, 100 * value, total),
                      NEW c \in Nearest(100, total, temporal)
               PROVE  [status |-> s, avg |-> a, conf |-> c] \in Outcome
    BY <1>1 DEF Means
  <2>1. a \in Average /\ c \in Confidence
    BY <1>2, ZenonT(40) DEF Average, Confidence
  <2> QED
    BY <2>1 DEF Outcome, SnapshotStatusEnum, ReportStatus
<1>5. \A S : WeightedOutcomes(S, t) \subseteq Outcome
  BY <1>4, Zenon DEF WeightedOutcomes
<1> QED
  BY <1>1, <1>3, <1>5 DEF ComputeStatus

\* The result of the algorithm, for every list of reports and every value of the
\* thresholds: there is one, its parts fit each other, float ties move it by one unit at
\* most, and it says NO_DATA or FOOD_ENDED for the reasons the source gives.
THEOREM OutcomesDescribed ==
  ASSUME NEW R, Listing(R), NEW t \in Int
  PROVE  /\ ComputeStatus(R, t) # {}
         /\ \A o \in ComputeStatus(R, t) :
              /\ o \in Outcome /\ Described(o)
              /\ o.status = "NO_DATA" => o.conf = 100
              /\ o.status = "FOOD_ENDED" => Cardinality(R) >= FoodEndedQuorum
              /\ R = {} => o.status = "NO_DATA"
         /\ \A o1, o2 \in ComputeStatus(R, t) : Alike(o1, o2)
<1> DEFINE E == FoodEndedReports(R, t)
           S == ScorableReports(R, t)
<1>1. \A o \in ComputeStatus(R, t) : o \in Outcome
  BY OutcomesTyped
<1>2. Described(NoData) /\ Alike(NoData, NoData) /\ NoData.status = "NO_DATA" /\ NoData.conf = 100
  BY DEF NoData, Described, Alike
<1>3. IsFiniteSet(R) /\ IsFiniteSet(E) /\ E \subseteq R /\ Listing(E) /\ Scorable(S)
  BY SelectedLists DEF Listing
<1>4. CASE Cardinality(E) >= FoodEndedQuorum
  <2>1. E # {} /\ R # {} /\ ComputeStatus(R, t) = QuorumOutcomes(E)
    BY <1>4, QuorumIsSome DEF ComputeStatus
  <2>2. Cardinality(R) >= FoodEndedQuorum
    <3>1. Cardinality(E) <= Cardinality(R) /\ Cardinality(E) \in Int /\ Cardinality(R) \in Int
      BY <1>3, FS_Subset, FS_CardinalityType
    <3> QED
      BY <1>4, <3>1, WindowsAssumption
  <2> HIDE DEF E
  <2>3. /\ QuorumOutcomes(E) # {}
        /\ \A o \in QuorumOutcomes(E) : o.status = "FOOD_ENDED" /\ o.avg = Null
        /\ \A o1, o2 \in QuorumOutcomes(E) : Alike(o1, o2)
    BY <1>3, <2>1, QuorumDescribed DEF Listing
  <2>4. \A o \in QuorumOutcomes(E) : Described(o)
    BY <2>3 DEF Described
  <2> QED
    BY <1>1, <2>1, <2>2, <2>3, <2>4
<1>5. CASE ~ (Cardinality(E) >= FoodEndedQuorum) /\ S # {}
  <2>1. R # {} /\ ComputeStatus(R, t) = WeightedOutcomes(S, t)
    <3>1. R # {}
      BY <1>5 DEF ScorableReports, Within
    <3> QED
      BY <1>5, <3>1 DEF ComputeStatus
  <2> HIDE DEF S
  <2>2. /\ WeightedOutcomes(S, t) # {}
        /\ \A o \in WeightedOutcomes(S, t) : Described(o) /\ o.status # "FOOD_ENDED"
        /\ \A o \in WeightedOutcomes(S, t) : o.status = "NO_DATA" => o.conf = 100
        /\ \A o1, o2 \in WeightedOutcomes(S, t) : Alike(o1, o2)
    BY <1>3, <1>5, WeightedSums, MeansDescribed
  <2> QED
    BY <1>1, <2>1, <2>2
<1>6. CASE ~ (Cardinality(E) >= FoodEndedQuorum) /\ S = {}
  <2>1. ComputeStatus(R, t) = {NoData}
    BY <1>6 DEF ComputeStatus
  <2> QED
    BY <1>1, <1>2, <2>1
<1> QED
  BY <1>4, <1>5, <1>6

\* An outcome that has an average comes from the mean.
LEMMA AverageIsMean ==
  ASSUME NEW R, Listing(R), NEW t \in Int, NEW o \in ComputeStatus(R, t), o.avg # Null
  PROVE  /\ R # {} /\ ~ (Cardinality(FoodEndedReports(R, t)) >= FoodEndedQuorum)
         /\ ScorableReports(R, t) # {}
         /\ o \in WeightedOutcomes(ScorableReports(R, t), t)
<1>1. NoData.avg = Null
  BY DEF NoData
<1>2. \A S : \A x \in QuorumOutcomes(S) : x.avg = Null
  <2> SUFFICES ASSUME NEW S, NEW c \in HalfEven(100, SumFunction([r \in S |-> r.conf]), Cardinality(S))
               PROVE  [status |-> "FOOD_ENDED", avg |-> Null, conf |-> c].avg = Null
    BY Zenon DEF QuorumOutcomes
  <2> QED
    OBVIOUS
<1> QED
  BY <1>1, <1>2 DEF ComputeStatus

\* A mean is not null when its scores do not all vanish, and null when they do.
LEMMA ScoreNotZero ==
  ASSUME NEW v, NEW n, NEW w, NEW o \in Means(v, n, w), o.avg # Null
  PROVE  n # 0
  BY DEF Means, NoData

-----------------------------------------------------------------------------
(* How the result changes with the list. *)

\* Scores that stay and values that do not fall: every average has one in the new mean
\* that is not below it.
LEMMA MeansRise ==
  ASSUME NEW v, NEW v2, NEW n, NEW w, NEW w2, Sums(v, n, w), Sums(v2, n, w2), v <= v2,
         NEW o \in Means(v, n, w), o.avg # Null
  PROVE  \E o2 \in Means(v2, n, w2) : o2.avg >= o.avg
<1>1. n # 0
  BY ScoreNotZero
<1>2. o.avg \in 0..300 /\ IsNearest(o.avg, 100 * v, n)
  BY <1>1, MeansParts
<1>3. n \in Nat /\ v \in Nat /\ v2 \in Nat /\ v2 <= 3 * n /\ o.avg * n \in Int
  BY <1>2 DEF Sums
<1>4. 2 * (o.avg * n - 100 * v2) <= n
  BY <1>2, <1>3 DEF IsNearest
<1>5. -n <= 2 * (300 * n - 100 * v2)
  BY <1>3
<1>6. 300 \in 0..300 /\ o.avg <= 300
  BY <1>2
<1> DEFINE x == o.avg
<1>7. \E o2 \in Means(v2, n, w2) : o2.avg \in Int /\ x <= o2.avg /\ o2.avg <= 300
  <2>1. x \in 0..300 /\ x <= 300 /\ 2 * (x * n - 100 * v2) <= n
    BY <1>2, <1>4, <1>6
  <2> HIDE DEF x
  <2> QED
    BY <1>1, <1>5, <1>6, <2>1, MeansBetween, ZenonT(120)
<1> QED
  BY <1>2, <1>7

InBetween(x, m, n) == (m <= x /\ x <= n) \/ (n <= x /\ x <= m)

\* One more score of value l: every average has one in the new mean between itself and
\* what was added.
LEMMA MeansPulled ==
  ASSUME NEW v, NEW n, NEW w, NEW w2, NEW k \in Nat \ {0}, NEW l \in 0..3,
         Sums(v, n, w), Sums(v + l * k, n + k, w2),
         NEW o \in Means(v, n, w), o.avg # Null
  PROVE  \E o2 \in Means(v + l * k, n + k, w2) : InBetween(o2.avg, o.avg, 100 * l)
<1> DEFINE x == o.avg
           y == 100 * l
           u == v + l * k
           m == n + k
<1>1. n # 0
  BY ScoreNotZero
<1>2. x \in 0..300 /\ IsNearest(x, 100 * v, n) /\ y \in 0..300
  BY <1>1, MeansParts
<1>3. n \in Nat /\ v \in Nat /\ m # 0 /\ Sums(u, m, w2)
  BY DEF Sums
<1>4. /\ x * n \in Int /\ y * n \in Int /\ x * k \in Int /\ y * k \in Int
      /\ x * m = x * n + x * k /\ y * m = y * n + y * k /\ 100 * u = 100 * v + y * k
      /\ m = n + k /\ u \in Int /\ m \in Int
  BY <1>2, <1>3
<1>5. -n <= 2 * (x * n - 100 * v) /\ 2 * (x * n - 100 * v) <= n
  BY <1>2 DEF IsNearest
<1> HIDE DEF x, y, u, m
<1>6. CASE x <= y
  <2>1. x * k <= y * k /\ x * n <= y * n
    BY <1>2, <1>3, <1>6
  <2>2. 2 * (x * m - 100 * u) <= m /\ -m <= 2 * (y * m - 100 * u)
    BY <1>3, <1>4, <1>5, <2>1
  <2>3. \E o2 \in Means(u, m, w2) : o2.avg \in Int /\ x <= o2.avg /\ o2.avg <= y
    BY <1>2, <1>3, <1>6, <2>2, MeansBetween, ZenonT(40)
  <2>4. \E o2 \in Means(u, m, w2) : InBetween(o2.avg, x, y)
    BY <2>3, Zenon DEF InBetween
  <2> QED
    BY <2>4 DEF x, y, u, m
<1>7. CASE y <= x
  <2>1. y * k <= x * k /\ y * n <= x * n
    BY <1>2, <1>3, <1>7
  <2>2. 2 * (y * m - 100 * u) <= m /\ -m <= 2 * (x * m - 100 * u)
    BY <1>3, <1>4, <1>5, <2>1
  <2>3. \E o2 \in Means(u, m, w2) : o2.avg \in Int /\ y <= o2.avg /\ o2.avg <= x
    BY <1>2, <1>3, <1>7, <2>2, MeansBetween, ZenonT(40)
  <2>4. \E o2 \in Means(u, m, w2) : InBetween(o2.avg, x, y)
    BY <2>3, Zenon DEF InBetween
  <2> QED
    BY <2>4 DEF x, y, u, m
<1> QED
  BY <1>2, <1>6, <1>7

\* the list with r in the place of the report q that differs from it in its status only
Replaced(R, r, q) == (R \ {r}) \cup {q}

\* q says another status than r, both of them in the mean, and is not in the list yet
Twin(R, r, q) ==
  /\ r \in R /\ q \notin R \ {r} /\ q.at = r.at /\ q.conf = r.conf
  /\ r.status \in Scored /\ q.status \in Scored

\* A selection by age counts the same reports when one is replaced by a twin.
LEMMA WithinReplaced ==
  ASSUME NEW R, Listing(R), NEW t, NEW w, NEW r, NEW q, Twin(R, r, q)
  PROVE  /\ Within(Replaced(R, r, q), t, w) =
              IF r \in Within(R, t, w) THEN Replaced(Within(R, t, w), r, q) ELSE Within(R, t, w)
         /\ Cardinality(Within(Replaced(R, r, q), t, w)) = Cardinality(Within(R, t, w))
<1> DEFINE A == Within(R, t, w)
<1>1. Within(Replaced(R, r, q), t, w) = IF r \in A THEN Replaced(A, r, q) ELSE A
  BY DEF Within, Replaced, Twin
<1>2. ASSUME r \in A PROVE Cardinality(Replaced(A, r, q)) = Cardinality(A)
  <2>1. IsFiniteSet(A) /\ IsFiniteSet(A \ {r}) /\ q \notin A \ {r}
    BY FS_Subset DEF Within, Listing, Twin
  <2> HIDE DEF A
  <2>2. Cardinality(A \ {r}) = Cardinality(A) - 1 /\ Cardinality(A) \in Nat
    BY <1>2, <2>1, FS_RemoveElement, FS_CardinalityType
  <2>3. Cardinality((A \ {r}) \cup {q}) = Cardinality(A \ {r}) + 1
    BY <2>1, FS_AddElement
  <2> QED
    BY <2>2, <2>3 DEF Replaced
<1> QED
  BY <1>1, <1>2

\* Replacing a report by a twin keeps the adaptive window, the quorum and the weights,
\* and changes the sum of the values by the difference of the two.
LEMMA ReplacedSums ==
  ASSUME NEW R, Listing(R), NEW t \in Int, NEW r, NEW q, Twin(R, r, q)
  PROVE  LET R2 == Replaced(R, r, q)
             S == ScorableReports(R, t)
             S2 == ScorableReports(R2, t)
         IN  /\ Listing(R2) /\ R2 # {}
             /\ FoodEndedReports(R2, t) = FoodEndedReports(R, t)
             /\ S2 = IF r \in S THEN Replaced(S, r, q) ELSE S
             /\ TotalScore(S2, t) = TotalScore(S, t)
             /\ TotalValue(S2, t) = IF r \in S
                                    THEN TotalValue(S, t) - ReportValue(r, t) + ReportValue(q, t)
                                    ELSE TotalValue(S, t)
<1> DEFINE R2 == Replaced(R, r, q)
           S == ScorableReports(R, t)
           S2 == ScorableReports(R2, t)
<1>1. Listing(R2) /\ R2 # {}
  <2>1. IsFiniteSet(R \ {r})
    BY FS_Subset DEF Listing
  <2>2. IsFiniteSet((R \ {r}) \cup {q})
    BY <2>1, FS_AddElement
  <2>3. q.at \in Int /\ q.status \in ReportStatus /\ q.conf \in Confidence
    BY DEF Listing, Twin, ReportStatus
  <2> QED
    BY <2>2, <2>3 DEF Listing, Replaced
<1>2. \A w : Cardinality(Within(R2, t, w)) = Cardinality(Within(R, t, w))
  BY WithinReplaced
<1>3. AdaptiveWindow(R2, t) = AdaptiveWindow(R, t)
  <2>1. /\ Cardinality(Within(R2, t, ShortWindow)) = Cardinality(Within(R, t, ShortWindow))
        /\ Cardinality(Within(R2, t, MediumWindow)) = Cardinality(Within(R, t, MediumWindow))
    BY <1>2
  <2> QED
    BY <2>1 DEF AdaptiveWindow
<1>4. FoodEndedReports(R2, t) = FoodEndedReports(R, t)
  <2>1. r.status # "FOOD_ENDED" /\ q.status # "FOOD_ENDED"
    BY DEF Twin, Scored
  <2> QED
    BY <2>1 DEF FoodEndedReports, Within, Replaced, Twin
<1>5. S2 = IF r \in S THEN Replaced(S, r, q) ELSE S
  BY <1>3 DEF ScorableReports, Within, Replaced, Twin
<1>6. ASSUME r \in S
      PROVE  /\ TotalScore(S2, t) = TotalScore(S, t)
             /\ TotalValue(S2, t) = TotalValue(S, t) - ReportValue(r, t) + ReportValue(q, t)
  <2> DEFINE c == [x \in S |-> ReportScore(x, t)]
             c2 == [x \in S2 |-> ReportScore(x, t)]
             v == [x \in S |-> ReportValue(x, t)]
             v2 == [x \in S2 |-> ReportValue(x, t)]
  <2>1. /\ TotalScore(S, t) = SumFunctionOnSet(c, S) /\ TotalScore(S2, t) = SumFunctionOnSet(c2, S2)
        /\ TotalValue(S, t) = SumFunctionOnSet(v, S) /\ TotalValue(S2, t) = SumFunctionOnSet(v2, S2)
    BY Zenon DEF TotalScore, TotalValue, SumFunction
  <2>2. IsFiniteSet(S) /\ q \notin S \ {r} /\ S2 = (S \ {r}) \cup {q}
    BY <1>5, <1>6, SelectedLists DEF Replaced, Twin, Scorable, Listing
  <2>3. /\ \A x \in S : c[x] = ReportScore(x, t) /\ v[x] = ReportValue(x, t)
        /\ \A x \in S2 : c2[x] = ReportScore(x, t) /\ v2[x] = ReportValue(x, t)
    OBVIOUS
  <2>4. Scorable(S) /\ Scorable(S2)
    BY <1>1, SelectedLists
  <2>5. \A x : x \in S \/ x \in S2 => ReportScore(x, t) \in Int /\ ReportValue(x, t) \in Int
    <3>1. \A x : x \in S \/ x \in S2 => x.at \in Int /\ x.conf \in Confidence /\ x.status \in Scored
      BY <2>4 DEF Scorable, Listing
    <3> HIDE DEF S, S2
    <3> QED
      BY <3>1, ReportTerms
  <2>6. ReportScore(q, t) = ReportScore(r, t)
    BY DEF ReportScore, ReportWeight, Twin
  <2> HIDE DEF c, c2, v, v2, S, S2
  <2>7. SumFunctionOnSet(c2, S2) = SumFunctionOnSet(c, S) - c[r] + c2[q]
    <3>1. c[r] \in Int /\ c2[q] \in Int /\ \A x \in S \ {r} : c[x] \in Int /\ c2[x] = c[x]
      BY <1>6, <2>2, <2>3, <2>5
    <3> DEFINE rest == S \ {r}
    <3>2. IsFiniteSet(S) /\ rest = S \ {r} /\ q \notin rest /\ S2 = rest \cup {q} /\ r \in S
          /\ \A x \in rest : c[x] \in Int /\ c2[x] = c[x]
      BY <1>6, <2>2, <3>1
    <3> HIDE DEF rest
    <3> QED
      BY <3>1, <3>2, SumReplaces
  <2>8. SumFunctionOnSet(v2, S2) = SumFunctionOnSet(v, S) - v[r] + v2[q]
    <3>1. v[r] \in Int /\ v2[q] \in Int /\ \A x \in S \ {r} : v[x] \in Int /\ v2[x] = v[x]
      BY <1>6, <2>2, <2>3, <2>5
    <3> DEFINE rest == S \ {r}
    <3>2. IsFiniteSet(S) /\ rest = S \ {r} /\ q \notin rest /\ S2 = rest \cup {q} /\ r \in S
          /\ \A x \in rest : v[x] \in Int /\ v2[x] = v[x]
      BY <1>6, <2>2, <3>1
    <3> HIDE DEF rest
    <3> QED
      BY <3>1, <3>2, SumReplaces
  <2>9. /\ c[r] = ReportScore(r, t) /\ c2[q] = ReportScore(r, t) /\ c[r] \in Int
        /\ v[r] = ReportValue(r, t) /\ v2[q] = ReportValue(q, t)
    BY <1>6, <2>2, <2>3, <2>5, <2>6
  <2>10. TotalScore(S, t) \in Int
    BY <2>4, Totals
  <2>11. TotalScore(S2, t) = TotalScore(S, t)
    BY <2>1, <2>7, <2>9, <2>10
  <2> QED
    BY <2>1, <2>8, <2>9, <2>11
<1> HIDE DEF S, S2, R2
<1>7. TotalScore(S2, t) = TotalScore(S, t)
      /\ TotalValue(S2, t) = IF r \in S
                             THEN TotalValue(S, t) - ReportValue(r, t) + ReportValue(q, t)
                             ELSE TotalValue(S, t)
  BY <1>5, <1>6
<1> QED
  BY <1>1, <1>4, <1>5, <1>7 DEF S, S2, R2

\* A list with the same quorum and the same scores, whose values do not fall, has for
\* every average one that is not below it.
LEMMA AverageRises ==
  ASSUME NEW t \in Int, NEW R, Listing(R), NEW R2, Listing(R2), R2 # {},
         FoodEndedReports(R2, t) = FoodEndedReports(R, t),
         ScorableReports(R, t) # {} => ScorableReports(R2, t) # {},
         TotalScore(ScorableReports(R2, t), t) = TotalScore(ScorableReports(R, t), t),
         TotalValue(ScorableReports(R, t), t) <= TotalValue(ScorableReports(R2, t), t),
         NEW o \in ComputeStatus(R, t)
  PROVE  \E o2 \in ComputeStatus(R2, t) : o.avg # Null => o2.avg >= o.avg
<1> DEFINE S == ScorableReports(R, t)
           S2 == ScorableReports(R2, t)
<1>1. Scorable(S) /\ Scorable(S2)
  BY SelectedLists
<1>2. CASE o.avg = Null
  <2>1. PICK o2 \in ComputeStatus(R2, t) : TRUE
    BY OutcomesDescribed
  <2> QED
    BY <1>2, <2>1
<1>3. CASE o.avg # Null
  <2>1. /\ ~ (Cardinality(FoodEndedReports(R, t)) >= FoodEndedQuorum)
        /\ S # {} /\ o \in WeightedOutcomes(S, t)
    BY <1>3, AverageIsMean
  <2>2. ComputeStatus(R2, t) = WeightedOutcomes(S2, t) /\ S2 # {}
    BY <2>1 DEF ComputeStatus
  <2> HIDE DEF S, S2
  <2>3. /\ Sums(TotalValue(S, t), TotalScore(S, t), TotalWeight(S, t))
        /\ o \in Means(TotalValue(S, t), TotalScore(S, t), TotalWeight(S, t))
        /\ Sums(TotalValue(S2, t), TotalScore(S2, t), TotalWeight(S2, t))
        /\ WeightedOutcomes(S2, t) = Means(TotalValue(S2, t), TotalScore(S2, t), TotalWeight(S2, t))
    BY <1>1, <2>1, <2>2, WeightedSums
  <2>4. TotalScore(S2, t) = TotalScore(S, t) /\ TotalValue(S, t) <= TotalValue(S2, t)
    BY DEF S, S2
  <2>5. \E o2 \in WeightedOutcomes(S2, t) : o2.avg >= o.avg
    BY <1>3, <2>3, <2>4, MeansRise
  <2> QED
    BY <2>2, <2>5
<1> QED
  BY <1>2, <1>3

\* Raising what one report says never lowers the average.
THEOREM RaisingRaises ==
  ASSUME NEW t \in Int, NEW R, Listing(R), NEW r, NEW q, Twin(R, r, q),
         StatusValue[r.status] <= StatusValue[q.status],
         NEW o \in ComputeStatus(R, t)
  PROVE  \E o2 \in ComputeStatus(Replaced(R, r, q), t) : o.avg # Null => o2.avg >= o.avg
<1> DEFINE R2 == Replaced(R, r, q)
           S == ScorableReports(R, t)
           S2 == ScorableReports(R2, t)
<1>1. /\ Listing(R2) /\ R2 # {} /\ FoodEndedReports(R2, t) = FoodEndedReports(R, t)
      /\ S2 = IF r \in S THEN Replaced(S, r, q) ELSE S
      /\ TotalScore(S2, t) = TotalScore(S, t)
      /\ TotalValue(S2, t) = IF r \in S
                             THEN TotalValue(S, t) - ReportValue(r, t) + ReportValue(q, t)
                             ELSE TotalValue(S, t)
  BY ReplacedSums
<1>2. S # {} => S2 # {}
  BY <1>1 DEF Replaced
<1>3. ReportValue(r, t) <= ReportValue(q, t) /\ ReportValue(r, t) \in Int /\ ReportValue(q, t) \in Int
  <2>1. ReportScore(q, t) = ReportScore(r, t)
    BY DEF ReportScore, ReportWeight, Twin
  <2>2. /\ r.at \in Int /\ r.conf \in Confidence /\ r.status \in Scored
        /\ q.at \in Int /\ q.conf \in Confidence /\ q.status \in Scored
    BY DEF Twin, Listing
  <2>3. ReportScore(r, t) \in Nat /\ StatusValue[r.status] \in 0..3 /\ StatusValue[q.status] \in 0..3
    BY <2>2, ReportTerms
  <2>4. \A n \in Nat : \A a, b \in 0..3 : a <= b => a * n <= b * n /\ a * n \in Int /\ b * n \in Int
    OBVIOUS
  <2> QED
    BY <2>1, <2>3, <2>4 DEF ReportValue
<1>4. TotalValue(S, t) \in Int
  BY SelectedLists, Totals
<1>5. TotalValue(S, t) <= TotalValue(S2, t)
  <2> HIDE DEF S, S2
  <2> QED
    BY <1>1, <1>3, <1>4
<1> HIDE DEF R2
<1>6. \E o2 \in ComputeStatus(R2, t) : o.avg # Null => o2.avg >= o.avg
  BY <1>1, <1>2, <1>5, AverageRises
<1> QED
  BY <1>6 DEF R2

\* Between two equally trusted reports that disagree, the higher value weighs more when the
\* more recent one says it.
THEOREM RecencyCounts ==
  ASSUME NEW t \in Int, NEW R, Listing(R),
         NEW a \in ScorableReports(R, t), NEW b \in ScorableReports(R, t), a # b,
         a.conf = b.conf, a.at > b.at, StatusValue[a.status] <= StatusValue[b.status],
         NEW a2, Twin(R, a, a2), a2.status = b.status, b # a2,
         NEW b2, Twin(Replaced(R, a, a2), b, b2), b2.status = a.status,
         NEW o \in ComputeStatus(R, t)
  PROVE  \E o2 \in ComputeStatus(Replaced(Replaced(R, a, a2), b, b2), t) :
           o.avg # Null => o2.avg >= o.avg
<1> DEFINE R1 == Replaced(R, a, a2)
           R2 == Replaced(R1, b, b2)
           S == ScorableReports(R, t)
           S1 == ScorableReports(R1, t)
           S2 == ScorableReports(R2, t)
<1>1. /\ Listing(R1) /\ FoodEndedReports(R1, t) = FoodEndedReports(R, t)
      /\ S1 = Replaced(S, a, a2) /\ TotalScore(S1, t) = TotalScore(S, t)
      /\ TotalValue(S1, t) = TotalValue(S, t) - ReportValue(a, t) + ReportValue(a2, t)
  BY ReplacedSums
<1>2. b \in S1
  BY <1>1 DEF Replaced
<1> HIDE DEF R1
<1>3. /\ Listing(R2) /\ R2 # {} /\ FoodEndedReports(R2, t) = FoodEndedReports(R1, t)
      /\ S2 = Replaced(S1, b, b2) /\ TotalScore(S2, t) = TotalScore(S1, t)
      /\ TotalValue(S2, t) = TotalValue(S1, t) - ReportValue(b, t) + ReportValue(b2, t)
  BY <1>1, <1>2, ReplacedSums DEF R1
<1>4. S2 # {}
  BY <1>3 DEF Replaced
<1>5. /\ a.at \in Int /\ a.conf \in Confidence /\ a.status \in Scored
      /\ b.at \in Int /\ b.conf \in Confidence /\ b.status \in Scored
  BY SelectedLists DEF Scorable, Listing
<1>6. /\ ReportScore(a2, t) = ReportScore(a, t) /\ ReportScore(b2, t) = ReportScore(b, t)
  BY DEF ReportScore, ReportWeight, Twin
<1>7. ReportScore(b, t) <= ReportScore(a, t)
  <2>1. ReportWeight(b, t) <= ReportWeight(a, t) /\ ReportWeight(a, t) \in Nat /\ ReportWeight(b, t) \in Nat
    <3>1. t - a.at \in Int /\ t - b.at \in Int /\ t - a.at <= t - b.at
      BY <1>5
    <3>2. TemporalWeight(t - b.at) <= TemporalWeight(t - a.at)
      BY <3>1, WeightDecreases
    <3>3. ReportWeight(a, t) \in Nat /\ ReportWeight(b, t) \in Nat
      BY <1>5, ReportTerms
    <3> QED
      BY <3>2, <3>3 DEF ReportWeight
  <2>2. \A m, n \in Nat : \A c \in 0..100 : m <= n => m * c <= n * c
    OBVIOUS
  <2> QED
    BY <1>5, <2>1, <2>2 DEF ReportScore, Confidence
<1>8. /\ ReportValue(a, t) \in Int /\ ReportValue(b, t) \in Int
      /\ ReportValue(a2, t) \in Int /\ ReportValue(b2, t) \in Int
      /\ ReportValue(a, t) + ReportValue(b, t) <= ReportValue(a2, t) + ReportValue(b2, t)
  <2>1. /\ ReportScore(a, t) \in Nat /\ ReportScore(b, t) \in Nat
        /\ StatusValue[a.status] \in 0..3 /\ StatusValue[b.status] \in 0..3
    BY <1>5, ReportTerms
  <2>2. \A m, n \in Nat : \A x, y \in 0..3 :
          /\ x * m \in Int /\ y * m \in Int /\ x * n \in Int /\ y * n \in Int
          /\ n <= m /\ x <= y => x * m + y * n <= y * m + x * n
    OBVIOUS
  <2> QED
    BY <1>6, <1>7, <2>1, <2>2 DEF ReportValue
<1>9. TotalValue(S, t) \in Int
  BY SelectedLists, Totals
<1> HIDE DEF R2, S, S1, S2
<1>10. TotalValue(S, t) <= TotalValue(S2, t)
  BY <1>1, <1>3, <1>8, <1>9
<1>11. \E o2 \in ComputeStatus(R2, t) : o.avg # Null => o2.avg >= o.avg
  BY <1>1, <1>3, <1>4, <1>10, AverageRises DEF S, S2
<1> QED
  BY <1>11 DEF R1, R2

\* What one more report of a list adds to its sums.
LEMMA OneMoreSums ==
  ASSUME NEW t \in Int, NEW S, Scorable(S), NEW r, r \notin S, Scorable(S \cup {r})
  PROVE  /\ TotalScore(S \cup {r}, t) = TotalScore(S, t) + ReportScore(r, t)
         /\ TotalValue(S \cup {r}, t) = TotalValue(S, t) + ReportValue(r, t)
<1> DEFINE S2 == S \cup {r}
           c == [x \in S |-> ReportScore(x, t)]
           c2 == [x \in S2 |-> ReportScore(x, t)]
           v == [x \in S |-> ReportValue(x, t)]
           v2 == [x \in S2 |-> ReportValue(x, t)]
<1>1. /\ TotalScore(S, t) = SumFunctionOnSet(c, S) /\ TotalScore(S2, t) = SumFunctionOnSet(c2, S2)
      /\ TotalValue(S, t) = SumFunctionOnSet(v, S) /\ TotalValue(S2, t) = SumFunctionOnSet(v2, S2)
  BY Zenon DEF TotalScore, TotalValue, SumFunction
<1>2. \A x \in S2 : ReportScore(x, t) \in Int /\ ReportValue(x, t) \in Int
  <2>1. \A x \in S2 : x.at \in Int /\ x.conf \in Confidence /\ x.status \in Scored
    BY DEF Scorable, Listing
  <2> HIDE DEF S2
  <2> QED
    BY <2>1, ReportTerms
<1>3. /\ c2[r] = ReportScore(r, t) /\ v2[r] = ReportValue(r, t) /\ c2[r] \in Int /\ v2[r] \in Int
      /\ \A x \in S : c[x] \in Int /\ c2[x] = c[x] /\ v[x] \in Int /\ v2[x] = v[x]
  BY <1>2
<1>4. IsFiniteSet(S)
  BY DEF Scorable, Listing
<1> HIDE DEF c, c2, v, v2
<1>5. SumFunctionOnSet(c2, S \cup {r}) = SumFunctionOnSet(c, S) + c2[r]
  BY <1>3, <1>4, SumWithOneMore
<1>6. SumFunctionOnSet(v2, S \cup {r}) = SumFunctionOnSet(v, S) + v2[r]
  BY <1>3, <1>4, SumWithOneMore
<1> QED
  BY <1>1, <1>3, <1>5, <1>6

\* A new report that is trusted at all moves no average away from what it says, nor past
\* it, unless it narrows the adaptive window.
THEOREM VoiceCounts ==
  ASSUME NEW t \in Int, NEW R, Listing(R), NEW r, r \notin R,
         r.at = t, r.conf \in Confidence, r.conf > 0, r.status \in Scored,
         AdaptiveWindow(R \cup {r}, t) = AdaptiveWindow(R, t),
         NEW o \in ComputeStatus(R, t)
  PROVE  \E o2 \in ComputeStatus(R \cup {r}, t) :
           o.avg # Null => InBetween(o2.avg, o.avg, 100 * StatusValue[r.status])
<1> DEFINE R2 == R \cup {r}
           S == ScorableReports(R, t)
           S2 == ScorableReports(R2, t)
<1>1. Listing(R2)
  <2>1. IsFiniteSet(R2)
    BY FS_AddElement DEF Listing
  <2> QED
    BY <2>1 DEF Listing, ReportStatus
<1>2. CASE o.avg = Null
  <2> HIDE DEF R2
  <2>1. PICK o2 \in ComputeStatus(R2, t) : TRUE
    BY <1>1, OutcomesDescribed
  <2> QED
    BY <1>2, <2>1 DEF R2
<1>3. CASE o.avg # Null
  <2>1. /\ ~ (Cardinality(FoodEndedReports(R, t)) >= FoodEndedQuorum)
        /\ S # {} /\ o \in WeightedOutcomes(S, t)
    BY <1>3, AverageIsMean
  <2>2. FoodEndedReports(R2, t) = FoodEndedReports(R, t)
    <3>1. r.status # "FOOD_ENDED"
      BY DEF Scored
    <3> QED
      BY <3>1 DEF FoodEndedReports, Within
  <2>3. S2 = S \cup {r} /\ r \notin S
    <3>1. AdaptiveWindow(R, t) \in Nat
      BY WindowsAssumption DEF AdaptiveWindow
    <3>2. t - r.at <= AdaptiveWindow(R, t)
      BY <3>1
    <3> QED
      BY <3>2 DEF ScorableReports, Within
  <2>4. R2 # {} /\ S2 # {} /\ ComputeStatus(R2, t) = WeightedOutcomes(S2, t)
    <3>1. R2 # {} /\ S2 # {}
      BY <2>3
    <3> QED
      BY <2>1, <2>2, <3>1 DEF ComputeStatus
  <2>5. Scorable(S) /\ Scorable(S2)
    BY <1>1, SelectedLists
  <2>6. /\ r.at \in Int /\ ReportScore(r, t) \in Nat \ {0} /\ StatusValue[r.status] \in 0..3
        /\ ReportValue(r, t) = StatusValue[r.status] * ReportScore(r, t)
    BY ReportTerms DEF ReportValue
  <2> DEFINE k == ReportScore(r, t)
             l == StatusValue[r.status]
             v == TotalValue(S, t)
             n == TotalScore(S, t)
  <2>7. TotalScore(S2, t) = n + k /\ TotalValue(S2, t) = v + l * k
    <3>1. Scorable(S \cup {r})
      BY <2>3, <2>5
    <3> HIDE DEF S, S2
    <3>2. /\ TotalScore(S \cup {r}, t) = TotalScore(S, t) + ReportScore(r, t)
          /\ TotalValue(S \cup {r}, t) = TotalValue(S, t) + ReportValue(r, t)
      BY <2>3, <2>5, <3>1, OneMoreSums
    <3> QED
      BY <2>3, <2>6, <3>2
  <2> HIDE DEF S, S2, R2, k, l, v, n
  <2>8. /\ Sums(v, n, TotalWeight(S, t)) /\ o \in Means(v, n, TotalWeight(S, t))
        /\ Sums(v + l * k, n + k, TotalWeight(S2, t))
        /\ WeightedOutcomes(S2, t) = Means(v + l * k, n + k, TotalWeight(S2, t))
    BY <2>1, <2>4, <2>5, <2>7, WeightedSums DEF v, n
  <2>9. k \in Nat \ {0} /\ l \in 0..3
    BY <2>6 DEF k, l
  <2>10. \E o2 \in ComputeStatus(R2, t) : InBetween(o2.avg, o.avg, 100 * l)
    <3>1. \E o2 \in Means(v + l * k, n + k, TotalWeight(S2, t)) : InBetween(o2.avg, o.avg, 100 * l)
      BY <1>3, <2>8, <2>9, MeansPulled, ZenonT(40)
    <3> QED
      BY <2>4, <2>8, <3>1
  <2> QED
    BY <2>10 DEF R2, l
<1> QED
  BY <1>2, <1>3

\* The mean of one value is that value.
LEMMA MeanOfOne ==
  ASSUME NEW l \in 0..3, NEW k \in Nat \ {0}, NEW s \in 0..3, IsNearest(s, l * k, k)
  PROVE  s = l
<1>1. /\ s * k - l * k = (s - l) * k /\ (s - l) * k \in Int
      /\ -k <= 2 * (s * k - l * k) /\ 2 * (s * k - l * k) <= k
  BY DEF IsNearest
<1>2. s - l >= 1 => (s - l) * k >= k
  OBVIOUS
<1>3. s - l <= -1 => (s - l) * k <= -k
  OBVIOUS
<1> QED
  BY <1>1, <1>2, <1>3

\* The first report that is trusted at all decides the status, unless it narrows the
\* adaptive window.
THEOREM FirstVoiceShows ==
  ASSUME NEW t \in Int, NEW R, Listing(R), \A x \in R : x.conf > 0, NEW r, r \notin R,
         r.at = t, r.conf \in Confidence, r.conf > 0, r.status \in Scored,
         AdaptiveWindow(R \cup {r}, t) = AdaptiveWindow(R, t),
         NoData \in ComputeStatus(R, t), NEW o \in ComputeStatus(R \cup {r}, t)
  PROVE  o.status = r.status
<1> DEFINE R2 == R \cup {r}
           S == ScorableReports(R, t)
           S2 == ScorableReports(R2, t)
<1>1. NoData.status = "NO_DATA" /\ "NO_DATA" \notin Scored
  BY DEF NoData, Scored
<1>2. ~ (Cardinality(FoodEndedReports(R, t)) >= FoodEndedQuorum)
  <2> SUFFICES ASSUME Cardinality(FoodEndedReports(R, t)) >= FoodEndedQuorum PROVE FALSE
    OBVIOUS
  <2> DEFINE E == FoodEndedReports(R, t)
  <2>1. E # {} /\ R # {} /\ IsFiniteSet(E) /\ Listing(E)
    BY QuorumIsSome, SelectedLists
  <2>2. NoData \in QuorumOutcomes(E)
    BY <2>1 DEF ComputeStatus
  <2> HIDE DEF E
  <2>3. \A x \in QuorumOutcomes(E) : x.status = "FOOD_ENDED"
    BY <2>1, QuorumDescribed DEF Listing
  <2> QED
    BY <1>1, <2>2, <2>3
<1>3. S = {}
  <2> SUFFICES ASSUME S # {} PROVE FALSE
    OBVIOUS
  <2>1. Scorable(S) /\ S \subseteq R
    BY SelectedLists
  <2>2. NoData \in WeightedOutcomes(S, t)
    BY <1>2, <2>1 DEF ComputeStatus
  <2> HIDE DEF S
  <2>3. TotalScore(S, t) > 0 /\ TotalScore(S, t) \in Nat
    BY <2>1, Totals
  <2>4. TotalScore(S, t) # 0
    BY <2>3
  <2>5. NoData.status \in Scored
    BY <2>1, <2>2, <2>4, WeightedSums, MeansParts
  <2> QED
    BY <1>1, <2>5
<1>4. Listing(R2)
  <2>1. IsFiniteSet(R2)
    BY FS_AddElement DEF Listing
  <2> QED
    BY <2>1 DEF Listing, ReportStatus
<1>5. FoodEndedReports(R2, t) = FoodEndedReports(R, t)
  <2>1. r.status # "FOOD_ENDED"
    BY DEF Scored
  <2> QED
    BY <2>1 DEF FoodEndedReports, Within
<1>6. S2 = {} \cup {r}
  <2>1. AdaptiveWindow(R, t) \in Nat
    BY WindowsAssumption DEF AdaptiveWindow
  <2>2. t - r.at <= AdaptiveWindow(R, t)
    BY <2>1
  <2>3. S2 = S \cup {r}
    BY <2>2 DEF ScorableReports, Within
  <2> QED
    BY <1>3, <2>3
<1>7. o \in WeightedOutcomes(S2, t) /\ S2 # {}
  BY <1>2, <1>5, <1>6 DEF ComputeStatus
<1>8. Scorable(S2) /\ Scorable({})
  <2>1. Scorable(S2)
    BY <1>4, SelectedLists
  <2>2. Scorable({})
    BY FS_EmptySet DEF Scorable, Listing
  <2> QED
    BY <2>1, <2>2
<1> HIDE DEF S, S2, R2
<1> DEFINE k == ReportScore(r, t)
           l == StatusValue[r.status]
<1>9. k \in Nat \ {0} /\ l \in 0..3 /\ ReportValue(r, t) = l * k
  <2>1. r.at \in Int
    OBVIOUS
  <2>2. k \in Nat /\ k > 0 /\ l \in 0..3
    BY <2>1, ReportTerms
  <2> QED
    BY <2>2 DEF ReportValue
<1>10. TotalScore(S2, t) = k /\ TotalValue(S2, t) = l * k
  <2>1. TotalScore({}, t) = 0 /\ TotalValue({}, t) = 0
    BY SumOfNone, Zenon DEF TotalScore, TotalValue, SumFunction
  <2>2. TotalScore(S2, t) = TotalScore({}, t) + k /\ TotalValue(S2, t) = TotalValue({}, t) + l * k
    BY <1>6, <1>8, <1>9, OneMoreSums
  <2>3. k \in Int /\ l * k \in Int
    BY <1>9
  <2> HIDE DEF k, l
  <2> QED
    BY <2>1, <2>2, <2>3
<1> HIDE DEF k, l
<1>11. o.status \in Scored /\ IsNearest(StatusValue[o.status], l * k, k)
  <2>1. /\ Sums(l * k, k, TotalWeight(S2, t)) /\ o \in Means(l * k, k, TotalWeight(S2, t))
        /\ k # 0
    BY <1>7, <1>8, <1>9, <1>10, WeightedSums
  <2> QED
    BY <2>1, MeansParts
<1>12. StatusValue[o.status] \in 0..3
  BY <1>11 DEF Scored, StatusValue
<1>13. StatusValue[o.status] = l
  BY <1>9, <1>11, <1>12, MeanOfOne
<1> QED
  BY <1>11, <1>13 DEF l, Scored, StatusValue

\* A nearest integer of the mean of 100 a and 100 b, in which a weighs no less than b, is
\* on the side of a of their middle.
LEMMA Midpoint ==
  ASSUME NEW a \in 0..3, NEW b \in 0..3, NEW k \in Nat, NEW j \in Nat \ {0}, j <= k,
         NEW z \in Int, NEW n, n = k + j, NEW v, v = a * k + b * j,
         -n <= 2 * (z * n - 100 * v), 2 * (z * n - 100 * v) <= n
  PROVE  /\ 100 * a <= 100 * b => z + z <= 100 * a + 100 * b
         /\ 100 * b <= 100 * a => 100 * a + 100 * b <= z + z
<1> DEFINE m == 50 * (a + b)
<1>1. m \in Int /\ n \in Int /\ z * n \in Int /\ m * n \in Int /\ m + m = 100 * a + 100 * b
      /\ n > 0 /\ v \in Int /\ m * n - 100 * v = 50 * ((b - a) * (k - j))
  OBVIOUS
<1>2. (a <= b => (b - a) * (k - j) >= 0) /\ (b <= a => (b - a) * (k - j) <= 0)
      /\ (b - a) * (k - j) \in Int
  OBVIOUS
<1> HIDE DEF m
<1>3. ASSUME a <= b PROVE z <= m
  <2> SUFFICES ASSUME z >= m + 1 PROVE FALSE
    BY <1>1
  <2>1. (z - m - 1) * n >= 0 /\ (z - m - 1) * n = z * n - m * n - n
    BY <1>1
  <2>2. z * n - 100 * v >= n
    BY <1>1, <1>2, <1>3, <2>1
  <2> QED
    BY <1>1, <2>2
<1>4. ASSUME b <= a PROVE m <= z
  <2> SUFFICES ASSUME z <= m - 1 PROVE FALSE
    BY <1>1
  <2>1. (m - 1 - z) * n >= 0 /\ (m - 1 - z) * n = m * n - z * n - n
    BY <1>1
  <2>2. z * n - 100 * v <= -n
    BY <1>1, <1>2, <1>4, <2>1
  <2> QED
    BY <1>1, <2>2
<1> QED
  BY <1>1, <1>3, <1>4

\* Of two reports of the same minute the mean is never nearer to the one trusted less.
THEOREM TrustedVoiceWins ==
  ASSUME NEW t \in Int, NEW r, NEW q, r # q, r.at = t, q.at = t,
         r.status \in Scored, q.status \in Scored,
         r.conf \in Confidence, q.conf \in Confidence, q.conf <= r.conf, q.conf > 0,
         NEW o \in ComputeStatus({r, q}, t)
  PROVE  LET x == 100 * StatusValue[r.status]
             y == 100 * StatusValue[q.status]
         IN  /\ o.avg \in Int /\ x \in Int /\ y \in Int
             /\ x <= y => o.avg + o.avg <= x + y
             /\ y <= x => x + y <= o.avg + o.avg
<1> DEFINE R == {r, q}
<1>1. Listing(R) /\ Scorable(R) /\ Scorable({r}) /\ q \notin {r} /\ {r} \cup {q} = R
      /\ Scorable({}) /\ r \notin {} /\ {} \cup {r} = {r}
  <2>1. IsFiniteSet(R) /\ IsFiniteSet({r}) /\ IsFiniteSet({})
    <3>1. IsFiniteSet({r}) /\ IsFiniteSet({})
      BY FS_EmptySet, FS_Singleton
    <3>2. IsFiniteSet({r} \cup {q}) /\ {r} \cup {q} = R
      BY <3>1, FS_AddElement
    <3> QED
      BY <3>1, <3>2
  <2>2. /\ \A x \in R : x.at \in Int /\ x.conf \in Confidence /\ x.status \in Scored
        /\ \A x \in R : x.status \in ReportStatus
    BY DEF ReportStatus
  <2>3. {r} \subseteq R /\ {} \subseteq R /\ q \notin {r} /\ {r} \cup {q} = R /\ {} \cup {r} = {r}
    OBVIOUS
  <2> HIDE DEF R
  <2> QED
    BY <2>1, <2>2, <2>3 DEF Listing, Scorable
<1>2. FoodEndedReports(R, t) = {} /\ Cardinality(FoodEndedReports(R, t)) = 0
  <2>1. FoodEndedReports(R, t) = {}
    BY DEF FoodEndedReports, Within, Scored
  <2> QED
    BY <2>1, FS_EmptySet
<1>3. ScorableReports(R, t) = R
  <2>1. AdaptiveWindow(R, t) \in Nat
    BY WindowsAssumption DEF AdaptiveWindow
  <2> HIDE DEF R
  <2>2. \A x \in R : t - x.at <= AdaptiveWindow(R, t)
    BY <2>1 DEF R
  <2> QED
    BY <2>2 DEF ScorableReports, Within, R
<1>4. o \in WeightedOutcomes(R, t)
  <2>1. R # {} /\ ~ (Cardinality(FoodEndedReports(R, t)) >= FoodEndedQuorum)
    BY <1>2, WindowsAssumption
  <2> QED
    BY <1>3, <2>1 DEF ComputeStatus
<1> DEFINE w == TemporalWeight(0)
           c == r.conf
           d == q.conf
           a == StatusValue[r.status]
           b == StatusValue[q.status]
           v == TotalValue(R, t)
           n == TotalScore(R, t)
<1>5. w \in Nat \ {0} /\ c \in Nat /\ d \in Nat \ {0} /\ d <= c /\ a \in 0..3 /\ b \in 0..3
  <2>1. w \in 15..95
    BY WeightDecreases
  <2> QED
    BY <2>1, ReportTerms DEF Confidence
<1>6. n = w * c + w * d /\ v = a * (w * c) + b * (w * d)
  <2>1. /\ ReportScore(r, t) = w * c /\ ReportScore(q, t) = w * d
        /\ ReportValue(r, t) = a * (w * c) /\ ReportValue(q, t) = b * (w * d)
    BY DEF ReportValue, ReportScore, ReportWeight
  <2>2. TotalScore({}, t) = 0 /\ TotalValue({}, t) = 0
    BY SumOfNone, Zenon DEF TotalScore, TotalValue, SumFunction
  <2>3. /\ TotalScore({r}, t) = 0 + w * c /\ TotalValue({r}, t) = 0 + a * (w * c)
    <3> HIDE DEF w, c, d, a, b, v, n, R
    <3>1. Scorable({} \cup {r})
      BY <1>1
    <3>2. /\ TotalScore({} \cup {r}, t) = TotalScore({}, t) + ReportScore(r, t)
          /\ TotalValue({} \cup {r}, t) = TotalValue({}, t) + ReportValue(r, t)
      BY <1>1, <3>1, OneMoreSums
    <3> QED
      BY <1>1, <2>1, <2>2, <3>2
  <2>4. /\ TotalScore(R, t) = TotalScore({r}, t) + w * d
        /\ TotalValue(R, t) = TotalValue({r}, t) + b * (w * d)
    <3> HIDE DEF w, c, d, a, b, v, n, R
    <3>1. Scorable({r} \cup {q})
      BY <1>1
    <3>2. /\ TotalScore({r} \cup {q}, t) = TotalScore({r}, t) + ReportScore(q, t)
          /\ TotalValue({r} \cup {q}, t) = TotalValue({r}, t) + ReportValue(q, t)
      BY <1>1, <3>1, OneMoreSums
    <3> QED
      BY <1>1, <2>1, <3>2
  <2> HIDE DEF w, c, d, a, b, v, n
  <2> QED
    BY <1>5, <2>3, <2>4 DEF v, n
<1>7. Sums(v, n, TotalWeight(R, t)) /\ o \in Means(v, n, TotalWeight(R, t))
  <2> HIDE DEF R
  <2> QED
    BY <1>1, <1>4, WeightedSums DEF R
<1> HIDE DEF w, c, d, a, b, v, n, R
<1>8. o.avg \in 0..300 /\ IsNearest(o.avg, 100 * v, n) /\ n \in Nat \ {0}
  <2>1. n # 0 /\ n \in Nat
    BY <1>5, <1>6
  <2> QED
    BY <1>7, <2>1, MeansParts
<1> DEFINE k == w * c
           j == w * d
           z == o.avg
<1>9. k \in Nat /\ j \in Nat \ {0} /\ j <= k
  BY <1>5
<1>10. /\ z \in Int /\ n = k + j /\ v = a * k + b * j
       /\ -n <= 2 * (z * n - 100 * v) /\ 2 * (z * n - 100 * v) <= n
  BY <1>6, <1>8 DEF IsNearest
<1> HIDE DEF k, j, z
<1>11. (100 * a <= 100 * b => z + z <= 100 * a + 100 * b)
       /\ (100 * b <= 100 * a => 100 * a + 100 * b <= z + z)
  BY <1>5, <1>9, <1>10, Midpoint
<1>12. o.avg \in Int /\ 100 * a \in Int /\ 100 * b \in Int
  BY <1>5, <1>8
<1> QED
  BY <1>11, <1>12, Zenon DEF a, b, z
=============================================================================
