------------------------------ MODULE SumTheorems ------------------------------
(***************************************************************************)
(* Sums over finite sets, SumFunctionOnSet of the community modules:       *)
(* stocks, payments and postings are all sums over rows, and what a        *)
(* handler does to a total is what it does to the terms.                   *)
(*                                                                         *)
(* SumFunctionOnSet is a recursive function on the subsets of a set.  That *)
(* there is such a function, and that the order in which it picks the      *)
(* elements does not matter, are proved here by the smallest               *)
(* counterexample; the induction theorems of the library take an operator  *)
(* as a parameter, SetInduction takes a set.                               *)
(***************************************************************************)
EXTENDS Functions, Integers, FiniteSets, FiniteSetTheorems, WellFoundedInduction, TLAPS

Picked(S) == CHOOSE x \in S : TRUE

(* t is the recursive function that SumFunctionOnSet(f, S) applies to S. *)
Adds(f, S, t) ==
  t = [s \in SUBSET S |-> IF s = {} THEN 0 ELSE f[Picked(s)] + t[s \ {Picked(s)}]]
Totals(f, S) == CHOOSE t : Adds(f, S, t)

(* What holds of a set if it holds of its proper subsets holds of every    *)
(* finite set.                                                             *)
LEMMA SetInduction ==
  ASSUME NEW S, IsFiniteSet(S), NEW G,
         \A T \in SUBSET S : (\A U \in SUBSET T : U # T => U \in G) => T \in G
  PROVE  \A T \in SUBSET S : T \in G
<1> DEFINE bad == {T \in SUBSET S : T \notin G}
<1> SUFFICES ASSUME bad # {} PROVE FALSE
  OBVIOUS
<1> DEFINE R == StrictSubsetOrdering(S)
<1>1. IsWellFoundedOn(R, SUBSET S)
  <2>1. IsWellFoundedOn(R, FiniteSubsetsOf(S))
    BY FS_StrictSubsetOrderingWellFounded
  <2>2. FiniteSubsetsOf(S) = SUBSET S
    BY FS_FiniteSubsetsOfFinite
  <2> QED
    BY <2>1, <2>2
<1>2. bad \in SUBSET (SUBSET S)
  OBVIOUS
<1>3. PICK T \in bad : \A U \in bad : <<U, T>> \notin R
  <2> HIDE DEF bad, R
  <2> QED
    BY <1>1, <1>2, WFMin
<1>4. \A U \in SUBSET T : U # T => U \in G
  BY <1>3 DEF StrictSubsetOrdering
<1> QED
  BY <1>3, <1>4

LEMMA SumIsTotal ==
  ASSUME NEW f, NEW S
  PROVE  SumFunctionOnSet(f, S) = Totals(f, S)[S]
BY DEF SumFunctionOnSet, FoldFunctionOnSet, MapThenFoldSet, Totals, Adds, Picked

LEMMA PickedIsIn ==
  ASSUME NEW S, S # {}
  PROVE  Picked(S) \in S
BY DEF Picked

LEMMA AddsEach ==
  ASSUME NEW f, NEW S, NEW t, Adds(f, S, t), NEW s \in SUBSET S
  PROVE  t[s] = IF s = {} THEN 0 ELSE f[Picked(s)] + t[s \ {Picked(s)}]
<1> DEFINE e(s1) == IF s1 = {} THEN 0 ELSE f[Picked(s1)] + t[s1 \ {Picked(s1)}]
<1>1. t = [s1 \in SUBSET S |-> e(s1)]
  BY DEF Adds
<1> HIDE DEF e
<1>2. t[s] = e(s)
  BY <1>1
<1> QED
  BY <1>2 DEF e

(* Two such functions agree where both are defined. *)
LEMMA AddsAgree ==
  ASSUME NEW f, NEW S, NEW T \in SUBSET S, IsFiniteSet(T), NEW t, NEW u, Adds(f, S, t), Adds(f, T, u)
  PROVE  t[T] = u[T]
<1> DEFINE G == {U \in SUBSET T : t[U] = u[U]}
<1>1. ASSUME NEW U \in SUBSET T, \A V \in SUBSET U : V # U => V \in G
      PROVE  U \in G
  <2>1. CASE U = {}
    BY <2>1, AddsEach
  <2>2. CASE U # {}
    <3>1. Picked(U) \in U
      BY <2>2, PickedIsIn
    <3>2. t[U \ {Picked(U)}] = u[U \ {Picked(U)}]
      BY <1>1, <3>1
    <3>3. t[U] = f[Picked(U)] + t[U \ {Picked(U)}]
      BY <2>2, AddsEach
    <3>4. u[U] = f[Picked(U)] + u[U \ {Picked(U)}]
      BY <2>2, AddsEach
    <3> QED
      BY <3>2, <3>3, <3>4
  <2> QED
    BY <2>1, <2>2
<1> HIDE DEF G
<1>2. T \in G
  BY <1>1, SetInduction
<1> QED
  BY <1>2 DEF G

(* There is such a function, and the sum is its value. *)
LEMMA SumAdds ==
  ASSUME NEW f, NEW S, IsFiniteSet(S)
  PROVE  Adds(f, S, Totals(f, S))
<1> DEFINE G == {T \in SUBSET S : Adds(f, T, Totals(f, T))}
<1>1. ASSUME NEW T \in SUBSET S, \A U \in SUBSET T : U # T => U \in G
      PROVE  T \in G
  <2> DEFINE sum(s) == Totals(f, s)[s]
             e(s) == IF s = {} THEN 0 ELSE f[Picked(s)] + sum(s \ {Picked(s)})
             t == [s \in SUBSET T |-> e(s)]
  <2>1. ASSUME NEW U \in SUBSET T, U # T
        PROVE  sum(U) = e(U)
    <3>1. Adds(f, U, Totals(f, U))
      BY <1>1, <2>1
    <3>2. CASE U = {}
      BY <3>1, <3>2, AddsEach
    <3>3. CASE U # {}
      <4> DEFINE V == U \ {Picked(U)}
      <4>1. V \in SUBSET U /\ V # T /\ V \in SUBSET T
        BY <3>3, PickedIsIn
      <4>2. Adds(f, V, Totals(f, V))
        BY <1>1, <4>1
      <4>3. IsFiniteSet(V)
        BY FS_Subset, <4>1
      <4>4. Totals(f, U)[V] = Totals(f, V)[V]
        BY <3>1, <4>1, <4>2, <4>3, AddsAgree
      <4>5. Totals(f, U)[U] = f[Picked(U)] + Totals(f, U)[V]
        BY <3>1, <3>3, AddsEach
      <4> QED
        BY <3>3, <4>4, <4>5
    <3> QED
      BY <3>2, <3>3
  <2>2. \A s \in SUBSET T : t[s] = e(s)
    OBVIOUS
  <2>3. \A s \in SUBSET T : s # {} => t[s \ {Picked(s)}] = sum(s \ {Picked(s)})
    <3> SUFFICES ASSUME NEW s \in SUBSET T, s # {} PROVE t[s \ {Picked(s)}] = sum(s \ {Picked(s)})
      OBVIOUS
    <3>1. s \ {Picked(s)} \in SUBSET T /\ s \ {Picked(s)} # T
      BY PickedIsIn
    <3> HIDE DEF t, e, sum
    <3> QED
      BY <2>1, <2>2, <3>1
  <2>4. t = [s \in SUBSET T |-> IF s = {} THEN 0 ELSE f[Picked(s)] + t[s \ {Picked(s)}]]
    <3> DEFINE h(s) == IF s = {} THEN 0 ELSE f[Picked(s)] + t[s \ {Picked(s)}]
    <3>1. \A s \in SUBSET T : e(s) = h(s)
      <4> HIDE DEF t
      <4> QED
        BY <2>3
    <3> HIDE DEF h, e
    <3>2. t = [s \in SUBSET T |-> h(s)]
      BY <3>1
    <3> QED
      BY <3>2 DEF h
  <2>5. Adds(f, T, t)
    <3> HIDE DEF t
    <3> QED
      BY <2>4 DEF Adds
  <2> HIDE DEF t
  <2>6. Adds(f, T, Totals(f, T))
    BY <2>5 DEF Totals
  <2> QED
    BY <2>6
<1> HIDE DEF G
<1>2. S \in G
  BY <1>1, SetInduction
<1> QED
  BY <1>2 DEF G

(* The sum of nothing is zero. *)
THEOREM SumEmpty ==
  ASSUME NEW f
  PROVE  SumFunctionOnSet(f, {}) = 0
BY FS_EmptySet, SumAdds, AddsEach, SumIsTotal

LEMMA SumPicked ==
  ASSUME NEW f, NEW S, IsFiniteSet(S), S # {}
  PROVE  SumFunctionOnSet(f, S) = f[Picked(S)] + SumFunctionOnSet(f, S \ {Picked(S)})
<1> DEFINE T == S \ {Picked(S)}
<1>1. T \in SUBSET S /\ IsFiniteSet(T)
  BY FS_Subset
<1>2. Totals(f, S)[S] = f[Picked(S)] + Totals(f, S)[T]
  BY SumAdds, AddsEach
<1>3. Totals(f, S)[T] = Totals(f, T)[T]
  BY <1>1, SumAdds, AddsAgree
<1> HIDE DEF T
<1>4. SumFunctionOnSet(f, S) = f[Picked(S)] + SumFunctionOnSet(f, T)
  BY <1>2, <1>3, SumIsTotal
<1> QED
  BY <1>4 DEF T

(* A sum of integers is an integer. *)
THEOREM SumIsInt ==
  ASSUME NEW f, NEW S, IsFiniteSet(S), \A x \in S : f[x] \in Int
  PROVE  SumFunctionOnSet(f, S) \in Int
<1> DEFINE G == {T \in SUBSET S : SumFunctionOnSet(f, T) \in Int}
<1>1. ASSUME NEW T \in SUBSET S, \A U \in SUBSET T : U # T => U \in G
      PROVE  T \in G
  <2>1. CASE T = {}
    BY <2>1, SumEmpty
  <2>2. CASE T # {}
    <3>1. Picked(T) \in T
      BY <2>2, PickedIsIn
    <3>2. SumFunctionOnSet(f, T \ {Picked(T)}) \in Int
      BY <1>1, <3>1
    <3>3. SumFunctionOnSet(f, T) = f[Picked(T)] + SumFunctionOnSet(f, T \ {Picked(T)})
      BY <2>2, FS_Subset, SumPicked
    <3> QED
      BY <3>1, <3>2, <3>3
  <2> QED
    BY <2>1, <2>2
<1> HIDE DEF G
<1>2. S \in G
  BY <1>1, SetInduction
<1> QED
  BY <1>2 DEF G

(* Any element can be taken out of a sum. *)
LEMMA SumSplits ==
  ASSUME NEW f, NEW S, IsFiniteSet(S), \A x \in S : f[x] \in Int
  PROVE  \A x \in S : SumFunctionOnSet(f, S) = f[x] + SumFunctionOnSet(f, S \ {x})
<1> DEFINE sum(T) == SumFunctionOnSet(f, T)
           splits(T) == \A x \in T : sum(T) = f[x] + sum(T \ {x})
           G == {T \in SUBSET S : splits(T)}
<1>0. \A T \in SUBSET S : IsFiniteSet(T) /\ sum(T) \in Int
  BY FS_Subset, SumIsInt
<1>1. ASSUME NEW T \in SUBSET S, \A U \in SUBSET T : U # T => U \in G
      PROVE  T \in G
  <2> SUFFICES ASSUME NEW x \in T PROVE sum(T) = f[x] + sum(T \ {x})
    OBVIOUS
  <2> DEFINE p == Picked(T)
             A == T \ {p}
             B == T \ {x}
             C == A \ {x}
  <2>1. p \in T /\ sum(T) = f[p] + sum(A)
    BY <1>0, SumPicked, PickedIsIn
  <2>2. CASE p = x
    BY <2>1, <2>2
  <2>3. CASE p # x
    <3>1. /\ A \in SUBSET T /\ A # T /\ x \in A
          /\ B \in SUBSET T /\ B # T /\ p \in B
          /\ B \ {p} = C /\ C \in SUBSET S
      BY <2>1, <2>3
    <3>2. sum(A) = f[x] + sum(C)
      BY <1>1, <3>1
    <3>3. sum(B) = f[p] + sum(C)
      BY <1>1, <3>1
    <3>4. f[p] \in Int /\ f[x] \in Int /\ sum(C) \in Int
      BY <1>0, <2>1, <3>1
    <3>5. sum(T) = f[x] + sum(B)
      <4> HIDE DEF p, A, B, C, sum
      <4> QED
        BY <2>1, <3>2, <3>3, <3>4
    <3> QED
      BY <3>5
  <2> QED
    BY <2>2, <2>3
<1> HIDE DEF G
<1>2. S \in G
  BY <1>1, SetInduction
<1> QED
  BY <1>2 DEF G

THEOREM SumSplit ==
  ASSUME NEW f, NEW S, IsFiniteSet(S), \A y \in S : f[y] \in Int, NEW x \in S
  PROVE  SumFunctionOnSet(f, S) = f[x] + SumFunctionOnSet(f, S \ {x})
BY SumSplits

(* Functions that agree on a set have the same sum over it. *)
THEOREM SumSame ==
  ASSUME NEW f, NEW g, NEW S, IsFiniteSet(S), \A x \in S : f[x] = g[x]
  PROVE  SumFunctionOnSet(f, S) = SumFunctionOnSet(g, S)
<1> DEFINE G == {T \in SUBSET S : SumFunctionOnSet(f, T) = SumFunctionOnSet(g, T)}
<1>1. ASSUME NEW T \in SUBSET S, \A U \in SUBSET T : U # T => U \in G
      PROVE  T \in G
  <2>1. CASE T = {}
    BY <2>1, SumEmpty
  <2>2. CASE T # {}
    <3>1. Picked(T) \in T /\ IsFiniteSet(T)
      BY <2>2, PickedIsIn, FS_Subset
    <3>2. SumFunctionOnSet(f, T \ {Picked(T)}) = SumFunctionOnSet(g, T \ {Picked(T)})
      BY <1>1, <3>1
    <3>3. SumFunctionOnSet(f, T) = f[Picked(T)] + SumFunctionOnSet(f, T \ {Picked(T)})
      BY <2>2, <3>1, SumPicked
    <3>4. SumFunctionOnSet(g, T) = g[Picked(T)] + SumFunctionOnSet(g, T \ {Picked(T)})
      BY <2>2, <3>1, SumPicked
    <3> QED
      BY <3>1, <3>2, <3>3, <3>4
  <2> QED
    BY <2>1, <2>2
<1> HIDE DEF G
<1>2. S \in G
  BY <1>1, SetInduction
<1> QED
  BY <1>2 DEF G

(* A sum of sums is the sum of both. *)
THEOREM SumPlus ==
  ASSUME NEW f, NEW g, NEW h, NEW S, IsFiniteSet(S),
         \A x \in S : f[x] \in Int /\ g[x] \in Int /\ h[x] = f[x] + g[x]
  PROVE  SumFunctionOnSet(h, S) = SumFunctionOnSet(f, S) + SumFunctionOnSet(g, S)
<1> DEFINE sum(k, T) == SumFunctionOnSet(k, T)
           G == {T \in SUBSET S : sum(h, T) = sum(f, T) + sum(g, T)}
<1>0. \A T \in SUBSET S : IsFiniteSet(T) /\ sum(f, T) \in Int /\ sum(g, T) \in Int
  BY FS_Subset, SumIsInt
<1>1. ASSUME NEW T \in SUBSET S, \A U \in SUBSET T : U # T => U \in G
      PROVE  T \in G
  <2>1. CASE T = {}
    BY <2>1, SumEmpty
  <2>2. CASE T # {}
    <3> DEFINE p == Picked(T)
               A == T \ {p}
    <3>1. p \in T /\ A \in SUBSET T /\ A # T
      BY <2>2, PickedIsIn
    <3>2. sum(h, A) = sum(f, A) + sum(g, A)
      BY <1>1, <3>1
    <3>3. /\ sum(h, T) = h[p] + sum(h, A)
          /\ sum(f, T) = f[p] + sum(f, A)
          /\ sum(g, T) = g[p] + sum(g, A)
      BY <1>0, <2>2, SumPicked
    <3>4. /\ f[p] \in Int /\ g[p] \in Int /\ h[p] = f[p] + g[p]
          /\ sum(f, A) \in Int /\ sum(g, A) \in Int
      BY <1>0, <3>1
    <3>5. sum(h, T) = sum(f, T) + sum(g, T)
      <4> HIDE DEF p, A, sum
      <4> QED
        BY <3>2, <3>3, <3>4
    <3> QED
      BY <3>5
  <2> QED
    BY <2>1, <2>2
<1> HIDE DEF G
<1>2. S \in G
  BY <1>1, SetInduction
<1> QED
  BY <1>2 DEF G

(* Smaller terms have a smaller sum. *)
THEOREM SumAtMost ==
  ASSUME NEW f, NEW g, NEW S, IsFiniteSet(S),
         \A x \in S : f[x] \in Int /\ g[x] \in Int /\ f[x] <= g[x]
  PROVE  SumFunctionOnSet(f, S) <= SumFunctionOnSet(g, S)
<1> DEFINE sum(k, T) == SumFunctionOnSet(k, T)
           G == {T \in SUBSET S : sum(f, T) <= sum(g, T)}
<1>0. \A T \in SUBSET S : IsFiniteSet(T) /\ sum(f, T) \in Int /\ sum(g, T) \in Int
  BY FS_Subset, SumIsInt
<1>1. ASSUME NEW T \in SUBSET S, \A U \in SUBSET T : U # T => U \in G
      PROVE  T \in G
  <2>1. CASE T = {}
    BY <2>1, SumEmpty
  <2>2. CASE T # {}
    <3> DEFINE p == Picked(T)
               A == T \ {p}
    <3>1. p \in T /\ A \in SUBSET T /\ A # T
      BY <2>2, PickedIsIn
    <3>2. sum(f, A) <= sum(g, A)
      BY <1>1, <3>1
    <3>3. sum(f, T) = f[p] + sum(f, A) /\ sum(g, T) = g[p] + sum(g, A)
      BY <1>0, <2>2, SumPicked
    <3>4. /\ f[p] \in Int /\ g[p] \in Int /\ f[p] <= g[p]
          /\ sum(f, A) \in Int /\ sum(g, A) \in Int
      BY <1>0, <3>1
    <3>5. sum(f, T) <= sum(g, T)
      <4> HIDE DEF p, A, sum
      <4> QED
        BY <3>2, <3>3, <3>4
    <3> QED
      BY <3>5
  <2> QED
    BY <2>1, <2>2
<1> HIDE DEF G
<1>2. S \in G
  BY <1>1, SetInduction
<1> QED
  BY <1>2 DEF G

(* One term changes: the sum changes by as much. *)
THEOREM SumExcept ==
  ASSUME NEW f, NEW g, NEW S, IsFiniteSet(S), NEW x \in S,
         \A y \in S : f[y] \in Int /\ g[y] \in Int, \A y \in S \ {x} : f[y] = g[y]
  PROVE  SumFunctionOnSet(g, S) = SumFunctionOnSet(f, S) + g[x] - f[x]
<1> DEFINE T == S \ {x}
           sum(k, U) == SumFunctionOnSet(k, U)
<1>1. IsFiniteSet(T)
  BY FS_Subset
<1>2. sum(f, T) = sum(g, T) /\ sum(f, T) \in Int
  BY <1>1, SumSame, SumIsInt
<1>3. sum(f, S) = f[x] + sum(f, T) /\ sum(g, S) = g[x] + sum(g, T)
  BY SumSplit
<1> HIDE DEF T, sum
<1>4. sum(g, S) = sum(f, S) + g[x] - f[x]
  BY <1>2, <1>3
<1> QED
  BY <1>4 DEF sum

(* A sum of zeros is zero. *)
THEOREM SumOfZeros ==
  ASSUME NEW f, NEW S, IsFiniteSet(S), \A x \in S : f[x] = 0
  PROVE  SumFunctionOnSet(f, S) = 0
<1> DEFINE sum == SumFunctionOnSet(f, S)
<1>1. sum = sum + sum
  BY SumPlus
<1>2. sum \in Int
  BY SumIsInt
<1> HIDE DEF sum
<1>3. sum = 0
  BY <1>1, <1>2
<1> QED
  BY <1>3 DEF sum

(* A sum of natural numbers is one. *)
THEOREM SumIsNat ==
  ASSUME NEW f, NEW S, IsFiniteSet(S), \A x \in S : f[x] \in Nat
  PROVE  SumFunctionOnSet(f, S) \in Nat
<1> DEFINE zero == [x \in S |-> 0]
<1>1. SumFunctionOnSet(zero, S) <= SumFunctionOnSet(f, S)
  BY SumAtMost
<1>2. SumFunctionOnSet(zero, S) = 0
  BY SumOfZeros
<1>3. SumFunctionOnSet(f, S) \in Int
  BY SumIsInt
<1> QED
  BY <1>1, <1>2, <1>3

(* Terms that are zero do not count. *)
THEOREM SumOverPart ==
  ASSUME NEW f, NEW S, IsFiniteSet(S), NEW P \in SUBSET S,
         \A x \in S : f[x] \in Int, \A x \in S \ P : f[x] = 0
  PROVE  SumFunctionOnSet(f, S) = SumFunctionOnSet(f, P)
<1> DEFINE sum(T) == SumFunctionOnSet(f, T)
           G == {T \in SUBSET S : sum(T) = sum(T \cap P)}
<1>0. \A T \in SUBSET S : IsFiniteSet(T) /\ sum(T) \in Int
  BY FS_Subset, SumIsInt
<1>1. ASSUME NEW T \in SUBSET S, \A U \in SUBSET T : U # T => U \in G
      PROVE  T \in G
  <2>1. CASE T \in SUBSET P
    <3>1. T \cap P = T
      BY <2>1
    <3> QED
      BY <3>1
  <2>2. ASSUME NEW x \in T, x \notin P
        PROVE  T \in G
    <3> DEFINE A == T \ {x}
    <3>1. A \in G /\ A \cap P = T \cap P
      BY <1>1, <2>2
    <3>2. sum(T) = f[x] + sum(A)
      BY <1>0, SumSplit
    <3>3. f[x] = 0 /\ sum(A) \in Int
      BY <1>0, <2>2
    <3>4. sum(T) = sum(T \cap P)
      <4>1. sum(A) = sum(T \cap P)
        BY <3>1
      <4> HIDE DEF A, sum
      <4> QED
        BY <3>2, <3>3, <4>1
    <3> QED
      BY <3>4
  <2> QED
    BY <2>1, <2>2
<1> HIDE DEF G
<1>2. S \in G
  BY <1>1, SetInduction
<1>3. S \cap P = P
  OBVIOUS
<1> QED
  BY <1>2, <1>3 DEF G

(* A term is at most the sum. *)
THEOREM SumTerm ==
  ASSUME NEW f, NEW S, IsFiniteSet(S), \A y \in S : f[y] \in Nat, NEW x \in S
  PROVE  f[x] <= SumFunctionOnSet(f, S)
<1>1. SumFunctionOnSet(f, S \ {x}) \in Nat
  BY FS_Subset, SumIsNat
<1>2. SumFunctionOnSet(f, S) = f[x] + SumFunctionOnSet(f, S \ {x})
  BY SumSplit
<1> DEFINE rest == SumFunctionOnSet(f, S \ {x})
           sum == SumFunctionOnSet(f, S)
<1> HIDE DEF rest, sum
<1>3. f[x] \in Nat /\ rest \in Nat /\ sum = f[x] + rest
  BY <1>1, <1>2 DEF rest, sum
<1>4. f[x] <= sum
  BY <1>3
<1> QED
  BY <1>4 DEF sum

LEMMA Difference ==
  \A a, b, c, d, m \in Int : m = a + b /\ m = d + c => d = a + b - c
OBVIOUS

(* What changes term by term changes the sum by the sum of the changes. *)
Changes(h, f, g, k, S) ==
  \A x \in S : f[x] \in Int /\ g[x] \in Int /\ k[x] \in Int /\ h[x] = f[x] + g[x] - k[x]

THEOREM SumChange ==
  ASSUME NEW f, NEW g, NEW k, NEW h, NEW S, IsFiniteSet(S), Changes(h, f, g, k, S)
  PROVE  SumFunctionOnSet(h, S)
           = SumFunctionOnSet(f, S) + SumFunctionOnSet(g, S) - SumFunctionOnSet(k, S)
<1> DEFINE m == [x \in S |-> f[x] + g[x]]
           sum(l) == SumFunctionOnSet(l, S)
<1>1. \A x \in S : /\ f[x] \in Int /\ g[x] \in Int /\ k[x] \in Int
                   /\ m[x] = f[x] + g[x] /\ m[x] \in Int /\ h[x] \in Int /\ m[x] = h[x] + k[x]
  BY DEF Changes
<1> HIDE DEF m
<1>2. sum(m) = sum(f) + sum(g)
  BY <1>1, SumPlus
<1>3. sum(m) = sum(h) + sum(k)
  BY <1>1, SumPlus
<1>4. sum(f) \in Int /\ sum(g) \in Int /\ sum(h) \in Int /\ sum(k) \in Int
  BY <1>1, SumIsInt
<1> HIDE DEF sum
<1>5. sum(h) = sum(f) + sum(g) - sum(k)
  <2>1. sum(m) \in Int
    BY <1>1, SumIsInt DEF sum
  <2> QED
    <3> DEFINE a == sum(f)
               b == sum(g)
               c == sum(k)
               d == sum(h)
               n == sum(m)
    <3>1. a \in Int /\ b \in Int /\ c \in Int /\ d \in Int /\ n \in Int
      BY <1>4, <2>1
    <3>2. n = a + b /\ n = d + c
      BY <1>2, <1>3
    <3>3. d = a + b - c
      <4> HIDE DEF a, b, c, d, n
      <4> QED
        BY <3>1, <3>2, Difference
    <3> QED
      BY <3>3
<1> QED
  BY <1>5 DEF sum

(* The same two, said of terms that a predicate compares: a step that has  *)
(* other sums at hand can then cite them.                                  *)
AddUp(h, f, g, S) == \A x \in S : f[x] \in Int /\ g[x] \in Int /\ h[x] = f[x] + g[x]
SameBut(f, g, S, y) ==
  (\A x \in S : f[x] \in Int /\ g[x] \in Int) /\ (\A x \in S \ {y} : f[x] = g[x])

LEMMA SumAddUp ==
  ASSUME NEW f, NEW g, NEW h, NEW S, IsFiniteSet(S), AddUp(h, f, g, S)
  PROVE  SumFunctionOnSet(h, S) = SumFunctionOnSet(f, S) + SumFunctionOnSet(g, S)
<1>1. \A x \in S : f[x] \in Int /\ g[x] \in Int /\ h[x] = f[x] + g[x]
  BY DEF AddUp
<1> QED
  BY <1>1, SumPlus

LEMMA SumSameBut ==
  ASSUME NEW f, NEW g, NEW S, IsFiniteSet(S), NEW x \in S, SameBut(f, g, S, x)
  PROVE  SumFunctionOnSet(g, S) = SumFunctionOnSet(f, S) + g[x] - f[x]
<1>1. (\A y \in S : f[y] \in Int /\ g[y] \in Int) /\ (\A y \in S \ {x} : f[y] = g[y])
  BY DEF SameBut
<1> QED
  BY <1>1, SumExcept

------------------------------------------------------------------------------
(***************************************************************************)
(* Amounts poured in an order into dues in an order: the dues lie end to   *)
(* end from 0 on, the one amount from lo to hi, and what a due gets is the *)
(* overlap of its interval, n long from b, with that.                      *)
(***************************************************************************)
Lower(m, n) == IF m < n THEN m ELSE n
Higher(m, n) == IF m > n THEN m ELSE n
Overlap(lo, hi, b, n) == Higher(0, Lower(hi, b + n) - Higher(lo, b))

IsOrder(less, S) ==
  /\ \A x \in S : <<x, x>> \notin less
  /\ \A x, y \in S : x = y \/ <<x, y>> \in less \/ <<y, x>> \in less
  /\ \A x, y, z \in S : <<x, y>> \in less /\ <<y, z>> \in less => <<x, z>> \in less
Before(less, S, x) == {y \in S : <<y, x>> \in less}

(* A finite set has a last element. *)
LEMMA LastExists ==
  ASSUME NEW S, IsFiniteSet(S), S # {}, NEW less, IsOrder(less, S)
  PROVE  \E m \in S : \A x \in S \ {m} : <<x, m>> \in less
<1> DEFINE G == {T \in SUBSET S : T # {} => \E m \in T : \A x \in T \ {m} : <<x, m>> \in less}
<1>1. ASSUME NEW T \in SUBSET S, \A U \in SUBSET T : U # T => U \in G
      PROVE  T \in G
  <2>1. ASSUME NEW x \in T
        PROVE  T \in G
    <3>1. CASE T = {x}
      BY <3>1
    <3>2. CASE T # {x}
      <4>1. T \ {x} \in G /\ T \ {x} # {}
        BY <1>1, <2>1, <3>2
      <4>2. PICK m \in T \ {x} : \A y \in (T \ {x}) \ {m} : <<y, m>> \in less
        BY <4>1
      <4>3. <<x, m>> \in less \/ <<m, x>> \in less
        BY <4>2 DEF IsOrder
      <4>4. CASE <<x, m>> \in less
        BY <4>2, <4>4
      <4>5. CASE <<m, x>> \in less
        <5>1. \A y \in T \ {x} : <<y, x>> \in less
          BY <4>2, <4>5 DEF IsOrder
        <5> QED
          BY <5>1
      <4> QED
        BY <4>3, <4>4, <4>5
    <3> QED
      BY <3>1, <3>2
  <2> QED
    BY <2>1
<1> HIDE DEF G
<1>2. S \in G
  BY <1>1, SetInduction
<1> QED
  BY <1>2 DEF G

(* What all dues get is the part of the amount that lies below their total. *)
THEOREM SumOverlap ==
  ASSUME NEW S, IsFiniteSet(S), NEW less, IsOrder(less, S),
         NEW f, \A x \in S : f[x] \in Nat,
         NEW lo \in Nat, NEW hi \in Nat, lo <= hi,
         NEW g, \A x \in S : g[x] = Overlap(lo, hi, SumFunctionOnSet(f, Before(less, S, x)), f[x])
  PROVE  SumFunctionOnSet(g, S) = Higher(0, Lower(hi, SumFunctionOnSet(f, S)) - lo)
<1> DEFINE clip(n) == Higher(0, Lower(hi, n) - lo)
           sum(k, T) == SumFunctionOnSet(k, T)
           down(T) == \A x \in T : Before(less, S, x) \subseteq T
           G == {T \in SUBSET S : down(T) => sum(g, T) = clip(sum(f, T))}
<1>1. \A T \in SUBSET S : IsFiniteSet(T) /\ sum(f, T) \in Nat
  BY FS_Subset, SumIsNat
<1>2. ASSUME NEW b \in Nat, NEW n \in Nat
      PROVE  Overlap(lo, hi, b, n) + clip(b) = clip(b + n)
  BY DEF Overlap, Higher, Lower
<1>0. ASSUME NEW b \in Nat, NEW n \in Nat
      PROVE  Overlap(lo, hi, b, n) \in Nat
  BY DEF Overlap, Higher, Lower
<1>3. \A x \in S : g[x] \in Int
  <2> SUFFICES ASSUME NEW x \in S
               PROVE  g[x] \in Int
    OBVIOUS
  <2>1. Before(less, S, x) \in SUBSET S
    BY DEF Before
  <2>2. sum(f, Before(less, S, x)) \in Nat /\ f[x] \in Nat
    BY <1>1, <2>1
  <2> QED
    <3>1. Overlap(lo, hi, sum(f, Before(less, S, x)), f[x]) \in Nat
      BY <1>0, <2>2
    <3> QED
      BY <3>1
<1>4. ASSUME NEW T \in SUBSET S, \A U \in SUBSET T : U # T => U \in G, down(T)
      PROVE  sum(g, T) = clip(sum(f, T))
  <2>1. CASE T = {}
    <3>1. sum(g, T) = 0 /\ sum(f, T) = 0
      BY <2>1, SumEmpty
    <3>2. clip(0) = 0
      BY DEF Higher, Lower
    <3> QED
      BY <3>1, <3>2
  <2>2. CASE T # {}
    <3>1. IsOrder(less, T)
      BY DEF IsOrder
    <3>2. PICK m \in T : \A x \in T \ {m} : <<x, m>> \in less
      BY <1>1, <2>2, <3>1, LastExists
    <3> DEFINE U == T \ {m}
    <3>3. Before(less, S, m) = U
      BY <1>4, <3>2 DEF Before, IsOrder
    <3>4. down(U)
      <4> SUFFICES ASSUME NEW x \in U, NEW y \in Before(less, S, x)
                   PROVE  y \in U
        OBVIOUS
      <4>1. y \in T /\ <<y, x>> \in less /\ <<x, m>> \in less
        BY <1>4, <3>2 DEF Before
      <4>2. y # m
        BY <4>1 DEF IsOrder
      <4> QED
        BY <4>1, <4>2
    <3>5. sum(g, U) = clip(sum(f, U))
      <4>1. U \in SUBSET T /\ U # T
        OBVIOUS
      <4>2. U \in G
        BY <1>4, <4>1
      <4> QED
        BY <3>4, <4>2
    <3>6. sum(g, T) = g[m] + sum(g, U)
      BY <1>1, <1>3, SumSplit
    <3>7. sum(f, T) = f[m] + sum(f, U)
      BY <1>1, SumSplit
    <3>8. g[m] = Overlap(lo, hi, sum(f, U), f[m])
      BY <3>3
    <3>9. sum(f, U) \in Nat /\ f[m] \in Nat
      BY <1>1
    <3>10. g[m] + clip(sum(f, U)) = clip(sum(f, U) + f[m])
      BY <1>2, <3>8, <3>9
    <3>11. sum(f, T) = sum(f, U) + f[m]
      BY <3>7, <3>9
    <3> QED
      BY <3>5, <3>6, <3>10, <3>11
  <2> QED
    BY <2>1, <2>2
<1>5. \A T \in SUBSET S : (\A U \in SUBSET T : U # T => U \in G) => T \in G
  BY <1>4
<1> HIDE DEF G
<1>6. S \in G
  BY <1>5, SetInduction
<1>7. down(S)
  BY DEF Before
<1> QED
  BY <1>6, <1>7 DEF G
------------------------------------------------------------------------------
(* Rows numbered by their date are taken oldest first or newest first.     *)
Smaller(S) == {x \in S \X S : x[1] < x[2]}
Larger(S) == {x \in S \X S : x[1] > x[2]}

LEMMA SmallerOrders ==
  ASSUME NEW S, S \subseteq Nat
  PROVE  IsOrder(Smaller(S), S) /\ \A x \in S : Before(Smaller(S), S, x) = {y \in S : y < x}
<1>1. \A x, y \in S : <<x, y>> \in Smaller(S) <=> x < y
  BY DEF Smaller
<1>2. IsOrder(Smaller(S), S)
  <2>1. \A x \in S : <<x, x>> \notin Smaller(S)
    BY <1>1
  <2>2. ASSUME NEW x \in S, NEW y \in S
        PROVE  x = y \/ <<x, y>> \in Smaller(S) \/ <<y, x>> \in Smaller(S)
    <3>1. x \in Nat /\ y \in Nat
      OBVIOUS
    <3>2. x = y \/ x < y \/ y < x
      BY <3>1
    <3> QED
      BY <1>1, <3>2
  <2>3. \A x, y, z \in S :
          <<x, y>> \in Smaller(S) /\ <<y, z>> \in Smaller(S) => <<x, z>> \in Smaller(S)
    BY <1>1
  <2> QED
    BY <2>1, <2>2, <2>3 DEF IsOrder
<1> QED
  BY <1>1, <1>2 DEF Before

LEMMA LargerOrders ==
  ASSUME NEW S, S \subseteq Nat
  PROVE  IsOrder(Larger(S), S) /\ \A x \in S : Before(Larger(S), S, x) = {y \in S : y > x}
<1>1. \A x, y \in S : <<x, y>> \in Larger(S) <=> x > y
  BY DEF Larger
<1>2. \A x, y \in S : x = y \/ x > y \/ y > x
  <2>1. \A x, y \in Nat : x = y \/ x > y \/ y > x
    OBVIOUS
  <2> QED
    BY <2>1
<1>3. \A x, y, z \in S : x > y /\ y > z => x > z
  <2>1. \A x, y, z \in Nat : x > y /\ y > z => x > z
    OBVIOUS
  <2> QED
    BY <2>1
<1>4. \A x \in S : ~ x > x
  <2>1. \A x \in Nat : ~ x > x
    OBVIOUS
  <2> QED
    BY <2>1
<1>5. IsOrder(Larger(S), S)
  BY <1>1, <1>2, <1>3, <1>4, Zenon DEF IsOrder
<1> QED
  BY <1>1, <1>5 DEF Before

(* The part of a sum that comes before x. *)
LEMMA SumBefore ==
  ASSUME NEW S, IsFiniteSet(S), S \subseteq Nat, NEW f, f = [y \in S |-> f[y]],
         \A y \in S : f[y] \in Nat, NEW x \in S
  PROVE  /\ SumFunction([y \in {y \in S : y < x} |-> f[y]])
              = SumFunctionOnSet(f, Before(Smaller(S), S, x))
         /\ SumFunction([y \in {y \in S : y < x} |-> f[y]]) \in Nat
<1> DEFINE P == {y \in S : y < x}
           g == [y \in P |-> f[y]]
<1>1. Before(Smaller(S), S, x) = P
  BY SmallerOrders
<1>2. IsFiniteSet(P)
  BY FS_Subset
<1>3. SumFunction(g) = SumFunctionOnSet(g, P)
  <2>1. DOMAIN g = P
    OBVIOUS
  <2> QED
    BY <2>1 DEF SumFunction
<1>4. \A y \in P : g[y] = f[y] /\ f[y] \in Nat
  OBVIOUS
<1> HIDE DEF P, g
<1>5. SumFunctionOnSet(g, P) = SumFunctionOnSet(f, P)
  BY <1>2, <1>4, SumSame
<1>6. SumFunctionOnSet(f, P) \in Nat
  BY <1>2, <1>4, SumIsNat
<1>7. SumFunction(g) = SumFunctionOnSet(f, Before(Smaller(S), S, x)) /\ SumFunction(g) \in Nat
  BY <1>1, <1>3, <1>5, <1>6
<1> QED
  BY <1>7 DEF P, g

(* A part of a sum of numbers that are not negative is at most the whole. *)
THEOREM SumMonotone ==
  ASSUME NEW S, IsFiniteSet(S), NEW f, \A x \in S : f[x] \in Nat, NEW P \in SUBSET S
  PROVE  SumFunctionOnSet(f, P) <= SumFunctionOnSet(f, S)
<1> DEFINE g == [x \in S |-> IF x \in P THEN f[x] ELSE 0]
<1>1. \A x \in S : f[x] \in Int /\ g[x] \in Int /\ g[x] <= f[x]
  OBVIOUS
<1>2. (\A x \in S \ P : g[x] = 0) /\ (\A x \in P : g[x] = f[x])
  OBVIOUS
<1> HIDE DEF g
<1>3. SumFunctionOnSet(g, S) <= SumFunctionOnSet(f, S)
  BY <1>1, SumAtMost
<1>4. SumFunctionOnSet(g, S) = SumFunctionOnSet(g, P)
  BY <1>1, <1>2, SumOverPart
<1>5. SumFunctionOnSet(g, P) = SumFunctionOnSet(f, P)
  BY <1>2, FS_Subset, SumSame
<1> QED
  BY <1>3, <1>4, <1>5

(* Dues laid end to end: x ends before anything later begins. *)
LEMMA SumEndsBefore ==
  ASSUME NEW S, IsFiniteSet(S), S \subseteq Nat, NEW f, \A y \in S : f[y] \in Nat, NEW x \in S
  PROVE  /\ SumFunctionOnSet(f, Before(Smaller(S), S, x)) + f[x] <= SumFunctionOnSet(f, S)
         /\ \A y \in S : x < y =>
              SumFunctionOnSet(f, Before(Smaller(S), S, x)) + f[x]
                <= SumFunctionOnSet(f, Before(Smaller(S), S, y))
<1> DEFINE P == Before(Smaller(S), S, x)
<1>1. \A y \in S : Before(Smaller(S), S, y) = {z \in S : z < y}
  BY SmallerOrders
<1>2. ASSUME NEW Q \in SUBSET S, x \in Q, P \subseteq Q
      PROVE  SumFunctionOnSet(f, P) + f[x] <= SumFunctionOnSet(f, Q)
  <2> DEFINE R == Q \ {x}
  <2>1. IsFiniteSet(Q) /\ IsFiniteSet(R) /\ IsFiniteSet(P)
    BY <1>1, FS_Subset
  <2>2. P \in SUBSET R
    BY <1>1, <1>2
  <2>3. \A y \in Q : f[y] \in Nat /\ f[y] \in Int
    OBVIOUS
  <2>4. SumFunctionOnSet(f, Q) = f[x] + SumFunctionOnSet(f, R)
    BY <1>2, <2>1, <2>3, SumSplit
  <2> HIDE DEF P
  <2>5. SumFunctionOnSet(f, P) <= SumFunctionOnSet(f, R)
    BY <2>1, <2>2, <2>3, SumMonotone
  <2>6. SumFunctionOnSet(f, P) \in Nat /\ SumFunctionOnSet(f, R) \in Nat /\ f[x] \in Nat
    BY <2>1, <2>2, <2>3, SumIsNat
  <2> QED
    BY <2>4, <2>5, <2>6
<1>3. SumFunctionOnSet(f, P) + f[x] <= SumFunctionOnSet(f, S)
  BY <1>1, <1>2
<1>4. ASSUME NEW y \in S, x < y
      PROVE  SumFunctionOnSet(f, P) + f[x] <= SumFunctionOnSet(f, Before(Smaller(S), S, y))
  <2>1. PICK Q : Q = Before(Smaller(S), S, y)
    OBVIOUS
  <2>2. Q = {z \in S : z < y} /\ P = {z \in S : z < x}
    BY <1>1, <1>4, <2>1
  <2> HIDE DEF P
  <2>3. Q \in SUBSET S /\ x \in Q
    BY <1>4, <2>2
  <2>4. P \subseteq Q
    <3> SUFFICES ASSUME NEW z \in P PROVE z \in Q
      OBVIOUS
    <3>1. z \in S /\ z < x /\ z \in Nat /\ x \in Nat /\ y \in Nat
      BY <2>2
    <3>2. z < y
      BY <1>4, <3>1
    <3> QED
      BY <2>2, <3>1, <3>2
  <2> QED
    BY <1>2, <2>1, <2>3, <2>4 DEF P
<1> QED
  BY <1>3, <1>4

(* The same of any part, and of what is taken in turn until `left` is used up. *)
LEMMA SumPart ==
  ASSUME NEW S, IsFiniteSet(S), NEW f, \A y \in S : f[y] \in Nat, NEW P \in SUBSET S
  PROVE  /\ SumFunction([y \in P |-> f[y]]) = SumFunctionOnSet(f, P)
         /\ SumFunctionOnSet(f, P) \in Nat
<1> DEFINE g == [y \in P |-> f[y]]
<1>1. IsFiniteSet(P)
  BY FS_Subset
<1>2. DOMAIN g = P /\ \A y \in P : g[y] = f[y] /\ f[y] \in Nat
  OBVIOUS
<1>3. SumFunction(g) = SumFunctionOnSet(g, P)
  BY <1>2 DEF SumFunction
<1> HIDE DEF g
<1>4. SumFunctionOnSet(g, P) = SumFunctionOnSet(f, P)
  BY <1>1, <1>2, SumSame
<1>5. SumFunctionOnSet(f, P) \in Nat
  BY <1>1, <1>2, SumIsNat
<1>6. SumFunction(g) = SumFunctionOnSet(f, P)
  BY <1>3, <1>4
<1> QED
  BY <1>5, <1>6 DEF g

Floored(n) == IF n > 0 THEN n ELSE 0
InTurn(g, f, S, less, left) ==
  \A x \in S : /\ f[x] \in Nat
               /\ g[x] = Lower(f[x], Floored(left - SumFunctionOnSet(f, Before(less, S, x))))

LEMMA NewestFirst ==
  ASSUME NEW S, IsFiniteSet(S), NEW less, IsOrder(less, S), NEW f, NEW g,
         NEW left \in Int, InTurn(g, f, S, less, left)
  PROVE  /\ \A x \in S : g[x] \in Nat /\ g[x] <= f[x]
         /\ SumFunctionOnSet(g, S) = Lower(SumFunctionOnSet(f, S), Floored(left))
<1> DEFINE hi == Floored(left)
<1>0. \A x \in S :
        /\ f[x] \in Nat
        /\ g[x] = Lower(f[x], Floored(left - SumFunctionOnSet(f, Before(less, S, x))))
  BY DEF InTurn
<1>1. hi \in Nat /\ 0 \in Nat /\ 0 <= hi
  BY DEF Floored
<1>2. \A b, n \in Nat :
        /\ Lower(n, Floored(left - b)) = Overlap(0, hi, b, n)
        /\ Lower(n, Floored(left - b)) \in Nat /\ Lower(n, Floored(left - b)) <= n
  BY DEF Overlap, Higher, Lower, Floored
<1>3. \A x \in S : SumFunctionOnSet(f, Before(less, S, x)) \in Nat
  <2>1. \A x \in S : Before(less, S, x) \in SUBSET S
    BY DEF Before
  <2> QED
    BY <1>0, <2>1, SumPart
<1>4. \A x \in S :
        /\ g[x] = Overlap(0, hi, SumFunctionOnSet(f, Before(less, S, x)), f[x])
        /\ g[x] \in Nat /\ g[x] <= f[x]
  BY <1>0, <1>2, <1>3
<1> HIDE DEF hi
<1>5. SumFunctionOnSet(g, S) = Higher(0, Lower(hi, SumFunctionOnSet(f, S)) - 0)
  BY <1>0, <1>1, <1>4, SumOverlap
<1>6. SumFunctionOnSet(f, S) \in Nat
  BY <1>0, SumIsNat
<1>7. \A n \in Nat : Higher(0, Lower(hi, n) - 0) = Lower(n, hi)
  BY <1>1 DEF Higher, Lower
<1> QED
  BY <1>4, <1>5, <1>6, <1>7 DEF hi
(* Sums of sums: by rows and by columns.                                   *)
Columns(h, k, S, T) == \A x \in S, y \in T : h[x][y] \in Int /\ k[y][x] = h[x][y]
RowSums(f, h, S, T) == \A x \in S : f[x] = SumFunctionOnSet(h[x], T)

THEOREM SumSwap ==
  ASSUME NEW S, IsFiniteSet(S), NEW T, IsFiniteSet(T),
         NEW h, NEW k, Columns(h, k, S, T),
         NEW f, RowSums(f, h, S, T), NEW g, RowSums(g, k, T, S)
  PROVE  SumFunctionOnSet(f, S) = SumFunctionOnSet(g, T)
<1> DEFINE part(U) == [y \in T |-> SumFunctionOnSet(k[y], U)]
           G == {U \in SUBSET S : SumFunctionOnSet(f, U) = SumFunctionOnSet(part(U), T)}
<1>1. ASSUME NEW U \in SUBSET S, \A V \in SUBSET U : V # U => V \in G
      PROVE  U \in G
  <2>1. CASE U = {}
    <3>1. \A y \in T : part(U)[y] = 0
      BY <2>1, SumEmpty
    <3>2. SumFunctionOnSet(f, U) = 0
      BY <2>1, SumEmpty
    <3> DEFINE e == part(U)
    <3> HIDE DEF e
    <3>3. SumFunctionOnSet(e, T) = 0
      BY <3>1, SumOfZeros DEF e
    <3> QED
      BY <3>2, <3>3 DEF e
  <2>2. CASE U # {}
    <3> DEFINE p == Picked(U)
               V == U \ {p}
               e == part(U)
               i == part(V)
               j == h[p]
    <3>1. p \in U /\ p \in S /\ V \in SUBSET U /\ V # U
      BY <2>2, PickedIsIn
    <3>2. SumFunctionOnSet(f, V) = SumFunctionOnSet(i, T)
      BY <1>1, <3>1
    <3>3. IsFiniteSet(U) /\ IsFiniteSet(V)
      BY <3>1, FS_Subset
    <3>4. ASSUME NEW y \in T
          PROVE  /\ e[y] = SumFunctionOnSet(k[y], U) /\ i[y] = SumFunctionOnSet(k[y], V)
                 /\ e[y] = j[y] + i[y] /\ j[y] \in Int /\ i[y] \in Int
      <4>1. \A x \in U : k[y][x] \in Int
        BY DEF Columns
      <4>2. k[y][p] = j[y] /\ j[y] \in Int
        BY <3>1 DEF Columns
      <4>3. e[y] = SumFunctionOnSet(k[y], U) /\ i[y] = SumFunctionOnSet(k[y], V)
        OBVIOUS
      <4> DEFINE u == k[y]
      <4> HIDE DEF p, V, e, i, j, u
      <4>4. SumFunctionOnSet(u, U) = u[p] + SumFunctionOnSet(u, U \ {p})
        BY <3>1, <3>3, <4>1, SumSplit DEF u
      <4>5. SumFunctionOnSet(u, V) \in Int
        BY <3>1, <3>3, <4>1, SumIsInt DEF u
      <4> QED
        BY <4>2, <4>3, <4>4, <4>5 DEF u, V
    <3>5. f[p] = SumFunctionOnSet(j, T)
      BY <3>1 DEF RowSums
    <3>6. SumFunctionOnSet(f, U) = f[p] + SumFunctionOnSet(f, V)
      BY <2>2, <3>3, SumPicked
    <3>7. e = part(U)
      OBVIOUS
    <3> HIDE DEF p, V, e, i, j
    <3>8. AddUp(e, j, i, T)
      BY <3>4 DEF AddUp
    <3>9. SumFunctionOnSet(e, T) = SumFunctionOnSet(j, T) + SumFunctionOnSet(i, T)
      BY <3>8, SumAddUp
    <3> QED
      BY <3>2, <3>5, <3>6, <3>7, <3>9
  <2> QED
    BY <2>1, <2>2
<1>2. S \in G
  <2> HIDE DEF G
  <2>1. \A U \in SUBSET S : U \in G
    BY <1>1, SetInduction
  <2> QED
    BY <2>1
<1>3. SumFunctionOnSet(f, S) = SumFunctionOnSet(part(S), T)
  BY <1>2
<1>4. \A y \in T : g[y] = part(S)[y]
  BY DEF RowSums
<1> DEFINE e == part(S)
<1> HIDE DEF e
<1>5. SumFunctionOnSet(g, T) = SumFunctionOnSet(e, T)
  BY <1>4, SumSame DEF e
<1> QED
  BY <1>3, <1>5 DEF e
===============================================================================
