-------------------------------- MODULE Sums --------------------------------
(***************************************************************************)
(* Sums over finite sets (SumFunctionOnSet and SumFunction of module       *)
(* Functions): what they are of, and how they move when a term does.  The  *)
(* totals of the ledger's books, of budgets and of statements are such     *)
(* sums.  Induction over a finite set comes from the naturals being well   *)
(* founded.                                                                *)
(***************************************************************************)
EXTENDS Integers, FiniteSets, Functions, FiniteSetTheorems, WellFoundedInduction, TLAPS

\* A set of naturals that is not empty has a first element.
LEMMA FirstNatural ==
    ASSUME NEW T \in SUBSET Nat, T # {}
    PROVE  \E n \in T : \A m \in T : n <= m
<1>1. PICK n \in T : \A m \in T : <<m, n>> \notin OpToRel(<, Nat)
  BY NatLessThanWellFounded, WFMin
<1>2. \A m, k \in Nat : m < k => <<m, k>> \in OpToRel(<, Nat)
  BY DEF OpToRel
<1>3. n \in Nat /\ \A m \in T : m \in Nat /\ ~(m < n)
  BY <1>1, <1>2
<1>4. \A m \in T : n <= m
  BY <1>3
<1> QED
  BY <1>4

\* Induction over the naturals: a set that has zero and every successor is all.
LEMMA AllNaturals ==
    ASSUME NEW T \in SUBSET Nat, 0 \in T, \A n \in T : n + 1 \in T
    PROVE  T = Nat
<1> SUFFICES ASSUME Nat \ T # {}
             PROVE  FALSE
  OBVIOUS
<1>1. PICK n \in Nat \ T : \A m \in Nat \ T : n <= m
  BY FirstNatural
<1>2. n - 1 \in T
  BY <1>1
<1> QED
  BY <1>1, <1>2

\* Induction over a finite set: a family that has the empty set, and a set
\* whenever it has all that lack one element of it, has the set.
LEMMA AllSubsets ==
    ASSUME NEW S, IsFiniteSet(S), NEW G, {} \in G,
           \A s \in SUBSET S : s # {} /\ (\A x \in s : s \ {x} \in G) => s \in G
    PROVE  \A s \in SUBSET S : s \in G
<1> DEFINE T == {n \in Nat : \A s \in SUBSET S : Cardinality(s) <= n => s \in G}
<1>1. \A s \in SUBSET S : IsFiniteSet(s) /\ Cardinality(s) \in Nat
  BY FS_Subset, FS_CardinalityType
<1>2. \A s \in SUBSET S : Cardinality(s) = 0 => s = {}
  BY <1>1, FS_EmptySet
<1>3. 0 \in T
  BY <1>1, <1>2
<1>4. ASSUME NEW n \in T
      PROVE  n + 1 \in T
  <2>1. ASSUME NEW s \in SUBSET S, Cardinality(s) <= n + 1, s # {}
        PROVE  s \in G
    <3>1. ASSUME NEW x \in s
          PROVE  s \ {x} \in SUBSET S /\ Cardinality(s \ {x}) <= n
      <4>1. Cardinality(s \ {x}) = Cardinality(s) - 1 /\ Cardinality(s) \in Nat /\ n \in Nat
        BY <1>1, FS_RemoveElement
      <4> QED
        BY <2>1, <4>1
    <3> QED
      BY <1>4, <2>1, <3>1
  <2> QED
    BY <2>1
<1>5. T = Nat
  <2> HIDE DEF T
  <2>1. T \in SUBSET Nat
    BY DEF T
  <2> QED
    BY <1>3, <1>4, <2>1, AllNaturals
<1> QED
  BY <1>1, <1>5

-----------------------------------------------------------------------------
(* The recursion of the folds                                              *)

Pick(s) == CHOOSE x \in s : TRUE

\* The equation the running sum g over the subsets of S solves.
Running(g, f, S) ==
    g = [s \in SUBSET S |-> IF s = {} THEN 0 ELSE f[Pick(s)] + g[s \ {Pick(s)}]]

RunningSum(f, S) == CHOOSE g : Running(g, f, S)

LEMMA SumIsChosen ==
    ASSUME NEW f, NEW S
    PROVE  SumFunctionOnSet(f, S) = RunningSum(f, S)[S]
BY DEF SumFunctionOnSet, RunningSum, Running, Pick, FoldFunctionOnSet, MapThenFoldSet

LEMMA RunningStep ==
    ASSUME NEW f, NEW S, NEW g, Running(g, f, S), NEW s \in SUBSET S
    PROVE  g[s] = IF s = {} THEN 0 ELSE f[Pick(s)] + g[s \ {Pick(s)}]
BY DEF Running

\* The equation has a solution.
LEMMA RunningExists ==
    ASSUME NEW f, NEW S, IsFiniteSet(S)
    PROVE  Running(RunningSum(f, S), f, S)
<1> DEFINE Next(g, s) == IF s = {} THEN 0 ELSE f[Pick(s)] + g[s \ {Pick(s)}]
           Upto(g, n) == \A s \in SUBSET S : Cardinality(s) <= n => g[s] = Next(g, s)
           T == {n \in Nat : \E g : Upto(g, n)}
<1>1. \A s \in SUBSET S : IsFiniteSet(s) /\ Cardinality(s) \in Nat
  BY FS_Subset, FS_CardinalityType
<1>2. \A s \in SUBSET S : s # {} =>
          Pick(s) \in s /\ s \ {Pick(s)} \in SUBSET S /\ Cardinality(s \ {Pick(s)}) = Cardinality(s) - 1
  BY <1>1, FS_RemoveElement DEF Pick
<1>3. \A s \in SUBSET S : Cardinality(s) = 0 <=> s = {}
  BY <1>1, FS_EmptySet
<1>4. 0 \in T
  <2>1. Upto([s \in SUBSET S |-> 0], 0)
    BY <1>1, <1>3
  <2> QED
    BY <2>1
<1>5. ASSUME NEW n \in T
      PROVE  n + 1 \in T
  <2>1. PICK g : Upto(g, n)
    OBVIOUS
  <2> DEFINE h == [s \in SUBSET S |-> Next(g, s)]
  <2>2. ASSUME NEW s \in SUBSET S, Cardinality(s) <= n + 1, s # {}
        PROVE  h[s] = f[Pick(s)] + h[s \ {Pick(s)}]
    <3>1. s \ {Pick(s)} \in SUBSET S /\ Cardinality(s \ {Pick(s)}) <= n
      <4>1. s \ {Pick(s)} \in SUBSET S /\ Cardinality(s \ {Pick(s)}) = Cardinality(s) - 1
        BY <1>2, <2>2
      <4>2. Cardinality(s) \in Nat /\ n \in Nat
        BY <1>1
      <4> QED
        BY <2>2, <4>1, <4>2
    <3>2. h[s \ {Pick(s)}] = g[s \ {Pick(s)}]
      BY <2>1, <3>1
    <3> QED
      BY <2>2, <3>2
  <2>3. ASSUME NEW s \in SUBSET S, Cardinality(s) <= n + 1
        PROVE  h[s] = Next(h, s)
    <3>1. CASE s = {}
      BY <3>1
    <3>2. CASE s # {}
      BY <2>2, <2>3, <3>2
    <3> QED
      BY <3>1, <3>2
  <2>4. Upto(h, n + 1)
    BY <2>3
  <2>5. n + 1 \in Nat /\ \E k : Upto(k, n + 1)
    <3> HIDE DEF Upto, h
    <3> QED
      BY <2>4
  <2> QED
    BY <2>5
<1>6. T = Nat
  <2> HIDE DEF T
  <2>1. T \in SUBSET Nat
    BY DEF T
  <2> QED
    BY <1>4, <1>5, <2>1, AllNaturals
<1>7. PICK g : Upto(g, Cardinality(S))
  BY <1>1, <1>6
<1>8. Running([s \in SUBSET S |-> g[s]], f, S)
  <2> DEFINE h == [s \in SUBSET S |-> g[s]]
  <2>1. ASSUME NEW s \in SUBSET S
        PROVE  h[s] = Next(h, s)
    <3>1. Cardinality(s) <= Cardinality(S)
      BY FS_Subset
    <3>2. s # {} => h[s \ {Pick(s)}] = g[s \ {Pick(s)}]
      BY <1>2
    <3> QED
      BY <1>7, <3>1, <3>2
  <2> QED
    BY <2>1 DEF Running
<1> QED
  BY <1>8 DEF RunningSum

\* Two solutions agree where both are defined.
LEMMA RunningAgree ==
    ASSUME NEW f, NEW S, IsFiniteSet(S), NEW R \in SUBSET S, NEW g, NEW h,
           Running(g, f, S), Running(h, f, R)
    PROVE  g[R] = h[R]
<1> DEFINE G == {s \in SUBSET R : g[s] = h[s]}
<1>1. \A s \in SUBSET R : g[s] = IF s = {} THEN 0 ELSE f[Pick(s)] + g[s \ {Pick(s)}]
  BY RunningStep
<1>2. \A s \in SUBSET R : h[s] = IF s = {} THEN 0 ELSE f[Pick(s)] + h[s \ {Pick(s)}]
  BY RunningStep
<1>3. \A s \in SUBSET R : s # {} => Pick(s) \in s
  BY DEF Pick
<1>4. {} \in G
  BY <1>1, <1>2
<1>5. ASSUME NEW s \in SUBSET R, s # {}, \A x \in s : s \ {x} \in G
      PROVE  s \in G
  BY <1>1, <1>2, <1>3, <1>5
<1>6. IsFiniteSet(R)
  BY FS_Subset
<1>7. \A s \in SUBSET R : s \in G
  <2> HIDE DEF G
  <2> QED
    BY <1>4, <1>5, <1>6, AllSubsets
<1> QED
  BY <1>7

-----------------------------------------------------------------------------
(* Sums                                                                    *)

LEMMA SumEmpty ==
    ASSUME NEW f
    PROVE  SumFunctionOnSet(f, {}) = 0
<1>1. Running(RunningSum(f, {}), f, {})
  BY RunningExists, FS_EmptySet
<1>2. RunningSum(f, {})[{}] = 0
  BY <1>1, RunningStep
<1> QED
  BY <1>2, SumIsChosen

LEMMA SumPicked ==
    ASSUME NEW f, NEW S, IsFiniteSet(S), S # {}
    PROVE  /\ Pick(S) \in S
           /\ SumFunctionOnSet(f, S) = f[Pick(S)] + SumFunctionOnSet(f, S \ {Pick(S)})
<1> DEFINE R == S \ {Pick(S)}
<1>1. Pick(S) \in S
  BY DEF Pick
<1>2. IsFiniteSet(R) /\ R \in SUBSET S
  BY FS_RemoveElement
<1>3. RunningSum(f, S)[S] = f[Pick(S)] + RunningSum(f, S)[R]
  <2>1. Running(RunningSum(f, S), f, S)
    BY RunningExists
  <2> QED
    BY <2>1, RunningStep
<1>4. RunningSum(f, S)[R] = RunningSum(f, R)[R]
  <2> HIDE DEF R
  <2>1. Running(RunningSum(f, S), f, S) /\ Running(RunningSum(f, R), f, R)
    BY <1>2, RunningExists
  <2> QED
    BY <1>2, <2>1, RunningAgree
<1>5. SumFunctionOnSet(f, S) = RunningSum(f, S)[S]
  BY SumIsChosen
<1>6. SumFunctionOnSet(f, R) = RunningSum(f, R)[R]
  BY SumIsChosen
<1> QED
  BY <1>1, <1>3, <1>4, <1>5, <1>6

\* A sum of integers is one, and takes its terms in any order.
LEMMA SumSplits ==
    ASSUME NEW f, NEW S, IsFiniteSet(S), \A x \in S : f[x] \in Int
    PROVE  /\ SumFunctionOnSet(f, S) \in Int
           /\ \A x \in S : SumFunctionOnSet(f, S) = f[x] + SumFunctionOnSet(f, S \ {x})
<1> DEFINE Total(s) == SumFunctionOnSet(f, s)
           Good(s) == Total(s) \in Int /\ 
                         \A x \in s : Total(s \ {x}) \in Int /\ Total(s) = f[x] + Total(s \ {x})
           G == {s \in SUBSET S : Good(s)}
<1> HIDE DEF Total
<1>1. \A s \in SUBSET S : IsFiniteSet(s)
  BY FS_Subset
<1>2. \A s \in SUBSET S : s # {} => Pick(s) \in s /\ Total(s) = f[Pick(s)] + Total(s \ {Pick(s)})
  BY <1>1, SumPicked DEF Total
<1>3. {} \in G
  BY SumEmpty DEF Total
<1>4. ASSUME NEW s \in SUBSET S, s # {}, \A x \in s : s \ {x} \in G
      PROVE  s \in G
  <2> DEFINE p == Pick(s)
  <2>1. p \in s /\ Total(s) = f[p] + Total(s \ {p})
    BY <1>2, <1>4
  <2>2. Total(s) \in Int
    BY <1>4, <2>1
  <2>3. ASSUME NEW x \in s, x # p
        PROVE  Total(s) = f[x] + Total(s \ {x})
    <3> DEFINE r == (s \ {p}) \ {x}
    <3>1. r = (s \ {x}) \ {p} /\ x \in s \ {p} /\ p \in s \ {x}
      BY <2>1, <2>3
    <3>2. Total(s \ {p}) = f[x] + Total(r) /\ Total(s \ {p}) \in Int
      BY <1>4, <2>1, <3>1
    <3>3. Total(s \ {x}) = f[p] + Total(r) /\ Total(s \ {x}) \in Int
      BY <1>4, <3>1
    <3>4. Total(r) \in Int
      BY <1>4, <2>1, <3>1
    <3>5. f[x] \in Int /\ f[p] \in Int
      BY <2>1
    <3> QED
      BY <2>1, <3>2, <3>3, <3>4, <3>5
  <2>4. \A x \in s : Total(s \ {x}) \in Int
    BY <1>4
  <2> QED
    BY <2>1, <2>2, <2>3, <2>4
<1>5. \A s \in SUBSET S : s \in G
  <2> HIDE DEF G
  <2> QED
    BY <1>3, <1>4, AllSubsets
<1> QED
  BY <1>5 DEF Total

LEMMA SumIsInt ==
    ASSUME NEW S, IsFiniteSet(S), NEW f, \A x \in S : f[x] \in Int
    PROVE  SumFunctionOnSet(f, S) \in Int
BY SumSplits

\* What a sum over s is to the sum without one of its terms, wherever s lies.
LEMMA SumWithout ==
    ASSUME NEW S, IsFiniteSet(S), NEW f, \A x \in S : f[x] \in Int
    PROVE  \A s \in SUBSET S : \A x \in s :
               /\ SumFunctionOnSet(f, s) = f[x] + SumFunctionOnSet(f, s \ {x})
               /\ SumFunctionOnSet(f, s) \in Int /\ SumFunctionOnSet(f, s \ {x}) \in Int
               /\ f[x] \in Int
<1> SUFFICES ASSUME NEW s \in SUBSET S, NEW x \in s
             PROVE  /\ SumFunctionOnSet(f, s) = f[x] + SumFunctionOnSet(f, s \ {x})
                    /\ SumFunctionOnSet(f, s) \in Int /\ SumFunctionOnSet(f, s \ {x}) \in Int
                    /\ f[x] \in Int
  OBVIOUS
<1>1. IsFiniteSet(s) /\ IsFiniteSet(s \ {x})
  BY FS_Subset
<1>2. (\A y \in s : f[y] \in Int) /\ \A y \in s \ {x} : f[y] \in Int
  OBVIOUS
<1>3. SumFunctionOnSet(f, s \ {x}) \in Int
  BY <1>1, <1>2, SumIsInt
<1> QED
  BY <1>1, <1>2, <1>3, SumSplits

\* The sum of two functions is the function of their sums.
LEMMA SumsPlus ==
    ASSUME NEW S, IsFiniteSet(S), NEW f, NEW g, NEW h,
           \A x \in S : f[x] \in Int /\ g[x] \in Int /\ h[x] = f[x] + g[x]
    PROVE  SumFunctionOnSet(h, S) = SumFunctionOnSet(f, S) + SumFunctionOnSet(g, S)
<1> DEFINE F(s) == SumFunctionOnSet(f, s)
           K(s) == SumFunctionOnSet(g, s)
           H(s) == SumFunctionOnSet(h, s)
           G == {s \in SUBSET S : H(s) = F(s) + K(s)}
<1>1. ASSUME NEW s \in SUBSET S, NEW x \in s
      PROVE  F(s) = f[x] + F(s \ {x}) /\ F(s \ {x}) \in Int /\ f[x] \in Int
  <2>1. \A y \in S : f[y] \in Int
    OBVIOUS
  <2> QED
    BY ONLY <2>1, IsFiniteSet(S), s \in SUBSET S, x \in s, SumWithout
<1>2. ASSUME NEW s \in SUBSET S, NEW x \in s
      PROVE  K(s) = g[x] + K(s \ {x}) /\ K(s \ {x}) \in Int /\ g[x] \in Int
  <2>1. \A y \in S : g[y] \in Int
    OBVIOUS
  <2> QED
    BY ONLY <2>1, IsFiniteSet(S), s \in SUBSET S, x \in s, SumWithout
<1>3. ASSUME NEW s \in SUBSET S, NEW x \in s
      PROVE  H(s) = h[x] + H(s \ {x}) /\ H(s \ {x}) \in Int /\ h[x] \in Int
  <2>1. \A y \in S : h[y] \in Int
    OBVIOUS
  <2> QED
    BY ONLY <2>1, IsFiniteSet(S), s \in SUBSET S, x \in s, SumWithout
<1>4. \A x \in S : h[x] = f[x] + g[x]
  OBVIOUS
<1>5. F({}) = 0 /\ K({}) = 0 /\ H({}) = 0
  BY SumEmpty
<1> HIDE DEF F, K, H
<1>6. {} \in G
  BY <1>5
<1>7. ASSUME NEW s \in SUBSET S, s # {}, \A x \in s : s \ {x} \in G
      PROVE  s \in G
  <2>1. PICK x \in s : s \ {x} \in G
    BY <1>7
  <2>2. H(s \ {x}) = F(s \ {x}) + K(s \ {x})
    BY <2>1
  <2>3. F(s) = f[x] + F(s \ {x}) /\ F(s \ {x}) \in Int /\ f[x] \in Int
    BY <1>1
  <2>4. K(s) = g[x] + K(s \ {x}) /\ K(s \ {x}) \in Int /\ g[x] \in Int
    BY <1>2
  <2>5. H(s) = h[x] + H(s \ {x})
    BY <1>3
  <2>6. h[x] = f[x] + g[x]
    BY <1>4
  <2> QED
    BY <2>2, <2>3, <2>4, <2>5, <2>6
<1>8. \A s \in SUBSET S : s \in G
  <2> HIDE DEF G
  <2> QED
    BY <1>6, <1>7, AllSubsets
<1> QED
  BY <1>8 DEF F, K, H

\* Functions that agree on a set have one sum there.
LEMMA SumsAgree ==
    ASSUME NEW S, IsFiniteSet(S), NEW f, NEW g,
           \A x \in S : f[x] \in Int /\ g[x] = f[x]
    PROVE  SumFunctionOnSet(g, S) = SumFunctionOnSet(f, S)
<1> DEFINE F(s) == SumFunctionOnSet(f, s)
           K(s) == SumFunctionOnSet(g, s)
           G == {s \in SUBSET S : K(s) = F(s)}
<1>1. ASSUME NEW s \in SUBSET S, NEW x \in s
      PROVE  F(s) = f[x] + F(s \ {x}) /\ F(s \ {x}) \in Int /\ f[x] \in Int
  <2>1. \A y \in S : f[y] \in Int
    OBVIOUS
  <2> QED
    BY <2>1, SumWithout
<1>2. ASSUME NEW s \in SUBSET S, NEW x \in s
      PROVE  K(s) = g[x] + K(s \ {x}) /\ K(s \ {x}) \in Int /\ g[x] \in Int
  <2>1. \A y \in S : g[y] \in Int
    OBVIOUS
  <2> QED
    BY <2>1, SumWithout
<1>3. \A x \in S : g[x] = f[x]
  OBVIOUS
<1>4. F({}) = 0 /\ K({}) = 0
  BY SumEmpty
<1> HIDE DEF F, K
<1>5. {} \in G
  BY <1>4
<1>6. ASSUME NEW s \in SUBSET S, s # {}, \A x \in s : s \ {x} \in G
      PROVE  s \in G
  <2>1. PICK x \in s : s \ {x} \in G
    BY <1>6
  <2>2. K(s \ {x}) = F(s \ {x})
    BY <2>1
  <2> QED
    BY <1>1, <1>2, <1>3, <2>2
<1>7. \A s \in SUBSET S : s \in G
  <2> HIDE DEF G
  <2> QED
    BY <1>5, <1>6, AllSubsets
<1> QED
  BY <1>7 DEF F, K

\* A change of one term changes the sum by as much.
LEMMA SumChanges ==
    ASSUME NEW S, IsFiniteSet(S), NEW f, NEW g, NEW x \in S,
           \A y \in S : f[y] \in Int /\ g[y] \in Int, \A y \in S \ {x} : g[y] = f[y]
    PROVE  SumFunctionOnSet(g, S) = SumFunctionOnSet(f, S) + (g[x] - f[x])
<1> DEFINE R == S \ {x}
<1>1. IsFiniteSet(R) /\ \A y \in R : f[y] \in Int /\ g[y] = f[y]
  BY FS_RemoveElement
<1>2. SumFunctionOnSet(g, R) = SumFunctionOnSet(f, R)
  <2> HIDE DEF R
  <2> QED
    BY <1>1, SumsAgree
<1>3. SumFunctionOnSet(f, S) = f[x] + SumFunctionOnSet(f, R) /\ SumFunctionOnSet(f, R) \in Int
  BY SumWithout
<1>4. SumFunctionOnSet(g, S) = g[x] + SumFunctionOnSet(g, R)
  BY SumWithout
<1> QED
  BY <1>2, <1>3, <1>4

\* Terms of zero sum to zero.
LEMMA SumOfZeros ==
    ASSUME NEW S, IsFiniteSet(S), NEW f,
           \A x \in S : f[x] = 0
    PROVE  SumFunctionOnSet(f, S) = 0
<1> DEFINE F(s) == SumFunctionOnSet(f, s)
           G == {s \in SUBSET S : F(s) = 0}
<1>1. ASSUME NEW s \in SUBSET S, NEW x \in s
      PROVE  F(s) = f[x] + F(s \ {x}) /\ F(s \ {x}) \in Int /\ f[x] \in Int
  <2>1. \A y \in S : f[y] \in Int
    OBVIOUS
  <2> QED
    BY <2>1, SumWithout
<1>2. \A x \in S : f[x] = 0
  OBVIOUS
<1>3. F({}) = 0
  BY SumEmpty
<1> HIDE DEF F
<1>4. {} \in G
  BY <1>3
<1>5. ASSUME NEW s \in SUBSET S, s # {}, \A x \in s : s \ {x} \in G
      PROVE  s \in G
  <2>1. PICK x \in s : s \ {x} \in G
    BY <1>5
  <2>2. F(s \ {x}) = 0
    BY <2>1
  <2> QED
    BY <1>1, <1>2, <2>2
<1>6. \A s \in SUBSET S : s \in G
  <2> HIDE DEF G
  <2> QED
    BY <1>4, <1>5, AllSubsets
<1> QED
  BY <1>6 DEF F

\* Smaller terms have the smaller sum.
LEMMA SumsOrdered ==
    ASSUME NEW S, IsFiniteSet(S), NEW f, NEW g,
           \A x \in S : f[x] \in Int /\ g[x] \in Int /\ f[x] <= g[x]
    PROVE  SumFunctionOnSet(f, S) <= SumFunctionOnSet(g, S)
<1> DEFINE F(s) == SumFunctionOnSet(f, s)
           K(s) == SumFunctionOnSet(g, s)
           G == {s \in SUBSET S : F(s) <= K(s)}
<1>1. ASSUME NEW s \in SUBSET S, NEW x \in s
      PROVE  F(s) = f[x] + F(s \ {x}) /\ F(s \ {x}) \in Int /\ f[x] \in Int
  <2>1. \A y \in S : f[y] \in Int
    OBVIOUS
  <2> QED
    BY <2>1, SumWithout
<1>2. ASSUME NEW s \in SUBSET S, NEW x \in s
      PROVE  K(s) = g[x] + K(s \ {x}) /\ K(s \ {x}) \in Int /\ g[x] \in Int
  <2>1. \A y \in S : g[y] \in Int
    OBVIOUS
  <2> QED
    BY <2>1, SumWithout
<1>3. \A x \in S : f[x] <= g[x]
  OBVIOUS
<1>4. F({}) = 0 /\ K({}) = 0
  BY SumEmpty
<1> HIDE DEF F, K
<1>5. {} \in G
  BY <1>4
<1>6. ASSUME NEW s \in SUBSET S, s # {}, \A x \in s : s \ {x} \in G
      PROVE  s \in G
  <2>1. PICK x \in s : s \ {x} \in G
    BY <1>6
  <2>2. F(s \ {x}) <= K(s \ {x})
    BY <2>1
  <2> QED
    BY <1>1, <1>2, <1>3, <2>2
<1>7. \A s \in SUBSET S : s \in G
  <2> HIDE DEF G
  <2> QED
    BY <1>5, <1>6, AllSubsets
<1> QED
  BY <1>7 DEF F, K

\* A part of a sum of naturals is no larger than the sum.
LEMMA SumOfPart ==
    ASSUME NEW S, IsFiniteSet(S), NEW f, \A x \in S : f[x] \in Nat
    PROVE  /\ SumFunctionOnSet(f, S) \in Nat
           /\ \A T \in SUBSET S : SumFunctionOnSet(f, T) <= SumFunctionOnSet(f, S)
<1> DEFINE F(s) == SumFunctionOnSet(f, s)
           G == {s \in SUBSET S : F(s) \in Nat /\ \A T \in SUBSET s : F(T) \in Nat /\ F(T) <= F(s)}
<1>1. ASSUME NEW s \in SUBSET S, NEW x \in s
      PROVE  F(s) = f[x] + F(s \ {x}) /\ F(s \ {x}) \in Int /\ f[x] \in Nat
  <2>1. \A y \in S : f[y] \in Int
    OBVIOUS
  <2> QED
    BY <2>1, SumWithout
<1>2. F({}) = 0
  BY SumEmpty
<1> HIDE DEF F
<1>3. {} \in G
  BY <1>2
<1>4. ASSUME NEW s \in SUBSET S, s # {}, \A x \in s : s \ {x} \in G
      PROVE  s \in G
  <2>1. \A x \in s : F(s) \in Nat /\ F(s \ {x}) \in Nat /\ F(s \ {x}) <= F(s)
    BY <1>1, <1>4
  <2>2. F(s) \in Nat
    BY <1>4, <2>1
  <2>3. ASSUME NEW T \in SUBSET s, T # s
        PROVE  F(T) \in Nat /\ F(T) <= F(s)
    <3>1. PICK x \in s : x \notin T
      BY <2>3
    <3>2. T \in SUBSET (s \ {x}) /\ s \ {x} \in G
      BY <1>4, <2>3, <3>1
    <3>3. F(T) \in Nat /\ F(T) <= F(s \ {x})
      BY <3>2
    <3> QED
      BY <2>1, <2>2, <3>1, <3>3
  <2> QED
    BY <2>2, <2>3
<1>5. \A s \in SUBSET S : s \in G
  <2> HIDE DEF G
  <2> QED
    BY <1>3, <1>4, AllSubsets
<1>6. S \in G
  BY <1>5
<1> QED
  BY <1>6 DEF F

\* Terms of at most m sum to at most m times their number.
LEMMA SumBounded ==
    ASSUME NEW S, IsFiniteSet(S), NEW m \in Nat, NEW f,
           \A x \in S : f[x] \in Nat /\ f[x] <= m
    PROVE  SumFunctionOnSet(f, S) <= m * Cardinality(S)
<1> DEFINE F(s) == SumFunctionOnSet(f, s)
           G == {s \in SUBSET S : F(s) <= m * Cardinality(s)}
<1>1. ASSUME NEW s \in SUBSET S, NEW x \in s
      PROVE  F(s) = f[x] + F(s \ {x}) /\ F(s \ {x}) \in Int /\ f[x] \in Nat /\ f[x] <= m
  <2>1. \A y \in S : f[y] \in Int
    OBVIOUS
  <2>2. F(s) = f[x] + F(s \ {x}) /\ F(s \ {x}) \in Int
    BY <2>1, SumWithout
  <2>3. f[x] \in Nat /\ f[x] <= m
    OBVIOUS
  <2> QED
    BY <2>2, <2>3
<1>2. F({}) <= m * Cardinality({})
  <2>1. SumFunctionOnSet(f, {}) = 0
    BY SumEmpty
  <2>2. Cardinality({}) = 0
    BY FS_EmptySet
  <2>3. m * 0 = 0
    OBVIOUS
  <2> QED
    BY <2>1, <2>2, <2>3
<1>3. \A s \in SUBSET S : IsFiniteSet(s) /\ Cardinality(s) \in Nat
  BY FS_Subset, FS_CardinalityType
<1> HIDE DEF F
<1>4. {} \in G
  BY <1>2
<1>5. \A n \in Nat : m * (n + 1) = m * n + m /\ m * n \in Nat
  OBVIOUS
<1>6. ASSUME NEW s \in SUBSET S, s # {}, \A x \in s : s \ {x} \in G
      PROVE  s \in G
  <2>1. PICK x \in s : s \ {x} \in G
    BY <1>6
  <2>2. Cardinality(s) = Cardinality(s \ {x}) + 1 /\ Cardinality(s \ {x}) \in Nat
    <3>1. Cardinality(s \ {x}) = Cardinality(s) - 1
      BY <1>3, <2>1, FS_RemoveElement
    <3> QED
      BY <1>3, <3>1
  <2>3. F(s \ {x}) <= m * Cardinality(s \ {x})
    BY <2>1
  <2> DEFINE n == Cardinality(s \ {x})
  <2>4. F(s) <= m * n + m
    <3>1. m * n \in Nat
      BY <1>5, <2>2
    <3> HIDE DEF n
    <3> QED
      BY <1>1, <2>3, <3>1 DEF n
  <2>5. m * Cardinality(s) = m * n + m
    BY <1>5, <2>2
  <2> QED
    BY <2>4, <2>5
<1>7. \A s \in SUBSET S : s \in G
  <2> HIDE DEF G
  <2> QED
    BY <1>4, <1>6, AllSubsets
<1> QED
  BY <1>7 DEF F

\* A finite set of naturals, if it is not empty, has a largest element.
LEMMA LargestNatural ==
    ASSUME NEW S \in SUBSET Nat, IsFiniteSet(S), S # {}
    PROVE  \E n \in S : \A m \in S : m <= n
<1> DEFINE Bounded(s) == \E n \in s : \A m \in s : m <= n
           G == {s \in SUBSET S : s = {} \/ Bounded(s)}
<1>1. ASSUME NEW s \in SUBSET S, s # {}, \A x \in s : s \ {x} \in G
      PROVE  s \in G
  <2>1. PICK x \in s : TRUE
    BY <1>1
  <2>2. CASE s \ {x} = {}
    <3>1. \A m \in s : m = x
      BY <2>2
    <3>2. Bounded(s)
      BY <2>1, <3>1
    <3> QED
      BY <3>2
  <2>3. CASE s \ {x} # {}
    <3>1. PICK n \in s \ {x} : \A m \in s \ {x} : m <= n
      BY <1>1, <2>1, <2>3
    <3>2. x \in Nat /\ n \in Nat /\ \A m \in s : m \in Nat /\ (m = x \/ m <= n)
      BY <2>1, <3>1
    <3>3. Bounded(s)
      <4>1. CASE x <= n
        BY <3>1, <3>2, <4>1
      <4>2. CASE n <= x
        BY <2>1, <3>2, <4>2
      <4> QED
        BY <3>2, <4>1, <4>2
    <3> QED
      BY <3>3
  <2> QED
    BY <2>2, <2>3
<1>2. \A s \in SUBSET S : s \in G
  <2>1. {} \in G
    OBVIOUS
  <2> HIDE DEF G
  <2> QED
    BY <1>1, <2>1, AllSubsets
<1> QED
  BY <1>2

-----------------------------------------------------------------------------
(* Totals of functions                                                     *)

LEMMA TotalIsSum ==
    ASSUME NEW S, IsFiniteSet(S), NEW f \in [S -> Int]
    PROVE  SumFunction(f) = SumFunctionOnSet(f, S) /\ SumFunction(f) \in Int
<1>1. SumFunction(f) = SumFunctionOnSet(f, S)
  BY DEF SumFunction
<1> QED
  BY <1>1, SumIsInt

\* The total of the sums is the sum of the totals.
LEMMA TotalPlus ==
    ASSUME NEW S, IsFiniteSet(S), NEW f \in [S -> Int], NEW g \in [S -> Int], NEW h \in [S -> Int],
           \A x \in S : h[x] = f[x] + g[x]
    PROVE  SumFunction(h) = SumFunction(f) + SumFunction(g)
<1>1. SumFunctionOnSet(h, S) = SumFunctionOnSet(f, S) + SumFunctionOnSet(g, S)
  BY SumsPlus
<1> QED
  BY <1>1, TotalIsSum

\* A change of one term changes the total by as much.
LEMMA TotalChanges ==
    ASSUME NEW S, IsFiniteSet(S), NEW f \in [S -> Int], NEW g \in [S -> Int], NEW x \in S,
           \A y \in S \ {x} : g[y] = f[y]
    PROVE  SumFunction(g) = SumFunction(f) + (g[x] - f[x])
<1>1. SumFunctionOnSet(g, S) = SumFunctionOnSet(f, S) + (g[x] - f[x])
  BY SumChanges
<1> QED
  BY <1>1, TotalIsSum

LEMMA TotalOfZeros ==
    ASSUME NEW S, IsFiniteSet(S), NEW f \in [S -> Int], \A x \in S : f[x] = 0
    PROVE  SumFunction(f) = 0
BY SumOfZeros, TotalIsSum

-----------------------------------------------------------------------------
(* Sums over parts and images                                              *)

\* What lies outside the part adds nothing.
LEMMA SumOverPart ==
    ASSUME NEW S, IsFiniteSet(S), NEW T \in SUBSET S, NEW f, NEW h,
           \A x \in T : f[x] \in Int, \A x \in S : h[x] = IF x \in T THEN f[x] ELSE 0
    PROVE  SumFunctionOnSet(h, S) = SumFunctionOnSet(f, T)
<1> DEFINE G == {s \in SUBSET S : SumFunctionOnSet(h, s) = SumFunctionOnSet(f, s \cap T)}
<1>1. {} \in G
  <2>1. {} \cap T = {}
    OBVIOUS
  <2> QED
    BY <2>1, SumEmpty
<1>2. \A x \in S : h[x] \in Int
  OBVIOUS
<1>3. IsFiniteSet(T)
  BY FS_Subset
<1>4. ASSUME NEW s \in SUBSET S, s # {}, \A x \in s : s \ {x} \in G
      PROVE  s \in G
  <2>1. PICK x \in s : TRUE
    BY <1>4
  <2>2. SumFunctionOnSet(h, s) = h[x] + SumFunctionOnSet(h, s \ {x})
        /\ SumFunctionOnSet(h, s \ {x}) \in Int
    BY <1>2, SumWithout
  <2>3. SumFunctionOnSet(h, s \ {x}) = SumFunctionOnSet(f, (s \ {x}) \cap T)
    BY <1>4
  <2>4. CASE x \in T
    <3>1. (s \ {x}) \cap T = (s \cap T) \ {x} /\ x \in s \cap T /\ s \cap T \in SUBSET T
      BY <2>4
    <3>2. SumFunctionOnSet(f, s \cap T) = f[x] + SumFunctionOnSet(f, (s \cap T) \ {x})
      BY <1>3, <3>1, SumWithout
    <3> QED
      BY <2>2, <2>3, <2>4, <3>1, <3>2
  <2>5. CASE x \notin T
    <3>1. (s \ {x}) \cap T = s \cap T
      BY <2>5
    <3> QED
      BY <2>2, <2>3, <2>5, <3>1
  <2> QED
    BY <2>4, <2>5
<1>5. \A s \in SUBSET S : s \in G
  <2> HIDE DEF G
  <2> QED
    BY <1>1, <1>4, AllSubsets
<1>6. S \cap T = T /\ S \in SUBSET S
  OBVIOUS
<1> QED
  BY <1>5, <1>6

\* A sum of which one term alone counts is that term.
LEMMA SumOfOne ==
    ASSUME NEW S, IsFiniteSet(S), NEW f, NEW x \in S, f[x] \in Int, \A y \in S \ {x} : f[y] = 0
    PROVE  SumFunctionOnSet(f, S) = f[x]
<1>1. \A y \in S : f[y] \in Int
  OBVIOUS
<1>2. SumFunctionOnSet(f, S) = f[x] + SumFunctionOnSet(f, S \ {x})
  BY <1>1, SumSplits
<1>3. SumFunctionOnSet(f, S \ {x}) = 0
  BY FS_RemoveElement, SumOfZeros
<1> QED
  BY <1>2, <1>3

\* If at most one term counts, and for v, that is all the sum can be.
LEMMA SumOfOneAtMost ==
    ASSUME NEW S, IsFiniteSet(S), NEW f, NEW x, NEW v \in Int,
           \A y \in S : f[y] \in {0, v} /\ (f[y] # 0 => y = x)
    PROVE  SumFunctionOnSet(f, S) \in {0, v}
<1>1. CASE x \in S
  <2>1. \A y \in S \ {x} : f[y] = 0
    OBVIOUS
  <2>2. f[x] \in Int /\ f[x] \in {0, v}
    BY <1>1
  <2> QED
    BY <1>1, <2>1, <2>2, SumOfOne
<1>2. CASE x \notin S
  <2>1. \A y \in S : f[y] = 0
    BY <1>2
  <2> QED
    BY <2>1, SumOfZeros
<1> QED
  BY <1>1, <1>2

\* A sum may be taken over other names of the same terms.
LEMMA SumAlong ==
    ASSUME NEW S, IsFiniteSet(S), NEW g, \A x, y \in S : g[x] = g[y] => x = y,
           NEW f, NEW h, \A x \in S : f[x] \in Int /\ h[g[x]] = f[x]
    PROVE  /\ IsFiniteSet({g[x] : x \in S})
           /\ SumFunctionOnSet(h, {g[x] : x \in S}) = SumFunctionOnSet(f, S)
<1> DEFINE Im(s) == {g[x] : x \in s}
           G == {s \in SUBSET S : /\ IsFiniteSet(Im(s))
                                  /\ SumFunctionOnSet(h, Im(s)) = SumFunctionOnSet(f, s)}
<1>1. {} \in G
  <2>1. Im({}) = {}
    OBVIOUS
  <2> QED
    BY <2>1, SumEmpty, FS_EmptySet
<1>2. ASSUME NEW s \in SUBSET S, s # {}, \A x \in s : s \ {x} \in G
      PROVE  s \in G
  <2>1. PICK x \in s : TRUE
    BY <1>2
  <2> DEFINE A == Im(s)
             B == Im(s \ {x})
             y == g[x]
  <2>2. A \ {y} = B /\ y \in A /\ A = B \cup {y}
    BY <2>1
  <2>3. IsFiniteSet(B) /\ SumFunctionOnSet(h, B) = SumFunctionOnSet(f, s \ {x})
    BY <1>2
  <2>4. \A z \in A : h[z] \in Int
    OBVIOUS
  <2>5. h[y] = f[x] /\ SumFunctionOnSet(f, s) = f[x] + SumFunctionOnSet(f, s \ {x})
    BY SumWithout
  <2>6. A = Im(s)
    OBVIOUS
  <2> HIDE DEF A, B, y
  <2>7. IsFiniteSet(A)
    BY <2>2, <2>3, FS_AddElement
  <2>8. SumFunctionOnSet(h, A) = h[y] + SumFunctionOnSet(h, A \ {y})
    BY <2>2, <2>4, <2>7, SumSplits
  <2>9. SumFunctionOnSet(h, A) = SumFunctionOnSet(f, s)
    BY <2>2, <2>3, <2>5, <2>8
  <2> QED
    BY <2>6, <2>7, <2>9
<1>3. \A s \in SUBSET S : s \in G
  <2> HIDE DEF G
  <2> QED
    BY <1>1, <1>2, AllSubsets
<1>4. S \in G
  <2> HIDE DEF G
  <2> QED
    BY <1>3
<1> QED
  BY <1>4

=============================================================================
