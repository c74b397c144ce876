---------------------------- MODULE SumLemmas ----------------------------
(***************************************************************************)
(* Facts about SumFunctionOnSet and SumFunction of the community module    *)
(* Functions, which the specifications use to add up balances, stakes and  *)
(* debts.  The fold is a recursive function over SUBSET S; every proof by  *)
(* induction on cardinality is the least-counterexample argument SetInd.   *)
(***************************************************************************)
EXTENDS Integers, FiniteSets, Functions, FiniteSetTheorems,
        WellFoundedInduction, TLAPS

(* A set of naturals closed under 0 and successor is Nat.                  *)
LEMMA SetInd ==
  ASSUME NEW A, A \subseteq Nat, 0 \in A, \A n \in A : n + 1 \in A
  PROVE  A = Nat
<1> DEFINE T == Nat \ A
<1>1. SUFFICES ASSUME T # {} PROVE FALSE
  OBVIOUS
<1>2. PICK x \in T : \A y \in T : ~ (<<y, x>> \in OpToRel(<, Nat))
  <2>1. T \subseteq Nat OBVIOUS
  <2> HIDE DEF T
  <2> QED BY <1>1, <2>1, NatLessThanWellFounded, WFMin
<1>3. \A y \in T : ~ (y < x)
  BY <1>2 DEF OpToRel
<1>4. x # 0 /\ x \in Nat
  OBVIOUS
<1>5. x - 1 \in Nat /\ x - 1 < x
  BY <1>4
<1>6. x - 1 \in A
  BY <1>3, <1>5
<1>7. x \in A
  BY <1>6, <1>4
<1> QED BY <1>7

(* The defining equation of the fold's recursive function: the sum over a  *)
(* set is the term of one chosen element plus the sum over the others.     *)
Chosen(s) == CHOOSE x \in s : TRUE
SumStep(g, f, s) == IF s = {} THEN 0 ELSE f[Chosen(s)] + g[s \ {Chosen(s)}]
IsPartialSum(g, f, S) == g = [s \in SUBSET S |-> SumStep(g, f, s)]
PartialSum(f, S) == CHOOSE g : IsPartialSum(g, f, S)

LEMMA SumIsPartialSum ==
  ASSUME NEW f, NEW S
  PROVE  SumFunctionOnSet(f, S) = PartialSum(f, S)[S]
BY DEF SumFunctionOnSet, FoldFunctionOnSet, MapThenFoldSet, PartialSum,
       IsPartialSum, SumStep, Chosen

LEMMA SubsetCardinality ==
  ASSUME NEW S, IsFiniteSet(S), NEW s \in SUBSET S
  PROVE  Cardinality(s) \in Nat /\ (Cardinality(s) = 0 <=> s = {})
<1>1. IsFiniteSet(s)
  BY FS_Subset
<1> QED
  BY <1>1, FS_EmptySet, FS_CardinalityType

(* Removing the chosen element from a subset of a finite set.              *)
LEMMA ChosenRemoved ==
  ASSUME NEW S, IsFiniteSet(S), NEW s \in SUBSET S, s # {}
  PROVE  /\ Chosen(s) \in s
         /\ s \ {Chosen(s)} \in SUBSET S
         /\ Cardinality(s) \in Nat
         /\ Cardinality(s \ {Chosen(s)}) = Cardinality(s) - 1
         /\ Cardinality(s) # 0
<1>1. Chosen(s) \in s
  BY DEF Chosen
<1>2. IsFiniteSet(s)
  BY FS_Subset
<1>3. Cardinality(s \ {Chosen(s)}) = Cardinality(s) - 1
  BY <1>1, <1>2, FS_RemoveElement
<1>4. Cardinality(s) # 0 /\ Cardinality(s) \in Nat
  BY <1>1, <1>2, FS_EmptySet, FS_CardinalityType
<1> QED
  BY <1>1, <1>3, <1>4

(* The recursive function exists: one that satisfies the equation on the   *)
(* sets of at most n elements can be extended to those of n + 1.           *)
LEMMA PartialSumExists ==
  ASSUME NEW S, IsFiniteSet(S), NEW f
  PROVE  \E g : IsPartialSum(g, f, S)
<1> DEFINE UpTo(g, n) == /\ g = [s \in SUBSET S |-> g[s]]
                         /\ \A s \in SUBSET S :
                              Cardinality(s) <= n => g[s] = SumStep(g, f, s)
           A == {n \in Nat : \E g : UpTo(g, n)}
<1>1. 0 \in A
  <2> DEFINE g == [s \in SUBSET S |-> 0]
  <2>1. ASSUME NEW s \in SUBSET S, Cardinality(s) <= 0 PROVE g[s] = SumStep(g, f, s)
    <3>1. s = {}
      BY <2>1, SubsetCardinality
    <3> QED BY <3>1 DEF SumStep
  <2>2. UpTo(g, 0)
    BY <2>1
  <2> QED BY <2>2
<1>2. ASSUME NEW n \in A PROVE n + 1 \in A
  <2>1. PICK g : UpTo(g, n)
    OBVIOUS
  <2> DEFINE h == [s \in SUBSET S |-> IF Cardinality(s) <= n THEN g[s] ELSE SumStep(g, f, s)]
  <2>2. ASSUME NEW s \in SUBSET S, Cardinality(s) <= n + 1 PROVE h[s] = SumStep(h, f, s)
    <3>1. CASE s = {}
      BY <3>1, <2>1 DEF SumStep
    <3>2. CASE s # {}
      <4> DEFINE t == s \ {Chosen(s)}
      <4>1. t \in SUBSET S /\ Cardinality(t) <= n
        BY <3>2, <2>2, ChosenRemoved
      <4>2. h[t] = g[t]
        BY <4>1
      <4>3. h[s] = SumStep(g, f, s)
        BY <2>1
      <4> HIDE DEF h
      <4> QED BY <4>2, <4>3 DEF SumStep
    <3> QED BY <3>1, <3>2
  <2>3. h = [s \in SUBSET S |-> h[s]]
    OBVIOUS
  <2>4. UpTo(h, n + 1)
    <3> HIDE DEF h
    <3> QED BY <2>2, <2>3
  <2> HIDE DEF h, UpTo
  <2> QED BY <2>4
<1>3. A = Nat
  <2> HIDE DEF A
  <2>1. A \subseteq Nat BY DEF A
  <2> QED BY <1>1, <1>2, <2>1, SetInd
<1>4. Cardinality(S) \in Nat
  BY FS_CardinalityType
<1>5. PICK g : UpTo(g, Cardinality(S))
  BY <1>3, <1>4
<1>6. \A s \in SUBSET S : Cardinality(s) <= Cardinality(S)
  BY FS_Subset
<1>7. \A s \in SUBSET S : g[s] = SumStep(g, f, s)
  BY <1>5, <1>6
<1>8. IsPartialSum(g, f, S)
  BY <1>5, <1>7 DEF IsPartialSum
<1> QED BY <1>8

LEMMA PartialSumDef ==
  ASSUME NEW S, IsFiniteSet(S), NEW f, NEW s \in SUBSET S
  PROVE  PartialSum(f, S)[s] = SumStep(PartialSum(f, S), f, s)
<1>1. IsPartialSum(PartialSum(f, S), f, S)
  BY PartialSumExists DEF PartialSum
<1> HIDE DEF PartialSum
<1> QED BY <1>1 DEF IsPartialSum

LEMMA PartialSumEmpty ==
  ASSUME NEW S, IsFiniteSet(S), NEW f
  PROVE  PartialSum(f, S)[{}] = 0
<1>1. {} \in SUBSET S
  OBVIOUS
<1> QED BY <1>1, PartialSumDef DEF SumStep

LEMMA PartialSumNonempty ==
  ASSUME NEW S, IsFiniteSet(S), NEW f, NEW s \in SUBSET S, s # {}
  PROVE  /\ Chosen(s) \in s
         /\ PartialSum(f, S)[s] = f[Chosen(s)] + PartialSum(f, S)[s \ {Chosen(s)}]
<1>1. Chosen(s) \in s
  BY DEF Chosen
<1>2. PartialSum(f, S)[s] = SumStep(PartialSum(f, S), f, s)
  BY PartialSumDef
<1> QED BY <1>1, <1>2 DEF SumStep

(* Induction over the subsets of a finite set by cardinality, for a set B  *)
(* of subsets: B holds the empty set, and every set whose subsets with one *)
(* element fewer are all in B.                                             *)
LEMMA SubsetInd ==
  ASSUME NEW S, IsFiniteSet(S), NEW B, B \subseteq SUBSET S, {} \in B,
         \A s \in SUBSET S : s # {} /\ (\A x \in s : s \ {x} \in B) => s \in B
  PROVE  B = SUBSET S
<1> DEFINE A == {n \in Nat : \A s \in SUBSET S : Cardinality(s) = n => s \in B}
<1>1. 0 \in A
  BY SubsetCardinality
<1>2. ASSUME NEW n \in A PROVE n + 1 \in A
  <2>1. ASSUME NEW s \in SUBSET S, Cardinality(s) = n + 1 PROVE s \in B
    <3>1. Cardinality(s) = n + 1 /\ n \in Nat
      BY <2>1
    <3>2. s # {}
      <4> HIDE DEF A
      <4> QED BY <3>1, SubsetCardinality
    <3>3. ASSUME NEW x \in s PROVE s \ {x} \in B
      <4>1. IsFiniteSet(s)
        BY FS_Subset
      <4>2. Cardinality(s \ {x}) = (n + 1) - 1
        <5> HIDE DEF A
        <5> QED BY <3>1, <4>1, FS_RemoveElement
      <4>3. (n + 1) - 1 = n
        BY <3>1
      <4> QED BY <4>2, <4>3
    <3> QED BY <3>2, <3>3
  <2> QED BY <2>1
<1>3. A = Nat
  <2> HIDE DEF A
  <2>1. A \subseteq Nat BY DEF A
  <2> QED BY <1>1, <1>2, <2>1, SetInd
<1>4. ASSUME NEW s \in SUBSET S PROVE s \in B
  BY <1>3, SubsetCardinality
<1> QED BY <1>4

(* A sum over integers is an integer.                                      *)
LEMMA PartialSumInt ==
  ASSUME NEW S, IsFiniteSet(S), NEW f, \A x \in S : f[x] \in Int
  PROVE  \A s \in SUBSET S : PartialSum(f, S)[s] \in Int
<1> DEFINE B == {s \in SUBSET S : PartialSum(f, S)[s] \in Int}
<1>1. {} \in B
  BY PartialSumEmpty
<1>2. ASSUME NEW s \in SUBSET S, s # {}, \A x \in s : s \ {x} \in B PROVE s \in B
  <2>1. s # {}
    BY <1>2
  <2>2. /\ Chosen(s) \in s
        /\ PartialSum(f, S)[s] = f[Chosen(s)] + PartialSum(f, S)[s \ {Chosen(s)}]
    BY <2>1, PartialSumNonempty
  <2>3. s \ {Chosen(s)} \in B
    BY <1>2, <2>2
  <2> QED BY <2>2, <2>3
<1>3. B = SUBSET S
  <2> HIDE DEF B
  <2>1. B \subseteq SUBSET S BY DEF B
  <2> QED BY <1>1, <1>2, <2>1, SubsetInd
<1> QED BY <1>3

(* Any element, not only the chosen one, can be taken out of a sum.        *)
LEMMA PartialSumAny ==
  ASSUME NEW S, IsFiniteSet(S), NEW f, \A x \in S : f[x] \in Int
  PROVE  \A s \in SUBSET S : \A x \in s :
           PartialSum(f, S)[s] = f[x] + PartialSum(f, S)[s \ {x}]
<1> DEFINE F(s) == PartialSum(f, S)[s]
           B == {s \in SUBSET S : \A x \in s : F(s) = f[x] + F(s \ {x})}
<1>1. {} \in B
  OBVIOUS
<1>2. ASSUME NEW s \in SUBSET S, s # {}, \A x \in s : s \ {x} \in B PROVE s \in B
  <2> DEFINE c == Chosen(s)
  <2>1. ASSUME NEW x \in s PROVE F(s) = f[x] + F(s \ {x})
    <3>1. c \in s /\ F(s) = f[c] + F(s \ {c})
      <4>1. s # {}
        BY <1>2
      <4> QED BY <4>1, PartialSumNonempty
    <3>2. CASE x = c
      BY <3>1, <3>2
    <3>3. CASE x # c
      <4>1. F(s \ {c}) = f[x] + F((s \ {c}) \ {x})
        BY <1>2, <3>1, <3>3
      <4>2. F(s \ {x}) = f[c] + F((s \ {x}) \ {c})
        BY <1>2, <3>1, <3>3
      <4>3. (s \ {x}) \ {c} = (s \ {c}) \ {x}
        OBVIOUS
      <4>4. F((s \ {x}) \ {c}) \in Int /\ f[x] \in Int /\ f[c] \in Int
        BY <3>1, PartialSumInt
      <4> DEFINE r == F((s \ {x}) \ {c})
      <4>5. F(s) = f[c] + (f[x] + r) /\ F(s \ {x}) = f[c] + r
        BY <3>1, <4>1, <4>2, <4>3
      <4>6. r \in Int
        BY <4>4
      <4> HIDE DEF r
      <4>7. f[c] + (f[x] + r) = f[x] + (f[c] + r)
        BY <4>4, <4>6
      <4> QED BY <4>5, <4>7
    <3> QED BY <3>2, <3>3
  <2> QED BY <2>1
<1>3. B = SUBSET S
  <2> HIDE DEF B
  <2>1. B \subseteq SUBSET S BY DEF B
  <2> QED BY <1>1, <1>2, <2>1, SubsetInd
<1> QED BY <1>3

(* The sum over s depends neither on the set it is drawn from nor on the   *)
(* values outside s.                                                       *)
LEMMA PartialSumCong ==
  ASSUME NEW S, IsFiniteSet(S), NEW T, IsFiniteSet(T), NEW f, NEW g,
         \A x \in S \cap T : f[x] = g[x]
  PROVE  \A s \in SUBSET (S \cap T) : PartialSum(f, S)[s] = PartialSum(g, T)[s]
<1> DEFINE U == S \cap T
           B == {s \in SUBSET U : PartialSum(f, S)[s] = PartialSum(g, T)[s]}
<1>1. {} \in B
  BY PartialSumEmpty
<1>2. ASSUME NEW s \in SUBSET U, s # {}, \A x \in s : s \ {x} \in B PROVE s \in B
  <2>0. s # {} /\ s \in SUBSET S /\ s \in SUBSET T
    BY <1>2
  <2>1. Chosen(s) \in s
    BY <2>0 DEF Chosen
  <2>2. PartialSum(f, S)[s] = f[Chosen(s)] + PartialSum(f, S)[s \ {Chosen(s)}]
    BY <2>0, PartialSumNonempty
  <2>3. PartialSum(g, T)[s] = g[Chosen(s)] + PartialSum(g, T)[s \ {Chosen(s)}]
    BY <2>0, PartialSumNonempty
  <2> QED BY <1>2, <2>1, <2>2, <2>3
<1>3. B = SUBSET U
  <2> HIDE DEF B
  <2>1. B \subseteq SUBSET U BY DEF B
  <2>2. IsFiniteSet(U) BY FS_Subset
  <2> QED BY <1>1, <1>2, <2>1, <2>2, SubsetInd
<1> QED BY <1>3

(***************************************************************************)
(* The facts the specifications' proofs cite.                              *)
(***************************************************************************)

(* A sum of integers is an integer, and equal terms give equal sums.       *)
LEMMA SumOnInt ==
  ASSUME NEW S, IsFiniteSet(S), NEW f, \A x \in S : f[x] \in Int
  PROVE  SumFunctionOnSet(f, S) \in Int
BY PartialSumInt, SumIsPartialSum

LEMMA SumOnCong ==
  ASSUME NEW S, IsFiniteSet(S), NEW f, NEW g, \A x \in S : f[x] = g[x]
  PROVE  SumFunctionOnSet(f, S) = SumFunctionOnSet(g, S)
<1>1. PartialSum(f, S)[S] = PartialSum(g, S)[S]
  BY PartialSumCong
<1> QED BY <1>1, SumIsPartialSum

LEMMA SumOnEmpty ==
  ASSUME NEW f
  PROVE  SumFunctionOnSet(f, {}) = 0
<1>1. IsFiniteSet({}) /\ {} \in SUBSET {}
  BY FS_EmptySet
<1>2. PartialSum(f, {})[{}] = 0
  BY <1>1, PartialSumDef DEF SumStep
<1> QED BY <1>2, SumIsPartialSum

(* Splitting one element off a sum.                                        *)
LEMMA SumOnSplit ==
  ASSUME NEW S, IsFiniteSet(S), NEW f, \A x \in S : f[x] \in Int, NEW k \in S
  PROVE  SumFunctionOnSet(f, S) = f[k] + SumFunctionOnSet(f, S \ {k})
<1>1. PartialSum(f, S)[S] = f[k] + PartialSum(f, S)[S \ {k}]
  BY PartialSumAny
<1>2. IsFiniteSet(S \ {k})
  BY FS_Subset
<1>3. PartialSum(f, S)[S \ {k}] = PartialSum(f, S \ {k})[S \ {k}]
  <2>1. S \ {k} \in SUBSET (S \cap (S \ {k}))
    OBVIOUS
  <2> QED BY <1>2, <2>1, PartialSumCong
<1> QED BY <1>1, <1>3, SumIsPartialSum

(* Changing one term: the sum moves by as much as the term.                *)
LEMMA SumOnChange ==
  ASSUME NEW S, IsFiniteSet(S), NEW f, NEW g, NEW k,
         \A x \in S : f[x] \in Int /\ g[x] \in Int,
         \A x \in S : x # k => g[x] = f[x]
  PROVE  SumFunctionOnSet(g, S) =
           SumFunctionOnSet(f, S) + (IF k \in S THEN g[k] - f[k] ELSE 0)
<1>1. CASE k \in S
  <2>1. SumFunctionOnSet(g, S) = g[k] + SumFunctionOnSet(g, S \ {k})
    BY <1>1, SumOnSplit
  <2>2. SumFunctionOnSet(f, S) = f[k] + SumFunctionOnSet(f, S \ {k})
    BY <1>1, SumOnSplit
  <2>3. IsFiniteSet(S \ {k}) /\ \A x \in S \ {k} : g[x] = f[x] /\ f[x] \in Int
    BY FS_Subset
  <2>4. SumFunctionOnSet(g, S \ {k}) = SumFunctionOnSet(f, S \ {k})
    BY <2>3, SumOnCong
  <2>5. SumFunctionOnSet(f, S \ {k}) \in Int /\ f[k] \in Int /\ g[k] \in Int
    BY <1>1, <2>3, SumOnInt
  <2> QED BY <1>1, <2>1, <2>2, <2>4, <2>5
<1>2. CASE k \notin S
  <2>1. SumFunctionOnSet(g, S) = SumFunctionOnSet(f, S)
    BY <1>2, SumOnCong
  <2>2. SumFunctionOnSet(f, S) \in Int
    BY SumOnInt
  <2> QED BY <1>2, <2>1, <2>2
<1> QED BY <1>1, <1>2

(* A sum of naturals is a natural and at least each of its terms.          *)
LEMMA SumOnNat ==
  ASSUME NEW S, IsFiniteSet(S), NEW f, \A x \in S : f[x] \in Nat
  PROVE  /\ SumFunctionOnSet(f, S) \in Nat
         /\ \A x \in S : f[x] <= SumFunctionOnSet(f, S)
<1> DEFINE B == {s \in SUBSET S : PartialSum(f, S)[s] \in Nat}
<1>1. {} \in B
  BY PartialSumEmpty
<1>2. ASSUME NEW s \in SUBSET S, s # {}, \A x \in s : s \ {x} \in B PROVE s \in B
  <2>1. s # {}
    BY <1>2
  <2>2. /\ Chosen(s) \in s
        /\ PartialSum(f, S)[s] = f[Chosen(s)] + PartialSum(f, S)[s \ {Chosen(s)}]
    BY <2>1, PartialSumNonempty
  <2>3. s \ {Chosen(s)} \in B
    BY <1>2, <2>2
  <2> QED BY <2>2, <2>3
<1>3. B = SUBSET S
  <2> HIDE DEF B
  <2>1. B \subseteq SUBSET S BY DEF B
  <2> QED BY <1>1, <1>2, <2>1, SubsetInd
<1>4. PartialSum(f, S)[S] \in Nat
  BY <1>3
<1>5. ASSUME NEW x \in S PROVE f[x] <= PartialSum(f, S)[S]
  <2>1. PartialSum(f, S)[S] = f[x] + PartialSum(f, S)[S \ {x}]
    BY PartialSumAny
  <2>2. PartialSum(f, S)[S \ {x}] \in Nat /\ f[x] \in Nat
    BY <1>3
  <2> QED BY <2>1, <2>2
<1> QED BY <1>4, <1>5, SumIsPartialSum

LEMMA SumOnZero ==
  ASSUME NEW S, IsFiniteSet(S), NEW f, \A x \in S : f[x] = 0
  PROVE  SumFunctionOnSet(f, S) = 0
<1> DEFINE B == {s \in SUBSET S : PartialSum(f, S)[s] = 0}
<1>1. {} \in B
  BY PartialSumEmpty
<1>2. ASSUME NEW s \in SUBSET S, s # {}, \A x \in s : s \ {x} \in B PROVE s \in B
  <2>1. s # {}
    BY <1>2
  <2>2. /\ Chosen(s) \in s
        /\ PartialSum(f, S)[s] = f[Chosen(s)] + PartialSum(f, S)[s \ {Chosen(s)}]
    BY <2>1, PartialSumNonempty
  <2>3. s \ {Chosen(s)} \in B
    BY <1>2, <2>2
  <2> QED BY <2>2, <2>3
<1>3. B = SUBSET S
  <2> HIDE DEF B
  <2>1. B \subseteq SUBSET S BY DEF B
  <2> QED BY <1>1, <1>2, <2>1, SubsetInd
<1> QED BY <1>3, SumIsPartialSum

(* Moving the terms of T out of a sum over S: the sum of the rest.         *)
LEMMA SumOnMinus ==
  ASSUME NEW S, IsFiniteSet(S), NEW f, \A x \in S : f[x] \in Int,
         NEW T \in SUBSET S
  PROVE  SumFunctionOnSet(f, S) = SumFunctionOnSet(f, T) + SumFunctionOnSet(f, S \ T)
<1> DEFINE F(s) == SumFunctionOnSet(f, s)
           B == {s \in SUBSET S : F(S) = F(s) + F(S \ s)}
<1>0. \A s \in SUBSET S : IsFiniteSet(s) /\ F(s) \in Int
  BY FS_Subset, SumOnInt
<1>1. {} \in B
  <2>1. S \ {} = S /\ F({}) = 0
    BY SumOnEmpty
  <2> QED BY <1>0, <2>1
<1>2. ASSUME NEW s \in SUBSET S, s # {}, \A x \in s : s \ {x} \in B PROVE s \in B
  <2>1. PICK k \in s : TRUE
    BY <1>2
  <2>2. F(s) = f[k] + F(s \ {k})
    BY <1>0, <2>1, SumOnSplit
  <2>3. k \in S \ (s \ {k}) /\ (S \ (s \ {k})) \ {k} = S \ s
    BY <2>1
  <2>4. F(S \ (s \ {k})) = f[k] + F(S \ s)
    BY <1>0, <2>3, SumOnSplit
  <2>5. F(S) = F(s \ {k}) + F(S \ (s \ {k}))
    BY <1>2, <2>1
  <2>6. /\ F(s) \in Int /\ F(s \ {k}) \in Int /\ F(S \ s) \in Int
        /\ F(S \ (s \ {k})) \in Int /\ f[k] \in Int
    BY <1>0, <2>1
  <2> HIDE DEF F
  <2> QED BY <2>2, <2>4, <2>5, <2>6
<1>3. B = SUBSET S
  <2> HIDE DEF B
  <2>1. B \subseteq SUBSET S BY DEF B
  <2> QED BY <1>1, <1>2, <2>1, SubsetInd
<1> QED BY <1>3

(* The two moves of a ledger g of the accounts S, from the ledger f: one   *)
(* entry changes by d; an amount goes from one entry to another.           *)
LEMMA SumCredit ==
  ASSUME NEW S, IsFiniteSet(S), NEW f \in [S -> Nat], NEW g \in [S -> Nat],
         NEW k \in S, NEW d \in Int, g[k] = f[k] + d,
         \A x \in S : x # k => g[x] = f[x]
  PROVE  SumFunction(g) = SumFunction(f) + d
<1>1. \A x \in S : f[x] \in Int /\ g[x] \in Int
  OBVIOUS
<1>2. SumFunctionOnSet(g, S) = SumFunctionOnSet(f, S) + (g[k] - f[k])
  BY <1>1, SumOnChange
<1>3. g[k] - f[k] = d
  BY <1>1
<1>4. DOMAIN f = S /\ DOMAIN g = S
  OBVIOUS
<1> QED BY <1>2, <1>3, <1>4 DEF SumFunction

LEMMA SumMove ==
  ASSUME NEW S, IsFiniteSet(S), NEW f \in [S -> Nat], NEW g \in [S -> Nat],
         NEW from \in S, NEW to \in S, from # to, NEW d \in Nat,
         g[from] = f[from] - d, g[to] = f[to] + d,
         \A x \in S : x # from /\ x # to => g[x] = f[x]
  PROVE  SumFunction(g) = SumFunction(f)
<1> DEFINE h == [x \in S |-> IF x = from THEN g[from] ELSE f[x]]
<1>1. /\ h \in [S -> Nat] /\ h[from] = f[from] + (0 - d) /\ g[to] = h[to] + d
      /\ \A x \in S : x # from => h[x] = f[x]
      /\ \A x \in S : x # to => g[x] = h[x]
  OBVIOUS
<1> HIDE DEF h
<1>2. SumFunction(h) = SumFunction(f) + (0 - d)
  BY <1>1, SumCredit
<1>3. SumFunction(g) = SumFunction(h) + d
  BY <1>1, SumCredit
<1>4. SumFunction(f) \in Int
  <2>1. \A x \in S : f[x] \in Int
    OBVIOUS
  <2>2. DOMAIN f = S
    OBVIOUS
  <2> QED BY <2>1, <2>2, SumOnInt DEF SumFunction
<1> QED BY <1>2, <1>3, <1>4

(* The sum of a ledger is a natural number, at least each of its entries.  *)
LEMMA SumLedger ==
  ASSUME NEW S, IsFiniteSet(S), NEW f \in [S -> Nat]
  PROVE  SumFunction(f) \in Nat /\ \A x \in S : f[x] <= SumFunction(f)
<1>1. \A x \in S : f[x] \in Nat
  OBVIOUS
<1>2. DOMAIN f = S
  OBVIOUS
<1> QED BY <1>1, <1>2, SumOnNat DEF SumFunction

(***************************************************************************)
(* Sums along sequences and over a part of the terms.                      *)
(***************************************************************************)
(* The terms can be numbered in any way.                                   *)
LEMMA SumReindex ==
  ASSUME NEW S, IsFiniteSet(S), NEW T, IsFiniteSet(T), NEW p \in [S -> T],
         \A a, b \in S : p[a] = p[b] => a = b,
         NEW f, \A x \in T : f[x] \in Int,
         NEW h, \A a \in S : h[a] = f[p[a]]
  PROVE  SumFunctionOnSet(h, S) = SumFunctionOnSet(f, {p[a] : a \in S})
<1> DEFINE Image(s) == {p[a] : a \in s}
           B == {s \in SUBSET S : SumFunctionOnSet(h, s) = SumFunctionOnSet(f, Image(s))}
<1>1. {} \in B
  <2>1. Image({}) = {}
    OBVIOUS
  <2> HIDE DEF Image
  <2> QED BY <2>1, SumOnEmpty
<1>2. ASSUME NEW s \in SUBSET S, s # {}, \A x \in s : s \ {x} \in B PROVE s \in B
  <2>1. PICK x \in s : TRUE
    BY <1>2
  <2>2. IsFiniteSet(s) /\ \A a \in s : h[a] \in Int
    BY FS_Subset
  <2>3. Image(s) \subseteq T /\ p[x] \in Image(s) /\ Image(s) \ {p[x]} = Image(s \ {x})
    OBVIOUS
  <2>4. IsFiniteSet(Image(s)) /\ \A y \in Image(s) : f[y] \in Int
    <3> HIDE DEF Image
    <3> QED BY <2>3, FS_Subset
  <2>5. SumFunctionOnSet(h, s) = h[x] + SumFunctionOnSet(h, s \ {x})
    BY <2>2, SumOnSplit
  <2>6. SumFunctionOnSet(f, Image(s)) = f[p[x]] + SumFunctionOnSet(f, Image(s) \ {p[x]})
    <3> HIDE DEF Image
    <3> QED BY <2>3, <2>4, SumOnSplit
  <2>7. SumFunctionOnSet(h, s \ {x}) = SumFunctionOnSet(f, Image(s \ {x}))
    BY <1>2
  <2> HIDE DEF Image
  <2> QED BY <2>3, <2>5, <2>6, <2>7
<1>3. B = SUBSET S
  <2> HIDE DEF B
  <2>1. B \subseteq SUBSET S BY DEF B
  <2> QED BY <1>1, <1>2, <2>1, SubsetInd
<1> QED BY <1>3

(* Larger terms give a larger sum, and leaving out naturals a smaller one. *)
LEMMA SumOnMono ==
  ASSUME NEW S, IsFiniteSet(S), NEW f, NEW g,
         \A x \in S : f[x] \in Int /\ g[x] \in Int /\ f[x] <= g[x]
  PROVE  SumFunctionOnSet(f, S) <= SumFunctionOnSet(g, S)
<1> DEFINE B == {s \in SUBSET S : SumFunctionOnSet(f, s) <= SumFunctionOnSet(g, s)}
<1>1. {} \in B
  BY SumOnEmpty
<1>2. ASSUME NEW s \in SUBSET S, s # {}, \A x \in s : s \ {x} \in B PROVE s \in B
  <2>1. PICK x \in s : TRUE
    BY <1>2
  <2>2. IsFiniteSet(s) /\ IsFiniteSet(s \ {x})
    BY FS_Subset
  <2>3. SumFunctionOnSet(f, s) = f[x] + SumFunctionOnSet(f, s \ {x})
    BY <2>2, SumOnSplit
  <2>4. SumFunctionOnSet(g, s) = g[x] + SumFunctionOnSet(g, s \ {x})
    BY <2>2, SumOnSplit
  <2>5. SumFunctionOnSet(f, s \ {x}) <= SumFunctionOnSet(g, s \ {x})
    BY <1>2
  <2>6. SumFunctionOnSet(f, s \ {x}) \in Int /\ SumFunctionOnSet(g, s \ {x}) \in Int
    BY <2>2, SumOnInt
  <2>7. f[x] \in Int /\ g[x] \in Int /\ f[x] <= g[x]
    OBVIOUS
  <2> QED BY <2>3, <2>4, <2>5, <2>6, <2>7
<1>3. B = SUBSET S
  <2> HIDE DEF B
  <2>1. B \subseteq SUBSET S BY DEF B
  <2> QED BY <1>1, <1>2, <2>1, SubsetInd
<1> QED BY <1>3

LEMMA SumOnPart ==
  ASSUME NEW S, IsFiniteSet(S), NEW f, \A x \in S : f[x] \in Nat, NEW T \in SUBSET S
  PROVE  SumFunctionOnSet(f, T) <= SumFunctionOnSet(f, S)
<1>1. SumFunctionOnSet(f, S) = SumFunctionOnSet(f, T) + SumFunctionOnSet(f, S \ T)
  BY SumOnMinus
<1>2. IsFiniteSet(T) /\ IsFiniteSet(S \ T)
  BY FS_Subset
<1>3. SumFunctionOnSet(f, T) \in Nat /\ SumFunctionOnSet(f, S \ T) \in Nat
  BY <1>2, SumOnNat
<1> QED BY <1>1, <1>3

(* Of two sequences, one after the other, and of a sequence that one       *)
(* element was taken out of.                                               *)
LEMMA SumJoined ==
  ASSUME NEW m \in Nat, NEW n \in Nat, NEW f, NEW g, NEW h,
         \A i \in 1..m : f[i] \in Int /\ h[i] = f[i],
         \A i \in 1..n : g[i] \in Int /\ h[m + i] = g[i]
  PROVE  SumFunctionOnSet(h, 1..(m + n)) =
           SumFunctionOnSet(f, 1..m) + SumFunctionOnSet(g, 1..n)
<1> DEFINE S == 1..(m + n)
           rest == S \ (1..m)
           p == [i \in 1..n |-> m + i]
<1>1. /\ IsFiniteSet(S) /\ IsFiniteSet(1..m) /\ IsFiniteSet(1..n) /\ IsFiniteSet(rest)
      /\ 1..m \subseteq S
  <2>1. m + n \in Int /\ 1 \in Int /\ m \in Int /\ n \in Int
    OBVIOUS
  <2>2. IsFiniteSet(S) /\ IsFiniteSet(1..m) /\ IsFiniteSet(1..n)
    BY ONLY <2>1, FS_Interval
  <2>3. rest \subseteq S /\ 1..m \subseteq S
    OBVIOUS
  <2> HIDE DEF S, rest
  <2> QED BY <2>2, <2>3, FS_Subset
<1>2. \A i \in rest : i - m \in 1..n /\ i = m + (i - m)
  OBVIOUS
<1>3. \A i \in rest : h[i] \in Int
  BY <1>2
<1>4. p \in [1..n -> rest] /\ \A i \in 1..n : g[i] = h[p[i]]
  OBVIOUS
<1>5. \A i, k \in 1..n : p[i] = p[k] => i = k
  OBVIOUS
<1>6. {p[i] : i \in 1..n} = rest
  BY <1>2, <1>4
<1>7. SumFunctionOnSet(g, 1..n) = SumFunctionOnSet(h, rest)
  <2>1. SumFunctionOnSet(g, 1..n) = SumFunctionOnSet(h, {p[i] : i \in 1..n})
    <3> DEFINE D == 1..n
    <3>1. IsFiniteSet(D) /\ IsFiniteSet(rest) /\ p \in [D -> rest]
      BY <1>1, <1>4
    <3>2. \A i, k \in D : p[i] = p[k] => i = k
      BY <1>5
    <3>3. \A i \in D : g[i] = h[p[i]]
      BY <1>4
    <3> HIDE DEF p, rest, D
    <3>4. SumFunctionOnSet(g, D) = SumFunctionOnSet(h, {p[i] : i \in D})
      BY ONLY <1>3, <3>1, <3>2, <3>3, SumReindex
    <3> QED BY <3>4 DEF D
  <2> QED BY <1>6, <2>1
<1>8. SumFunctionOnSet(h, 1..m) = SumFunctionOnSet(f, 1..m)
  BY <1>1, SumOnCong
<1>9. \A i \in S : h[i] \in Int
  BY <1>3
<1>10. SumFunctionOnSet(h, S) = SumFunctionOnSet(h, 1..m) + SumFunctionOnSet(h, rest)
  <2> HIDE DEF S
  <2> QED BY <1>1, <1>9, SumOnMinus
<1> QED BY <1>7, <1>8, <1>10

LEMMA SumRemoved ==
  ASSUME NEW n \in Nat, NEW k \in 1..n, NEW f, NEW h, \A i \in 1..n : f[i] \in Int,
         \A i \in 1..(n - 1) : h[i] = IF i < k THEN f[i] ELSE f[i + 1]
  PROVE  SumFunctionOnSet(f, 1..n) = SumFunctionOnSet(h, 1..(n - 1)) + f[k]
<1> DEFINE S == 1..n
           rest == S \ {k}
           p == [i \in 1..(n - 1) |-> IF i < k THEN i ELSE i + 1]
<1>1. IsFiniteSet(S) /\ IsFiniteSet(rest) /\ IsFiniteSet(1..(n - 1))
  <2>1. n - 1 \in Int /\ 1 \in Int /\ n \in Int
    OBVIOUS
  <2>2. IsFiniteSet(S) /\ IsFiniteSet(1..(n - 1))
    BY ONLY <2>1, FS_Interval
  <2>3. rest \subseteq S
    OBVIOUS
  <2> HIDE DEF S, rest
  <2> QED BY <2>2, <2>3, FS_Subset
<1>2. p \in [1..(n - 1) -> rest] /\ \A i \in 1..(n - 1) : h[i] = f[p[i]]
  OBVIOUS
<1>3. \A i, j \in 1..(n - 1) : p[i] = p[j] => i = j
  OBVIOUS
<1>4. {p[i] : i \in 1..(n - 1)} = rest
  <2>1. ASSUME NEW x \in rest PROVE \E i \in 1..(n - 1) : p[i] = x
    <3>1. CASE x < k
      <4>1. x \in 1..(n - 1) /\ p[x] = x
        BY <3>1
      <4> QED BY <4>1
    <3>2. CASE ~(x < k)
      <4>1. x - 1 \in 1..(n - 1) /\ p[x - 1] = x
        BY <3>2
      <4> QED BY <4>1
    <3> QED BY <3>1, <3>2
  <2> QED BY <1>2, <2>1
<1>5. SumFunctionOnSet(h, 1..(n - 1)) = SumFunctionOnSet(f, rest)
  <2>1. SumFunctionOnSet(h, 1..(n - 1)) = SumFunctionOnSet(f, {p[i] : i \in 1..(n - 1)})
    <3>1. \A x \in rest : f[x] \in Int
      OBVIOUS
    <3> HIDE DEF p, rest
    <3> QED BY <1>1, <1>2, <1>3, <3>1, SumReindex
  <2> QED BY <1>4, <2>1
<1>6. SumFunctionOnSet(f, S) = f[k] + SumFunctionOnSet(f, rest)
  BY <1>1, SumOnSplit
<1>7. SumFunctionOnSet(f, rest) \in Int /\ f[k] \in Int
  BY <1>1, SumOnInt
<1> QED BY <1>5, <1>6, <1>7
=============================================================================
