----------------------------- MODULE SumsProofs ------------------------------
(***************************************************************************)
(* Lemmas about sums over finite domains.  A sum is a fold: its recursion  *)
(* has a solution, built for ever larger subsets of the domain, and what   *)
(* the recursion computes follows by induction over subsets, stated for a  *)
(* set in the place of a predicate.                                        *)
(***************************************************************************)
EXTENDS Sums, FiniteSets, FiniteSetTheorems, WellFoundedInduction, TLAPS

(* The sum of f over each subset of its domain, by the recursion of a      *)
(* fold.                                                                   *)
One(S) == CHOOSE x \in S : TRUE

SumFrom(f) ==
  CHOOSE g : g = [S \in SUBSET DOMAIN f |->
                    IF S = {} THEN 0 ELSE f[One(S)] + g[S \ {One(S)}]]

(* A sum is what its recursion gives for the whole domain.                 *)
LEMMA SumIsSumFrom == \A f : Sum(f) = SumFrom(f)[DOMAIN f]
  BY DEF Sum, SumFrom, One, FoldFunction, FoldFunctionOnSet, MapThenFoldSet

(* Induction over the naturals, for a set in the place of a predicate.     *)
LEMMA SetInduction ==
  ASSUME NEW F, 0 \in F, \A n \in Nat : n \in F => n + 1 \in F
  PROVE  Nat \subseteq F
<1>1. SUFFICES ASSUME Nat \ F # {} PROVE FALSE
  OBVIOUS
<1>2. PICK n \in Nat \ F : \A m \in Nat \ F : <<m, n>> \notin OpToRel(<, Nat)
  BY <1>1, NatLessThanWellFounded, WFMin, Nat \ F \subseteq Nat
<1>3. \A m \in Nat : m < n => m \in F
  BY <1>2 DEF OpToRel
<1>4. n # 0 /\ n - 1 \in Nat /\ n - 1 < n
  OBVIOUS
<1>5. QED
  BY <1>3, <1>4

(* Subsets by size.                                                        *)
Small(D, n) == {S \in SUBSET D : Cardinality(S) <= n}

(* The subsets of at most n elements, and what taking one out does.        *)
LEMMA SmallSets ==
  ASSUME NEW D, IsFiniteSet(D)
  PROVE  /\ \A S \in SUBSET D : IsFiniteSet(S) /\ Cardinality(S) \in Nat
         /\ \A S \in Small(D, 0) : S = {}
         /\ \A n \in Nat : \A S \in Small(D, n) : S \in Small(D, n + 1)
         /\ \A n \in Nat : \A S \in Small(D, n) : \A x : S \ {x} \in Small(D, n)
         /\ \A n \in Nat : \A S \in Small(D, n + 1) : \A x \in S : S \ {x} \in Small(D, n)
         /\ Small(D, Cardinality(D)) = SUBSET D
<1>1. \A S \in SUBSET D : IsFiniteSet(S) /\ Cardinality(S) \in Nat /\ Cardinality(S) <= Cardinality(D)
  BY FS_Subset, FS_CardinalityType
<1>2. \A S \in SUBSET D : \A x : Cardinality(S \ {x}) = IF x \in S THEN Cardinality(S) - 1 ELSE Cardinality(S)
  BY <1>1, FS_RemoveElement
<1>3. \A S \in SUBSET D : Cardinality(S) = 0 => S = {}
  BY <1>1, FS_EmptySet
<1>4. Cardinality(D) \in Nat
  BY FS_CardinalityType
<1>5. \A S \in Small(D, 0) : S = {}
  BY <1>1, <1>3 DEF Small
<1>6. \A n \in Nat : \A S \in Small(D, n) : S \in Small(D, n + 1)
  BY <1>1 DEF Small
<1>7. \A n \in Nat : \A S \in Small(D, n) : \A x : S \ {x} \in Small(D, n)
  <2>1. TAKE n \in Nat
  <2>2. TAKE S \in Small(D, n)
  <2>3. TAKE x
  <2>4. S \in SUBSET D /\ S \ {x} \in SUBSET D /\ Cardinality(S) <= n
    BY DEF Small
  <2>5. Cardinality(S \ {x}) <= n
    BY <2>4, <1>1, <1>2
  <2>6. QED
    BY <2>4, <2>5 DEF Small
<1>8. \A n \in Nat : \A S \in Small(D, n + 1) : \A x \in S : S \ {x} \in Small(D, n)
  <2>1. TAKE n \in Nat
  <2>2. TAKE S \in Small(D, n + 1)
  <2>3. TAKE x \in S
  <2>4. S \in SUBSET D /\ S \ {x} \in SUBSET D /\ Cardinality(S) <= n + 1
    BY DEF Small
  <2>5. Cardinality(S \ {x}) <= n
    BY <2>4, <1>1, <1>2
  <2>6. QED
    BY <2>4, <2>5 DEF Small
<1>9. Small(D, Cardinality(D)) = SUBSET D
  BY <1>1 DEF Small
<1>10. QED
  BY <1>1, <1>5, <1>6, <1>7, <1>8, <1>9

(* Induction over the subsets of a finite set, one element at a time.      *)
LEMMA SubsetInduction ==
  ASSUME NEW D, IsFiniteSet(D), NEW F, {} \in F,
         \A S \in SUBSET D : S # {} /\ (\A x \in S : S \ {x} \in F) => S \in F
  PROVE  SUBSET D \subseteq F
<1> DEFINE N == {n \in Nat : Small(D, n) \subseteq F}
<1>1. 0 \in N
  BY SmallSets
<1>2. ASSUME NEW n \in Nat, n \in N PROVE n + 1 \in N
  <2>1. ASSUME NEW S \in Small(D, n + 1) PROVE S \in F
    <3>1. \A x \in S : S \ {x} \in F
      BY <1>2, SmallSets
    <3>2. S \in SUBSET D
      BY DEF Small
    <3>3. QED
      BY <3>1, <3>2
  <2>2. QED
    BY <2>1
<1>3. Cardinality(D) \in N
  <2>1. Nat \subseteq N
    <3> HIDE DEF N
    <3>1. QED
      BY <1>1, <1>2, SetInduction
  <2>2. QED
    BY <2>1, FS_CardinalityType
<1>4. QED
  BY <1>3, SmallSets

(* The recursion has a solution: it is built for ever larger subsets.      *)
LEMMA SumFromDef ==
  ASSUME NEW f, IsFiniteSet(DOMAIN f)
  PROVE  SumFrom(f) = [S \in SUBSET DOMAIN f |->
           IF S = {} THEN 0 ELSE f[One(S)] + SumFrom(f)[S \ {One(S)}]]
<1> DEFINE D == DOMAIN f
           Body(g, S) == IF S = {} THEN 0 ELSE f[One(S)] + g[S \ {One(S)}]
           N == {n \in Nat : \E g : g = [S \in Small(D, n) |-> Body(g, S)]}
<1>0. \A S : S # {} => One(S) \in S
  BY DEF One
<1>1. 0 \in N
  <2>1. [S \in Small(D, 0) |-> 0] = [S \in Small(D, 0) |-> Body([T \in Small(D, 0) |-> 0], S)]
    BY SmallSets
  <2>2. QED
    BY <2>1
<1>2. ASSUME NEW n \in Nat, n \in N PROVE n + 1 \in N
  <2>1. PICK g : g = [S \in Small(D, n) |-> Body(g, S)]
    BY <1>2
  <2> DEFINE h == [S \in Small(D, n + 1) |-> Body(g, S)]
  <2>2. ASSUME NEW S \in Small(D, n + 1) PROVE Body(g, S) = Body(h, S)
    <3>1. CASE S = {}
      BY <3>1
    <3>2. CASE S # {}
      <4> DEFINE T == S \ {One(S)}
      <4>1. One(S) \in S
        BY <1>0, <3>2
      <4>2. T \in Small(D, n) /\ T \in Small(D, n + 1)
        BY <4>1, SmallSets
      <4>3. h[T] = Body(g, T) /\ g[T] = Body(g, T)
        <5> HIDE DEF Body, T
        <5>1. QED
          BY <4>2, <2>1
      <4>4. QED
        BY <4>3
    <3>3. QED
      BY <3>1, <3>2
  <2>3. h = [S \in Small(D, n + 1) |-> Body(h, S)]
    <3> HIDE DEF Body
    <3>1. QED
      BY <2>2
  <2>4. QED
    <3> HIDE DEF Body, h
    <3>1. QED
      BY <2>3
<1>3. Cardinality(D) \in N
  <2>1. Nat \subseteq N
    <3> HIDE DEF N
    <3>1. QED
      BY <1>1, <1>2, SetInduction
  <2>2. QED
    BY <2>1, FS_CardinalityType
<1>4. \E g : g = [S \in SUBSET DOMAIN f |-> Body(g, S)]
  <2>1. Small(D, Cardinality(D)) = SUBSET D
    BY SmallSets
  <2>2. QED
    <3> HIDE DEF Body
    <3>1. QED
      BY <1>3, <2>1
<1>5. QED
  BY <1>4 DEF SumFrom

(* The two cases of the recursion.                                         *)
LEMMA SumFromSteps ==
  ASSUME NEW D, IsFiniteSet(D), NEW f \in [D -> Nat]
  PROVE  /\ SumFrom(f)[{}] = 0
         /\ \A S \in SUBSET D : S # {} =>
              /\ One(S) \in S
              /\ SumFrom(f)[S] = f[One(S)] + SumFrom(f)[S \ {One(S)}]
<1>1. DOMAIN f = D
  OBVIOUS
<1>2. SumFrom(f) = [S \in SUBSET D |->
        IF S = {} THEN 0 ELSE f[One(S)] + SumFrom(f)[S \ {One(S)}]]
  BY <1>1, SumFromDef
<1>3. \A S : S # {} => One(S) \in S
  BY DEF One
<1>4. QED
  BY <1>2, <1>3

(* A sum of naturals is a natural.                                         *)
LEMMA SumType ==
  ASSUME NEW D, IsFiniteSet(D), NEW f \in [D -> Nat]
  PROVE  /\ \A S \in SUBSET D : SumFrom(f)[S] \in Nat
         /\ Sum(f) \in Nat
<1> DEFINE F == {S \in SUBSET D : SumFrom(f)[S] \in Nat}
<1>0. \A S \in SUBSET D : S # {} =>
        One(S) \in S /\ SumFrom(f)[S] = f[One(S)] + SumFrom(f)[S \ {One(S)}]
  BY SumFromSteps
<1>1. {} \in F
  BY SumFromSteps
<1>2. ASSUME NEW S \in SUBSET D, S # {}, \A x \in S : S \ {x} \in F PROVE S \in F
  <2>1. One(S) \in S /\ SumFrom(f)[S] = f[One(S)] + SumFrom(f)[S \ {One(S)}]
    BY <1>0, <1>2
  <2>2. SumFrom(f)[S \ {One(S)}] \in Nat /\ f[One(S)] \in Nat
    BY <2>1, <1>2
  <2>3. QED
    BY <2>1, <2>2
<1>3. SUBSET D \subseteq F
  <2> HIDE DEF F
  <2>1. QED
    BY <1>1, <1>2, SubsetInduction
<1>4. QED
  BY <1>3, SumIsSumFrom

(* A sum of zeros is zero.                                                 *)
LEMMA SumOfZeros ==
  ASSUME NEW D, IsFiniteSet(D), NEW f \in [D -> Nat], \A x \in D : f[x] = 0
  PROVE  Sum(f) = 0
<1> DEFINE F == {S \in SUBSET D : SumFrom(f)[S] = 0}
<1>0. \A S \in SUBSET D : S # {} =>
        One(S) \in S /\ SumFrom(f)[S] = f[One(S)] + SumFrom(f)[S \ {One(S)}]
  BY SumFromSteps
<1>1. {} \in F
  BY SumFromSteps
<1>2. ASSUME NEW S \in SUBSET D, S # {}, \A x \in S : S \ {x} \in F PROVE S \in F
  <2>1. One(S) \in S /\ SumFrom(f)[S] = f[One(S)] + SumFrom(f)[S \ {One(S)}]
    BY <1>0, <1>2
  <2>2. QED
    BY <2>1, <1>2
<1>3. SUBSET D \subseteq F
  <2> HIDE DEF F
  <2>1. QED
    BY <1>1, <1>2, SubsetInduction
<1>4. QED
  BY <1>3, SumIsSumFrom

(* A sum changes by what one summand changes, whatever the order of        *)
(* adding.                                                                 *)
LEMMA SumOfOneChanged ==
  ASSUME NEW D, IsFiniteSet(D), NEW f \in [D -> Nat], NEW g \in [D -> Nat], NEW d \in D,
         \A x \in D \ {d} : g[x] = f[x]
  PROVE  Sum(g) + f[d] = Sum(f) + g[d]
<1> DEFINE F == {S \in SUBSET D : IF d \in S THEN SumFrom(g)[S] + f[d] = SumFrom(f)[S] + g[d]
                                  ELSE SumFrom(g)[S] = SumFrom(f)[S]}
<1>1. {} \in F
  BY SumFromSteps
<1>2. ASSUME NEW S \in SUBSET D, S # {}, \A x \in S : S \ {x} \in F PROVE S \in F
  <2> DEFINE x == One(S)
             T == S \ {x}
  <2>1. /\ x \in S
        /\ SumFrom(f)[S] = f[x] + SumFrom(f)[T]
        /\ SumFrom(g)[S] = g[x] + SumFrom(g)[T]
    BY <1>2, SumFromSteps
  <2>2. /\ SumFrom(f)[T] \in Nat /\ SumFrom(g)[T] \in Nat
        /\ f[x] \in Nat /\ g[x] \in Nat /\ f[d] \in Nat /\ g[d] \in Nat
    BY <2>1, SumType
  <2>3. /\ d \in T => SumFrom(g)[T] + f[d] = SumFrom(f)[T] + g[d]
        /\ d \notin T => SumFrom(g)[T] = SumFrom(f)[T]
    BY <2>1, <1>2
  <2>4. x # d => g[x] = f[x]
    BY <2>1
  <2>5. d \in T <=> d \in S /\ x # d
    OBVIOUS
  <2> HIDE DEF x, T
  <2>6. d \in S => SumFrom(g)[S] + f[d] = SumFrom(f)[S] + g[d]
    BY <2>1, <2>2, <2>3, <2>4, <2>5
  <2>7. d \notin S => SumFrom(g)[S] = SumFrom(f)[S]
    BY <2>1, <2>2, <2>3, <2>4, <2>5
  <2>8. QED
    BY <2>6, <2>7
<1>3. SUBSET D \subseteq F
  <2> HIDE DEF F
  <2>1. QED
    BY <1>1, <1>2, SubsetInduction
<1>4. QED
  BY <1>3, SumIsSumFrom

(* A sum of smaller summands is smaller.                                   *)
LEMMA SumOfSmaller ==
  ASSUME NEW D, IsFiniteSet(D), NEW f \in [D -> Nat], NEW g \in [D -> Nat],
         \A x \in D : g[x] <= f[x]
  PROVE  /\ Sum(g) <= Sum(f)
         /\ \A d \in D : g[d] < f[d] => Sum(g) < Sum(f)
<1> DEFINE F == {S \in SUBSET D :
                   /\ SumFrom(g)[S] <= SumFrom(f)[S]
                   /\ \A d \in S : g[d] < f[d] => SumFrom(g)[S] < SumFrom(f)[S]}
<1>0. \A S \in SUBSET D : S # {} =>
        /\ One(S) \in S
        /\ SumFrom(f)[S] = f[One(S)] + SumFrom(f)[S \ {One(S)}]
        /\ SumFrom(g)[S] = g[One(S)] + SumFrom(g)[S \ {One(S)}]
  BY SumFromSteps
<1>1. {} \in F
  <2>1. SumFrom(f)[{}] = 0 /\ SumFrom(g)[{}] = 0
    BY SumFromSteps
  <2>2. QED
    BY <2>1
<1>2. ASSUME NEW S \in SUBSET D, S # {}, \A x \in S : S \ {x} \in F PROVE S \in F
  <2> DEFINE x == One(S)
             T == S \ {x}
  <2>1. /\ x \in S
        /\ SumFrom(f)[S] = f[x] + SumFrom(f)[T]
        /\ SumFrom(g)[S] = g[x] + SumFrom(g)[T]
    BY <1>0, <1>2
  <2>2. /\ SumFrom(f)[T] \in Nat /\ SumFrom(g)[T] \in Nat
        /\ f[x] \in Nat /\ g[x] \in Nat /\ g[x] <= f[x]
    BY <2>1, SumType
  <2>3. /\ SumFrom(g)[T] <= SumFrom(f)[T]
        /\ \A d \in T : g[d] < f[d] => SumFrom(g)[T] < SumFrom(f)[T]
    BY <2>1, <1>2
  <2>4. \A d \in S : d = x \/ d \in T
    OBVIOUS
  <2> HIDE DEF x, T
  <2>5. SumFrom(g)[S] <= SumFrom(f)[S]
    BY <2>1, <2>2, <2>3
  <2>6. ASSUME NEW d \in S, g[d] < f[d] PROVE SumFrom(g)[S] < SumFrom(f)[S]
    <3>1. CASE d = x
      BY <2>1, <2>2, <2>3, <2>6, <3>1
    <3>2. CASE d \in T
      <4>1. SumFrom(g)[T] < SumFrom(f)[T]
        BY <2>3, <2>6, <3>2
      <4>2. QED
        BY <2>1, <2>2, <4>1
    <3>3. QED
      BY <2>4, <3>1, <3>2
  <2>7. QED
    BY <2>5, <2>6
<1>3. SUBSET D \subseteq F
  <2> HIDE DEF F
  <2>1. QED
    BY <1>1, <1>2, SubsetInduction
<1>4. QED
  BY <1>3, SumIsSumFrom
=============================================================================
