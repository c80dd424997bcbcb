----------------------------- MODULE FiniteSums -----------------------------
(***************************************************************************)
(* Sums of a function over a finite set, and what the proofs need to know  *)
(* of them.  The library's sum is a fold that takes the elements in an     *)
(* order of its own; the lemmas show that it is defined, that the order    *)
(* does not matter, and how it changes with the set and the function.      *)
(* Each induction is on the size of a smallest set that breaks the claim.  *)
(***************************************************************************)
EXTENDS Functions, FiniteSetTheorems, WellFoundedInduction, TLAPS

Summable(f, S) == IsFiniteSet(S) /\ \A x \in S : f[x] \in Int

-----------------------------------------------------------------------------
(***************************************************************************)
(* The fold is well defined                                                *)
(***************************************************************************)

\* The element the fold takes first, and the equation of its iteration.
First(s) == CHOOSE x \in s : TRUE

Fold(f, g, s) == IF s = {} THEN 0 ELSE f[First(s)] + g[s \ {First(s)}]

Agree(f, e, S) == \A x \in S : f[x] = e[x]

Iterates(f, S, g) == g = [s \in SUBSET S |-> Fold(f, g, s)]

\* The sum is what some iteration says of the whole set.
LEMMA SumIsIteration ==
    ASSUME NEW f, NEW S
    PROVE  SumFunctionOnSet(f, S) = (CHOOSE g : Iterates(f, S, g))[S]
BY Zenon DEF SumFunctionOnSet, FoldFunctionOnSet, MapThenFoldSet, Iterates, Fold, First

\* A nonempty set of natural numbers has a smallest element.
LEMMA SmallestSize ==
    ASSUME NEW U \in SUBSET Nat, U # {}
    PROVE  \E n \in U : \A k \in U : n <= k
<1> DEFINE R == OpToRel(<, Nat)
<1>1. IsWellFoundedOn(R, Nat)
  BY NatLessThanWellFounded
<1>2. PICK n \in U : \A k \in U : ~(<<k, n>> \in R)
  <2> HIDE DEF R
  <2>1. QED
    BY <1>1, WFMin
<1>3. \A k \in U : ~(k < n)
  BY <1>2 DEF OpToRel
<1>4. QED
  BY <1>3

\* Taking out the first element leaves a smaller set.
LEMMA FirstOut ==
    ASSUME NEW s, IsFiniteSet(s), s # {}
    PROVE  /\ First(s) \in s /\ IsFiniteSet(s \ {First(s)})
           /\ Cardinality(s) \in Nat /\ Cardinality(s) > 0
           /\ Cardinality(s \ {First(s)}) = Cardinality(s) - 1
<1>1. First(s) \in s
  BY DEF First
<1>2. Cardinality(s) \in Nat /\ Cardinality(s) # 0
  BY FS_CardinalityType, FS_EmptySet
<1>3. QED
  BY <1>1, <1>2, FS_RemoveElement

\* Subsets of a summable set are smaller and summable.
LEMMA SubsetSummable ==
    ASSUME NEW f, NEW S, Summable(f, S), NEW s \in SUBSET S
    PROVE  /\ Summable(f, s) /\ IsFiniteSet(s) /\ Cardinality(s) \in Nat
           /\ Cardinality(s) <= Cardinality(S)
BY FS_Subset, FS_CardinalityType DEF Summable

\* There is an iteration, and its values are integers.
LEMMA IterationExists ==
    ASSUME NEW f, NEW S, Summable(f, S)
    PROVE  \E g \in [SUBSET S -> Int] : Iterates(f, S, g)
<1> DEFINE UpTo(k, g) == \A s \in SUBSET S : Cardinality(s) <= k => g[s] = Fold(f, g, s)
           Bad == {k \in Nat : ~\E g \in [SUBSET S -> Int] : UpTo(k, g)}
<1>0. \A s \in SUBSET S : IsFiniteSet(s) /\ Cardinality(s) \in Nat
                            /\ Cardinality(s) <= Cardinality(S)
  BY SubsetSummable
<1>1. Bad = {}
  <2> SUFFICES ASSUME Bad # {} PROVE FALSE
    OBVIOUS
  <2>1. Bad \in SUBSET Nat
    OBVIOUS
  <2>2. PICK m \in Bad : \A k \in Bad : m <= k
    <3> HIDE DEF Bad
    <3>1. QED
      BY <2>1, SmallestSize
  <2>3. m \in Nat /\ ~\E g \in [SUBSET S -> Int] : UpTo(m, g)
    OBVIOUS
  <2>4. CASE m = 0
    <3> DEFINE g == [s \in SUBSET S |-> 0]
    <3>1. g \in [SUBSET S -> Int]
      OBVIOUS
    <3>2. UpTo(0, g)
      <4> SUFFICES ASSUME NEW s \in SUBSET S, Cardinality(s) <= 0
                   PROVE  g[s] = Fold(f, g, s)
        OBVIOUS
      <4>1. IsFiniteSet(s) /\ Cardinality(s) = 0
        BY <1>0
      <4>2. s = {}
        BY <4>1, FS_EmptySet
      <4>3. Fold(f, g, s) = 0
        BY <4>2 DEF Fold
      <4>4. QED
        BY <4>3
    <3> HIDE DEF g
    <3>3. QED
      BY <2>3, <2>4, <3>1, <3>2
  <2>5. CASE m > 0
    <3>1. m - 1 \in Nat /\ m - 1 \notin Bad
      <4> HIDE DEF Bad
      <4>1. QED
        BY <2>2, <2>3, <2>5
    <3>2. PICK g \in [SUBSET S -> Int] : UpTo(m - 1, g)
      BY <3>1
    <3> DEFINE h == [s \in SUBSET S |->
                        IF Cardinality(s) <= m - 1 THEN g[s] ELSE Fold(f, g, s)]
    <3>3. \A s \in SUBSET S : Fold(f, g, s) \in Int
      <4> SUFFICES ASSUME NEW s \in SUBSET S PROVE Fold(f, g, s) \in Int
        OBVIOUS
      <4>1. CASE s = {}
        BY <4>1 DEF Fold
      <4>2. CASE s # {}
        <5>1. First(s) \in S /\ s \ {First(s)} \in SUBSET S
          BY <1>0, <4>2, FirstOut
        <5>2. f[First(s)] \in Int /\ g[s \ {First(s)}] \in Int
          BY <5>1 DEF Summable
        <5>3. QED
          BY <4>2, <5>2 DEF Fold
      <4>3. QED
        BY <4>1, <4>2
    <3>4. h \in [SUBSET S -> Int]
      BY <3>3
    <3>5. \A s \in SUBSET S : h[s] = IF Cardinality(s) <= m - 1 THEN g[s] ELSE Fold(f, g, s)
      OBVIOUS
    <3> HIDE DEF h
    <3>6. \A s \in SUBSET S : Cardinality(s) <= m => Fold(f, h, s) = Fold(f, g, s)
      <4> SUFFICES ASSUME NEW s \in SUBSET S, Cardinality(s) <= m, s # {}
                   PROVE  Fold(f, h, s) = Fold(f, g, s)
        BY DEF Fold
      <4>1. /\ s \ {First(s)} \in SUBSET S
            /\ Cardinality(s \ {First(s)}) = Cardinality(s) - 1 /\ Cardinality(s) \in Nat
        BY <1>0, FirstOut
      <4>2. Cardinality(s \ {First(s)}) <= m - 1
        BY <2>3, <4>1
      <4>3. h[s \ {First(s)}] = g[s \ {First(s)}]
        BY <3>5, <4>1, <4>2
      <4>4. QED
        BY <4>3 DEF Fold
    <3>7. UpTo(m, h)
      <4> SUFFICES ASSUME NEW s \in SUBSET S, Cardinality(s) <= m
                   PROVE  h[s] = Fold(f, h, s)
        OBVIOUS
      <4>1. CASE Cardinality(s) <= m - 1
        BY <3>2, <3>5, <3>6, <4>1
      <4>2. CASE ~(Cardinality(s) <= m - 1)
        BY <3>5, <3>6, <4>2
      <4>3. QED
        BY <4>1, <4>2
    <3>8. QED
      BY <2>3, <3>4, <3>7
  <2>6. QED
    BY <2>3, <2>4, <2>5
<1>2. Cardinality(S) \in Nat
  BY <1>0
<1>3. PICK g \in [SUBSET S -> Int] : UpTo(Cardinality(S), g)
  BY <1>1, <1>2
<1>4. g = [s \in SUBSET S |-> Fold(f, g, s)]
  BY <1>0, <1>3
<1>5. QED
  BY <1>4 DEF Iterates

\* Two iterations agree wherever both are defined, on the same numbers.
LEMMA IterationUnique ==
    ASSUME NEW f, NEW e, NEW S, NEW T, Summable(f, S),
           NEW g, NEW h, Iterates(f, S, g), Iterates(e, T, h),
           NEW t \in SUBSET (S \cap T), Agree(f, e, t)
    PROVE  g[t] = h[t]
<1> DEFINE Bad == {k \in Nat : \E s \in SUBSET t : Cardinality(s) = k /\ g[s] # h[s]}
<1>0. \A s \in SUBSET t : IsFiniteSet(s) /\ Cardinality(s) \in Nat
  BY SubsetSummable
<1>1. \A s \in SUBSET t : g[s] = Fold(f, g, s) /\ h[s] = Fold(e, h, s)
  <2>1. \A s \in SUBSET t : s \in SUBSET S /\ s \in SUBSET T
    OBVIOUS
  <2>2. QED
    BY <2>1 DEF Iterates
<1>2. Bad = {}
  <2> SUFFICES ASSUME Bad # {} PROVE FALSE
    OBVIOUS
  <2>1. Bad \in SUBSET Nat
    OBVIOUS
  <2>2. PICK m \in Bad : \A k \in Bad : m <= k
    <3> HIDE DEF Bad
    <3>1. QED
      BY <2>1, SmallestSize
  <2>3. PICK s \in SUBSET t : Cardinality(s) = m /\ g[s] # h[s]
    OBVIOUS
  <2>4. s # {}
    BY <1>1, <2>3 DEF Fold
  <2> DEFINE r == s \ {First(s)}
  <2>5. /\ First(s) \in s /\ r \in SUBSET t /\ Cardinality(r) = m - 1
        /\ m \in Nat /\ m > 0
    BY <1>0, <2>3, <2>4, FirstOut
  <2>6. g[r] = h[r]
    <3>1. m - 1 \in Nat /\ m - 1 \notin Bad
      BY <2>2, <2>5
    <3>2. QED
      BY <2>5, <3>1
  <2>7. g[s] = f[First(s)] + g[r] /\ h[s] = e[First(s)] + h[r]
    BY <1>1, <2>4 DEF Fold
  <2>8. QED
    BY <2>3, <2>5, <2>6, <2>7 DEF Agree
<1>3. t \in SUBSET t /\ Cardinality(t) \in Nat
  BY <1>0
<1>4. QED
  BY <1>2, <1>3

\* The iteration the sum chooses.
LEMMA ChosenIteration ==
    ASSUME NEW f, NEW S, Summable(f, S)
    PROVE  \E g \in [SUBSET S -> Int] : Iterates(f, S, g) /\ SumFunctionOnSet(f, S) = g[S]
<1> DEFINE c == CHOOSE g : Iterates(f, S, g)
<1>1. PICK g \in [SUBSET S -> Int] : Iterates(f, S, g)
  BY IterationExists
<1>2. Iterates(f, S, c)
  BY <1>1
<1>3. SumFunctionOnSet(f, S) = c[S]
  BY SumIsIteration
<1> HIDE DEF c
<1>4. S \in SUBSET (S \cap S)
  OBVIOUS
<1>5. Agree(f, f, S)
  BY DEF Agree
<1>6. g[S] = c[S]
  BY <1>1, <1>2, <1>4, <1>5, IterationUnique
<1>7. QED
  BY <1>1, <1>3, <1>6

-----------------------------------------------------------------------------
(***************************************************************************)
(* What the proofs use                                                     *)
(***************************************************************************)

\* A sum of integers is an integer.
LEMMA SumIsInt ==
    ASSUME NEW f, NEW S, Summable(f, S)
    PROVE  SumFunctionOnSet(f, S) \in Int
<1>1. PICK g \in [SUBSET S -> Int] : SumFunctionOnSet(f, S) = g[S]
  BY ChosenIteration
<1>2. S \in SUBSET S
  OBVIOUS
<1>3. QED
  BY <1>1, <1>2

\* Functions that agree on a set have the same sum over it.
LEMMA SumDependsOnValues ==
    ASSUME NEW f, NEW e, NEW S, Summable(f, S), Summable(e, S), Agree(f, e, S)
    PROVE  SumFunctionOnSet(f, S) = SumFunctionOnSet(e, S)
<1>1. PICK g : Iterates(f, S, g) /\ SumFunctionOnSet(f, S) = g[S]
  BY ChosenIteration
<1>2. PICK h : Iterates(e, S, h) /\ SumFunctionOnSet(e, S) = h[S]
  BY ChosenIteration
<1>3. S \in SUBSET (S \cap S)
  OBVIOUS
<1>4. Iterates(f, S, g) /\ Iterates(e, S, h)
  BY <1>1, <1>2
<1>5. g[S] = h[S]
  BY <1>3, <1>4, IterationUnique
<1>6. QED
  BY <1>1, <1>2, <1>5

\* The empty sum.
LEMMA SumEmpty == ASSUME NEW f PROVE SumFunctionOnSet(f, {}) = 0
<1>1. Summable(f, {})
  BY FS_EmptySet DEF Summable
<1>2. PICK g : Iterates(f, {}, g) /\ SumFunctionOnSet(f, {}) = g[{}]
  BY <1>1, ChosenIteration
<1>3. g[{}] = Fold(f, g, {})
  BY <1>2 DEF Iterates
<1>4. QED
  BY <1>2, <1>3 DEF Fold

\* The first element can be taken out of a sum.
LEMMA SumFirst ==
    ASSUME NEW f, NEW S, Summable(f, S), S # {}
    PROVE  SumFunctionOnSet(f, S) = f[First(S)] + SumFunctionOnSet(f, S \ {First(S)})
<1> DEFINE r == S \ {First(S)}
<1>1. PICK g : Iterates(f, S, g) /\ SumFunctionOnSet(f, S) = g[S]
  BY ChosenIteration
<1>2. r \in SUBSET S /\ Summable(f, r)
  BY SubsetSummable
<1>3. PICK h : Iterates(f, r, h) /\ SumFunctionOnSet(f, r) = h[r]
  BY <1>2, ChosenIteration
<1>4. r \in SUBSET (S \cap r)
  OBVIOUS
<1>5. g[r] = h[r]
  <2>1. Agree(f, f, r)
    BY DEF Agree
  <2> HIDE DEF r
  <2>2. QED
    BY <1>1, <1>3, <1>4, <2>1, IterationUnique
<1>6. g[S] = f[First(S)] + g[r]
  BY <1>1 DEF Iterates, Fold
<1>7. QED
  BY <1>1, <1>3, <1>5, <1>6

\* So can any other: the order does not matter.
LEMMA SumTakeOut ==
    ASSUME NEW f, NEW S, Summable(f, S), NEW x \in S
    PROVE  SumFunctionOnSet(f, S) = f[x] + SumFunctionOnSet(f, S \ {x})
<1> DEFINE Breaks(s) == \E y \in s :
               SumFunctionOnSet(f, s) # f[y] + SumFunctionOnSet(f, s \ {y})
           Bad == {k \in Nat : \E s \in SUBSET S : Cardinality(s) = k /\ Breaks(s)}
<1>0. \A s \in SUBSET S : Summable(f, s) /\ IsFiniteSet(s) /\ Cardinality(s) \in Nat
  BY SubsetSummable
<1>1. Bad = {}
  <2> SUFFICES ASSUME Bad # {} PROVE FALSE
    OBVIOUS
  <2>1. Bad \in SUBSET Nat
    OBVIOUS
  <2>2. PICK m \in Bad : \A k \in Bad : m <= k
    <3> HIDE DEF Bad
    <3>1. QED
      BY <2>1, SmallestSize
  <2>3. PICK s \in SUBSET S : Cardinality(s) = m /\ Breaks(s)
    OBVIOUS
  <2>4. PICK y \in s : SumFunctionOnSet(f, s) # f[y] + SumFunctionOnSet(f, s \ {y})
    BY <2>3
  <2> DEFINE c == First(s)
  <2>5. /\ c \in s /\ m \in Nat /\ m > 0
        /\ Cardinality(s \ {c}) = m - 1 /\ Cardinality(s \ {y}) = m - 1
    BY <1>0, <2>3, <2>4, FirstOut, FS_RemoveElement
  <2>6. SumFunctionOnSet(f, s) = f[c] + SumFunctionOnSet(f, s \ {c})
    BY <1>0, <2>4, SumFirst
  <2> HIDE DEF c
  <2>7. y # c
    BY <2>4, <2>6
  <2>8. m - 1 \in Nat /\ m - 1 \notin Bad
    BY <2>2, <2>5
  <2>9. /\ s \ {c} \in SUBSET S /\ s \ {y} \in SUBSET S
        /\ y \in s \ {c} /\ c \in s \ {y}
    BY <2>4, <2>5, <2>7
  <2>10. ~Breaks(s \ {c}) /\ ~Breaks(s \ {y})
    BY <2>5, <2>8, <2>9
  <2>11. SumFunctionOnSet(f, s \ {c}) = f[y] + SumFunctionOnSet(f, (s \ {c}) \ {y})
    BY <2>9, <2>10
  <2>12. SumFunctionOnSet(f, s \ {y}) = f[c] + SumFunctionOnSet(f, (s \ {y}) \ {c})
    BY <2>9, <2>10
  <2>13. (s \ {c}) \ {y} = (s \ {y}) \ {c}
    OBVIOUS
  <2>14. /\ f[c] \in Int /\ f[y] \in Int
         /\ SumFunctionOnSet(f, (s \ {y}) \ {c}) \in Int
    <3>1. (s \ {y}) \ {c} \in SUBSET S
      OBVIOUS
    <3>2. SumFunctionOnSet(f, (s \ {y}) \ {c}) \in Int
      BY <1>0, <3>1, SumIsInt
    <3>3. c \in S /\ y \in S
      BY <2>4, <2>5
    <3>4. QED
      BY <3>2, <3>3 DEF Summable
  <2>15. SumFunctionOnSet(f, s) = f[c] + (f[y] + SumFunctionOnSet(f, (s \ {y}) \ {c}))
    BY <2>6, <2>11, <2>13
  <2>16. f[y] + SumFunctionOnSet(f, s \ {y})
           = f[y] + (f[c] + SumFunctionOnSet(f, (s \ {y}) \ {c}))
    BY <2>12
  <2> HIDE DEF Bad, Breaks
  <2>17. QED
    BY <2>4, <2>14, <2>15, <2>16
<1>2. S \in SUBSET S /\ Cardinality(S) \in Nat
  BY <1>0
<1>3. ~Breaks(S)
  BY <1>1, <1>2
<1>4. QED
  BY <1>3

\* A set of summands can be taken out, too.
LEMMA SumSplit ==
    ASSUME NEW f, NEW S, Summable(f, S), NEW T \in SUBSET S
    PROVE  SumFunctionOnSet(f, S) = SumFunctionOnSet(f, T) + SumFunctionOnSet(f, S \ T)
<1> DEFINE Total(s) == SumFunctionOnSet(f, s)
           Bad == {k \in Nat : \E t \in SUBSET S :
                       Cardinality(t) = k /\ Total(S) # Total(t) + Total(S \ t)}
<1>0. \A s \in SUBSET S : /\ Summable(f, s) /\ IsFiniteSet(s) /\ Cardinality(s) \in Nat
                          /\ Total(s) \in Int
  BY SubsetSummable, SumIsInt
<1>1. Bad = {}
  <2> SUFFICES ASSUME Bad # {} PROVE FALSE
    OBVIOUS
  <2>1. Bad \in SUBSET Nat
    OBVIOUS
  <2>2. PICK m \in Bad : \A k \in Bad : m <= k
    <3> HIDE DEF Bad
    <3>1. QED
      BY <2>1, SmallestSize
  <2>3. PICK t \in SUBSET S : Cardinality(t) = m /\ Total(S) # Total(t) + Total(S \ t)
    OBVIOUS
  <2>4. t # {}
    <3>1. SUFFICES ASSUME t = {} PROVE FALSE
      OBVIOUS
    <3>2. S \ t = S /\ Total(t) = 0 /\ S \in SUBSET S
      BY <3>1, SumEmpty
    <3> HIDE DEF Total, Bad
    <3>3. QED
      BY <1>0, <2>3, <3>2
  <2> DEFINE x == First(t)
             r == t \ {x}
             o == S \ r
  <2>5. /\ x \in t /\ m \in Nat /\ m > 0 /\ Cardinality(r) = m - 1
    BY <1>0, <2>3, <2>4, FirstOut
  <2>6. r \in SUBSET S /\ o \in SUBSET S /\ x \in o /\ o \ {x} = S \ t
    BY <2>5
  <2>7. m - 1 \in Nat /\ m - 1 \notin Bad
    <3> HIDE DEF Bad, r, Total
    <3>1. QED
      BY <2>2, <2>5
  <2>8. Total(S) = Total(r) + Total(o)
    BY <2>5, <2>6, <2>7
  <2>9. Total(t) = f[x] + Total(r)
    BY <1>0, <2>5, SumTakeOut
  <2>10. Total(o) = f[x] + Total(S \ t)
    <3> HIDE DEF x, r, o
    <3>1. Total(o) = f[x] + Total(o \ {x})
      BY <1>0, <2>6, SumTakeOut
    <3>2. QED
      BY <2>6, <3>1
  <2>11. f[x] \in Int /\ Total(r) \in Int /\ Total(S \ t) \in Int
    <3>1. S \ t \in SUBSET S /\ x \in S
      BY <2>5
    <3> HIDE DEF x, r, Total
    <3>2. QED
      BY <1>0, <2>6, <3>1 DEF Summable
  <2> HIDE DEF x, r, o, Total, Bad
  <2>12. QED
    BY <2>3, <2>8, <2>9, <2>10, <2>11
<1>2. Cardinality(T) \in Nat
  BY <1>0
<1>3. QED
  BY <1>1, <1>2

\* A sum of natural numbers is one.
LEMMA SumIsNat ==
    ASSUME NEW f, NEW S, IsFiniteSet(S), \A x \in S : f[x] \in Nat
    PROVE  SumFunctionOnSet(f, S) \in Nat
<1> DEFINE Total(s) == SumFunctionOnSet(f, s)
           Bad == {k \in Nat : \E s \in SUBSET S : Cardinality(s) = k /\ Total(s) \notin Nat}
<1>0. \A s \in SUBSET S : Summable(f, s) /\ IsFiniteSet(s) /\ Cardinality(s) \in Nat
  <2>1. Summable(f, S)
    BY DEF Summable
  <2>2. QED
    BY <2>1, SubsetSummable
<1>1. Bad = {}
  <2> SUFFICES ASSUME Bad # {} PROVE FALSE
    OBVIOUS
  <2>1. Bad \in SUBSET Nat
    OBVIOUS
  <2>2. PICK m \in Bad : \A k \in Bad : m <= k
    <3> HIDE DEF Bad
    <3>1. QED
      BY <2>1, SmallestSize
  <2>3. PICK s \in SUBSET S : Cardinality(s) = m /\ Total(s) \notin Nat
    OBVIOUS
  <2>4. s # {}
    BY <2>3, SumEmpty
  <2> DEFINE x == First(s)
             r == s \ {x}
  <2>5. x \in s /\ m \in Nat /\ m > 0 /\ Cardinality(r) = m - 1
    BY <1>0, <2>3, <2>4, FirstOut
  <2>6. m - 1 \in Nat /\ m - 1 \notin Bad
    <3> HIDE DEF Bad, r, Total
    <3>1. QED
      BY <2>2, <2>5
  <2>7. r \in SUBSET S
    OBVIOUS
  <2>8. Total(r) \in Nat
    BY <2>5, <2>6, <2>7
  <2>9. Total(s) = f[x] + Total(r)
    BY <1>0, <2>4, SumFirst
  <2>10. f[x] \in Nat
    BY <2>5
  <2> HIDE DEF x, r, Total, Bad
  <2>11. QED
    BY <2>3, <2>8, <2>9, <2>10
<1>2. S \in SUBSET S /\ Cardinality(S) \in Nat
  BY <1>0
<1>3. QED
  BY <1>1, <1>2

\* A sum of zeros is zero.
LEMMA SumOfZeros ==
    ASSUME NEW f, NEW S, IsFiniteSet(S), \A x \in S : f[x] = 0
    PROVE  SumFunctionOnSet(f, S) = 0
<1> DEFINE Total(s) == SumFunctionOnSet(f, s)
           Bad == {k \in Nat : \E s \in SUBSET S : Cardinality(s) = k /\ Total(s) # 0}
<1>0. \A s \in SUBSET S : Summable(f, s) /\ IsFiniteSet(s) /\ Cardinality(s) \in Nat
  <2>1. Summable(f, S)
    BY DEF Summable
  <2>2. QED
    BY <2>1, SubsetSummable
<1>1. Bad = {}
  <2> SUFFICES ASSUME Bad # {} PROVE FALSE
    OBVIOUS
  <2>1. Bad \in SUBSET Nat
    OBVIOUS
  <2>2. PICK m \in Bad : \A k \in Bad : m <= k
    <3> HIDE DEF Bad
    <3>1. QED
      BY <2>1, SmallestSize
  <2>3. PICK s \in SUBSET S : Cardinality(s) = m /\ Total(s) # 0
    OBVIOUS
  <2>4. s # {}
    BY <2>3, SumEmpty
  <2> DEFINE x == First(s)
             r == s \ {x}
  <2>5. x \in s /\ m \in Nat /\ m > 0 /\ Cardinality(r) = m - 1
    BY <1>0, <2>3, <2>4, FirstOut
  <2>6. m - 1 \in Nat /\ m - 1 \notin Bad
    <3> HIDE DEF Bad, r, Total
    <3>1. QED
      BY <2>2, <2>5
  <2>7. r \in SUBSET S
    OBVIOUS
  <2>8. Total(r) = 0
    BY <2>5, <2>6, <2>7
  <2>9. Total(s) = f[x] + Total(r)
    BY <1>0, <2>4, SumFirst
  <2>10. f[x] = 0
    BY <2>5
  <2> HIDE DEF x, r, Total, Bad
  <2>11. QED
    BY <2>3, <2>8, <2>9, <2>10
<1>2. S \in SUBSET S /\ Cardinality(S) \in Nat
  BY <1>0
<1>3. QED
  BY <1>1, <1>2

\* A sum changes by as much as the one summand that does.
LEMMA SumOneChanges ==
    ASSUME NEW f, NEW e, NEW S, Summable(f, S), Summable(e, S), NEW x \in S,
           \A y \in S \ {x} : f[y] = e[y]
    PROVE  SumFunctionOnSet(e, S) = SumFunctionOnSet(f, S) + (e[x] - f[x])
<1> DEFINE r == S \ {x}
<1>1. Summable(f, r) /\ Summable(e, r)
  BY SubsetSummable
<1>2. Agree(f, e, r)
  BY DEF Agree
<1>3. SumFunctionOnSet(f, r) = SumFunctionOnSet(e, r) /\ SumFunctionOnSet(f, r) \in Int
  <2> HIDE DEF r
  <2>1. QED
    BY <1>1, <1>2, SumDependsOnValues, SumIsInt
<1>4. /\ SumFunctionOnSet(f, S) = f[x] + SumFunctionOnSet(f, r)
      /\ SumFunctionOnSet(e, S) = e[x] + SumFunctionOnSet(e, r)
  BY SumTakeOut
<1>5. f[x] \in Int /\ e[x] \in Int
  BY DEF Summable
<1>6. QED
  BY <1>3, <1>4, <1>5

=============================================================================
