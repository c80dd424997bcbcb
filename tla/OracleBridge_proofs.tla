------------------------ MODULE OracleBridge_proofs ------------------------
(***************************************************************************)
(* Proofs about OracleBridge, for any results, batches and feeds and for   *)
(* every way of starting the process.                                      *)
(***************************************************************************)
EXTENDS OracleBridge, FiniteSums

-----------------------------------------------------------------------------
(***************************************************************************)
(* Order statistics and outlier rules of PriceAggregation, for any number  *)
(* of sources and any values (between two integers lo and hi).             *)
(***************************************************************************)

\* A set of integers that is bounded below has a smallest element.
LEMMA Smallest ==
    ASSUME NEW lo \in Int, NEW T, T # {}, \A x \in T : x \in Int /\ x >= lo
    PROVE  \E x \in T : \A y \in T : x <= y
<1> DEFINE U == {n \in Nat : lo + n \in T}
           R == OpToRel(<, Nat)
<1>1. U # {}
  <2>1. PICK x \in T : TRUE OBVIOUS
  <2>2. x - lo \in Nat /\ lo + (x - lo) = x BY <2>1
  <2>3. x - lo \in U BY <2>1, <2>2
  <2>4. QED BY <2>3
<1>2. PICK n \in U : \A k \in U : ~(<<k, n>> \in R)
  <2>1. IsWellFoundedOn(R, Nat) BY NatLessThanWellFounded
  <2>2. U \subseteq Nat OBVIOUS
  <2> HIDE DEF U, R
  <2>3. QED BY <1>1, <2>1, <2>2, WFMin
<1>3. \A k \in U : ~(k < n) BY <1>2 DEF OpToRel
<1>4. ASSUME NEW y \in T PROVE lo + n <= y
  <2>1. y - lo \in Nat /\ lo + (y - lo) = y OBVIOUS
  <2>2. y - lo \in U BY <2>1
  <2>3. ~(y - lo < n) BY <1>3, <2>2
  <2>4. QED BY <2>1, <2>3
<1>5. QED BY <1>4

\* A set of integers that is bounded above has a largest element.
LEMMA Largest ==
    ASSUME NEW hi \in Int, NEW T, T # {}, \A x \in T : x \in Int /\ x <= hi
    PROVE  \E x \in T : \A y \in T : y <= x
<1> DEFINE U == {-x : x \in T}
<1>1. U # {} /\ \A x \in U : x \in Int /\ x >= -hi OBVIOUS
<1>2. PICK u \in U : \A y \in U : u <= y
  <2> HIDE DEF U
  <2>1. QED BY <1>1, Smallest
<1>3. PICK x \in T : u = -x BY <1>2
<1>4. ASSUME NEW y \in T PROVE y <= x
  <2>1. -x <= -y BY <1>2, <1>3
  <2>2. QED BY <2>1
<1>5. QED BY <1>4

-----------------------------------------------------------------------------
(***************************************************************************)
(* Rounding                                                                *)
(***************************************************************************)

LEMMA DistanceFacts ==
    ASSUME NEW m \in Int, NEW n \in Int
    PROVE  /\ Distance(m, n) \in Nat /\ (Distance(m, n) = 0 <=> m = n)
           /\ Distance(m, n) = Distance(n, m)
           /\ (m <= n => Distance(m, n) = n - m) /\ (n <= m => Distance(m, n) = m - n)
  BY DEF Distance

LEMMA FloatsAreInts == Floats \subseteq Int
<1>1. SUFFICES ASSUME NEW q \in -MaxExact .. MaxExact, NEW u \in Scale PROVE q * u \in Int
  BY DEF Floats
<1>2. q \in Int /\ u \in Int BY FloatAssumption
<1>3. QED BY <1>2

\* Small integers are floats, and so are they in units of a multiplier's.
LEMMA SmallAreFloats ==
    ASSUME NEW n \in -MaxExact .. MaxExact
    PROVE  n \in Floats /\ MultUnit * n \in Floats
<1>1. n \in Int /\ MultUnit \in Int BY FloatAssumption
<1>2. n * 1 \in Floats /\ n * MultUnit \in Floats BY FloatAssumption DEF Floats
<1>3. QED BY <1>1, <1>2

\* There is a nearest float, and at most two of them, one on each side.
LEMMA NearestIs ==
    ASSUME NEW n \in Int
    PROVE  /\ Nearest(n) # {} /\ Nearest(n) \subseteq Floats
           /\ \A f \in Nearest(n), g \in Floats : Distance(n, f) <= Distance(n, g)
           /\ \E d \in Int : Nearest(n) \subseteq {n - d, n + d}
<1> DEFINE T == {Distance(n, f) : f \in Floats}
           gap == Min(T)
<1>1. T # {} /\ \A d \in T : d \in Int /\ d >= 0
  <2>1. 0 \in -MaxExact .. MaxExact BY FloatAssumption
  <2>2. 0 \in Floats BY <2>1, SmallAreFloats
  <2>3. QED BY <2>2, FloatsAreInts, DistanceFacts
<1>2. gap \in T /\ \A d \in T : gap <= d
  <2> HIDE DEF T
  <2>1. \E x \in T : \A y \in T : x <= y BY <1>1, Smallest
  <2>2. QED BY <2>1 DEF Min
<1>3. Nearest(n) = {f \in Floats : Distance(n, f) = gap} BY DEF Nearest
<1> HIDE DEF gap
<1>4. gap \in Int BY <1>1, <1>2
<1>5. ASSUME NEW f \in Nearest(n) PROVE f = n - gap \/ f = n + gap
  <2>1. f \in Int /\ Distance(n, f) = gap BY <1>3, FloatsAreInts
  <2>2. CASE n >= f BY <1>4, <2>1, <2>2 DEF Distance
  <2>3. CASE ~(n >= f) BY <1>4, <2>1, <2>3 DEF Distance
  <2>4. QED BY <2>2, <2>3
<1>6. \A f \in Nearest(n), g \in Floats : Distance(n, f) <= Distance(n, g) BY <1>2, <1>3
<1>7. Nearest(n) # {} /\ Nearest(n) \subseteq Floats BY <1>2, <1>3
<1>8. Nearest(n) \subseteq {n - gap, n + gap} BY <1>5
<1>9. QED BY <1>4, <1>6, <1>7, <1>8

\* Round's CHOOSE has what it looks for.
LEMMA RoundIs == ASSUME NEW n \in Int PROVE Round(n) \in Nearest(n)
<1> DEFINE Even(f, g) == f % (2 * Distance(f, g)) = 0
           Good(f) == \A g \in Nearest(n) \ {f} : Even(f, g) \/ ~Even(g, f)
<1>1. \A f, g \in Nearest(n) : Distance(f, g) = Distance(g, f)
  BY NearestIs, FloatsAreInts, DistanceFacts
<1>2. PICK f \in Nearest(n) : TRUE BY NearestIs
<1>3. \A g, h \in Nearest(n) \ {f} : g = h BY <1>2, NearestIs
<1> HIDE DEF Even
<1>4. \E h \in Nearest(n) : Good(h)
  <2>1. CASE Nearest(n) \ {f} = {} BY <1>2, <2>1
  <2>2. CASE Nearest(n) \ {f} # {}
    <3>1. PICK g \in Nearest(n) \ {f} : TRUE BY <2>2
    <3>2. /\ \A h \in Nearest(n) \ {f} : h = g
          /\ \A h \in Nearest(n) \ {g} : h = f
      BY <1>2, <1>3, <3>1
    <3>3. CASE Even(f, g) BY <1>2, <3>2, <3>3
    <3>4. CASE ~Even(f, g) BY <1>2, <3>1, <3>2, <3>4
    <3>5. QED BY <3>3, <3>4
  <2>3. QED BY <2>1, <2>2
<1>5. \E h \in Nearest(n) : \A g \in Nearest(n) \ {h} :
        h % (2 * Distance(h, g)) = 0 \/ g % (2 * Distance(h, g)) # 0
  BY <1>1, <1>4 DEF Even
<1>6. QED BY <1>5 DEF Round

LEMMA RoundIsInt == ASSUME NEW n \in Int PROVE Round(n) \in Int
  BY RoundIs, NearestIs, FloatsAreInts

\* A float is not rounded.
LEMMA RoundExact == ASSUME NEW f \in Floats PROVE Round(f) = f
<1>1. f \in Int BY FloatsAreInts
<1>2. Round(f) \in Int /\ Distance(f, Round(f)) <= Distance(f, f)
  BY <1>1, RoundIs, NearestIs, RoundIsInt
<1>3. QED BY <1>1, <1>2 DEF Distance

LEMMA RoundSmall ==
    ASSUME NEW n \in -MaxExact .. MaxExact
    PROVE  n \in Int /\ Round(n) = n /\ Round(MultUnit * n) = MultUnit * n
  BY SmallAreFloats, RoundExact

\* Rounding is monotone.
LEMMA RoundMonotone ==
    ASSUME NEW m \in Int, NEW n \in Int, m <= n
    PROVE  Round(m) <= Round(n)
<1> DEFINE f == Round(m)
           g == Round(n)
<1>1. /\ f \in Int /\ g \in Int
      /\ Distance(m, f) <= Distance(m, g) /\ Distance(n, g) <= Distance(n, f)
  BY RoundIs, NearestIs, RoundIsInt
<1>2. m = n => f = g OBVIOUS
<1> HIDE DEF f, g
<1>3. f <= g BY <1>1, <1>2 DEF Distance
<1>4. QED BY <1>3 DEF f, g

-----------------------------------------------------------------------------
(***************************************************************************)
(* Nth, the k-th smallest value                                            *)
(***************************************************************************)

\* The values of a finite set of sources.
Sample(v, S, lo, hi) ==
    /\ IsFiniteSet(S) /\ lo \in Int /\ hi \in Int
    /\ v \in [S -> lo .. hi]

AtMost(v, x) == {s \in DOMAIN v : v[s] <= x}
Below(v, x) == {s \in DOMAIN v : v[s] < x}

\* Counting sources is monotone.
LEMMA Counting ==
    ASSUME NEW S, IsFiniteSet(S), NEW A \in SUBSET S, NEW B \in SUBSET A
    PROVE  /\ Cardinality(S) \in Nat /\ Cardinality(A) \in Nat /\ Cardinality(B) \in Nat
           /\ Cardinality(B) <= Cardinality(A) /\ Cardinality(A) <= Cardinality(S)
           /\ B # A => Cardinality(B) < Cardinality(A)
           /\ B # {} => Cardinality(B) >= 1
<1>1. IsFiniteSet(A) /\ Cardinality(A) <= Cardinality(S) BY FS_Subset
<1>2. /\ IsFiniteSet(B) /\ Cardinality(B) <= Cardinality(A)
      /\ Cardinality(A) = Cardinality(B) => A = B
  BY <1>1, FS_Subset
<1>3. Cardinality(S) \in Nat /\ Cardinality(A) \in Nat /\ Cardinality(B) \in Nat
  BY <1>1, <1>2, FS_CardinalityType
<1>4. B # {} => Cardinality(B) # 0 BY <1>2, FS_EmptySet
<1>5. QED BY <1>1, <1>2, <1>3, <1>4

\* There is a k-th smallest value, so Nth's CHOOSE has what it looks for.
LEMMA NthIs ==
    ASSUME NEW S, NEW lo, NEW hi, NEW v, Sample(v, S, lo, hi),
           NEW k \in 1 .. Cardinality(S)
    PROVE  /\ Nth(v, k) \in lo .. hi
           /\ \E s \in S : v[s] = Nth(v, k)
           /\ Cardinality(AtMost(v, Nth(v, k))) >= k
           /\ Cardinality(Below(v, Nth(v, k))) < k
<1> DEFINE T == {x \in Values(v) : Cardinality(AtMost(v, x)) >= k}
<1>0. /\ IsFiniteSet(S) /\ DOMAIN v = S /\ \A s \in S : v[s] \in lo .. hi
      /\ lo \in Int /\ hi \in Int
      /\ Cardinality(S) \in Nat /\ k \in Nat /\ 1 <= k /\ k <= Cardinality(S)
  BY FS_CardinalityType DEF Sample
<1>1. /\ Values(v) # {} /\ \A x \in Values(v) : x \in Int /\ lo <= x /\ x <= hi
      /\ Values(v) = {v[s] : s \in S}
  <2>1. S # {} BY <1>0, FS_EmptySet
  <2>2. QED BY <1>0, <2>1 DEF Values
<1>2. T # {}
  <2>1. PICK x \in Values(v) : \A y \in Values(v) : y <= x BY <1>0, <1>1, Largest
  <2>2. AtMost(v, x) = S BY <1>0, <1>1, <2>1 DEF AtMost
  <2>3. QED BY <1>0, <2>1, <2>2
<1>3. PICK x \in T : \A y \in T : x <= y
  <2>1. \A y \in T : y \in Int /\ y >= lo BY <1>0, <1>1
  <2> HIDE DEF T
  <2>2. QED BY <1>0, <1>2, <2>1, Smallest
<1>4. Cardinality(Below(v, x)) < k
  <2>1. SUFFICES ASSUME ~(Cardinality(Below(v, x)) < k) PROVE FALSE OBVIOUS
  <2>2. Below(v, x) \in SUBSET S BY <1>0 DEF Below
  <2>3. Cardinality(Below(v, x)) \in Nat BY <1>0, <2>2, Counting
  <2>4. Cardinality(Below(v, x)) >= k BY <1>0, <2>1, <2>3
  <2>5. Below(v, x) # {} BY <1>0, <2>4, FS_EmptySet
  <2> DEFINE B == {y \in Values(v) : y < x}
  <2>6. B # {} BY <1>0, <1>1, <2>5 DEF Below
  <2>7. \A y \in B : y \in Int /\ y <= hi BY <1>1
  <2>8. PICK y \in B : \A z \in B : z <= y
    <3> HIDE DEF B
    <3>1. QED BY <1>0, <2>6, <2>7, Largest
  <2>9. AtMost(v, y) = Below(v, x)
    BY <1>0, <1>1, <1>3, <2>7, <2>8 DEF AtMost, Below
  <2>10. y \in T BY <2>4, <2>8, <2>9
  <2>11. x \in Int /\ y \in Int /\ y < x BY <1>1, <1>3, <2>8
  <2> HIDE DEF T
  <2>12. x <= y BY <1>3, <2>10
  <2>13. QED BY <2>11, <2>12
<1>5. \E z \in Values(v) :
        /\ Cardinality({s \in DOMAIN v : v[s] <= z}) >= k
        /\ Cardinality({s \in DOMAIN v : v[s] < z}) < k
  BY <1>3, <1>4 DEF AtMost, Below
<1>6. /\ Nth(v, k) \in Values(v)
      /\ Cardinality(AtMost(v, Nth(v, k))) >= k
      /\ Cardinality(Below(v, Nth(v, k))) < k
  BY <1>5 DEF Nth, AtMost, Below
<1>7. QED BY <1>0, <1>1, <1>6

\* The order statistics are in ascending order, from the smallest value to the
\* largest one.
LEMMA NthAscends ==
    ASSUME NEW S, NEW lo, NEW hi, NEW v, Sample(v, S, lo, hi),
           NEW k \in 1 .. Cardinality(S), NEW l \in 1 .. Cardinality(S), k <= l
    PROVE  Nth(v, k) <= Nth(v, l)
<1> DEFINE x == Nth(v, k)
           y == Nth(v, l)
<1>1. /\ x \in lo .. hi /\ y \in lo .. hi /\ lo \in Int /\ hi \in Int
      /\ Cardinality(Below(v, x)) < k /\ Cardinality(AtMost(v, y)) >= l
  BY NthIs DEF Sample
<1>2. IsFiniteSet(S) /\ DOMAIN v = S /\ (\A s \in S : v[s] \in Int) /\ Cardinality(S) \in Nat
  BY FS_CardinalityType DEF Sample
<1> HIDE DEF x, y
<1>3. SUFFICES ASSUME y < x PROVE FALSE BY <1>1 DEF x, y
<1>4. AtMost(v, y) \subseteq Below(v, x) /\ Below(v, x) \subseteq S
  BY <1>1, <1>2, <1>3 DEF AtMost, Below
<1>5. /\ Cardinality(AtMost(v, y)) <= Cardinality(Below(v, x))
      /\ Cardinality(AtMost(v, y)) \in Nat /\ Cardinality(Below(v, x)) \in Nat
  BY <1>2, <1>4, Counting
<1>6. QED BY <1>1, <1>2, <1>5

LEMMA NthExtremes ==
    ASSUME NEW S, NEW lo, NEW hi, NEW v, Sample(v, S, lo, hi), NEW s \in S
    PROVE  /\ Cardinality(S) \in Nat /\ Cardinality(S) >= 1
           /\ Nth(v, 1) <= v[s] /\ v[s] <= Nth(v, Cardinality(S))
<1> DEFINE n == Cardinality(S)
           x == Nth(v, 1)
           y == Nth(v, n)
<1>1. IsFiniteSet(S) /\ DOMAIN v = S /\ (\A t \in S : v[t] \in Int) /\ n \in Nat
  BY FS_CardinalityType DEF Sample
<1>2. n >= 1 BY <1>1, FS_EmptySet
<1>3. /\ x \in Int /\ y \in Int
      /\ Cardinality(Below(v, x)) < 1 /\ Cardinality(AtMost(v, y)) >= n
  <2>1. 1 \in 1 .. Cardinality(S) /\ n \in 1 .. Cardinality(S) BY <1>1, <1>2
  <2>2. x \in lo .. hi /\ Cardinality(Below(v, x)) < 1 BY <2>1, NthIs
  <2>3. y \in lo .. hi /\ Cardinality(AtMost(v, y)) >= n BY <2>1, NthIs
  <2>4. QED BY <2>2, <2>3 DEF Sample
<1> HIDE DEF n, x, y
<1>4. x <= v[s]
  <2>1. SUFFICES ASSUME v[s] < x PROVE FALSE BY <1>1, <1>3
  <2>2. Below(v, x) \subseteq S /\ Below(v, x) # {} BY <1>1, <2>1 DEF Below
  <2>3. Cardinality(Below(v, x)) >= 1 /\ Cardinality(Below(v, x)) \in Nat
    BY <1>1, <2>2, Counting
  <2>4. QED BY <1>3, <2>3
<1>5. v[s] <= y
  <2>1. SUFFICES ASSUME y < v[s] PROVE FALSE BY <1>1, <1>3
  <2>2. AtMost(v, y) \subseteq S /\ AtMost(v, y) # S BY <1>1, <1>3, <2>1 DEF AtMost
  <2>3. Cardinality(AtMost(v, y)) < n /\ Cardinality(AtMost(v, y)) \in Nat
    BY <1>1, <2>2, Counting DEF n
  <2>4. QED BY <1>1, <1>3, <2>3
<1>6. QED BY <1>1, <1>2, <1>4, <1>5 DEF n, x, y

\* A value that covers position k is the k-th smallest.
LEMMA NthAgrees ==
    ASSUME NEW S, NEW lo, NEW hi, NEW v, Sample(v, S, lo, hi),
           NEW k \in 1 .. Cardinality(S), NEW x \in Int,
           Cardinality(Below(v, x)) < k, k <= Cardinality(AtMost(v, x))
    PROVE  Nth(v, k) = x
<1> DEFINE y == Nth(v, k)
<1>1. /\ IsFiniteSet(S) /\ DOMAIN v = S /\ (\A s \in S : v[s] \in Int)
      /\ Cardinality(S) \in Nat /\ lo \in Int /\ hi \in Int
  BY FS_CardinalityType DEF Sample
<1>2. /\ y \in Int /\ Cardinality(Below(v, y)) < k /\ Cardinality(AtMost(v, y)) >= k
  BY <1>1, NthIs
<1> HIDE DEF y
<1>3. /\ AtMost(v, x) \subseteq S /\ AtMost(v, y) \subseteq S
      /\ Below(v, x) \subseteq S /\ Below(v, y) \subseteq S
  BY <1>1 DEF AtMost, Below
<1>4. ~(x < y)
  <2>1. SUFFICES ASSUME x < y PROVE FALSE OBVIOUS
  <2>2. AtMost(v, x) \subseteq Below(v, y) BY <1>1, <1>2, <2>1 DEF AtMost, Below
  <2>3. /\ Cardinality(AtMost(v, x)) <= Cardinality(Below(v, y))
        /\ Cardinality(AtMost(v, x)) \in Nat /\ Cardinality(Below(v, y)) \in Nat
    BY <1>1, <1>3, <2>2, Counting
  <2>4. QED BY <1>1, <1>2, <2>3
<1>5. ~(y < x)
  <2>1. SUFFICES ASSUME y < x PROVE FALSE OBVIOUS
  <2>2. AtMost(v, y) \subseteq Below(v, x) BY <1>1, <1>2, <2>1 DEF AtMost, Below
  <2>3. /\ Cardinality(AtMost(v, y)) <= Cardinality(Below(v, x))
        /\ Cardinality(AtMost(v, y)) \in Nat /\ Cardinality(Below(v, x)) \in Nat
    BY <1>1, <1>3, <2>2, Counting
  <2>4. QED BY <1>1, <1>2, <2>3
<1>6. QED BY <1>2, <1>4, <1>5 DEF y

-----------------------------------------------------------------------------
(***************************************************************************)
(* The interquartile rule                                                  *)
(***************************************************************************)

\* The values of a finite set of sources, all in the exact range.
SmallSample(v, S, b) ==
    /\ b \in Nat /\ 8 * b <= MaxExact
    /\ Sample(v, S, -b, b)

LEMMA SmallSampleFacts ==
    ASSUME NEW S, NEW b, NEW v, SmallSample(v, S, b)
    PROVE  /\ b \in Nat /\ 8 * b <= MaxExact /\ MaxExact \in Nat
           /\ IsFiniteSet(S) /\ DOMAIN v = S /\ Cardinality(S) \in Nat
           /\ \A s \in S : v[s] \in -b .. b
           /\ \A k \in 1 .. Cardinality(S) : Nth(v, k) \in -b .. b
  BY NthIs, FS_CardinalityType, FloatAssumption DEF SmallSample, Sample

LEMMA SmallSampleAscends ==
    ASSUME NEW S, NEW b, NEW v, SmallSample(v, S, b)
    PROVE  \A k, l \in 1 .. Cardinality(S) : k <= l => Nth(v, k) <= Nth(v, l)
  BY NthAscends DEF SmallSample

\* Nothing is rounded in a quartile of values in the exact range.
LEMMA QuartileExact ==
    ASSUME NEW S, NEW b, NEW v, SmallSample(v, S, b),
           NEW n, n = Cardinality(S), n >= 3,
           NEW q \in {1, 3}, NEW rank, rank = q * (n + 1),
           NEW l, l = rank \div 4, NEW c, c = rank % 4
    PROVE  /\ Quartile(v, q) \in -(4 * b) .. 4 * b
           /\ rank >= 4 * n => Quartile(v, q) = 4 * Nth(v, n)
           /\ rank < 4 * n => /\ l \in 1 .. n /\ l + 1 \in 1 .. n /\ c \in 0 .. 3
                              /\ Quartile(v, q) = 4 * Nth(v, l) + c * (Nth(v, l + 1) - Nth(v, l))
<1>1. /\ b \in Nat /\ 8 * b <= MaxExact /\ MaxExact \in Nat
      /\ DOMAIN v = S /\ n \in Nat /\ \A k \in 1 .. n : Nth(v, k) \in -b .. b
  BY SmallSampleFacts
<1>2. rank \in Nat /\ ~(rank < 4) BY <1>1
<1>3. CASE rank >= 4 * n
  <2>1. Quartile(v, q) = 4 * Round(Nth(v, n)) BY <1>1, <1>2, <1>3 DEF Quartile
  <2>2. Nth(v, n) \in -b .. b BY <1>1
  <2>3. Nth(v, n) \in -MaxExact .. MaxExact BY <1>1, <2>2
  <2>4. Round(Nth(v, n)) = Nth(v, n) BY <2>3, RoundSmall
  <2>5. QED BY <1>1, <1>2, <1>3, <2>1, <2>2, <2>4
<1>4. CASE ~(rank >= 4 * n)
  <2> DEFINE y == Nth(v, l)
             z == Nth(v, l + 1)
  <2>1. l \in 1 .. n /\ l + 1 \in 1 .. n /\ c \in 0 .. 3 BY <1>1, <1>2, <1>4
  <2>2. Quartile(v, q) = Round(4 * Round(y) + Round(c * Round(z - y)))
    BY <1>1, <1>2, <1>4 DEF Quartile
  <2>3. y \in -b .. b /\ z \in -b .. b BY <1>1, <2>1
  <2> HIDE DEF y, z
  <2>4. /\ y \in -MaxExact .. MaxExact /\ z - y \in -MaxExact .. MaxExact
        /\ c * (z - y) \in -MaxExact .. MaxExact
        /\ 4 * y + c * (z - y) \in -(4 * b) .. 4 * b
    <3>1. c = 0 \/ c = 1 \/ c = 2 \/ c = 3 BY <2>1
    <3>2. /\ y \in Int /\ z \in Int /\ -b <= y /\ y <= b /\ -b <= z /\ z <= b
      BY <1>1, <2>3
    <3> DEFINE e == c * (z - y)
    <3>3. e = 0 \/ e = z - y \/ e = 2 * z - 2 * y \/ e = 3 * z - 3 * y BY <3>1, <3>2
    <3> HIDE DEF e
    <3>4. /\ y \in -MaxExact .. MaxExact /\ z - y \in -MaxExact .. MaxExact
          /\ e \in -MaxExact .. MaxExact /\ 4 * y + e \in -(4 * b) .. 4 * b
      BY <1>1, <3>2, <3>3
    <3>5. QED BY <3>4 DEF e
  <2>5. 4 * y + c * (z - y) \in -MaxExact .. MaxExact BY <1>1, <2>4
  <2>6. /\ Round(y) = y /\ Round(z - y) = z - y /\ Round(c * (z - y)) = c * (z - y)
        /\ Round(4 * y + c * (z - y)) = 4 * y + c * (z - y)
    BY <2>4, <2>5, RoundSmall
  <2>7. Quartile(v, q) = 4 * y + c * (z - y) BY <2>2, <2>6
  <2>8. QED BY <1>2, <1>4, <2>1, <2>4, <2>7 DEF y, z
<1>5. QED BY <1>3, <1>4

LEMMA TimesMonotone ==
    ASSUME NEW u \in Nat, NEW m \in Int, NEW n \in Int, m <= n
    PROVE  u * m <= u * n
<1>1. u * (n - m) \in Nat OBVIOUS
<1>2. u * n = u * m + u * (n - m) /\ u * m \in Int OBVIOUS
<1>3. QED BY <1>1, <1>2

\* A value between the quartiles, or beyond them by no more than the
\* interquartile range where the multiplier is at least one, is not rejected,
\* although the bounds are rounded.
LEMMA WithinReach ==
    ASSUME NEW b \in Nat, 8 * b <= MaxExact,
           NEW x \in -b .. b, NEW q1 \in -(4 * b) .. 4 * b, NEW q3 \in -(4 * b) .. 4 * b,
           q1 <= q3, NEW m \in Nat,
           \/ q1 <= 4 * x /\ 4 * x <= q3
           \/ m >= MultUnit /\ q1 - (q3 - q1) <= 4 * x /\ 4 * x <= q3 + (q3 - q1)
    PROVE  WithinIqr(x, q1, q3, m)
<1> DEFINE i == q3 - q1
           reach == Round(m * Round(i))
           low == MultUnit * q1 - reach
           high == MultUnit * q3 + reach
           y == MultUnit * (4 * x)
<1>1. MultUnit \in Nat /\ MaxExact \in Nat BY FloatAssumption
<1>2. i \in Nat /\ i \in -MaxExact .. MaxExact /\ 4 * x \in -MaxExact .. MaxExact /\ x \in Int
      /\ q1 \in Int /\ q3 \in Int /\ 0 \in -MaxExact .. MaxExact
  BY <1>1
<1> HIDE DEF i
<1>3. /\ Round(i) = i /\ Round(0) = 0
      /\ Round(MultUnit * i) = MultUnit * i /\ Round(y) = y
  BY <1>2, RoundSmall
<1>4. m * i \in Nat /\ MultUnit * i \in Nat /\ y \in Int BY <1>1, <1>2
<1>5. reach \in Nat
  <2>1. reach = Round(m * i) BY <1>3
  <2>2. Round(0) <= Round(m * i) BY <1>4, RoundMonotone
  <2>3. QED BY <1>3, <1>4, <2>1, <2>2, RoundIsInt
<1>6. m >= MultUnit => MultUnit * i <= reach
  <2>1. SUFFICES ASSUME m >= MultUnit PROVE MultUnit * i <= reach OBVIOUS
  <2>2. i * MultUnit <= i * m BY <1>1, <1>2, <2>1, TimesMonotone
  <2>3. MultUnit * i <= m * i BY <1>1, <1>2, <2>2
  <2>4. QED BY <1>3, <1>4, <2>3, RoundMonotone
<1> HIDE DEF reach, y
<1>7. low <= y /\ y <= high /\ low \in Int /\ high \in Int
  <2>1. /\ MultUnit * q1 \in Int /\ MultUnit * q3 \in Int
        /\ MultUnit * (q1 - i) = MultUnit * q1 - MultUnit * i
        /\ MultUnit * (q3 + i) = MultUnit * q3 + MultUnit * i
    BY <1>1, <1>2
  <2>2. CASE q1 <= 4 * x /\ 4 * x <= q3
    <3>1. MultUnit * q1 <= y /\ y <= MultUnit * q3
      BY <1>1, <1>2, <2>2, TimesMonotone DEF y
    <3>2. QED BY <1>4, <1>5, <2>1, <3>1
  <2>3. CASE m >= MultUnit /\ q1 - i <= 4 * x /\ 4 * x <= q3 + i
    <3>1. MultUnit * (q1 - i) <= y /\ y <= MultUnit * (q3 + i)
      BY <1>1, <1>2, <2>3, TimesMonotone DEF y
    <3>2. QED BY <1>4, <1>5, <1>6, <2>1, <2>3, <3>1
  <2>4. QED BY <2>2, <2>3 DEF i
<1> HIDE DEF low, high
<1>8. Round(low) <= y /\ y <= Round(high) BY <1>3, <1>4, <1>7, RoundMonotone
<1>9. y = 4 * MultUnit * x BY <1>1, <1>2 DEF y
<1>10. QED BY <1>8, <1>9 DEF WithinIqr, low, high, reach, i

\* With a multiplier of one or more, and so with the default of 1.5,
\* _reject_outliers_iqr rejects no source as long as there are fewer than six,
\* whatever their values in the exact range.
THEOREM IqrInert ==
    ASSUME NEW S, NEW b, NEW v, SmallSample(v, S, b), Cardinality(S) < 6,
           NEW m \in Nat, m >= MultUnit
    PROVE  AcceptedIqr(v, m) = S
<1> DEFINE n == Cardinality(S)
           q1 == Quartile(v, 1)
           q3 == Quartile(v, 3)
           at(k) == Nth(v, k)
<1>1. /\ b \in Nat /\ 8 * b <= MaxExact /\ DOMAIN v = S /\ n \in Nat
      /\ \A s \in S : v[s] \in -b .. b
      /\ \A k \in 1 .. n : at(k) \in -b .. b
  BY SmallSampleFacts
<1>2. CASE n <= 2 BY <1>1, <1>2 DEF AcceptedIqr
<1>3. CASE n \in 3 .. 5
  <2>1. \A k, l \in 1 .. n : k <= l => at(k) <= at(l) BY SmallSampleAscends
  <2>2. /\ q1 \in -(4 * b) .. 4 * b /\ q3 \in -(4 * b) .. 4 * b
        /\ n = 3 => q1 = 4 * at(1) /\ q3 = 4 * at(3)
        /\ n = 4 => q1 = 3 * at(1) + at(2) /\ q3 = at(3) + 3 * at(4)
        /\ n = 5 => q1 = 2 * at(1) + 2 * at(2) /\ q3 = 2 * at(4) + 2 * at(5)
    <3>0. 1 \in {1, 3} /\ 3 \in {1, 3} OBVIOUS
    <3>1. CASE n = 3 BY <1>1, <3>0, <3>1, QuartileExact
    <3>2. CASE n = 4
      <4>1. (1 * (4 + 1)) \div 4 = 1 /\ (1 * (4 + 1)) % 4 = 1
            /\ (3 * (4 + 1)) \div 4 = 3 /\ (3 * (4 + 1)) % 4 = 3
        OBVIOUS
      <4>2. q1 \in -(4 * b) .. 4 * b /\ q1 = 4 * at(1) + 1 * (at(1 + 1) - at(1))
        BY <3>0, <3>2, <4>1, QuartileExact
      <4>3. q3 \in -(4 * b) .. 4 * b /\ q3 = 4 * at(3) + 3 * (at(3 + 1) - at(3))
        BY <3>0, <3>2, <4>1, QuartileExact
      <4>4. at(1) \in Int /\ at(2) \in Int /\ at(3) \in Int /\ at(4) \in Int BY <1>1, <3>2
      <4> HIDE DEF q1, q3, at
      <4>5. QED BY <3>2, <4>2, <4>3, <4>4
    <3>3. CASE n = 5
      <4>1. (1 * (5 + 1)) \div 4 = 1 /\ (1 * (5 + 1)) % 4 = 2
            /\ (3 * (5 + 1)) \div 4 = 4 /\ (3 * (5 + 1)) % 4 = 2
        OBVIOUS
      <4>2. q1 \in -(4 * b) .. 4 * b /\ q1 = 4 * at(1) + 2 * (at(1 + 1) - at(1))
        BY <3>0, <3>3, <4>1, QuartileExact
      <4>3. q3 \in -(4 * b) .. 4 * b /\ q3 = 4 * at(4) + 2 * (at(4 + 1) - at(4))
        BY <3>0, <3>3, <4>1, QuartileExact
      <4>4. at(1) \in Int /\ at(2) \in Int /\ at(4) \in Int /\ at(5) \in Int BY <1>1, <3>3
      <4> HIDE DEF q1, q3, at
      <4>5. QED BY <3>3, <4>2, <4>3, <4>4
    <3>4. QED BY <1>3, <3>1, <3>2, <3>3
  <2>3. ASSUME NEW s \in S PROVE WithinIqr(v[s], q1, q3, m)
    <3>1. at(1) <= v[s] /\ v[s] <= at(n) /\ v[s] \in -b .. b
      BY <1>1, NthExtremes DEF SmallSample
    <3>2. \A k \in 1 .. n : at(k) \in Int BY <1>1
    <3> HIDE DEF q1, q3, at
    <3>3. q1 <= q3 /\ q1 - (q3 - q1) <= 4 * v[s] /\ 4 * v[s] <= q3 + (q3 - q1)
      <4>1. CASE n = 3 BY <1>1, <2>1, <2>2, <3>1, <3>2, <4>1
      <4>2. CASE n = 4 BY <1>1, <2>1, <2>2, <3>1, <3>2, <4>2
      <4>3. CASE n = 5 BY <1>1, <2>1, <2>2, <3>1, <3>2, <4>3
      <4>4. QED BY <1>3, <4>1, <4>2, <4>3
    <3>4. QED BY <1>1, <2>2, <3>1, <3>3, WithinReach
  <2>4. QED BY <1>1, <1>3, <2>3 DEF AcceptedIqr
<1>4. QED BY <1>1, <1>2, <1>3

-----------------------------------------------------------------------------
(***************************************************************************)
(* A majority survives every rejection method                              *)
(***************************************************************************)

Agreeing(v, x) == {s \in DOMAIN v : v[s] = x}

\* The value of a majority takes all the middle positions.
LEMMA MajorityInTheMiddle ==
    ASSUME NEW S, NEW lo, NEW hi, NEW v, Sample(v, S, lo, hi), NEW x \in Int,
           2 * Cardinality(Agreeing(v, x)) > Cardinality(S),
           NEW k \in 1 .. Cardinality(S), Cardinality(S) <= 2 * k, 2 * k <= Cardinality(S) + 2
    PROVE  Nth(v, k) = x
<1> DEFINE n == Cardinality(S)
           M == Agreeing(v, x)
           B == Below(v, x)
           L == AtMost(v, x)
<1>1. IsFiniteSet(S) /\ DOMAIN v = S /\ (\A s \in S : v[s] \in Int)
  BY DEF Sample
<1>2. M \subseteq L /\ L \subseteq S /\ B \subseteq S /\ M \cap B = {} /\ M \cup B \subseteq S
  BY <1>1 DEF Agreeing, AtMost, Below
<1> HIDE DEF M, B, L
<1>3. /\ Cardinality(M) <= Cardinality(L)
      /\ n \in Nat /\ Cardinality(M) \in Nat /\ Cardinality(L) \in Nat
  BY <1>1, <1>2, Counting
<1>4. Cardinality(M) + Cardinality(B) <= n /\ Cardinality(B) \in Nat
  <2>1. IsFiniteSet(M) /\ IsFiniteSet(B) /\ Cardinality(M \cup B) <= n
    BY <1>1, <1>2, FS_Subset
  <2>2. Cardinality(M \cup B) = Cardinality(M) + Cardinality(B) - 0
    BY <1>2, <2>1, FS_Union, FS_EmptySet
  <2>3. Cardinality(B) \in Nat BY <2>1, FS_CardinalityType
  <2>4. QED BY <1>3, <2>1, <2>2, <2>3
<1>5. 2 * Cardinality(M) > n BY DEF M
<1>6. Cardinality(B) < k /\ k <= Cardinality(L) BY <1>3, <1>4, <1>5
<1>7. QED BY <1>6, NthAgrees DEF B, L

\* The quartiles enclose the value of a majority.
LEMMA QuartilesEncloseMajority ==
    ASSUME NEW S, NEW b, NEW v, SmallSample(v, S, b), NEW x \in Int,
           2 * Cardinality(Agreeing(v, x)) > Cardinality(S), Cardinality(S) >= 3
    PROVE  /\ Quartile(v, 1) \in -(4 * b) .. 4 * b /\ Quartile(v, 3) \in -(4 * b) .. 4 * b
           /\ Quartile(v, 1) <= 4 * x /\ 4 * x <= Quartile(v, 3)
<1> DEFINE n == Cardinality(S)
           at(k) == Nth(v, k)
<1>1. n \in Nat /\ n >= 3 /\ b \in Nat /\ \A k \in 1 .. n : at(k) \in -b .. b
  BY SmallSampleFacts
<1>2. \A k \in 1 .. n : at(k) \in Int BY <1>1
<1>3. \A k, l \in 1 .. n : k <= l => at(k) <= at(l) BY SmallSampleAscends
<1>4. \A k \in 1 .. n : n <= 2 * k /\ 2 * k <= n + 2 => at(k) = x
  BY MajorityInTheMiddle DEF SmallSample
<1>5. Quartile(v, 1) \in -(4 * b) .. 4 * b /\ Quartile(v, 1) <= 4 * x
  <2> DEFINE r == 1 * (n + 1)
             l == r \div 4
             c == r % 4
             mid == (n + 2) \div 2
  <2>1. /\ r < 4 * n /\ c \in 0 .. 3
        /\ l \in 1 .. n /\ l + 1 \in 1 .. n /\ mid \in 1 .. n /\ l + 1 <= mid
        /\ n <= 2 * mid /\ 2 * mid <= n + 2
    BY <1>1
  <2>2. /\ Quartile(v, 1) \in -(4 * b) .. 4 * b
        /\ Quartile(v, 1) = 4 * at(l) + c * (at(l + 1) - at(l))
    BY <1>1, <2>1, QuartileExact
  <2> HIDE DEF l, c, mid, at
  <2>3. at(l) \in Int /\ at(l + 1) \in Int /\ at(l) <= at(l + 1) /\ at(l + 1) <= x
    BY <1>2, <1>3, <1>4, <2>1
  <2>4. c = 0 \/ c = 1 \/ c = 2 \/ c = 3 BY <2>1
  <2>5. QED BY <2>2, <2>3, <2>4
<1>6. Quartile(v, 3) \in -(4 * b) .. 4 * b /\ 4 * x <= Quartile(v, 3)
  <2> DEFINE r == 3 * (n + 1)
             l == r \div 4
             c == r % 4
             mid == (n + 1) \div 2
  <2>1. /\ r \in Nat /\ mid \in 1 .. n /\ n <= 2 * mid /\ 2 * mid <= n + 2
    BY <1>1
  <2>2. at(mid) = x BY <1>4, <2>1
  <2>3. CASE r >= 4 * n
    <3>1. Quartile(v, 3) \in -(4 * b) .. 4 * b /\ Quartile(v, 3) = 4 * at(n)
      BY <1>1, <2>3, QuartileExact
    <3> HIDE DEF at, mid
    <3>2. n \in 1 .. n /\ mid <= n BY <1>1, <2>1
    <3>3. at(n) \in Int /\ x <= at(n) BY <1>2, <1>3, <2>1, <2>2, <3>2
    <3>4. QED BY <3>1, <3>3
  <2>4. CASE ~(r >= 4 * n)
    <3>1. c \in 0 .. 3 /\ l \in 1 .. n /\ l + 1 \in 1 .. n /\ mid <= l
      BY <1>1, <2>4
    <3>2. /\ Quartile(v, 3) \in -(4 * b) .. 4 * b
          /\ Quartile(v, 3) = 4 * at(l) + c * (at(l + 1) - at(l))
      <4>1. r < 4 * n BY <1>1, <2>1, <2>4
      <4>2. QED BY <1>1, <4>1, QuartileExact
    <3> HIDE DEF l, c, mid, at
    <3>3. at(l) \in Int /\ at(l + 1) \in Int /\ at(l) <= at(l + 1) /\ x <= at(l)
      BY <1>2, <1>3, <2>1, <2>2, <3>1
    <3>4. c = 0 \/ c = 1 \/ c = 2 \/ c = 3 BY <3>1
    <3>5. QED BY <3>2, <3>3, <3>4
  <2>5. QED BY <2>3, <2>4
<1>7. QED BY <1>5, <1>6

\* The median of a sample with a majority is the value of the majority.
LEMMA MedianOfMajority ==
    ASSUME NEW S, NEW b, NEW v, SmallSample(v, S, b), NEW x \in -b .. b,
           2 * Cardinality(Agreeing(v, x)) > Cardinality(S)
    PROVE  Median2(v) = 2 * x
<1> DEFINE n == Cardinality(S)
<1>1. /\ DOMAIN v = S /\ n \in Nat /\ b \in Nat /\ 8 * b <= MaxExact /\ MaxExact \in Nat
      /\ x \in Int /\ 2 * x \in -MaxExact .. MaxExact
  BY SmallSampleFacts
<1>2. n # 0
  <2>1. SUFFICES ASSUME n = 0 PROVE FALSE OBVIOUS
  <2>2. S = {} BY <2>1, SmallSampleFacts, FS_EmptySet
  <2>3. Agreeing(v, x) = {} BY <1>1, <2>2 DEF Agreeing
  <2>4. QED BY <2>1, <2>3, FS_EmptySet
<1>3. \A k \in 1 .. n : n <= 2 * k /\ 2 * k <= n + 2 => Nth(v, k) = x
  BY <1>1, MajorityInTheMiddle DEF SmallSample
<1>4. CASE n % 2 = 1
  <2> DEFINE k == (n + 1) \div 2
  <2>1. Median2(v) = 2 * Nth(v, k) BY <1>1, <1>4 DEF Median2, Odd
  <2>2. k \in 1 .. n /\ n <= 2 * k /\ 2 * k <= n + 2 BY <1>1, <1>2
  <2> HIDE DEF k
  <2>3. QED BY <1>3, <2>1, <2>2
<1>5. CASE n % 2 # 1
  <2> DEFINE k == n \div 2
  <2>1. Median2(v) = Round(Nth(v, k) + Nth(v, k + 1)) BY <1>1, <1>5 DEF Median2, Odd
  <2>2. /\ k \in 1 .. n /\ n <= 2 * k /\ 2 * k <= n + 2
        /\ k + 1 \in 1 .. n /\ n <= 2 * (k + 1) /\ 2 * (k + 1) <= n + 2
    BY <1>1, <1>2, <1>5
  <2> HIDE DEF k
  <2>3. Nth(v, k) + Nth(v, k + 1) = 2 * x BY <1>1, <1>3, <2>2
  <2>4. QED BY <1>1, <2>1, <2>3, RoundSmall
<1>6. QED BY <1>4, <1>5

LEMMA RoundNonNegative == ASSUME NEW n \in Nat PROVE Round(n) \in Nat
<1>1. 0 \in -MaxExact .. MaxExact BY FloatAssumption
<1>2. Round(0) = 0 /\ Round(0) <= Round(n) BY <1>1, RoundSmall, RoundMonotone
<1>3. QED BY <1>2, RoundIsInt

\* Twice the median of values that are not negative is not negative.
LEMMA MedianNonNegative ==
    ASSUME NEW S, NEW hi, NEW v, Sample(v, S, 0, hi), S # {}
    PROVE  Median2(v) \in Nat
<1> DEFINE n == Cardinality(S)
<1>1. DOMAIN v = S /\ n \in Nat /\ n # 0 BY FS_CardinalityType, FS_EmptySet DEF Sample
<1>2. \A k \in 1 .. n : Nth(v, k) \in Nat
  <2>1. \A k \in 1 .. n : Nth(v, k) \in 0 .. hi BY NthIs
  <2>2. QED BY <2>1 DEF Sample
<1>3. CASE n % 2 = 1
  <2> DEFINE k == (n + 1) \div 2
  <2>1. Median2(v) = 2 * Nth(v, k) /\ k \in 1 .. n BY <1>1, <1>3 DEF Median2, Odd
  <2> HIDE DEF k
  <2>2. QED BY <1>2, <2>1
<1>4. CASE n % 2 # 1
  <2> DEFINE k == n \div 2
  <2>1. Median2(v) = Round(Nth(v, k) + Nth(v, k + 1)) BY <1>1, <1>4 DEF Median2, Odd
  <2>2. k \in 1 .. n /\ k + 1 \in 1 .. n BY <1>1, <1>4
  <2> HIDE DEF k
  <2>3. Nth(v, k) + Nth(v, k + 1) \in Nat BY <1>2, <2>2
  <2>4. QED BY <2>1, <2>3, RoundNonNegative
<1>5. QED BY <1>3, <1>4

\* The deviations from the value of a majority: zero for its own sources.
LEMMA DeviationFromMajority ==
    ASSUME NEW S, NEW b, NEW v, SmallSample(v, S, b), NEW x \in -b .. b, Median2(v) = 2 * x
    PROVE  /\ Sample(Deviation2(v), S, 0, 4 * b)
           /\ \A s \in S : v[s] = x => Deviation2(v)[s] = 0
<1>1. /\ IsFiniteSet(S) /\ DOMAIN v = S /\ \A s \in S : v[s] \in -b .. b
      /\ b \in Nat /\ 8 * b <= MaxExact /\ MaxExact \in Nat
  BY SmallSampleFacts
<1>2. ASSUME NEW s \in S
      PROVE  Deviation2(v)[s] \in 0 .. 4 * b /\ (v[s] = x => Deviation2(v)[s] = 0)
  <2>1. v[s] \in -b .. b BY <1>1
  <2>2. /\ v[s] \in -MaxExact .. MaxExact /\ 2 * v[s] - 2 * x \in -MaxExact .. MaxExact
    BY <1>1, <2>1
  <2>3. Round(v[s]) = v[s] /\ Round(2 * v[s] - 2 * x) = 2 * v[s] - 2 * x
    BY <2>2, RoundSmall
  <2>4. \/ Deviation2(v)[s] = Distance(2 * v[s], 2 * x)
        \/ Deviation2(v)[s] = Distance(2 * v[s] - 2 * x, 0)
    BY <1>1, <2>3 DEF Deviation2
  <2>5. QED BY <1>1, <2>1, <2>4 DEF Distance
<1>3. Deviation2(v) \in [S -> 0 .. 4 * b] BY <1>1, <1>2 DEF Deviation2
<1>4. 4 * b \in Int BY <1>1
<1>5. QED BY <1>1, <1>2, <1>3, <1>4 DEF Sample

\* Sources that agree and are more than half are never rejected, by either
\* method and whatever the others report, if all values are in the exact range.
THEOREM MajorityKept ==
    ASSUME NEW S, NEW b, NEW v, SmallSample(v, S, b), NEW x \in Int,
           2 * Cardinality(Agreeing(v, x)) > Cardinality(S),
           NEW cfg, cfg.method \in {"iqr", "mad", "none"}, cfg.iqr \in Nat, cfg.mad \in Nat
    PROVE  Agreeing(v, x) \subseteq Accepted(cfg, v)
<1> SUFFICES ASSUME NEW s \in Agreeing(v, x) PROVE s \in Accepted(cfg, v) OBVIOUS
<1>1. /\ b \in Nat /\ 8 * b <= MaxExact /\ DOMAIN v = S /\ Cardinality(S) \in Nat
      /\ s \in S /\ v[s] = x /\ x \in -b .. b
  BY SmallSampleFacts DEF Agreeing
<1>2. s \in AcceptedIqr(v, cfg.iqr)
  <2>1. CASE Cardinality(S) <= 2 BY <1>1, <2>1 DEF AcceptedIqr
  <2>2. CASE Cardinality(S) >= 3
    <3> DEFINE q1 == Quartile(v, 1)
               q3 == Quartile(v, 3)
               m == cfg.iqr
    <3>1. /\ q1 \in -(4 * b) .. 4 * b /\ q3 \in -(4 * b) .. 4 * b
          /\ q1 <= 4 * x /\ 4 * x <= q3
      BY <2>2, QuartilesEncloseMajority
    <3> HIDE DEF q1, q3, m
    <3>2. q1 <= q3 BY <1>1, <3>1
    <3>3. m \in Nat BY DEF m
    <3>4. WithinIqr(x, q1, q3, m) BY <1>1, <3>1, <3>2, <3>3, WithinReach
    <3>5. QED BY <1>1, <3>4 DEF AcceptedIqr, q1, q3, m
  <2>3. QED BY <1>1, <2>1, <2>2
<1>3. s \in AcceptedMad(v, cfg.mad)
  <2> DEFINE D == Deviation2(v)
  <2>1. Median2(v) = 2 * x BY <1>1, MedianOfMajority
  <2>2. Sample(D, S, 0, 4 * b) /\ D[s] = 0 BY <1>1, <2>1, DeviationFromMajority
  <2> HIDE DEF D
  <2>3. Median2(D) \in Nat BY <1>1, <2>2, MedianNonNegative
  <2>4. cfg.mad * Round(Median2(D)) \in Nat BY <2>3, RoundNonNegative
  <2>5. Round(cfg.mad * Round(Median2(D))) \in Nat BY <2>4, RoundNonNegative
  <2>6. 2 * MultUnit * D[s] = 0 BY <2>2, FloatAssumption
  <2>7. 2 * MultUnit * D[s] <= Round(cfg.mad * Round(Median2(D))) BY <2>5, <2>6
  <2>8. QED BY <1>1, <2>7 DEF AcceptedMad, D
<1>4. QED BY <1>1, <1>2, <1>3 DEF Accepted

-----------------------------------------------------------------------------
(***************************************************************************)
(* Weights and the weighted median                                         *)
(***************************************************************************)

\* The weights of a finite set of sources.
Weighing(w, S) == IsFiniteSet(S) /\ \A s \in S : w[s] \in Nat

\* More sources weigh no less, and weights add up.
LEMMA WeightFacts ==
    ASSUME NEW w, NEW S, Weighing(w, S), NEW A \in SUBSET S
    PROVE  /\ Weight(w, A) \in Nat /\ Weight(w, S) \in Nat
           /\ Weight(w, A) <= Weight(w, S)
           /\ Weight(w, S \ A) = Weight(w, S) - Weight(w, A)
<1>1. IsFiniteSet(A) /\ IsFiniteSet(S \ A) BY FS_Subset DEF Weighing
<1>2. /\ SumFunctionOnSet(w, A) \in Nat /\ SumFunctionOnSet(w, S) \in Nat
      /\ SumFunctionOnSet(w, S \ A) \in Nat
  BY <1>1, SumIsNat DEF Weighing
<1>3. SumFunctionOnSet(w, S) = SumFunctionOnSet(w, A) + SumFunctionOnSet(w, S \ A)
  <2>1. Summable(w, S) BY DEF Weighing, Summable
  <2>2. QED BY <2>1, SumSplit
<1>4. QED BY <1>2, <1>3 DEF Weight

\* A source that is left weighs what it weighed before the rejection.
LEMMA WeightRestricted ==
    ASSUME NEW w, NEW S, Weighing(w, S), NEW A \in SUBSET S
    PROVE  Weighing(Restricted(w, S), S) /\ Weight(Restricted(w, S), A) = Weight(w, A)
<1>1. Weighing(Restricted(w, S), S) BY DEF Weighing, Restricted
<1>2. Summable(Restricted(w, S), A) /\ Summable(w, A)
  BY <1>1, FS_Subset DEF Weighing, Summable
<1>3. Agree(Restricted(w, S), w, A) BY DEF Agree, Restricted
<1>4. QED BY <1>1, <1>2, <1>3, SumDependsOnValues DEF Weight

\* The value of sources that carry more than half of the weight is the median.
LEMMA HeavyMedian ==
    ASSUME NEW S, NEW v \in [S -> Int], NEW w, Weighing(w, S), NEW x \in Int,
           2 * Weight(w, Agreeing(v, x)) > Weight(w, S)
    PROVE  WeightedMedian(v, w) = x
<1> DEFINE M == Agreeing(v, x)
           half == {y \in Values(v) : 2 * Weight(w, AtMost(v, y)) >= Weight(w, S)}
<1>1. DOMAIN v = S /\ M = {s \in S : v[s] = x} BY DEF Agreeing
<1>2. /\ M \in SUBSET S /\ \A y : AtMost(v, y) \in SUBSET S BY <1>1 DEF AtMost
<1>3. /\ Weight(w, M) \in Nat /\ Weight(w, S) \in Nat
      /\ Weight(w, S \ M) = Weight(w, S) - Weight(w, M)
  BY <1>2, WeightFacts
<1>4. x \in half
  <2>1. M # {}
    <3>1. SUFFICES ASSUME M = {} PROVE FALSE OBVIOUS
    <3>2. Weight(w, {}) = 0 BY SumEmpty DEF Weight
    <3>3. QED BY <1>3, <3>1, <3>2
  <2>2. x \in Values(v) BY <1>1, <2>1 DEF Values
  <2>3. M \in SUBSET AtMost(v, x) BY <1>1 DEF AtMost
  <2>4. Weighing(w, AtMost(v, x)) BY <1>2, FS_Subset DEF Weighing
  <2>5. /\ Weight(w, M) <= Weight(w, AtMost(v, x)) /\ Weight(w, AtMost(v, x)) \in Nat
    BY <2>3, <2>4, WeightFacts
  <2>6. 2 * Weight(w, AtMost(v, x)) >= Weight(w, S) BY <1>3, <2>5
  <2>7. QED BY <2>2, <2>6
<1>5. ASSUME NEW y \in half PROVE y \in Int /\ x <= y
  <2>1. y \in Int BY <1>1 DEF Values
  <2>2. SUFFICES ASSUME y < x PROVE FALSE BY <2>1
  <2>3. AtMost(v, y) \in SUBSET (S \ M) BY <1>1, <2>1, <2>2 DEF AtMost
  <2>4. Weighing(w, S \ M) BY FS_Subset DEF Weighing
  <2>5. Weight(w, AtMost(v, y)) <= Weight(w, S \ M) /\ Weight(w, AtMost(v, y)) \in Nat
    BY <2>3, <2>4, WeightFacts
  <2>6. 2 * Weight(w, AtMost(v, y)) >= Weight(w, S) OBVIOUS
  <2> HIDE DEF M, half
  <2>7. QED BY <1>3, <2>5, <2>6 DEF M
<1>6. WeightedMedian(v, w) = CHOOSE y \in half : \A z \in half : y <= z
  BY <1>1 DEF WeightedMedian, AtMost
<1> HIDE DEF half
<1>7. ASSUME NEW y \in half, \A z \in half : y <= z PROVE y = x BY <1>4, <1>5, <1>7
<1>8. QED BY <1>4, <1>5, <1>6, <1>7

\* An aggregate is the value of the sources that agree and are more than half,
\* by number and by weight, if all values are in the exact range: the first
\* saves them from rejection, the second makes them the median of what is left.
THEOREM MajorityIsAggregate ==
    ASSUME NEW S, NEW b, NEW v, SmallSample(v, S, b), NEW x \in Int,
           2 * Cardinality(Agreeing(v, x)) > Cardinality(S),
           NEW cfg, cfg.method \in {"iqr", "mad", "none"}, cfg.iqr \in Nat, cfg.mad \in Nat,
           Weighing(cfg.weight, S), Aggregate(cfg, v) # NULL,
           2 * Weight(cfg.weight, Agreeing(v, x)) > Weight(cfg.weight, S)
    PROVE  Aggregate(cfg, v).value = x
<1> DEFINE K == Accepted(cfg, v)
           M == Agreeing(v, x)
           w == cfg.weight
           vk == Restricted(v, K)
           wk == Restricted(w, K)
<1>1. IsFiniteSet(S) /\ DOMAIN v = S /\ \A s \in S : v[s] \in Int
  BY SmallSampleFacts
<1>2. K \in SUBSET S BY <1>1 DEF Accepted, AcceptedIqr, AcceptedMad
<1>3. M \in SUBSET K BY MajorityKept
<1>4. Aggregate(cfg, v).value = WeightedMedian(vk, wk) BY DEF Aggregate
<1>5. vk \in [K -> Int] BY <1>1, <1>2 DEF Restricted
<1>6. Agreeing(vk, x) = M BY <1>1, <1>2, <1>3 DEF Agreeing, Restricted
<1> HIDE DEF K, M, w, vk
<1>7. Weighing(w, K) BY <1>2, FS_Subset DEF Weighing, w
<1>8. /\ Weighing(wk, K) /\ Weight(wk, M) = Weight(w, M) /\ Weight(wk, K) = Weight(w, K)
  <2>1. K \in SUBSET K OBVIOUS
  <2>2. QED BY <1>3, <1>7, <2>1, WeightRestricted
<1> HIDE DEF wk
<1>9. /\ Weight(w, K) <= Weight(w, S) /\ Weight(w, K) \in Nat /\ Weight(w, S) \in Nat
  BY <1>2, WeightFacts DEF w
<1>10. Weight(w, M) \in Nat BY <1>3, <1>7, WeightFacts
<1>11. 2 * Weight(wk, M) > Weight(wk, K) BY <1>8, <1>9, <1>10 DEF w, M
<1>12. QED BY <1>4, <1>5, <1>6, <1>8, <1>11, HeavyMedian

-----------------------------------------------------------------------------
(***************************************************************************)
(* The bridge                                                              *)
(***************************************************************************)

\* The call under way carries a record that describes its attestation and that
\* verifies; past the pin stage the record is in the store.
JobDocumented ==
    job # NULL =>
        /\ Documents(job.rec, job.att)
        /\ CmdVerify(job.rec, mode.jsonschema)
        /\ job.att.pk = Key /\ job.att.sig.key = Key
        /\ job.stage \in {"pin", "submit", "plain"}
        /\ job.stage # "pin" => job.rec \in pinned /\ job.cid \in {Cid(job.rec), BadCid}

\* What is being aggregated is the aggregate of some batch.
JobAggregate ==
    job # NULL /\ job.batch # NULL =>
        \E b \in Batch :
            /\ job.batch = [cfg |-> b.cfg, values |-> SourceValues(b), result |-> AggregateOf[b]]
            /\ AggregateOf[b] # NULL

\* The dry-run client leaves no commitment behind.
DryCommitsNothing == mode.client = "dry" => \A f \in Feed : commits[f] = NULL

IInv ==
    /\ TypeOK
    /\ JobDocumented
    /\ JobAggregate
    /\ SubmittedIsDocumented
    /\ ReturnedIsOnChain
    /\ DryCommitsNothing
    /\ CommitmentsOpenable

LEMMA InitIInv == Init => IInv
  BY BridgeAssumption DEF Init, IInv, TypeOK, JobDocumented, JobAggregate,
     SubmittedIsDocumented, ReturnedIsOnChain, DryCommitsNothing, CommitmentsOpenable

\* A record built from a result and its attestation describes the attestation
\* and passes the verifier as soon as it passes the schema.
LEMMA FreshRecordVerifies ==
    ASSUME NEW type, NEW r, NEW agg, NEW js, SchemaOK(ToDict(type, r, Attest(r), agg), js)
    PROVE  /\ Documents(ToDict(type, r, Attest(r), agg), Attest(r))
           /\ CmdVerify(ToDict(type, r, Attest(r), agg), js)
           /\ Attest(r).pk = Key /\ Attest(r).sig.key = Key
<1> DEFINE d == ToDict(type, r, Attest(r), agg)
<1>1. /\ Attest(r).payload = Payload(r) /\ Attest(r).pk = Key
      /\ Attest(r).sig = Sign(Payload(r))
  BY DEF Attest
<1>2. /\ d.payload = Payload(r) /\ d.pk = Key /\ d.sig = Sign(Payload(r))
      /\ d.script = Hash(r.script) /\ d.params = r.params /\ d.phash = ParamsHash(r.params)
      /\ d.value = r.value /\ d.ts = r.ts /\ d.feed = r.feed
  BY <1>1 DEF ToDict
<1>3. /\ Payload(r).version = 1 /\ Payload(r).script = Hash(r.script)
      /\ Payload(r).params = ParamsHash(r.params)
      /\ Payload(r).value = r.value /\ Payload(r).ts = r.ts /\ Payload(r).feed = Pad(r.feed)
  BY DEF Payload
<1>4. Sign(Payload(r)) = [key |-> Key, msg |-> Payload(r)] /\ Sign(Payload(r)).key = Key
  BY DEF Sign
<1> HIDE DEF d
<1>5. Documents(d, Attest(r)) BY <1>1, <1>2, <1>3 DEF Documents
<1>6. CmdVerify(d, js)
  BY <1>2, <1>3, <1>4 DEF CmdVerify, VerifyParamsHash, VerifyPayloadFields, SignatureValid, d
<1>7. QED BY <1>1, <1>4, <1>5, <1>6 DEF d

LEMMA StartJobStep ==
    ASSUME IInv, NEW type, NEW r, NEW agg, NEW batch, StartJob(type, r, agg, batch),
           batch # NULL =>
               \E b \in Batch :
                   /\ batch = [cfg |-> b.cfg, values |-> SourceValues(b),
                               result |-> AggregateOf[b]]
                   /\ AggregateOf[b] # NULL
    PROVE  IInv'
<1> DEFINE att == Attest(r)
           rec == ToDict(type, r, att, agg)
           j == [stage |-> "pin", att |-> att, rec |-> rec, cid |-> NULL, batch |-> batch]
<1>1. /\ SchemaOK(rec, mode.jsonschema) /\ job' = j /\ calls < MaxCalls /\ calls' = calls + 1
      /\ UNCHANGED <<mode, pinned, subs, returned, commits, openers, orphaned, crashes>>
  BY DEF StartJob
<1>2. Documents(rec, att) /\ CmdVerify(rec, mode.jsonschema) /\ att.pk = Key /\ att.sig.key = Key
  BY <1>1, FreshRecordVerifies
<1> HIDE DEF att, rec
<1>3. j.stage = "pin" /\ j.att = att /\ j.rec = rec /\ j.batch = batch OBVIOUS
<1> HIDE DEF j
<1>4. TypeOK' BY <1>1, <1>2, <1>3, BridgeAssumption DEF IInv, TypeOK
<1>5. JobDocumented' BY <1>1, <1>2, <1>3 DEF JobDocumented
<1>6. JobAggregate' BY <1>1, <1>3 DEF JobAggregate
<1>7. SubmittedIsDocumented' /\ ReturnedIsOnChain' /\ DryCommitsNothing' /\ CommitmentsOpenable'
  BY <1>1 DEF IInv, SubmittedIsDocumented, ReturnedIsOnChain, DryCommitsNothing,
     CommitmentsOpenable
<1>8. QED BY <1>4, <1>5, <1>6, <1>7 DEF IInv

LEMMA ProcessStep == ASSUME IInv, NEW r \in Result, Process(r) PROVE IInv'
  BY StartJobStep DEF Process

LEMMA AggregateAndSubmitStep ==
    ASSUME IInv, NEW b \in Batch, AggregateAndSubmit(b) PROVE IInv'
<1> DEFINE a == AggregateOf[b]
           batch == [cfg |-> b.cfg, values |-> SourceValues(b), result |-> a]
<1>1. a # NULL /\ StartJob("aggregated", Synthetic(b, a), a, batch) BY DEF AggregateAndSubmit
<1> HIDE DEF AggregateOf
<1>2. \E c \in Batch :
        /\ batch = [cfg |-> c.cfg, values |-> SourceValues(c), result |-> AggregateOf[c]]
        /\ AggregateOf[c] # NULL
  BY <1>1
<1> HIDE DEF a, batch
<1>3. QED BY <1>1, <1>2, StartJobStep

LEMMA CmdSubmitStep == ASSUME IInv, NEW b \in Batch, CmdSubmit(b) PROVE IInv'
  BY AggregateAndSubmitStep DEF CmdSubmit

\* What a step that only touches the call, the store and the submissions may
\* do: the store grows, and what it submits or returns is documented.
LEMMA JobStep ==
    ASSUME IInv, job # NULL,
           UNCHANGED <<mode, commits, openers, orphaned, calls, crashes>>,
           pinned \subseteq pinned', subs \subseteq subs', returned \subseteq returned',
           \A s \in subs' \ subs :
               /\ s.via = "submit" /\ s.att = job.att
               /\ job.rec \in pinned /\ s.cid \in {NULL, Cid(job.rec)},
           \A x \in returned' \ returned :
               /\ x.via = "submit" /\ x.att = job.att
               /\ mode.client # "dry" => \E s \in subs' : s.via = "submit" /\ s.att = x.att,
           JobDocumented', JobAggregate'
    PROVE  IInv'
<1>1. /\ Documents(job.rec, job.att) /\ CmdVerify(job.rec, mode.jsonschema)
      /\ job.att.pk = Key
  BY DEF IInv, JobDocumented
<1>2. TypeOK' BY <1>1 DEF IInv, TypeOK, JobDocumented
<1>3. SubmittedIsDocumented'
  <2>1. SUFFICES ASSUME mode.backend = "local" \/ crashes = 0, NEW s \in subs', s.via = "submit"
                 PROVE  \E d \in pinned' : /\ Documents(d, s.att)
                                           /\ CmdVerify(d, mode.jsonschema)
                                           /\ s.cid \in {NULL, Cid(d)}
    BY DEF SubmittedIsDocumented
  <2>2. CASE s \in subs BY <2>1, <2>2 DEF IInv, SubmittedIsDocumented
  <2>3. CASE s \notin subs BY <1>1, <2>1, <2>3
  <2>4. QED BY <2>2, <2>3
<1>4. ReturnedIsOnChain' BY DEF IInv, ReturnedIsOnChain
<1>5. DryCommitsNothing' /\ CommitmentsOpenable'
  BY DEF IInv, DryCommitsNothing, CommitmentsOpenable
<1>6. QED BY <1>2, <1>3, <1>4, <1>5 DEF IInv

\* A call that ends satisfies the invariants of the call under way.
LEMMA EndedJob == job' = NULL => JobDocumented' /\ JobAggregate'
  BY DEF JobDocumented, JobAggregate

\* So does one that goes on to a later stage with its record pinned.
LEMMA ContinuedJob ==
    ASSUME IInv, job # NULL, NEW stage \in {"submit", "plain"}, NEW cid,
           cid \in {Cid(job.rec), BadCid}, Continue(stage, cid), job.rec \in pinned'
    PROVE  JobDocumented' /\ JobAggregate'
<1> DEFINE j == [stage |-> stage, att |-> job.att, rec |-> job.rec, cid |-> cid, batch |-> NULL]
<1>1. job' = j /\ mode' = mode BY DEF Continue
<1>2. /\ j.stage = stage /\ j.att = job.att /\ j.rec = job.rec /\ j.cid = cid /\ j.batch = NULL
  OBVIOUS
<1> HIDE DEF j
<1>3. JobDocumented' BY <1>1, <1>2 DEF IInv, JobDocumented
<1>4. JobAggregate' BY <1>1, <1>2 DEF JobAggregate
<1>5. QED BY <1>3, <1>4

LEMMA PinStep == ASSUME IInv, Pin PROVE IInv'
<1>1. /\ job # NULL /\ pinned' = pinned \cup {job.rec} /\ UNCHANGED <<subs, returned>>
  BY DEF Pin, At
<1>2. PICK cid \in {Cid(job.rec), BadCid} : Continue("submit", cid) BY DEF Pin
<1>3. JobDocumented' /\ JobAggregate' BY <1>1, <1>2, ContinuedJob
<1>4. QED BY <1>1, <1>2, <1>3, JobStep DEF Continue

LEMMA PinFailsStep == ASSUME IInv, PinFails \/ CidRefused PROVE IInv'
<1>1. /\ job # NULL /\ Ended /\ pinned \subseteq pinned' /\ UNCHANGED <<subs, returned>>
  BY DEF PinFails, CidRefused, At
<1>2. QED BY <1>1, JobStep, EndedJob DEF Ended

\* In the stages after pin the record is pinned, and a valid CID is its own.
LEMMA Submittable ==
    ASSUME IInv, At("submit") \/ At("plain")
    PROVE  /\ job # NULL /\ job.rec \in pinned /\ job.cid \in {Cid(job.rec), BadCid}
           /\ ValidCid(job.cid) => job.cid = Cid(job.rec)
  BY DEF IInv, JobDocumented, At, ValidCid

LEMMA SubFields ==
    ASSUME NEW via, NEW cid
    PROVE  Sub(via, cid).via = via /\ Sub(via, cid).att = job.att /\ Sub(via, cid).cid = cid
  BY DEF Sub

LEMMA SubmitWithCidStep == ASSUME IInv, SubmitWithCid PROVE IInv'
<1> DEFINE s == Sub("submit", job.cid)
<1>1. /\ subs' = IF mode.client = "dry" THEN subs ELSE subs \cup {s}
      /\ returned' = returned \cup {s} /\ pinned' = pinned /\ Ended
  BY DEF SubmitWithCid
<1>2. /\ job # NULL /\ job.rec \in pinned /\ job.cid = Cid(job.rec)
  BY Submittable DEF SubmitWithCid
<1>3. s.via = "submit" /\ s.att = job.att /\ s.cid = job.cid BY SubFields
<1> HIDE DEF s
<1>4. QED BY <1>1, <1>2, <1>3, JobStep, EndedJob DEF Ended

LEMMA SubmitRaisesStep == ASSUME IInv, SubmitRaises PROVE IInv'
<1> DEFINE s == Sub("submit", job.cid)
<1>1. subs' \in {subs, subs \cup {s}} /\ UNCHANGED <<pinned, returned>> /\ Ended
  BY DEF SubmitRaises
<1>2. /\ job # NULL /\ job.rec \in pinned /\ job.cid = Cid(job.rec)
  BY Submittable DEF SubmitRaises
<1>3. s.via = "submit" /\ s.att = job.att /\ s.cid = job.cid BY SubFields
<1> HIDE DEF s
<1>4. QED BY <1>1, <1>2, <1>3, JobStep, EndedJob DEF Ended

LEMMA SubmitFallsBackStep == ASSUME IInv, SubmitFallsBack PROVE IInv'
<1> DEFINE s == Sub("submit", job.cid)
<1>1. /\ subs' \in {subs, subs \cup {s}} /\ UNCHANGED <<pinned, returned>>
      /\ Continue("plain", job.cid)
  BY DEF SubmitFallsBack
<1>2. /\ job # NULL /\ job.rec \in pinned /\ job.cid = Cid(job.rec)
  BY Submittable DEF SubmitFallsBack
<1>3. s.via = "submit" /\ s.att = job.att /\ s.cid = job.cid BY SubFields
<1> HIDE DEF s
<1>4. JobDocumented' /\ JobAggregate' BY <1>1, <1>2, ContinuedJob
<1>5. QED BY <1>1, <1>2, <1>3, <1>4, JobStep DEF Continue

LEMMA SubmitPlainStep == ASSUME IInv, SubmitPlain PROVE IInv'
<1> DEFINE s == Sub("submit", NULL)
           x == Sub("submit", job.cid)
<1>1. /\ \/ subs' = subs \cup {s} /\ returned' = returned \cup {x}
         \/ subs' \in {subs, subs \cup {s}} /\ returned' = returned
      /\ pinned' = pinned /\ Ended
  BY DEF SubmitPlain
<1>2. job # NULL /\ job.rec \in pinned BY Submittable DEF SubmitPlain
<1>3. s.via = "submit" /\ s.att = job.att /\ s.cid = NULL /\ x.via = "submit" /\ x.att = job.att
  BY SubFields
<1> HIDE DEF s, x
<1>4. QED BY <1>1, <1>2, <1>3, JobStep, EndedJob DEF Ended

-----------------------------------------------------------------------------
(***************************************************************************)
(* commit, reveal and crashes                                              *)
(***************************************************************************)

\* The bridge and the contract hash the same bytes.
LEMMA HashesAgree ==
    ASSUME NEW r, NEW salt
    PROVE  CommitmentHash(r, salt) = OnChainHash(Attest(r).payload, salt)
<1>1. Attest(r).payload = Payload(r) BY DEF Attest
<1>2. /\ Payload(r).script = Hash(r.script) /\ Payload(r).params = ParamsHash(r.params)
      /\ Payload(r).value = r.value /\ Payload(r).ts = r.ts /\ Payload(r).feed = Pad(r.feed)
  BY DEF Payload
<1>3. QED BY <1>1, <1>2 DEF CommitmentHash, OnChainHash

LEMMA CommitStep == ASSUME IInv, NEW r \in Result, Commit(r) PROVE IInv'
<1> DEFINE o == [r |-> r, salt |-> calls]
<1>1. /\ calls < MaxCalls /\ calls' = calls + 1
      /\ UNCHANGED <<mode, job, pinned, subs, returned, crashes>>
      /\ openers' \in {openers, openers \cup {o}}
  BY DEF Commit
<1>2. calls \in 0 .. MaxCalls /\ calls \in 0 .. (MaxCalls - 1) /\ r.feed \in Feed
  BY <1>1, BridgeAssumption DEF IInv, TypeOK
<1>3. o.r = r /\ o.salt = calls OBVIOUS
<1>4. TypeOK'
  <2>1. DOMAIN commits' = Feed /\ orphaned' \subseteq Feed
    BY <1>2 DEF Commit, IInv, TypeOK
  <2> HIDE DEF o
  <2>2. \A q \in openers' : q.r \in Result /\ q.salt \in 0 .. (MaxCalls - 1)
    BY <1>1, <1>2, <1>3 DEF IInv, TypeOK
  <2>3. QED BY <1>1, <1>2, <2>1, <2>2, BridgeAssumption DEF IInv, TypeOK
<1>5. /\ JobDocumented' /\ JobAggregate' /\ SubmittedIsDocumented' /\ ReturnedIsOnChain'
  BY <1>1 DEF IInv, JobDocumented, JobAggregate, SubmittedIsDocumented, ReturnedIsOnChain
<1>6. DryCommitsNothing' BY <1>1 DEF IInv, DryCommitsNothing, Commit
<1>7. CommitmentsOpenable'
  <2>1. SUFFICES ASSUME NEW f \in Feed, f \notin orphaned', commits'[f] # NULL
                 PROVE  \E q \in openers' :
                           q.r.feed = f /\ commits'[f] = OnChainHash(Attest(q.r).payload, q.salt)
    BY DEF CommitmentsOpenable
  <2>2. f \notin orphaned BY <2>1 DEF Commit
  <2>3. CASE mode.client = "dry" \/ f # r.feed
    <3>1. commits'[f] = commits[f] BY <2>3 DEF Commit, IInv, TypeOK
    <3>2. openers \subseteq openers' BY <1>1
    <3>3. QED BY <2>1, <2>2, <3>1, <3>2 DEF IInv, CommitmentsOpenable
  <2>4. CASE mode.client # "dry" /\ f = r.feed
    <3>1. commits'[f] = CommitmentHash(r, calls) BY <1>2, <2>4 DEF Commit, IInv, TypeOK
    <3>2. o \in openers' BY <1>2, <2>1, <2>4 DEF Commit
    <3> HIDE DEF o
    <3>3. QED BY <1>3, <2>4, <3>1, <3>2, HashesAgree
  <2>5. QED BY <2>3, <2>4
<1>8. QED BY <1>4, <1>5, <1>6, <1>7 DEF IInv

LEMMA RevealStep == ASSUME IInv, NEW o \in openers, Reveal(o) PROVE IInv'
<1> DEFINE att == Attest(o.r)
           f == o.r.feed
           s == [via |-> "reveal", att |-> att, cid |-> NULL]
<1>1. /\ UNCHANGED <<mode, job, pinned, returned, orphaned, calls, crashes>>
      /\ openers' \in {openers, openers \ {o}}
  BY DEF Reveal
<1>2. \/ /\ mode.client = "dry" /\ UNCHANGED <<commits, subs>>
      \/ /\ mode.client # "dry"
         /\ commits' = [commits EXCEPT ![f] = NULL]
         /\ subs' = subs \cup {s}
  BY DEF Reveal
<1>3. att.pk = Key /\ s.via = "reveal" /\ s.att = att BY DEF Attest
<1> HIDE DEF att, s
<1>4. TypeOK' BY <1>1, <1>2, <1>3 DEF IInv, TypeOK
<1>5. /\ JobDocumented' /\ JobAggregate' BY <1>1 DEF IInv, JobDocumented, JobAggregate
<1>6. SubmittedIsDocumented' BY <1>1, <1>2, <1>3 DEF IInv, SubmittedIsDocumented
<1>7. ReturnedIsOnChain' BY <1>1, <1>2 DEF IInv, ReturnedIsOnChain
<1>8. DryCommitsNothing' BY <1>1, <1>2 DEF IInv, DryCommitsNothing
<1>9. CommitmentsOpenable'
  <2>1. SUFFICES ASSUME NEW g \in Feed, g \notin orphaned, commits'[g] # NULL
                 PROVE  \E q \in openers' :
                           q.r.feed = g /\ commits'[g] = OnChainHash(Attest(q.r).payload, q.salt)
    BY <1>1 DEF CommitmentsOpenable
  <2>2. mode.client # "dry" BY <1>2, <2>1 DEF IInv, DryCommitsNothing
  <2>3. g # f /\ commits'[g] = commits[g] BY <1>2, <2>1, <2>2 DEF IInv, TypeOK
  <2>4. PICK q \in openers :
          q.r.feed = g /\ commits[g] = OnChainHash(Attest(q.r).payload, q.salt)
    BY <2>1, <2>3 DEF IInv, CommitmentsOpenable
  <2>5. q \in openers' BY <1>1, <2>3, <2>4
  <2>6. QED BY <2>3, <2>4, <2>5
<1>10. QED BY <1>4, <1>5, <1>6, <1>7, <1>8, <1>9 DEF IInv

LEMMA CrashStep == ASSUME IInv, Crash PROVE IInv'
<1>1. /\ crashes < MaxCrashes /\ crashes' = crashes + 1 /\ job' = NULL /\ openers' = {}
      /\ orphaned' = {f \in Feed : commits[f] # NULL}
      /\ pinned' = IF mode.backend = "simulated" THEN {} ELSE pinned
      /\ UNCHANGED <<mode, subs, returned, commits, calls>>
  BY DEF Crash
<1>2. crashes \in Nat BY BridgeAssumption DEF IInv, TypeOK
<1>3. TypeOK' BY <1>1, <1>2, BridgeAssumption DEF IInv, TypeOK
<1>4. JobDocumented' /\ JobAggregate' BY <1>1, EndedJob
<1>5. SubmittedIsDocumented' BY <1>1, <1>2 DEF IInv, SubmittedIsDocumented
<1>6. ReturnedIsOnChain' /\ DryCommitsNothing' /\ CommitmentsOpenable'
  BY <1>1 DEF IInv, ReturnedIsOnChain, DryCommitsNothing, CommitmentsOpenable
<1>7. QED BY <1>3, <1>4, <1>5, <1>6 DEF IInv

-----------------------------------------------------------------------------
(***************************************************************************)
(* Theorems                                                                *)
(***************************************************************************)

LEMMA NextIInv == IInv /\ [Next]_vars => IInv'
<1> SUFFICES ASSUME IInv, [Next]_vars PROVE IInv' OBVIOUS
<1>1. CASE Next
  BY <1>1, ProcessStep, AggregateAndSubmitStep, CmdSubmitStep, PinStep, PinFailsStep,
     SubmitWithCidStep, SubmitRaisesStep, SubmitFallsBackStep, SubmitPlainStep, CommitStep, RevealStep, CrashStep
     DEF Next
<1>2. CASE UNCHANGED vars
  BY <1>2 DEF vars, IInv, TypeOK, JobDocumented, JobAggregate, SubmittedIsDocumented,
     ReturnedIsOnChain, DryCommitsNothing, CommitmentsOpenable
<1>3. QED BY <1>1, <1>2

THEOREM IInvHolds == Spec => []IInv
  BY InitIInv, NextIInv, PTL DEF Spec

\* The state of the bridge keeps its type.
THEOREM TypeCorrect == Spec => []TypeOK
<1>1. IInv => TypeOK BY DEF IInv
<1>2. QED BY <1>1, IInvHolds, PTL

\* No price is submitted without a pinned record that describes it and that
\* the verifier accepts, whatever fails between signing and submission.
THEOREM SubmissionsAreDocumented == Spec => []SubmittedIsDocumented
<1>1. IInv => SubmittedIsDocumented BY DEF IInv
<1>2. QED BY <1>1, IInvHolds, PTL

\* What the bridge returns as submitted is on chain.
THEOREM ReturnedAreOnChain == Spec => []ReturnedIsOnChain
<1>1. IInv => ReturnedIsOnChain BY DEF IInv
<1>2. QED BY <1>1, IInvHolds, PTL

\* An open commitment can be revealed unless its salt was lost.
THEOREM CommitmentsAreOpenable == Spec => []CommitmentsOpenable
<1>1. IInv => CommitmentsOpenable BY DEF IInv
<1>2. QED BY <1>1, IInvHolds, PTL

\* Values in the exact range are a small sample.
LEMMA ExactBatch ==
    ASSUME NEW b \in Batch, Values(SourceValues(b)) \subseteq ExactRange
    PROVE  SmallSample(SourceValues(b), DOMAIN b.results, MaxExact \div 8)
<1> DEFINE v == SourceValues(b)
           S == DOMAIN b.results
           e == MaxExact \div 8
<1>1. DOMAIN v = S /\ IsFiniteSet(S) BY BridgeAssumption DEF SourceValues
<1>2. e \in Nat /\ 8 * e <= MaxExact /\ -e \in Int BY FloatAssumption
<1>3. \A s \in S : v[s] \in -e .. e BY <1>1 DEF Values, ExactRange
<1>4. v \in [S -> -e .. e] BY <1>1, <1>3 DEF SourceValues
<1> HIDE DEF v, S, e
<1>5. SmallSample(v, S, e) BY <1>1, <1>2, <1>4 DEF SmallSample, Sample
<1>6. QED BY <1>5 DEF v, S, e

\* The IQR rule with its default multiplier keeps every source of a batch of
\* fewer than six in the exact range: what its tests call an outlier too.
IqrInertBelowSix ==
    Aggregating /\ job.batch.cfg.method = "iqr" /\ job.batch.cfg.iqr = DefaultIqr
                /\ Values(job.batch.values) \subseteq ExactRange
                /\ Cardinality(DOMAIN job.batch.values) < 6
        => job.batch.result.rejected = {}

\* The default IQR rule rejects nobody among fewer than six sources.
THEOREM IqrInertInBatches == Spec => []IqrInertBelowSix
<1>1. IInv => IqrInertBelowSix
  <2> SUFFICES ASSUME IInv, Aggregating, job.batch.cfg.method = "iqr",
                      job.batch.cfg.iqr = DefaultIqr,
                      Values(job.batch.values) \subseteq ExactRange,
                      Cardinality(DOMAIN job.batch.values) < 6
               PROVE  job.batch.result.rejected = {}
    BY DEF IqrInertBelowSix
  <2>1. PICK b \in Batch :
          /\ job.batch = [cfg |-> b.cfg, values |-> SourceValues(b), result |-> AggregateOf[b]]
          /\ AggregateOf[b] # NULL
    BY DEF IInv, JobAggregate, Aggregating
  <2> DEFINE v == SourceValues(b)
             S == DOMAIN b.results
             a == AggregateOf[b]
  <2>2. job.batch.cfg = b.cfg /\ job.batch.values = v /\ job.batch.result = a BY <2>1
  <2>3. a = Aggregate(b.cfg, v) BY <2>1 DEF AggregateOf
  <2>4. SmallSample(v, S, MaxExact \div 8) BY <2>2, ExactBatch
  <2>5. DOMAIN v = S BY DEF SourceValues
  <2>6. DefaultIqr \in Nat /\ DefaultIqr >= MultUnit BY FloatAssumption DEF DefaultIqr
  <2> HIDE DEF v, S, DefaultIqr
  <2>7. AcceptedIqr(v, DefaultIqr) = S BY <2>2, <2>4, <2>5, <2>6, IqrInert
  <2>8. Accepted(b.cfg, v) = S BY <2>2, <2>7 DEF Accepted
  <2>9. a.rejected = S \ S BY <2>1, <2>3, <2>5, <2>8 DEF Aggregate
  <2>10. QED BY <2>2, <2>9
<1>2. QED BY <1>1, IInvHolds, PTL

\* Sources that agree and are more than half by number and by weight decide what
\* aggregate_and_submit sends, for any number of sources, any weights, any values
\* in the exact range and every rejection rule.
THEOREM MajoritiesDecide == Spec => []MajorityDecides
<1>1. IInv => MajorityDecides
  <2> DEFINE Majority(x) ==
        LET v == job.batch.values
            w == job.batch.cfg.weight
            S == DOMAIN v
            M == {s \in S : v[s] = x}
        IN  2 * Cardinality(M) > Cardinality(S) /\ 2 * Weight(w, M) > Weight(w, S)
  <2> SUFFICES ASSUME IInv, Aggregating, job.batch.cfg.iqr >= 0, job.batch.cfg.mad >= 0,
                      Values(job.batch.values) \subseteq ExactRange,
                      NEW x \in Values(job.batch.values), Majority(x)
               PROVE  job.batch.result.value = x
    BY DEF MajorityDecides
  <2>1. PICK b \in Batch :
          /\ job.batch = [cfg |-> b.cfg, values |-> SourceValues(b), result |-> AggregateOf[b]]
          /\ AggregateOf[b] # NULL
    BY DEF IInv, JobAggregate, Aggregating
  <2> DEFINE v == SourceValues(b)
             S == DOMAIN b.results
             w == b.cfg.weight
  <2>2. /\ job.batch.cfg = b.cfg /\ job.batch.values = v /\ job.batch.result = AggregateOf[b]
    BY <2>1
  <2>3. ValidConfig(b.cfg) /\ AggregateOf[b] = Aggregate(b.cfg, v) BY <2>1 DEF AggregateOf
  <2>4. SmallSample(v, S, MaxExact \div 8) /\ DOMAIN v = S
    BY <2>2, ExactBatch DEF SourceValues
  <2>5. /\ b.cfg.method \in {"iqr", "mad", "none"} /\ b.cfg.iqr \in Nat /\ b.cfg.mad \in Nat
    BY <2>2, BridgeAssumption
  <2>6. Weighing(w, S)
    <3>1. S = b.cfg.sources BY <2>1, <2>3, <2>4 DEF Aggregate
    <3>2. \A s \in S : s \in DOMAIN w /\ w[s] > 0 BY <2>3, <3>1 DEF ValidConfig
    <3>3. \A s \in DOMAIN w : w[s] \in Int BY BridgeAssumption
    <3>4. QED BY <2>4, <3>2, <3>3, SmallSampleFacts DEF Weighing
  <2> HIDE DEF v, S, w
  <2>7. /\ 2 * Cardinality(Agreeing(v, x)) > Cardinality(S)
        /\ 2 * Weight(w, Agreeing(v, x)) > Weight(w, S)
    BY <2>2, <2>4 DEF Agreeing, w
  <2>8. x \in Int BY FloatAssumption DEF ExactRange
  <2>9. Aggregate(b.cfg, v).value = x
    BY <2>1, <2>3, <2>4, <2>5, <2>6, <2>7, <2>8, MajorityIsAggregate DEF w
  <2>10. QED BY <2>2, <2>3, <2>9
<1>2. QED BY <1>1, IInvHolds, PTL

-----------------------------------------------------------------------------
(***************************************************************************)
(* Damaged records                                                         *)
(***************************************************************************)

\* A record that to_dict made of a result the bridge could attest.
Genuine(d) ==
    \E type, r, agg :
        /\ d = ToDict(type, r, Attest(r), agg)
        /\ Attestable(r) /\ r.params # NULL /\ r.feed \in Feed

\* The fields of a genuine record and of its payload.
LEMMA GenuineFields ==
    ASSUME NEW d, Genuine(d)
    PROVE  /\ DOMAIN d = {"type", "script", "tag", "params", "phash", "value", "feed", "ts",
                          "pk", "sig", "payload", "agg"}
           /\ DOMAIN d.payload = {"version", "script", "params", "value", "ts", "feed"}
           /\ d.value \in Int /\ d.ts \in Int /\ d.params # NULL
           /\ d.phash = Hash(d.params) /\ d.payload.value = d.value /\ d.payload.ts = d.ts
           /\ d.payload.feed # NULL
           /\ d.pk = Key /\ d.sig = [key |-> Key, msg |-> d.payload]
<1>1. PICK type, r, agg :
        /\ d = ToDict(type, r, Attest(r), agg)
        /\ Attestable(r) /\ r.params # NULL /\ r.feed \in Feed
  BY DEF Genuine
<1>2. r.value \in Int /\ r.ts \in Int
  BY <1>1, BridgeAssumption DEF Attestable, FitsI64
<1>3. /\ DOMAIN d = {"type", "script", "tag", "params", "phash", "value", "feed", "ts",
                     "pk", "sig", "payload", "agg"}
      /\ d.value = r.value /\ d.ts = r.ts /\ d.params = r.params
      /\ d.phash = ParamsHash(r.params) /\ d.pk = Attest(r).pk /\ d.sig = Attest(r).sig
      /\ d.payload = Attest(r).payload
  BY <1>1 DEF ToDict
<1>4. /\ Attest(r).pk = Key /\ Attest(r).payload = Payload(r)
      /\ Attest(r).sig = [key |-> Key, msg |-> Payload(r)]
  BY DEF Attest, Sign
<1>5. /\ DOMAIN Payload(r) = {"version", "script", "params", "value", "ts", "feed"}
      /\ Payload(r).value = r.value /\ Payload(r).ts = r.ts /\ Payload(r).feed = Pad(r.feed)
  BY DEF Payload
<1>6. Pad(r.feed) # NULL
  BY <1>1, NullIsNoHash
<1>7. QED
  BY <1>1, <1>2, <1>3, <1>4, <1>5, <1>6 DEF ParamsHash

\* Hashing is injective.
LEMMA HashInjective == ASSUME NEW x, NEW y, Hash(x) = Hash(y) PROVE x = y
<1>1. Hash(x).hash = x /\ Hash(y).hash = y
  BY DEF Hash
<1>2. QED
  BY <1>1

\* Each way of damaging a genuine record fails the comparison of value and
\* timestamp, of the parameters' hash, or of the signature.
LEMMA DamageIsSeen ==
    ASSUME NEW d, Genuine(d), NEW x \in Damaged(d)
    PROVE  \/ ~(x.payload.value = x.value /\ x.payload.ts = x.ts)
           \/ ~VerifyParamsHash(x)
           \/ ~SignatureValid(x.pk, x.sig, x.payload)
<1>1. /\ "value" \in DOMAIN d /\ "ts" \in DOMAIN d /\ "params" \in DOMAIN d
      /\ "payload" \in DOMAIN d
      /\ "value" \in DOMAIN d.payload /\ "feed" \in DOMAIN d.payload
  BY GenuineFields
<1>2. /\ d.value \in Int /\ d.ts \in Int /\ d.params # NULL
      /\ d.phash = Hash(d.params) /\ d.payload.value = d.value /\ d.payload.ts = d.ts
      /\ d.payload.feed # NULL /\ d.sig = [key |-> Key, msg |-> d.payload]
  BY GenuineFields
<1>3. CASE x = [d EXCEPT !.value = d.value + 1]
  <2>1. x.value = d.value + 1 /\ x.payload = d.payload
    BY <1>1, <1>3
  <2>2. QED
    BY <1>2, <2>1
<1>4. CASE x = [d EXCEPT !.ts = d.ts + 1]
  <2>1. x.ts = d.ts + 1 /\ x.payload = d.payload
    BY <1>1, <1>4
  <2>2. QED
    BY <1>2, <2>1
<1>5. CASE x = [d EXCEPT !.params = NULL]
  <2>1. x.params = NULL /\ x.phash = d.phash
    BY <1>1, <1>5
  <2>2. Hash(NULL) # Hash(d.params)
    BY <1>2, HashInjective
  <2>3. QED
    BY <1>2, <2>1, <2>2 DEF VerifyParamsHash, ParamsHash
<1>6. CASE x = [d EXCEPT !.payload = [d.payload EXCEPT !.value = d.payload.value + 1]]
  <2>1. x.value = d.value /\ x.payload.value = d.payload.value + 1
    BY <1>1, <1>6
  <2>2. QED
    BY <1>2, <2>1
<1>7. CASE x = [d EXCEPT !.payload = [d.payload EXCEPT !.feed = NULL]]
  <2>1. x.sig = d.sig /\ x.payload.feed = NULL
    BY <1>1, <1>7
  <2>2. d.sig.msg = d.payload
    BY <1>2
  <2>3. SignatureValid(x.pk, x.sig, x.payload) => x.sig.msg = x.payload
    BY DEF SignatureValid
  <2>4. x.payload # d.payload
    BY <1>2, <2>1
  <2>5. QED
    BY <2>1, <2>2, <2>3, <2>4
<1>8. \/ x = [d EXCEPT !.value = d.value + 1]
      \/ x = [d EXCEPT !.ts = d.ts + 1]
      \/ x = [d EXCEPT !.params = NULL]
      \/ x = [d EXCEPT !.payload = [d.payload EXCEPT !.value = d.payload.value + 1]]
      \/ x = [d EXCEPT !.payload = [d.payload EXCEPT !.feed = NULL]]
  BY Zenon DEF Damaged
<1>9. QED
  BY <1>3, <1>4, <1>5, <1>6, <1>7, <1>8

\* A genuine record read back passes verify_hashes, unless its value or its
\* timestamp was altered.
LEMMA ReadBack ==
    ASSUME NEW d, Genuine(d)
    PROVE  /\ VerifyHashes(FromDict(d))
           /\ ~VerifyHashes(FromDict([d EXCEPT !.value = d.value + 1]))
           /\ ~VerifyHashes(FromDict([d EXCEPT !.ts = d.ts + 1]))
<1>1. /\ "value" \in DOMAIN d /\ "ts" \in DOMAIN d /\ "params" \in DOMAIN d
      /\ "payload" \in DOMAIN d /\ "phash" \in DOMAIN d
      /\ d.value \in Int /\ d.ts \in Int
      /\ d.payload.value = d.value /\ d.payload.ts = d.ts
  BY GenuineFields
<1>2. VerifyHashes(FromDict(d))
  <2>1. /\ FromDict(d).phash = ParamsHash(d.params) /\ FromDict(d).params = d.params
        /\ FromDict(d).payload = d.payload
        /\ FromDict(d).value = d.value /\ FromDict(d).ts = d.ts
    BY <1>1 DEF FromDict
  <2>2. QED
    BY <1>1, <2>1 DEF VerifyHashes
<1>3. ~VerifyHashes(FromDict([d EXCEPT !.value = d.value + 1]))
  <2> DEFINE x == [d EXCEPT !.value = d.value + 1]
  <2>1. x.value = d.value + 1 /\ x.payload = d.payload /\ DOMAIN x = DOMAIN d
    BY <1>1
  <2> HIDE DEF x
  <2>2. FromDict(x).value = x.value /\ FromDict(x).payload = x.payload
    BY <1>1, <2>1 DEF FromDict
  <2>3. ~VerifyHashes(FromDict(x))
    BY <1>1, <2>1, <2>2 DEF VerifyHashes
  <2>4. QED
    BY <2>3 DEF x
<1>4. ~VerifyHashes(FromDict([d EXCEPT !.ts = d.ts + 1]))
  <2> DEFINE x == [d EXCEPT !.ts = d.ts + 1]
  <2>1. x.ts = d.ts + 1 /\ x.payload = d.payload /\ DOMAIN x = DOMAIN d
    BY <1>1
  <2> HIDE DEF x
  <2>2. FromDict(x).ts = x.ts /\ FromDict(x).payload = x.payload
    BY <1>1, <2>1 DEF FromDict
  <2>3. ~VerifyHashes(FromDict(x))
    BY <1>1, <2>1, <2>2 DEF VerifyHashes
  <2>4. QED
    BY <2>3 DEF x
<1>5. QED
  BY <1>2, <1>3, <1>4

\* Whatever is pinned, or about to be, is genuine, and verifies while it is intact.
PinnedInv ==
    /\ \A d \in pinned : Genuine(d) /\ CmdVerify(d, mode.jsonschema)
    /\ job # NULL => Genuine(job.rec)

\* A call starts with a genuine record.
LEMMA StartJobGenuine ==
    ASSUME NEW type, NEW r, NEW agg, NEW batch, StartJob(type, r, agg, batch),
           r.params # NULL, r.feed \in Feed
    PROVE  Genuine(job'.rec) /\ UNCHANGED <<mode, pinned>>
<1> DEFINE rec == ToDict(type, r, Attest(r), agg)
<1>1. job' = [stage |-> "pin", att |-> Attest(r), rec |-> rec, cid |-> NULL, batch |-> batch]
  BY DEF StartJob
<1>2. Genuine(rec)
  BY DEF StartJob, Genuine
<1> HIDE DEF rec
<1>3. job'.rec = rec
  BY <1>1
<1>4. QED
  BY <1>2, <1>3 DEF StartJob

LEMMA AggregateGenuine ==
    ASSUME NEW b \in Batch, AggregateAndSubmit(b)
    PROVE  Genuine(job'.rec) /\ UNCHANGED <<mode, pinned>>
<1> DEFINE a == AggregateOf[b]
           r == Synthetic(b, a)
           batch == [cfg |-> b.cfg, values |-> SourceValues(b), result |-> a]
<1>1. a # NULL /\ StartJob("aggregated", r, a, batch)
  BY DEF AggregateAndSubmit
<1>2. r.params = a /\ r.feed = b.results[1].feed
  BY DEF Synthetic, GEEResult
<1>3. b.results[1].feed \in Feed
  BY BridgeAssumption
<1> HIDE DEF a, r, batch
<1>4. QED
  BY <1>1, <1>2, <1>3, StartJobGenuine

LEMMA PinnedStep ==
    ASSUME IInv, PinnedInv, [Next]_vars
    PROVE  PinnedInv'
<1>1. CASE \E r \in Result : Process(r)
  <2>1. PICK r \in Result : StartJob("single", r, NULL, NULL)
    BY <1>1 DEF Process
  <2>2. r.params # NULL /\ r.feed \in Feed
    BY BridgeAssumption
  <2>3. QED
    BY <2>1, <2>2, StartJobGenuine DEF PinnedInv
<1>2. CASE \E b \in Batch : AggregateAndSubmit(b) \/ CmdSubmit(b)
  <2>1. PICK b \in Batch : AggregateAndSubmit(b)
    BY <1>2 DEF CmdSubmit
  <2>2. QED
    BY <2>1, AggregateGenuine DEF PinnedInv
<1>3. CASE Pin \/ PinFails
  <2>1. job # NULL /\ Genuine(job.rec) /\ CmdVerify(job.rec, mode.jsonschema)
    BY <1>3 DEF Pin, PinFails, At, PinnedInv, IInv, JobDocumented
  <2>2. pinned' \subseteq pinned \cup {job.rec} /\ mode' = mode
    BY <1>3 DEF Pin, PinFails, Continue, Ended
  <2>3. job' # NULL => job'.rec = job.rec
    BY <1>3 DEF Pin, PinFails, Continue, Ended
  <2>4. QED
    BY <2>1, <2>2, <2>3 DEF PinnedInv
<1>4. CASE SubmitFallsBack
  <2>1. job # NULL /\ job'.rec = job.rec /\ UNCHANGED <<mode, pinned>>
    BY <1>4 DEF SubmitFallsBack, At, Continue
  <2>2. QED
    BY <2>1 DEF PinnedInv
<1>5. CASE CidRefused \/ SubmitWithCid \/ SubmitRaises \/ SubmitPlain
  BY <1>5 DEF CidRefused, SubmitWithCid, SubmitRaises, SubmitPlain, Ended, PinnedInv
<1>6. CASE Crash
  BY <1>6 DEF Crash, PinnedInv
<1>7. CASE UNCHANGED <<mode, job, pinned>>
  BY <1>7 DEF PinnedInv
<1>8. QED
  BY <1>1, <1>2, <1>3, <1>4, <1>5, <1>6, <1>7 DEF Next, vars, Commit, Reveal

\* A pinned record passes every check of the verifier, of the demo server and of
\* verify_hashes as it is, and fails one once its value, its timestamp, its
\* parameters or its signed payload is altered: the checks overlap enough that no
\* field they are about is left unbound.
THEOREM DamageIsDetected == Spec => []DamageDetected
<1>1. Init => PinnedInv
  BY DEF Init, PinnedInv
<1>2. IInv /\ PinnedInv /\ [Next]_vars => PinnedInv'
  BY PinnedStep
<1>3. PinnedInv => DamageDetected
  <2> SUFFICES ASSUME PinnedInv, NEW d \in pinned
               PROVE  /\ HandleVerify(d, mode.jsonschema)
                      /\ \A x \in Damaged(d) :
                            ~CmdVerify(x, mode.jsonschema) /\ ~HandleVerify(x, mode.jsonschema)
                      /\ VerifyHashes(FromDict(d))
                      /\ ~VerifyHashes(FromDict([d EXCEPT !.value = d.value + 1]))
                      /\ ~VerifyHashes(FromDict([d EXCEPT !.ts = d.ts + 1]))
    BY DEF DamageDetected
  <2>1. Genuine(d) /\ CmdVerify(d, mode.jsonschema)
    BY DEF PinnedInv
  <2>2. HandleVerify(d, mode.jsonschema)
    BY <2>1 DEF CmdVerify, HandleVerify, VerifyPayloadFields
  <2>3. \A x \in Damaged(d) : ~CmdVerify(x, mode.jsonschema)
                                /\ ~HandleVerify(x, mode.jsonschema)
    BY <2>1, DamageIsSeen DEF CmdVerify, HandleVerify, VerifyPayloadFields
  <2>4. QED
    BY <2>1, <2>2, <2>3, ReadBack
<1>4. QED
  BY <1>1, <1>2, <1>3, IInvHolds, PTL DEF Spec

=============================================================================
