-------------------------- MODULE PriceAggregation --------------------------
(***************************************************************************)
(* oracle-bridge: PriceAggregator.  Operators over v, the integer value of *)
(* each source, and w, its weight.  Weights are integers (they matter only *)
(* up to a common factor), at most MaxExact in all, so that adding them up *)
(* rounds nothing.                                                         *)
(*                                                                         *)
(* Quartiles, medians, deviations and bounds are floats in the code.  They *)
(* are kept here as integers, multiplied by a power of two where they have *)
(* a fraction, and rounded at every operation the code rounds at.          *)
(***************************************************************************)
EXTENDS Integers, FiniteSets, FiniteSetsExt

CONSTANTS
    NULL,
    MaxExact,  \* every integer up to it is a float: 2^53
    Scale,     \* what the last digit of a float may be worth: the powers of two
    MultUnit   \* a multiplier is an integer, in units of 1/MultUnit

ASSUME FloatAssumption ==
    /\ MaxExact \in Nat
    /\ Scale \subseteq Nat \ {0}
    /\ 1 \in Scale /\ MultUnit \in Scale

Distance(m, n) == IF m >= n THEN m - n ELSE n - m

\* The integers that a float can be.
Floats == {q * u : q \in -MaxExact .. MaxExact, u \in Scale}

Nearest(n) ==
    LET gap == Min({Distance(n, f) : f \in Floats})
    IN  {f \in Floats : Distance(n, f) = gap}

\* The float nearest to n; of two, the one whose last digit is even.
Round(n) ==
    CHOOSE f \in Nearest(n) :
        \A g \in Nearest(n) \ {f} :
            f % (2 * Distance(f, g)) = 0 \/ g % (2 * Distance(f, g)) # 0

\* Integers so small that nothing computed from them below is rounded.
ExactRange == -(MaxExact \div 8) .. (MaxExact \div 8)

\* Total weight of the sources in S.
Weight(w, S) == SumFunctionOnSet(w, S)

Restricted(f, S) == [s \in S |-> f[s]]

Values(v) == {v[s] : s \in DOMAIN v}

\* sorted(values)[k - 1]: the k-th smallest value.
Nth(v, k) ==
    CHOOSE x \in Values(v) :
        /\ Cardinality({s \in DOMAIN v : v[s] <= x}) >= k
        /\ Cardinality({s \in DOMAIN v : v[s] < x}) < k

-----------------------------------------------------------------------------
(***************************************************************************)
(* Outlier rejection                                                       *)
(***************************************************************************)

\* iqr_multiplier and mad_multiplier unless the caller sets them: 1.5 and 2.24.
DefaultIqr == (3 * MultUnit) \div 2
DefaultMad == (224 * MultUnit + 50) \div 100

\* _percentile(values, 25 q), times four: rank q(n+1)/4, interpolated between
\* its neighbours.
Quartile(v, q) ==
    LET n == Cardinality(DOMAIN v)
        rank == q * (n + 1)
        lower == rank \div 4
        step == Nth(v, lower + 1) - Nth(v, lower)
    IN  IF rank < 4 THEN 4 * Round(Nth(v, 1))
        ELSE IF rank >= 4 * n THEN 4 * Round(Nth(v, n))
        ELSE Round(4 * Round(Nth(v, lower)) + Round((rank % 4) * Round(step)))

\* lower_bound <= x <= upper_bound, for four times the quartiles.  Both bounds
\* are floats; the comparison with an integer is exact.
WithinIqr(x, q1, q3, m) ==
    LET reach == Round(m * Round(q3 - q1))
    IN  /\ Round(MultUnit * q1 - reach) <= 4 * MultUnit * x
        /\ 4 * MultUnit * x <= Round(MultUnit * q3 + reach)

AcceptedIqr(v, m) ==
    IF Cardinality(DOMAIN v) <= 2 THEN DOMAIN v
    ELSE {s \in DOMAIN v : WithinIqr(v[s], Quartile(v, 1), Quartile(v, 3), m)}

Odd(v) == Cardinality(DOMAIN v) % 2 = 1

\* statistics.median, doubled: of an even number of values it is a float.
Median2(v) ==
    LET n == Cardinality(DOMAIN v)
    IN  IF Odd(v) THEN 2 * Nth(v, (n + 1) \div 2)
        ELSE Round(Nth(v, n \div 2) + Nth(v, n \div 2 + 1))

\* abs(value - median), doubled.
Deviation2(v) ==
    [s \in DOMAIN v |-> IF Odd(v) THEN Distance(2 * v[s], Median2(v))
                        ELSE Distance(Round(2 * Round(v[s]) - Median2(v)), 0)]

AcceptedMad(v, m) ==
    LET mad4 == Median2(Deviation2(v))
    IN  IF Cardinality(DOMAIN v) <= 1 \/ mad4 = 0 THEN DOMAIN v
        ELSE {s \in DOMAIN v : 2 * MultUnit * Deviation2(v)[s] <= Round(m * Round(mad4))}

\* aggregate's call of _reject_outliers: the sources that stay.
Accepted(cfg, v) ==
    CASE cfg.method = "iqr"  -> AcceptedIqr(v, cfg.iqr)
      [] cfg.method = "mad"  -> AcceptedMad(v, cfg.mad)
      [] cfg.method = "none" -> DOMAIN v

-----------------------------------------------------------------------------
(***************************************************************************)
(* Weighted median                                                         *)
(***************************************************************************)

\* Mutant: the weighted mean, rounded down.
WeightedMean(v, w) ==
    MapThenSumSet(LAMBDA s : v[s] * w[s], DOMAIN v) \div Weight(w, DOMAIN v)

\* The first value, in ascending order, at which the accumulated weight
\* reaches half of the total.
WeightedMedian(v, w) ==
    LET half == {x \in Values(v) :
                    2 * Weight(w, {s \in DOMAIN v : v[s] <= x}) >= Weight(w, DOMAIN v)}
    IN  CHOOSE x \in half : \A y \in half : x <= y

ValidConfig(cfg) ==
    /\ cfg.sources \subseteq DOMAIN cfg.weight
    /\ \A s \in DOMAIN cfg.weight : cfg.weight[s] > 0
    /\ cfg.min >= 1

\* aggregate: NULL where it raises (other sources than the configured ones, or
\* too few left).
Aggregate(cfg, v) ==
    LET kept == Accepted(cfg, v)
    IN  IF DOMAIN v # cfg.sources \/ Cardinality(kept) < cfg.min THEN NULL
        ELSE [value    |-> WeightedMedian(Restricted(v, kept), Restricted(cfg.weight, kept)),
              values   |-> Restricted(v, kept),
              weights  |-> Restricted(cfg.weight, kept),
              rejected |-> DOMAIN v \ kept,
              method   |-> cfg.method]

=============================================================================
