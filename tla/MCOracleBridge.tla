--------------------------- MODULE MCOracleBridge ---------------------------
(***************************************************************************)
(* Two feeds that fit in 32 bytes and one that does not, results that are  *)
(* valid, overflow, or only pass without jsonschema, and batches of two to *)
(* six sources, some of three with values that floats round.               *)
(***************************************************************************)
EXTENDS OracleBridge

CONSTANTS soil, forest, long, script, p1, p2

Gee(params, value, ts, feed, tag) ==
    GEEResult(script, params, value, ts, feed, tag)

MCResult ==
    {Gee(p1, 5, 1, soil, "v1"), Gee(p2, 7, 2, soil, "v1"), Gee(p1, 5, 1, forest, "v1"),
     Gee(p1, 5, -1, soil, "v1"),
     Gee(p1, 100, 1, soil, "v1"), Gee(p1, 5, 1, long, "v1")}

MCMode ==
    {[client |-> m[1], backend |-> m[2], jsonschema |-> m[3]] :
        m \in {<<"cid", "local", TRUE>>, <<"cid", "local", FALSE>>, <<"plain", "local", TRUE>>,
               <<"cid", "simulated", TRUE>>, <<"dry", "simulated", FALSE>>}}

\* Ascending values: the order of the sources does not matter to the code.
Ascending(n) ==
    {v \in [1..n -> {0, 1, 4}] \cup (IF n = 3 THEN [1..n -> 32..33] ELSE {}) :
        \A i \in 1..(n - 1) : v[i] <= v[i + 1]}

\* One source may weigh three times the others: the lowest of three, the
\* highest of four.
Configs(n) ==
    {[sources |-> 1..n,
      weight |-> [s \in 1..n |-> IF s = (IF n = 3 THEN 1 ELSE n) THEN w ELSE 1],
      method |-> m, iqr |-> DefaultIqr, mad |-> DefaultMad, min |-> 1] :
        w \in (IF n \in {3, 4} THEN {1, 3} ELSE {1}), m \in {"iqr", "mad", "none"}}

MCBatch ==
    {[cfg |-> c, results |-> [s \in DOMAIN v |-> Gee(p1, v[s], s, soil, "v1")]] :
        <<c, v>> \in UNION {Configs(n) \X Ascending(n) : n \in 2..6}}
    \cup
    {[cfg |-> [c EXCEPT !.min = 6],
      results |-> [s \in 1..6 |-> Gee(p1, IF s = 6 THEN 4 ELSE 0, s, soil, "v1")]] :
        c \in Configs(6)}

=============================================================================
