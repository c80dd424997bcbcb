--------------------------- MODULE MCIdempotency ---------------------------
(***************************************************************************)
(* Instance of Idempotency for TLC: a listing, purchases of one and of two *)
(* credits of it, and a retirement, all free to meet under the same key.   *)
(***************************************************************************)
EXTENDS Idempotency

CONSTANT k1

Bodies(listed) == {[op |-> "list",   qty |-> listed, listing |-> k1],
                   [op |-> "buy",    qty |-> 1,      listing |-> k1],
                   [op |-> "buy",    qty |-> 2,      listing |-> k1],
                   [op |-> "retire", qty |-> 1,      listing |-> k1]}

\* One credit: both purchases compete for it, one asks for too much.
OneListed == Bodies(1)

\* Three credits: a key may buy one and, after the TTL, two more.
ThreeListed == Bodies(3)

=============================================================================
