---------------------------- MODULE MCKraalLoans ----------------------------
(***************************************************************************)
(* Instance of KraalLoans for TLC: 10 basis points to one, a year of two   *)
(* ledgers, three configurations.                                          *)
(***************************************************************************)
EXTENDS KraalLoans

\* Just the margin and no fee; narrow margin with fee and bonus; an invalid one.
MCConfig == {[ratio |-> 5, threshold |-> 6, bonus |-> 0, rate |-> 5, fee |-> 0],
             [ratio |-> 8, threshold |-> 9, bonus |-> 1, rate |-> 5, fee |-> 1],
             [ratio |-> 9, threshold |-> 9, bonus |-> 1, rate |-> 5, fee |-> 1]}

\* A negative amount, which the code accepts, zero, and two positive ones.
MCStroops == {-1, 0, 2, 5}

=============================================================================
