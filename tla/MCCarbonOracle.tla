--------------------------- MODULE MCCarbonOracle ---------------------------
(***************************************************************************)
(* Instance of CarbonOracle for TLC: prices of an i64 from -4 to 3, the    *)
(* smallest one, one that doubles exactly, and one whose fall saturates.   *)
(***************************************************************************)
EXTENDS CarbonOracle, TLC

MCValue == {-4, 1, 2}

KeySymmetry == Permutations(Key)

=============================================================================
