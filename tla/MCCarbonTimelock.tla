-------------------------- MODULE MCCarbonTimelock --------------------------
(***************************************************************************)
(* Instance of CarbonTimelock for TLC: the delays 17280, 8640 and 100      *)
(* shrunk to 3, 2 and 1, and a u32 that ends after ten ledgers.            *)
(***************************************************************************)
EXTENDS CarbonTimelock, TLC

MCMinimumDelay == [t \in OperationType |->
    CASE t = "Generic"          -> 1
      [] t = "PauseMarketplace" -> 2
      [] OTHER                  -> 3]

TimelockSymmetry == Permutations(Address) \cup Permutations(OpId) \cup Permutations(Params)

=============================================================================
