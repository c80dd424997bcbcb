------------------------ MODULE MCCarbonMarketplace ------------------------
(***************************************************************************)
(* Instance of CarbonMarketplace for TLC.  A project may be issued whole   *)
(* in two mints of one credit each.                                        *)
(***************************************************************************)
EXTENDS CarbonMarketplace, TLC

AddressSymmetry == Permutations(Address)

SeenProject(p) ==
    IF projects[p] = NULL THEN NULL ELSE [projects[p] EXCEPT !.status = IsVerified(p)]

(***************************************************************************)
(* What the contracts tell apart.  Of a project's status they ask whether  *)
(* it is Verified, and any status may follow any other; of the oracle they *)
(* ask, once it is configured, whether its answer is a fresh price, and    *)
(* the answer may change at any time.                                      *)
(***************************************************************************)
Seen == <<registryAdmin, [p \in ProjectId |-> SeenProject(p)], overwritten, creditVars,
          marketVars, ledger, oracleSet /\ oracleView # "Fresh">>

=============================================================================
