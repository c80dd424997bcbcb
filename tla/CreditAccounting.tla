-------------------------- MODULE CreditAccounting --------------------------
(***************************************************************************)
(* What the three carbon contracts promise about credits, seen per         *)
(* project: credits enter circulation in step with the registry's counter  *)
(* of issued credits and leave it when they are retired, and nothing else  *)
(* moves the three numbers, except that registering a project again        *)
(* restarts its counter.  Sales and transfers are invisible here.          *)
(***************************************************************************)
EXTENDS Integers

CONSTANT Project

VARIABLES outstanding, retired, issued

Init ==
    /\ outstanding = [p \in Project |-> 0]
    /\ retired = [p \in Project |-> 0]
    /\ issued = [p \in Project |-> 0]

Grant(p) ==
    /\ issued'[p] > issued[p]
    /\ issued' = [issued EXCEPT ![p] = issued'[p]]
    /\ outstanding' = [outstanding EXCEPT ![p] = @ + (issued'[p] - issued[p])]
    /\ UNCHANGED retired

Retire(p) ==
    /\ retired'[p] > retired[p]
    /\ retired' = [retired EXCEPT ![p] = retired'[p]]
    /\ outstanding' = [outstanding EXCEPT ![p] = @ - (retired'[p] - retired[p])]
    /\ UNCHANGED issued

Restart(p) ==
    /\ issued' = [issued EXCEPT ![p] = 0]
    /\ UNCHANGED <<outstanding, retired>>

Next == \E p \in Project : Grant(p) \/ Retire(p) \/ Restart(p)

Spec == Init /\ [][Next]_<<outstanding, retired, issued>>

=============================================================================
