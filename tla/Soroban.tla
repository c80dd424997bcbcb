------------------------------ MODULE Soroban ------------------------------
(***************************************************************************)
(* What every contract takes from the host it runs in: the ledger whose    *)
(* sequence number it reads, and storage that may have no entry.           *)
(***************************************************************************)
EXTENDS Integers

CONSTANTS
    MaxLedger,  \* bound: last ledger explored (the host's is the largest u32)
    NULL        \* no entry

ASSUME SorobanAssumption == MaxLedger \in Nat

Ledger == 0 .. MaxLedger

VARIABLE ledger     \* e.ledger().sequence()

=============================================================================
