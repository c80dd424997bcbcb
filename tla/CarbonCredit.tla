---------------------------- MODULE CarbonCredit ----------------------------
(***************************************************************************)
(* contracts/carbon_credit: balances, supply, retirement.                  *)
(*                                                                         *)
(* The contract's storage is one value.  mint and burn can be authorised   *)
(* by the marketplace contract only, which calls several of them in one    *)
(* invocation, so they are operators on that value: Can... is the          *)
(* conjunction of the checks, the participle the storage afterwards.       *)
(* An absent balance or supply entry reads as zero and a zero is removed   *)
(* (write_amount_or_remove), so total functions stand for the entries.     *)
(***************************************************************************)
EXTENDS CarbonRegistry

CONSTANTS OperationId       \* identifiers callers attach to a retire

VARIABLES
    creditAdmin,    \* instance CONFIG: the administrator, or NULL
    credit          \* persistent entries of the contract

creditVars == <<creditAdmin, credit>>

CreditStorage ==
    [balance   : [Address -> [ProjectId -> 0 .. MaxI128]],
     supply    : [ProjectId -> Int],
     retired   : [ProjectId -> 0 .. MaxI128],
     retireOps : SUBSET OperationId]

CreditTypeOK ==
    /\ creditAdmin \in Admin \cup {NULL}
    /\ credit \in CreditStorage

CreditInit ==
    /\ creditAdmin = NULL
    /\ credit = [balance   |-> [a \in Address |-> [p \in ProjectId |-> 0]],
                 supply    |-> [p \in ProjectId |-> 0],
                 retired   |-> [p \in ProjectId |-> 0],
                 retireOps |-> {}]

-----------------------------------------------------------------------------

\* Write an account's balance entry, or a project's counter, changed by delta.
BalanceBy(balance, a, p, delta) ==
    [balance EXCEPT ![a] = [balance[a] EXCEPT ![p] = balance[a][p] + delta]]

CounterBy(counter, p, delta) == [counter EXCEPT ![p] = counter[p] + delta]

CanMint(c, to, p, amount) ==
    /\ creditAdmin # NULL
    /\ amount > 0
    /\ IsVerified(p)
    /\ c.balance[to][p] + amount <= MaxI128
    /\ c.supply[p] + amount <= MaxI128

Minted(c, to, p, amount) ==
    [balance   |-> BalanceBy(c.balance, to, p, amount),
     supply    |-> CounterBy(c.supply, p, amount),
     retired   |-> c.retired,
     retireOps |-> c.retireOps]

CanBurn(c, from, p, amount) ==
    /\ creditAdmin # NULL
    /\ amount > 0
    /\ c.balance[from][p] >= amount

\* Mutants: burn forgets one of its two writes.
BurnedKeepingSupply(c, from, p, amount) ==
    [c EXCEPT !.balance = BalanceBy(c.balance, from, p, -amount)]

BurnedKeepingBalance(c, from, p, amount) ==
    [c EXCEPT !.supply = CounterBy(c.supply, p, -amount)]

Burned(c, from, p, amount) ==
    [balance   |-> BalanceBy(c.balance, from, p, -amount),
     supply    |-> CounterBy(c.supply, p, -amount),
     retired   |-> c.retired,
     retireOps |-> c.retireOps]

\* A transfer to oneself succeeds before the balance is looked at.
CanTransfer(c, from, to, p, amount) ==
    /\ creditAdmin # NULL
    /\ amount > 0
    /\ \/ from = to
       \/ /\ c.balance[from][p] >= amount
          /\ c.balance[to][p] + amount <= MaxI128

\* Mutant: both balances are read before either is written, also when from = to.
TransferredFromStale(c, from, to, p, amount) ==
    [c EXCEPT !.balance = [BalanceBy(c.balance, from, p, -amount)
                              EXCEPT ![to][p] = c.balance[to][p] + amount]]

Transferred(c, from, to, p, amount) ==
    IF from = to THEN c
    ELSE [balance   |-> BalanceBy(BalanceBy(c.balance, from, p, -amount), to, p, amount),
          supply    |-> c.supply,
          retired   |-> c.retired,
          retireOps |-> c.retireOps]

\* Mutant: retire without its deduplication guard.
CanRetireAgain(c, from, p, amount, op) ==
    /\ creditAdmin # NULL
    /\ amount > 0
    /\ c.balance[from][p] >= amount
    /\ c.retired[p] + amount <= MaxI128

CanRetire(c, from, p, amount, op) ==
    /\ creditAdmin # NULL
    /\ amount > 0
    /\ op \notin c.retireOps
    /\ c.balance[from][p] >= amount
    /\ c.retired[p] + amount <= MaxI128

RetiredBy(c, from, p, amount, op) ==
    [balance   |-> BalanceBy(c.balance, from, p, -amount),
     supply    |-> CounterBy(c.supply, p, -amount),
     retired   |-> CounterBy(c.retired, p, amount),
     retireOps |-> c.retireOps \cup {op}]

-----------------------------------------------------------------------------
(***************************************************************************)
(* Entry points that holders call themselves                               *)
(***************************************************************************)

InitializeCredit(admin) ==
    /\ creditAdmin = NULL
    /\ creditAdmin' = admin
    /\ UNCHANGED credit

Transfer(from, to, p, amount) ==
    /\ CanTransfer(credit, from, to, p, amount)
    /\ credit' = Transferred(credit, from, to, p, amount)
    /\ UNCHANGED creditAdmin

(***************************************************************************)
(* batch_transfer applies its transfers in order and fails as a whole.     *)
(* Batches of two show both; one of one is Transfer.                       *)
(***************************************************************************)
BatchTransfer(from, to1, p1, amount1, to2, p2, amount2) ==
    LET mid == Transferred(credit, from, to1, p1, amount1)
    IN  /\ CanTransfer(credit, from, to1, p1, amount1)
        /\ CanTransfer(mid, from, to2, p2, amount2)
        /\ credit' = Transferred(mid, from, to2, p2, amount2)
        /\ UNCHANGED creditAdmin

Retire(from, p, amount, op) ==
    /\ CanRetire(credit, from, p, amount, op)
    /\ credit' = RetiredBy(credit, from, p, amount, op)
    /\ UNCHANGED creditAdmin

CreditNext ==
    \/ \E admin \in Admin : InitializeCredit(admin)
    \/ \E from, to \in Address, p \in ProjectId, amount \in Amount :
           Transfer(from, to, p, amount)
    \/ \E from, to1, to2 \in Address, p1, p2 \in ProjectId,
          amount1, amount2 \in Amount :
           BatchTransfer(from, to1, p1, amount1, to2, p2, amount2)
    \/ \E from \in Address, p \in ProjectId, amount \in Amount, op \in OperationId :
           Retire(from, p, amount, op)

=============================================================================
