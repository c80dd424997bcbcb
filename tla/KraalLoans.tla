----------------------------- MODULE KraalLoans -----------------------------
(***************************************************************************)
(* contracts/stellarkraal: livestock as collateral, loans against it,      *)
(* repayment and liquidation.  The price feed of the same contract, which  *)
(* lending never reads, is the module KraalPrices.                         *)
(*                                                                         *)
(* Invocations are atomic and a failing one is rolled back, so each entry  *)
(* point is one action whose guard is the conjunction of its checks.       *)
(***************************************************************************)
EXTENDS Soroban

CONSTANTS
    Address,        \* owners, borrowers
    Config,         \* configurations initialize may be called with
    Value,          \* appraised values: any i128, not validated
    Stroops,        \* principals and repayments: any i128, not validated
    BPS,            \* 10_000 basis points
    LedgersPerYear, \* LEDGERS_PER_YEAR
    MaxI128,        \* largest i128
    MaxLoans,       \* bound: loans opened (the code's limit is u64::MAX)
    MaxBalance      \* bound: debts followed, as repaying a negative amount has no limit

ASSUME KraalAssumption ==
    /\ Config \subseteq [ratio : Int, threshold : Int, bonus : Int, rate : Int, fee : Int]
    /\ Value \subseteq Int
    /\ Stroops \subseteq Int
    /\ BPS \in Nat \ {0}
    /\ LedgersPerYear \in Nat \ {0}
    /\ MaxI128 \in Nat
    /\ MaxLoans \in Nat
    /\ MaxBalance \in Nat

\* The identifier hashes the ledger sequence and nothing else (SHA-256 is taken
\* to be injective, so what is hashed stands for the hash).
AssetId == Ledger

AssetIdOf(owner, seq) == seq

\* The identifier of a loan hashes the ledger, the asset and the loan counter.
LoanId == [ledger : Ledger, asset : AssetId, nonce : 1 .. MaxLoans]

\* Mutant: the identifier before the loan counter was added.
LoanIdWithoutNonce(seq, asset, nonce) == [ledger |-> seq, asset |-> asset, nonce |-> 1]

LoanIdOf(seq, asset, nonce) == [ledger |-> seq, asset |-> asset, nonce |-> nonce]

Asset == [owner : Address, value : Int, onLoan : BOOLEAN]

Loan == [borrower : Address, asset : AssetId, principal : Int, balance : Int,
         updated : Ledger, active : BOOLEAN]

ASSUME NullIsNoRecord == NULL \notin Asset /\ NULL \notin Loan /\ NULL \notin Config

VARIABLES
    config,         \* instance CONFIG, or NULL
    assets,         \* persistent ASSET entries, NULL where absent
    loans,          \* persistent LOAN entries, NULL where absent
    loanCounter,    \* instance LOANCTR
    overwritten     \* history: asset identifiers whose entry was replaced

vars == <<config, assets, loans, loanCounter, ledger, overwritten>>

TypeOK ==
    /\ config \in Config \cup {NULL}
    /\ assets \in [AssetId -> Asset \cup {NULL}]
    /\ loans \in [LoanId -> Loan \cup {NULL}]
    /\ loanCounter \in 0 .. MaxLoans
    /\ ledger \in Ledger
    /\ overwritten \subseteq AssetId

Init ==
    /\ config = NULL
    /\ assets = [a \in AssetId |-> NULL]
    /\ loans = [id \in LoanId |-> NULL]
    /\ loanCounter = 0
    /\ ledger = 0
    /\ overwritten = {}

-----------------------------------------------------------------------------
(***************************************************************************)
(* Arithmetic on i128: checked operations fail outside its range, and      *)
(* division truncates towards zero.                                        *)
(***************************************************************************)

Fits(n) == n \in -MaxI128 - 1 .. MaxI128

Saturate(n) == IF n > MaxI128 THEN MaxI128
               ELSE IF n < -MaxI128 - 1 THEN -MaxI128 - 1 ELSE n

Magnitude(n) == IF n < 0 THEN -n ELSE n

TruncDiv(n, d) ==
    LET q == Magnitude(n) \div Magnitude(d)
    IN  IF (n < 0) = (d < 0) THEN q ELSE -q

\* accrue
Interest(balance, rate, elapsed) ==
    TruncDiv(balance * rate * elapsed, BPS * LedgersPerYear)

CanAccrue(balance, rate, elapsed) ==
    /\ Fits(balance * rate)
    /\ Fits(balance * rate * elapsed)
    /\ Fits(BPS * LedgersPerYear)
    /\ Fits(balance + Interest(balance, rate, elapsed))

Accrued(balance, rate, elapsed) == balance + Interest(balance, rate, elapsed)

\* What a loan owes once accrue has run for the ledgers since its last update.
Owed(l) == Accrued(l.balance, config.rate, ledger - l.updated)

CanTouch(l) ==
    /\ l # NULL
    /\ l.active
    /\ CanAccrue(l.balance, config.rate, ledger - l.updated)

\* health_factor_inner; a loan that owes nothing has the factor i128::MAX.
CanRate(value, balance) ==
    /\ Fits(value * config.threshold)
    /\ Fits(value * config.threshold * 100)
    /\ Fits(balance * BPS)

HealthFactor(value, balance) ==
    IF balance = 0 THEN MaxI128
    ELSE TruncDiv(value * config.threshold * 100, balance * BPS)

-----------------------------------------------------------------------------
(***************************************************************************)
(* Entry points                                                            *)
(***************************************************************************)

Initialize(c) ==
    /\ config = NULL
    /\ c.ratio > 0 /\ c.ratio <= BPS
    /\ c.threshold > c.ratio /\ c.threshold <= BPS
    /\ config' = c
    /\ UNCHANGED <<assets, loans, loanCounter, ledger, overwritten>>

RegisterAsset(owner, value) ==
    LET id == AssetIdOf(owner, ledger)
    IN  /\ config # NULL
        /\ assets' = [assets EXCEPT ![id] =
               [owner |-> owner, value |-> value, onLoan |-> FALSE]]
        /\ overwritten' = IF assets[id] = NULL THEN overwritten
                                               ELSE overwritten \cup {id}
        /\ UNCHANGED <<config, loans, loanCounter, ledger>>

\* Mutant: the loan-to-value limit is rounded up.
MaxPrincipalRoundedUp(value) == TruncDiv(value * config.ratio + BPS - 1, BPS)

MaxPrincipal(value) == TruncDiv(value * config.ratio, BPS)

\* Any account may borrow against any asset: the owner is not compared.
OpenLoan(borrower, a, principal) ==
    LET id == LoanIdOf(ledger, a, loanCounter + 1)
    IN  /\ config # NULL
        /\ assets[a] # NULL
        /\ ~assets[a].onLoan
        /\ Fits(assets[a].value * config.ratio)
        /\ principal <= MaxPrincipal(assets[a].value)
        /\ Fits(principal + config.fee)
        /\ loanCounter < MaxLoans
        /\ assets' = [assets EXCEPT ![a].onLoan = TRUE]
        /\ loanCounter' = loanCounter + 1
        /\ loans' = [loans EXCEPT ![id] =
               [borrower |-> borrower, asset |-> a, principal |-> principal,
                balance |-> principal + config.fee, updated |-> ledger, active |-> TRUE]]
        /\ UNCHANGED <<config, ledger, overwritten>>

\* Mutant: the collateral stays pledged.
CloseLoanKeepingPledge(id) ==
    /\ loans' = [loans EXCEPT ![id].balance = 0, ![id].updated = ledger,
                              ![id].active = FALSE]
    /\ UNCHANGED assets

\* A loan leaves the book: nothing is owed and its collateral is free.
CloseLoan(id) ==
    /\ loans' = [loans EXCEPT ![id].balance = 0, ![id].updated = ledger,
                              ![id].active = FALSE]
    /\ assets' = [assets EXCEPT ![loans[id].asset].onLoan = FALSE]

RepayInFull(id, amount) ==
    /\ config # NULL
    /\ CanTouch(loans[id])
    /\ Saturate(Owed(loans[id]) - amount) = 0 \/ amount >= Owed(loans[id])
    /\ assets[loans[id].asset] # NULL
    /\ CloseLoan(id)
    /\ UNCHANGED <<config, loanCounter, ledger, overwritten>>

\* The amount may be zero or negative: the sum owed then stays or grows.
RepayInPart(id, amount) ==
    /\ config # NULL
    /\ CanTouch(loans[id])
    /\ Saturate(Owed(loans[id]) - amount) # 0 /\ amount < Owed(loans[id])
    /\ Owed(loans[id]) - amount <= MaxBalance
    /\ loans' = [loans EXCEPT ![id].balance = Saturate(Owed(loans[id]) - amount),
                              ![id].updated = ledger]
    /\ UNCHANGED <<config, assets, loanCounter, ledger, overwritten>>

CanLiquidate(id) ==
    /\ config # NULL
    /\ CanTouch(loans[id])
    /\ assets[loans[id].asset] # NULL
    /\ LET owed  == Owed(loans[id])
           value == assets[loans[id].asset].value
       IN  /\ owed # 0 => CanRate(value, owed)
           /\ HealthFactor(value, owed) < 120
           /\ Fits(BPS + config.bonus)
           /\ Fits(owed * (BPS + config.bonus))

Liquidate(id) ==
    /\ CanLiquidate(id)
    /\ CloseLoan(id)
    /\ UNCHANGED <<config, loanCounter, ledger, overwritten>>

CloseLedger ==
    /\ ledger < MaxLedger
    /\ ledger' = ledger + 1
    /\ UNCHANGED <<config, assets, loans, loanCounter, overwritten>>

Next ==
    \/ \E c \in Config : Initialize(c)
    \/ \E owner \in Address, value \in Value : RegisterAsset(owner, value)
    \/ \E borrower \in Address, a \in AssetId, principal \in Stroops :
           OpenLoan(borrower, a, principal)
    \/ \E id \in LoanId, amount \in Stroops : RepayInFull(id, amount)
    \/ \E id \in LoanId, amount \in Stroops : RepayInPart(id, amount)
    \/ \E id \in LoanId : Liquidate(id)
    \/ CloseLedger

Spec == Init /\ [][Next]_vars

-----------------------------------------------------------------------------
(***************************************************************************)
(* Properties                                                              *)
(***************************************************************************)

ActiveLoansOn(a) == {id \in LoanId : loans[id] # NULL /\ loans[id].active
                                                      /\ loans[id].asset = a}

\* While an asset's entry has not been replaced by a second registration in its
\* ledger, on_loan says whether an active loan is secured by it and at most one
\* is: open_loan, repay_loan and liquidate keep the two stores in step.
CollateralPledgedOnce ==
    \A a \in AssetId \ overwritten :
        /\ assets[a] # NULL => (assets[a].onLoan <=> ActiveLoansOn(a) # {})
        /\ \A id1, id2 \in ActiveLoansOn(a) : id1 = id2

\* The loan book is append-only: open_loan never reuses the identifier of an
\* existing loan (the nonce separates reopens within a ledger), and borrower,
\* collateral and principal of a loan never change.  A settled or liquidated
\* loan owes nothing and no later call revives it.
LoanBookKept ==
    [][\A id \in LoanId : loans[id] # NULL =>
          /\ loans'[id].borrower = loans[id].borrower
          /\ loans'[id].asset = loans[id].asset
          /\ loans'[id].principal = loans[id].principal
          /\ ~loans[id].active => loans[id].balance = 0 /\ loans'[id] = loans[id]]_vars

\* Under a configuration whose threshold leaves the margin of the factor 120
\* over the loan-to-value ratio, and without a creation fee (which the
\* loan-to-value check leaves out), a loan that owes its principal in the ledger
\* it was opened in cannot be liquidated, whatever the appraised value rounds to.
FreshLoanSafe ==
    \A id \in LoanId :
        (/\ config # NULL /\ config.fee = 0
         /\ 100 * config.threshold >= 120 * config.ratio
         /\ loans[id] # NULL /\ loans[id].asset \notin overwritten
         /\ id.ledger = ledger
         /\ loans[id].principal > 0 /\ loans[id].balance = loans[id].principal)
            => ~CanLiquidate(id)

-----------------------------------------------------------------------------
(***************************************************************************)
(* What the README says and the code does not keep                         *)
(***************************************************************************)

\* "double-collateralizing ... rejected": no asset entry ever secures two active
\* loans.  A second registration in the same ledger resets on_loan.
NoDoubleCollateral ==
    \A a \in AssetId : \A id1, id2 \in ActiveLoansOn(a) : id1 = id2

=============================================================================
