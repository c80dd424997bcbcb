---------------------------- MODULE Kraal_proofs ----------------------------
(***************************************************************************)
(* Theorems about contracts/stellarkraal: lending (KraalLoans), for every  *)
(* value of its constants, and the price feed (KraalPrices) after it.      *)
(***************************************************************************)
EXTENDS KraalLoans, KraalPrices, TLAPS

(***************************************************************************)
(* The inductive invariant.  CollateralPledgedOnce alone is not inductive: *)
(* a loan entry must name the asset its identifier names, an asset with a  *)
(* loan must exist, and no identifier may carry a nonce that the counter   *)
(* has yet to hand out.                                                    *)
(***************************************************************************)
BookInv ==
    \A id \in LoanId : loans[id] # NULL =>
        /\ id.nonce <= loanCounter
        /\ loans[id].asset = id.asset
        /\ assets[id.asset] # NULL
        /\ ~loans[id].active => loans[id].balance = 0

\* An asset nobody registered twice is pledged exactly when a loan on it is active.
PledgeInv ==
    \A a \in AssetId \ overwritten : assets[a] # NULL =>
        (assets[a].onLoan <=>
           \E id \in LoanId : loans[id] # NULL /\ loans[id].active /\ loans[id].asset = a)

UniqueInv ==
    \A id1, id2 \in LoanId :
        (/\ loans[id1] # NULL /\ loans[id1].active
         /\ loans[id2] # NULL /\ loans[id2].active
         /\ loans[id1].asset = loans[id2].asset
         /\ loans[id1].asset \notin overwritten)
            => id1 = id2

IInv == TypeOK /\ BookInv /\ PledgeInv /\ UniqueInv

-----------------------------------------------------------------------------

\* Truncating division of integers by a nonzero integer is an integer.
LEMMA TruncDivInt ==
    ASSUME NEW n \in Int, NEW d \in Int \ {0} PROVE TruncDiv(n, d) \in Int
<1>1. Magnitude(n) \in Int /\ Magnitude(d) \in Int /\ Magnitude(d) > 0
  BY DEF Magnitude
<1>2. Magnitude(n) \div Magnitude(d) \in Int
  BY <1>1
<1>3. QED
  BY <1>2 DEF TruncDiv

\* What accrue adds up to is an integer, so repay_loan stores one.
LEMMA OwedInt ==
    ASSUME TypeOK, config # NULL, NEW l \in Loan PROVE Owed(l) \in Int
<1> DEFINE t == ledger - l.updated
<1>1. config.rate \in Int
  BY KraalAssumption DEF TypeOK
<1>2. l.balance \in Int /\ t \in Int
  BY DEF Loan, TypeOK, Ledger
<1>3. BPS * LedgersPerYear \in Int \ {0}
  BY KraalAssumption
<1>4. l.balance * config.rate * t \in Int
  BY <1>1, <1>2
<1>5. Interest(l.balance, config.rate, t) \in Int
  BY <1>3, <1>4, TruncDivInt DEF Interest
<1>6. QED
  BY <1>2, <1>5 DEF Owed, Accrued

\* Closing a loan writes a well-formed loan and a well-formed asset.
LEMMA CloseLoanType ==
    ASSUME TypeOK, NEW id \in LoanId, loans[id] # NULL,
           assets[loans[id].asset] # NULL, CloseLoan(id)
    PROVE  /\ loans' = [loans EXCEPT ![id] =
                 [loans[id] EXCEPT !.balance = 0, !.updated = ledger, !.active = FALSE]]
           /\ assets' = [assets EXCEPT ![loans[id].asset] =
                 [assets[loans[id].asset] EXCEPT !.onLoan = FALSE]]
           /\ loans' \in [LoanId -> Loan \cup {NULL}]
           /\ assets' \in [AssetId -> Asset \cup {NULL}]
<1> DEFINE a == loans[id].asset
           l == [loans[id] EXCEPT !.balance = 0, !.updated = ledger, !.active = FALSE]
           c == [assets[a] EXCEPT !.onLoan = FALSE]
<1>1. loans[id] \in Loan /\ ledger \in Ledger
  BY DEF TypeOK
<1>2. a \in AssetId
  BY <1>1 DEF Loan
<1>3. assets[a] \in Asset
  BY <1>2 DEF TypeOK
<1>4. l \in Loan
  <2>1. [loans[id] EXCEPT !.balance = 0] \in Loan
    BY <1>1 DEF Loan
  <2>2. [loans[id] EXCEPT !.balance = 0, !.updated = ledger] \in Loan
    BY <1>1, <2>1 DEF Loan
  <2>3. QED
    BY <2>2 DEF Loan
<1>5. c \in Asset
  BY <1>3 DEF Asset
<1>6. loans' = [loans EXCEPT ![id] = l]
  BY <1>1 DEF CloseLoan, TypeOK, Loan
<1>7. assets' = [assets EXCEPT ![a] = c]
  BY <1>2, <1>3 DEF CloseLoan, TypeOK, Asset
<1>8. QED
  BY <1>2, <1>4, <1>5, <1>6, <1>7 DEF TypeOK

\* initialize, register_asset, open_loan, repay_loan and liquidate keep every
\* storage entry of the contract well formed, whatever integers they are given.
LEMMA TypeStep == TypeOK /\ [Next]_vars => TypeOK'
<1> SUFFICES ASSUME TypeOK, [Next]_vars PROVE TypeOK'
  OBVIOUS
<1> USE KraalAssumption, SorobanAssumption, NullIsNoRecord DEF TypeOK, Ledger, AssetId
<1>1. ASSUME NEW c \in Config, Initialize(c) PROVE TypeOK'
  BY <1>1 DEF Initialize
<1>2. ASSUME NEW owner \in Address, NEW value \in Value, RegisterAsset(owner, value)
      PROVE TypeOK'
  <2>1. [owner |-> owner, value |-> value, onLoan |-> FALSE] \in Asset
    BY DEF Asset
  <2>2. QED
    BY <1>2, <2>1 DEF RegisterAsset, AssetIdOf
<1>3. ASSUME NEW borrower \in Address, NEW a \in AssetId, NEW principal \in Stroops,
             OpenLoan(borrower, a, principal)
      PROVE TypeOK'
  <2> DEFINE id  == LoanIdOf(ledger, a, loanCounter + 1)
             new == [borrower |-> borrower, asset |-> a, principal |-> principal,
                     balance |-> principal + config.fee, updated |-> ledger,
                     active |-> TRUE]
  <2>1. config \in Config /\ config.fee \in Int
    BY <1>3 DEF OpenLoan
  <2>2. new \in Loan
    BY <2>1 DEF Loan
  <2>3. loanCounter + 1 \in 1 .. MaxLoans
    BY <1>3 DEF OpenLoan
  <2>4. id \in LoanId
    BY <2>3 DEF LoanId, LoanIdOf
  <2>5. loans' = [loans EXCEPT ![id] = new] /\ loanCounter' = loanCounter + 1
    BY <1>3 DEF OpenLoan
  <2>6. loans' \in [LoanId -> Loan \cup {NULL}]
    BY <2>2, <2>4, <2>5
  <2>7. assets' \in [AssetId -> Asset \cup {NULL}]
    <3>1. assets[a] \in Asset
      BY <1>3 DEF OpenLoan
    <3>2. [assets[a] EXCEPT !.onLoan = TRUE] \in Asset
      BY <3>1 DEF Asset
    <3>3. assets' = [assets EXCEPT ![a] = [assets[a] EXCEPT !.onLoan = TRUE]]
      BY <1>3 DEF OpenLoan
    <3>4. QED
      BY <3>2, <3>3
  <2>8. config' = config /\ ledger' = ledger /\ overwritten' = overwritten
    BY <1>3 DEF OpenLoan
  <2>9. loanCounter' \in 0 .. MaxLoans
    BY <2>3, <2>5
  <2> HIDE DEF id, new
  <2>10. QED
    BY <2>6, <2>7, <2>8, <2>9 DEF TypeOK
<1>4. ASSUME NEW id \in LoanId, NEW amount \in Stroops, RepayInFull(id, amount)
      PROVE TypeOK'
  BY <1>4, CloseLoanType DEF RepayInFull, CanTouch
<1>5. ASSUME NEW id \in LoanId, NEW amount \in Stroops, RepayInPart(id, amount)
      PROVE TypeOK'
  <2> DEFINE b == Saturate(Owed(loans[id]) - amount)
             l == [loans[id] EXCEPT !.balance = b, !.updated = ledger]
  <2>1. loans[id] \in Loan /\ config # NULL
    BY <1>5 DEF RepayInPart, CanTouch
  <2>2. b \in Int
    BY <2>1, OwedInt DEF Saturate
  <2>3. l \in Loan
    BY <2>1, <2>2 DEF Loan
  <2>4. loans' = [loans EXCEPT ![id] = l]
    BY <1>5, <2>1 DEF RepayInPart, Loan
  <2>5. QED
    BY <1>5, <2>3, <2>4 DEF RepayInPart
<1>6. ASSUME NEW id \in LoanId, Liquidate(id) PROVE TypeOK'
  BY <1>6, CloseLoanType DEF Liquidate, CanLiquidate, CanTouch
<1>7. CASE CloseLedger
  BY <1>7 DEF CloseLedger
<1>8. CASE UNCHANGED vars
  BY <1>8 DEF vars
<1>9. QED
  BY <1>1, <1>2, <1>3, <1>4, <1>5, <1>6, <1>7, <1>8 DEF Next

\* Every reachable state of the lending contract is well typed: the type
\* invariant TypeOK of the runs, for every configuration and argument set.
THEOREM TypeCorrect == Spec => []TypeOK
<1>1. Init => TypeOK
  BY KraalAssumption, SorobanAssumption DEF Init, TypeOK, Ledger, AssetId
<1>2. QED
  BY <1>1, TypeStep, PTL DEF Spec

-----------------------------------------------------------------------------

\* register_asset writes an entry nobody borrows against, unless it replaces one.
LEMMA RegisterKeepsBook ==
    ASSUME IInv, NEW owner \in Address, NEW value \in Value, RegisterAsset(owner, value)
    PROVE  BookInv' /\ PledgeInv' /\ UniqueInv'
<1> DEFINE r   == AssetIdOf(owner, ledger)
           new == [owner |-> owner, value |-> value, onLoan |-> FALSE]
<1>1. r \in AssetId /\ new \in Asset /\ new # NULL
  <2>1. r \in AssetId
    BY DEF AssetIdOf, AssetId, IInv, TypeOK
  <2>2. new \in Asset
    BY KraalAssumption DEF Asset
  <2>3. QED
    BY <2>1, <2>2, NullIsNoRecord
<1>2. loans' = loans /\ loanCounter' = loanCounter
  BY DEF RegisterAsset
<1>3. assets' = [assets EXCEPT ![r] = new]
  BY DEF RegisterAsset
<1>4. \A a \in AssetId : assets'[a] = IF a = r THEN new ELSE assets[a]
  BY <1>1, <1>3 DEF IInv, TypeOK
<1>5. overwritten \subseteq overwritten' /\ (r \notin overwritten' => assets[r] = NULL)
  BY DEF RegisterAsset
<1>6. \A id \in LoanId : id.asset \in AssetId
  BY DEF LoanId
<1>7. BookInv'
  BY <1>1, <1>2, <1>4, <1>6 DEF IInv, BookInv
<1>8. PledgeInv'
  <2> SUFFICES ASSUME NEW a \in AssetId \ overwritten', assets'[a] # NULL
               PROVE assets'[a].onLoan <=>
                       \E id \in LoanId : loans[id] # NULL /\ loans[id].active
                                                          /\ loans[id].asset = a
    BY <1>2 DEF PledgeInv
  <2>1. CASE a = r
    <3>1. assets[a] = NULL
      BY <1>5, <2>1
    <3>2. ~ \E id \in LoanId : loans[id] # NULL /\ loans[id].active /\ loans[id].asset = a
      BY <3>1 DEF IInv, BookInv
    <3>3. ~ assets'[a].onLoan
      BY <1>4, <2>1
    <3>4. QED
      BY <3>2, <3>3
  <2>2. CASE a # r
    BY <1>4, <1>5, <2>2 DEF IInv, PledgeInv
  <2>3. QED
    BY <2>1, <2>2
<1>9. UniqueInv'
  BY <1>2, <1>5 DEF IInv, UniqueInv
<1>10. QED
  BY <1>7, <1>8, <1>9

\* open_loan hands out an identifier no loan has, on an asset no active loan holds.
LEMMA OpenKeepsBook ==
    ASSUME IInv, NEW borrower \in Address, NEW a \in AssetId, NEW principal \in Stroops,
           OpenLoan(borrower, a, principal)
    PROVE  BookInv' /\ PledgeInv' /\ UniqueInv'
<1> DEFINE n   == LoanIdOf(ledger, a, loanCounter + 1)
           new == [borrower |-> borrower, asset |-> a, principal |-> principal,
                   balance |-> principal + config.fee, updated |-> ledger,
                   active |-> TRUE]
<1>1. assets[a] # NULL /\ ~assets[a].onLoan /\ overwritten' = overwritten
      /\ loanCounter' = loanCounter + 1 /\ loanCounter \in Nat
  BY DEF OpenLoan, IInv, TypeOK
<1>2. n \in LoanId /\ n.nonce = loanCounter + 1 /\ n.asset = a
  <2>1. loanCounter + 1 \in 1 .. MaxLoans
    BY KraalAssumption DEF OpenLoan, IInv, TypeOK
  <2>2. QED
    BY <2>1 DEF LoanIdOf, LoanId, IInv, TypeOK
<1>3. loans[n] = NULL
  BY <1>1, <1>2 DEF IInv, BookInv
<1>4. new \in Loan /\ new # NULL /\ new.asset = a /\ new.active
  <2>1. new \in Loan
    BY KraalAssumption DEF OpenLoan, IInv, TypeOK, Loan
  <2>2. QED
    BY <2>1, NullIsNoRecord
<1>5. \A id \in LoanId : loans'[id] = IF id = n THEN new ELSE loans[id]
  BY <1>2 DEF OpenLoan, IInv, TypeOK
<1>6. \A b \in AssetId : /\ b # a => assets'[b] = assets[b]
                         /\ b = a => assets'[b] # NULL /\ assets'[b].onLoan
  <2>1. assets[a] \in Asset
    BY <1>1 DEF IInv, TypeOK
  <2>2. [assets[a] EXCEPT !.onLoan = TRUE] \in Asset
    BY <2>1 DEF Asset
  <2>3. [assets[a] EXCEPT !.onLoan = TRUE].onLoan
    BY <2>1 DEF Asset
  <2>4. assets' = [assets EXCEPT ![a] = [assets[a] EXCEPT !.onLoan = TRUE]]
    BY DEF OpenLoan
  <2>5. QED
    BY <2>2, <2>3, <2>4, NullIsNoRecord DEF IInv, TypeOK
<1>7. BookInv'
  <2> SUFFICES ASSUME NEW id \in LoanId, loans'[id] # NULL
               PROVE /\ id.nonce <= loanCounter'
                     /\ loans'[id].asset = id.asset
                     /\ assets'[id.asset] # NULL
                     /\ ~loans'[id].active => loans'[id].balance = 0
    BY DEF BookInv
  <2>1. id.asset \in AssetId /\ id.nonce \in Int
    BY DEF LoanId
  <2>2. CASE id = n
    BY <1>1, <1>2, <1>4, <1>5, <1>6, <2>2
  <2>3. CASE id # n
    BY <1>1, <1>5, <1>6, <2>1, <2>3 DEF IInv, BookInv
  <2>4. QED
    BY <2>2, <2>3
<1>8. PledgeInv'
  <2> SUFFICES ASSUME NEW b \in AssetId \ overwritten', assets'[b] # NULL
               PROVE assets'[b].onLoan <=>
                       \E id \in LoanId : loans'[id] # NULL /\ loans'[id].active
                                                           /\ loans'[id].asset = b
    BY DEF PledgeInv
  <2>1. CASE b = a
    BY <1>2, <1>4, <1>5, <1>6, <2>1
  <2>2. CASE b # a
    <3>1. assets[b] # NULL /\ assets'[b] = assets[b]
      BY <1>6, <2>2
    <3>2. assets[b].onLoan <=>
            \E id \in LoanId : loans[id] # NULL /\ loans[id].active /\ loans[id].asset = b
      BY <1>1, <3>1 DEF IInv, PledgeInv
    <3>3. QED
      BY <1>2, <1>3, <1>4, <1>5, <2>2, <3>1, <3>2
  <2>3. QED
    BY <2>1, <2>2
<1>9. UniqueInv'
  <2> SUFFICES ASSUME NEW id1 \in LoanId, NEW id2 \in LoanId,
                      loans'[id1] # NULL, loans'[id1].active,
                      loans'[id2] # NULL, loans'[id2].active,
                      loans'[id1].asset = loans'[id2].asset,
                      loans'[id1].asset \notin overwritten'
               PROVE id1 = id2
    BY DEF UniqueInv
  <2>1. a \notin overwritten =>
          ~ \E id \in LoanId : loans[id] # NULL /\ loans[id].active /\ loans[id].asset = a
    BY <1>1 DEF IInv, PledgeInv
  <2>2. CASE id1 = n \/ id2 = n
    BY <1>1, <1>4, <1>5, <2>1, <2>2
  <2>3. CASE id1 # n /\ id2 # n
    BY <1>1, <1>5, <2>3 DEF IInv, UniqueInv
  <2>4. QED
    BY <2>2, <2>3
<1>10. QED
  BY <1>7, <1>8, <1>9

\* Repaying in full and liquidating release exactly the asset of the loan closed.
LEMMA CloseKeepsBook ==
    ASSUME IInv, NEW n \in LoanId, loans[n] # NULL, loans[n].active,
           assets[loans[n].asset] # NULL, CloseLoan(n),
           UNCHANGED <<loanCounter, overwritten>>
    PROVE  BookInv' /\ PledgeInv' /\ UniqueInv'
<1> DEFINE a   == loans[n].asset
           new == [loans[n] EXCEPT !.balance = 0, !.updated = ledger, !.active = FALSE]
           c   == [assets[a] EXCEPT !.onLoan = FALSE]
<1>1. loans[n] \in Loan /\ a \in AssetId /\ assets[a] \in Asset
  <2>1. loans[n] \in Loan
    BY DEF IInv, TypeOK
  <2>2. a \in AssetId
    BY <2>1 DEF Loan
  <2>3. QED
    BY <2>1, <2>2 DEF IInv, TypeOK
<1>2. loans' = [loans EXCEPT ![n] = new] /\ assets' = [assets EXCEPT ![a] = c]
      /\ loans' \in [LoanId -> Loan \cup {NULL}]
  BY CloseLoanType DEF IInv
<1>3. new.asset = a /\ new.balance = 0 /\ ~new.active
  BY <1>1 DEF Loan
<1>4. c # NULL /\ ~c.onLoan
  <2>1. c \in Asset /\ ~c.onLoan
    BY <1>1 DEF Asset
  <2>2. QED
    BY <2>1, NullIsNoRecord
<1>5. \A id \in LoanId : loans'[id] = IF id = n THEN new ELSE loans[id]
  BY <1>2 DEF IInv, TypeOK
<1>6. \A b \in AssetId : assets'[b] = IF b = a THEN c ELSE assets[b]
  BY <1>1, <1>2 DEF IInv, TypeOK
<1>7. BookInv'
  <2> SUFFICES ASSUME NEW id \in LoanId, loans'[id] # NULL
               PROVE /\ id.nonce <= loanCounter
                     /\ loans'[id].asset = id.asset
                     /\ assets'[id.asset] # NULL
                     /\ ~loans'[id].active => loans'[id].balance = 0
    BY DEF BookInv
  <2>1. id.asset \in AssetId
    BY DEF LoanId
  <2>2. CASE id = n
    BY <1>3, <1>4, <1>5, <1>6, <2>1, <2>2 DEF IInv, BookInv
  <2>3. CASE id # n
    BY <1>4, <1>5, <1>6, <2>1, <2>3 DEF IInv, BookInv
  <2>4. QED
    BY <2>2, <2>3
<1>8. PledgeInv'
  <2> SUFFICES ASSUME NEW b \in AssetId \ overwritten, assets'[b] # NULL
               PROVE assets'[b].onLoan <=>
                       \E id \in LoanId : loans'[id] # NULL /\ loans'[id].active
                                                           /\ loans'[id].asset = b
    BY DEF PledgeInv
  <2>1. CASE b = a
    <3>1. ASSUME NEW id \in LoanId, loans'[id] # NULL, loans'[id].active,
                 loans'[id].asset = a
          PROVE FALSE
      <4>1. id # n
        BY <1>3, <1>5, <3>1
      <4>2. loans[id] # NULL /\ loans[id].active /\ loans[id].asset = a
        BY <1>5, <3>1, <4>1
      <4>3. QED
        BY <2>1, <4>1, <4>2 DEF IInv, UniqueInv
    <3>2. QED
      BY <1>4, <1>6, <2>1, <3>1
  <2>2. CASE b # a
    <3>1. assets[b] # NULL /\ assets'[b] = assets[b]
      BY <1>6, <2>2
    <3>2. assets[b].onLoan <=>
            \E id \in LoanId : loans[id] # NULL /\ loans[id].active /\ loans[id].asset = b
      BY <3>1 DEF IInv, PledgeInv
    <3>3. \A id \in LoanId : loans'[id] # loans[id] =>
              loans[id].asset = a /\ loans'[id].asset = a
      BY <1>3, <1>5
    <3>4. QED
      BY <2>2, <3>1, <3>2, <3>3
  <2>3. QED
    BY <2>1, <2>2
<1>9. UniqueInv'
  <2> SUFFICES ASSUME NEW id1 \in LoanId, NEW id2 \in LoanId,
                      loans'[id1] # NULL, loans'[id1].active,
                      loans'[id2] # NULL, loans'[id2].active,
                      loans'[id1].asset = loans'[id2].asset,
                      loans'[id1].asset \notin overwritten
               PROVE id1 = id2
    BY DEF UniqueInv
  <2>1. id1 # n /\ id2 # n
    BY <1>3, <1>5
  <2>2. loans'[id1] = loans[id1] /\ loans'[id2] = loans[id2]
    BY <1>5, <2>1
  <2>3. QED
    BY <2>2 DEF IInv, UniqueInv
<1>10. QED
  BY <1>7, <1>8, <1>9

\* A partial repayment changes what a loan owes, never whether it is active.
LEMMA PartKeepsBook ==
    ASSUME IInv, NEW n \in LoanId, NEW amount \in Stroops, RepayInPart(n, amount)
    PROVE  BookInv' /\ PledgeInv' /\ UniqueInv'
<1> DEFINE new == [loans[n] EXCEPT !.balance = Saturate(Owed(loans[n]) - amount),
                                   !.updated = ledger]
<1>1. loans[n] # NULL /\ loans[n].active /\ loans[n] \in Loan
      /\ UNCHANGED <<assets, loanCounter, overwritten>>
  BY DEF RepayInPart, CanTouch, IInv, TypeOK
<1>2. loans' = [loans EXCEPT ![n] = new]
  BY <1>1 DEF RepayInPart, Loan, IInv, TypeOK
<1>3. new.asset = loans[n].asset /\ new.active
  BY <1>1 DEF Loan
<1>4. \A id \in LoanId : loans'[id] = IF id = n THEN new ELSE loans[id]
  BY <1>2 DEF IInv, TypeOK
<1>5. \A id \in LoanId : /\ loans'[id] # NULL => loans[id] # NULL
                         /\ loans[id] # NULL /\ loans'[id] # NULL =>
                              /\ loans'[id].asset = loans[id].asset
                              /\ loans'[id].active = loans[id].active
                              /\ ~loans'[id].active => loans'[id] = loans[id]
  BY <1>1, <1>3, <1>4
<1>6. \A id \in LoanId : loans[id] # NULL => loans'[id] # NULL
  <2>1. new # NULL
    <3>1. config # NULL /\ Owed(loans[n]) \in Int
      BY <1>1, OwedInt DEF RepayInPart, IInv
    <3>2. Saturate(Owed(loans[n]) - amount) \in Int
      BY <3>1, KraalAssumption DEF Saturate
    <3>3. new \in Loan
      BY <1>1, <3>2 DEF Loan, IInv, TypeOK
    <3>4. QED
      BY <3>3, NullIsNoRecord
  <2>2. QED
    BY <1>4, <2>1
<1>7. BookInv'
  BY <1>1, <1>5 DEF IInv, BookInv
<1>8. PledgeInv'
  BY <1>1, <1>5, <1>6 DEF IInv, PledgeInv
<1>9. UniqueInv'
  BY <1>1, <1>5 DEF IInv, UniqueInv
<1>10. QED
  BY <1>7, <1>8, <1>9

\* The invariant is inductive: one step per action.
LEMMA InvStep == IInv /\ [Next]_vars => IInv'
<1> SUFFICES ASSUME IInv, [Next]_vars PROVE IInv'
  OBVIOUS
<1>1. TypeOK'
  BY TypeStep DEF IInv
<1> DEFINE Book == BookInv' /\ PledgeInv' /\ UniqueInv'
<1>2. ASSUME NEW c \in Config, Initialize(c) PROVE Book
  BY <1>2 DEF Initialize, IInv, BookInv, PledgeInv, UniqueInv
<1>3. ASSUME NEW owner \in Address, NEW value \in Value, RegisterAsset(owner, value)
      PROVE Book
  BY <1>3, RegisterKeepsBook
<1>4. ASSUME NEW borrower \in Address, NEW a \in AssetId, NEW principal \in Stroops,
             OpenLoan(borrower, a, principal)
      PROVE Book
  BY <1>4, OpenKeepsBook
<1>5. ASSUME NEW id \in LoanId, NEW amount \in Stroops, RepayInFull(id, amount)
      PROVE Book
  BY <1>5, CloseKeepsBook DEF RepayInFull, CanTouch
<1>6. ASSUME NEW id \in LoanId, NEW amount \in Stroops, RepayInPart(id, amount)
      PROVE Book
  BY <1>6, PartKeepsBook
<1>7. ASSUME NEW id \in LoanId, Liquidate(id) PROVE Book
  BY <1>7, CloseKeepsBook DEF Liquidate, CanLiquidate, CanTouch
<1>8. ASSUME CloseLedger PROVE Book
  BY <1>8 DEF CloseLedger, IInv, BookInv, PledgeInv, UniqueInv
<1>9. ASSUME UNCHANGED vars PROVE Book
  BY <1>9 DEF vars, IInv, BookInv, PledgeInv, UniqueInv
<1>10. Book
  BY <1>2, <1>3, <1>4, <1>5, <1>6, <1>7, <1>8, <1>9 DEF Next
<1>11. QED
  BY <1>1, <1>10 DEF IInv

\* The empty contract satisfies the invariant.
LEMMA InvInit == Init => IInv
<1> SUFFICES ASSUME Init PROVE IInv
  OBVIOUS
<1>1. TypeOK
  BY KraalAssumption, SorobanAssumption DEF Init, TypeOK, Ledger, AssetId
<1>2. QED
  BY <1>1 DEF Init, IInv, BookInv, PledgeInv, UniqueInv

\* The invariant holds throughout.
LEMMA InvCorrect == Spec => []IInv
BY InvInit, InvStep, PTL DEF Spec

-----------------------------------------------------------------------------

\* No two active loans share an asset whose entry was registered once, and its
\* on_loan flag tells the truth, in every execution of the contract.
THEOREM PledgedOnce == Spec => []CollateralPledgedOnce
<1>1. IInv => CollateralPledgedOnce
  BY DEF IInv, PledgeInv, UniqueInv, CollateralPledgedOnce, ActiveLoansOn
<1>2. QED
  BY <1>1, InvCorrect, PTL

\* What a step may do to a loan that is in the book.
KeptRecord(id) ==
    /\ loans'[id].borrower = loans[id].borrower
    /\ loans'[id].asset = loans[id].asset
    /\ loans'[id].principal = loans[id].principal
    /\ ~loans[id].active => loans'[id] = loans[id]

\* Every entry point keeps the terms of every loan and touches no closed loan.
LEMMA StepKeepsRecords ==
    ASSUME IInv, [Next]_vars, NEW id \in LoanId, loans[id] # NULL PROVE KeptRecord(id)
<1>0. loans[id] \in Loan
  BY DEF IInv, TypeOK
<1>1. ASSUME NEW borrower \in Address, NEW a \in AssetId, NEW principal \in Stroops,
             OpenLoan(borrower, a, principal)
      PROVE KeptRecord(id)
  <2> DEFINE n == LoanIdOf(ledger, a, loanCounter + 1)
  <2>1. n.nonce = loanCounter + 1 /\ loanCounter \in Nat
    BY DEF LoanIdOf, IInv, TypeOK
  <2>2. id.nonce <= loanCounter /\ id.nonce \in Int
    BY DEF IInv, BookInv, LoanId
  <2>3. id # n
    BY <2>1, <2>2
  <2>4. loans'[id] = loans[id]
    BY <1>1, <2>3 DEF OpenLoan, IInv, TypeOK
  <2>5. QED
    BY <2>4 DEF KeptRecord
<1>2. ASSUME NEW n \in LoanId, loans[n] # NULL, loans[n].active,
             assets[loans[n].asset] # NULL, CloseLoan(n)
      PROVE KeptRecord(id)
  <2> DEFINE new == [loans[n] EXCEPT !.balance = 0, !.updated = ledger, !.active = FALSE]
  <2>1. loans' = [loans EXCEPT ![n] = new]
    BY <1>2, CloseLoanType DEF IInv
  <2>2. CASE id = n
    <3>1. loans'[id] = new
      BY <2>1, <2>2 DEF IInv, TypeOK
    <3>2. QED
      BY <1>0, <1>2, <2>2, <3>1 DEF KeptRecord, Loan
  <2>3. CASE id # n
    <3>1. loans'[id] = loans[id]
      BY <2>1, <2>3 DEF IInv, TypeOK
    <3>2. QED
      BY <3>1 DEF KeptRecord
  <2>4. QED
    BY <2>2, <2>3
<1>3. ASSUME NEW n \in LoanId, NEW amount \in Stroops, RepayInPart(n, amount)
      PROVE KeptRecord(id)
  <2> DEFINE new == [loans[n] EXCEPT !.balance = Saturate(Owed(loans[n]) - amount),
                                     !.updated = ledger]
  <2>1. loans[n] \in Loan /\ loans[n].active
    BY <1>3 DEF RepayInPart, CanTouch, IInv, TypeOK
  <2>2. loans' = [loans EXCEPT ![n] = new]
    BY <1>3, <2>1 DEF RepayInPart, Loan, IInv, TypeOK
  <2>3. CASE id = n
    <3>1. loans'[id] = new
      BY <2>2, <2>3 DEF IInv, TypeOK
    <3>2. QED
      BY <2>1, <2>3, <3>1 DEF KeptRecord, Loan
  <2>4. CASE id # n
    <3>1. loans'[id] = loans[id]
      BY <2>2, <2>4 DEF IInv, TypeOK
    <3>2. QED
      BY <3>1 DEF KeptRecord
  <2>5. QED
    BY <2>3, <2>4
<1>4. ASSUME loans' = loans PROVE KeptRecord(id)
  BY <1>4 DEF KeptRecord
<1>5. ASSUME NEW n \in LoanId, NEW amount \in Stroops, RepayInFull(n, amount)
      PROVE KeptRecord(id)
  BY <1>2, <1>5 DEF RepayInFull, CanTouch
<1>6. ASSUME NEW n \in LoanId, Liquidate(n) PROVE KeptRecord(id)
  BY <1>2, <1>6 DEF Liquidate, CanLiquidate, CanTouch
<1>7. QED
  BY <1>1, <1>3, <1>4, <1>5, <1>6
     DEF Next, vars, Initialize, RegisterAsset, CloseLedger

\* The loan book is append-only and closed loans are final (LoanBookKept), so the
\* record of a settled loan survives a reopen of the same asset in the same ledger.
THEOREM BookKept == Spec => LoanBookKept
<1>1. IInv /\ [Next]_vars => [\A id \in LoanId : loans[id] # NULL =>
          /\ loans'[id].borrower = loans[id].borrower
          /\ loans'[id].asset = loans[id].asset
          /\ loans'[id].principal = loans[id].principal
          /\ ~loans[id].active => loans[id].balance = 0 /\ loans'[id] = loans[id]]_vars
  BY StepKeepsRecords DEF KeptRecord, IInv, BookInv
<1>2. QED
  BY <1>1, InvCorrect, PTL DEF Spec, LoanBookKept

-----------------------------------------------------------------------------
(***************************************************************************)
(* A fresh loan cannot be liquidated.  FreshLoanSafe needs to know what    *)
(* open_loan checked: TermsInv carries the loan-to-value limit from there, *)
(* against the configuration and the appraisal, neither of which moves.    *)
(***************************************************************************)
TermsInv ==
    /\ config # NULL => config.ratio > 0
    /\ \A id \in LoanId : loans[id] # NULL =>
          /\ config # NULL
          /\ id.ledger <= loans[id].updated /\ loans[id].updated <= ledger
          /\ loans[id].asset \notin overwritten =>
                loans[id].principal <= MaxPrincipal(assets[loans[id].asset].value)

\* The configuration is written once and has a positive loan-to-value ratio.
LEMMA ConfigStep ==
    ASSUME [Next]_vars
    PROVE  /\ config # NULL => config' = config
           /\ config = NULL /\ config' # NULL => config'.ratio > 0
           /\ config = NULL => loans' = loans
BY DEF Next, vars, Initialize, RegisterAsset, OpenLoan, RepayInFull, RepayInPart, Liquidate,
       CanLiquidate, CloseLedger

\* The appraisal of an asset stands until its entry is replaced.
LEMMA AppraisalStep ==
    ASSUME IInv, [Next]_vars, NEW a \in AssetId, assets[a] # NULL, a \notin overwritten'
    PROVE  a \notin overwritten /\ assets'[a].value = assets[a].value
<1>0. assets \in [AssetId -> Asset \cup {NULL}] /\ assets[a] \in Asset
  BY DEF IInv, TypeOK
<1>1. ASSUME NEW b \in AssetId, NEW flag \in BOOLEAN, assets[b] # NULL,
             assets' = [assets EXCEPT ![b] = [assets[b] EXCEPT !.onLoan = flag]]
      PROVE  assets'[a].value = assets[a].value
  <2> DEFINE u == [assets[b] EXCEPT !.onLoan = flag]
  <2>1. u.value = assets[b].value
    BY <1>0, <1>1 DEF Asset
  <2>2. assets' = [assets EXCEPT ![b] = u]
    BY <1>1
  <2> HIDE DEF u
  <2>3. QED
    BY <1>0, <2>1, <2>2
<1>2. ASSUME NEW owner \in Address, NEW value \in Value, RegisterAsset(owner, value)
      PROVE  a \notin overwritten /\ assets'[a] = assets[a]
  <2> DEFINE r == AssetIdOf(owner, ledger)
             new == [owner |-> owner, value |-> value, onLoan |-> FALSE]
  <2>1. assets' = [assets EXCEPT ![r] = new] /\ (assets[r] # NULL => r \in overwritten')
        /\ overwritten \subseteq overwritten'
    BY <1>2 DEF RegisterAsset
  <2> HIDE DEF r, new
  <2>2. QED
    BY <1>0, <2>1
<1>3. ASSUME NEW borrower \in Address, NEW b \in AssetId, NEW principal \in Stroops,
             OpenLoan(borrower, b, principal)
      PROVE  a \notin overwritten /\ assets'[a].value = assets[a].value
  <2>1. /\ assets[b] # NULL /\ overwritten' = overwritten
        /\ assets' = [assets EXCEPT ![b] = [assets[b] EXCEPT !.onLoan = TRUE]]
    BY <1>3 DEF OpenLoan
  <2>2. QED
    BY <1>1, <2>1
<1>4. ASSUME NEW n \in LoanId, loans[n] # NULL, assets[loans[n].asset] # NULL, CloseLoan(n)
      PROVE  assets'[a].value = assets[a].value
  <2>1. loans[n].asset \in AssetId
    BY <1>4 DEF IInv, TypeOK, Loan
  <2>2. assets' = [assets EXCEPT ![loans[n].asset] =
                      [assets[loans[n].asset] EXCEPT !.onLoan = FALSE]]
    BY <1>4, CloseLoanType DEF IInv
  <2>3. QED
    BY <1>1, <1>4, <2>1, <2>2
<1>5. ASSUME NEW n \in LoanId, NEW amount \in Stroops, RepayInFull(n, amount)
      PROVE  a \notin overwritten /\ assets'[a].value = assets[a].value
  BY <1>4, <1>5 DEF RepayInFull, CanTouch
<1>6. ASSUME NEW n \in LoanId, Liquidate(n)
      PROVE  a \notin overwritten /\ assets'[a].value = assets[a].value
  BY <1>4, <1>6 DEF Liquidate, CanLiquidate, CanTouch
<1>7. QED
  BY <1>2, <1>3, <1>5, <1>6 DEF Next, vars, Initialize, RepayInPart, CloseLedger

\* A loan is touched in the ledger of the call that touches it, and a new one was
\* within the limit open_loan computed.
LEMMA LoanStep ==
    ASSUME IInv, [Next]_vars, NEW id \in LoanId, loans'[id] # NULL
    PROVE  \/ /\ loans[id] # NULL
              /\ loans'[id].updated \in {loans[id].updated, ledger}
           \/ /\ config # NULL /\ ledger' = ledger /\ id.ledger = ledger
              /\ loans'[id].updated = ledger
              /\ loans'[id].asset \in AssetId /\ assets[loans'[id].asset] # NULL
              /\ loans'[id].principal <= MaxPrincipal(assets[loans'[id].asset].value)
<1> DEFINE Goal ==
      \/ /\ loans[id] # NULL
         /\ loans'[id].updated \in {loans[id].updated, ledger}
      \/ /\ config # NULL /\ ledger' = ledger /\ id.ledger = ledger
         /\ loans'[id].updated = ledger
         /\ loans'[id].asset \in AssetId /\ assets[loans'[id].asset] # NULL
         /\ loans'[id].principal <= MaxPrincipal(assets[loans'[id].asset].value)
<1>0. loans \in [LoanId -> Loan \cup {NULL}]
  BY DEF IInv, TypeOK
<1>1. ASSUME NEW borrower \in Address, NEW a \in AssetId, NEW principal \in Stroops,
             OpenLoan(borrower, a, principal)
      PROVE  Goal
  <2> DEFINE n == LoanIdOf(ledger, a, loanCounter + 1)
             new == [borrower |-> borrower, asset |-> a, principal |-> principal,
                     balance |-> principal + config.fee, updated |-> ledger, active |-> TRUE]
  <2>1. /\ loans' = [loans EXCEPT ![n] = new] /\ config # NULL /\ ledger' = ledger
        /\ assets[a] # NULL /\ principal <= MaxPrincipal(assets[a].value)
    BY <1>1 DEF OpenLoan
  <2>2. new.asset = a /\ new.principal = principal /\ new.updated = ledger
    OBVIOUS
  <2>3. n.ledger = ledger
    BY DEF LoanIdOf
  <2> HIDE DEF n, new
  <2>4. QED
    BY <1>0, <2>1, <2>2, <2>3
<1>2. ASSUME NEW n \in LoanId, loans[n] # NULL, NEW new, new.updated = ledger,
             loans' = [loans EXCEPT ![n] = new]
      PROVE  Goal
  BY <1>0, <1>2
<1>3. ASSUME NEW n \in LoanId, loans[n] # NULL, assets[loans[n].asset] # NULL, CloseLoan(n)
      PROVE  Goal
  <2> DEFINE new == [loans[n] EXCEPT !.balance = 0, !.updated = ledger, !.active = FALSE]
  <2>1. loans' = [loans EXCEPT ![n] = new]
    BY <1>3, CloseLoanType DEF IInv
  <2>2. new.updated = ledger
    BY <1>0, <1>3 DEF Loan
  <2> HIDE DEF new
  <2>3. QED
    BY <1>2, <1>3, <2>1, <2>2
<1>4. ASSUME NEW n \in LoanId, NEW amount \in Stroops, RepayInPart(n, amount)
      PROVE  Goal
  <2> DEFINE new == [loans[n] EXCEPT !.balance = Saturate(Owed(loans[n]) - amount),
                                     !.updated = ledger]
  <2>1. loans[n] \in Loan /\ loans[n] # NULL
    BY <1>0, <1>4 DEF RepayInPart, CanTouch
  <2>2. loans' = [loans EXCEPT ![n] = new]
    BY <1>0, <1>4, <2>1 DEF RepayInPart, Loan
  <2>3. new.updated = ledger
    BY <2>1 DEF Loan
  <2> HIDE DEF new
  <2>4. QED
    BY <1>2, <2>1, <2>2, <2>3
<1>5. ASSUME NEW n \in LoanId, NEW amount \in Stroops, RepayInFull(n, amount)
      PROVE  Goal
  BY <1>3, <1>5 DEF RepayInFull, CanTouch
<1>6. ASSUME NEW n \in LoanId, Liquidate(n) PROVE Goal
  BY <1>3, <1>6 DEF Liquidate, CanLiquidate, CanTouch
<1>7. CASE loans' = loans
  BY <1>7
<1>8. QED
  BY <1>1, <1>4, <1>5, <1>6, <1>7 DEF Next, vars, Initialize, RegisterAsset, CloseLedger

\* The terms are inductive.
LEMMA TermsStep == IInv /\ TermsInv /\ [Next]_vars => TermsInv'
<1> SUFFICES ASSUME IInv, TermsInv, [Next]_vars PROVE TermsInv'
  OBVIOUS
<1>1. IInv'
  BY InvStep
<1>2. ledger \in Int /\ ledger' \in Int /\ ledger <= ledger'
  <2>1. ledger' = ledger \/ ledger' = ledger + 1
    BY DEF Next, vars, Initialize, RegisterAsset, OpenLoan, RepayInFull, RepayInPart,
       Liquidate, CloseLedger
  <2>2. QED
    BY <2>1 DEF IInv, TypeOK, Ledger
<1>3. config' # NULL => config'.ratio > 0
  BY ConfigStep DEF TermsInv
<1>4. ASSUME NEW id \in LoanId, loans'[id] # NULL
      PROVE  /\ config' # NULL
             /\ id.ledger <= loans'[id].updated /\ loans'[id].updated <= ledger'
             /\ loans'[id].asset \notin overwritten' =>
                   loans'[id].principal <=
                      TruncDiv(assets'[loans'[id].asset].value * config'.ratio, BPS)
  <2> DEFINE a == loans'[id].asset
  <2>1. CASE loans[id] # NULL /\ loans'[id].updated \in {loans[id].updated, ledger}
    <3>1. config' = config /\ config # NULL
      BY <2>1, ConfigStep DEF TermsInv
    <3>2. loans[id] \in Loan /\ loans[id].updated \in Int /\ id.ledger \in Int
      <4>1. loans[id] \in Loan
        BY <2>1 DEF IInv, TypeOK
      <4>2. loans[id].updated \in Ledger
        BY <4>1 DEF Loan
      <4>3. id.ledger \in Ledger
        BY DEF LoanId
      <4>4. QED
        BY <4>1, <4>2, <4>3 DEF Ledger
    <3>3. id.ledger <= loans[id].updated /\ loans[id].updated <= ledger
      BY <2>1 DEF TermsInv
    <3>4. id.ledger <= loans'[id].updated /\ loans'[id].updated <= ledger'
      BY <1>2, <2>1, <3>2, <3>3
    <3>5. /\ loans'[id].asset = loans[id].asset /\ loans'[id].principal = loans[id].principal
      BY <2>1, StepKeepsRecords DEF KeptRecord
    <3>6. loans[id].asset \in AssetId /\ assets[loans[id].asset] # NULL
      BY <2>1, <3>2 DEF IInv, BookInv, Loan
    <3>7. ASSUME a \notin overwritten'
          PROVE  loans'[id].principal <= TruncDiv(assets'[a].value * config'.ratio, BPS)
      <4>1. a \notin overwritten /\ assets'[a].value = assets[a].value
        BY <3>5, <3>6, <3>7, AppraisalStep
      <4>2. loans[id].principal <= MaxPrincipal(assets[a].value)
        BY <2>1, <3>5, <4>1 DEF TermsInv
      <4>3. QED
        BY <3>1, <3>5, <4>1, <4>2 DEF MaxPrincipal
    <3>8. QED
      BY <3>1, <3>4, <3>7
  <2>2. CASE /\ config # NULL /\ ledger' = ledger /\ id.ledger = ledger
             /\ loans'[id].updated = ledger
             /\ a \in AssetId /\ assets[a] # NULL
             /\ loans'[id].principal <= MaxPrincipal(assets[a].value)
    <3>1. config' = config
      BY <2>2, ConfigStep
    <3>2. ASSUME a \notin overwritten'
          PROVE  loans'[id].principal <= TruncDiv(assets'[a].value * config'.ratio, BPS)
      <4>1. assets'[a].value = assets[a].value
        BY <2>2, <3>2, AppraisalStep
      <4>2. QED
        BY <2>2, <3>1, <4>1 DEF MaxPrincipal
    <3>3. QED
      BY <1>2, <2>2, <3>1, <3>2
  <2>3. QED
    BY <1>4, <2>1, <2>2, LoanStep
<1>5. QED
  BY <1>3, <1>4 DEF TermsInv, MaxPrincipal

\* Division rounds down.
LEMMA DivLe ==
    ASSUME NEW n \in Nat, NEW d \in Nat \ {0}
    PROVE  n \div d \in Nat /\ d * (n \div d) <= n
OBVIOUS

\* Scaling by a natural number is monotone.
LEMMA Scale ==
    ASSUME NEW a \in Nat, NEW x \in Int, NEW y \in Int, x >= y
    PROVE  a * x >= a * y
<1>1. a * (x - y) >= 0
  OBVIOUS
<1>2. a * (x - y) = a * x - a * y
  OBVIOUS
<1>3. a * x \in Int /\ a * y \in Int
  OBVIOUS
<1>4. QED
  BY <1>1, <1>2, <1>3

\* A quotient is at least k when the dividend is at least k times the divisor.
LEMMA DivGe ==
    ASSUME NEW n \in Nat, NEW d \in Nat \ {0}, NEW k \in Nat, n >= k * d
    PROVE  n \div d >= k
<1> DEFINE q == n \div d
<1>1. q \in Nat /\ n < d * q + d
  OBVIOUS
<1>2. SUFFICES ASSUME q < k PROVE FALSE
  BY <1>1
<1>3. d * k >= d * (q + 1)
  BY <1>1, <1>2, Scale
<1>4. d * (q + 1) = d * q + d /\ d * q \in Int /\ d * k = k * d /\ d * k \in Int
  BY <1>1
<1> HIDE DEF q
<1>5. QED
  BY <1>1, <1>3, <1>4

\* A positive principal within the loan-to-value limit is covered by the collateral
\* at the loan-to-value ratio: rounding down never helps the borrower.
LEMMA LimitCovers ==
    ASSUME NEW p \in Int, p > 0, NEW n \in Int, NEW b \in Nat \ {0}, p <= TruncDiv(n, b)
    PROVE  n \in Nat /\ n >= b * p
<1>1. Magnitude(b) = b /\ Magnitude(n) \in Nat
  BY DEF Magnitude
<1> DEFINE q == Magnitude(n) \div b
<1>2. q \in Nat /\ b * q <= Magnitude(n)
  BY <1>1, DivLe
<1>3. TruncDiv(n, b) = IF (n < 0) = (b < 0) THEN q ELSE -q
  BY <1>1 DEF TruncDiv
<1> HIDE DEF q
<1>4. ~(n < 0) /\ p <= q
  BY <1>2, <1>3
<1>5. n \in Nat /\ Magnitude(n) = n
  BY <1>4 DEF Magnitude
<1>6. b * q >= b * p
  BY <1>2, <1>4, Scale
<1>7. b * q \in Int /\ b * p \in Int
  BY <1>2
<1>8. QED
  BY <1>2, <1>5, <1>6, <1>7

\* The factor of a debt that such collateral covers is at least 120, when the
\* threshold has the margin.
LEMMA CoveredFactor ==
    ASSUME NEW p \in Nat \ {0}, NEW v \in Int, NEW r \in Nat \ {0}, NEW t \in Int,
           v * r \in Nat, v * r >= BPS * p, 100 * t >= 120 * r
    PROVE  TruncDiv(v * t * 100, p * BPS) >= 120
<1>0. BPS \in Nat \ {0}
  BY KraalAssumption
<1>1. v \in Nat
  <2>1. BPS * p > 0
    BY <1>0
  <2>2. v * r > 0
    BY <1>0, <2>1
  <2>3. QED
    BY <2>2
<1>2. v * (100 * t) >= v * (120 * r)
  BY <1>1, Scale
<1> DEFINE n == v * t * 100
           d == p * BPS
<1>3. n = v * (100 * t) /\ v * (120 * r) = 120 * (v * r) /\ n \in Int
  OBVIOUS
<1>4. d \in Nat \ {0} /\ d = BPS * p
  BY <1>0
<1>5. n >= 120 * d
  BY <1>2, <1>3, <1>4
<1>6. n \in Nat
  BY <1>3, <1>4, <1>5
<1> HIDE DEF n, d
<1>7. n \div d >= 120
  BY <1>4, <1>5, <1>6, DivGe
<1>8. TruncDiv(n, d) = n \div d
  BY <1>4, <1>6 DEF TruncDiv, Magnitude
<1>9. QED
  BY <1>7, <1>8 DEF n, d

\* A loan that owes its principal in the ledger it was opened in has no interest.
LEMMA OwesPrincipal ==
    ASSUME NEW l \in Loan, l.updated = ledger, ledger \in Int, config.rate \in Int
    PROVE  Owed(l) = l.balance
<1> DEFINE d == BPS * LedgersPerYear
<1>1. l.balance \in Int
  BY DEF Loan
<1>2. l.balance * config.rate * (ledger - l.updated) = 0
  BY <1>1
<1>3. d \in Nat \ {0}
  BY KraalAssumption
<1>4. TruncDiv(0, d) = 0
  <2>1. Magnitude(0) = 0 /\ Magnitude(d) = d
    BY <1>3 DEF Magnitude
  <2>2. 0 \div d = 0
    BY <1>3
  <2> HIDE DEF d
  <2>3. QED
    BY <1>3, <2>1, <2>2 DEF TruncDiv
<1>5. Interest(l.balance, config.rate, ledger - l.updated) = 0
  BY <1>2, <1>4 DEF Interest
<1>6. QED
  BY <1>1, <1>5 DEF Owed, Accrued

\* A loan within the margin cannot be liquidated in the ledger it was opened in,
\* whatever the appraised value, the ratio and the threshold round to.
THEOREM FreshLoansAreSafe == Spec => []FreshLoanSafe
<1>1. Init => TermsInv
  BY DEF Init, TermsInv
<1>2. IInv /\ TermsInv => FreshLoanSafe
  <2> SUFFICES ASSUME IInv, TermsInv, NEW id \in LoanId,
                      config # NULL, config.fee = 0,
                      100 * config.threshold >= 120 * config.ratio,
                      loans[id] # NULL, loans[id].asset \notin overwritten,
                      id.ledger = ledger, loans[id].principal > 0,
                      loans[id].balance = loans[id].principal, CanLiquidate(id)
               PROVE  FALSE
    BY DEF FreshLoanSafe
  <2> DEFINE l == loans[id]
             v == assets[l.asset].value
             p == l.principal
  <2>1. /\ l \in Loan /\ l.asset \in AssetId /\ p \in Int /\ l.updated \in Int
        /\ ledger \in Int
    <3>1. l \in Loan
      BY DEF IInv, TypeOK
    <3>2. l.updated \in Ledger /\ ledger \in Ledger
      BY <3>1 DEF Loan, IInv, TypeOK
    <3>3. QED
      BY <3>1, <3>2 DEF Loan, Ledger
  <2>2. v \in Int
    <3>1. assets[l.asset] # NULL
      BY DEF CanLiquidate
    <3>2. assets[l.asset] \in Asset
      BY <2>1, <3>1 DEF IInv, TypeOK
    <3>3. QED
      BY <3>2 DEF Asset
  <2>3. /\ config.ratio \in Int /\ config.threshold \in Int /\ config.rate \in Int
        /\ config.ratio > 0
    BY KraalAssumption DEF IInv, TypeOK, TermsInv
  <2>4. l.updated = ledger
    BY <2>1 DEF TermsInv
  <2>5. Owed(l) = p
    BY <2>1, <2>3, <2>4, OwesPrincipal
  <2>6. p <= TruncDiv(v * config.ratio, BPS)
    BY DEF TermsInv, MaxPrincipal
  <2>7. v * config.ratio \in Int /\ BPS \in Nat \ {0}
    BY <2>2, <2>3, KraalAssumption
  <2>8. HealthFactor(v, p) < 120
    BY <2>5 DEF CanLiquidate
  <2>9. p \in Nat \ {0} /\ config.ratio \in Nat \ {0}
    BY <2>1, <2>3
  <2> HIDE DEF v, p, l
  <2>10. v * config.ratio \in Nat /\ v * config.ratio >= BPS * p
    BY <2>6, <2>7, <2>9, LimitCovers
  <2>11. TruncDiv(v * config.threshold * 100, p * BPS) >= 120
    BY <2>2, <2>3, <2>9, <2>10, CoveredFactor
  <2>12. TruncDiv(v * config.threshold * 100, p * BPS) < 120
    BY <2>8, <2>9 DEF HealthFactor
  <2>13. TruncDiv(v * config.threshold * 100, p * BPS) \in Int
    <3>1. v * config.threshold * 100 \in Int /\ p * BPS \in Int \ {0}
      BY <2>2, <2>3, <2>7, <2>9
    <3>2. QED
      BY <3>1, TruncDivInt
  <2>14. QED
    BY <2>11, <2>12, <2>13
<1>3. QED
  BY <1>1, <1>2, TermsStep, InvCorrect, PTL DEF Spec

-----------------------------------------------------------------------------
(***************************************************************************)
(* The price feed of the same contract (KraalPrices), for any set of       *)
(* integer prices and of ages.  The part of the configuration it reads,    *)
(* the oracles and the age, and the prices are its own.                    *)
(***************************************************************************)

\* The median of three numbers has one of any two of them on each side.
LEMMA MedianBetween ==
    ASSUME NEW a \in Int, NEW b \in Int, NEW c \in Int
    PROVE  /\ (a <= Median3(a, b, c) \/ b <= Median3(a, b, c))
           /\ (a >= Median3(a, b, c) \/ b >= Median3(a, b, c))
           /\ (b <= Median3(a, b, c) \/ c <= Median3(a, b, c))
           /\ (b >= Median3(a, b, c) \/ c >= Median3(a, b, c))
           /\ (a <= Median3(a, b, c) \/ c <= Median3(a, b, c))
           /\ (a >= Median3(a, b, c) \/ c >= Median3(a, b, c))
           /\ Median3(a, b, c) \in Int
BY DEF Median3, Lesser, Greater

\* Type correctness of the price feed.
THEOREM FeedTypeCorrect == FeedSpec => []FeedTypeOK
<1>1. FeedInit => FeedTypeOK
  BY SorobanAssumption DEF FeedInit, FeedTypeOK, Ledger
<1>2. FeedTypeOK /\ [FeedNext]_feedVars => FeedTypeOK'
  <2> SUFFICES ASSUME FeedTypeOK, [FeedNext]_feedVars PROVE FeedTypeOK'
    OBVIOUS
  <2>1. ASSUME NEW c \in FeedConfig, InitializeFeed(c) PROVE FeedTypeOK'
    BY <2>1 DEF FeedTypeOK, InitializeFeed
  <2>2. ASSUME NEW oracle \in Account, NEW price \in Price, SubmitPrice(oracle, price)
        PROVE  FeedTypeOK'
    <3> DEFINE e == [price |-> price, submittedAt |-> ledger]
    <3>1. e \in PriceEntry
      BY DEF FeedTypeOK, PriceEntry
    <3>2. QED
      BY <2>2, <3>1 DEF FeedTypeOK, SubmitPrice
  <2>3. CASE CloseFeedLedger
    BY <2>3, SorobanAssumption DEF FeedTypeOK, CloseFeedLedger, Ledger
  <2>4. CASE UNCHANGED feedVars
    BY <2>4 DEF FeedTypeOK, feedVars
  <2>5. QED
    BY <2>1, <2>2, <2>3, <2>4 DEF FeedNext
<1>3. QED
  BY <1>1, <1>2, PTL DEF FeedSpec

\* Two different oracles have the answer between them, whichever two they are.
LEMMA TwoSuffice ==
    ASSUME FeedTypeOK, PriceAvailable,
           NEW x \in Oracles, NEW y \in Oracles, x # y
    PROVE  /\ (prices[x].price <= MedianPrice \/ prices[y].price <= MedianPrice)
           /\ (prices[x].price >= MedianPrice \/ prices[y].price >= MedianPrice)
<1>1. feedConfig \in FeedConfig
  BY DEF FeedTypeOK, PriceAvailable
<1>2. Oracles \subseteq Account
  BY <1>1 DEF Oracles, FeedConfig
<1>3. \A o \in Oracles : prices[o] \in PriceEntry
  BY <1>2 DEF FeedTypeOK, PriceAvailable, Fresh
<1>4. \A o \in Oracles : prices[o].price \in Int
  BY <1>3, PricesAssumption DEF PriceEntry
<1>5. /\ prices[feedConfig.oracle1].price \in Int
      /\ prices[feedConfig.oracle2].price \in Int
      /\ prices[feedConfig.oracle3].price \in Int
  BY <1>4 DEF Oracles
<1> DEFINE p1 == prices[feedConfig.oracle1].price
           p2 == prices[feedConfig.oracle2].price
           p3 == prices[feedConfig.oracle3].price
<1>6. /\ p1 \in Int /\ p2 \in Int /\ p3 \in Int
      /\ MedianPrice = Median3(p1, p2, p3)
  BY <1>5 DEF MedianPrice
<1>7. /\ x = feedConfig.oracle1 \/ x = feedConfig.oracle2 \/ x = feedConfig.oracle3
      /\ y = feedConfig.oracle1 \/ y = feedConfig.oracle2 \/ y = feedConfig.oracle3
  BY DEF Oracles
<1>8. \/ {x, y} = {feedConfig.oracle1, feedConfig.oracle2}
      \/ {x, y} = {feedConfig.oracle2, feedConfig.oracle3}
      \/ {x, y} = {feedConfig.oracle1, feedConfig.oracle3}
  BY <1>7
<1> HIDE DEF p1, p2, p3
<1>9. QED
  BY <1>6, <1>8, MedianBetween DEF p1, p2, p3

\* Whatever one account submits, get_price answers within recent prices of others.
THEOREM NoSingleOracleDecides == FeedSpec => []NoOracleDecides
<1>1. FeedTypeOK => NoOracleDecides
  <2> SUFFICES ASSUME FeedTypeOK, PriceAvailable, DistinctOracles, NEW rogue \in Account
               PROVE  \E low, high \in Oracles \ {rogue} :
                         /\ ledger <= prices[low].submittedAt + feedConfig.maxAge
                         /\ ledger <= prices[high].submittedAt + feedConfig.maxAge
                         /\ prices[low].price <= MedianPrice
                         /\ MedianPrice <= prices[high].price
    BY DEF NoOracleDecides
  <2>1. feedConfig \in FeedConfig
    BY DEF FeedTypeOK, PriceAvailable
  <2>2. Oracles \subseteq Account
    BY <2>1 DEF Oracles, FeedConfig
  <2>3. \A o \in Oracles : prices[o] \in PriceEntry
    BY <2>2 DEF FeedTypeOK, PriceAvailable, Fresh
  <2>4. \A o \in Oracles : ledger <= prices[o].submittedAt + feedConfig.maxAge
    <3>1. ledger \in Int /\ feedConfig.maxAge \in Int
      <4>1. feedConfig.maxAge \in MaxAge
        BY <2>1 DEF FeedConfig
      <4>2. \A n \in MaxAge : n \in Int
        BY PricesAssumption
      <4>3. ledger \in Int
        BY DEF FeedTypeOK, Ledger
      <4>4. QED
        BY <4>1, <4>2, <4>3
    <3>2. \A o \in Oracles : prices[o].submittedAt \in Int
      BY <2>3 DEF PriceEntry, Ledger
    <3>3. QED
      BY <3>1, <3>2 DEF PriceAvailable, Fresh
  <2>5. PICK x, y \in Oracles \ {rogue} : x # y
    BY DEF DistinctOracles, Oracles
  <2>6. /\ (prices[x].price <= MedianPrice \/ prices[y].price <= MedianPrice)
        /\ (prices[x].price >= MedianPrice \/ prices[y].price >= MedianPrice)
    BY <2>5, TwoSuffice
  <2>7. /\ prices[x].price \in Int /\ prices[y].price \in Int /\ MedianPrice \in Int
    <3>1. \A o \in Oracles : prices[o].price \in Int
      BY <2>3, PricesAssumption DEF PriceEntry
    <3>2. /\ prices[feedConfig.oracle1].price \in Int
          /\ prices[feedConfig.oracle2].price \in Int
          /\ prices[feedConfig.oracle3].price \in Int
      BY <3>1 DEF Oracles
    <3>3. QED
      BY <3>1, <3>2, MedianBetween DEF MedianPrice
  <2>8. QED
    BY <2>4, <2>5, <2>6, <2>7
<1>2. QED
  BY <1>1, FeedTypeCorrect, PTL

=============================================================================
