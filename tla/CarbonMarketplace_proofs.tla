---------------------- MODULE CarbonMarketplace_proofs ----------------------
(***************************************************************************)
(* Theorems about the composed carbon contracts, for every value of the    *)
(* constants: any number of accounts, projects, operations and listings.   *)
(***************************************************************************)
EXTENDS CarbonMarketplace, FiniteSums

Balances == [Address -> [ProjectId -> 0 .. MaxI128]]

\* A balance entry that stays within i128 keeps the balances well formed.
LEMMA BalanceByType ==
    ASSUME NEW b \in Balances, NEW a \in Address, NEW p \in ProjectId, NEW d \in Int,
           b[a][p] + d \in 0 .. MaxI128
    PROVE  BalanceBy(b, a, p, d) \in Balances
<1> DEFINE row == [b[a] EXCEPT ![p] = b[a][p] + d]
<1>1. row \in [ProjectId -> 0 .. MaxI128]
  BY DEF Balances
<1>2. QED
  BY <1>1 DEF BalanceBy, Balances

\* A counter of integers stays one.
LEMMA CounterByType ==
    ASSUME NEW f \in [ProjectId -> Int], NEW p \in ProjectId, NEW d \in Int
    PROVE  CounterBy(f, p, d) \in [ProjectId -> Int]
BY DEF CounterBy

\* mint writes well-formed storage and moves only the balance and the supply.
LEMMA MintedFacts ==
    ASSUME NEW c \in CreditStorage, NEW a \in Address, NEW p \in ProjectId, NEW n \in Amount,
           CanMint(c, a, p, n)
    PROVE  /\ Minted(c, a, p, n) \in CreditStorage
           /\ Minted(c, a, p, n).balance = BalanceBy(c.balance, a, p, n)
           /\ Minted(c, a, p, n).supply = CounterBy(c.supply, p, n)
           /\ Minted(c, a, p, n).retired = c.retired
           /\ Minted(c, a, p, n).retireOps = c.retireOps
<1>1. n \in Int /\ n > 0 /\ MaxI128 \in Nat
  BY RegistryAssumption DEF CanMint
<1>2. c.balance \in Balances
  BY DEF CreditStorage, Balances
<1>3. c.balance[a][p] + n \in 0 .. MaxI128
  BY <1>1, <1>2 DEF CanMint, Balances
<1>4. BalanceBy(c.balance, a, p, n) \in Balances
  BY <1>1, <1>2, <1>3, BalanceByType
<1>5. CounterBy(c.supply, p, n) \in [ProjectId -> Int]
  BY <1>1, CounterByType DEF CreditStorage
<1>6. QED
  BY <1>4, <1>5 DEF Minted, CreditStorage, Balances

\* burn lowers one balance and the supply by the same amount.
LEMMA BurnedFacts ==
    ASSUME NEW c \in CreditStorage, NEW a \in Address, NEW p \in ProjectId, NEW n \in Amount,
           CanBurn(c, a, p, n)
    PROVE  /\ Burned(c, a, p, n) \in CreditStorage
           /\ Burned(c, a, p, n).balance = BalanceBy(c.balance, a, p, -n)
           /\ Burned(c, a, p, n).supply = CounterBy(c.supply, p, -n)
           /\ Burned(c, a, p, n).retired = c.retired
           /\ Burned(c, a, p, n).retireOps = c.retireOps
<1>1. n \in Int /\ n > 0 /\ MaxI128 \in Nat
  BY RegistryAssumption DEF CanBurn
<1>2. c.balance \in Balances
  BY DEF CreditStorage, Balances
<1>3. c.balance[a][p] + (-n) \in 0 .. MaxI128
  BY <1>1, <1>2 DEF CanBurn, Balances
<1>4. BalanceBy(c.balance, a, p, -n) \in Balances
  BY <1>1, <1>2, <1>3, BalanceByType
<1>5. CounterBy(c.supply, p, -n) \in [ProjectId -> Int]
  <2>1. -n \in Int
    BY <1>1
  <2>2. c.supply \in [ProjectId -> Int]
    BY DEF CreditStorage
  <2>3. QED
    BY <2>1, <2>2, CounterByType
<1>6. QED
  BY <1>4, <1>5 DEF Burned, CreditStorage, Balances

\* transfer moves balances only.
LEMMA TransferredFacts ==
    ASSUME NEW c \in CreditStorage, NEW a \in Address, NEW b \in Address,
           NEW p \in ProjectId, NEW n \in Amount, CanTransfer(c, a, b, p, n)
    PROVE  /\ Transferred(c, a, b, p, n) \in CreditStorage
           /\ Transferred(c, a, b, p, n).supply = c.supply
           /\ Transferred(c, a, b, p, n).retired = c.retired
           /\ Transferred(c, a, b, p, n).retireOps = c.retireOps
<1>1. CASE a = b
  BY <1>1 DEF Transferred
<1>2. CASE a # b
  <2> DEFINE mid == BalanceBy(c.balance, a, p, -n)
  <2>1. n \in Int /\ n > 0 /\ MaxI128 \in Nat
    BY RegistryAssumption DEF CanTransfer
  <2>2. c.balance \in Balances
    BY DEF CreditStorage, Balances
  <2>3. c.balance[a][p] + (-n) \in 0 .. MaxI128
    BY <1>2, <2>1, <2>2 DEF CanTransfer, Balances
  <2>4. mid \in Balances
    BY <2>1, <2>2, <2>3, BalanceByType
  <2>5. mid[b][p] = c.balance[b][p]
    BY <1>2, <2>2 DEF BalanceBy, Balances
  <2>6. mid[b][p] + n \in 0 .. MaxI128
    BY <1>2, <2>1, <2>2, <2>5 DEF CanTransfer, Balances
  <2>7. BalanceBy(mid, b, p, n) \in Balances
    BY <2>1, <2>4, <2>6, BalanceByType
  <2>8. QED
    BY <1>2, <2>7 DEF Transferred, CreditStorage, Balances
<1>3. QED
  BY <1>1, <1>2

\* retire moves an amount from a balance and the supply to the retired pool and
\* records an operation id that was free.
LEMMA RetiredFacts ==
    ASSUME NEW c \in CreditStorage, NEW a \in Address, NEW p \in ProjectId, NEW n \in Amount,
           NEW op \in OperationId, CanRetire(c, a, p, n, op)
    PROVE  /\ RetiredBy(c, a, p, n, op) \in CreditStorage
           /\ RetiredBy(c, a, p, n, op).supply = CounterBy(c.supply, p, -n)
           /\ RetiredBy(c, a, p, n, op).retired = CounterBy(c.retired, p, n)
           /\ RetiredBy(c, a, p, n, op).retireOps = c.retireOps \cup {op}
           /\ op \notin c.retireOps
<1>1. n \in Int /\ n > 0 /\ MaxI128 \in Nat
  BY RegistryAssumption DEF CanRetire
<1>2. c.balance \in Balances
  BY DEF CreditStorage, Balances
<1>3. c.balance[a][p] + (-n) \in 0 .. MaxI128
  BY <1>1, <1>2 DEF CanRetire, Balances
<1>4. BalanceBy(c.balance, a, p, -n) \in Balances
  BY <1>1, <1>2, <1>3, BalanceByType
<1>5. CounterBy(c.supply, p, -n) \in [ProjectId -> Int]
  <2>1. -n \in Int
    BY <1>1
  <2>2. c.supply \in [ProjectId -> Int]
    BY DEF CreditStorage
  <2>3. QED
    BY <2>1, <2>2, CounterByType
<1>6. CounterBy(c.retired, p, n) \in [ProjectId -> 0 .. MaxI128]
  <2>1. c.retired \in [ProjectId -> 0 .. MaxI128]
    BY DEF CreditStorage
  <2>2. c.retired[p] + n \in 0 .. MaxI128
    BY <1>1, <2>1 DEF CanRetire
  <2>3. QED
    BY <2>1, <2>2 DEF CounterBy
<1>7. c.retireOps \cup {op} \in SUBSET OperationId
  BY DEF CreditStorage
<1>8. QED
  BY <1>4, <1>5, <1>6, <1>7 DEF RetiredBy, CreditStorage, Balances, CanRetire

-----------------------------------------------------------------------------
(***************************************************************************)
(* Types                                                                   *)
(***************************************************************************)

\* A status or an issued counter written into an entry leaves it a project.
LEMMA ProjectUpdate ==
    ASSUME NEW e \in CarbonProject
    PROVE  /\ \A s \in ProjectStatus :
                 /\ [e EXCEPT !.status = s] \in CarbonProject
                 /\ [e EXCEPT !.status = s].issued = e.issued
                 /\ [e EXCEPT !.status = s].total = e.total
           /\ \A n \in 0 .. MaxI128 :
                 /\ [e EXCEPT !.issued = n] \in CarbonProject
                 /\ [e EXCEPT !.issued = n].issued = n
                 /\ [e EXCEPT !.issued = n].total = e.total
BY DEF CarbonProject

\* Registry entry points keep the registry's types.
LEMMA RegistryTypeStep ==
    ASSUME RegistryTypeOK, RegistryNext
    PROVE  RegistryTypeOK'
<1> USE DEF RegistryTypeOK
<1>1. ASSUME NEW admin \in Admin, InitializeRegistry(admin)
      PROVE  RegistryTypeOK'
  BY <1>1 DEF InitializeRegistry
<1>2. ASSUME NEW owner \in Address, NEW total \in Total, NEW vintage \in Vintage,
             RegisterProject(owner, total, vintage)
      PROVE  RegistryTypeOK'
  <2> DEFINE e == [owner |-> owner, total |-> total, issued |-> 0, status |-> "Pending"]
  <2>1. total \in 1 .. MaxI128 /\ MaxI128 \in Nat
    BY <1>2, RegistryAssumption DEF RegisterProject
  <2>2. e \in CarbonProject
    BY <2>1 DEF CarbonProject, ProjectStatus
  <2>3. QED
    BY <1>2, <2>2 DEF RegisterProject, ProjectIdOf, ProjectId
<1>3. ASSUME NEW id \in ProjectId, NEW s \in ProjectStatus, SetProjectStatus(id, s)
      PROVE  RegistryTypeOK'
  <2>1. projects[id] \in CarbonProject
    BY <1>3 DEF SetProjectStatus
  <2>2. [projects[id] EXCEPT !.status = s] \in CarbonProject
    BY <2>1, ProjectUpdate
  <2>3. QED
    BY <1>3, <2>2 DEF SetProjectStatus
<1>4. QED
  BY <1>1, <1>2, <1>3
     DEF RegistryNext, VerifyProject, SuspendProject, RetireProject, ProjectStatus

\* Holders' entry points keep the credit contract's types.
LEMMA CreditTypeStep ==
    ASSUME CreditTypeOK, CreditNext
    PROVE  CreditTypeOK'
<1> USE DEF CreditTypeOK
<1>1. ASSUME NEW admin \in Admin, InitializeCredit(admin)
      PROVE  CreditTypeOK'
  BY <1>1 DEF InitializeCredit
<1>2. ASSUME NEW from \in Address, NEW to \in Address, NEW p \in ProjectId,
             NEW amount \in Amount, Transfer(from, to, p, amount)
      PROVE  CreditTypeOK'
  BY <1>2, TransferredFacts DEF Transfer
<1>3. ASSUME NEW from \in Address, NEW to1 \in Address, NEW to2 \in Address,
             NEW p1 \in ProjectId, NEW p2 \in ProjectId,
             NEW amount1 \in Amount, NEW amount2 \in Amount,
             BatchTransfer(from, to1, p1, amount1, to2, p2, amount2)
      PROVE  CreditTypeOK'
  <2> DEFINE mid == Transferred(credit, from, to1, p1, amount1)
  <2>1. mid \in CreditStorage
    BY <1>3, TransferredFacts DEF BatchTransfer
  <2>2. CanTransfer(mid, from, to2, p2, amount2)
    BY <1>3 DEF BatchTransfer
  <2>3. Transferred(mid, from, to2, p2, amount2) \in CreditStorage
    BY <2>1, <2>2, TransferredFacts
  <2>4. QED
    BY <1>3, <2>3 DEF BatchTransfer
<1>4. ASSUME NEW from \in Address, NEW p \in ProjectId, NEW amount \in Amount,
             NEW op \in OperationId, Retire(from, p, amount, op)
      PROVE  CreditTypeOK'
  BY <1>4, RetiredFacts DEF Retire
<1>5. QED
  BY <1>1, <1>2, <1>3, <1>4 DEF CreditNext

\* A burn of an amount followed by a mint of it leaves the counter as it was.
LEMMA CounterRoundTrip ==
    ASSUME NEW f \in [ProjectId -> Int], NEW p \in ProjectId, NEW n \in Int
    PROVE  CounterBy(CounterBy(f, p, -n), p, n) = f
<1> DEFINE g == CounterBy(f, p, -n)
<1>1. -n \in Int
  OBVIOUS
<1>2. g \in [ProjectId -> Int] /\ g[p] = f[p] + (-n)
        /\ \A q \in ProjectId \ {p} : g[q] = f[q]
  BY <1>1 DEF CounterBy
<1> HIDE DEF g
<1>3. g[p] + n = f[p]
  BY <1>2
<1>4. CounterBy(g, p, n) = f
  BY <1>2, <1>3 DEF CounterBy
<1>5. QED
  BY <1>4 DEF g

\* A listing that is in the table is a listing: NULL is not one.
LEMMA PresentListing ==
    ASSUME TypeOK, NEW id \in ListingId, listings[id] # NULL
    PROVE  /\ listings[id] \in Listing
           /\ listings[id].seller \in Address
           /\ listings[id].project \in ProjectId
           /\ listings[id].amount \in Amount
<1>1. listings[id] \in Listing
  BY DEF TypeOK
<1>2. QED
  BY <1>1 DEF Listing

\* Closing a listing changes its status and nothing else.
LEMMA ListingUpdate ==
    ASSUME NEW l \in Listing, NEW s \in {"Active", "Sold", "Cancelled"}
    PROVE  /\ [l EXCEPT !.status = s] \in Listing
           /\ [l EXCEPT !.status = s].seller = l.seller
BY DEF Listing

\* purchase_listing's burn and mint leave supply and retirements alone.
LEMMA PurchaseFacts ==
    ASSUME TypeOK, NEW buyer \in Address, NEW id \in ListingId, NEW payment, NEW max,
           PurchaseListing(buyer, id, payment, max)
    PROVE  /\ credit' \in CreditStorage
           /\ credit'.supply = credit.supply
           /\ credit'.retired = credit.retired
           /\ credit'.retireOps = credit.retireOps
<1> DEFINE l == listings[id]
<1> DEFINE c == Burned(credit, l.seller, l.project, l.amount)
<1>1. l.seller \in Address /\ l.project \in ProjectId /\ l.amount \in Amount
  BY PresentListing DEF PurchaseListing
<1>2. credit \in CreditStorage
  BY DEF TypeOK, CreditTypeOK
<1>3. CanBurn(credit, l.seller, l.project, l.amount)
  BY DEF PurchaseListing
<1>4. /\ c \in CreditStorage
      /\ c.supply = CounterBy(credit.supply, l.project, -l.amount)
      /\ c.retired = credit.retired
      /\ c.retireOps = credit.retireOps
  BY <1>1, <1>2, <1>3, BurnedFacts
<1>5. CanMint(c, buyer, l.project, l.amount)
  BY DEF PurchaseListing
<1> HIDE DEF c
<1>6. /\ Minted(c, buyer, l.project, l.amount) \in CreditStorage
      /\ Minted(c, buyer, l.project, l.amount).supply = CounterBy(c.supply, l.project, l.amount)
      /\ Minted(c, buyer, l.project, l.amount).retired = c.retired
      /\ Minted(c, buyer, l.project, l.amount).retireOps = c.retireOps
  BY <1>1, <1>4, <1>5, MintedFacts
<1>7. credit' = Minted(c, buyer, l.project, l.amount)
  BY DEF PurchaseListing, c
<1>8. CounterBy(c.supply, l.project, l.amount) = credit.supply
  <2>1. credit.supply \in [ProjectId -> Int]
    BY <1>2 DEF CreditStorage
  <2>2. \A n \in Amount : n \in Int
    BY RegistryAssumption
  <2>3. l.amount \in Int
    BY <1>1, <2>2, Zenon
  <2>4. CounterBy(CounterBy(credit.supply, l.project, -l.amount), l.project, l.amount)
          = credit.supply
    BY <1>1, <2>1, <2>3, CounterRoundTrip
  <2>5. QED
    BY <1>4, <2>4
<1>9. QED
  BY <1>4, <1>6, <1>7, <1>8

\* mint_project_credits raises the issued counter and the supply of one verified
\* project by the same amount, within the project's total.
LEMMA IssuanceFacts ==
    ASSUME TypeOK, NEW p \in ProjectId, NEW n \in Amount, MintProjectCredits(p, n)
    PROVE  /\ credit' \in CreditStorage
           /\ credit'.supply = CounterBy(credit.supply, p, n)
           /\ credit'.retired = credit.retired
           /\ credit'.retireOps = credit.retireOps
           /\ projects[p] \in CarbonProject
           /\ n > 0
           /\ projects[p].issued + n \in 0 .. MaxI128
           /\ projects[p].issued + n <= projects[p].total
           /\ projects' = [projects EXCEPT ![p] =
                             [projects[p] EXCEPT !.issued = projects[p].issued + n]]
<1>1. projects[p] # NULL
  BY DEF MintProjectCredits, CanIssue, IsVerified
<1>2. projects[p] \in CarbonProject
  BY <1>1 DEF TypeOK, RegistryTypeOK
<1>3. projects[p].owner \in Address /\ projects[p].issued \in 0 .. MaxI128
  BY <1>2 DEF CarbonProject
<1>4. n \in Int /\ n > 0 /\ MaxI128 \in Nat
  BY RegistryAssumption DEF MintProjectCredits
<1>5. /\ projects[p].issued + n \in 0 .. MaxI128
      /\ projects[p].issued + n <= projects[p].total
  BY <1>3, <1>4 DEF MintProjectCredits, CanIssue
<1>6. CanMint(credit, projects[p].owner, p, n)
  BY DEF MintProjectCredits
<1>7. credit \in CreditStorage
  BY DEF TypeOK, CreditTypeOK
<1>8. credit' = Minted(credit, projects[p].owner, p, n)
  BY DEF MintProjectCredits
<1>9. projects' = [projects EXCEPT ![p] =
                     [projects[p] EXCEPT !.issued = projects[p].issued + n]]
  <2>1. projects' = [projects EXCEPT ![p].issued = projects[p].issued + n]
    BY DEF MintProjectCredits, Issued
  <2>2. QED
    BY <2>1
<1>10. QED
  BY <1>2, <1>3, <1>4, <1>5, <1>6, <1>7, <1>8, <1>9, MintedFacts

\* Marketplace entry points and the environment keep every type.
LEMMA MarketTypeStep ==
    ASSUME TypeOK, MarketNext
    PROVE  TypeOK'
<1>1. ASSUME NEW admin \in Admin, InitializeMarket(admin)
      PROVE  TypeOK'
  BY <1>1 DEF InitializeMarket, TypeOK, RegistryTypeOK, CreditTypeOK, registryVars,
              creditVars, envVars
<1>2. ASSUME NEW caller \in Admin, ConfigureOracle(caller)
      PROVE  TypeOK'
  BY <1>2 DEF ConfigureOracle, TypeOK, RegistryTypeOK, CreditTypeOK, registryVars,
              creditVars, envVars
<1>3. ASSUME NEW caller \in Admin, NEW state \in CircuitState,
             SetCircuitBreakerState(caller, state)
      PROVE  TypeOK'
  BY <1>3 DEF SetCircuitBreakerState, TypeOK, RegistryTypeOK, CreditTypeOK, registryVars,
              creditVars, envVars
<1>4. ASSUME NEW seller \in Address, NEW p \in ProjectId, NEW amount \in Amount,
             NEW price \in Price, CreateListing(seller, p, amount, price)
      PROVE  TypeOK'
  <2> DEFINE nonce == sellerNonce[seller]
             id    == ListingIdOf(seller, p, amount, price, ledger, nonce)
             l     == [seller |-> seller, project |-> p, amount |-> amount,
                       price |-> price, status |-> "Active"]
  <2>1. /\ nonce \in 0 .. MaxNonce /\ nonce + 1 \in 0 .. MaxNonce + 1
        /\ sellerNonce \in [Address -> 0 .. MaxNonce + 1]
    BY <1>4, MarketAssumption DEF CreateListing, TypeOK
  <2>2. amount > 0 /\ price > 0
    BY <1>4 DEF CreateListing
  <2>3. ledger \in Ledger
    BY DEF TypeOK
  <2>4. id \in ListingId
    BY <2>1, <2>2, <2>3 DEF ListingIdOf, ListingId
  <2>5. l \in Listing
    BY <2>2 DEF Listing
  <2> HIDE DEF id, l
  <2>6. listings' = [listings EXCEPT ![id] = l]
    BY <1>4 DEF CreateListing, id, l
  <2>7. listings' \in [ListingId -> Listing \cup {NULL}]
    BY <2>4, <2>5, <2>6 DEF TypeOK
  <2>8. sellerNonce' \in [Address -> 0 .. MaxNonce + 1]
    BY <1>4, <2>1 DEF CreateListing
  <2>9. QED
    BY <1>4, <2>7, <2>8 DEF CreateListing, TypeOK, RegistryTypeOK, CreditTypeOK,
       registryVars, creditVars, envVars
<1>5. ASSUME NEW buyer \in Address, NEW id \in ListingId, NEW payment \in Price,
             NEW max \in Ledger, PurchaseListing(buyer, id, payment, max)
      PROVE  TypeOK'
  <2>1. listings[id] # NULL
    BY <1>5 DEF PurchaseListing
  <2>2. [listings[id] EXCEPT !.status = "Sold"] \in Listing
    BY <2>1, PresentListing, ListingUpdate
  <2>3. listings' = [listings EXCEPT ![id] = [listings[id] EXCEPT !.status = "Sold"]]
    BY <1>5 DEF PurchaseListing
  <2>4. listings' \in [ListingId -> Listing \cup {NULL}]
    BY <2>2, <2>3 DEF TypeOK
  <2>5. credit' \in CreditStorage
    BY <1>5, PurchaseFacts
  <2>6. QED
    BY <1>5, <2>4, <2>5 DEF PurchaseListing, TypeOK, RegistryTypeOK, CreditTypeOK,
       registryVars, creditVars, envVars
<1>6. ASSUME NEW seller \in Address, NEW id \in ListingId, CancelListing(seller, id)
      PROVE  TypeOK'
  <2>1. listings[id] # NULL
    BY <1>6 DEF CancelListing
  <2>2. [listings[id] EXCEPT !.status = "Cancelled"] \in Listing
    BY <2>1, PresentListing, ListingUpdate
  <2>3. listings' = [listings EXCEPT ![id] = [listings[id] EXCEPT !.status = "Cancelled"]]
    BY <1>6 DEF CancelListing
  <2>4. listings' \in [ListingId -> Listing \cup {NULL}]
    BY <2>2, <2>3 DEF TypeOK
  <2>5. QED
    BY <1>6, <2>4 DEF CancelListing, TypeOK, RegistryTypeOK, CreditTypeOK,
       registryVars, creditVars, envVars
<1>7. ASSUME NEW p \in ProjectId, NEW amount \in Amount, MintProjectCredits(p, amount)
      PROVE  TypeOK'
  <2>1. /\ credit' \in CreditStorage
        /\ projects[p] \in CarbonProject
        /\ projects[p].issued + amount \in 0 .. MaxI128
        /\ projects' = [projects EXCEPT ![p] =
                          [projects[p] EXCEPT !.issued = projects[p].issued + amount]]
    BY <1>7, IssuanceFacts
  <2>2. [projects[p] EXCEPT !.issued = projects[p].issued + amount] \in CarbonProject
    BY <2>1, ProjectUpdate
  <2>3. projects' \in [ProjectId -> CarbonProject \cup {NULL}]
    BY <2>1, <2>2 DEF TypeOK, RegistryTypeOK
  <2>4. QED
    BY <1>7, <2>1, <2>3 DEF MintProjectCredits, TypeOK, RegistryTypeOK, CreditTypeOK,
       marketVars, envVars
<1>8. ASSUME CloseLedger
      PROVE  TypeOK'
  BY <1>8, MarketAssumption DEF CloseLedger, Ledger, TypeOK, RegistryTypeOK, CreditTypeOK,
     registryVars, creditVars, marketVars
<1>9. ASSUME NEW view \in OracleView, OracleChanges(view)
      PROVE  TypeOK'
  BY <1>9 DEF OracleChanges, TypeOK, RegistryTypeOK, CreditTypeOK, registryVars,
              creditVars, marketVars
<1>10. QED
  BY <1>1, <1>2, <1>3, <1>4, <1>5, <1>6, <1>7, <1>8, <1>9 DEF MarketNext

\* Every step keeps every type.
LEMMA TypeStep ==
    ASSUME TypeOK, [Next]_vars
    PROVE  TypeOK'
<1>1. CASE RegistryNext /\ UNCHANGED <<creditVars, marketVars, envVars>>
  <2>1. RegistryTypeOK'
    BY <1>1, RegistryTypeStep DEF TypeOK
  <2>2. QED
    BY <1>1, <2>1 DEF TypeOK, CreditTypeOK, creditVars, marketVars, envVars
<1>2. CASE CreditNext /\ UNCHANGED <<registryVars, marketVars, envVars>>
  <2>1. CreditTypeOK'
    BY <1>2, CreditTypeStep DEF TypeOK
  <2>2. QED
    BY <1>2, <2>1 DEF TypeOK, RegistryTypeOK, registryVars, marketVars, envVars
<1>3. CASE MarketNext
  BY <1>3, MarketTypeStep
<1>4. CASE UNCHANGED vars
  BY <1>4 DEF vars, TypeOK, RegistryTypeOK, CreditTypeOK, registryVars, creditVars,
              marketVars, envVars
<1>5. QED
  BY <1>1, <1>2, <1>3, <1>4 DEF Next

\* The contracts start well typed: nothing is stored yet.
LEMMA TypeInit == Init => TypeOK
<1> SUFFICES ASSUME Init PROVE TypeOK
  OBVIOUS
<1>1. RegistryTypeOK
  BY DEF Init, RegistryInit, RegistryTypeOK
<1>2. CreditTypeOK
  <2>1. 0 \in 0 .. MaxI128 /\ 0 \in Int
    BY RegistryAssumption
  <2>2. QED
    BY <2>1 DEF Init, CreditInit, CreditTypeOK, CreditStorage
<1>3. /\ sellerNonce \in [Address -> 0 .. MaxNonce + 1]
      /\ ledger \in Ledger
      /\ circuit \in CircuitState
  BY MarketAssumption DEF Init, Ledger
<1>4. listings \in [ListingId -> Listing \cup {NULL}]
  BY DEF Init
<1>5. QED
  BY <1>1, <1>2, <1>3, <1>4 DEF Init, TypeOK

\* Type correctness of the three contracts: in particular no balance is ever
\* negative or beyond i128, and no retired counter overflows.
THEOREM TypeCorrect == Spec => []TypeOK
<1>1. TypeOK /\ [Next]_vars => TypeOK'
  BY TypeStep
<1>2. QED
  BY <1>1, TypeInit, PTL DEF Spec

-----------------------------------------------------------------------------
(***************************************************************************)
(* Accounting: what a step does to supply, retirements and operation ids   *)
(***************************************************************************)

SameAccounts ==
    /\ credit'.supply = credit.supply
    /\ credit'.retired = credit.retired
    /\ credit'.retireOps = credit.retireOps

IssueStep(p, n) ==
    /\ circuit = "Active"
    /\ n \in Int /\ n > 0
    /\ credit'.supply = CounterBy(credit.supply, p, n)
    /\ credit'.retired = credit.retired
    /\ credit'.retireOps = credit.retireOps
    /\ projects[p] \in CarbonProject
    /\ projects[p].issued + n \in 0 .. MaxI128
    /\ projects[p].issued + n <= projects[p].total
    /\ projects' = [projects EXCEPT ![p] =
                      [projects[p] EXCEPT !.issued = projects[p].issued + n]]
    /\ overwritten' = overwritten

RetireStep(p, n, op) ==
    /\ n \in Int /\ n > 0
    /\ credit'.supply = CounterBy(credit.supply, p, -n)
    /\ credit'.retired = CounterBy(credit.retired, p, n)
    /\ op \notin credit.retireOps
    /\ credit'.retireOps = credit.retireOps \cup {op}
    /\ UNCHANGED <<projects, overwritten>>

\* A step either leaves the accounts alone (and then touches the registry by a
\* registry entry point or not at all), or issues, or retires.
LEMMA AccountStep ==
    ASSUME TypeOK, [Next]_vars
    PROVE  \/ SameAccounts /\ (RegistryNext \/ UNCHANGED <<projects, overwritten>>)
           \/ \E p \in ProjectId, n \in Amount : IssueStep(p, n)
           \/ \E p \in ProjectId, n \in Amount, op \in OperationId : RetireStep(p, n, op)
<1> DEFINE Goal == \/ SameAccounts /\ (RegistryNext \/ UNCHANGED <<projects, overwritten>>)
                   \/ \E p \in ProjectId, n \in Amount : IssueStep(p, n)
                   \/ \E p \in ProjectId, n \in Amount, op \in OperationId :
                          RetireStep(p, n, op)
<1>0. credit \in CreditStorage
  BY DEF TypeOK, CreditTypeOK
<1>1. CASE RegistryNext /\ UNCHANGED <<creditVars, marketVars, envVars>>
  BY <1>1 DEF SameAccounts, creditVars
<1>2. CASE CreditNext /\ UNCHANGED <<registryVars, marketVars, envVars>>
  <2>0. UNCHANGED <<projects, overwritten>>
    BY <1>2 DEF registryVars
  <2>1. ASSUME NEW admin \in Admin, InitializeCredit(admin)
        PROVE  Goal
    BY <2>0, <2>1 DEF InitializeCredit, SameAccounts
  <2>2. ASSUME NEW from \in Address, NEW to \in Address, NEW p \in ProjectId,
               NEW amount \in Amount, Transfer(from, to, p, amount)
        PROVE  Goal
    BY <1>0, <2>0, <2>2, TransferredFacts DEF Transfer, SameAccounts
  <2>3. ASSUME NEW from \in Address, NEW to1 \in Address, NEW to2 \in Address,
               NEW p1 \in ProjectId, NEW p2 \in ProjectId,
               NEW amount1 \in Amount, NEW amount2 \in Amount,
               BatchTransfer(from, to1, p1, amount1, to2, p2, amount2)
        PROVE  Goal
    <3> DEFINE mid == Transferred(credit, from, to1, p1, amount1)
    <3>1. /\ mid \in CreditStorage
          /\ mid.supply = credit.supply
          /\ mid.retired = credit.retired
          /\ mid.retireOps = credit.retireOps
      BY <1>0, <2>3, TransferredFacts DEF BatchTransfer
    <3>2. /\ CanTransfer(mid, from, to2, p2, amount2)
          /\ credit' = Transferred(mid, from, to2, p2, amount2)
      BY <2>3 DEF BatchTransfer
    <3> HIDE DEF mid
    <3>3. /\ credit'.supply = mid.supply
          /\ credit'.retired = mid.retired
          /\ credit'.retireOps = mid.retireOps
      BY <3>1, <3>2, TransferredFacts
    <3>4. QED
      BY <2>0, <3>1, <3>3 DEF SameAccounts
  <2>4. ASSUME NEW from \in Address, NEW p \in ProjectId, NEW amount \in Amount,
               NEW op \in OperationId, Retire(from, p, amount, op)
        PROVE  Goal
    <3>1. CanRetire(credit, from, p, amount, op)
      BY <2>4 DEF Retire
    <3>2. amount \in Int /\ amount > 0
      BY <3>1, RegistryAssumption DEF CanRetire
    <3>3. RetireStep(p, amount, op)
      BY <1>0, <2>0, <2>4, <3>1, <3>2, RetiredFacts DEF Retire, RetireStep
    <3>4. QED
      BY <3>3
  <2>5. QED
    BY <1>2, <2>1, <2>2, <2>3, <2>4 DEF CreditNext
<1>3. CASE MarketNext
  <2>1. ASSUME NEW buyer \in Address, NEW id \in ListingId, NEW payment \in Price,
               NEW max \in Ledger, PurchaseListing(buyer, id, payment, max)
        PROVE  Goal
    <3>1. SameAccounts
      BY <2>1, PurchaseFacts DEF SameAccounts
    <3>2. QED
      BY <2>1, <3>1 DEF PurchaseListing, registryVars
  <2>2. ASSUME NEW p \in ProjectId, NEW amount \in Amount, MintProjectCredits(p, amount)
        PROVE  Goal
    <3>1. amount \in Int /\ overwritten' = overwritten /\ circuit = "Active"
      BY <2>2, RegistryAssumption DEF MintProjectCredits, RequireMarketActive
    <3>2. IssueStep(p, amount)
      BY <2>2, <3>1, IssuanceFacts DEF IssueStep
    <3>3. QED
      BY <3>2
  <2>3. ASSUME UNCHANGED <<registryVars, creditVars>>
        PROVE  Goal
    BY <2>3 DEF SameAccounts, registryVars, creditVars
  <2>4. QED
    BY <1>3, <2>1, <2>2, <2>3 DEF MarketNext, InitializeMarket, ConfigureOracle,
       SetCircuitBreakerState, CreateListing, CancelListing, CloseLedger, OracleChanges
<1>4. CASE UNCHANGED vars
  BY <1>4 DEF vars, SameAccounts, registryVars, creditVars
<1>5. QED
  BY <1>1, <1>2, <1>3, <1>4 DEF Next

\* A registry entry point keeps an entry's issued counter and total, or writes a
\* fresh entry: where there was none, or counted as overwritten.
LEMMA RegistryEffect ==
    ASSUME RegistryTypeOK, RegistryNext, NEW p \in ProjectId \ overwritten'
    PROVE  /\ p \notin overwritten
           /\ projects'[p] = NULL => projects[p] = NULL
           /\ projects'[p] # NULL =>
                 \/ /\ projects[p] # NULL
                    /\ projects'[p].issued = projects[p].issued
                    /\ projects'[p].total = projects[p].total
                 \/ /\ projects[p] = NULL
                    /\ projects'[p].issued = 0
                    /\ projects'[p].total \in Nat
<1> DEFINE Goal == /\ p \notin overwritten
                   /\ projects'[p] = NULL => projects[p] = NULL
                   /\ projects'[p] # NULL =>
                         \/ /\ projects[p] # NULL
                            /\ projects'[p].issued = projects[p].issued
                            /\ projects'[p].total = projects[p].total
                         \/ /\ projects[p] = NULL
                            /\ projects'[p].issued = 0
                            /\ projects'[p].total \in Nat
<1> USE DEF RegistryTypeOK
<1>1. ASSUME NEW admin \in Admin, InitializeRegistry(admin)
      PROVE  Goal
  BY <1>1 DEF InitializeRegistry
<1>2. ASSUME NEW owner \in Address, NEW total \in Total, NEW vintage \in Vintage,
             RegisterProject(owner, total, vintage)
      PROVE  Goal
  <2> DEFINE e == [owner |-> owner, total |-> total, issued |-> 0, status |-> "Pending"]
  <2>1. total \in Nat
    BY <1>2, RegistryAssumption DEF RegisterProject
  <2>2. /\ projects' = [projects EXCEPT ![vintage] = e]
        /\ vintage \in ProjectId
        /\ overwritten' = IF projects[vintage] = NULL THEN overwritten
                                                      ELSE overwritten \cup {vintage}
    BY <1>2 DEF RegisterProject, ProjectIdOf, ProjectId
  <2>3. e.issued = 0 /\ e.total = total
    OBVIOUS
  <2>4. e \in CarbonProject
    BY <2>1, <1>2, RegistryAssumption DEF CarbonProject, ProjectStatus, RegisterProject
  <2>5. e # NULL
    BY <2>4, NullIsNoProject
  <2> HIDE DEF e
  <2>6. CASE p = vintage
    <3>1. projects[p] = NULL /\ p \notin overwritten
      BY <2>2, <2>6
    <3>2. projects'[p] = e
      BY <2>2, <2>6
    <3>3. QED
      BY <2>1, <2>3, <2>5, <3>1, <3>2
  <2>7. CASE p # vintage
    BY <2>2, <2>7
  <2>8. QED
    BY <2>6, <2>7
<1>3. ASSUME NEW id \in ProjectId, NEW s \in ProjectStatus, SetProjectStatus(id, s)
      PROVE  Goal
  <2> DEFINE e == [projects[id] EXCEPT !.status = s]
  <2>1. projects[id] \in CarbonProject /\ projects[id] # NULL
    BY <1>3 DEF SetProjectStatus
  <2>2. /\ e.issued = projects[id].issued
        /\ e.total = projects[id].total
        /\ e \in CarbonProject
    BY <2>1, ProjectUpdate
  <2>3. /\ projects' = [projects EXCEPT ![id] = e]
        /\ overwritten' = overwritten
    BY <1>3 DEF SetProjectStatus
  <2> HIDE DEF e
  <2>4. CASE p = id
    <3>1. projects'[p] = e
      BY <2>3, <2>4
    <3>2. e # NULL
      BY <2>2, NullIsNoProject
    <3>3. QED
      BY <2>1, <2>2, <2>3, <2>4, <3>1, <3>2
  <2>5. CASE p # id
    BY <2>3, <2>5
  <2>6. QED
    BY <2>4, <2>5
<1>4. QED
  BY <1>1, <1>2, <1>3
     DEF RegistryNext, VerifyProject, SuspendProject, RetireProject, ProjectStatus

\* Every step keeps issued = supply + retired for the entries never overwritten.
LEMMA AccountedStep ==
    ASSUME TypeOK, IssuedAccounted, [Next]_vars
    PROVE  IssuedAccounted'
<1>0. /\ credit.supply \in [ProjectId -> Int]
      /\ credit.retired \in [ProjectId -> 0 .. MaxI128]
      /\ projects \in [ProjectId -> CarbonProject \cup {NULL}]
      /\ MaxI128 \in Nat
  BY RegistryAssumption DEF TypeOK, CreditTypeOK, CreditStorage, RegistryTypeOK
<1>1. CASE SameAccounts /\ RegistryNext
  <2>1. RegistryTypeOK
    BY DEF TypeOK
  <2> SUFFICES ASSUME NEW p \in ProjectId \ overwritten'
               PROVE  /\ projects'[p] = NULL => credit'.supply[p] + credit'.retired[p] = 0
                      /\ projects'[p] # NULL =>
                           /\ projects'[p].issued = credit'.supply[p] + credit'.retired[p]
                           /\ projects'[p].issued <= projects'[p].total
    BY DEF IssuedAccounted
  <2>2. /\ p \in ProjectId \ overwritten
        /\ projects'[p] = NULL => projects[p] = NULL
        /\ projects'[p] # NULL =>
                 \/ /\ projects[p] # NULL
                    /\ projects'[p].issued = projects[p].issued
                    /\ projects'[p].total = projects[p].total
                 \/ /\ projects[p] = NULL
                    /\ projects'[p].issued = 0
                    /\ projects'[p].total \in Nat
    BY <1>1, <2>1, RegistryEffect
  <2>3. /\ projects[p] = NULL => credit.supply[p] + credit.retired[p] = 0
        /\ projects[p] # NULL =>
               /\ projects[p].issued = credit.supply[p] + credit.retired[p]
               /\ projects[p].issued <= projects[p].total
    BY <2>2 DEF IssuedAccounted
  <2>4. QED
    BY <1>1, <2>2, <2>3 DEF SameAccounts
<1>2. CASE SameAccounts /\ UNCHANGED <<projects, overwritten>>
  BY <1>2 DEF SameAccounts, IssuedAccounted
<1>3. ASSUME NEW q \in ProjectId, NEW n \in Amount, IssueStep(q, n)
      PROVE  IssuedAccounted'
  <2> DEFINE e == [projects[q] EXCEPT !.issued = projects[q].issued + n]
  <2>1. /\ e \in CarbonProject
        /\ e.issued = projects[q].issued + n
        /\ e.total = projects[q].total
    BY <1>3, ProjectUpdate DEF IssueStep
  <2>2. projects[q] # NULL
    BY <1>3, NullIsNoProject DEF IssueStep
  <2>3. e # NULL
    BY <2>1, NullIsNoProject
  <2> HIDE DEF e
  <2>4. /\ projects' = [projects EXCEPT ![q] = e]
        /\ overwritten' = overwritten
        /\ credit'.supply = [credit.supply EXCEPT ![q] = credit.supply[q] + n]
        /\ credit'.retired = credit.retired
        /\ n \in Int
        /\ projects[q].issued + n <= projects[q].total
    BY <1>3 DEF IssueStep, CounterBy, e
  <2> SUFFICES ASSUME NEW p \in ProjectId \ overwritten
               PROVE  /\ projects'[p] = NULL => credit'.supply[p] + credit'.retired[p] = 0
                      /\ projects'[p] # NULL =>
                           /\ projects'[p].issued = credit'.supply[p] + credit'.retired[p]
                           /\ projects'[p].issued <= projects'[p].total
    BY <2>4 DEF IssuedAccounted
  <2>5. CASE p = q
    <3>1. projects[q].issued = credit.supply[q] + credit.retired[q]
      BY <2>2, <2>5 DEF IssuedAccounted
    <3>2. projects'[p] = e /\ credit'.supply[p] = credit.supply[q] + n
            /\ credit'.retired[p] = credit.retired[q]
      BY <1>0, <2>4, <2>5
    <3>3. credit.supply[q] \in Int /\ credit.retired[q] \in Int
      BY <1>0
    <3>4. QED
      BY <2>1, <2>3, <2>4, <3>1, <3>2, <3>3
  <2>6. CASE p # q
    <3>1. projects'[p] = projects[p] /\ credit'.supply[p] = credit.supply[p]
            /\ credit'.retired[p] = credit.retired[p]
      BY <1>0, <2>4, <2>6
    <3>2. QED
      BY <3>1 DEF IssuedAccounted
  <2>7. QED
    BY <2>5, <2>6
<1>4. ASSUME NEW q \in ProjectId, NEW n \in Amount, NEW op \in OperationId,
             RetireStep(q, n, op)
      PROVE  IssuedAccounted'
  <2>1. /\ projects' = projects /\ overwritten' = overwritten
        /\ credit'.supply = [credit.supply EXCEPT ![q] = credit.supply[q] + (-n)]
        /\ credit'.retired = [credit.retired EXCEPT ![q] = credit.retired[q] + n]
        /\ n \in Int
    BY <1>4 DEF RetireStep, CounterBy
  <2>2. \A p \in ProjectId :
           credit'.supply[p] + credit'.retired[p] = credit.supply[p] + credit.retired[p]
    BY <1>0, <2>1
  <2>3. QED
    BY <2>1, <2>2 DEF IssuedAccounted
<1>5. QED
  BY <1>1, <1>2, <1>3, <1>4, AccountStep

\* Credits are neither lost nor invented: for every number of accounts, projects
\* and calls, issued_credits of a project whose entry was not replaced equals
\* what circulates plus what was retired, within its total.
THEOREM CreditsAccounted == Spec => []IssuedAccounted
<1>1. Init => IssuedAccounted
  BY DEF Init, RegistryInit, CreditInit, IssuedAccounted
<1>2. TypeOK /\ IssuedAccounted /\ [Next]_vars => IssuedAccounted'
  BY AccountedStep
<1>3. QED
  BY <1>1, <1>2, TypeCorrect, PTL DEF Spec

\* retire moves credits to the retired pool only with an unused operation id,
\* and ids are never forgotten.
THEOREM RetireIdempotent == Spec => RetireOncePerOperation
<1>1. TypeOK /\ [Next]_vars =>
        [/\ credit.retireOps \subseteq credit'.retireOps
         /\ \A p \in ProjectId :
               credit'.retired[p] # credit.retired[p]
                   => \E op \in OperationId \ credit.retireOps :
                         credit'.retireOps = credit.retireOps \cup {op}]_vars
  BY AccountStep DEF SameAccounts, IssueStep, RetireStep
<1>2. QED
  BY <1>1, TypeCorrect, PTL DEF Spec, RetireOncePerOperation

-----------------------------------------------------------------------------
(***************************************************************************)
(* Refinement of CreditAccounting                                          *)
(***************************************************************************)

\* A registry entry point leaves the counters alone or restarts one of them.
LEMMA CounterEffect ==
    ASSUME RegistryTypeOK, RegistryNext
    PROVE  \/ IssuedCounter' = IssuedCounter
           \/ \E p \in ProjectId : IssuedCounter' = [IssuedCounter EXCEPT ![p] = 0]
<1> DEFINE Goal == \/ IssuedCounter' = IssuedCounter
                   \/ \E p \in ProjectId : IssuedCounter' = [IssuedCounter EXCEPT ![p] = 0]
<1> USE DEF RegistryTypeOK
<1>1. ASSUME NEW admin \in Admin, InitializeRegistry(admin)
      PROVE  Goal
  BY <1>1 DEF InitializeRegistry, IssuedCounter
<1>2. ASSUME NEW owner \in Address, NEW total \in Total, NEW vintage \in Vintage,
             RegisterProject(owner, total, vintage)
      PROVE  Goal
  <2> DEFINE e == [owner |-> owner, total |-> total, issued |-> 0, status |-> "Pending"]
  <2>1. projects' = [projects EXCEPT ![vintage] = e] /\ vintage \in ProjectId
    BY <1>2 DEF RegisterProject, ProjectIdOf, ProjectId
  <2>2. e.issued = 0
    OBVIOUS
  <2> HIDE DEF e
  <2>3. IssuedCounter' = [IssuedCounter EXCEPT ![vintage] = 0]
    BY <2>1, <2>2 DEF IssuedCounter
  <2>4. QED
    BY <2>1, <2>3
<1>3. ASSUME NEW id \in ProjectId, NEW s \in ProjectStatus, SetProjectStatus(id, s)
      PROVE  Goal
  <2> DEFINE e == [projects[id] EXCEPT !.status = s]
  <2>1. projects[id] \in CarbonProject /\ projects[id] # NULL
    BY <1>3 DEF SetProjectStatus
  <2>2. e.issued = projects[id].issued /\ e \in CarbonProject
    BY <2>1, ProjectUpdate
  <2>3. projects' = [projects EXCEPT ![id] = e]
    BY <1>3 DEF SetProjectStatus
  <2>4. e # NULL
    BY <2>2, NullIsNoProject
  <2> HIDE DEF e
  <2>5. IssuedCounter' = IssuedCounter
    BY <2>1, <2>2, <2>3, <2>4 DEF IssuedCounter
  <2>6. QED
    BY <2>5
<1>4. QED
  BY <1>1, <1>2, <1>3
     DEF RegistryNext, VerifyProject, SuspendProject, RetireProject, ProjectStatus

\* A step is invisible in the accounts, or a Grant, a Retire or a Restart.
LEMMA AccountingStep ==
    ASSUME TypeOK, [Next]_vars
    PROVE  [Accounting!Next]_<<credit.supply, credit.retired, IssuedCounter>>
<1>0. /\ credit.supply \in [ProjectId -> Int]
      /\ credit.retired \in [ProjectId -> 0 .. MaxI128]
      /\ projects \in [ProjectId -> CarbonProject \cup {NULL}]
      /\ MaxI128 \in Nat
  BY RegistryAssumption DEF TypeOK, CreditTypeOK, CreditStorage, RegistryTypeOK
<1>1. CASE SameAccounts /\ RegistryNext
  <2>1. RegistryTypeOK
    BY DEF TypeOK
  <2>2. CASE IssuedCounter' = IssuedCounter
    BY <1>1, <2>2 DEF SameAccounts
  <2>3. ASSUME NEW p \in ProjectId, IssuedCounter' = [IssuedCounter EXCEPT ![p] = 0]
        PROVE  Accounting!Next
    BY <1>1, <2>3 DEF SameAccounts, Accounting!Next, Accounting!Restart
  <2>4. QED
    BY <1>1, <2>1, <2>2, <2>3, CounterEffect
<1>2. CASE SameAccounts /\ UNCHANGED <<projects, overwritten>>
  BY <1>2 DEF SameAccounts, IssuedCounter
<1>3. ASSUME NEW p \in ProjectId, NEW n \in Amount, IssueStep(p, n)
      PROVE  Accounting!Next
  <2> DEFINE e == [projects[p] EXCEPT !.issued = projects[p].issued + n]
  <2>1. /\ credit'.supply = [credit.supply EXCEPT ![p] = credit.supply[p] + n]
        /\ credit'.retired = credit.retired
        /\ n \in Int /\ n > 0
    BY <1>3 DEF IssueStep, CounterBy
  <2>2. /\ e.issued = projects[p].issued + n
        /\ e \in CarbonProject
    BY <1>3, ProjectUpdate DEF IssueStep
  <2>3. projects[p] # NULL /\ projects[p].issued \in Int
    BY <1>3, NullIsNoProject DEF IssueStep, CarbonProject
  <2>4. e # NULL
    BY <2>2, NullIsNoProject
  <2>5. projects' = [projects EXCEPT ![p] = e]
    BY <1>3 DEF IssueStep
  <2> HIDE DEF e
  <2>6. IssuedCounter' = [IssuedCounter EXCEPT ![p] = projects[p].issued + n]
    BY <1>0, <2>2, <2>4, <2>5 DEF IssuedCounter
  <2>7. IssuedCounter[p] = projects[p].issued /\ IssuedCounter'[p] = projects[p].issued + n
    BY <2>3, <2>6 DEF IssuedCounter
  <2>8. credit.supply[p] + n = credit.supply[p] + (IssuedCounter'[p] - IssuedCounter[p])
    BY <1>0, <2>1, <2>3, <2>7
  <2>9. IssuedCounter'[p] > IssuedCounter[p]
    BY <2>1, <2>3, <2>7
  <2>10. IssuedCounter' = [IssuedCounter EXCEPT ![p] = IssuedCounter'[p]]
    BY <2>6, <2>7
  <2>11. Accounting!Grant(p)
    BY <2>1, <2>8, <2>9, <2>10 DEF Accounting!Grant
  <2>12. QED
    BY <2>11 DEF Accounting!Next
<1>4. ASSUME NEW p \in ProjectId, NEW n \in Amount, NEW op \in OperationId,
             RetireStep(p, n, op)
      PROVE  Accounting!Next
  <2>1. /\ credit'.supply = [credit.supply EXCEPT ![p] = credit.supply[p] + (-n)]
        /\ credit'.retired = [credit.retired EXCEPT ![p] = credit.retired[p] + n]
        /\ n \in Int /\ n > 0
    BY <1>4 DEF RetireStep, CounterBy
  <2>2. credit'.retired[p] = credit.retired[p] + n
    BY <1>0, <2>1
  <2>3. credit'.retired[p] > credit.retired[p]
    BY <1>0, <2>1, <2>2
  <2>4. credit.supply[p] + (-n) = credit.supply[p] - (credit'.retired[p] - credit.retired[p])
    BY <1>0, <2>1, <2>2
  <2>5. IssuedCounter' = IssuedCounter
    BY <1>4 DEF RetireStep, IssuedCounter
  <2>6. Accounting!Retire(p)
    BY <2>1, <2>2, <2>3, <2>4, <2>5 DEF Accounting!Retire
  <2>7. QED
    BY <2>6 DEF Accounting!Next
<1>5. QED
  BY <1>1, <1>2, <1>3, <1>4, AccountStep

\* The composed contracts implement the abstract accounting.
THEOREM Refinement == Spec => ImplementsAccounting
<1>1. Init => Accounting!Init
  BY DEF Init, RegistryInit, CreditInit, Accounting!Init, IssuedCounter
<1>2. TypeOK /\ [Next]_vars
        => [Accounting!Next]_<<credit.supply, credit.retired, IssuedCounter>>
  BY AccountingStep
<1>3. QED
  BY <1>1, <1>2, TypeCorrect, PTL DEF Spec, ImplementsAccounting, Accounting!Spec

-----------------------------------------------------------------------------
(***************************************************************************)
(* Listings                                                                *)
(***************************************************************************)

(***************************************************************************)
(* OwnListingKept is not inductive: it needs to know that the nonce a      *)
(* seller is about to use is above the nonce of every listing it has.      *)
(***************************************************************************)
ListingsNumbered ==
    \A id \in ListingId :
        listings[id] # NULL => id.nonce < sellerNonce[listings[id].seller]

\* A step leaves the table alone, closes one listing, or writes a new one under
\* the seller's next nonce.
LEMMA ListingStep ==
    ASSUME TypeOK, [Next]_vars
    PROVE  \/ UNCHANGED <<listings, sellerNonce>>
           \/ /\ UNCHANGED sellerNonce
              /\ \E id \in ListingId, s \in {"Sold", "Cancelled"} :
                    /\ listings[id] # NULL
                    /\ listings' = [listings EXCEPT ![id] = [listings[id] EXCEPT !.status = s]]
           \/ \E id \in ListingId, l \in Listing :
                    /\ id.nonce = sellerNonce[l.seller]
                    /\ sellerNonce' = [sellerNonce EXCEPT ![l.seller] = @ + 1]
                    /\ listings' = [listings EXCEPT ![id] = l]
<1> DEFINE Goal ==
       \/ UNCHANGED <<listings, sellerNonce>>
       \/ /\ UNCHANGED sellerNonce
          /\ \E id \in ListingId, s \in {"Sold", "Cancelled"} :
                /\ listings[id] # NULL
                /\ listings' = [listings EXCEPT ![id] = [listings[id] EXCEPT !.status = s]]
       \/ \E id \in ListingId, l \in Listing :
                /\ id.nonce = sellerNonce[l.seller]
                /\ sellerNonce' = [sellerNonce EXCEPT ![l.seller] = @ + 1]
                /\ listings' = [listings EXCEPT ![id] = l]
<1>1. ASSUME NEW seller \in Address, NEW p \in ProjectId, NEW amount \in Amount,
             NEW price \in Price, CreateListing(seller, p, amount, price)
      PROVE  Goal
  <2> DEFINE nonce == sellerNonce[seller]
             id    == ListingIdOf(seller, p, amount, price, ledger, nonce)
             l     == [seller |-> seller, project |-> p, amount |-> amount,
                       price |-> price, status |-> "Active"]
  <2>1. nonce \in 0 .. MaxNonce
    BY <1>1, MarketAssumption DEF CreateListing, TypeOK
  <2>2. amount > 0 /\ price > 0 /\ ledger \in Ledger
    BY <1>1 DEF CreateListing, TypeOK
  <2>3. id \in ListingId /\ id.nonce = nonce
    BY <2>1, <2>2 DEF ListingIdOf, ListingId
  <2>4. l \in Listing /\ l.seller = seller
    BY <2>2 DEF Listing
  <2> HIDE DEF id, l
  <2>5. /\ listings' = [listings EXCEPT ![id] = l]
        /\ sellerNonce' = [sellerNonce EXCEPT ![seller] = @ + 1]
    BY <1>1 DEF CreateListing, id, l
  <2>6. QED
    BY <2>3, <2>4, <2>5
<1>2. ASSUME NEW buyer \in Address, NEW id \in ListingId, NEW payment \in Price,
             NEW max \in Ledger, PurchaseListing(buyer, id, payment, max)
      PROVE  Goal
  BY <1>2 DEF PurchaseListing
<1>3. ASSUME NEW seller \in Address, NEW id \in ListingId, CancelListing(seller, id)
      PROVE  Goal
  BY <1>3 DEF CancelListing
<1>4. ASSUME UNCHANGED <<listings, sellerNonce>>
      PROVE  Goal
  BY <1>4
<1>5. CASE MarketNext
  BY <1>1, <1>2, <1>3, <1>4, <1>5 DEF MarketNext, InitializeMarket, ConfigureOracle,
     SetCircuitBreakerState, MintProjectCredits, CloseLedger, OracleChanges, marketVars
<1>6. QED
  BY <1>4, <1>5 DEF Next, vars, marketVars

\* Every step keeps the nonces of a seller's listings below its counter.
LEMMA NumberedStep ==
    ASSUME TypeOK, ListingsNumbered, [Next]_vars
    PROVE  ListingsNumbered'
<1>0. /\ sellerNonce \in [Address -> 0 .. MaxNonce + 1]
      /\ listings \in [ListingId -> Listing \cup {NULL}]
      /\ MaxNonce \in Nat
  BY MarketAssumption DEF TypeOK
<1>1. CASE UNCHANGED <<listings, sellerNonce>>
  BY <1>1 DEF ListingsNumbered
<1>2. ASSUME UNCHANGED sellerNonce,
             NEW id \in ListingId, NEW s \in {"Sold", "Cancelled"}, listings[id] # NULL,
             listings' = [listings EXCEPT ![id] = [listings[id] EXCEPT !.status = s]]
      PROVE  ListingsNumbered'
  <2> DEFINE l == [listings[id] EXCEPT !.status = s]
  <2>1. l.seller = listings[id].seller
    BY <1>2, PresentListing, ListingUpdate
  <2> HIDE DEF l
  <2>2. listings' = [listings EXCEPT ![id] = l]
    BY <1>2 DEF l
  <2> SUFFICES ASSUME NEW k \in ListingId, listings'[k] # NULL
               PROVE  k.nonce < sellerNonce'[listings'[k].seller]
    BY DEF ListingsNumbered
  <2>3. listings[k] # NULL /\ listings'[k].seller = listings[k].seller
    BY <1>0, <1>2, <2>1, <2>2
  <2>4. QED
    BY <1>2, <2>3 DEF ListingsNumbered
<1>3. ASSUME NEW id \in ListingId, NEW l \in Listing,
             id.nonce = sellerNonce[l.seller],
             sellerNonce' = [sellerNonce EXCEPT ![l.seller] = @ + 1],
             listings' = [listings EXCEPT ![id] = l]
      PROVE  ListingsNumbered'
  <2>1. l.seller \in Address
    BY DEF Listing
  <2>2. \A a \in Address : sellerNonce[a] \in Int /\ sellerNonce'[a] \in Int
                             /\ sellerNonce'[a] >= sellerNonce[a]
    BY <1>0, <1>3, <2>1
  <2>3. sellerNonce'[l.seller] > sellerNonce[l.seller]
    BY <1>0, <1>3, <2>1
  <2> SUFFICES ASSUME NEW k \in ListingId, listings'[k] # NULL
               PROVE  k.nonce < sellerNonce'[listings'[k].seller]
    BY DEF ListingsNumbered
  <2>4. CASE k = id
    <3>1. listings'[k] = l
      BY <1>0, <1>3, <2>4
    <3>2. QED
      BY <1>3, <2>3, <2>4, <3>1
  <2>5. CASE k # id
    <3>1. listings'[k] = listings[k]
      BY <1>0, <1>3, <2>5
    <3>2. listings[k].seller \in Address
      BY <3>1, PresentListing
    <3>3. k.nonce < sellerNonce[listings[k].seller]
      BY <3>1 DEF ListingsNumbered
    <3>4. k.nonce \in Int
      BY DEF ListingId
    <3>5. QED
      BY <2>2, <3>1, <3>2, <3>3, <3>4
  <2>6. QED
    BY <2>4, <2>5
<1>4. QED
  BY <1>1, <1>2, <1>3, ListingStep

\* RS-02 for every number of sellers, listings and ledgers: a seller never
\* replaces a listing of its own, whatever arguments it repeats.
THEOREM OwnListingsKept == Spec => OwnListingKept
<1>1. Init => ListingsNumbered
  BY DEF Init, ListingsNumbered
<1>2. TypeOK /\ ListingsNumbered /\ [Next]_vars => ListingsNumbered'
  BY NumberedStep
<1>3. TypeOK /\ ListingsNumbered /\ [Next]_vars =>
        [\A id \in ListingId :
           (listings[id] # NULL /\ listings'[id] # listings[id])
              => \/ listings'[id] = [listings[id] EXCEPT !.status = "Sold"]
                 \/ listings'[id] = [listings[id] EXCEPT !.status = "Cancelled"]
                 \/ listings'[id].seller # listings[id].seller]_vars
  <2> SUFFICES ASSUME TypeOK, ListingsNumbered, [Next]_vars,
                      NEW k \in ListingId, listings[k] # NULL, listings'[k] # listings[k]
               PROVE  \/ listings'[k] = [listings[k] EXCEPT !.status = "Sold"]
                      \/ listings'[k] = [listings[k] EXCEPT !.status = "Cancelled"]
                      \/ listings'[k].seller # listings[k].seller
    OBVIOUS
  <2>0. /\ sellerNonce \in [Address -> 0 .. MaxNonce + 1]
        /\ listings \in [ListingId -> Listing \cup {NULL}]
        /\ MaxNonce \in Nat
    BY MarketAssumption DEF TypeOK
  <2>1. ASSUME NEW id \in ListingId, NEW s \in {"Sold", "Cancelled"},
               listings' = [listings EXCEPT ![id] = [listings[id] EXCEPT !.status = s]]
        PROVE  \/ listings'[k] = [listings[k] EXCEPT !.status = "Sold"]
               \/ listings'[k] = [listings[k] EXCEPT !.status = "Cancelled"]
    <3> DEFINE l == [listings[id] EXCEPT !.status = s]
    <3>1. listings' = [listings EXCEPT ![id] = l]
      BY <2>1
    <3> HIDE DEF l
    <3>2. k = id /\ listings'[k] = l
      BY <2>0, <3>1
    <3>3. QED
      BY <3>2 DEF l
  <2>2. ASSUME NEW id \in ListingId, NEW l \in Listing,
               id.nonce = sellerNonce[l.seller],
               listings' = [listings EXCEPT ![id] = l]
        PROVE  listings'[k].seller # listings[k].seller
    <3>1. k = id /\ listings'[k] = l
      BY <2>0, <2>2
    <3>2. k.nonce < sellerNonce[listings[k].seller]
      BY DEF ListingsNumbered
    <3>3. listings[k].seller \in Address /\ l.seller \in Address
      BY PresentListing DEF Listing
    <3>4. QED
      BY <2>0, <2>2, <3>1, <3>2, <3>3
  <2>3. QED
    BY <2>1, <2>2, ListingStep
<1>4. QED
  BY <1>1, <1>2, <1>3, TypeCorrect, PTL DEF Spec, OwnListingKept

-----------------------------------------------------------------------------
(***************************************************************************)
(* Sales and gates                                                         *)
(***************************************************************************)

\* Which entry points touch the table of listings, and under which gates.
LEMMA TradingStep ==
    ASSUME TypeOK, [Next]_vars
    PROVE  \/ UNCHANGED listings
           \/ /\ circuit = "Active" /\ RequireFreshPrice
              /\ \E id \in ListingId, l \in Listing :
                    l.status = "Active" /\ listings' = [listings EXCEPT ![id] = l]
           \/ /\ circuit = "Active" /\ RequireFreshPrice
              /\ \E buyer \in Address, id \in ListingId, payment \in Price, max \in Ledger :
                    PurchaseListing(buyer, id, payment, max)
           \/ /\ circuit = "Active"
              /\ \E id \in ListingId :
                    /\ listings[id] # NULL
                    /\ listings' = [listings EXCEPT ![id] =
                                      [listings[id] EXCEPT !.status = "Cancelled"]]
<1> DEFINE Goal ==
       \/ UNCHANGED listings
       \/ /\ circuit = "Active" /\ RequireFreshPrice
          /\ \E id \in ListingId, l \in Listing :
                l.status = "Active" /\ listings' = [listings EXCEPT ![id] = l]
       \/ /\ circuit = "Active" /\ RequireFreshPrice
          /\ \E buyer \in Address, id \in ListingId, payment \in Price, max \in Ledger :
                PurchaseListing(buyer, id, payment, max)
       \/ /\ circuit = "Active"
          /\ \E id \in ListingId :
                /\ listings[id] # NULL
                /\ listings' = [listings EXCEPT ![id] =
                                  [listings[id] EXCEPT !.status = "Cancelled"]]
<1>1. ASSUME NEW seller \in Address, NEW p \in ProjectId, NEW amount \in Amount,
             NEW price \in Price, CreateListing(seller, p, amount, price)
      PROVE  Goal
  <2> DEFINE nonce == sellerNonce[seller]
             id    == ListingIdOf(seller, p, amount, price, ledger, nonce)
             l     == [seller |-> seller, project |-> p, amount |-> amount,
                       price |-> price, status |-> "Active"]
  <2>1. nonce \in 0 .. MaxNonce /\ amount > 0 /\ price > 0 /\ ledger \in Ledger
    BY <1>1, MarketAssumption DEF CreateListing, TypeOK
  <2>2. id \in ListingId
    BY <2>1 DEF ListingIdOf, ListingId
  <2>3. l \in Listing /\ l.status = "Active"
    BY <2>1 DEF Listing
  <2>4. listings' = [listings EXCEPT ![id] = l]
    BY <1>1 DEF CreateListing
  <2>5. circuit = "Active" /\ RequireFreshPrice
    BY <1>1 DEF CreateListing, RequireMarketActive
  <2> HIDE DEF id, l
  <2>6. QED
    BY <2>2, <2>3, <2>4, <2>5
<1>2. ASSUME NEW buyer \in Address, NEW id \in ListingId, NEW payment \in Price,
             NEW max \in Ledger, PurchaseListing(buyer, id, payment, max)
      PROVE  Goal
  <2>1. circuit = "Active" /\ RequireFreshPrice
    BY <1>2 DEF PurchaseListing, RequireMarketActive
  <2>2. QED
    BY <1>2, <2>1
<1>3. ASSUME NEW seller \in Address, NEW id \in ListingId, CancelListing(seller, id)
      PROVE  Goal
  BY <1>3 DEF CancelListing, RequireMarketActive
<1>4. ASSUME UNCHANGED listings
      PROVE  Goal
  BY <1>4
<1>5. CASE MarketNext
  BY <1>1, <1>2, <1>3, <1>4, <1>5 DEF MarketNext, InitializeMarket, ConfigureOracle,
     SetCircuitBreakerState, MintProjectCredits, CloseLedger, OracleChanges, marketVars
<1>6. QED
  BY <1>4, <1>5 DEF Next, vars, marketVars

\* Writing one balance entry moves that entry and no other.
LEMMA BalanceAt ==
    ASSUME NEW b \in Balances, NEW a \in Address, NEW p \in ProjectId, NEW d \in Int,
           NEW x \in Address, NEW q \in ProjectId
    PROVE  BalanceBy(b, a, p, d)[x][q] = b[x][q] + (IF x = a /\ q = p THEN d ELSE 0)
<1> DEFINE row == [b[a] EXCEPT ![p] = b[a][p] + d]
<1>1. b[a] \in [ProjectId -> 0 .. MaxI128] /\ b[x] \in [ProjectId -> 0 .. MaxI128]
  BY DEF Balances
<1>2. row[q] = IF q = p THEN b[a][p] + d ELSE b[a][q]
  BY <1>1
<1>3. BalanceBy(b, a, p, d) = [b EXCEPT ![a] = row]
  BY DEF BalanceBy
<1> HIDE DEF row
<1>4. BalanceBy(b, a, p, d)[x] = IF x = a THEN row ELSE b[x]
  BY <1>3 DEF Balances
<1>5. b[x][q] \in Int
  BY <1>1, RegistryAssumption
<1>6. QED
  BY <1>2, <1>4, <1>5

\* purchase_listing moves the listed amount from the seller to the buyer.
LEMMA PurchaseMoves ==
    ASSUME TypeOK, NEW buyer \in Address, NEW id \in ListingId, NEW payment, NEW max,
           PurchaseListing(buyer, id, payment, max), NEW a \in Address, NEW p \in ProjectId
    PROVE  LET l == listings[id]
           IN  credit'.balance[a][p] = credit.balance[a][p]
                 + (IF a = buyer /\ p = l.project THEN l.amount ELSE 0)
                 - (IF a = l.seller /\ p = l.project THEN l.amount ELSE 0)
<1> DEFINE l == listings[id]
           n == l.amount
           c == Burned(credit, l.seller, l.project, n)
<1>1. l.seller \in Address /\ l.project \in ProjectId /\ n \in Amount
  BY PresentListing DEF PurchaseListing
<1>2. \A m \in Amount : m \in Int /\ -m \in Int
  BY RegistryAssumption
<1>3. n \in Int /\ -n \in Int
  BY <1>1, <1>2, Zenon
<1>4. credit \in CreditStorage /\ credit.balance \in Balances
  BY DEF TypeOK, CreditTypeOK, CreditStorage, Balances
<1>5. c \in CreditStorage /\ c.balance = BalanceBy(credit.balance, l.seller, l.project, -n)
  BY <1>1, <1>4, BurnedFacts DEF PurchaseListing
<1>6. CanMint(c, buyer, l.project, n) /\ credit' = Minted(c, buyer, l.project, n)
  BY DEF PurchaseListing
<1> HIDE DEF c
<1>7. credit'.balance = BalanceBy(c.balance, buyer, l.project, n) /\ c.balance \in Balances
  BY <1>1, <1>5, <1>6, MintedFacts DEF CreditStorage, Balances
<1>8. credit'.balance[a][p]
        = c.balance[a][p] + (IF a = buyer /\ p = l.project THEN n ELSE 0)
  BY <1>1, <1>3, <1>7, BalanceAt
<1>9. c.balance[a][p]
        = credit.balance[a][p] + (IF a = l.seller /\ p = l.project THEN -n ELSE 0)
  BY <1>1, <1>3, <1>4, <1>5, BalanceAt
<1>10. credit.balance[a][p] \in Int
  BY <1>4, RegistryAssumption DEF Balances
<1>11. QED
  BY <1>3, <1>8, <1>9, <1>10

\* A sale settles exactly its listing, for any number of accounts and projects, the
\* seller buying from itself included: purchase_listing's burn and mint cancel out
\* in the supply, and nobody but the two parties is touched.
THEOREM SalesSettle == Spec => SaleSettlesListing
<1> DEFINE Settled(id) ==
      \E buyer \in Address :
         LET l == listings[id]
         IN  /\ \A a \in Address, p \in ProjectId :
                  credit'.balance[a][p] = credit.balance[a][p]
                    + (IF a = buyer /\ p = l.project THEN l.amount ELSE 0)
                    - (IF a = l.seller /\ p = l.project THEN l.amount ELSE 0)
             /\ credit'.supply = credit.supply
             /\ credit'.retired = credit.retired
             /\ \A other \in ListingId \ {id} : listings'[other] = listings[other]
<1>1. ASSUME TypeOK, [Next]_vars, NEW k \in ListingId, listings[k] # NULL,
             listings[k].status = "Active", listings'[k].status = "Sold"
      PROVE  Settled(k)
  <2>0. listings \in [ListingId -> Listing \cup {NULL}] /\ listings[k] \in Listing
    BY <1>1, PresentListing DEF TypeOK
  <2>1. CASE UNCHANGED listings
    BY <1>1, <2>1
  <2>2. CASE \E id \in ListingId, l \in Listing :
               l.status = "Active" /\ listings' = [listings EXCEPT ![id] = l]
    BY <1>1, <2>0, <2>2
  <2>3. CASE \E id \in ListingId :
               /\ listings[id] # NULL
               /\ listings' = [listings EXCEPT ![id] =
                                 [listings[id] EXCEPT !.status = "Cancelled"]]
    <3>1. PICK id \in ListingId :
             listings' = [listings EXCEPT ![id] =
                            [listings[id] EXCEPT !.status = "Cancelled"]]
      BY <2>3
    <3>2. [listings[k] EXCEPT !.status = "Cancelled"].status = "Cancelled"
      BY <2>0 DEF Listing
    <3>3. QED
      BY <1>1, <2>0, <3>1, <3>2
  <2>4. CASE \E buyer \in Address, id \in ListingId, payment \in Price, max \in Ledger :
               PurchaseListing(buyer, id, payment, max)
    <3>1. PICK buyer \in Address, id \in ListingId, payment \in Price, max \in Ledger :
             PurchaseListing(buyer, id, payment, max)
      BY <2>4
    <3>2. listings' = [listings EXCEPT ![id] = [listings[id] EXCEPT !.status = "Sold"]]
      BY <3>1 DEF PurchaseListing
    <3>3. id = k
      BY <1>1, <2>0, <3>2
    <3>4. \A other \in ListingId \ {k} : listings'[other] = listings[other]
      BY <2>0, <3>2, <3>3
    <3>5. credit'.supply = credit.supply /\ credit'.retired = credit.retired
      BY <1>1, <3>1, PurchaseFacts
    <3>6. \A a \in Address, p \in ProjectId :
             credit'.balance[a][p] = credit.balance[a][p]
               + (IF a = buyer /\ p = listings[k].project THEN listings[k].amount ELSE 0)
               - (IF a = listings[k].seller /\ p = listings[k].project
                  THEN listings[k].amount ELSE 0)
      BY <1>1, <3>1, <3>3, PurchaseMoves
    <3>7. QED
      BY <3>4, <3>5, <3>6
  <2>5. QED
    BY <1>1, <2>1, <2>2, <2>3, <2>4, TradingStep
<1>2. TypeOK /\ [Next]_vars =>
        [\A id \in ListingId :
           (listings[id] # NULL /\ listings[id].status = "Active"
              /\ listings'[id].status = "Sold") => Settled(id)]_vars
  BY <1>1
<1>3. QED
  BY <1>2, TypeCorrect, PTL DEF Spec, SaleSettlesListing

\* The breakers hold on every path: with the marketplace's own breaker open neither
\* the listings nor any supply can grow or change hands by it, and with the oracle
\* gate closed a listing can only be cancelled.
THEOREM GatesFreeze == Spec => FrozenWhileGated
<1> DEFINE Frozen ==
      /\ circuit # "Active" =>
            /\ UNCHANGED listings
            /\ \A p \in ProjectId : credit'.supply[p] <= credit.supply[p]
      /\ (oracleSet /\ oracleView # "Fresh") =>
            \A id \in ListingId :
                listings'[id] # listings[id] => listings'[id].status = "Cancelled"
<1>1. ASSUME TypeOK, [Next]_vars PROVE Frozen
  <2>0. /\ listings \in [ListingId -> Listing \cup {NULL}]
        /\ credit.supply \in [ProjectId -> Int]
    BY <1>1 DEF TypeOK, CreditTypeOK, CreditStorage
  <2>1. ASSUME circuit # "Active" PROVE UNCHANGED listings
    BY <1>1, <2>1, TradingStep
  <2>2. ASSUME circuit # "Active", NEW p \in ProjectId
        PROVE  credit'.supply[p] <= credit.supply[p]
    <3>1. CASE SameAccounts
      BY <2>0, <3>1 DEF SameAccounts
    <3>2. CASE \E q \in ProjectId, n \in Amount, op \in OperationId : RetireStep(q, n, op)
      <4>1. PICK q \in ProjectId, n \in Amount :
               n \in Int /\ n > 0 /\ credit'.supply = CounterBy(credit.supply, q, -n)
        BY <3>2 DEF RetireStep
      <4>2. credit'.supply[p] = IF p = q THEN credit.supply[p] + (-n) ELSE credit.supply[p]
        BY <2>0, <4>1 DEF CounterBy
      <4>3. QED
        BY <2>0, <4>1, <4>2
    <3>3. QED
      BY <1>1, <2>2, <3>1, <3>2, AccountStep DEF IssueStep
  <2>3. ASSUME oracleSet, oracleView # "Fresh", NEW k \in ListingId,
               listings'[k] # listings[k]
        PROVE  listings'[k].status = "Cancelled"
    <3>1. PICK id \in ListingId :
             /\ listings[id] # NULL
             /\ listings' = [listings EXCEPT ![id] =
                               [listings[id] EXCEPT !.status = "Cancelled"]]
      BY <1>1, <2>3, TradingStep DEF RequireFreshPrice
    <3>2. id = k /\ listings[k] \in Listing
      BY <1>1, <2>0, <2>3, <3>1
    <3>3. QED
      BY <2>0, <3>1, <3>2 DEF Listing
  <2>4. QED
    BY <2>1, <2>2, <2>3
<1>2. TypeOK /\ [Next]_vars => [Frozen]_vars
  BY <1>1
<1>3. QED
  BY <1>2, TypeCorrect, PTL DEF Spec, FrozenWhileGated

-----------------------------------------------------------------------------
(***************************************************************************)
(* The supply is the sum of the balances                                   *)
(***************************************************************************)

\* What all accounts hold of a project, and storage in which it is the supply.
Held(balance, p) == SumFunction([a \in Address |-> balance[a][p]])

Balanced(c) == \A p \in ProjectId : c.supply[p] = Held(c.balance, p)

\* Writing one balance entry moves the total of its project by as much.
LEMMA HeldBy ==
    ASSUME NEW b \in Balances, NEW a \in Address, NEW p \in ProjectId, NEW d \in Int,
           BalanceBy(b, a, p, d) \in Balances, NEW q \in ProjectId
    PROVE  /\ Held(b, q) \in Int
           /\ Held(BalanceBy(b, a, p, d), q) = Held(b, q) + (IF q = p THEN d ELSE 0)
<1> DEFINE e == BalanceBy(b, a, p, d)
           f == [x \in Address |-> b[x][q]]
           g == [x \in Address |-> e[x][q]]
<1>1. /\ Held(b, q) = SumFunctionOnSet(f, Address)
      /\ Held(e, q) = SumFunctionOnSet(g, Address)
  <2>1. DOMAIN f = Address /\ DOMAIN g = Address
    OBVIOUS
  <2>2. Held(b, q) = SumFunction(f) /\ Held(e, q) = SumFunction(g)
    BY Zenon DEF Held
  <2> HIDE DEF f, g
  <2>3. QED
    BY <2>1, <2>2, Zenon DEF SumFunction
<1>2. /\ \A x \in Address : b[x][q] \in Int /\ e[x][q] \in Int
      /\ \A x \in Address : e[x][q] = b[x][q] + (IF x = a /\ q = p THEN d ELSE 0)
  <2>1. \A c \in Balances, x \in Address : c[x][q] \in Int
    BY RegistryAssumption DEF Balances
  <2>2. \A x \in Address : e[x][q] = b[x][q] + (IF x = a /\ q = p THEN d ELSE 0)
    BY BalanceAt
  <2> HIDE DEF e
  <2>3. e \in Balances
    BY DEF e
  <2>4. QED
    BY <2>1, <2>2, <2>3
<1> HIDE DEF e
<1>3. Summable(f, Address) /\ Summable(g, Address)
  BY <1>2, FinitelyManyAccounts DEF Summable
<1>4. \A x \in Address \ {a} : f[x] = g[x]
  <2>1. ASSUME NEW x \in Address, x # a PROVE b[x][q] = e[x][q]
    BY <1>2, <2>1
  <2>2. QED
    BY <2>1
<1>5. f[a] \in Int /\ g[a] = f[a] + (IF q = p THEN d ELSE 0)
  BY <1>2
<1> HIDE DEF f, g
<1>6. SumFunctionOnSet(f, Address) \in Int
  BY <1>3, SumIsInt
<1>7. SumFunctionOnSet(g, Address) = SumFunctionOnSet(f, Address) + (g[a] - f[a])
  BY <1>3, <1>4, SumOneChanges
<1>8. QED
  BY <1>1, <1>5, <1>6, <1>7 DEF e

\* A balance and the supply of its project that move together stay balanced.
LEMMA MovedTogether ==
    ASSUME NEW c \in CreditStorage, NEW u \in CreditStorage, Balanced(c),
           NEW a \in Address, NEW p \in ProjectId, NEW d \in Int,
           u.balance = BalanceBy(c.balance, a, p, d), u.supply = CounterBy(c.supply, p, d)
    PROVE  Balanced(u)
<1> SUFFICES ASSUME NEW q \in ProjectId PROVE u.supply[q] = Held(u.balance, q)
  BY DEF Balanced
<1>1. c.balance \in Balances /\ u.balance \in Balances /\ c.supply \in [ProjectId -> Int]
  BY DEF CreditStorage, Balances
<1>2. /\ Held(c.balance, q) \in Int
      /\ Held(u.balance, q) = Held(c.balance, q) + (IF q = p THEN d ELSE 0)
  BY <1>1, HeldBy
<1>3. u.supply[q] = c.supply[q] + (IF q = p THEN d ELSE 0)
  BY <1>1 DEF CounterBy
<1>4. c.supply[q] = Held(c.balance, q)
  BY DEF Balanced
<1>5. QED
  BY <1>2, <1>3, <1>4

\* The four writers of the credit contract keep its storage balanced.
LEMMA CreditWritesBalanced ==
    ASSUME NEW c \in CreditStorage, Balanced(c), NEW a \in Address, NEW p \in ProjectId,
           NEW n \in Amount
    PROVE  /\ CanMint(c, a, p, n) => Balanced(Minted(c, a, p, n))
           /\ CanBurn(c, a, p, n) => Balanced(Burned(c, a, p, n))
           /\ \A b \in Address : CanTransfer(c, a, b, p, n)
                                    => Balanced(Transferred(c, a, b, p, n))
           /\ \A op \in OperationId : CanRetire(c, a, p, n, op)
                                         => Balanced(RetiredBy(c, a, p, n, op))
<1>1. n \in Int /\ -n \in Int
  <2>1. \A m \in Amount : m \in Int /\ -m \in Int
    BY RegistryAssumption
  <2>2. QED
    BY <2>1
<1>2. ASSUME CanMint(c, a, p, n) PROVE Balanced(Minted(c, a, p, n))
  BY <1>1, <1>2, MintedFacts, MovedTogether
<1>3. ASSUME CanBurn(c, a, p, n) PROVE Balanced(Burned(c, a, p, n))
  BY <1>1, <1>3, BurnedFacts, MovedTogether
<1>4. ASSUME NEW b \in Address, CanTransfer(c, a, b, p, n)
      PROVE  Balanced(Transferred(c, a, b, p, n))
  <2>1. CASE a = b
    BY <2>1 DEF Transferred
  <2>2. CASE a # b
    <3> DEFINE mid == BalanceBy(c.balance, a, p, -n)
               u == Transferred(c, a, b, p, n)
    <3>1. c.balance \in Balances /\ c.supply \in [ProjectId -> Int] /\ MaxI128 \in Nat
      BY RegistryAssumption DEF CreditStorage, Balances
    <3>2. c.balance[a][p] + (-n) \in 0 .. MaxI128
      BY <1>1, <1>4, <2>2, <3>1 DEF CanTransfer, Balances
    <3>3. mid \in Balances
      BY <1>1, <3>1, <3>2, BalanceByType
    <3>4. u \in CreditStorage /\ u.supply = c.supply
      BY <1>4, TransferredFacts
    <3>5. u.balance = BalanceBy(mid, b, p, n)
      BY <2>2 DEF Transferred
    <3>6. u.balance \in Balances
      BY <3>4 DEF CreditStorage, Balances
    <3> HIDE DEF u
    <3>7. ASSUME NEW q \in ProjectId PROVE u.supply[q] = Held(u.balance, q)
      <4>1. /\ Held(c.balance, q) \in Int
            /\ Held(mid, q) = Held(c.balance, q) + (IF q = p THEN -n ELSE 0)
        BY <1>1, <3>1, <3>3, HeldBy
      <4> HIDE DEF mid
      <4>2. Held(u.balance, q) = Held(mid, q) + (IF q = p THEN n ELSE 0)
        BY <1>1, <3>3, <3>5, <3>6, HeldBy
      <4>3. c.supply[q] = Held(c.balance, q)
        BY DEF Balanced
      <4>4. QED
        BY <1>1, <3>4, <4>1, <4>2, <4>3
    <3>8. QED
      BY <3>7 DEF Balanced, u
  <2>3. QED
    BY <2>1, <2>2
<1>5. ASSUME NEW op \in OperationId, CanRetire(c, a, p, n, op)
      PROVE  Balanced(RetiredBy(c, a, p, n, op))
  <2> DEFINE u == RetiredBy(c, a, p, n, op)
  <2>1. u \in CreditStorage /\ u.supply = CounterBy(c.supply, p, -n)
    BY <1>5, RetiredFacts
  <2>2. u.balance = BalanceBy(c.balance, a, p, -n)
    BY DEF RetiredBy
  <2> HIDE DEF u
  <2>3. Balanced(u)
    BY <1>1, <2>1, <2>2, MovedTogether
  <2>4. QED
    BY <2>3 DEF u
<1>6. QED
  BY <1>2, <1>3, <1>4, <1>5

\* Every step keeps the credit contract's storage balanced.
LEMMA BalancedStep ==
    ASSUME TypeOK, Balanced(credit), [Next]_vars
    PROVE  Balanced(credit')
<1>0. credit \in CreditStorage
  BY DEF TypeOK, CreditTypeOK
<1>1. ASSUME NEW from \in Address, NEW to \in Address, NEW p \in ProjectId,
             NEW amount \in Amount, Transfer(from, to, p, amount)
      PROVE  Balanced(credit')
  BY <1>0, <1>1, CreditWritesBalanced DEF Transfer
<1>2. ASSUME NEW from \in Address, NEW to1 \in Address, NEW to2 \in Address,
             NEW p1 \in ProjectId, NEW p2 \in ProjectId,
             NEW amount1 \in Amount, NEW amount2 \in Amount,
             BatchTransfer(from, to1, p1, amount1, to2, p2, amount2)
      PROVE  Balanced(credit')
  <2> DEFINE mid == Transferred(credit, from, to1, p1, amount1)
  <2>1. mid \in CreditStorage /\ Balanced(mid)
    BY <1>0, <1>2, TransferredFacts, CreditWritesBalanced DEF BatchTransfer
  <2>2. /\ CanTransfer(mid, from, to2, p2, amount2)
        /\ credit' = Transferred(mid, from, to2, p2, amount2)
    BY <1>2 DEF BatchTransfer
  <2> HIDE DEF mid
  <2>3. QED
    BY <2>1, <2>2, CreditWritesBalanced
<1>3. ASSUME NEW from \in Address, NEW p \in ProjectId, NEW amount \in Amount,
             NEW op \in OperationId, Retire(from, p, amount, op)
      PROVE  Balanced(credit')
  BY <1>0, <1>3, CreditWritesBalanced DEF Retire
<1>4. ASSUME NEW buyer \in Address, NEW id \in ListingId, NEW payment \in Price,
             NEW max \in Ledger, PurchaseListing(buyer, id, payment, max)
      PROVE  Balanced(credit')
  <2> DEFINE l == listings[id]
             c == Burned(credit, l.seller, l.project, l.amount)
  <2>1. l.seller \in Address /\ l.project \in ProjectId /\ l.amount \in Amount
    BY <1>4, PresentListing DEF PurchaseListing
  <2>2. /\ CanBurn(credit, l.seller, l.project, l.amount)
        /\ CanMint(c, buyer, l.project, l.amount)
        /\ credit' = Minted(c, buyer, l.project, l.amount)
    BY <1>4 DEF PurchaseListing
  <2> HIDE DEF l
  <2>3. c \in CreditStorage /\ Balanced(c)
    BY <1>0, <2>1, <2>2, BurnedFacts, CreditWritesBalanced
  <2> HIDE DEF c
  <2>4. QED
    BY <2>1, <2>2, <2>3, CreditWritesBalanced
<1>5. ASSUME NEW p \in ProjectId, NEW amount \in Amount, MintProjectCredits(p, amount)
      PROVE  Balanced(credit')
  <2>1. projects[p].owner \in Address
    <3>1. projects[p] # NULL
      BY <1>5 DEF MintProjectCredits, CanIssue, IsVerified
    <3>2. QED
      BY <3>1 DEF TypeOK, RegistryTypeOK, CarbonProject
  <2>2. /\ CanMint(credit, projects[p].owner, p, amount)
        /\ credit' = Minted(credit, projects[p].owner, p, amount)
    BY <1>5 DEF MintProjectCredits
  <2>3. QED
    BY <1>0, <2>1, <2>2, CreditWritesBalanced
<1>6. CASE UNCHANGED credit
  BY <1>6
<1>7. CASE CreditNext
  BY <1>1, <1>2, <1>3, <1>6, <1>7 DEF CreditNext, InitializeCredit
<1>8. CASE MarketNext
  BY <1>4, <1>5, <1>6, <1>8 DEF MarketNext, InitializeMarket, ConfigureOracle,
     SetCircuitBreakerState, CreateListing, CancelListing, CloseLedger, OracleChanges,
     creditVars
<1>9. QED
  BY <1>6, <1>7, <1>8 DEF Next, vars, creditVars

\* However many accounts there are, the supply counter of every project is the sum
\* of what they hold: mint, burn and retire move both by the same amount, transfers
\* to others and to oneself move neither, and a sale burns what it mints.
THEOREM SuppliesAreSums == Spec => []SupplyIsSumOfBalances
<1>1. Balanced(credit) <=> SupplyIsSumOfBalances
  BY Zenon DEF Balanced, SupplyIsSumOfBalances, Held
<1>2. Init => Balanced(credit)
  <2> SUFFICES ASSUME Init, NEW p \in ProjectId
               PROVE  credit.supply[p] = Held(credit.balance, p)
    BY DEF Balanced
  <2> DEFINE f == [a \in Address |-> credit.balance[a][p]]
             z == [a \in Address |-> 0]
  <2>1. f = z /\ credit.supply[p] = 0
    BY DEF Init, CreditInit
  <2>2. SumFunctionOnSet(z, Address) = 0
    BY FinitelyManyAccounts, SumOfZeros
  <2>3. Held(credit.balance, p) = SumFunction(f)
    BY Zenon DEF Held
  <2>4. SumFunction(z) = SumFunctionOnSet(z, Address)
    <3>1. DOMAIN z = Address
      OBVIOUS
    <3> HIDE DEF z
    <3>2. QED
      BY <3>1, Zenon DEF SumFunction
  <2>5. QED
    BY <2>1, <2>2, <2>3, <2>4, Zenon
<1>3. TypeOK /\ Balanced(credit) /\ [Next]_vars => Balanced(credit)'
  BY BalancedStep
<1>4. QED
  BY <1>1, <1>2, <1>3, TypeCorrect, PTL DEF Spec

=============================================================================
