------------------------- MODULE CarbonMarketplace -------------------------
(***************************************************************************)
(* contracts/carbon_marketplace composed with the registry and the credit  *)
(* contract it calls: listings, sales, issuance.                           *)
(*                                                                         *)
(* A marketplace entry point and the cross-contract calls it makes are one *)
(* invocation, so they are one action; it happens only if every call in it *)
(* succeeds.  Other contracts' entry points interleave between actions.    *)
(***************************************************************************)
EXTENDS CarbonCredit, FiniteSets, Functions

CONSTANTS
    Price,          \* price_per_credit and payment arguments
    CircuitState,   \* "Active", "Tripped", "AdminPaused"
    OracleView,     \* "Fresh", "Stale", "Open", "NoFeed"
    MaxLedger,      \* bound: last ledger sequence explored
    MaxNonce        \* bound: listings a seller may create

ASSUME MarketAssumption ==
    /\ Price \subseteq Int
    /\ "Active" \in CircuitState
    /\ "Fresh" \in OracleView
    /\ MaxLedger \in Nat
    /\ MaxNonce \in Nat

\* At any time finitely many accounts have been used.
ASSUME FinitelyManyAccounts == IsFiniteSet(Address)

Ledger == 0 .. MaxLedger

(***************************************************************************)
(* The code hashes sha256(seller bytes), project, amount, price, ledger    *)
(* and the seller's nonce.  The seller is converted with Bytes::try_from,  *)
(* which always fails for an Address, so its bytes are empty for everyone. *)
(***************************************************************************)
ListingId == [project : ProjectId, amount : {n \in Amount : n > 0},
              price : {n \in Price : n > 0}, ledger : Ledger, nonce : 0 .. MaxNonce]

\* Mutant: the identifier before RS-02, without the seller's nonce.
ListingIdWithoutNonce(seller, p, amount, price, seq, nonce) ==
    [project |-> p, amount |-> amount, price |-> price, ledger |-> seq, nonce |-> 0]

ListingIdOf(seller, p, amount, price, seq, nonce) ==
    [project |-> p, amount |-> amount, price |-> price, ledger |-> seq, nonce |-> nonce]

Listing == [seller : Address, project : ProjectId, amount : {n \in Amount : n > 0},
            price : {n \in Price : n > 0}, status : {"Active", "Sold", "Cancelled"}]

ASSUME NullIsNoListing == NULL \notin Listing

VARIABLES
    marketAdmin,    \* instance CONFIG: the administrator, or NULL
    oracleSet,      \* CONFIG.oracle and CONFIG.feed_id are present
    circuit,        \* instance CIRCUIT
    sellerNonce,    \* instance SCTR entries
    listings,       \* persistent LST entries, NULL where absent
    ledger,         \* e.ledger().sequence()
    oracleView      \* what the oracle answers about the configured feed

marketVars == <<marketAdmin, oracleSet, circuit, sellerNonce, listings>>
envVars    == <<ledger, oracleView>>
vars       == <<registryVars, creditVars, marketVars, envVars>>

TypeOK ==
    /\ RegistryTypeOK
    /\ CreditTypeOK
    /\ marketAdmin \in Admin \cup {NULL}
    /\ oracleSet \in BOOLEAN
    /\ circuit \in CircuitState
    /\ sellerNonce \in [Address -> 0 .. MaxNonce + 1]
    /\ listings \in [ListingId -> Listing \cup {NULL}]
    /\ ledger \in Ledger
    /\ oracleView \in OracleView

Init ==
    /\ RegistryInit
    /\ CreditInit
    /\ marketAdmin = NULL
    /\ oracleSet = FALSE
    /\ circuit = "Active"
    /\ sellerNonce = [a \in Address |-> 0]
    /\ listings = [id \in ListingId |-> NULL]
    /\ ledger = 0
    /\ oracleView \in OracleView

-----------------------------------------------------------------------------
(***************************************************************************)
(* Administration                                                          *)
(***************************************************************************)

InitializeMarket(admin) ==
    /\ marketAdmin = NULL
    /\ marketAdmin' = admin
    /\ UNCHANGED <<oracleSet, circuit, sellerNonce, listings>>
    /\ UNCHANGED <<registryVars, creditVars, envVars>>

ConfigureOracle(caller) ==
    /\ marketAdmin # NULL
    /\ caller = marketAdmin
    /\ oracleSet' = TRUE
    /\ UNCHANGED <<marketAdmin, circuit, sellerNonce, listings>>
    /\ UNCHANGED <<registryVars, creditVars, envVars>>

SetCircuitBreakerState(caller, state) ==
    /\ marketAdmin # NULL
    /\ caller = marketAdmin
    /\ circuit' = state
    /\ UNCHANGED <<marketAdmin, oracleSet, sellerNonce, listings>>
    /\ UNCHANGED <<registryVars, creditVars, envVars>>

RequireMarketActive == marketAdmin # NULL /\ circuit = "Active"

\* Mutant: the age of the price is checked, the oracle's breaker is not.
PriceNotStale == oracleSet => oracleView \notin {"Stale", "NoFeed"}

\* The oracle's breaker must be closed and its price fresh; a feed without a
\* price makes is_price_stale fail, which fails the caller too.
RequireFreshPrice == oracleSet => oracleView = "Fresh"

-----------------------------------------------------------------------------
(***************************************************************************)
(* Trading                                                                 *)
(***************************************************************************)

CreateListing(seller, p, amount, price) ==
    LET nonce == sellerNonce[seller]
        id    == ListingIdOf(seller, p, amount, price, ledger, nonce)
    IN  /\ RequireMarketActive
        /\ RequireFreshPrice
        /\ amount > 0 /\ price > 0
        /\ IsVerified(p)
        /\ credit.balance[seller][p] >= amount
        /\ nonce <= MaxNonce
        /\ sellerNonce' = [sellerNonce EXCEPT ![seller] = @ + 1]
        /\ listings' = [listings EXCEPT ![id] =
               [seller |-> seller, project |-> p, amount |-> amount,
                price |-> price, status |-> "Active"]]
        /\ UNCHANGED <<marketAdmin, oracleSet, circuit>>
        /\ UNCHANGED <<registryVars, creditVars, envVars>>

PurchaseListing(buyer, id, payment, maxLedger) ==
    LET l      == listings[id]
        burned == Burned(credit, l.seller, l.project, l.amount)
    IN  /\ RequireMarketActive
        /\ RequireFreshPrice
        /\ ledger <= maxLedger
        /\ l # NULL
        /\ l.status = "Active"
        /\ l.price * l.amount <= MaxI128
        /\ payment >= l.price * l.amount
        /\ IsVerified(l.project)
        /\ CanBurn(credit, l.seller, l.project, l.amount)
        /\ CanMint(burned, buyer, l.project, l.amount)
        /\ listings' = [listings EXCEPT ![id].status = "Sold"]
        /\ credit' = Minted(burned, buyer, l.project, l.amount)
        /\ UNCHANGED <<marketAdmin, oracleSet, circuit, sellerNonce>>
        /\ UNCHANGED <<registryVars, creditAdmin, envVars>>

CancelListing(seller, id) ==
    /\ RequireMarketActive
    /\ listings[id] # NULL
    /\ listings[id].status = "Active"
    /\ listings[id].seller = seller
    /\ listings' = [listings EXCEPT ![id].status = "Cancelled"]
    /\ UNCHANGED <<marketAdmin, oracleSet, circuit, sellerNonce>>
    /\ UNCHANGED <<registryVars, creditVars, envVars>>

\* The administrator signs; registry.issue_credits, then credit.mint to the owner.
MintProjectCredits(p, amount) ==
    /\ RequireMarketActive
    /\ amount > 0
    /\ CanIssue(p, amount)
    /\ CanMint(credit, projects[p].owner, p, amount)
    /\ projects' = Issued(p, amount)
    /\ credit' = Minted(credit, projects[p].owner, p, amount)
    /\ UNCHANGED <<registryAdmin, overwritten, creditAdmin, marketVars, envVars>>

-----------------------------------------------------------------------------
(***************************************************************************)
(* Environment: the ledger closes; the oracle's answer changes because of  *)
(* a submission, a trip or the passage of time.                            *)
(***************************************************************************)

CloseLedger ==
    /\ ledger < MaxLedger
    /\ ledger' = ledger + 1
    /\ UNCHANGED <<registryVars, creditVars, marketVars, oracleView>>

OracleChanges(view) ==
    /\ oracleView' = view
    /\ UNCHANGED <<registryVars, creditVars, marketVars, ledger>>

MarketNext ==
    \/ \E admin \in Admin : InitializeMarket(admin)
    \/ \E caller \in Admin : ConfigureOracle(caller)
    \/ \E caller \in Admin, state \in CircuitState :
           SetCircuitBreakerState(caller, state)
    \/ \E seller \in Address, p \in ProjectId, amount \in Amount, price \in Price :
           CreateListing(seller, p, amount, price)
    \/ \E buyer \in Address, id \in ListingId, payment \in Price, max \in Ledger :
           PurchaseListing(buyer, id, payment, max)
    \/ \E seller \in Address, id \in ListingId : CancelListing(seller, id)
    \/ \E p \in ProjectId, amount \in Amount : MintProjectCredits(p, amount)
    \/ CloseLedger
    \/ \E view \in OracleView : OracleChanges(view)

Next ==
    \/ RegistryNext /\ UNCHANGED <<creditVars, marketVars, envVars>>
    \/ CreditNext /\ UNCHANGED <<registryVars, marketVars, envVars>>
    \/ MarketNext

Spec == Init /\ [][Next]_vars

-----------------------------------------------------------------------------
(***************************************************************************)
(* Properties                                                              *)
(***************************************************************************)

\* While a project's entry has not been replaced, the registry's counter of
\* issued credits (issue_credits) equals what the credit contract holds for it,
\* in circulation or retired, and stays within the project's total: no path of
\* mint, burn, purchase, transfer or retire loses or invents a credit.
IssuedAccounted ==
    \A p \in ProjectId \ overwritten :
        /\ projects[p] = NULL => credit.supply[p] + credit.retired[p] = 0
        /\ projects[p] # NULL =>
               /\ projects[p].issued = credit.supply[p] + credit.retired[p]
               /\ projects[p].issued <= projects[p].total

\* The supply counter that mint, burn and retire maintain separately from the
\* balances is their sum, for every project and after every sequence of mints,
\* sales, (batch) transfers and retirements.
SupplyIsSumOfBalances ==
    \A p \in ProjectId :
        credit.supply[p] = SumFunction([a \in Address |-> credit.balance[a][p]])

\* create_listing never replaces a listing of the same seller (RS-02), whatever
\* its arguments and ledger: the seller's nonce is part of the identifier.
OwnListingKept ==
    [][\A id \in ListingId :
          (listings[id] # NULL /\ listings'[id] # listings[id])
              => \/ listings'[id] = [listings[id] EXCEPT !.status = "Sold"]
                 \/ listings'[id] = [listings[id] EXCEPT !.status = "Cancelled"]
                 \/ listings'[id].seller # listings[id].seller]_vars

\* A sale settles exactly the listing: when purchase_listing marks a listing Sold
\* one account, the buyer's, gains the listed amount, the seller's loses it, and
\* no other balance, supply or retirement of any project moves.
SaleSettlesListing ==
    [][\A id \in ListingId :
          (listings[id] # NULL /\ listings[id].status = "Active"
             /\ listings'[id].status = "Sold")
              => \E buyer \in Address :
                    LET l == listings[id]
                    IN  /\ \A a \in Address, p \in ProjectId :
                             credit'.balance[a][p] = credit.balance[a][p]
                               + (IF a = buyer /\ p = l.project THEN l.amount ELSE 0)
                               - (IF a = l.seller /\ p = l.project THEN l.amount ELSE 0)
                        /\ credit'.supply = credit.supply
                        /\ credit'.retired = credit.retired
                        /\ \A other \in ListingId \ {id} :
                             listings'[other] = listings[other]]_vars

\* retire() is idempotent per operation id: credits leave circulation for the
\* retired pool only together with an operation id that was never used before,
\* and a used id is never forgotten.
RetireOncePerOperation ==
    [][/\ credit.retireOps \subseteq credit'.retireOps
       /\ \A p \in ProjectId :
             credit'.retired[p] # credit.retired[p]
                 => \E op \in OperationId \ credit.retireOps :
                       credit'.retireOps = credit.retireOps \cup {op}]_vars

\* An open breaker freezes the market: while the marketplace's own breaker is not
\* Active no listing changes in any way and no supply grows (issuance included);
\* while a feed is configured and the oracle's breaker is open, its price stale or
\* missing, no listing is created or sold.  Cancelling stays possible then.
FrozenWhileGated ==
    [][/\ circuit # "Active" =>
             /\ UNCHANGED listings
             /\ \A p \in ProjectId : credit'.supply[p] <= credit.supply[p]
       /\ (oracleSet /\ oracleView # "Fresh") =>
             \A id \in ListingId :
                 listings'[id] # listings[id] => listings'[id].status = "Cancelled"]_vars

IssuedCounter == [p \in ProjectId |-> IF projects[p] = NULL THEN 0 ELSE projects[p].issued]

Accounting == INSTANCE CreditAccounting WITH
    Project <- ProjectId, outstanding <- credit.supply, retired <- credit.retired,
    issued <- IssuedCounter

\* The composed contracts implement CreditAccounting, replaced entries included:
\* supply grows only with issued_credits, by the same amount, and shrinks only by
\* a retirement, so a sale (burn, then mint) and a batch of transfers leave it alone.
ImplementsAccounting == Accounting!Spec

=============================================================================
