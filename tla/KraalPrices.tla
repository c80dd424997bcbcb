---------------------------- MODULE KraalPrices ----------------------------
(***************************************************************************)
(* contracts/stellarkraal: the price feed, three oracle accounts and the   *)
(* median of what they last submitted.  Lending does not read it.          *)
(***************************************************************************)
EXTENDS Soroban

CONSTANTS
    Account,    \* accounts, oracles or not
    Price,      \* i128 prices, not validated
    MaxAge      \* values of max_price_age_ledgers

\* What the contract's types give: prices are integers and ages unsigned.
ASSUME PricesAssumption ==
    /\ Price \subseteq Int
    /\ MaxAge \subseteq Nat

FeedConfig == [oracle1 : Account, oracle2 : Account, oracle3 : Account, maxAge : MaxAge]

PriceEntry == [price : Price, submittedAt : Ledger]

ASSUME NullIsNoPrice == NULL \notin FeedConfig /\ NULL \notin PriceEntry

VARIABLES
    feedConfig, \* instance CONFIG, or NULL
    prices      \* instance PRICE entries, NULL where absent

feedVars == <<feedConfig, prices, ledger>>

FeedTypeOK ==
    /\ feedConfig \in FeedConfig \cup {NULL}
    /\ prices \in [Account -> PriceEntry \cup {NULL}]
    /\ ledger \in Ledger

FeedInit ==
    /\ feedConfig = NULL
    /\ prices = [a \in Account |-> NULL]
    /\ ledger = 0

-----------------------------------------------------------------------------

\* initialize does not ask for three different accounts.
InitializeFeed(c) ==
    /\ feedConfig = NULL
    /\ feedConfig' = c
    /\ UNCHANGED <<prices, ledger>>

Oracles == {feedConfig.oracle1, feedConfig.oracle2, feedConfig.oracle3}

SubmitPrice(oracle, price) ==
    /\ feedConfig # NULL
    /\ oracle \in Oracles
    /\ prices' = [prices EXCEPT ![oracle] = [price |-> price, submittedAt |-> ledger]]
    /\ UNCHANGED <<feedConfig, ledger>>

CloseFeedLedger ==
    /\ ledger < MaxLedger
    /\ ledger' = ledger + 1
    /\ UNCHANGED <<feedConfig, prices>>

FeedNext ==
    \/ \E c \in FeedConfig : InitializeFeed(c)
    \/ \E oracle \in Account, price \in Price : SubmitPrice(oracle, price)
    \/ CloseFeedLedger

FeedSpec == FeedInit /\ [][FeedNext]_feedVars

-----------------------------------------------------------------------------
(***************************************************************************)
(* get_price                                                               *)
(***************************************************************************)

Lesser(m, n)  == IF m > n THEN n ELSE m
Greater(m, n) == IF m > n THEN m ELSE n

\* Mutant: the third compare-and-swap is missing.
Median3TwoSwaps(a, b, c) == Lesser(Greater(a, b), c)

\* The middle cell after the three compare-and-swaps.
Median3(a, b, c) == Greater(Lesser(a, b), Lesser(Greater(a, b), c))

Fresh(oracle) == /\ prices[oracle] # NULL
                 /\ ledger - prices[oracle].submittedAt <= feedConfig.maxAge

PriceAvailable == feedConfig # NULL /\ \A oracle \in Oracles : Fresh(oracle)

MedianPrice == Median3(prices[feedConfig.oracle1].price, prices[feedConfig.oracle2].price,
                       prices[feedConfig.oracle3].price)

-----------------------------------------------------------------------------
(***************************************************************************)
(* Properties                                                              *)
(***************************************************************************)

DistinctOracles == /\ feedConfig.oracle1 # feedConfig.oracle2
                   /\ feedConfig.oracle2 # feedConfig.oracle3
                   /\ feedConfig.oracle1 # feedConfig.oracle3

\* With three different oracle accounts no single account decides what get_price
\* returns: leave out any one of them and the answer still lies between prices
\* that others submitted no longer than max_price_age_ledgers ago, whatever the
\* order and the ledgers of the submissions.
NoOracleDecides ==
    (PriceAvailable /\ DistinctOracles) =>
        \A rogue \in Account :
            \E low, high \in Oracles \ {rogue} :
                /\ ledger <= prices[low].submittedAt + feedConfig.maxAge
                /\ ledger <= prices[high].submittedAt + feedConfig.maxAge
                /\ prices[low].price <= MedianPrice
                /\ MedianPrice <= prices[high].price

=============================================================================
