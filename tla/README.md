# A TLA+ model of stellar-kraal

The repository holds two families of Soroban smart contracts (a carbon-credit
market and a livestock-backed lender), a TypeScript backend that submits to and
indexes the chain, and a Python bridge that feeds the carbon oracle. This
directory models the parts that keep state and make decisions, checks them with
TLC on small instances and proves the main results with TLAPS for all instances.

## 1. Inventory

| Component (source) | State | Operations | Talks to |
|---|---|---|---|
| `carbon_registry` | administrator, projects (owner, total, issued, status) | initialize, register, verify, suspend, retire, issue_credits | called by the marketplace |
| `carbon_credit` | balances, supply, retired total, used operation ids | mint, burn, transfer, batch_transfer, retire | called by the marketplace and by holders |
| `carbon_marketplace` | configuration, breaker, seller nonces, listings | create / purchase / cancel listing, mint_project_credits, breaker, oracle configuration | calls registry, credit, oracle |
| `carbon_oracle` | key, window, heartbeat, breaker, feeds, commitments, aggregated feeds | submit_price, submit_aggregated_price, commit / challenge / reveal, rotate_key, heartbeat, trip / pause / reset | read by the marketplace, written by the bridge |
| `carbon_timelock` | administrator, guardian, operations | propose, execute, cancel | administrators |
| `stellarkraal` lending | configuration, assets, loans, loan counter | register_asset, open_loan, repay_loan, liquidate | borrowers |
| `stellarkraal` price feed | three oracle accounts, last price of each | submit_price, get_price | oracles |
| backend idempotency layer and domain services | idempotency records, chain events, listings, purchases, retirements | POST listings, purchases, retirements; replay; reconcile | SQLite, chain client |
| backend indexer | cursors, indexed events | poll, deduplicate, fan out | RPC, webhook queue |
| backend webhook delivery | webhooks, deliveries | drain, back off, give up | subscribers |
| backend rate limiter | window counters in Redis or memory | increment, fail over | every route |
| bridge feeds (`resilience.py`, `adapters/`) | per feed: failures, degraded flag, last good price and its time; the dead-letter queue (SQLite) | fetch with retries, fall back, enqueue, replay; `replay-dlq` | data sources, operators |
| bridge aggregation (`aggregation.py`) | none | outlier rejection (IQR, MAD), weighted median | called by the bridge |
| bridge submission (`bridge.py`, `cli.py submit`) | the call under way, open commitments and their salts | process, aggregate_and_submit, commit, reveal | IPFS, `carbon_oracle` |
| attestation, provenance, verifier | pinned records | attest, to_dict, validate, verify | IPFS, auditors |
| demo server, metrics, logging | counters, gauges, an in-memory chain | pages, `/metrics` | people |
| `arithmetic` crate | none | checked-arithmetic helpers that no contract calls | nobody |

**What is hard here.** On chain an invocation is atomic and is rolled back as a
whole when it fails, so the hard behaviours are long sequences of legal calls by
different parties (a project registered again under an identifier already in
circulation, an asset registered twice in a ledger, a commitment nobody can
reveal), cross-contract invocations that must settle all or nothing, prices read
while a breaker is open or a feed is silent, and integers at the end of their
width. Off chain each write is durable on its own: the backend can die, or a
write can throw, between any two of the four writes a request makes, and clients
retry with the same key, the wrong payload, or too late. The bridge makes two
outside calls per price (pin, submit) and either can fail or lose its answer; a
fetch sleeps between attempts while its last good price ages and other processes
work on the same dead-letter queue. `PROJECT.json` lists
these hazards at their lines with the properties aimed at them.

**What makes each component correct.**

- carbon contracts: credits are neither lost nor invented; retirement happens
  once per operation id; a sale moves exactly the listed credits; a seller's
  listing is not replaced by that seller; nothing trades through an open breaker
  or on an unusable price.
- lending: one active loan per pledged asset; the loan book is append-only and
  closed loans are final; a loan is not liquidatable in the ledger it is opened.
- price feed: no single oracle account decides the median.
- oracle: a jump is quarantined; an open breaker admits only matured reveals;
  verdicts are final; a silent feed is not served again behind an open breaker.
- timelock: no execution before the minimum delay, one verdict per operation.
- idempotency: no second submission within the TTL, no success without its
  effect, exact fills, stable replays, no key blocked for ever.
- indexer and delivery: no event lost between page and cursor, deliveries lost to
  nothing but a crash or a throwing statement, and only those of the event being
  stored; acknowledged ones never repeated, due ones posted.
- feeds: no price older than the staleness window is served; every fetch that
  raises is queued once; only an answer to a replay settles an entry (of the source
  the replay asks, which is not always the feed's); the queue drains when the
  sources answer again.
- bridge: every price on chain has a record that verifies, what is returned is on
  chain, a commitment can be opened, an altered record is refused.
- aggregation: agreeing sources with a majority of number and weight decide, up to
  prices that floats round.

## 2. Modules

| Module | Models | Notes |
|---|---|---|
| `Soroban` | the host, as `CarbonOracle`, `CarbonTimelock`, `KraalLoans` and `KraalPrices` see it | the ledger sequence up to `MaxLedger`, and `NULL` for a storage entry that is absent |
| `CarbonRegistry` | `contracts/carbon_registry` | `overwritten` is a history variable: identifiers whose entry was replaced |
| `CarbonCredit` | `contracts/carbon_credit` | extends the registry; `mint`, `burn` are operators because only the marketplace can authorise them |
| `CarbonMarketplace` | `contracts/carbon_marketplace` composed with both | an entry point and the calls it makes are one action |
| `CreditAccounting` | abstract specification | supply moves only in step with the issued counter, or by a retirement |
| `CarbonOracle` | `contracts/carbon_oracle` | a signature is the key that made it, a hash is its preimage |
| `CarbonTimelock` | `contracts/carbon_timelock` | `MaxLedger` is the largest u32, where `execute_after` saturates |
| `KraalLoans`, `KraalPrices` | `contracts/stellarkraal` | two modules because lending never reads the price feed |
| `Idempotency` | `backend/src/middleware/idempotency.ts`, both services, `db/database.ts`, `chain/chainClient.ts` | one action per durable write, faults between them |
| `EventIndexer` | `backend/src/indexer`, `chain/rpcClient.ts`, `webhook/routes.ts` and their tables | one action per durable write; `owed` is a history variable: who subscribed when an event was stored |
| `WebhookDelivery` | `backend/src/webhook/deliveryService.ts`, composed with the indexer | extends `EventIndexer` and its state |
| `FeedResilience` | `oracle_bridge/resilience.py`, `adapters/base.py`, `replay-dlq` of `cli.py` | the service and each `replay-dlq` are processes that share only the queue; `served`, `quoted`, `raised` are history variables |
| `PriceAggregation` | `oracle_bridge/aggregation.py` | operators on functions from sources to values, with the rounding of floats; no state |
| `OracleBridge` | `bridge.py`, `attestation.py`, `provenance.py`, `ipfs.py`, `submit` of `cli.py`, `tools/verify_provenance.py`, the demo server's verification page | extends `PriceAggregation`; one action per outside call, faults between them |
| `MC*` | instances for TLC | values for the constants |
| `*_proofs` | theorems | extend the modules they prove about; `Kraal_proofs` is about `KraalLoans` and `KraalPrices`, `CarbonOracle_proofs` about `CarbonOracle` and `CarbonTimelock` (whose state and specification have names of their own: `feedConfig`, `FeedSpec`, `timelockConfig`, `TimelockSpec`) |
| `FiniteSums` | lemmas about `SumFunctionOnSet` | used by the proofs about supplies and weights |

Conventions of the correspondence:

- **Invocations.** Each contract entry point is an action; its guard is the
  conjunction of the code's checks, and a call that returns an error changes
  nothing, so it is a stuttering step. A caller that appears as a parameter has
  signed.
- **Identifiers.** SHA-256 is taken to be injective, so an identifier is the
  tuple of what is really hashed. This matters: `register_project` and
  `create_listing` convert an address (or a tuple with one) with `try_from_val`
  into `Bytes`, which always fails and falls back to empty bytes. A project
  identifier is therefore its vintage alone, and a listing identifier does not
  contain the seller. `register_asset` hashes the ledger sequence alone.
- **Integers.** i128, i64 and u32 keep their ends as the constants `MaxI128`,
  `MaxI64` and, for the timelock, `MaxLedger`; checked operations are guards, saturating ones are
  `Saturate`. Division truncates towards zero.
- **Left out of the contracts:** events, TTL extension of storage entries
  (archival is not modelled), metadata fields no decision reads, getters.
  `carbon_marketplace/src/lib.rs` defines some constants twice (lines 46-62); the
  model takes the values, which agree. `carbon_registry/src/migration.rs` is not
  part of the crate.
- **Backend.** Express runs the handler to completion on one thread with a
  synchronous database, so one request is worked on at a time (`work`); the
  interleaving that matters is between its writes and a crash. A key stands for
  the identifiers derived from it. When a request is reconciled from an event of
  another endpoint, the missing fields bind as NULL: a NOT NULL column makes the
  listing insert throw, `INSERT OR IGNORE` makes the retirement insert do nothing
  (`ForeignEvent`). Elapsed time is counted up to the TTL only (`Age`), which is
  all the code compares. Rejections with 400, 409, 422 and replays write nothing.
- **Indexer and delivery.** Both share the thread and give way to each other and
  to the routes only while they await: the indexer a page, the drain an answer.
  While a page is being stored (`Storing`) nothing else runs, but each statement
  commits on its own, and after any of them the process may die or the next
  statement may throw: `scheduleTick` catches that and the tick is abandoned
  (`Fault`), while an exception in the drain ends the drain (`DrainFails`). The
  event is inserted before its deliveries and a replayed event enqueues nothing,
  so this is how deliveries are lost. The RPC endpoint
  is external: a page holds the oldest matching events and `nextLedger` is the
  ledger of the first one left out. A drain reads its rows once (`drain.due`) and
  its clock once (`drain.at`), and the webhook right before each post. Retries of
  one RPC request leave no trace; the request succeeds or is given up
  (`FetchFails`), and the next tick starts again from the cursors.
- **Feeds.** An attempt of `fetch` either sees its source up or not (`Outage`
  stands for HTTP errors, timeouts and bodies without a usable price, which
  `_fetch_price` turns into exceptions); between two attempts the process sleeps,
  so time passes and others run. What follows the last attempt is one step: the
  queue, the only thing that outlives a process, is written in one statement of
  it. `replay-dlq` gives each entry an adapter of its own, which has no last good
  price and so never falls back. That adapter is built from the feed's name alone,
  with the default product or pool of its class: `SourceOf` is what the service asks
  for a feed and `ReplaySource` what `replay-dlq` asks, so an entry of `CBL-CFD` is
  settled by a price of `CBL-EUA`, and one of `NCT` by a price of `BCT`. Nothing of a retry's length is kept but that
  time may pass.
- **Bridge.** A call is worked on up to its next outside call: `StartJob` signs,
  builds and validates, then come the pin and the submission. An outside call
  returns, fails without effect, or takes effect and loses its answer. SHA-256,
  Ed25519 and CIDs are injective constructors that hold what they were made of.
  `submit_price_with_cid` may itself raise AttributeError, which
  `_submit_with_cid` takes for a missing method. The contract's side is what the
  bridge relies on: it stores what it accepts and keeps an open commitment until
  it is revealed (`carbon_oracle`, `OnChainHash`). `mode` says which client, which
  IPFS backend and whether `jsonschema` is installed. The time of submission in a
  record is left out, so two calls with one result share a record.
- **Aggregation.** Prices are integers and stay exact; quartiles, medians,
  deviations and bounds are floats. `Floats` are the integers q u with |q| at most
  `MaxExact` (2^53) and u a power of two (`Scale`), and `Round` takes the nearest
  one, of two the even one. A quantity with a fraction is kept multiplied by a power
  of two (quartiles by four, medians by two, multipliers by `MultUnit`), which
  changes nothing about rounding, and `Round` stands wherever Python converts an
  integer or rounds a result; an integer and a float are compared exactly. Exponents
  are not bounded, so infinities and NaN are not modelled. Weights are integers
  (they matter up to a common factor) whose sum is exact (`BridgeAssumption`):
  weights whose sums round are outside the model.
  `ExactRange` holds the integers up to `MaxExact`/8, about 2^50, from which the
  rules compute nothing that is rounded. `MajorityDecides` needs it: among 2^53,
  2^53 + 1 and 2^53 + 1 both quartiles are 2^53 and the IQR rule rejects the
  majority. The instance has the same batch at its own scale (32, 33, 33), and TLC
  finds that majority lost as soon as the range is dropped from the property.

## 3. Runs

All passing runs check deadlock unless the system really may stop: in
`kraal_prices` and `carbon_timelock` it does when the last ledger is reached, in
`oracle_bridge` when the bounded number of calls has been made.

| Run | Question | Bounds and why they are enough | States |
|---|---|---|---|
| `carbon_credits` | Does any sequence lose or invent credits? Do the contracts implement `CreditAccounting`? Are own listings kept? Does the gate hold? | two accounts (a transfer, a sale and a self-transfer all occur), an amount of 1 and a total of 2 (issued in two mints), one operation id, one vintage so registrations collide, two listings each over two ledgers, a tripped and a closed breaker (no check tells `AdminPaused` from `Tripped`), a fresh oracle answer and one that is refused; a view identifies project statuses that no check tells apart, and the oracle's answer until one is configured | 436,104 |
| `kraal_loans` | Pledges, loan book, margins | two ledgers, two loans, three configurations (one of them invalid), values 4 (exactly at the limit) and 9 (rounded), repayments -1, 0, 2, 5; ten basis points to one and a year of two ledgers make truncation visible | 310,115 |
| `kraal_prices` | Can one oracle decide the median? | four accounts (three appointed in any assignment), three prices, ages 0 and 1 over three ledgers | 79,587 |
| `carbon_oracle` | Jumps, commit-reveal, breaker, heartbeat | one feed (feeds are independent), two keys, prices -4, 1, 2 of an i64 that ends at 3, windows 0 and 2, three ledgers | 323,031 |
| `carbon_timelock` | Delays, verdicts | two operations, three types with minimum delays 3, 2, 1, deployment at the start and near the end of u32 | 274,914 |
| `idempotency` | Crash and retry | two keys shared by four payloads of three endpoints, TTL of one tick, one fault at any point | 374,970 |
| `webhooks` | Is an event skipped, a delivery lost, repeated or starved? | two targets with subscribers each, three events, pages of one event so a target takes several, two clients of whom one follows both types, two attempts (a back-off and an exhaustion), a drain of one row so deliveries compete, one fault (a crash or a throwing statement) at any point; retries are followed for one delivery among all the others | 563,056 |
| `feed_resilience` | Is a stale price served, a failure lost, an entry settled without an answer? Does the queue drain? | one live feed whose replay asks another source and one feed of unknown name, each source up or down by itself, two prices, one retry (so a fetch sleeps), threshold 2 and a window of one tick in a clock of 0 to 3 (fallbacks in and out of the window), a `replay-dlq` process beside the service, queues of up to two rows with and without a backlog, one kill | 374,464 |
| `oracle_bridge` | Are submitted prices documented, commitments openable, damaged records refused, aggregates decided by majorities? | five ways to start the bridge (three clients, both backends, with and without `jsonschema`), two calls after one another, one crash; results that are valid, overflow, have a long feed or a negative timestamp; batches of two to six sources with ascending values from {0, 1, 4} (the code sorts), equal weights and one threefold weight, all three methods, and batches of three with values 32 and 33, where floats are exact up to 32 and 4 is the end of the exact range; a batch is the first call (`MaxBatchAt`), since later ones differ only in what was called before | 1,054,267 |

Three runs expect a violation; each checks one sentence of the repository's
comments, documentation or tests against the code.

| Run | What TLC shows |
|---|---|
| `double_collateral` | a second registration in the ledger of an asset on loan clears `on_loan`; the asset secures two loans |
| `replay_report` | `cmd_replay_dlq` ignores the answer of `replay_dlq_entry`: a failed replay is announced as "replayed successfully", counted, and the command exits with 0 |
| `outlier_kept` | of three sources two agree and the third is far above them, and the IQR rule with its default multiplier rejects nobody, where `tests/test_aggregation.py:246` and `:285` expect the third to be rejected (`pyproject.toml:38` deselects these tests). `IqrInertInBatches` proves why: among fewer than six sources the default rule rejects nobody, whatever the values in the exact range |

Type invariants are proved for every instance (section 4), so the runs leave them
out; `carbon_oracle` and `webhooks`, whose records are the largest, check theirs as
well. Every safety property of a passing run is proved for every instance, too.

Smaller disagreements between a comment and the code that the modules keep to the
code on, without a run of their own: a retired project can be verified again
(`carbon_registry/src/lib.rs:206` "permanently"); a project identifier does not
depend on owner and name (`:120`), and equal listings of two sellers in one
ledger share an identifier (`carbon_marketplace/src/lib.rs:342`); a `retire()`
rejected for its balance does not consume the operation id
(`carbon_credit/src/lib.rs:343`); `is_price_stale` fails for a feed without a
price instead of answering true (`carbon_oracle/src/lib.rs:860`); a commitment
whose window has passed unrevealed keeps blocking its feed (`:509` "or challenge
window to pass"); the response is not cached atomically with the domain write
(`middleware/idempotency.ts:82`); after a failed domain write another payload
under the key is answered 200 from the first one's event instead of 422
(`docs/backend/idempotency.md:25`); a ledger cursor belongs to an event type and
not to a contract and type, and does not move atomically with the page
(`indexer/eventIndexer.ts:4`, `:8`); registering a project identifier again resets
`issued_credits`, after which more than `total_credits` can circulate
(`carbon_registry/src/lib.rs:69` "Maximum credits that can ever be issued");
after the TTL a purchase under a used key is settled and answered 201 while its
row is dropped (`docs/backend/idempotency.md:27`); a delivery that failed
`maxAttempts` times is `failed`, which `getPendingDeliveries` selects, and is
posted again by the next drain (`webhook/deliveryService.ts:8`).

Of the bridge, likewise: a MAD of zero accepts any outlier
(`tests/test_aggregation.py:320` expects a rejection and is deselected too); prices
beyond 2^53 are rounded by the rejection rules and can lose their majority; a failed
replay leaves its entry and adds another; a successful one drops the price it
fetched, and in the service a degraded fallback, stamped with the present time,
counts as one; `replay-dlq` builds adapters with the default product, so an entry of
the feed `NCT` fetches `BCT`; `exit_degraded` leaves the gauge up; the
alert for an open breaker exists only on the path without a CID; an AttributeError
inside `submit_price_with_cid` submits the price a second time without its CID;
an aggregate takes the first source's feed and the latest timestamp, rejected
sources included; revealed prices have no provenance record; the salt of a
commitment lives in the caller only; the simulated store ends with its process,
so `verify --cid` cannot find what another process pinned; a bridge without
`jsonschema` pins records that a verifier with it refuses; the verifier compares
neither script hash, parameters hash nor feed with the signed payload, and the
first check of `verify_hashes` compares a hash with itself; `pad_feed_id` raises
where its comment says "truncate" (`attestation.py:68`); a schema failure exits
with 1 where `verify_provenance.py` announces 3.

**Symmetry** is used for accounts, operation ids, keys and parameters, in runs
without liveness properties only.

**Fairness.** No contract is assumed to be called: every on-chain property is a
safety property. `Idempotency` has weak fairness of `Tick` alone, because time
passes; nothing is assumed of clients, of the handler or of recovery.
`BlockedKeyFreed` needs no more: the record of a crashed request expires.
`WebhookDelivery` assumes that synchronous code runs on (weak fairness of the
indexer while it stores a page) and that the event loop gets round to the drain:
strong fairness of its next step (`DrainNext`: the timer, the loop, the answer to a
post), because it is enabled only between the indexer's synchronous stretches; a
post always ends since `makeFetchPoster` sets a timeout. Nothing is assumed of subscribers, of
the RPC endpoint, or of the indexer's own timer. Even so a delivery can wait for
ever behind a page of rows that are as old: those of a disabled webhook are
cancelled by every drain and stay due. `DueIsPosted` shows that nothing else
holds one back. `FeedResilience` assumes that a `replay-dlq` that was started
runs on (weak fairness: it loops without waiting for anyone) and that an operator
starts it again and again without `--id` (strong fairness, as a run with `--id` or
an empty queue may come between): without that nothing ever empties the queue.
Nothing is assumed of the sources; `QueueDrains` speaks of the behaviours in which
they answer again for good. `OracleBridge` has safety properties only.

**Mutants.** Each property of a passing run has a mutated form of the code that
breaks it (operators commented "Mutant:" beside the definition they alter).

## 4. Theorems

Each is proved for every value of the constants satisfying the named `ASSUME`s of
the modules: quantities are integers, bounds are naturals, `NULL` is no record. The
ones that say more than that:

- `FinitelyManyAccounts`: a sum over accounts needs finitely many of them.
- `DeliveryAssumption` lists `2^n \in Nat`, a fact about powers that none of the
  provers has, and `IndexerAssumption` that targets are a sequence.
- `FloatAssumption` says what floats are made of: integers up to `MaxExact` times
  an element of `Scale`, of which 1 and `MultUnit` are two. Nothing is assumed of
  rounding; that it is monotone and leaves floats alone is proved.
- `BridgeAssumption` bounds the values in a batch, says that a batch has a
  first source and that its weights add up to at most `MaxExact`; multipliers are
  any integers, and positive weights are what `ValidConfig` checks.
- `TimelockAssumption`: every operation type has a minimum delay of at least one
  ledger, as `minimum_delay` gives it.

What is proved, and along which argument:

- **`CarbonMarketplace_proofs`.** `TypeCorrect` needs no more than the types and
  the contracts' own checks: a burn is guarded by the balance, a mint by i128.
  `CreditsAccounted` proves `IssuedAccounted`; it is inductive together with
  `TypeOK`, since every action moves the issued counter, supply and retired
  total of a project together or replaces the entry and marks it `overwritten`.
  `SuppliesAreSums` proves `SupplyIsSumOfBalances` for any number of accounts:
  one write of a balance moves the total by as much (`HeldBy`), and mint, burn,
  transfer and retire are one or two such writes. `RetireIdempotent`,
  `OwnListingsKept`, `SalesSettle` and `GatesFreeze` are action properties; the
  second rests on the strengthening that every listing present carries a nonce
  below its seller's counter, the third on `BalanceAt`, which follows a burn and a
  mint through balances that may belong to the same account. `Refinement` maps
  `outstanding` to the supply, `retired` to the retired total and `issued` to the
  registry's counter, and shows every step to be an abstract step or a stutter.
- **`Kraal_proofs`.** `TypeCorrect`, `PledgedOnce`, `BookKept`,
  `FreshLoansAreSafe`. The inductive invariant adds to the pledge property that
  loans refer to registered assets and carry a nonce no larger than the loan
  counter, so `LoanIdOf` is always new, and that a closed loan owes nothing.
  `FreshLoansAreSafe` adds `TermsInv`, that a loan of an asset whose entry was not
  replaced was granted within the loan-to-value ratio of the value the asset still
  has, and multiplies the two truncated divisions out. `FeedTypeCorrect` and
  `NoSingleOracleDecides` are about `KraalPrices`; the second follows from
  `MedianBetween`: of any two arguments of `median3` one is on each side of it.
- **`CarbonOracle_proofs`.** `TypeCorrect`, `JumpsAreQuarantined`,
  `OnlyRevealsPassTheBreaker`, `CommitmentsAreFinal`, `SilenceIsKept`. The type
  invariant is inductive and the action properties follow from it with one lemma
  per part of the storage about what a step can do to it (`ConfigStep`,
  `PriceStep`, `CommitmentStep`) and one about saturating arithmetic
  (`JumpDeviates`). Of the timelock: `LockTypeCorrect`, `NoEarlyExecution`,
  `VerdictFinal`; the invariant `LockInv` says that `executeAfter` is at least the
  minimum delay after the proposal or is saturated at the end of u32.
- **`Idempotency_proofs`.** `TypeCorrect`, `SuccessBacked`, `NoDoubleSubmission`,
  `ReplaysAgree`, `FillsAreExact`, `NotOversold`. The invariant `IInv` adds to
  `TypeOK` what the request in flight may rely on: before a submission the key's
  latest event is a TTL old (`SubmitInv`); the record of the key being worked on is
  its own and in progress (`RecordInv`); a purchase the chain knows names a listing
  row (`ListedInv`); a completed record has its event and row, and the request about
  to complete has them already (`BackedInv`). None of these is visible in the
  properties: they hold across the crashes in between. `NotOversold` adds
  `SettledInv`: as long as nothing was lost, a purchase on chain is either in the
  table or the one in flight, whose quantity was checked against what remains.
- **`WebhookDelivery_proofs`.** `TypeCorrect`, `NoEventIsSkipped`,
  `DeliveredStaysDelivered`, `LossesAreFaults`, about the indexer and the delivery
  together, for any targets, events, webhooks, page and drain sizes. The inductive
  invariant follows the indexer through a page: where the scan of a target starts
  and how far it has come (`ScanInv`), that every matching event below the cursor, or
  below what the scan has stored, is in the index (`NothingBehind`), and which rows
  the queue and a drain may hold (`QueueInv`, `DrainInv`). `NoEventIsSkipped` has the
  provisos of `NothingSkipped`: the type is followed for one contract, and the event
  is the target's only one in its ledger. `LossesAreFaults` is proved step by step:
  no step but a crash or an exception while an event is being stored makes an owed
  delivery one that is missing and not about to be enqueued (`NothingLost`), and
  such a step does so for the event being stored alone (`FaultLoses`).
- **`FeedResilience_proofs`.** `TypeCorrect`, `ServedPricesAreRecent`,
  `RaisesAreQueued`, `DegradedModeIsVisible`, `OnlyAnswersSettle`, for any number
  of feeds, processes, retries and any window and threshold. `IInv` adds that an
  adapter's last good price is the last quote of its source with the time of it
  (`PriceIsQuote`), without which the age of a fallback says nothing about the
  quote, and that a call of `fetch` which replays an entry is a call for that
  entry's feed (`CallsMatch`). `OnlyAnswersSettle` names the source that has to
  answer: in `replay-dlq` the one that the feed's name leads to.
- **`OracleBridge_proofs`.** First the operators of `PriceAggregation`:
  `MajorityKept` (agreeing sources that are more than half are never rejected,
  because both quartiles enclose their value and the median is it), `IqrInert` (with
  fewer than six sources the quartiles are interpolated with the extremes, or are
  them, and no value can lie one interquartile range beyond) and
  `MajorityIsAggregate` (a value with more than half of the weight is the weighted
  median, and what a rejection takes away only helps it). All three are about values
  in the exact range: there quartiles, medians and deviations are exact
  (`QuartileExact`), and although a multiplier's product is not, a bound rounded to
  the nearest float never passes a value that is a float itself (`RoundMonotone`,
  `WithinReach`). They rest on lemmas about
  the k-th smallest value and on sums of weights. Then the bridge:
  `TypeCorrect`, `SubmissionsAreDocumented`, `ReturnedAreOnChain`,
  `CommitmentsAreOpenable`, `IqrInertInBatches`, `MajoritiesDecide`,
  `DamageIsDetected`. The invariant follows the call under way: its record describes
  its attestation and verifies, and from the submission on it is in the store under
  the CID the call holds, or the CID is one that will be refused (`JobDocumented`);
  what it aggregates is a batch (`JobAggregate`); a dry run opens no commitment
  (`DryCommitsNothing`). `DamageIsDetected` adds `PinnedInv`: every record in the
  store, and the one about to be pinned, is `Genuine`, made from one result that
  fits in i64.
- **`FiniteSums`.** The library's sum is a fold in an unspecified order. The lemmas
  show that it is defined on finite sets, that the order does not matter
  (`SumTakeOut`), and how it changes with one summand (`SumOneChanges`) or splits
  (`SumSplit`). The library's induction theorems cannot be instantiated here; each
  induction is made on the size of a smallest counterexample instead, which exists
  because `<` on the naturals is well founded.

**Only model-checked:** the liveness properties `BlockedKeyFreed`, `DueIsPosted` and
`QueueDrains`, which are beyond the prover like `ENABLED` and RECURSIVE operators
(no module here uses one), and the three violations of section 3.

## 5. Plan

Done: the carbon contracts and their accounting refinement, lending, the price
feed, the oracle, the timelock, the idempotency protocol, the indexer with the
webhook deliveries, the bridge with its feeds, aggregation, submission and
verification; a theorem for every safety property of the passing runs.

Next, in this order:

1. `CarbonSystem`: the marketplace with `CarbonOracle` in the place of the
   environment variable `oracleView`, which `MarketView` already defines, and the
   proof that the composition implements `CarbonMarketplace`.
2. An abstract specification of exactly-once effects for the idempotency layer
   (faults that delay a row but never double a submission) and the proof that
   `Idempotency` implements it.
3. `RateLimiter`: the counters and the failover between Redis and memory; the
   window in which INCR has happened and EXPIRE has not.

## 6. Not modelled

Request validation, pagination and parsing (read-only); server wiring and
signals; metrics (but for the degraded-mode gauge) and logging; the pages of the
demo server, an illustration over the same bridge, but for its verification page;
`show`, `dump`, `dlq-stats` and `state_info`, which only print; the serialisation
of payloads and signature arithmetic (a payload is its fields, a signature is its
key and message); the `arithmetic` crate, which no contract calls; the frontend
and deployment scripts. The rate limiter is planned above and not modelled yet.
