---------------------------- MODULE CarbonOracle ----------------------------
(***************************************************************************)
(* contracts/carbon_oracle: attested price feeds, the commit-reveal scheme *)
(* and the circuit breaker.                                                *)
(*                                                                         *)
(* Each entry point is one atomic action whose guard is the conjunction of *)
(* its checks.  Only the administrator's identity is ever compared: any    *)
(* account may submit, commit, challenge, reveal or send a heartbeat, and  *)
(* a price is accepted for the signature under it.  A signature is         *)
(* modelled by the key that made it, a hash by what is hashed; script,     *)
(* parameter and provenance (CID) fields are carried, never looked at, and *)
(* an over-long CID is one more rejected call.  The ledger's timestamp is  *)
(* counted in the unit of its sequence number.                             *)
(***************************************************************************)
EXTENDS Soroban

CONSTANTS
    Admin,          \* accounts that may be administrator
    Feed,           \* feed identifiers
    Key,            \* Ed25519 public keys
    Value,          \* i64 prices
    Time,           \* timestamps callers sign or report
    Window,         \* challenge window durations, in ledgers
    Sources,        \* numbers of sources an aggregation may report
    MaxSources,     \* MAX_AGGREGATION_SOURCES
    MaxI64,         \* largest i64
    HeartbeatExpiry,\* HEARTBEAT_EXPIRY_SECONDS
    Junk            \* a commitment hash with no known preimage

ASSUME OracleAssumption ==
    /\ MaxI64 \in Nat
    /\ Value \subseteq -MaxI64 - 1 .. MaxI64
    /\ Time \subseteq Nat
    /\ Window \subseteq Nat
    /\ Sources \subseteq Nat
    /\ MaxSources \in Nat
    /\ HeartbeatExpiry \in Nat

CircuitBreakerState == {"Active", "Tripped", "AdminPaused"}

Config == [admin : Admin, key : Key, window : Window, heartbeat : Time \cup {0}]

PriceEntry == [value : Value, time : Time, at : Ledger]

Preimage == [value : Value, time : Time]

PriceCommitment == [hash : Preimage \cup {Junk}, at : Ledger,
                    state : {"ChallengeWindow", "Revealed", "Disputed"}]

AggregatedPriceEntry == [value : Value, used : Nat, rejected : Nat, time : Time, at : Ledger]

ASSUME NullIsNoEntry ==
    /\ NULL \notin Config
    /\ NULL \notin PriceEntry
    /\ NULL \notin PriceCommitment
    /\ NULL \notin AggregatedPriceEntry
    /\ Junk \notin Preimage

VARIABLES
    config,         \* instance CONFIG, or NULL
    circuit,        \* instance CIRCUIT
    feeds,          \* persistent FEED entries, NULL where absent
    commitments,    \* persistent COMMIT entries, NULL where absent
    aggregated      \* persistent AGGFEED entries, NULL where absent

vars == <<config, circuit, feeds, commitments, aggregated, ledger>>

TypeOK ==
    /\ config \in Config \cup {NULL}
    /\ circuit \in CircuitBreakerState
    /\ feeds \in [Feed -> PriceEntry \cup {NULL}]
    /\ commitments \in [Feed -> PriceCommitment \cup {NULL}]
    /\ aggregated \in [Feed -> AggregatedPriceEntry \cup {NULL}]
    /\ ledger \in Ledger

Init ==
    /\ config = NULL
    /\ circuit = "Active"
    /\ feeds = [f \in Feed |-> NULL]
    /\ commitments = [f \in Feed |-> NULL]
    /\ aggregated = [f \in Feed |-> NULL]
    /\ ledger = 0

Magnitude(n) == IF n < 0 THEN -n ELSE n

Saturate(n) == IF n > MaxI64 THEN MaxI64 ELSE n

-----------------------------------------------------------------------------
(***************************************************************************)
(* Configuration and circuit breaker                                       *)
(***************************************************************************)

Initialize(admin, key, window) ==
    /\ config = NULL
    /\ config' = [admin |-> admin, key |-> key, window |-> window, heartbeat |-> 0]
    /\ UNCHANGED <<circuit, feeds, commitments, aggregated, ledger>>

IsAdmin(caller) == config # NULL /\ caller = config.admin

SetChallengeWindow(caller, duration) ==
    /\ IsAdmin(caller)
    /\ config' = [config EXCEPT !.window = duration]
    /\ UNCHANGED <<circuit, feeds, commitments, aggregated, ledger>>

RotateKey(caller, key) ==
    /\ IsAdmin(caller)
    /\ config' = [config EXCEPT !.key = key]
    /\ UNCHANGED <<circuit, feeds, commitments, aggregated, ledger>>

\* trip_circuit_breaker, admin_pause and reset_circuit_breaker
SetCircuitState(caller, state) ==
    /\ IsAdmin(caller)
    /\ circuit' = state
    /\ UNCHANGED <<config, feeds, commitments, aggregated, ledger>>

TripCircuitBreaker(caller) == SetCircuitState(caller, "Tripped")

AdminPause(caller) == SetCircuitState(caller, "AdminPaused")

ResetCircuitBreaker(caller) == SetCircuitState(caller, "Active")

\* Mutant: only the administrator's pause closes the contract.
RequireNotPaused == config # NULL /\ circuit # "AdminPaused"

RequireActive == config # NULL /\ circuit = "Active"

\* Mutant: a heartbeat is accepted whatever the breaker says.
HeartbeatAnyTime(time) ==
    /\ config # NULL
    /\ config' = [config EXCEPT !.heartbeat = time]
    /\ UNCHANGED <<circuit, feeds, commitments, aggregated, ledger>>

Heartbeat(time) ==
    /\ RequireActive
    /\ config' = [config EXCEPT !.heartbeat = time]
    /\ UNCHANGED <<circuit, feeds, commitments, aggregated, ledger>>

-----------------------------------------------------------------------------
(***************************************************************************)
(* Prices                                                                  *)
(***************************************************************************)

\* Mutant: only rising prices are compared.
DeviatesUpwards(old, new) ==
    Saturate(Magnitude(old)) > 0 /\ new - old > Saturate(Magnitude(old))

\* Both sides of the comparison are i64 values: differences saturate.
Deviates(old, new) ==
    LET delta    == Saturate(Magnitude(new - old))
        baseline == Saturate(Magnitude(old))
    IN  baseline > 0 /\ delta > baseline

\* A deviating price trips the breaker and is stored all the same.
SubmitPrice(f, value, time, signer) ==
    /\ RequireActive
    /\ signer = config.key
    /\ circuit' = IF feeds[f] # NULL /\ Deviates(feeds[f].value, value)
                  THEN "Tripped" ELSE circuit
    /\ feeds' = [feeds EXCEPT ![f] = [value |-> value, time |-> time, at |-> ledger]]
    /\ UNCHANGED <<config, commitments, aggregated, ledger>>

CanCommit(f) == commitments[f] # NULL => commitments[f].state # "ChallengeWindow"

CommitPrice(f, hash) ==
    /\ config # NULL
    /\ CanCommit(f)
    /\ commitments' = [commitments EXCEPT ![f] =
           [hash |-> hash, at |-> ledger, state |-> "ChallengeWindow"]]
    /\ UNCHANGED <<config, circuit, feeds, aggregated, ledger>>

\* The window is the one configured now, not the one at the time of the commit.
WindowOpen(c) == ledger < c.at + config.window

\* Mutant: a challenge does not look at the state of the commitment.
ChallengePriceAnyState(f) ==
    /\ config # NULL
    /\ commitments[f] # NULL
    /\ WindowOpen(commitments[f])
    /\ commitments' = [commitments EXCEPT ![f].state = "Disputed"]
    /\ UNCHANGED <<config, circuit, feeds, aggregated, ledger>>

ChallengePrice(f) ==
    /\ config # NULL
    /\ commitments[f] # NULL
    /\ commitments[f].state = "ChallengeWindow"
    /\ WindowOpen(commitments[f])
    /\ commitments' = [commitments EXCEPT ![f].state = "Disputed"]
    /\ UNCHANGED <<config, circuit, feeds, aggregated, ledger>>

RevealPrice(f, value, time, signer) ==
    /\ config # NULL
    /\ commitments[f] # NULL
    /\ commitments[f].state = "ChallengeWindow"
    /\ ~WindowOpen(commitments[f])
    /\ commitments[f].hash = [value |-> value, time |-> time]
    /\ signer = config.key
    /\ commitments' = [commitments EXCEPT ![f].state = "Revealed"]
    /\ feeds' = [feeds EXCEPT ![f] = [value |-> value, time |-> time, at |-> ledger]]
    /\ UNCHANGED <<config, circuit, aggregated, ledger>>

\* Mutant: the subtraction of rejected sources is not checked.
SourcesUnchecked(sources, rejected) == sources <= MaxSources

\* More rejected sources than sources trap on the u32 subtraction.
SourcesAccepted(sources, rejected) == sources <= MaxSources /\ rejected <= sources

SubmitAggregatedPrice(f, value, time, sources, rejected, signer) ==
    /\ config # NULL
    /\ SourcesAccepted(sources, rejected)
    /\ signer = config.key
    /\ aggregated' = [aggregated EXCEPT ![f] =
           [value |-> value, used |-> sources - rejected, rejected |-> rejected,
            time |-> time, at |-> ledger]]
    /\ UNCHANGED <<config, circuit, feeds, commitments, ledger>>

CloseLedger ==
    /\ ledger < MaxLedger
    /\ ledger' = ledger + 1
    /\ UNCHANGED <<config, circuit, feeds, commitments, aggregated>>

Next ==
    \/ \E admin \in Admin, key \in Key, window \in Window : Initialize(admin, key, window)
    \/ \E caller \in Admin, duration \in Window : SetChallengeWindow(caller, duration)
    \/ \E caller \in Admin, key \in Key : RotateKey(caller, key)
    \/ \E caller \in Admin : TripCircuitBreaker(caller)
    \/ \E caller \in Admin : AdminPause(caller)
    \/ \E caller \in Admin : ResetCircuitBreaker(caller)
    \/ \E time \in Time : Heartbeat(time)
    \/ \E f \in Feed, value \in Value, time \in Time, signer \in Key :
           SubmitPrice(f, value, time, signer)
    \/ \E f \in Feed, hash \in Preimage \cup {Junk} : CommitPrice(f, hash)
    \/ \E f \in Feed : ChallengePrice(f)
    \/ \E f \in Feed, value \in Value, time \in Time, signer \in Key :
           RevealPrice(f, value, time, signer)
    \/ \E f \in Feed, value \in Value, time \in Time, sources, rejected \in Sources,
          signer \in Key :
           SubmitAggregatedPrice(f, value, time, sources, rejected, signer)
    \/ CloseLedger

Spec == Init /\ [][Next]_vars

-----------------------------------------------------------------------------
(***************************************************************************)
(* Queries other contracts make                                            *)
(***************************************************************************)

\* get_price: what it answers, an error or the entry.
GetPrice(f) ==
    IF config = NULL THEN "NotInitialized"
    ELSE IF config.heartbeat # 0 /\ ledger - config.heartbeat > HeartbeatExpiry
    THEN "StaleFeed"
    ELSE IF feeds[f] = NULL THEN "FeedNotFound" ELSE "Price"

\* is_price_stale: an error, or the Boolean as a string.
IsPriceStale(f, maxAge) ==
    IF config = NULL THEN "NotInitialized"
    ELSE IF feeds[f] = NULL THEN "FeedNotFound"
    ELSE IF ledger - feeds[f].time > maxAge THEN "true" ELSE "false"

\* What require_fresh_price of the marketplace learns from the two queries it
\* makes: CarbonMarketplace's oracleView.
MarketView(f, maxAge) ==
    IF circuit # "Active" THEN "Open"
    ELSE IF IsPriceStale(f, maxAge) = "true" THEN "Stale"
    ELSE IF IsPriceStale(f, maxAge) = "false" THEN "Fresh" ELSE "NoFeed"

-----------------------------------------------------------------------------
(***************************************************************************)
(* Properties                                                              *)
(***************************************************************************)

\* A submitted price that differs from the one it replaces by more than its
\* magnitude (and neither is at the end of i64, where differences saturate)
\* closes the feed to the marketplace at once: no step leads from a price to such
\* a jump with the breaker still Active, unless a reveal after its window does.
JumpQuarantined ==
    [][\A f \in Feed :
          (/\ feeds[f] # NULL /\ feeds'[f] # NULL
           /\ feeds[f].value # 0
           /\ Magnitude(feeds[f].value) < MaxI64
           /\ Magnitude(feeds'[f].value - feeds[f].value) > Magnitude(feeds[f].value)
           /\ commitments'[f] = commitments[f])
              => \A maxAge \in Time : MarketView(f, maxAge)' = "Open"]_vars

\* While the breaker is open, the only price that reaches a feed is one that was
\* committed, stood undisputed for the challenge window and is revealed as it
\* was committed.
OpenBreakerOnlyReveals ==
    [][\A f \in Feed :
          (circuit # "Active" /\ feeds'[f] # feeds[f])
              => /\ commitments[f] # NULL
                 /\ commitments[f].state = "ChallengeWindow"
                 /\ commitments'[f].state = "Revealed"
                 /\ commitments[f].hash = [value |-> feeds'[f].value, time |-> feeds'[f].time]
                 /\ ledger >= commitments[f].at + config.window]_vars

\* A verdict on a commitment is final: a disputed one never becomes Revealed and
\* a revealed one never Disputed; a later commit starts a new one in its ledger.
CommitmentFinal ==
    [][\A f \in Feed :
          (commitments[f] # NULL /\ commitments[f].state # "ChallengeWindow"
             /\ commitments'[f] # commitments[f])
              => commitments'[f].state = "ChallengeWindow" /\ commitments'[f].at = ledger]_vars

\* A feed that get_price refuses because the operator has gone silent is not
\* served again while the breaker is open: neither a heartbeat nor a revealed
\* price brings it back before the administrator resets the breaker.
SilentFeedStays ==
    [][\A f \in Feed :
          (GetPrice(f) = "StaleFeed" /\ circuit # "Active")
              => GetPrice(f)' = "StaleFeed"]_vars

=============================================================================
