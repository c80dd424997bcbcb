------------------------ MODULE CarbonOracle_proofs ------------------------
(***************************************************************************)
(* Theorems about the carbon oracle for every set of administrators, feeds *)
(* and keys, every range of i64 and every challenge window and heartbeat   *)
(* expiry.  Its type invariant is inductive; the action properties follow  *)
(* from it and from what the few steps that touch a feed, a commitment or  *)
(* the heartbeat do to them.                                               *)
(***************************************************************************)
EXTENDS CarbonOracle, CarbonTimelock, TLAPS

\* The quantities callers choose are integers.
LEMMA Numbers == /\ \A v \in Value : v \in Int
                 /\ \A t \in Time \cup {0} : t \in Int
                 /\ \A w \in Window : w \in Int
BY OracleAssumption

\* Time only moves forward.
LEMMA LedgerStep ==
    ASSUME TypeOK, [Next]_vars
    PROVE  ledger \in Int /\ ledger' \in Ledger /\ ledger' \in Int /\ ledger' >= ledger
<1>1. ledger' = ledger \/ (ledger < MaxLedger /\ ledger' = ledger + 1)
  BY DEF Next, vars, Initialize, SetChallengeWindow, RotateKey, TripCircuitBreaker,
     AdminPause, ResetCircuitBreaker, SetCircuitState, Heartbeat, SubmitPrice, CommitPrice,
     ChallengePrice, RevealPrice, SubmitAggregatedPrice, CloseLedger
<1>2. ledger \in 0 .. MaxLedger /\ MaxLedger \in Nat
  BY OracleAssumption, SorobanAssumption DEF TypeOK, Ledger
<1>3. QED
  BY <1>1, <1>2 DEF Ledger

\* Changing the state of a commitment changes nothing else of it.
LEMMA StateUpdate ==
    ASSUME NEW c \in PriceCommitment, NEW s \in {"ChallengeWindow", "Revealed", "Disputed"}
    PROVE  LET u == [c EXCEPT !.state = s]
           IN  /\ u \in PriceCommitment
               /\ u.hash = c.hash /\ u.at = c.at /\ u.state = s
BY DEF PriceCommitment

\* What a step does to the configuration: nothing, its initialisation, an update
\* by the administrator that keeps the heartbeat, or a heartbeat under an Active
\* breaker.
LEMMA ConfigStep ==
    ASSUME TypeOK, [Next]_vars
    PROVE  /\ config' \in Config \cup {NULL}
           /\ \/ config' = config
              \/ config = NULL
              \/ config' # NULL /\ config'.heartbeat = config.heartbeat
              \/ circuit = "Active"
<1> DEFINE Goal == /\ config' \in Config \cup {NULL}
                   /\ \/ config' = config
                      \/ config = NULL
                      \/ config' # NULL /\ config'.heartbeat = config.heartbeat
                      \/ circuit = "Active"
<1>0. config \in Config \cup {NULL}
  BY DEF TypeOK
<1>1. ASSUME NEW admin \in Admin, NEW key \in Key, NEW window \in Window,
             Initialize(admin, key, window)
      PROVE  Goal
  BY <1>1 DEF Initialize, Config
<1>2. ASSUME NEW caller \in Admin, NEW duration \in Window,
             SetChallengeWindow(caller, duration)
      PROVE  Goal
  <2>1. config \in Config /\ config' = [config EXCEPT !.window = duration]
    BY <1>0, <1>2 DEF SetChallengeWindow, IsAdmin
  <2>2. config' \in Config /\ config'.heartbeat = config.heartbeat
    BY <2>1 DEF Config
  <2>3. QED
    BY <2>2, NullIsNoEntry
<1>3. ASSUME NEW caller \in Admin, NEW key \in Key, RotateKey(caller, key)
      PROVE  Goal
  <2>1. config \in Config /\ config' = [config EXCEPT !.key = key]
    BY <1>0, <1>3 DEF RotateKey, IsAdmin
  <2>2. config' \in Config /\ config'.heartbeat = config.heartbeat
    BY <2>1 DEF Config
  <2>3. QED
    BY <2>2, NullIsNoEntry
<1>4. ASSUME NEW time \in Time, Heartbeat(time) PROVE Goal
  <2>1. config \in Config /\ config' = [config EXCEPT !.heartbeat = time]
    BY <1>0, <1>4 DEF Heartbeat, RequireActive
  <2>2. config' \in Config
    BY <2>1 DEF Config
  <2>3. QED
    BY <1>4, <2>2 DEF Heartbeat, RequireActive
<1>5. CASE UNCHANGED config
  BY <1>0, <1>5
<1>6. QED
  BY <1>1, <1>2, <1>3, <1>4, <1>5
  DEF Next, vars, TripCircuitBreaker, AdminPause, ResetCircuitBreaker, SetCircuitState,
      SubmitPrice, CommitPrice, ChallengePrice, RevealPrice, SubmitAggregatedPrice, CloseLedger

\* What a step does to the feeds and the commitments: neither changes, a signed
\* price is stored under an Active breaker, a commitment is made or disputed, or
\* one is revealed after its window.
LEMMA PriceStep ==
    ASSUME TypeOK, [Next]_vars
    PROVE  \/ UNCHANGED <<feeds, commitments>>
           \/ \E f \in Feed, value \in Value, time \in Time, signer \in Key :
                 SubmitPrice(f, value, time, signer)
           \/ \E f \in Feed, hash \in Preimage \cup {Junk} : CommitPrice(f, hash)
           \/ \E f \in Feed : ChallengePrice(f)
           \/ \E f \in Feed, value \in Value, time \in Time, signer \in Key :
                 RevealPrice(f, value, time, signer)
BY DEF Next, vars, Initialize, SetChallengeWindow, RotateKey, TripCircuitBreaker,
       AdminPause, ResetCircuitBreaker, SetCircuitState, Heartbeat, SubmitAggregatedPrice,
       CloseLedger

\* The entry a price leaves in its feed.
LEMMA NewEntry ==
    ASSUME TypeOK, NEW value \in Value, NEW time \in Time
    PROVE  LET e == [value |-> value, time |-> time, at |-> ledger]
           IN  e \in PriceEntry /\ e.value = value /\ e.time = time
BY DEF TypeOK, PriceEntry

\* Feeds stay well typed.
LEMMA FeedsTyped ==
    ASSUME TypeOK, [Next]_vars
    PROVE  feeds' \in [Feed -> PriceEntry \cup {NULL}]
<1>0. feeds \in [Feed -> PriceEntry \cup {NULL}]
  BY DEF TypeOK
<1>1. ASSUME NEW f \in Feed, NEW value \in Value, NEW time \in Time,
             feeds' = [feeds EXCEPT ![f] = [value |-> value, time |-> time, at |-> ledger]]
      PROVE  feeds' \in [Feed -> PriceEntry \cup {NULL}]
  <2> DEFINE e == [value |-> value, time |-> time, at |-> ledger]
  <2>1. e \in PriceEntry
    BY NewEntry
  <2> HIDE DEF e
  <2>2. feeds' = [feeds EXCEPT ![f] = e]
    BY <1>1 DEF e
  <2>3. QED
    BY <1>0, <2>1, <2>2
<1>2. CASE UNCHANGED feeds
  BY <1>0, <1>2
<1>3. QED
  BY <1>1, <1>2, PriceStep DEF SubmitPrice, CommitPrice, ChallengePrice, RevealPrice

\* What a step does to the commitment of one feed: nothing, a new one where none
\* is open, or the end of the open one.
LEMMA CommitmentStep ==
    ASSUME TypeOK, [Next]_vars, NEW f \in Feed
    PROVE  /\ commitments' \in [Feed -> PriceCommitment \cup {NULL}]
           /\ \/ commitments'[f] = commitments[f]
              \/ /\ commitments[f] # NULL => commitments[f].state # "ChallengeWindow"
                 /\ commitments'[f] \in PriceCommitment
                 /\ commitments'[f].state = "ChallengeWindow"
                 /\ commitments'[f].at = ledger
              \/ /\ commitments[f] \in PriceCommitment
                 /\ commitments[f].state = "ChallengeWindow"
                 /\ commitments'[f] \in PriceCommitment
                 /\ commitments'[f].state \in {"Disputed", "Revealed"}
<1> DEFINE Goal(g) ==
      \/ commitments'[g] = commitments[g]
      \/ /\ commitments[g] # NULL => commitments[g].state # "ChallengeWindow"
         /\ commitments'[g] \in PriceCommitment
         /\ commitments'[g].state = "ChallengeWindow"
         /\ commitments'[g].at = ledger
      \/ /\ commitments[g] \in PriceCommitment
         /\ commitments[g].state = "ChallengeWindow"
         /\ commitments'[g] \in PriceCommitment
         /\ commitments'[g].state \in {"Disputed", "Revealed"}
<1> DEFINE Typed == commitments' \in [Feed -> PriceCommitment \cup {NULL}]
<1>0. commitments \in [Feed -> PriceCommitment \cup {NULL}] /\ ledger \in Ledger
  BY DEF TypeOK
<1>1. ASSUME NEW g \in Feed, NEW hash \in Preimage \cup {Junk}, CommitPrice(g, hash)
      PROVE  Typed /\ Goal(f)
  <2> DEFINE c == [hash |-> hash, at |-> ledger, state |-> "ChallengeWindow"]
  <2>1. c \in PriceCommitment /\ c.state = "ChallengeWindow" /\ c.at = ledger
    BY <1>0 DEF PriceCommitment
  <2>2. /\ commitments' = [commitments EXCEPT ![g] = c]
        /\ commitments[g] # NULL => commitments[g].state # "ChallengeWindow"
    BY <1>1 DEF CommitPrice, CanCommit
  <2> HIDE DEF c
  <2>3. QED
    BY <1>0, <2>1, <2>2
<1>2. ASSUME NEW g \in Feed, NEW s \in {"Disputed", "Revealed"},
             commitments[g] # NULL, commitments[g].state = "ChallengeWindow",
             commitments' = [commitments EXCEPT ![g].state = s]
      PROVE  Typed /\ Goal(f)
  <2> DEFINE u == [commitments[g] EXCEPT !.state = s]
  <2>1. commitments[g] \in PriceCommitment
    BY <1>0, <1>2
  <2>2. u \in PriceCommitment /\ u.state = s
    BY <2>1, StateUpdate
  <2>3. commitments' = [commitments EXCEPT ![g] = u]
    BY <1>2
  <2> HIDE DEF u
  <2>4. QED
    BY <1>0, <1>2, <2>1, <2>2, <2>3
<1>3. CASE UNCHANGED commitments
  BY <1>0, <1>3
<1>4. QED
  BY <1>1, <1>2, <1>3, PriceStep DEF SubmitPrice, ChallengePrice, RevealPrice

\* Aggregated prices stay well typed: what is used is what was not rejected, and
\* the u32 subtraction cannot have gone below zero.
LEMMA AggregatedTyped ==
    ASSUME TypeOK, [Next]_vars
    PROVE  aggregated' \in [Feed -> AggregatedPriceEntry \cup {NULL}]
<1>0. aggregated \in [Feed -> AggregatedPriceEntry \cup {NULL}] /\ ledger \in Ledger
  BY DEF TypeOK
<1>1. ASSUME NEW f \in Feed, NEW value \in Value, NEW time \in Time,
             NEW sources \in Sources, NEW rejected \in Sources, NEW signer \in Key,
             SubmitAggregatedPrice(f, value, time, sources, rejected, signer)
      PROVE  aggregated' \in [Feed -> AggregatedPriceEntry \cup {NULL}]
  <2> DEFINE used == sources - rejected
             e == [value |-> value, used |-> used, rejected |-> rejected,
                   time |-> time, at |-> ledger]
  <2>1. sources \in Nat /\ rejected \in Nat
    BY OracleAssumption
  <2>2. used \in Nat
    BY <1>1, <2>1 DEF SubmitAggregatedPrice, SourcesAccepted
  <2> HIDE DEF used
  <2>3. e \in AggregatedPriceEntry
    BY <1>0, <2>1, <2>2 DEF AggregatedPriceEntry
  <2>4. aggregated' = [aggregated EXCEPT ![f] = e]
    BY <1>1 DEF SubmitAggregatedPrice, used
  <2> HIDE DEF e
  <2>5. QED
    BY <1>0, <2>3, <2>4
<1>2. CASE UNCHANGED aggregated
  BY <1>0, <1>2
<1>3. QED
  BY <1>1, <1>2 DEF Next, vars, Initialize, SetChallengeWindow, RotateKey,
     TripCircuitBreaker, AdminPause, ResetCircuitBreaker, SetCircuitState, Heartbeat,
     SubmitPrice, CommitPrice, ChallengePrice, RevealPrice, CloseLedger

\* Type correctness of the oracle contract.
THEOREM TypeCorrect == Spec => []TypeOK
<1>1. Init => TypeOK
  BY OracleAssumption, SorobanAssumption DEF Init, TypeOK, Ledger, CircuitBreakerState
<1>2. TypeOK /\ [Next]_vars => TypeOK'
  <2> SUFFICES ASSUME TypeOK, [Next]_vars PROVE TypeOK'
    OBVIOUS
  <2>1. config' \in Config \cup {NULL}
    BY ConfigStep
  <2>2. circuit' \in CircuitBreakerState
    BY DEF TypeOK, CircuitBreakerState, Next, vars, Initialize, SetChallengeWindow,
       RotateKey, TripCircuitBreaker, AdminPause, ResetCircuitBreaker, SetCircuitState,
       Heartbeat, SubmitPrice, CommitPrice, ChallengePrice, RevealPrice,
       SubmitAggregatedPrice, CloseLedger
  <2>3. commitments' \in [Feed -> PriceCommitment \cup {NULL}]
    <3>1. CASE Feed = {}
      BY <3>1, PriceStep DEF TypeOK
    <3>2. CASE Feed # {}
      BY <3>2, CommitmentStep
    <3>3. QED
      BY <3>1, <3>2
  <2>4. ledger' \in Ledger
    BY LedgerStep
  <2>5. QED
    BY <2>1, <2>2, <2>3, <2>4, FeedsTyped, AggregatedTyped DEF TypeOK
<1>3. QED
  BY <1>1, <1>2, PTL DEF Spec

-----------------------------------------------------------------------------
(***************************************************************************)
(* The breaker                                                             *)
(***************************************************************************)

\* Away from the end of i64, Deviates compares the true difference with the true
\* magnitude: saturation hides no jump.
LEMMA JumpDeviates ==
    ASSUME NEW old \in Value, NEW new \in Value, old # 0, Magnitude(old) < MaxI64,
           Magnitude(new - old) > Magnitude(old)
    PROVE  Deviates(old, new)
<1>1. old \in Int /\ new \in Int /\ MaxI64 \in Int
  BY OracleAssumption
<1>2. QED
  BY <1>1 DEF Deviates, Saturate, Magnitude

\* No step moves a feed by more than the magnitude of its price and leaves it
\* served to the marketplace, unless it is a reveal.
THEOREM JumpsAreQuarantined == Spec => JumpQuarantined
<1>1. TypeOK /\ [Next]_vars =>
        [\A f \in Feed :
          (/\ feeds[f] # NULL /\ feeds'[f] # NULL
           /\ feeds[f].value # 0
           /\ Magnitude(feeds[f].value) < MaxI64
           /\ Magnitude(feeds'[f].value - feeds[f].value) > Magnitude(feeds[f].value)
           /\ commitments'[f] = commitments[f])
              => \A maxAge \in Time : MarketView(f, maxAge)' = "Open"]_vars
  <2> SUFFICES ASSUME TypeOK, [Next]_vars, NEW f \in Feed,
                      feeds[f] # NULL, feeds'[f] # NULL, feeds[f].value # 0,
                      Magnitude(feeds[f].value) < MaxI64,
                      Magnitude(feeds'[f].value - feeds[f].value) > Magnitude(feeds[f].value),
                      commitments'[f] = commitments[f]
               PROVE  circuit' # "Active"
    BY DEF MarketView
  <2>0. /\ feeds \in [Feed -> PriceEntry \cup {NULL}]
        /\ commitments \in [Feed -> PriceCommitment \cup {NULL}]
    BY DEF TypeOK
  <2>1. feeds[f].value \in Value /\ feeds[f].value \in Int
    <3>1. feeds[f] \in PriceEntry
      BY <2>0
    <3>2. feeds[f].value \in Value
      BY <3>1 DEF PriceEntry
    <3>3. QED
      BY <3>2, Numbers
  <2>2. feeds'[f] # feeds[f]
    <3>1. SUFFICES ASSUME feeds'[f] = feeds[f] PROVE FALSE
      OBVIOUS
    <3>2. Magnitude(0) > Magnitude(feeds[f].value)
      BY <2>1, <3>1
    <3>3. QED
      BY <2>1, <3>2 DEF Magnitude
  <2>3. ASSUME NEW g \in Feed, NEW value \in Value, NEW time \in Time, NEW signer \in Key,
               SubmitPrice(g, value, time, signer)
        PROVE  circuit' # "Active"
    <3> DEFINE e == [value |-> value, time |-> time, at |-> ledger]
    <3>1. e \in PriceEntry /\ e.value = value
      BY NewEntry
    <3>2. feeds' = [feeds EXCEPT ![g] = e]
      BY <2>3 DEF SubmitPrice
    <3> HIDE DEF e
    <3>3. g = f /\ feeds'[f].value = value
      BY <2>0, <2>2, <3>1, <3>2
    <3>4. Deviates(feeds[f].value, value)
      BY <2>1, <3>3, JumpDeviates
    <3>5. QED
      BY <2>3, <3>3, <3>4 DEF SubmitPrice
  <2>4. ASSUME NEW g \in Feed, NEW value \in Value, NEW time \in Time, NEW signer \in Key,
               RevealPrice(g, value, time, signer)
        PROVE  FALSE
    <3> DEFINE u == [commitments[g] EXCEPT !.state = "Revealed"]
    <3>1. g = f
      BY <2>0, <2>2, <2>4 DEF RevealPrice
    <3>2. commitments[g] \in PriceCommitment /\ commitments[g].state = "ChallengeWindow"
      BY <2>0, <2>4 DEF RevealPrice
    <3>3. u.state = "Revealed"
      BY <3>2, StateUpdate
    <3>4. commitments' = [commitments EXCEPT ![g] = u]
      BY <2>4 DEF RevealPrice
    <3> HIDE DEF u
    <3>5. QED
      BY <2>0, <3>1, <3>2, <3>3, <3>4
  <2>5. QED
    BY <2>2, <2>3, <2>4, PriceStep DEF CommitPrice, ChallengePrice
<1>2. QED
  BY <1>1, TypeCorrect, PTL DEF Spec, JumpQuarantined

\* Behind an open breaker a feed moves only by the reveal of a commitment that
\* stood undisputed for the window, to the price that was committed.
THEOREM OnlyRevealsPassTheBreaker == Spec => OpenBreakerOnlyReveals
<1>1. TypeOK /\ [Next]_vars =>
        [\A f \in Feed :
          (circuit # "Active" /\ feeds'[f] # feeds[f])
              => /\ commitments[f] # NULL
                 /\ commitments[f].state = "ChallengeWindow"
                 /\ commitments'[f].state = "Revealed"
                 /\ commitments[f].hash = [value |-> feeds'[f].value, time |-> feeds'[f].time]
                 /\ ledger >= commitments[f].at + config.window]_vars
  <2> SUFFICES ASSUME TypeOK, [Next]_vars, NEW f \in Feed, circuit # "Active",
                      feeds'[f] # feeds[f]
               PROVE  /\ commitments[f] # NULL
                      /\ commitments[f].state = "ChallengeWindow"
                      /\ commitments'[f].state = "Revealed"
                      /\ commitments[f].hash = [value |-> feeds'[f].value,
                                                time |-> feeds'[f].time]
                      /\ ledger >= commitments[f].at + config.window
    OBVIOUS
  <2>0. /\ feeds \in [Feed -> PriceEntry \cup {NULL}]
        /\ commitments \in [Feed -> PriceCommitment \cup {NULL}]
        /\ config \in Config \cup {NULL} /\ ledger \in Int
    BY DEF TypeOK, Ledger
  <2>1. PICK g \in Feed, value \in Value, time \in Time, signer \in Key :
           RevealPrice(g, value, time, signer)
    BY PriceStep DEF SubmitPrice, RequireActive, CommitPrice, ChallengePrice
  <2> DEFINE u == [commitments[g] EXCEPT !.state = "Revealed"]
             e == [value |-> value, time |-> time, at |-> ledger]
  <2>2. g = f
    BY <2>0, <2>1 DEF RevealPrice
  <2>3. /\ commitments[g] \in PriceCommitment /\ commitments[g].state = "ChallengeWindow"
        /\ commitments[g].hash = [value |-> value, time |-> time]
        /\ config \in Config /\ ~WindowOpen(commitments[g])
    BY <2>0, <2>1 DEF RevealPrice
  <2>4. u.state = "Revealed" /\ e.value = value /\ e.time = time
    BY <2>3, StateUpdate
  <2>5. commitments' = [commitments EXCEPT ![g] = u] /\ feeds' = [feeds EXCEPT ![g] = e]
    BY <2>1 DEF RevealPrice
  <2>6. ledger >= commitments[g].at + config.window
    <3>1. commitments[g].at \in Int /\ config.window \in Window
      BY <2>3 DEF PriceCommitment, Ledger, Config
    <3>2. config.window \in Int
      BY <3>1, Numbers
    <3>3. QED
      BY <2>0, <2>3, <3>1, <3>2 DEF WindowOpen
  <2> HIDE DEF u, e
  <2>7. commitments'[f] = u /\ feeds'[f] = e
    BY <2>0, <2>2, <2>5
  <2>8. commitments[f] # NULL
    BY <2>2, <2>3, NullIsNoEntry
  <2>9. QED
    BY <2>2, <2>3, <2>4, <2>6, <2>7, <2>8
<1>2. QED
  BY <1>1, TypeCorrect, PTL DEF Spec, OpenBreakerOnlyReveals

-----------------------------------------------------------------------------
(***************************************************************************)
(* Commitments and heartbeats                                              *)
(***************************************************************************)

\* A disputed commitment is never revealed and a revealed one never disputed.
THEOREM CommitmentsAreFinal == Spec => CommitmentFinal
<1>1. TypeOK /\ [Next]_vars =>
        [\A f \in Feed :
          (commitments[f] # NULL /\ commitments[f].state # "ChallengeWindow"
             /\ commitments'[f] # commitments[f])
              => commitments'[f].state = "ChallengeWindow" /\ commitments'[f].at = ledger]_vars
  BY CommitmentStep
<1>2. QED
  BY <1>1, TypeCorrect, PTL DEF Spec, CommitmentFinal

\* A feed that has gone silent stays unserved while the breaker is open.
THEOREM SilenceIsKept == Spec => SilentFeedStays
<1>1. TypeOK /\ [Next]_vars =>
        [\A f \in Feed :
          (GetPrice(f) = "StaleFeed" /\ circuit # "Active")
              => GetPrice(f)' = "StaleFeed"]_vars
  <2> SUFFICES ASSUME TypeOK, [Next]_vars, NEW f \in Feed, GetPrice(f) = "StaleFeed",
                      circuit # "Active"
               PROVE  GetPrice(f)' = "StaleFeed"
    OBVIOUS
  <2>1. /\ config \in Config /\ config.heartbeat # 0
        /\ ledger - config.heartbeat > HeartbeatExpiry
    BY DEF GetPrice, TypeOK
  <2>2. config' # NULL /\ config'.heartbeat = config.heartbeat
    BY <2>1, ConfigStep, NullIsNoEntry
  <2>3. ledger \in Int /\ ledger' \in Int /\ ledger' >= ledger
    BY LedgerStep
  <2>4. config.heartbeat \in Int
    BY <2>1, Numbers DEF Config
  <2>5. ledger' - config'.heartbeat > HeartbeatExpiry
    BY <2>1, <2>2, <2>3, <2>4, OracleAssumption
  <2>6. QED
    BY <2>1, <2>2, <2>5 DEF GetPrice
<1>2. QED
  BY <1>1, TypeCorrect, PTL DEF Spec, SilentFeedStays

-----------------------------------------------------------------------------
(***************************************************************************)
(* The timelock (CarbonTimelock) that is to guard the rotation of the      *)
(* oracle's key and other administration, for every set of callers,        *)
(* identifiers and operation types, every table of minimum delays and      *)
(* every width of the ledger sequence.                                     *)
(***************************************************************************)

\* A sum that saturates is an unsigned number again, and at least the sum of
\* smaller terms unless it is the largest number.
LEMMA SaturatingAddFacts ==
    ASSUME NEW m \in Ledger, NEW n \in Ledger
    PROVE  /\ SaturatingAdd(m, n) \in Ledger
           /\ SaturatingAdd(m, n) >= m + n \/ SaturatingAdd(m, n) = MaxLedger
BY SorobanAssumption DEF SaturatingAdd, Ledger

\* Changing the status of an operation changes nothing else of it.
LEMMA StatusUpdate ==
    ASSUME NEW o \in TimelockOperation, NEW s \in {"Executed", "Cancelled"}
    PROVE  LET u == [o EXCEPT !.status = s]
           IN  /\ u \in TimelockOperation
               /\ u.params = o.params /\ u.proposedAt = o.proposedAt
               /\ u.opType = o.opType /\ u.executeAfter = o.executeAfter
               /\ u.status = s
BY DEF TimelockOperation

(***************************************************************************)
(* DelayEnforced speaks of the minimum delay, execute_operation compares   *)
(* the ledger with execute_after: Scheduled relates the two.               *)
(***************************************************************************)
Scheduled(o) == \/ o.executeAfter >= o.proposedAt + MinimumDelay[o.opType]
                \/ o.executeAfter = MaxLedger

LockInv ==
    /\ TimelockTypeOK
    /\ \A id \in OpId : ops[id] # NULL => Scheduled(ops[id])

\* What a step does to the table: nothing, a proposal under a free id that waits
\* for its delay, or the end of one pending operation.
LEMMA OpStep ==
    ASSUME TimelockTypeOK, [TimelockNext]_timelockVars
    PROVE  \/ UNCHANGED ops
           \/ \E id \in OpId, o \in TimelockOperation :
                 ops[id] = NULL /\ o.status = "Pending" /\ Scheduled(o)
                   /\ ops' = [ops EXCEPT ![id] = o]
           \/ \E id \in OpId, s \in {"Executed", "Cancelled"} :
                 /\ ops[id] # NULL
                 /\ ops[id].status = "Pending"
                 /\ ops' = [ops EXCEPT ![id] = [ops[id] EXCEPT !.status = s]]
                 /\ s = "Executed" => ledger >= ops[id].executeAfter
<1> DEFINE Goal ==
      \/ UNCHANGED ops
      \/ \E id \in OpId, o \in TimelockOperation :
            ops[id] = NULL /\ o.status = "Pending" /\ Scheduled(o)
              /\ ops' = [ops EXCEPT ![id] = o]
      \/ \E id \in OpId, s \in {"Executed", "Cancelled"} :
            /\ ops[id] # NULL
            /\ ops[id].status = "Pending"
            /\ ops' = [ops EXCEPT ![id] = [ops[id] EXCEPT !.status = s]]
            /\ s = "Executed" => ledger >= ops[id].executeAfter
<1>1. ASSUME NEW proposer \in Address, NEW id \in OpId, NEW type \in OperationType,
             NEW params \in Params, NEW delay \in Delay,
             ProposeOperation(proposer, id, type, params, delay)
      PROVE  Goal
  <2> DEFINE after == SaturatingAdd(ledger, delay)
             o == [opType |-> type, params |-> params, proposedAt |-> ledger,
                   executeAfter |-> after, proposer |-> proposer, status |-> "Pending"]
  <2>1. ledger \in Ledger /\ delay \in Ledger
    BY TimelockAssumption DEF TimelockTypeOK, Ledger
  <2>2. after \in Ledger /\ (after >= ledger + delay \/ after = MaxLedger)
    BY <2>1, SaturatingAddFacts
  <2> HIDE DEF after
  <2>3. o \in TimelockOperation
    BY <2>1, <2>2 DEF TimelockOperation
  <2>4. delay >= MinimumDelay[type] /\ MinimumDelay[type] \in Int
    BY <1>1, TimelockAssumption DEF ProposeOperation, DelayAccepted
  <2>5. after >= ledger + MinimumDelay[type] \/ after = MaxLedger
    BY <2>1, <2>2, <2>4, SorobanAssumption DEF Ledger
  <2>6. Scheduled(o)
    BY <2>5 DEF Scheduled
  <2>7. ops[id] = NULL /\ ops' = [ops EXCEPT ![id] = o]
    BY <1>1 DEF ProposeOperation, after
  <2>8. o.status = "Pending"
    OBVIOUS
  <2> HIDE DEF o
  <2>9. QED
    BY <2>3, <2>6, <2>7, <2>8
<1>2. ASSUME NEW executor \in Address, NEW id \in OpId, NEW params \in Params,
             ExecuteOperation(executor, id, params)
      PROVE  Goal
  BY <1>2 DEF ExecuteOperation, SetOpStatus
<1>3. ASSUME NEW canceller \in Address, NEW id \in OpId,
             CancelOperation(canceller, id)
      PROVE  Goal
  BY <1>3 DEF CancelOperation, SetOpStatus
<1>4. QED
  BY <1>1, <1>2, <1>3 DEF TimelockNext, InitializeTimelock, CloseTimelockLedger, timelockVars

\* Every step keeps types and schedules.
LEMMA LockInvStep ==
    ASSUME LockInv, [TimelockNext]_timelockVars
    PROVE  LockInv'
<1> USE DEF LockInv
<1>1. timelockConfig' \in TimelockConfig \cup {NULL} /\ ledger' \in Ledger
  BY SorobanAssumption DEF TimelockTypeOK, TimelockNext, timelockVars, InitializeTimelock,
     ProposeOperation, ExecuteOperation, CancelOperation, SetOpStatus,
     CloseTimelockLedger, TimelockConfig, Ledger
<1>2. /\ ops' \in [OpId -> TimelockOperation \cup {NULL}]
      /\ \A id \in OpId : ops'[id] # NULL => Scheduled(ops'[id])
  <2>0. ops \in [OpId -> TimelockOperation \cup {NULL}]
    BY DEF TimelockTypeOK
  <2>1. CASE UNCHANGED ops
    BY <2>0, <2>1
  <2>2. ASSUME NEW id \in OpId, NEW o \in TimelockOperation, Scheduled(o),
               ops' = [ops EXCEPT ![id] = o]
        PROVE  /\ ops' \in [OpId -> TimelockOperation \cup {NULL}]
               /\ \A k \in OpId : ops'[k] # NULL => Scheduled(ops'[k])
    BY <2>0, <2>2
  <2>3. ASSUME NEW id \in OpId, NEW s \in {"Executed", "Cancelled"}, ops[id] # NULL,
               ops' = [ops EXCEPT ![id] = [ops[id] EXCEPT !.status = s]]
        PROVE  /\ ops' \in [OpId -> TimelockOperation \cup {NULL}]
               /\ \A k \in OpId : ops'[k] # NULL => Scheduled(ops'[k])
    <3> DEFINE u == [ops[id] EXCEPT !.status = s]
    <3>1. ops[id] \in TimelockOperation
      BY <2>0, <2>3
    <3>2. /\ u \in TimelockOperation
          /\ u.proposedAt = ops[id].proposedAt
          /\ u.opType = ops[id].opType /\ u.executeAfter = ops[id].executeAfter
      BY <3>1, StatusUpdate
    <3>3. ops' = [ops EXCEPT ![id] = u]
      BY <2>3
    <3> HIDE DEF u
    <3>4. Scheduled(u)
      BY <2>3, <3>2 DEF Scheduled
    <3>5. QED
      BY <2>0, <3>2, <3>3, <3>4
  <2>4. QED
    BY <2>1, <2>2, <2>3, OpStep
<1>3. QED
  BY <1>1, <1>2 DEF TimelockTypeOK

\* The inductive invariant holds throughout.
LEMMA LockInvAlways == TimelockSpec => []LockInv
<1>1. TimelockInit => LockInv
  BY TimelockAssumption, SorobanAssumption DEF TimelockInit, LockInv, TimelockTypeOK, Ledger
<1>2. LockInv /\ [TimelockNext]_timelockVars => LockInv'
  BY LockInvStep
<1>3. QED
  BY <1>1, <1>2, PTL DEF TimelockSpec

\* Type correctness of the timelock.
THEOREM LockTypeCorrect == TimelockSpec => []TimelockTypeOK
<1>1. LockInv => TimelockTypeOK
  BY DEF LockInv
<1>2. QED
  BY <1>1, LockInvAlways, PTL

\* No operation is approved before the minimum delay of its type has passed
\* since the proposal (short of the end of the ledger sequence).
THEOREM NoEarlyExecution == TimelockSpec => DelayEnforced
<1>1. LockInv /\ [TimelockNext]_timelockVars =>
        [\A id \in OpId :
           (ops[id] # NULL /\ ops'[id].status = "Executed" /\ ops[id].status # "Executed")
              => \/ ledger >= ops[id].proposedAt + MinimumDelay[ops[id].opType]
                 \/ ledger = MaxLedger]_timelockVars
  <2> SUFFICES ASSUME LockInv, [TimelockNext]_timelockVars, NEW k \in OpId, ops[k] # NULL,
                      ops'[k].status = "Executed", ops[k].status # "Executed"
               PROVE  \/ ledger >= ops[k].proposedAt + MinimumDelay[ops[k].opType]
                      \/ ledger = MaxLedger
    OBVIOUS
  <2>0. /\ ops \in [OpId -> TimelockOperation \cup {NULL}]
        /\ ledger \in Ledger /\ TimelockTypeOK
    BY DEF LockInv, TimelockTypeOK
  <2>1. ledger >= ops[k].executeAfter
    <3>1. ASSUME NEW id \in OpId, NEW o \in TimelockOperation, ops[id] = NULL,
                 ops' = [ops EXCEPT ![id] = o]
          PROVE  ops'[k] = ops[k]
      BY <2>0, <3>1
    <3>2. ASSUME NEW id \in OpId, NEW s \in {"Executed", "Cancelled"}, ops[id] # NULL,
                 ops' = [ops EXCEPT ![id] = [ops[id] EXCEPT !.status = s]]
          PROVE  k = id /\ s = "Executed"
      <4> DEFINE u == [ops[id] EXCEPT !.status = s]
      <4>1. ops[id] \in TimelockOperation
        BY <2>0, <3>2
      <4>2. u.status = s
        BY <4>1, StatusUpdate
      <4>3. ops' = [ops EXCEPT ![id] = u]
        BY <3>2
      <4> HIDE DEF u
      <4>4. QED
        BY <2>0, <4>2, <4>3
    <3>3. QED
      BY <2>0, <3>1, <3>2, OpStep
  <2>2. ops[k] \in TimelockOperation /\ Scheduled(ops[k])
    BY <2>0 DEF LockInv
  <2>3. /\ ops[k].proposedAt \in Int /\ ops[k].executeAfter \in Int
        /\ MinimumDelay[ops[k].opType] \in Int
    BY <2>2, TimelockAssumption DEF TimelockOperation, Ledger
  <2>4. QED
    BY <2>0, <2>1, <2>2, <2>3, SorobanAssumption DEF Scheduled, Ledger
<1>2. QED
  BY <1>1, LockInvAlways, PTL DEF TimelockSpec, DelayEnforced

\* An identifier is used once and a verdict on it is final.
THEOREM VerdictFinal == TimelockSpec => OperationFinal
<1>1. LockInv /\ [TimelockNext]_timelockVars =>
        [\A id \in OpId : ops[id] # NULL =>
          /\ ops'[id] # NULL
          /\ ops'[id].params = ops[id].params
          /\ ops'[id].proposedAt = ops[id].proposedAt
          /\ ops[id].status # "Pending" => ops'[id] = ops[id]]_timelockVars
  <2> SUFFICES ASSUME LockInv, [TimelockNext]_timelockVars, NEW k \in OpId, ops[k] # NULL
               PROVE  /\ ops'[k] # NULL
                      /\ ops'[k].params = ops[k].params
                      /\ ops'[k].proposedAt = ops[k].proposedAt
                      /\ ops[k].status # "Pending" => ops'[k] = ops[k]
    OBVIOUS
  <2>0. ops \in [OpId -> TimelockOperation \cup {NULL}] /\ TimelockTypeOK
    BY DEF LockInv, TimelockTypeOK
  <2>1. ASSUME NEW id \in OpId, NEW o \in TimelockOperation, ops[id] = NULL,
               ops' = [ops EXCEPT ![id] = o]
        PROVE  ops'[k] = ops[k]
    BY <2>0, <2>1
  <2>2. ASSUME NEW id \in OpId, NEW s \in {"Executed", "Cancelled"}, ops[id] # NULL,
               ops[id].status = "Pending",
               ops' = [ops EXCEPT ![id] = [ops[id] EXCEPT !.status = s]]
        PROVE  /\ ops'[k] # NULL
               /\ ops'[k].params = ops[k].params
               /\ ops'[k].proposedAt = ops[k].proposedAt
               /\ ops[k].status # "Pending" => ops'[k] = ops[k]
    <3> DEFINE u == [ops[id] EXCEPT !.status = s]
    <3>1. ops[id] \in TimelockOperation
      BY <2>0, <2>2
    <3>2. /\ u \in TimelockOperation
          /\ u.params = ops[id].params /\ u.proposedAt = ops[id].proposedAt
      BY <3>1, StatusUpdate
    <3>3. u # NULL
      BY <3>2, NullIsNoOperation
    <3>4. ops' = [ops EXCEPT ![id] = u]
      BY <2>2
    <3> HIDE DEF u
    <3>5. QED
      BY <2>0, <2>2, <3>2, <3>3, <3>4
  <2>3. QED
    BY <2>0, <2>1, <2>2, OpStep
<1>2. QED
  BY <1>1, LockInvAlways, PTL DEF TimelockSpec, OperationFinal

=============================================================================
