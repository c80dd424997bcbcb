--------------------------- MODULE FeedResilience ---------------------------
(***************************************************************************)
(* oracle-bridge: market data feeds.  A long-lived service holds one       *)
(* adapter per feed (retry, degraded mode, fallback price); operators run  *)
(* replay-dlq, each run a process of its own.  They share the SQLite       *)
(* dead-letter queue, and nothing else survives a process.                 *)
(*                                                                         *)
(* A call of fetch is a sequence of attempts with sleeps between them, in  *)
(* which time passes and the other processes run.  What fetch does after   *)
(* its last attempt is one step: a process that dies on the way leaves the *)
(* queue as if it had died before or after it.  Payloads, error texts,     *)
(* counters and durations are left out.                                    *)
(***************************************************************************)
EXTENDS Integers, Sequences, FiniteSets

CONSTANTS
    Feed,           \* feed identifiers
    Live,           \* the feeds the service holds an adapter for
    Source,         \* what the venues quote: a product or a pool each
    SourceOf,       \* what the service's adapter of a feed asks for
    ReplaySource,   \* what replay-dlq asks for, by the feed's name alone
    Price,          \* prices the sources quote, in micro-units
    MaxRetries,     \* RetryConfig.max_retries
    Threshold,      \* degraded_mode_threshold
    Window,         \* staleness_window_seconds
    Cli,            \* processes that run replay-dlq
    Backlog,        \* queues that earlier processes may have left
    NULL,
    MaxTime,        \* bound: the clock
    MaxEntries,     \* bound: rows of the dead-letter queue
    MaxFailures,    \* bound: consecutive failures that are followed
    MaxCrashes      \* bound: processes killed

ASSUME FeedAssumption ==
    /\ Live \subseteq Feed /\ NULL \notin Source
    /\ SourceOf \in [Feed -> Source] /\ ReplaySource \in [Feed -> Source \cup {NULL}]
    /\ MaxRetries \in Nat /\ Threshold \in Nat /\ Window \in Nat
    /\ MaxTime \in Nat /\ MaxEntries \in Nat /\ MaxFailures \in Nat /\ MaxCrashes \in Nat
    /\ NULL \notin Price
    /\ NULL \notin [price : Price, at : 0 .. MaxTime]
    /\ NULL \notin [feed : Live, price : Price, at : 0 .. MaxTime, degraded : BOOLEAN]
    /\ \A q \in Backlog : q \in Seq([feed : Feed, replayed : BOOLEAN]) /\ Len(q) <= MaxEntries

(***************************************************************************)
(* replay-dlq builds an adapter from the feed's name and nothing else: of  *)
(* the class that the name matches, with that class's default product or   *)
(* pool.  So CBL-CFD is replayed from CBL-EUA, and NCT from BCT.           *)
(***************************************************************************)
Known == {f \in Feed : ReplaySource[f] # NULL}

VARIABLES
    now,        \* time.time()
    up,         \* which sources answer
    adapter,    \* DegradedModeState of the service's adapter of each feed
    gauge,      \* the service's oracle_degraded_mode metric
    dlq,        \* table dead_letter_queue, a row's id is its position
    fetching,   \* the service's call of fetch, or NULL
    run,        \* each replay-dlq process: its entries and its call of fetch
    crashes,
    served,     \* history: what the service's last call of fetch returned
    quoted,     \* history: the last quote of each source to the service
    raised      \* history: calls of fetch, ever, that ended with an exception

queueVars == <<dlq, raised>>
serviceVars == <<adapter, gauge, fetching, served, quoted>>
vars == <<now, up, crashes, adapter, gauge, fetching, served, quoted, dlq, raised, run>>

Time == 0 .. MaxTime
Id == 1 .. MaxEntries

Adapter == [failures : 0 .. MaxFailures, degraded : BOOLEAN,
            price : Price \cup {NULL}, goodAt : Time]

\* A call of fetch: entry is the row that replay_dlq_entry replays, else 0.
Call == [feed : Feed, entry : 0 .. MaxEntries, attempt : 0 .. MaxRetries]

Row == [feed : Feed, replayed : BOOLEAN]

\* A replay-dlq run: the entries still to visit, those it has announced as
\* replayed, and the call of fetch it is in.
Run == [todo : SUBSET Id, claimed : SUBSET Id, call : Call \cup {NULL}]

Result == [feed : Live, price : Price, at : Time, degraded : BOOLEAN]

TypeOK ==
    /\ now \in Time
    /\ up \in [Source -> BOOLEAN]
    /\ adapter \in [Live -> Adapter]
    /\ gauge \in [Live -> BOOLEAN]
    /\ dlq \in Seq(Row) /\ Len(dlq) <= MaxEntries
    /\ fetching \in {c \in Call : c.feed \in Live} \cup {NULL}
    /\ run \in [Cli -> Run \cup {NULL}]
    /\ crashes \in 0 .. MaxCrashes
    /\ served \in Result \cup {NULL}
    /\ quoted \in [Live -> [price : Price, at : Time] \cup {NULL}]
    /\ raised \in Nat

-----------------------------------------------------------------------------
(***************************************************************************)
(* DegradedModeState                                                       *)
(***************************************************************************)

FreshAdapter == [failures |-> 0, degraded |-> FALSE, price |-> NULL, goodAt |-> 0]

\* Mutant: the age of the last good price is not looked at.
LastKnownGoodPriceAnyAge(a) == a.price

LastKnownGoodPrice(a) ==
    IF a.price = NULL \/ now - a.goodAt > Window THEN NULL ELSE a.price

RecordSuccess(a, p) == [failures |-> 0, degraded |-> FALSE, price |-> p, goodAt |-> now]

RecordFailure(a) ==
    [failures |-> a.failures + 1,
     degraded |-> a.degraded \/ a.failures + 1 >= Threshold,
     price    |-> a.price,
     goodAt   |-> a.goodAt]

ExitDegradedState(a) ==
    [failures |-> 0, degraded |-> FALSE, price |-> a.price, goodAt |-> a.goodAt]

\* What fetch falls back to after the failure it has just recorded.
Fallback(a) ==
    IF RecordFailure(a).degraded THEN LastKnownGoodPrice(RecordFailure(a)) ELSE NULL

-----------------------------------------------------------------------------
(***************************************************************************)
(* DeadLetterQueue                                                         *)
(***************************************************************************)

Unreplayed == {i \in DOMAIN dlq : ~dlq[i].replayed}

Enqueue(f) ==
    /\ Len(dlq) < MaxEntries
    /\ dlq' = Append(dlq, [feed |-> f, replayed |-> FALSE])

\* replay_dlq_entry after a fetch that returned; a plain fetch marks nothing.
MarkReplayed(i) ==
    dlq' = IF i = 0 THEN dlq
           ELSE [dlq EXCEPT ![i] = [feed |-> dlq[i].feed, replayed |-> TRUE]]

-----------------------------------------------------------------------------
(***************************************************************************)
(* The service: fetch and replay_dlq_entry on its long-lived adapters      *)
(***************************************************************************)

StartFetch(f) ==
    /\ fetching = NULL
    /\ fetching' = [feed |-> f, entry |-> 0, attempt |-> 0]
    /\ served' = NULL
    /\ UNCHANGED <<now, up, crashes, adapter, gauge, quoted, queueVars, run>>

\* The entry is looked up among the unreplayed ones before fetch is called.
\* replay_dlq_entry does not compare the feeds: the caller is taken to ask the
\* adapter of the entry's feed.
StartReplay(i) ==
    /\ fetching = NULL
    /\ i \in Unreplayed
    /\ dlq[i].feed \in Live
    /\ fetching' = [feed |-> dlq[i].feed, entry |-> i, attempt |-> 0]
    /\ served' = NULL
    /\ UNCHANGED <<now, up, crashes, adapter, gauge, quoted, queueVars, run>>

\* The next attempt of a call that has retries left.
Retried(c) == [feed |-> c.feed, entry |-> c.entry, attempt |-> c.attempt + 1]

\* _fetch_price raises and retry sleeps.
FetchRetry ==
    /\ fetching # NULL
    /\ ~up[SourceOf[fetching.feed]]
    /\ fetching.attempt < MaxRetries
    /\ fetching' = Retried(fetching)
    /\ UNCHANGED <<now, up, crashes, adapter, gauge, served, quoted, queueVars, run>>

FetchSucceeds(p) ==
    /\ fetching # NULL
    /\ LET f == fetching.feed
       IN  /\ up[SourceOf[f]]
           /\ adapter' = [adapter EXCEPT ![f] = RecordSuccess(@, p)]
           /\ gauge' = [gauge EXCEPT ![f] = FALSE]
           /\ served' = [feed |-> f, price |-> p, at |-> now, degraded |-> FALSE]
           /\ quoted' = [quoted EXCEPT ![f] = [price |-> p, at |-> now]]
    /\ MarkReplayed(fetching.entry)
    /\ fetching' = NULL
    /\ UNCHANGED <<now, up, crashes, raised, run>>

\* The last attempt of call c at source s fails.
Exhausted(c, s) == ~up[s] /\ c.attempt = MaxRetries

\* Mutant: the gauge is set before the failure is recorded.
FetchFailureGaugeFirst(f) ==
    /\ adapter[f].failures < MaxFailures
    /\ adapter' = [adapter EXCEPT ![f] = RecordFailure(@)]
    /\ gauge' = [gauge EXCEPT ![f] = adapter[f].degraded]

\* The common part of fetch's exception handler.
FetchFailure(f) ==
    /\ adapter[f].failures < MaxFailures
    /\ adapter' = [adapter EXCEPT ![f] = RecordFailure(@)]
    /\ gauge' = [gauge EXCEPT ![f] = RecordFailure(adapter[f]).degraded]

\* Degraded mode: the last good price, stamped with the present time, is the
\* result, and a replay counts it as an answer.  Nothing is queued.
FetchFallsBack ==
    /\ fetching # NULL
    /\ Exhausted(fetching, SourceOf[fetching.feed])
    /\ LET f == fetching.feed
       IN  /\ Fallback(adapter[f]) # NULL
           /\ FetchFailure(f)
           /\ served' = [feed |-> f, price |-> Fallback(adapter[f]), at |-> now,
                         degraded |-> TRUE]
    /\ MarkReplayed(fetching.entry)
    /\ fetching' = NULL
    /\ UNCHANGED <<now, up, crashes, quoted, raised, run>>

\* Mutant: fetch gives up without an entry in the queue.
FetchRaisesUnrecorded ==
    /\ fetching # NULL
    /\ Exhausted(fetching, SourceOf[fetching.feed])
    /\ Fallback(adapter[fetching.feed]) = NULL
    /\ FetchFailure(fetching.feed)
    /\ raised' = raised + 1
    /\ fetching' = NULL
    /\ UNCHANGED <<now, up, crashes, served, quoted, dlq, run>>

\* No usable fallback: the failure is queued and raised (replay_dlq_entry
\* catches it and answers False).
FetchRaises ==
    /\ fetching # NULL
    /\ Exhausted(fetching, SourceOf[fetching.feed])
    /\ Fallback(adapter[fetching.feed]) = NULL
    /\ FetchFailure(fetching.feed)
    /\ Enqueue(fetching.feed)
    /\ raised' = raised + 1
    /\ fetching' = NULL
    /\ UNCHANGED <<now, up, crashes, served, quoted, run>>

\* An operator leaves degraded mode by hand; the gauge is not touched.
ExitDegraded(f) ==
    /\ adapter[f].degraded
    /\ adapter' = [adapter EXCEPT ![f] = ExitDegradedState(@)]
    /\ UNCHANGED <<now, up, crashes, gauge, fetching, served, quoted, queueVars, run>>

\* The service is killed and started again with new adapters.
ServiceCrash ==
    /\ crashes < MaxCrashes
    /\ crashes' = crashes + 1
    /\ adapter' = [f \in Live |-> FreshAdapter]
    /\ gauge' = [f \in Live |-> FALSE]
    /\ fetching' = NULL
    /\ served' = NULL
    /\ UNCHANGED <<now, up, quoted, queueVars, run>>

-----------------------------------------------------------------------------
(***************************************************************************)
(* replay-dlq: every entry gets an adapter of its own, with no last good   *)
(* price, so a failed fetch never falls back, and with the source that the *)
(* feed's name gives                                                       *)
(***************************************************************************)

\* list_unreplayed, all of it or the entry that --id names.  An empty list
\* ends the command, and so does --dry-run: nothing changes.
StartRun(c, ids) ==
    /\ run[c] = NULL
    /\ ids # {}
    /\ run' = [run EXCEPT ![c] = [todo |-> ids, claimed |-> {}, call |-> NULL]]
    /\ UNCHANGED <<now, up, crashes, serviceVars, queueVars>>

StartReplayAll(c) == StartRun(c, Unreplayed)
StartReplayOne(c) == \E i \in Unreplayed : StartRun(c, {i})

\* The entry the loop has reached: the list is ordered by creation.
Reached(c, i) ==
    /\ run[c] # NULL
    /\ run[c].call = NULL
    /\ i \in run[c].todo
    /\ \A j \in run[c].todo : i <= j

\* No adapter for the name of the feed: the entry is passed over.
SkipUnknown(c) ==
    /\ \E i \in Id :
          /\ Reached(c, i)
          /\ dlq[i].feed \notin Known
          /\ run' = [run EXCEPT ![c] = [todo |-> @.todo \ {i}, claimed |-> @.claimed,
                                        call |-> NULL]]
    /\ UNCHANGED <<now, up, crashes, serviceVars, queueVars>>

\* The loop goes on after replay_dlq_entry has returned; whether it returned
\* True or False is not looked at.
Claim(r, i) == [todo |-> r.todo \ {i}, claimed |-> r.claimed \cup {i}, call |-> NULL]

\* Another process has replayed the entry meanwhile: False at once.
ReplayGone(c) ==
    /\ \E i \in Id :
          /\ Reached(c, i)
          /\ dlq[i].feed \in Known
          /\ dlq[i].replayed
          /\ run' = [run EXCEPT ![c] = Claim(@, i)]
    /\ UNCHANGED <<now, up, crashes, serviceVars, queueVars>>

ReplayEntry(c) ==
    /\ \E i \in Id :
          /\ Reached(c, i)
          /\ dlq[i].feed \in Known
          /\ ~dlq[i].replayed
          /\ run' = [run EXCEPT ![c] =
                        [todo |-> @.todo, claimed |-> @.claimed,
                         call |-> [feed |-> dlq[i].feed, entry |-> i, attempt |-> 0]]]
    /\ UNCHANGED <<now, up, crashes, serviceVars, queueVars>>

InCall(c) == run[c] # NULL /\ run[c].call # NULL

ReplayRetry(c) ==
    /\ InCall(c)
    /\ ~up[ReplaySource[run[c].call.feed]]
    /\ run[c].call.attempt < MaxRetries
    /\ run' = [run EXCEPT ![c] = [todo |-> @.todo, claimed |-> @.claimed,
                                  call |-> Retried(@.call)]]
    /\ UNCHANGED <<now, up, crashes, serviceVars, queueVars>>

\* Mutant: the entry is not marked after its fetch.
ReplaySucceedsUnmarked(c) ==
    /\ InCall(c)
    /\ up[ReplaySource[run[c].call.feed]]
    /\ run' = [run EXCEPT ![c] = Claim(@, @.call.entry)]
    /\ UNCHANGED <<now, up, crashes, serviceVars, dlq, raised>>

\* The price that was fetched is dropped; only the mark remains.
ReplaySucceeds(c) ==
    /\ InCall(c)
    /\ up[ReplaySource[run[c].call.feed]]
    /\ MarkReplayed(run[c].call.entry)
    /\ run' = [run EXCEPT ![c] = Claim(@, @.call.entry)]
    /\ UNCHANGED <<now, up, crashes, serviceVars, raised>>

\* Mutant: an entry is marked whether or not its fetch returned.
ReplayFailsMarked(c) ==
    /\ InCall(c)
    /\ Exhausted(run[c].call, ReplaySource[run[c].call.feed])
    /\ Len(dlq) < MaxEntries
    /\ dlq' = Append([dlq EXCEPT ![run[c].call.entry] =
                          [feed |-> dlq[run[c].call.entry].feed, replayed |-> TRUE]],
                     [feed |-> run[c].call.feed, replayed |-> FALSE])
    /\ raised' = raised + 1
    /\ run' = [run EXCEPT ![c] = Claim(@, @.call.entry)]
    /\ UNCHANGED <<now, up, crashes, serviceVars>>

\* The failed fetch queues the failure a second time; the entry stays.
ReplayFails(c) ==
    /\ InCall(c)
    /\ Exhausted(run[c].call, ReplaySource[run[c].call.feed])
    /\ Enqueue(run[c].call.feed)
    /\ raised' = raised + 1
    /\ run' = [run EXCEPT ![c] = Claim(@, @.call.entry)]
    /\ UNCHANGED <<now, up, crashes, serviceVars>>

EndRun(c) ==
    /\ run[c] # NULL
    /\ run[c].todo = {}
    /\ run' = [run EXCEPT ![c] = NULL]
    /\ UNCHANGED <<now, up, crashes, serviceVars, queueVars>>

KillRun(c) ==
    /\ run[c] # NULL
    /\ crashes < MaxCrashes
    /\ crashes' = crashes + 1
    /\ run' = [run EXCEPT ![c] = NULL]
    /\ UNCHANGED <<now, up, serviceVars, queueVars>>

-----------------------------------------------------------------------------
(***************************************************************************)
(* Environment                                                             *)
(***************************************************************************)

Tick ==
    /\ now < MaxTime
    /\ now' = now + 1
    /\ UNCHANGED <<up, crashes, serviceVars, queueVars, run>>

\* An outage starts or ends: HTTP errors, timeouts and malformed bodies.
Outage(s) ==
    /\ up' = [up EXCEPT ![s] = ~@]
    /\ UNCHANGED <<now, crashes, serviceVars, queueVars, run>>

Init ==
    /\ now = 0
    /\ up = [s \in Source |-> TRUE]
    /\ crashes = 0
    /\ adapter = [f \in Live |-> FreshAdapter]
    /\ gauge = [f \in Live |-> FALSE]
    /\ fetching = NULL
    /\ served = NULL
    /\ quoted = [f \in Live |-> NULL]
    /\ dlq \in Backlog
    /\ raised = Len(dlq)
    /\ run = [c \in Cli |-> NULL]

Service ==
    \/ \E f \in Live : StartFetch(f) \/ ExitDegraded(f)
    \/ \E i \in Id : StartReplay(i)
    \/ FetchRetry
    \/ \E p \in Price : FetchSucceeds(p)
    \/ FetchFallsBack
    \/ FetchRaises
    \/ ServiceCrash

\* What a replay-dlq process does once it has its list.
RunStep(c) ==
    \/ SkipUnknown(c)
    \/ ReplayGone(c)
    \/ ReplayEntry(c)
    \/ ReplayRetry(c)
    \/ ReplaySucceeds(c)
    \/ ReplayFails(c)
    \/ EndRun(c)

Operator(c) == StartReplayAll(c) \/ StartReplayOne(c) \/ RunStep(c) \/ KillRun(c)

Next ==
    \/ Service
    \/ \E c \in Cli : Operator(c)
    \/ Tick
    \/ \E s \in Source : Outage(s)

\* A run that was started goes on, and an operator runs replay-dlq without
\* --id again and again.
Fairness == \A c \in Cli : WF_vars(RunStep(c)) /\ SF_vars(StartReplayAll(c))

Spec == Init /\ [][Next]_vars /\ Fairness

-----------------------------------------------------------------------------
(***************************************************************************)
(* Properties                                                              *)
(***************************************************************************)

\* What the service's fetch returns is what the source of that feed quoted to
\* it at most a staleness window before, also when retries have slept, the
\* service was restarted or degraded mode was left by hand in between, and it
\* is a current quote unless it is flagged degraded.
ServedPriceRecent ==
    served # NULL =>
        /\ quoted[served.feed] # NULL
        /\ served.price = quoted[served.feed].price
        /\ served.at - quoted[served.feed].at <= Window
        /\ ~served.degraded => served.at = quoted[served.feed].at

\* Every call of fetch that raised, of the service or of a replay, has left one
\* entry in the queue, and no other call has.
EveryRaiseQueued == raised = Len(dlq)

\* A feed in degraded mode shows on the gauge that the alerts watch (a gauge
\* may stay up after an operator has left degraded mode).
DegradedIsVisible == \A f \in Live : adapter[f].degraded => gauge[f]

\* A call of fetch that replays entry i ends with a price: the service's with one
\* for the entry's feed, that of replay-dlq with one of whatever it asks for.
AnswersEntry(i) ==
    \/ /\ fetching # NULL /\ fetching' = NULL
       /\ fetching.entry = i
       /\ served' # NULL /\ served'.feed = fetching.feed /\ served'.at = now
    \/ \E c \in Cli : InCall(c) /\ run[c].call.entry = i /\ up[ReplaySource[dlq[i].feed]]

\* An entry of the dead-letter queue is never dropped, changed or reopened,
\* and only a replay whose fetch returned a price marks it as replayed.  In
\* replay-dlq that price need not be the feed's: an entry of CBL-CFD or NCT is
\* settled when the default product or pool answers, and stays when it does not,
\* whatever the feed's own source does (and though its replay is announced as a
\* success either way).
SettledByAnswerOnly ==
    [][\A i \in DOMAIN dlq :
          /\ i \in DOMAIN dlq'
          /\ dlq'[i].feed = dlq[i].feed
          /\ dlq[i].replayed => dlq'[i].replayed
          /\ dlq'[i].replayed => dlq[i].replayed \/ AnswersEntry(i)]_vars

\* When the sources answer again for good, repeated replays settle every entry
\* of a feed that replay-dlq knows, the ones that failed replays added too.
QueueDrains ==
    <>[](\A s \in Source : up[s]) =>
        <>[](\A i \in DOMAIN dlq : dlq[i].feed \in Known => dlq[i].replayed)

\* What replay-dlq announces ("Entry ... replayed successfully") is so.
ReplayReportTrue ==
    \A c \in Cli : run[c] # NULL => \A i \in run[c].claimed : dlq[i].replayed

=============================================================================
