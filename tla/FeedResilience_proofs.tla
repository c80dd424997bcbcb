------------------------ MODULE FeedResilience_proofs ------------------------
(***************************************************************************)
(* Proofs about FeedResilience, for any feeds, retry and degraded-mode     *)
(* settings, number of replay-dlq processes and backlog.                   *)
(***************************************************************************)
EXTENDS FeedResilience, SequenceTheorems, TLAPS

\* The helpers of DegradedModeState return adapters and prices.
LEMMA AdapterTypes ==
    ASSUME TypeOK, NEW f \in Live
    PROVE  /\ adapter[f] \in Adapter
           /\ FreshAdapter \in Adapter
           /\ \A p \in Price : RecordSuccess(adapter[f], p) \in Adapter
           /\ ExitDegradedState(adapter[f]) \in Adapter
           /\ adapter[f].failures < MaxFailures => RecordFailure(adapter[f]) \in Adapter
           /\ Fallback(adapter[f]) \in Price \cup {NULL}
  BY FeedAssumption DEF TypeOK, Adapter, Time, FreshAdapter, RecordSuccess, ExitDegradedState,
     RecordFailure, LastKnownGoodPrice, Fallback

-----------------------------------------------------------------------------
(***************************************************************************)
(* The inductive invariant                                                 *)
(***************************************************************************)

\* A call on behalf of an entry is for a row that exists and for its feed.
CallMatches(c) == c.entry # 0 => c.entry \in DOMAIN dlq /\ dlq[c.entry].feed = c.feed

\* Calls and to-do lists only name rows of the queue.
CallsMatch ==
    /\ fetching # NULL => CallMatches(fetching)
    /\ \A c \in Cli : run[c] # NULL =>
          /\ run[c].todo \subseteq DOMAIN dlq
          /\ run[c].call # NULL => run[c].call.entry # 0 /\ CallMatches(run[c].call)

\* The last good price of an adapter is the last quote of its source.
PriceIsQuote ==
    \A f \in Live : adapter[f].price # NULL =>
        /\ quoted[f] # NULL
        /\ quoted[f].price = adapter[f].price
        /\ quoted[f].at = adapter[f].goodAt

IInv ==
    /\ TypeOK
    /\ CallsMatch
    /\ PriceIsQuote
    /\ ServedPriceRecent
    /\ EveryRaiseQueued
    /\ DegradedIsVisible

LEMMA InitIInv == Init => IInv
<1> SUFFICES ASSUME Init PROVE IInv OBVIOUS
<1> USE FeedAssumption
<1>1. dlq \in Seq(Row) /\ Len(dlq) <= MaxEntries BY DEF Init, Row
<1>2. TypeOK
  <2>1. FreshAdapter \in Adapter BY DEF FreshAdapter, Adapter, Time
  <2>2. QED BY <1>1, <2>1, LenProperties DEF Init, TypeOK, Time
<1>3. CallsMatch BY DEF Init, CallsMatch
<1>4. PriceIsQuote BY DEF Init, PriceIsQuote, FreshAdapter
<1>5. ServedPriceRecent /\ EveryRaiseQueued /\ DegradedIsVisible
  BY DEF Init, ServedPriceRecent, EveryRaiseQueued, DegradedIsVisible, FreshAdapter
<1>6. QED BY <1>2, <1>3, <1>4, <1>5 DEF IInv

\* Marking an entry keeps the rows, their number and their feeds.
LEMMA Marking ==
    ASSUME TypeOK, NEW i, MarkReplayed(i), i = 0 \/ i \in DOMAIN dlq
    PROVE  /\ dlq' \in Seq(Row) /\ Len(dlq') = Len(dlq)
           /\ DOMAIN dlq' = DOMAIN dlq
           /\ \A j \in DOMAIN dlq :
                 /\ dlq'[j].feed = dlq[j].feed
                 /\ dlq[j].replayed => dlq'[j].replayed
                 /\ dlq'[j].replayed => dlq[j].replayed \/ j = i
<1>0. dlq \in Seq(Row) /\ Len(dlq) \in Nat /\ DOMAIN dlq = 1 .. Len(dlq)
  BY LenProperties DEF TypeOK
<1>1. CASE i = 0 BY <1>0, <1>1 DEF MarkReplayed
<1>2. CASE i # 0
  <2> DEFINE row == [feed |-> dlq[i].feed, replayed |-> TRUE]
  <2>1. i \in 1 .. Len(dlq) /\ dlq[i] \in Row BY <1>0, <1>2
  <2>2. row \in Row BY <2>1 DEF Row
  <2>3. dlq' = [dlq EXCEPT ![i] = row] BY <1>2 DEF MarkReplayed
  <2>4. row.feed = dlq[i].feed /\ row.replayed = TRUE OBVIOUS
  <2> HIDE DEF row
  <2>5. dlq' \in Seq(Row) /\ Len(dlq') = Len(dlq) BY <1>0, <2>1, <2>2, <2>3, ExceptSeq
  <2>6. \A j \in DOMAIN dlq : dlq'[j] = IF j = i THEN row ELSE dlq[j] BY <2>3
  <2>7. DOMAIN dlq' = DOMAIN dlq BY <2>3
  <2>8. QED BY <2>4, <2>5, <2>6, <2>7
<1>3. QED BY <1>1, <1>2

\* Queueing a failure adds one row and keeps the others.
LEMMA Queueing ==
    ASSUME TypeOK, NEW f \in Feed, Enqueue(f)
    PROVE  /\ dlq' \in Seq(Row) /\ Len(dlq') = Len(dlq) + 1 /\ Len(dlq') <= MaxEntries
           /\ DOMAIN dlq \subseteq DOMAIN dlq'
           /\ \A j \in DOMAIN dlq : dlq'[j] = dlq[j]
<1>1. dlq \in Seq(Row) /\ Len(dlq) \in Nat /\ DOMAIN dlq = 1 .. Len(dlq)
  BY LenProperties DEF TypeOK
<1>2. [feed |-> f, replayed |-> FALSE] \in Row BY DEF Row
<1> HIDE DEF Row
<1>3. Len(dlq) < MaxEntries /\ dlq' = Append(dlq, [feed |-> f, replayed |-> FALSE])
  BY DEF Enqueue
<1> DEFINE r == [feed |-> f, replayed |-> FALSE]
<1> HIDE DEF r
<1>4. dlq' = Append(dlq, r) /\ r \in Row BY <1>2, <1>3 DEF r
<1>5. QED BY <1>1, <1>3, <1>4, AppendProperties, FeedAssumption

-----------------------------------------------------------------------------
(***************************************************************************)
(* The steps of the service                                                *)
(***************************************************************************)

\* CallsMatch survives a step that keeps the rows and their feeds, that starts
\* no call and that leaves the runs alone.
LEMMA CallsMatchKept ==
    ASSUME CallsMatch, UNCHANGED run, fetching' \in {fetching, NULL},
           DOMAIN dlq \subseteq DOMAIN dlq',
           \A j \in DOMAIN dlq : dlq'[j].feed = dlq[j].feed
    PROVE  CallsMatch'
  BY DEF CallsMatch, CallMatches

LEMMA StartFetchStep == ASSUME IInv, NEW f \in Live, StartFetch(f) PROVE IInv'
<1> USE FeedAssumption
<1>1. TypeOK' BY DEF IInv, TypeOK, StartFetch, Call, queueVars
<1>2. CallsMatch' BY DEF IInv, CallsMatch, CallMatches, StartFetch, queueVars
<1>3. PriceIsQuote' /\ ServedPriceRecent' /\ EveryRaiseQueued' /\ DegradedIsVisible'
  BY DEF IInv, PriceIsQuote, ServedPriceRecent, EveryRaiseQueued, DegradedIsVisible,
     StartFetch, queueVars
<1>4. QED BY <1>1, <1>2, <1>3 DEF IInv

LEMMA StartReplayStep == ASSUME IInv, NEW i \in Id, StartReplay(i) PROVE IInv'
<1> USE FeedAssumption
<1>1. TypeOK' BY DEF IInv, TypeOK, StartReplay, Call, Id, queueVars
<1>2. CallsMatch' BY DEF IInv, CallsMatch, CallMatches, StartReplay, Unreplayed, queueVars
<1>3. PriceIsQuote' /\ ServedPriceRecent' /\ EveryRaiseQueued' /\ DegradedIsVisible'
  BY DEF IInv, PriceIsQuote, ServedPriceRecent, EveryRaiseQueued, DegradedIsVisible,
     StartReplay, queueVars
<1>4. QED BY <1>1, <1>2, <1>3 DEF IInv

LEMMA FetchRetryStep == ASSUME IInv, FetchRetry PROVE IInv'
<1> USE FeedAssumption
<1>1. TypeOK' BY DEF IInv, TypeOK, FetchRetry, Retried, Call, queueVars
<1>2. CallsMatch' BY DEF IInv, CallsMatch, CallMatches, FetchRetry, Retried, queueVars
<1>3. PriceIsQuote' /\ ServedPriceRecent' /\ EveryRaiseQueued' /\ DegradedIsVisible'
  BY DEF IInv, PriceIsQuote, ServedPriceRecent, EveryRaiseQueued, DegradedIsVisible,
     FetchRetry, queueVars
<1>4. QED BY <1>1, <1>2, <1>3 DEF IInv

LEMMA FetchSucceedsStep == ASSUME IInv, NEW p \in Price, FetchSucceeds(p) PROVE IInv'
<1> USE FeedAssumption
<1> DEFINE f == fetching.feed
           q == [price |-> p, at |-> now]
           res == [feed |-> f, price |-> p, at |-> now, degraded |-> FALSE]
<1>1. /\ TypeOK /\ CallsMatch /\ PriceIsQuote /\ ServedPriceRecent
      /\ EveryRaiseQueued /\ DegradedIsVisible
  BY DEF IInv
<1>2. f \in Live /\ fetching # NULL /\ now \in Time BY <1>1 DEF FetchSucceeds, TypeOK
<1>3. /\ adapter' = [adapter EXCEPT ![f] = RecordSuccess(adapter[f], p)]
      /\ gauge' = [gauge EXCEPT ![f] = FALSE]
      /\ served' = res
      /\ quoted' = [quoted EXCEPT ![f] = q]
      /\ MarkReplayed(fetching.entry) /\ fetching' = NULL
      /\ UNCHANGED <<now, up, crashes, raised, run>>
  BY DEF FetchSucceeds
<1>4. fetching.entry = 0 \/ fetching.entry \in DOMAIN dlq
  BY <1>1, <1>2 DEF CallsMatch, CallMatches
<1>5. /\ dlq' \in Seq(Row) /\ Len(dlq') = Len(dlq) /\ DOMAIN dlq' = DOMAIN dlq
      /\ \A j \in DOMAIN dlq : dlq'[j].feed = dlq[j].feed
  BY <1>1, <1>3, <1>4, Marking
<1>6. RecordSuccess(adapter[f], p) \in Adapter BY <1>1, <1>2, AdapterTypes
<1>7. /\ RecordSuccess(adapter[f], p).price = p
      /\ RecordSuccess(adapter[f], p).goodAt = now
      /\ RecordSuccess(adapter[f], p).degraded = FALSE
  BY DEF RecordSuccess
<1>8. q \in [price : Price, at : Time] /\ q.price = p /\ q.at = now /\ q # NULL
  BY <1>2 DEF Time
<1>9. /\ res \in Result /\ res.feed = f /\ res.price = p /\ res.at = now
      /\ now - now <= Window
  BY <1>2 DEF Result, Time
<1> HIDE DEF f, q, res
<1>10. TypeOK' BY <1>1, <1>2, <1>3, <1>5, <1>6, <1>8, <1>9 DEF TypeOK
<1>11. CallsMatch' BY <1>1, <1>3, <1>5, CallsMatchKept
<1>12. PriceIsQuote' BY <1>1, <1>2, <1>3, <1>7, <1>8 DEF PriceIsQuote, TypeOK
<1>13. ServedPriceRecent' BY <1>1, <1>2, <1>3, <1>8, <1>9 DEF ServedPriceRecent, TypeOK
<1>14. EveryRaiseQueued' BY <1>1, <1>3, <1>5 DEF EveryRaiseQueued
<1>15. DegradedIsVisible' BY <1>1, <1>2, <1>3, <1>7 DEF DegradedIsVisible, TypeOK
<1>16. QED BY <1>10, <1>11, <1>12, <1>13, <1>14, <1>15 DEF IInv

\* The exception handler of fetch keeps the last good price and keeps the
\* gauge in step with degraded mode.
LEMMA FetchFailureKeeps ==
    ASSUME TypeOK, PriceIsQuote, DegradedIsVisible, NEW f \in Live, FetchFailure(f),
           UNCHANGED quoted
    PROVE  /\ adapter' \in [Live -> Adapter] /\ gauge' \in [Live -> BOOLEAN]
           /\ PriceIsQuote' /\ DegradedIsVisible'
<1> DEFINE a == RecordFailure(adapter[f])
<1>1. /\ adapter' = [adapter EXCEPT ![f] = a]
      /\ gauge' = [gauge EXCEPT ![f] = a.degraded]
      /\ a \in Adapter
  BY AdapterTypes DEF FetchFailure
<1>2. a.price = adapter[f].price /\ a.goodAt = adapter[f].goodAt BY DEF RecordFailure
<1>3. a.degraded \in BOOLEAN BY <1>1 DEF Adapter
<1> HIDE DEF a
<1>4. adapter' \in [Live -> Adapter] /\ gauge' \in [Live -> BOOLEAN]
  BY <1>1, <1>3 DEF TypeOK
<1>5. PriceIsQuote' BY <1>1, <1>2 DEF PriceIsQuote, TypeOK
<1>6. DegradedIsVisible' BY <1>1 DEF DegradedIsVisible, TypeOK
<1>7. QED BY <1>4, <1>5, <1>6

LEMMA FetchFallsBackStep == ASSUME IInv, FetchFallsBack PROVE IInv'
<1> USE FeedAssumption
<1> DEFINE f == fetching.feed
           p == Fallback(adapter[f])
           res == [feed |-> f, price |-> p, at |-> now, degraded |-> TRUE]
<1>1. /\ TypeOK /\ CallsMatch /\ PriceIsQuote /\ ServedPriceRecent
      /\ EveryRaiseQueued /\ DegradedIsVisible
  BY DEF IInv
<1>2. f \in Live /\ fetching # NULL /\ now \in Time BY <1>1 DEF FetchFallsBack, TypeOK
<1>3. /\ p # NULL /\ FetchFailure(f) /\ served' = res
      /\ MarkReplayed(fetching.entry) /\ fetching' = NULL
      /\ UNCHANGED <<now, up, crashes, quoted, raised, run>>
  BY DEF FetchFallsBack
<1>4. fetching.entry = 0 \/ fetching.entry \in DOMAIN dlq
  BY <1>1, <1>2 DEF CallsMatch, CallMatches
<1>5. /\ dlq' \in Seq(Row) /\ Len(dlq') = Len(dlq) /\ DOMAIN dlq' = DOMAIN dlq
      /\ \A j \in DOMAIN dlq : dlq'[j].feed = dlq[j].feed
  BY <1>1, <1>3, <1>4, Marking
<1>6. /\ adapter' \in [Live -> Adapter] /\ gauge' \in [Live -> BOOLEAN]
      /\ PriceIsQuote' /\ DegradedIsVisible'
  BY <1>1, <1>2, <1>3, FetchFailureKeeps
<1>7. p \in Price BY <1>1, <1>2, <1>3, AdapterTypes
<1>8. p = adapter[f].price /\ now - adapter[f].goodAt <= Window
  BY <1>1, <1>2, <1>3 DEF Fallback, LastKnownGoodPrice, RecordFailure, TypeOK, Adapter, Time
<1>9. /\ res \in Result /\ res.feed = f /\ res.price = p /\ res.at = now /\ res.degraded
  BY <1>2, <1>7 DEF Result, Time
<1>10. quoted[f] # NULL /\ quoted[f].price = p /\ quoted[f].at = adapter[f].goodAt
  BY <1>1, <1>2, <1>3, <1>8 DEF PriceIsQuote
<1> HIDE DEF f, p, res
<1>11. TypeOK' BY <1>1, <1>2, <1>3, <1>5, <1>6, <1>9 DEF TypeOK
<1>12. CallsMatch' BY <1>1, <1>3, <1>5, CallsMatchKept
<1>13. ServedPriceRecent' BY <1>2, <1>3, <1>8, <1>9, <1>10 DEF ServedPriceRecent
<1>14. EveryRaiseQueued' BY <1>1, <1>3, <1>5 DEF EveryRaiseQueued
<1>15. QED BY <1>6, <1>11, <1>12, <1>13, <1>14 DEF IInv

LEMMA FetchRaisesStep == ASSUME IInv, FetchRaises PROVE IInv'
<1> DEFINE f == fetching.feed
<1>1. /\ TypeOK /\ CallsMatch /\ PriceIsQuote /\ ServedPriceRecent
      /\ EveryRaiseQueued /\ DegradedIsVisible
  BY DEF IInv
<1>2. f \in Live /\ f \in Feed BY <1>1, FeedAssumption DEF FetchRaises, TypeOK
<1>3. /\ FetchFailure(f) /\ Enqueue(f) /\ raised' = raised + 1 /\ fetching' = NULL
      /\ UNCHANGED <<now, up, crashes, served, quoted, run>>
  BY DEF FetchRaises
<1> HIDE DEF f
<1>4. /\ dlq' \in Seq(Row) /\ Len(dlq') = Len(dlq) + 1 /\ Len(dlq') <= MaxEntries
      /\ DOMAIN dlq \subseteq DOMAIN dlq'
      /\ \A j \in DOMAIN dlq : dlq'[j] = dlq[j]
  BY <1>1, <1>2, <1>3, Queueing
<1>5. /\ adapter' \in [Live -> Adapter] /\ gauge' \in [Live -> BOOLEAN]
      /\ PriceIsQuote' /\ DegradedIsVisible'
  BY <1>1, <1>2, <1>3, FetchFailureKeeps
<1>6. TypeOK' BY <1>1, <1>3, <1>4, <1>5 DEF TypeOK
<1>7. CallsMatch' BY <1>1, <1>3, <1>4, CallsMatchKept
<1>8. ServedPriceRecent' /\ EveryRaiseQueued'
  BY <1>1, <1>3, <1>4 DEF ServedPriceRecent, EveryRaiseQueued
<1>9. QED BY <1>5, <1>6, <1>7, <1>8 DEF IInv

LEMMA ExitDegradedStep == ASSUME IInv, NEW f \in Live, ExitDegraded(f) PROVE IInv'
<1> DEFINE a == ExitDegradedState(adapter[f])
<1>1. /\ adapter' = [adapter EXCEPT ![f] = a]
      /\ UNCHANGED <<now, up, crashes, gauge, fetching, served, quoted, dlq, raised, run>>
  BY DEF ExitDegraded, queueVars
<1>2. a \in Adapter BY AdapterTypes DEF IInv
<1>3. a.price = adapter[f].price /\ a.goodAt = adapter[f].goodAt /\ a.degraded = FALSE
  BY DEF ExitDegradedState
<1> HIDE DEF a
<1>4. TypeOK' BY <1>1, <1>2 DEF IInv, TypeOK
<1>5. CallsMatch' BY <1>1, CallsMatchKept DEF IInv
<1>6. PriceIsQuote' /\ DegradedIsVisible'
  BY <1>1, <1>3 DEF IInv, PriceIsQuote, DegradedIsVisible, TypeOK
<1>7. ServedPriceRecent' /\ EveryRaiseQueued'
  BY <1>1 DEF IInv, ServedPriceRecent, EveryRaiseQueued
<1>8. QED BY <1>4, <1>5, <1>6, <1>7 DEF IInv

LEMMA ServiceCrashStep == ASSUME IInv, ServiceCrash PROVE IInv'
<1>1. FreshAdapter \in Adapter /\ FreshAdapter.price = NULL /\ FreshAdapter.degraded = FALSE
  BY FeedAssumption DEF FreshAdapter, Adapter, Time
<1> HIDE DEF FreshAdapter
<1>2. TypeOK' BY <1>1, FeedAssumption DEF IInv, TypeOK, ServiceCrash, queueVars
<1>3. CallsMatch' BY CallsMatchKept DEF IInv, ServiceCrash, queueVars
<1>4. PriceIsQuote' /\ ServedPriceRecent' /\ EveryRaiseQueued' /\ DegradedIsVisible'
  BY <1>1 DEF IInv, PriceIsQuote, ServedPriceRecent, EveryRaiseQueued, DegradedIsVisible,
     ServiceCrash, queueVars
<1>5. QED BY <1>2, <1>3, <1>4 DEF IInv

-----------------------------------------------------------------------------
(***************************************************************************)
(* The steps of replay-dlq                                                 *)
(***************************************************************************)

\* A step of replay-dlq that leaves the queue and the service alone keeps the
\* invariant if the run it leaves behind is well formed.
LEMMA RunOnly ==
    ASSUME IInv, NEW c \in Cli, NEW r \in Run \cup {NULL},
           run' = [run EXCEPT ![c] = r],
           UNCHANGED <<now, up, serviceVars, queueVars>>,
           crashes' \in 0 .. MaxCrashes,
           r # NULL =>
               /\ r.todo \subseteq DOMAIN dlq
               /\ r.call # NULL => r.call.entry # 0 /\ CallMatches(r.call)
    PROVE  IInv'
<1>1. TypeOK' BY DEF IInv, TypeOK, serviceVars, queueVars
<1>2. CallsMatch' BY DEF IInv, TypeOK, CallsMatch, CallMatches, serviceVars, queueVars
<1>3. PriceIsQuote' /\ ServedPriceRecent' /\ EveryRaiseQueued' /\ DegradedIsVisible'
  BY DEF IInv, PriceIsQuote, ServedPriceRecent, EveryRaiseQueued, DegradedIsVisible,
     serviceVars, queueVars
<1>4. QED BY <1>1, <1>2, <1>3 DEF IInv

\* Rows have the ids 1 .. MaxEntries.
LEMMA RowIds == ASSUME TypeOK PROVE DOMAIN dlq \subseteq Id
  BY LenProperties, FeedAssumption DEF TypeOK, Id

LEMMA StartRunStep ==
    ASSUME IInv, NEW c \in Cli, NEW ids \in SUBSET Unreplayed, StartRun(c, ids)
    PROVE  IInv'
<1> DEFINE r == [todo |-> ids, claimed |-> {}, call |-> NULL]
<1>1. ids \subseteq DOMAIN dlq BY DEF Unreplayed
<1>2. r \in Run /\ r.todo = ids /\ r.call = NULL BY <1>1, RowIds DEF Run, IInv
<1>3. /\ run' = [run EXCEPT ![c] = r] /\ crashes' = crashes
      /\ UNCHANGED <<now, up, serviceVars, queueVars>>
  BY DEF StartRun
<1>4. crashes' \in 0 .. MaxCrashes BY <1>3 DEF IInv, TypeOK
<1> HIDE DEF r
<1>5. QED BY <1>1, <1>2, <1>3, <1>4, RunOnly

\* The run that has passed over entry i, with or without announcing it.
LEMMA PassedOver ==
    ASSUME IInv, NEW c \in Cli, NEW i \in Id, run[c] # NULL, NEW r,
           r = Claim(run[c], i)
              \/ r = [todo |-> run[c].todo \ {i}, claimed |-> run[c].claimed, call |-> NULL]
    PROVE  r \in Run /\ r.todo \subseteq DOMAIN dlq /\ r.call = NULL
<1>1. run[c] \in Run /\ run[c].todo \subseteq DOMAIN dlq BY DEF IInv, TypeOK, CallsMatch
<1>2. CASE r = Claim(run[c], i) BY <1>1, <1>2 DEF Claim, Run
<1>3. CASE r = [todo |-> run[c].todo \ {i}, claimed |-> run[c].claimed, call |-> NULL]
  BY <1>1, <1>3 DEF Run
<1>4. QED BY <1>2, <1>3

LEMMA SkipUnknownStep == ASSUME IInv, NEW c \in Cli, SkipUnknown(c) PROVE IInv'
<1>1. PICK i \in Id :
        /\ run[c] # NULL
        /\ run' = [run EXCEPT ![c] = [todo |-> run[c].todo \ {i}, claimed |-> run[c].claimed,
                                      call |-> NULL]]
  BY DEF SkipUnknown, Reached
<1> DEFINE r == [todo |-> run[c].todo \ {i}, claimed |-> run[c].claimed, call |-> NULL]
<1>2. run' = [run EXCEPT ![c] = r] BY <1>1
<1>3. r \in Run /\ r.todo \subseteq DOMAIN dlq /\ r.call = NULL BY <1>1, PassedOver
<1>4. UNCHANGED <<now, up, serviceVars, queueVars>> /\ crashes' \in 0 .. MaxCrashes
  BY DEF SkipUnknown, IInv, TypeOK
<1> HIDE DEF r
<1>5. QED BY <1>2, <1>3, <1>4, RunOnly

LEMMA ReplayGoneStep == ASSUME IInv, NEW c \in Cli, ReplayGone(c) PROVE IInv'
<1>1. PICK i \in Id : run[c] # NULL /\ run' = [run EXCEPT ![c] = Claim(run[c], i)]
  BY DEF ReplayGone, Reached
<1> DEFINE r == Claim(run[c], i)
<1>2. run' = [run EXCEPT ![c] = r] BY <1>1
<1>3. r \in Run /\ r.todo \subseteq DOMAIN dlq /\ r.call = NULL BY <1>1, PassedOver
<1>4. UNCHANGED <<now, up, serviceVars, queueVars>> /\ crashes' \in 0 .. MaxCrashes
  BY DEF ReplayGone, IInv, TypeOK
<1> HIDE DEF r
<1>5. QED BY <1>2, <1>3, <1>4, RunOnly

LEMMA ReplayEntryStep == ASSUME IInv, NEW c \in Cli, ReplayEntry(c) PROVE IInv'
<1> USE FeedAssumption
<1>1. PICK i \in Id :
        /\ Reached(c, i)
        /\ dlq[i].feed \in Known
        /\ run' = [run EXCEPT ![c] =
                      [todo |-> run[c].todo, claimed |-> run[c].claimed,
                       call |-> [feed |-> dlq[i].feed, entry |-> i, attempt |-> 0]]]
  BY DEF ReplayEntry
<1> DEFINE call == [feed |-> dlq[i].feed, entry |-> i, attempt |-> 0]
           r == [todo |-> run[c].todo, claimed |-> run[c].claimed, call |-> call]
<1>2. /\ run[c] \in Run /\ run[c].todo \subseteq DOMAIN dlq /\ i \in run[c].todo
  BY <1>1 DEF Reached, IInv, TypeOK, CallsMatch
<1>3. call \in Call /\ call.entry # 0 /\ CallMatches(call)
  BY <1>1, <1>2 DEF Call, Id, CallMatches, Known
<1>4. run' = [run EXCEPT ![c] = r] BY <1>1
<1> HIDE DEF call
<1>5. r \in Run /\ r.todo = run[c].todo /\ r.call = call BY <1>2, <1>3 DEF Run
<1>6. UNCHANGED <<now, up, serviceVars, queueVars>> /\ crashes' \in 0 .. MaxCrashes
  BY DEF ReplayEntry, IInv, TypeOK
<1> HIDE DEF r
<1>7. QED BY <1>2, <1>3, <1>4, <1>5, <1>6, RunOnly

LEMMA ReplayRetryStep == ASSUME IInv, NEW c \in Cli, ReplayRetry(c) PROVE IInv'
<1> USE FeedAssumption
<1> DEFINE call == Retried(run[c].call)
           r == [todo |-> run[c].todo, claimed |-> run[c].claimed, call |-> call]
<1>1. /\ run[c] \in Run /\ run[c].call \in Call /\ run[c].todo \subseteq DOMAIN dlq
      /\ run[c].call.entry # 0 /\ CallMatches(run[c].call)
      /\ run[c].call.attempt < MaxRetries
  BY DEF ReplayRetry, InCall, IInv, TypeOK, CallsMatch, Run
<1>2. call \in Call /\ call.entry # 0 /\ CallMatches(call)
  BY <1>1 DEF Retried, Call, CallMatches
<1>3. run' = [run EXCEPT ![c] = r] BY DEF ReplayRetry
<1> HIDE DEF call
<1>4. r \in Run /\ r.todo = run[c].todo /\ r.call = call BY <1>1, <1>2 DEF Run
<1>5. UNCHANGED <<now, up, serviceVars, queueVars>> /\ crashes' \in 0 .. MaxCrashes
  BY DEF ReplayRetry, IInv, TypeOK
<1> HIDE DEF r
<1>6. QED BY <1>1, <1>2, <1>3, <1>4, <1>5, RunOnly

\* A replay that ends keeps the invariant: the rows stay, and one is marked or
\* one is added.
LEMMA ReplayEnds ==
    ASSUME IInv, NEW c \in Cli, InCall(c),
           run' = [run EXCEPT ![c] = Claim(run[c], run[c].call.entry)],
           UNCHANGED <<now, up, crashes, serviceVars>>,
           dlq' \in Seq(Row), Len(dlq') <= MaxEntries, raised' = Len(dlq'),
           DOMAIN dlq \subseteq DOMAIN dlq',
           \A j \in DOMAIN dlq : dlq'[j].feed = dlq[j].feed
    PROVE  IInv'
<1> DEFINE r == Claim(run[c], run[c].call.entry)
<1>1. run[c] # NULL /\ run[c].call.entry \in Id
  BY RowIds DEF InCall, IInv, CallsMatch, CallMatches
<1>2. r \in Run /\ r.todo \subseteq DOMAIN dlq /\ r.call = NULL BY <1>1, PassedOver
<1>3. run' = [run EXCEPT ![c] = r] OBVIOUS
<1> HIDE DEF r
<1>4. Len(dlq') \in Nat BY LenProperties
<1>5. TypeOK' BY <1>2, <1>3, <1>4 DEF IInv, TypeOK, serviceVars
<1>6. CallsMatch'
  <2>1. fetching' # NULL => CallMatches(fetching)'
    BY DEF IInv, CallsMatch, CallMatches, serviceVars
  <2>2. ASSUME NEW d \in Cli, run'[d] # NULL
        PROVE  /\ run'[d].todo \subseteq DOMAIN dlq'
               /\ run'[d].call # NULL => run'[d].call.entry # 0 /\ CallMatches(run[d].call)'
    <3>1. CASE d = c
      <4>1. run'[d] = r BY <1>3, <3>1 DEF IInv, TypeOK
      <4>2. QED BY <1>2, <4>1
    <3>2. CASE d # c
      <4>1. run'[d] = run[d] BY <1>3, <3>2 DEF IInv, TypeOK
      <4>2. QED BY <2>2, <4>1 DEF IInv, CallsMatch, CallMatches
    <3>3. QED BY <3>1, <3>2
  <2>3. QED BY <2>1, <2>2 DEF CallsMatch
<1>7. PriceIsQuote' /\ ServedPriceRecent' /\ EveryRaiseQueued' /\ DegradedIsVisible'
  BY DEF IInv, PriceIsQuote, ServedPriceRecent, EveryRaiseQueued, DegradedIsVisible, serviceVars
<1>8. QED BY <1>5, <1>6, <1>7 DEF IInv

LEMMA ReplaySucceedsStep == ASSUME IInv, NEW c \in Cli, ReplaySucceeds(c) PROVE IInv'
<1>1. run[c].call.entry \in DOMAIN dlq
  BY DEF ReplaySucceeds, InCall, IInv, CallsMatch, CallMatches
<1>2. /\ dlq' \in Seq(Row) /\ Len(dlq') = Len(dlq) /\ DOMAIN dlq' = DOMAIN dlq
      /\ \A j \in DOMAIN dlq : dlq'[j].feed = dlq[j].feed
  BY <1>1, Marking DEF ReplaySucceeds, IInv
<1>3. Len(dlq') <= MaxEntries /\ raised' = Len(dlq')
  BY <1>2 DEF IInv, TypeOK, EveryRaiseQueued, ReplaySucceeds
<1>4. QED BY <1>2, <1>3, ReplayEnds DEF ReplaySucceeds

LEMMA ReplayFailsStep == ASSUME IInv, NEW c \in Cli, ReplayFails(c) PROVE IInv'
<1>1. run[c].call.feed \in Feed BY DEF ReplayFails, InCall, IInv, TypeOK, Run, Call
<1>2. /\ dlq' \in Seq(Row) /\ Len(dlq') = Len(dlq) + 1 /\ Len(dlq') <= MaxEntries
      /\ DOMAIN dlq \subseteq DOMAIN dlq'
      /\ \A j \in DOMAIN dlq : dlq'[j] = dlq[j]
  BY <1>1, Queueing DEF ReplayFails, IInv
<1>3. raised' = Len(dlq') BY <1>2 DEF IInv, EveryRaiseQueued, ReplayFails
<1>4. QED BY <1>2, <1>3, ReplayEnds DEF ReplayFails

LEMMA EndRunStep == ASSUME IInv, NEW c \in Cli, EndRun(c) \/ KillRun(c) PROVE IInv'
<1>1. /\ run' = [run EXCEPT ![c] = NULL]
      /\ UNCHANGED <<now, up, serviceVars, queueVars>>
      /\ crashes' \in 0 .. MaxCrashes
  BY FeedAssumption DEF EndRun, KillRun, IInv, TypeOK
<1>2. QED BY <1>1, RunOnly

-----------------------------------------------------------------------------
(***************************************************************************)
(* Theorems                                                                *)
(***************************************************************************)

LEMMA EnvironmentStep ==
    ASSUME IInv, Tick \/ (\E s \in Source : Outage(s)) \/ UNCHANGED vars PROVE IInv'
<1>1. /\ UNCHANGED <<crashes, serviceVars, queueVars, run>>
      /\ now' \in Time /\ up' \in [Source -> BOOLEAN]
  <2>1. CASE Tick \/ UNCHANGED vars
    BY <2>1, FeedAssumption DEF Tick, vars, serviceVars, queueVars, IInv, TypeOK, Time
  <2>2. ASSUME NEW s \in Source, Outage(s)
        PROVE  /\ UNCHANGED <<crashes, serviceVars, queueVars, run>>
               /\ now' \in Time /\ up' \in [Source -> BOOLEAN]
    BY <2>2, FeedAssumption DEF Outage, IInv, TypeOK
  <2>3. QED BY <2>1, <2>2
<1>2. TypeOK' BY <1>1 DEF IInv, TypeOK, serviceVars, queueVars
<1>3. CallsMatch' BY <1>1, CallsMatchKept DEF IInv, serviceVars, queueVars
<1>4. PriceIsQuote' /\ ServedPriceRecent' /\ EveryRaiseQueued' /\ DegradedIsVisible'
  BY <1>1 DEF IInv, PriceIsQuote, ServedPriceRecent, EveryRaiseQueued, DegradedIsVisible,
     serviceVars, queueVars
<1>5. QED BY <1>2, <1>3, <1>4 DEF IInv

LEMMA NextIInv == IInv /\ [Next]_vars => IInv'
<1> SUFFICES ASSUME IInv, [Next]_vars PROVE IInv' OBVIOUS
<1>1. CASE Service
  BY <1>1, StartFetchStep, ExitDegradedStep, StartReplayStep, FetchRetryStep,
     FetchSucceedsStep, FetchFallsBackStep, FetchRaisesStep, ServiceCrashStep DEF Service
<1>2. ASSUME NEW c \in Cli, Operator(c) PROVE IInv'
  <2>1. CASE StartReplayAll(c) BY <2>1, StartRunStep DEF StartReplayAll
  <2>2. CASE StartReplayOne(c)
    <3>1. PICK i \in Unreplayed : StartRun(c, {i}) BY <2>2 DEF StartReplayOne
    <3>2. {i} \in SUBSET Unreplayed OBVIOUS
    <3>3. QED BY <3>1, <3>2, StartRunStep
  <2>3. CASE RunStep(c)
    BY <2>3, SkipUnknownStep, ReplayGoneStep, ReplayEntryStep, ReplayRetryStep,
       ReplaySucceedsStep, ReplayFailsStep, EndRunStep DEF RunStep
  <2>4. CASE KillRun(c) BY <2>4, EndRunStep
  <2>5. QED BY <1>2, <2>1, <2>2, <2>3, <2>4 DEF Operator
<1>3. CASE Tick \/ (\E s \in Source : Outage(s)) \/ UNCHANGED vars
  BY <1>3, EnvironmentStep
<1>4. QED BY <1>1, <1>2, <1>3 DEF Next

THEOREM IInvHolds == Spec => []IInv
  BY InitIInv, NextIInv, PTL DEF Spec

\* The state of the adapters, of the queue and of the replays keeps its type.
THEOREM TypeCorrect == Spec => []TypeOK
<1>1. IInv => TypeOK BY DEF IInv
<1>2. QED BY <1>1, IInvHolds, PTL

\* fetch never returns a price older than the staleness window, whatever
\* retries, restarts, replays and manual interventions come in between.
THEOREM ServedPricesAreRecent == Spec => []ServedPriceRecent
<1>1. IInv => ServedPriceRecent BY DEF IInv
<1>2. QED BY <1>1, IInvHolds, PTL

\* The dead-letter queue holds exactly one entry for each fetch that raised.
THEOREM RaisesAreQueued == Spec => []EveryRaiseQueued
<1>1. IInv => EveryRaiseQueued BY DEF IInv
<1>2. QED BY <1>1, IInvHolds, PTL

\* Degraded mode is never on without the gauge.
THEOREM DegradedModeIsVisible == Spec => []DegradedIsVisible
<1>1. IInv => DegradedIsVisible BY DEF IInv
<1>2. QED BY <1>1, IInvHolds, PTL

-----------------------------------------------------------------------------

\* One step of SettledByAnswerOnly.
Settled ==
    \A i \in DOMAIN dlq :
        /\ i \in DOMAIN dlq'
        /\ dlq'[i].feed = dlq[i].feed
        /\ dlq[i].replayed => dlq'[i].replayed
        /\ dlq'[i].replayed => dlq[i].replayed \/ AnswersEntry(i)

LEMMA SettledStep == IInv /\ [Next]_vars => [Settled]_vars
<1> SUFFICES ASSUME IInv, [Next]_vars PROVE Settled OBVIOUS
<1>1. CASE dlq' = dlq BY <1>1 DEF Settled
<1>2. CASE FetchFallsBack \/ \E p \in Price : FetchSucceeds(p)
  <2>1. PICK p \in Price, b \in BOOLEAN :
          served' = [feed |-> fetching.feed, price |-> p, at |-> now, degraded |-> b]
    <3>1. CASE \E p \in Price : FetchSucceeds(p) BY <3>1 DEF FetchSucceeds
    <3>2. CASE FetchFallsBack
      <4>1. fetching.feed \in Live BY <3>2 DEF FetchFallsBack, IInv, TypeOK
      <4>2. Fallback(adapter[fetching.feed]) \in Price
        BY <3>2, <4>1, AdapterTypes DEF FetchFallsBack, IInv
      <4>3. QED BY <3>2, <4>2 DEF FetchFallsBack
    <3>3. QED BY <1>2, <3>1, <3>2
  <2>2. MarkReplayed(fetching.entry) /\ fetching # NULL /\ fetching' = NULL
    BY <1>2 DEF FetchFallsBack, FetchSucceeds
  <2>3. served' # NULL /\ served'.feed = fetching.feed /\ served'.at = now
    <3>1. fetching.feed \in Live /\ now \in 0 .. MaxTime BY <2>2 DEF IInv, TypeOK, Time
    <3>2. served' \in [feed : Live, price : Price, at : 0 .. MaxTime, degraded : BOOLEAN]
      BY <2>1, <3>1
    <3>3. QED BY <2>1, <3>2, FeedAssumption
  <2>4. fetching.entry = 0 \/ fetching.entry \in DOMAIN dlq
    BY <2>2 DEF IInv, CallsMatch, CallMatches
  <2>5. AnswersEntry(fetching.entry) BY <2>2, <2>3 DEF AnswersEntry
  <2>6. QED BY <2>2, <2>4, <2>5, Marking DEF Settled, IInv
<1>3. CASE FetchRaises
  <2>1. fetching.feed \in Feed BY <1>3, FeedAssumption DEF FetchRaises, IInv, TypeOK
  <2>2. QED BY <1>3, <2>1, Queueing DEF FetchRaises, Settled, IInv
<1>4. ASSUME NEW c \in Cli, ReplaySucceeds(c) PROVE Settled
  <2>1. /\ InCall(c) /\ up[ReplaySource[run[c].call.feed]] /\ MarkReplayed(run[c].call.entry)
        /\ run[c].call.entry \in DOMAIN dlq
        /\ dlq[run[c].call.entry].feed = run[c].call.feed
    BY <1>4 DEF ReplaySucceeds, InCall, IInv, CallsMatch, CallMatches
  <2>2. AnswersEntry(run[c].call.entry) BY <2>1 DEF AnswersEntry
  <2>3. QED BY <2>1, <2>2, Marking DEF Settled, IInv
<1>5. ASSUME NEW c \in Cli, ReplayFails(c) PROVE Settled
  <2>1. run[c].call.feed \in Feed BY <1>5 DEF ReplayFails, InCall, IInv, TypeOK, Run, Call
  <2>2. QED BY <1>5, <2>1, Queueing DEF ReplayFails, Settled, IInv
<1>6. QED
  <2>1. CASE Service
    BY <1>1, <1>2, <1>3, <2>1 DEF Service, StartFetch, ExitDegraded, StartReplay, FetchRetry,
       ServiceCrash, queueVars
  <2>2. ASSUME NEW c \in Cli, Operator(c) PROVE Settled
    BY <1>1, <1>4, <1>5, <2>2 DEF Operator, StartReplayAll, StartReplayOne, StartRun, RunStep,
       SkipUnknown, ReplayGone, ReplayEntry, ReplayRetry, EndRun, KillRun, queueVars
  <2>3. CASE Tick \/ (\E s \in Source : Outage(s)) \/ UNCHANGED vars
    BY <1>1, <2>3 DEF Tick, Outage, vars, queueVars
  <2>4. QED BY <2>1, <2>2, <2>3 DEF Next

\* Entries of the dead-letter queue are never lost or reopened, and only a
\* replay whose fetch returned a price marks one: the service's a price for the
\* entry's feed, that of replay-dlq a price of the default product or pool that
\* the feed's name stands for.
THEOREM OnlyAnswersSettle == Spec => SettledByAnswerOnly
<1>1. Spec => [][Settled]_vars BY IInvHolds, SettledStep, PTL DEF Spec
<1>2. QED BY <1>1, PTL DEF SettledByAnswerOnly, Settled

=============================================================================
