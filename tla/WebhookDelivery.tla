--------------------------- MODULE WebhookDelivery ---------------------------
(***************************************************************************)
(* backend: the delivery service that drains the queue the indexer fills,  *)
(* composed with the indexer and the registration routes.                  *)
(*                                                                         *)
(* A drain reads the due deliveries once and then posts them one by one;   *)
(* while a post is awaited the indexer and the routes run.  URL, secret    *)
(* and signature are read together with the active flag right before the   *)
(* post and are left out.                                                  *)
(***************************************************************************)
EXTENDS EventIndexer

CONSTANTS
    MaxAttempts,    \* maxAttempts
    BaseBackoff,    \* baseBackoffSeconds
    MaxBackoff,     \* maxBackoffSeconds
    Limit,          \* limit of getPendingDeliveries
    AttemptsSeen,   \* bound: attempts of one delivery that are made
    Followed        \* the deliveries DueIsPosted speaks of, among all others

ASSUME DeliveryAssumption ==
    /\ MaxAttempts \in Nat \ {0} /\ BaseBackoff \in Nat /\ MaxBackoff \in Nat
    /\ Limit \in Nat \ {0} /\ AttemptsSeen \in Nat
    /\ \A n \in 0 .. AttemptsSeen : 2^n \in Nat
    /\ Followed \subseteq Webhook \X Event

VARIABLE
    drain       \* the drain in progress, or NULL between drains

vars == <<latest, cursors, indexed, webhooks, deliveries, scan, now, faults, owed, drain>>

DeliveryId == Webhook \X Event

Delivery == [status : {"pending", "delivered", "failed"}, attempts : 0 .. AttemptsSeen,
             next : 0 .. MaxNow + MaxBackoff]

ASSUME NullIsNoDelivery == NULL \notin Delivery /\ NULL \notin DeliveryId

Drain == [at : 0 .. MaxNow, due : SUBSET DeliveryId, post : DeliveryId \cup {NULL}]

TypeOK ==
    /\ IndexerTypeOK
    /\ deliveries \in [DeliveryId -> Delivery \cup {NULL}]
    /\ drain \in Drain \cup {NULL}

Init == IndexerInit /\ drain = NULL

-----------------------------------------------------------------------------
(***************************************************************************)
(* A drain                                                                 *)
(***************************************************************************)

\* Mutant: every row is selected, the delivered ones included.
SelectedAll(d) ==
    /\ deliveries[d] # NULL
    /\ deliveries[d].next <= now
    /\ deliveries[d].attempts < AttemptsSeen

\* The WHERE clause of getPendingDeliveries: failed rows are selected too.
Selected(d) ==
    /\ deliveries[d] # NULL
    /\ deliveries[d].status \in {"pending", "failed"}
    /\ deliveries[d].next <= now
    /\ deliveries[d].attempts < AttemptsSeen

\* ORDER BY next_attempt_at LIMIT: the oldest rows, ties in any order.
Oldest(ds) ==
    {page \in SUBSET ds :
        /\ Cardinality(page) = IF Cardinality(ds) < Limit THEN Cardinality(ds) ELSE Limit
        /\ \A d \in page, x \in ds \ page : deliveries[d].next <= deliveries[x].next}

StartDrain ==
    /\ drain = NULL
    /\ \E page \in Oldest({d \in DeliveryId : Selected(d)}) :
          /\ page # {}
          /\ drain' = [at |-> now, due |-> page, post |-> NULL]
    /\ UNCHANGED deliveries

\* The delivery the loop has reached.
AtHead(d) ==
    /\ drain # NULL
    /\ drain.post = NULL
    /\ d \in drain.due
    /\ \A x \in drain.due : deliveries[d].next <= deliveries[x].next

\* Mutant: the next drain is not scheduled.
DoneForGood(d) == [at |-> drain.at, due |-> drain.due \ {d}, post |-> NULL]

\* The loop goes on; after the last delivery the next drain is scheduled.
Done(d) == IF drain.due = {d} THEN NULL
           ELSE [at |-> drain.at, due |-> drain.due \ {d}, post |-> NULL]

UpdateDelivery(d, row) == deliveries' = [deliveries EXCEPT ![d] = row]

\* The webhook was disabled: the row fails, its attempts and its time stay.
CancelDelivery ==
    /\ \E d \in DeliveryId :
          /\ AtHead(d)
          /\ ~webhooks[d[1]].active
          /\ UpdateDelivery(d, [deliveries[d] EXCEPT !.status = "failed"])
          /\ drain' = Done(d)

Post ==
    /\ \E d \in DeliveryId :
          /\ AtHead(d)
          /\ webhooks[d[1]].active
          /\ drain' = [drain EXCEPT !.post = d]
    /\ UNCHANGED deliveries

\* The subscriber answers with a 2xx status.
Delivered ==
    /\ drain # NULL /\ drain.post # NULL
    /\ LET d == drain.post
       IN  /\ UpdateDelivery(d, [status   |-> "delivered",
                                attempts |-> deliveries[d].attempts + 1,
                                next     |-> deliveries[d].next])
           /\ drain' = Done(d)

\* Mutant: the delay is not capped.
BackoffUncapped(attempts) == BaseBackoff * 2^attempts

Backoff(attempts) == LET delay == BaseBackoff * 2^attempts
                     IN  IF delay < MaxBackoff THEN delay ELSE MaxBackoff

\* handleFailure: another status, an error, a timeout, or the write of the row throws.
AfterFailure(d) ==
    LET n == deliveries[d].attempts + 1
    IN  IF n >= MaxAttempts
        THEN [status |-> "failed", attempts |-> n, next |-> drain.at]
        ELSE [status |-> "pending", attempts |-> n, next |-> drain.at + Backoff(n)]

Refused ==
    /\ drain # NULL /\ drain.post # NULL
    /\ UpdateDelivery(drain.post, AfterFailure(drain.post))
    /\ drain' = Done(drain.post)

\* A statement of the drain throws: the drain is abandoned with its rows as they
\* are, one just posted included, and the next one is scheduled.
DrainFails ==
    /\ ~Storing
    /\ drain # NULL
    /\ Fault
    /\ drain' = NULL
    /\ UNCHANGED <<indexerVars, latest, webhooks, deliveries, now>>

DrainNext == StartDrain \/ CancelDelivery \/ Post \/ Delivered \/ Refused

-----------------------------------------------------------------------------
(***************************************************************************)
(* The process and its environment                                         *)
(***************************************************************************)

Crash ==
    /\ Fault
    /\ scan' = NULL
    /\ drain' = NULL
    /\ UNCHANGED <<latest, cursors, indexed, webhooks, deliveries, now, owed>>

CloseLedger ==
    /\ latest < MaxLedger
    /\ latest' = latest + 1
    /\ UNCHANGED <<indexerVars, webhooks, deliveries, now, faults, drain>>

\* Storing a page is taken to fit in one second.
Tick ==
    /\ ~Storing
    /\ now < MaxNow
    /\ now' = now + 1
    /\ UNCHANGED <<indexerVars, latest, webhooks, deliveries, faults, drain>>

Indexing == IndexerNext /\ UNCHANGED <<latest, webhooks, now, drain>>

Draining(A) == ~Storing /\ A /\ UNCHANGED <<indexerVars, latest, webhooks, now, faults>>

Next ==
    \/ Indexing
    \/ RoutesNext /\ UNCHANGED <<indexerVars, latest, deliveries, now, faults, drain>>
    \/ Draining(DrainNext)
    \/ DrainFails
    \/ Crash
    \/ CloseLedger
    \/ Tick

(***************************************************************************)
(* Synchronous code runs on; the event loop serves the drain's timer and   *)
(* its callbacks among all others; a post ends, if only by its timeout.    *)
(* A drain is at one point at a time, so its steps share one fairness.     *)
(***************************************************************************)
Spec ==
    /\ Init /\ [][Next]_vars
    /\ WF_vars(Storing /\ Indexing)
    /\ SF_vars(Draining(DrainNext))

-----------------------------------------------------------------------------
(***************************************************************************)
(* Properties                                                              *)
(***************************************************************************)

\* The fan-out is not atomic with the insertion of the event, and a replayed
\* event enqueues nothing, so a crash or a statement that throws in between loses
\* deliveries for good.  Nothing else does, be it a request that fails, a page
\* stored again, a registration or a drain; and a fault costs the deliveries of at
\* most the one event that was being stored.
DeliveriesLostOnlyToFaults ==
    [][\A e \in Event :
          ~(Missed(e)' \subseteq Missed(e))
              => scan # NULL /\ scan.event = e /\ faults' > faults]_vars

\* A delivery a subscriber has acknowledged is never posted, retried or failed
\* again, whatever the drains in between and the state of its webhook.
DeliveredIsFinal ==
    [][\A d \in DeliveryId :
          (deliveries[d] # NULL /\ deliveries[d].status = "delivered")
              => deliveries'[d] = deliveries[d] /\ ~(drain' # NULL /\ drain'.post = d)]_vars

Waiting(d) == Selected(d) /\ webhooks[d[1]].active

\* As many rows as a drain takes are at least as old.
Crowded(d) ==
    Cardinality({x \in DeliveryId \ {d} :
                    Selected(x) /\ deliveries[x].next <= deliveries[d].next}) >= Limit

\* A due delivery of an active webhook is posted, and only a full page of rows that
\* are as old can hold it back (the rows of a disabled webhook can for ever, as
\* cancelling them neither delays nor removes them).
DueIsPosted ==
    \A d \in Followed :
        Waiting(d) ~> (~Waiting(d) \/ Crowded(d) \/ (drain # NULL /\ drain.post = d))

=============================================================================
