---------------------------- MODULE EventIndexer ----------------------------
(***************************************************************************)
(* backend: the indexer that polls the chain for events page by page,      *)
(* stores the new ones and enqueues a webhook delivery for each            *)
(* subscriber, and the table of subscribers it reads.                      *)
(*                                                                         *)
(* Node runs one callback at a time.  The indexer gives way to others only *)
(* while it awaits a page; from the answer to the next request it runs     *)
(* through, but every statement it executes is durable on its own: one of  *)
(* them may throw, or the process die, after the ones before.              *)
(***************************************************************************)
EXTENDS Integers, Sequences, FiniteSets

CONSTANTS
    Targets,        \* sequence of [contract, type]: indexerTargets
    Event,          \* events the contracts emit: [contract, type, tx, ledger]
    PageSize,       \* pageSize
    Webhook,        \* webhook ids
    Requested,      \* bound: the subscriptions clients ask for, <<webhook, type>>
    MaxNow,         \* bound: last second explored
    MaxLedger,      \* bound: last ledger explored
    MaxFaults,      \* bound: process deaths and statements that throw
    NULL

Target == {Targets[i] : i \in 1 .. Len(Targets)}
Type   == {t.type : t \in Target}

ASSUME IndexerAssumption ==
    /\ Targets \in Seq(Target)
    /\ \A e \in Event : e.type \in Type /\ e.ledger \in 1 .. MaxLedger
    /\ PageSize \in Nat \ {0} /\ Requested \subseteq Webhook \X Type
    /\ MaxNow \in Nat /\ MaxLedger \in Nat /\ MaxFaults \in Nat

Registration == [type : Type, active : BOOLEAN]

VARIABLES
    latest,     \* latest closed ledger of the chain
    cursors,    \* ledger_cursors.last_ledger by event type, NULL where absent
    indexed,    \* indexed_events rows
    webhooks,   \* webhook_registrations rows, NULL where absent
    deliveries, \* webhook_deliveries rows by webhook and event, NULL where absent
    scan,       \* the tick in progress, or NULL between ticks
    now,        \* config.now()
    faults,     \* process deaths and statements that threw so far
    owed        \* history: who subscribed to an event when it was indexed

indexerVars == <<cursors, indexed, scan, owed>>

Scan == [target : 1 .. Len(Targets), from : 0 .. MaxLedger + 1, base : 0 .. MaxLedger,
         high : 0 .. MaxLedger, batch : SUBSET Event, event : Event \cup {NULL},
         todo : SUBSET Webhook, next : (0 .. MaxLedger) \cup {NULL},
         step : {"fetch", "store"}]

ASSUME NullIsNoRecord == NULL \notin Registration /\ NULL \notin Scan

IndexerTypeOK ==
    /\ latest \in 0 .. MaxLedger
    /\ cursors \in [Type -> (0 .. MaxLedger) \cup {NULL}]
    /\ indexed \subseteq Event
    /\ webhooks \in [Webhook -> Registration \cup {NULL}]
    /\ scan \in Scan \cup {NULL}
    /\ now \in 0 .. MaxNow
    /\ faults \in 0 .. MaxFaults
    /\ owed \in [Event -> SUBSET Webhook]

IndexerInit ==
    /\ latest = 0
    /\ cursors = [t \in Type |-> NULL]
    /\ indexed = {}
    /\ webhooks = [w \in Webhook |-> NULL]
    /\ deliveries = [d \in Webhook \X Event |-> NULL]
    /\ scan = NULL
    /\ now = 0
    /\ faults = 0
    /\ owed = [e \in Event |-> {}]

\* The indexer is between an answer of the RPC and its next await.
Storing == scan # NULL /\ scan.step = "store"

-----------------------------------------------------------------------------
(***************************************************************************)
(* The RPC endpoint                                                        *)
(***************************************************************************)

Matching(t, from) == {e \in Event : /\ e.contract = t.contract /\ e.type = t.type
                                    /\ e.ledger >= from /\ e.ledger <= latest}

\* A page holds the oldest matching events, at most PageSize of them; the next
\* page starts, inclusively, at the ledger of the first one left out.
Pages(t, from) ==
    {page \in SUBSET Matching(t, from) :
        /\ Cardinality(page) <= PageSize
        /\ page = {} => Matching(t, from) = {}
        /\ \A e \in page, f \in Matching(t, from) \ page : e.ledger <= f.ledger}

NextLedger(t, from, page) ==
    LET rest == Matching(t, from) \ page
    IN  IF rest = {} THEN NULL
        ELSE CHOOSE n \in 0 .. MaxLedger :
                /\ \E e \in rest : e.ledger = n
                /\ \A e \in rest : n <= e.ledger

-----------------------------------------------------------------------------
(***************************************************************************)
(* A tick                                                                  *)
(***************************************************************************)

\* indexTarget reads the cursor of the event type, whatever the contract.
FromCursor(i, table) ==
    LET c == table[Targets[i].type]
    IN  [target |-> i,
         from |-> IF c = NULL THEN 0 ELSE c + 1,
         base |-> IF c = NULL THEN 0 ELSE c,
         high |-> IF c = NULL THEN 0 ELSE c,
         batch |-> {}, event |-> NULL, todo |-> {}, next |-> NULL, step |-> "fetch"]

\* The tick goes on to the next target, or ends.
AfterTarget(i, table) == IF i < Len(Targets) THEN FromCursor(i + 1, table) ELSE NULL

StartTick ==
    /\ scan = NULL
    /\ scan' = AfterTarget(0, cursors)
    /\ UNCHANGED <<cursors, indexed, owed>>

FetchPage ==
    /\ scan # NULL
    /\ scan.step = "fetch"
    /\ LET t == Targets[scan.target]
       IN  \E page \in Pages(t, scan.from) :
              scan' = IF page = {} THEN AfterTarget(scan.target, cursors)
                      ELSE [scan EXCEPT !.batch = page, !.step = "store",
                                        !.next = NextLedger(t, scan.from, page)]
    /\ UNCHANGED <<cursors, indexed, owed>>

\* The request fails for good (withRetry gives up): the tick is abandoned.
FetchFails ==
    /\ scan # NULL
    /\ scan.step = "fetch"
    /\ scan' = NULL
    /\ UNCHANGED <<cursors, indexed, owed>>

\* The unique index of indexed_events.
SameEvent(e, f) == e.contract = f.contract /\ e.type = f.type /\ e.tx = f.tx

Known(e) == \E f \in indexed : SameEvent(e, f)

\* Mutant: one subscriber is served.
OneSubscriber(type) ==
    LET all == {w \in Webhook : webhooks[w] # NULL /\ webhooks[w].type = type
                                                   /\ webhooks[w].active}
    IN  IF all = {} THEN {} ELSE {CHOOSE w \in all : TRUE}

\* listWebhooksByEventType
Subscribers(type) ==
    {w \in Webhook : webhooks[w] # NULL /\ webhooks[w].type = type /\ webhooks[w].active}

\* insertIndexedEventIfAbsent, and the subscribers a new event is for.
StoreEvent ==
    /\ Storing
    /\ scan.todo = {}
    /\ \E e \in scan.batch :
          /\ scan' = [scan EXCEPT
                 !.batch = @ \ {e}, !.event = e,
                 !.todo = IF Known(e) THEN {} ELSE Subscribers(e.type),
                 !.high = IF e.ledger > @ THEN e.ledger ELSE @]
          /\ indexed' = IF Known(e) THEN indexed ELSE indexed \cup {e}
          /\ owed' = IF Known(e) THEN owed
                     ELSE [owed EXCEPT ![e] =
                             {w \in Webhook : webhooks[w] \in [type : {e.type}, active : {TRUE}]}]
    /\ UNCHANGED cursors

\* insertWebhookDelivery; the new row is due at once.
Enqueue ==
    /\ Storing
    /\ \E w \in scan.todo :
          /\ deliveries' = [deliveries EXCEPT ![<<w, scan.event>>] =
                 [status |-> "pending", attempts |-> 0, next |-> now]]
          /\ scan' = [scan EXCEPT !.todo = @ \ {w}]
    /\ UNCHANGED <<cursors, indexed, owed>>

\* Mutant: the cursor moves to the end of the chain, not of the page.
CursorToLatest ==
    IF scan.high > scan.base THEN [cursors EXCEPT ![Targets[scan.target].type] = latest]
    ELSE cursors

\* The cursor moves to the highest ledger stored, if that is progress.
CursorToHigh ==
    IF scan.high > scan.base THEN [cursors EXCEPT ![Targets[scan.target].type] = scan.high]
    ELSE cursors

\* The page is stored: upsertCursor, then the next page or the next target, which
\* reads the cursor just written if it has the same event type.
AdvanceCursor ==
    /\ Storing
    /\ scan.batch = {} /\ scan.todo = {}
    /\ cursors' = CursorToHigh
    /\ scan' = IF scan.next # NULL
               THEN [scan EXCEPT !.step = "fetch", !.from = scan.next, !.event = NULL,
                                 !.next = NULL]
               ELSE AfterTarget(scan.target, cursors')
    /\ UNCHANGED <<indexed, owed>>

Fault == faults < MaxFaults /\ faults' = faults + 1

\* A statement throws while the page is stored: scheduleTick catches it and the
\* tick is abandoned, but the rows written before it stay.
StatementFails ==
    /\ Storing
    /\ Fault
    /\ scan' = NULL
    /\ UNCHANGED <<cursors, indexed, owed>>

IndexerNext ==
    \/ /\ StartTick \/ FetchPage \/ FetchFails \/ StoreEvent \/ AdvanceCursor
       /\ UNCHANGED <<deliveries, faults>>
    \/ Enqueue /\ UNCHANGED faults
    \/ StatementFails /\ UNCHANGED deliveries

-----------------------------------------------------------------------------
(***************************************************************************)
(* The routes that change registrations                                    *)
(***************************************************************************)

\* POST /webhooks
RegisterWebhook(w, type) ==
    /\ webhooks[w] = NULL
    /\ webhooks' = [webhooks EXCEPT ![w] = [type |-> type, active |-> TRUE]]

\* PATCH and DELETE /webhooks/:id
SetWebhookActive(w, active) ==
    /\ webhooks[w] # NULL
    /\ webhooks' = [webhooks EXCEPT ![w].active = active]

RoutesNext ==
    /\ ~Storing
    /\ \/ \E r \in Requested : RegisterWebhook(r[1], r[2])
       \/ \E w \in Webhook, active \in BOOLEAN : SetWebhookActive(w, active)

-----------------------------------------------------------------------------
(***************************************************************************)
(* Properties                                                              *)
(***************************************************************************)

\* Nothing behind the cursor is missing: an event at or below the cursor of its
\* type is stored, whatever crashed or failed, provided that the type is followed
\* for one contract (cursors are per type) and no other event of the target lies
\* in its ledger (a page may end between them, and the cursor moves past both).
NothingSkipped ==
    \A e \in Event :
        (/\ cursors[e.type] # NULL /\ e.ledger <= cursors[e.type]
         /\ \A t \in Target : t.type = e.type => t.contract = e.contract
         /\ \A f \in Event : (f.type = e.type /\ f.ledger = e.ledger) => f = e)
            => Known(e)

\* Deliveries an indexed event was owed and is not about to get.
Missed(e) ==
    {w \in owed[e] : /\ deliveries[<<w, e>>] = NULL
                     /\ ~(scan # NULL /\ scan.event = e /\ w \in scan.todo)}

=============================================================================
