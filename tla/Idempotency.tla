---------------------------- MODULE Idempotency ----------------------------
(***************************************************************************)
(* backend: the idempotency protocol around the three financial endpoints  *)
(* (create a listing, purchase, retire), with the services it calls, the   *)
(* database and the simulated chain.                                       *)
(*                                                                         *)
(* The handler is synchronous, so one request is worked on at a time.  Its *)
(* writes are separate and durable, in the order                           *)
(*     in_progress record, chain event, domain rows, completed record      *)
(* and the process may die, or a write may throw, between any two of them. *)
(* Replays of a cached response and the rejections 400, 409 and 422 write  *)
(* nothing, so they are stuttering steps.                                  *)
(***************************************************************************)
EXTENDS Integers

CONSTANTS
    Key,        \* Idempotency-Key headers
    Body,       \* request payloads, the endpoint included
    Ttl,        \* idempotencyTtlSeconds, in clock ticks
    MaxFaults,  \* bound: crashes and failed writes
    NULL

\* A purchase names the listing by the key it was created with, as every
\* identifier is a hash of a key (deriveId).
ASSUME IdempotencyAssumption ==
    /\ Body \subseteq [op : {"list", "buy", "retire"}, qty : Nat \ {0}, listing : Key]
    /\ Ttl \in Nat \ {0}
    /\ MaxFaults \in Nat

Age == 0 .. Ttl     \* elapsed time; Ttl stands for any longer time too

Record == [body : Body, status : {"in_progress", "completed"}, left : Age,
           response : Body \cup {NULL}]

Event == [body : Body, age : Age, seq : {0, 1}]

Work == [key : Key, body : Body, mode : {"execute", "reconcile"},
         step : {"submit", "apply", "complete"}, payload : Body, age : Age]

Row == [total : Nat, remaining : Int]

ASSUME NullIsNoRow == NULL \notin Record \cup Event \cup Work \cup Row \cup Body

VARIABLES
    records,    \* idempotency_records; left = expires_at - now, response_body
    events,     \* chain_events: the latest of each dedup_id; seq tells it from
                \* the one it replaced (parity of the sequence number)
    listings,   \* listings rows, by the key that created them
    purchases,  \* purchases rows, by key
    retired,    \* keys with a retirements row
    work,       \* the request being handled, or NULL
    faults      \* crashes and failed writes so far

vars == <<records, events, listings, purchases, retired, work, faults>>

TypeOK ==
    /\ records \in [Key -> Record \cup {NULL}]
    /\ events \in [Key -> Event \cup {NULL}]
    /\ listings \in [Key -> Row \cup {NULL}]
    /\ purchases \in [Key -> Body \cup {NULL}]
    /\ retired \subseteq Key
    /\ work \in Work \cup {NULL}
    /\ faults \in 0 .. MaxFaults

Init ==
    /\ records = [k \in Key |-> NULL]
    /\ events = [k \in Key |-> NULL]
    /\ listings = [k \in Key |-> NULL]
    /\ purchases = [k \in Key |-> NULL]
    /\ retired = {}
    /\ work = NULL
    /\ faults = 0

domain == <<listings, purchases, retired>>

-----------------------------------------------------------------------------
(***************************************************************************)
(* A request arrives                                                       *)
(***************************************************************************)

\* Mutant: an expired record is not purged.
LiveForever(k) == records[k] # NULL

\* An expired record is deleted by the next request with its key.
Live(k) == records[k] # NULL /\ records[k].left > 0

\* Past the checks on the record: absent, or left unfinished by the same payload
\* and known to the chain.
PassesRecord(k, body) ==
    Live(k) => /\ records[k].body = body
               /\ records[k].status = "in_progress"
               /\ events[k] # NULL

\* Mutant: the chain is not asked before executing.
NothingOnChain(k) == FALSE

OnChain(k) == events[k] # NULL /\ events[k].age < Ttl

\* Mutant: the chain is asked before the record, and the record written anew.
StartReconcileFirst(k, body) ==
    /\ work = NULL
    /\ OnChain(k)
    /\ records' = [records EXCEPT ![k] = NULL]
    /\ work' = [key |-> k, body |-> body, mode |-> "reconcile", step |-> "apply",
                payload |-> events[k].body, age |-> 0]
    /\ UNCHANGED <<events, domain, faults>>

\* The record stays as it is, or its expired predecessor is purged.
StartReconcile(k, body) ==
    /\ work = NULL
    /\ PassesRecord(k, body)
    /\ OnChain(k)
    /\ records' = [records EXCEPT ![k] = IF Live(k) THEN records[k] ELSE NULL]
    /\ work' = [key |-> k, body |-> body, mode |-> "reconcile", step |-> "apply",
                payload |-> events[k].body, age |-> 0]
    /\ UNCHANGED <<events, domain, faults>>

StartExecute(k, body) ==
    /\ work = NULL
    /\ PassesRecord(k, body)
    /\ ~OnChain(k)
    /\ records' = [records EXCEPT ![k] =
           IF Live(k) THEN records[k]
           ELSE [body |-> body, status |-> "in_progress", left |-> Ttl, response |-> NULL]]
    /\ work' = [key |-> k, body |-> body, mode |-> "execute", step |-> "submit",
                payload |-> body, age |-> 0]
    /\ UNCHANGED <<events, domain, faults>>

-----------------------------------------------------------------------------
(***************************************************************************)
(* The request is executed, or reconciled from its event                   *)
(***************************************************************************)

AtStep(step) == work # NULL /\ work.step = step

\* Mutant: a purchase is not compared with what is left of the listing.
AnyPurchaseAccepted(body) == body.op = "buy" => listings[body.listing] # NULL

BusinessAccepts(body) ==
    body.op = "buy" => /\ listings[body.listing] # NULL
                       /\ body.qty <= listings[body.listing].remaining

\* A BusinessError removes the record, so the key may be used again.
BusinessReject ==
    /\ AtStep("submit")
    /\ ~BusinessAccepts(work.body)
    /\ records' = [records EXCEPT ![work.key] = NULL]
    /\ work' = NULL
    /\ UNCHANGED <<events, domain, faults>>

\* Mutant: the response is cached before the domain transaction.
SubmitThenComplete ==
    /\ AtStep("submit")
    /\ BusinessAccepts(work.body)
    /\ events' = [events EXCEPT ![work.key] = [body |-> work.body, age |-> 0, seq |-> 0]]
    /\ work' = [work EXCEPT !.step = "complete"]
    /\ UNCHANGED <<records, domain, faults>>

Submit ==
    /\ AtStep("submit")
    /\ BusinessAccepts(work.body)
    /\ events' = [events EXCEPT ![work.key] =
           [body |-> work.body, age |-> 0,
            seq |-> IF events[work.key] = NULL THEN 0 ELSE 1 - events[work.key].seq]]
    /\ work' = [work EXCEPT !.step = "apply"]
    /\ UNCHANGED <<records, domain, faults>>

\* Fills applied to an earlier row of the listing are preserved.
ApplyListing(k, p) ==
    /\ listings' = [listings EXCEPT ![k] =
           [total |-> p.qty,
            remaining |-> IF listings[k] = NULL THEN p.qty ELSE listings[k].remaining]]
    /\ UNCHANGED <<purchases, retired>>

\* decrementListing
Filled(p) == [listings EXCEPT ![p.listing] =
                 [total |-> listings[p.listing].total,
                  remaining |-> listings[p.listing].remaining - p.qty]]

\* Mutant: a purchase row that exists does not stop the decrement.
ApplyPurchaseAgain(k, p) ==
    /\ purchases' = [purchases EXCEPT ![k] = p]
    /\ listings' = Filled(p)
    /\ UNCHANGED retired

\* The listing is decremented only when the purchase row is first inserted.
ApplyPurchase(k, p) ==
    IF purchases[k] # NULL THEN UNCHANGED domain
    ELSE /\ purchases' = [purchases EXCEPT ![k] = p]
         /\ listings' = Filled(p)
         /\ UNCHANGED retired

ApplyRetirement(k, p) ==
    /\ retired' = retired \cup {k}
    /\ UNCHANGED <<listings, purchases>>

\* An event of another endpoint lacks the columns that are NOT NULL: INSERT OR
\* IGNORE skips the retirement, the other two statements throw.
ForeignEvent == work.payload.op # work.body.op

Apply ==
    /\ AtStep("apply")
    /\ \/ ~ForeignEvent /\ work.body.op = "list" /\ ApplyListing(work.key, work.payload)
       \/ ~ForeignEvent /\ work.body.op = "buy" /\ ApplyPurchase(work.key, work.payload)
       \/ ~ForeignEvent /\ work.body.op = "retire" /\ ApplyRetirement(work.key, work.payload)
       \/ ForeignEvent /\ work.body.op = "retire" /\ UNCHANGED domain
    /\ work' = [work EXCEPT !.step = "complete"]
    /\ UNCHANGED <<records, events, faults>>

ReconcileThrows ==
    /\ AtStep("apply")
    /\ ForeignEvent
    /\ work.body.op # "retire"
    /\ work' = NULL
    /\ UNCHANGED <<records, events, domain, faults>>

\* completeRecord: on conflict the fingerprint and the expiry are kept.
Complete ==
    LET old == records[work.key]
    IN  /\ AtStep("complete")
        /\ records' = [records EXCEPT ![work.key] =
               [body     |-> IF old = NULL THEN work.body ELSE old.body,
                status   |-> "completed",
                left     |-> IF old = NULL THEN Ttl - work.age ELSE old.left,
                response |-> work.payload]]
        /\ work' = NULL
        /\ UNCHANGED <<events, domain, faults>>

\* submit or the domain transaction throws inside the try block of an execution.
ExecuteFails ==
    /\ faults < MaxFaults
    /\ AtStep("submit") \/ AtStep("apply")
    /\ work.mode = "execute"
    /\ records' = [records EXCEPT ![work.key] = NULL]
    /\ work' = NULL
    /\ faults' = faults + 1
    /\ UNCHANGED <<events, domain>>

\* The process dies, or a write outside that try block throws.
Interrupted ==
    /\ faults < MaxFaults
    /\ work # NULL
    /\ work' = NULL
    /\ faults' = faults + 1
    /\ UNCHANGED <<records, events, domain>>

Older(age) == IF age < Ttl THEN age + 1 ELSE Ttl

Tick ==
    /\ records' = [k \in Key |->
           IF records[k] # NULL /\ records[k].left > 0
           THEN [records[k] EXCEPT !.left = @ - 1] ELSE records[k]]
    /\ events' = [k \in Key |->
           IF events[k] = NULL THEN NULL ELSE [events[k] EXCEPT !.age = Older(@)]]
    /\ work' = IF work = NULL THEN NULL ELSE [work EXCEPT !.age = Older(@)]
    /\ UNCHANGED <<domain, faults>>

Next ==
    \/ \E k \in Key, body \in Body : StartReconcile(k, body)
    \/ \E k \in Key, body \in Body : StartExecute(k, body)
    \/ BusinessReject
    \/ Submit
    \/ Apply
    \/ ReconcileThrows
    \/ Complete
    \/ ExecuteFails
    \/ Interrupted
    \/ Tick

\* Time passes; nothing is assumed of clients or of the handler.
Spec == Init /\ [][Next]_vars /\ WF_vars(Tick)

-----------------------------------------------------------------------------
(***************************************************************************)
(* Properties                                                              *)
(***************************************************************************)

\* No double execution on chain: a key is submitted again only when its latest
\* event is at least a TTL old, whatever crashed, threw or was retried since.
SubmittedOncePerTtl ==
    [][\A k \in Key :
          (events[k] # NULL /\ events'[k].seq # events[k].seq)
              => events[k].age = Ttl]_vars

\* Fills are exact: quantity_remaining of an existing listing moves only in the
\* step that first inserts a purchase of it, and by that purchase's quantity.
FillsExact ==
    [][\A l \in Key : listings[l] # NULL =>
          \/ /\ listings'[l].remaining = listings[l].remaining
             /\ \A k \in Key : (purchases[k] = NULL /\ purchases'[k] # NULL)
                                   => purchases'[k].listing # l
          \/ \E k \in Key :
                /\ purchases[k] = NULL /\ purchases'[k] # NULL
                /\ purchases'[k].listing = l
                /\ listings'[l].remaining = listings[l].remaining - purchases'[k].qty]_vars

HasRow(op, k) == \/ op = "list"   /\ listings[k] # NULL
                 \/ op = "buy"    /\ purchases[k] # NULL
                 \/ op = "retire" /\ k \in retired

\* A cached success is backed by the effect it reports: the key has an event on
\* the chain and, for an answer of the request's own endpoint, its domain row.
SuccessIsBacked ==
    \A k \in Key : (records[k] # NULL /\ records[k].status = "completed") =>
        /\ events[k] # NULL
        /\ records[k].response.op = records[k].body.op => HasRow(records[k].body.op, k)

\* What a client was answered is what every replay within the TTL answers: a
\* completed record keeps its fingerprint and response until it expires.
ReplayKept ==
    [][\A k \in Key : (Live(k) /\ records[k].status = "completed") =>
          /\ records'[k] # NULL
          /\ records'[k].status = "completed"
          /\ records'[k].body = records[k].body
          /\ records'[k].response = records[k].response]_vars

\* Without a lost write no listing is oversold.  A purchase settled on chain whose
\* rows were lost is not yet in quantity_remaining; others may fill it meanwhile.
OversoldOnlyAfterFault ==
    \A l \in Key : (listings[l] # NULL /\ listings[l].remaining < 0) => faults > 0

\* Requests with key k are answered 409.
Blocked(k) == work = NULL /\ Live(k) /\ records[k].status = "in_progress" /\ events[k] = NULL

\* A key that a crash left in progress before the chain was reached answers 409
\* only until the record expires: no key is blocked for ever.
BlockedKeyFreed == \A k \in Key : Blocked(k) ~> ~Blocked(k)

=============================================================================
