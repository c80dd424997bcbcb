------------------------- MODULE Idempotency_proofs -------------------------
(***************************************************************************)
(* Proofs about Idempotency, for any keys, payloads, TTL and number of     *)
(* faults.                                                                 *)
(***************************************************************************)
EXTENDS Idempotency, TLAPS

\* A request about to be submitted has no young event on the chain.
SubmitInv == AtStep("submit") =>
                 /\ work.payload = work.body
                 /\ events[work.key] = NULL \/ events[work.key].age = Ttl

\* The record of the request being handled is its own, and not completed.
RecordInv == (work # NULL /\ records[work.key] # NULL) =>
                 /\ records[work.key].body = work.body
                 /\ records[work.key].status = "in_progress"

\* A purchase known to the chain, or about to be applied, names a listing row.
ListedInv ==
    /\ \A k \in Key : (events[k] # NULL /\ events[k].body.op = "buy")
                          => listings[events[k].body.listing] # NULL
    /\ (AtStep("apply") /\ work.payload.op = "buy")
           => listings[work.payload.listing] # NULL

\* Past the submission there is an event, past the transaction a row.
BackedInv ==
    /\ AtStep("apply") \/ AtStep("complete") => events[work.key] # NULL
    /\ (AtStep("complete") /\ work.payload.op = work.body.op)
           => HasRow(work.body.op, work.key)
    /\ SuccessIsBacked

IInv == TypeOK /\ SubmitInv /\ RecordInv /\ ListedInv /\ BackedInv

-----------------------------------------------------------------------------

\* NULL is none of the values the tables hold.
LEMMA NullFacts == /\ NULL \notin Record /\ NULL \notin Event /\ NULL \notin Work
                   /\ NULL \notin Row /\ NULL \notin Body
BY NullIsNoRow

\* The numbers and records a payload is made of.
LEMMA BodyFacts ==
    /\ \A b \in Body : b.qty \in Nat /\ b.listing \in Key /\ b.op \in {"list", "buy", "retire"}
    /\ Ttl \in Nat /\ Ttl > 0 /\ 0 \in Age /\ Ttl \in Age
    /\ \A n \in Age : n \in Int /\ Older(n) \in Age /\ Ttl - n \in Age
    /\ \A n \in Age : n > 0 => n - 1 \in Age
<1>1. \A b \in Body : b \in [op : {"list", "buy", "retire"}, qty : Nat \ {0}, listing : Key]
  BY IdempotencyAssumption
<1>2. \A b \in Body : b.qty \in Nat /\ b.listing \in Key /\ b.op \in {"list", "buy", "retire"}
  BY <1>1
<1>3. Ttl \in Nat /\ Ttl > 0 /\ 0 \in Age /\ Ttl \in Age
  BY IdempotencyAssumption DEF Age
<1>4. \A n \in Age : n \in Int /\ Older(n) \in Age /\ Ttl - n \in Age
  BY <1>3 DEF Age, Older
<1>5. \A n \in Age : n > 0 => n - 1 \in Age
  BY <1>3 DEF Age
<1>6. QED
  BY <1>2, <1>3, <1>4, <1>5

\* The empty database satisfies the invariant.
LEMMA InvInit == Init => IInv
<1>1. Init => TypeOK
  BY IdempotencyAssumption DEF Init, TypeOK
<1>2. Init => SubmitInv /\ RecordInv /\ ListedInv /\ BackedInv
  BY DEF Init, SubmitInv, RecordInv, ListedInv, BackedInv, SuccessIsBacked, AtStep
<1>3. QED
  BY <1>1, <1>2 DEF IInv

\* The clock changes no record's status or payload and no event's payload.
LEMMA TickInv == IInv /\ Tick => IInv'
<1> SUFFICES ASSUME IInv, Tick PROVE IInv'
  OBVIOUS
<1> USE NullFacts, BodyFacts
<1>r. \A k \in Key :
        /\ records[k] = NULL => records'[k] = NULL
        /\ records[k] # NULL =>
              /\ records'[k] \in Record /\ records'[k] # NULL
              /\ records'[k].body = records[k].body
              /\ records'[k].status = records[k].status
              /\ records'[k].response = records[k].response
  <2> SUFFICES ASSUME NEW k \in Key
               PROVE  /\ records[k] = NULL => records'[k] = NULL
                      /\ records[k] # NULL =>
                            /\ records'[k] \in Record /\ records'[k] # NULL
                            /\ records'[k].body = records[k].body
                            /\ records'[k].status = records[k].status
                            /\ records'[k].response = records[k].response
    OBVIOUS
  <2>1. records[k] \in Record \cup {NULL}
    BY DEF IInv, TypeOK
  <2>2. CASE records[k] # NULL /\ records[k].left > 0
    <3>1. records'[k] = [records[k] EXCEPT !.left = records[k].left - 1]
      BY <2>2 DEF Tick
    <3>2. records[k] \in Record
      BY <2>1, <2>2
    <3>3. records[k].left - 1 \in Age
      BY <2>2, <3>2 DEF Record
    <3>4. records'[k] \in Record
      BY <3>1, <3>2, <3>3 DEF Record
    <3>5. QED
      BY <2>2, <3>1, <3>2, <3>4 DEF Record
  <2>3. CASE ~(records[k] # NULL /\ records[k].left > 0)
    BY <2>1, <2>3 DEF Tick
  <2>4. QED
    BY <2>2, <2>3
<1>e. \A k \in Key :
        /\ events[k] = NULL => events'[k] = NULL
        /\ events[k] # NULL =>
              /\ events'[k] \in Event /\ events'[k] # NULL
              /\ events'[k].body = events[k].body
              /\ events[k].age = Ttl => events'[k].age = Ttl
  <2> SUFFICES ASSUME NEW k \in Key, events[k] # NULL
               PROVE  /\ events'[k] \in Event /\ events'[k] # NULL
                      /\ events'[k].body = events[k].body
                      /\ events[k].age = Ttl => events'[k].age = Ttl
    BY DEF Tick
  <2>1. events[k] \in Event
    BY DEF IInv, TypeOK
  <2>2. events'[k] = [events[k] EXCEPT !.age = Older(events[k].age)]
    BY DEF Tick
  <2>3. Older(events[k].age) \in Age
    BY <2>1 DEF Event
  <2>4. events[k].age = Ttl => Older(events[k].age) = Ttl
    BY DEF Older
  <2>5. QED
    BY <2>1, <2>2, <2>3, <2>4 DEF Event
<1>w. /\ work = NULL => work' = NULL
      /\ work # NULL =>
            /\ work' \in Work /\ work' # NULL
            /\ work'.key = work.key /\ work'.body = work.body
            /\ work'.step = work.step /\ work'.payload = work.payload
  <2>1. CASE work = NULL
    BY <2>1 DEF Tick
  <2>2. CASE work # NULL
    <3>1. work \in Work
      BY <2>2 DEF IInv, TypeOK
    <3>2. work' = [work EXCEPT !.age = Older(work.age)]
      BY <2>2 DEF Tick
    <3>3. Older(work.age) \in Age
      BY <3>1 DEF Work
    <3>4. QED
      BY <2>2, <3>1, <3>2, <3>3 DEF Work
  <2>3. QED
    BY <2>1, <2>2
<1>t. TypeOK'
  <2>1. records' \in [Key -> Record \cup {NULL}]
    <3>1. records' = [k \in Key |-> records'[k]]
      BY DEF Tick
    <3>2. QED
      BY <1>r, <3>1
  <2>2. events' \in [Key -> Event \cup {NULL}]
    <3>1. events' = [k \in Key |-> events'[k]]
      BY DEF Tick
    <3>2. QED
      BY <1>e, <3>1
  <2>3. work' \in Work \cup {NULL}
    BY <1>w
  <2>4. QED
    BY <2>1, <2>2, <2>3 DEF IInv, TypeOK, Tick, domain
<1>k. work # NULL => work.key \in Key
  BY DEF IInv, TypeOK, Work
<1>s. \A step : AtStep(step)' <=> AtStep(step)
  BY <1>w DEF AtStep
<1>1. SubmitInv'
  <2>1. AtStep("submit") => /\ work.payload = work.body
                            /\ events[work.key] = NULL \/ events[work.key].age = Ttl
    BY DEF IInv, SubmitInv
  <2>2. QED
    BY <2>1, <1>s, <1>w, <1>e, <1>k DEF SubmitInv, AtStep
<1>2. RecordInv'
  BY <1>w, <1>r, <1>k DEF IInv, RecordInv
<1>3. ListedInv'
  <2>1. listings' = listings
    BY DEF Tick, domain
  <2>2. QED
    BY <2>1, <1>e, <1>w, <1>s DEF IInv, ListedInv, AtStep
<1>4. BackedInv'
  <2>1. \A op, k : HasRow(op, k)' <=> HasRow(op, k)
    BY DEF Tick, domain, HasRow
  <2>2. SuccessIsBacked'
    BY <2>1, <1>r, <1>e DEF IInv, BackedInv, SuccessIsBacked
  <2>3. QED
    BY <2>1, <2>2, <1>s, <1>w, <1>e, <1>k DEF IInv, BackedInv, AtStep
<1>5. QED
  BY <1>t, <1>1, <1>2, <1>3, <1>4 DEF IInv
\* A request that reaches the chain's event, or finds none, is taken up.
LEMMA StartInv ==
    ASSUME IInv, NEW k \in Key, NEW body \in Body, StartReconcile(k, body) \/ StartExecute(k, body)
    PROVE  IInv'
<1> USE NullFacts, BodyFacts
<1>1. CASE StartReconcile(k, body)
  <2>1. events[k] \in Event /\ events[k] # NULL
    BY <1>1 DEF StartReconcile, OnChain, IInv, TypeOK
  <2>2. events[k].body \in Body
    BY <2>1 DEF Event
  <2>3. /\ work' \in Work /\ work' # NULL /\ work'.key = k /\ work'.body = body
        /\ work'.step = "apply" /\ work'.payload = events[k].body
    BY <1>1, <2>2 DEF StartReconcile, Work
  <2>4. records' = [records EXCEPT ![k] = IF Live(k) THEN records[k] ELSE NULL]
    BY <1>1 DEF StartReconcile
  <2>5. UNCHANGED <<events, listings, purchases, retired, faults>>
    BY <1>1 DEF StartReconcile, domain
  <2>6. TypeOK'
    BY <2>3, <2>4, <2>5 DEF IInv, TypeOK
  <2>7. SubmitInv'
    BY <2>3 DEF SubmitInv, AtStep
  <2>8. RecordInv'
    <3>1. Live(k) => records[k].body = body /\ records[k].status = "in_progress"
      BY <1>1 DEF StartReconcile, PassesRecord
    <3>2. records'[k] = IF Live(k) THEN records[k] ELSE NULL
      BY <2>4 DEF IInv, TypeOK
    <3>3. QED
      BY <2>3, <3>1, <3>2 DEF RecordInv
  <2>9. ListedInv'
    BY <2>1, <2>3, <2>5 DEF IInv, ListedInv, AtStep
  <2>10. SuccessIsBacked'
    <3>1. \A j \in Key : records'[j] # NULL => records'[j] = records[j]
      BY <2>4 DEF IInv, TypeOK
    <3>2. QED
      BY <2>5, <3>1 DEF IInv, BackedInv, SuccessIsBacked, HasRow
  <2>11. BackedInv'
    BY <2>1, <2>3, <2>5, <2>10 DEF BackedInv, AtStep
  <2>12. QED
    BY <2>6, <2>7, <2>8, <2>9, <2>11 DEF IInv
<1>2. CASE StartExecute(k, body)
  <2> DEFINE fresh == [body |-> body, status |-> "in_progress", left |-> Ttl, response |-> NULL]
  <2>1. fresh \in Record /\ fresh # NULL /\ fresh.body = body /\ fresh.status = "in_progress"
    BY DEF Record
  <2>3. /\ work' \in Work /\ work' # NULL /\ work'.key = k /\ work'.body = body
        /\ work'.step = "submit" /\ work'.payload = body
    BY <1>2 DEF StartExecute, Work
  <2>4. records' = [records EXCEPT ![k] = IF Live(k) THEN records[k] ELSE fresh]
    BY <1>2 DEF StartExecute
  <2> HIDE DEF fresh
  <2>5. UNCHANGED <<events, listings, purchases, retired, faults>>
    BY <1>2 DEF StartExecute, domain
  <2>6. TypeOK'
    BY <2>1, <2>3, <2>4, <2>5 DEF IInv, TypeOK
  <2>7. SubmitInv'
    <3>1. events[k] = NULL \/ (events[k] \in Event /\ ~(events[k].age < Ttl))
      BY <1>2 DEF StartExecute, OnChain, IInv, TypeOK
    <3>2. events[k] = NULL \/ events[k].age = Ttl
      BY <3>1 DEF Event, Age
    <3>3. QED
      BY <2>3, <2>5, <3>2 DEF SubmitInv, AtStep
  <2>8. RecordInv'
    <3>1. Live(k) => records[k].body = body /\ records[k].status = "in_progress"
      BY <1>2 DEF StartExecute, PassesRecord
    <3>2. records'[k] = IF Live(k) THEN records[k] ELSE fresh
      BY <2>4 DEF IInv, TypeOK
    <3>3. QED
      BY <2>1, <2>3, <3>1, <3>2 DEF RecordInv
  <2>9. ListedInv'
    BY <2>3, <2>5 DEF IInv, ListedInv, AtStep
  <2>10. SuccessIsBacked'
    <3>1. \A j \in Key : (records'[j] # NULL /\ records'[j].status = "completed")
                             => records'[j] = records[j]
      BY <2>1, <2>4 DEF IInv, TypeOK
    <3>2. QED
      BY <2>5, <3>1 DEF IInv, BackedInv, SuccessIsBacked, HasRow
  <2>11. BackedInv'
    BY <2>3, <2>5, <2>10 DEF BackedInv, AtStep
  <2>12. QED
    BY <2>6, <2>7, <2>8, <2>9, <2>11 DEF IInv
<1>3. QED
  BY <1>1, <1>2

\* A request leaves the handler without a success: its record stays or is deleted.
LEMMA AbandonInv ==
    ASSUME IInv, BusinessReject \/ ReconcileThrows \/ ExecuteFails \/ Interrupted
    PROVE  IInv'
<1> USE NullFacts, BodyFacts
<1>1. work \in Work /\ work # NULL /\ work' = NULL
  BY DEF BusinessReject, ReconcileThrows, ExecuteFails, Interrupted, AtStep, IInv, TypeOK
<1>2. /\ records' \in [Key -> Record \cup {NULL}]
      /\ \A j \in Key : records'[j] # NULL => records'[j] = records[j]
  <2>1. records' = records \/ records' = [records EXCEPT ![work.key] = NULL]
    BY DEF BusinessReject, ReconcileThrows, ExecuteFails, Interrupted
  <2>2. records \in [Key -> Record \cup {NULL}]
    BY DEF IInv, TypeOK
  <2>3. QED
    BY <2>1, <2>2
<1>3. UNCHANGED <<events, listings, purchases, retired>>
  BY DEF BusinessReject, ReconcileThrows, ExecuteFails, Interrupted, domain
<1>4. faults' \in 0 .. MaxFaults
  <2>1. faults' = faults \/ (faults < MaxFaults /\ faults' = faults + 1)
    BY DEF BusinessReject, ReconcileThrows, ExecuteFails, Interrupted
  <2>2. QED
    BY <2>1, IdempotencyAssumption DEF IInv, TypeOK
<1>5. TypeOK'
  BY <1>1, <1>2, <1>3, <1>4 DEF IInv, TypeOK
<1>6. SuccessIsBacked'
  BY <1>2, <1>3 DEF IInv, BackedInv, SuccessIsBacked, HasRow
<1>7. SubmitInv' /\ RecordInv' /\ ListedInv' /\ BackedInv'
  BY <1>1, <1>3, <1>6 DEF IInv, SubmitInv, RecordInv, ListedInv, BackedInv, AtStep
<1>8. QED
  BY <1>5, <1>7 DEF IInv

\* The chain accepts the submission; a purchase was checked against its listing.
LEMMA SubmitStepInv == ASSUME IInv, Submit PROVE IInv'
<1> USE NullFacts, BodyFacts
<1>1. work \in Work /\ work # NULL /\ work.step = "submit"
  BY DEF Submit, AtStep, IInv, TypeOK
<1> DEFINE seq == IF events[work.key] = NULL THEN 0 ELSE 1 - events[work.key].seq
           new == [body |-> work.body, age |-> 0, seq |-> seq]
<1>2. work.key \in Key /\ work.body \in Body
  BY <1>1 DEF Work
<1>3. seq \in {0, 1}
  <2>1. events[work.key] \in Event \cup {NULL}
    BY <1>2 DEF IInv, TypeOK
  <2>2. QED
    BY <2>1 DEF Event
<1>4. new \in Event /\ new # NULL /\ new.body = work.body
  BY <1>2, <1>3 DEF Event
<1>5. events' = [events EXCEPT ![work.key] = new]
  BY DEF Submit
<1> HIDE DEF seq, new
<1>6. /\ work' \in Work /\ work' # NULL /\ work'.step = "apply" /\ work'.key = work.key
      /\ work'.body = work.body /\ work'.payload = work.payload
  BY <1>1 DEF Submit, Work
<1>7. UNCHANGED <<records, listings, purchases, retired, faults>>
  BY DEF Submit, domain
<1>8. TypeOK'
  BY <1>4, <1>5, <1>6, <1>7 DEF IInv, TypeOK
<1>9. SubmitInv'
  BY <1>6 DEF SubmitInv, AtStep
<1>10. RecordInv'
  BY <1>1, <1>6, <1>7 DEF IInv, RecordInv
<1>11. events'[work.key] = new /\ \A j \in Key \ {work.key} : events'[j] = events[j]
  BY <1>2, <1>5 DEF IInv, TypeOK
<1>12. ListedInv'
  <2>1. work.body.op = "buy" => listings[work.body.listing] # NULL
    BY DEF Submit, BusinessAccepts
  <2>2. \A j \in Key : (events'[j] # NULL /\ events'[j].body.op = "buy")
                           => listings'[events'[j].body.listing] # NULL
    BY <1>4, <1>7, <1>11, <2>1 DEF IInv, ListedInv
  <2>3. work'.payload.op = "buy" => listings'[work'.payload.listing] # NULL
    BY <1>1, <1>6, <1>7, <2>1 DEF IInv, SubmitInv, AtStep
  <2>4. QED
    BY <2>2, <2>3 DEF ListedInv
<1>13. SuccessIsBacked'
  BY <1>4, <1>7, <1>11 DEF IInv, BackedInv, SuccessIsBacked, HasRow
<1>14. BackedInv'
  BY <1>4, <1>6, <1>11, <1>13 DEF BackedInv, AtStep
<1>15. QED
  BY <1>8, <1>9, <1>10, <1>12, <1>14 DEF IInv
\* What the domain transaction does to the tables: rows are only added, and a
\* row of the payload's endpoint is there afterwards.
LEMMA ApplyFacts ==
    ASSUME IInv, Apply
    PROVE  /\ listings' \in [Key -> Row \cup {NULL}]
           /\ purchases' \in [Key -> Body \cup {NULL}]
           /\ retired' \subseteq Key
           /\ \A k \in Key : listings[k] # NULL => listings'[k] # NULL
           /\ \A op : \A k \in Key : HasRow(op, k) => HasRow(op, k)'
           /\ work.payload.op = work.body.op =>
                 \/ work.body.op = "list"   /\ listings'[work.key] # NULL
                 \/ work.body.op = "buy"    /\ purchases'[work.key] # NULL
                 \/ work.body.op = "retire" /\ work.key \in retired'
<1> USE NullFacts, BodyFacts
<1>1. /\ work \in Work /\ work # NULL /\ work.step = "apply"
      /\ work.key \in Key /\ work.body \in Body /\ work.payload \in Body
  BY DEF Apply, AtStep, IInv, TypeOK, Work
<1>2. /\ listings \in [Key -> Row \cup {NULL}] /\ purchases \in [Key -> Body \cup {NULL}]
      /\ retired \subseteq Key
  BY DEF IInv, TypeOK
<1>3. CASE ~ForeignEvent /\ work.body.op = "list" /\ ApplyListing(work.key, work.payload)
  <2> DEFINE row == [total |-> work.payload.qty,
                     remaining |-> IF listings[work.key] = NULL THEN work.payload.qty
                                   ELSE listings[work.key].remaining]
  <2>1. row \in Row /\ row # NULL
    <3>1. listings[work.key] \in Row \cup {NULL}
      BY <1>1, <1>2
    <3>2. QED
      BY <1>1, <3>1 DEF Row
  <2>2. listings' = [listings EXCEPT ![work.key] = row]
    BY <1>3 DEF ApplyListing
  <2> HIDE DEF row
  <2>3. purchases' = purchases /\ retired' = retired
    BY <1>3 DEF ApplyListing
  <2>4. listings' \in [Key -> Row \cup {NULL}] /\ listings'[work.key] # NULL
    BY <1>1, <1>2, <2>1, <2>2
  <2>5. \A k \in Key : listings[k] # NULL => listings'[k] # NULL
    BY <1>1, <1>2, <2>1, <2>2
  <2>6. QED
    BY <1>2, <1>3, <2>3, <2>4, <2>5 DEF HasRow
<1>4. CASE ~ForeignEvent /\ work.body.op = "buy" /\ ApplyPurchase(work.key, work.payload)
  <2>1. CASE purchases[work.key] # NULL
    BY <1>2, <1>4, <2>1 DEF ApplyPurchase, domain, HasRow
  <2>2. CASE purchases[work.key] = NULL
    <3>1. listings[work.payload.listing] # NULL
      BY <1>1, <1>4 DEF IInv, ListedInv, AtStep, ForeignEvent
    <3> DEFINE row == [total |-> listings[work.payload.listing].total,
                       remaining |-> listings[work.payload.listing].remaining - work.payload.qty]
    <3>2. row \in Row /\ row # NULL
      <4>1. listings[work.payload.listing] \in Row
        BY <1>1, <1>2, <3>1
      <4>2. QED
        BY <1>1, <4>1 DEF Row
    <3>3. listings' = [listings EXCEPT ![work.payload.listing] = row]
      BY <1>4, <2>2 DEF ApplyPurchase, Filled
    <3> HIDE DEF row
    <3>4. purchases' = [purchases EXCEPT ![work.key] = work.payload] /\ retired' = retired
      BY <1>4, <2>2 DEF ApplyPurchase
    <3>5. /\ listings' \in [Key -> Row \cup {NULL}]
          /\ \A k \in Key : listings[k] # NULL => listings'[k] # NULL
      BY <1>1, <1>2, <3>2, <3>3
    <3>6. /\ purchases' \in [Key -> Body \cup {NULL}]
          /\ purchases'[work.key] # NULL
          /\ \A k \in Key : purchases[k] # NULL => purchases'[k] # NULL
      BY <1>1, <1>2, <3>4
    <3>7. QED
      BY <1>2, <1>4, <3>4, <3>5, <3>6 DEF HasRow
  <2>3. QED
    BY <2>1, <2>2
<1>5. CASE ~ForeignEvent /\ work.body.op = "retire" /\ ApplyRetirement(work.key, work.payload)
  BY <1>1, <1>2, <1>5 DEF ApplyRetirement, HasRow
<1>6. CASE ForeignEvent /\ work.body.op = "retire" /\ UNCHANGED domain
  BY <1>2, <1>6 DEF ForeignEvent, domain, HasRow
<1>7. QED
  BY <1>3, <1>4, <1>5, <1>6 DEF Apply

\* The domain transaction.
LEMMA ApplyInv == ASSUME IInv, Apply PROVE IInv'
<1> USE NullFacts, BodyFacts, ApplyFacts
<1>1. work \in Work /\ work # NULL /\ work.step = "apply" /\ work.key \in Key
  BY DEF Apply, AtStep, IInv, TypeOK, Work
<1>2. /\ work' \in Work /\ work' # NULL /\ work'.step = "complete" /\ work'.key = work.key
      /\ work'.body = work.body /\ work'.payload = work.payload
  BY <1>1 DEF Apply, Work
<1>3. UNCHANGED <<records, events, faults>>
  BY DEF Apply
<1>4. TypeOK'
  BY <1>2, <1>3 DEF IInv, TypeOK
<1>5. SubmitInv' /\ RecordInv'
  BY <1>1, <1>2, <1>3 DEF IInv, SubmitInv, RecordInv, AtStep
<1>6. ListedInv'
  <2>1. \A k \in Key : events[k] # NULL => events[k].body \in Body
    BY DEF IInv, TypeOK, Event
  <2>2. QED
    BY <1>2, <1>3, <2>1 DEF IInv, ListedInv, AtStep
<1>7. SuccessIsBacked'
  BY <1>3 DEF IInv, BackedInv, SuccessIsBacked
<1>8. BackedInv'
  <2>1. events[work.key] # NULL
    BY <1>1 DEF IInv, BackedInv, AtStep
  <2>2. (work.payload.op = work.body.op => HasRow(work.body.op, work.key))'
    BY <1>2 DEF HasRow
  <2>3. QED
    BY <1>2, <1>3, <1>7, <2>1, <2>2 DEF BackedInv, AtStep, HasRow
<1>9. QED
  BY <1>4, <1>5, <1>6, <1>8 DEF IInv

\* The response is cached and the request answered.
LEMMA CompleteInv == ASSUME IInv, Complete PROVE IInv'
<1> USE NullFacts, BodyFacts
<1>1. /\ work \in Work /\ work # NULL /\ work.step = "complete"
      /\ work.key \in Key /\ work.body \in Body /\ work.payload \in Body /\ work.age \in Age
  BY DEF Complete, AtStep, IInv, TypeOK, Work
<1> DEFINE old == records[work.key]
           new == [body     |-> IF old = NULL THEN work.body ELSE old.body,
                   status   |-> "completed",
                   left     |-> IF old = NULL THEN Ttl - work.age ELSE old.left,
                   response |-> work.payload]
<1>2. old \in Record \cup {NULL} /\ (old # NULL => old.body = work.body)
  BY <1>1 DEF IInv, TypeOK, RecordInv
<1>3. new.body = work.body /\ new.response = work.payload /\ new.left \in Age
  BY <1>1, <1>2 DEF Record
<1>4. new \in Record /\ new # NULL
  BY <1>1, <1>2, <1>3 DEF Record
<1>5. records' = [records EXCEPT ![work.key] = new]
  BY DEF Complete
<1> HIDE DEF old, new
<1>6. work' = NULL /\ UNCHANGED <<events, listings, purchases, retired, faults>>
  BY DEF Complete, domain
<1>7. TypeOK'
  BY <1>4, <1>5, <1>6 DEF IInv, TypeOK
<1>8. SuccessIsBacked'
  <2>1. \A k \in Key : records'[k] = IF k = work.key THEN new ELSE records[k]
    BY <1>5 DEF IInv, TypeOK
  <2>2. /\ events[work.key] # NULL
        /\ new.response.op = new.body.op => HasRow(new.body.op, work.key)
    BY <1>1, <1>3 DEF IInv, BackedInv, AtStep
  <2>3. QED
    BY <1>6, <2>1, <2>2 DEF IInv, BackedInv, SuccessIsBacked, HasRow
<1>9. SubmitInv' /\ RecordInv' /\ ListedInv' /\ BackedInv'
  BY <1>6, <1>8 DEF IInv, SubmitInv, RecordInv, ListedInv, BackedInv, AtStep
<1>10. QED
  BY <1>7, <1>9 DEF IInv

\* Every step of the protocol preserves the invariant.
LEMMA InvStep == IInv /\ [Next]_vars => IInv'
<1> SUFFICES ASSUME IInv, [Next]_vars PROVE IInv'
  OBVIOUS
<1>1. CASE Next
  BY <1>1, StartInv, AbandonInv, SubmitStepInv, ApplyInv, CompleteInv, TickInv DEF Next
<1>2. CASE UNCHANGED vars
  BY <1>2 DEF vars, IInv, TypeOK, SubmitInv, RecordInv, ListedInv, BackedInv,
              SuccessIsBacked, HasRow, AtStep
<1>3. QED
  BY <1>1, <1>2

\* The invariant holds throughout.
LEMMA InvCorrect == Spec => []IInv
BY InvInit, InvStep, PTL DEF Spec

-----------------------------------------------------------------------------

\* The tables, the chain's view and the request in flight keep their types; in
\* particular no purchase is ever applied to a listing that is not there.
THEOREM TypeCorrect == Spec => []TypeOK
<1>1. IInv => TypeOK
  BY DEF IInv
<1>2. QED
  BY <1>1, InvCorrect, PTL

\* A cached success has an event on the chain and its row in the database,
\* whatever the handler was interrupted by before.
THEOREM SuccessBacked == Spec => []SuccessIsBacked
<1>1. IInv => SuccessIsBacked
  BY DEF IInv, BackedInv
<1>2. QED
  BY <1>1, InvCorrect, PTL
\* A key is submitted to the chain again only when its latest event is at least
\* a TTL old.
THEOREM NoDoubleSubmission == Spec => SubmittedOncePerTtl
<1>1. ASSUME IInv, [Next]_vars, NEW k \in Key, events[k] # NULL, events'[k].seq # events[k].seq
      PROVE  events[k].age = Ttl
  <2> USE NullFacts, BodyFacts
  <2>1. CASE Submit
    <3>1. work.key \in Key
      BY <1>1, <2>1 DEF Submit, AtStep, IInv, TypeOK, Work
    <3>2. k = work.key
      BY <1>1, <2>1, <3>1 DEF Submit, IInv, TypeOK
    <3>3. QED
      BY <1>1, <2>1, <3>2 DEF Submit, IInv, SubmitInv
  <2>2. CASE Tick
    <3>1. events[k] \in Event
      BY <1>1 DEF IInv, TypeOK
    <3>2. events'[k] = [events[k] EXCEPT !.age = Older(events[k].age)]
      BY <1>1, <2>2 DEF Tick
    <3>3. events'[k].seq = events[k].seq
      BY <3>1, <3>2 DEF Event
    <3>4. QED
      BY <1>1, <3>3
  <2>3. CASE ~Submit /\ ~Tick
    <3>1. events' = events
      BY <1>1, <2>3 DEF Next, vars, StartReconcile, StartExecute, BusinessReject, Apply,
                        ReconcileThrows, Complete, ExecuteFails, Interrupted
    <3>2. QED
      BY <1>1, <3>1
  <2>4. QED
    BY <2>1, <2>2, <2>3
<1>2. IInv /\ [Next]_vars =>
        [\A k \in Key : (events[k] # NULL /\ events'[k].seq # events[k].seq)
                            => events[k].age = Ttl]_vars
  BY <1>1
<1>3. QED
  BY <1>2, InvCorrect, PTL DEF Spec, SubmittedOncePerTtl

\* What a step leaves of a completed record that has not expired.
KeptRecord(k) == (Live(k) /\ records[k].status = "completed") =>
                     /\ records'[k] # NULL
                     /\ records'[k].status = "completed"
                     /\ records'[k].body = records[k].body
                     /\ records'[k].response = records[k].response

\* Within the TTL every replay answers what was answered first.
THEOREM ReplaysAgree == Spec => ReplayKept
<1>1. ASSUME IInv, [Next]_vars, NEW k \in Key PROVE KeptRecord(k)
  <2> USE NullFacts, BodyFacts
  <2> SUFFICES ASSUME Live(k), records[k].status = "completed"
               PROVE  /\ records'[k] # NULL
                      /\ records'[k].status = "completed"
                      /\ records'[k].body = records[k].body
                      /\ records'[k].response = records[k].response
    BY DEF KeptRecord
  <2>1. records[k] \in Record /\ records[k] # NULL
    BY <1>1 DEF Live, IInv, TypeOK
  <2>2. work # NULL => work.key \in Key /\ work.key # k
    BY <1>1, <2>1 DEF IInv, TypeOK, Work, RecordInv
  <2>3. CASE \E j \in Key, body \in Body : StartReconcile(j, body) \/ StartExecute(j, body)
    <3>1. PICK j \in Key, body \in Body : StartReconcile(j, body) \/ StartExecute(j, body)
      BY <2>3
    <3>2. j # k
      BY <3>1 DEF StartReconcile, StartExecute, PassesRecord
    <3>3. records'[k] = records[k]
      BY <1>1, <3>1, <3>2 DEF StartReconcile, StartExecute, IInv, TypeOK
    <3>4. QED
      BY <2>1, <3>3
  <2>4. CASE BusinessReject \/ ExecuteFails \/ Complete
    <3>1. work # NULL
      BY <2>4 DEF BusinessReject, ExecuteFails, Complete, AtStep
    <3>2. records'[k] = records[k]
      BY <1>1, <2>2, <2>4, <3>1 DEF BusinessReject, ExecuteFails, Complete, IInv, TypeOK
    <3>3. QED
      BY <2>1, <3>2
  <2>5. CASE Tick
    <3>1. records'[k] = [records[k] EXCEPT !.left = records[k].left - 1]
      BY <1>1, <2>1, <2>5 DEF Tick, Live
    <3>2. records[k].left - 1 \in Age
      BY <2>1 DEF Record, Live
    <3>3. records'[k] \in Record
      BY <2>1, <3>1, <3>2 DEF Record
    <3>4. QED
      BY <2>1, <3>1, <3>3 DEF Record
  <2>6. CASE Submit \/ Apply \/ ReconcileThrows \/ Interrupted \/ UNCHANGED vars
    <3>1. records' = records
      BY <2>6 DEF Submit, Apply, ReconcileThrows, Interrupted, vars
    <3>2. QED
      BY <2>1, <3>1
  <2>7. QED
    BY <1>1, <2>3, <2>4, <2>5, <2>6 DEF Next
<1>2. IInv /\ [Next]_vars =>
        [\A k \in Key : (Live(k) /\ records[k].status = "completed") =>
            /\ records'[k] # NULL
            /\ records'[k].status = "completed"
            /\ records'[k].body = records[k].body
            /\ records'[k].response = records[k].response]_vars
  BY <1>1 DEF KeptRecord
<1>3. QED
  BY <1>2, InvCorrect, PTL DEF Spec, ReplayKept
\* What a step does to the quantity left of listing l.
ExactFill(l) == listings[l] # NULL =>
    \/ /\ listings'[l].remaining = listings[l].remaining
       /\ \A k \in Key : (purchases[k] = NULL /\ purchases'[k] # NULL)
                             => purchases'[k].listing # l
    \/ \E k \in Key :
          /\ purchases[k] = NULL /\ purchases'[k] # NULL
          /\ purchases'[k].listing = l
          /\ listings'[l].remaining = listings[l].remaining - purchases'[k].qty

\* A listing is filled exactly by the purchases in the table, each counted once.
THEOREM FillsAreExact == Spec => FillsExact
<1>1. ASSUME IInv, [Next]_vars, NEW l \in Key PROVE ExactFill(l)
  <2> USE NullFacts, BodyFacts
  <2>1. /\ listings \in [Key -> Row \cup {NULL}]
        /\ purchases \in [Key -> Body \cup {NULL}]
    BY <1>1 DEF IInv, TypeOK
  <2>2. CASE UNCHANGED <<listings, purchases>>
    BY <2>2 DEF ExactFill
  <2>3. CASE Apply
    <3>1. /\ work.key \in Key /\ work.payload \in Body
          /\ work.step = "apply" /\ work # NULL
      BY <1>1, <2>3 DEF Apply, AtStep, IInv, TypeOK, Work
    <3>2. CASE ApplyListing(work.key, work.payload)
      <4>1. listings[l] # NULL => listings'[l].remaining = listings[l].remaining
        BY <2>1, <3>1, <3>2 DEF ApplyListing
      <4>2. QED
        BY <3>2, <4>1 DEF ApplyListing, ExactFill
    <3>3. CASE ApplyPurchase(work.key, work.payload) /\ purchases[work.key] = NULL
      <4>1. purchases' = [purchases EXCEPT ![work.key] = work.payload]
        BY <3>3 DEF ApplyPurchase
      <4>2. /\ purchases'[work.key] = work.payload
            /\ \A k \in Key \ {work.key} : purchases'[k] = purchases[k]
        BY <2>1, <3>1, <4>1
      <4>3. CASE l = work.payload.listing
        <5>1. listings'[l].remaining = listings[l].remaining - work.payload.qty
          BY <2>1, <3>1, <3>3, <4>3 DEF ApplyPurchase, Filled
        <5>2. QED
          BY <3>1, <3>3, <4>2, <4>3, <5>1 DEF ExactFill
      <4>4. CASE l # work.payload.listing
        <5>1. listings'[l] = listings[l]
          BY <2>1, <3>3, <4>4 DEF ApplyPurchase, Filled
        <5>2. QED
          BY <3>1, <4>2, <4>4, <5>1 DEF ExactFill
      <4>5. QED
        BY <4>3, <4>4
    <3>4. CASE ApplyPurchase(work.key, work.payload) /\ purchases[work.key] # NULL
      BY <2>2, <3>4 DEF ApplyPurchase, domain
    <3>5. CASE ApplyRetirement(work.key, work.payload) \/ UNCHANGED domain
      BY <2>2, <3>5 DEF ApplyRetirement, domain
    <3>6. QED
      BY <2>3, <3>2, <3>3, <3>4, <3>5 DEF Apply
  <2>4. CASE ~Apply
    <3>1. UNCHANGED <<listings, purchases>>
      BY <1>1, <2>4 DEF Next, vars, domain, StartReconcile, StartExecute, BusinessReject,
                        Submit, ReconcileThrows, Complete, ExecuteFails, Interrupted, Tick
    <3>2. QED
      BY <2>2, <3>1
  <2>5. QED
    BY <2>3, <2>4
<1>2. IInv /\ [Next]_vars =>
        [\A l \in Key : listings[l] # NULL =>
            \/ /\ listings'[l].remaining = listings[l].remaining
               /\ \A k \in Key : (purchases[k] = NULL /\ purchases'[k] # NULL)
                                     => purchases'[k].listing # l
            \/ \E k \in Key :
                  /\ purchases[k] = NULL /\ purchases'[k] # NULL
                  /\ purchases'[k].listing = l
                  /\ listings'[l].remaining = listings[l].remaining - purchases'[k].qty]_vars
  BY <1>1 DEF ExactFill
<1>3. QED
  BY <1>2, InvCorrect, PTL DEF Spec, FillsExact

-----------------------------------------------------------------------------
(***************************************************************************)
(* Listings are not oversold as long as no write is lost: a purchase that  *)
(* is on the chain then has its row, or is the one about to get it, and    *)
(* the listing it fills still holds what it takes.                         *)
(***************************************************************************)

BuyOnChain(k) == events[k] # NULL /\ events[k].body.op = "buy"

\* The request about to apply a purchase applies the event of key k.
AppliesEvent(k) ==
    /\ AtStep("apply") /\ work.key = k
    /\ work.payload = events[k].body /\ work.body.op = work.payload.op

Covered == work.payload.qty <= listings[work.payload.listing].remaining

SettledInv ==
    faults = 0 =>
        /\ \A k \in Key : BuyOnChain(k) => purchases[k] # NULL \/ AppliesEvent(k)
        /\ (AtStep("apply") /\ work.payload.op = "buy")
               => purchases[work.key] # NULL \/ Covered
        /\ \A l \in Key : listings[l] # NULL => listings[l].remaining >= 0

\* A request that ends, or one that starts, finds every purchase settled.
LEMMA SettledBetween ==
    ASSUME SettledInv, faults = 0, NEW k \in Key, BuyOnChain(k), ~AppliesEvent(k)
    PROVE  purchases[k] # NULL
BY DEF SettledInv

\* Requests start from what is settled.
LEMMA StartSettled ==
    ASSUME IInv, SettledInv, NEW k \in Key, NEW body \in Body,
           StartReconcile(k, body) \/ StartExecute(k, body)
    PROVE  SettledInv'
<1>1. work = NULL /\ UNCHANGED <<events, listings, purchases, faults>>
  BY DEF StartReconcile, StartExecute, domain
<1>2. faults = 0 => \A x \in Key : BuyOnChain(x) => purchases[x] # NULL
  BY <1>1 DEF SettledInv, AppliesEvent, AtStep
<1>3. (AtStep("apply") /\ work.payload.op = "buy")' => work'.key = k /\ BuyOnChain(k)
  <2>1. CASE StartReconcile(k, body)
    <3>1. work' = [key |-> k, body |-> body, mode |-> "reconcile", step |-> "apply",
                   payload |-> events[k].body, age |-> 0]
      BY <2>1 DEF StartReconcile
    <3>2. work'.key = k /\ work'.payload = events[k].body /\ events[k] # NULL
      BY <2>1, <3>1 DEF StartReconcile, OnChain
    <3>3. QED
      BY <3>2 DEF BuyOnChain
  <2>2. CASE StartExecute(k, body)
    <3>1. work'.step = "submit"
      BY <2>2 DEF StartExecute
    <3>2. QED
      BY <3>1 DEF AtStep
  <2>3. QED
    BY <2>1, <2>2
<1>4. QED
  BY <1>1, <1>2, <1>3 DEF SettledInv, BuyOnChain

\* A purchase is put on the chain only if the listing holds what it takes.
LEMMA SubmitSettled ==
    ASSUME IInv, SettledInv, Submit
    PROVE  SettledInv'
<1> USE NullFacts
<1>1. /\ work \in Work /\ work # NULL /\ work.key \in Key
      /\ work.step = "submit" /\ work.payload = work.body
      /\ events \in [Key -> Event \cup {NULL}]
  BY DEF Submit, AtStep, IInv, TypeOK, Work, SubmitInv
<1>2. /\ work' # NULL /\ work'.step = "apply" /\ work'.key = work.key
      /\ work'.payload = work.body /\ work'.body = work.body
  BY <1>1 DEF Submit, Work
<1>3. /\ events'[work.key].body = work.body
      /\ \A k \in Key \ {work.key} : events'[k] = events[k]
  BY <1>1 DEF Submit
<1>4. UNCHANGED <<listings, purchases, faults>>
  BY DEF Submit, domain
<1>5. ASSUME faults = 0, NEW k \in Key, BuyOnChain(k)'
      PROVE  purchases[k] # NULL \/ AppliesEvent(k)'
  <2>1. CASE k = work.key
    BY <1>2, <1>3, <2>1 DEF AppliesEvent, AtStep
  <2>2. CASE k # work.key
    BY <1>1, <1>3, <1>5, <2>2, SettledBetween DEF BuyOnChain, AppliesEvent, AtStep
  <2>3. QED
    BY <2>1, <2>2
<1>6. work'.payload.op = "buy" => Covered'
  BY <1>2, <1>4 DEF Submit, BusinessAccepts, Covered
<1>7. QED
  BY <1>4, <1>5, <1>6 DEF SettledInv

\* The domain transaction settles the purchase it applies.
LEMMA ApplySettled ==
    ASSUME IInv, SettledInv, Apply
    PROVE  SettledInv'
<1> USE NullFacts, BodyFacts
<1>1. /\ work \in Work /\ work # NULL /\ work.key \in Key /\ work.step = "apply"
      /\ work.payload \in Body /\ work.body \in Body
  BY DEF Apply, AtStep, IInv, TypeOK, Work
<1>2. /\ listings \in [Key -> Row \cup {NULL}] /\ purchases \in [Key -> Body \cup {NULL}]
  BY DEF IInv, TypeOK
<1>3. work'.step = "complete" /\ UNCHANGED <<events, faults>>
  BY <1>1 DEF Apply, Work
<1>4. /\ \A k \in Key : purchases[k] # NULL => purchases'[k] # NULL
      /\ (work.payload.op = "buy" /\ work.body.op = "buy") => purchases'[work.key] # NULL
  <2>1. \A k \in Key : HasRow("buy", k) => HasRow("buy", k)'
    BY ApplyFacts
  <2>2. QED
    BY <2>1, ApplyFacts DEF HasRow
<1>5. ASSUME faults = 0, NEW k \in Key, BuyOnChain(k)
      PROVE  purchases'[k] # NULL
  BY <1>4, <1>5 DEF SettledInv, AppliesEvent, BuyOnChain
<1>6. ASSUME faults = 0, NEW l \in Key, listings'[l] # NULL
      PROVE  listings'[l].remaining >= 0
  <2>1. listings[l] # NULL => listings[l].remaining >= 0
    BY <1>6 DEF SettledInv
  <2>2. CASE UNCHANGED listings
    BY <1>6, <2>1, <2>2
  <2>3. CASE ApplyListing(work.key, work.payload)
    <3>1. CASE l = work.key
      <4>1. listings'[l].remaining =
              IF listings[l] = NULL THEN work.payload.qty ELSE listings[l].remaining
        BY <1>1, <1>2, <2>3, <3>1 DEF ApplyListing
      <4>2. QED
        BY <1>1, <2>1, <4>1
    <3>2. CASE l # work.key
      BY <1>2, <1>6, <2>1, <2>3, <3>2 DEF ApplyListing
    <3>3. QED
      BY <3>1, <3>2
  <2>4. CASE /\ ~ForeignEvent /\ work.body.op = "buy" /\ purchases[work.key] = NULL
             /\ ApplyPurchase(work.key, work.payload)
    <3>1. work.payload.op = "buy" /\ listings' = Filled(work.payload)
      BY <2>4 DEF ForeignEvent, ApplyPurchase
    <3>2. Covered /\ listings[work.payload.listing] # NULL
      BY <1>1, <1>6, <2>4, <3>1 DEF SettledInv, IInv, ListedInv, AtStep
    <3>3. listings[work.payload.listing].remaining \in Int /\ work.payload.qty \in Int
      BY <1>1, <1>2, <3>2 DEF Row
    <3>4. CASE l = work.payload.listing
      <4>1. listings'[l].remaining = listings[l].remaining - work.payload.qty
        BY <1>2, <3>1, <3>4 DEF Filled
      <4>2. QED
        BY <3>2, <3>3, <3>4, <4>1 DEF Covered
    <3>5. CASE l # work.payload.listing
      BY <1>2, <1>6, <2>1, <3>1, <3>5 DEF Filled
    <3>6. QED
      BY <3>4, <3>5
  <2>5. QED
    BY <2>2, <2>3, <2>4 DEF Apply, ApplyPurchase, ApplyRetirement, domain
<1>7. QED
  BY <1>3, <1>5, <1>6 DEF SettledInv, BuyOnChain, AtStep

\* A request that ends leaves no purchase unsettled, unless by a fault.
LEMMA EndSettled ==
    ASSUME IInv, SettledInv,
           BusinessReject \/ ReconcileThrows \/ Complete \/ ExecuteFails \/ Interrupted
    PROVE  SettledInv'
<1>1. work' = NULL /\ work # NULL /\ UNCHANGED <<events, listings, purchases>>
  BY DEF BusinessReject, ReconcileThrows, Complete, ExecuteFails, Interrupted, domain, AtStep
<1>2. CASE ExecuteFails \/ Interrupted
  <2>1. faults' # 0
    BY <1>2, IdempotencyAssumption DEF ExecuteFails, Interrupted, IInv, TypeOK
  <2>2. QED
    BY <2>1 DEF SettledInv
<1>3. CASE BusinessReject \/ ReconcileThrows \/ Complete
  <2>1. faults' = faults
    BY <1>3 DEF BusinessReject, ReconcileThrows, Complete
  <2>2. \A k \in Key : ~AppliesEvent(k)
    BY <1>3 DEF BusinessReject, ReconcileThrows, Complete, AtStep, ForeignEvent, AppliesEvent
  <2>3. QED
    BY <1>1, <2>1, <2>2 DEF SettledInv, BuyOnChain, AtStep
<1>4. QED
  BY <1>2, <1>3

\* The clock changes nothing that is settled.
LEMMA TickSettled ==
    ASSUME IInv, SettledInv, Tick
    PROVE  SettledInv'
<1> USE NullFacts
<1>1. events \in [Key -> Event \cup {NULL}] /\ work \in Work \cup {NULL}
  BY DEF IInv, TypeOK
<1>2. UNCHANGED <<listings, purchases, faults>>
  BY DEF Tick, domain
<1>3. ASSUME NEW k \in Key, events'[k] # NULL
      PROVE  events[k] # NULL /\ events'[k].body = events[k].body
  <2>1. events[k] # NULL /\ events'[k] = [events[k] EXCEPT !.age = Older(events[k].age)]
    BY <1>3 DEF Tick
  <2>2. events[k] \in Event
    BY <1>1, <2>1
  <2>3. QED
    BY <2>1, <2>2 DEF Event
<1>4. work = NULL <=> work' = NULL
  <2>1. CASE work # NULL
    <3>1. work' = [work EXCEPT !.age = Older(work.age)] /\ work \in Work
      BY <1>1, <2>1 DEF Tick
    <3>2. work' \in Work
      BY <3>1, BodyFacts DEF Work
    <3>3. QED
      BY <2>1, <3>2
  <2>2. CASE work = NULL
    BY <2>2 DEF Tick
  <2>3. QED
    BY <2>1, <2>2
<1>5. work # NULL => /\ work'.step = work.step /\ work'.key = work.key
                     /\ work'.payload = work.payload /\ work'.body = work.body
  BY <1>1 DEF Tick, Work
<1>6. ASSUME faults = 0, NEW k \in Key, BuyOnChain(k)'
      PROVE  purchases[k] # NULL \/ AppliesEvent(k)'
  <2>1. BuyOnChain(k) /\ events'[k].body = events[k].body
    BY <1>3, <1>6 DEF BuyOnChain
  <2>2. AppliesEvent(k) => AppliesEvent(k)'
    BY <1>4, <1>5, <2>1 DEF AppliesEvent, AtStep
  <2>3. QED
    BY <1>6, <2>1, <2>2 DEF SettledInv
<1>7. (AtStep("apply") /\ work.payload.op = "buy")'
         => AtStep("apply") /\ work.payload.op = "buy"
  BY <1>4, <1>5 DEF AtStep
<1>8. AtStep("apply") => work'.key = work.key /\ (Covered => Covered')
  BY <1>2, <1>5 DEF AtStep, Covered
<1>9. QED
  BY <1>2, <1>6, <1>7, <1>8 DEF SettledInv

\* Without a lost write no listing is oversold: quantity_remaining is checked before
\* the purchase goes on the chain and taken before any other request is served, and
\* an event that is reconciled later has been taken already.
THEOREM NotOversold == Spec => []OversoldOnlyAfterFault
<1>1. Init => SettledInv
  BY DEF Init, SettledInv, BuyOnChain, AtStep
<1>2. IInv /\ SettledInv /\ [Next]_vars => SettledInv'
  <2> SUFFICES ASSUME IInv, SettledInv, [Next]_vars PROVE SettledInv'
    OBVIOUS
  <2>1. CASE UNCHANGED vars
    BY <2>1 DEF vars, SettledInv, BuyOnChain, AppliesEvent, AtStep, Covered
  <2>2. QED
    BY <2>1, StartSettled, SubmitSettled, ApplySettled, EndSettled, TickSettled DEF Next
<1>3. IInv /\ SettledInv => OversoldOnlyAfterFault
  <2> SUFFICES ASSUME IInv, SettledInv, NEW l \in Key, listings[l] # NULL,
                      listings[l].remaining < 0
               PROVE  faults > 0
    BY DEF OversoldOnlyAfterFault
  <2>1. faults \in Nat /\ listings[l] \in Row
    BY IdempotencyAssumption DEF IInv, TypeOK
  <2>2. listings[l].remaining \in Int
    BY <2>1 DEF Row
  <2>3. QED
    BY <2>1, <2>2 DEF SettledInv
<1>4. QED
  BY <1>1, <1>2, <1>3, InvCorrect, PTL DEF Spec

=============================================================================
