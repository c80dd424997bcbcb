----------------------- MODULE WebhookDelivery_proofs -----------------------
(***************************************************************************)
(* Theorems about the indexer and the delivery service, for any targets,   *)
(* events, webhooks and page sizes, any number of crashes and throwing     *)
(* statements, and any bounds on attempts, back-off and time.              *)
(***************************************************************************)
EXTENDS WebhookDelivery, WellFoundedInduction, TLAPS

-----------------------------------------------------------------------------
(***************************************************************************)
(* Scans                                                                   *)
(***************************************************************************)

\* The constants in the form the provers use.
LEMMA Constants ==
    /\ Len(Targets) \in Nat
    /\ \A i \in 1 .. Len(Targets) : Targets[i].type \in Type /\ Targets[i] \in Target
    /\ \A e \in Event : e.type \in Type /\ e.ledger \in Int /\ e.ledger >= 1
                                        /\ e.ledger <= MaxLedger
<1>1. Len(Targets) \in Nat
  BY IndexerAssumption
<1>2. \A i \in 1 .. Len(Targets) : Targets[i] \in Target
  BY DEF Target
<1>3. \A e \in Event : e.type \in Type /\ e.ledger \in 1 .. MaxLedger
  BY IndexerAssumption
<1>4. QED
  BY <1>1, <1>2, <1>3, IndexerAssumption DEF Type

Cursors == [Type -> (0 .. MaxLedger) \cup {NULL}]

\* A target is scanned from the ledger after its cursor, or from the start.
LEMMA FromCursorIs ==
    ASSUME NEW i \in 1 .. Len(Targets), NEW table \in Cursors
    PROVE  LET u == FromCursor(i, table)
               c == table[Targets[i].type]
           IN  /\ u \in Scan /\ u.target = i
               /\ u.batch = {} /\ u.event = NULL /\ u.todo = {} /\ u.next = NULL
               /\ u.step = "fetch" /\ u.high = u.base
               /\ c = NULL => u.from = 0 /\ u.high = 0
               /\ c # NULL => c \in 0 .. MaxLedger /\ u.from = c + 1 /\ u.high = c
<1> DEFINE c == table[Targets[i].type]
           from == IF c = NULL THEN 0 ELSE c + 1
           base == IF c = NULL THEN 0 ELSE c
           u == [target |-> i, from |-> from, base |-> base, high |-> base, batch |-> {},
                 event |-> NULL, todo |-> {}, next |-> NULL, step |-> "fetch"]
<1>1. Targets[i].type \in Type
  BY Constants
<1>2. c \in (0 .. MaxLedger) \cup {NULL} /\ MaxLedger \in Nat
  BY <1>1, IndexerAssumption DEF Cursors
<1>3. FromCursor(i, table) = u
  BY DEF FromCursor
<1>4. /\ from \in 0 .. MaxLedger + 1 /\ base \in 0 .. MaxLedger
      /\ c = NULL => from = 0 /\ base = 0
      /\ c # NULL => c \in 0 .. MaxLedger /\ from = c + 1 /\ base = c
  BY <1>2
<1> HIDE DEF c, from, base
<1>5. u \in Scan
  BY <1>4 DEF Scan
<1>6. /\ u.target = i /\ u.batch = {} /\ u.event = NULL /\ u.todo = {} /\ u.next = NULL
      /\ u.step = "fetch" /\ u.high = base /\ u.base = base /\ u.from = from
  OBVIOUS
<1> HIDE DEF u
<1>7. QED
  BY <1>3, <1>4, <1>5, <1>6 DEF c

\* After a target comes the next one, or the end of the tick.
LEMMA AfterTargetIs ==
    ASSUME NEW i \in 0 .. Len(Targets), NEW table \in Cursors
    PROVE  \/ AfterTarget(i, table) = NULL
           \/ \E k \in 1 .. Len(Targets) : AfterTarget(i, table) = FromCursor(k, table)
<1>1. Len(Targets) \in Nat
  BY Constants
<1>2. CASE i < Len(Targets)
  <2>1. i + 1 \in 1 .. Len(Targets)
    BY <1>1, <1>2
  <2>2. QED
    BY <1>2, <2>1 DEF AfterTarget
<1>3. CASE ~(i < Len(Targets))
  BY <1>3 DEF AfterTarget
<1>4. QED
  BY <1>2, <1>3

\* A nonempty set of natural numbers has a smallest element.
LEMMA LeastNat ==
    ASSUME NEW U \in SUBSET Nat, U # {}
    PROVE  \E n \in U : \A k \in U : n <= k
<1> DEFINE R == OpToRel(<, Nat)
<1>1. IsWellFoundedOn(R, Nat)
  BY NatLessThanWellFounded
<1>2. PICK n \in U : \A k \in U : ~(<<k, n>> \in R)
  <2> HIDE DEF R
  <2>1. QED
    BY <1>1, WFMin
<1>3. \A k \in U : ~(k < n)
  BY <1>2 DEF OpToRel
<1>4. QED
  BY <1>3

\* The next page starts at the smallest ledger of what the page left out.
LEMMA NextLedgerIs ==
    ASSUME NEW t, NEW from, NEW page
    PROVE  LET n == NextLedger(t, from, page)
               rest == Matching(t, from) \ page
           IN  \/ n = NULL /\ rest = {}
               \/ /\ n \in 0 .. MaxLedger
                  /\ \E e \in rest : e.ledger = n
                  /\ \A e \in rest : n <= e.ledger
<1> DEFINE rest == Matching(t, from) \ page
           U == {e.ledger : e \in rest}
           n == NextLedger(t, from, page)
<1>1. rest \subseteq Event
  BY DEF Matching
<1>2. CASE rest = {}
  BY <1>2 DEF NextLedger
<1>3. CASE rest # {}
  <2>1. \A e \in rest : e.ledger \in 0 .. MaxLedger
    BY <1>1, Constants, IndexerAssumption
  <2>2. U \in SUBSET Nat /\ U # {}
    BY <1>3, <2>1, IndexerAssumption
  <2>3. PICK m \in U : \A k \in U : m <= k
    <3> HIDE DEF U
    <3>1. QED
      BY <2>2, LeastNat
  <2>4. /\ m \in 0 .. MaxLedger
        /\ \E e \in rest : e.ledger = m
        /\ \A e \in rest : m <= e.ledger
    BY <2>1, <2>3
  <2>5. n = CHOOSE k \in 0 .. MaxLedger :
                /\ \E e \in rest : e.ledger = k
                /\ \A e \in rest : k <= e.ledger
    BY <1>3 DEF NextLedger
  <2> HIDE DEF rest, n
  <2>6. /\ n \in 0 .. MaxLedger
        /\ \E e \in rest : e.ledger = n
        /\ \A e \in rest : n <= e.ledger
    BY <2>4, <2>5
  <2>7. QED
    BY <2>6 DEF rest, n
<1>4. QED
  BY <1>2, <1>3

-----------------------------------------------------------------------------
(***************************************************************************)
(* Steps                                                                   *)
(***************************************************************************)

\* A fault that ends the tick, and the drain with it if the process dies.
ScanLost ==
    /\ Fault
    /\ scan' = NULL
    /\ drain' = drain \/ drain' = NULL
    /\ UNCHANGED <<latest, cursors, indexed, webhooks, deliveries, now, owed>>

\* A fault that ends the drain only.
DrainLost ==
    /\ Fault
    /\ drain' = NULL
    /\ UNCHANGED <<latest, cursors, indexed, webhooks, deliveries, scan, now, owed>>

\* Who takes a step, and what the others keep meanwhile.
LEMMA Step ==
    ASSUME [Next]_vars
    PROVE  \/ /\ StartTick \/ FetchPage \/ FetchFails \/ StoreEvent \/ AdvanceCursor
              /\ UNCHANGED <<deliveries, latest, webhooks, now, faults, drain>>
           \/ Enqueue /\ UNCHANGED <<latest, webhooks, now, faults, drain>>
           \/ /\ RoutesNext
              /\ UNCHANGED <<cursors, indexed, scan, owed, latest, deliveries, now, faults,
                             drain>>
           \/ /\ StartDrain \/ CancelDelivery \/ Post \/ Delivered \/ Refused
              /\ UNCHANGED <<cursors, indexed, scan, owed, latest, webhooks, now, faults>>
           \/ ScanLost
           \/ DrainLost
           \/ /\ latest < MaxLedger /\ latest' = latest + 1
              /\ UNCHANGED <<cursors, indexed, scan, owed, webhooks, deliveries, now, faults,
                             drain>>
           \/ /\ now < MaxNow /\ now' = now + 1
              /\ UNCHANGED <<cursors, indexed, scan, owed, latest, webhooks, deliveries,
                             faults, drain>>
           \/ UNCHANGED vars
BY DEF Next, Indexing, IndexerNext, Draining, DrainNext, DrainFails, Crash, StatementFails,
       ScanLost, DrainLost, CloseLedger, Tick, indexerVars

\* A tick starts with the first target, if there is one.
LEMMA StartIs ==
    ASSUME TypeOK, StartTick
    PROVE  \/ scan' = NULL
           \/ \E k \in 1 .. Len(Targets) : scan' = FromCursor(k, cursors)
<1>1. 0 \in 0 .. Len(Targets) /\ cursors \in Cursors
  BY Constants DEF TypeOK, IndexerTypeOK, Cursors
<1>2. QED
  BY <1>1, AfterTargetIs DEF StartTick

\* The answer to a request: no events, and the scan turns to the next target, or a
\* page to store.
LEMMA FetchIs ==
    ASSUME TypeOK, FetchPage
    PROVE  /\ scan \in Scan /\ scan.step = "fetch"
           /\ \/ scan' = NULL
              \/ \E k \in 1 .. Len(Targets) : scan' = FromCursor(k, cursors)
              \/ LET t == Targets[scan.target] IN
                 /\ scan' \in Scan
                 /\ scan'.target = scan.target /\ scan'.from = scan.from
                 /\ scan'.base = scan.base /\ scan'.high = scan.high
                 /\ scan'.batch \in Pages(t, scan.from)
                 /\ scan'.event = scan.event /\ scan'.todo = scan.todo
                 /\ scan'.next = NextLedger(t, scan.from, scan'.batch)
                 /\ scan'.step = "store"
<1>1. scan \in Scan /\ scan.step = "fetch" /\ cursors \in Cursors
  BY DEF FetchPage, TypeOK, IndexerTypeOK, Cursors
<1> DEFINE t == Targets[scan.target]
<1>2. scan.target \in 0 .. Len(Targets)
  <2>1. scan.target \in 1 .. Len(Targets)
    BY <1>1 DEF Scan
  <2>2. QED
    BY <2>1, Constants
<1>3. PICK page \in Pages(t, scan.from) :
         scan' = IF page = {} THEN AfterTarget(scan.target, cursors)
                 ELSE [scan EXCEPT !.batch = page, !.step = "store",
                                   !.next = NextLedger(t, scan.from, page)]
  BY DEF FetchPage
<1>4. CASE page = {}
  BY <1>1, <1>2, <1>3, <1>4, AfterTargetIs
<1>5. CASE page # {}
  <2> DEFINE n == NextLedger(t, scan.from, page)
             u == [scan EXCEPT !.batch = page, !.step = "store", !.next = n]
  <2>1. page \in SUBSET Event
    BY DEF Pages, Matching
  <2>2. n \in (0 .. MaxLedger) \cup {NULL}
    BY NextLedgerIs
  <2>3. scan' = u
    BY <1>3, <1>5
  <2>4. n = NextLedger(t, scan.from, page)
    OBVIOUS
  <2> HIDE DEF n
  <2>5. /\ u \in Scan
        /\ u.target = scan.target /\ u.from = scan.from /\ u.base = scan.base
        /\ u.high = scan.high /\ u.batch = page /\ u.event = scan.event
        /\ u.todo = scan.todo /\ u.next = n /\ u.step = "store"
    BY <1>1, <2>1, <2>2 DEF Scan
  <2> HIDE DEF u
  <2>6. QED
    BY <1>1, <1>3, <2>3, <2>4, <2>5
<1>6. QED
  BY <1>4, <1>5

\* One event of the page is stored.
LEMMA StoreIs ==
    ASSUME TypeOK, StoreEvent
    PROVE  /\ scan \in Scan /\ scan.step = "store" /\ scan.todo = {}
           /\ \E e \in scan.batch :
                 /\ e \in Event /\ scan' \in Scan
                 /\ scan'.target = scan.target /\ scan'.from = scan.from
                 /\ scan'.base = scan.base
                 /\ scan'.high = IF e.ledger > scan.high THEN e.ledger ELSE scan.high
                 /\ scan'.batch = scan.batch \ {e} /\ scan'.event = e
                 /\ scan'.todo = IF Known(e) THEN {} ELSE Subscribers(e.type)
                 /\ scan'.next = scan.next /\ scan'.step = "store"
                 /\ indexed' = IF Known(e) THEN indexed ELSE indexed \cup {e}
                 /\ owed' = IF Known(e) THEN owed
                            ELSE [owed EXCEPT ![e] =
                                    {w \in Webhook :
                                       webhooks[w] \in [type : {e.type}, active : {TRUE}]}]
<1>1. scan \in Scan /\ scan.step = "store" /\ scan.todo = {}
  BY DEF StoreEvent, Storing, TypeOK, IndexerTypeOK
<1>2. PICK e \in scan.batch :
          /\ scan' = [scan EXCEPT
                 !.batch = scan.batch \ {e}, !.event = e,
                 !.todo = IF Known(e) THEN {} ELSE Subscribers(e.type),
                 !.high = IF e.ledger > scan.high THEN e.ledger ELSE scan.high]
          /\ indexed' = IF Known(e) THEN indexed ELSE indexed \cup {e}
          /\ owed' = IF Known(e) THEN owed
                     ELSE [owed EXCEPT ![e] =
                             {w \in Webhook : webhooks[w] \in [type : {e.type}, active : {TRUE}]}]
  BY DEF StoreEvent
<1>3. e \in Event
  BY <1>1 DEF Scan
<1> DEFINE ws == IF Known(e) THEN {} ELSE Subscribers(e.type)
           h == IF e.ledger > scan.high THEN e.ledger ELSE scan.high
           u == [scan EXCEPT !.batch = scan.batch \ {e}, !.event = e, !.todo = ws, !.high = h]
<1>4. ws \in SUBSET Webhook
  BY DEF Subscribers
<1>5. h \in 0 .. MaxLedger
  <2>1. scan.high \in 0 .. MaxLedger
    BY <1>1 DEF Scan
  <2>2. QED
    BY <1>3, <2>1, Constants, IndexerAssumption
<1>6. scan' = u
  BY <1>2
<1>7. /\ ws = IF Known(e) THEN {} ELSE Subscribers(e.type)
      /\ h = IF e.ledger > scan.high THEN e.ledger ELSE scan.high
  OBVIOUS
<1> HIDE DEF ws, h
<1>8. /\ u \in Scan
      /\ u.target = scan.target /\ u.from = scan.from /\ u.base = scan.base /\ u.high = h
      /\ u.batch = scan.batch \ {e} /\ u.event = e /\ u.todo = ws /\ u.next = scan.next
      /\ u.step = scan.step
  BY <1>1, <1>3, <1>4, <1>5 DEF Scan
<1> HIDE DEF u
<1>9. /\ scan' \in Scan
      /\ scan'.target = scan.target /\ scan'.from = scan.from /\ scan'.base = scan.base
      /\ scan'.high = IF e.ledger > scan.high THEN e.ledger ELSE scan.high
      /\ scan'.batch = scan.batch \ {e} /\ scan'.event = e
      /\ scan'.todo = IF Known(e) THEN {} ELSE Subscribers(e.type)
      /\ scan'.next = scan.next /\ scan'.step = "store"
  BY <1>1, <1>6, <1>7, <1>8
<1>10. /\ indexed' = IF Known(e) THEN indexed ELSE indexed \cup {e}
       /\ owed' = IF Known(e) THEN owed
                  ELSE [owed EXCEPT ![e] =
                          {w \in Webhook : webhooks[w] \in [type : {e.type}, active : {TRUE}]}]
  BY <1>2
<1>11. QED
  BY <1>1, <1>3, <1>9, <1>10

\* One delivery of the event stored last is enqueued.
LEMMA EnqueueIs ==
    ASSUME TypeOK, Enqueue
    PROVE  /\ scan \in Scan /\ scan.step = "store"
           /\ \E w \in scan.todo :
                 /\ w \in Webhook /\ scan' \in Scan
                 /\ scan'.target = scan.target /\ scan'.from = scan.from
                 /\ scan'.base = scan.base /\ scan'.high = scan.high
                 /\ scan'.batch = scan.batch /\ scan'.event = scan.event
                 /\ scan'.todo = scan.todo \ {w} /\ scan'.next = scan.next
                 /\ scan'.step = "store"
                 /\ deliveries' = [deliveries EXCEPT ![<<w, scan.event>>] =
                        [status |-> "pending", attempts |-> 0, next |-> now]]
<1>1. scan \in Scan /\ scan.step = "store"
  BY DEF Enqueue, Storing, TypeOK, IndexerTypeOK
<1>2. PICK w \in scan.todo :
         /\ deliveries' = [deliveries EXCEPT ![<<w, scan.event>>] =
                [status |-> "pending", attempts |-> 0, next |-> now]]
         /\ scan' = [scan EXCEPT !.todo = scan.todo \ {w}]
  BY DEF Enqueue
<1> DEFINE ws == scan.todo \ {w}
           u == [scan EXCEPT !.todo = ws]
<1>3. ws \in SUBSET Webhook /\ w \in Webhook
  BY <1>1 DEF Scan
<1>4. scan' = u /\ ws = scan.todo \ {w}
  BY <1>2
<1> HIDE DEF ws
<1>5. /\ u \in Scan
      /\ u.target = scan.target /\ u.from = scan.from /\ u.base = scan.base
      /\ u.high = scan.high /\ u.batch = scan.batch /\ u.event = scan.event
      /\ u.todo = ws /\ u.next = scan.next /\ u.step = scan.step
  BY <1>1, <1>3 DEF Scan
<1> HIDE DEF u
<1>6. QED
  BY <1>1, <1>2, <1>3, <1>4, <1>5

\* The page is stored: the cursor follows, then the next page or the next target.
LEMMA AdvanceIs ==
    ASSUME TypeOK, AdvanceCursor
    PROVE  /\ scan \in Scan /\ scan.step = "store" /\ scan.batch = {} /\ scan.todo = {}
           /\ cursors' \in Cursors
           /\ \A ty \in Type : cursors'[ty] =
                IF scan.high > scan.base /\ ty = Targets[scan.target].type
                THEN scan.high ELSE cursors[ty]
           /\ \/ scan' = NULL
              \/ \E k \in 1 .. Len(Targets) : scan' = FromCursor(k, cursors')
              \/ /\ scan.next # NULL /\ scan' \in Scan
                 /\ scan'.target = scan.target /\ scan'.from = scan.next
                 /\ scan'.base = scan.base /\ scan'.high = scan.high
                 /\ scan'.batch = {} /\ scan'.event = NULL /\ scan'.todo = {}
                 /\ scan'.next = NULL /\ scan'.step = "fetch"
<1>1. /\ scan \in Scan /\ scan.step = "store" /\ scan.batch = {} /\ scan.todo = {}
      /\ cursors \in Cursors
  BY DEF AdvanceCursor, Storing, TypeOK, IndexerTypeOK, Cursors
<1>2. /\ scan.target \in 1 .. Len(Targets) /\ scan.high \in 0 .. MaxLedger
      /\ scan.next \in (0 .. MaxLedger) \cup {NULL}
  BY <1>1 DEF Scan
<1> DEFINE ty == Targets[scan.target].type
<1>3. ty \in Type
  BY <1>2, Constants
<1>4. cursors' = IF scan.high > scan.base THEN [cursors EXCEPT ![ty] = scan.high]
                 ELSE cursors
  BY DEF AdvanceCursor, CursorToHigh
<1>5. cursors' \in Cursors
  BY <1>1, <1>2, <1>3, <1>4 DEF Cursors
<1>6. \A y \in Type : cursors'[y] =
        IF scan.high > scan.base /\ y = ty THEN scan.high ELSE cursors[y]
  BY <1>1, <1>3, <1>4 DEF Cursors
<1>7. CASE scan.next # NULL
  <2> DEFINE u == [scan EXCEPT !.step = "fetch", !.from = scan.next, !.event = NULL,
                               !.next = NULL]
  <2>1. scan' = u
    BY <1>7 DEF AdvanceCursor
  <2>2. scan.next \in 0 .. MaxLedger + 1
    BY <1>2, <1>7, IndexerAssumption
  <2>3. /\ u \in Scan
        /\ u.target = scan.target /\ u.from = scan.next /\ u.base = scan.base
        /\ u.high = scan.high /\ u.batch = scan.batch /\ u.event = NULL
        /\ u.todo = scan.todo /\ u.next = NULL /\ u.step = "fetch"
    BY <1>1, <2>2 DEF Scan
  <2> HIDE DEF u
  <2>4. QED
    BY <1>1, <1>5, <1>6, <1>7, <2>1, <2>3
<1>8. CASE scan.next = NULL
  <2>1. scan' = AfterTarget(scan.target, cursors')
    BY <1>8 DEF AdvanceCursor
  <2>2. scan.target \in 0 .. Len(Targets)
    BY <1>2, Constants
  <2>3. \/ scan' = NULL
        \/ \E k \in 1 .. Len(Targets) : scan' = FromCursor(k, cursors')
    BY <1>5, <2>1, <2>2, AfterTargetIs
  <2>4. QED
    BY <1>1, <1>5, <1>6, <2>3
<1>9. QED
  BY <1>7, <1>8

-----------------------------------------------------------------------------
(***************************************************************************)
(* The inductive invariant.  That nothing behind a cursor is missing       *)
(* depends on what the scan under way has stored or still holds: every     *)
(* event before the page, before the highest ledger met so far, before any *)
(* event of the page and before the start of the next page.                *)
(***************************************************************************)

\* The events NothingSkipped speaks of.
Sole(e) ==
    /\ \A t \in Target : t.type = e.type => t.contract = e.contract
    /\ \A f \in Event : (f.type = e.type /\ f.ledger = e.ledger) => f = e

HasRow(e, rows) == \E f \in rows : SameEvent(e, f)

\* NothingSkipped for a table of cursors and a set of rows.
NothingBehind(table, rows) ==
    \A e \in Event :
        (Sole(e) /\ table[e.type] # NULL /\ e.ledger <= table[e.type]) => HasRow(e, rows)

ScanType(s) == Targets[s.target].type

\* The highest ledger is that of a stored event, or still the cursor's.
HighStored(s, rows) ==
    s.high > s.base =>
        \E g \in Event : g.type = ScanType(s) /\ g.ledger = s.high /\ HasRow(g, rows)

ScanCovers(s, rows, e) ==
    /\ e.ledger < s.from => HasRow(e, rows)
    /\ e.ledger < s.high => HasRow(e, rows) \/ e \in s.batch
    /\ (s.next # NULL /\ e.ledger < s.next) => HasRow(e, rows) \/ e \in s.batch
    /\ \A g \in s.batch : e.ledger < g.ledger => HasRow(e, rows) \/ e \in s.batch

ScanSound(s, rows) ==
    /\ s.step = "fetch" => s.batch = {} /\ s.todo = {}
    /\ \A g \in s.batch : g.type = ScanType(s)
    /\ HighStored(s, rows)
    /\ \A e \in Event : (Sole(e) /\ e.type = ScanType(s)) => ScanCovers(s, rows, e)

\* Deliveries are for indexed events, and those to come are not there yet.
QueueInv ==
    /\ \A w \in Webhook, e \in Event : deliveries[<<w, e>>] # NULL => e \in indexed
    /\ scan # NULL => \A w \in scan.todo :
          scan.event \in indexed /\ deliveries[<<w, scan.event>>] = NULL

\* What a drain still has to post is undelivered, and it posts nothing else.
DrainInv ==
    drain # NULL =>
        /\ \A d \in drain.due : /\ deliveries[d] # NULL
                                /\ deliveries[d].status \in {"pending", "failed"}
                                /\ deliveries[d].attempts < AttemptsSeen
        /\ drain.post # NULL => drain.post \in drain.due

ScanInv == scan # NULL => ScanSound(scan, indexed)

Inv == TypeOK /\ ScanInv /\ NothingBehind(cursors, indexed) /\ QueueInv /\ DrainInv

-----------------------------------------------------------------------------

\* Rows are never lost by adding rows.
LEMMA RowsGrow ==
    ASSUME NEW rows, NEW more, rows \subseteq more, NEW e, HasRow(e, rows)
    PROVE  HasRow(e, more)
BY DEF HasRow

\* A scan that starts at a cursor starts behind nothing that is missing.
LEMMA FreshScan ==
    ASSUME NEW i \in 1 .. Len(Targets), NEW table \in Cursors, NEW rows,
           NothingBehind(table, rows)
    PROVE  ScanSound(FromCursor(i, table), rows)
<1> DEFINE u == FromCursor(i, table)
           c == table[Targets[i].type]
<1>1. /\ u \in Scan /\ u.target = i
      /\ u.batch = {} /\ u.event = NULL /\ u.todo = {} /\ u.next = NULL
      /\ u.step = "fetch" /\ u.high = u.base
      /\ c = NULL => u.from = 0 /\ u.high = 0
      /\ c # NULL => c \in 0 .. MaxLedger /\ u.from = c + 1 /\ u.high = c
  BY FromCursorIs
<1> HIDE DEF u
<1>2. ASSUME NEW e \in Event, Sole(e), e.type = Targets[i].type
      PROVE  ScanCovers(u, rows, e)
  <2>1. e.ledger \in Int /\ e.ledger >= 1
    BY Constants
  <2>2. CASE c = NULL
    BY <1>1, <2>1, <2>2 DEF ScanCovers
  <2>3. CASE c # NULL
    <3>1. e.ledger <= c => HasRow(e, rows)
      BY <1>2, <2>3 DEF NothingBehind
    <3>2. c \in Int
      BY <1>1, <2>3
    <3>3. (e.ledger < u.from => HasRow(e, rows)) /\ (e.ledger < u.high => HasRow(e, rows))
      BY <1>1, <2>1, <2>3, <3>1, <3>2
    <3>4. QED
      BY <1>1, <3>3 DEF ScanCovers
  <2>4. QED
    BY <2>2, <2>3
<1>3. HighStored(u, rows)
  <2>1. u.high \in Int
    BY <1>1 DEF Scan
  <2>2. QED
    BY <1>1, <2>1 DEF HighStored
<1>4. ScanType(u) = Targets[i].type
  BY <1>1 DEF ScanType
<1>5. ScanSound(u, rows)
  BY <1>1, <1>2, <1>3, <1>4 DEF ScanSound
<1>6. QED
  BY <1>5 DEF u

\* A page leaves out only events at or after all of its own, so a scan that holds
\* it still covers everything before.
LEMMA FetchKeepsScan ==
    ASSUME Inv, FetchPage
    PROVE  ScanInv'
<1>1. indexed' = indexed /\ cursors' = cursors
  BY DEF FetchPage
<1>2. cursors \in Cursors /\ NothingBehind(cursors, indexed) /\ TypeOK
  BY DEF Inv, TypeOK, IndexerTypeOK, Cursors
<1>3. scan \in Scan /\ scan.step = "fetch" /\ ScanSound(scan, indexed)
  BY <1>2, FetchIs DEF Inv, ScanInv, FetchPage
<1> DEFINE t == Targets[scan.target]
<1>4. CASE \E k \in 1 .. Len(Targets) : scan' = FromCursor(k, cursors)
  BY <1>1, <1>2, <1>4, FreshScan DEF ScanInv
<1>5. CASE /\ scan' \in Scan
           /\ scan'.target = scan.target /\ scan'.from = scan.from
           /\ scan'.base = scan.base /\ scan'.high = scan.high
           /\ scan'.batch \in Pages(t, scan.from)
           /\ scan'.event = scan.event /\ scan'.todo = scan.todo
           /\ scan'.next = NextLedger(t, scan.from, scan'.batch)
           /\ scan'.step = "store"
  <2> DEFINE page == scan'.batch
             rest == Matching(t, scan.from) \ page
  <2>1. /\ page \subseteq Matching(t, scan.from)
        /\ \A g \in page, f \in rest : g.ledger <= f.ledger
    BY <1>5 DEF Pages
  <2>2. /\ scan.target \in 1 .. Len(Targets) /\ t \in Target
        /\ scan.from \in Int /\ latest \in Int /\ scan.high \in Int
    <3>1. scan.target \in 1 .. Len(Targets) /\ scan.from \in 0 .. MaxLedger + 1
          /\ scan.high \in 0 .. MaxLedger /\ latest \in 0 .. MaxLedger
      BY <1>2, <1>3 DEF Scan, TypeOK, IndexerTypeOK
    <3>2. QED
      BY <3>1, Constants, IndexerAssumption
  <2>3. ScanType(scan') = t.type /\ ScanType(scan) = t.type
    BY <1>5 DEF ScanType
  <2>4. \A g \in page : g \in Event /\ g.type = t.type /\ g.ledger <= latest
    BY <2>1 DEF Matching
  <2>5. HighStored(scan', indexed)
    BY <1>3, <1>5, <2>3 DEF HighStored, ScanSound
  <2>6. ASSUME NEW e \in Event, Sole(e), e.type = t.type
        PROVE  ScanCovers(scan', indexed, e)
    <3>1. e.ledger \in Int /\ e.contract = t.contract
      BY <2>2, <2>6, Constants DEF Sole
    <3>2. ScanCovers(scan, indexed, e) /\ scan.batch = {}
      BY <1>3, <2>3, <2>6 DEF ScanSound
    <3>3. (e.ledger < scan.from \/ e.ledger < scan.high) => HasRow(e, indexed)
      BY <3>2 DEF ScanCovers
    <3>4. (e.ledger >= scan.from /\ e.ledger <= latest) => e \in Matching(t, scan.from)
      BY <2>6, <3>1 DEF Matching
    <3>5. ASSUME NEW g \in page, e.ledger < g.ledger
          PROVE  HasRow(e, indexed) \/ e \in page
      <4>1. g.ledger \in Int /\ g.ledger <= latest
        BY <2>4, Constants
      <4>2. CASE e.ledger < scan.from
        BY <3>3, <4>2
      <4>3. CASE e.ledger >= scan.from
        <5>1. e \in Matching(t, scan.from)
          BY <2>2, <3>1, <3>4, <3>5, <4>1, <4>3
        <5>2. e \notin rest
          BY <2>1, <3>1, <3>5, <4>1
        <5>3. QED
          BY <5>1, <5>2
      <4>4. QED
        BY <2>2, <3>1, <4>2, <4>3
    <3>6. ASSUME scan'.next # NULL, e.ledger < scan'.next
          PROVE  HasRow(e, indexed) \/ e \in page
      <4> DEFINE n == scan'.next
      <4>1. /\ n \in 0 .. MaxLedger
            /\ \E f \in rest : f.ledger = n
            /\ \A f \in rest : n <= f.ledger
        BY <1>5, <3>6, NextLedgerIs
      <4>2. n \in Int /\ n <= latest
        BY <4>1 DEF Matching
      <4>3. CASE e.ledger < scan.from
        BY <3>3, <4>3
      <4>4. CASE e.ledger >= scan.from
        <5>1. e \in Matching(t, scan.from)
          BY <2>2, <3>1, <3>4, <3>6, <4>2, <4>4
        <5>2. e \notin rest
          BY <3>1, <3>6, <4>1, <4>2
        <5>3. QED
          BY <5>1, <5>2
      <4>5. QED
        BY <2>2, <3>1, <4>3, <4>4
    <3>7. QED
      BY <1>5, <3>3, <3>5, <3>6 DEF ScanCovers
  <2>7. ScanSound(scan', indexed)
    BY <1>5, <2>3, <2>4, <2>5, <2>6 DEF ScanSound
  <2>8. QED
    BY <1>1, <2>7 DEF ScanInv
<1>6. QED
  BY <1>2, <1>4, <1>5, FetchIs DEF ScanInv

\* Storing an event takes it from the page to the rows, and its ledger into the
\* highest one.
LEMMA StoreKeepsScan ==
    ASSUME Inv, StoreEvent
    PROVE  ScanInv' /\ NothingBehind(cursors, indexed)'
<1>0. TypeOK /\ cursors' = cursors
  BY DEF Inv, StoreEvent
<1>1. scan \in Scan /\ scan.step = "store" /\ ScanSound(scan, indexed)
  BY <1>0, StoreIs DEF Inv, ScanInv, StoreEvent, Storing
<1>2. PICK e \in scan.batch :
        /\ e \in Event /\ scan' \in Scan
        /\ scan'.target = scan.target /\ scan'.from = scan.from
        /\ scan'.base = scan.base
        /\ scan'.high = IF e.ledger > scan.high THEN e.ledger ELSE scan.high
        /\ scan'.batch = scan.batch \ {e} /\ scan'.next = scan.next
        /\ scan'.step = "store"
        /\ indexed' = IF Known(e) THEN indexed ELSE indexed \cup {e}
  BY <1>0, StoreIs
<1>3. indexed \subseteq indexed' /\ HasRow(e, indexed')
  BY <1>2 DEF Known, HasRow, SameEvent
<1>4. ScanType(scan') = ScanType(scan)
  BY <1>2 DEF ScanType
<1>5. \A f \in Event : HasRow(f, indexed) => HasRow(f, indexed')
  BY <1>3, RowsGrow
<1>6. \A f \in Event : (HasRow(f, indexed) \/ f \in scan.batch)
                          => (HasRow(f, indexed') \/ f \in scan'.batch)
  BY <1>2, <1>3, <1>5
<1>7. HighStored(scan', indexed')
  <2>1. e.type = ScanType(scan)
    BY <1>1 DEF ScanSound
  <2>2. CASE e.ledger > scan.high
    BY <1>2, <1>3, <1>4, <2>1, <2>2 DEF HighStored
  <2>3. CASE ~(e.ledger > scan.high)
    BY <1>1, <1>2, <1>4, <1>5, <2>3 DEF HighStored, ScanSound
  <2>4. QED
    BY <2>2, <2>3
<1>8. ASSUME NEW f \in Event, Sole(f), f.type = ScanType(scan)
      PROVE  ScanCovers(scan', indexed', f)
  <2>1. ScanCovers(scan, indexed, f)
    BY <1>1, <1>8 DEF ScanSound
  <2>2. f.ledger < scan'.from => HasRow(f, indexed')
    BY <1>2, <1>5, <2>1 DEF ScanCovers
  <2>3. f.ledger < scan'.high => HasRow(f, indexed') \/ f \in scan'.batch
    BY <1>2, <1>6, <2>1 DEF ScanCovers
  <2>4. (scan'.next # NULL /\ f.ledger < scan'.next)
           => HasRow(f, indexed') \/ f \in scan'.batch
    BY <1>2, <1>6, <2>1 DEF ScanCovers
  <2>5. \A g \in scan'.batch : f.ledger < g.ledger => HasRow(f, indexed') \/ f \in scan'.batch
    BY <1>2, <1>6, <2>1 DEF ScanCovers
  <2>6. QED
    BY <2>2, <2>3, <2>4, <2>5 DEF ScanCovers
<1>9. \A g \in scan'.batch : g.type = ScanType(scan')
  BY <1>1, <1>2, <1>4 DEF ScanSound
<1>10. ScanSound(scan', indexed')
  BY <1>2, <1>4, <1>7, <1>8, <1>9 DEF ScanSound
<1>11. NothingBehind(cursors, indexed')
  BY <1>5 DEF Inv, NothingBehind
<1>12. QED
  BY <1>0, <1>10, <1>11 DEF ScanInv

\* Enqueueing leaves the page and the rows alone.
LEMMA EnqueueKeepsScan ==
    ASSUME Inv, Enqueue
    PROVE  ScanInv' /\ NothingBehind(cursors, indexed)'
<1>0. TypeOK /\ cursors' = cursors /\ indexed' = indexed
  BY DEF Inv, Enqueue
<1>1. ScanSound(scan, indexed)
  BY DEF Inv, ScanInv, Enqueue, Storing
<1>2. /\ scan'.target = scan.target /\ scan'.from = scan.from
      /\ scan'.base = scan.base /\ scan'.high = scan.high
      /\ scan'.batch = scan.batch /\ scan'.next = scan.next /\ scan'.step = "store"
  BY <1>0, EnqueueIs
<1>3. ScanType(scan') = ScanType(scan)
  BY <1>2 DEF ScanType
<1>4. HighStored(scan', indexed)
  BY <1>1, <1>2, <1>3 DEF HighStored, ScanSound
<1>5. ASSUME NEW e \in Event, ScanCovers(scan, indexed, e)
      PROVE  ScanCovers(scan', indexed, e)
  BY <1>2, <1>5 DEF ScanCovers
<1>6. ScanSound(scan', indexed)
  BY <1>1, <1>2, <1>3, <1>4, <1>5 DEF ScanSound
<1>7. QED
  BY <1>0, <1>6 DEF Inv, ScanInv

\* The cursor moves to a ledger behind which nothing is missing: the event at that
\* ledger is stored, and an event before it was stored or on the page, which is
\* empty by now.
LEMMA AdvanceKeepsScan ==
    ASSUME Inv, AdvanceCursor
    PROVE  ScanInv' /\ NothingBehind(cursors, indexed)'
<1>0. TypeOK /\ indexed' = indexed /\ NothingBehind(cursors, indexed)
  BY DEF Inv, AdvanceCursor
<1> DEFINE ty == Targets[scan.target].type
<1>1. /\ scan \in Scan /\ scan.batch = {} /\ cursors' \in Cursors
      /\ \A y \in Type : cursors'[y] =
           IF scan.high > scan.base /\ y = ty THEN scan.high ELSE cursors[y]
      /\ \/ scan' = NULL
         \/ \E k \in 1 .. Len(Targets) : scan' = FromCursor(k, cursors')
         \/ /\ scan.next # NULL /\ scan' \in Scan
            /\ scan'.target = scan.target /\ scan'.from = scan.next
            /\ scan'.base = scan.base /\ scan'.high = scan.high
            /\ scan'.batch = {} /\ scan'.todo = {}
            /\ scan'.next = NULL /\ scan'.step = "fetch"
  BY <1>0, AdvanceIs
<1>2. ScanSound(scan, indexed) /\ ScanType(scan) = ty
  BY DEF Inv, ScanInv, AdvanceCursor, Storing, ScanType
<1>3. ASSUME NEW e \in Event, Sole(e), e.type = ty, e.ledger <= scan.high,
             scan.high > scan.base
      PROVE  HasRow(e, indexed)
  <2>1. e.ledger \in Int /\ scan.high \in Int
    BY <1>1, Constants DEF Scan
  <2>2. CASE e.ledger < scan.high
    BY <1>1, <1>2, <1>3, <2>2 DEF ScanSound, ScanCovers
  <2>3. CASE e.ledger = scan.high
    <3>1. PICK g \in Event : g.type = ty /\ g.ledger = scan.high /\ HasRow(g, indexed)
      BY <1>2, <1>3 DEF ScanSound, HighStored
    <3>2. g = e
      BY <1>3, <2>3, <3>1 DEF Sole
    <3>3. QED
      BY <3>1, <3>2
  <2>4. QED
    BY <1>3, <2>1, <2>2, <2>3
<1>4. NothingBehind(cursors', indexed)
  <2> SUFFICES ASSUME NEW e \in Event, Sole(e), cursors'[e.type] # NULL,
                      e.ledger <= cursors'[e.type]
               PROVE  HasRow(e, indexed)
    BY DEF NothingBehind
  <2>1. e.type \in Type
    BY Constants
  <2>2. CASE scan.high > scan.base /\ e.type = ty
    BY <1>1, <1>3, <2>1, <2>2
  <2>3. CASE ~(scan.high > scan.base /\ e.type = ty)
    <3>1. cursors'[e.type] = cursors[e.type]
      BY <1>1, <2>1, <2>3
    <3>2. QED
      BY <1>0, <3>1 DEF NothingBehind
  <2>4. QED
    BY <2>2, <2>3
<1>5. CASE \E k \in 1 .. Len(Targets) : scan' = FromCursor(k, cursors')
  BY <1>0, <1>1, <1>4, <1>5, FreshScan DEF ScanInv
<1>6. CASE /\ scan.next # NULL /\ scan' \in Scan
           /\ scan'.target = scan.target /\ scan'.from = scan.next
           /\ scan'.base = scan.base /\ scan'.high = scan.high
           /\ scan'.batch = {} /\ scan'.todo = {}
           /\ scan'.next = NULL /\ scan'.step = "fetch"
  <2>1. ScanType(scan') = ty
    BY <1>6 DEF ScanType
  <2>2. HighStored(scan', indexed)
    BY <1>2, <1>6, <2>1 DEF HighStored, ScanSound
  <2>3. ASSUME NEW e \in Event, Sole(e), e.type = ty
        PROVE  ScanCovers(scan', indexed, e)
    <3>1. ScanCovers(scan, indexed, e)
      BY <1>2, <2>3 DEF ScanSound
    <3>2. QED
      BY <1>1, <1>6, <3>1 DEF ScanCovers
  <2>4. ScanSound(scan', indexed)
    BY <1>6, <2>1, <2>2, <2>3 DEF ScanSound
  <2>5. QED
    BY <1>0, <1>4, <2>4 DEF ScanInv
<1>7. CASE scan' = NULL
  BY <1>0, <1>4, <1>7 DEF ScanInv
<1>8. QED
  BY <1>1, <1>5, <1>6, <1>7

\* Every step keeps what the scan under way covers, and nothing behind a cursor is
\* ever missing.
LEMMA ScanStep ==
    ASSUME Inv, [Next]_vars
    PROVE  ScanInv' /\ NothingBehind(cursors, indexed)'
<1>0. /\ TypeOK /\ ScanInv /\ NothingBehind(cursors, indexed) /\ cursors \in Cursors
  BY DEF Inv, TypeOK, IndexerTypeOK, Cursors
<1>1. CASE StartTick
  BY <1>0, <1>1, StartIs, FreshScan DEF StartTick, ScanInv
<1>2. CASE FetchPage
  BY <1>0, <1>2, FetchKeepsScan DEF FetchPage
<1>3. CASE FetchFails
  BY <1>0, <1>3 DEF FetchFails, ScanInv
<1>4. CASE StoreEvent
  BY <1>4, StoreKeepsScan
<1>5. CASE AdvanceCursor
  BY <1>5, AdvanceKeepsScan
<1>6. CASE Enqueue
  BY <1>6, EnqueueKeepsScan
<1>7. CASE ScanLost
  BY <1>0, <1>7 DEF ScanLost, ScanInv
<1>8. CASE UNCHANGED <<cursors, indexed, scan>>
  BY <1>0, <1>8 DEF ScanInv
<1>9. QED
  BY <1>1, <1>2, <1>3, <1>4, <1>5, <1>6, <1>7, <1>8, Step DEF vars, DrainLost

-----------------------------------------------------------------------------
(***************************************************************************)
(* The queue                                                               *)
(***************************************************************************)

\* A delivery under way: it is due, and can be attempted once more.
LEMMA Posting ==
    ASSUME Inv, drain # NULL, NEW d \in drain.due
    PROVE  /\ drain \in Drain /\ d \in DeliveryId
           /\ deliveries[d] \in Delivery /\ deliveries[d].status # "delivered"
           /\ deliveries[d].attempts \in 0 .. AttemptsSeen
           /\ deliveries[d].attempts + 1 \in 0 .. AttemptsSeen
           /\ deliveries[d].next \in 0 .. MaxNow + MaxBackoff
           /\ drain.at \in 0 .. MaxNow
<1>1. drain \in Drain /\ deliveries \in [DeliveryId -> Delivery \cup {NULL}]
  BY DEF Inv, TypeOK
<1>2. d \in DeliveryId /\ drain.at \in 0 .. MaxNow
  BY <1>1 DEF Drain
<1>3. /\ deliveries[d] # NULL /\ deliveries[d].status \in {"pending", "failed"}
      /\ deliveries[d].attempts < AttemptsSeen
  BY DEF Inv, DrainInv
<1>4. deliveries[d] \in Delivery
  BY <1>1, <1>2, <1>3
<1>5. /\ deliveries[d].attempts \in 0 .. AttemptsSeen
      /\ deliveries[d].next \in 0 .. MaxNow + MaxBackoff
  BY <1>4 DEF Delivery
<1>6. deliveries[d].attempts + 1 \in 0 .. AttemptsSeen
  BY <1>3, <1>5, DeliveryAssumption
<1>7. QED
  BY <1>1, <1>2, <1>3, <1>4, <1>5, <1>6

\* The time of the next attempt stays within the cap on the delay.
LEMMA BackoffCapped ==
    ASSUME NEW n \in 0 .. AttemptsSeen
    PROVE  Backoff(n) \in 0 .. MaxBackoff
<1> DEFINE delay == BaseBackoff * 2^n
<1>1. 2^n \in Nat /\ BaseBackoff \in Nat /\ MaxBackoff \in Nat
  BY DeliveryAssumption
<1>2. delay \in Nat
  BY <1>1
<1>3. Backoff(n) = IF delay < MaxBackoff THEN delay ELSE MaxBackoff
  BY DEF Backoff
<1> HIDE DEF delay
<1>4. QED
  BY <1>1, <1>2, <1>3

\* What is left of a drain when a delivery is done.
LEMMA DoneIs ==
    ASSUME Inv, drain # NULL, NEW d \in drain.due
    PROVE  \/ Done(d) = NULL
           \/ /\ Done(d) \in Drain
              /\ Done(d).due = drain.due \ {d} /\ Done(d).post = NULL
<1>1. drain \in Drain
  BY Posting
<1> DEFINE u == [at |-> drain.at, due |-> drain.due \ {d}, post |-> NULL]
<1>2. u \in Drain /\ u.due = drain.due \ {d} /\ u.post = NULL
  BY <1>1 DEF Drain
<1>3. Done(d) = IF drain.due = {d} THEN NULL ELSE u
  BY DEF Done
<1> HIDE DEF u
<1>4. QED
  BY <1>2, <1>3

\* What a step of a drain does: it starts one with rows that are due, posts one
\* of them, or is done with one, whose row it rewrites.
LEMMA DrainIs ==
    ASSUME Inv, StartDrain \/ CancelDelivery \/ Post \/ Delivered \/ Refused
    PROVE  \/ /\ deliveries' = deliveries /\ drain' \in Drain /\ drain'.post = NULL
              /\ \A d \in drain'.due : Selected(d)
           \/ /\ deliveries' = deliveries /\ drain # NULL /\ drain' \in Drain
              /\ drain'.due = drain.due /\ drain'.post \in drain.due
           \/ /\ drain # NULL
              /\ \E d \in drain.due, row \in Delivery :
                    /\ deliveries' = [deliveries EXCEPT ![d] = row]
                    /\ drain' = Done(d)
<1> DEFINE Settles(d) == \E row \in Delivery :
                            /\ deliveries' = [deliveries EXCEPT ![d] = row]
                            /\ drain' = Done(d)
<1>0. now \in 0 .. MaxNow /\ drain \in Drain \cup {NULL}
  BY DEF Inv, TypeOK, IndexerTypeOK
<1>1. CASE StartDrain
  <2>1. PICK page \in Oldest({d \in DeliveryId : Selected(d)}) :
           drain' = [at |-> now, due |-> page, post |-> NULL]
    BY <1>1 DEF StartDrain
  <2>2. page \subseteq DeliveryId /\ \A d \in page : Selected(d)
    BY DEF Oldest
  <2>3. drain' \in Drain /\ drain'.post = NULL /\ drain'.due = page
    BY <1>0, <2>1, <2>2 DEF Drain
  <2>4. QED
    BY <1>1, <2>2, <2>3 DEF StartDrain
<1>2. CASE Post
  <2>1. PICK d \in DeliveryId : AtHead(d) /\ drain' = [drain EXCEPT !.post = d]
    BY <1>2 DEF Post
  <2>2. drain \in Drain /\ drain # NULL /\ d \in drain.due
    BY <1>0, <2>1 DEF AtHead
  <2>3. drain' \in Drain /\ drain'.post = d /\ drain'.due = drain.due
    BY <2>1, <2>2 DEF Drain
  <2>4. QED
    BY <1>2, <2>2, <2>3 DEF Post
<1>3. CASE CancelDelivery
  <2>1. PICK d \in DeliveryId :
           /\ AtHead(d) /\ drain' = Done(d)
           /\ deliveries' = [deliveries EXCEPT ![d] = [deliveries[d] EXCEPT !.status = "failed"]]
    BY <1>3 DEF CancelDelivery, UpdateDelivery
  <2>2. drain # NULL /\ d \in drain.due
    BY <2>1 DEF AtHead
  <2>3. [deliveries[d] EXCEPT !.status = "failed"] \in Delivery
    BY <2>2, Posting DEF Delivery
  <2>4. QED
    BY <2>1, <2>2, <2>3
<1>4. CASE Delivered \/ Refused
  <2> DEFINE d == drain.post
             n == deliveries[d].attempts + 1
  <2>1. drain # NULL /\ d \in drain.due /\ drain' = Done(d)
    BY <1>4 DEF Delivered, Refused, Inv, DrainInv
  <2>2. /\ deliveries[d] \in Delivery /\ n \in 0 .. AttemptsSeen
        /\ deliveries[d].next \in 0 .. MaxNow + MaxBackoff /\ drain.at \in 0 .. MaxNow
    BY <2>1, Posting
  <2>3. Backoff(n) \in 0 .. MaxBackoff
    BY <2>2, BackoffCapped
  <2>4. CASE Delivered
    <3> DEFINE row == [status |-> "delivered", attempts |-> n, next |-> deliveries[d].next]
    <3>1. deliveries' = [deliveries EXCEPT ![d] = row]
      BY <2>4 DEF Delivered, UpdateDelivery
    <3> HIDE DEF n
    <3>2. row \in Delivery
      BY <2>2 DEF Delivery
    <3> HIDE DEF row, d
    <3>3. QED
      BY <2>1, <3>1, <3>2
  <2>5. CASE Refused
    <3>1. deliveries' = [deliveries EXCEPT ![d] = AfterFailure(d)]
      BY <2>5 DEF Refused, UpdateDelivery
    <3>2. AfterFailure(d) = IF n >= MaxAttempts
                            THEN [status |-> "failed", attempts |-> n, next |-> drain.at]
                            ELSE [status |-> "pending", attempts |-> n,
                                  next |-> drain.at + Backoff(n)]
      BY DEF AfterFailure
    <3>3. /\ drain.at \in 0 .. MaxNow + MaxBackoff
          /\ drain.at + Backoff(n) \in 0 .. MaxNow + MaxBackoff
      <4>1. MaxNow \in Nat /\ MaxBackoff \in Nat
        BY DeliveryAssumption, IndexerAssumption
      <4>2. QED
        BY <2>2, <2>3, <4>1
    <3> HIDE DEF n
    <3>4. AfterFailure(d) \in Delivery
      BY <2>2, <3>2, <3>3 DEF Delivery
    <3> HIDE DEF d
    <3>5. QED
      BY <2>1, <3>1, <3>4
  <2>6. QED
    BY <1>4, <2>4, <2>5
<1>5. QED
  BY <1>1, <1>2, <1>3, <1>4

\* Between pages there is nothing to enqueue.
LEMMA NothingToEnqueue ==
    ASSUME Inv, StartTick \/ FetchPage \/ FetchFails \/ AdvanceCursor
    PROVE  /\ indexed' = indexed /\ owed' = owed
           /\ scan # NULL => scan.todo = {}
           /\ scan' # NULL => scan'.todo = {}
<1>0. TypeOK /\ ScanInv /\ cursors \in Cursors
  BY DEF Inv, TypeOK, IndexerTypeOK, Cursors
<1>1. \A k \in 1 .. Len(Targets), table \in Cursors : FromCursor(k, table).todo = {}
  BY FromCursorIs
<1>2. CASE StartTick
  BY <1>0, <1>1, <1>2, StartIs DEF StartTick
<1>3. CASE FetchPage
  <2>1. scan.todo = {}
    BY <1>0, <1>3, FetchIs DEF FetchPage, ScanInv, ScanSound
  <2>2. scan' # NULL => scan'.todo = {}
    BY <1>0, <1>1, <1>3, <2>1, FetchIs
  <2>3. QED
    BY <1>3, <2>1, <2>2 DEF FetchPage
<1>4. CASE FetchFails
  BY <1>0, <1>4 DEF FetchFails, ScanInv, ScanSound
<1>5. CASE AdvanceCursor
  <2>1. scan' # NULL => scan'.todo = {}
    BY <1>0, <1>1, <1>5, AdvanceIs
  <2>2. QED
    BY <1>5, <2>1 DEF AdvanceCursor
<1>6. QED
  BY <1>2, <1>3, <1>4, <1>5

\* An event that is stored anew had no row, and so no deliveries.
LEMMA NewEvent ==
    ASSUME Inv, NEW e \in Event, ~Known(e)
    PROVE  e \notin indexed /\ \A w \in Webhook : deliveries[<<w, e>>] = NULL
<1>1. e \notin indexed
  BY DEF Known, SameEvent
<1>2. QED
  BY <1>1 DEF Inv, QueueInv

\* A drain rewrites rows and neither adds nor removes any.
LEMMA DrainKeepsRows ==
    ASSUME Inv, StartDrain \/ CancelDelivery \/ Post \/ Delivered \/ Refused
    PROVE  \A d \in DeliveryId : deliveries'[d] # NULL <=> deliveries[d] # NULL
<1>1. deliveries \in [DeliveryId -> Delivery \cup {NULL}]
  BY DEF Inv, TypeOK
<1>2. CASE deliveries' = deliveries
  BY <1>2
<1>3. CASE /\ drain # NULL
           /\ \E d \in drain.due, row \in Delivery :
                 deliveries' = [deliveries EXCEPT ![d] = row]
  <2>1. PICK d \in drain.due, row \in Delivery :
           deliveries' = [deliveries EXCEPT ![d] = row]
    BY <1>3
  <2>2. deliveries[d] # NULL /\ row # NULL
    BY <1>3, NullIsNoDelivery DEF Inv, DrainInv
  <2>3. QED
    BY <1>1, <2>1, <2>2
<1>4. QED
  BY <1>2, <1>3, DrainIs

\* Deliveries stay with indexed events, and those to come stay to come until they
\* are enqueued.
LEMMA QueueStep ==
    ASSUME Inv, [Next]_vars
    PROVE  QueueInv'
<1>0. /\ TypeOK /\ QueueInv /\ indexed \subseteq Event
      /\ deliveries \in [DeliveryId -> Delivery \cup {NULL}]
  BY DEF Inv, TypeOK, IndexerTypeOK
<1>1. CASE /\ StartTick \/ FetchPage \/ FetchFails \/ AdvanceCursor
           /\ UNCHANGED deliveries
  BY <1>0, <1>1, NothingToEnqueue DEF QueueInv
<1>2. CASE StoreEvent /\ UNCHANGED deliveries
  <2>1. PICK e \in scan.batch :
           /\ e \in Event /\ scan'.event = e
           /\ scan'.todo = IF Known(e) THEN {} ELSE Subscribers(e.type)
           /\ indexed' = IF Known(e) THEN indexed ELSE indexed \cup {e}
    BY <1>0, <1>2, StoreIs
  <2>2. CASE Known(e)
    BY <1>0, <1>2, <2>1, <2>2 DEF QueueInv
  <2>3. CASE ~Known(e)
    <3>1. \A w \in Subscribers(e.type) : w \in Webhook
      BY DEF Subscribers
    <3>2. QED
      BY <1>0, <1>2, <2>1, <2>3, <3>1, NewEvent DEF QueueInv
  <2>4. QED
    BY <2>2, <2>3
<1>3. CASE Enqueue
  <2>1. PICK w \in scan.todo :
           /\ w \in Webhook
           /\ scan'.event = scan.event /\ scan'.todo = scan.todo \ {w}
           /\ deliveries' = [deliveries EXCEPT ![<<w, scan.event>>] =
                  [status |-> "pending", attempts |-> 0, next |-> now]]
    BY <1>0, <1>3, EnqueueIs
  <2>2. scan.event \in indexed /\ scan.event \in Event /\ indexed' = indexed
    BY <1>0, <1>3, <2>1 DEF QueueInv, Enqueue, Storing
  <2>3. \A x \in Webhook, e \in Event :
           <<x, e>> # <<w, scan.event>> => deliveries'[<<x, e>>] = deliveries[<<x, e>>]
    BY <1>0, <2>1 DEF DeliveryId
  <2>4. \A x \in Webhook, e \in Event : deliveries'[<<x, e>>] # NULL => e \in indexed
    BY <1>0, <2>2, <2>3 DEF QueueInv
  <2>5. \A x \in scan'.todo : x \in Webhook /\ x # w /\ x \in scan.todo
    BY <1>0, <1>3, <2>1, EnqueueIs DEF Scan
  <2>6. \A x \in scan'.todo : deliveries'[<<x, scan.event>>] = NULL
    BY <1>0, <1>3, <2>2, <2>3, <2>5 DEF QueueInv, Enqueue, Storing
  <2>7. QED
    BY <2>1, <2>2, <2>4, <2>6 DEF QueueInv
<1>4. CASE /\ StartDrain \/ CancelDelivery \/ Post \/ Delivered \/ Refused
           /\ UNCHANGED <<indexed, scan>>
  <2>1. \A w \in Webhook, e \in Event :
           deliveries'[<<w, e>>] # NULL <=> deliveries[<<w, e>>] # NULL
    BY <1>4, DrainKeepsRows DEF DeliveryId
  <2>2. scan # NULL => scan.todo \subseteq Webhook
    BY <1>0 DEF TypeOK, IndexerTypeOK, Scan
  <2>3. QED
    BY <1>0, <1>4, <2>1, <2>2 DEF QueueInv
<1>5. CASE ScanLost
  BY <1>0, <1>5 DEF ScanLost, QueueInv
<1>6. CASE UNCHANGED <<indexed, scan, deliveries>>
  BY <1>0, <1>6 DEF QueueInv
<1>7. QED
  BY <1>1, <1>2, <1>3, <1>4, <1>5, <1>6, Step DEF vars, DrainLost

\* What a drain has to post stays undelivered, whatever is enqueued meanwhile.
LEMMA DrainStepKeeps ==
    ASSUME Inv, [Next]_vars
    PROVE  DrainInv'
<1>0. /\ TypeOK /\ DrainInv /\ QueueInv
      /\ deliveries \in [DeliveryId -> Delivery \cup {NULL}]
      /\ drain \in Drain \cup {NULL}
  BY DEF Inv, TypeOK
<1>1. drain # NULL => drain.due \subseteq DeliveryId
  BY <1>0 DEF Drain
<1>2. CASE UNCHANGED <<deliveries, drain>>
  BY <1>0, <1>2 DEF DrainInv
<1>3. CASE Enqueue /\ UNCHANGED drain
  <2>1. PICK w \in scan.todo :
           deliveries' = [deliveries EXCEPT ![<<w, scan.event>>] =
                  [status |-> "pending", attempts |-> 0, next |-> now]]
    BY <1>0, <1>3, EnqueueIs
  <2>2. deliveries[<<w, scan.event>>] = NULL
    BY <1>0, <1>3, <2>1 DEF QueueInv, Enqueue, Storing
  <2>3. ASSUME drain # NULL, NEW d \in drain.due
        PROVE  deliveries'[d] = deliveries[d]
    <3>1. d # <<w, scan.event>> /\ d \in DeliveryId
      BY <1>0, <1>1, <2>2, <2>3 DEF DrainInv
    <3>2. QED
      BY <1>0, <2>1, <3>1
  <2>4. QED
    BY <1>0, <1>3, <2>3 DEF DrainInv
<1>4. CASE StartDrain \/ CancelDelivery \/ Post \/ Delivered \/ Refused
  <2>1. CASE /\ deliveries' = deliveries /\ drain' \in Drain /\ drain'.post = NULL
             /\ \A d \in drain'.due : Selected(d)
    BY <2>1 DEF DrainInv, Selected
  <2>2. CASE /\ deliveries' = deliveries /\ drain # NULL /\ drain' \in Drain
             /\ drain'.due = drain.due /\ drain'.post \in drain.due
    BY <1>0, <2>2 DEF DrainInv
  <2>3. CASE /\ drain # NULL
             /\ \E d \in drain.due, row \in Delivery :
                   /\ deliveries' = [deliveries EXCEPT ![d] = row]
                   /\ drain' = Done(d)
    <3>1. PICK d \in drain.due, row \in Delivery :
             /\ deliveries' = [deliveries EXCEPT ![d] = row]
             /\ drain' = Done(d)
      BY <2>3
    <3>2. \/ drain' = NULL
          \/ drain'.due = drain.due \ {d} /\ drain'.post = NULL
      BY <2>3, <3>1, DoneIs
    <3>3. \A x \in drain.due \ {d} : deliveries'[x] = deliveries[x]
      BY <1>0, <1>1, <2>3, <3>1
    <3>4. QED
      BY <1>0, <2>3, <3>2, <3>3 DEF DrainInv
  <2>4. QED
    BY <1>4, <2>1, <2>2, <2>3, DrainIs
<1>5. CASE drain' = NULL
  BY <1>5 DEF DrainInv
<1>6. QED
  BY <1>2, <1>3, <1>4, <1>5, Step DEF vars, ScanLost, DrainLost

-----------------------------------------------------------------------------
(***************************************************************************)
(* Types                                                                   *)
(***************************************************************************)

\* The tables and the scan keep their types.
LEMMA IndexerTypes ==
    ASSUME Inv, [Next]_vars
    PROVE  /\ cursors' \in Cursors /\ indexed' \subseteq Event
           /\ scan' \in Scan \cup {NULL} /\ owed' \in [Event -> SUBSET Webhook]
<1>0. /\ TypeOK /\ cursors \in Cursors /\ indexed \subseteq Event
      /\ scan \in Scan \cup {NULL} /\ owed \in [Event -> SUBSET Webhook]
  BY DEF Inv, TypeOK, IndexerTypeOK, Cursors
<1>1. \A k \in 1 .. Len(Targets), table \in Cursors : FromCursor(k, table) \in Scan
  BY FromCursorIs
<1>2. CASE StartTick
  BY <1>0, <1>1, <1>2, StartIs DEF StartTick
<1>3. CASE FetchPage
  <2>1. scan' \in Scan \cup {NULL}
    BY <1>0, <1>1, <1>3, FetchIs
  <2>2. QED
    BY <1>0, <1>3, <2>1 DEF FetchPage
<1>4. CASE FetchFails
  BY <1>0, <1>4 DEF FetchFails
<1>5. CASE StoreEvent
  <2>1. PICK e \in scan.batch :
           /\ e \in Event /\ scan' \in Scan
           /\ indexed' = IF Known(e) THEN indexed ELSE indexed \cup {e}
           /\ owed' = IF Known(e) THEN owed
                      ELSE [owed EXCEPT ![e] =
                              {w \in Webhook :
                                 webhooks[w] \in [type : {e.type}, active : {TRUE}]}]
    BY <1>0, <1>5, StoreIs
  <2> DEFINE ws == {w \in Webhook : webhooks[w] \in [type : {e.type}, active : {TRUE}]}
  <2>2. ws \in SUBSET Webhook /\ (owed' = owed \/ owed' = [owed EXCEPT ![e] = ws])
    BY <2>1
  <2> HIDE DEF ws
  <2>3. owed' \in [Event -> SUBSET Webhook]
    BY <1>0, <2>1, <2>2
  <2>4. cursors' \in Cursors /\ indexed' \subseteq Event /\ scan' \in Scan
    BY <1>0, <1>5, <2>1 DEF StoreEvent
  <2>5. QED
    BY <2>3, <2>4
<1>6. CASE AdvanceCursor
  <2>1. cursors' \in Cursors /\ scan' \in Scan \cup {NULL}
    BY <1>0, <1>1, <1>6, AdvanceIs
  <2>2. QED
    BY <1>0, <1>6, <2>1 DEF AdvanceCursor
<1>7. CASE Enqueue
  BY <1>0, <1>7, EnqueueIs DEF Enqueue
<1>8. CASE ScanLost
  BY <1>0, <1>8 DEF ScanLost
<1>9. CASE UNCHANGED <<cursors, indexed, scan, owed>>
  BY <1>0, <1>9
<1>10. QED
  BY <1>2, <1>3, <1>4, <1>5, <1>6, <1>7, <1>8, <1>9, Step DEF vars, DrainLost

\* The routes keep the type of the registrations.
LEMMA RoutesTypes ==
    ASSUME webhooks \in [Webhook -> Registration \cup {NULL}], RoutesNext
    PROVE  webhooks' \in [Webhook -> Registration \cup {NULL}]
<1>1. CASE \E r \in Requested : RegisterWebhook(r[1], r[2])
  <2>1. PICK r \in Requested :
           webhooks' = [webhooks EXCEPT ![r[1]] = [type |-> r[2], active |-> TRUE]]
    BY <1>1 DEF RegisterWebhook
  <2>2. r[1] \in Webhook /\ r[2] \in Type
    BY IndexerAssumption
  <2>3. [type |-> r[2], active |-> TRUE] \in Registration
    BY <2>2 DEF Registration
  <2>4. QED
    BY <2>1, <2>3
<1>2. CASE \E w \in Webhook, active \in BOOLEAN : SetWebhookActive(w, active)
  <2>1. PICK w \in Webhook, active \in BOOLEAN :
           /\ webhooks[w] # NULL
           /\ webhooks' = [webhooks EXCEPT ![w] = [webhooks[w] EXCEPT !.active = active]]
    BY <1>2 DEF SetWebhookActive
  <2>2. webhooks[w] \in Registration
    BY <2>1
  <2>3. [webhooks[w] EXCEPT !.active = active] \in Registration
    BY <2>2 DEF Registration
  <2>4. QED
    BY <2>1, <2>3
<1>3. QED
  BY <1>1, <1>2 DEF RoutesNext

\* The clocks stay within their bounds.
LEMMA ClockTypes ==
    ASSUME TypeOK, [Next]_vars
    PROVE  /\ latest' \in 0 .. MaxLedger /\ now' \in 0 .. MaxNow
           /\ faults' \in 0 .. MaxFaults
           /\ webhooks' \in [Webhook -> Registration \cup {NULL}]
<1>1. /\ latest \in 0 .. MaxLedger /\ now \in 0 .. MaxNow /\ faults \in 0 .. MaxFaults
      /\ webhooks \in [Webhook -> Registration \cup {NULL}]
      /\ MaxNow \in Nat /\ MaxLedger \in Nat /\ MaxFaults \in Nat
  BY IndexerAssumption DEF TypeOK, IndexerTypeOK
<1>2. CASE ScanLost \/ DrainLost
  BY <1>1, <1>2 DEF ScanLost, DrainLost, Fault
<1>3. CASE RoutesNext /\ UNCHANGED <<latest, now, faults>>
  BY <1>1, <1>3, RoutesTypes
<1>4. CASE latest < MaxLedger /\ latest' = latest + 1 /\ UNCHANGED <<webhooks, now, faults>>
  BY <1>1, <1>4
<1>5. CASE now < MaxNow /\ now' = now + 1 /\ UNCHANGED <<latest, webhooks, faults>>
  BY <1>1, <1>5
<1>6. CASE UNCHANGED <<latest, webhooks, now, faults>>
  BY <1>1, <1>6
<1>7. QED
  BY <1>2, <1>3, <1>4, <1>5, <1>6, Step DEF vars

\* The queue and the drain keep their types.
LEMMA QueueTypes ==
    ASSUME Inv, [Next]_vars
    PROVE  /\ deliveries' \in [DeliveryId -> Delivery \cup {NULL}]
           /\ drain' \in Drain \cup {NULL}
<1>0. /\ TypeOK /\ deliveries \in [DeliveryId -> Delivery \cup {NULL}]
      /\ drain \in Drain \cup {NULL} /\ now \in 0 .. MaxNow
  BY DEF Inv, TypeOK, IndexerTypeOK
<1>1. CASE UNCHANGED <<deliveries, drain>>
  BY <1>0, <1>1
<1>2. CASE Enqueue /\ UNCHANGED drain
  <2> DEFINE row == [status |-> "pending", attempts |-> 0, next |-> now]
  <2>1. \E d : deliveries' = [deliveries EXCEPT ![d] = row]
    BY <1>0, <1>2, EnqueueIs
  <2>2. 0 \in 0 .. AttemptsSeen /\ now \in 0 .. MaxNow + MaxBackoff
    BY <1>0, DeliveryAssumption, IndexerAssumption
  <2>3. row \in Delivery
    BY <2>2 DEF Delivery
  <2> HIDE DEF row
  <2>4. QED
    BY <1>0, <1>2, <2>1, <2>3
<1>3. CASE StartDrain \/ CancelDelivery \/ Post \/ Delivered \/ Refused
  <2>1. CASE deliveries' = deliveries /\ drain' \in Drain
    BY <1>0, <2>1
  <2>2. CASE /\ drain # NULL
             /\ \E d \in drain.due, row \in Delivery :
                   /\ deliveries' = [deliveries EXCEPT ![d] = row]
                   /\ drain' = Done(d)
    BY <1>0, <2>2, DoneIs
  <2>3. QED
    BY <1>3, <2>1, <2>2, DrainIs
<1>4. CASE ScanLost \/ DrainLost
  BY <1>0, <1>4 DEF ScanLost, DrainLost
<1>5. QED
  BY <1>1, <1>2, <1>3, <1>4, Step DEF vars

\* The invariant is inductive.
LEMMA InvHolds == Spec => []Inv
<1>1. Init => Inv
  <2> SUFFICES ASSUME Init PROVE Inv
    OBVIOUS
  <2>1. TypeOK
    BY IndexerAssumption DEF Init, IndexerInit, TypeOK, IndexerTypeOK, DeliveryId
  <2>2. ScanInv /\ QueueInv /\ DrainInv
    BY DEF Init, IndexerInit, ScanInv, QueueInv, DrainInv
  <2>3. NothingBehind(cursors, indexed)
    BY Constants DEF Init, IndexerInit, NothingBehind
  <2>4. QED
    BY <2>1, <2>2, <2>3 DEF Inv
<1>2. Inv /\ [Next]_vars => Inv'
  <2> SUFFICES ASSUME Inv, [Next]_vars PROVE Inv'
    OBVIOUS
  <2>1. TypeOK
    BY DEF Inv
  <2>2. TypeOK'
    BY <2>1, IndexerTypes, ClockTypes, QueueTypes DEF TypeOK, IndexerTypeOK, Cursors
  <2>3. QED
    BY <2>2, ScanStep, QueueStep, DrainStepKeeps DEF Inv
<1>3. QED
  BY <1>1, <1>2, PTL DEF Spec

-----------------------------------------------------------------------------
(***************************************************************************)
(* Theorems                                                                *)
(***************************************************************************)

\* Cursors, scans, registrations and deliveries stay within their types, whatever
\* fails or crashes: no attempt is counted beyond the last one followed, and no
\* retry is put off further than the cap on the delay (handleFailure).
THEOREM TypeCorrect == Spec => []TypeOK
<1>1. Inv => TypeOK
  BY DEF Inv
<1>2. QED
  BY <1>1, InvHolds, PTL

\* The cursor never moves past an event that is not stored (indexTarget): not
\* after a page that was cut, a request that failed for good or a crash between two
\* statements.
THEOREM NoEventIsSkipped == Spec => []NothingSkipped
<1>1. Inv => NothingSkipped
  BY DEF Inv, NothingBehind, NothingSkipped, Sole, HasRow, Known
<1>2. QED
  BY <1>1, InvHolds, PTL

\* A delivery that was acknowledged is never posted or rewritten (drain):
\* a drain takes up undelivered rows only, posts only rows it took up, and drops a
\* row once it has settled it, while the indexer only adds rows.
THEOREM DeliveredStaysDelivered == Spec => DeliveredIsFinal
<1> DEFINE Final == \A d \in DeliveryId :
             (deliveries[d] # NULL /\ deliveries[d].status = "delivered")
                => deliveries'[d] = deliveries[d] /\ ~(drain' # NULL /\ drain'.post = d)
<1>1. Inv /\ Inv' /\ [Next]_vars => [Final]_vars
  <2> SUFFICES ASSUME Inv, Inv', [Next]_vars, NEW d \in DeliveryId,
                      deliveries[d] # NULL, deliveries[d].status = "delivered"
               PROVE  deliveries'[d] = deliveries[d] /\ ~(drain' # NULL /\ drain'.post = d)
    OBVIOUS
  <2>0. /\ TypeOK /\ QueueInv /\ DrainInv
        /\ deliveries \in [DeliveryId -> Delivery \cup {NULL}]
    BY DEF Inv, TypeOK
  <2>1. deliveries'[d] = deliveries[d]
    <3>1. CASE UNCHANGED deliveries
      BY <3>1
    <3>2. CASE Enqueue
      <4>1. PICK w \in scan.todo :
               deliveries' = [deliveries EXCEPT ![<<w, scan.event>>] =
                      [status |-> "pending", attempts |-> 0, next |-> now]]
        BY <2>0, <3>2, EnqueueIs
      <4>2. deliveries[<<w, scan.event>>] = NULL
        BY <2>0, <3>2, <4>1 DEF QueueInv, Enqueue, Storing
      <4>3. QED
        BY <2>0, <4>1, <4>2
    <3>3. CASE StartDrain \/ CancelDelivery \/ Post \/ Delivered \/ Refused
      <4>1. ASSUME drain # NULL, NEW x \in drain.due, NEW row,
                   deliveries' = [deliveries EXCEPT ![x] = row]
            PROVE  deliveries'[d] = deliveries[d]
        <5>1. x # d
          BY <4>1, <2>0 DEF DrainInv
        <5>2. QED
          BY <2>0, <4>1, <5>1
      <4>2. QED
        BY <3>3, <4>1, DrainIs
    <3>4. QED
      BY <3>1, <3>2, <3>3, Step DEF vars, ScanLost, DrainLost
  <2>2. ASSUME drain' # NULL, drain'.post = d
        PROVE  FALSE
    <3>1. d \in drain'.due
      BY <2>2, NullIsNoDelivery DEF Inv, DrainInv
    <3>2. QED
      BY <2>1, <2>2, <3>1 DEF Inv, DrainInv
  <2>3. QED
    BY <2>1, <2>2
<1>2. QED
  BY <1>1, InvHolds, PTL DEF Spec, DeliveredIsFinal

-----------------------------------------------------------------------------
(***************************************************************************)
(* Lost deliveries                                                         *)
(***************************************************************************)

\* Who has lost a delivery, spelled out.
Loses(w, e) ==
    /\ w \in owed[e] /\ deliveries[<<w, e>>] = NULL
    /\ ~(scan # NULL /\ scan.event = e /\ w \in scan.todo)

\* A subscriber of a new event is on the list of those to enqueue for.
LEMMA OwedIsTodo ==
    ASSUME webhooks \in [Webhook -> Registration \cup {NULL}], NEW e \in Event,
           NEW w \in Webhook, webhooks[w] \in [type : {e.type}, active : {TRUE}]
    PROVE  w \in Subscribers(e.type)
<1>1. e.type \in Type
  BY Constants
<1>2. webhooks[w] \in Registration
  BY <1>1 DEF Registration
<1>3. webhooks[w].type = e.type /\ webhooks[w].active = TRUE
  OBVIOUS
<1>4. QED
  BY <1>2, <1>3, NullIsNoRecord DEF Subscribers

\* No step but a fault of the tick loses a delivery.
LEMMA NothingLost ==
    ASSUME Inv, [Next]_vars, ~ScanLost, NEW e \in Event, NEW w \in Webhook, Loses(w, e)'
    PROVE  Loses(w, e)
<1>0. /\ TypeOK /\ QueueInv /\ owed \in [Event -> SUBSET Webhook] /\ indexed \subseteq Event
      /\ deliveries \in [DeliveryId -> Delivery \cup {NULL}]
      /\ webhooks \in [Webhook -> Registration \cup {NULL}]
  BY DEF Inv, TypeOK, IndexerTypeOK
<1>1. /\ w \in owed'[e] /\ deliveries'[<<w, e>>] = NULL
      /\ ~(scan' # NULL /\ scan'.event = e /\ w \in scan'.todo)
  BY DEF Loses
<1>2. CASE /\ StartTick \/ FetchPage \/ FetchFails \/ AdvanceCursor
           /\ UNCHANGED deliveries
  BY <1>1, <1>2, NothingToEnqueue DEF Loses
<1>3. CASE StoreEvent /\ UNCHANGED deliveries
  <2>1. scan.todo = {}
    BY <1>3 DEF StoreEvent
  <2>2. PICK x \in scan.batch :
           /\ x \in Event /\ scan' \in Scan /\ scan'.event = x
           /\ scan'.todo = IF Known(x) THEN {} ELSE Subscribers(x.type)
           /\ indexed' = IF Known(x) THEN indexed ELSE indexed \cup {x}
           /\ owed' = IF Known(x) THEN owed
                      ELSE [owed EXCEPT ![x] =
                              {v \in Webhook :
                                 webhooks[v] \in [type : {x.type}, active : {TRUE}]}]
    BY <1>0, <1>3, StoreIs
  <2>3. CASE Known(x)
    BY <1>1, <1>3, <2>1, <2>2, <2>3 DEF Loses
  <2>4. CASE ~Known(x) /\ e # x
    <3>1. owed'[e] = owed[e]
      BY <1>0, <2>2, <2>4
    <3>2. QED
      BY <1>1, <1>3, <2>1, <3>1 DEF Loses
  <2>5. CASE ~Known(x) /\ e = x
    <3>1. owed'[x] = {v \in Webhook : webhooks[v] \in [type : {x.type}, active : {TRUE}]}
      BY <1>0, <2>2, <2>5
    <3>2. webhooks[w] \in [type : {x.type}, active : {TRUE}]
      BY <1>1, <2>5, <3>1
    <3>3. w \in Subscribers(x.type)
      BY <1>0, <2>2, <3>2, OwedIsTodo
    <3>4. scan' # NULL
      BY <2>2, NullIsNoRecord
    <3>5. QED
      BY <1>1, <2>2, <2>5, <3>3, <3>4
  <2>6. QED
    BY <2>3, <2>4, <2>5
<1>4. CASE Enqueue
  <2>1. PICK v \in scan.todo :
           /\ v \in Webhook /\ scan' \in Scan
           /\ scan'.event = scan.event /\ scan'.todo = scan.todo \ {v}
           /\ deliveries' = [deliveries EXCEPT ![<<v, scan.event>>] =
                  [status |-> "pending", attempts |-> 0, next |-> now]]
    BY <1>0, <1>4, EnqueueIs
  <2>2. scan' # NULL /\ indexed' = indexed /\ owed' = owed
    BY <1>4, <2>1, NullIsNoRecord DEF Enqueue
  <2>3. e \in Event /\ scan.event \in Event
    BY <1>0, <1>4, <2>1, <2>2 DEF QueueInv, Enqueue, Storing
  <2>4. <<w, e>> # <<v, scan.event>>
    <3>1. [status |-> "pending", attempts |-> 0, next |-> now] \in Delivery
      <4>1. 0 \in 0 .. AttemptsSeen /\ now \in 0 .. MaxNow + MaxBackoff
        BY <1>0, DeliveryAssumption, IndexerAssumption DEF TypeOK, IndexerTypeOK
      <4>2. QED
        BY <4>1 DEF Delivery
    <3>2. deliveries'[<<v, scan.event>>] # NULL
      BY <1>0, <2>1, <2>3, <3>1, NullIsNoDelivery DEF DeliveryId
    <3>3. QED
      BY <1>1, <3>2
  <2>5. deliveries[<<w, e>>] = NULL
    BY <1>0, <1>1, <2>1, <2>3, <2>4 DEF DeliveryId
  <2>6. ~(scan.event = e /\ w \in scan.todo)
    BY <1>1, <2>1, <2>2, <2>4
  <2>7. QED
    BY <1>1, <2>2, <2>5, <2>6 DEF Loses
<1>5. CASE /\ StartDrain \/ CancelDelivery \/ Post \/ Delivered \/ Refused
           /\ UNCHANGED <<indexed, scan, owed>>
  <2>1. <<w, e>> \in DeliveryId
    BY <1>0, <1>5 DEF DeliveryId
  <2>2. deliveries[<<w, e>>] = NULL
    BY <1>1, <1>5, <2>1, DrainKeepsRows
  <2>3. QED
    BY <1>1, <1>5, <2>2 DEF Loses
<1>6. CASE UNCHANGED <<indexed, scan, owed, deliveries>>
  BY <1>1, <1>6 DEF Loses
<1>7. QED
  BY <1>2, <1>3, <1>4, <1>5, <1>6, Step DEF vars, DrainLost

\* A fault of the tick loses deliveries of the event being stored only.
LEMMA FaultLoses ==
    ASSUME ScanLost, NEW e, NEW w, Loses(w, e)', ~Loses(w, e)
    PROVE  scan # NULL /\ scan.event = e
BY DEF ScanLost, Loses

\* The fan-out of an event is not atomic with its insertion, and a replay of the
\* event enqueues nothing (indexTarget): a delivery that was owed is lost only when
\* the process dies or a statement throws while its event is being stored.
THEOREM LossesAreFaults == Spec => DeliveriesLostOnlyToFaults
<1> DEFINE OnlyFaults == \A e \in Event :
             ~(Missed(e)' \subseteq Missed(e))
                => scan # NULL /\ scan.event = e /\ faults' > faults
<1>1. Inv /\ Inv' /\ [Next]_vars => [OnlyFaults]_vars
  <2> SUFFICES ASSUME Inv, Inv', [Next]_vars, NEW e \in Event,
                      NEW w \in Missed(e)', w \notin Missed(e)
               PROVE  scan # NULL /\ scan.event = e /\ faults' > faults
    OBVIOUS
  <2>1. w \in Webhook
    BY DEF Missed, Inv, TypeOK, IndexerTypeOK
  <2>2. Loses(w, e)' /\ ~Loses(w, e)
    BY DEF Missed, Loses
  <2>3. ScanLost
    BY <2>1, <2>2, NothingLost
  <2>4. faults' > faults
    BY <2>3, IndexerAssumption DEF ScanLost, Fault, Inv, TypeOK, IndexerTypeOK
  <2>5. QED
    BY <2>2, <2>3, <2>4, FaultLoses
<1>2. QED
  BY <1>1, InvHolds, PTL DEF Spec, DeliveriesLostOnlyToFaults

=============================================================================
