--------------------------- MODULE SessionEventQueue ---------------------------
(***************************************************************************)
(* The undelivered session events of one claim of a Run: the runner's      *)
(* bounded queue, the single worker that flushes it and the API's append.  *)
(*                                                                         *)
(* The provider's callback pushes at any moment the runner awaits, also    *)
(* while an append is in flight; JavaScript runs each synchronous piece    *)
(* (the bounding loop, a refusal followed by the next batch) without a     *)
(* push in between.  Entries stay in the order of their sequence numbers,  *)
(* so the array is a function from the sequence numbers it holds.          *)
(***************************************************************************)
EXTENDS Integers, FiniteSets, FiniteSetsExt, Functions

CONSTANTS
    Sizes,          \* sizes of an event as pushed, after the per-event cap
    Marker,         \* size of a queue-bound marker and of a queue record
    MaxEvents, MaxBytes,    \* maxEvents, maxBytes
    BatchEvents, BatchBytes,\* batchMaxEvents, batchMaxBytes
    MaxPushes,      \* bound: events the provider reports
    MaxFailures     \* bound: appends that fail, or whose answer is lost

ASSUME QueueAssumption ==
    /\ Sizes \subseteq Nat \ {0} /\ Marker \in Nat \ {0}
    /\ MaxEvents \in Nat /\ MaxBytes \in Nat
    /\ BatchEvents \in Nat \ {0} /\ BatchBytes \in Nat \ {0}
    /\ MaxPushes \in Nat /\ MaxFailures \in Nat

VARIABLES
    seq,        \* the next sequence number
    q,          \* entries: the undelivered events, by sequence number
    drop,       \* dropRecord: sequence number of the open drop record
    bounding,   \* enforceBound is running
    batchMax,   \* batchMaxEvents and batchMaxBytes as they are now
    worker,     \* the flush worker
    flight,     \* the request in flight: what each of its events accounts for
    held,       \* runLease.held
    rows,       \* SessionEvent rows of the API, by seq: what they account for
    failures, lost,     \* appends that failed, and whose answer was lost
    pushed,     \* history: sequence numbers of the provider's events
    refused,    \* history: events known only to a record the API refused
    shadowed    \* history: events known only to a row skipped as a duplicate

queue == <<seq, q, drop, bounding>>
api == <<rows, failures, lost, shadowed>>
queueVars == <<seq, q, drop, bounding, batchMax, worker, flight, held, rows,
          failures, lost, pushed, refused, shadowed>>

Nothing == [s \in {} |-> {}]
NoRecord == -1

\* liveness stands for the droppable types, lifecycle for the protected ones.
Pushable == {"liveness", "lifecycle"}
Records == {"EVENTS_DROPPED", "EVENT_REJECTED", "EVENTS_COALESCED"}

\* stands: the entries it stands for (coalescedEvents; itself when not merged);
\* dropped, rejected: the events it says are dropped or refused;
\* first, last: the range it reports.
Entry == [type: Pushable \union Records, claimed: BOOLEAN, degraded: BOOLEAN,
          size: Nat, stands: SUBSET Nat, dropped: SUBSET Nat,
          rejected: SUBSET Nat, first: Nat, last: Nat]

Queued(s, type, size) ==
    [type |-> type, claimed |-> FALSE, degraded |-> type \in Records,
     size |-> size, stands |-> {s}, dropped |-> {}, rejected |-> {},
     first |-> s, last |-> s]

\* Every event an entry is the account of.
AccountOf(e) == e.stands \union e.dropped \union e.rejected

Oldest(S) == CHOOSE s \in S : \A t \in S : s <= t
SizeOf(S) == MapThenSumSet(LAMBDA s : q[s].size, S)

Without(S) == Restrict(q, DOMAIN q \ S)
\* append: a new entry at the tail.
Appended(f, s, e) == [t \in DOMAIN f \union {s} |-> IF t = s THEN e ELSE f[t]]
\* forget: a record that leaves the queue is not accumulated into any more.
Forget(S) == IF drop \in S THEN NoRecord ELSE drop

Unclaimed(f) == [s \in DOMAIN f |-> [f[s] EXCEPT !.claimed = FALSE]]

QueueInit ==
    /\ seq = 0 /\ q = Nothing /\ drop = NoRecord /\ bounding = FALSE
    /\ batchMax = [events |-> BatchEvents, bytes |-> BatchBytes]
    /\ worker = "idle" /\ flight = Nothing /\ held = TRUE
    /\ rows = Nothing /\ failures = 0 /\ lost = 0
    /\ pushed = {} /\ refused = {} /\ shadowed = {}

-----------------------------------------------------------------------------
(* The provider's callback, and the loop that brings the queue under its bounds. *)

\* push: between two awaits of the runner; the bound is enforced at once.
Push(type, size) ==
    /\ worker # "looping" /\ ~bounding
    /\ Cardinality(pushed) < MaxPushes
    /\ q' = Appended(q, seq, Queued(seq, type, size))
    /\ seq' = seq + 1
    /\ pushed' = pushed \union {seq}
    /\ bounding' = TRUE
    /\ UNCHANGED <<drop, batchMax, worker, flight, held, refused, api>>

Over == SizeOf(DOMAIN q) > MaxBytes \/ Cardinality(DOMAIN q) > MaxEvents

Droppable == {s \in DOMAIN q : q[s].type = "liveness" /\ ~q[s].claimed}
Degradable == {s \in DOMAIN q : ~q[s].claimed /\ ~q[s].degraded}

Adjacent(s, t) == s < t /\ \A u \in DOMAIN q : ~(s < u /\ u < t)
\* Mutant: only the two oldest entries are looked at.
MergeableAtHead ==
    {s \in DOMAIN q : s = Oldest(DOMAIN q) /\ \E t \in DOMAIN q :
        /\ Adjacent(s, t)
        /\ \A u \in {s, t} : ~q[u].claimed /\ q[u].degraded}

\* The older of two adjacent markers neither of which is in flight.
Mergeable ==
    {s \in DOMAIN q : \E t \in DOMAIN q :
        /\ Adjacent(s, t)
        /\ \A u \in {s, t} : ~q[u].claimed /\ q[u].degraded}

\* recordDrop accumulates into the open record unless a request carries it.
DropRecordOpen == drop # NoRecord /\ ~q[drop].claimed

DropOldest ==
    /\ bounding /\ Over /\ Droppable # {}
    /\ LET s == Oldest(Droppable)
       IN IF DropRecordOpen
          THEN /\ q' = [Without({s}) EXCEPT ![drop].dropped = @ \union {s}]
               /\ UNCHANGED <<seq, drop>>
          ELSE /\ q' = Appended(Without({s}), seq,
                          [Queued(seq, "EVENTS_DROPPED", Marker)
                             EXCEPT !.dropped = {s}])
               /\ drop' = seq
               /\ seq' = seq + 1
    /\ UNCHANGED <<bounding, batchMax, worker, flight, held, pushed, refused, api>>

\* degrade: a payload smaller than the marker stays, but counts as given up.
DegradeOldest ==
    /\ bounding /\ Over /\ Droppable = {} /\ Degradable # {}
    /\ q' = [q EXCEPT ![Oldest(Degradable)].degraded = TRUE,
                      ![Oldest(Degradable)].size = IF Marker < @ THEN Marker ELSE @]
    /\ UNCHANGED <<seq, drop, bounding, batchMax, worker, flight, held, pushed,
                   refused, api>>

\* Mutant: the drops an absorbed record reported are not carried on.
MergedForgetsDrops(e, f) ==
    [type |-> "EVENTS_COALESCED", claimed |-> FALSE, degraded |-> TRUE,
     size |-> Marker, stands |-> e.stands \union f.stands,
     dropped |-> {}, rejected |-> e.rejected \union f.rejected,
     first |-> e.first, last |-> f.last]

Merged(e, f) ==
    [type |-> "EVENTS_COALESCED", claimed |-> FALSE, degraded |-> TRUE,
     size |-> Marker, stands |-> e.stands \union f.stands,
     dropped |-> e.dropped \union f.dropped,
     rejected |-> e.rejected \union f.rejected,
     first |-> e.first, last |-> f.last]

\* coalesceOldestPair: the merged entry keeps the older one's place.
CoalesceOldestPair ==
    /\ bounding /\ Over /\ Droppable = {} /\ Degradable = {} /\ Mergeable # {}
    /\ LET s == Oldest(Mergeable)
           t == Oldest({u \in DOMAIN q : u > s})
       IN /\ q' = [Without({t}) EXCEPT ![s] = Merged(q[s], q[t])]
          /\ drop' = Forget({s, t})
    /\ UNCHANGED <<seq, bounding, batchMax, worker, flight, held, pushed,
                   refused, api>>

Bounded ==
    /\ bounding
    /\ ~Over \/ (Droppable = {} /\ Degradable = {} /\ Mergeable = {})
    /\ bounding' = FALSE
    /\ UNCHANGED <<seq, q, drop, batchMax, worker, flight, held, pushed,
                   refused, api>>

EnforceBound == DropOldest \/ DegradeOldest \/ CoalesceOldestPair \/ Bounded

-----------------------------------------------------------------------------
(* The flush worker: one request at a time, as long as the lease is held. *)

Head(s) == {t \in DOMAIN q : t <= s}
\* Mutant: what must be kept is sent first.
ProtectedFirst ==
    LET kept == {s \in DOMAIN q : q[s].type # "liveness"}
    IN IF kept = {} THEN {Oldest(DOMAIN q)} ELSE {Oldest(kept)}

Fits(s) ==
    /\ Cardinality(Head(s)) <= batchMax.events
    /\ Cardinality(Head(s)) = 1 \/ SizeOf(Head(s)) <= batchMax.bytes

\* The loop ends with the first entry that does not fit.
Batch == {s \in DOMAIN q : \A t \in Head(s) : Fits(t)}

\* batch: the claims of the settled request go, the head of the queue is claimed.
SendBatch ==
    /\ worker \in {"idle", "looping"} /\ ~bounding
    /\ DOMAIN q # {} /\ held
    /\ q' = [s \in DOMAIN q |-> [q[s] EXCEPT !.claimed = s \in Batch]]
    /\ flight' = [s \in Batch |-> AccountOf(q[s])]
    /\ worker' = "sending"
    /\ UNCHANGED <<seq, drop, bounding, batchMax, held, pushed, refused, api>>

Rest ==
    /\ worker = "looping" /\ ~bounding
    /\ DOMAIN q = {} \/ ~held
    /\ worker' = "idle"
    /\ UNCHANGED <<queue, batchMax, flight, held, pushed, refused, api>>

LoseLease ==
    /\ held
    /\ held' = FALSE
    /\ UNCHANGED <<queue, batchMax, worker, flight, pushed, refused, api>>

-----------------------------------------------------------------------------
(* The append's answer.  The transaction commits and the runner learns of it   *)
(* in one step, or it commits and the runner never does.                       *)

Known(f) == UNION {f[s] : s \in DOMAIN f}

\* createMany with skipDuplicates on (sessionId, seq).
Append ==
    /\ rows' = [s \in DOMAIN rows \union DOMAIN flight |->
                   IF s \in DOMAIN rows THEN rows[s] ELSE flight[s]]
    /\ shadowed' = shadowed \union (Known(flight) \ Known(rows'))

\* release, by the identity of the events: a claimed event is never replaced.
Accepted ==
    /\ worker = "sending" /\ ~bounding
    /\ Append
    /\ q' = Without(DOMAIN flight)
    /\ drop' = Forget(DOMAIN flight)
    /\ flight' = Nothing
    /\ worker' = "looping"
    /\ UNCHANGED <<seq, bounding, batchMax, held, failures, lost, pushed, refused>>

\* The answer is lost: the runner's error path leaves the queue as it is,
\* with its claims, for the next flush.
AnswerLost ==
    /\ worker = "sending" /\ ~bounding /\ failures + lost < MaxFailures
    /\ Append
    /\ lost' = lost + 1
    /\ flight' = Nothing
    /\ worker' = "idle"
    /\ UNCHANGED <<queue, batchMax, held, failures, pushed, refused>>

Failed ==
    /\ worker = "sending" /\ ~bounding
    /\ held => failures + lost < MaxFailures
    /\ failures' = IF held THEN failures + 1 ELSE failures
    /\ flight' = Nothing
    /\ worker' = "idle"
    /\ UNCHANGED <<queue, batchMax, held, rows, lost, shadowed, pushed, refused>>

\* The account a refused entry hands to the record of its rejection.
RecordOf(s, e) ==
    LET new == Queued(s, "EVENT_REJECTED", Marker)
    IN IF e.type = "EVENTS_COALESCED"
       THEN [new EXCEPT !.stands = e.stands, !.dropped = e.dropped,
                        !.first = e.first, !.last = e.last]
       ELSE new

\* reject: every claim goes, the refused entry gives way to the record of its
\* rejection at the tail; the rejection of a record is not recorded.  The
\* refused event is still there: no event in flight leaves the queue.
Reject(s) ==
    /\ s \in DOMAIN q
    /\ IF q[s].type \in {"EVENT_REJECTED", "EVENTS_DROPPED"}
       THEN /\ q' = Unclaimed(Without({s}))
            /\ refused' = refused \union AccountOf(q[s])
            /\ UNCHANGED seq
       ELSE /\ q' = Appended(Unclaimed(Without({s})), seq,
                      [RecordOf(seq, q[s]) EXCEPT
                          !.rejected = q[s].rejected \union {s}])
            /\ seq' = seq + 1
            /\ UNCHANGED refused
    /\ drop' = Forget({s})
    /\ bounding' = TRUE
    /\ UNCHANGED batchMax

\* 413 naming one event of the batch.
EventRefused(s) ==
    /\ worker = "sending" /\ ~bounding /\ s \in DOMAIN flight
    /\ Reject(s)
    /\ flight' = Nothing
    /\ worker' = "looping"
    /\ UNCHANGED <<held, pushed, api>>

\* Mutant: the same single event is sent again and again.
AlwaysReduces == TRUE

\* reduceBatch.
CanReduce == batchMax.events > 1 \/ batchMax.bytes > 1
Halved(n) == IF n \div 2 > 1 THEN n \div 2 ELSE 1

\* 413 for the whole request: send less; one event still refused is lost.
RequestRefused ==
    /\ worker = "sending" /\ ~bounding
    /\ IF CanReduce
       THEN /\ batchMax' = [events |-> Halved(batchMax.events),
                            bytes |-> Halved(batchMax.bytes)]
            /\ UNCHANGED <<queue, refused>>
       ELSE Reject(Oldest(DOMAIN flight))
    /\ flight' = Nothing
    /\ worker' = "looping"
    /\ UNCHANGED <<held, pushed, api>>

Answer ==
    \/ Accepted
    \/ AnswerLost
    \/ Failed
    \/ \E s \in DOMAIN flight : EventRefused(s)
    \/ RequestRefused

QueueNext ==
    \/ \E type \in Pushable, size \in Sizes : Push(type, size)
    \/ EnforceBound
    \/ SendBatch
    \/ Rest
    \/ LoseLease
    \/ Answer

QueueSpec == QueueInit /\ [][QueueNext]_queueVars

\* The loop terminates by itself, the heartbeat starts the worker again and
\* every request is answered or times out.  The provider need not report.
QueueFairness ==
    /\ WF_queueVars(EnforceBound)
    /\ WF_queueVars(SendBatch)
    /\ WF_queueVars(Rest)
    /\ WF_queueVars(Answer)
QueueLiveSpec == QueueSpec /\ QueueFairness

-----------------------------------------------------------------------------
QueueTypeOK ==
    /\ seq \in Nat /\ bounding \in BOOLEAN
    /\ DOMAIN q \subseteq 0..seq-1
    /\ \A s \in DOMAIN q : q[s] \in Entry
    /\ drop = NoRecord \/ (drop \in DOMAIN q /\ q[drop].type = "EVENTS_DROPPED")
    /\ batchMax \in [events: Nat \ {0}, bytes: Nat \ {0}]
    /\ worker \in {"idle", "sending", "looping"} /\ held \in BOOLEAN
    /\ DOMAIN flight \subseteq 0..seq-1
    /\ DOMAIN rows \subseteq 0..seq-1
    /\ \A s \in DOMAIN rows : rows[s] \subseteq Nat
    /\ pushed \subseteq 0..seq-1

HeldBack == UNION {AccountOf(q[s]) : s \in DOMAIN q}

\* Nothing vanishes: every event the provider reported is in the queue or in a
\* row of the API, as itself or in the account of a marker or record, unless
\* the API refused that record, or the row was taken for a duplicate.
Accounted == pushed \subseteq HeldBack \union Known(rows) \union refused \union shadowed

\* What the header of session-event-queue.ts promises: every protected event
\* is counted in a marker the control plane receives.  It can fail after a lost
\* answer: entries the API already has are merged with later ones under a
\* sequence number the API then skips.
NothingIsShadowed == shadowed = {}

\* While every answer arrives no event is accounted for twice: not by two rows
\* or entries, and not by a row and an entry.
CountedOnce ==
    lost = 0 =>
        /\ DOMAIN q \intersect DOMAIN rows = {}
        /\ Known(rows) \intersect HeldBack = {}
        /\ \A s, t \in DOMAIN q : s # t => AccountOf(q[s]) \intersect AccountOf(q[t]) = {}
        /\ \A s, t \in DOMAIN rows : s # t => rows[s] \intersect rows[t] = {}

\* The account of the queue balances: no event vanishes, and none is reported
\* twice while every answer arrives.
AccountBalances == Accounted /\ CountedOnce

\* Outside the loop the queue is within both bounds, whatever the provider
\* reports and however long the API does not answer.
BoundHolds == ~bounding => ~Over

\* Records never breed: one drop and one rejection for each reported event at
\* most, so an API that refuses everything cannot keep the worker busy.
RecordsAreFew == seq <= 3 * Cardinality(pushed)

\* What the queue holds, and what it makes the API store, stays bounded.
StaysBounded == QueueTypeOK /\ BoundHolds /\ RecordsAreFew

\* The range a marker reports covers the entries it stands for.
RangesSpan ==
    \A s \in DOMAIN q : \A t \in q[s].stands : q[s].first <= t /\ t <= q[s].last

\* The API receives what survives in its order: a new row is later than every
\* row it has.
InOrder ==
    [][\A s \in DOMAIN rows' \ DOMAIN rows : \A t \in DOMAIN rows : t < s]_queueVars

\* The worker gets rid of whatever is queued as long as the lease is held,
\* whatever the API refuses.
Drains == []<>(DOMAIN q = {} \/ ~held)
=============================================================================
