---------------------------- MODULE WorkScheduler ----------------------------
(***************************************************************************)
(* The protocol-neutral queue and attempt lifecycle of download work:      *)
(* WorkScheduler<T> of aria2-core/src/engine/work_scheduler.rs.  A driver  *)
(* owns the scheduler exclusively (&mut self), so every method is one      *)
(* action; the payload of an item is abstracted to its id, and the leases  *)
(* the driver holds are part of the state, because they are moved out of   *)
(* the scheduler and handed back later, possibly after a cancellation.     *)
(***************************************************************************)
EXTENDS Integers, SequencesExt

CONSTANTS
    Ids,            \* the work items
    MaxAttempts,    \* [Ids -> Nat], total attempts of each item, 0 = unlimited
    MaxInFlight,    \* bound: the largest ceiling the driver passes to admit
    MaxTime,        \* bound: the clock stops here, retry deadlines lie before
    U32Max,         \* attempt counters are u32 and saturate here
    SequenceSpace   \* next_sequence is u64 and wraps here

ASSUME SchedulerAssumption ==
    /\ U32Max \in Nat \ {0} /\ SequenceSpace \in Nat \ {0}
    /\ MaxInFlight \in Nat /\ MaxTime \in Nat
    /\ MaxAttempts \in [Ids -> 0..U32Max]

VARIABLES
    ready,          \* queue of [id, previous_attempts]
    delayed,        \* heap of [id, previous_attempts, ready_at, sequence]
    in_flight,      \* attempt number leased for each id, 0 when not in the map
    active_ids,     \* every id that is queued, delayed or in flight
    next_sequence,  \* tie breaker of equal retry deadlines
    cancelled,      \* cancel() was called
    leases,         \* leases the driver holds: [id, attempt]
    now             \* the driver's clock
vars == <<ready, delayed, in_flight, active_ids, next_sequence, cancelled, leases, now>>

Attempts == 0..U32Max
ReadyWork == [id : Ids, previous_attempts : Attempts]
DelayedWork == [id : Ids, previous_attempts : Attempts,
                ready_at : 0..MaxTime, sequence : 0..SequenceSpace - 1]
Lease == [id : Ids, attempt : 1..U32Max]

Work(i, prev) == [id |-> i, previous_attempts |-> prev]
IncWithoutSaturation(n) == n + 1                       \* mutant
SaturatingInc(n) == IF n < U32Max THEN n + 1 ELSE U32Max
QueueIds(q) == {q[k].id : k \in 1..Len(q)}
ReadyIds == QueueIds(ready)
DelayedIds == {d.id : d \in delayed}
InFlightIds == {i \in Ids : in_flight[i] # 0}

-----------------------------------------------------------------------------
Init ==
    /\ ready = <<>>
    /\ delayed = {}
    /\ in_flight = [i \in Ids |-> 0]
    /\ active_ids = {}
    /\ next_sequence = 0
    /\ cancelled = FALSE
    /\ leases = {}
    /\ now = 0

\* A cancelled scheduler or an active id refuses the item.
Enqueue(i) ==
    /\ ~cancelled /\ i \notin active_ids
    /\ active_ids' = active_ids \cup {i}
    /\ ready' = Append(ready, Work(i, 0))
    /\ UNCHANGED <<delayed, in_flight, next_sequence, cancelled, leases, now>>

\* Delayed entries leave the heap in the order of (ready_at, sequence); equal
\* keys (after next_sequence wrapped) leave in any order.
EntriesBeforeNow == {d \in delayed : d.ready_at < now}  \* mutant: deadline excluded
DueEntries == {d \in delayed : d.ready_at <= now}
NotAfter(d, e) ==
    \/ d.ready_at < e.ready_at
    \/ d.ready_at = e.ready_at /\ d.sequence <= e.sequence
HeapOrders(S) ==
    {s \in [1..Cardinality(S) -> S] :
        /\ \A d \in S : \E k \in 1..Cardinality(S) : s[k] = d
        /\ \A j, k \in 1..Cardinality(S) : j < k => s[j] # s[k] /\ NotAfter(s[j], s[k])}
Promoted(s) ==
    ready \o [k \in 1..Len(s) |-> Work(s[k].id, s[k].previous_attempts)]

\* Mutant: skipped entries go to the back.
LeaseEntryRotating(q, k) ==
    LET attempt == SaturatingInc(q[k].previous_attempts)
    IN  /\ ready' = SubSeq(q, k + 1, Len(q)) \o SubSeq(q, 1, k - 1)
        /\ in_flight' = [in_flight EXCEPT ![q[k].id] = attempt]
        /\ leases' = leases \cup {[id |-> q[k].id, attempt |-> attempt]}
\* The lease of entry k of the queue q is handed to the driver.
LeaseEntry(q, k) ==
    LET attempt == SaturatingInc(q[k].previous_attempts)
    IN  /\ ready' = RemoveAt(q, k)
        /\ in_flight' = [in_flight EXCEPT ![q[k].id] = attempt]
        /\ leases' = leases \cup {[id |-> q[k].id, attempt |-> attempt]}

\* admit_one_where: due retries are promoted even when nothing is eligible.
\* admit_one takes eligible = Ids, and admit repeats it up to the ceiling.
AdmitOneWhere(max_in_flight, eligible) ==
    /\ ~cancelled /\ Cardinality(InFlightIds) < max_in_flight
    /\ \E s \in HeapOrders(DueEntries) :
         LET q == Promoted(s)
         IN  /\ delayed' = delayed \ DueEntries
             /\ \/ \E k \in 1..Len(q) :
                     /\ q[k].id \in eligible
                     /\ \A j \in 1..k - 1 : q[j].id \notin eligible
                     /\ LeaseEntry(q, k)
                \/ /\ \A k \in 1..Len(q) : q[k].id \notin eligible
                   /\ ready' = q
                   /\ UNCHANGED <<in_flight, leases>>
    /\ UNCHANGED <<active_ids, next_sequence, cancelled, now>>

\* Another source satisfied an item that was still queued or delayed.
CompletePending(i) ==
    /\ \/ \E k \in 1..Len(ready) :
            /\ ready[k].id = i
            /\ ready' = RemoveAt(ready, k)
            /\ UNCHANGED delayed
       \/ /\ i \notin ReadyIds /\ i \in DelayedIds
          /\ delayed' = {d \in delayed : d.id # i}
          /\ UNCHANGED ready
    /\ active_ids' = active_ids \ {i}
    /\ UNCHANGED <<in_flight, next_sequence, cancelled, leases, now>>

\* Mutant: the ids of delayed work stay active.
DiscardReadyOnly ==
    /\ active_ids' = active_ids \ ReadyIds
    /\ ready' = <<>>
    /\ delayed' = {}
    /\ UNCHANGED <<in_flight, next_sequence, cancelled, leases, now>>

\* Queued and delayed work is dropped, leases stay valid.
DiscardPending ==
    /\ active_ids' = active_ids \ (ReadyIds \cup DelayedIds)
    /\ ready' = <<>>
    /\ delayed' = {}
    /\ UNCHANGED <<in_flight, next_sequence, cancelled, leases, now>>

-----------------------------------------------------------------------------
\* The driver hands lease l back: remove_active_lease accepts it only when it
\* is the lease in_flight remembers.
RemoveActiveLease(l) ==
    /\ l \in leases
    /\ in_flight[l.id] = l.attempt
    /\ in_flight' = [in_flight EXCEPT ![l.id] = 0]
    /\ leases' = leases \ {l}

\* Any hand-back of another lease is InvalidLease: the lease is consumed.
HandBackInvalid(l) ==
    /\ l \in leases
    /\ in_flight[l.id] # l.attempt
    /\ leases' = leases \ {l}
    /\ UNCHANGED <<ready, delayed, in_flight, active_ids, next_sequence, cancelled, now>>

Complete(l) ==
    /\ RemoveActiveLease(l)
    /\ active_ids' = active_ids \ {l.id}
    /\ UNCHANGED <<ready, delayed, next_sequence, cancelled, now>>

\* Mutant: a success is charged like a failure.
RescheduleCharged(l) ==
    /\ RemoveActiveLease(l)
    /\ ready' = Append(ready, Work(l.id, l.attempt))
    /\ UNCHANGED <<delayed, active_ids, next_sequence, cancelled, now>>

RescheduleAfterSuccess(l) ==
    /\ RemoveActiveLease(l)
    /\ ready' = Append(ready, Work(l.id, l.attempt - 1))
    /\ UNCHANGED <<delayed, active_ids, next_sequence, cancelled, now>>

RetryWithoutConsumingAttempt(l) ==
    /\ RemoveActiveLease(l)
    /\ ready' = Append(ready, Work(l.id, l.attempt - 1))
    /\ UNCHANGED <<delayed, active_ids, next_sequence, cancelled, now>>

RetryWithFreshAttemptBudget(l) ==
    /\ RemoveActiveLease(l)
    /\ ready' = Append(ready, Work(l.id, 0))
    /\ UNCHANGED <<delayed, active_ids, next_sequence, cancelled, now>>

RequeueUnstarted(l) ==
    /\ RemoveActiveLease(l)
    /\ ready' = <<Work(l.id, l.attempt - 1)>> \o ready
    /\ UNCHANGED <<delayed, active_ids, next_sequence, cancelled, now>>

\* Mutant: one attempt too many.
RetryAllowedOnceMore(l) ==
    (MaxAttempts[l.id] = 0 \/ l.attempt <= MaxAttempts[l.id]) /\ ~cancelled
RetryAllowed(l) ==
    (MaxAttempts[l.id] = 0 \/ l.attempt < MaxAttempts[l.id]) /\ ~cancelled

\* fail(lease, Some(ready_at)) with attempts left: RetryOutcome::Scheduled.
FailScheduled(l, ready_at) ==
    /\ RemoveActiveLease(l)
    /\ RetryAllowed(l)
    /\ delayed' = delayed \cup {[id |-> l.id, previous_attempts |-> l.attempt,
                                 ready_at |-> ready_at, sequence |-> next_sequence]}
    /\ next_sequence' = (next_sequence + 1) % SequenceSpace
    /\ UNCHANGED <<ready, active_ids, cancelled, now>>

\* fail with no attempt left, or with None: RetryOutcome::Exhausted.
FailExhausted(l, retryable) ==
    /\ RemoveActiveLease(l)
    /\ ~(retryable /\ RetryAllowed(l))
    /\ active_ids' = active_ids \ {l.id}
    /\ UNCHANGED <<ready, delayed, next_sequence, cancelled, now>>

Cancel ==
    /\ cancelled' = TRUE
    /\ ready' = <<>>
    /\ delayed' = {}
    /\ in_flight' = [i \in Ids |-> 0]
    /\ active_ids' = {}
    /\ UNCHANGED <<next_sequence, leases, now>>

Tick ==
    /\ now < MaxTime
    /\ now' = now + 1
    /\ UNCHANGED <<ready, delayed, in_flight, active_ids, next_sequence, cancelled, leases>>

HandBack(l) ==
    \/ HandBackInvalid(l)
    \/ Complete(l)
    \/ RescheduleAfterSuccess(l)
    \/ RetryWithoutConsumingAttempt(l)
    \/ RetryWithFreshAttemptBudget(l)
    \/ RequeueUnstarted(l)
    \/ \E ready_at \in now..MaxTime : FailScheduled(l, ready_at)
    \/ \E retryable \in BOOLEAN : FailExhausted(l, retryable)

Next ==
    \/ \E i \in Ids : Enqueue(i) \/ CompletePending(i)
    \/ \E m \in 0..MaxInFlight, eligible \in SUBSET Ids : AdmitOneWhere(m, eligible)
    \/ DiscardPending
    \/ \E l \in leases : HandBack(l)
    \/ Cancel
    \/ Tick

Spec == Init /\ [][Next]_vars

\* The drivers (run_single_work_item, the segment and pipeline loops) admit
\* whenever a slot is free, sleep until the next retry deadline, and hand every
\* lease back when its worker ends.
Fairness ==
    /\ WF_vars(Tick)
    /\ SF_vars(AdmitOneWhere(MaxInFlight, Ids))
    /\ \A l \in Lease : WF_vars(HandBack(l))
FairSpec == Spec /\ Fairness

-----------------------------------------------------------------------------
TypeOK ==
    /\ ready \in Seq(ReadyWork)
    /\ delayed \subseteq DelayedWork
    /\ in_flight \in [Ids -> Attempts]
    /\ active_ids \subseteq Ids
    /\ next_sequence \in 0..SequenceSpace - 1
    /\ cancelled \in BOOLEAN
    /\ leases \subseteq Lease
    /\ now \in 0..MaxTime

\* Every active id is in exactly one of the three places, once: the duplicate
\* check of enqueue looks only at active_ids, so an id missing from it could be
\* downloaded twice at once, and one left in it could never be queued again.
OnceIn(q) == \A j, k \in 1..Len(q) : q[j].id = q[k].id => j = k
DelayedOnce == \A d, e \in delayed : d.id = e.id => d = e
Disjoint ==
    /\ ReadyIds \cap DelayedIds = {}
    /\ ReadyIds \cap InFlightIds = {}
    /\ DelayedIds \cap InFlightIds = {}
ActiveIdsExact == active_ids = ReadyIds \cup DelayedIds \cup InFlightIds
OnePlace == OnceIn(ready) /\ DelayedOnce /\ Disjoint /\ ActiveIdsExact

\* Until cancellation the driver's leases are exactly the in-flight attempts:
\* no lease is refused and no slot is occupied by a lease nobody holds.
LeasesMatch ==
    ~cancelled => leases = {[id |-> i, attempt |-> in_flight[i]] : i \in InFlightIds}

\* Places and leases agree: no hand-back, in any order and before or after a
\* cancel, finds its item in a second place or its slot taken.
PlacesAndLeases == OnePlace /\ LeasesMatch

\* After cancel, a lease that comes back late revives nothing.
CancelledIsEmpty ==
    cancelled => active_ids = {} /\ ready = <<>> /\ delayed = {} /\ InFlightIds = {}

\* No item with a limited budget is ever queued with that budget spent, or
\* attempted more often than max_attempts.
Affordable(w) == MaxAttempts[w.id] = 0 \/ w.previous_attempts < MaxAttempts[w.id]
AffordableIn(q) == \A k \in 1..Len(q) : Affordable(q[k])
BudgetKept ==
    /\ AffordableIn(ready)
    /\ \A d \in delayed : Affordable(d)
    /\ \A i \in Ids : MaxAttempts[i] # 0 => in_flight[i] <= MaxAttempts[i]

\* Skipping an ineligible item, requeueing an unstarted one and promoting
\* retries never reorder the items that stay queued, and retries due at the same
\* admission enter the queue by deadline.
Precedes(q, i, j) ==
    \E k, m \in 1..Len(q) : k < m /\ q[k].id = i /\ q[m].id = j
QueueOrderKept ==
    [][/\ \A i, j \in Ids : i # j /\ Precedes(ready, i, j) => ~Precedes(ready', j, i)
       /\ \A d, e \in delayed : d.ready_at < e.ready_at => ~Precedes(ready', e.id, d.id)]_vars

\* A delayed retry is eventually promoted, completed or dropped.
RetryComesBack == \A i \in Ids : (i \in DelayedIds) ~> (i \notin DelayedIds)

-----------------------------------------------------------------------------
\* The scheduler implements the life cycle of WorkLifecycle; the failures
\* charged so far are read off wherever the item is.
Phase(i) ==
    IF i \in ReadyIds THEN "Pending"
    ELSE IF i \in DelayedIds THEN "Delayed"
    ELSE IF i \in InFlightIds THEN "InFlight" ELSE "Idle"
ReadyEntry(i) == ready[CHOOSE k \in 1..Len(ready) : ready[k].id = i]
DelayedEntry(i) == CHOOSE d \in delayed : d.id = i
Charged(i) ==
    IF MaxAttempts[i] = 0 \/ Phase(i) = "Idle" THEN 0
    ELSE IF Phase(i) = "Pending" THEN ReadyEntry(i).previous_attempts
    ELSE IF Phase(i) = "Delayed" THEN DelayedEntry(i).previous_attempts
    ELSE in_flight[i] - 1

Lifecycle == INSTANCE WorkLifecycle WITH
    phase <- [i \in Ids |-> Phase(i)],
    charged <- [i \in Ids |-> Charged(i)]
ImplementsLifecycle == Lifecycle!Spec
=============================================================================
