---------------------------- MODULE WorkLifecycle ----------------------------
(***************************************************************************)
(* What the download work core promises about one work item, whatever the  *)
(* queues inside the scheduler look like (docs/protocol-architecture.md,   *)
(* the test-only WorkState of work_scheduler.rs): an item is idle, pending *)
(* in the ready queue, delayed by a retry, or in flight under one lease;   *)
(* only a failed attempt is charged against its budget, an item whose      *)
(* budget is spent is never delayed again, and nothing starts after        *)
(* cancellation.                                                           *)
(***************************************************************************)
EXTENDS Naturals, FiniteSets

CONSTANTS
    Ids,            \* the work items
    MaxAttempts,    \* total attempts of each item; 0 is unlimited
    MaxInFlight     \* the largest concurrency ceiling a caller passes

VARIABLES
    phase,          \* the phase of each item
    charged,        \* failed attempts charged against a limited budget
    cancelled       \* the work was cancelled
lvars == <<phase, charged, cancelled>>

Phases == {"Idle", "Pending", "Delayed", "InFlight"}
InPhase(p) == {i \in Ids : phase[i] = p}
Limited(i) == MaxAttempts[i] # 0

Init ==
    /\ phase = [i \in Ids |-> "Idle"]
    /\ charged = [i \in Ids |-> 0]
    /\ cancelled = FALSE

Submit(i) ==
    /\ ~cancelled /\ phase[i] = "Idle"
    /\ phase' = [phase EXCEPT ![i] = "Pending"]
    /\ UNCHANGED <<charged, cancelled>>

\* Retries that came due join the queue, and at most one item starts.
Admit(due, started) ==
    /\ ~cancelled
    /\ due \subseteq InPhase("Delayed")
    /\ started \subseteq InPhase("Pending") \cup due
    /\ Cardinality(started) <= 1
    /\ Cardinality(InPhase("InFlight") \cup started) <= MaxInFlight
    /\ phase' = [i \in Ids |-> IF i \in started THEN "InFlight"
                               ELSE IF i \in due THEN "Pending" ELSE phase[i]]
    /\ UNCHANGED <<charged, cancelled>>

\* An attempt ended without being charged, or on a fresh budget.
Requeue(i, c) ==
    /\ phase[i] = "InFlight"
    /\ c \in {charged[i], 0}
    /\ phase' = [phase EXCEPT ![i] = "Pending"]
    /\ charged' = [charged EXCEPT ![i] = c]
    /\ UNCHANGED cancelled

\* A charged attempt failed and the budget allows another one.
Delay(i) ==
    /\ ~cancelled /\ phase[i] = "InFlight"
    /\ Limited(i) => charged[i] + 1 < MaxAttempts[i]
    /\ phase' = [phase EXCEPT ![i] = "Delayed"]
    /\ charged' = [charged EXCEPT ![i] = IF Limited(i) THEN @ + 1 ELSE 0]
    /\ UNCHANGED cancelled

\* Items leave: completed, failed for good, or discarded while queued.
Finish(done) ==
    /\ done # {} /\ \A i \in done : phase[i] # "Idle"
    /\ Cardinality(done \cap InPhase("InFlight")) <= 1
    /\ phase' = [i \in Ids |-> IF i \in done THEN "Idle" ELSE phase[i]]
    /\ charged' = [i \in Ids |-> IF i \in done THEN 0 ELSE charged[i]]
    /\ UNCHANGED cancelled

Cancel ==
    /\ cancelled' = TRUE
    /\ phase' = [i \in Ids |-> "Idle"]
    /\ charged' = [i \in Ids |-> 0]

Next ==
    \/ \E i \in Ids : Submit(i) \/ Delay(i) \/ \E c \in {charged[i], 0} : Requeue(i, c)
    \/ \E due \in SUBSET Ids, started \in SUBSET Ids : Admit(due, started)
    \/ \E done \in SUBSET Ids : Finish(done)
    \/ Cancel

Spec == Init /\ [][Next]_lvars
=============================================================================
