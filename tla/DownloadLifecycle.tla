--------------------------- MODULE DownloadLifecycle ---------------------------
(***************************************************************************)
(* What the engine promises about the downloads, whatever its queues and   *)
(* passes look like: a download waits, runs within the concurrency limit,  *)
(* waits again or ends, and it changes hands only while no worker is on it.*)
(* A download that ended never comes back.  One that was stopped before it *)
(* ended (a shutdown leaves its status alone) is out of the queues too, but*)
(* an add command that was still on its way may queue it once more.        *)
(***************************************************************************)
EXTENDS Naturals, FiniteSets

CONSTANTS Gids, Limits

VARIABLES
    stage,      \* the stage of each download
    workers,    \* the downloads a worker is on: [gid, generation]
    limit       \* 0 is unlimited
dvars == <<stage, workers, limit>>

Stages == {"New", "Queued", "Running", "Interrupted", "Ended"}
In(s) == {g \in Gids : stage[g] = s}
Worked == {w.gid : w \in workers}

Init ==
    /\ stage \in [Gids -> {"New", "Queued"}]
    /\ workers = {}
    /\ limit \in Limits

Enqueue(g) ==
    /\ stage[g] \in {"New", "Interrupted"}
    /\ stage' = [stage EXCEPT ![g] = "Queued"]
    /\ UNCHANGED <<workers, limit>>

Promote(g) ==
    /\ stage[g] = "Queued"
    /\ limit = 0 \/ Cardinality(In("Running")) < limit
    /\ stage' = [stage EXCEPT ![g] = "Running"]
    /\ UNCHANGED <<workers, limit>>

\* A worker is put on a running download that has none.
Work(g) ==
    /\ stage[g] = "Running" /\ g \notin Worked
    /\ \E w \in workers' : w.gid = g /\ workers' = workers \cup {w}
    /\ UNCHANGED <<stage, limit>>

Leave(w) ==
    /\ w \in workers
    /\ workers' = workers \ {w}
    /\ UNCHANGED <<stage, limit>>

\* Running downloads without a worker return to the queue or are left as they
\* are; those and queued ones end.
Move(S) ==
    /\ S # {} /\ S \cap Worked = {}
    /\ \E s \in {"Queued", "Interrupted", "Ended"} :
         /\ S \subseteq In("Running") \cup (IF s = "Ended" THEN In("Queued") ELSE {})
         /\ stage' = [g \in Gids |-> IF g \in S THEN s ELSE stage[g]]
    /\ UNCHANGED <<workers, limit>>

SetLimit ==
    /\ limit' \in Limits
    /\ UNCHANGED <<stage, workers>>

Next ==
    \/ \E g \in Gids : Enqueue(g) \/ Promote(g) \/ Work(g)
    \/ \E w \in workers : Leave(w)
    \/ \E S \in SUBSET Gids : Move(S)
    \/ SetLimit

Spec == Init /\ [][Next]_dvars
=============================================================================
