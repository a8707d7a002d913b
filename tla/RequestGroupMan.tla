--------------------------- MODULE RequestGroupMan ---------------------------
(***************************************************************************)
(* The manager of all downloads (aria2-core/src/request/request_group_man):*)
(* the canonical index of live groups, the active map, the reserved queue  *)
(* and the stopped results, with one operator per operation.  Clients (RPC *)
(* handlers, library handles) and the engine call the operations; each one *)
(* runs under the lifecycle lock and is atomic for the others that do.     *)
(* EngineLoop composes them with the engine and the download tasks.        *)
(***************************************************************************)
EXTENDS RequestGroup, SequencesExt

CONSTANTS
    Gids,           \* the downloads of the instance
    NoGid, NoResult,
    MetadataOf,     \* the metadata group a Metalink payload waits for, or NoGid
    HasFallback,    \* payloads that keep direct mirrors to fall back to
    StartPaused     \* downloads added with the pause option

ASSUME ManagerAssumption ==
    /\ IsFiniteSet(Gids) /\ NoGid \notin Gids
    /\ NoResult \notin ResultRecord
    /\ MetadataOf \in [Gids -> Gids \cup {NoGid}]
    /\ \A g, h \in Gids : MetadataOf[g] = MetadataOf[h] /\ MetadataOf[g] # NoGid => g = h
    /\ \A g \in Gids : MetadataOf[g] # g
    /\ HasFallback \subseteq Gids /\ StartPaused \subseteq Gids

VARIABLES
    group,          \* the RequestGroup behind each gid
    groups,         \* canonical index of non-terminal groups
    active,         \* the active map
    reserved,       \* the reserved FIFO
    stopped,        \* the stopped result of each gid, or NoResult
    max_concurrent  \* 0 is unlimited
manVars == <<group, groups, active, reserved, stopped, max_concurrent>>

InitialGroup(g) == NewGroup(MetadataOf[g] = NoGid)
ReservedIds == ToSet(reserved)
Live(g) == g \in groups

\* StoppedResults::add keeps the first result of a gid.
Record(results, g, result) ==
    IF results[g] = NoResult THEN [results EXCEPT ![g] = result] ELSE results

\* Both halves of a Metalink graph obey pause and unpause together, as long as
\* both are live.
GraphGroups(g) ==
    {h \in groups : h = g \/ MetadataOf[h] = g \/ MetadataOf[g] = h}
Apply(S, F(_)) == [g \in Gids |-> IF g \in S THEN F(group[g]) ELSE group[g]]

-----------------------------------------------------------------------------
\* add_group / add_group_arc: a registered or terminal group is left alone.
CanAdd(g) == ~Live(g) /\ ~IsTerminal(group[g])
AddGroup(g) ==
    /\ groups' = groups \cup {g}
    /\ reserved' = Append(reserved, g)
    /\ group' = [group EXCEPT ![g] = IF g \in StartPaused THEN Pause(@) ELSE @]
    /\ UNCHANGED <<active, stopped, max_concurrent>>

\* pause_group, force_pause_group: refused unless Active or Waiting.
CanPause(g) == Live(g) /\ IsPausable(group[g])
PauseGroup(g) ==
    /\ group' = Apply(GraphGroups(g), Pause)
    /\ UNCHANGED <<groups, active, reserved, stopped, max_concurrent>>

CanUnpause(g) == Live(g) /\ group[g].status = "Paused"
UnpauseGroup(g) ==
    /\ group' = Apply(GraphGroups(g), Resume)
    /\ UNCHANGED <<groups, active, reserved, stopped, max_concurrent>>

PauseAll ==
    /\ group' = Apply(groups, Pause)
    /\ UNCHANGED <<groups, active, reserved, stopped, max_concurrent>>
UnpauseAll ==
    /\ group' = Apply(groups, Resume)
    /\ UNCHANGED <<groups, active, reserved, stopped, max_concurrent>>

\* remove_group, force_remove_group: an active group is only asked to halt, a
\* reserved one leaves at once unless it still waits for its metadata.
CanRemove(g) == g \in active \/ (g \in ReservedIds /\ group[g].resolved)
RemoveGroup(g) ==
    \/ /\ g \in active
       /\ group' = [group EXCEPT ![g] = RequestHalt(@, "UserRequest")]
       /\ UNCHANGED <<groups, active, reserved, stopped, max_concurrent>>
    \/ /\ g \notin active /\ group[g].resolved
       /\ \E k \in 1..Len(reserved) :
            /\ reserved[k] = g
            /\ reserved' = RemoveAt(reserved, k)
       /\ group' = [group EXCEPT ![g] = MarkRemoved(@)]
       /\ groups' = groups \ {g}
       /\ stopped' = Record(stopped, g, DownloadResult(MarkRemoved(group[g])))
       /\ UNCHANGED <<active, max_concurrent>>

\* halt_all and force_halt_all.
HaltAll(reason) ==
    /\ group' = Apply(groups, LAMBDA r : RequestHalt(r, reason))
    /\ UNCHANGED <<groups, active, reserved, stopped, max_concurrent>>

\* force_remove_reserved, given the group records it starts from.
ForceRemoveReserved(current) ==
    /\ group' = [g \in Gids |-> IF g \in ReservedIds THEN MarkRemoved(current[g]) ELSE current[g]]
    /\ groups' = groups \ ReservedIds
    /\ stopped' = [g \in Gids |->
                     IF g \in ReservedIds /\ stopped[g] = NoResult
                     THEN DownloadResult(MarkRemoved(current[g])) ELSE stopped[g]]
    /\ reserved' = <<>>
    /\ UNCHANGED <<active, max_concurrent>>

\* timeout_group: an active group is asked to halt.
TimeoutGroup(g) ==
    /\ group' = IF g \in active THEN [group EXCEPT ![g] = TimeOut(@)] ELSE group
    /\ UNCHANGED <<groups, active, reserved, stopped, max_concurrent>>

-----------------------------------------------------------------------------
HasSlot == max_concurrent = 0 \/ Cardinality(active) < max_concurrent
Promotable(g) ==
    ~group[g].pause /\ group[g].resolved /\ group[g].status # "Paused"
FirstPromotable(k) ==
    /\ k \in 1..Len(reserved) /\ Promotable(reserved[k])
    /\ \A j \in 1..k - 1 : ~Promotable(reserved[j])

\* One round of fill_from_reserver's loop: entries that may not start keep
\* their place.  A group that is neither Waiting nor Paused is inserted as is.
Promoted(r) ==
    IF r.status = "Waiting" THEN [Start(r) EXCEPT !.failure = FALSE, !.pause = FALSE] ELSE r
FillFromReserver(k) ==
    /\ HasSlot /\ FirstPromotable(k)
    /\ group' = [group EXCEPT ![reserved[k]] = Promoted(@)]
    /\ active' = active \cup {reserved[k]}
    /\ reserved' = RemoveAt(reserved, k)
    /\ UNCHANGED <<groups, stopped, max_concurrent>>

\* fail_spawned_group.
FailSpawnedGroup(g) ==
    IF g \in active
    THEN /\ group' = [group EXCEPT ![g] = MarkError(@)]
         /\ active' = active \ {g}
         /\ groups' = groups \ {g}
         /\ stopped' = Record(stopped, g, DownloadResult(MarkError(group[g])))
         /\ UNCHANGED <<reserved, max_concurrent>>
    ELSE UNCHANGED manVars

\* set_max_concurrent followed, when the limit went down, by reduce_to_limit:
\* as many Active groups as there are excess entries are paused for a restart.
Smaller(a, b) == IF a < b THEN a ELSE b
SetMaxConcurrent(max) ==
    LET lowered == max > 0 /\ (max_concurrent = 0 \/ max < max_concurrent)
        running == {g \in active : group[g].status = "Active"}
        excess  == IF lowered /\ Cardinality(active) > max THEN Cardinality(active) - max ELSE 0
    IN  /\ \E victims \in SUBSET running :
             /\ Cardinality(victims) = Smaller(excess, Cardinality(running))
             /\ group' = Apply(victims, LAMBDA r : RequestRestart(Pause(r)))
        /\ max_concurrent' = max
        /\ UNCHANGED <<groups, active, reserved, stopped>>

-----------------------------------------------------------------------------
\* requeue_non_terminal_groups: groups whose last command ended without a
\* terminal status return to the front of the reserved queue.  The active map
\* has no order.
\* Mutant: the running command is forgotten.
RequeueableWhileRunning ==
    {g \in active : /\ ~IsTerminal(group[g])
                    /\ ~(group[g].halt /\ ~group[g].pause)}
Requeueable ==
    {g \in active : /\ group[g].commands = 0 /\ ~IsTerminal(group[g])
                    /\ ~(group[g].halt /\ ~group[g].pause)}
Requeued(r) ==
    LET q == IF r.restart THEN ApplyPendingOptions(r) ELSE r
    IN  IF q.status # "Paused" THEN MarkWaiting(q)
        ELSE IF q.restart THEN Resume(q) ELSE q
\* Mutant: the groups stay in the active map.
RequeueCopies ==
    /\ \E o \in SetToSeqs(Requeueable) : reserved' = o \o reserved
    /\ group' = Apply(Requeueable, Requeued)
    /\ UNCHANGED <<groups, active, stopped, max_concurrent>>

RequeueNonTerminalGroups ==
    /\ \E o \in SetToSeqs(Requeueable) : reserved' = o \o reserved
    /\ active' = active \ Requeueable
    /\ group' = Apply(Requeueable, Requeued)
    /\ UNCHANGED <<groups, stopped, max_concurrent>>

\* find_stopped_groups.
IsStopped(g) == group[g].commands = 0 /\ (IsTerminal(group[g]) \/ group[g].halt)
FoundStopped == {[gid |-> g, result |-> DownloadResult(group[g])] : g \in {h \in active : IsStopped(h)}}

\* One round of remove_stopped_groups up to demote_group: the result of a
\* group that is complete by now is taken afresh.
DemoteGroup(d) ==
    IF d.gid \in active
    THEN /\ active' = active \ {d.gid}
         /\ groups' = groups \ {d.gid}
         /\ stopped' = Record(stopped, d.gid,
                IF group[d.gid].status = "Complete" THEN DownloadResult(group[d.gid]) ELSE d.result)
         /\ UNCHANGED <<group, reserved, max_concurrent>>
    ELSE UNCHANGED manVars

\* resolve_dependencies_for_status: the payload that waits for metadata group
\* m is released when m completed with usable metadata or the payload can fall
\* back to its mirrors, and fails otherwise.
ResolveDependencies(m, usable) ==
    IF \A k \in 1..Len(reserved) : MetadataOf[reserved[k]] # m
    THEN UNCHANGED manVars
    ELSE \E k \in 1..Len(reserved) :
           LET g == reserved[k] IN
           /\ MetadataOf[g] = m
           /\ IF usable \/ g \in HasFallback \/ group[g].resolved
              THEN /\ group' = [group EXCEPT ![g].resolved = TRUE]
                   /\ UNCHANGED <<groups, active, reserved, stopped, max_concurrent>>
              ELSE /\ group' = [group EXCEPT ![g] = MarkError(@)]
                   /\ groups' = groups \ {g}
                   /\ reserved' = RemoveAt(reserved, k)
                   /\ stopped' = Record(stopped, g, DownloadResult(MarkError(group[g])))
                   /\ UNCHANGED <<active, max_concurrent>>

-----------------------------------------------------------------------------
ManTypeOK ==
    /\ group \in [Gids -> GroupRecord]
    /\ groups \subseteq Gids /\ active \subseteq Gids
    /\ reserved \in Seq(Gids)
    /\ stopped \in [Gids -> ResultRecord \cup {NoResult}]
    /\ max_concurrent \in Nat

\* A live group is in exactly one of the active map and the reserved queue, and
\* once: a group in neither is never scheduled, one in both runs twice.
OnceIn(q) == \A j, k \in 1..Len(q) : q[j] = q[k] => j = k
OneHome ==
    /\ groups = active \cup ReservedIds
    /\ active \cap ReservedIds = {}
    /\ OnceIn(reserved)
=============================================================================
