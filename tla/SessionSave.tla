----------------------------- MODULE SessionSave -----------------------------
(***************************************************************************)
(* The session file: what a save collects from the stores of the manager   *)
(* while downloads move between them, how it reaches the disk, and when    *)
(* the engine saves on its own (aria2-core/src/session/, the maintenance   *)
(* of engine_loop, aria2.saveSession, the save at shutdown).               *)
(*                                                                         *)
(* RequestGroupMan treats an operation of the manager as one step, which   *)
(* it is for everyone who takes the lifecycle lock.  A save takes no lock, *)
(* so here each operation moves a download store by store: `moving' is the *)
(* operation that holds the lock.  Reading one store is one step.          *)
(***************************************************************************)
EXTENDS RequestGroupMan

CONSTANTS
    InitialMax,         \* max_concurrent, which does not change here
    KeepAlive,          \* RPC mode: stay alive without downloads
    Instances,          \* the queue that was restored, its entries with the pause
                        \* option, and the bounds: which operations, and how many
    Inodes,             \* identities of files, four of them
    NoFile              \* no inode

OpNames == {"Add", "Pause", "Unpause", "Remove", "Purge", "Shutdown"}
BudgetRecord == [may : SUBSET OpNames, ops : Nat, saves : Nat, failures : Nat]
ASSUME SessionAssumption ==
    /\ InitialMax \in Nat /\ KeepAlive \in BOOLEAN
    /\ \A i \in Instances :
         /\ i \in [queue : Seq(Gids), paused : SUBSET Gids, budget : BudgetRecord]
         /\ OnceIn(i.queue)
    /\ IsFiniteSet(Inodes) /\ Cardinality(Inodes) >= 4 /\ NoFile \notin Inodes

VARIABLES
    moving,         \* the operation under the lifecycle lock
    phase,          \* where the engine task is
    follow_up,      \* the pass has something to promote for
    halt_requested,
    found,          \* found stopped but not demoted yet: [gid, result]
    promoted,       \* filled but not spawned yet
    tasks,          \* downloads with a running command
    completions,    \* [gid, result], sent and not accounted for
    commands,       \* the engine command channel
    pending_dirty,  \* AutoSaveCoordinator.pending_session_dirty
    dirty,          \* AutoSaveSession.dirty
    armed,          \* the engine parked with a session deadline
    saver,          \* the saves in progress
    tmp, session,   \* the inode of the temporary and of the session file
    content,        \* what an inode holds
    budget,         \* client operations, saves and failures left
    kept,           \* ghost: downloads owed throughout a save
    moved,          \* ghost: downloads that changed stores during a save
    shared,         \* ghost: two saves had the temporary file at once
    untold          \* ghost: the file or the stores changed without a dirty mark
engineVars == <<phase, follow_up, halt_requested, found, promoted>>
taskVars == <<tasks, completions>>
saveVars == <<pending_dirty, dirty, armed>>
diskVars == <<saver, tmp, session, content>>
ghosts == <<kept, moved, shared, untold>>
vars == <<manVars, moving, engineVars, taskVars, commands, saveVars, diskVars, budget, ghosts>>

Savers == {"owner", "rpc"}      \* the engine and then the application; an RPC client
Phases == {"commands", "completions", "woken", "requeue", "find", "demote", "fill", "spawn",
           "exit_check", "wait", "saving", "last_requeue", "last_find", "last_demote",
           "final_save", "shutdown_save", "over"}
Movements == {"none", "add", "requeue", "fill", "put_back", "unregister", "record"}
Movement == [op : Movements, by : {"nobody", "client", "command", "pass"},
             gid : Gids \cup {NoGid}, rest : Seq(Gids), result : ResultRecord \cup {NoResult}]
Command == [op : {"AddDownload", "Remove", "Pause", "Unpause", "HaltAll"}, gid : Gids \cup {NoGid}]
SaveSteps == {"idle", "reserved", "count", "compare", "fast", "active", "reserved_again",
              "index", "results", "serialize", "open", "write", "rename"}
Content == [state : {"empty", "torn", "whole"}, entries : SUBSET Gids]
Empty == [state |-> "empty", entries |-> {}]    \* opened and truncated
Torn == [state |-> "torn", entries |-> {}]      \* written in part
Holding(data) == [state |-> "whole", entries |-> data]
SaverRecord == [step : SaveSteps, reserved : SUBSET Gids, count : Nat, groups : SUBSET Gids,
                results : SUBSET Gids, data : SUBSET Gids, file : Inodes \cup {NoFile}]

Unlocked == [op |-> "none", by |-> "nobody", gid |-> NoGid, rest |-> <<>>, result |-> NoResult]
NotSaving == [step |-> "idle", reserved |-> {}, count |-> 0, groups |-> {}, results |-> {},
              data |-> {}, file |-> NoFile]

\* The queue was restored from the session file (restore_session).
Restored(i, g) == IF g \in i.paused \cap ToSet(i.queue) THEN Pause(InitialGroup(g)) ELSE InitialGroup(g)
Init ==
    /\ \E i \in Instances :
         /\ group = [g \in Gids |-> Restored(i, g)]
         /\ groups = ToSet(i.queue) /\ reserved = i.queue
         /\ budget = i.budget
    /\ active = {} /\ stopped = [g \in Gids |-> NoResult] /\ max_concurrent = InitialMax
    /\ moving = Unlocked
    /\ phase = "fill" /\ follow_up = FALSE /\ halt_requested = FALSE
    /\ found = {} /\ promoted = <<>>
    /\ tasks = {} /\ completions = {} /\ commands = <<>>
    /\ pending_dirty = FALSE /\ dirty = FALSE /\ armed = FALSE
    /\ saver = [s \in Savers |-> NotSaving]
    /\ tmp = NoFile /\ session = CHOOSE i \in Inodes : TRUE
    /\ content = [i \in Inodes |-> IF i = session THEN Holding(groups) ELSE Empty]
    /\ kept = [s \in Savers |-> {}] /\ moved = [s \in Savers |-> {}]
    /\ shared = FALSE /\ untold = FALSE

IsUnlocked == moving = Unlocked
EngineFree == moving.by \in {"nobody", "client"}
KeepEngine == UNCHANGED <<follow_up, halt_requested, found, promoted>>
KeepSaves == UNCHANGED <<saveVars, diskVars>>

-----------------------------------------------------------------------------
\* Leaving the manager: unregister_group, then record_stopped_result.  The
\* caller has taken the download out of its store.
Leave(g, by, result) ==
    moving' = [Unlocked EXCEPT !.op = "unregister", !.by = by, !.gid = g, !.result = result]

Unregister ==
    /\ moving.op = "unregister"
    /\ groups' = groups \ {moving.gid}
    /\ moving' = [moving EXCEPT !.op = "record"]
    /\ UNCHANGED <<group, active, reserved, stopped, max_concurrent>>
    /\ UNCHANGED <<engineVars, taskVars, commands, budget>> /\ KeepSaves

\* An operation of the engine marks the session dirty once it is through.
RecordStoppedResult ==
    /\ moving.op = "record"
    /\ stopped' = Record(stopped, moving.gid, moving.result)
    /\ moving' = Unlocked
    /\ pending_dirty' = (pending_dirty \/ moving.by # "client")
    /\ follow_up' = (follow_up \/ moving.by # "client")
    /\ UNCHANGED <<group, groups, active, reserved, max_concurrent>>
    /\ UNCHANGED <<phase, halt_requested, found, promoted, taskVars, commands, dirty, armed,
                   diskVars, budget>>

\* remove_reserved_group.
RemoveReserved(g, by) ==
    /\ IsUnlocked /\ group[g].resolved
    /\ \E k \in 1..Len(reserved) : reserved[k] = g /\ reserved' = RemoveAt(reserved, k)
    /\ group' = [group EXCEPT ![g] = MarkRemoved(@)]
    /\ Leave(g, by, DownloadResult(MarkRemoved(group[g])))
    /\ UNCHANGED <<groups, active, stopped, max_concurrent>>

\* add_group: the index first, the queue afterwards.
Fresh(g) == ~Live(g) /\ group[g] = InitialGroup(g) /\ stopped[g] = NoResult
AddRegister(g) ==
    /\ IsUnlocked /\ Fresh(g)
    /\ groups' = groups \cup {g}
    /\ moving' = [Unlocked EXCEPT !.op = "add", !.by = "client", !.gid = g]
    /\ UNCHANGED <<group, active, reserved, stopped, max_concurrent>>

AddQueue ==
    /\ moving.op = "add"
    /\ reserved' = Append(reserved, moving.gid)
    /\ commands' = Append(commands, [op |-> "AddDownload", gid |-> moving.gid])
    /\ moving' = Unlocked
    /\ UNCHANGED <<group, groups, active, stopped, max_concurrent>>
    /\ UNCHANGED <<engineVars, taskVars, budget>> /\ KeepSaves

-----------------------------------------------------------------------------
\* The engine's pass.
GoTo(p) == phase' = p
KeepStores == UNCHANGED <<manVars, moving>>

\* process_engine_commands.  An added download is registered already; pause and
\* unpause are applied again when the status still asks for it.
ApplyCommand(c) ==
    CASE c.op = "AddDownload" -> KeepStores /\ pending_dirty' = TRUE
      [] c.op = "Pause" ->
            IF CanPause(c.gid) THEN PauseGroup(c.gid) /\ UNCHANGED moving /\ pending_dirty' = TRUE
            ELSE KeepStores /\ UNCHANGED pending_dirty
      [] c.op = "Unpause" ->
            IF CanUnpause(c.gid) THEN UnpauseGroup(c.gid) /\ UNCHANGED moving /\ pending_dirty' = TRUE
            ELSE KeepStores /\ UNCHANGED pending_dirty
      [] c.op = "Remove" ->
            CASE c.gid \in active -> RemoveGroup(c.gid) /\ UNCHANGED moving /\ pending_dirty' = TRUE
              [] c.gid \in ReservedIds -> RemoveReserved(c.gid, "command") /\ UNCHANGED pending_dirty
              [] OTHER -> KeepStores /\ UNCHANGED pending_dirty
      [] c.op = "HaltAll" -> HaltAll("ShutdownSignal") /\ UNCHANGED moving /\ pending_dirty' = TRUE

ProcessCommand ==
    /\ phase = "commands" /\ IsUnlocked /\ commands # <<>>
    /\ LET c == Head(commands) IN
       /\ ApplyCommand(c)
       /\ halt_requested' = (halt_requested \/ c.op = "HaltAll")
    /\ commands' = Tail(commands)
    /\ follow_up' = TRUE
    /\ UNCHANGED <<phase, found, promoted, taskVars, dirty, armed, diskVars, budget>>

CommandsDone ==
    /\ phase = "commands" /\ EngineFree /\ commands = <<>>
    /\ GoTo("completions")
    /\ KeepEngine /\ KeepStores /\ KeepSaves /\ UNCHANGED <<taskVars, commands, budget>>

\* process_task_completions.
ProcessCompletion(c) ==
    /\ phase \in {"completions", "woken"} /\ c \in completions
    /\ completions' = completions \ {c}
    /\ group' = IF Live(c.gid)
                THEN [group EXCEPT ![c.gid] = ApplyCompletion(DecCommands(@), c.result, @.commands = 1)]
                ELSE group
    /\ follow_up' = TRUE /\ pending_dirty' = TRUE
    /\ UNCHANGED <<groups, active, reserved, stopped, max_concurrent, moving>>
    /\ UNCHANGED <<phase, halt_requested, found, promoted, tasks, commands, dirty, armed,
                   diskVars, budget>>

CompletionsDone ==
    /\ phase \in {"completions", "woken"} /\ completions = {}
    /\ GoTo(IF phase = "woken" THEN "commands" ELSE "requeue")
    /\ KeepEngine /\ KeepStores /\ KeepSaves /\ UNCHANGED <<taskVars, commands, budget>>

\* requeue_non_terminal_groups holds the lock over all groups it moves; a group
\* is in no store while its status is settled.
Leaving == phase \in {"last_requeue", "last_find", "last_demote"}
RequeueBegin ==
    /\ phase \in {"requeue", "last_requeue"} /\ IsUnlocked
    /\ \E order \in SetToSeqs(Requeueable) :
         moving' = IF order = <<>> THEN Unlocked
                   ELSE [Unlocked EXCEPT !.op = "requeue", !.by = "pass", !.rest = order]
    /\ GoTo(IF Leaving THEN "last_find" ELSE "find")
    /\ UNCHANGED manVars
    /\ KeepEngine /\ KeepSaves /\ UNCHANGED <<taskVars, commands, budget>>

RequeueTake ==
    /\ moving.op = "requeue" /\ moving.gid = NoGid
    /\ LET g == Head(moving.rest) IN
       /\ active' = active \ {g}
       /\ group' = [group EXCEPT ![g] = Requeued(@)]
       /\ moving' = [moving EXCEPT !.gid = g, !.rest = Tail(@)]
    /\ UNCHANGED <<groups, reserved, stopped, max_concurrent>>
    /\ UNCHANGED <<engineVars, taskVars, commands, budget>> /\ KeepSaves

RequeuePut ==
    /\ moving.op = "requeue" /\ moving.gid # NoGid
    /\ reserved' = <<moving.gid>> \o reserved
    /\ moving' = IF moving.rest = <<>> THEN Unlocked ELSE [moving EXCEPT !.gid = NoGid]
    /\ UNCHANGED <<group, groups, active, stopped, max_concurrent>>
    /\ UNCHANGED <<engineVars, taskVars, commands, budget>> /\ KeepSaves

Find ==
    /\ phase \in {"find", "last_find"} /\ EngineFree
    /\ found' = FoundStopped
    /\ GoTo(IF Leaving THEN "last_demote" ELSE "demote")
    /\ KeepStores /\ KeepSaves
    /\ UNCHANGED <<follow_up, halt_requested, promoted, taskVars, commands, budget>>

\* demote_group, for each group found.
Demote(d) ==
    /\ phase \in {"demote", "last_demote"} /\ IsUnlocked /\ d \in found
    /\ found' = found \ {d}
    /\ active' = active \ {d.gid}
    /\ Leave(d.gid, "pass", IF group[d.gid].status = "Complete"
                            THEN DownloadResult(group[d.gid]) ELSE d.result)
    /\ UNCHANGED <<group, groups, reserved, stopped, max_concurrent>>
    /\ UNCHANGED <<phase, follow_up, halt_requested, promoted, taskVars, commands, budget>>
    /\ KeepSaves

\* The engine's own save at the end of its run comes after the last demotion.
DemoteDone ==
    /\ phase \in {"demote", "last_demote"} /\ EngineFree /\ found = {}
    /\ IF Leaving
       THEN /\ GoTo("final_save")
            /\ saver' = [saver EXCEPT !["owner"].step = "reserved"]
            /\ UNCHANGED follow_up
       ELSE /\ GoTo(IF follow_up THEN "fill" ELSE "exit_check")
            /\ follow_up' = FALSE
            /\ UNCHANGED saver
    /\ KeepStores
    /\ UNCHANGED <<halt_requested, found, promoted, taskVars, commands, saveVars, tmp, session,
                   content, budget>>

\* fill_from_reserver: an entry is popped and then either promoted or set aside;
\* the ones set aside return to the front at the end.
FillPop ==
    /\ phase = "fill" /\ ~halt_requested /\ reserved # <<>> /\ HasSlot
    /\ IsUnlocked \/ (moving.op = "fill" /\ moving.gid = NoGid)
    /\ reserved' = Tail(reserved)
    /\ moving' = [moving EXCEPT !.op = "fill", !.by = "pass", !.gid = Head(reserved)]
    /\ UNCHANGED <<group, groups, active, stopped, max_concurrent>>
    /\ UNCHANGED <<engineVars, taskVars, commands, budget>> /\ KeepSaves

FillPlace ==
    /\ moving.op = "fill" /\ moving.gid # NoGid
    /\ LET g == moving.gid IN
       IF Promotable(g)
       THEN /\ group' = [group EXCEPT ![g] = Promoted(@)]
            /\ active' = active \cup {g}
            /\ promoted' = Append(promoted, g)
            /\ moving' = [moving EXCEPT !.gid = NoGid]
       ELSE /\ moving' = [moving EXCEPT !.gid = NoGid, !.rest = Append(@, g)]
            /\ UNCHANGED <<group, active, promoted>>
    /\ UNCHANGED <<groups, reserved, stopped, max_concurrent>>
    /\ UNCHANGED <<phase, follow_up, halt_requested, found, taskVars, commands, budget>>
    /\ KeepSaves

FillEnds ==
    /\ phase = "fill" /\ (halt_requested \/ reserved = <<>> \/ ~HasSlot)
    /\ IsUnlocked \/ (moving.op = "fill" /\ moving.gid = NoGid)
    /\ moving' = IF moving.rest = <<>> THEN Unlocked ELSE [moving EXCEPT !.op = "put_back"]
    /\ GoTo("spawn")
    /\ UNCHANGED manVars
    /\ KeepEngine /\ KeepSaves /\ UNCHANGED <<taskVars, commands, budget>>

PutBack ==
    /\ moving.op = "put_back"
    /\ reserved' = <<Last(moving.rest)>> \o reserved
    /\ moving' = IF Len(moving.rest) = 1 THEN Unlocked ELSE [moving EXCEPT !.rest = Front(@)]
    /\ UNCHANGED <<group, groups, active, stopped, max_concurrent>>
    /\ UNCHANGED <<engineVars, taskVars, commands, budget>> /\ KeepSaves

\* One command per promoted group.
Spawn ==
    /\ phase = "spawn" /\ EngineFree
    /\ group' = Apply(ToSet(promoted), IncCommands)
    /\ tasks' = tasks \cup ToSet(promoted)
    /\ pending_dirty' = (pending_dirty \/ promoted # <<>>)
    /\ promoted' = <<>>
    /\ GoTo("exit_check")
    /\ UNCHANGED <<groups, active, reserved, stopped, max_concurrent, moving>>
    /\ UNCHANGED <<follow_up, halt_requested, found, completions, commands, dirty, armed,
                   diskVars, budget>>

Running == tasks \cup {c.gid : c \in completions}
HasPending == groups # {} \/ Running # {}

\* The engine parks with the deadline it can see: anything pending or dirty.
ExitCheck ==
    /\ phase = "exit_check" /\ EngineFree
    /\ IF (halt_requested /\ Running = {}) \/ (~HasPending /\ ~KeepAlive)
       THEN GoTo("last_requeue") /\ UNCHANGED armed
       ELSE GoTo("wait") /\ armed' = (HasPending \/ dirty \/ pending_dirty)
    /\ KeepEngine /\ KeepStores
    /\ UNCHANGED <<taskVars, commands, pending_dirty, dirty, diskVars, budget>>

Wake ==
    /\ phase = "wait"
    /\ \/ commands # <<>> /\ GoTo("commands")
       \/ completions # {} /\ GoTo("woken")
    /\ armed' = FALSE
    /\ KeepEngine /\ KeepStores
    /\ UNCHANGED <<taskVars, commands, pending_dirty, dirty, diskVars, budget>>

\* run_deadline_maintenance: the session deadline, or an earlier one of another
\* kind.  A pending download makes the session dirty.
Maintain(due) ==
    /\ phase = "wait" /\ (due => armed)
    /\ dirty' = (dirty \/ pending_dirty \/ HasPending)
    /\ pending_dirty' = FALSE
    /\ IF due /\ dirty'
       THEN GoTo("saving") /\ saver' = [saver EXCEPT !["owner"].step = "reserved"]
       ELSE GoTo("commands") /\ UNCHANGED saver
    /\ armed' = FALSE
    /\ KeepEngine /\ KeepStores
    /\ UNCHANGED <<taskVars, commands, tmp, session, content, budget>>

-----------------------------------------------------------------------------
\* A save.  groups_snapshot compares three lengths before it decides which
\* stores to read; the results are read after the groups and the statuses when
\* the entries are formatted.
SavedResults == {g \in Gids : stopped[g] # NoResult /\ stopped[g].code \in {"InProgress", "Error"}}
Steps(s, record) == saver' = [saver EXCEPT ![s] = record]

IsSteadyAlways(v) == TRUE               \* mutant: the lengths are not compared
IsSteady(v) == Cardinality(active) + Cardinality(v.reserved) = v.count

Collect(s) ==
    LET v == saver[s] IN
    /\ \/ v.step = "reserved" /\ Steps(s, [v EXCEPT !.step = "count", !.reserved = ReservedIds])
       \/ v.step = "count" /\ Steps(s, [v EXCEPT !.step = "compare", !.count = Cardinality(groups)])
       \/ /\ v.step = "compare"
          /\ Steps(s, IF IsSteady(v)
                      THEN [v EXCEPT !.step = "fast", !.count = 0]
                      ELSE [v EXCEPT !.step = "active", !.count = 0, !.reserved = {}])
       \/ /\ v.step = "fast"
          /\ Steps(s, [v EXCEPT !.step = "results", !.groups = active \cup v.reserved, !.reserved = {}])
       \/ v.step = "active" /\ Steps(s, [v EXCEPT !.step = "reserved_again", !.groups = active])
       \/ /\ v.step = "reserved_again"
          /\ Steps(s, [v EXCEPT !.step = "index", !.groups = @ \cup ReservedIds])
       \/ v.step = "index" /\ Steps(s, [v EXCEPT !.step = "results", !.groups = @ \cup groups])
       \/ v.step = "results" /\ Steps(s, [v EXCEPT !.step = "serialize", !.results = SavedResults])
       \/ /\ v.step = "serialize"
          /\ Steps(s, [NotSaving EXCEPT !.step = "open",
                        !.data = {g \in v.groups : ~IsTerminal(group[g])} \cup v.results])
    /\ KeepStores
    /\ UNCHANGED <<engineVars, taskVars, commands, saveVars, tmp, session, content, budget>>

DirtyAfterAny(ok) == FALSE              \* mutant: also a failed save clears the mark
DirtyAfter(ok) == dirty /\ ~ok

\* What the saver does next: the engine returns to its loop or ends, and the
\* application saves once more after the engine has ended.
Ends(s, ok) ==
    CASE s = "rpc" -> Steps(s, NotSaving) /\ UNCHANGED <<phase, dirty>>
      [] s = "owner" /\ phase = "saving" ->
            Steps(s, NotSaving) /\ GoTo("commands") /\ dirty' = DirtyAfter(ok)
      [] s = "owner" /\ phase = "final_save" ->
            Steps(s, [NotSaving EXCEPT !.step = "reserved"]) /\ GoTo("shutdown_save") /\ UNCHANGED dirty
      [] s = "owner" /\ phase = "shutdown_save" ->
            Steps(s, NotSaving) /\ GoTo("over") /\ UNCHANGED dirty
Spends(what) == budget[what] > 0 /\ budget' = [budget EXCEPT ![what] = @ - 1]
KeepAllBut == KeepEngine /\ KeepStores /\ UNCHANGED <<taskVars, commands, pending_dirty, armed>>

\* tokio::fs::write: the temporary file is opened and truncated, whoever else
\* has it open.
InUse == {tmp, session} \cup {saver[s].file : s \in Savers}
InPlace == session                      \* mutant: no temporary file
TempFile == IF tmp = NoFile THEN CHOOSE i \in Inodes : i \notin InUse ELSE tmp
Open(s) ==
    /\ saver[s].step = "open"
    /\ tmp' = TempFile
    /\ content' = [content EXCEPT ![TempFile] = Empty]
    /\ Steps(s, [saver[s] EXCEPT !.step = "write", !.file = TempFile])
    /\ KeepAllBut /\ UNCHANGED <<phase, dirty, session, budget>>

\* Two writers of one file overlay each other from the start of the file.
Write(s) ==
    /\ saver[s].step = "write"
    /\ LET v == saver[s]
           mine == Holding(v.data) IN
       /\ \E c \in {mine} \cup (IF content[v.file] \in {Empty, mine} THEN {} ELSE {Torn}) :
            content' = [content EXCEPT ![v.file] = c]
       /\ Steps(s, [v EXCEPT !.step = "rename"])
    /\ KeepAllBut /\ UNCHANGED <<phase, dirty, tmp, session, budget>>

\* rename: the name of the temporary file moves, whichever file has it by then.
Rename(s) ==
    /\ saver[s].step = "rename"
    /\ session' = IF tmp = NoFile THEN session ELSE tmp
    /\ tmp' = NoFile
    /\ Ends(s, tmp # NoFile)
    /\ KeepAllBut /\ UNCHANGED <<content, budget>>

SaveFails(s) ==
    /\ saver[s].step \in {"open", "write", "rename"} /\ Spends("failures")
    /\ content' = IF saver[s].step = "write" THEN [content EXCEPT ![saver[s].file] = Torn] ELSE content
    /\ Ends(s, FALSE)
    /\ KeepAllBut /\ UNCHANGED <<tmp, session>>

\* An RPC client that goes away takes its request with it, except for the write
\* that runs on the blocking pool already.
RpcAbandoned ==
    /\ saver["rpc"].step \in {"open", "rename"}
    /\ Ends("rpc", FALSE)
    /\ KeepAllBut /\ UNCHANGED <<tmp, session, content, budget>>

Saver(s) == Collect(s) \/ Open(s) \/ Write(s) \/ Rename(s)

-----------------------------------------------------------------------------
\* The download tasks.
TaskEnds(g, result) ==
    /\ g \in tasks
    /\ result = "FailedPaused" <=> (result # "Success" /\ group[g].status = "Paused")
    /\ tasks' = tasks \ {g}
    /\ completions' = completions \cup {[gid |-> g, result |-> result]}
    /\ group' = IF result = "Success" THEN [group EXCEPT ![g] = MarkComplete(@)] ELSE group
    /\ UNCHANGED <<groups, active, reserved, stopped, max_concurrent, moving>>
    /\ UNCHANGED <<engineVars, commands, budget>> /\ KeepSaves

\* The RPC clients, until the application stops the server.
Serving == phase \notin {"shutdown_save", "over"}
Client(op) == Serving /\ op \in budget.may /\ Spends("ops")
Sends(op, g) == commands' = Append(commands, [op |-> op, gid |-> g])
KeepLoop == UNCHANGED <<engineVars, taskVars>> /\ KeepSaves

RpcAdd(g) ==
    /\ Client("Add") /\ AddRegister(g)
    /\ KeepLoop /\ UNCHANGED commands

RpcPause(g) ==
    /\ Client("Pause") /\ IsUnlocked /\ CanPause(g)
    /\ PauseGroup(g) /\ Sends("Pause", g)
    /\ KeepLoop /\ UNCHANGED moving

RpcUnpause(g) ==
    /\ Client("Unpause") /\ IsUnlocked /\ CanUnpause(g)
    /\ UnpauseGroup(g) /\ Sends("Unpause", g)
    /\ KeepLoop /\ UNCHANGED moving

\* The engine is told only of a download that is still live.
RpcRemove(g) ==
    /\ Client("Remove") /\ IsUnlocked
    /\ \/ g \in active /\ RemoveGroup(g) /\ Sends("Remove", g) /\ UNCHANGED moving
       \/ RemoveReserved(g, "client") /\ UNCHANGED commands
    /\ KeepLoop

RpcPurge ==
    /\ Client("Purge")
    /\ stopped' = [g \in Gids |-> NoResult]
    /\ UNCHANGED <<group, groups, active, reserved, max_concurrent, moving, commands>>
    /\ KeepLoop

RpcShutdown ==
    /\ Client("Shutdown") /\ Sends("HaltAll", NoGid)
    /\ KeepStores /\ KeepLoop

RpcSaveSession ==
    /\ Serving /\ saver["rpc"].step = "idle" /\ Spends("saves")
    /\ Steps("rpc", [NotSaving EXCEPT !.step = "reserved"])
    /\ KeepStores
    /\ UNCHANGED <<engineVars, taskVars, commands, saveVars, tmp, session, content>>

-----------------------------------------------------------------------------
\* What the session file owes the user: the downloads that are not over, and
\* the results of those that failed or were interrupted.
Owed == {g \in groups : ~IsTerminal(group[g])} \cup SavedResults

Begins(s) == saver[s].step # "reserved" /\ saver'[s].step = "reserved"
ChangedStore == {g \in Gids : \/ (g \in active) # (g \in active')
                              \/ (g \in ReservedIds) # (g \in ReservedIds')}
RpcWrites == saver["rpc"].step \in {"open", "write", "rename"} /\ saver'["rpc"] # saver["rpc"]
ClientTakesAway ==
    \/ moving.op = "unregister" /\ moving.by = "client" /\ moving' # moving
    \/ \E g \in Gids : stopped[g] # NoResult /\ stopped'[g] = NoResult
LastSaveFails == phase = "shutdown_save" /\ phase' = "over" /\ session' = session
\* The ghosts watch every step.
Observe ==
    /\ kept' = [s \in Savers |-> IF Begins(s) THEN Owed'
                                 ELSE IF saver'[s] = NotSaving THEN {} ELSE kept[s] \cap Owed']
    /\ moved' = [s \in Savers |-> IF Begins(s) \/ saver'[s] = NotSaving THEN {}
                                  ELSE moved[s] \cup ChangedStore]
    /\ shared' = (shared \/ \A s \in Savers : saver'[s].file # NoFile)
    /\ untold' = (ClientTakesAway \/ RpcWrites \/ LastSaveFails \/ (untold /\ ~Begins("owner")))

Engine ==
    \/ ProcessCommand \/ CommandsDone \/ CompletionsDone \/ RequeueBegin \/ Find \/ DemoteDone
    \/ FillPop \/ FillEnds \/ Spawn \/ ExitCheck \/ Wake
    \/ \E c \in completions : ProcessCompletion(c)
    \/ \E d \in found : Demote(d)
Movings ==
    \/ Unregister \/ RecordStoppedResult \/ AddQueue
    \/ RequeueTake \/ RequeuePut \/ FillPlace \/ PutBack
ClientOp ==
    \/ \E g \in Gids : RpcAdd(g) \/ RpcPause(g) \/ RpcUnpause(g) \/ RpcRemove(g)
    \/ RpcPurge \/ RpcShutdown \/ RpcSaveSession
Other ==
    \/ ClientOp
    \/ \E g \in Gids, result \in {"Success", "Failed", "FailedPaused"} : TaskEnds(g, result)
    \/ \E s \in Savers : SaveFails(s)
    \/ RpcAbandoned
    \/ Maintain(FALSE)

Next == /\ Engine \/ Movings \/ Maintain(TRUE) \/ (\E s \in Savers : Saver(s)) \/ Other
        /\ Observe
Spec == Init /\ [][Next]_vars

\* Nothing obliges a client or a download. A deadline passes whatever wakes the
\* engine in between, which does not postpone it.
Fairness ==
    /\ WF_vars(Engine /\ Observe)
    /\ WF_vars(Movings /\ Observe)
    /\ WF_vars(Saver("owner") /\ Observe)
    /\ SF_vars(Maintain(TRUE) /\ Observe)
FairSpec == Spec /\ Fairness

-----------------------------------------------------------------------------
TypeOK ==
    /\ ManTypeOK
    /\ max_concurrent = InitialMax
    /\ moving \in Movement
    /\ phase \in Phases
    /\ {follow_up, halt_requested, pending_dirty, dirty, armed, shared, untold} \subseteq BOOLEAN
    /\ found \subseteq [gid : Gids, result : ResultRecord]
    /\ promoted \in Seq(Gids)
    /\ tasks \subseteq active
    /\ completions \subseteq [gid : Gids, result : TaskResults]
    /\ commands \in Seq(Command)
    /\ saver \in [Savers -> SaverRecord]
    /\ tmp \in Inodes \cup {NoFile} /\ session \in Inodes
    /\ content \in [Inodes -> Content]
    /\ budget \in BudgetRecord
    /\ kept \in [Savers -> SUBSET Gids] /\ moved \in [Savers -> SUBSET Gids]

\* A save holds every download that was owed from its beginning until now and
\* did not change stores meanwhile: groups_snapshot reads the stores one after
\* the other, without the lock under which the engine and the clients move
\* downloads.  It holds a download that is between two stores all the time, too,
\* unless another one changed stores: an entry that fill_from_reserver has set
\* aside is not seen when an entry behind it moves on between the readings, is
\* in both snapshots and makes up for the missing one in the count.
BetweenStores(g) == g \in groups \ (active \cup ReservedIds)
SavesAreComplete ==
    \A s \in Savers : saver[s].step \in {"open", "write", "rename"} =>
        \A g \in kept[s] \ moved[s] :
            g \in saver[s].data \/ (BetweenStores(g) /\ moved[s] # {})

\* Whenever the process dies, the session file is one complete save.
SessionFileWhole == content[session].state = "whole"

\* It is as long as no two saves have their temporary file open at once: a save
\* that is cut short or fails leaves the previous session in place.
WholeUnlessShared == SessionFileWhole \/ shared

\* What the user is owed reaches the session file, by a deadline or at the end,
\* unless the last change was one that nothing marks (a client took a download
\* that was not running, or its result, away; an RPC save wrote the file) and
\* nothing is pending, or the last save at the end failed.
Current == content[session] = Holding(Owed)
SavedInTime == ~Current ~> (Current \/ (untold /\ (groups = {} \/ phase = "over")))
=============================================================================
