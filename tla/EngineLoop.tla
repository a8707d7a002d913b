------------------------------ MODULE EngineLoop ------------------------------
(***************************************************************************)
(* The engine event loop (aria2-core/src/engine/engine_loop/) composed     *)
(* with the request-group manager, the download tasks it spawns and the    *)
(* clients that call the manager directly and then notify the engine over  *)
(* the command channel.  One engine, one task per spawned command, any     *)
(* number of client calls (bounded by MaxOps) in flight.                   *)
(***************************************************************************)
EXTENDS RequestGroupMan

CONSTANTS
    InitialQueue,   \* the downloads queued before the engine starts
    InitialMax,     \* max_concurrent at the start
    Limits,         \* the limits clients set
    Unspawnable,    \* groups without a URI
    KeepAlive,      \* RPC mode: stay alive without downloads
    Ops,            \* the client operations of this instance
    MaxOps          \* bound: client operations in one behaviour

OpNames == {"Pause", "Unpause", "Remove", "PauseAll", "UnpauseAll", "Add",
            "SetMaxConcurrent", "ChangeOption", "Shutdown", "ForceShutdown",
            "Signal", "Timeout", "Handle"}

ASSUME LoopAssumption ==
    /\ InitialQueue \in Seq(Gids)
    /\ OnceIn(InitialQueue)
    /\ InitialMax \in Nat /\ Limits \subseteq Nat
    /\ Unspawnable \subseteq Gids
    /\ KeepAlive \in BOOLEAN
    /\ Ops \subseteq OpNames /\ MaxOps \in Nat

VARIABLES
    phase,          \* where the engine task is in run_engine_loop
    first_pass,
    follow_up,      \* schedule_on_next_pass and needs_follow_up_promotion
    halt_requested,
    force_halt_requested,
    shutdown_received,
    next_generation,
    running,        \* running_downloads: [gid, generation, timeout]
    completed,      \* completed_generations
    completions,    \* completion channel: [gid, generation, result]
    tasks,          \* download tasks that have not ended: [gid, generation, stage]
    promoted,       \* groups filled but not spawned yet
    demoting,       \* found stopped but not demoted yet: [gid, result]
    resolving,      \* the demoted metadata group whose dependents are due, or NoGid
    control,        \* the two queues of the command channel
    normal,
    outbox,         \* commands of client calls that still have to send them
    changing,       \* change_group_options calls in progress: [gid, stage]
    ops             \* client operations left
engineVars == <<phase, first_pass, follow_up, halt_requested, force_halt_requested,
                shutdown_received>>
workVars == <<next_generation, running, completed, completions, tasks>>
passVars == <<promoted, demoting, resolving>>
clientVars == <<control, normal, outbox, changing, ops>>
vars == <<manVars, engineVars, workVars, passVars, clientVars>>

Phases == {"commands", "halting", "fill", "spawn", "completions", "woken", "requeue",
           "find", "demote", "exit_check", "wait", "last_requeue", "last_find",
           "last_demote", "exited"}
GidOps == {"Pause", "Unpause", "Remove", "AddDownload"}
Command == [op : GidOps, gid : Gids]
           \cup [op : {"PauseAll", "UnpauseAll", "HaltAll", "ForceHaltAll"}]
           \cup [op : {"SetMaxConcurrent"}, max : Limits]
RunningDownload == [gid : Gids, generation : Nat, timeout : BOOLEAN]
Completion == [gid : Gids, generation : Nat, result : TaskResults]
TaskStages == {"starting", "running", "waiting", "done"}
Task == [gid : Gids, generation : Nat, stage : TaskStages]

Init ==
    /\ group = [g \in Gids |-> IF g \in StartPaused /\ g \in ToSet(InitialQueue)
                               THEN Pause(InitialGroup(g)) ELSE InitialGroup(g)]
    /\ groups = ToSet(InitialQueue)
    /\ active = {}
    /\ reserved = InitialQueue
    /\ stopped = [g \in Gids |-> NoResult]
    /\ max_concurrent = InitialMax
    /\ phase = "commands" /\ first_pass = TRUE /\ follow_up = FALSE
    /\ halt_requested = FALSE /\ force_halt_requested = FALSE /\ shutdown_received = FALSE
    /\ next_generation = 1 /\ running = {} /\ completed = {}
    /\ completions = <<>> /\ tasks = {}
    /\ promoted = <<>> /\ demoting = {} /\ resolving = NoGid
    /\ control = <<>> /\ normal = <<>> /\ outbox = {} /\ changing = {}
    /\ ops = MaxOps

GoTo(p) == phase' = p
KeepFlags == UNCHANGED <<first_pass, follow_up, halt_requested, force_halt_requested, shutdown_received>>
KeepMan == UNCHANGED manVars

-----------------------------------------------------------------------------
\* process_engine_commands: the control queue is drained before the normal one.
TakeCommand(c) ==
    \/ control # <<>> /\ c = Head(control) /\ control' = Tail(control) /\ UNCHANGED normal
    \/ control = <<>> /\ normal # <<>> /\ c = Head(normal) /\ normal' = Tail(normal) /\ UNCHANGED control

\* A command the manager refuses is logged and dropped.
IfAllowed(guard, operation) == \/ guard /\ operation
                               \/ ~guard /\ KeepMan
ApplyCommand(c) ==
    CASE c.op = "AddDownload" -> IfAllowed(CanAdd(c.gid), AddGroup(c.gid))
      [] c.op = "Remove"      -> IfAllowed(CanRemove(c.gid), RemoveGroup(c.gid))
      [] c.op = "Pause"       -> IfAllowed(CanPause(c.gid), PauseGroup(c.gid))
      [] c.op = "Unpause"     -> IfAllowed(CanUnpause(c.gid), UnpauseGroup(c.gid))
      [] c.op = "PauseAll"    -> PauseAll
      [] c.op = "UnpauseAll"  -> UnpauseAll
      [] c.op = "HaltAll"     -> HaltAll("ShutdownSignal")
      [] c.op = "SetMaxConcurrent" -> SetMaxConcurrent(c.max)
      [] c.op = "ForceHaltAll" ->
            ForceRemoveReserved(Apply(groups, LAMBDA r : RequestHalt(r, "ShutdownSignal")))

\* Mutant: a command leads to no promotion.
ProcessWithoutFollowUp ==
    /\ phase = "commands"
    /\ \E c \in {Head(q) : q \in {control, normal} \ {<<>>}} :
         /\ TakeCommand(c)
         /\ ApplyCommand(c)
         /\ halt_requested' = (halt_requested \/ c.op = "HaltAll")
         /\ force_halt_requested' = (force_halt_requested \/ c.op = "ForceHaltAll")
         /\ GoTo(IF c.op = "ForceHaltAll" THEN "halting" ELSE "commands")
    /\ UNCHANGED <<first_pass, follow_up, shutdown_received, workVars, passVars,
                   outbox, changing, ops>>

ProcessCommand ==
    /\ phase = "commands"
    /\ \E c \in {Head(q) : q \in {control, normal} \ {<<>>}} :
         /\ TakeCommand(c)
         /\ ApplyCommand(c)
         /\ halt_requested' = (halt_requested \/ c.op = "HaltAll")
         /\ force_halt_requested' = (force_halt_requested \/ c.op = "ForceHaltAll")
         /\ follow_up' = (follow_up \/ ~first_pass)
         /\ GoTo(IF c.op = "ForceHaltAll" THEN "halting" ELSE "commands")
    /\ UNCHANGED <<first_pass, shutdown_received, workVars, passVars, outbox, changing, ops>>

CommandsDone ==
    /\ phase = "commands" /\ control = <<>> /\ normal = <<>>
    /\ GoTo(IF first_pass THEN "fill" ELSE "completions")
    /\ KeepFlags /\ KeepMan /\ UNCHANGED <<workVars, passVars, clientVars>>

\* Mutant: the task is dropped and nothing is sent for it.
HaltEntrySilent(r) ==
    /\ phase = "halting" /\ r \in running
    /\ tasks' = {t \in tasks : t.generation # r.generation}
    /\ running' = running \ {r}
    /\ UNCHANGED <<manVars, engineVars, next_generation, completed, completions, passVars,
                   clientVars>>

\* request_shutdown_and_wait: a task that does not end in time is aborted, and
\* its completion is sent for it; the timeout can also fire after the task has
\* sent its own.
HaltEntry(r) ==
    /\ phase = "halting" /\ r \in running
    /\ LET alive == {t \in tasks : t.generation = r.generation}
           cancelled == [gid |-> r.gid, generation |-> r.generation, result |-> "Cancelled"]
       IN  \/ /\ tasks' = tasks \ alive
              /\ completions' = Append(completions, cancelled)
           \/ alive = {} /\ UNCHANGED <<tasks, completions>>
    /\ running' = running \ {r}
    /\ UNCHANGED <<manVars, engineVars, next_generation, completed, passVars, clientVars>>

HaltingDone ==
    /\ phase = "halting" /\ running = {}
    /\ GoTo("commands")
    /\ KeepFlags /\ KeepMan /\ UNCHANGED <<workVars, passVars, clientVars>>

-----------------------------------------------------------------------------
\* promote_reserved_groups: fill_from_reserver under the lifecycle lock, then
\* one task per promoted group.
Fill ==
    /\ phase = "fill" /\ ~halt_requested /\ ~force_halt_requested
    /\ \E k \in 1..Len(reserved) :
         /\ FillFromReserver(k)
         /\ promoted' = Append(promoted, reserved[k])
    /\ UNCHANGED <<engineVars, workVars, demoting, resolving, clientVars>>

FillDone ==
    /\ phase = "fill"
    /\ \/ halt_requested \/ force_halt_requested \/ ~HasSlot
       \/ \A k \in 1..Len(reserved) : ~Promotable(reserved[k])
    /\ GoTo("spawn")
    /\ KeepFlags /\ KeepMan /\ UNCHANGED <<workVars, passVars, clientVars>>

Spawn ==
    /\ phase = "spawn" /\ promoted # <<>>
    /\ LET g == Head(promoted) IN
       /\ promoted' = Tail(promoted)
       /\ next_generation' = next_generation + 1
       /\ IF g \in Unspawnable
          THEN FailSpawnedGroup(g) /\ UNCHANGED <<running, tasks>>
          ELSE /\ group' = [group EXCEPT ![g] = IncCommands(@)]
               /\ UNCHANGED <<groups, active, reserved, stopped, max_concurrent>>
               /\ running' = running \cup
                    {[gid |-> g, generation |-> next_generation, timeout |-> "Timeout" \in Ops]}
               /\ tasks' = tasks \cup
                    {[gid |-> g, generation |-> next_generation, stage |-> "starting"]}
    /\ UNCHANGED <<engineVars, completed, completions, demoting, resolving, clientVars>>

SpawnDone ==
    /\ phase = "spawn" /\ promoted = <<>>
    /\ GoTo(IF first_pass THEN "completions" ELSE "exit_check")
    /\ KeepFlags /\ KeepMan /\ UNCHANGED <<workVars, passVars, clientVars>>

\* process_task_completions: each generation counts once, and the last command
\* of a live group settles it.
ProcessCompletion ==
    /\ phase \in {"completions", "woken"} /\ completions # <<>>
    /\ LET c == Head(completions) IN
       /\ completions' = Tail(completions)
       /\ IF c.generation \in completed
          THEN UNCHANGED <<manVars, follow_up, running, completed>>
          ELSE /\ completed' = completed \cup {c.generation}
               /\ follow_up' = TRUE
               /\ running' = {r \in running : r.generation # c.generation}
               /\ group' = IF Live(c.gid)
                           THEN [group EXCEPT ![c.gid] =
                                   ApplyCompletion(DecCommands(@), c.result, @.commands = 1)]
                           ELSE group
               /\ UNCHANGED <<groups, active, reserved, stopped, max_concurrent>>
    /\ UNCHANGED <<phase, first_pass, halt_requested, force_halt_requested,
                   shutdown_received, next_generation, tasks, passVars, clientVars>>

CompletionsDone ==
    /\ phase \in {"completions", "woken"} /\ completions = <<>>
    /\ GoTo(IF phase = "woken" THEN "commands" ELSE "requeue")
    /\ KeepFlags /\ KeepMan /\ UNCHANGED <<workVars, passVars, clientVars>>

-----------------------------------------------------------------------------
\* remove_stopped_groups, in the pass and once more in on_end_of_run.
Leaving == phase \in {"last_requeue", "last_find", "last_demote"}

Requeue ==
    /\ phase \in {"requeue", "last_requeue"}
    /\ RequeueNonTerminalGroups
    /\ GoTo(IF Leaving THEN "last_find" ELSE "find")
    /\ KeepFlags /\ UNCHANGED <<workVars, passVars, clientVars>>

Find ==
    /\ phase \in {"find", "last_find"}
    /\ demoting' = FoundStopped
    /\ GoTo(IF Leaving THEN "last_demote" ELSE "demote")
    /\ KeepFlags /\ KeepMan /\ UNCHANGED <<workVars, promoted, resolving, clientVars>>

\* Mutant: a failed prerequisite is not reported.
DemoteResolvingSuccess(d) ==
    /\ phase \in {"demote", "last_demote"} /\ resolving = NoGid /\ d \in demoting
    /\ DemoteGroup(d)
    /\ demoting' = demoting \ {d}
    /\ resolving' = IF group[d.gid].status = "Complete" THEN d.gid ELSE NoGid
    /\ follow_up' = TRUE
    /\ UNCHANGED <<phase, first_pass, halt_requested, force_halt_requested,
                   shutdown_received, workVars, promoted, clientVars>>

Demote(d) ==
    /\ phase \in {"demote", "last_demote"} /\ resolving = NoGid /\ d \in demoting
    /\ DemoteGroup(d)
    /\ demoting' = demoting \ {d}
    /\ resolving' = IF IsTerminal(group[d.gid]) THEN d.gid ELSE NoGid
    /\ follow_up' = TRUE
    /\ UNCHANGED <<phase, first_pass, halt_requested, force_halt_requested,
                   shutdown_received, workVars, promoted, clientVars>>

Resolve(usable) ==
    /\ phase \in {"demote", "last_demote"} /\ resolving # NoGid
    /\ usable => group[resolving].status = "Complete"
    /\ ResolveDependencies(resolving, usable)
    /\ resolving' = NoGid
    /\ UNCHANGED <<engineVars, workVars, promoted, demoting, clientVars>>

\* The pass promotes when something happened in it.
DemoteDone ==
    /\ phase = "demote" /\ demoting = {} /\ resolving = NoGid
    /\ GoTo(IF follow_up THEN "fill" ELSE "exit_check")
    /\ first_pass' = FALSE /\ follow_up' = FALSE
    /\ KeepMan
    /\ UNCHANGED <<halt_requested, force_halt_requested, shutdown_received, workVars,
                   passVars, clientVars>>

-----------------------------------------------------------------------------
AllDone == groups = {} /\ running = {}
GracefulDoneAtOnce == halt_requested                              \* mutant
GracefulDoneUnlessRpc == halt_requested /\ running = {} /\ ~KeepAlive  \* mutant
GracefulDone == halt_requested /\ running = {}
ForceDone == force_halt_requested /\ running = {} /\ completions = <<>>
ExitCheck ==
    /\ phase = "exit_check"
    /\ GoTo(IF ForceDone \/ GracefulDone \/ (AllDone /\ ~KeepAlive)
            THEN "last_requeue" ELSE "wait")
    /\ KeepFlags /\ KeepMan /\ UNCHANGED <<workVars, passVars, clientVars>>

Exit ==
    /\ phase = "last_demote" /\ demoting = {} /\ resolving = NoGid
    /\ GoTo("exited")
    /\ KeepFlags /\ KeepMan /\ UNCHANGED <<workVars, passVars, clientVars>>

\* The arms of select!: commands, completions, a deadline, the shutdown signal.
Wake ==
    /\ phase = "wait"
    /\ \/ (control # <<>> \/ normal # <<>>) /\ GoTo("commands")
       \/ completions # <<>> /\ GoTo("woken")
    /\ KeepFlags /\ KeepMan /\ UNCHANGED <<workVars, passVars, clientVars>>

WakeOnDeadline(r) ==
    /\ phase = "wait" /\ r \in running /\ r.timeout
    /\ running' = (running \ {r}) \cup {[r EXCEPT !.timeout = FALSE]}
    /\ TimeoutGroup(r.gid)
    /\ GoTo("commands")
    /\ KeepFlags
    /\ UNCHANGED <<next_generation, completed, completions, tasks, passVars, clientVars>>

WakeOnShutdown ==
    /\ phase = "wait" /\ ~shutdown_received
    /\ "Signal" \in Ops /\ ops > 0 /\ ops' = ops - 1
    /\ HaltAll("ShutdownSignal")
    /\ shutdown_received' = TRUE /\ halt_requested' = TRUE
    /\ GoTo("commands")
    /\ UNCHANGED <<first_pass, follow_up, force_halt_requested, workVars, passVars,
                   control, normal, outbox, changing>>

Engine ==
    \/ ProcessCommand \/ CommandsDone \/ HaltingDone \/ Fill \/ FillDone
    \/ Spawn \/ SpawnDone \/ ProcessCompletion \/ CompletionsDone
    \/ Requeue \/ Find \/ DemoteDone \/ ExitCheck \/ Exit \/ Wake
    \/ \E r \in running : HaltEntry(r)
    \/ \E d \in demoting : Demote(d)
    \/ \E usable \in BOOLEAN : Resolve(usable)

-----------------------------------------------------------------------------
\* The download tasks.  execute() begins with group.start() whatever the
\* status is by then.
MoveTask(t, stage) == tasks' = (tasks \ {t}) \cup {[t EXCEPT !.stage = stage]}
SetGroup(g, r) ==
    /\ group' = [group EXCEPT ![g] = r]
    /\ UNCHANGED <<groups, active, reserved, stopped, max_concurrent>>
EndTask(t, result) ==
    /\ tasks' = tasks \ {t}
    /\ completions' = Append(completions,
         [gid |-> t.gid, generation |-> t.generation, result |-> result])
    /\ UNCHANGED <<next_generation, running, completed>>
KeepEngine == UNCHANGED <<engineVars, passVars, clientVars>>

TaskStart(t) ==
    /\ t.stage = "starting"
    /\ MoveTask(t, "running")
    /\ SetGroup(t.gid, Start(group[t.gid]))
    /\ KeepEngine /\ UNCHANGED <<next_generation, running, completed, completions>>

\* Not every await is raced with the notifier of the group: connecting, the
\* requests before the body, closing a remote file, and an SFTP or FTP read that
\* began after a halt was looked for and before the notifier was.  Such a wait
\* ends when the server answers, or never.
TaskWait(t) ==
    /\ t.stage = "running"
    /\ MoveTask(t, "waiting")
    /\ KeepEngine /\ KeepMan /\ UNCHANGED <<next_generation, running, completed, completions>>

TaskAnswered(t) ==
    /\ t.stage = "waiting"
    /\ MoveTask(t, "running")
    /\ KeepEngine /\ KeepMan /\ UNCHANGED <<next_generation, running, completed, completions>>

CancelledByStatus(r) == r.status \in {"Removed", "Paused"}        \* mutant
\* check_cancelled.
Cancelled(r) == r.status \in {"Removed", "Paused"} \/ r.halt
TaskObserve(t) ==
    /\ t.stage \in {"starting", "running"} /\ Cancelled(group[t.gid])
    /\ EndTask(t, IF group[t.gid].status = "Paused" THEN "FailedPaused" ELSE "Failed")
    /\ KeepEngine /\ KeepMan

TaskFail(t) ==
    /\ t.stage # "done"
    /\ EndTask(t, "Failed")
    /\ KeepEngine /\ KeepMan

TaskComplete(t) ==
    /\ t.stage = "running"
    /\ MoveTask(t, "done")
    /\ SetGroup(t.gid, MarkComplete(group[t.gid]))
    /\ KeepEngine /\ UNCHANGED <<next_generation, running, completed, completions>>

TaskSend(t) ==
    /\ t.stage = "done"
    /\ EndTask(t, "Success")
    /\ KeepEngine /\ KeepMan

TaskStep(t) ==
    \/ TaskStart(t) \/ TaskWait(t) \/ TaskAnswered(t) \/ TaskObserve(t)
    \/ TaskFail(t) \/ TaskComplete(t) \/ TaskSend(t)

-----------------------------------------------------------------------------
\* The clients.  An RPC handler changes the manager first and sends the command
\* afterwards; the lifecycle lock keeps it out of fill_from_reserver.
Client(op) ==
    /\ op \in Ops /\ ops > 0 /\ phase \notin {"fill", "exited"}
    /\ ops' = ops - 1
Sends(c) == outbox' = outbox \cup {c}
KeepLoop == UNCHANGED <<engineVars, workVars, passVars, control, normal>>
GidCommand(op, g) == [op |-> op, gid |-> g]

RpcPause(g) ==
    /\ Client("Pause") /\ CanPause(g) /\ PauseGroup(g)
    /\ Sends(GidCommand("Pause", g))
    /\ KeepLoop /\ UNCHANGED changing

RpcUnpause(g) ==
    /\ Client("Unpause") /\ CanUnpause(g) /\ UnpauseGroup(g)
    /\ Sends(GidCommand("Unpause", g))
    /\ KeepLoop /\ UNCHANGED changing

\* The command is needed only for a group that is still live.
RpcRemove(g) ==
    /\ Client("Remove") /\ CanRemove(g) /\ RemoveGroup(g)
    /\ outbox' = outbox \cup (IF g \in active THEN {GidCommand("Remove", g)} ELSE {})
    /\ KeepLoop /\ UNCHANGED changing

RpcAdd(g) ==
    /\ Client("Add") /\ ~Live(g) /\ stopped[g] = NoResult
    /\ GidCommand("AddDownload", g) \notin outbox
    /\ AddGroup(g)
    /\ Sends(GidCommand("AddDownload", g))
    /\ KeepLoop /\ UNCHANGED changing

RpcPauseAll ==
    /\ Client("PauseAll") /\ PauseAll
    /\ Sends([op |-> "PauseAll"])
    /\ KeepLoop /\ UNCHANGED changing

RpcUnpauseAll ==
    /\ Client("UnpauseAll") /\ UnpauseAll
    /\ Sends([op |-> "UnpauseAll"])
    /\ KeepLoop /\ UNCHANGED changing

\* A DownloadHandle checks the group and only sends; so do changeGlobalOption
\* and the shutdown of an engine handle.
HandleSend ==
    /\ \/ /\ Client("Handle")
          /\ \E g \in groups :
               \/ IsPausable(group[g]) /\ Sends(GidCommand("Pause", g))
               \/ group[g].status = "Paused" /\ Sends(GidCommand("Unpause", g))
               \/ Sends(GidCommand("Remove", g))
       \/ /\ Client("SetMaxConcurrent")
          /\ \E m \in Limits : Sends([op |-> "SetMaxConcurrent", max |-> m])
       \/ Client("Shutdown") /\ Sends([op |-> "HaltAll"])
    /\ KeepLoop /\ KeepMan /\ UNCHANGED changing

\* aria2.forceShutdown empties the reserved queue before its watcher sends.
RpcForceShutdown ==
    /\ Client("ForceShutdown") /\ ForceRemoveReserved(group)
    /\ Sends([op |-> "ForceHaltAll"])
    /\ KeepLoop /\ UNCHANGED changing

\* change_group_options: three separate critical sections.
ChangeOptionStore(g) ==
    /\ Client("ChangeOption") /\ Live(g)
    /\ SetGroup(g, SetPendingOptions(group[g]))
    /\ changing' = changing \cup
         (IF group[g].status = "Active" THEN {[gid |-> g, stage |-> "pause"]} ELSE {})
    /\ KeepLoop /\ UNCHANGED outbox

ChangeOptionPause(c) ==
    /\ phase # "fill" /\ c \in changing /\ c.stage = "pause"
    /\ \/ /\ CanPause(c.gid) /\ PauseGroup(c.gid)
          /\ changing' = (changing \ {c}) \cup {[c EXCEPT !.stage = "restart"]}
       \/ ~CanPause(c.gid) /\ KeepMan /\ changing' = changing \ {c}
    /\ KeepLoop /\ UNCHANGED <<outbox, ops>>

ChangeOptionRestart(c) ==
    /\ c \in changing /\ c.stage = "restart"
    /\ IF Live(c.gid) THEN SetGroup(c.gid, RequestRestart(group[c.gid])) ELSE KeepMan
    /\ changing' = changing \ {c}
    /\ KeepLoop /\ UNCHANGED <<outbox, ops>>

\* EngineCommandSender::send: a lifecycle command that is pending already is
\* not queued again.
Coalesced(c) ==
    c.op \notin {"AddDownload", "SetMaxConcurrent"} /\ \E k \in 1..Len(control) : control[k] = c
Send(c) ==
    /\ c \in outbox /\ phase # "exited"
    /\ outbox' = outbox \ {c}
    /\ IF c.op = "AddDownload"
       THEN normal' = Append(normal, c) /\ UNCHANGED control
       ELSE control' = (IF Coalesced(c) THEN control ELSE Append(control, c)) /\ UNCHANGED normal
    /\ KeepMan /\ UNCHANGED <<engineVars, workVars, passVars, changing, ops>>

ClientOp ==
    \/ \E g \in Gids : RpcPause(g) \/ RpcUnpause(g) \/ RpcRemove(g) \/ RpcAdd(g)
                       \/ ChangeOptionStore(g)
    \/ RpcPauseAll \/ RpcUnpauseAll \/ HandleSend \/ RpcForceShutdown
ClientStep ==
    \/ \E c \in changing : ChangeOptionPause(c) \/ ChangeOptionRestart(c)
    \/ \E c \in outbox : Send(c)

Next ==
    \/ Engine
    \/ \E r \in running : WakeOnDeadline(r)
    \/ WakeOnShutdown
    \/ \E t \in tasks : TaskStep(t)
    \/ ClientOp
    \/ ClientStep

Spec == Init /\ [][Next]_vars

\* The engine task and the handlers are scheduled by tokio.  A task that keeps
\* coming back from its waits looks at the halt flags of its group now and then
\* (strong fairness); nothing makes a server answer or a download succeed or fail.
Fairness ==
    /\ WF_vars(Engine)
    /\ WF_vars(ClientStep)
    /\ \A g \in Gids :
         /\ WF_vars(\E t \in tasks : t.gid = g /\ (TaskStart(t) \/ TaskSend(t)))
         /\ SF_vars(\E t \in tasks : t.gid = g /\ TaskObserve(t))
FairSpec == Spec /\ Fairness

-----------------------------------------------------------------------------
TypeOK ==
    /\ ManTypeOK
    /\ max_concurrent \in Limits \cup {InitialMax}
    /\ phase \in Phases
    /\ {first_pass, follow_up, halt_requested, force_halt_requested, shutdown_received} \subseteq BOOLEAN
    /\ next_generation \in Nat
    /\ running \subseteq RunningDownload
    /\ completed \subseteq Nat
    /\ completions \in Seq(Completion)
    /\ tasks \subseteq Task
    /\ promoted \in Seq(Gids)
    /\ demoting \subseteq [gid : Gids, result : ResultRecord]
    /\ resolving \in Gids \cup {NoGid}
    /\ control \in Seq(Command) /\ normal \in Seq(Command)
    /\ outbox \subseteq Command
    /\ changing \subseteq [gid : Gids, stage : {"pause", "restart"}]
    /\ ops \in Nat

\* The commands of a gid that were spawned and not accounted for yet.
Outstanding(g) ==
    ({t.generation : t \in {u \in tasks : u.gid = g}}
     \cup {completions[k].generation : k \in {j \in 1..Len(completions) : completions[j].gid = g}})
    \ completed

\* num_commands is exact although a completion can be sent twice (by a task and
\* by the force halt that gave up on it) and arrive after the group has left.
CommandsBalanced == \A g \in groups : group[g].commands = Cardinality(Outstanding(g))

\* A task belongs to an active group and the engine knows it; an untracked one
\* would outlive the engine, or the engine wait for one that is gone.
Tracked ==
    /\ \A t \in tasks : t.gid \in active /\ \E r \in running : r.generation = t.generation
    /\ \A r \in running : phase # "halting" => r.generation \in Outstanding(r.gid)

\* The three accounts of a command agree: the counter of its group, the entry
\* of the engine, and the task with the completion it owes.
Accounted == CommandsBalanced /\ Tracked

\* The engine leaves no task, no completion that was not accounted for and no
\* finished download without a result behind.
ExitedIsQuiet ==
    phase = "exited" =>
        /\ tasks = {} /\ \A g \in Gids : Outstanding(g) = {}
        /\ \A g \in active : ~IsTerminal(group[g])

-----------------------------------------------------------------------------
\* No group that may run waits for ever next to a free slot: nothing polls, so
\* whatever freed the slot or released the group must have led to a promotion.
FreeSlotIsUsed ==
    (phase # "exited" /\ ~halt_requested /\ ~force_halt_requested /\ HasSlot
       /\ \E g \in ReservedIds : Promotable(g))
    ~> (phase = "exited" \/ halt_requested \/ force_halt_requested \/ ~HasSlot
       \/ \A g \in ReservedIds : ~Promotable(g))

\* A task of g is in a wait that only its server ends.
Unreached(g) == \E t \in tasks : t.gid = g /\ t.stage = "waiting"

\* A paused download stops working, whenever its task was started, unless its
\* task waits for a server that never answers.
PauseStopsTask ==
    \A g \in Gids : (Outstanding(g) # {} /\ group[g].pause)
                    ~> (Outstanding(g) = {} \/ ~group[g].pause \/ []Unreached(g))

\* A task whose halt was withdrawn: unpause_group and unpause_all clear the halt
\* flag of a group that was paused before it was halted (lifecycle.rs:247).
Resumed == \E r \in running : ~group[r.gid].halt

\* A forced halt ends the engine, whatever the tasks, their servers and clients
\* do.  A graceful one does so too, also in RPC mode, unless somebody resumes a
\* task it stopped or a task waits for a server that never answers.
HaltEnds ==
    /\ force_halt_requested ~> (phase = "exited")
    /\ halt_requested ~> (phase = "exited" \/ Resumed \/ [](\E g \in Gids : Unreached(g)))

\* The last command of an active group has ended and left it complete, failed or
\* removed.
Settled(g) == g \in active /\ group[g].commands = 0 /\ IsTerminal(group[g])

\* When its metadata group has been settled by its last command, a payload that
\* waits for it is released or failed.  A group that leaves in another way takes
\* no account of its payload: removed while it is reserved, not spawned, or found
\* stopped with a status that is not terminal.
PayloadSettled ==
    \A g \in Gids : (Live(g) /\ ~group[g].resolved /\ Settled(MetadataOf[g]))
                    ~> (~Live(g) \/ group[g].resolved)

\* A group that was paused for a restart resumes once it is requeued.
RestartResumes ==
    \A g \in ReservedIds :
        changing = {} => ~(group[g].status = "Paused" /\ group[g].restart)

-----------------------------------------------------------------------------
\* The engine implements the life cycle of DownloadLifecycle.
Stage(g) ==
    IF g \in active THEN "Running"
    ELSE IF g \in groups THEN "Queued"
    ELSE IF stopped[g] = NoResult THEN "New"
    ELSE IF IsTerminal(group[g]) THEN "Ended" ELSE "Interrupted"
Lifecycle == INSTANCE DownloadLifecycle WITH
    Limits <- Limits \cup {InitialMax},
    stage <- [g \in Gids |-> Stage(g)],
    workers <- {[gid |-> t.gid, generation |-> t.generation] : t \in tasks},
    limit <- max_concurrent
ImplementsLifecycle == Lifecycle!Spec
=============================================================================
