--------------------------- MODULE EngineLoopProofs ---------------------------
(***************************************************************************)
(* Proofs about EngineLoop, for any downloads, queue, limits and client    *)
(* operations, in three parts: the types of the engine and one home for    *)
(* every live group; the account of the commands; and the life cycle of    *)
(* DownloadLifecycle, which the engine implements.                         *)
(***************************************************************************)
EXTENDS EngineLoop, RequestGroupManProofs, FiniteSetTheorems

\* The parts of TypeOK that are not about the manager.
LimitTyped == max_concurrent \in Limits \cup {InitialMax}
EngineTyped ==
    /\ phase \in Phases
    /\ first_pass \in BOOLEAN /\ follow_up \in BOOLEAN /\ halt_requested \in BOOLEAN
    /\ force_halt_requested \in BOOLEAN /\ shutdown_received \in BOOLEAN
WorkTyped ==
    /\ next_generation \in Nat /\ running \subseteq RunningDownload /\ completed \subseteq Nat
    /\ completions \in Seq(Completion) /\ tasks \subseteq Task
PassTyped ==
    /\ promoted \in Seq(Gids)
    /\ demoting \subseteq [gid : Gids, result : ResultRecord]
    /\ resolving \in Gids \cup {NoGid}
ClientTyped ==
    /\ control \in Seq(Command) /\ normal \in Seq(Command) /\ outbox \subseteq Command
    /\ changing \subseteq [gid : Gids, stage : {"pause", "restart"}] /\ ops \in Nat

LoopInv == ManInv /\ LimitTyped /\ EngineTyped /\ WorkTyped /\ PassTyped /\ ClientTyped

\* The invariant is the type invariant and the one home of every group.
LEMMA LoopInvMeaning == LoopInv => TypeOK /\ OneHome
BY DEF LoopInv, ManInv, LimitTyped, EngineTyped, WorkTyped, PassTyped, ClientTyped, TypeOK

\* The typed parts of the state survive steps that leave them alone: the phase
\* and flags of the engine,
LEMMA KeepEngineTyped == EngineTyped /\ UNCHANGED engineVars => EngineTyped'
BY DEF EngineTyped, engineVars
\* the commands, tasks and completions,
LEMMA KeepWorkTyped == WorkTyped /\ UNCHANGED workVars => WorkTyped'
BY DEF WorkTyped, workVars
\* the promotions and demotions of the current pass,
LEMMA KeepPassTyped == PassTyped /\ UNCHANGED passVars => PassTyped'
BY DEF PassTyped, passVars
\* and the channel with its clients.
LEMMA KeepClientTyped == ClientTyped /\ UNCHANGED clientVars => ClientTyped'
BY DEF ClientTyped, clientVars

\* The engine starts in the invariant.
LEMMA LoopInit == Init => LoopInv
<1> SUFFICES ASSUME Init PROVE LoopInv
  OBVIOUS
<1>1. /\ InitialQueue \in Seq(Gids) /\ OnceIn(InitialQueue)
      /\ InitialMax \in Nat /\ MaxOps \in Nat
  BY LoopAssumption
<1>2. \A g \in Gids : InitialGroup(g) \in GroupRecord /\ Pause(InitialGroup(g)) \in GroupRecord
  <2> TAKE g \in Gids
  <2>1. InitialGroup(g) \in GroupRecord
    BY DEF InitialGroup, NewGroup, GroupRecord, Statuses, HaltReasons
  <2> QED BY <2>1, GroupTransitions
<1>3. group \in [Gids -> GroupRecord]
  BY <1>2 DEF Init
<1>4. ToSet(InitialQueue) \subseteq Gids
  BY <1>1, ElementOfSeq DEF ToSet
<1>5. ManTypeOK
  BY <1>1, <1>3, <1>4 DEF Init, ManTypeOK
<1>6. OneHome
  BY <1>1 DEF Init, OneHome, ReservedIds
<1>7. \A S : <<>> \in Seq(S)
  BY EmptySeq
<1>8. LimitTyped /\ EngineTyped
  BY DEF Init, LimitTyped, EngineTyped, Phases
<1>9. WorkTyped
  BY <1>7 DEF Init, WorkTyped
<1>10. PassTyped /\ ClientTyped
  BY <1>1, <1>7 DEF Init, PassTyped, ClientTyped
<1> QED BY <1>5, <1>6, <1>8, <1>9, <1>10 DEF LoopInv, ManInv

-----------------------------------------------------------------------------
\* A command taken from the channel is one that was put in.
LEMMA TakenCommand ==
    ASSUME ClientTyped, NEW c, TakeCommand(c)
    PROVE  c \in Command /\ control' \in Seq(Command) /\ normal' \in Seq(Command)
<1>1. control \in Seq(Command) /\ normal \in Seq(Command)
  BY DEF ClientTyped
<1>2. \A q \in Seq(Command) : q # <<>> => Head(q) \in Command /\ Tail(q) \in Seq(Command)
  BY HeadTailProperties
<1> QED BY <1>1, <1>2 DEF TakeCommand

\* Every command leaves the manager consistent, refused or not.
LEMMA CommandKeeps ==
    ASSUME ManInv, LimitTyped, NEW c \in Command, ApplyCommand(c)
    PROVE  ManInv' /\ LimitTyped'
<1> USE DEF LimitTyped
<1>0. ASSUME KeepMan PROVE ManInv' /\ LimitTyped'
  BY <1>0, ManUnchanged DEF KeepMan, manVars
<1>1. CASE c.op = "AddDownload"
  <2>1. c.gid \in Gids
    BY <1>1 DEF Command, GidOps
  <2>2. ~KeepMan => CanAdd(c.gid) /\ AddGroup(c.gid)
    BY <1>1 DEF ApplyCommand, IfAllowed
  <2> QED BY <1>0, <2>1, <2>2, AddKeeps DEF CanAdd, AddGroup
<1>2. CASE c.op = "Remove"
  <2>1. ~KeepMan => RemoveGroup(c.gid)
    BY <1>2 DEF ApplyCommand, IfAllowed
  <2> QED BY <1>0, <2>1, RemoveKeeps DEF RemoveGroup
<1>3. CASE c.op = "Pause"
  <2>1. ~KeepMan => PauseGroup(c.gid)
    BY <1>3 DEF ApplyCommand, IfAllowed
  <2> QED BY <1>0, <2>1, PausesKeep DEF PauseGroup
<1>4. CASE c.op = "Unpause"
  <2>1. ~KeepMan => UnpauseGroup(c.gid)
    BY <1>4 DEF ApplyCommand, IfAllowed
  <2> QED BY <1>0, <2>1, PausesKeep DEF UnpauseGroup
<1>5. CASE c.op = "PauseAll" \/ c.op = "UnpauseAll"
  <2>1. PauseAll \/ UnpauseAll
    BY <1>5 DEF ApplyCommand
  <2> QED BY <2>1, PausesKeep DEF PauseAll, UnpauseAll
<1>6. CASE c.op = "HaltAll"
  <2>1. HaltAll("ShutdownSignal")
    BY <1>6 DEF ApplyCommand
  <2> QED BY <2>1, HaltsKeep DEF HaltAll, HaltReasons
<1>7. CASE c.op = "SetMaxConcurrent"
  <2>1. SetMaxConcurrent(c.max)
    BY <1>7 DEF ApplyCommand
  <2>2. c.max \in Limits /\ c.max \in Nat
    BY <1>7, LoopAssumption DEF Command, GidOps
  <2> QED BY <2>1, <2>2, LimitKeeps DEF SetMaxConcurrent
<1>8. CASE c.op = "ForceHaltAll"
  <2> DEFINE current == [g \in Gids |-> IF g \in groups THEN RequestHalt(group[g], "ShutdownSignal") ELSE group[g]]
  <2>1. ForceRemoveReserved(current)
    BY <1>8 DEF ApplyCommand, Apply
  <2>2. current \in [Gids -> GroupRecord]
    BY GroupTransitions DEF ManInv, ManTypeOK, HaltReasons
  <2> HIDE DEF current
  <2> QED BY <2>1, <2>2, ForceRemoveKeeps DEF ForceRemoveReserved
<1> QED BY <1>1, <1>2, <1>3, <1>4, <1>5, <1>6, <1>7, <1>8 DEF Command, GidOps

-----------------------------------------------------------------------------
\* Steps that only move the engine to another phase.
LEMMA PhaseKeeps ==
    ASSUME LoopInv, phase' \in Phases, KeepMan, UNCHANGED <<workVars, passVars, clientVars>>,
           first_pass' \in BOOLEAN, follow_up' \in BOOLEAN,
           UNCHANGED <<halt_requested, force_halt_requested, shutdown_received>>
    PROVE  LoopInv'
<1>1. ManInv' /\ LimitTyped'
  BY ManUnchanged DEF LoopInv, KeepMan, manVars, LimitTyped
<1>2. EngineTyped'
  BY DEF LoopInv, EngineTyped
<1>3. WorkTyped' /\ PassTyped' /\ ClientTyped'
  BY KeepWorkTyped, KeepPassTyped, KeepClientTyped DEF LoopInv
<1> QED BY <1>1, <1>2, <1>3 DEF LoopInv

\* Every step of run_engine_loop that only goes on to its next phase.
LEMMA PhaseSteps ==
    ASSUME LoopInv,
           \/ CommandsDone \/ HaltingDone \/ FillDone \/ SpawnDone \/ CompletionsDone
           \/ DemoteDone \/ ExitCheck \/ Exit \/ Wake
    PROVE  LoopInv'
<1>1. first_pass \in BOOLEAN /\ follow_up \in BOOLEAN
  BY DEF LoopInv, EngineTyped
<1>2. CASE CommandsDone \/ HaltingDone \/ FillDone \/ SpawnDone \/ CompletionsDone
  <2>1. phase' \in Phases
    BY <1>2 DEF CommandsDone, HaltingDone, FillDone, SpawnDone, CompletionsDone, GoTo, Phases
  <2>2. KeepFlags /\ KeepMan /\ UNCHANGED <<workVars, passVars, clientVars>>
    BY <1>2 DEF CommandsDone, HaltingDone, FillDone, SpawnDone, CompletionsDone
  <2> QED BY <1>1, <2>1, <2>2, PhaseKeeps DEF KeepFlags
<1>3. CASE ExitCheck \/ Exit \/ Wake
  <2>1. phase' \in Phases
    BY <1>3 DEF ExitCheck, Exit, Wake, GoTo, Phases
  <2>2. KeepFlags /\ KeepMan /\ UNCHANGED <<workVars, passVars, clientVars>>
    BY <1>3 DEF ExitCheck, Exit, Wake
  <2> QED BY <1>1, <2>1, <2>2, PhaseKeeps DEF KeepFlags
<1>4. CASE DemoteDone
  <2>1. phase' \in Phases /\ first_pass' \in BOOLEAN /\ follow_up' \in BOOLEAN
    BY <1>4 DEF DemoteDone, GoTo, Phases
  <2> QED BY <1>4, <2>1, PhaseKeeps DEF DemoteDone
<1> QED BY <1>2, <1>3, <1>4

\* process_engine_commands keeps the invariant, command by command.
LEMMA CommandStep ==
    ASSUME LoopInv, ProcessCommand
    PROVE  LoopInv'
<1>1. PICK c : /\ TakeCommand(c) /\ ApplyCommand(c)
               /\ halt_requested' = (halt_requested \/ c.op = "HaltAll")
               /\ force_halt_requested' = (force_halt_requested \/ c.op = "ForceHaltAll")
               /\ follow_up' = (follow_up \/ ~first_pass)
               /\ GoTo(IF c.op = "ForceHaltAll" THEN "halting" ELSE "commands")
  BY DEF ProcessCommand
<1>2. c \in Command /\ control' \in Seq(Command) /\ normal' \in Seq(Command)
  BY <1>1, TakenCommand DEF LoopInv
<1>3. ManInv' /\ LimitTyped'
  BY <1>1, <1>2, CommandKeeps DEF LoopInv
<1>4. EngineTyped'
  BY <1>1 DEF LoopInv, EngineTyped, ProcessCommand, GoTo, Phases
<1>5. WorkTyped' /\ PassTyped'
  BY KeepWorkTyped, KeepPassTyped DEF LoopInv, ProcessCommand
<1>6. ClientTyped'
  BY <1>2 DEF LoopInv, ClientTyped, ProcessCommand
<1> QED BY <1>3, <1>4, <1>5, <1>6 DEF LoopInv

\* Giving up on a running download in a forced halt keeps the invariant.
LEMMA HaltEntryStep ==
    ASSUME LoopInv, NEW r \in running, HaltEntry(r)
    PROVE  LoopInv'
<1>1. ManInv' /\ LimitTyped'
  BY ManUnchanged DEF LoopInv, HaltEntry, manVars, LimitTyped
<1>2. EngineTyped' /\ PassTyped' /\ ClientTyped'
  BY KeepEngineTyped, KeepPassTyped, KeepClientTyped DEF LoopInv, HaltEntry
<1>3. WorkTyped'
  <2> DEFINE c == [gid |-> r.gid, generation |-> r.generation, result |-> "Cancelled"]
  <2>1. r.gid \in Gids /\ r.generation \in Nat /\ completions \in Seq(Completion)
    BY DEF LoopInv, WorkTyped, RunningDownload
  <2>2. c \in Completion
    BY <2>1 DEF Completion, TaskResults
  <2> HIDE DEF c
  <2>3. Append(completions, c) \in Seq(Completion)
    BY <2>1, <2>2, AppendProperties
  <2>4. completions' \in {completions, Append(completions, c)} /\ tasks' \subseteq tasks
    BY DEF HaltEntry, c
  <2> QED BY <2>1, <2>3, <2>4 DEF LoopInv, WorkTyped, HaltEntry
<1> QED BY <1>1, <1>2, <1>3 DEF LoopInv

\* A promotion moves one group from the queue to the active map.
LEMMA FillStep ==
    ASSUME LoopInv, Fill
    PROVE  LoopInv'
<1>1. PICK k : FillFromReserver(k) /\ promoted' = Append(promoted, reserved[k])
  BY DEF Fill
<1>2. ManInv' /\ reserved[k] \in Gids
  BY <1>1, FillKeeps DEF LoopInv
<1>3. LimitTyped'
  BY <1>1 DEF FillFromReserver, LoopInv, LimitTyped
<1>4. promoted' \in Seq(Gids)
  BY <1>1, <1>2, AppendProperties DEF LoopInv, PassTyped
<1>5. PassTyped'
  BY <1>4 DEF LoopInv, PassTyped, Fill
<1>6. EngineTyped' /\ WorkTyped' /\ ClientTyped'
  BY KeepEngineTyped, KeepWorkTyped, KeepClientTyped DEF LoopInv, Fill
<1> QED BY <1>2, <1>3, <1>5, <1>6 DEF LoopInv

\* A promoted group gets a task, or fails because it cannot have one.
LEMMA SpawnStep ==
    ASSUME LoopInv, Spawn
    PROVE  LoopInv'
<1> DEFINE g == Head(promoted)
<1>1. g \in Gids /\ promoted' \in Seq(Gids)
  BY HeadTailProperties DEF LoopInv, PassTyped, Spawn
<1>2. EngineTyped' /\ ClientTyped'
  BY KeepEngineTyped, KeepClientTyped DEF LoopInv, Spawn
<1>3. PassTyped'
  BY <1>1 DEF LoopInv, PassTyped, Spawn
<1>4. CASE g \in Unspawnable
  <2>1. FailSpawnedGroup(g) /\ UNCHANGED <<running, tasks, max_concurrent>>
    BY <1>4 DEF Spawn, FailSpawnedGroup, manVars
  <2>2. ManInv' /\ LimitTyped'
    BY <2>1, FailSpawnedKeeps DEF LoopInv, LimitTyped
  <2>3. WorkTyped'
    BY <2>1 DEF LoopInv, WorkTyped, Spawn
  <2> QED BY <1>2, <1>3, <2>2, <2>3 DEF LoopInv
<1>5. CASE g \notin Unspawnable
  <2>1. /\ group' = [group EXCEPT ![g] = IncCommands(@)]
        /\ UNCHANGED <<groups, active, reserved, stopped, max_concurrent>>
        /\ running' = running \cup
             {[gid |-> g, generation |-> next_generation, timeout |-> "Timeout" \in Ops]}
        /\ tasks' = tasks \cup
             {[gid |-> g, generation |-> next_generation, stage |-> "starting"]}
    BY <1>5 DEF Spawn
  <2>2. group \in [Gids -> GroupRecord] /\ max_concurrent \in Nat
    BY DEF LoopInv, ManInv, ManTypeOK
  <2>3. IncCommands(group[g]) \in GroupRecord
    BY <1>1, <2>2, GroupTransitions
  <2>4. group' \in [Gids -> GroupRecord]
    BY <2>1, <2>2, <2>3
  <2>5. ManInv' /\ LimitTyped'
    BY <2>1, <2>2, <2>4, RecordsOnly DEF LoopInv, LimitTyped
  <2>6. /\ next_generation \in Nat /\ next_generation + 1 \in Nat
        /\ [gid |-> g, generation |-> next_generation, timeout |-> "Timeout" \in Ops] \in RunningDownload
        /\ [gid |-> g, generation |-> next_generation, stage |-> "starting"] \in Task
    BY <1>1 DEF LoopInv, WorkTyped, RunningDownload, Task, TaskStages
  <2>7. WorkTyped'
    BY <2>1, <2>6 DEF LoopInv, WorkTyped, Spawn
  <2> QED BY <1>2, <1>3, <2>5, <2>7 DEF LoopInv
<1> QED BY <1>4, <1>5

\* A completion settles its group, and only once.
LEMMA CompletionStep ==
    ASSUME LoopInv, ProcessCompletion
    PROVE  LoopInv'
<1> DEFINE c == Head(completions)
<1>1. c \in Completion /\ completions' \in Seq(Completion)
  BY HeadTailProperties DEF LoopInv, WorkTyped, ProcessCompletion
<1>2. c.gid \in Gids /\ c.generation \in Nat /\ c.result \in TaskResults
  BY <1>1 DEF Completion
<1>3. PassTyped' /\ ClientTyped'
  BY KeepPassTyped, KeepClientTyped DEF LoopInv, ProcessCompletion
<1>4. CASE c.generation \in completed
  <2>1. UNCHANGED <<manVars, follow_up, running, completed>>
    BY <1>4 DEF ProcessCompletion
  <2>2. ManInv' /\ LimitTyped'
    BY <2>1, ManUnchanged DEF LoopInv, LimitTyped, manVars
  <2>3. EngineTyped' /\ WorkTyped'
    BY <1>1, <2>1 DEF LoopInv, EngineTyped, WorkTyped, ProcessCompletion
  <2> QED BY <1>3, <2>2, <2>3 DEF LoopInv
<1>5. CASE c.generation \notin completed
  <2>1. /\ completed' = completed \cup {c.generation}
        /\ follow_up' = TRUE
        /\ running' = {r \in running : r.generation # c.generation}
        /\ group' = IF Live(c.gid)
                    THEN [group EXCEPT ![c.gid] =
                            ApplyCompletion(DecCommands(@), c.result, @.commands = 1)]
                    ELSE group
        /\ UNCHANGED <<groups, active, reserved, stopped, max_concurrent>>
    BY <1>5 DEF ProcessCompletion
  <2>2. group \in [Gids -> GroupRecord] /\ max_concurrent \in Nat
    BY DEF LoopInv, ManInv, ManTypeOK
  <2>3. DecCommands(group[c.gid]) \in GroupRecord
    BY <1>2, <2>2, GroupTransitions
  <2>4. ApplyCompletion(DecCommands(group[c.gid]), c.result, group[c.gid].commands = 1) \in GroupRecord
    BY <1>2, <2>3, SettleType
  <2>5. group' \in [Gids -> GroupRecord]
    BY <1>2, <2>1, <2>2, <2>4
  <2>6. ManInv' /\ LimitTyped'
    BY <2>1, <2>2, <2>5, RecordsOnly DEF LoopInv, LimitTyped
  <2>7. EngineTyped' /\ WorkTyped'
    BY <1>1, <1>2, <2>1 DEF LoopInv, EngineTyped, WorkTyped, ProcessCompletion
  <2> QED BY <1>3, <2>6, <2>7 DEF LoopInv
<1> QED BY <1>4, <1>5

-----------------------------------------------------------------------------
\* Groups that go back to the queue keep the invariant.
LEMMA RequeueStep ==
    ASSUME LoopInv, Requeue
    PROVE  LoopInv'
<1>1. ManInv' /\ LimitTyped'
  BY RequeueKeeps DEF LoopInv, LimitTyped, Requeue, RequeueNonTerminalGroups
<1>2. EngineTyped'
  BY DEF LoopInv, EngineTyped, Requeue, KeepFlags, GoTo, Phases
<1>3. WorkTyped' /\ PassTyped' /\ ClientTyped'
  BY KeepWorkTyped, KeepPassTyped, KeepClientTyped DEF LoopInv, Requeue
<1> QED BY <1>1, <1>2, <1>3 DEF LoopInv

\* The stopped groups that a pass finds have well-formed results.
LEMMA FindStep ==
    ASSUME LoopInv, Find
    PROVE  LoopInv'
<1>1. ManInv' /\ LimitTyped'
  BY ManUnchanged DEF LoopInv, LimitTyped, Find, KeepMan, manVars
<1>2. EngineTyped'
  BY DEF LoopInv, EngineTyped, Find, KeepFlags, GoTo, Phases
<1>3. WorkTyped' /\ ClientTyped'
  BY KeepWorkTyped, KeepClientTyped DEF LoopInv, Find
<1>4. group \in [Gids -> GroupRecord] /\ active \subseteq Gids
  BY DEF LoopInv, ManInv, ManTypeOK
<1>5. \A g \in active : DownloadResult(group[g]) \in ResultRecord
  BY <1>4, ResultType
<1>6. FoundStopped \subseteq [gid : Gids, result : ResultRecord]
  BY <1>4, <1>5 DEF FoundStopped
<1>7. PassTyped'
  BY <1>6 DEF LoopInv, PassTyped, Find
<1> QED BY <1>1, <1>2, <1>3, <1>7 DEF LoopInv

\* A demoted group leaves the active map for good.
LEMMA DemoteStep ==
    ASSUME LoopInv, NEW d \in demoting, Demote(d)
    PROVE  LoopInv'
<1>1. d \in [gid : Gids, result : ResultRecord]
  BY DEF LoopInv, PassTyped
<1>2. DemoteGroup(d)
  BY DEF Demote
<1>3. ManInv'
  BY <1>1, <1>2, DemoteKeeps DEF LoopInv
<1>4. LimitTyped'
  BY <1>2 DEF LoopInv, LimitTyped, DemoteGroup, manVars
<1>5. EngineTyped'
  BY DEF LoopInv, EngineTyped, Demote
<1>6. WorkTyped' /\ ClientTyped'
  BY KeepWorkTyped, KeepClientTyped DEF LoopInv, Demote
<1>7. PassTyped'
  BY <1>1 DEF LoopInv, PassTyped, Demote
<1> QED BY <1>3, <1>4, <1>5, <1>6, <1>7 DEF LoopInv

\* Releasing or failing a payload keeps the invariant.
LEMMA ResolveStep ==
    ASSUME LoopInv, NEW usable, Resolve(usable)
    PROVE  LoopInv'
<1>1. ResolveDependencies(resolving, usable)
  BY DEF Resolve
<1>2. ManInv'
  BY <1>1, ResolveKeeps DEF LoopInv
<1>3. LimitTyped'
  BY <1>1 DEF LoopInv, LimitTyped, ResolveDependencies, manVars
<1>4. EngineTyped' /\ WorkTyped' /\ ClientTyped'
  BY KeepEngineTyped, KeepWorkTyped, KeepClientTyped DEF LoopInv, Resolve
<1>5. PassTyped'
  BY DEF LoopInv, PassTyped, Resolve
<1> QED BY <1>2, <1>3, <1>4, <1>5 DEF LoopInv
-----------------------------------------------------------------------------
\* Steps of the download tasks: one group record, the task and its completion.
LEMMA SetGroupKeeps ==
    ASSUME LoopInv, NEW g \in Gids, NEW r \in GroupRecord, SetGroup(g, r)
    PROVE  ManInv' /\ LimitTyped'
<1>1. group \in [Gids -> GroupRecord] /\ max_concurrent \in Nat
  BY DEF LoopInv, ManInv, ManTypeOK
<1>2. group' \in [Gids -> GroupRecord] /\ UNCHANGED <<groups, active, reserved, stopped, max_concurrent>>
  BY <1>1 DEF SetGroup
<1> QED BY <1>1, <1>2, RecordsOnly DEF LoopInv, LimitTyped

\* A manager that is left alone stays consistent.
LEMMA KeepManKeeps == LoopInv /\ KeepMan => ManInv' /\ LimitTyped'
BY ManUnchanged DEF LoopInv, LimitTyped, KeepMan, manVars

\* The steps of tasks touch only the group records and the work in progress.
LEMMA TaskKeeps ==
    ASSUME LoopInv, KeepEngine, ManInv', LimitTyped', WorkTyped'
    PROVE  LoopInv'
BY KeepEngineTyped, KeepPassTyped, KeepClientTyped DEF LoopInv, KeepEngine

\* A task moves to one of its stages.
LEMMA MoveTaskTyped ==
    ASSUME LoopInv, NEW t \in tasks, NEW stage \in TaskStages,
           MoveTask(t, stage), UNCHANGED <<next_generation, running, completed, completions>>
    PROVE  WorkTyped'
<1>1. t \in Task
  BY DEF LoopInv, WorkTyped
<1>2. [t EXCEPT !.stage = stage] \in Task
  BY <1>1 DEF Task
<1> QED BY <1>2 DEF LoopInv, WorkTyped, MoveTask

\* A task ends by sending its completion.
LEMMA EndTaskTyped ==
    ASSUME LoopInv, NEW t \in tasks, NEW result \in TaskResults, EndTask(t, result)
    PROVE  WorkTyped'
<1> DEFINE c == [gid |-> t.gid, generation |-> t.generation, result |-> result]
<1>1. t.gid \in Gids /\ t.generation \in Nat /\ completions \in Seq(Completion)
  BY DEF LoopInv, WorkTyped, Task
<1>2. c \in Completion
  BY <1>1 DEF Completion
<1> HIDE DEF c
<1>3. Append(completions, c) \in Seq(Completion)
  BY <1>1, <1>2, AppendProperties
<1>4. completions' = Append(completions, c) /\ tasks' \subseteq tasks
  BY DEF EndTask, c
<1> QED BY <1>3, <1>4 DEF LoopInv, WorkTyped, EndTask

\* Every step of a task keeps the invariant.
LEMMA TaskStepKeeps ==
    ASSUME LoopInv, NEW t \in tasks, TaskStep(t)
    PROVE  LoopInv'
<1>1. t.gid \in Gids /\ group[t.gid] \in GroupRecord
  BY DEF LoopInv, WorkTyped, Task, ManInv, ManTypeOK
<1>2. Start(group[t.gid]) \in GroupRecord /\ MarkComplete(group[t.gid]) \in GroupRecord
  BY <1>1, GroupTransitions
<1>3. CASE TaskStart(t)
  <2>1. ManInv' /\ LimitTyped'
    BY <1>1, <1>2, <1>3, SetGroupKeeps DEF TaskStart
  <2>2. WorkTyped'
    BY <1>3, MoveTaskTyped DEF TaskStart, TaskStages
  <2> QED BY <1>3, <2>1, <2>2, TaskKeeps DEF TaskStart
<1>4. CASE TaskObserve(t)
  <2>1. PICK result \in TaskResults : EndTask(t, result)
    BY <1>4 DEF TaskObserve, TaskResults
  <2> QED BY <1>4, <2>1, EndTaskTyped, KeepManKeeps, TaskKeeps DEF TaskObserve
<1>5. CASE TaskFail(t)
  <2>1. EndTask(t, "Failed") /\ "Failed" \in TaskResults
    BY <1>5 DEF TaskFail, TaskResults
  <2> QED BY <1>5, <2>1, EndTaskTyped, KeepManKeeps, TaskKeeps DEF TaskFail
<1>6. CASE TaskComplete(t)
  <2>1. ManInv' /\ LimitTyped'
    BY <1>1, <1>2, <1>6, SetGroupKeeps DEF TaskComplete
  <2>2. WorkTyped'
    BY <1>6, MoveTaskTyped DEF TaskComplete, TaskStages
  <2> QED BY <1>6, <2>1, <2>2, TaskKeeps DEF TaskComplete
<1>7. CASE TaskSend(t)
  <2>1. EndTask(t, "Success") /\ "Success" \in TaskResults
    BY <1>7 DEF TaskSend, TaskResults
  <2> QED BY <1>7, <2>1, EndTaskTyped, KeepManKeeps, TaskKeeps DEF TaskSend
<1>8. CASE TaskWait(t) \/ TaskAnswered(t)
  <2>1. (\E stage \in TaskStages : MoveTask(t, stage)) /\ KeepMan
        /\ UNCHANGED <<next_generation, running, completed, completions>>
    BY <1>8 DEF TaskWait, TaskAnswered, TaskStages
  <2> QED BY <1>8, <2>1, MoveTaskTyped, KeepManKeeps, TaskKeeps DEF TaskWait, TaskAnswered
<1> QED BY <1>3, <1>4, <1>5, <1>6, <1>7, <1>8 DEF TaskStep

-----------------------------------------------------------------------------
\* The deadline of a running download: its group is asked to halt.
LEMMA DeadlineStep ==
    ASSUME LoopInv, NEW r \in running, WakeOnDeadline(r)
    PROVE  LoopInv'
<1>1. TimeoutGroup(r.gid)
  BY DEF WakeOnDeadline
<1>2. ManInv'
  BY <1>1, HaltsKeep DEF LoopInv, HaltReasons
<1>3. LimitTyped'
  BY <1>1 DEF LoopInv, LimitTyped, TimeoutGroup
<1>4. EngineTyped'
  BY DEF LoopInv, EngineTyped, WakeOnDeadline, KeepFlags, GoTo, Phases
<1>5. r \in RunningDownload
  BY DEF LoopInv, WorkTyped
<1>6. [r EXCEPT !.timeout = FALSE] \in RunningDownload
  BY <1>5 DEF RunningDownload
<1>7. WorkTyped'
  BY <1>6 DEF LoopInv, WorkTyped, WakeOnDeadline
<1>8. PassTyped' /\ ClientTyped'
  BY KeepPassTyped, KeepClientTyped DEF LoopInv, WakeOnDeadline
<1> QED BY <1>2, <1>3, <1>4, <1>7, <1>8 DEF LoopInv

\* The shutdown signal: every group is asked to halt.
LEMMA ShutdownSignalStep ==
    ASSUME LoopInv, WakeOnShutdown
    PROVE  LoopInv'
<1>1. HaltAll("ShutdownSignal")
  BY DEF WakeOnShutdown
<1>2. ManInv'
  BY <1>1, HaltsKeep DEF LoopInv, HaltReasons
<1>3. LimitTyped'
  BY <1>1 DEF LoopInv, LimitTyped, HaltAll
<1>4. EngineTyped'
  BY DEF LoopInv, EngineTyped, WakeOnShutdown, GoTo, Phases
<1>5. WorkTyped' /\ PassTyped'
  BY KeepWorkTyped, KeepPassTyped DEF LoopInv, WakeOnShutdown
<1>6. ClientTyped'
  BY DEF LoopInv, ClientTyped, WakeOnShutdown
<1> QED BY <1>2, <1>3, <1>4, <1>5, <1>6 DEF LoopInv

-----------------------------------------------------------------------------
\* The steps of clients touch the manager, their own pending commands and the
\* option changes in progress.
LEMMA ClientKeeps ==
    ASSUME LoopInv, KeepLoop, ManInv', LimitTyped', outbox' \subseteq Command,
           changing' \subseteq [gid : Gids, stage : {"pause", "restart"}], ops' \in Nat
    PROVE  LoopInv'
<1>1. EngineTyped' /\ WorkTyped' /\ PassTyped'
  BY KeepEngineTyped, KeepWorkTyped, KeepPassTyped DEF LoopInv, KeepLoop
<1>2. ClientTyped'
  BY DEF LoopInv, ClientTyped, KeepLoop
<1> QED BY <1>1, <1>2 DEF LoopInv

\* Every command a client sends is a command of the channel.
LEMMA ClientCommands ==
    /\ \A op \in GidOps, g \in Gids : GidCommand(op, g) \in Command
    /\ \A m \in Limits : [op |-> "SetMaxConcurrent", max |-> m] \in Command
    /\ \A op \in {"PauseAll", "UnpauseAll", "HaltAll", "ForceHaltAll"} : [op |-> op] \in Command
BY DEF GidCommand, Command

\* A client call takes one of the calls that are left.
LEMMA ClientCalls ==
    ASSUME LoopInv, NEW op, Client(op)
    PROVE  ops' \in Nat
BY DEF LoopInv, ClientTyped, Client

\* Calls on one download keep the invariant.
LEMMA GidCallsKeep ==
    ASSUME LoopInv, NEW g \in Gids,
           RpcPause(g) \/ RpcUnpause(g) \/ RpcRemove(g) \/ RpcAdd(g) \/ ChangeOptionStore(g)
    PROVE  LoopInv'
<1>1. /\ outbox \subseteq Command
      /\ changing \subseteq [gid : Gids, stage : {"pause", "restart"}]
      /\ max_concurrent \in Limits \cup {InitialMax} /\ ManInv
      /\ group[g] \in GroupRecord
  BY DEF LoopInv, ClientTyped, LimitTyped, ManInv, ManTypeOK
<1>2. ops' \in Nat
  BY ClientCalls DEF RpcPause, RpcUnpause, RpcRemove, RpcAdd, ChangeOptionStore
<1>3. /\ GidCommand("Pause", g) \in Command /\ GidCommand("Unpause", g) \in Command
      /\ GidCommand("Remove", g) \in Command /\ GidCommand("AddDownload", g) \in Command
  BY ClientCommands DEF GidOps
<1>4. CASE RpcPause(g) \/ RpcUnpause(g)
  <2>1. PauseGroup(g) \/ UnpauseGroup(g)
    BY <1>4 DEF RpcPause, RpcUnpause
  <2>2. ManInv' /\ LimitTyped'
    BY <1>1, <2>1, PausesKeep DEF LimitTyped, PauseGroup, UnpauseGroup
  <2>3. outbox' \subseteq Command /\ changing' = changing /\ KeepLoop
    BY <1>1, <1>3, <1>4 DEF RpcPause, RpcUnpause, Sends
  <2> QED BY <1>1, <1>2, <2>2, <2>3, ClientKeeps
<1>5. CASE RpcRemove(g)
  <2>1. RemoveGroup(g)
    BY <1>5 DEF RpcRemove
  <2>2. ManInv' /\ LimitTyped'
    BY <1>1, <2>1, RemoveKeeps DEF LimitTyped, RemoveGroup
  <2>3. outbox' \subseteq Command /\ changing' = changing /\ KeepLoop
    BY <1>1, <1>3, <1>5 DEF RpcRemove
  <2> QED BY <1>1, <1>2, <2>2, <2>3, ClientKeeps
<1>6. CASE RpcAdd(g)
  <2>1. ~Live(g) /\ AddGroup(g)
    BY <1>6 DEF RpcAdd
  <2>2. ManInv' /\ LimitTyped'
    BY <1>1, <2>1, AddKeeps DEF LimitTyped, AddGroup
  <2>3. outbox' \subseteq Command /\ changing' = changing /\ KeepLoop
    BY <1>1, <1>3, <1>6 DEF RpcAdd, Sends
  <2> QED BY <1>1, <1>2, <2>2, <2>3, ClientKeeps
<1>7. CASE ChangeOptionStore(g)
  <2>1. SetPendingOptions(group[g]) \in GroupRecord
    BY <1>1, GroupTransitions
  <2>2. ManInv' /\ LimitTyped'
    BY <1>7, <2>1, SetGroupKeeps DEF ChangeOptionStore
  <2>3. [gid |-> g, stage |-> "pause"] \in [gid : Gids, stage : {"pause", "restart"}]
    OBVIOUS
  <2>4. /\ outbox' = outbox /\ KeepLoop
        /\ changing' \subseteq [gid : Gids, stage : {"pause", "restart"}]
    BY <1>1, <1>7, <2>3 DEF ChangeOptionStore
  <2> QED BY <1>1, <1>2, <2>2, <2>4, ClientKeeps
<1> QED BY <1>4, <1>5, <1>6, <1>7

\* Calls on all downloads, and the handles that only send, keep the invariant.
LEMMA GlobalCallsKeep ==
    ASSUME LoopInv, RpcPauseAll \/ RpcUnpauseAll \/ HandleSend \/ RpcForceShutdown
    PROVE  LoopInv'
<1>1. /\ outbox \subseteq Command
      /\ changing \subseteq [gid : Gids, stage : {"pause", "restart"}]
      /\ max_concurrent \in Limits \cup {InitialMax} /\ ManInv
      /\ group \in [Gids -> GroupRecord] /\ groups \subseteq Gids
  BY DEF LoopInv, ClientTyped, LimitTyped, ManInv, ManTypeOK
<1>2. ops' \in Nat
  BY ClientCalls DEF RpcPauseAll, RpcUnpauseAll, HandleSend, RpcForceShutdown
<1>3. CASE RpcPauseAll \/ RpcUnpauseAll
  <2>1. PauseAll \/ UnpauseAll
    BY <1>3 DEF RpcPauseAll, RpcUnpauseAll
  <2>2. ManInv' /\ LimitTyped'
    BY <1>1, <2>1, PausesKeep DEF LimitTyped, PauseAll, UnpauseAll
  <2>3. outbox' \subseteq Command /\ changing' = changing /\ KeepLoop
    BY <1>1, <1>3, ClientCommands DEF RpcPauseAll, RpcUnpauseAll, Sends
  <2> QED BY <1>1, <1>2, <2>2, <2>3, ClientKeeps
<1>4. CASE HandleSend
  <2>1. ManInv' /\ LimitTyped' /\ KeepLoop /\ changing' = changing
    BY <1>4, KeepManKeeps DEF HandleSend
  <2>2. PICK c \in Command : outbox' = outbox \cup {c}
    BY <1>1, <1>4, ClientCommands DEF HandleSend, Sends, GidOps
  <2> QED BY <1>1, <1>2, <2>1, <2>2, ClientKeeps
<1>5. CASE RpcForceShutdown
  <2>1. ForceRemoveReserved(group)
    BY <1>5 DEF RpcForceShutdown
  <2>2. ManInv' /\ LimitTyped'
    BY <1>1, <2>1, ForceRemoveKeeps DEF LimitTyped, ForceRemoveReserved
  <2>3. outbox' \subseteq Command /\ changing' = changing /\ KeepLoop
    BY <1>1, <1>5, ClientCommands DEF RpcForceShutdown, Sends
  <2> QED BY <1>1, <1>2, <2>2, <2>3, ClientKeeps
<1> QED BY <1>3, <1>4, <1>5

\* The later sections of change_group_options keep the invariant.
LEMMA OptionStepsKeep ==
    ASSUME LoopInv, NEW c \in changing, ChangeOptionPause(c) \/ ChangeOptionRestart(c)
    PROVE  LoopInv'
<1> DEFINE Change == [gid : Gids, stage : {"pause", "restart"}]
<1>1. /\ outbox \subseteq Command /\ changing \subseteq Change /\ ops \in Nat
      /\ c.gid \in Gids /\ [c EXCEPT !.stage = "restart"] \in Change
      /\ max_concurrent \in Limits \cup {InitialMax} /\ ManInv
      /\ group[c.gid] \in GroupRecord
  BY DEF LoopInv, ClientTyped, LimitTyped, ManInv, ManTypeOK
<1>2. /\ KeepLoop /\ outbox' = outbox /\ ops' = ops /\ changing' \subseteq Change
  BY <1>1 DEF ChangeOptionPause, ChangeOptionRestart
<1>3. ManInv' /\ LimitTyped'
  <2>1. CASE KeepMan
    BY <2>1, KeepManKeeps
  <2>2. CASE PauseGroup(c.gid)
    BY <1>1, <2>2, PausesKeep DEF LimitTyped, PauseGroup
  <2>3. CASE SetGroup(c.gid, RequestRestart(group[c.gid]))
    <3>1. RequestRestart(group[c.gid]) \in GroupRecord
      BY <1>1, GroupTransitions
    <3> QED BY <1>1, <2>3, <3>1, SetGroupKeeps
  <2> QED BY <2>1, <2>2, <2>3 DEF ChangeOptionPause, ChangeOptionRestart
<1> QED BY <1>1, <1>2, <1>3, ClientKeeps

\* A command enters one of the two queues.
LEMMA SendStep ==
    ASSUME LoopInv, NEW c \in outbox, Send(c)
    PROVE  LoopInv'
<1>1. c \in Command /\ control \in Seq(Command) /\ normal \in Seq(Command)
  BY DEF LoopInv, ClientTyped
<1>2. Append(control, c) \in Seq(Command) /\ Append(normal, c) \in Seq(Command)
  BY <1>1, AppendProperties
<1>3. control' \in {control, Append(control, c)} /\ normal' \in {normal, Append(normal, c)}
  BY DEF Send
<1>4. ClientTyped'
  BY <1>1, <1>2, <1>3 DEF LoopInv, ClientTyped, Send
<1>5. ManInv' /\ LimitTyped'
  BY KeepManKeeps DEF Send
<1>6. EngineTyped' /\ WorkTyped' /\ PassTyped'
  BY KeepEngineTyped, KeepWorkTyped, KeepPassTyped DEF LoopInv, Send
<1> QED BY <1>4, <1>5, <1>6 DEF LoopInv

-----------------------------------------------------------------------------
\* Every step of the system keeps the invariant.
LEMMA LoopStep == LoopInv /\ [Next]_vars => LoopInv'
<1> SUFFICES ASSUME LoopInv, [Next]_vars PROVE LoopInv'
  OBVIOUS
<1>1. CASE Engine
  <2>1. CASE \/ CommandsDone \/ HaltingDone \/ FillDone \/ SpawnDone \/ CompletionsDone
             \/ DemoteDone \/ ExitCheck \/ Exit \/ Wake
    BY <2>1, PhaseSteps
  <2>2. CASE ProcessCommand
    BY <2>2, CommandStep
  <2>3. CASE Fill
    BY <2>3, FillStep
  <2>4. CASE Spawn
    BY <2>4, SpawnStep
  <2>5. CASE ProcessCompletion
    BY <2>5, CompletionStep
  <2>6. CASE Requeue
    BY <2>6, RequeueStep
  <2>7. CASE Find
    BY <2>7, FindStep
  <2>8. CASE \E r \in running : HaltEntry(r)
    BY <2>8, HaltEntryStep
  <2>9. CASE \E d \in demoting : Demote(d)
    BY <2>9, DemoteStep
  <2>10. CASE \E usable \in BOOLEAN : Resolve(usable)
    BY <2>10, ResolveStep
  <2> QED BY <1>1, <2>1, <2>2, <2>3, <2>4, <2>5, <2>6, <2>7, <2>8, <2>9, <2>10 DEF Engine
<1>2. CASE \E r \in running : WakeOnDeadline(r)
  BY <1>2, DeadlineStep
<1>3. CASE WakeOnShutdown
  BY <1>3, ShutdownSignalStep
<1>4. CASE \E t \in tasks : TaskStep(t)
  BY <1>4, TaskStepKeeps
<1>5. CASE ClientOp
  BY <1>5, GidCallsKeep, GlobalCallsKeep DEF ClientOp
<1>6. CASE ClientStep
  BY <1>6, OptionStepsKeep, SendStep DEF ClientStep
<1>7. CASE UNCHANGED vars
  <2>1. UNCHANGED manVars /\ UNCHANGED engineVars /\ UNCHANGED workVars
        /\ UNCHANGED passVars /\ UNCHANGED clientVars
    BY <1>7 DEF vars
  <2> QED BY <2>1, KeepManKeeps, KeepEngineTyped, KeepWorkTyped, KeepPassTyped, KeepClientTyped
          DEF LoopInv, KeepMan
<1> QED BY <1>1, <1>2, <1>3, <1>4, <1>5, <1>6, <1>7 DEF Next

\* The state of the engine, its tasks and its clients stays in its types, for
\* any downloads, limits and client operations.
THEOREM EngineTypeCorrect == Spec => []TypeOK
<1>1. Spec => []LoopInv
  BY LoopInit, LoopStep, PTL DEF Spec
<1> QED BY <1>1, LoopInvMeaning, PTL

\* However clients, engine and tasks interleave, every live download is in the
\* active map or in the reserved queue, never in both, and queued once.
THEOREM EveryGroupHasOneHome == Spec => []OneHome
<1>1. Spec => []LoopInv
  BY LoopInit, LoopStep, PTL DEF Spec
<1> QED BY <1>1, LoopInvMeaning, PTL

-----------------------------------------------------------------------------
(***************************************************************************)
(* What the engine counts: every spawned command is counted once until its *)
(* completion is processed, every task is known to the engine and belongs  *)
(* to an active group, and the engine leaves nothing of that behind.       *)
(***************************************************************************)
\* Who a command belongs to: its task, the engine's entry and the completions
\* that are sent for it agree, and a task that lives has sent none.
Generations ==
    /\ \A t \in tasks :
          /\ t.generation < next_generation /\ t.generation \notin completed
          /\ \E r \in running : r.generation = t.generation
          /\ \A u \in tasks : u.generation = t.generation => u = t
          /\ \A r \in running : r.generation = t.generation => r.gid = t.gid
    /\ \A k \in 1..Len(completions) :
          /\ completions[k].generation < next_generation
          /\ \A t \in tasks : t.generation # completions[k].generation
          /\ \A r \in running : r.generation = completions[k].generation => r.gid = completions[k].gid
          /\ \A j \in 1..Len(completions) :
                completions[j].generation = completions[k].generation => completions[j].gid = completions[k].gid
    /\ \A r \in running :
          /\ r.generation < next_generation
          /\ r.generation \in Outstanding(r.gid)
    /\ \A x \in completed : x < next_generation
\* Commands are counted, and only active groups have any.
Counted ==
    \A g \in Gids : /\ group[g].commands = Cardinality(Outstanding(g))
                    /\ Outstanding(g) # {} => g \in active
\* A promoted group waits for its first command.
Awaiting ==
    /\ promoted # <<>> => phase \in {"fill", "spawn"}
    /\ OnceIn(promoted)
    /\ \A k \in 1..Len(promoted) : promoted[k] \in active /\ Outstanding(promoted[k]) = {}
Demotable ==
    /\ demoting # {} => phase \in {"demote", "last_demote"}
    /\ \A x \in demoting : Outstanding(x.gid) = {}
\* Before the first pass has spawned anything there is nothing to wait for.
FirstPass ==
    first_pass =>
        /\ phase \in {"commands", "halting", "fill", "spawn", "completions", "requeue", "find", "demote"}
        /\ phase \in {"commands", "halting"} => tasks = {} /\ completions = <<>>
\* Once the completions of a pass are processed, whatever comes next belongs to
\* a command the engine still knows.
Expected ==
    phase \notin {"commands", "halting", "completions", "woken"} =>
        \A k \in 1..Len(completions) :
            \/ completions[k].generation \in completed
            \/ \E r \in running : r.generation = completions[k].generation
LastPhases == {"last_requeue", "last_find", "last_demote", "exited"}
\* The engine leaves when nothing runs.
LastPass ==
    /\ phase \in LastPhases => running = {}
    /\ phase \in {"last_demote", "exited"} =>
          \A g \in active : IsTerminal(group[g]) => \E x \in demoting : x.gid = g

AccountInv == Generations /\ Counted /\ Awaiting /\ Demotable /\ FirstPass /\ Expected /\ LastPass

-----------------------------------------------------------------------------
(***************************************************************************)
(* The commands that are outstanding.                                      *)
(***************************************************************************)
\* A task of the group or a completion for it, not accounted for yet.
LEMMA OutstandingIs ==
    ASSUME NEW g, NEW x
    PROVE  /\ x \in Outstanding(g) <=>
                /\ x \notin completed
                /\ \/ \E t \in tasks : t.gid = g /\ t.generation = x
                   \/ \E k \in 1..Len(completions) :
                         completions[k].gid = g /\ completions[k].generation = x
           /\ x \in Outstanding(g)' <=>
                /\ x \notin completed'
                /\ \/ \E t \in tasks' : t.gid = g /\ t.generation = x
                   \/ \E k \in 1..Len(completions') :
                         completions'[k].gid = g /\ completions'[k].generation = x
BY DEF Outstanding

\* Steps that leave the commands, tasks and completions alone.
LEMMA SameWork ==
    ASSUME UNCHANGED workVars
    PROVE  /\ \A g : Outstanding(g)' = Outstanding(g)
           /\ Generations => Generations'
BY DEF workVars, Outstanding, Generations

\* Finitely many commands are outstanding: their generations were given out.
LEMMA OutstandingFinite ==
    ASSUME WorkTyped, Generations, NEW g
    PROVE  /\ IsFiniteSet(Outstanding(g)) /\ Cardinality(Outstanding(g)) \in Nat
           /\ Cardinality(Outstanding(g)) = 0 <=> Outstanding(g) = {}
<1>0. next_generation \in Nat
  BY DEF WorkTyped
<1>1. \A k \in 1..Len(completions) : completions[k] \in Completion
  BY ElementOfSeq DEF WorkTyped
<1>2. Outstanding(g) \subseteq 0..next_generation
  <2>1. ASSUME NEW x \in Outstanding(g) PROVE x \in Nat /\ x < next_generation
    <3>1. CASE \E t \in tasks : t.gid = g /\ t.generation = x
      BY <3>1 DEF Generations, WorkTyped, Task
    <3>2. CASE \E k \in 1..Len(completions) : completions[k].gid = g /\ completions[k].generation = x
      BY <1>1, <3>2 DEF Generations, Completion
    <3> QED BY <3>1, <3>2, OutstandingIs
  <2>2. \A x \in Outstanding(g) : x \in 0..next_generation
    <3>1. SUFFICES ASSUME NEW x \in Outstanding(g) PROVE x \in 0..next_generation
      OBVIOUS
    <3>2. x \in Nat /\ x < next_generation
      BY <2>1
    <3> QED BY <1>0, <3>2
  <2> QED BY <2>2, Zenon
<1>3. IsFiniteSet(Outstanding(g))
  <2>1. IsFiniteSet(0..next_generation)
    BY <1>0, FS_Interval
  <2> QED BY <1>2, <2>1, FS_Subset
<1> QED BY <1>3, FS_CardinalityType, FS_EmptySet

-----------------------------------------------------------------------------
(***************************************************************************)
(* Operations that neither count commands nor end or move a download.      *)
(***************************************************************************)
Mild ==
    /\ active' = active
    /\ \A g \in Gids : group'[g].commands = group[g].commands
    /\ \A g \in active : IsTerminal(group'[g]) => IsTerminal(group[g])

\* Gentle changes of the records of active groups are mild.
LEMMA MildRecords ==
    ASSUME active' = active, active \subseteq Gids,
           \A g \in Gids : group'[g].commands = group[g].commands,
           \A g \in active : Gentle(group[g], group'[g])
    PROVE  Mild
BY DEF Mild, Gentle

\* Pausing, resuming, halting and a new limit only mark groups.
LEMMA MildApplies ==
    ASSUME ManInv, NEW g,
           \/ PauseGroup(g) \/ UnpauseGroup(g) \/ PauseAll \/ UnpauseAll \/ TimeoutGroup(g)
           \/ \E reason \in HaltReasons : HaltAll(reason)
           \/ \E max \in Nat : SetMaxConcurrent(max)
    PROVE  Mild
<1>1. group \in [Gids -> GroupRecord] /\ active \subseteq Gids
  BY DEF ManInv, ManTypeOK
<1>2. \A h \in Gids : /\ Gentle(group[h], group[h]) /\ Gentle(group[h], Pause(group[h]))
                      /\ Gentle(group[h], Resume(group[h])) /\ Gentle(group[h], TimeOut(group[h]))
                      /\ Gentle(group[h], RequestRestart(Pause(group[h])))
                      /\ \A reason : Gentle(group[h], RequestHalt(group[h], reason))
  BY <1>1, GentleTransitions
<1>3. active' = active
  BY DEF PauseGroup, UnpauseGroup, PauseAll, UnpauseAll, TimeoutGroup, HaltAll, SetMaxConcurrent
<1>4. \A h \in Gids : Gentle(group[h], group'[h])
  <2>1. CASE PauseGroup(g) \/ UnpauseGroup(g) \/ PauseAll \/ UnpauseAll
    BY <1>1, <1>2, <2>1 DEF PauseGroup, UnpauseGroup, PauseAll, UnpauseAll, Apply
  <2>2. CASE TimeoutGroup(g)
    BY <1>1, <1>2, <2>2 DEF TimeoutGroup
  <2>3. CASE \E reason \in HaltReasons : HaltAll(reason)
    BY <1>1, <1>2, <2>3 DEF HaltAll, Apply
  <2>4. CASE \E max \in Nat : SetMaxConcurrent(max)
    <3>1. PICK victims : group' = [h \in Gids |-> IF h \in victims THEN RequestRestart(Pause(group[h])) ELSE group[h]]
      BY <2>4 DEF SetMaxConcurrent, Apply
    <3> QED BY <1>1, <1>2, <3>1
  <2> QED BY <2>1, <2>2, <2>3, <2>4
<1> QED BY <1>1, <1>3, <1>4 DEF Mild, Gentle

\* What enters or leaves the reserved queue is not active.
LEMMA MildAdd ==
    ASSUME ManInv, NEW g \in Gids, ~Live(g), AddGroup(g) PROVE Mild
<1>1. group \in [Gids -> GroupRecord] /\ active \subseteq Gids /\ g \notin active /\ active' = active
  BY DEF ManInv, ManTypeOK, OneHome, Live, AddGroup
<1>2. \A h \in Gids : Gentle(group[h], group[h]) /\ Gentle(group[h], Pause(group[h]))
  BY <1>1, GentleTransitions
<1>3. \A h \in Gids : Gentle(group[h], group'[h])
  BY <1>1, <1>2 DEF AddGroup
<1> QED BY <1>1, <1>3 DEF Mild, Gentle

\* An active group is only asked to halt; a reserved one was not active.
LEMMA MildRemove ==
    ASSUME ManInv, NEW g \in Gids, RemoveGroup(g) PROVE Mild
<1>1. group \in [Gids -> GroupRecord] /\ active \subseteq Gids /\ active' = active
  BY DEF ManInv, ManTypeOK, RemoveGroup
<1>2. \A h \in Gids : /\ Gentle(group[h], group[h])
                      /\ Gentle(group[h], RequestHalt(group[h], "UserRequest"))
                      /\ MarkRemoved(group[h]).commands = group[h].commands
  BY <1>1, GentleTransitions
<1>3. CASE g \in active
  <2>1. group' = [group EXCEPT ![g] = RequestHalt(@, "UserRequest")]
    BY <1>3 DEF RemoveGroup
  <2>2. \A h \in Gids : Gentle(group[h], group'[h])
    BY <1>1, <1>2, <2>1
  <2> QED BY <1>1, <2>2 DEF Mild, Gentle
<1>4. CASE g \notin active
  <2>1. group' = [group EXCEPT ![g] = MarkRemoved(@)]
    BY <1>4 DEF RemoveGroup
  <2>2. \A h \in Gids : /\ h # g => group'[h] = group[h]
                        /\ group'[h].commands = group[h].commands
    BY <1>1, <1>2, <2>1
  <2> QED BY <1>1, <1>4, <2>2 DEF Mild
<1> QED BY <1>3, <1>4

\* What a forced removal ends is reserved, so it is not active.
LEMMA MildForceRemove ==
    ASSUME ManInv, NEW current \in [Gids -> GroupRecord], ForceRemoveReserved(current),
           \A g \in Gids : Gentle(group[g], current[g])
    PROVE  Mild
<1>1. group \in [Gids -> GroupRecord] /\ active \subseteq Gids /\ active' = active
      /\ active \cap ReservedIds = {}
  BY DEF ManInv, ManTypeOK, OneHome, ForceRemoveReserved
<1>2. \A g \in Gids : MarkRemoved(current[g]).commands = current[g].commands
  BY GentleTransitions
<1>3. group' = [g \in Gids |-> IF g \in ReservedIds THEN MarkRemoved(current[g]) ELSE current[g]]
  BY DEF ForceRemoveReserved
<1>4. \A g \in Gids : group'[g].commands = group[g].commands
  BY <1>2, <1>3 DEF Gentle
<1>5. \A g \in active : group'[g] = current[g]
  BY <1>1, <1>3
<1> QED BY <1>1, <1>4, <1>5 DEF Mild, Gentle

\* A payload that is released or failed is reserved.
LEMMA MildResolve ==
    ASSUME ManInv, NEW m, NEW usable, ResolveDependencies(m, usable) PROVE Mild
<1>1. group \in [Gids -> GroupRecord] /\ active \subseteq Gids /\ reserved \in Seq(Gids)
      /\ active \cap ReservedIds = {}
  BY DEF ManInv, ManTypeOK, OneHome
<1>2. \A g \in Gids : /\ MarkError(group[g]).commands = group[g].commands
                      /\ [group[g] EXCEPT !.resolved = TRUE].commands = group[g].commands
  BY <1>1, GentleTransitions
<1>3. CASE UNCHANGED manVars
  BY <1>1, <1>3 DEF Mild, manVars
<1>4. CASE ~UNCHANGED manVars
  <2>1. PICK k \in 1..Len(reserved) :
          /\ active' = active
          /\ \/ group' = [group EXCEPT ![reserved[k]].resolved = TRUE]
             \/ group' = [group EXCEPT ![reserved[k]] = MarkError(@)]
    BY <1>4 DEF ResolveDependencies
  <2>2. reserved[k] \in Gids /\ reserved[k] \notin active
    BY <1>1, ElementOfSeq DEF ReservedIds, ToSet
  <2>3. \A h \in Gids : h # reserved[k] => group'[h] = group[h]
    BY <1>1, <2>1, <2>2
  <2>4. group'[reserved[k]].commands = group[reserved[k]].commands
    BY <1>1, <1>2, <2>1, <2>2
  <2> QED BY <1>1, <2>1, <2>2, <2>3, <2>4 DEF Mild
<1> QED BY <1>3, <1>4

\* Leaving the manager alone is mild.
LEMMA MildNothing == ManInv /\ KeepMan => Mild
BY DEF ManInv, ManTypeOK, KeepMan, manVars, Mild

\* Every command of a client, refused or not.
LEMMA MildCommand ==
    ASSUME ManInv, NEW c \in Command, ApplyCommand(c) PROVE Mild
<1>1. CASE c.op = "AddDownload"
  <2>1. c.gid \in Gids
    BY <1>1 DEF Command, GidOps
  <2>2. ~KeepMan => CanAdd(c.gid) /\ AddGroup(c.gid)
    BY <1>1 DEF ApplyCommand, IfAllowed
  <2> QED BY <2>1, <2>2, MildAdd, MildNothing DEF CanAdd
<1>2. CASE c.op = "Remove"
  <2>1. c.gid \in Gids
    BY <1>2 DEF Command, GidOps
  <2>2. ~KeepMan => RemoveGroup(c.gid)
    BY <1>2 DEF ApplyCommand, IfAllowed
  <2> QED BY <2>1, <2>2, MildRemove, MildNothing
<1>3. CASE c.op = "Pause"
  <2>1. ~KeepMan => PauseGroup(c.gid)
    BY <1>3 DEF ApplyCommand, IfAllowed
  <2> QED BY <2>1, MildApplies, MildNothing
<1>4. CASE c.op = "Unpause"
  <2>1. ~KeepMan => UnpauseGroup(c.gid)
    BY <1>4 DEF ApplyCommand, IfAllowed
  <2> QED BY <2>1, MildApplies, MildNothing
<1>5. CASE c.op = "PauseAll" \/ c.op = "UnpauseAll"
  <2>1. PauseAll \/ UnpauseAll
    BY <1>5 DEF ApplyCommand
  <2> QED BY <2>1, MildApplies
<1>6. CASE c.op = "HaltAll"
  <2>1. HaltAll("ShutdownSignal") /\ "ShutdownSignal" \in HaltReasons
    BY <1>6 DEF ApplyCommand, HaltReasons
  <2> QED BY <2>1, MildApplies
<1>7. CASE c.op = "SetMaxConcurrent"
  <2>1. SetMaxConcurrent(c.max)
    BY <1>7 DEF ApplyCommand
  <2>2. c.max \in Nat
    BY <1>7, LoopAssumption DEF Command, GidOps
  <2> QED BY <2>1, <2>2, MildApplies
<1>8. CASE c.op = "ForceHaltAll"
  <2> DEFINE current == [g \in Gids |-> IF g \in groups THEN RequestHalt(group[g], "ShutdownSignal") ELSE group[g]]
  <2>1. ForceRemoveReserved(current)
    BY <1>8 DEF ApplyCommand, Apply
  <2>2. current \in [Gids -> GroupRecord]
    BY GroupTransitions DEF ManInv, ManTypeOK, HaltReasons
  <2>3. \A g \in Gids : Gentle(group[g], current[g])
    BY GentleTransitions DEF ManInv, ManTypeOK
  <2> HIDE DEF current
  <2> QED BY <2>1, <2>2, <2>3, MildForceRemove
<1> QED BY <1>1, <1>2, <1>3, <1>4, <1>5, <1>6, <1>7, <1>8 DEF Command, GidOps

-----------------------------------------------------------------------------
(***************************************************************************)
(* The account is kept.                                                    *)
(***************************************************************************)
\* The parts of the account that only work changes.
LEMMA KeptWork ==
    ASSUME LoopInv, AccountInv, Mild, UNCHANGED <<workVars, promoted, demoting>>
    PROVE  /\ Generations' /\ Counted'
           /\ (promoted # <<>> => phase' \in {"fill", "spawn"}) => Awaiting'
           /\ (demoting # {} => phase' \in {"demote", "last_demote"}) => Demotable'
<1>1. /\ \A g : Outstanding(g)' = Outstanding(g)
      /\ Generations'
  BY SameWork DEF AccountInv
<1>2. Counted'
  BY <1>1 DEF AccountInv, Counted, Mild
<1>3. promoted' = promoted /\ demoting' = demoting /\ active' = active
  BY DEF Mild
<1>4. (promoted # <<>> => phase' \in {"fill", "spawn"}) => Awaiting'
  BY <1>1, <1>3 DEF AccountInv, Awaiting, OnceIn
<1>5. (demoting # {} => phase' \in {"demote", "last_demote"}) => Demotable'
  BY <1>1, <1>3 DEF AccountInv, Demotable
<1> QED BY <1>1, <1>2, <1>4, <1>5

\* What clients and commands do to the manager while the engine is where it is.
LEMMA MildStep ==
    ASSUME LoopInv, AccountInv, Mild, UNCHANGED <<workVars, promoted, demoting>>,
           \/ UNCHANGED <<phase, first_pass>>
           \/ phase = "commands" /\ phase' \in {"commands", "halting"} /\ UNCHANGED first_pass
           \/ phase = "wait" /\ phase' = "commands" /\ UNCHANGED first_pass
    PROVE  AccountInv'
<1>1. Generations' /\ Counted'
  BY KeptWork
<1>2. Awaiting' /\ Demotable'
  BY KeptWork DEF AccountInv, Awaiting, Demotable
<1>3. UNCHANGED <<running, completed, completions, tasks>>
  BY DEF workVars
<1>4. FirstPass'
  BY <1>3 DEF AccountInv, FirstPass
<1>5. Expected'
  BY <1>3 DEF AccountInv, Expected
<1>6. LastPass'
  <2>1. phase' \in LastPhases => phase' = phase
    BY DEF LastPhases
  <2>2. demoting' = demoting /\ active' = active
    BY DEF Mild
  <2>3. (phase \in LastPhases => running = {}) => (phase' \in LastPhases => running' = {})
    BY <1>3, <2>1
  <2>4. phase' \in {"last_demote", "exited"} =>
          \A g \in active' : IsTerminal(group'[g]) => \E x \in demoting' : x.gid = g
    BY <2>1, <2>2 DEF AccountInv, LastPass, Mild, LastPhases
  <2> QED BY <2>3, <2>4 DEF AccountInv, LastPass
<1> QED BY <1>1, <1>2, <1>4, <1>5, <1>6 DEF AccountInv

\* The phases of the pass: what was due in one is done when it is left.
LEMMA PhaseAccounts ==
    ASSUME LoopInv, AccountInv,
           \/ CommandsDone \/ HaltingDone \/ FillDone \/ SpawnDone \/ CompletionsDone
           \/ DemoteDone \/ ExitCheck \/ Exit \/ Wake
    PROVE  AccountInv'
<1>1. KeepMan /\ UNCHANGED <<workVars, passVars>>
  BY DEF CommandsDone, HaltingDone, FillDone, SpawnDone, CompletionsDone, DemoteDone, ExitCheck, Exit, Wake
<1>2. Mild
  BY <1>1, MildNothing DEF LoopInv
<1>3. UNCHANGED <<running, completed, completions, tasks, promoted, demoting, group, active>>
  BY <1>1 DEF workVars, passVars, KeepMan, manVars
<1>4. Generations' /\ Counted'
  BY <1>1, <1>2, <1>3, KeptWork
<1>5. promoted = <<>> \/ phase \in {"fill", "spawn"}
  BY DEF AccountInv, Awaiting
<1>6. demoting = {} \/ phase \in {"demote", "last_demote"}
  BY DEF AccountInv, Demotable
<1>7. promoted # <<>> => phase' \in {"fill", "spawn"}
  BY <1>5 DEF CommandsDone, HaltingDone, FillDone, SpawnDone, CompletionsDone, DemoteDone, ExitCheck,
              Exit, Wake, GoTo
<1>8. demoting # {} => phase' \in {"demote", "last_demote"}
  BY <1>6 DEF CommandsDone, HaltingDone, FillDone, SpawnDone, CompletionsDone, DemoteDone, ExitCheck,
              Exit, Wake, GoTo
<1>9. Awaiting' /\ Demotable'
  BY <1>1, <1>2, <1>3, <1>7, <1>8, KeptWork
<1>10. FirstPass'
  BY <1>3 DEF AccountInv, FirstPass, CommandsDone, HaltingDone, FillDone, SpawnDone, CompletionsDone,
              DemoteDone, ExitCheck, Exit, Wake, GoTo, KeepFlags
<1>11. Expected'
  <2>1. CASE CommandsDone
    BY <1>3, <2>1 DEF AccountInv, FirstPass, Expected, CommandsDone, GoTo
  <2>2. CASE CompletionsDone
    BY <1>3, <2>2 DEF Expected, CompletionsDone, GoTo
  <2>3. CASE \/ HaltingDone \/ FillDone \/ SpawnDone \/ DemoteDone \/ ExitCheck \/ Exit \/ Wake
    BY <1>3, <2>3 DEF AccountInv, Expected, HaltingDone, FillDone, SpawnDone, DemoteDone, ExitCheck,
                      Exit, Wake, GoTo
  <2> QED BY <2>1, <2>2, <2>3
<1>12. LastPass'
  <2>1. CASE ExitCheck
    <3>1. phase' = "last_requeue" => running = {}
      BY <2>1 DEF ExitCheck, GoTo, ForceDone, GracefulDone, AllDone
    <3>2. phase' \in {"last_requeue", "wait"}
      BY <2>1 DEF ExitCheck, GoTo
    <3> QED BY <1>3, <3>1, <3>2 DEF LastPass, LastPhases
  <2>2. CASE Exit
    BY <1>3, <2>2 DEF AccountInv, LastPass, LastPhases, Exit, GoTo
  <2>3. CASE CommandsDone \/ HaltingDone \/ FillDone \/ SpawnDone \/ CompletionsDone \/ DemoteDone \/ Wake
    BY <2>3 DEF LastPass, LastPhases, CommandsDone, HaltingDone, FillDone, SpawnDone, CompletionsDone,
                DemoteDone, Wake, GoTo
  <2> QED BY <2>1, <2>2, <2>3
<1> QED BY <1>4, <1>9, <1>10, <1>11, <1>12 DEF AccountInv

\* A command of a client that the engine processes.
LEMMA CommandAccounts ==
    ASSUME LoopInv, AccountInv, ProcessCommand PROVE AccountInv'
<1>1. PICK c : /\ TakeCommand(c) /\ ApplyCommand(c)
               /\ GoTo(IF c.op = "ForceHaltAll" THEN "halting" ELSE "commands")
  BY DEF ProcessCommand
<1>2. c \in Command
  BY <1>1, TakenCommand DEF LoopInv
<1>3. Mild
  BY <1>1, <1>2, MildCommand DEF LoopInv
<1>4. phase = "commands" /\ phase' \in {"commands", "halting"} /\ UNCHANGED first_pass
      /\ UNCHANGED <<workVars, promoted, demoting>>
  BY <1>1 DEF ProcessCommand, GoTo, passVars
<1> QED BY <1>3, <1>4, MildStep

\* A command whose task has gone is still outstanding: its completion waits.
LEMMA Replaced ==
    ASSUME LoopInv, AccountInv, NEW h, NEW y \in Outstanding(h), NEW c,
           c.gid = h, c.generation = y,
           tasks' = {t \in tasks : t.generation # y},
           completions' = Append(completions, c),
           running' \subseteq running, \A r \in running \ running' : r.generation = y,
           UNCHANGED <<next_generation, completed>>
    PROVE  Generations' /\ \A g : Outstanding(g)' = Outstanding(g)
<1>1. /\ Len(completions) \in Nat /\ Len(completions') = Len(completions) + 1
      /\ completions'[Len(completions) + 1] = c
      /\ \A k \in 1..Len(completions) : completions'[k] = completions[k]
  BY DEF LoopInv, WorkTyped
<1>2. \A k \in 1..Len(completions') : k \in 1..Len(completions) \/ completions'[k] = c
  BY <1>1
<1>3. 1..Len(completions) \subseteq 1..Len(completions') /\ Len(completions) + 1 \in 1..Len(completions')
  BY <1>1
<1>4. /\ \A t \in tasks : t.generation = y => t.gid = h
      /\ \A k \in 1..Len(completions) : completions[k].generation = y => completions[k].gid = h
      /\ y < next_generation /\ y \notin completed
  BY OutstandingIs DEF AccountInv, Generations
<1>5. ASSUME NEW g, NEW x PROVE x \in Outstanding(g)' <=> x \in Outstanding(g)
  <2>1. CASE x = y
    <3>1. x \in Outstanding(g) => g = h
      BY <1>4, <2>1, OutstandingIs
    <3>2. x \in Outstanding(h)'
      BY <1>1, <1>3, <1>4, <2>1, OutstandingIs
    <3>3. x \in Outstanding(g)' => g = h
      <4>1. SUFFICES ASSUME x \in Outstanding(g)' PROVE g = h
        OBVIOUS
      <4>2. \A t \in tasks' : t.generation # x
        BY <2>1
      <4>3. PICK k \in 1..Len(completions') : completions'[k].gid = g /\ completions'[k].generation = x
        BY <4>1, <4>2, OutstandingIs
      <4> QED BY <1>1, <1>2, <1>4, <2>1, <4>3
    <3> QED BY <2>1, <3>1, <3>2, <3>3
  <2>2. CASE x # y
    <3>1. (\E t \in tasks' : t.gid = g /\ t.generation = x)
            <=> \E t \in tasks : t.gid = g /\ t.generation = x
      BY <2>2
    <3>2. (\E k \in 1..Len(completions') : completions'[k].gid = g /\ completions'[k].generation = x)
            <=> \E k \in 1..Len(completions) : completions[k].gid = g /\ completions[k].generation = x
      BY <1>1, <1>2, <1>3, <2>2
    <3> QED BY <3>1, <3>2, OutstandingIs
  <2> QED BY <2>1, <2>2
<1>6. \A g : Outstanding(g)' = Outstanding(g)
  <2> TAKE g
  <2>1. \A x : x \in Outstanding(g)' <=> x \in Outstanding(g)
    BY <1>5
  <2> QED BY <2>1
<1>7. \A t \in tasks' :
        /\ t.generation < next_generation' /\ t.generation \notin completed'
        /\ \E s \in running' : s.generation = t.generation
        /\ \A u \in tasks' : u.generation = t.generation => u = t
        /\ \A s \in running' : s.generation = t.generation => s.gid = t.gid
  BY DEF AccountInv, Generations
<1>8. \A s \in running : s.generation = y => s.gid = h
  <2>1. SUFFICES ASSUME NEW s \in running, s.generation = y PROVE s.gid = h
    OBVIOUS
  <2>2. s.generation \in Outstanding(s.gid)
    BY DEF AccountInv, Generations
  <2> QED BY <1>4, <2>1, <2>2, OutstandingIs
<1>9. ASSUME NEW k \in 1..Len(completions') PROVE
        /\ completions'[k].generation < next_generation'
        /\ \A t \in tasks' : t.generation # completions'[k].generation
        /\ \A s \in running' : s.generation = completions'[k].generation => s.gid = completions'[k].gid
  BY <1>1, <1>2, <1>4, <1>8 DEF AccountInv, Generations
<1>10. ASSUME NEW k \in 1..Len(completions'), NEW j \in 1..Len(completions'),
              completions'[j].generation = completions'[k].generation
       PROVE  completions'[j].gid = completions'[k].gid
  BY <1>1, <1>2, <1>4, <1>10 DEF AccountInv, Generations
<1>11. \A s \in running' : s.generation < next_generation' /\ s.generation \in Outstanding(s.gid)'
  BY <1>6 DEF AccountInv, Generations
<1>12. \A x \in completed' : x < next_generation'
  BY DEF AccountInv, Generations
<1>13. Generations'
  BY <1>7, <1>9, <1>10, <1>11, <1>12 DEF Generations
<1> QED BY <1>6, <1>13

\* A task that is given up leaves a completion in its place.
LEMMA HaltEntryAccounts ==
    ASSUME LoopInv, AccountInv, NEW r \in running, HaltEntry(r) PROVE AccountInv'
<1> DEFINE c == [gid |-> r.gid, generation |-> r.generation, result |-> "Cancelled"]
<1>1. phase = "halting" /\ running' = running \ {r}
  BY DEF HaltEntry
<1>2. UNCHANGED <<phase, first_pass, promoted, demoting, group, active, next_generation, completed>>
  BY DEF HaltEntry, manVars, engineVars, passVars
<1>3. r.generation \in Outstanding(r.gid)
  BY DEF AccountInv, Generations
<1>4. Generations' /\ \A g : Outstanding(g)' = Outstanding(g)
  <2>1. CASE UNCHANGED <<tasks, completions>> /\ \A t \in tasks : t.generation # r.generation
    <3>1. \A g : Outstanding(g)' = Outstanding(g)
      BY <1>2, <2>1 DEF Outstanding
    <3>2. Generations'
      BY <1>1, <1>2, <2>1, <3>1 DEF AccountInv, Generations
    <3> QED BY <3>1, <3>2
  <2>2. CASE /\ tasks' = {t \in tasks : t.generation # r.generation}
             /\ completions' = Append(completions, c)
    <3>1. c.gid = r.gid /\ c.generation = r.generation
      OBVIOUS
    <3> HIDE DEF c
    <3> QED BY <1>1, <1>2, <1>3, <2>2, <3>1, Replaced
  <2>3. tasks \ {t \in tasks : t.generation = r.generation} = {t \in tasks : t.generation # r.generation}
    OBVIOUS
  <2> QED BY <2>1, <2>2, <2>3 DEF HaltEntry
<1>5. Counted' /\ Awaiting' /\ Demotable'
  BY <1>2, <1>4 DEF AccountInv, Counted, Awaiting, Demotable, OnceIn
<1>6. FirstPass'
  <2>1. first_pass => tasks = {} /\ completions = <<>>
    BY <1>1 DEF AccountInv, FirstPass
  <2>2. first_pass => Outstanding(r.gid) = {}
    BY <2>1 DEF Outstanding
  <2> QED BY <1>2, <1>3, <2>2 DEF FirstPass
<1>7. Expected' /\ LastPass'
  BY <1>1, <1>2 DEF Expected, LastPass, LastPhases
<1> QED BY <1>4, <1>5, <1>6, <1>7 DEF AccountInv

\* A filled group becomes active and waits for its command.
LEMMA FillAccounts ==
    ASSUME LoopInv, AccountInv, Fill PROVE AccountInv'
<1>1. PICK k : FillFromReserver(k) /\ promoted' = Append(promoted, reserved[k])
  BY DEF Fill
<1> DEFINE n == reserved[k]
<1>2. n \in Gids /\ n \notin active
  BY <1>1, ElementOfSeq DEF LoopInv, ManInv, ManTypeOK, OneHome, FillFromReserver, FirstPromotable,
                            ReservedIds, ToSet
<1>3. /\ phase = "fill" /\ UNCHANGED workVars
      /\ UNCHANGED <<phase, first_pass, running, completed, completions, tasks, demoting>>
  BY DEF Fill, engineVars, workVars
<1>4. /\ active' = active \cup {n} /\ group' = [group EXCEPT ![n] = Promoted(@)]
      /\ promoted' = Append(promoted, n)
  BY <1>1 DEF FillFromReserver
<1>5. group \in [Gids -> GroupRecord] /\ promoted \in Seq(Gids)
  BY DEF LoopInv, ManInv, ManTypeOK, PassTyped
<1> HIDE DEF n
<1>6. Generations' /\ \A g : Outstanding(g)' = Outstanding(g)
  BY <1>3, SameWork DEF AccountInv
<1>7. \A g \in Gids : group'[g].commands = group[g].commands
  <2>1. Promoted(group[n]).commands = group[n].commands
    BY <1>2, <1>5, GentleTransitions DEF Gentle
  <2> QED BY <1>2, <1>4, <1>5, <2>1
<1>8. Counted'
  BY <1>4, <1>6, <1>7 DEF AccountInv, Counted
<1>9. Awaiting'
  <2>1. /\ Len(promoted) \in Nat /\ Len(promoted') = Len(promoted) + 1
        /\ promoted'[Len(promoted) + 1] = n
        /\ \A j \in 1..Len(promoted) : promoted'[j] = promoted[j]
    BY <1>4, <1>5
  <2>2. \A j \in 1..Len(promoted') : j \in 1..Len(promoted) \/ j = Len(promoted) + 1
    BY <2>1
  <2>3. \A j \in 1..Len(promoted) : promoted[j] \in active /\ Outstanding(promoted[j]) = {}
    BY DEF AccountInv, Awaiting
  <2>4. Outstanding(n) = {}
    BY <1>2 DEF AccountInv, Counted
  <2>5. OnceIn(promoted')
    BY <1>2, <2>1, <2>2, <2>3 DEF AccountInv, Awaiting, OnceIn
  <2>6. \A j \in 1..Len(promoted') : promoted'[j] \in active' /\ Outstanding(promoted[j])' = {}
    BY <1>4, <1>6, <2>1, <2>2, <2>3, <2>4
  <2> QED BY <1>3, <2>5, <2>6 DEF Awaiting, OnceIn
<1>10. Demotable' /\ FirstPass' /\ Expected' /\ LastPass'
  BY <1>3, <1>6 DEF AccountInv, Demotable, FirstPass, Expected, LastPass, LastPhases
<1> QED BY <1>6, <1>8, <1>9, <1>10 DEF AccountInv

\* The first of the promoted groups and the others.
LEMMA FirstPromoted ==
    ASSUME LoopInv, AccountInv, promoted # <<>>
    PROVE  /\ Head(promoted) \in Gids /\ Head(promoted) \in active /\ Outstanding(Head(promoted)) = {}
           /\ OnceIn(Tail(promoted))
           /\ \A k \in 1..Len(Tail(promoted)) :
                 /\ Tail(promoted)[k] # Head(promoted) /\ Tail(promoted)[k] \in active
                 /\ Outstanding(Tail(promoted)[k]) = {}
<1>1. promoted \in Seq(Gids)
  BY DEF LoopInv, PassTyped
<1>2. /\ Head(promoted) \in Gids /\ Head(promoted) = promoted[1] /\ 1 \in 1..Len(promoted)
      /\ \A k \in 1..Len(Tail(promoted)) : Tail(promoted)[k] = promoted[k + 1] /\ k + 1 \in 1..Len(promoted)
                                           /\ k + 1 # 1
  BY <1>1
<1>3. \A k \in 1..Len(promoted) : promoted[k] \in active /\ Outstanding(promoted[k]) = {}
  BY DEF AccountInv, Awaiting
<1>4. \A j, k \in 1..Len(promoted) : promoted[j] = promoted[k] => j = k
  BY DEF AccountInv, Awaiting, OnceIn
<1>5. ASSUME NEW j \in 1..Len(Tail(promoted)), NEW k \in 1..Len(Tail(promoted)),
             Tail(promoted)[j] = Tail(promoted)[k]
      PROVE  j = k
  <2>1. j + 1 = k + 1
    BY <1>2, <1>4, <1>5
  <2> QED BY <2>1
<1>6. OnceIn(Tail(promoted))
  BY <1>5 DEF OnceIn
<1>7. \A k \in 1..Len(Tail(promoted)) : Tail(promoted)[k] # Head(promoted)
  BY <1>2, <1>4
<1> QED BY <1>2, <1>3, <1>6, <1>7

\* A spawned command is the only one of its group, and counted.
LEMMA SpawnAccounts ==
    ASSUME LoopInv, AccountInv, Spawn PROVE AccountInv'
<1>0. PICK g, n : g = Head(promoted) /\ n = next_generation
  OBVIOUS
<1>1. /\ promoted # <<>> /\ promoted' = Tail(promoted) /\ next_generation' = n + 1
      /\ phase = "spawn" /\ UNCHANGED <<phase, first_pass, completed, completions, demoting>>
  BY <1>0 DEF Spawn, engineVars
<1>2. /\ g \in Gids /\ g \in active /\ Outstanding(g) = {} /\ OnceIn(promoted')
      /\ \A k \in 1..Len(promoted') : /\ promoted'[k] # g /\ promoted'[k] \in active
                                      /\ Outstanding(promoted'[k]) = {}
  BY <1>0, <1>1, FirstPromoted
<1>3. /\ n \in Nat /\ group \in [Gids -> GroupRecord] /\ tasks \subseteq Task
      /\ running \subseteq RunningDownload
      /\ \A k \in 1..Len(completions) : completions[k] \in Completion
  BY <1>0, ElementOfSeq DEF LoopInv, WorkTyped, ManInv, ManTypeOK
<1>4. /\ \A t \in tasks : t.generation \in Nat /\ t.generation < n
      /\ \A r \in running : r.generation \in Nat /\ r.generation < n
      /\ \A k \in 1..Len(completions) : completions[k].generation \in Nat /\ completions[k].generation < n
      /\ \A x \in completed : x \in Nat /\ x < n
  BY <1>0, <1>3 DEF AccountInv, Generations, Task, RunningDownload, Completion, LoopInv, WorkTyped
<1>5. \A x \in Nat : x < n => x < n + 1 /\ x # n
  BY <1>3
<1>6. demoting = {}
  BY <1>1 DEF AccountInv, Demotable
<1>7. CASE g \in Unspawnable
  <2>1. /\ active' = active \ {g} /\ group' = [group EXCEPT ![g] = MarkError(@)]
        /\ UNCHANGED <<running, tasks>>
    BY <1>0, <1>2, <1>7 DEF Spawn, FailSpawnedGroup
  <2>2. \A h : Outstanding(h)' = Outstanding(h)
    BY <1>1, <2>1 DEF Outstanding
  <2>3. \A h \in Gids : group'[h].commands = group[h].commands
    <3>1. MarkError(group[g]).commands = group[g].commands
      BY <1>2, <1>3, GentleTransitions
    <3> QED BY <1>2, <1>3, <2>1, <3>1
  <2>4. Counted'
    BY <1>2, <2>1, <2>2, <2>3 DEF AccountInv, Counted
  <2>5. Generations'
    BY <1>1, <1>4, <1>5, <2>1, <2>2 DEF AccountInv, Generations
  <2>6. Awaiting'
    BY <1>1, <1>2, <2>1, <2>2 DEF Awaiting, OnceIn
  <2>7. Demotable' /\ FirstPass' /\ Expected' /\ LastPass'
    BY <1>1, <1>6, <2>1 DEF AccountInv, Demotable, FirstPass, Expected, LastPass, LastPhases
  <2> QED BY <2>4, <2>5, <2>6, <2>7 DEF AccountInv
<1>8. CASE g \notin Unspawnable
  <2> DEFINE t == [gid |-> g, generation |-> n, stage |-> "starting"]
             r == [gid |-> g, generation |-> n, timeout |-> "Timeout" \in Ops]
  <2>1. /\ active' = active /\ group' = [group EXCEPT ![g] = IncCommands(@)]
        /\ running' = running \cup {r} /\ tasks' = tasks \cup {t}
    BY <1>0, <1>8 DEF Spawn
  <2>2. t.gid = g /\ t.generation = n /\ r.gid = g /\ r.generation = n
    OBVIOUS
  <2> HIDE DEF t, r
  <2>3. ASSUME NEW h PROVE Outstanding(h)' = IF h = g THEN {n} ELSE Outstanding(h)
    <3>1. n \notin completed
      BY <1>4, <1>5
    <3>2. \A x : x \in Outstanding(h)' <=> x \in Outstanding(h) \/ (h = g /\ x = n)
      BY <1>1, <2>1, <2>2, <3>1, OutstandingIs
    <3> QED BY <1>2, <3>2
  <2>4. Counted'
    <3>1. group'[g].commands = group[g].commands + 1 /\ \A h \in Gids \ {g} : group'[h] = group[h]
      <4>1. group[g] \in GroupRecord
        BY <1>2, <1>3
      <4>2. IncCommands(group[g]).commands = group[g].commands + 1
        BY <4>1 DEF GroupRecord, IncCommands
      <4> QED BY <1>2, <1>3, <2>1, <4>2
    <3>2. Cardinality({n}) = 1 /\ Cardinality(Outstanding(g)) = 0
      BY <1>2, FS_Singleton, FS_EmptySet
    <3>3. group[g].commands = Cardinality(Outstanding(g))
      BY <1>2 DEF AccountInv, Counted
    <3>4. group'[g].commands = Cardinality(Outstanding(g)')
      BY <2>3, <3>1, <3>2, <3>3
    <3>5. \A h \in Gids \ {g} : group'[h].commands = Cardinality(Outstanding(h)')
      BY <2>3, <3>1 DEF AccountInv, Counted
    <3>6. \A h \in Gids : Outstanding(h)' # {} => h \in active'
      BY <1>2, <2>1, <2>3 DEF AccountInv, Counted
    <3> QED BY <3>4, <3>5, <3>6 DEF Counted
  <2>5. Generations'
    <3>1. ASSUME NEW u \in tasks' PROVE
            /\ u.generation < next_generation' /\ u.generation \notin completed'
            /\ \E s \in running' : s.generation = u.generation
            /\ \A v \in tasks' : v.generation = u.generation => v = u
            /\ \A s \in running' : s.generation = u.generation => s.gid = u.gid
      <4>1. CASE u \in tasks
        BY <1>1, <1>4, <1>5, <2>1, <2>2, <4>1 DEF AccountInv, Generations
      <4>2. CASE u = t
        BY <1>1, <1>3, <1>4, <1>5, <2>1, <2>2, <4>2
      <4> QED BY <2>1, <4>1, <4>2
    <3>2. \A k \in 1..Len(completions') :
            /\ completions'[k].generation < next_generation'
            /\ \A u \in tasks' : u.generation # completions'[k].generation
            /\ \A s \in running' : s.generation = completions'[k].generation => s.gid = completions'[k].gid
            /\ \A j \in 1..Len(completions') :
                  completions'[j].generation = completions'[k].generation
                    => completions'[j].gid = completions'[k].gid
      BY <1>1, <1>4, <1>5, <2>1, <2>2 DEF AccountInv, Generations
    <3>3. ASSUME NEW s \in running' PROVE s.generation < next_generation' /\ s.generation \in Outstanding(s.gid)'
      <4>1. CASE s = r
        BY <1>1, <1>3, <2>2, <2>3, <4>1
      <4>2. CASE s \in running
        <5>1. s.generation \in Outstanding(s.gid)
          BY <4>2 DEF AccountInv, Generations
        <5> QED BY <1>1, <1>2, <1>4, <1>5, <2>3, <4>2, <5>1
      <4> QED BY <2>1, <4>1, <4>2
    <3>4. \A x \in completed' : x < next_generation'
      BY <1>1, <1>4, <1>5
    <3> QED BY <3>1, <3>2, <3>3, <3>4 DEF Generations
  <2>6. Awaiting'
    BY <1>1, <1>2, <2>1, <2>3 DEF Awaiting, OnceIn
  <2>7. Demotable' /\ FirstPass' /\ LastPass'
    BY <1>1, <1>6 DEF AccountInv, Demotable, FirstPass, LastPass, LastPhases
  <2>8. Expected'
    BY <1>1, <2>1 DEF AccountInv, Expected
  <2> QED BY <2>4, <2>5, <2>6, <2>7, <2>8 DEF AccountInv
<1> QED BY <1>7, <1>8

\* Taking the first completion out of the channel.
LEMMA TakenCompletion ==
    ASSUME LoopInv, AccountInv, completions # <<>>, completions' = Tail(completions),
           NEW c, c = Head(completions), tasks' = tasks,
           completed' = completed \cup {c.generation}
    PROVE  /\ \A k \in 1..Len(completions') : completions'[k] = completions[k + 1] /\ k + 1 \in 1..Len(completions)
           /\ \A g : Outstanding(g)' = Outstanding(g) \ {c.generation}
           /\ c.generation \notin completed => c.generation \in Outstanding(c.gid)
           /\ \A g : c.generation \in Outstanding(g) => g = c.gid
<1>1. completions \in Seq(Completion)
  BY DEF LoopInv, WorkTyped
<1>2. /\ c = completions[1] /\ 1 \in 1..Len(completions)
      /\ \A k \in 1..Len(completions') : completions'[k] = completions[k + 1] /\ k + 1 \in 1..Len(completions)
      /\ \A k \in 1..Len(completions) : k = 1 \/ (k - 1 \in 1..Len(completions') /\ completions'[k - 1] = completions[k])
  BY <1>1
<1>3. ASSUME NEW g, NEW x PROVE x \in Outstanding(g)' <=> x \in Outstanding(g) /\ x # c.generation
  <2>1. CASE x = c.generation
    BY <2>1, OutstandingIs
  <2>2. CASE x # c.generation
    <3>1. (\E k \in 1..Len(completions') : completions'[k].gid = g /\ completions'[k].generation = x)
            <=> \E k \in 1..Len(completions) : completions[k].gid = g /\ completions[k].generation = x
      BY <1>2, <2>2
    <3> QED BY <2>2, <3>1, OutstandingIs
  <2> QED BY <2>1, <2>2
<1>4. ASSUME NEW g PROVE Outstanding(g)' = Outstanding(g) \ {c.generation}
  <2>1. \A x : x \in Outstanding(g)' <=> x \in Outstanding(g) \ {c.generation}
    BY <1>3
  <2> QED BY <2>1
<1>5. c.generation \notin completed => c.generation \in Outstanding(c.gid)
  BY <1>2, OutstandingIs
<1>6. \A g : c.generation \in Outstanding(g) => g = c.gid
  BY <1>2, OutstandingIs DEF AccountInv, Generations
<1> QED BY <1>2, <1>4, <1>5, <1>6

\* A completion is accounted for once, however often it was sent.
LEMMA CompletionAccounts ==
    ASSUME LoopInv, AccountInv, ProcessCompletion PROVE AccountInv'
<1>0. PICK c : c = Head(completions)
  OBVIOUS
<1>1. /\ phase \in {"completions", "woken"} /\ completions # <<>> /\ completions' = Tail(completions)
      /\ UNCHANGED <<phase, first_pass, next_generation, tasks, promoted, demoting>>
  BY DEF ProcessCompletion, passVars
<1>2. /\ completed' = completed \cup {c.generation} /\ running' \subseteq running
      /\ \A r \in running : r \in running' \/ r.generation = c.generation
      /\ active' = active
  BY <1>0 DEF ProcessCompletion, manVars
<1>3. /\ \A k \in 1..Len(completions') : completions'[k] = completions[k + 1] /\ k + 1 \in 1..Len(completions)
      /\ \A g : Outstanding(g)' = Outstanding(g) \ {c.generation}
      /\ c.generation \notin completed => c.generation \in Outstanding(c.gid)
      /\ \A g : c.generation \in Outstanding(g) => g = c.gid
  BY <1>0, <1>1, <1>2, TakenCompletion
<1>4. c \in Completion /\ c.gid \in Gids /\ c.result \in TaskResults /\ completions \in Seq(Completion)
      /\ 1 \in 1..Len(completions) /\ c = completions[1]
  <2>1. completions \in Seq(Completion)
    BY DEF LoopInv, WorkTyped
  <2>2. Head(completions) \in Completion /\ Head(completions) = completions[1] /\ 1 \in 1..Len(completions)
    BY <1>1, <2>1
  <2> QED BY <1>0, <2>1, <2>2 DEF Completion
<1>5. promoted = <<>> /\ demoting = {}
  BY <1>1 DEF AccountInv, Awaiting, Demotable
<1>6. Awaiting'
  <2>1. promoted' = <<>>
    BY <1>1, <1>5
  <2>2. Len(promoted') = 0
    BY <2>1
  <2>3. 1..Len(promoted') = {}
    BY <2>2
  <2> QED BY <2>1, <2>3 DEF Awaiting, OnceIn
<1>7. Demotable' /\ FirstPass' /\ Expected' /\ LastPass'
  BY <1>1, <1>5 DEF AccountInv, Demotable, FirstPass, Expected, LastPass, LastPhases
<1>8. Generations'
  <2>1. c.generation \in completed \/ \A r \in running' : r.generation # c.generation
    BY <1>0 DEF ProcessCompletion
  <2>2. \A t \in tasks : t.generation # c.generation
    BY <1>4 DEF AccountInv, Generations
  <2>3. \A t \in tasks' :
          /\ t.generation < next_generation' /\ t.generation \notin completed'
          /\ \E r \in running' : r.generation = t.generation
          /\ \A u \in tasks' : u.generation = t.generation => u = t
          /\ \A r \in running' : r.generation = t.generation => r.gid = t.gid
    BY <1>1, <1>2, <2>2 DEF AccountInv, Generations
  <2>4. \A k \in 1..Len(completions') :
          /\ completions'[k].generation < next_generation'
          /\ \A t \in tasks' : t.generation # completions'[k].generation
          /\ \A r \in running' : r.generation = completions'[k].generation => r.gid = completions'[k].gid
          /\ \A j \in 1..Len(completions') :
                completions'[j].generation = completions'[k].generation
                  => completions'[j].gid = completions'[k].gid
    BY <1>1, <1>2, <1>3 DEF AccountInv, Generations
  <2>5. ASSUME NEW r \in running' PROVE r.generation < next_generation' /\ r.generation \in Outstanding(r.gid)'
    <3>1. r \in running /\ r.generation < next_generation /\ r.generation \in Outstanding(r.gid)
      BY <1>2, <2>5 DEF AccountInv, Generations
    <3>2. r.generation # c.generation
      BY <2>1, <2>5, <3>1, OutstandingIs
    <3> QED BY <1>1, <1>3, <3>1, <3>2
  <2>6. \A x \in completed' : x < next_generation'
    BY <1>1, <1>2, <1>4 DEF AccountInv, Generations
  <2> QED BY <2>3, <2>4, <2>5, <2>6 DEF Generations
<1>9. Counted'
  <2>1. CASE c.generation \in completed
    <3>1. group' = group
      BY <1>0, <2>1 DEF ProcessCompletion, manVars
    <3>2. \A g : Outstanding(g)' = Outstanding(g)
      <4> TAKE g
      <4>1. c.generation \notin Outstanding(g)
        BY <2>1, OutstandingIs
      <4> QED BY <1>3, <4>1
    <3> QED BY <1>2, <3>1, <3>2 DEF AccountInv, Counted
  <2>2. CASE c.generation \notin completed
    <3>1. c.generation \in Outstanding(c.gid) /\ c.gid \in active /\ Live(c.gid)
      BY <1>3, <1>4, <2>2 DEF AccountInv, Counted, LoopInv, ManInv, OneHome, Live
    <3>2. group' = [group EXCEPT ![c.gid] = ApplyCompletion(DecCommands(@), c.result, @.commands = 1)]
      BY <1>0, <2>2, <3>1 DEF ProcessCompletion
    <3>3. group \in [Gids -> GroupRecord] /\ WorkTyped /\ Generations
      BY DEF LoopInv, ManInv, ManTypeOK, AccountInv
    <3>4. /\ IsFiniteSet(Outstanding(c.gid)) /\ Cardinality(Outstanding(c.gid)) \in Nat
          /\ Cardinality(Outstanding(c.gid)) # 0
      BY <3>1, <3>3, OutstandingFinite
    <3>5. Cardinality(Outstanding(c.gid) \ {c.generation}) = Cardinality(Outstanding(c.gid)) - 1
      BY <3>1, <3>4, FS_RemoveElement
    <3>6. group[c.gid].commands = Cardinality(Outstanding(c.gid))
      BY <1>4 DEF AccountInv, Counted
    <3>7. DecCommands(group[c.gid]).commands = group[c.gid].commands - 1
      <4>1. group[c.gid] \in GroupRecord /\ group[c.gid].commands > 0
        BY <1>4, <3>3, <3>4, <3>6
      <4> QED BY <4>1 DEF GroupRecord, DecCommands
    <3>8. ApplyCompletion(DecCommands(group[c.gid]), c.result, group[c.gid].commands = 1).commands
            = DecCommands(group[c.gid]).commands
      <4>1. DecCommands(group[c.gid]) \in GroupRecord
        BY <1>4, <3>3, GroupTransitions
      <4>2. (group[c.gid].commands = 1) \in BOOLEAN
        OBVIOUS
      <4> QED BY <1>4, <4>1, <4>2, SettleCommands
    <3>9. /\ group'[c.gid] = ApplyCompletion(DecCommands(group[c.gid]), c.result, group[c.gid].commands = 1)
          /\ \A g \in Gids \ {c.gid} : group'[g] = group[g]
      BY <1>4, <3>2, <3>3
    <3>10. group'[c.gid].commands = Cardinality(Outstanding(c.gid)')
      BY <1>3, <3>5, <3>6, <3>7, <3>8, <3>9
    <3>11. \A g \in Gids \ {c.gid} : group'[g].commands = Cardinality(Outstanding(g)')
      <4> TAKE g \in Gids \ {c.gid}
      <4>1. Outstanding(g)' = Outstanding(g)
        BY <1>3
      <4> QED BY <3>9, <4>1 DEF AccountInv, Counted
    <3>12. \A g \in Gids : Outstanding(g)' # {} => g \in active'
      BY <1>2, <1>3 DEF AccountInv, Counted
    <3> QED BY <3>10, <3>11, <3>12 DEF Counted
  <2> QED BY <2>1, <2>2
<1> QED BY <1>6, <1>7, <1>8, <1>9 DEF AccountInv

\* Groups without commands leave the active map.
LEMMA RequeueAccounts ==
    ASSUME LoopInv, AccountInv, Requeue PROVE AccountInv'
<1>1. /\ phase \in {"requeue", "last_requeue"}
      /\ phase' = IF phase = "last_requeue" THEN "last_find" ELSE "find"
      /\ UNCHANGED workVars
      /\ UNCHANGED <<first_pass, running, completed, completions, tasks, promoted, demoting>>
      /\ active' = active \ Requeueable /\ group' = Apply(Requeueable, Requeued)
  BY DEF Requeue, RequeueNonTerminalGroups, GoTo, Leaving, KeepFlags, workVars, passVars
<1>2. Generations' /\ \A g : Outstanding(g)' = Outstanding(g)
  BY <1>1, SameWork DEF AccountInv
<1>3. group \in [Gids -> GroupRecord] /\ WorkTyped /\ Generations
  BY DEF LoopInv, ManInv, ManTypeOK, AccountInv
<1>4. \A g \in Gids : group'[g].commands = group[g].commands
  BY <1>1, <1>3, GentleTransitions DEF Apply
<1>5. \A g \in Requeueable : g \in Gids => Outstanding(g) = {}
  BY <1>3, OutstandingFinite DEF AccountInv, Counted, Requeueable
<1>6. Counted'
  BY <1>1, <1>2, <1>4, <1>5 DEF AccountInv, Counted
<1>7. promoted = <<>> /\ demoting = {}
  BY <1>1 DEF AccountInv, Awaiting, Demotable
<1>8. Awaiting'
  <2>1. 1..Len(promoted') = {} /\ promoted' = <<>>
    BY <1>1, <1>7
  <2> QED BY <2>1 DEF Awaiting, OnceIn
<1>9. Demotable' /\ FirstPass' /\ Expected' /\ LastPass'
  BY <1>1, <1>7 DEF AccountInv, Demotable, FirstPass, Expected, LastPass, LastPhases
<1> QED BY <1>2, <1>6, <1>8, <1>9 DEF AccountInv

\* When nothing runs any more, nothing is outstanding once the completions of
\* the pass are processed.
LEMMA NothingOutstanding ==
    ASSUME AccountInv, phase \in LastPhases, running = {}
    PROVE  tasks = {} /\ \A g : Outstanding(g) = {}
<1>1. tasks = {}
  BY DEF AccountInv, Generations
<1>2. \A k \in 1..Len(completions) : completions[k].generation \in completed
  BY DEF AccountInv, Expected, LastPhases
<1> QED BY <1>1, <1>2 DEF Outstanding

\* The groups found stopped have no command, and the last search finds every
\* download that has ended.
LEMMA FindAccounts ==
    ASSUME LoopInv, AccountInv, Find PROVE AccountInv'
<1>1. /\ phase \in {"find", "last_find"}
      /\ phase' = IF phase = "last_find" THEN "last_demote" ELSE "demote"
      /\ UNCHANGED workVars
      /\ UNCHANGED <<first_pass, running, completed, completions, tasks, promoted, group, active>>
      /\ demoting' = FoundStopped
  BY DEF Find, GoTo, Leaving, KeepFlags, KeepMan, workVars, manVars
<1>2. Generations' /\ \A g : Outstanding(g)' = Outstanding(g)
  BY <1>1, SameWork DEF AccountInv
<1>3. WorkTyped /\ Generations /\ active \subseteq Gids
  BY DEF LoopInv, ManInv, ManTypeOK, AccountInv
<1>4. Counted' /\ FirstPass' /\ Expected'
  BY <1>1, <1>2 DEF AccountInv, Counted, FirstPass, Expected
<1>5. Awaiting'
  <2>1. promoted = <<>>
    BY <1>1 DEF AccountInv, Awaiting
  <2>2. 1..Len(promoted') = {} /\ promoted' = <<>>
    BY <1>1, <2>1
  <2> QED BY <2>2 DEF Awaiting, OnceIn
<1>6. Demotable'
  <2>1. \A g \in active : IsStopped(g) => Outstanding(g) = {}
    BY <1>3, OutstandingFinite DEF AccountInv, Counted, IsStopped
  <2>2. \A x \in FoundStopped : Outstanding(x.gid) = {}
    BY <2>1 DEF FoundStopped
  <2> QED BY <1>1, <1>2, <2>2 DEF Demotable
<1>7. LastPass'
  <2>1. phase' \in LastPhases => phase \in LastPhases /\ running = {}
    BY <1>1 DEF AccountInv, LastPass, LastPhases
  <2>2. ASSUME phase \in LastPhases, running = {}, NEW g \in active, IsTerminal(group[g])
        PROVE  \E x \in FoundStopped : x.gid = g
    <3>1. Outstanding(g) = {}
      BY <2>2, NothingOutstanding
    <3>2. group[g].commands = 0
      BY <1>3, <3>1, FS_EmptySet DEF AccountInv, Counted
    <3>3. IsStopped(g)
      BY <2>2, <3>2 DEF IsStopped
    <3>4. [gid |-> g, result |-> DownloadResult(group[g])] \in FoundStopped
      BY <2>2, <3>3 DEF FoundStopped
    <3> QED BY <3>4
  <2>3. phase' \in LastPhases =>
          running' = {} /\ \A g \in active' : IsTerminal(group'[g]) => \E x \in demoting' : x.gid = g
    BY <1>1, <2>1, <2>2
  <2> QED BY <2>3 DEF LastPass, LastPhases
<1> QED BY <1>2, <1>4, <1>5, <1>6, <1>7 DEF AccountInv

\* A demoted group owes nothing.
LEMMA DemoteAccounts ==
    ASSUME LoopInv, AccountInv, NEW d \in demoting, Demote(d) PROVE AccountInv'
<1>1. /\ phase \in {"demote", "last_demote"} /\ UNCHANGED workVars
      /\ UNCHANGED <<phase, first_pass, running, completed, completions, tasks, promoted, group>>
      /\ demoting' = demoting \ {d} /\ active' = active \ {d.gid}
  BY DEF Demote, DemoteGroup, workVars, manVars
<1>2. Generations' /\ \A g : Outstanding(g)' = Outstanding(g)
  BY <1>1, SameWork DEF AccountInv
<1>3. Outstanding(d.gid) = {}
  BY DEF AccountInv, Demotable
<1>4. Counted'
  BY <1>1, <1>2, <1>3 DEF AccountInv, Counted
<1>5. Awaiting'
  <2>1. promoted = <<>>
    BY <1>1 DEF AccountInv, Awaiting
  <2>2. 1..Len(promoted') = {} /\ promoted' = <<>>
    BY <1>1, <2>1
  <2> QED BY <2>2 DEF Awaiting, OnceIn
<1>6. Demotable' /\ FirstPass' /\ Expected'
  BY <1>1, <1>2 DEF AccountInv, Demotable, FirstPass, Expected
<1>7. LastPass'
  <2>1. ASSUME NEW g \in active', IsTerminal(group'[g]), phase' \in {"last_demote", "exited"}
        PROVE  \E x \in demoting' : x.gid = g
    <3>1. PICK x \in demoting : x.gid = g
      BY <1>1, <2>1 DEF AccountInv, LastPass
    <3>2. x # d
      BY <1>1, <2>1, <3>1
    <3> QED BY <1>1, <3>1, <3>2
  <2>2. phase' \in LastPhases => running' = {}
    BY <1>1 DEF AccountInv, LastPass
  <2> QED BY <2>1, <2>2 DEF LastPass
<1> QED BY <1>2, <1>4, <1>5, <1>6, <1>7 DEF AccountInv

\* The dependents of a demoted metadata group are settled.
LEMMA ResolveAccounts ==
    ASSUME LoopInv, AccountInv, NEW usable, Resolve(usable) PROVE AccountInv'
<1>1. Mild
  BY MildResolve DEF Resolve, LoopInv
<1>2. UNCHANGED <<workVars, promoted, demoting>> /\ UNCHANGED <<phase, first_pass>>
  BY DEF Resolve, engineVars
<1> QED BY <1>1, <1>2, MildStep

\* A deadline changes neither who runs nor what is owed.
LEMMA DeadlineAccounts ==
    ASSUME LoopInv, AccountInv, NEW r \in running, WakeOnDeadline(r) PROVE AccountInv'
<1> DEFINE s == [r EXCEPT !.timeout = FALSE]
<1>1. Mild
  BY MildApplies DEF WakeOnDeadline, LoopInv
<1>2. /\ phase = "wait" /\ phase' = "commands" /\ first_pass' = first_pass
      /\ running' = (running \ {r}) \cup {s}
      /\ UNCHANGED <<next_generation, completed, completions, tasks, promoted, demoting>>
  BY DEF WakeOnDeadline, GoTo, KeepFlags, passVars
<1>3. s.gid = r.gid /\ s.generation = r.generation
  <2>1. r \in RunningDownload
    BY DEF LoopInv, WorkTyped
  <2> QED BY <2>1 DEF RunningDownload
<1> HIDE DEF s
<1>4. \A g : Outstanding(g)' = Outstanding(g)
  BY <1>2 DEF Outstanding
<1>5. /\ \A q \in running' : \E p \in running : p.gid = q.gid /\ p.generation = q.generation
      /\ \A p \in running : \E q \in running' : p.gid = q.gid /\ p.generation = q.generation
  BY <1>2, <1>3
<1>6. Generations'
  <2>1. \A t \in tasks' :
          /\ t.generation < next_generation' /\ t.generation \notin completed'
          /\ \E q \in running' : q.generation = t.generation
          /\ \A u \in tasks' : u.generation = t.generation => u = t
          /\ \A q \in running' : q.generation = t.generation => q.gid = t.gid
    BY <1>2, <1>5 DEF AccountInv, Generations
  <2>2. \A k \in 1..Len(completions') :
          /\ completions'[k].generation < next_generation'
          /\ \A t \in tasks' : t.generation # completions'[k].generation
          /\ \A q \in running' : q.generation = completions'[k].generation => q.gid = completions'[k].gid
          /\ \A j \in 1..Len(completions') :
                completions'[j].generation = completions'[k].generation
                  => completions'[j].gid = completions'[k].gid
    BY <1>2, <1>5 DEF AccountInv, Generations
  <2>3. ASSUME NEW q \in running' PROVE q.generation < next_generation' /\ q.generation \in Outstanding(q.gid)'
    <3>1. PICK p \in running : p.gid = q.gid /\ p.generation = q.generation
      BY <1>5
    <3>2. p.generation < next_generation /\ p.generation \in Outstanding(p.gid)
      BY DEF AccountInv, Generations
    <3> QED BY <1>2, <1>4, <3>1, <3>2
  <2>4. \A x \in completed' : x < next_generation'
    BY <1>2 DEF AccountInv, Generations
  <2> QED BY <2>1, <2>2, <2>3, <2>4 DEF Generations
<1>7. Counted'
  BY <1>1, <1>4 DEF AccountInv, Counted, Mild
<1>8. Awaiting' /\ Demotable'
  <2>1. promoted = <<>> /\ demoting = {}
    BY <1>2 DEF AccountInv, Awaiting, Demotable
  <2>2. 1..Len(promoted') = {} /\ promoted' = <<>>
    BY <1>2, <2>1
  <2> QED BY <1>2, <2>1, <2>2 DEF Awaiting, OnceIn, Demotable
<1>9. FirstPass' /\ Expected' /\ LastPass'
  BY <1>2 DEF AccountInv, FirstPass, Expected, LastPass, LastPhases
<1> QED BY <1>6, <1>7, <1>8, <1>9 DEF AccountInv

\* The shutdown signal halts groups and counts nothing.
LEMMA ShutdownSignalAccounts ==
    ASSUME LoopInv, AccountInv, WakeOnShutdown PROVE AccountInv'
<1>1. HaltAll("ShutdownSignal") /\ "ShutdownSignal" \in HaltReasons
  BY DEF WakeOnShutdown, HaltReasons
<1>2. Mild
  BY <1>1, MildApplies DEF LoopInv
<1>3. /\ UNCHANGED <<workVars, promoted, demoting>> /\ phase = "wait" /\ phase' = "commands"
      /\ UNCHANGED first_pass
  BY DEF WakeOnShutdown, GoTo, passVars
<1> QED BY <1>2, <1>3, MildStep

-----------------------------------------------------------------------------
\* A task that moves on keeps its command.
LEMMA MoveAccounts ==
    ASSUME LoopInv, AccountInv, NEW t \in tasks, NEW stage, MoveTask(t, stage),
           \A g \in Gids : group'[g].commands = group[g].commands,
           UNCHANGED <<phase, first_pass, next_generation, running, completed, completions,
                       promoted, demoting, active>>
    PROVE  AccountInv'
<1> DEFINE u == [t EXCEPT !.stage = stage]
<1>1. u.gid = t.gid /\ u.generation = t.generation
  <2>1. t \in Task
    BY DEF LoopInv, WorkTyped
  <2> QED BY <2>1 DEF Task
<1>2. tasks' = (tasks \ {t}) \cup {u}
  BY DEF MoveTask
<1> HIDE DEF u
<1>3. /\ \A v \in tasks' : \E w \in tasks : w.gid = v.gid /\ w.generation = v.generation
      /\ \A w \in tasks : \E v \in tasks' : w.gid = v.gid /\ w.generation = v.generation
  BY <1>1, <1>2
<1>4. \A v, w \in tasks : v.generation = w.generation => v = w
  BY DEF AccountInv, Generations
<1>5. ASSUME NEW g PROVE Outstanding(g)' = Outstanding(g)
  <2>1. \A x : x \in Outstanding(g)' <=> x \in Outstanding(g)
    BY <1>3, OutstandingIs
  <2> QED BY <2>1
<1>6. Generations'
  <2>1. \A v \in tasks' :
          /\ v.generation < next_generation' /\ v.generation \notin completed'
          /\ \E r \in running' : r.generation = v.generation
          /\ \A w \in tasks' : w.generation = v.generation => w = v
          /\ \A r \in running' : r.generation = v.generation => r.gid = v.gid
    <3>1. \A v \in tasks' :
            /\ v.generation < next_generation' /\ v.generation \notin completed'
            /\ \E r \in running' : r.generation = v.generation
            /\ \A r \in running' : r.generation = v.generation => r.gid = v.gid
      BY <1>3 DEF AccountInv, Generations
    <3>2. \A v, w \in tasks' : w.generation = v.generation => w = v
      BY <1>1, <1>2, <1>4
    <3> QED BY <3>1, <3>2
  <2>2. \A k \in 1..Len(completions') :
          /\ completions'[k].generation < next_generation'
          /\ \A v \in tasks' : v.generation # completions'[k].generation
          /\ \A r \in running' : r.generation = completions'[k].generation => r.gid = completions'[k].gid
          /\ \A j \in 1..Len(completions') :
                completions'[j].generation = completions'[k].generation
                  => completions'[j].gid = completions'[k].gid
    BY <1>3 DEF AccountInv, Generations
  <2>3. \A r \in running' : r.generation < next_generation' /\ r.generation \in Outstanding(r.gid)'
    BY <1>5 DEF AccountInv, Generations
  <2>4. \A x \in completed' : x < next_generation'
    BY DEF AccountInv, Generations
  <2> QED BY <2>1, <2>2, <2>3, <2>4 DEF Generations
<1>7. Counted' /\ Demotable'
  BY <1>5 DEF AccountInv, Counted, Demotable
<1>8. Awaiting'
  BY <1>5 DEF AccountInv, Awaiting, OnceIn
<1>9. FirstPass' /\ Expected'
  BY DEF AccountInv, FirstPass, Expected
<1>10. LastPass'
  <2>1. running # {}
    BY DEF AccountInv, Generations
  <2>2. phase' \notin LastPhases
    BY <2>1 DEF AccountInv, LastPass
  <2> QED BY <2>2 DEF LastPass, LastPhases
<1> QED BY <1>6, <1>7, <1>8, <1>9, <1>10 DEF AccountInv

\* A task that ends leaves its completion.
LEMMA EndAccounts ==
    ASSUME LoopInv, AccountInv, NEW t \in tasks, NEW result, EndTask(t, result), KeepEngine, KeepMan
    PROVE  AccountInv'
<1> DEFINE c == [gid |-> t.gid, generation |-> t.generation, result |-> result]
<1>1. /\ tasks' = tasks \ {t} /\ completions' = Append(completions, c)
      /\ UNCHANGED <<next_generation, running, completed, phase, first_pass, promoted, demoting,
                     group, active>>
  BY DEF EndTask, KeepEngine, KeepMan, manVars, engineVars, passVars
<1>2. c.gid = t.gid /\ c.generation = t.generation
  OBVIOUS
<1> HIDE DEF c
<1>3. tasks' = {u \in tasks : u.generation # t.generation}
  BY <1>1 DEF AccountInv, Generations
<1>4. t.generation \in Outstanding(t.gid)
  BY OutstandingIs DEF AccountInv, Generations
<1>5. Generations' /\ \A g : Outstanding(g)' = Outstanding(g)
  BY <1>1, <1>2, <1>3, <1>4, Replaced
<1>6. Counted' /\ Awaiting' /\ Demotable'
  BY <1>1, <1>5 DEF AccountInv, Counted, Awaiting, Demotable, OnceIn
<1>7. FirstPass'
  BY <1>1 DEF AccountInv, FirstPass
<1>8. Expected'
  <2>1. /\ Len(completions') = Len(completions) + 1 /\ Len(completions) \in Nat
        /\ completions'[Len(completions) + 1] = c
        /\ \A k \in 1..Len(completions) : completions'[k] = completions[k]
    BY <1>1 DEF LoopInv, WorkTyped
  <2>2. \A k \in 1..Len(completions') : k \in 1..Len(completions) \/ completions'[k] = c
    BY <2>1
  <2>3. \E r \in running : r.generation = t.generation
    BY DEF AccountInv, Generations
  <2> QED BY <1>1, <1>2, <2>1, <2>2, <2>3 DEF AccountInv, Expected
<1>9. LastPass'
  BY <1>1 DEF AccountInv, LastPass
<1> QED BY <1>5, <1>6, <1>7, <1>8, <1>9 DEF AccountInv

\* Every step of a task: it moves on or it ends.
LEMMA TaskAccounts ==
    ASSUME LoopInv, AccountInv, NEW t \in tasks, TaskStep(t) PROVE AccountInv'
<1>1. t.gid \in Gids /\ group \in [Gids -> GroupRecord]
  BY DEF LoopInv, WorkTyped, Task, ManInv, ManTypeOK
<1>2. CASE TaskStart(t) \/ TaskComplete(t)
  <2>1. PICK stage : MoveTask(t, stage)
    BY <1>2 DEF TaskStart, TaskComplete
  <2>2. PICK r \in {Start(group[t.gid]), MarkComplete(group[t.gid])} : SetGroup(t.gid, r)
    BY <1>2 DEF TaskStart, TaskComplete
  <2>3. r.commands = group[t.gid].commands
    BY <1>1, <2>2, GentleTransitions DEF Gentle
  <2>4. (\A g \in Gids : group'[g].commands = group[g].commands) /\ active' = active
    BY <1>1, <2>2, <2>3 DEF SetGroup
  <2>5. UNCHANGED <<phase, first_pass, next_generation, running, completed, completions, promoted,
                    demoting>>
    BY <1>2 DEF TaskStart, TaskComplete, KeepEngine, engineVars, passVars
  <2> QED BY <2>1, <2>4, <2>5, MoveAccounts
<1>3. CASE TaskObserve(t) \/ TaskFail(t) \/ TaskSend(t)
  <2>1. (\E result : EndTask(t, result)) /\ KeepEngine /\ KeepMan
    BY <1>3 DEF TaskObserve, TaskFail, TaskSend
  <2> QED BY <2>1, EndAccounts
<1>4. CASE TaskWait(t) \/ TaskAnswered(t)
  <2>1. PICK stage : MoveTask(t, stage)
    BY <1>4 DEF TaskWait, TaskAnswered
  <2>2. group' = group /\ active' = active
    BY <1>4 DEF TaskWait, TaskAnswered, KeepMan, manVars
  <2>3. UNCHANGED <<phase, first_pass, next_generation, running, completed, completions, promoted,
                    demoting>>
    BY <1>4 DEF TaskWait, TaskAnswered, KeepEngine, engineVars, passVars
  <2> QED BY <2>1, <2>2, <2>3, MoveAccounts
<1> QED BY <1>2, <1>3, <1>4 DEF TaskStep

-----------------------------------------------------------------------------
\* A step of a client leaves the engine and its work alone.
LEMMA ClientAccounts ==
    ASSUME LoopInv, AccountInv, Mild, KeepLoop PROVE AccountInv'
BY MildStep DEF KeepLoop, engineVars, passVars

\* Client calls on one download.
LEMMA GidCallAccounts ==
    ASSUME LoopInv, AccountInv, NEW g \in Gids,
           RpcPause(g) \/ RpcUnpause(g) \/ RpcRemove(g) \/ RpcAdd(g) \/ ChangeOptionStore(g)
    PROVE  AccountInv'
<1>1. ManInv /\ group \in [Gids -> GroupRecord] /\ active \subseteq Gids
  BY DEF LoopInv, ManInv, ManTypeOK
<1>2. KeepLoop
  BY DEF RpcPause, RpcUnpause, RpcRemove, RpcAdd, ChangeOptionStore
<1>3. CASE RpcPause(g) \/ RpcUnpause(g)
  <2>1. PauseGroup(g) \/ UnpauseGroup(g)
    BY <1>3 DEF RpcPause, RpcUnpause
  <2> QED BY <1>1, <1>2, <2>1, MildApplies, ClientAccounts
<1>4. CASE RpcRemove(g)
  BY <1>1, <1>2, <1>4, MildRemove, ClientAccounts DEF RpcRemove
<1>5. CASE RpcAdd(g)
  BY <1>1, <1>2, <1>5, MildAdd, ClientAccounts DEF RpcAdd
<1>6. CASE ChangeOptionStore(g)
  <2>1. SetGroup(g, SetPendingOptions(group[g]))
    BY <1>6 DEF ChangeOptionStore
  <2>2. Gentle(group[g], SetPendingOptions(group[g])) /\ \A h \in Gids : Gentle(group[h], group[h])
    BY <1>1, GentleTransitions
  <2>3. active' = active /\ \A h \in Gids : Gentle(group[h], group'[h])
    BY <1>1, <2>1, <2>2 DEF SetGroup
  <2>4. Mild
    BY <1>1, <2>3 DEF Mild, Gentle
  <2> QED BY <1>2, <2>4, ClientAccounts
<1> QED BY <1>3, <1>4, <1>5, <1>6

\* Client calls on all downloads, and handles that only send.
LEMMA GlobalCallAccounts ==
    ASSUME LoopInv, AccountInv, RpcPauseAll \/ RpcUnpauseAll \/ HandleSend \/ RpcForceShutdown
    PROVE  AccountInv'
<1>1. ManInv /\ group \in [Gids -> GroupRecord]
  BY DEF LoopInv, ManInv, ManTypeOK
<1>2. KeepLoop
  BY DEF RpcPauseAll, RpcUnpauseAll, HandleSend, RpcForceShutdown
<1>3. CASE RpcPauseAll \/ RpcUnpauseAll
  <2>1. PauseAll \/ UnpauseAll
    BY <1>3 DEF RpcPauseAll, RpcUnpauseAll
  <2> QED BY <1>1, <1>2, <2>1, MildApplies, ClientAccounts
<1>4. CASE HandleSend
  BY <1>1, <1>2, <1>4, MildNothing, ClientAccounts DEF HandleSend
<1>5. CASE RpcForceShutdown
  <2>1. ForceRemoveReserved(group) /\ \A g \in Gids : Gentle(group[g], group[g])
    BY <1>1, <1>5, GentleTransitions DEF RpcForceShutdown
  <2> QED BY <1>1, <1>2, <2>1, MildForceRemove, ClientAccounts
<1> QED BY <1>3, <1>4, <1>5

\* The later sections of change_group_options.
LEMMA OptionStepAccounts ==
    ASSUME LoopInv, AccountInv, NEW c \in changing, ChangeOptionPause(c) \/ ChangeOptionRestart(c)
    PROVE  AccountInv'
<1>1. /\ ManInv /\ group \in [Gids -> GroupRecord] /\ active \subseteq Gids /\ c.gid \in Gids
  BY DEF LoopInv, ManInv, ManTypeOK, ClientTyped
<1>2. KeepLoop
  BY DEF ChangeOptionPause, ChangeOptionRestart
<1>3. CASE KeepMan
  BY <1>1, <1>2, <1>3, MildNothing, ClientAccounts
<1>4. CASE PauseGroup(c.gid)
  BY <1>1, <1>2, <1>4, MildApplies, ClientAccounts
<1>5. CASE SetGroup(c.gid, RequestRestart(group[c.gid]))
  <2>1. Gentle(group[c.gid], RequestRestart(group[c.gid])) /\ \A h \in Gids : Gentle(group[h], group[h])
    BY <1>1, GentleTransitions
  <2>2. active' = active /\ \A h \in Gids : Gentle(group[h], group'[h])
    BY <1>1, <1>5, <2>1 DEF SetGroup
  <2>3. Mild
    BY <1>1, <2>2 DEF Mild, Gentle
  <2> QED BY <1>2, <2>3, ClientAccounts
<1> QED BY <1>3, <1>4, <1>5 DEF ChangeOptionPause, ChangeOptionRestart

\* A command enters the channel.
LEMMA SendAccounts ==
    ASSUME LoopInv, AccountInv, NEW c \in outbox, Send(c) PROVE AccountInv'
<1>1. KeepMan /\ UNCHANGED <<workVars, promoted, demoting>> /\ UNCHANGED <<phase, first_pass>>
  BY DEF Send, engineVars, passVars
<1> QED BY <1>1, MildNothing, MildStep DEF LoopInv

-----------------------------------------------------------------------------
\* The account is even at the start and stays so.
LEMMA AccountInit == Init => AccountInv
<1> SUFFICES ASSUME Init PROVE AccountInv
  OBVIOUS
<1>1. \A g \in Gids : group[g].commands = 0
  <2>1. \A g \in Gids : InitialGroup(g) \in GroupRecord /\ InitialGroup(g).commands = 0
    BY DEF InitialGroup, NewGroup, GroupRecord, Statuses, HaltReasons
  <2>2. \A g \in Gids : Pause(InitialGroup(g)).commands = 0
    BY <2>1, GentleTransitions DEF Gentle
  <2> QED BY <2>1, <2>2 DEF Init
<1>2. /\ tasks = {} /\ completions = <<>> /\ running = {} /\ completed = {} /\ promoted = <<>>
      /\ demoting = {} /\ active = {} /\ phase = "commands"
  BY DEF Init
<1>3. 1..Len(completions) = {} /\ 1..Len(promoted) = {}
  BY <1>2
<1>4. \A g : Outstanding(g) = {}
  BY <1>2, <1>3 DEF Outstanding
<1>5. Counted
  BY <1>1, <1>4, FS_EmptySet DEF Counted
<1>6. Generations
  BY <1>2, <1>3 DEF Generations
<1>7. Awaiting /\ Demotable /\ Expected
  BY <1>2, <1>3 DEF Awaiting, OnceIn, Demotable, Expected
<1>8. FirstPass /\ LastPass
  BY <1>2 DEF FirstPass, LastPass, LastPhases
<1> QED BY <1>5, <1>6, <1>7, <1>8 DEF AccountInv

\* Every step of the system keeps the account.
LEMMA AccountStep == LoopInv /\ AccountInv /\ [Next]_vars => AccountInv'
<1> SUFFICES ASSUME LoopInv, AccountInv, [Next]_vars PROVE AccountInv'
  OBVIOUS
<1>1. CASE Engine
  <2>1. CASE \/ CommandsDone \/ HaltingDone \/ FillDone \/ SpawnDone \/ CompletionsDone
             \/ DemoteDone \/ ExitCheck \/ Exit \/ Wake
    BY <2>1, PhaseAccounts
  <2>2. CASE ProcessCommand
    BY <2>2, CommandAccounts
  <2>3. CASE Fill \/ Spawn \/ ProcessCompletion
    BY <2>3, FillAccounts, SpawnAccounts, CompletionAccounts
  <2>4. CASE Requeue \/ Find
    BY <2>4, RequeueAccounts, FindAccounts
  <2>5. CASE \E r \in running : HaltEntry(r)
    BY <2>5, HaltEntryAccounts
  <2>6. CASE \E d \in demoting : Demote(d)
    BY <2>6, DemoteAccounts
  <2>7. CASE \E usable \in BOOLEAN : Resolve(usable)
    BY <2>7, ResolveAccounts
  <2> QED BY <1>1, <2>1, <2>2, <2>3, <2>4, <2>5, <2>6, <2>7 DEF Engine
<1>2. CASE \E r \in running : WakeOnDeadline(r)
  BY <1>2, DeadlineAccounts
<1>3. CASE WakeOnShutdown
  BY <1>3, ShutdownSignalAccounts
<1>4. CASE \E t \in tasks : TaskStep(t)
  BY <1>4, TaskAccounts
<1>5. CASE ClientOp
  BY <1>5, GidCallAccounts, GlobalCallAccounts DEF ClientOp
<1>6. CASE ClientStep
  BY <1>6, OptionStepAccounts, SendAccounts DEF ClientStep
<1>7. CASE UNCHANGED vars
  <2>1. KeepMan /\ UNCHANGED <<workVars, promoted, demoting>> /\ UNCHANGED <<phase, first_pass>>
    BY <1>7 DEF vars, KeepMan, engineVars, passVars
  <2> QED BY <2>1, MildNothing, MildStep DEF LoopInv
<1> QED BY <1>1, <1>2, <1>3, <1>4, <1>5, <1>6, <1>7 DEF Next

\* Types, homes and the account together are inductive.
LEMMA AccountAlways == Spec => [](LoopInv /\ AccountInv)
<1>1. Init => LoopInv /\ AccountInv
  BY LoopInit, AccountInit
<1>2. (LoopInv /\ AccountInv) /\ [Next]_vars => (LoopInv /\ AccountInv)'
  BY LoopStep, AccountStep
<1> QED BY <1>1, <1>2, PTL DEF Spec

\* num_commands of every live download is exact, although completions are sent
\* twice and arrive late: a group is settled by its last command, and only then
\* requeued, demoted or removed.
THEOREM CommandsAreBalanced == Spec => []CommandsBalanced
<1>1. LoopInv /\ AccountInv => CommandsBalanced
  BY DEF LoopInv, ManInv, ManTypeOK, AccountInv, Counted, CommandsBalanced
<1> QED BY <1>1, AccountAlways, PTL

\* The engine knows every task, and every entry it waits for is still to come.
THEOREM TasksAreTracked == Spec => []Tracked
<1>1. ASSUME LoopInv, AccountInv PROVE Tracked
  <2>1. ASSUME NEW t \in tasks PROVE t.gid \in active /\ \E r \in running : r.generation = t.generation
    <3>1. t.generation \notin completed /\ \E r \in running : r.generation = t.generation
      BY <1>1 DEF AccountInv, Generations
    <3>2. t.generation \in Outstanding(t.gid)
      BY <3>1, OutstandingIs
    <3>3. t.gid \in Gids
      BY <1>1 DEF LoopInv, WorkTyped, Task
    <3> QED BY <1>1, <3>1, <3>2, <3>3 DEF AccountInv, Counted
  <2>2. \A r \in running : r.generation \in Outstanding(r.gid)
    BY <1>1 DEF AccountInv, Generations
  <2> QED BY <2>1, <2>2 DEF Tracked
<1>2. LoopInv /\ AccountInv => Tracked
  BY <1>1
<1> QED BY <1>2, AccountAlways, PTL

\* The counters of the groups, the engine's entries and the tasks with their
\* completions agree, however a command ends.
THEOREM CommandsAreAccounted == Spec => []Accounted
<1>1. CommandsBalanced /\ Tracked => Accounted
  BY DEF Accounted
<1> QED BY <1>1, CommandsAreBalanced, TasksAreTracked, PTL

\* Whatever ended the engine, it leaves no task, no completion that was not
\* accounted for and no finished download without its result.
THEOREM EngineLeavesQuietly == Spec => []ExitedIsQuiet
<1>1. ASSUME LoopInv, AccountInv, phase = "exited"
      PROVE  /\ tasks = {} /\ \A g \in Gids : Outstanding(g) = {}
             /\ \A g \in active : ~IsTerminal(group[g])
  <2>1. phase \in LastPhases /\ running = {} /\ demoting = {}
    BY <1>1 DEF AccountInv, LastPass, LastPhases, Demotable
  <2>2. tasks = {} /\ \A g : Outstanding(g) = {}
    BY <1>1, <2>1, NothingOutstanding
  <2>3. \A g \in active : ~IsTerminal(group[g])
    BY <1>1, <2>1 DEF AccountInv, LastPass
  <2> QED BY <2>2, <2>3
<1>2. LoopInv /\ AccountInv => ExitedIsQuiet
  BY <1>1 DEF ExitedIsQuiet
<1> QED BY <1>2, AccountAlways, PTL


-----------------------------------------------------------------------------
(***************************************************************************)
(* The engine implements DownloadLifecycle.                                *)
(***************************************************************************)
StageMap == [g \in Gids |-> Stage(g)]
Workers == {[gid |-> t.gid, generation |-> t.generation] : t \in tasks}

\* A download that neither moves nor, while it is in no queue, changes.
Still(g) ==
    /\ g \in active' <=> g \in active
    /\ g \in groups' <=> g \in groups
    /\ g \notin groups => stopped'[g] = stopped[g] /\ group'[g] = group[g]

\* What the stages say of the queues, and that the two modules count alike.
LEMMA StageMeaning ==
    ASSUME ManInv
    PROVE  /\ Lifecycle!In("Running") = active
           /\ Lifecycle!In("Queued") = ReservedIds
           /\ \A S : Lifecycle!Cardinality(S) = Cardinality(S)
           /\ active \subseteq groups /\ ReservedIds = groups \ active /\ groups \subseteq Gids
<1>1. active \subseteq groups /\ ReservedIds = groups \ active /\ groups \subseteq Gids
  BY DEF ManInv, OneHome, ManTypeOK
<1>2. \A S : Lifecycle!Cardinality(S) = Cardinality(S)
  BY DEF Lifecycle!Cardinality, Cardinality
<1>3. Lifecycle!In("Running") = active
  BY <1>1 DEF Lifecycle!In, Stage
<1>4. Lifecycle!In("Queued") = ReservedIds
  BY <1>1 DEF Lifecycle!In, Stage
<1> QED BY <1>1, <1>2, <1>3, <1>4

\* Only active downloads with an outstanding command have a worker.
LEMMA OnlyActiveWorked ==
    ASSUME LoopInv, AccountInv, NEW g \in Lifecycle!Worked
    PROVE  g \in active /\ Outstanding(g) # {} /\ \E t \in tasks : t.gid = g
<1>1. PICK t \in tasks : t.gid = g
  BY DEF Lifecycle!Worked
<1>2. g \in Gids
  BY <1>1 DEF LoopInv, WorkTyped, Task
<1>3. t.generation \in Outstanding(g)
  <2>1. t.generation \notin completed
    BY <1>1 DEF AccountInv, Generations
  <2> QED BY <1>1, <2>1, OutstandingIs
<1> QED BY <1>1, <1>2, <1>3 DEF AccountInv, Counted

\* The stages after a step in which the downloads of S move to one stage.
LEMMA StagesAfter ==
    ASSUME NEW S \in SUBSET Gids, NEW s, \A g \in Gids \ S : Still(g), \A g \in S : Stage(g)' = s
    PROVE  StageMap' = [g \in Gids |-> IF g \in S THEN s ELSE StageMap[g]]
<1>1. \A g \in Gids \ S : Stage(g)' = Stage(g)
  BY DEF Still, Stage
<1> QED BY <1>1 DEF StageMap

\* The same when one download moves.
LEMMA OneStageAfter ==
    ASSUME NEW g \in Gids, NEW s, \A h \in Gids \ {g} : Still(h), Stage(g)' = s
    PROVE  /\ StageMap' = [StageMap EXCEPT ![g] = s]
           /\ {g} \in SUBSET Gids /\ \A h \in {g} : Stage(h)' = s
<1>1. \A h \in Gids \ {g} : Stage(h)' = Stage(h)
  BY DEF Still, Stage
<1>2. \A h \in {g} : Stage(h)' = s
  BY DEF Stage
<1> QED BY <1>1, <1>2 DEF StageMap

\* Nothing moves.
LEMMA SameStages ==
    ASSUME \A g \in Gids : Still(g)
    PROVE  StageMap' = StageMap
<1>1. \A g \in Gids : Stage(g)' = Stage(g)
  BY DEF Still, Stage
<1> QED BY <1>1 DEF StageMap

\* A step in which nothing moves and no worker comes or goes is a stutter,
\* unless it sets the limit.
LEMMA StillMaps ==
    ASSUME \A g \in Gids : Still(g), Workers' = Workers
    PROVE  /\ max_concurrent' = max_concurrent => UNCHANGED Lifecycle!dvars
           /\ max_concurrent' \in Limits \cup {InitialMax} => Lifecycle!SetLimit
<1>1. StageMap' = StageMap
  BY SameStages
<1> QED BY <1>1 DEF Lifecycle!dvars, Lifecycle!SetLimit, StageMap, Workers

\* Downloads without a worker change their stage together.
LEMMA MoveMaps ==
    ASSUME LoopInv, NEW S \in SUBSET Gids, S # {}, S \cap Lifecycle!Worked = {},
           NEW s \in {"Queued", "Interrupted", "Ended"},
           S \subseteq active \cup (IF s = "Ended" THEN ReservedIds ELSE {}),
           \A g \in Gids \ S : Still(g), \A g \in S : Stage(g)' = s,
           Workers' = Workers, max_concurrent' = max_concurrent
    PROVE  Lifecycle!Next
<1>1. StageMap' = [g \in Gids |-> IF g \in S THEN s ELSE StageMap[g]]
  BY StagesAfter
<1>2. S \subseteq Lifecycle!In("Running") \cup (IF s = "Ended" THEN Lifecycle!In("Queued") ELSE {})
  BY StageMeaning DEF LoopInv
<1>3. Lifecycle!Move(S)
  BY <1>1, <1>2 DEF Lifecycle!Move, StageMap, Workers
<1> QED BY <1>3 DEF Lifecycle!Next

\* A task that ends takes its worker with it.
LEMMA LeaveMaps ==
    ASSUME LoopInv, AccountInv, \A g \in Gids : Still(g), max_concurrent' = max_concurrent,
           NEW u \in tasks, tasks' = tasks \ {u}
    PROVE  Lifecycle!Next
<1>1. StageMap' = StageMap
  BY SameStages
<1> DEFINE w == [gid |-> u.gid, generation |-> u.generation]
<1>2. \A t \in tasks \ {u} : t.generation # u.generation
  BY DEF AccountInv, Generations
<1>3. Workers' = Workers \ {w} /\ w \in Workers
  BY <1>2 DEF Workers
<1>4. Lifecycle!Leave(w)
  BY <1>1, <1>3 DEF Lifecycle!Leave, StageMap, Workers
<1> QED BY <1>3, <1>4 DEF Lifecycle!Next, Workers

-----------------------------------------------------------------------------
\* Operations that only change records of live downloads move nobody.
LEMMA RecordsStill ==
    ASSUME UNCHANGED <<groups, active, stopped>>, \A g \in Gids \ groups : group'[g] = group[g]
    PROVE  \A g \in Gids : Still(g)
BY DEF Still

\* Asking for pauses, resumptions and halts, and setting the limit, are such.
LEMMA RequestsStill ==
    ASSUME ManInv, NEW g, NEW reason, NEW max,
           \/ PauseGroup(g) \/ UnpauseGroup(g) \/ PauseAll \/ UnpauseAll \/ HaltAll(reason)
           \/ TimeoutGroup(g) \/ SetMaxConcurrent(max)
    PROVE  \A h \in Gids : Still(h)
<1>1. active \subseteq groups /\ groups \subseteq Gids /\ GraphGroups(g) \subseteq groups
      /\ group \in [Gids -> GroupRecord]
  BY DEF ManInv, ManTypeOK, OneHome, GraphGroups
<1>2. UNCHANGED <<groups, active, stopped>>
  BY DEF PauseGroup, UnpauseGroup, PauseAll, UnpauseAll, HaltAll, TimeoutGroup, SetMaxConcurrent
<1>3. CASE PauseGroup(g) \/ UnpauseGroup(g) \/ PauseAll \/ UnpauseAll \/ HaltAll(reason)
  <2>1. \A h \in Gids \ groups : group'[h] = group[h]
    BY <1>1, <1>3 DEF PauseGroup, UnpauseGroup, PauseAll, UnpauseAll, HaltAll, Apply
  <2> QED BY <1>2, <2>1, RecordsStill
<1>4. CASE TimeoutGroup(g)
  <2>1. \A h \in Gids \ groups : group'[h] = group[h]
    BY <1>1, <1>4 DEF TimeoutGroup
  <2> QED BY <1>2, <2>1, RecordsStill
<1>5. CASE SetMaxConcurrent(max)
  <2>1. PICK victims \in SUBSET active : group' = Apply(victims, LAMBDA r : RequestRestart(Pause(r)))
    BY <1>5 DEF SetMaxConcurrent
  <2>2. \A h \in Gids \ groups : group'[h] = group[h]
    BY <1>1, <2>1 DEF Apply
  <2> QED BY <1>2, <2>2, RecordsStill
<1> QED BY <1>3, <1>4, <1>5

\* A settled download that is in no queue enters one.
LEMMA AddMaps ==
    ASSUME LoopInv, NEW g \in Gids, ~Live(g), stopped[g] = NoResult \/ ~IsTerminal(group[g]),
           AddGroup(g), Workers' = Workers
    PROVE  Lifecycle!Next
<1>1. active \subseteq groups /\ g \notin active /\ g \notin groups /\ group \in [Gids -> GroupRecord]
  BY DEF LoopInv, ManInv, OneHome, ManTypeOK, Live
<1>2. \A h \in Gids \ {g} : Still(h)
  BY <1>1 DEF AddGroup, Still
<1>3. Stage(g)' = "Queued"
  BY <1>1 DEF AddGroup, Stage
<1>4. StageMap' = [StageMap EXCEPT ![g] = "Queued"]
  BY <1>2, <1>3, OneStageAfter
<1>5. StageMap[g] \in {"New", "Interrupted"}
  BY <1>1 DEF StageMap, Stage
<1>6. max_concurrent' = max_concurrent
  BY DEF AddGroup
<1>7. Lifecycle!Enqueue(g)
  BY <1>4, <1>5, <1>6 DEF Lifecycle!Enqueue, StageMap, Workers
<1> QED BY <1>7 DEF Lifecycle!Next

\* A download that left with a recorded result is over when its status is
\* terminal, and interrupted otherwise.
LEMMA LeftStage ==
    ASSUME NEW g, g \notin active', g \notin groups', stopped'[g] # NoResult
    PROVE  /\ IsTerminal(group'[g]) => Stage(g)' = "Ended"
           /\ ~IsTerminal(group'[g]) => Stage(g)' = "Interrupted"
BY DEF Stage

\* A recorded result is there afterwards, and the results of others are as before.
LEMMA Recorded ==
    ASSUME ManInv, NEW g \in Gids, NEW result \in ResultRecord, stopped' = Record(stopped, g, result)
    PROVE  stopped'[g] # NoResult /\ \A h \in Gids \ {g} : stopped'[h] = stopped[h]
BY ManagerAssumption DEF ManInv, ManTypeOK, Record

\* A queued download that is removed, or fails for want of its metadata, ends.
LEMMA DropMaps ==
    ASSUME LoopInv, AccountInv, NEW g \in ReservedIds, NEW r, IsTerminal(r), DownloadResult(r) \in ResultRecord,
           group' = [group EXCEPT ![g] = r], groups' = groups \ {g},
           stopped' = Record(stopped, g, DownloadResult(r)),
           UNCHANGED <<active, max_concurrent>>, Workers' = Workers
    PROVE  Lifecycle!Next
<1>1. /\ g \in Gids /\ g \notin active /\ group \in [Gids -> GroupRecord]
      /\ g \in active \cup ReservedIds
  BY DEF LoopInv, ManInv, OneHome, ManTypeOK
<1>2. stopped'[g] # NoResult /\ \A h \in Gids \ {g} : stopped'[h] = stopped[h]
  BY <1>1, Recorded DEF LoopInv
<1>3. \A h \in Gids \ {g} : Still(h)
  BY <1>1, <1>2 DEF Still
<1>4. group'[g] = r
  BY <1>1
<1>5. Stage(g)' = "Ended"
  BY <1>1, <1>2, <1>4, LeftStage
<1>6. g \notin Lifecycle!Worked
  BY <1>1, OnlyActiveWorked
<1>7. {g} \subseteq active \cup (IF "Ended" = "Ended" THEN ReservedIds ELSE {})
  BY <1>1
<1>8. {g} \in SUBSET Gids /\ \A h \in {g} : Stage(h)' = "Ended"
  BY <1>1, <1>3, <1>5, OneStageAfter
<1>9. {g} # {} /\ {g} \cap Lifecycle!Worked = {}
  BY <1>6
<1> QED BY <1>3, <1>7, <1>8, <1>9, MoveMaps

\* Removal asks an active download to halt and ends a queued one.
LEMMA RemoveMaps ==
    ASSUME LoopInv, AccountInv, NEW g, RemoveGroup(g), Workers' = Workers
    PROVE  Lifecycle!Next \/ UNCHANGED Lifecycle!dvars
<1>1. /\ active \subseteq groups /\ groups \subseteq Gids /\ group \in [Gids -> GroupRecord]
      /\ reserved \in Seq(Gids)
  BY DEF LoopInv, ManInv, OneHome, ManTypeOK
<1>2. CASE g \in active
  <2>1. UNCHANGED <<groups, active, stopped, max_concurrent>> /\ \A h \in Gids \ groups : group'[h] = group[h]
    BY <1>1, <1>2 DEF RemoveGroup
  <2> QED BY <2>1, RecordsStill, StillMaps
<1>3. CASE g \notin active
  <2>1. g \in ReservedIds /\ g \in Gids
    BY <1>1, <1>3, ElementOfSeq DEF RemoveGroup, ReservedIds, ToSet
  <2>2. MarkRemoved(group[g]) \in GroupRecord
    BY <1>1, <2>1, GroupTransitions
  <2>3. DownloadResult(MarkRemoved(group[g])) \in ResultRecord
    BY <2>2, ResultType
  <2>4. IsTerminal(MarkRemoved(group[g]))
    BY <1>1, <2>1 DEF MarkRemoved, IsTerminal, GroupRecord
  <2>5. group' = [group EXCEPT ![g] = MarkRemoved(group[g])]
    BY <1>3 DEF RemoveGroup
  <2> QED BY <1>3, <2>1, <2>3, <2>4, <2>5, DropMaps DEF RemoveGroup
<1> QED BY <1>2, <1>3

\* Emptying the queue ends what was in it.
LEMMA ForceRemoveMaps ==
    ASSUME LoopInv, AccountInv, NEW current \in [Gids -> GroupRecord],
           \A g \in Gids \ groups : current[g] = group[g],
           ForceRemoveReserved(current), Workers' = Workers
    PROVE  Lifecycle!Next \/ UNCHANGED Lifecycle!dvars
<1>1. /\ active \subseteq groups /\ ReservedIds = groups \ active /\ groups \subseteq Gids
      /\ stopped \in [Gids -> ResultRecord \cup {NoResult}] /\ NoResult \notin ResultRecord
  BY ManagerAssumption DEF LoopInv, ManInv, OneHome, ManTypeOK
<1>2. \A g \in Gids : /\ MarkRemoved(current[g]) \in GroupRecord
                       /\ DownloadResult(MarkRemoved(current[g])) \in ResultRecord
                       /\ IsTerminal(MarkRemoved(current[g]))
  <2> TAKE g \in Gids
  <2>1. MarkRemoved(current[g]) \in GroupRecord
    BY GroupTransitions
  <2>2. IsTerminal(MarkRemoved(current[g]))
    BY DEF MarkRemoved, IsTerminal, GroupRecord
  <2> QED BY <2>1, <2>2, ResultType
<1>3. \A g \in Gids \ ReservedIds : Still(g)
  BY <1>1 DEF ForceRemoveReserved, Still
<1>4. max_concurrent' = max_concurrent
  BY DEF ForceRemoveReserved
<1>5. \A g \in ReservedIds : Stage(g)' = "Ended"
  <2> TAKE g \in ReservedIds
  <2>1. g \in Gids /\ g \notin active' /\ g \notin groups' /\ group'[g] = MarkRemoved(current[g])
    BY <1>1 DEF ForceRemoveReserved
  <2>2. stopped'[g] # NoResult
    BY <1>1, <1>2, <2>1 DEF ForceRemoveReserved
  <2> QED BY <1>2, <2>1, <2>2, LeftStage
<1>6. CASE ReservedIds = {}
  BY <1>3, <1>4, <1>6, StillMaps
<1>7. CASE ReservedIds # {}
  <2>1. ReservedIds \cap Lifecycle!Worked = {}
    BY <1>1, OnlyActiveWorked
  <2>2. ReservedIds \in SUBSET Gids /\ ReservedIds \subseteq active \cup (IF "Ended" = "Ended" THEN ReservedIds ELSE {})
    BY <1>1
  <2> QED BY <1>3, <1>4, <1>5, <1>7, <2>1, <2>2, MoveMaps
<1> QED BY <1>6, <1>7

-----------------------------------------------------------------------------
\* Every command of a client, refused or not.
LEMMA CommandMaps ==
    ASSUME LoopInv, AccountInv, LimitTyped', NEW c \in Command, ApplyCommand(c), Workers' = Workers
    PROVE  Lifecycle!Next \/ UNCHANGED Lifecycle!dvars
<1>0. ASSUME KeepMan PROVE UNCHANGED Lifecycle!dvars
  <2>1. \A g \in Gids : Still(g)
    BY <1>0 DEF KeepMan, manVars, Still
  <2> QED BY <1>0, <2>1, StillMaps DEF KeepMan, manVars
<1>1. CASE c.op = "AddDownload"
  <2>1. c.gid \in Gids
    BY <1>1 DEF Command, GidOps
  <2>2. ~KeepMan => CanAdd(c.gid) /\ AddGroup(c.gid)
    BY <1>1 DEF ApplyCommand, IfAllowed
  <2> QED BY <1>0, <2>1, <2>2, AddMaps DEF CanAdd
<1>2. CASE c.op = "Remove"
  <2>1. ~KeepMan => RemoveGroup(c.gid)
    BY <1>2 DEF ApplyCommand, IfAllowed
  <2> QED BY <1>0, <2>1, RemoveMaps
<1>3. CASE c.op \in {"Pause", "Unpause", "PauseAll", "UnpauseAll", "HaltAll"}
  <2>1. KeepMan \/ PauseGroup(c.gid) \/ UnpauseGroup(c.gid) \/ PauseAll \/ UnpauseAll \/ HaltAll("ShutdownSignal")
    BY <1>3 DEF ApplyCommand, IfAllowed
  <2>2. ASSUME ~KeepMan PROVE (\A g \in Gids : Still(g)) /\ max_concurrent' = max_concurrent
    <3>1. PauseGroup(c.gid) \/ UnpauseGroup(c.gid) \/ PauseAll \/ UnpauseAll \/ HaltAll("ShutdownSignal")
      BY <2>1, <2>2
    <3>2. max_concurrent' = max_concurrent
      BY <3>1 DEF PauseGroup, UnpauseGroup, PauseAll, UnpauseAll, HaltAll
    <3> QED BY <3>1, <3>2, RequestsStill DEF LoopInv
  <2> QED BY <1>0, <2>2, StillMaps
<1>4. CASE c.op = "SetMaxConcurrent"
  <2>1. SetMaxConcurrent(c.max)
    BY <1>4 DEF ApplyCommand
  <2>2. \A g \in Gids : Still(g)
    BY <2>1, RequestsStill DEF LoopInv
  <2>3. Lifecycle!SetLimit
    BY <2>2, StillMaps DEF LimitTyped
  <2> QED BY <2>3 DEF Lifecycle!Next
<1>5. CASE c.op = "ForceHaltAll"
  <2> DEFINE current == [g \in Gids |-> IF g \in groups THEN RequestHalt(group[g], "ShutdownSignal") ELSE group[g]]
  <2>1. ForceRemoveReserved(current)
    BY <1>5 DEF ApplyCommand, Apply
  <2>2. current \in [Gids -> GroupRecord] /\ \A g \in Gids \ groups : current[g] = group[g]
    BY GroupTransitions DEF LoopInv, ManInv, ManTypeOK, HaltReasons
  <2> HIDE DEF current
  <2> QED BY <2>1, <2>2, ForceRemoveMaps
<1> QED BY <1>1, <1>2, <1>3, <1>4, <1>5 DEF Command, GidOps

\* A promoted download runs, within the limit.
LEMMA FillMaps ==
    ASSUME LoopInv, NEW k \in 1..Len(reserved), FillFromReserver(k), Workers' = Workers
    PROVE  Lifecycle!Next
<1>0. PICK g \in Gids : g = reserved[k]
  BY ElementOfSeq DEF LoopInv, ManInv, ManTypeOK
<1>1. /\ g \in ReservedIds /\ g \in groups /\ g \notin active
      /\ active \subseteq groups /\ group \in [Gids -> GroupRecord]
  BY <1>0 DEF LoopInv, ManInv, OneHome, ManTypeOK, ReservedIds, ToSet
<1>2. /\ HasSlot /\ active' = active \cup {g} /\ UNCHANGED <<groups, stopped, max_concurrent>>
      /\ group' = [group EXCEPT ![g] = Promoted(@)]
  BY <1>0 DEF FillFromReserver
<1>3. (\A h \in Gids \ {g} : Still(h)) /\ Stage(g)' = "Running"
  BY <1>1, <1>2 DEF Still, Stage
<1>4. StageMap' = [StageMap EXCEPT ![g] = "Running"]
  BY <1>1, <1>3, OneStageAfter
<1>5. StageMap[g] = "Queued"
  BY <1>1 DEF StageMap, Stage
<1>6. max_concurrent = 0 \/ Lifecycle!Cardinality(Lifecycle!In("Running")) < max_concurrent
  BY <1>2, StageMeaning DEF HasSlot, LoopInv
<1>7. Lifecycle!Promote(g)
  BY <1>2, <1>4, <1>5, <1>6 DEF Lifecycle!Promote, StageMap, Workers
<1> QED BY <1>1, <1>7 DEF Lifecycle!Next

\* One active download without a command leaves with a result.
LEMMA EndMaps ==
    ASSUME LoopInv, AccountInv, NEW g \in active, Outstanding(g) = {}, NEW result \in ResultRecord,
           active' = active \ {g}, groups' = groups \ {g}, stopped' = Record(stopped, g, result),
           \A h \in Gids \ {g} : group'[h] = group[h], max_concurrent' = max_concurrent, Workers' = Workers
    PROVE  Lifecycle!Next
<1>1. g \in Gids
  BY DEF LoopInv, ManInv, ManTypeOK
<1>2. stopped'[g] # NoResult /\ \A h \in Gids \ {g} : stopped'[h] = stopped[h]
  BY <1>1, Recorded DEF LoopInv
<1>3. \A h \in Gids \ {g} : Still(h)
  BY <1>2 DEF Still
<1>4. PICK s \in {"Interrupted", "Ended"} : Stage(g)' = s
  BY <1>2, LeftStage
<1>5. {g} \in SUBSET Gids /\ \A h \in {g} : Stage(h)' = s
  BY <1>1, <1>3, <1>4, OneStageAfter
<1>6. {g} # {} /\ {g} \cap Lifecycle!Worked = {} /\ {g} \subseteq active \cup (IF s = "Ended" THEN ReservedIds ELSE {})
  BY OnlyActiveWorked
<1> QED BY <1>3, <1>4, <1>5, <1>6, MoveMaps

\* A promoted group gets its first worker, or leaves when there is nothing to
\* download it from.
LEMMA SpawnMaps ==
    ASSUME LoopInv, AccountInv, Spawn PROVE Lifecycle!Next
<1>1. promoted \in Seq(Gids) /\ promoted # <<>>
  BY DEF LoopInv, PassTyped, Spawn
<1>2. PICK g \in Gids : g = Head(promoted) /\ g = promoted[1] /\ 1 \in 1..Len(promoted)
  BY <1>1
<1>3. g \in active /\ Outstanding(g) = {}
  BY <1>2 DEF AccountInv, Awaiting
<1>4. group \in [Gids -> GroupRecord] /\ active \subseteq groups
  BY DEF LoopInv, ManInv, OneHome, ManTypeOK
<1>5. CASE g \in Unspawnable
  <2>1. FailSpawnedGroup(g) /\ tasks' = tasks
    BY <1>2, <1>5 DEF Spawn
  <2>2. MarkError(group[g]) \in GroupRecord
    BY <1>2, <1>4, GroupTransitions
  <2>3. DownloadResult(MarkError(group[g])) \in ResultRecord
    BY <2>2, ResultType
  <2>4. /\ active' = active \ {g} /\ groups' = groups \ {g} /\ max_concurrent' = max_concurrent
        /\ stopped' = Record(stopped, g, DownloadResult(MarkError(group[g])))
        /\ \A h \in Gids \ {g} : group'[h] = group[h]
    BY <1>2, <1>3, <1>4, <2>1 DEF FailSpawnedGroup
  <2>5. Workers' = Workers
    BY <2>1 DEF Workers
  <2> QED BY <1>3, <2>3, <2>4, <2>5, EndMaps
<1>6. CASE g \notin Unspawnable
  <2> DEFINE started == [gid |-> g, generation |-> next_generation, stage |-> "starting"]
  <2>0. /\ group' = [group EXCEPT ![g] = IncCommands(@)]
        /\ UNCHANGED <<groups, active, reserved, stopped, max_concurrent>>
        /\ tasks' = tasks \cup {started} /\ started.gid = g
    BY <1>2, <1>6 DEF Spawn
  <2> HIDE DEF started
  <2>1. PICK u : /\ group' = [group EXCEPT ![g] = IncCommands(@)]
                 /\ UNCHANGED <<groups, active, reserved, stopped, max_concurrent>>
                 /\ tasks' = tasks \cup {u} /\ u.gid = g
    BY <2>0
  <2> DEFINE w == [gid |-> u.gid, generation |-> u.generation]
  <2>2. \A h \in Gids : Still(h)
    BY <1>2, <1>3, <1>4, <2>1 DEF Still
  <2>3. StageMap' = StageMap
    BY <2>2, SameStages
  <2>4. Workers' = Workers \cup {w} /\ w.gid = g /\ w \in Workers'
    BY <2>1 DEF Workers
  <2>5. StageMap[g] = "Running"
    BY <1>2, <1>3 DEF StageMap, Stage
  <2>6. g \notin Lifecycle!Worked
    BY <1>3, OnlyActiveWorked
  <2>7. Lifecycle!Work(g)
    BY <2>1, <2>3, <2>4, <2>5, <2>6 DEF Lifecycle!Work, StageMap, Workers
  <2> QED BY <1>2, <2>7 DEF Lifecycle!Next
<1> QED BY <1>5, <1>6

\* Groups without a command return to the queue.
LEMMA RequeueMaps ==
    ASSUME LoopInv, AccountInv, RequeueNonTerminalGroups, Workers' = Workers
    PROVE  Lifecycle!Next \/ UNCHANGED Lifecycle!dvars
<1>1. /\ WorkTyped /\ Generations /\ active \subseteq Gids /\ active \subseteq groups
      /\ Requeueable \subseteq active
  BY DEF LoopInv, AccountInv, ManInv, ManTypeOK, OneHome, Requeueable
<1>2. \A g \in Requeueable : Outstanding(g) = {}
  BY <1>1, OutstandingFinite DEF AccountInv, Counted, Requeueable
<1>3. /\ active' = active \ Requeueable /\ group' = Apply(Requeueable, Requeued)
      /\ UNCHANGED <<groups, stopped, max_concurrent>>
  BY DEF RequeueNonTerminalGroups
<1>4. \A g \in Gids \ Requeueable : Still(g)
  BY <1>3 DEF Still, Apply
<1>5. \A g \in Requeueable : Stage(g)' = "Queued"
  BY <1>1, <1>3 DEF Stage
<1>6. CASE Requeueable = {}
  BY <1>3, <1>4, <1>6, StillMaps
<1>7. CASE Requeueable # {}
  <2>1. Requeueable \cap Lifecycle!Worked = {} /\ Requeueable \in SUBSET Gids
        /\ Requeueable \subseteq active \cup (IF "Queued" = "Ended" THEN ReservedIds ELSE {})
    BY <1>1, <1>2, OnlyActiveWorked
  <2> QED BY <1>3, <1>4, <1>5, <1>7, <2>1, MoveMaps
<1> QED BY <1>6, <1>7

\* A stopped group leaves.
LEMMA DemoteMaps ==
    ASSUME LoopInv, AccountInv, NEW d \in demoting, DemoteGroup(d), Workers' = Workers
    PROVE  Lifecycle!Next \/ UNCHANGED Lifecycle!dvars
<1>1. /\ d.gid \in Gids /\ d.result \in ResultRecord /\ Outstanding(d.gid) = {}
      /\ group \in [Gids -> GroupRecord]
  BY DEF LoopInv, PassTyped, ManInv, ManTypeOK, AccountInv, Demotable
<1>2. CASE d.gid \in active
  <2> DEFINE result == IF group[d.gid].status = "Complete" THEN DownloadResult(group[d.gid]) ELSE d.result
  <2>1. DownloadResult(group[d.gid]) \in ResultRecord
    BY <1>1, ResultType
  <2>2. result \in ResultRecord
    BY <1>1, <2>1
  <2>3. /\ active' = active \ {d.gid} /\ groups' = groups \ {d.gid} /\ max_concurrent' = max_concurrent
        /\ stopped' = Record(stopped, d.gid, result) /\ \A h \in Gids \ {d.gid} : group'[h] = group[h]
    BY <1>2 DEF DemoteGroup
  <2> HIDE DEF result
  <2> QED BY <1>1, <1>2, <2>2, <2>3, EndMaps
<1>3. CASE d.gid \notin active
  <2>1. (\A g \in Gids : Still(g)) /\ max_concurrent' = max_concurrent
    BY <1>3 DEF DemoteGroup, manVars, Still
  <2> QED BY <2>1, StillMaps
<1> QED BY <1>2, <1>3

\* A payload is released in the queue, or ends there.
LEMMA ResolveMaps ==
    ASSUME LoopInv, AccountInv, NEW m, NEW usable, ResolveDependencies(m, usable), Workers' = Workers
    PROVE  Lifecycle!Next \/ UNCHANGED Lifecycle!dvars
<1>1. CASE UNCHANGED manVars
  <2>1. (\A g \in Gids : Still(g)) /\ max_concurrent' = max_concurrent
    BY <1>1 DEF manVars, Still
  <2> QED BY <2>1, StillMaps
<1>2. CASE ~UNCHANGED manVars
  <2>1. PICK k \in 1..Len(reserved) :
          LET g == reserved[k] IN
          \/ /\ group' = [group EXCEPT ![g].resolved = TRUE]
             /\ UNCHANGED <<groups, active, reserved, stopped, max_concurrent>>
          \/ /\ group' = [group EXCEPT ![g] = MarkError(@)]
             /\ groups' = groups \ {g}
             /\ reserved' = RemoveAt(reserved, k)
             /\ stopped' = Record(stopped, g, DownloadResult(MarkError(group[g])))
             /\ UNCHANGED <<active, max_concurrent>>
    BY <1>2 DEF ResolveDependencies
  <2> DEFINE g == reserved[k]
  <2>2. /\ group \in [Gids -> GroupRecord] /\ g \in Gids /\ g \in ReservedIds /\ g \in groups
    BY ElementOfSeq DEF LoopInv, ManInv, OneHome, ManTypeOK, ReservedIds, ToSet
  <2>3. MarkError(group[g]) \in GroupRecord
    BY <2>2, GroupTransitions
  <2>4. DownloadResult(MarkError(group[g])) \in ResultRecord
    BY <2>3, ResultType
  <2>5. IsTerminal(MarkError(group[g]))
    BY <2>2 DEF MarkError, IsTerminal, GroupRecord
  <2>6. CASE /\ group' = [group EXCEPT ![g].resolved = TRUE]
             /\ UNCHANGED <<groups, active, reserved, stopped, max_concurrent>>
    <3>1. \A h \in Gids \ groups : group'[h] = group[h]
      BY <2>2, <2>6
    <3>2. \A h \in Gids : Still(h)
      BY <2>6, <3>1, RecordsStill
    <3> QED BY <2>6, <3>2, StillMaps
  <2>7. CASE /\ group' = [group EXCEPT ![g] = MarkError(@)]
             /\ groups' = groups \ {g}
             /\ reserved' = RemoveAt(reserved, k)
             /\ stopped' = Record(stopped, g, DownloadResult(MarkError(group[g])))
             /\ UNCHANGED <<active, max_concurrent>>
    <3> HIDE DEF g
    <3>1. group' = [group EXCEPT ![g] = MarkError(group[g])]
      BY <2>7
    <3> QED BY <2>2, <2>4, <2>5, <2>7, <3>1, DropMaps
  <2> QED BY <2>1, <2>6, <2>7
<1> QED BY <1>1, <1>2

-----------------------------------------------------------------------------
\* Leaving the manager alone, or changing the record of one live download,
\* moves nobody.
LEMMA ManagerStill ==
    ASSUME LoopInv, NEW g, NEW r, KeepMan \/ (g \in groups /\ SetGroup(g, r))
    PROVE  (\A h \in Gids : Still(h)) /\ max_concurrent' = max_concurrent
<1>1. CASE KeepMan
  BY <1>1 DEF KeepMan, manVars, Still
<1>2. CASE g \in groups /\ SetGroup(g, r)
  <2>1. group \in [Gids -> GroupRecord] /\ \A h \in Gids \ groups : group'[h] = group[h]
    BY <1>2 DEF LoopInv, ManInv, ManTypeOK, SetGroup
  <2> QED BY <1>2, <2>1, RecordsStill DEF SetGroup
<1> QED BY <1>1, <1>2

\* A forced halt takes the workers away that do not end in time.
LEMMA HaltEntryMaps ==
    ASSUME LoopInv, AccountInv, NEW r \in running, HaltEntry(r)
    PROVE  Lifecycle!Next \/ UNCHANGED Lifecycle!dvars
<1> DEFINE alive == {t \in tasks : t.generation = r.generation}
<1>1. KeepMan /\ (tasks' = tasks \ alive \/ tasks' = tasks)
  BY DEF HaltEntry, KeepMan
<1>2. (\A h \in Gids : Still(h)) /\ max_concurrent' = max_concurrent
  BY <1>1, ManagerStill
<1>3. CASE tasks' = tasks
  BY <1>2, <1>3, StillMaps DEF Workers
<1>4. CASE tasks' # tasks
  <2>1. PICK u \in tasks : u.generation = r.generation
    BY <1>1, <1>4
  <2>2. alive = {u}
    BY <2>1 DEF AccountInv, Generations
  <2>3. tasks' = tasks \ {u}
    BY <1>1, <1>4, <2>2
  <2> QED BY <1>2, <2>3, LeaveMaps
<1> QED BY <1>3, <1>4

\* A task works on, or ends.
LEMMA TaskMaps ==
    ASSUME LoopInv, AccountInv, NEW t \in tasks, TaskStep(t)
    PROVE  Lifecycle!Next \/ UNCHANGED Lifecycle!dvars
<1>1. t \in Task /\ t.gid \in groups
  <2>1. t \in Task
    BY DEF LoopInv, WorkTyped
  <2>2. t.gid \in Lifecycle!Worked
    <3> DEFINE w == [gid |-> t.gid, generation |-> t.generation]
    <3>1. w.gid = t.gid /\ w \in Workers
      BY DEF Workers
    <3> HIDE DEF w
    <3> QED BY <3>1 DEF Lifecycle!Worked, Workers
  <2>3. t.gid \in active /\ active \subseteq groups
    BY <2>2, OnlyActiveWorked DEF LoopInv, ManInv, OneHome
  <2> QED BY <2>1, <2>3
<1>2. CASE TaskStart(t) \/ TaskComplete(t)
  <2>1. PICK s, r : MoveTask(t, s) /\ SetGroup(t.gid, r)
    BY <1>2 DEF TaskStart, TaskComplete
  <2>2. (\A h \in Gids : Still(h)) /\ max_concurrent' = max_concurrent
    BY <1>1, <2>1, ManagerStill
  <2>3. [t EXCEPT !.stage = s].gid = t.gid /\ [t EXCEPT !.stage = s].generation = t.generation
    BY <1>1 DEF Task
  <2>4. Workers' = Workers
    BY <2>1, <2>3 DEF MoveTask, Workers
  <2> QED BY <2>2, <2>4, StillMaps
<1>3. CASE TaskObserve(t) \/ TaskFail(t) \/ TaskSend(t)
  <2>1. KeepMan /\ tasks' = tasks \ {t}
    BY <1>3 DEF TaskObserve, TaskFail, TaskSend, EndTask
  <2>2. (\A h \in Gids : Still(h)) /\ max_concurrent' = max_concurrent
    BY <2>1, ManagerStill
  <2> QED BY <2>1, <2>2, LeaveMaps
<1>4. CASE TaskWait(t) \/ TaskAnswered(t)
  <2>1. PICK s : MoveTask(t, s)
    BY <1>4 DEF TaskWait, TaskAnswered
  <2>2. KeepMan
    BY <1>4 DEF TaskWait, TaskAnswered
  <2>3. (\A h \in Gids : Still(h)) /\ max_concurrent' = max_concurrent
    BY <2>2, ManagerStill
  <2>4. [t EXCEPT !.stage = s].gid = t.gid /\ [t EXCEPT !.stage = s].generation = t.generation
    BY <1>1 DEF Task
  <2>5. Workers' = Workers
    BY <2>1, <2>4 DEF MoveTask, Workers
  <2> QED BY <2>3, <2>5, StillMaps
<1> QED BY <1>2, <1>3, <1>4 DEF TaskStep

\* A completion settles the record of a live download at most.
LEMMA CompletionMaps ==
    ASSUME LoopInv, ProcessCompletion PROVE UNCHANGED Lifecycle!dvars
<1>1. PICK g : /\ UNCHANGED <<groups, active, stopped, max_concurrent>> /\ tasks' = tasks
               /\ \/ group' = group
                  \/ g \in groups /\ \E r : group' = [group EXCEPT ![g] = r]
  BY DEF ProcessCompletion, manVars, Live
<1>2. group \in [Gids -> GroupRecord] /\ \A h \in Gids \ groups : group'[h] = group[h]
  BY <1>1 DEF LoopInv, ManInv, ManTypeOK
<1>3. \A h \in Gids : Still(h)
  BY <1>1, <1>2, RecordsStill
<1> QED BY <1>1, <1>3, StillMaps DEF Workers

\* The calls of the clients queue a download, end queued ones, or ask for
\* something.
LEMMA ClientMaps ==
    ASSUME LoopInv, AccountInv, ClientOp \/ ClientStep
    PROVE  Lifecycle!Next \/ UNCHANGED Lifecycle!dvars
<1>1. Workers' = Workers
  <2>1. UNCHANGED workVars
    BY DEF ClientOp, ClientStep, RpcPause, RpcUnpause, RpcRemove, RpcAdd, ChangeOptionStore, RpcPauseAll,
           RpcUnpauseAll, HandleSend, RpcForceShutdown, ChangeOptionPause, ChangeOptionRestart, Send, KeepLoop
  <2> QED BY <2>1 DEF workVars, Workers
<1>2. ASSUME KeepMan PROVE UNCHANGED Lifecycle!dvars
  BY <1>1, <1>2, ManagerStill, StillMaps
<1>3. ASSUME NEW g, PauseGroup(g) \/ UnpauseGroup(g) \/ PauseAll \/ UnpauseAll PROVE UNCHANGED Lifecycle!dvars
  <2>1. max_concurrent' = max_concurrent
    BY <1>3 DEF PauseGroup, UnpauseGroup, PauseAll, UnpauseAll
  <2> QED BY <1>1, <1>3, <2>1, RequestsStill, StillMaps DEF LoopInv
<1>4. ASSUME NEW g \in groups, NEW r, SetGroup(g, r) PROVE UNCHANGED Lifecycle!dvars
  BY <1>1, <1>4, ManagerStill, StillMaps
<1>5. ASSUME NEW g \in Gids, RpcPause(g) \/ RpcUnpause(g) \/ RpcRemove(g) \/ RpcAdd(g) \/ ChangeOptionStore(g)
      PROVE  Lifecycle!Next \/ UNCHANGED Lifecycle!dvars
  <2>1. CASE RpcPause(g) \/ RpcUnpause(g)
    BY <1>3, <2>1 DEF RpcPause, RpcUnpause
  <2>2. CASE RpcRemove(g)
    BY <1>1, <2>2, RemoveMaps DEF RpcRemove
  <2>3. CASE RpcAdd(g)
    BY <1>1, <2>3, AddMaps DEF RpcAdd
  <2>4. CASE ChangeOptionStore(g)
    BY <1>4, <2>4 DEF ChangeOptionStore, Live
  <2> QED BY <1>5, <2>1, <2>2, <2>3, <2>4
<1>6. CASE RpcPauseAll \/ RpcUnpauseAll
  BY <1>3, <1>6 DEF RpcPauseAll, RpcUnpauseAll
<1>7. CASE HandleSend \/ \E c \in outbox : Send(c)
  BY <1>2, <1>7 DEF HandleSend, Send
<1>8. CASE RpcForceShutdown
  <2>1. group \in [Gids -> GroupRecord]
    BY DEF LoopInv, ManInv, ManTypeOK
  <2> QED BY <1>1, <1>8, <2>1, ForceRemoveMaps DEF RpcForceShutdown
<1>9. CASE \E c \in changing : ChangeOptionPause(c) \/ ChangeOptionRestart(c)
  BY <1>2, <1>3, <1>4, <1>9 DEF ChangeOptionPause, ChangeOptionRestart, Live
<1> QED BY <1>5, <1>6, <1>7, <1>8, <1>9 DEF ClientOp, ClientStep

\* Every step of the engine task.
LEMMA EngineMaps ==
    ASSUME LoopInv, AccountInv, LimitTyped', Engine
    PROVE  Lifecycle!Next \/ UNCHANGED Lifecycle!dvars
<1>1. CASE \/ CommandsDone \/ HaltingDone \/ FillDone \/ SpawnDone \/ CompletionsDone
           \/ Find \/ DemoteDone \/ ExitCheck \/ Exit \/ Wake
  <2>1. KeepMan /\ tasks' = tasks
    BY <1>1 DEF CommandsDone, HaltingDone, FillDone, SpawnDone, CompletionsDone, Find, DemoteDone,
                ExitCheck, Exit, Wake, workVars
  <2> QED BY <2>1, ManagerStill, StillMaps DEF Workers
<1>2. CASE ProcessCommand
  <2>1. PICK c : TakeCommand(c) /\ ApplyCommand(c)
    BY <1>2 DEF ProcessCommand
  <2>2. c \in Command /\ Workers' = Workers
    BY <1>2, <2>1, TakenCommand DEF LoopInv, ProcessCommand, workVars, Workers
  <2> QED BY <2>1, <2>2, CommandMaps
<1>3. CASE Fill
  <2>1. Workers' = Workers
    BY <1>3 DEF Fill, workVars, Workers
  <2> QED BY <1>3, <2>1, FillMaps DEF Fill
<1>4. CASE Spawn
  BY <1>4, SpawnMaps
<1>5. CASE ProcessCompletion
  BY <1>5, CompletionMaps
<1>6. CASE Requeue
  <2>1. RequeueNonTerminalGroups /\ Workers' = Workers
    BY <1>6 DEF Requeue, workVars, Workers
  <2> QED BY <2>1, RequeueMaps
<1>7. CASE \E r \in running : HaltEntry(r)
  BY <1>7, HaltEntryMaps
<1>8. CASE \E d \in demoting : Demote(d)
  <2>1. PICK d \in demoting : DemoteGroup(d) /\ Workers' = Workers
    BY <1>8 DEF Demote, workVars, Workers
  <2> QED BY <2>1, DemoteMaps
<1>9. CASE \E usable \in BOOLEAN : Resolve(usable)
  <2>1. PICK usable : ResolveDependencies(resolving, usable) /\ Workers' = Workers
    BY <1>9 DEF Resolve, workVars, Workers
  <2> QED BY <2>1, ResolveMaps
<1> QED BY <1>1, <1>2, <1>3, <1>4, <1>5, <1>6, <1>7, <1>8, <1>9 DEF Engine

\* The engine starts with nothing running.
LEMMA LifecycleInit == Init => Lifecycle!Init
<1> SUFFICES ASSUME Init PROVE Lifecycle!Init
  OBVIOUS
<1>1. \A g \in Gids : Stage(g) \in {"New", "Queued"}
  BY DEF Init, Stage
<1> QED BY <1>1 DEF Lifecycle!Init, Init

\* Every step of the system is a step of the life cycle or a stutter.
LEMMA LifecycleStep ==
    LoopInv /\ AccountInv /\ LimitTyped' /\ [Next]_vars => [Lifecycle!Next]_Lifecycle!dvars
<1> SUFFICES ASSUME LoopInv, AccountInv, LimitTyped', [Next]_vars
             PROVE  Lifecycle!Next \/ UNCHANGED Lifecycle!dvars
  OBVIOUS
<1>1. CASE Engine
  BY <1>1, EngineMaps
<1>2. CASE (\E r \in running : WakeOnDeadline(r)) \/ WakeOnShutdown
  <2>1. PICK g : TimeoutGroup(g) \/ HaltAll("ShutdownSignal")
    BY <1>2 DEF WakeOnDeadline, WakeOnShutdown
  <2>2. max_concurrent' = max_concurrent /\ Workers' = Workers
    BY <1>2 DEF WakeOnDeadline, WakeOnShutdown, TimeoutGroup, HaltAll, workVars, Workers
  <2> QED BY <2>1, <2>2, RequestsStill, StillMaps DEF LoopInv
<1>3. CASE \E t \in tasks : TaskStep(t)
  BY <1>3, TaskMaps
<1>4. CASE ClientOp \/ ClientStep
  BY <1>4, ClientMaps
<1>5. CASE UNCHANGED vars
  <2>1. KeepMan /\ Workers' = Workers
    BY <1>5 DEF vars, KeepMan, workVars, Workers
  <2> QED BY <2>1, ManagerStill, StillMaps
<1> QED BY <1>1, <1>2, <1>3, <1>4, <1>5 DEF Next

\* Whatever clients, engine and tasks do, a download waits, runs within the
\* limit, waits again or ends; it changes hands only while no task is on it,
\* has one task at most, and never comes back once it has ended.
THEOREM EngineImplementsLifecycle == Spec => ImplementsLifecycle
<1>1. LoopInv' => LimitTyped'
  BY DEF LoopInv
<1>2. (LoopInv /\ AccountInv) /\ (LoopInv /\ AccountInv)' /\ [Next]_vars
        => [Lifecycle!Next]_Lifecycle!dvars
  BY <1>1, LifecycleStep
<1> QED BY <1>2, LifecycleInit, AccountAlways, PTL DEF Spec, ImplementsLifecycle, Lifecycle!Spec
=============================================================================
