# A verification project for aria2_rust

TLA+ specifications of the parts of aria2_rust that schedule downloads, TLC
configurations that check them on small instances, and theorems about them
checked by the TLA+ proof system.  Line numbers refer to the repository's files;
`PROJECT.json` maps every definition to the lines it models.

1. [Inventory](#1-inventory): the system, its state, what is hard about it
2. [Modules](#2-modules): which module models what
3. [Correspondence](#3-correspondence): state and actions against the code
4. [Runs](#4-runs): what each configuration asks, its bounds and its fairness
5. [Disagreements](#5-disagreements): where code and comments disagree
6. [Proofs](#6-proofs): what is proved, from which assumptions
7. [Not modelled](#7-not-modelled)
8. [Plan](#8-plan)

## 1. Inventory

aria2_rust is a download manager: `aria2-core` (engine, downloads, file system),
`aria2-protocol` (BitTorrent, DHT, uTP, wire formats), `aria2-rpc` (JSON-RPC and
WebSocket server), `aria2` (CLI and the RPC backend), and bindings.  A call from
the CLI, RPC or the library adds a *request group*; the engine loop promotes it
when a slot is free and spawns a tokio task; the task picks a protocol adapter,
which feeds work items to the shared *work core* and commits verified results.

| Component | State it keeps | Operations | What makes it correct |
|---|---|---|---|
| Work core (`engine/work_scheduler.rs`, `work_runner.rs`) | ready FIFO, heap of delayed retries, in-flight map, active ids, cancel flag | enqueue, admit, complete, fail, reschedule, retry, requeue, discard, cancel | an item is in one place; budgets; leases exact; order; retries return; nothing after cancel |
| RequestGroup (`request/request_group/`) | status, halt/pause/restart flags, halt reason, command counter, failure flag, pending options | start, pause, resume, halt, mark_*, inc/dec commands | a terminal status is reached once and for the strongest reason |
| RequestGroupMan (`request/request_group_man/`) | canonical index, active map, reserved FIFO, stopped results, limit | add, remove, pause, fill, reduce, requeue, demote, resolve, fail | one home per group; limit; no lost and no revived group |
| Engine loop (`engine/engine_loop/`) | running downloads, completion channel, generations, halt flags | the pass: commands, promotion, completions, demotion, exit check, select! | one task per download; exact accounting; progress; halts end |
| Command channel (`engine/engine_command.rs`) | two bounded queues, coalescing keys, depth, Notify | send, try_recv, recv | no lost command or wake-up; exact keys and depth |
| Clients (`aria2/src/app/rpc_backend/`, `engine/download_manager/`) | none of their own | pause, unpause, remove, add, changeOption, shutdown, handles | the effect the caller was told about |
| Metalink graph (`request/request_group/dependency.rs`) | dependency of a payload on its metadata group | release, fall back, fail | the payload waits and is settled |
| Sequential download (`engine/sftp/download_command/`, `work_commit.rs`, `progress_checkpoint.rs`, `filesystem/disk_writer/atomic.rs`) | completed bytes, checkpoint in memory, output, control file | attempt, resume, read, commit, flush, finalize, retry, shutdown | a checkpoint never claims unstable bytes; a resumed prefix is the remote file's; a halt gets through |
| Concurrent segments (`http/concurrent_download/`, `engine/concurrent_segment_manager/`, `http/sequential_download/gap_download.rs`) | segment states, source state, in-flight ranges, written prefixes, control file | prepare, admit, stream, complete, requeue, fail, abort, flush, persist, fall back, fill gaps | credit is written, claims are stable, no piece is forgotten, progress is monotone, a halt gets through |
| Output registry (`engine/active_output_registry.rs`) | paths in use | resolve, resolve with policy, reserve all, release | no two downloads share a path, every claim is released |
| File allocation (`filesystem/file_allocation_man/`) | queue, picked entry | enqueue, pick, finish, cancel | every waiter answered once |
| Session (`session/`) | dirty flags, deadlines, session file | mark dirty, run due, save, restore | a save is complete, the file whole, a change eventually saved |
| Disk cache, positioned writers (`filesystem/`) | cached blocks, file | read, write, flush, evict | reads see writes |
| HTTP, FTP adapters | connection pools, cookies | execute, check_cancelled | stop when asked |
| BitTorrent (`engine/bittorrent/`, `aria2-protocol/src/bittorrent/`) | peers, pieces, trackers, DHT, uTP | very many | piece accounting, sequencing |
| DNS, rate limiting, server statistics | caches, token buckets, scores | resolve, acquire, score | timing policy |
| RPC server, CLI, C API, bindings | sessions, options | parse, dispatch, print | translation |

How they interact.  Clients and the engine share the manager: an RPC handler
*first* changes the groups directly and *then* sends a command, which the engine
applies once more.  The operations of the manager hold `lifecycle_lock`
(`request_group_man/mod.rs:66`), so each is atomic against the others, but a
handler's change and its command are two steps, and `change_group_options` is
three.  Download tasks share only their group with the engine: they read its
flags (`check_cancelled`), write its status (`start`, `complete`) and send one
completion when they end.  The engine reads everything else through the
completion channel and the command channel and parks in `select!` between
passes; nothing polls.

The hard behaviours are therefore: the order of a client's change, its command,
the task's completion and the engine's pass; completions that are sent twice or
late around a force halt; flags with several writers; wake-ups; retries,
budgets and leases around cancellation; results of range tasks that were aborted
or replaced; two commands that want one output; and, on disk, a crash or a failure
between writing bytes, syncing them and recording them.  `PROJECT.json` lists each as a hazard
at its line, with the properties that would catch it going wrong, or a note
when none does yet.

## 2. Modules

| Module | Models |
|---|---|
| `WorkLifecycle` | abstract: what the work core promises about one item |
| `WorkScheduler` | `WorkScheduler<T>` and its driver; refines `WorkLifecycle` |
| `WorkSchedulerProofs` | its theorems |
| `RequestGroup` | one download as a record and its transitions, `apply_completion_state`, the stopped result |
| `RequestGroupMan` | the manager, one operator per operation; no behaviour of its own |
| `DownloadLifecycle` | abstract: what the engine promises about the downloads |
| `EngineLoop` | engine loop, download tasks and clients, composed over `RequestGroupMan`; refines `DownloadLifecycle` |
| `RequestGroupManProofs` | what every operation of the manager keeps |
| `EngineLoopProofs` | types and homes in the engine; its account of commands, tasks and completions; that it implements `DownloadLifecycle` |
| `CommandChannel` | the command channel at the grain of its atomic steps |
| `CommandChannelProofs` | its theorems |
| `SequentialDownload` | one single-source download: attempts, commit of a chunk, resume checkpoint, sequential writer, and the disk under them |
| `SequentialDownloadProofs` | its theorems |
| `ConcurrentDownload` | one HTTP download by concurrent ranges from one source: segments, range tasks, checkpoints, gap fallback, resume, crashes; uses the queue of `WorkLifecycle` |
| `ConcurrentDownloadProofs` | its theorems |
| `OutputFiles` | output paths: registry, the HTTP, Metalink and BitTorrent commands that claim them, the file allocation queue, the force halt |
| `OutputFilesProofs` | its theorems |
| `SessionSave` | the session file: what a save collects while downloads move between the stores of the manager, the dirty flags and the deadline, the file on disk; extends `RequestGroupMan`, whose operations it takes apart |
| `SessionSaveProofs` | its theorems |
| `MCWorkScheduler`, `MCEngineLoop`, `MCCommandChannel`, `MCSequentialDownload`, `MCConcurrentDownload`, `MCOutputFiles`, `MCSessionSave` | instances for TLC |

`EngineLoop` sees the command channel as two unbounded queues with coalescing,
in one step per send; `CommandChannel` takes that step apart and shows what the
abstraction needs: an accepted command is delivered or coalesced into one that
is still to be applied.

`ConcurrentDownload` takes the queue of work items from `WorkLifecycle`, which
`WorkScheduler` is shown to implement, so the order and the delays of the queue
are nondeterministic there: any pending item may start, or one that came due.

A few modules contain, next to a definition, a variant marked *Mutant*: the same
definition with a plausible bug.  No specification uses them; substituting one
makes the property it is listed with in `PROJECT.json` fail, which shows that
the property depends on that definition.

## 3. Correspondence

### WorkScheduler

A driver owns the scheduler exclusively (`&mut self`), so every method is one
action.  `ready`, `delayed`, `in_flight`, `active_ids`, `next_sequence` and
`cancelled` are the fields of the struct; `leases` are the `WorkLease` values
moved out to the driver and `now` is the clock the driver passes in.  Payloads
are abstracted to ids.  `max_attempts` is a constant per item, 0 is unlimited.
The u32 attempt counter saturates (`SaturatingInc`) and the u64 `next_sequence`
wraps (`SequenceSpace`); entries with equal heap keys leave in any order.

| Action | Method |
|---|---|
| `Enqueue` | `enqueue` |
| `AdmitOneWhere(max, eligible)` | `admit_one_where`; `admit_one` is `eligible = Ids`, `admit` repeats it |
| `CompletePending`, `DiscardPending`, `Cancel` | the methods of these names |
| `Complete`, `RescheduleAfterSuccess`, `RetryWithoutConsumingAttempt`, `RetryWithFreshAttemptBudget`, `RequeueUnstarted` | the methods of these names, each beginning with `remove_active_lease` |
| `FailScheduled`, `FailExhausted` | the two outcomes of `fail` |
| `HandBackInvalid` | any of them with a lease that is not in flight (`InvalidLease`) |
| `Tick` | time passes between two calls |

Failing calls that change nothing (`DuplicateId`, an admission without a slot)
are stuttering steps and are not written down.

### RequestGroup and RequestGroupMan

`RequestGroup` keeps of a group what its life cycle reads: `status`, the flags
`halt`, `pause`, `restart`, the halt `reason`, `failure` (`command_failure`),
`commands` (`num_commands`), `resolved` (`is_dependency_resolved`) and `pending`
(options waiting for the next command).  Every error code is `Error`.
`ApplyCompletion` is `apply_completion_state`, with the three results of
`TaskResult` and "failed because it was paused" (`FailedPaused`), which the code
recognises by its message.  Force variants of pause and halt set the same fields
and are merged with the plain ones.

`RequestGroupMan` has `groups` (the canonical index), `active`, `reserved`,
`stopped` and `max_concurrent`, one operator per operation, and a `Can…`
operator where the operation can refuse.  `StoppedResults::add` keeps the first
result of a gid (`Record`).  The active map has no order, so `requeue` puts
several groups back in any order.  `SetMaxConcurrent` includes
`reduce_to_limit`, which the command handler always runs when the limit went
down; its victims are any running groups, because the map has no order.

### EngineLoop

`phase` is the program counter of `run_engine_loop`:

    commands -> [fill -> spawn, first pass only] -> completions -> requeue ->
    find -> demote -> [fill -> spawn, when something happened] ->
    exit_check -> wait -> commands | woken
    exit_check -> last_requeue -> last_find -> last_demote -> exited

| Action | Code |
|---|---|
| `ProcessCommand`, `CommandsDone` | `process_engine_commands`, control queue first |
| `HaltEntry`, `HaltingDone` | the loop of `ForceHaltAll` over `running_downloads`, `request_shutdown_and_wait` |
| `Fill`, `FillDone`, `Spawn`, `SpawnDone` | `promote_reserved_groups`: `fill_from_reserver`, then `spawn_download_task` per group |
| `ProcessCompletion`, `CompletionsDone` | `process_task_completions` |
| `Requeue`, `Find`, `Demote`, `Resolve`, `DemoteDone` | `remove_stopped_groups`, one group at a time |
| `ExitCheck`, `Wake`, `WakeOnDeadline`, `WakeOnShutdown`, `Exit` | exit condition, the arms of `select!`, `on_end_of_run` |
| `TaskStart`, `TaskObserve`, `TaskFail`, `TaskComplete`, `TaskSend` | the spawned task: `start()`, `check_cancelled`, an error, `complete()`, the completion |
| `TaskWait`, `TaskAnswered` | a wait for the server during which the task sees no halt, and its end |
| `Rpc…`, `HandleSend`, `ChangeOption…`, `Send` | the RPC handlers, handles that only send, the three sections of `change_group_options`, `EngineCommandSender::send` |

Four choices deserve a word.

* The rounds of `fill_from_reserver` are one step each, because other groups'
  tasks run in between, but they happen under the lifecycle lock, so client
  calls are blocked in phase `fill`.
* `TaskStart` is `group.start()` alone.  The HTTP adapter checks for
  cancellation just before it, the FTP adapter does not; in both a pause can
  arrive between the check and `start()`, which overwrites the status whatever
  it is.
* Not every await of a task is raced with the notifier of its group: not connecting
  and opening or closing the remote file (`sftp/download_command/execution.rs:86-143`,
  `:259`), not an HTTP request before its body (`in_memory.rs`, the `HEAD` probe), and
  not an SFTP or FTP read when the halt came after the look at the head of the loop and
  before the registration (`execution.rs:314-348`, `ftp/download_command/transfer.rs:119-122`).
  In the stage `waiting` a task is in one of them: it observes nothing, and it leaves
  the stage when its server answers, which nothing obliges the server to do.
* A task that times out during a force halt may have sent its completion
  already: `HaltEntry` sends `Cancelled` for it in either case, and the
  generation decides which of the two counts.

### CommandChannel

`send` is `SendClosed`, `SendCoalesced`, `SendFull` or `Reserve; Push;
NotifyOne`; a keyed command holds the mutex of the keys from `Reserve` to
`NotifyOne`.  `try_recv` is `TryControl; TryNormal; ReleaseKey`, `recv` parks on
the stored permit of a tokio `Notify` (`Unpark`), and another arm of `select!`
may win (`OtherArm`).  `Close` is the engine dropping the receiver.  Producers
are RPC handlers that pause or unpause one download before they send;
`requested` remembers what the last of them asked for, `paused` what the
download is.  The window between the check `is_closed` and the mutex of the keys
is one step: a command coalesced after the engine is gone is accepted and lost,
which nobody can tell from an engine that stopped a moment earlier.

### SequentialDownload

The SFTP command is taken as the representative of the sequential commands, since
`SequentialWorkCommitter` and `ProgressCheckpoint` are shared by them.  `pc` is
the step the command takes next:

    connect -> open -> [openSync -> openSave] -> opened -> [restart] -> remote
    -> loop -> register -> read -> write -> [sync -> save] -> loop ...
    loop -> finalize -> verify -> complete -> done
    partial -> flush -> failed -> wait -> connect | shutdown -> stopped

| Action | Code |
|---|---|
| `Start` | the task constructs the command |
| `Connect`, `RemoteFails` | phases 1 to 4 of `execute_once`, as far as they can fail |
| `OpenCheckpoint`, `SyncExisting`, `SaveOpened` | `resume_input_length`, `ProgressCheckpoint::open`, `resume_offset` |
| `VerifyLocal`, `SkipVerifyLocal`, `SaveRestart` | the checksum of a complete local file |
| `OpenRemote` | `new_sequential_download_writer` |
| `HeadHalted`, `HeadComplete`, `HeadRead`, `Register` | the head of the loop, and `notified().enable()` |
| `ReadData`, `ReadFails`, `ReadNotified` | the arms of `select!` |
| `WriteOk`, `WriteFails`, `SyncChunk`, `SaveChunk` | `commit_chunk` |
| `FinalizePartial`, `Flush` | `finalize_partial_writer`, `flush_checkpoint` |
| `Finalize`, `Verify`, `Complete` | phase 7 |
| `Fail`, `WaitHalted`, `PrepareRetry`, `Shutdown` | `run_single_work_item`, `wait_for_retry`, `prepare_retry`, `Command::shutdown` |
| `RequestHalt`, `RequestResume`, `RequestSave` | the setters of the group's flags, with `notify_waiters` |
| `Kill`, `LosePower` | the environment |

A unit of `Length` is what one read returns.  Of the output, `file` keeps which
units are not the remote file's (`junk`) and which survive a loss of power as they
are (`stable`); writing, truncating and creating take away stability, a sync with
the sync of the parent directories gives it.  After `LosePower` any unit that was
not stable may be lost or hold anything, and any length between the last stable
unit and the longest the file can have had may remain.  A control file is replaced
by a rename of a synced file; `ghosts` are the versions that may come back because
the directory was not synced after the rename or removal.  `failures` is a history
variable: whether a sync or a save has ever failed.

Abstractions.  The remote file does not change.  The halt path calls
`flush_checkpoint` twice in a row when the writer was finalized; that is one
`Flush`.  A partial write that fails is one that wrote nothing.  Whether the error
of an attempt can be retried is a choice of the environment.  `halt` does not
tell removal, pause and shutdown apart, which the command treats alike.

### ConcurrentDownload

`pc` is the place of the command, between `execute_attempt` and the round of
`segment.rs`:

    stopped -> detect -> allocate -> prepare -> head -> admit -> wait -> head ...
    admit -> cooldown -> head        admit, wait -> fallback -> gap
    any -> failed | cannotResume -> detect | truncate -> detect | stopped
    detect, admit, gap -> done

| Action | Code |
|---|---|
| `Start`, `NextMirror`, `GiveUp`, `FreshRemove`, `FreshTruncate` | construction, the loop over URIs, `prepare_fresh_download` |
| `DetectComplete`, `DetectPartial`, `Allocate` | `ResumeHelper::detect`, the preallocation |
| `Prepare` with `FirstSave` | `segment/resume.rs`: restored prefix, initial checkpoint |
| `SendChunk`, `TaskOk`, `TaskFails` | the range task: chunks into the write channel, then one result |
| `HeadHalted`, `HeadGoes` | the check at the head of a round, `cancel_and_persist` |
| `AdmitRange`, `DropSettled`, `EnterWait` | admission up to the target, the flush before `select!` |
| `Finish`, `CoolDown`, `AllRangesFailed`, `Stuck` | nothing in flight: the four ways on |
| `WriteChunk`, `Woken`, `RangeOk`, `RangeSmaller`, `RangeBusy`, `RangeFallsBack`, `RangeRetries`, `RangeFatal`, `StaleResult`, `Stalled`, `SlowOutlier` | the arms of `select!` |
| `Fallback`, `GapRead`, `GapFilled`, `GapHalted`, `GapFails`, `GapsFilled`, `NothingMissing` | `execute_with_gaps` and `GapCheckpoint` |
| `Halt`, `RequestSave`, `Crash` | clients and the environment |

A piece is the durable unit of the bitfield, a unit what one chunk carries, and a
block (`Block`) what `IN_FLIGHT_BLOCK_SIZE` is: the control file records whole
blocks of a piece only.  `file.seen` are the units that hold the remote content as
the process reads them, `file.stable` those that survive a crash; `SomeLost` keeps
any set between.  `req[p]` is the entry of `active_segs` with its task; a task that
ended before the stall check aborted it leaves its result in the channel (`stale`).
The queue `queue` is the write channel; a result is received with the queue
written first (`drain_write_chunks`).  `guessed` is a history variable: an attempt
took the *length* of an output without a control file for content, which is what
`--continue` asks for.  One source stands for all mirrors of the command, so the
choice of a mirror is left out, its failures and its disabling are not.

### OutputFiles

A path is a sequence: the desired name and the numbers appended by collisions.
`pc` says how far a command is; it owns its path from `detect` (HTTP), `transfer`
(Metalink) or `allocate` (BitTorrent) to the release.  `registry` is the set of
claimed paths, `files` and `ctrl` are outputs and control files on disk, `queue`,
`picked`, `awake` and `answer` the allocation manager, its worker with the permit
of its `Notify`, and the oneshot channels; `halting` and `turn` are the place of
`ForceHaltAll`.  `robbed` is a history variable: who has lost a claim because
`release` removes a path whoever claimed it.

| Action | Code |
|---|---|
| `ProbeFails`, `ResolveFirst`, `ResolveAgain`, `Detect…`, `Integrity…`, `Transfer…`, `CannotResume`, `Finalize`, `FreshStart`, `FreshStartFails` | `DownloadCommand::execute` and `execute_attempt`, one attempt per URI, each with a claim of its own |
| `Write`, `Save` | the transfer creates the output, then its control file |
| `MetalinkResolve`, `MetalinkMirrorFails`, `MetalinkOk`, `MetalinkFails`, `MetalinkFallback` | `execute_file`: one claim for all mirrors |
| `ReserveExactPaths`, `TorrentEnds` | the reservation of all files of a torrent, dropped with the command |
| `Enqueue`, `NoAllocation`, `Answered` | `enqueue_path`, `enqueue_multi` and the wait |
| `TakeNext`, `Sleep`, `AllocateFile`, `EntryDone` | `worker_loop` |
| `ForceHalt`, `CancelAllocations`, `WaitedFor`, `Abort`, `NextPhase` | the handler of `ForceHaltAll` |

A halted, paused or removed command fails at its next check, which is one of the
ways its attempt may fail anyway, so there is no flag for it.  The transfer is one
place with two writes; what is written is `ConcurrentDownload`'s subject.

### SessionSave

Whoever changes the stores holds the lifecycle lock, so `RequestGroupMan` and
`EngineLoop` may treat an operation as one step.  A save takes no lock: here every
operation moves a download store by store, `moving` is the operation under the lock
with what it has taken out, and a reader may come between any two of its steps.

| Action | Code |
|---|---|
| `AddRegister`, `AddQueue` | `add_group_with_gid`: index, then queue |
| `RemoveReserved`, `Demote`, `Unregister`, `RecordStoppedResult` | a download leaves: its store, the index, the results |
| `RequeueBegin`, `RequeueTake`, `RequeuePut` | `requeue_non_terminal_groups`, one group after the other |
| `FillPop`, `FillPlace`, `FillEnds`, `PutBack` | `fill_from_reserver` with its pending groups |
| `ProcessCommand` to `Wake`, `Spawn` | the pass of the engine, as in `EngineLoop` but with the marks `mark_session_dirty` leaves |
| `Maintain` | `run_deadline_maintenance` and `run_due` up to the save; `due` says whether the session deadline has passed |
| `Collect` | `groups_snapshot`: queue, lengths of index and active map, comparison, then the fast or the slow path; the results; the statuses |
| `Open`, `Write`, `Rename`, `SaveFails`, `Ends` | `save_to_file_with_results` and what follows for its caller |
| `Rpc…`, `TaskEnds` | the RPC handlers (`RpcSaveSession` is `aria2.saveSession`, which may be abandoned with its client) and the tasks |

`saver` has two members.  The *owner* is the engine, which saves on its deadline and
in `on_end_of_run`, and then the application, which saves once more after the server
was stopped (`save_session_on_shutdown`); *rpc* is a client.  Both write the same
temporary file (`path.with_extension("sess.tmp")`).  Files are inodes: `tmp` and
`session` are the two names, a saver keeps the inode it has opened, and a second
`open` truncates what the first has written.

Abstractions.  Iterating a `DashMap` is one step, as is taking its length.  Downloads
have no dependencies here, the limit does not change, and a spawned command starts at
once.  A write reaches the disk when it ends (the code never syncs the session file, so
after a loss of power it may be empty in spite of the rename).  The session is restored
in `Init`.

Four history variables watch every step (`Observe`): what was owed during a whole save
(`kept`), what changed its store meanwhile (`moved`), whether two savers had the
temporary file at once (`shared`), and whether the last thing that changed the file or
the stores was one the code does not mark (`untold`).

## 4. Runs

Passing runs.

| Run | Instance | Properties |
|---|---|---|
| `scheduler` | 3 items with budgets 2, 2 and unlimited, 2 slots, clock 0..1, attempts saturate at 2, sequence numbers wrap at 2 | `TypeOK`, `PlacesAndLeases`, `BudgetKept`, `QueueOrderKept`, `RetryComesBack`, `ImplementsLifecycle` |
| `engine_safety` | metadata group and a payload that has mirrors and cannot be spawned, one download added by a client; limit 0 (unlimited), which clients lower to 1; client calls, shutdown signal, deadlines; not in RPC mode | `TypeOK`, `OneHome`, `Accounted`, `ExitedIsQuiet`, `ImplementsLifecycle` |
| `engine_liveness` | metadata group and a payload without mirrors; pause, unpause, remove, limit, deadlines, every halt; any server may fall silent | `FreeSlotIsUsed`, `PauseStopsTask`, `PayloadSettled`, `HaltEnds` |
| `channel` | 2 producers with 2 sends each, capacities 2 and 1 | `TypeOK`, `CountsExact`, `OwedIsComing`, `Delivered` |
| `sequential` | 3 units, saved every 2, 2 attempts, 2 runs | `TypeOK`, `CheckpointIsStable`, `PrefixIsData`, `DoneIsWhole`, `BoundedLoss`, `OnlyRetryForgets` |
| `concurrent` | 2 pieces of 2 units, blocks of 1, 2 requests at a time, 2 tries; five option sets with their events | `TypeOK`, `ClaimsAreStable`, `CreditIsWritten`, `Accounting`, `ProgressKept`, `HaltEnds` |
| `output_files` | one HTTP, one Metalink (two mirrors) and one torrent (two files) command with a common path, with and without files found | `TypeOK`, `Exclusive`, `ClaimsMatch`, `HaltForgets`, `AllocationAnswered` |
| `session` | one slot, RPC mode; one download restored, one added: two client calls, or one call and a failing save, or an RPC save and a failing save, or an RPC save and a pause; two restored, the first paused: an RPC save | `TypeOK`, `SavesAreComplete`, `WholeUnlessShared`, `SavedInTime` |

`PlacesAndLeases` is `OnePlace` and `LeasesMatch`, `Accounted` is `CommandsBalanced`
and `Tracked`, `CountsExact` is `KeysExact` and `CapacityKept`, `ProgressKept` is
`HaltKeepsProgress` and `ClaimsOnlyGrow`: each pair speaks of the same bookkeeping
from both sides.

Why the bounds are enough.  The interesting cases are pairs: two groups compete
for one slot or depend on each other, two client calls race with one completion,
two sends with one receive.  `scheduler` uses the smallest values at which each
counter reaches its boundary: the second attempt of a budget of two is the last
one, a third attempt of the unlimited item saturates, and the third delayed
retry wraps the sequence number.  With `MaxOps = 2` every ordered pair of client
operations meets every point of the engine's pass.  `engine_safety` starts unlimited,
so two downloads run at once and lowering the limit pauses one; an add and a shutdown
are enough for a download that the shutdown interrupts and the late command queues
again.  Queues in the code are 512 and 1024 long; what matters about
them is being full or empty, and with capacities 2 and 1 both happen.
`sequential` has 2.2 million states: three units with a save after two leave a
last unit that only the end or a halt records, two runs make a second start from
whatever a kill or a loss of power left, and the foreign file can be shorter than
the remote one or as long.  `MaxRuns` bounds the starts, not the crashes.
`concurrent` (353 thousand states): two pieces are the least with an order, two
units the least a range can be cut to, and two slots the least with two results in
the channel at once.  Each option set of `MCConcurrentDownload` bounds the number
and kinds of the environment's events: any two on a preallocated or foreign
output, any one without `--continue`, and longer sequences of the few kinds that
spend a budget (416, 404, saves that fail) or meet in the gap phase.
`output_files` (685 thousand states): three commands are one of each protocol, and
all pairs of protocols meet on one path; two pairs of HTTP options are corners of
the option space (resume with a fresh start and preallocation; check the integrity
and overwrite), and two HTTP commands meet in `output_overwritten`.
`session` (560 thousand states): two downloads are the least with one between two
stores while the other keeps the lengths equal, and each instance of `Mixed` has a pair
of the events that meet in a save: two clients' calls, a call and a failure, two savers
and a failure, two savers and a pause, an RPC save and a promotion past a paused entry.
`CHECK_DEADLOCK FALSE` is set where the engine really stops: after its exit, or
after the receiver was dropped, after the last run of a download, or when all
commands have ended.  The scheduler never deadlocks, as `Cancel` is
always enabled.

Fairness.  `engine_liveness` assumes weak fairness of the engine task, of the
remaining steps of a client call that has begun and, per download, of the two steps
its task takes by itself: starting (what comes before is bounded, name resolution by
the DNS timeout, `dns/dns_cache/cache.rs:179`) and sending its completion.  tokio
schedules every task that is ready.  Observing a cancellation has strong fairness: a
task that keeps coming back from its waits looks at the flags of its group at the head
of its loop.  Nothing makes a server answer: a task in the stage `waiting` may stay
there, because `timeout` has no default (`options/default.rs:149`) and a deadline that
is set only asks for a halt (`maintenance.rs`), which such a wait does not see.  No
fairness makes a download succeed or fail, a deadline fire or a client call.  `scheduler` assumes that time passes, that the
driver admits whenever it gets a slot often enough (strong fairness of admission
at the full ceiling, what the loops of `segment.rs`, `pipeline.rs` and
`run_single_work_item` do) and that workers end.  `channel` assumes that a
receiver and a sender, once called, run on.

`concurrent` assumes that the command is polled while it can go on (the stall
check makes it ready every second), never that a range task or the server does
anything.  `output_files` assumes that the allocation worker runs, being a task of
its own, and that a command is polled once it was answered.
`session` assumes that the engine task and the operation under the lock run on, and
that a save of the engine or the application goes on (weak fairness), and that a session
deadline the engine parks with passes (strong fairness): it is an absolute instant
(`last_saved + interval`), so other wake-ups do not postpone it.  Nothing obliges a
client, a download or an RPC save.

The liveness properties of the engine hold for finitely many client calls
(`MaxOps`): a client that pauses and unpauses for ever can keep anything from
finishing.  `HaltEnds` of the engine is the pair of a graceful and a forced halt.
A graceful halt ends the engine *unless a task is resumed* (`Resumed`) *or stays for
ever in a wait that sees no halt* (`Unreached`); `PauseStopsTask` has the second
exception too.  A forced halt has neither, as `request_shutdown_and_wait` gives up on a
task after a bounded time.  `PayloadSettled` speaks of metadata groups that end as the
engine collects them: active, with their last command gone, and complete, failed or
removed (`Settled`).  A metadata group can also leave without that, and then its payload
is not settled; section 5 says how.  The payload has mirrors in `engine_safety` and none
in `engine_liveness`, so a failed metadata group makes it go on in the first and fail in
the second.

## 5. Disagreements

Four runs end with a counterexample, each to a sentence in a comment or a test of
the code; `PROJECT.json` quotes it.

* `channel_last_request` (`LastRequestWins`): pause, unpause and pause from one
  client while the engine is busy leave `Pause, Unpause` in the queue, because
  the third command is coalesced into the first.  The download ends unpaused.
* `engine_restart` (`RestartResumes`): when the task of a download ends between
  the pause and the restart request of `change_group_options`, the download is
  requeued as paused and stays so.
* `stalled_read` (`PauseInterruptsRead`): the SFTP loop looks for a halt at its
  head and then registers for notifications without looking again.  A pause
  between the two wakes nobody, and the command stays in the read until the server
  answers or another notification comes.  The HTTP loop checks again after
  registering; the FTP loop has the same shape as the SFTP one
  (`ftp/download_command/transfer.rs:119-122`).
* `output_overwritten` (`NothingOverwritten`): `finalize_attempt` releases the path
  after every failed mirror, although the command goes on with the next.  In the gap
  another download takes the partial output over, because it has a control file;
  when it has finished, the first reclaims the path with `resolve`, which looks at
  no file, and both end as complete on one output.

More were met while modelling and are not runs of their own.

A user removal that arrives after the completion of a paused task was settled, but
before the group was collected, only requests a halt; the group is then found stopped by
its halt flag with the status `Paused`, and the removed download is recorded as paused
with an unknown error.  completions.rs:196-199 says that a removal "must win over the
resumable Paused status".

`OnlyRetryForgets` names an exception: `prepare_retry` sets `completed_bytes` to
0 while the checkpoint of the failed attempt stays open, so a pause while waiting
for the retry, or a connection that fails again, lets `Command::shutdown` save 0
over the recorded progress, although progress_checkpoint.rs:208-209 says
"Cancellation paths deliberately save progress so a paused or removed download
remains resumable".  The next run trusts the control file and starts at 0.

`CheckpointIsStable` exempts failed syncs: `finalize_partial_writer` keeps the
previous checkpoint when the writer could not be finalized, but the halt path
(execution.rs:330-331), phase 7 (execution.rs:447) and `shutdown` flush the
checkpoint all the same, which then claims bytes that were not synced.

The last is visible at larger bounds: with three
client calls in `engine_safety`, a download that is added, paused and removed
before its `AddDownload` command is processed is registered again by it.  The
removed group is left alone only when its status is terminal, and the race above
leaves it `Paused`.

`HaltEnds` of the engine exempts a graceful halt when somebody resumes a task: for a
download that was paused, then halted by the shutdown, and unpaused before its task
looked, `resume` clears the halt flag, the task runs on, and the engine waits for it
(`halt_requested ~> phase = "exited"` fails with three client calls, pause, shutdown
and unpause).  engine_loop/mod.rs:269 says "A graceful halt must wind the engine
down even in keep-alive (RPC) mode".

A task in a wait that its notifier does not reach (`Unreached`) keeps a paused download
at work, and keeps the engine up after a graceful halt, for as long as its server is
silent, by default without limit.  `PauseStopsTask` and the graceful half of `HaltEnds`
fail without this exception: a task goes to wait, is paused or halted, and nothing
happens any more.  It is the same sentence of mod.rs:269 that this contradicts;
`stalled_read` shows how an SFTP task comes to such a wait.

A payload can wait for ever for metadata that is gone.  `remove_stopped_groups` resolves
the payload of a metadata group it collects, and nothing else does: a metadata group
removed while it is reserved (`lifecycle.rs:46-71`), one that could not be spawned
(`fail_spawned_group`, `lifecycle.rs:117-133`), and one whose removal came too late to
change the status `Paused` (see above) leave it unresolved.  The payload is then never
promoted, and `remove_reserved_group` refuses to remove it, because it is unresolved; it
stays until the engine ends.  The comment there (`lifecycle.rs:52-54`) says "The
prerequisite graph must first reach a terminal state so the manager can resolve or fail
the dependent payload coherently".  With the premise that the metadata group has left in
any way, `PayloadSettled` fails after one removal.

`ExitedIsQuiet` speaks of downloads that have ended.  Requeueing and collecting are
two critical sections (`demotion.rs:122` and `:232`), in the last pass too: a client
that resumes a paused group between them makes it stay in the active map of an
engine that has left, without a task and without a result (six client calls).

A download that a shutdown interrupted leaves the manager with the status it had
(`SettleBy`, reason `ShutdownSignal`), which is not terminal.  `add_group_arc` refuses
registered and terminal groups only (group_addition.rs:57-76), so when the `AddDownload`
command of that download is still in the queue, because the client's add and the
shutdown signal came in one pass, the command registers it again.  `DownloadLifecycle`
first said that nothing comes back from its end, which this refutes; it now has the
stage `Interrupted`, from which a download may be queued again, apart from `Ended`.

In the concurrent download (all visible as exceptions in the properties or as
choices of the model):

* `HaltKeepsProgress` leaves out the cooldown: `wait_for_retry` returns the halt
  with `?`, so a pause during the wait after a 429 or 503 skips
  `cancel_and_persist` and what was written since the last checkpoint is lost.
* With a range floor below the block size a control file may hold a completed length
  and neither piece nor block, because the length counts what the blocks do not; the
  next run takes that length for a prefix of the file (`segment/resume.rs:112-119`),
  although the units may lie in a later piece.  In the run a block is one unit, which
  excludes it; with blocks of 2 units and a floor of 1 `ClaimsAreStable` fails once a
  range of one unit of the second piece is saved.
* `guessed`: the length of an output found without a control file is trusted for a
  prefix of the content, after a preallocation that was cut off by a crash even as
  "complete".
* A failed `--check-integrity` clears `should_resume` and `start_offset`
  (`execute.rs:379-385`) but not `resume_state.control_file`, which the segmented
  transfer resumes from.
* When nothing is in flight and only a delayed retry is left, the round does not
  wait for it but goes to the gap fallback (`Stuck`).
* "No gaps" returns early (`NothingMissing`): the control file stays and the group
  is not completed there.
* A task's 416 and 404 answers are retried without a look at the budget although
  `fail_segment` counts them, so a piece can be `Failed` while its work item is
  still queued; `DropSettled` takes it off.

In the output registry:

* `prepare_fresh_download` truncates the output without holding a claim
  (`FreshStart`), and the torrent fallback of a Metalink file discards its output
  after the release (`MetalinkFallback`).
* A verified file is released twice (`execute.rs:401`, `finalize.rs:65`); in
  between another download can claim it, and loses its claim (`robbed`).
* An HTTP or Metalink task that a force halt aborts leaks its claim for the life of
  the process (`ClaimsMatch` names it); a reservation of a torrent is dropped.
* FTP and SFTP commands never register their outputs.
* A command that waits in the allocation queue does not see a pause or a removal
  before it is answered: `cancel_gid` is called by the force halt and at the end
  of the engine only.

In the session:

* `shared`: a deadline save, `aria2.saveSession` and the save at shutdown write one
  temporary file.  While one has it open or written, the other truncates it by opening
  it, the rename of the first publishes the empty or torn file over the good session,
  and a process that dies then has lost all its downloads; `SessionFileWhole` without
  the exception fails after one save of each.  file_io.rs:69-71 says "This ensures
  session file integrity even if the process crashes during write", active_session.rs:68-70
  "the original session file will not be corrupted".
* `moved`: an RPC save can miss a download that is being requeued or put back, because
  the lengths of three stores read at different times can agree by accident, although
  queries.rs:24-26 says a group "only visible in the canonical index" is appended.  The
  engine's own saves were never seen to miss one, as the engine does nothing meanwhile.
* `BetweenStores`: it can even miss one that is between two stores all the time.
  `fill_from_reserver` pops a paused entry and keeps it aside (`promotion.rs:77-81`) until
  it has placed the entries behind it.  A save that reads the queue after the first pop
  and the active map after the next entry was promoted has that entry in both, and the
  one set aside in neither: `1 + 1` is the length of the index (`queries.rs:36`), so the
  index is not read.  Without the exception `SavesAreComplete` fails in twelve steps of
  the instance `FillDuringSave`; the entry is missing from that file until the next save.
* `untold`: removing a waiting download by RPC sends no command when the group is gone
  (rpc_backend/lifecycle.rs:142), so nothing marks the session dirty, and when it was the
  last one the engine stays parked without a deadline; the file keeps the download until
  something else happens.  So does purging results.  mod.rs:160-163 says "Every caller
  that mutates download state (queue membership, ...) must flip this flag".  A late RPC
  save can also overwrite a newer one.
* The deadline of a save that failed stays in the past, so the loop tries again at once,
  without a pause.

## 6. Proofs

The proof modules use SMT (Z3), Zenon and the temporal prover, and nothing but
the assumptions the specifications declare on their constants:
`SchedulerAssumption` (naturals; budgets within the counter's width),
`ManagerAssumption` (finitely many downloads; a metadata group has one payload
and is not its own), `LoopAssumption` (the initial queue has no duplicates,
limits are naturals), `DownloadAssumption` (lengths and attempts are positive),
`ChannelAssumption` (finitely many producers, positive capacities),
`OutputAssumption` (the commands of the three protocols are disjoint, the other
constants have their types, and the files found are paths), `ConcurrentAssumption`
(pieces, units, tries and limits are positive, blocks divide a piece),
`NoControlAssumption` (what stands for no control file is none),
`SessionAssumption` (the restored queues have no duplicates, budgets are naturals, there
are four files).  Two theorems of `ConcurrentDownloadProofs` state a hypothesis of their
own, `Block <= RangeFloor`.

`WorkSchedulerProofs`

* `TypeCorrect`, `EachIdInOnePlace`.  `OnePlace` is not inductive without the
  types of the queue entries, and the types are not preserved by a promotion
  unless the heap is finite (`HeapOrders` counts it), so the inductive invariant
  is `Core == TypeOK /\ IsFiniteSet(delayed) /\ OnePlace`.  Every hand-back
  first releases a lease (`Release`), after which the id is in no place, and then
  puts it into exactly one or drops it (`BackToQueue`, `LeavesScheduler`);
  admission is promotion followed by one lease (`Promotion`, `AdmitCore`).  The
  queue lemmas `QueueAppend`, `QueuePrepend`, `QueueWithout`, `QueuePromoted`
  say what each way of changing the queue does to its ids.
* `NothingAfterCancel`, `BudgetNeverExceeded`, `LeasesNeverRefused` are each
  inductive relative to `Core`; `PlacesAndLeasesAgree` joins the last with
  `EachIdInOnePlace`.  `BudgetNeverExceeded` needs that handing an
  attempt back uncharged (`attempt - 1`) stays affordable (`Uncharged`), and that
  a saturated counter cannot exceed a budget that fits it.

* `QueueOrder`.  The queue after a step is the queue before it without some entries,
  with one entry put at an end, or behind promoted ones sorted by deadline; each keeps the order of what stays (an entry's place is unique by `OnePlace`).
* `SchedulerImplementsLifecycle` with `LifeInv == Core /\ BudgetKept /\ finitely many in
  flight`.  What an item is for `WorkLifecycle` is read off the place it is in (`Phase`);
  that it is in one place makes the reading unambiguous, and `BudgetKept` that a failure
  ends the item exactly when `WorkLifecycle` says so.  An admission that promotes several
  retries first is one abstract step.

`RequestGroupManProofs` and `EngineLoopProofs`

* `EngineTypeCorrect`, `EveryGroupHasOneHome`.  The manager's part of the
  inductive invariant is `ManInv == ManTypeOK /\ OneHome`; for each operation of
  the manager one lemma `…Keeps` shows that it keeps `ManInv` whatever the
  engine does around it.  `LoopInv` adds the types of the engine's, the tasks',
  the pass's and the clients' variables.  `OneHome` alone is not inductive: a
  promotion removes *one* entry from `reserved`, which removes the gid only if it
  occurs once, and adding a group relies on `groups` covering both stores.
  `LoopStep` has one step per action of `Next`.

* `CommandsAreAccounted` (from `CommandsAreBalanced` and `TasksAreTracked`) and
  `EngineLeavesQuietly` follow from one
  inductive invariant, `AccountInv`, relative to `LoopInv`.  `Generations` ties the
  task, the engine's entry and the completions of a command together: a task that
  lives has sent nothing and has an entry, what shares a generation shares its gid.
  `Counted` equates `num_commands` with the outstanding commands and lets only
  active groups have any; that a promoted group (`Awaiting`) and one found stopped
  (`Demotable`) have none is what makes spawning and demoting safe although the
  lock is released between the two halves of each.  `Expected` and `LastPass` carry
  the argument for the exit: after a pass has drained the completions, what comes
  belongs to an entry, and an engine without entries has nothing outstanding.
  `FirstPass` closes the gap that the first pass spawns before it drains anything.
* Client operations are uniform: none counts commands or ends an active download
  (`Mild`), so one lemma (`MildStep`) covers them all.  A task that ends and a task
  that is given up are the same exchange of a task for its completion (`Replaced`);
  `TakenCompletion` takes one generation out of one group's account.
* `EngineImplementsLifecycle`, relative to both invariants.  The stage of a download is
  read off its home, and its workers are the outstanding commands.  One home makes the
  stage a function (`StageMeaning`); that an active group without a command has none
  outstanding (`OnlyActiveWorked`) is what lets requeueing, demoting and failing a spawn
  be a `Move`, and `MoveMaps`, `LeaveMaps`, `AddMaps`, `DropMaps`, `EndMaps` do one kind
  of move each.  A client's operation is a move of the downloads it takes out, or none.

`CommandChannelProofs`

* `ChannelTypes`, `AcceptedIsComing` and `CountsNeverDrift` (from `KeysNeverStale` and
  `CapacitiesKept`) are read off
  `ChanInv`, which is inductive (`Invariance`).  A keyed command is under way at most
  once (`Once`: reserved by one producer, in one place of one queue, or in the
  receiver's hands), which is what lets the release of a key stand for the command
  that was popped.  That depth is at least 1 when the receiver counts down follows
  from the count itself (`CapacityKept`), and that a coalesced command is not owed to
  one that is merely reserved from the lock that `KeysLocked` models.

`OutputFilesProofs`

* `PathsExclusive`, `RegistryMatches`.  Every step is of one of three kinds (`Kind`):
  it claims paths nobody has registered, it releases what the command holds, or it
  keeps registry and owners.  `ClaimsStep`, `ReleasesStep` and `KeepsStep` show the
  invariant for each kind, and one lemma per protocol shows that its steps are of a
  kind; the exceptions of the properties (`robbed`, aborted tasks) are part of it.
* `OutputFilesTypes`.  That a command never counts more mirrors than it has is not
  inductive from the types; `TypeInv` adds `Tries`: who begins an attempt has a URI left.
* `HaltIsComplete` from `HaltInv`.  The halt cancels allocations twice, before it waits
  for the tasks and after: while it waits, only tasks of the engine run; in the second
  round no task is left that could queue anything, so what is queued or uncancelled in
  the worker's hands belongs to a command whose turn is still to come.

`SequentialDownloadProofs`

* `DownloadTypeCorrect`.  `completed + 1 <= Length` holds at a write only because
  the head of the loop looked, so `TypeInv` adds `Budgets`.  The types are proved
  in three parts: the disk, the requests, the command.
* `CheckpointClaimsStableBytes`.  `CheckpointIsStable` speaks of what is on disk
  and is not inductive: a step that saves `completed` keeps it only if
  `completed` is covered by stable bytes then.  `DurableInv` says, per step, what
  the command relies on: where it may save, now or after a failure on the way,
  its progress is covered (`SavesCovered`); where it writes, an open writer has
  written what is counted and a writer not yet opened has nothing unstable below
  it (`WritesHeld`); no control file is ahead of the command when it overwrites
  bytes (`SidecarBehind`), and the versions that may come back claim nothing
  (`GhostsEmpty`).  `SyncCovers`, `OpenedCovers`, `WrittenCovers`,
  `PowerLossCovers` and `SaveCovers` say what each disk operation does to covered
  prefixes.  TLC was used to find the invariant before it was proved.
* `ResumedPrefixIsData` and `FinishedIsWhole` from `ContentInv`, relative to
  `DurableInv`.  What a control file claims, in memory, on disk or coming back, is the
  remote file's content, or the whole length of a local file that a checksum has not
  been asked about yet (`ClaimsAreData`, `ProgressIsData`); what is claimed is covered by
  stable bytes, so a loss of power does not turn it into junk.  The end is reached only
  with everything counted and verified (`EndIsReached`, `EndIsWhole`).
* `LossIsBounded` and `RecordIsKept` from `RecordInv`: while nothing fails, the saved
  value in memory is the one on disk (`SavedIsRecorded`), the control file is not ahead of
  a command that flushes it, except after the reset of a retry (`NotAhead`), and no older
  version can come back (`NothingBehind`).

`ConcurrentDownloadProofs`

* `AccountsAgree`.  A step clears the accounts with the attempt (`ClearKeeps`), leaves
  them alone (`StillKeeps`), starts a range (`StartKeeps`) or gives one back
  (`BackKeeps`, in the three ways `Requeued`, `Charged` and `Completed`).  That no
  pending piece loses its work item is not inductive by itself: the two sides count
  failures apart, and a completed range resets the work item's count but not the
  piece's.  `Ledger` adds that an item has no more failures charged than its piece, so
  the piece has failed when the item is dropped.
* `DownloadTypes`.  The bounds of the load and of the retries need the accounts, so
  `TypeInv` is inductive only with `AccountInv`; it adds to the types what a request is
  bound to while it lives (`Ranged`: its range starts where the credit of its piece ends).
* `LinkInv` says how the prefix of a piece, the write queue and the tasks hang together:
  what is written of a piece or queued for it (`Held`) is one run from its start, which
  reaches as far as its task has sent and, by its written part, as far as its credit
  (`Linked`).  Draining the queue turns all of it into prefix (`ExtendHolds`), which is
  why a result may be received only with the queue written.  `Blank` and `Aligned`: what
  detection and the gap phase know of the control file, and that it records whole blocks.
* `ControlFileIsTrue` (`ClaimsAreStable`) and `CreditIsEarned` (`CreditIsWritten`) from
  `DiskInv`: unless a mere length misled an attempt, prefixes, complete pieces, filled and
  half-filled gaps are written (`Content`), and every control file, on the disk or in the
  hands of the gap phase, is `Safe` on stable storage.  `Deep` covers the corner that a
  control file with a length but neither piece nor block is read as a prefix of the file:
  as long as no request is shorter than a block, whatever has been credited either fills
  a block somewhere or is the restored prefix itself.  That is where the one hypothesis of
  the two theorems comes from, `Block <= RangeFloor`.  The code's default has it
  (`min-http-range-size` 64 KiB, `IN_FLIGHT_BLOCK_SIZE` 16 KiB) but the option may be set
  down to 1 KiB; section 5 says what then happens.
* `ProgressIsKept` (`ProgressKept`) from `GrowInv`, without that hypothesis: an attempt
  that continues starts from all that the control file claims and keeps it covered by its
  prefixes (`Covers`, `Remembered`), and an output without a length has no claimed content
  (`Unsized`), so that the control file that `detect` drops claimed nothing.
  `OnlyHeadHalts` and `HaltKept` are the half about the halt.
* `NoControlAssumption` keeps the absent control file apart from every control file, which
  TLC has for nothing from the model value.

`SessionSaveProofs`

* `SessionTypes`.  `SaveInv` says where every download is although the operations of the
  manager are taken apart: in one store or in the hands of the operation under way
  (`Home`, `InTransit`), which is in its phase of the pass (`Moves`); that a download has
  a command exactly from its spawn to the accounting of its end (`Account`), so what is
  requeued or demoted has none; and that the engine is in a phase of saving while it saves
  (`OwnerSaves`).  `OneHome` of `RequestGroupManProofs` does not hold between two stores.
  Every action moves somebody (`…Moves`) or nobody (`QuietStep`).  Four files are enough
  because two savers and the session hold at most three (`TempFileIsNew`).
* `SessionFileIsWhole` from `FileInv`: as long as the temporary file was not shared, a
  saver with a file has the one the name `tmp` leads to, and it is never the session.
* `SavesHoldWhatIsOwed` from `CollectInv`, which says for each step of a save what it has
  read of the downloads that were owed all along and did not change stores.  An owed
  download neither enters nor leaves the index (`OwedStays`).  In the fast path the two
  lengths add up to that of the index read in between; if nobody changed stores they are
  disjoint parts of it, hence all of it.  When somebody did, one that was between two
  stores can be missed, which is the exception in the property.

Only model-checked: the liveness properties (`RetryComesBack`, `FreeSlotIsUsed`,
`PauseStopsTask`, `PayloadSettled`, both `HaltEnds`, `Delivered`, `AllocationAnswered`,
`SavedInTime`; fairness is out of the prover's reach).  Every invariant and every action
property of the passing runs is stated by a theorem, the two named above under
`Block <= RangeFloor`.

## 7. Not modelled

In `EngineLoop`: event hooks, session marking (which `SessionSave` has), server
statistics, rate limits, followed-by children of a completed download, the
`AddMetalinkGraph` command (the pair is in the initial queue), seed-only
torrents that do not count against the limit, pruning of old results,
`change_position`.  In a group: progress, error codes, options other than the
pending flag.  A general `CompletionDependency` (several prerequisites, magnet
links) is modelled only as the Metalink pair.  A task that panics sends no completion
(`task_spawner.rs:71-125`), so its command stays outstanding until a force halt finds the
task gone; every end of a task in the model sends one.

In the concurrent download: the pipelined transport (`pipeline.rs`), more than one
mirror at a time with its selection and scores, adaptive target concurrency (the
target is `Split`), redirects, authentication and the FTP transfer.  In the output
files: the limit on the length of a name, the contents of files, how a file is
allocated block by block, a torrent without any content, and the name `FirstFree` takes
when 10 000 names are in use, which is registered without a look at whether it is free
(`active_output_registry.rs:167-176`).
The stall check of a concurrent download is more generous in the model: `Stuck` may give
up on a delayed retry that in the code is due at once, as its `retry_at` is the present
instant.  That adds behaviours, under which the safety properties hold all the same.

In the sequential download: in-memory downloads, a local file longer than the
remote one, control files that cannot be read or
belong to another length (treated as absent after their removal), a stale control
file that cannot be removed, the counter of not-found answers, `max-tries = 0`
(unlimited).  HTTP, FTP and Metalink commands use the same committer and
checkpoint with other loops around them.

In the session: the entries of the file and how it is read back, the periodic control-file
requests, force shutdown, a save interval of zero, groups that cannot be spawned, and
generated children, which a save leaves out.  The
BitTorrent engine (peers, choking, DHT, uTP) is larger than all of the above and
would be a project of its own; only its output files are modelled here.
Parsing, wire formats, CLI,
RPC transport and the bindings are translation, rate limiting and mirror scores
are timing policy and heuristics without a safety property of their own.

## 8. Plan

The order followed what the rest of the system relies on: `WorkScheduler` with
`WorkLifecycle`; `RequestGroup`, `RequestGroupMan`, `EngineLoop` with
`DownloadLifecycle`; `CommandChannel`; `SequentialDownload`; `ConcurrentDownload`;
`OutputFiles`; `SessionSave`.  What would come next:

1. Waiting handles: `ActivitySignal`, `DownloadHandle` and the window between
   unregistering a group and recording its result (`queries.rs:324-342`), on the
   operations `SessionSave` has taken apart.
2. Several mirrors in `ConcurrentDownload`: selection, scores, tail reclaim, and the
   pipelined transport as a second set of range tasks.
3. Restoring a session (`add_restored_group`, Metalink graphs) after a crash at any
   point of `SessionSave`.
4. uTP sequencing with wrapping 16-bit numbers, loss, duplication and
   reordering; DHT token and peer storage; choking.
