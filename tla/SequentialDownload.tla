-------------------------- MODULE SequentialDownload --------------------------
(***************************************************************************)
(* One single-source download, as the SFTP command runs it: the attempts   *)
(* of run_single_work_item (engine/work_runner.rs), one attempt            *)
(* (engine/sftp/download_command/execution.rs), the ordered commit of a    *)
(* chunk (engine/work_commit.rs), its resume checkpoint                    *)
(* (engine/progress_checkpoint.rs), the writer of the output               *)
(* (filesystem/disk_writer/atomic.rs), and the disk below them.            *)
(*                                                                         *)
(* A unit of length is one chunk.  The remote file has Length units and    *)
(* does not change.  The output may hold a foreign file at the start.      *)
(***************************************************************************)
EXTENDS Integers, FiniteSets

CONSTANTS
    Length,          \* units of the remote file
    SaveInterval,    \* CHECKPOINT_SAVE_INTERVAL in units
    MaxAttempts,     \* max-tries of one run
    MaxRuns          \* bound: how often the download is started

ASSUME DownloadAssumption ==
    /\ Length \in Nat \ {0} /\ SaveInterval \in Nat \ {0}
    /\ MaxAttempts \in Nat \ {0} /\ MaxRuns \in Nat

VARIABLES
    options,    \* [continue, checksum], fixed for the download
    file,       \* the output: what is visible of it and what is stable
    sidecar,    \* completed length in the visible control file, or NoSidecar
    ghosts,     \* sidecars whose replacement or removal is not stable yet
    pc,         \* the step the command is about to take
    attempt, completed,
    ckpt,       \* [open, completed, saved]: ProgressCheckpoint in memory
    writer,     \* what the next write does: "fresh", "append", "open"
    error,      \* why the attempt ends: "none", "halt", "network", "fatal"
    halt,       \* the group is removed, paused or asked to halt
    notified,   \* the parked read has a lifecycle notification
    saveReq,    \* a control file save was requested
    failures,   \* history: which of "sync", "save" have failed
    runs
disk == <<file, sidecar, ghosts>>
command == <<attempt, completed, ckpt, writer, error>>
group == <<halt, notified, saveReq>>
world == <<options, runs>>
vars == <<disk, pc, command, group, failures, world>>

NoSidecar == -1
Lesser(a, b) == IF a < b THEN a ELSE b
Greater(a, b) == IF a < b THEN b ELSE a
ClosedCheckpoint == [open |-> FALSE, completed |-> 0, saved |-> 0]
Running == pc \notin {"idle", "stopped", "done"}

-----------------------------------------------------------------------------
(***************************************************************************)
(* The disk.  Of the visible file, the units in junk are not the remote    *)
(* file's, the units in stable survive a loss of power as they are; named  *)
(* says that its directory entry does, upper is the longest it can be then.*)
(***************************************************************************)
NoFile == [exists |-> FALSE, named |-> FALSE, length |-> 0, upper |-> 0,
           junk |-> {}, stable |-> {}]
ForeignFile(n) == [exists |-> TRUE, named |-> TRUE, length |-> n, upper |-> n,
                   junk |-> 1..n, stable |-> 1..n]

\* sync_data or sync_all, then the sync of the parent directories.
Synced == [file EXCEPT !.named = @ \/ file.exists, !.upper = file.length,
                       !.stable = 1..file.length]
\* File::create: an existing output is truncated.
Truncated == [file EXCEPT !.exists = TRUE, !.length = 0, !.junk = {}, !.stable = {}]
Opened == IF writer = "fresh" THEN Truncated
          ELSE IF file.exists THEN file ELSE [NoFile EXCEPT !.exists = TRUE]
\* The unit after the first completed ones is written: its old content stays
\* stable only if it was the same.
Written(f, p) ==
    [f EXCEPT !.length = Greater(@, p), !.upper = Greater(@, p), !.junk = @ \ {p},
              !.stable = IF p \in f.junk THEN @ \ {p} ELSE @]

SyncOk == file' = Synced /\ UNCHANGED <<sidecar, ghosts, failures>>
SyncFails == failures' = failures \cup {"sync"} /\ UNCHANGED disk

\* ControlFile::save of what the checkpoint holds.  A file is replaced by a
\* rename after it was synced; the sync of the directory may fail after that.
SaveOk(c) ==
    /\ sidecar' = c /\ ghosts' = {}
    /\ ckpt' = [ckpt EXCEPT !.completed = c, !.saved = c]
    /\ UNCHANGED <<file, failures>>
SaveFails(c) ==
    /\ failures' = failures \cup {"save"}
    /\ ckpt' = [ckpt EXCEPT !.completed = c]
    /\ UNCHANGED disk
SaveUnsynced(c) ==
    /\ sidecar' = c /\ ghosts' = ghosts \cup {sidecar}
    /\ failures' = failures \cup {"save", "sync"}
    /\ ckpt' = [ckpt EXCEPT !.completed = c]
    /\ UNCHANGED file
Save(c) == SaveOk(c) \/ SaveFails(c) \/ SaveUnsynced(c)

-----------------------------------------------------------------------------
Init ==
    /\ options \in [continue : BOOLEAN, checksum : BOOLEAN]
    /\ file \in {NoFile} \cup {ForeignFile(n) : n \in 1..Length}
    /\ sidecar = NoSidecar /\ ghosts = {}
    /\ pc = "idle" /\ attempt = 0 /\ completed = 0 /\ ckpt = ClosedCheckpoint
    /\ writer = "fresh" /\ error = "none"
    /\ halt = FALSE /\ notified = FALSE /\ saveReq = FALSE
    /\ failures = {} /\ runs = 0

\* A command is constructed: at the start, after an unpause, after a restart.
Start ==
    /\ ~Running /\ pc # "done" /\ runs < MaxRuns
    /\ runs' = runs + 1 /\ pc' = "connect"
    /\ attempt' = 1 /\ completed' = 0 /\ ckpt' = ClosedCheckpoint
    /\ writer' = "fresh" /\ error' = "none"
    /\ halt' = FALSE /\ notified' = FALSE
    /\ UNCHANGED <<disk, saveReq, failures, options>>

\* Connection, session and stat of the remote file.
Connect ==
    /\ pc = "connect" /\ pc' = "open"
    /\ UNCHANGED <<disk, command, group, failures, world>>

\* The remote side refuses, breaks off or ends early before or between reads.
RemoteFails ==
    /\ pc \in {"connect", "remote"}
    /\ error' \in {"network", "fatal"}
    /\ pc' = "failed"
    /\ UNCHANGED <<disk, attempt, completed, ckpt, writer, group, failures, world>>

-----------------------------------------------------------------------------
(***************************************************************************)
(* ProgressCheckpoint::resume_input_length, open and resume_offset.        *)
(***************************************************************************)
\* A control file without the output is stale and removed.
Compatible == file.exists /\ sidecar # NoSidecar
\* Mutants: any existing output seeds the attempt; only --continue does.
ResumeInputAlways == file.length
ResumeInputOnContinue == IF options.continue THEN file.length ELSE 0

ResumeInput ==
    IF \/ options.checksum /\ file.length = Length
       \/ options.continue \/ sidecar # NoSidecar
    THEN file.length ELSE 0

Trusted == IF Compatible THEN Lesser(sidecar, ResumeInput) ELSE ResumeInput
OpenCheckpoint ==
    /\ pc = "open"
    /\ IF file.exists \/ sidecar = NoSidecar
       THEN UNCHANGED <<sidecar, ghosts>>
       ELSE sidecar' = NoSidecar /\ ghosts' = ghosts \cup {sidecar}
    /\ completed' = Trusted
    /\ ckpt' = [open |-> TRUE, completed |-> Trusted, saved |-> Trusted]
    /\ pc' = IF Compatible /\ Trusted = sidecar THEN "opened" ELSE "openSync"
    /\ UNCHANGED <<file, attempt, writer, error, group, failures, world>>

\* ensure_existing_payload_durable: nothing to sync for an empty prefix.
SyncExisting ==
    /\ pc = "openSync"
    /\ \/ completed = 0 /\ pc' = "openSave" /\ UNCHANGED <<disk, failures>>
       \/ completed > 0 /\ pc' = "openSave" /\ SyncOk
       \/ completed > 0 /\ pc' = "opened" /\ SyncFails
    /\ UNCHANGED <<command, group, world>>

SaveOpened ==
    /\ pc = "openSave" /\ pc' = "opened"
    /\ Save(completed)
    /\ UNCHANGED <<attempt, completed, writer, error, group, world>>

\* A complete local file with a configured checksum is verified first.
MatchesRemote == file.length = Length /\ file.junk = {}
SkipVerifyLocal ==
    /\ pc = "opened" /\ ~(options.checksum /\ completed = Length)
    /\ pc' = "remote"
    /\ UNCHANGED <<disk, command, group, failures, world>>
VerifyLocal ==
    /\ pc = "opened" /\ options.checksum /\ completed = Length
    /\ \/ MatchesRemote /\ pc' = "complete" /\ UNCHANGED <<completed, error>>
       \/ ~MatchesRemote /\ pc' = "restart" /\ completed' = 0 /\ UNCHANGED error
       \/ pc' = "failed" /\ error' = "fatal" /\ UNCHANGED completed
    /\ UNCHANGED <<disk, attempt, ckpt, writer, group, failures, world>>
SaveRestart ==
    /\ pc = "restart" /\ pc' = "remote"
    /\ Save(0)
    /\ UNCHANGED <<attempt, completed, writer, error, group, world>>

\* The remote file is open: new_sequential_download_writer.
OpenRemote ==
    /\ pc = "remote" /\ pc' = "loop"
    /\ writer' = IF completed > 0 THEN "append" ELSE "fresh"
    /\ UNCHANGED <<disk, attempt, completed, ckpt, error, group, failures, world>>

-----------------------------------------------------------------------------
(***************************************************************************)
(* The transfer loop.  A halt is looked for at the head; then the command  *)
(* registers for lifecycle notifications and parks in the read.  Only a    *)
(* notification sent after the registration wakes it.                      *)
(***************************************************************************)
HeadHalted ==
    /\ pc = "loop" /\ halt
    /\ pc' = "partial" /\ error' = "halt"
    /\ UNCHANGED <<disk, attempt, completed, ckpt, writer, group, failures, world>>
HeadComplete ==
    /\ pc = "loop" /\ ~halt /\ completed = Length
    /\ pc' = "finalize"
    /\ UNCHANGED <<disk, command, group, failures, world>>
\* Mutant: the read is not bounded by what remains.
HeadReadOn ==
    /\ pc = "loop" /\ ~halt
    /\ pc' = "register"
    /\ UNCHANGED <<disk, command, group, failures, world>>

HeadRead ==
    /\ pc = "loop" /\ ~halt /\ completed < Length
    /\ pc' = "register"
    /\ UNCHANGED <<disk, command, group, failures, world>>
Register ==
    /\ pc = "register" /\ pc' = "read"
    /\ UNCHANGED <<disk, command, group, failures, world>>

\* select!: the answer of the server, or the notification.
ReadData ==
    /\ pc = "read" /\ pc' = "write"
    /\ notified' = FALSE
    /\ UNCHANGED <<disk, command, halt, saveReq, failures, world>>
ReadFails ==
    /\ pc = "read" /\ pc' = "partial"
    /\ error' \in {"network", "fatal"}
    /\ notified' = FALSE
    /\ UNCHANGED <<disk, attempt, completed, ckpt, writer, halt, saveReq, failures, world>>
ReadNotified ==
    /\ pc = "read" /\ notified
    /\ IF halt THEN pc' = "partial" /\ error' = "halt"
               ELSE pc' = "loop" /\ UNCHANGED error
    /\ notified' = FALSE
    /\ UNCHANGED <<disk, attempt, completed, ckpt, writer, halt, saveReq, failures, world>>

(***************************************************************************)
(* SequentialWorkCommitter::commit_chunk: write, then sync the payload     *)
(* before the checkpoint is advanced, if it is due.                        *)
(***************************************************************************)
NeedsUpdateBeyond(c, force) == force \/ c - ckpt.saved > SaveInterval    \* mutant
NeedsUpdate(c, force) == force \/ c - ckpt.saved >= SaveInterval
\* Mutant: the checkpoint is advanced before the payload is synced.
WriteOkSavedFirst ==
    /\ pc = "write"
    /\ file' = Written(Opened, completed + 1)
    /\ writer' = "open"
    /\ completed' = completed + 1
    /\ pc' = IF NeedsUpdate(completed', saveReq) THEN "save" ELSE "loop"
    /\ saveReq' = FALSE
    /\ UNCHANGED <<sidecar, ghosts, attempt, ckpt, error, halt, notified, failures, world>>

WriteOk ==
    /\ pc = "write"
    /\ file' = Written(Opened, completed + 1)
    /\ writer' = "open"
    /\ completed' = completed + 1
    /\ pc' = IF NeedsUpdate(completed', saveReq) THEN "sync" ELSE "loop"
    /\ saveReq' = FALSE
    /\ UNCHANGED <<sidecar, ghosts, attempt, ckpt, error, halt, notified, failures, world>>
WriteFails ==
    /\ pc = "write" /\ pc' = "partial" /\ error' = "fatal"
    /\ \/ UNCHANGED <<file, writer>>
       \/ writer # "open" /\ file' = Opened /\ writer' = "open"
    /\ UNCHANGED <<sidecar, ghosts, attempt, completed, ckpt, group, failures, world>>
SyncChunk ==
    /\ pc = "sync"
    /\ \/ SyncOk /\ pc' = "save" /\ UNCHANGED error
       \/ SyncFails /\ pc' = "partial" /\ error' = "fatal"
    /\ UNCHANGED <<attempt, completed, ckpt, writer, group, world>>
SaveChunk ==
    /\ pc = "save" /\ pc' = "loop"
    /\ Save(completed)
    /\ UNCHANGED <<attempt, completed, writer, error, group, world>>

(***************************************************************************)
(* finalize_partial_writer, and flush_checkpoint, which the halt path      *)
(* calls once more whether or not the writer was finalized.                *)
(***************************************************************************)
FinalizeOkUnsynced == UNCHANGED <<disk, failures>>     \* mutant
FinalizeOk == IF writer = "open" THEN SyncOk ELSE UNCHANGED <<disk, failures>>
FinalizeFails == writer = "open" /\ SyncFails

FinalizePartial ==
    /\ pc = "partial"
    /\ \/ FinalizeOk /\ pc' = "flush"
       \/ FinalizeFails /\ pc' = IF error = "halt" THEN "flush" ELSE "failed"
    /\ UNCHANGED <<command, group, world>>
Flush ==
    /\ pc = "flush" /\ pc' = "failed"
    /\ Save(completed)
    /\ saveReq' = FALSE
    /\ UNCHANGED <<attempt, completed, writer, error, halt, notified, world>>

(***************************************************************************)
(* The end of the transfer: the writer is finalized, the checksum is       *)
(* verified, the control file is removed and the group completes.          *)
(***************************************************************************)
Finalize ==
    /\ pc = "finalize"
    /\ \/ FinalizeOk /\ pc' = "verify" /\ UNCHANGED error
       \/ FinalizeFails /\ pc' = "flush" /\ error' = "fatal"
    /\ UNCHANGED <<attempt, completed, ckpt, writer, group, world>>
Verify ==
    /\ pc = "verify"
    /\ \/ (options.checksum => MatchesRemote) /\ pc' = "complete" /\ UNCHANGED error
       \/ options.checksum /\ pc' = "flush" /\ error' = "fatal"
    /\ UNCHANGED <<disk, attempt, completed, ckpt, writer, group, failures, world>>
Complete ==
    /\ pc = "complete" /\ pc' = "done"
    /\ \/ sidecar' = NoSidecar /\ ghosts' = ghosts \cup {sidecar}
       \/ UNCHANGED <<sidecar, ghosts>>           \* remove_file fails
    /\ ckpt' = ClosedCheckpoint
    /\ UNCHANGED <<file, attempt, completed, writer, error, group, failures, world>>

(***************************************************************************)
(* run_single_work_item after a failed attempt; a task that gives up calls *)
(* Command::shutdown (engine/task_spawner.rs), which flushes once more.    *)
(***************************************************************************)
Fail ==
    /\ pc = "failed"
    /\ pc' = IF error = "network" /\ attempt < MaxAttempts THEN "wait" ELSE "shutdown"
    /\ UNCHANGED <<disk, command, group, failures, world>>
WaitHalted ==
    /\ pc = "wait" /\ halt
    /\ pc' = "shutdown" /\ error' = "halt"
    /\ UNCHANGED <<disk, attempt, completed, ckpt, writer, group, failures, world>>
PrepareRetry ==
    /\ pc = "wait" /\ ~halt
    /\ pc' = "connect" /\ attempt' = attempt + 1
    /\ completed' = 0 /\ error' = "none"
    /\ UNCHANGED <<disk, ckpt, writer, group, failures, world>>
Shutdown ==
    /\ pc = "shutdown" /\ pc' = "stopped"
    /\ IF ckpt.open THEN Save(completed) /\ saveReq' = FALSE
                    ELSE UNCHANGED <<disk, ckpt, failures, saveReq>>
    /\ UNCHANGED <<attempt, completed, writer, error, halt, notified, world>>

-----------------------------------------------------------------------------
(***************************************************************************)
(* Clients and the engine: a halt (pause, removal, shutdown, inactivity)   *)
(* or a save of the control file is requested; notify_waiters wakes only   *)
(* who is registered.                                                      *)
(***************************************************************************)
RequestHalt ==
    /\ Running
    /\ halt' = TRUE /\ notified' = (notified \/ pc = "read")
    /\ UNCHANGED <<disk, pc, command, saveReq, failures, world>>
\* A pause is taken back while the command still runs; a removal, which never
\* is, is not told apart from a pause.
RequestResume ==
    /\ Running /\ halt
    /\ halt' = FALSE /\ notified' = (notified \/ pc = "read")
    /\ UNCHANGED <<disk, pc, command, saveReq, failures, world>>
RequestSave ==
    /\ Running
    /\ saveReq' = TRUE /\ notified' = (notified \/ pc = "read")
    /\ UNCHANGED <<disk, pc, command, halt, failures, world>>

\* The process is killed: memory is lost, the disk is as it is visible.
Forget ==
    /\ pc' = "idle" /\ attempt' = 0 /\ completed' = 0 /\ ckpt' = ClosedCheckpoint
    /\ writer' = "fresh" /\ error' = "none"
    /\ halt' = FALSE /\ notified' = FALSE /\ saveReq' = FALSE
    /\ UNCHANGED <<failures, world>>
Kill == Running /\ Forget /\ UNCHANGED disk

\* Power is lost: of what is not stable any part may survive, and a control
\* file that was replaced or removed may be back.
Survivors(f) ==
    {[exists |-> TRUE, named |-> TRUE, length |-> n, upper |-> n,
      junk |-> j, stable |-> 1..n] :
        n \in {l \in 0..f.upper : f.stable \subseteq 1..l},
        j \in {k \in SUBSET (1..f.upper) : k \cap f.stable = f.junk \cap f.stable}}
OutputsAfter(f) ==
    {g \in Survivors(f) : f.exists /\ g.junk \subseteq 1..g.length}
        \cup (IF f.named THEN {} ELSE {NoFile})
LosePower ==
    /\ Forget
    /\ file' \in OutputsAfter(file)
    /\ sidecar' \in {sidecar} \cup ghosts /\ ghosts' = {}

-----------------------------------------------------------------------------
OpenSteps ==
    \/ Connect \/ RemoteFails \/ OpenCheckpoint \/ SyncExisting \/ SaveOpened
    \/ SkipVerifyLocal \/ VerifyLocal \/ SaveRestart \/ OpenRemote
LoopSteps ==
    \/ HeadHalted \/ HeadComplete \/ HeadRead \/ Register \/ ReadNotified
    \/ WriteOk \/ WriteFails \/ SyncChunk \/ SaveChunk
EndSteps ==
    \/ FinalizePartial \/ Flush \/ Finalize \/ Verify \/ Complete
    \/ Fail \/ WaitHalted \/ PrepareRetry \/ Shutdown
CommandSteps == OpenSteps \/ LoopSteps \/ EndSteps
ServerAnswers == ReadData \/ ReadFails
Requests == RequestHalt \/ RequestResume \/ RequestSave
Next == Start \/ CommandSteps \/ ServerAnswers \/ Requests \/ Kill \/ LosePower
Spec == Init /\ [][Next]_vars

-----------------------------------------------------------------------------
Units == 1..Length
TypeOK ==
    /\ options \in [continue : BOOLEAN, checksum : BOOLEAN]
    /\ file \in [exists : BOOLEAN, named : BOOLEAN, length : 0..Length, upper : 0..Length,
                 junk : SUBSET Units, stable : SUBSET Units]
    /\ sidecar \in NoSidecar..Length /\ ghosts \subseteq NoSidecar..Length
    /\ pc \in {"idle", "connect", "open", "openSync", "openSave", "opened", "restart",
               "remote", "loop", "register", "read", "write", "sync", "save", "partial",
               "flush", "finalize", "verify", "complete", "failed", "wait", "shutdown",
               "stopped", "done"}
    /\ attempt \in 0..MaxAttempts /\ completed \in 0..Length
    /\ ckpt \in [open : BOOLEAN, completed : 0..Length, saved : 0..Length]
    /\ writer \in {"fresh", "append", "open"}
    /\ error \in {"none", "halt", "network", "fatal"}
    /\ halt \in BOOLEAN /\ notified \in BOOLEAN /\ saveReq \in BOOLEAN
    /\ failures \subseteq {"sync", "save"}
    /\ runs \in 0..MaxRuns

\* Nothing failed that the order of sync and save relies on.
Reliable == "sync" \notin failures /\ (options.checksum => "save" \notin failures)

\* A control file never claims bytes that a loss of power could take away,
\* whichever version of it survives (progress_checkpoint.rs: "Callers must
\* durably sync the payload before advancing this checkpoint"), unless a sync
\* failed, or the save that sends a mismatching file back to byte zero did.
CheckpointIsStable ==
    Reliable => \A c \in {sidecar} \cup ghosts :
                    1..c \subseteq file.stable /\ (c > 0 => file.named)

\* Past the check of a complete local file, the completed prefix a command
\* goes on from is the remote file's, over crashes, retries and foreign
\* files, unless --continue asked for the existing bytes to be trusted.
PrefixIsData ==
    /\ Reliable /\ ~options.continue
    /\ pc \in {"loop", "register", "read", "write", "finalize"}
    => 1..completed \cap file.junk = {}

\* A download that is done has the whole remote file, on stable storage.
\* With a checksum that holds of the content whatever failed before.
DoneIsWhole ==
    pc = "done" =>
        /\ options.checksum \/ (Reliable /\ ~options.continue) => MatchesRemote
        /\ Reliable => Units \subseteq file.stable

\* While nothing fails, what a crash costs is less than the save interval.
BoundedLoss ==
    pc \in {"loop", "register", "read", "write"} /\ failures = {}
    => completed - Greater(sidecar, 0) < SaveInterval

\* While nothing fails, recorded progress is taken back only by the last
\* flush of a command that had reset it for a retry, by the restart after a
\* checksum mismatch, and by the end of the download.
OnlyRetryForgets ==
    [][sidecar' < sidecar /\ sidecar > 0 /\ failures' = {}
       => \/ pc = "shutdown" /\ attempt > 1
          \/ pc \in {"restart", "complete"}]_vars

\* The test e2e_sftp_pause_interrupts_stalled_read says of a pause during a
\* stalled read: "paused SFTP command remained in the stalled read" is a
\* failure.  So a parked command has the notification of every halt.
PauseInterruptsRead == ~(pc = "read" /\ halt /\ ~notified)
=============================================================================
