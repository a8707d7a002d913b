----------------------------- MODULE OutputFiles -----------------------------
(***************************************************************************)
(* The output paths of concurrent downloads: the process-wide registry of  *)
(* claimed paths (engine/active_output_registry.rs), how the HTTP command  *)
(* (engine/http/download_command), the Metalink command and the BitTorrent *)
(* command claim and release them, the file allocation queue with its      *)
(* worker thread (filesystem/file_allocation_man), and the force halt of   *)
(* the engine, which cancels allocations and gives tasks up.               *)
(*                                                                         *)
(* A path is a sequence: the name a download asks for, followed by the     *)
(* numbers that resolved collisions.                                       *)
(***************************************************************************)
EXTENDS Naturals, Sequences, FiniteSets

CONSTANTS
    Https, Metalinks, Torrents, \* the commands, by protocol
    Desired,                    \* the path an HTTP or Metalink command asks for
    Layout,                     \* the files of a torrent
    MaxNumber,                  \* the largest numeric suffix tried
    Uris,                       \* attempts of a command: its mirrors
    Order,                      \* the tasks, as the engine's list has them
    Policies,                   \* OutputPathPolicy of an HTTP command, whether
                                \* it removes the control file, may start
                                \* afresh, and preallocates
    Found,                      \* possible sets of outputs found on disk
    NoEntry

Commands == Https \cup Metalinks \cup Torrents
Path == Seq(Nat)
Policy == [overwrite : BOOLEAN, rename : BOOLEAN, continue : BOOLEAN, integrity : BOOLEAN,
           forget : BOOLEAN, fresh : BOOLEAN, prealloc : BOOLEAN]
ASSUME OutputAssumption ==
    /\ Https \cap Metalinks = {} /\ Https \cap Torrents = {} /\ Metalinks \cap Torrents = {}
    /\ \A c \in Https \cup Metalinks : Desired[c] \in Path
    /\ \A c \in Torrents : Layout[c] \subseteq Path
    /\ MaxNumber \in Nat /\ Uris \in [Commands -> Nat \ {0}]
    /\ Order \in Seq(Commands) /\ \A c \in Commands : \E k \in 1..Len(Order) : Order[k] = c
    /\ Policies \subseteq Policy /\ Found \subseteq SUBSET Path

VARIABLES
    registry,   \* ActiveOutputRegistry
    files,      \* outputs that exist
    ctrl,       \* outputs with a control file beside them
    pc, path, resolved, uris, \* of a command
    policy,
    queue,      \* FileAllocationMan: the queued entries
    picked,     \* the entry of the worker thread, or NoEntry
    awake,      \* the worker, or a stored permit of its Notify
    answer,     \* what the oneshot of a waiting command holds
    halting,    \* phase of the force halt
    turn,       \* commands the phase has still to visit
    robbed      \* history: commands whose claim somebody else released
disk == <<files, ctrl>>
command == <<pc, path, resolved, uris>>
allocation == <<queue, picked, awake, answer>>
engine == <<halting, turn>>
vars == <<registry, disk, command, policy, allocation, engine, robbed>>

Ended == {"done", "failed", "aborted"}
\* Between the claim and its release.
Owning(c) ==
    pc[c] \in {"detect", "integrity", "allocate", "waiting", "transfer", "finishing"}
Held(c) == IF c \in Torrents THEN Layout[c] ELSE {path[c]}
\* The outputs with a control file of their own: not those of a directory.
Checkpointed(c) == IF c \in Torrents /\ Cardinality(Layout[c]) > 1 THEN {} ELSE Held(c)
Running(c) == pc[c] \notin Ended
Others(c, ps) == {d \in Commands \ {c} : Owning(d) /\ Held(d) \cap ps # {}}

Init ==
    /\ registry = {} /\ files \in Found /\ ctrl \in {{}, files}
    /\ pc = [c \in Commands |-> "attempt"]
    /\ path = [c \in Commands |-> IF c \in Torrents THEN <<>> ELSE Desired[c]]
    /\ resolved = [c \in Commands |-> FALSE]
    /\ uris = Uris
    /\ policy \in [Https -> Policies]
    /\ queue = <<>> /\ picked = NoEntry /\ awake = TRUE /\ answer = [c \in Commands |-> "none"]
    /\ halting = "no" /\ turn = <<>> /\ robbed = {}

Goto(c, where) == pc' = [pc EXCEPT ![c] = where]
Claim(c, ps) == registry' = registry \cup ps /\ robbed' = robbed \ {c}
\* release(): the registry does not know whose claim it removes.
Release(c) ==
    /\ registry' = registry \ Held(c)
    /\ robbed' = (robbed \cup Others(c, Held(c))) \ {c}

-----------------------------------------------------------------------------
(***************************************************************************)
(* The registry.                                                           *)
(***************************************************************************)
Numbered(p, n) == Append(p, n)
\* The first numbered name that is not busy.
FirstFree(p, busy) ==
    {Numbered(p, n) : n \in {m \in 1..MaxNumber :
        Numbered(p, m) \notin busy /\ \A k \in 1..(m - 1) : Numbered(p, k) \in busy}}

\* Mutant: the number is chosen by the disk alone.
ResolveByDisk(p) == IF p \notin registry THEN {p} ELSE FirstFree(p, files)
\* resolve(): the desired path unless it is claimed.
Resolve(p) == IF p \notin registry THEN {p} ELSE FirstFree(p, registry \cup files)
\* resolve_with_policy(): a control file makes an output reusable; otherwise it
\* depends on the options, and on its length, which fits or does not.
Reusable(c, p, checkpoints, fits) ==
    \/ policy[c].overwrite \/ p \in checkpoints \/ policy[c].integrity
    \/ policy[c].continue /\ fits
ResolveWithPolicy(c, p, checkpoints, fits) ==
    IF p \notin registry /\ (p \in files => Reusable(c, p, checkpoints, fits)) THEN {p}
    ELSE IF policy[c].rename THEN FirstFree(p, registry \cup (files \ checkpoints)) ELSE {}

-----------------------------------------------------------------------------
(***************************************************************************)
(* DownloadCommand: one attempt per URI, each with a claim of its own.     *)
(***************************************************************************)
\* Mutant: one attempt more than there are URIs.
NextUriOnceMore(c, left) == Goto(c, IF left + 1 > 0 THEN "attempt" ELSE "failed")
\* After a failed attempt the next URI, if any is left.
NextUri(c, left) == Goto(c, IF left > 0 THEN "attempt" ELSE "failed")
\* Mutant: an early return without the release.
AttemptFailsClaiming(c) == UNCHANGED <<registry, robbed>> /\ NextUri(c, uris[c])
AttemptFails(c) == Release(c) /\ NextUri(c, uris[c])
\* A halted attempt or a failed probe, before there is a claim.
ProbeFails(c) ==
    /\ c \in Https /\ pc[c] = "attempt"
    /\ uris' = [uris EXCEPT ![c] = @ - 1] /\ NextUri(c, uris[c] - 1)
    /\ UNCHANGED <<registry, disk, path, resolved, policy, allocation, engine, robbed>>
\* The control file of the desired path goes first where the options say so.
Checkpoints(c) == IF policy[c].forget THEN ctrl \ {path[c]} ELSE ctrl
ResolveFirst(c) ==
    /\ c \in Https /\ pc[c] = "attempt" /\ ~resolved[c]
    /\ uris' = [uris EXCEPT ![c] = @ - 1] /\ ctrl' = Checkpoints(c)
    /\ \E fits \in BOOLEAN :
        LET choices == ResolveWithPolicy(c, path[c], Checkpoints(c), fits) IN
        \/ \E p \in choices :
            /\ Claim(c, {p}) /\ path' = [path EXCEPT ![c] = p]
            /\ resolved' = [resolved EXCEPT ![c] = TRUE] /\ Goto(c, "detect")
        \/ choices = {} /\ NextUri(c, uris[c] - 1) /\ UNCHANGED <<registry, path, resolved, robbed>>
    /\ UNCHANGED <<files, policy, allocation, engine>>
ResolveAgain(c) ==
    /\ c \in Https /\ pc[c] = "attempt" /\ resolved[c]
    /\ uris' = [uris EXCEPT ![c] = @ - 1] /\ ctrl' = Checkpoints(c)
    /\ \E p \in Resolve(path[c]) :
        Claim(c, {p}) /\ path' = [path EXCEPT ![c] = p]
    /\ Goto(c, "detect")
    /\ UNCHANGED <<files, resolved, policy, allocation, engine>>

\* ResumeHelper::detect fails, finds the whole file, or leaves work to do; a
\* control file without its output is removed.
DetectFails(c) ==
    /\ c \in Https /\ pc[c] = "detect" /\ path[c] \in ctrl
    /\ policy[c].continue \/ path[c] \notin files
    /\ AttemptFails(c)
    /\ UNCHANGED <<disk, path, resolved, uris, policy, allocation, engine>>
DetectComplete(c) ==
    /\ c \in Https /\ pc[c] = "detect"
    /\ policy[c].continue /\ path[c] \in files /\ ~policy[c].integrity
    /\ Release(c) /\ Goto(c, "done")
    /\ UNCHANGED <<disk, path, resolved, uris, policy, allocation, engine>>
DetectPartial(c) ==
    /\ c \in Https /\ pc[c] = "detect"
    /\ ctrl' = ctrl \ ({path[c]} \ files)
    /\ \/ AttemptFails(c)
       \/ /\ Goto(c, IF policy[c].integrity THEN "integrity" ELSE "allocate")
          /\ UNCHANGED <<registry, robbed>>
    /\ UNCHANGED <<files, path, resolved, uris, policy, allocation, engine>>
\* --check-integrity: a verified file is released here and again at the end.
IntegrityVerified(c) ==
    /\ c \in Https /\ pc[c] = "integrity" /\ policy[c].continue /\ path[c] \in files
    /\ Release(c) /\ Goto(c, "verified")
    /\ UNCHANGED <<disk, path, resolved, uris, policy, allocation, engine>>
IntegrityChecked(c) ==
    /\ c \in Https /\ pc[c] = "integrity"
    /\ \/ Goto(c, "allocate") /\ UNCHANGED <<registry, robbed>>
       \/ AttemptFails(c)
    /\ UNCHANGED <<disk, path, resolved, uris, policy, allocation, engine>>

\* The transfer writes the output, then a control file beside it.
Write(c) ==
    /\ pc[c] = "transfer" /\ ~(Held(c) \subseteq files) /\ files' = files \cup Held(c)
    /\ UNCHANGED <<registry, ctrl, command, policy, allocation, engine, robbed>>
Save(c) ==
    /\ pc[c] = "transfer" /\ Held(c) \subseteq files /\ ~(Checkpointed(c) \subseteq ctrl)
    /\ ctrl' = ctrl \cup Checkpointed(c)
    /\ UNCHANGED <<registry, files, command, policy, allocation, engine, robbed>>
TransferOk(c) ==
    /\ c \in Https /\ pc[c] = "transfer" /\ Held(c) \subseteq files
    /\ ctrl' = ctrl \ Held(c) /\ Goto(c, "finishing")
    /\ UNCHANGED <<registry, files, path, resolved, uris, policy, allocation, engine, robbed>>
TransferFails(c) ==
    /\ c \in Https /\ pc[c] = "transfer" /\ AttemptFails(c)
    /\ UNCHANGED <<disk, path, resolved, uris, policy, allocation, engine>>
\* The server does not resume: a fresh start when resuming failed too often or
\* no URI is left, and the next URI before that.
CannotResume(c) ==
    /\ c \in Https /\ pc[c] = "transfer" /\ path[c] \in files
    /\ Release(c)
    /\ \/ policy[c].fresh /\ Goto(c, "fresh")
       \/ (policy[c].fresh => uris[c] > 0) /\ NextUri(c, uris[c])
    /\ UNCHANGED <<disk, path, resolved, uris, policy, allocation, engine>>
\* finalize_attempt: a last checksum, then the release.
Finalize(c) ==
    /\ c \in Https /\ pc[c] \in {"finishing", "verified"}
    /\ Release(c) /\ (Goto(c, "done") \/ NextUri(c, uris[c]))
    /\ UNCHANGED <<disk, path, resolved, uris, policy, allocation, engine>>
\* prepare_fresh_download, with no claim on the path, and one last attempt.
FreshStart(c) ==
    /\ c \in Https /\ pc[c] = "fresh"
    /\ ctrl' = ctrl \ {path[c]} /\ files' = files \cup {path[c]}
    /\ Goto(c, "attempt") /\ uris' = [uris EXCEPT ![c] = 1]
    /\ policy' = [policy EXCEPT ![c].fresh = FALSE]
    /\ UNCHANGED <<registry, path, resolved, allocation, engine, robbed>>
FreshStartFails(c) ==
    /\ c \in Https /\ pc[c] = "fresh"
    /\ Goto(c, "failed") /\ ctrl' \in {ctrl, ctrl \ {path[c]}}
    /\ UNCHANGED <<registry, files, path, resolved, uris, policy, allocation, engine, robbed>>

-----------------------------------------------------------------------------
(***************************************************************************)
(* MetalinkDownloadCommand: one claim for all mirrors.                     *)
(***************************************************************************)
MetalinkResolve(c) ==
    /\ c \in Metalinks /\ pc[c] = "attempt"
    /\ \E p \in Resolve(path[c]) :
        Claim(c, {p}) /\ path' = [path EXCEPT ![c] = p]
    /\ Goto(c, "transfer")
    /\ UNCHANGED <<disk, resolved, uris, policy, allocation, engine>>
\* A mirror fails with its data kept, or discarded after a failed verification.
KeepOrDiscard(c) ==
    \/ UNCHANGED disk
    \/ files' = files \ {path[c]} /\ ctrl' = ctrl \ {path[c]}
MetalinkMirrorFails(c) ==
    /\ c \in Metalinks /\ pc[c] = "transfer" /\ uris[c] > 1
    /\ uris' = [uris EXCEPT ![c] = @ - 1] /\ KeepOrDiscard(c)
    /\ UNCHANGED <<registry, pc, path, resolved, policy, allocation, engine, robbed>>
MetalinkOk(c) ==
    /\ c \in Metalinks /\ pc[c] = "transfer" /\ path[c] \in files
    /\ ctrl' = ctrl \ {path[c]} /\ Release(c) /\ Goto(c, "done")
    /\ UNCHANGED <<files, path, resolved, uris, policy, allocation, engine>>
\* Nothing worked: the end, or the torrent of the file.
MetalinkFails(c) ==
    /\ c \in Metalinks /\ pc[c] = "transfer"
    /\ KeepOrDiscard(c) /\ Release(c)
    /\ Goto(c, "failed") \/ (uris[c] = 1 /\ Goto(c, "fallback"))
    /\ UNCHANGED <<path, resolved, uris, policy, allocation, engine>>
\* The output is discarded with no claim on it; the torrent is not followed.
MetalinkFallback(c) ==
    /\ c \in Metalinks /\ pc[c] = "fallback"
    /\ files' = files \ {path[c]} /\ ctrl' = ctrl \ {path[c]}
    /\ Goto(c, "done") \/ Goto(c, "failed")
    /\ UNCHANGED <<registry, path, resolved, uris, policy, allocation, engine, robbed>>

-----------------------------------------------------------------------------
(***************************************************************************)
(* BtDownloadCommand: all files at once, or not at all.                    *)
(***************************************************************************)
ReserveExactPaths(c) ==
    /\ c \in Torrents /\ pc[c] = "attempt"
    /\ \/ /\ Layout[c] \cap registry = {} /\ Claim(c, Layout[c]) /\ Goto(c, "allocate")
       \/ /\ Layout[c] \cap registry # {} /\ Goto(c, "failed") /\ UNCHANGED <<registry, robbed>>
    /\ UNCHANGED <<disk, path, resolved, uris, policy, allocation, engine>>
\* The reservation is dropped after the last write, or with the command.  Files
\* found complete (hash check) end it before anything is allocated.
TorrentEnds(c) ==
    /\ c \in Torrents
    /\ \/ /\ pc[c] \in {"allocate", "transfer"} /\ Held(c) \subseteq files
          /\ ctrl' = ctrl \ Checkpointed(c) /\ Goto(c, "done")
       \/ pc[c] \in {"allocate", "transfer"} /\ Goto(c, "failed") /\ UNCHANGED ctrl
    /\ Release(c)
    /\ UNCHANGED <<files, path, resolved, uris, policy, allocation, engine>>

-----------------------------------------------------------------------------
(***************************************************************************)
(* FileAllocationMan: enqueue and wait, one worker, cancellation by gid.   *)
(***************************************************************************)
Entry(c) == [command |-> c, paths |-> Held(c), cancelled |-> FALSE]
\* Mutant: the push notifies nobody.
WakeNobody == UNCHANGED awake
Wake == awake' = TRUE
Enqueue(c) ==
    /\ pc[c] = "allocate" /\ (c \in Https => policy[c].prealloc)
    /\ Goto(c, "waiting") /\ queue' = Append(queue, Entry(c)) /\ Wake
    /\ UNCHANGED <<registry, disk, path, resolved, uris, policy, picked, answer, engine, robbed>>
NoAllocation(c) ==
    /\ pc[c] = "allocate" /\ (c \in Https => ~policy[c].prealloc) /\ Goto(c, "transfer")
    /\ UNCHANGED <<registry, disk, path, resolved, uris, policy, allocation, engine, robbed>>
Answered(c) ==
    /\ pc[c] = "waiting" /\ answer[c] # "none" /\ answer' = [answer EXCEPT ![c] = "none"]
    /\ \/ answer[c] = "ok" /\ Goto(c, "transfer") /\ UNCHANGED <<registry, robbed>>
       \/ answer[c] = "error" /\ c \in Https /\ AttemptFails(c)
       \/ answer[c] = "error" /\ c \in Torrents /\ Release(c) /\ Goto(c, "failed")
    /\ UNCHANGED <<disk, path, resolved, uris, policy, queue, picked, awake, engine>>

\* worker_loop: the next entry, or a wait for a notification.
TakeNext ==
    /\ awake /\ picked = NoEntry /\ queue # <<>>
    /\ picked' = Head(queue) /\ queue' = Tail(queue)
    /\ UNCHANGED <<registry, disk, command, policy, awake, answer, engine, robbed>>
Sleep ==
    /\ awake /\ picked = NoEntry /\ queue = <<>> /\ awake' = FALSE
    /\ UNCHANGED <<registry, disk, command, policy, queue, picked, answer, engine, robbed>>
\* File by file, each after a look at the flag.
AllocateFile ==
    /\ picked # NoEntry /\ ~picked.cancelled
    /\ \E p \in picked.paths \ files : files' = files \cup {p}
    /\ UNCHANGED <<registry, ctrl, command, policy, allocation, engine, robbed>>
\* Nobody listens to the answer of a task that was aborted.
Send(c, result) ==
    answer' = IF pc[c] = "waiting" THEN [answer EXCEPT ![c] = result] ELSE answer
EntryDone ==
    /\ picked # NoEntry
    /\ \/ picked.paths \subseteq files /\ Send(picked.command, "ok")
       \/ Send(picked.command, "error")
    /\ picked' = NoEntry
    /\ UNCHANGED <<registry, disk, command, policy, queue, awake, engine, robbed>>
\* cancel_gid: queued entries are answered, the picked one is flagged.
\* What stays of the entries: the subsequence of the others, a set of one.
Keep(entries, c) ==
    LET left == {k \in 1..Len(entries) : entries[k].command # c}
        places == 1..Cardinality(left)
        order == {at \in [places -> left] : \A j, k \in places : j < k => at[j] < at[k]}
    IN  {[k \in places |-> entries[at[k]]] : at \in order}
CancelGid(c) ==
    /\ queue' \in Keep(queue, c)
    /\ IF \E k \in 1..Len(queue) : queue[k].command = c THEN Send(c, "error") ELSE UNCHANGED answer
    /\ picked' = IF picked # NoEntry /\ picked.command = c
                 THEN [picked EXCEPT !.cancelled = TRUE] ELSE picked

-----------------------------------------------------------------------------
(***************************************************************************)
(* The force halt of the engine: cancel the allocations, wait for each     *)
(* task or abort it, cancel again. A task that is halted, paused or removed*)
(* fails at the next of its checks, as it may fail there anyway, or has    *)
(* passed the last one.                                                    *)
(***************************************************************************)
ForceHalt ==
    /\ halting = "no" /\ halting' = "first" /\ turn' = Order
    /\ UNCHANGED <<registry, disk, command, policy, allocation, robbed>>
CancelAllocations ==
    /\ halting \in {"first", "second"} /\ turn # <<>>
    /\ CancelGid(Head(turn)) /\ turn' = Tail(turn)
    /\ UNCHANGED <<registry, disk, command, policy, awake, halting, robbed>>
WaitedFor ==
    /\ halting = "wait" /\ turn # <<>> /\ ~Running(Head(turn)) /\ turn' = Tail(turn)
    /\ UNCHANGED <<registry, disk, command, policy, allocation, halting, robbed>>
\* Only the reservation of a torrent goes with its task.
Abort(c) ==
    /\ halting = "wait" /\ turn # <<>> /\ c = Head(turn) /\ Running(c)
    /\ turn' = Tail(turn) /\ Goto(c, IF c \in Torrents THEN "failed" ELSE "aborted")
    /\ IF c \in Torrents /\ Owning(c) THEN Release(c) ELSE UNCHANGED <<registry, robbed>>
    /\ UNCHANGED <<disk, path, resolved, uris, policy, allocation, halting>>
\* Mutant: no second round of cancels.
AfterWithoutRepeat == [first |-> "wait", wait |-> "over"]
\* The phases of the halt, in the order of the handler.
After == [first |-> "wait", wait |-> "second", second |-> "over"]
NextPhase ==
    /\ halting \in DOMAIN After /\ turn = <<>>
    /\ halting' = After[halting] /\ turn' = IF halting' = "over" THEN <<>> ELSE Order
    /\ UNCHANGED <<registry, disk, command, policy, allocation, robbed>>

Http(c) ==
    \/ ProbeFails(c) \/ ResolveFirst(c) \/ ResolveAgain(c) \/ DetectFails(c) \/ DetectComplete(c)
    \/ DetectPartial(c) \/ IntegrityVerified(c) \/ IntegrityChecked(c) \/ TransferOk(c)
    \/ TransferFails(c) \/ CannotResume(c) \/ Finalize(c) \/ FreshStart(c) \/ FreshStartFails(c)
Metalink(c) ==
    \/ MetalinkResolve(c) \/ MetalinkMirrorFails(c) \/ MetalinkOk(c) \/ MetalinkFails(c)
    \/ MetalinkFallback(c)
Torrent(c) == ReserveExactPaths(c) \/ TorrentEnds(c)
Task(c) ==
    \/ Http(c) \/ Metalink(c) \/ Torrent(c) \/ Write(c) \/ Save(c)
    \/ Enqueue(c) \/ NoAllocation(c) \/ Answered(c)
Worker == TakeNext \/ Sleep \/ AllocateFile \/ EntryDone
Engine == ForceHalt \/ NextPhase \/ CancelAllocations \/ WaitedFor
Next == Worker \/ Engine \/ \E c \in Commands : Task(c) \/ Abort(c)
Spec == Init /\ [][Next]_vars
\* The worker is a thread of its own, and a task is polled once it is answered.
FairSpec == Spec /\ WF_vars(Worker) /\ \A c \in Commands : WF_vars(Answered(c))

-----------------------------------------------------------------------------
(***************************************************************************)
(* Properties.                                                             *)
(***************************************************************************)
Waypoints == {"attempt", "detect", "integrity", "verified", "allocate", "waiting",
              "transfer", "finishing", "fresh", "fallback"} \cup Ended
Entries == [command : Commands, paths : SUBSET Path, cancelled : BOOLEAN]
\* The variables keep to their values; only preallocating commands wait.
TypeOK ==
    /\ registry \in SUBSET Path /\ files \in SUBSET Path /\ ctrl \in SUBSET Path
    /\ pc \in [Commands -> Waypoints] /\ path \in [Commands -> Path]
    /\ resolved \in [Commands -> BOOLEAN]
    /\ uris \in [Commands -> Nat] /\ policy \in [Https -> Policy]
    /\ queue \in Seq(Entries) /\ picked \in Entries \cup {NoEntry} /\ awake \in BOOLEAN
    /\ answer \in [Commands -> {"none", "ok", "error"}]
    /\ halting \in {"no", "first", "wait", "second", "over"} /\ turn \in Seq(Commands)
    /\ robbed \in SUBSET Commands

\* Two commands own a common path only after somebody released a claim that was
\* not its own (active_output_registry.rs:244): a check and claim under one lock,
\* with renames and all-or-nothing reservations, never share a path.
Exclusive ==
    \A c, d \in Commands :
        c # d /\ Owning(c) /\ Owning(d) /\ Held(c) \cap Held(d) # {} => c \in robbed \/ d \in robbed

\* The registry agrees with the commands: who owns a path and was not robbed is
\* registered, and every registered path is that of an owner or of a task that
\* was aborted before it could release it. No early return forgets the release.
ClaimsMatch ==
    /\ \A c \in Commands : Owning(c) /\ c \notin robbed => Held(c) \subseteq registry
    /\ \A p \in registry : \E c \in Commands : p \in Held(c) /\ (Owning(c) \/ pc[c] = "aborted")

\* After the force halt no entry of the engine's tasks is left to run, not even
\* one a task queued while it was being shut down (commands.rs:278 "allocations
\* queued during task teardown").
HaltForgets ==
    halting = "over" => queue = <<>> /\ (picked # NoEntry => picked.cancelled)

\* Whoever waits for an allocation is answered: by the worker, or by the cancel
\* that took the entry away.
AllocationAnswered ==
    \A c \in Commands : pc[c] = "waiting" ~> pc[c] # "waiting"

\* What the registry is for (active_output_registry.rs:3): of two downloads that
\* may neither overwrite nor reuse an output, none ends on the other's output.
Fussy(c) == ~policy[c].overwrite /\ ~policy[c].integrity /\ ~policy[c].continue
NothingOverwritten ==
    \A c, d \in Https :
        c # d /\ pc[c] = "done" /\ pc[d] = "done" /\ Fussy(c) /\ Fussy(d) => path[c] # path[d]
=============================================================================
