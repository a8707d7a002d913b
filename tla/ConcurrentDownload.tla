-------------------------- MODULE ConcurrentDownload --------------------------
(***************************************************************************)
(* One HTTP download by concurrent ranges from one source: the pieces and  *)
(* their owner (engine/concurrent_segment_manager), the range tasks        *)
(* (engine/http/request_executor), the round of the scheduler              *)
(* (engine/http/concurrent_download/segment.rs), its checkpoint            *)
(* (in_flight.rs, filesystem/control_file.rs), the fallback that fills     *)
(* gaps one by one (sequential_download/gap_download.rs) and the resume of *)
(* all that by a later attempt, run or process.                            *)
(*                                                                         *)
(* The remote file has Pieces * PieceUnits units.  The queue of ranges is  *)
(* the promise of WorkLifecycle, which WorkScheduler is shown to keep.     *)
(***************************************************************************)
EXTENDS Naturals, FiniteSets, FiniteSetsExt

CONSTANTS
    PieceCount,         \* durable pieces
    PieceUnits,         \* units of a piece: the first range size limit
    Block,              \* units of an in-flight block
    RangeFloor,         \* --min-http-range-size
    Split,              \* concurrent ranges
    MaxTries,           \* --max-tries, of a range and of the gap phase
    MaxMirrorFailures,  \* consecutive failures that disable the source
    NoControl,
    Options             \* records of --continue, --file-allocation, the length
                        \* of an output found without a control file, and the
                        \* bounds: attempts, the kinds and number of events

\* Answers that come instead of data, failures of a range, and the rest.
Refusals == {"busy", "range416", "rangeTooLarge", "tooLarge", "missing", "cannotResume"}
Failures == {"retry", "fatal"}
Kinds == Refusals \cup Failures \cup
    {"stall", "slow", "gap", "alloc", "write", "sync", "save", "halt", "request", "crash"}

ASSUME ConcurrentAssumption ==
    /\ PieceCount \in Nat \ {0} /\ PieceUnits \in Nat \ {0}
    /\ Block \in 1..PieceUnits /\ PieceUnits % Block = 0
    /\ RangeFloor \in Nat \ {0} /\ Split \in Nat \ {0}
    /\ MaxTries \in Nat \ {0} /\ MaxMirrorFailures \in Nat \ {0}
    /\ Options \subseteq [continue : BOOLEAN, prealloc : BOOLEAN, found : Nat,
                          runs : Nat, max : Nat, events : SUBSET Kinds]

\* A piece without an entry in active_segs.
NoReq == [outcome |-> "none"]
Pieces == 1..PieceCount
Total == PieceCount * PieceUnits
Units == 1..Total
\* The first n units of a piece.
First(p, n) == {(p - 1) * PieceUnits + k : k \in 1..n}
Whole(p) == First(p, PieceUnits)
\* A control file: the complete pieces, the written prefix of the others, and
\* the completed length.
Ctrl == [bits : SUBSET Pieces, blocks : [Pieces -> 0..PieceUnits], length : 0..Total]
ASSUME NoControlAssumption == NoControl \notin Ctrl
Lesser(a, b) == IF a < b THEN a ELSE b
Greater(a, b) == IF a < b THEN b ELSE a

VARIABLES
    file,     \* [seen, stable, size]: units with the remote content, and length
    control,  \* the control file [bits, blocks, length], or NoControl
    pc,
    seg,      \* ConcurrentSegmentManager: [status, done, retries] of a piece
    mirror,   \* MirrorState of the source: [active, failures, disabled]
    phase, charged, cancelled, \* WorkScheduler: where the item of a piece is
    req,      \* active_segs and the task behind the entry, or NoReq
    stale,    \* pieces with a result of a task that was aborted after it
    queue,    \* units in the write channel
    prefix,   \* InFlightProgress: the written prefix of a piece
    round,    \* locals [limit, row416, all416, cooldown, unsaved, recovered]
    gap,      \* gap phase [have, got, any, tries, ctrl]
    resume,   \* what detection found [control, length]
    options,  \* one of Options
    halt, saveReq,
    guessed,  \* history: an attempt trusted a length of the output that did not
              \* stand for content on stable storage
    runs, events
disk == <<file, control>>
manager == <<seg, mirror>>
work == <<phase, charged, cancelled>>
net == <<req, stale, queue>>
attempt == <<manager, work, net, prefix, round, gap, resume>>
outside == <<halt, saveReq>>
world == <<options, guessed, runs>>
vars == <<disk, pc, attempt, outside, world, events>>

Work == INSTANCE WorkLifecycle WITH
    Ids <- Pieces, MaxAttempts <- [p \in Pieces |-> MaxTries],
    MaxInFlight <- Split

Running == pc \notin {"stopped", "done"}
Downloading == pc \in {"head", "admit", "wait", "cooldown", "fallback"}
Tracked == {p \in Pieces : req[p] # NoReq}
InFlight == Cardinality(Tracked) + Cardinality(stale)
Having(s) == {p \in Pieces : seg[p].status = s}
\* Something the environment does to the download, within the bounds.
Event(kind) ==
    kind \in options.events /\ events < options.max /\ events' = events + 1

-----------------------------------------------------------------------------
(***************************************************************************)
(* What a control file says, and what the scheduler would write into it.   *)
(***************************************************************************)
Claimed(c) ==
    UNION {IF p \in c.bits THEN Whole(p) ELSE First(p, c.blocks[p]) : p \in Pieces}
Blocks(n) == (n \div Block) * Block
Credited(s) == UNION {First(p, s[p].done) : p \in Pieces}
Snapshot(s, x) ==
    LET done == {p \in Pieces : s[p].status = "Done"} IN
    [bits   |-> done,
     blocks |-> [p \in Pieces |-> IF p \in done THEN 0 ELSE Blocks(x[p])],
     length |-> Cardinality(Credited(s))]

\* record_completed_range for the units from..to.
Reaches(c, p, from) ==
    LET start == (p - 1) * PieceUnits + 1 IN start < from => c.blocks[p] >= from - start
RecordRange(c, from, to) ==
    LET hit == {p \in Pieces \ c.bits : Whole(p) \cap (from..to) # {} /\ Reaches(c, p, from)}
        full == {p \in hit : p * PieceUnits <= to}
        now == [bits |-> c.bits \cup full,
                blocks |-> [p \in Pieces |->
                    IF p \in full THEN 0
                    ELSE IF p \in hit
                         THEN Greater(c.blocks[p], Blocks(to - (p - 1) * PieceUnits))
                         ELSE c.blocks[p]],
                length |-> 0]
    IN  [now EXCEPT !.length = Cardinality(Claimed(now))]

\* record_range: written units extend the prefix they touch.
Extend(q) ==
    [p \in Pieces |-> Max({k \in prefix[p]..PieceUnits :
                           First(p, k) \ First(p, prefix[p]) \subseteq q})]
\* The writer is opened for its first use: an empty output gets its length.
OpenSize(f) == IF f.size = 0 THEN Total ELSE f.size
Holding(f, q) ==
    IF q = {} THEN f
    ELSE [f EXCEPT !.seen = @ \cup q, !.size = Max(q \cup {OpenSize(f)})]
Synced(f) == [f EXCEPT !.stable = f.seen, !.size = OpenSize(f)]
\* Without a sync, what was written since the last one may be lost: the cache
\* of the writer is dropped, the process is killed, or power fails.
SomeLost == \E kept \in SUBSET (file.seen \ file.stable) :
    file' = [file EXCEPT !.seen = file.stable \cup kept]

FreshSeg(done) == [p \in Pieces |->
    [status |-> IF done[p] = PieceUnits THEN "Done" ELSE "Pending",
     done |-> done[p], retries |-> 0]]
Zero == [p \in Pieces |-> 0]
FreshRound == [limit |-> PieceUnits, row416 |-> 0, all416 |-> 0, cooldown |-> FALSE,
               unsaved |-> 0, recovered |-> {}]
NoResume == [control |-> NoControl, length |-> 0]
NoGap == [have |-> {}, got |-> 0, any |-> FALSE, tries |-> 0, ctrl |-> NoControl]
ClearTransfer ==
    /\ seg' = FreshSeg(Zero) /\ mirror' = [active |-> 0, failures |-> 0, disabled |-> FALSE]
    /\ phase' = [p \in Pieces |-> "Idle"] /\ charged' = Zero /\ cancelled' = FALSE
    /\ req' = [p \in Pieces |-> NoReq] /\ stale' = {} /\ queue' = {}
    /\ prefix' = Zero /\ round' = FreshRound
\* The attempt returns, and its locals are gone.
Leave(where) == pc' = where /\ ClearTransfer /\ gap' = NoGap /\ resume' = NoResume

Init ==
    /\ options \in Options
    /\ LET found == 1..Lesser(options.found, Total) IN
       file = [seen |-> found, stable |-> found, size |-> options.found]
    /\ control = NoControl
    /\ pc = "stopped"
    /\ seg = FreshSeg(Zero) /\ mirror = [active |-> 0, failures |-> 0, disabled |-> FALSE]
    /\ phase = [p \in Pieces |-> "Idle"] /\ charged = Zero /\ cancelled = FALSE
    /\ req = [p \in Pieces |-> NoReq] /\ stale = {} /\ queue = {}
    /\ prefix = Zero /\ round = FreshRound /\ gap = NoGap /\ resume = NoResume
    /\ halt = FALSE /\ saveReq = FALSE /\ guessed = FALSE
    /\ runs = 0 /\ events = 0

-----------------------------------------------------------------------------
(***************************************************************************)
(* The command: attempts, resume detection, allocation, a fresh start.     *)
(***************************************************************************)
\* The command is constructed: at first, after an unpause, after a restart.
Start ==
    /\ pc = "stopped" /\ runs < options.runs
    /\ runs' = runs + 1 /\ pc' = "detect" /\ halt' = FALSE
    /\ UNCHANGED <<disk, attempt, saveReq, options, guessed, events>>
\* The next URI, or no URI left.
NextMirror ==
    /\ pc \in {"failed", "cannotResume"} /\ ~halt /\ runs < options.runs
    /\ runs' = runs + 1 /\ pc' = "detect"
    /\ UNCHANGED <<disk, attempt, outside, options, guessed, events>>
GiveUp ==
    /\ pc \in {"failed", "cannotResume"} /\ pc' = "stopped"
    /\ UNCHANGED <<disk, attempt, outside, world, events>>

\* prepare_fresh_download: the control file goes first, then the content.
FreshRemove ==
    /\ pc = "cannotResume" /\ ~halt /\ runs < options.runs
    /\ runs' = runs + 1 /\ pc' = "truncate" /\ control' = NoControl
    /\ UNCHANGED <<file, attempt, outside, options, guessed, events>>
FreshTruncate ==
    /\ pc = "truncate" /\ pc' = "detect"
    /\ file' = [seen |-> {}, stable |-> {}, size |-> 0] /\ guessed' = FALSE
    /\ UNCHANGED <<control, attempt, outside, options, runs, events>>

\* ResumeHelper::detect, after removing a control file without its output.
Known == IF file.size = 0 THEN NoControl ELSE control
Complete(c) == IF c # NoControl THEN c.length >= Total ELSE file.size >= Total
DetectComplete ==
    /\ pc = "detect" /\ options.continue /\ Complete(Known)
    /\ Leave("done")
    /\ guessed' = (guessed \/ (Known = NoControl /\ ~(Units \subseteq file.seen)))
    /\ UNCHANGED <<disk, outside, options, runs, events>>
DetectPartial ==
    /\ pc = "detect" /\ ~(options.continue /\ Complete(Known))
    /\ control' = Known
    /\ resume' = IF ~options.continue THEN NoResume
                 ELSE [control |-> Known,
                       length |-> IF Known # NoControl THEN Known.length ELSE file.size]
    /\ pc' = "allocate"
    /\ UNCHANGED <<file, manager, work, net, prefix, round, gap, outside, world, events>>
Allocate ==
    /\ pc = "allocate"
    /\ \/ pc' = "prepare" /\ UNCHANGED <<attempt, events>>
          /\ file' = IF options.prealloc THEN [file EXCEPT !.size = Total] ELSE file
       \/ options.prealloc /\ Event("alloc") /\ Leave("failed") /\ UNCHANGED file
    /\ UNCHANGED <<control, outside, world>>

\* segment/resume.rs: what the scheduler starts from.
Aggregate(c) == c.bits # {} \/ \E p \in Pieces : c.blocks[p] > 0
PrefixOf(n) == [p \in Pieces |->
    IF n <= (p - 1) * PieceUnits THEN 0 ELSE Lesser(n - (p - 1) * PieceUnits, PieceUnits)]
FromControl == resume.control # NoControl
Restored ==
    LET c == resume.control IN
    IF FromControl /\ Aggregate(c)
    THEN [p \in Pieces |-> IF p \in c.bits THEN PieceUnits ELSE c.blocks[p]]
    ELSE PrefixOf(resume.length)
RestoredPrefix ==
    IF FromControl /\ Aggregate(resume.control) THEN resume.control.blocks ELSE Restored
\* The completed length of the control file before the first save.
LengthBefore ==
    LET whole == {p \in Pieces : Restored[p] = PieceUnits} IN
    IF whole # {} THEN Cardinality(whole) * PieceUnits
    ELSE IF FromControl THEN resume.length ELSE 0
\* An initial checkpoint, over a prefix that is synced when it is news.
FirstSave ==
    LET s == FreshSeg(Restored)
        news == Cardinality(Credited(s)) \notin {0, LengthBefore}
        new == Snapshot(s, RestoredPrefix)
        old == IF FromControl THEN control ELSE NoControl
    IN  \/ file' = (IF news THEN Synced(file) ELSE file) /\ control' = new /\ UNCHANGED events
        \/ file' \in {file} \cup (IF news THEN {Synced(file)} ELSE {})
           /\ control' = old /\ Event("save")
\* A save that was asked for follows, and its failure ends the attempt.
Prepare ==
    LET new == Snapshot(FreshSeg(Restored), RestoredPrefix) IN
    /\ pc = "prepare"
    /\ \/ /\ \/ ~saveReq /\ FirstSave
             \/ saveReq /\ file' = Synced(file) /\ control' = new /\ UNCHANGED events
          /\ pc' = "head" /\ saveReq' = FALSE
          /\ seg' = FreshSeg(Restored) /\ prefix' = RestoredPrefix
          /\ phase' = [p \in Pieces |-> IF Restored[p] = PieceUnits THEN "Idle" ELSE "Pending"]
          /\ resume' = NoResume
          /\ UNCHANGED <<mirror, charged, cancelled, net, round, gap>>
       \/ /\ saveReq /\ Event("save") /\ Leave("failed") /\ UNCHANGED saveReq
          /\ file' \in {file, Synced(file)}
          /\ control' \in {new, IF FromControl THEN control ELSE NoControl}
    /\ guessed' = (guessed \/ (~FromControl /\ ~(1..resume.length \subseteq file.stable)))
    /\ UNCHANGED <<halt, options, runs>>

-----------------------------------------------------------------------------
(***************************************************************************)
(* The range tasks of the executor.                                        *)
(***************************************************************************)
SendChunk(p) ==
    /\ Downloading /\ req[p] # NoReq /\ req[p].outcome = "running" /\ req[p].sent < req[p].to
    /\ req' = [req EXCEPT ![p].sent = @ + 1]
    /\ queue' = queue \cup {(p - 1) * PieceUnits + req[p].sent + 1}
    /\ UNCHANGED <<disk, pc, manager, work, stale, prefix, round, gap, resume, outside, world, events>>
TaskOk(p) ==
    /\ Downloading /\ req[p] # NoReq /\ req[p].outcome = "running" /\ req[p].sent = req[p].to
    /\ req' = [req EXCEPT ![p].outcome = "ok"]
    /\ UNCHANGED <<disk, pc, manager, work, stale, queue, prefix, round, gap, resume, outside, world, events>>
TaskFails(p) ==
    /\ Downloading /\ req[p] # NoReq /\ req[p].outcome = "running"
    /\ \E o \in Failures \cup (IF req[p].sent < req[p].from THEN Refusals ELSE {}) :
        Event(o) /\ req' = [req EXCEPT ![p].outcome = o]
    /\ UNCHANGED <<disk, pc, manager, work, stale, queue, prefix, round, gap, resume, outside, world>>

-----------------------------------------------------------------------------
(***************************************************************************)
(* Checkpoints.  Whatever is queued is written first; a failed write or    *)
(* sync returns at once, a failed save is only a warning, except for a     *)
(* save that was asked for.                                                *)
(***************************************************************************)
\* sync_all over f, then the save of c, then rest; or a sync that failed.
SyncAndSaveUnsynced(f, c) == file' = f /\ control' = c /\ UNCHANGED events  \* mutant
SyncAndSave(f, c) ==
    /\ file' = Synced(f)
    /\ \/ control' = c /\ UNCHANGED events
       \/ UNCHANGED control /\ Event("save")
SyncFails(f) ==
    /\ Event("sync") /\ Leave("failed") /\ UNCHANGED control
    /\ \E kept \in SUBSET (f.seen \ f.stable) : file' = [f EXCEPT !.seen = f.stable \cup kept]
DrainedLater == file                                                       \* mutant
Drained == Holding(file, queue)
\* flush_requested_control_file over f: nothing, a checkpoint, or an error.
Flushed(f, c) ==
    /\ file' = (IF saveReq THEN Synced(f) ELSE f) /\ saveReq' = FALSE
    /\ control' = (IF saveReq THEN c ELSE control)
FlushFails(f) ==
    /\ saveReq /\ UNCHANGED saveReq
    /\ \/ SyncFails(f)
       \/ Event("save") /\ Leave("failed") /\ file' = Synced(f) /\ UNCHANGED control
\* cancel_and_persist, then the return of an error.
CancelAndPersist(where) ==
    \/ SyncAndSave(Drained, Snapshot(seg, Extend(queue))) /\ Leave(where)
    \/ SyncFails(Drained)

HeadHalted ==
    /\ pc = "head" /\ halt
    /\ CancelAndPersist("stopped")
    /\ UNCHANGED <<outside, world>>
HeadGoesOn ==                                                              \* mutant
    pc = "head" /\ pc' = "admit" /\ UNCHANGED <<disk, attempt, outside, world, events>>
HeadGoes ==
    /\ pc = "head" /\ ~halt /\ pc' = "admit"
    /\ UNCHANGED <<disk, attempt, outside, world, events>>
WriteFails ==
    /\ pc \in {"admit", "wait"} /\ queue # {}
    /\ Event("write") /\ SomeLost /\ Leave("failed")
    /\ UNCHANGED <<control, outside, world>>

-----------------------------------------------------------------------------
(***************************************************************************)
(* Admission: pending ranges start while the source takes them.  The queue *)
(* hands out any pending item, or a delayed one that came due.             *)
(***************************************************************************)
Accepts == ~mirror.disabled /\ mirror.active < Split
HasTarget == ~round.cooldown /\ InFlight < Split
AdmitRange(p) ==
    /\ pc = "admit" /\ HasTarget /\ Accepts /\ seg[p].status = "Pending"
    /\ Work!Admit({p} \cap Work!InPhase("Delayed"), {p})
    /\ seg' = [seg EXCEPT ![p].status = "Downloading"]
    /\ mirror' = [mirror EXCEPT !.active = @ + 1]
    /\ req' = [req EXCEPT ![p] =
           [from |-> seg[p].done + 1, sent |-> seg[p].done,
            to |-> Lesser(PieceUnits, seg[p].done + round.limit),
            limit |-> round.limit, outcome |-> "running"]]
    /\ UNCHANGED <<disk, pc, stale, queue, prefix, round, gap, resume, outside, world, events>>
\* A work item whose piece has failed for good is taken off the queue.
DropSettled(p) ==
    /\ pc = "admit" /\ HasTarget
    /\ phase[p] \in {"Pending", "Delayed"} /\ seg[p].status \in {"Done", "Failed"}
    /\ Work!Finish({p})
    /\ UNCHANGED <<disk, pc, manager, net, prefix, round, gap, resume, outside, world, events>>
\* The target falls below the limit, nothing is due, or the source is disabled.
AdmitsNoMore == ~HasTarget \/ ~Accepts \/ InFlight > 0 \/ Work!InPhase("Pending") = {}

EnterWait ==
    /\ pc = "admit" /\ AdmitsNoMore /\ InFlight > 0
    /\ \/ /\ Flushed(Drained, Snapshot(seg, Extend(queue)))
          /\ pc' = "wait" /\ queue' = {} /\ prefix' = Extend(queue)
          /\ UNCHANGED <<manager, work, req, stale, round, gap, resume, events>>
       \/ FlushFails(Drained)
    /\ UNCHANGED <<halt, world>>

Idle == pc = "admit" /\ AdmitsNoMore /\ InFlight = 0
AllDone == Having("Done") = Pieces
AllFailed == Having("Failed") # {} /\ Having("Pending") = {}
\* finish without a fallback.
Finish ==
    /\ Idle /\ AllDone
    /\ \/ file' = Synced(Drained) /\ control' = NoControl /\ Leave("done") /\ UNCHANGED events
       \/ SyncFails(Drained)
    /\ UNCHANGED <<outside, world>>
CoolDown ==
    /\ Idle /\ ~AllDone /\ round.cooldown
    /\ file' = Drained /\ queue' = {} /\ prefix' = Extend(queue) /\ pc' = "cooldown"
    /\ UNCHANGED <<control, manager, work, req, stale, round, gap, resume, outside, world, events>>
\* wait_for_retry: time passes, a notification, or a halt that returns at once.
CooledDown ==
    /\ pc = "cooldown" /\ ~halt
    /\ round' = [round EXCEPT !.cooldown = FALSE] /\ pc' = "head"
    /\ UNCHANGED <<disk, manager, work, net, prefix, gap, resume, outside, world, events>>
CooldownHalted ==
    /\ pc = "cooldown" /\ halt
    /\ SomeLost /\ Leave("stopped")
    /\ UNCHANGED <<control, outside, world, events>>
AllRangesFailed ==
    /\ Idle /\ ~AllDone /\ ~round.cooldown /\ AllFailed
    /\ CancelAndPersist("failed")
    /\ UNCHANGED <<outside, world>>
Stuck ==
    /\ Idle /\ ~AllDone /\ ~round.cooldown /\ ~AllFailed
    /\ pc' = "fallback"
    /\ UNCHANGED <<disk, attempt, outside, world, events>>

-----------------------------------------------------------------------------
(***************************************************************************)
(* The select: a result, a chunk, a notification or the stall check.       *)
(***************************************************************************)
FailSegment(p) ==
    /\ seg' = [seg EXCEPT ![p].retries = @ + 1,
           ![p].status = IF seg[p].retries + 1 >= MaxTries THEN "Failed" ELSE "Pending"]
    /\ mirror' = [active |-> mirror.active - 1, failures |-> mirror.failures + 1,
                  disabled |-> mirror.disabled \/ mirror.failures + 1 >= MaxMirrorFailures]
FailWork(p) == IF charged[p] + 1 < MaxTries THEN Work!Delay(p) ELSE Work!Finish({p})
RequeueSegmentTwice(p) ==                                                  \* mutant
    /\ seg' = [seg EXCEPT ![p].status = "Pending"]
    /\ mirror' = [mirror EXCEPT !.active = @ - 2]
RequeueSegmentHeld(p) ==                                                   \* mutant
    seg' = [seg EXCEPT ![p].status = "Pending"] /\ UNCHANGED mirror
RequeueSegment(p) ==
    /\ seg' = [seg EXCEPT ![p].status = "Pending"]
    /\ mirror' = [mirror EXCEPT !.active = @ - 1]
Uncharged(p) == Work!Requeue(p, charged[p])
Forget(p) == req' = [req EXCEPT ![p] = NoReq]

WriteChunk(u) ==
    LET written == Holding(file, {u}) IN
    /\ pc = "wait" /\ u \in queue
    /\ \A v \in queue : v < u => (v - 1) \div PieceUnits # (u - 1) \div PieceUnits
    /\ \/ /\ Flushed(written, Snapshot(seg, Extend({u})))
          /\ pc' = "head" /\ queue' = queue \ {u} /\ prefix' = Extend({u})
          /\ UNCHANGED <<manager, work, req, stale, round, gap, resume, events>>
       \/ FlushFails(written)
    /\ UNCHANGED <<halt, world>>
\* A lifecycle notification, which saves on request, or a quiet stall check.
\* The check for a halt is the one of the next round.
Woken ==
    /\ pc = "wait"
    /\ \/ pc' = "head" /\ Flushed(file, Snapshot(seg, prefix)) /\ UNCHANGED <<attempt, events>>
       \/ pc' = "head" /\ UNCHANGED <<disk, attempt, saveReq, events>>
       \/ FlushFails(file)
    /\ UNCHANGED <<halt, world>>

\* The result of the tracked task of p, received with the queue written.
Result(p) == pc = "wait" /\ req[p] # NoReq /\ req[p].outcome # "running"
ReceivedUnrecorded(p) == Forget(p) /\ queue' = {} /\ UNCHANGED prefix      \* mutant
Received(p) == Forget(p) /\ queue' = {} /\ prefix' = Extend(queue)
\* complete_range
CompleteRange(p, s) ==
    /\ seg' = s
    /\ mirror' = [mirror EXCEPT !.active = @ - 1, !.failures = 0]
RangeOk(p) ==
    LET got == req[p].to - req[p].from + 1
        s == [seg EXCEPT ![p].done = @ + got,
                  ![p].status = IF seg[p].done + got = PieceUnits THEN "Done" ELSE "Pending"]
        whole == s[p].status = "Done"
        due == round.unsaved + got >= PieceUnits
        new == Snapshot(s, Extend(queue))
    IN  /\ Result(p) /\ req[p].outcome = "ok"
        /\ \/ /\ pc' = "head" /\ Received(p) /\ CompleteRange(p, s)
              /\ IF due /\ ~saveReq THEN SyncAndSave(Drained, new) /\ UNCHANGED saveReq
                 ELSE /\ Flushed(IF whole THEN Synced(Drained) ELSE Drained, new)
                      /\ UNCHANGED events
              /\ round' = [round EXCEPT !.unsaved = IF due THEN 0 ELSE @ + got]
              /\ IF whole THEN Work!Finish({p}) ELSE Work!Requeue(p, 0)
              /\ UNCHANGED <<stale, gap, resume>>
           \/ (whole \/ due) /\ SyncFails(Drained) /\ UNCHANGED saveReq
           \/ FlushFails(Drained)
        /\ UNCHANGED <<halt, world>>

\* A range was too large for the server: halve the limit, unless the request
\* was made under a larger one.
Explicit(p) == req[p].outcome \in {"rangeTooLarge", "tooLarge"} /\ req[p].limit >= round.limit
Lowered == Greater(round.limit \div 2, Lesser(RangeFloor, round.limit))
Smaller(p) == Explicit(p) /\ (req[p].limit > round.limit \/ RangeFloor < round.limit)
RangeSmaller(p) ==
    /\ Result(p) /\ Smaller(p)
    /\ pc' = "head" /\ Received(p) /\ RequeueSegment(p) /\ Uncharged(p)
    /\ file' = Drained
    /\ round' = [round EXCEPT !.row416 = 0,
                     !.limit = IF req[p].limit = @ THEN Lowered ELSE @]
    /\ UNCHANGED <<control, stale, gap, resume, outside, world, events>>
\* 429 or 503: back off without charging the range, or give up.
RangeBusy(p) ==
    /\ Result(p) /\ req[p].outcome = "busy"
    /\ \/ /\ pc' = "head" /\ Received(p) /\ RequeueSegment(p) /\ Uncharged(p)
          /\ file' = Drained
          /\ round' = [round EXCEPT !.row416 = 0, !.cooldown = TRUE]
          /\ UNCHANGED <<control, stale, gap, resume, events>>
       \/ CancelAndPersist("failed")
    /\ UNCHANGED <<outside, world>>

Is416(p) == req[p].outcome \in {"range416", "rangeTooLarge"}
Counted == [round EXCEPT !.row416 = @ + 1, !.all416 = @ + 1]
TooMany416 == Counted.row416 >= 3 \/ Counted.all416 * 5 >= Split
RangeFallsBack(p) ==
    /\ Result(p) /\ ~Smaller(p) /\ Is416(p) /\ TooMany416
    /\ Received(p) /\ file' = Drained /\ Work!Finish({p}) /\ round' = Counted
    /\ pc' = "fallback"
    /\ UNCHANGED <<control, manager, stale, gap, resume, outside, world, events>>
\* 416 and a 404 that the group still tolerates are retried without a look at
\* the budget, though fail_work and fail_segment charge them.
MayRetry(p) ==
    \/ Is416(p) \/ req[p].outcome = "missing"
    \/ req[p].outcome = "retry" /\ charged[p] + 1 < MaxTries
RangeRetries(p) ==
    /\ Result(p) /\ ~Smaller(p) /\ ~(Is416(p) /\ TooMany416) /\ MayRetry(p)
    /\ pc' = "head" /\ Received(p) /\ FailSegment(p) /\ FailWork(p)
    /\ file' = Drained
    /\ round' = IF Is416(p) THEN Counted ELSE [round EXCEPT !.row416 = 0]
    /\ UNCHANGED <<control, stale, gap, resume, outside, world, events>>
RangeFatal(p) ==
    /\ Result(p) /\ ~Smaller(p)
    /\ ~MayRetry(p) /\ req[p].outcome \notin {"ok", "busy"}
    /\ CancelAndPersist(IF req[p].outcome = "cannotResume" THEN "cannotResume" ELSE "failed")
    /\ UNCHANGED <<outside, world>>
\* A result whose task is not the one of the entry: only its lease is freed.
StaleResult(p) ==
    /\ pc = "wait" /\ p \in stale
    /\ stale' = stale \ {p} /\ pc' = "head"
    /\ UNCHANGED <<disk, manager, work, req, queue, prefix, round, gap, resume, outside, world, events>>

\* The stall check aborts a task; its result may already be in the channel.
Abort(p) ==
    /\ pc = "wait" /\ req[p] # NoReq /\ p \notin stale
    /\ pc' = "head" /\ Forget(p)
    /\ stale' = IF req[p].outcome = "running" THEN stale ELSE stale \cup {p}
Stalled(p) ==
    /\ Abort(p) /\ Event("stall") /\ FailSegment(p) /\ FailWork(p)
    /\ UNCHANGED <<disk, queue, prefix, round, gap, resume, outside, world>>
SlowOutlier(p) ==
    /\ Abort(p) /\ Event("slow")
    /\ p \notin round.recovered /\ req[p].sent \in req[p].from..(req[p].to - 1)
    /\ RequeueSegment(p) /\ Uncharged(p)
    /\ round' = [round EXCEPT !.recovered = @ \cup {p}]
    /\ UNCHANGED <<disk, queue, prefix, gap, resume, outside, world>>

-----------------------------------------------------------------------------
(***************************************************************************)
(* The fallback: cancel, write, sync and save, then fill the gaps.         *)
(***************************************************************************)
Have == UNION {IF seg[p].status = "Done" THEN Whole(p) ELSE First(p, Extend(queue)[p])
               : p \in Pieces}
Fallback ==
    /\ pc = "fallback"
    /\ \/ /\ SyncAndSave(Drained, Snapshot(seg, Extend(queue)))
          /\ pc' = "gap" /\ ClearTransfer
          /\ gap' = [have |-> Have, got |-> 0, any |-> FALSE, tries |-> 1, ctrl |-> control']
          /\ UNCHANGED resume
       \/ SyncFails(Drained)
    /\ UNCHANGED <<outside, world>>

Missing == Units \ gap.have
Gap == LET a == Min(Missing) IN {u \in Missing : \A v \in a..u : v \in Missing}
\* The written run that ends where the gap starts, and the filled part of it.
RunStart == Min({a \in 1..Min(Gap) : a..(Min(Gap) - 1) \subseteq gap.have})
GapEnd == Min(Gap) + gap.got - 1
NothingMissing ==
    /\ pc = "gap" /\ ~gap.any /\ Missing = {}
    /\ Leave("done")
    /\ UNCHANGED <<disk, outside, world, events>>
GapRead ==
    /\ pc = "gap" /\ ~halt /\ Missing # {} /\ gap.got < Cardinality(Gap)
    /\ file' = Holding(file, {Min(Gap) + gap.got})
    /\ gap' = [gap EXCEPT !.got = @ + 1]
    /\ UNCHANGED <<control, pc, manager, work, net, prefix, round, resume, outside, world, events>>
\* GapCheckpoint::persist: sync, record, save.
GapRecorded == IF gap.ctrl = NoControl THEN NoControl ELSE RecordRange(gap.ctrl, RunStart, GapEnd)
GapFilled ==
    /\ pc = "gap" /\ Missing # {} /\ gap.got = Cardinality(Gap)
    /\ \/ /\ file' = (IF gap.ctrl = NoControl THEN file ELSE Synced(file))
          /\ gap' = [gap EXCEPT !.have = @ \cup Gap, !.got = 0, !.any = TRUE, !.ctrl = GapRecorded]
          /\ \/ control' = (IF gap.ctrl = NoControl THEN control ELSE GapRecorded) /\ UNCHANGED events
             \/ gap.ctrl # NoControl /\ UNCHANGED control /\ Event("save")
          /\ UNCHANGED <<pc, manager, work, net, prefix, round, resume>>
       \/ SyncFails(file)
    /\ UNCHANGED <<outside, world>>
\* cleanup_partial_gap; the writer goes with the attempt.
Cleanup ==
    \/ gap.got = 0 /\ UNCHANGED disk
    \/ /\ gap.got > 0 /\ gap.ctrl # NoControl
       /\ \/ file' = Synced(file) /\ control' \in {control, GapRecorded}
          \/ SomeLost /\ UNCHANGED control
    \/ /\ gap.got > 0 /\ gap.ctrl = NoControl
       /\ file' = [file EXCEPT !.seen = @ \ (Min(Gap)..GapEnd), !.stable = @ \ (Min(Gap)..GapEnd)]
       /\ UNCHANGED control
GapHalted ==
    /\ pc = "gap" /\ halt /\ Missing # {} /\ gap.got < Cardinality(Gap)
    /\ Cleanup /\ Leave("stopped")
    /\ UNCHANGED <<outside, world, events>>
GapFails ==
    /\ pc = "gap" /\ Missing # {} /\ gap.got < Cardinality(Gap) /\ Event("gap")
    /\ Cleanup
    /\ \/ /\ gap.tries < MaxTries
          /\ gap' = [gap EXCEPT !.got = 0, !.any = FALSE, !.tries = @ + 1, !.ctrl = control']
          /\ UNCHANGED <<pc, manager, work, net, prefix, round, resume>>
       \/ Leave("failed")
       \/ gap.got = 0 /\ Leave("cannotResume")
    /\ UNCHANGED <<outside, world>>
\* A last flush, then the control file is removed.
GapsFilled ==
    /\ pc = "gap" /\ gap.any /\ Missing = {}
    /\ \/ UNCHANGED <<file, events>> /\ control' = NoControl /\ Leave("done")
       \/ SyncFails(file)
    /\ UNCHANGED <<outside, world>>

-----------------------------------------------------------------------------
(***************************************************************************)
(* Clients and crashes.                                                    *)
(***************************************************************************)
Halt ==
    /\ Running /\ ~halt /\ Event("halt") /\ halt' = TRUE
    /\ UNCHANGED <<disk, pc, attempt, saveReq, world>>
RequestSave ==
    /\ Running /\ ~saveReq /\ Event("request") /\ saveReq' = TRUE
    /\ UNCHANGED <<disk, pc, attempt, halt, world>>
\* The process is killed or power is lost, also after the attempt.
Crash ==
    /\ pc # "done" /\ Event("crash")
    /\ SomeLost /\ Leave("stopped") /\ saveReq' = FALSE
    /\ UNCHANGED <<control, halt, world>>

Tasks == \E p \in Pieces : SendChunk(p) \/ TaskOk(p) \/ TaskFails(p)
Admission ==
    \/ \E p \in Pieces : AdmitRange(p) \/ DropSettled(p)
    \/ EnterWait \/ Finish \/ CoolDown \/ AllRangesFailed \/ Stuck
Select ==
    \/ Woken \/ WriteFails
    \/ \E u \in Units : WriteChunk(u)
    \/ \E p \in Pieces :
        \/ RangeOk(p) \/ RangeSmaller(p) \/ RangeBusy(p) \/ RangeFallsBack(p)
        \/ RangeRetries(p) \/ RangeFatal(p) \/ StaleResult(p) \/ Stalled(p) \/ SlowOutlier(p)
Gaps == GapRead \/ GapFilled \/ GapHalted \/ GapFails \/ GapsFilled \/ NothingMissing
Command ==
    \/ DetectComplete \/ DetectPartial \/ Allocate \/ Prepare \/ FreshTruncate \/ GiveUp
    \/ HeadHalted \/ HeadGoes \/ CooledDown \/ CooldownHalted
    \/ Admission \/ Select \/ Fallback \/ Gaps
Next == Start \/ NextMirror \/ FreshRemove \/ Command \/ Tasks \/ Halt \/ RequestSave \/ Crash

Spec == Init /\ [][Next]_vars
\* The command is a tokio task that is polled while it is ready; the stall
\* check makes it ready every second.
FairSpec == Spec /\ WF_vars(Command)

-----------------------------------------------------------------------------
(***************************************************************************)
(* Properties.                                                             *)
(***************************************************************************)
Phases == {"Idle", "Pending", "Delayed", "InFlight"}
\* Every variable keeps its shape; counters stay within a piece.
TypeOK ==
    /\ file \in [seen : SUBSET Units, stable : SUBSET Units, size : Nat]
    /\ control \in Ctrl \cup {NoControl}
    /\ pc \in {"stopped", "detect", "allocate", "prepare", "head", "admit", "wait", "cooldown",
               "fallback", "gap", "failed", "cannotResume", "truncate", "done"}
    /\ seg \in [Pieces -> [status : {"Pending", "Downloading", "Done", "Failed"},
                           done : 0..PieceUnits, retries : 0..MaxTries]]
    /\ mirror \in [active : 0..Split, failures : Nat, disabled : BOOLEAN]
    /\ phase \in [Pieces -> Phases] /\ charged \in [Pieces -> 0..(MaxTries - 1)]
    /\ \A p \in Tracked : /\ req[p].from \in 1..req[p].to /\ req[p].to \in 1..PieceUnits
                          /\ req[p].sent \in (req[p].from - 1)..req[p].to
                          /\ req[p].limit \in 1..PieceUnits
                          /\ req[p].outcome \in Failures \cup Refusals \cup {"running", "ok"}
    /\ stale \subseteq Pieces /\ queue \subseteq Units
    /\ prefix \in [Pieces -> 0..PieceUnits]
    /\ round.limit \in 1..PieceUnits /\ round.unsaved \in 0..(PieceUnits - 1)
    /\ resume \in [control : Ctrl \cup {NoControl}, length : 0..Total]
    /\ gap.have \subseteq Units /\ gap.got \in 0..Total /\ gap.ctrl \in Ctrl \cup {NoControl}

\* Whatever is lost in a crash, the control file claims only units that are on
\* stable storage: its pieces and blocks, all of them once its length is the
\* whole file, and a prefix of its length when it has neither piece nor block
\* (control_file.rs, the comment of GapCheckpoint::persist).  An attempt that
\* was misled by the mere length of the output has voided the claim.
ClaimsAreStable ==
    (control # NoControl /\ ~guessed) =>
        /\ Claimed(control) \subseteq file.stable
        /\ control.length = Total => Units \subseteq file.stable
        /\ ~Aggregate(control) => 1..control.length \subseteq file.stable

\* A unit that a piece is credited with, or a gap no longer misses, is written
\* with the remote content, in whatever order results of aborted, replaced and
\* late tasks arrive; a finished download holds every unit.
CreditIsWritten ==
    ~guessed =>
        /\ Credited(seg) \cup gap.have \subseteq file.seen \cup queue
        /\ \A p \in Having("Done") : Whole(p) \subseteq file.seen
        /\ pc = "done" => Units \subseteq file.seen

\* The manager, the work queue, the list of active ranges and the source agree
\* on what is being downloaded, and no pending piece is forgotten: a piece that
\* still has retries has a work item, although the two count failures apart.
Accounting ==
    pc \in {"head", "admit", "wait", "cooldown"} =>
        /\ Having("Downloading") = Tracked
        /\ Work!InPhase("InFlight") = Tracked
        /\ mirror.active = Cardinality(Tracked)
        /\ \A p \in Having("Pending") : phase[p] \in {"Pending", "Delayed"}

\* A halt that reaches the transfer leaves a control file that claims every
\* block the manager has credited to a piece, although the control file is
\* written from the prefixes of InFlightProgress and not from that credit;
\* unless the checkpoint failed.  The wait after a 429 or 503 returns without one.
HaltKeepsProgress ==
    [][(halt /\ pc \in {"head", "admit", "wait"} /\ pc' = "stopped" /\ events' = events)
       => /\ control' # NoControl
          /\ \A p \in Pieces : First(p, Blocks(seg[p].done)) \subseteq Claimed(control')]_vars

\* What a control file claims is not forgotten by a later checkpoint, resume,
\* fallback or gap; only a fresh start, a run without --continue and the end
\* of the download drop it.
ClaimsOnlyGrow ==
    [][(control # NoControl /\ pc # "cannotResume" /\ pc' # "done" /\ options.continue)
       => \/ Claimed(control) = {}
          \/ control' # NoControl /\ Claimed(control) \subseteq Claimed(control')]_vars

\* No step forgets progress: neither a halt nor anything that comes later.
ProgressKept == HaltKeepsProgress /\ ClaimsOnlyGrow

\* A halt ends the command, whatever the server and the tasks do.
HaltEnds == halt ~> ~Running
=============================================================================
