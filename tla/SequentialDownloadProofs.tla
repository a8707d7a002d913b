------------------------ MODULE SequentialDownloadProofs ------------------------
(***************************************************************************)
(* Type correctness of SequentialDownload, that a control file never       *)
(* claims bytes that are not stable, that a finished download is the whole *)
(* file, and what the record of the progress is worth, for every length,   *)
(* save interval, number of attempts and number of runs.                   *)
(***************************************************************************)
EXTENDS SequentialDownload, TLAPS

\* A parked or writing command has something left to read, and a command
\* that waits for a retry has an attempt left.
Budgets ==
    /\ pc \in {"register", "read", "write"} => completed < Length
    /\ pc = "wait" => attempt < MaxAttempts
TypeInv == TypeOK /\ Budgets

\* The stable units are part of the file; what does not exist has neither
\* units nor a name.
FileShape ==
    /\ file.stable \subseteq 1..file.length
    /\ ~file.exists => ~file.named /\ file.length = 0

\* The first c units survive a loss of power.
CoveredBy(f, c) == 1..c \subseteq f.stable /\ (c > 0 => f.named)
Covered(c) == CoveredBy(file, c)

\* Where completed may be saved, now or after a failure on the way to it.
Saving == {"connect", "open", "openSave", "opened", "restart", "remote", "save",
           "verify", "flush", "failed", "wait", "shutdown"}
\* Where the writer may hold units that are not stable.
Writing == {"loop", "register", "read", "write", "sync", "save", "partial", "finalize"}
\* Where the control file is not ahead of the command.
Leading == {"openSync", "openSave", "opened", "remote",
            "loop", "register", "read", "write", "sync", "save"}

SavesCovered == pc \in Saving => Covered(completed)
WritesHeld ==
    pc \in Writing =>
        /\ writer = "open" => completed <= file.length /\ file.exists
        /\ writer # "open" => Covered(completed)
        /\ writer = "fresh" => completed = 0
OpenSyncHeld ==
    pc = "openSync" => completed <= file.length /\ (completed > 0 => file.exists)
SidecarBehind == pc \in Leading => sidecar <= completed
RestartAtZero == pc = "restart" => options.checksum /\ completed = 0
GhostsEmpty == pc # "done" => \A g \in ghosts : g <= 0
ClaimsCovered == \A c \in {sidecar} \cup ghosts : Covered(c)

DurableInv ==
    /\ ClaimsCovered /\ GhostsEmpty /\ SavesCovered /\ WritesHeld
    /\ OpenSyncHeld /\ SidecarBehind /\ RestartAtZero
IInv == TypeInv /\ FileShape /\ (Reliable => DurableInv)

-----------------------------------------------------------------------------
(***************************************************************************)
(* The types of what is on disk.                                           *)
(***************************************************************************)
FileType == [exists : BOOLEAN, named : BOOLEAN, length : 0..Length, upper : 0..Length,
             junk : SUBSET Units, stable : SUBSET Units]
CkptType == [open : BOOLEAN, completed : 0..Length, saved : 0..Length]
DiskTypes ==
    /\ file \in FileType /\ ckpt \in CkptType
    /\ sidecar \in NoSidecar..Length /\ ghosts \subseteq NoSidecar..Length
    /\ failures \subseteq {"sync", "save"}

\* The operations on the output stay in its type: a missing output,
LEMMA NoFileType == NoFile \in FileType
  BY DownloadAssumption DEF NoFile, FileType, Units

\* an output the download did not write,
LEMMA ForeignFileType == ASSUME NEW n \in 1..Length PROVE ForeignFile(n) \in FileType
  BY DownloadAssumption DEF ForeignFile, FileType, Units

\* a checkpoint that is closed,
LEMMA ClosedCheckpointType == ClosedCheckpoint \in CkptType
  BY DownloadAssumption DEF ClosedCheckpoint, CkptType

\* an output that was synced,
LEMMA SyncedType == ASSUME file \in FileType PROVE Synced \in FileType
  <1>1. (file.named \/ file.exists) \in BOOLEAN
    OBVIOUS
  <1>2. file.length \in 0..Length /\ 1..file.length \subseteq Units
    BY DownloadAssumption DEF FileType, Units
  <1>3. QED
    BY <1>1, <1>2 DEF Synced, FileType

\* one that was opened or truncated,
LEMMA OpenedType == ASSUME file \in FileType PROVE Opened \in FileType
  <1>1. 0 \in 0..Length /\ {} \subseteq Units
    BY DownloadAssumption
  <1>2. Truncated \in FileType
    BY <1>1 DEF Truncated, FileType
  <1>3. [NoFile EXCEPT !.exists = TRUE] \in FileType
    BY <1>1 DEF NoFile, FileType
  <1>4. QED
    BY <1>2, <1>3 DEF Opened

\* one with another unit written,
LEMMA WrittenType ==
    ASSUME NEW f \in FileType, NEW p \in Units PROVE Written(f, p) \in FileType
  <1>1. Greater(f.length, p) \in 0..Length /\ Greater(f.upper, p) \in 0..Length
    BY DownloadAssumption DEF FileType, Units, Greater
  <1>2. (IF p \in f.junk THEN f.stable \ {p} ELSE f.stable) \subseteq Units
    BY DEF FileType
  <1>3. QED
    BY <1>1, <1>2 DEF Written, FileType

\* and whatever a power loss leaves of it.
LEMMA OutputsAfterType ==
    ASSUME file \in FileType, NEW g \in OutputsAfter(file) PROVE g \in FileType
  <1>1. CASE g = NoFile
    BY <1>1, NoFileType
  <1>2. CASE g \in Survivors(file)
    <2>1. file.upper \in 0..Length /\ 1..file.upper \subseteq Units
      BY DownloadAssumption DEF FileType, Units
    <2>2. PICK n \in 0..file.upper, j \in SUBSET (1..file.upper) :
            g = [exists |-> TRUE, named |-> TRUE, length |-> n, upper |-> n,
                 junk |-> j, stable |-> 1..n]
      BY <1>2 DEF Survivors
    <2>3. n \in 0..Length /\ j \subseteq Units /\ 1..n \subseteq Units
      BY <2>1, <2>2, DownloadAssumption DEF Units
    <2>4. QED
      BY <2>2, <2>3 DEF FileType
  <1>3. QED
    BY <1>1, <1>2 DEF OutputsAfter

\* A save of the checkpoint, successful or not, stays in its types.
LEMMA SaveTypes ==
    ASSUME DiskTypes, NEW c \in 0..Length, Save(c) PROVE DiskTypes'
  <1>1. c \in NoSidecar..Length
    BY DownloadAssumption DEF NoSidecar
  <1>2. file' = file /\ failures' \subseteq {"sync", "save"}
    BY DEF DiskTypes, Save, SaveOk, SaveFails, SaveUnsynced, disk
  <1>3. ckpt' \in CkptType
    BY DEF DiskTypes, Save, SaveOk, SaveFails, SaveUnsynced, CkptType
  <1>4. sidecar' \in NoSidecar..Length /\ ghosts' \subseteq NoSidecar..Length
    BY <1>1 DEF DiskTypes, Save, SaveOk, SaveFails, SaveUnsynced, disk
  <1>5. QED
    BY <1>2, <1>3, <1>4 DEF DiskTypes

-----------------------------------------------------------------------------
(***************************************************************************)
(* Type correctness, in three parts: the disk, the requests of the group,  *)
(* and the command.                                                        *)
(***************************************************************************)
GroupTypes == halt \in BOOLEAN /\ notified \in BOOLEAN /\ saveReq \in BOOLEAN
CommandTypes ==
    /\ options \in [continue : BOOLEAN, checksum : BOOLEAN]
    /\ pc \in {"idle", "connect", "open", "openSync", "openSave", "opened", "restart",
               "remote", "loop", "register", "read", "write", "sync", "save", "partial",
               "flush", "finalize", "verify", "complete", "failed", "wait", "shutdown",
               "stopped", "done"}
    /\ attempt \in 0..MaxAttempts /\ completed \in 0..Length
    /\ writer \in {"fresh", "append", "open"}
    /\ error \in {"none", "halt", "network", "fatal"}
    /\ runs \in 0..MaxRuns

\* The type invariant is its three parts.
LEMMA TypeParts == TypeOK <=> DiskTypes /\ GroupTypes /\ CommandTypes
  BY DEF TypeOK, DiskTypes, GroupTypes, CommandTypes, FileType, CkptType

\* The initial states have their types.
LEMMA TypeInit == Init => TypeInv
  <1> SUFFICES ASSUME Init PROVE TypeInv
    OBVIOUS
  <1>1. file \in FileType
    BY NoFileType, ForeignFileType DEF Init
  <1>2. DiskTypes
    BY <1>1, ClosedCheckpointType, DownloadAssumption DEF Init, DiskTypes, NoSidecar
  <1>3. GroupTypes
    BY DEF Init, GroupTypes
  <1>4. CommandTypes /\ Budgets
    BY DownloadAssumption DEF Init, CommandTypes, Budgets
  <1>5. QED
    BY <1>2, <1>3, <1>4, TypeParts DEF TypeInv

\* What resuming trusts is a length of the output.
LEMMA TrustedType ==
    ASSUME DiskTypes PROVE Trusted \in 0..Length
  <1>1. file.length \in 0..Length
    BY DEF DiskTypes, FileType
  <1>2. ResumeInput \in 0..Length
    BY <1>1, DownloadAssumption DEF ResumeInput
  <1>3. Compatible => sidecar \in 0..Length
    BY DownloadAssumption DEF DiskTypes, Compatible, NoSidecar
  <1>4. QED
    BY <1>2, <1>3 DEF Trusted, Lesser

\* Every step keeps the types of the group,
LEMMA GroupStep == GroupTypes /\ Next => GroupTypes'
  <1> SUFFICES ASSUME GroupTypes, Next PROVE GroupTypes'
    OBVIOUS
  <1> USE DEF GroupTypes, group
  <1>1. CASE OpenSteps
    BY <1>1 DEF OpenSteps, Connect, RemoteFails, OpenCheckpoint, SyncExisting,
       SaveOpened, SkipVerifyLocal, VerifyLocal, SaveRestart, OpenRemote
  <1>2. CASE LoopSteps
    BY <1>2 DEF LoopSteps, HeadHalted, HeadComplete, HeadRead, Register,
       ReadNotified, WriteOk, WriteFails, SyncChunk, SaveChunk
  <1>3. CASE EndSteps
    BY <1>3 DEF EndSteps, FinalizePartial, Flush, Finalize, Verify, Complete,
       Fail, WaitHalted, PrepareRetry, Shutdown
  <1>4. CASE ServerAnswers
    BY <1>4 DEF ServerAnswers, ReadData, ReadFails
  <1>5. CASE Requests
    BY <1>5, Zenon DEF Requests, RequestHalt, RequestResume, RequestSave
  <1>6. CASE Start \/ Kill \/ LosePower
    BY <1>6 DEF Start, Kill, LosePower, Forget
  <1>7. QED
    BY <1>1, <1>2, <1>3, <1>4, <1>5, <1>6 DEF Next, CommandSteps

\* of the output and the sidecar,
LEMMA DiskStep == TypeInv /\ Next => DiskTypes'
  <1> SUFFICES ASSUME TypeInv, Next PROVE DiskTypes'
    OBVIOUS
  <1>1. DiskTypes /\ completed \in 0..Length /\ writer \in {"fresh", "append", "open"}
    BY TypeParts DEF TypeInv, CommandTypes
  <1>2. ASSUME UNCHANGED <<disk, ckpt, failures>> PROVE DiskTypes'
    BY <1>1, <1>2 DEF disk, DiskTypes, CkptType, FileType
  <1>3. ASSUME SyncOk, UNCHANGED ckpt PROVE DiskTypes'
    BY <1>1, <1>3, SyncedType DEF SyncOk, DiskTypes
  <1>4. ASSUME SyncFails, UNCHANGED ckpt PROVE DiskTypes'
    BY <1>1, <1>4 DEF SyncFails, DiskTypes, disk
  <1>5. CASE OpenSteps
    <2>1. CASE Connect \/ RemoteFails \/ SkipVerifyLocal \/ VerifyLocal \/ OpenRemote
      BY <2>1, <1>2
      DEF Connect, RemoteFails, SkipVerifyLocal, VerifyLocal, OpenRemote, command
    <2>2. CASE OpenCheckpoint
      <3>1. Trusted \in 0..Length
        BY <1>1, TrustedType
      <3>2. ckpt' \in CkptType
        BY <2>2, <3>1 DEF OpenCheckpoint, CkptType
      <3>3. NoSidecar \in NoSidecar..Length
        BY DownloadAssumption DEF NoSidecar
      <3>4. sidecar' \in NoSidecar..Length /\ ghosts' \subseteq NoSidecar..Length
        BY <1>1, <2>2, <3>3 DEF OpenCheckpoint, DiskTypes
      <3>5. QED
        BY <1>1, <2>2, <3>2, <3>4 DEF OpenCheckpoint, DiskTypes
    <2>3. CASE SyncExisting
      BY <2>3, <1>2, <1>3, <1>4 DEF SyncExisting, command
    <2>4. CASE SaveOpened
      BY <2>4, <1>1, SaveTypes DEF SaveOpened
    <2>5. CASE SaveRestart
      BY <2>5, <1>1, SaveTypes, DownloadAssumption DEF SaveRestart
    <2>6. QED
      BY <1>5, <2>1, <2>2, <2>3, <2>4, <2>5 DEF OpenSteps
  <1>6. CASE LoopSteps
    <2>1. CASE HeadHalted \/ HeadComplete \/ HeadRead \/ Register \/ ReadNotified
      BY <2>1, <1>2
      DEF HeadHalted, HeadComplete, HeadRead, Register, ReadNotified, command
    <2>2. CASE WriteOk
      <3>1. completed + 1 \in Units
        BY <1>1, <2>2, DownloadAssumption DEF WriteOk, TypeInv, Budgets, Units
      <3>2. file' \in FileType
        BY <1>1, <2>2, <3>1, OpenedType, WrittenType DEF WriteOk, DiskTypes
      <3>3. QED
        BY <1>1, <2>2, <3>2 DEF WriteOk, DiskTypes
    <2>3. CASE WriteFails
      <3>1. file' \in FileType
        BY <1>1, <2>3, OpenedType DEF WriteFails, DiskTypes
      <3>2. QED
        BY <1>1, <2>3, <3>1 DEF WriteFails, DiskTypes
    <2>4. CASE SyncChunk
      BY <2>4, <1>3, <1>4 DEF SyncChunk
    <2>5. CASE SaveChunk
      BY <2>5, <1>1, SaveTypes DEF SaveChunk
    <2>6. QED
      BY <1>6, <2>1, <2>2, <2>3, <2>4, <2>5 DEF LoopSteps
  <1>7. CASE EndSteps
    <2>1. CASE FinalizePartial \/ Finalize
      BY <2>1, <1>2, <1>3, <1>4
      DEF FinalizePartial, Finalize, FinalizeOk, FinalizeFails, command
    <2>2. CASE Flush
      BY <2>2, <1>1, SaveTypes DEF Flush
    <2>3. CASE Shutdown
      BY <2>3, <1>1, <1>2, SaveTypes DEF Shutdown
    <2>4. CASE Complete
      <3>1. NoSidecar \in NoSidecar..Length
        BY DownloadAssumption DEF NoSidecar
      <3>2. sidecar' \in NoSidecar..Length /\ ghosts' \subseteq NoSidecar..Length
        BY <1>1, <2>4, <3>1 DEF Complete, DiskTypes
      <3>3. QED
        BY <1>1, <2>4, <3>2, ClosedCheckpointType DEF Complete, DiskTypes
    <2>5. CASE Verify \/ Fail \/ WaitHalted \/ PrepareRetry
      BY <2>5, <1>2 DEF Verify, Fail, WaitHalted, PrepareRetry, command
    <2>6. QED
      BY <1>7, <2>1, <2>2, <2>3, <2>4, <2>5 DEF EndSteps
  <1>8. CASE ServerAnswers \/ Requests
    BY <1>8, <1>2 DEF ServerAnswers, ReadData, ReadFails,
       Requests, RequestHalt, RequestResume, RequestSave, command
  <1>9. CASE Start \/ Kill
    BY <1>9, <1>1, ClosedCheckpointType DEF Start, Kill, Forget, DiskTypes, disk
  <1>10. CASE LosePower
    <2>1. file' \in FileType
      BY <1>1, <1>10, OutputsAfterType DEF LosePower, DiskTypes
    <2>2. sidecar' \in NoSidecar..Length /\ ghosts' \subseteq NoSidecar..Length
      BY <1>1, <1>10 DEF LosePower, DiskTypes
    <2>3. QED
      BY <1>1, <1>10, <2>1, <2>2, ClosedCheckpointType DEF LosePower, Forget, DiskTypes
  <1>11. QED
    BY <1>5, <1>6, <1>7, <1>8, <1>9, <1>10 DEF Next, CommandSteps

\* and of the command, within its bounds.
LEMMA CommandStep == TypeInv /\ Next => CommandTypes' /\ Budgets'
  <1> SUFFICES ASSUME TypeInv, Next PROVE CommandTypes' /\ Budgets'
    OBVIOUS
  <1>1. DiskTypes /\ CommandTypes /\ Budgets
    BY TypeParts DEF TypeInv
  <1> USE <1>1, DownloadAssumption DEF CommandTypes, Budgets, command, world
  <1>2. CASE OpenSteps
    <2>1. CASE OpenCheckpoint
      BY <2>1, TrustedType DEF OpenCheckpoint
    <2>2. CASE OpenSteps /\ ~OpenCheckpoint
      BY <2>2 DEF OpenSteps, Connect, RemoteFails, SyncExisting,
         SaveOpened, SkipVerifyLocal, VerifyLocal, SaveRestart, OpenRemote
    <2>3. QED
      BY <1>2, <2>1, <2>2
  <1>3. CASE LoopSteps
    BY <1>3 DEF LoopSteps, HeadHalted, HeadComplete, HeadRead, Register,
       ReadNotified, WriteOk, WriteFails, SyncChunk, SaveChunk
  <1>4. CASE EndSteps
    BY <1>4 DEF EndSteps, FinalizePartial, Flush, Finalize, Verify, Complete,
       Fail, WaitHalted, PrepareRetry, Shutdown
  <1>5. CASE ServerAnswers \/ Requests
    BY <1>5 DEF ServerAnswers, ReadData, ReadFails,
       Requests, RequestHalt, RequestResume, RequestSave
  <1>6. CASE Start \/ Kill \/ LosePower
    BY <1>6 DEF Start, Kill, LosePower, Forget
  <1>7. QED
    BY <1>2, <1>3, <1>4, <1>5, <1>6 DEF Next, CommandSteps

\* Every step keeps the type invariant.
LEMMA TypeStep == TypeInv /\ [Next]_vars => TypeInv'
  <1> SUFFICES ASSUME TypeInv, [Next]_vars PROVE TypeInv'
    OBVIOUS
  <1>1. CASE Next
    <2>1. DiskTypes' /\ GroupTypes' /\ CommandTypes' /\ Budgets'
      BY <1>1, DiskStep, GroupStep, CommandStep, TypeParts DEF TypeInv
    <2>2. TypeOK'
      BY <2>1 DEF TypeOK, DiskTypes, GroupTypes, CommandTypes, FileType, CkptType
    <2>3. QED
      BY <2>1, <2>2 DEF TypeInv
  <1>2. CASE UNCHANGED vars
    BY <1>2 DEF vars, disk, command, group, world, TypeInv, TypeOK, Budgets, Units
  <1>3. QED
    BY <1>1, <1>2

\* Every reachable state of a download, its disk and its crashes is well
\* typed; no unit beyond the remote file is ever counted or written.
THEOREM DownloadTypeCorrect == Spec => []TypeOK
  <1>1. Init => TypeInv
    BY TypeInit
  <1>2. TypeInv /\ [Next]_vars => TypeInv'
    BY TypeStep
  <1>3. TypeInv => TypeOK
    BY DEF TypeInv
  <1>4. QED
    BY <1>1, <1>2, <1>3, PTL DEF Spec

-----------------------------------------------------------------------------
(***************************************************************************)
(* What the operations on the disk do to the units that are stable.        *)
(***************************************************************************)
LEMMA NothingCovered == ASSUME NEW f, NEW c \in Int, c <= 0 PROVE CoveredBy(f, c)
  BY DEF CoveredBy

\* A sync makes durable what was written and loses nothing.
LEMMA SyncCovers ==
    ASSUME file \in FileType, FileShape, SyncOk
    PROVE  /\ FileShape'
           /\ file'.length = file.length /\ file'.exists = file.exists
           /\ \A c \in Int :
                \/ Covered(c)
                \/ c <= file.length /\ (c > 0 => file.exists)
                => Covered(c)'
  <1>1. /\ file'.length = file.length /\ file'.exists = file.exists
        /\ file'.stable = 1..file.length
        /\ file'.named = (file.named \/ file.exists)
    BY DEF SyncOk, Synced, FileType
  <1>2. file.length \in Nat /\ file.stable \subseteq 1..file.length
    BY DownloadAssumption DEF FileType, FileShape
  <1>3. FileShape'
    BY <1>1, <1>2 DEF FileShape
  <1>4. ASSUME NEW c \in Int, c <= file.length /\ (c > 0 => file.exists)
        PROVE  Covered(c)'
    <2>1. 1..c \subseteq 1..file.length
      BY <1>2, <1>4
    <2>2. c > 0 => file'.named
      BY <1>1, <1>4
    <2>3. QED
      BY <1>1, <2>1, <2>2 DEF Covered, CoveredBy
  <1>5. ASSUME NEW c \in Int, Covered(c) PROVE Covered(c)'
    BY <1>1, <1>2, <1>5 DEF Covered, CoveredBy
  <1>6. QED
    BY <1>1, <1>3, <1>4, <1>5

\* Opening without truncating keeps what is covered.
LEMMA OpenedCovers ==
    ASSUME file \in FileType, FileShape
    PROVE  /\ Opened.exists /\ Opened.stable \subseteq 1..Opened.length
           /\ writer # "fresh" =>
                /\ Opened.length = file.length
                /\ \A c \in Int : Covered(c) => CoveredBy(Opened, c)
  <1>1. CASE writer = "fresh"
    BY <1>1 DEF Opened, Truncated, FileType
  <1>2. CASE writer # "fresh" /\ file.exists
    BY <1>2 DEF Opened, FileShape, Covered
  <1>3. CASE writer # "fresh" /\ ~file.exists
    <2>1. Opened = [NoFile EXCEPT !.exists = TRUE]
      BY <1>3 DEF Opened
    <2>2. Opened.exists /\ Opened.length = 0 /\ Opened.stable = {}
      BY <2>1 DEF NoFile
    <2>3. file.length = 0 /\ ~file.named
      BY <1>3 DEF FileShape
    <2>4. \A c \in Int : Covered(c) => c <= 0
      BY <2>3 DEF Covered, CoveredBy
    <2>5. QED
      BY <2>2, <2>3, <2>4, NothingCovered
  <1>4. QED
    BY <1>1, <1>2, <1>3

\* Writing a unit keeps what is covered below it.
LEMMA WrittenCovers ==
    ASSUME NEW f \in FileType, f.stable \subseteq 1..f.length, NEW p \in Units
    PROVE  /\ Written(f, p).exists = f.exists /\ Written(f, p).length >= p
           /\ Written(f, p).stable \subseteq 1..Written(f, p).length
           /\ \A c \in Int : c < p /\ CoveredBy(f, c) => CoveredBy(Written(f, p), c)
  <1>1. /\ Written(f, p).exists = f.exists /\ Written(f, p).named = f.named
        /\ Written(f, p).length = Greater(f.length, p)
        /\ Written(f, p).stable = IF p \in f.junk THEN f.stable \ {p} ELSE f.stable
    BY DEF Written, FileType
  <1>2. f.length \in Nat /\ p \in Nat
    BY DownloadAssumption DEF FileType, Units
  <1>3. /\ Greater(f.length, p) \in Nat
        /\ Greater(f.length, p) >= p /\ Greater(f.length, p) >= f.length
    BY <1>2 DEF Greater
  <1>4. 1..f.length \subseteq 1..Greater(f.length, p)
    BY <1>2, <1>3
  <1>5. ASSUME NEW c \in Int, c < p, CoveredBy(f, c)
        PROVE  CoveredBy(Written(f, p), c)
    BY <1>1, <1>2, <1>5 DEF CoveredBy
  <1>6. QED
    BY <1>1, <1>3, <1>4, <1>5

\* A power loss keeps what was covered before it.
LEMMA PowerLossCovers ==
    ASSUME file \in FileType, FileShape, NEW g \in OutputsAfter(file)
    PROVE  /\ g.stable \subseteq 1..g.length
           /\ ~g.exists => ~g.named /\ g.length = 0
           /\ \A c \in Int : Covered(c) => CoveredBy(g, c)
  <1>1. CASE g \in Survivors(file)
    <2>1. PICK n \in 0..file.upper, j \in SUBSET (1..file.upper) :
            /\ g = [exists |-> TRUE, named |-> TRUE, length |-> n, upper |-> n,
                    junk |-> j, stable |-> 1..n]
            /\ file.stable \subseteq 1..n
      BY <1>1 DEF Survivors
    <2>2. QED
      BY <2>1 DEF Covered, CoveredBy
  <1>2. CASE g = NoFile /\ ~file.named
    <2>1. \A c \in Int : Covered(c) => c <= 0
      BY <1>2 DEF Covered, CoveredBy
    <2>2. QED
      BY <1>2, <2>1, NothingCovered DEF NoFile
  <1>3. QED
    BY <1>1, <1>2 DEF OutputsAfter

\* A save that does not leave its rename unsynced adds no claim but c.
LEMMA SaveCovers ==
    ASSUME NEW c \in Int, Save(c), "sync" \notin failures',
           Covered(c), ClaimsCovered
    PROVE  /\ ClaimsCovered' /\ file' = file
           /\ ghosts' \subseteq ghosts /\ sidecar' \in {sidecar, c}
           /\ "save" \notin failures' => sidecar' = c
  <1>1. SaveOk(c) \/ SaveFails(c)
    BY DEF Save, SaveUnsynced
  <1>2. CASE SaveOk(c)
    BY <1>2 DEF SaveOk, ClaimsCovered, Covered
  <1>3. CASE SaveFails(c)
    BY <1>3 DEF SaveFails, ClaimsCovered, Covered, disk
  <1>4. QED
    BY <1>1, <1>2, <1>3

\* Every step keeps the shape of the output.
LEMMA ShapeStep == TypeInv /\ FileShape /\ Next => FileShape'
  <1> SUFFICES ASSUME TypeInv, FileShape, Next PROVE FileShape'
    OBVIOUS
  <1>1. file \in FileType
    BY TypeParts DEF TypeInv, DiskTypes
  <1>2. ASSUME file' = file PROVE FileShape'
    BY <1>2 DEF FileShape
  <1>3. ASSUME SyncOk PROVE FileShape'
    BY <1>1, <1>3, SyncCovers
  <1>4. ASSUME NEW c, Save(c) PROVE FileShape'
    BY <1>2, <1>4 DEF Save, SaveOk, SaveFails, SaveUnsynced, disk
  <1> USE DEF disk
  <1>5. CASE OpenSteps
    BY <1>5, <1>2, <1>3, <1>4 DEF OpenSteps, Connect, RemoteFails, OpenCheckpoint,
       SyncExisting, SyncFails, SaveOpened, SkipVerifyLocal, VerifyLocal, SaveRestart, OpenRemote
  <1>6. CASE LoopSteps
    <2>1. CASE WriteOk
      <3>1. completed + 1 \in Units
        BY <2>1, DownloadAssumption DEF WriteOk, TypeInv, TypeOK, Budgets, Units
      <3>2. Opened \in FileType /\ Opened.exists /\ Opened.stable \subseteq 1..Opened.length
        BY <1>1, OpenedType, OpenedCovers
      <3>3. QED
        BY <2>1, <3>1, <3>2, WrittenCovers DEF WriteOk, FileShape
    <2>2. CASE WriteFails
      BY <2>2, <1>1, <1>2, OpenedCovers DEF WriteFails, FileShape
    <2>3. CASE LoopSteps /\ ~WriteOk /\ ~WriteFails
      BY <2>3, <1>2, <1>3, <1>4 DEF LoopSteps, HeadHalted, HeadComplete, HeadRead,
         Register, ReadNotified, SyncChunk, SyncFails, SaveChunk
    <2>4. QED
      BY <1>6, <2>1, <2>2, <2>3
  <1>7. CASE EndSteps
    BY <1>7, <1>2, <1>3, <1>4 DEF EndSteps, FinalizePartial, Finalize, FinalizeOk,
       FinalizeFails, SyncFails, Flush, Verify, Complete, Fail, WaitHalted, PrepareRetry, Shutdown
  <1>8. CASE ServerAnswers \/ Requests \/ Start \/ Kill
    BY <1>8, <1>2 DEF ServerAnswers, ReadData, ReadFails,
       Requests, RequestHalt, RequestResume, RequestSave, Start, Kill
  <1>9. CASE LosePower
    BY <1>9, <1>1, PowerLossCovers DEF LosePower, FileShape
  <1>10. QED
    BY <1>5, <1>6, <1>7, <1>8, <1>9 DEF Next, CommandSteps

-----------------------------------------------------------------------------
(***************************************************************************)
(* The control file claims stable units only.                              *)
(***************************************************************************)
LEMMA DurableInit == Init => DurableInv /\ FileShape
  <1> SUFFICES ASSUME Init PROVE DurableInv /\ FileShape
    OBVIOUS
  <1>1. FileShape
    BY DownloadAssumption DEF Init, FileShape, NoFile, ForeignFile
  <1>2. ClaimsCovered
    BY NothingCovered DEF Init, ClaimsCovered, Covered, NoSidecar
  <1>3. QED
    BY <1>1, <1>2 DEF Init, DurableInv, GhostsEmpty, SavesCovered, WritesHeld,
       OpenSyncHeld, SidecarBehind, RestartAtZero, Saving, Writing, Leading

\* Failures are not forgotten, and the options do not change.
LEMMA FailuresGrow ==
    ASSUME TypeInv, Next PROVE failures \subseteq failures' /\ options' = options
  <1> USE DEF disk, world
  <1>1. ASSUME NEW c, Save(c) PROVE failures \subseteq failures'
    BY <1>1 DEF Save, SaveOk, SaveFails, SaveUnsynced
  <1>2. ASSUME SyncOk \/ SyncFails PROVE failures \subseteq failures'
    BY <1>2 DEF SyncOk, SyncFails
  <1>3. CASE OpenSteps
    BY <1>3, <1>1, <1>2 DEF OpenSteps, Connect, RemoteFails, OpenCheckpoint, SyncExisting,
       SaveOpened, SkipVerifyLocal, VerifyLocal, SaveRestart, OpenRemote
  <1>4. CASE LoopSteps
    BY <1>4, <1>1, <1>2 DEF LoopSteps, HeadHalted, HeadComplete, HeadRead, Register,
       ReadNotified, WriteOk, WriteFails, SyncChunk, SaveChunk
  <1>5. CASE EndSteps
    BY <1>5, <1>1, <1>2 DEF EndSteps, FinalizePartial, Finalize, FinalizeOk, FinalizeFails,
       Flush, Verify, Complete, Fail, WaitHalted, PrepareRetry, Shutdown
  <1>6. CASE ServerAnswers \/ Requests \/ Start \/ Kill \/ LosePower
    BY <1>6 DEF ServerAnswers, ReadData, ReadFails, Requests, RequestHalt, RequestResume,
       RequestSave, Start, Kill, LosePower, Forget
  <1>7. QED
    BY <1>3, <1>4, <1>5, <1>6 DEF Next, CommandSteps

LEMMA ReliableBefore == TypeInv /\ Next /\ Reliable' => Reliable
  BY FailuresGrow DEF Reliable

\* Every step keeps the checkpoints covered.
LEMMA DurableStep ==
    ASSUME TypeInv, FileShape, DurableInv, Next, Reliable' PROVE DurableInv'
  <1>1. /\ file \in FileType /\ completed \in 0..Length /\ completed \in Int
        /\ sidecar \in Int /\ ghosts \subseteq Int
        /\ writer \in {"fresh", "append", "open"} /\ file.length \in Int
    BY TypeParts, DownloadAssumption
    DEF TypeInv, DiskTypes, CommandTypes, NoSidecar, FileType
  <1>2. "sync" \notin failures' /\ (options'.checksum => "save" \notin failures')
    BY DEF Reliable
  <1>3. \A f : \A c \in Int : c <= 0 => CoveredBy(f, c)
    BY NothingCovered
  <1> USE <1>1, <1>2, <1>3
      DEF DurableInv, GhostsEmpty, SavesCovered, WritesHeld, OpenSyncHeld, SidecarBehind,
          RestartAtZero, Saving, Writing, Leading
  \* Steps that leave the disk, completed and the writer alone.
  <1>4. ASSUME UNCHANGED disk PROVE ClaimsCovered' /\ file' = file
    BY <1>4 DEF ClaimsCovered, Covered, disk
  <1>5. CASE Connect \/ RemoteFails \/ SkipVerifyLocal \/ OpenRemote
    <2>1. CASE Connect
      BY <1>4, <2>1 DEF Connect, Covered, disk, command
    <2>2. CASE RemoteFails
      BY <1>4, <2>2 DEF RemoteFails, Covered, disk
    <2>3. CASE SkipVerifyLocal
      BY <1>4, <2>3 DEF SkipVerifyLocal, Covered, disk, command
    <2>4. CASE OpenRemote
      <3>1. writer' = "fresh" => completed = 0
        BY <2>4 DEF OpenRemote
      <3>2. writer' # "open"
        BY <2>4 DEF OpenRemote
      <3>3. QED
        BY <1>4, <2>4, <3>1, <3>2 DEF OpenRemote, Covered, disk
    <2>5. QED
      BY <1>5, <2>1, <2>2, <2>3, <2>4
  <1>6. CASE HeadHalted \/ HeadComplete \/ HeadRead \/ Register \/ ReadNotified
    BY <1>4, <1>6 DEF HeadHalted, HeadComplete, HeadRead, Register, ReadNotified,
       Covered, disk, command
  <1>7. CASE ServerAnswers \/ Requests
    <2>1. CASE ServerAnswers
      BY <1>4, <2>1 DEF ServerAnswers, ReadData, ReadFails, Covered, disk, command
    <2>2. CASE Requests
      <3>1. UNCHANGED <<disk, pc, command>>
        BY <2>2, Zenon DEF Requests, RequestHalt, RequestResume, RequestSave
      <3>2. UNCHANGED <<file, sidecar, ghosts, pc, completed, writer>> /\ ClaimsCovered'
        BY <1>4, <3>1 DEF disk, command
      <3>3. RestartAtZero'
        BY <2>2, <3>2, Zenon DEF Requests, RequestHalt, RequestResume, RequestSave, world
      <3>4. QED
        BY <3>2, <3>3 DEF Covered
    <2>3. QED
      BY <1>7, <2>1, <2>2
  <1>8. CASE Verify \/ Fail \/ WaitHalted
    BY <1>4, <1>8 DEF Verify, Fail, WaitHalted, Covered, disk, command
  <1>9. CASE VerifyLocal
    BY <1>4, <1>9 DEF VerifyLocal, Covered, disk, world
  <1>10. CASE PrepareRetry \/ Start
    <2>1. ClaimsCovered' /\ file' = file /\ ghosts' = ghosts
      BY <1>4, <1>10 DEF PrepareRetry, Start, disk
    <2>2. pc' = "connect" /\ completed' = 0 /\ pc # "done"
      BY <1>10 DEF PrepareRetry, Start
    <2>3. CoveredBy(file', completed')
      BY <2>2
    <2>4. QED
      BY <2>1, <2>2, <2>3 DEF Covered
  <1>11. CASE Kill
    BY <1>4, <1>11 DEF Kill, Forget, Running, Covered, disk
  <1>12. CASE LosePower
    <2>1. \A c \in {sidecar} \cup ghosts : Covered(c)'
      BY <1>12, PowerLossCovers DEF LosePower, ClaimsCovered, Covered
    <2>2. ClaimsCovered'
      BY <1>12, <2>1 DEF LosePower, ClaimsCovered
    <2>3. QED
      BY <1>12, <2>2 DEF LosePower, Forget
  \* Opening the checkpoint.
  <1>13. CASE OpenCheckpoint
    <2>1. file' = file
      BY <1>13 DEF OpenCheckpoint
    <2>2. ~file.exists => sidecar <= 0
      BY DEF ClaimsCovered, Covered, CoveredBy, FileShape
    <2>3. ClaimsCovered'
      <3>1. NoSidecar \in Int /\ NoSidecar <= 0
        BY DEF NoSidecar
      <3>2. QED
        BY <1>13, <2>1, <3>1 DEF OpenCheckpoint, ClaimsCovered, Covered
    <2>4. GhostsEmpty'
      BY <1>13, <2>2 DEF OpenCheckpoint
    <2>5. Compatible => sidecar <= file.length /\ ResumeInput = file.length
      <3>1. 1..sidecar \subseteq 1..file.length
        BY DEF ClaimsCovered, Covered, CoveredBy, FileShape
      <3>2. file.length >= 0
        BY DownloadAssumption DEF FileType
      <3>3. sidecar <= file.length
        BY <3>1, <3>2
      <3>4. QED
        BY <3>3 DEF Compatible, ResumeInput
    <2>6. Compatible => completed' = sidecar /\ sidecar' = sidecar
      BY <1>13, <2>5 DEF OpenCheckpoint, Trusted, Lesser, Compatible
    <2>7. ~Compatible => sidecar' = NoSidecar /\ completed' = ResumeInput
      BY <1>13 DEF OpenCheckpoint, Trusted, Compatible
    <2>8. ResumeInput \in {0, file.length} /\ file.length >= 0
      BY DownloadAssumption DEF ResumeInput, FileType
    <2>9. pc' = "opened" => Compatible
      BY <1>13 DEF OpenCheckpoint
    <2>10. SidecarBehind'
      BY <2>6, <2>7, <2>8 DEF NoSidecar
    <2>11. SavesCovered'
      BY <1>13, <2>1, <2>6, <2>9 DEF OpenCheckpoint, ClaimsCovered, Covered
    <2>12. OpenSyncHeld'
      BY <2>1, <2>2, <2>5, <2>6, <2>7, <2>8 DEF FileShape
    <2>13. QED
      BY <1>13, <2>3, <2>4, <2>10, <2>11, <2>12 DEF OpenCheckpoint
  \* Steps that sync.
  <1>14. ASSUME SyncOk
         PROVE  /\ ClaimsCovered' /\ UNCHANGED <<sidecar, ghosts>>
                /\ file'.length = file.length /\ file'.exists = file.exists
                /\ Covered(completed) => CoveredBy(file', completed)
                /\ completed <= file.length /\ (completed > 0 => file.exists)
                   => CoveredBy(file', completed)
    BY <1>14, SyncCovers DEF SyncOk, ClaimsCovered, Covered
  <1>15. ~SyncFails
    BY DEF SyncFails
  <1>16. CASE SyncExisting
    <2>1. CASE completed = 0 /\ UNCHANGED <<disk, failures>>
      BY <1>4, <1>16, <2>1 DEF SyncExisting, Covered, disk, command
    <2>2. CASE completed > 0 /\ SyncOk
      BY <1>14, <1>16, <2>2 DEF SyncExisting, Covered, command
    <2>3. QED
      BY <1>15, <1>16, <2>1, <2>2 DEF SyncExisting
  <1>17. CASE SyncChunk
    BY <1>14, <1>15, <1>17 DEF SyncChunk, Covered
  <1>18. CASE FinalizePartial \/ Finalize
    BY <1>4, <1>14, <1>15, <1>18
    DEF FinalizePartial, Finalize, FinalizeOk, FinalizeFails, Covered, disk, command
  \* Steps that save.
  <1>19. ASSUME Save(completed), Covered(completed)
         PROVE  /\ ClaimsCovered' /\ file' = file
                /\ ghosts' \subseteq ghosts /\ sidecar' \in {sidecar, completed}
                /\ "save" \notin failures' => sidecar' = completed
    BY <1>19, SaveCovers
  <1>20. CASE SaveOpened \/ SaveChunk \/ Flush
    <2>1. CASE SaveOpened
      <3>1. Save(completed) /\ Covered(completed) /\ pc' = "opened" /\ completed' = completed
        BY <2>1 DEF SaveOpened
      <3>2. sidecar' <= completed' /\ Covered(completed)'
        BY <1>19, <2>1, <3>1 DEF SaveOpened, Covered
      <3>3. QED
        BY <1>19, <2>1, <3>1, <3>2 DEF SaveOpened
    <2>2. CASE SaveChunk
      <3>1. Save(completed) /\ Covered(completed) /\ pc' = "loop"
        BY <2>2 DEF SaveChunk
      <3>2. completed' = completed /\ writer' = writer /\ sidecar' <= completed
        BY <1>19, <2>2, <3>1 DEF SaveChunk
      <3>3. QED
        BY <1>19, <2>2, <3>1, <3>2 DEF SaveChunk, Covered
    <2>3. CASE Flush
      BY <1>19, <2>3 DEF Flush, Covered
    <2>4. QED
      BY <1>20, <2>1, <2>2, <2>3
  <1>21. CASE Shutdown
    BY <1>4, <1>19, <1>21 DEF Shutdown, Covered, disk
  <1>22. CASE SaveRestart
    <2>1. Save(completed) /\ Covered(completed) /\ completed = 0
      BY <1>22 DEF SaveRestart
    <2>2. "save" \notin failures'
      BY <1>22 DEF SaveRestart, world
    <2>3. ClaimsCovered' /\ file' = file /\ ghosts' \subseteq ghosts /\ sidecar' = completed
      BY <1>19, <2>1, <2>2
    <2>4. QED
      BY <1>22, <2>1, <2>3 DEF SaveRestart, Covered
  \* Writes.
  <1>23. CASE WriteOk
    <2>1. completed + 1 \in Units
      BY <1>23, DownloadAssumption DEF WriteOk, TypeInv, TypeOK, Budgets, Units
    <2>2. Opened \in FileType /\ Opened.exists /\ Opened.stable \subseteq 1..Opened.length
      BY OpenedType, OpenedCovers
    <2>3. \A c \in {sidecar} \cup ghosts : c < completed + 1 /\ CoveredBy(Opened, c)
      <3>1. \A c \in {sidecar} \cup ghosts : c <= completed
        BY <1>23 DEF WriteOk
      <3>2. CASE writer = "fresh"
        BY <1>23, <3>1, <3>2 DEF WriteOk
      <3>3. CASE writer # "fresh"
        BY <3>1, <3>3, OpenedCovers DEF ClaimsCovered
      <3>4. QED
        BY <3>2, <3>3
    <2>4. ClaimsCovered'
      BY <1>23, <2>1, <2>2, <2>3, WrittenCovers DEF WriteOk, ClaimsCovered, Covered
    <2>5. completed' <= file'.length /\ file'.exists
      BY <1>23, <2>1, <2>2, WrittenCovers DEF WriteOk
    <2>6. QED
      BY <1>23, <2>4, <2>5 DEF WriteOk
  <1>24. CASE WriteFails
    <2>1. CASE file' = file /\ writer' = writer
      BY <1>24, <2>1 DEF WriteFails, ClaimsCovered, Covered
    <2>2. CASE writer # "open" /\ file' = Opened /\ writer' = "open"
      <3>1. ClaimsCovered'
        <4>1. CASE writer = "fresh"
          BY <1>24, <2>2, <4>1 DEF WriteFails, ClaimsCovered, Covered
        <4>2. CASE writer # "fresh"
          BY <1>24, <2>2, <4>2, OpenedCovers DEF WriteFails, ClaimsCovered, Covered
        <4>3. QED
          BY <4>1, <4>2
      <3>2. Opened.exists /\ completed <= Opened.length
        <4>1. Opened.exists /\ Opened \in FileType
          BY OpenedCovers, OpenedType
        <4>2. Opened.length \in Nat
          BY <4>1, DownloadAssumption DEF FileType
        <4>3. CASE writer = "fresh"
          BY <1>24, <4>1, <4>2, <4>3 DEF WriteFails
        <4>4. CASE writer # "fresh"
          <5>1. Opened.length = file.length /\ Covered(completed)
            BY <1>24, <2>2, <4>4, OpenedCovers DEF WriteFails
          <5>2. QED
            BY <4>1, <4>2, <5>1 DEF Covered, CoveredBy, FileShape
        <4>5. QED
          BY <4>3, <4>4
      <3>3. QED
        BY <1>24, <2>2, <3>1, <3>2 DEF WriteFails
    <2>3. QED
      BY <1>24, <2>1, <2>2 DEF WriteFails
  <1>25. CASE Complete
    <2>1. NoSidecar \in Int /\ NoSidecar <= 0
      BY DEF NoSidecar
    <2>2. ClaimsCovered'
      BY <1>25, <2>1 DEF Complete, ClaimsCovered, Covered
    <2>3. QED
      BY <1>25, <2>2 DEF Complete
  <1>26. QED
    BY <1>5, <1>6, <1>7, <1>8, <1>9, <1>10, <1>11, <1>12, <1>13, <1>16, <1>17, <1>18,
       <1>20, <1>21, <1>22, <1>23, <1>24, <1>25
    DEF Next, CommandSteps, OpenSteps, LoopSteps, EndSteps

\* The invariant holds at the start, and every step keeps it.
LEMMA InvInit == Init => IInv
  BY TypeInit, DurableInit DEF IInv

LEMMA InvStep == IInv /\ [Next]_vars => IInv'
  <1> SUFFICES ASSUME IInv, [Next]_vars PROVE IInv'
    OBVIOUS
  <1>1. TypeInv'
    BY TypeStep DEF IInv
  <1>2. CASE Next
    <2>1. FileShape'
      BY <1>2, ShapeStep DEF IInv
    <2>2. Reliable' => DurableInv'
      BY <1>2, ReliableBefore, DurableStep DEF IInv
    <2>3. QED
      BY <1>1, <2>1, <2>2 DEF IInv
  <1>3. CASE UNCHANGED vars
    BY <1>1, <1>3 DEF vars, disk, command, group, world, IInv, FileShape, Reliable,
       DurableInv, ClaimsCovered, GhostsEmpty, SavesCovered, WritesHeld, OpenSyncHeld,
       SidecarBehind, RestartAtZero, Covered, CoveredBy
  <1>4. QED
    BY <1>2, <1>3

\* Whatever fails, is killed or loses power, and in whatever order, a control
\* file that survives claims only units that survive with it: the payload is
\* synced before the checkpoint is advanced (work_commit.rs,
\* progress_checkpoint.rs).  Failed syncs, and the failed save of a restart
\* at byte zero, are the exceptions.
THEOREM CheckpointClaimsStableBytes == Spec => []CheckpointIsStable
  <1>1. IInv => CheckpointIsStable
    BY DEF IInv, DurableInv, ClaimsCovered, Covered, CoveredBy, CheckpointIsStable
  <1>2. QED
    BY <1>1, InvInit, InvStep, PTL DEF Spec

-----------------------------------------------------------------------------
(***************************************************************************)
(* The content.  A length that may be claimed without being the remote     *)
(* file's is that of a complete local file whose checksum was not verified *)
(* yet; past the check only the remote file's units count.                 *)
(***************************************************************************)
Data(c) == 1..c \cap file.junk = {}
Unverified(c) == options.checksum /\ c = Length
Checked == {"remote", "loop", "register", "read", "write", "sync", "save",
            "finalize", "verify"}

ClaimsAreData == \A c \in {sidecar} \cup ghosts : Data(c) \/ Unverified(c)
ProgressIsData ==
    /\ Data(completed) \/ Unverified(completed)
    /\ pc \in Checked => Data(completed)
EndIsReached == pc \in {"finalize", "verify", "complete"} => completed = Length
EndIsWhole ==
    pc \in {"complete", "done"} =>
        /\ options.checksum => MatchesRemote
        /\ Reliable => Covered(Length)
        /\ Reliable /\ ~options.continue => Data(Length)

ContentInv ==
    /\ EndIsReached /\ EndIsWhole
    /\ Reliable /\ ~options.continue => ClaimsAreData /\ ProgressIsData

-----------------------------------------------------------------------------
(***************************************************************************)
(* The record of the progress, while nothing fails.                        *)
(***************************************************************************)
Transferring == {"remote", "loop", "register", "read", "write", "sync", "save"}

SavedIsRecorded ==
    /\ pc = "opened" => completed = sidecar
    /\ pc \in {"opened"} \cup Transferring => ckpt.saved = sidecar
    /\ pc \in Transferring \ {"sync", "save"} => completed - sidecar < SaveInterval
NotAhead ==
    /\ pc \in {"partial", "flush", "finalize", "verify"} => sidecar <= completed
    /\ pc \in {"failed", "wait", "shutdown"} =>
           sidecar <= completed \/ attempt > 1 \/ ~ckpt.open
    /\ pc \in {"connect", "open"} => attempt > 1 \/ ~ckpt.open
NothingBehind == sidecar > 0 => ghosts = {}

RecordInv ==
    /\ Running => attempt >= 1
    /\ failures = {} => SavedIsRecorded /\ NotAhead /\ NothingBehind

-----------------------------------------------------------------------------
\* Only a loss of power brings units that are not the remote file's.
LEMMA JunkShrinks ==
    ASSUME TypeInv, Next, ~LosePower PROVE file'.junk \subseteq file.junk
  <1>1. file \in FileType /\ completed \in 0..Length
    BY TypeParts DEF TypeInv, DiskTypes, CommandTypes
  <1>2. Opened \in FileType /\ Opened.junk \subseteq file.junk
    BY <1>1, OpenedType DEF Opened, Truncated, NoFile, FileType
  <1>3. ASSUME NEW f \in FileType, NEW q \in 0..Length PROVE Written(f, q).junk \subseteq f.junk
    BY <1>3 DEF Written, FileType
  <1>4. ASSUME SyncOk PROVE file'.junk = file.junk
    BY <1>1, <1>4 DEF SyncOk, Synced, FileType
  <1>5. ASSUME NEW c, Save(c) PROVE file' = file
    BY <1>5 DEF Save, SaveOk, SaveFails, SaveUnsynced, disk
  <1>6. ASSUME SyncFails PROVE file' = file
    BY <1>6 DEF SyncFails, disk
  <1> USE DEF disk
  <1>7. CASE OpenSteps
    BY <1>7, <1>4, <1>5, <1>6 DEF OpenSteps, Connect, RemoteFails, OpenCheckpoint,
       SyncExisting, SaveOpened, SkipVerifyLocal, VerifyLocal, SaveRestart, OpenRemote
  <1>8. CASE LoopSteps
    <2>1. CASE WriteOk
      <3>1. completed + 1 \in 0..Length
        BY <2>1, <1>1, DownloadAssumption DEF WriteOk, TypeInv, Budgets
      <3>2. QED
        BY <2>1, <3>1, <1>2, <1>3 DEF WriteOk
    <2>2. CASE WriteFails
      BY <2>2, <1>2 DEF WriteFails
    <2>3. QED
      BY <1>8, <2>1, <2>2, <1>4, <1>5, <1>6 DEF LoopSteps, HeadHalted, HeadComplete,
         HeadRead, Register, ReadNotified, SyncChunk, SaveChunk
  <1>9. CASE EndSteps
    BY <1>9, <1>4, <1>5, <1>6 DEF EndSteps, FinalizePartial, FinalizeOk, FinalizeFails,
       Flush, Finalize, Verify, Complete, Fail, WaitHalted, PrepareRetry, Shutdown
  <1>10. CASE ServerAnswers \/ Requests \/ Start \/ Kill
    BY <1>10 DEF ServerAnswers, ReadData, ReadFails, Requests, RequestHalt,
       RequestResume, RequestSave, Start, Kill
  <1>11. QED
    BY <1>7, <1>8, <1>9, <1>10 DEF Next, CommandSteps

\* What is covered and the remote file's stays so, over a loss of power too.
LEMMA DataStays ==
    ASSUME TypeInv, Next, NEW c \in Int, Covered(c), Data(c) PROVE Data(c)'
  <1>1. CASE ~LosePower
    BY <1>1, JunkShrinks DEF Data
  <1>2. CASE LosePower
    <2>1. CASE file' = NoFile
      BY <2>1 DEF NoFile, Data
    <2>2. CASE file' \in Survivors(file)
      <3>1. file'.junk \cap file.stable = file.junk \cap file.stable
        BY <2>2 DEF Survivors
      <3>2. QED
        BY <3>1 DEF Data, Covered, CoveredBy
    <2>3. QED
      BY <1>2, <2>1, <2>2 DEF LosePower, OutputsAfter
  <1>3. QED
    BY <1>1, <1>2

\* A command at its end has counted the whole file.
LEMMA ReachedStep ==
    ASSUME TypeInv, EndIsReached, Next PROVE EndIsReached'
  <1> USE DEF EndIsReached, command, disk
  <1>1. CASE OpenSteps
    BY <1>1 DEF OpenSteps, Connect, RemoteFails, OpenCheckpoint, SyncExisting,
       SaveOpened, SkipVerifyLocal, VerifyLocal, SaveRestart, OpenRemote
  <1>2. CASE LoopSteps
    BY <1>2 DEF LoopSteps, HeadHalted, HeadComplete, HeadRead, Register,
       ReadNotified, WriteOk, WriteFails, SyncChunk, SaveChunk
  <1>3. CASE EndSteps
    BY <1>3 DEF EndSteps, FinalizePartial, Flush, Finalize, Verify, Complete,
       Fail, WaitHalted, PrepareRetry, Shutdown
  <1>4. CASE ServerAnswers \/ Requests \/ Start \/ Kill \/ LosePower
    BY <1>4 DEF ServerAnswers, ReadData, ReadFails, Requests, RequestHalt,
       RequestResume, RequestSave, Start, Kill, LosePower, Forget
  <1>5. QED
    BY <1>1, <1>2, <1>3, <1>4 DEF Next, CommandSteps

\* A command comes to its end by one of two checks, and changes no unit there.
LEMMA EndIsChecked ==
    ASSUME Next, pc' \in {"complete", "done"}
    PROVE  /\ file' = file /\ options' = options /\ failures' = failures
           /\ pc \in {"complete", "done"} \/ Verify \/ VerifyLocal
  <1> USE DEF command, disk, group, world
  <1>1. CASE OpenSteps
    BY <1>1 DEF OpenSteps, Connect, RemoteFails, OpenCheckpoint, SyncExisting,
       SaveOpened, SkipVerifyLocal, VerifyLocal, SaveRestart, OpenRemote
  <1>2. CASE LoopSteps
    BY <1>2 DEF LoopSteps, HeadHalted, HeadComplete, HeadRead, Register,
       ReadNotified, WriteOk, WriteFails, SyncChunk, SaveChunk
  <1>3. CASE EndSteps
    BY <1>3 DEF EndSteps, FinalizePartial, Flush, Finalize, Verify, Complete,
       Fail, WaitHalted, PrepareRetry, Shutdown
  <1>4. CASE ServerAnswers \/ Requests \/ Start \/ Kill \/ LosePower
    BY <1>4 DEF ServerAnswers, ReadData, ReadFails, Requests, RequestHalt,
       RequestResume, RequestSave, Start, Kill, LosePower, Forget
  <1>5. QED
    BY <1>1, <1>2, <1>3, <1>4 DEF Next, CommandSteps

\* What a command at its end has is the whole file.
LEMMA WholeStep ==
    ASSUME IInv, ContentInv, Next PROVE EndIsWhole'
  <1> SUFFICES ASSUME pc' \in {"complete", "done"}
               PROVE  (/\ options.checksum => MatchesRemote
                       /\ Reliable => Covered(Length)
                       /\ Reliable /\ ~options.continue => Data(Length))'
    BY DEF EndIsWhole
  <1>5. SUFFICES /\ options.checksum => MatchesRemote
                 /\ Reliable => Covered(Length)
                 /\ Reliable /\ ~options.continue => Data(Length)
    <2>1. file' = file /\ options' = options /\ failures' = failures
      BY EndIsChecked
    <2>2. QED
      BY <2>1 DEF MatchesRemote, Reliable, Covered, CoveredBy, Data
  <1>1. CASE pc \in {"complete", "done"}
    BY <1>1 DEF ContentInv, EndIsWhole
  <1>2. CASE Verify
    <2>1. pc = "verify" /\ completed = Length /\ (options.checksum => MatchesRemote)
      BY <1>2 DEF Verify, ContentInv, EndIsReached
    <2>2. Reliable => Covered(completed)
      BY <2>1 DEF IInv, DurableInv, SavesCovered, Saving
    <2>3. Reliable /\ ~options.continue => Data(completed)
      BY <2>1 DEF ContentInv, ProgressIsData, Checked
    <2>4. QED
      BY <2>1, <2>2, <2>3
  <1>3. CASE VerifyLocal
    <2>1. pc = "opened" /\ completed = Length /\ MatchesRemote
      BY <1>3 DEF VerifyLocal
    <2>2. Reliable => Covered(completed)
      BY <2>1 DEF IInv, DurableInv, SavesCovered, Saving
    <2>3. Data(Length)
      BY <2>1 DEF MatchesRemote, Data
    <2>4. QED
      BY <2>1, <2>2, <2>3
  <1>4. QED
    BY <1>1, <1>2, <1>3, EndIsChecked

-----------------------------------------------------------------------------
\* A control file claims what one claimed before, what the command has
\* counted on the output as it is, or nothing.
LEMMA ClaimsOrigin ==
    ASSUME TypeInv, Next, NEW c \in {sidecar'} \cup ghosts'
    PROVE  c \in {sidecar} \cup ghosts \/ c <= 0 \/ (c = completed /\ file' = file)
  <1>1. ASSUME NEW q, Save(q)
        PROVE  file' = file /\ c \in {sidecar} \cup ghosts \cup {q}
    BY <1>1 DEF Save, SaveOk, SaveFails, SaveUnsynced, disk
  <1>2. ASSUME SyncOk \/ SyncFails PROVE c \in {sidecar} \cup ghosts
    BY <1>2 DEF SyncOk, SyncFails, disk
  <1>3. NoSidecar <= 0 /\ 0 <= 0
    BY DEF NoSidecar
  <1> USE DEF disk
  <1>4. CASE OpenSteps
    BY <1>1, <1>2, <1>3, <1>4 DEF OpenSteps, Connect, RemoteFails, OpenCheckpoint,
       SyncExisting, SaveOpened, SkipVerifyLocal, VerifyLocal, SaveRestart, OpenRemote
  <1>5. CASE LoopSteps
    BY <1>1, <1>2, <1>5 DEF LoopSteps, HeadHalted, HeadComplete, HeadRead, Register,
       ReadNotified, WriteOk, WriteFails, SyncChunk, SaveChunk
  <1>6. CASE EndSteps
    BY <1>1, <1>2, <1>3, <1>6 DEF EndSteps, FinalizePartial, FinalizeOk, FinalizeFails,
       Flush, Finalize, Verify, Complete, Fail, WaitHalted, PrepareRetry, Shutdown
  <1>7. CASE ServerAnswers \/ Requests \/ Start \/ Kill \/ LosePower
    BY <1>7 DEF ServerAnswers, ReadData, ReadFails, Requests, RequestHalt,
       RequestResume, RequestSave, Start, Kill, LosePower
  <1>8. QED
    BY <1>4, <1>5, <1>6, <1>7 DEF Next, CommandSteps

\* What resuming trusts without --continue is the remote file's, or will be
\* verified.
LEMMA TrustedIsData ==
    ASSUME IInv, Reliable, ~options.continue, ClaimsAreData
    PROVE  Data(Trusted) \/ Unverified(Trusted)
  <1>1. /\ sidecar \in NoSidecar..Length /\ file.length \in 0..Length
        /\ file.exists \in BOOLEAN
    BY TypeParts DEF IInv, TypeInv, DiskTypes, FileType
  <1>2. Data(0)
    BY DEF Data
  <1>3. CASE sidecar = NoSidecar
    BY <1>2, <1>3 DEF Trusted, Compatible, ResumeInput, Unverified
  <1>4. CASE sidecar # NoSidecar /\ ~file.exists
    <2>1. file.length = 0
      BY <1>4 DEF IInv, FileShape
    <2>2. QED
      BY <1>2, <1>4, <2>1 DEF Trusted, Compatible, ResumeInput
  <1>5. CASE sidecar # NoSidecar /\ file.exists
    <2>1. Covered(sidecar)
      BY DEF IInv, DurableInv, ClaimsCovered
    <2>2. 1..sidecar \subseteq 1..file.length
      BY <2>1 DEF IInv, FileShape, Covered, CoveredBy
    <2>3. sidecar \in 0..Length /\ sidecar <= file.length
      BY <1>1, <1>5, <2>2, DownloadAssumption DEF NoSidecar
    <2>4. Trusted = sidecar
      BY <1>1, <1>5, <2>3, DownloadAssumption DEF Trusted, Compatible, ResumeInput, Lesser
    <2>5. QED
      BY <2>4 DEF ClaimsAreData
  <1>6. QED
    BY <1>1, <1>3, <1>4, <1>5

\* Claims stay true: what is claimed is covered, so it outlives whatever happens.
LEMMA ClaimsStep ==
    ASSUME IInv, ContentInv, Next, Reliable, ~options.continue PROVE ClaimsAreData'
  <1>1. sidecar \in Int /\ ghosts \subseteq Int /\ completed \in Int
    BY TypeParts, DownloadAssumption DEF IInv, TypeInv, DiskTypes, CommandTypes, NoSidecar
  <1>2. options' = options /\ ClaimsAreData /\ ProgressIsData
    BY FailuresGrow DEF ContentInv, IInv
  <1> SUFFICES ASSUME NEW c \in {sidecar'} \cup ghosts'
               PROVE  Data(c)' \/ Unverified(c)'
    BY DEF ClaimsAreData
  <1>3. CASE c \in {sidecar} \cup ghosts
    <2>1. c \in Int /\ Covered(c)
      BY <1>1, <1>3 DEF IInv, DurableInv, ClaimsCovered
    <2>2. Data(c) => Data(c)'
      BY <2>1, DataStays DEF IInv
    <2>3. QED
      BY <1>2, <1>3, <2>2 DEF ClaimsAreData, Unverified
  <1>4. CASE c <= 0 /\ c \in Int
    BY <1>4 DEF Data
  <1>5. CASE c = completed /\ file' = file
    BY <1>2, <1>5 DEF ProgressIsData, Data, Unverified
  <1>6. c \in Int
    BY TypeStep, TypeParts, DownloadAssumption, <1>1
    DEF IInv, TypeInv, TypeOK, NoSidecar
  <1>7. QED
    BY <1>3, <1>4, <1>5, <1>6, ClaimsOrigin DEF IInv

\* What is counted stays the remote file's, or will be verified.
LEMMA ProgressStep ==
    ASSUME IInv, ContentInv, Next, Reliable, ~options.continue PROVE ProgressIsData'
  <1>1. /\ file \in FileType /\ completed \in 0..Length
        /\ writer \in {"fresh", "append", "open"}
    BY TypeParts DEF IInv, TypeInv, DiskTypes, CommandTypes
  <1>2. /\ options' = options /\ ClaimsAreData /\ TypeInv /\ DurableInv
        /\ Data(completed) \/ Unverified(completed)
        /\ pc \in Checked => Data(completed)
    BY FailuresGrow DEF ContentInv, ProgressIsData, IInv
  <1>3. ASSUME completed' = 0 PROVE ProgressIsData'
    BY <1>3 DEF ProgressIsData, Data
  <1>4. ASSUME ~LosePower, completed' = completed, pc' \in Checked => Data(completed)
        PROVE  ProgressIsData'
    BY <1>2, <1>4, JunkShrinks DEF ProgressIsData, Data, Unverified
  <1>5. CASE OpenCheckpoint
    <2>1. file' = file /\ completed' = Trusted /\ pc' \notin Checked
      BY <1>5 DEF OpenCheckpoint, Checked
    <2>2. Data(Trusted) \/ Unverified(Trusted)
      BY <1>2, TrustedIsData
    <2>3. QED
      BY <1>2, <2>1, <2>2 DEF ProgressIsData, Data, Unverified
  <1>6. CASE WriteOk
    <2>1. /\ pc = "write" /\ file' = Written(Opened, completed + 1)
          /\ completed' = completed + 1
      BY <1>6 DEF WriteOk
    <2>2. Opened \in FileType /\ Opened.junk \subseteq file.junk
      BY <1>1, OpenedType DEF Opened, Truncated, NoFile, FileType
    <2>3. file'.junk \subseteq file.junk \ {completed + 1}
      BY <2>1, <2>2 DEF Written, FileType
    <2>4. 1..completed \cap file.junk = {}
      BY <1>2, <2>1 DEF Checked, Data
    <2>5. 1..(completed + 1) = 1..completed \cup {completed + 1}
      BY <1>1, DownloadAssumption
    <2>6. QED
      BY <2>1, <2>3, <2>4, <2>5 DEF ProgressIsData, Data
  <1>7. CASE SkipVerifyLocal
    BY <1>2, <1>4, <1>7 DEF SkipVerifyLocal, Unverified, LosePower, Forget, command
  <1>8. CASE VerifyLocal
    BY <1>2, <1>3, <1>4, <1>8 DEF VerifyLocal, LosePower, Forget, Checked
  <1>9. CASE SaveRestart
    <2>1. completed = 0 /\ completed' = completed
      BY <1>2, <1>9 DEF SaveRestart, DurableInv, RestartAtZero
    <2>2. QED
      BY <1>3, <2>1
  <1>10. CASE OpenSteps
    <2>1. CASE Connect \/ RemoteFails \/ SyncExisting \/ SaveOpened \/ OpenRemote
      BY <1>2, <1>4, <2>1 DEF Connect, RemoteFails, SyncExisting, SaveOpened, OpenRemote,
         LosePower, Forget, Checked, command
    <2>2. QED
      BY <1>5, <1>7, <1>8, <1>9, <1>10, <2>1 DEF OpenSteps
  <1>11. CASE LoopSteps
    <2>1. CASE LoopSteps /\ ~WriteOk
      BY <1>2, <1>4, <2>1 DEF LoopSteps, HeadHalted, HeadComplete, HeadRead, Register,
         ReadNotified, WriteFails, SyncChunk, SaveChunk, LosePower, Forget, Checked, command
    <2>2. QED
      BY <1>6, <1>11, <2>1
  <1>12. CASE EndSteps
    BY <1>2, <1>3, <1>4, <1>12 DEF EndSteps, FinalizePartial, Flush, Finalize, Verify,
       Complete, Fail, WaitHalted, PrepareRetry, Shutdown, LosePower, Forget, Checked, command
  <1>13. CASE ServerAnswers
    BY <1>2, <1>4, <1>13 DEF ServerAnswers, ReadData, ReadFails, LosePower, Forget,
       Checked, command
  <1>14. CASE Requests
    <2>1. completed' = completed /\ pc' = pc /\ pc # "idle"
      BY <1>14, Zenon DEF Requests, RequestHalt, RequestResume, RequestSave, Running, command
    <2>2. QED
      BY <1>2, <1>4, <2>1 DEF LosePower, Forget
  <1>15. CASE Start \/ Kill \/ LosePower
    BY <1>3, <1>15 DEF Start, Kill, LosePower, Forget
  <1>16. QED
    BY <1>10, <1>11, <1>12, <1>13, <1>14, <1>15 DEF Next, CommandSteps

\* The invariant of the content holds at the start, and every step keeps it.
LEMMA ContentInit == Init => ContentInv
  <1> SUFFICES ASSUME Init PROVE ContentInv
    OBVIOUS
  <1>1. Data(NoSidecar) /\ Data(0)
    BY DEF Data, NoSidecar
  <1>2. QED
    BY <1>1 DEF Init, ContentInv, EndIsReached, EndIsWhole, ClaimsAreData,
       ProgressIsData, Checked

LEMMA ContentStep == IInv /\ ContentInv /\ [Next]_vars => ContentInv'
  <1> SUFFICES ASSUME IInv, ContentInv, [Next]_vars PROVE ContentInv'
    OBVIOUS
  <1>1. CASE Next
    <2>1. EndIsReached' /\ EndIsWhole'
      BY <1>1, ReachedStep, WholeStep DEF IInv, ContentInv
    <2>2. Reliable' => Reliable
      BY <1>1, ReliableBefore DEF IInv
    <2>3. QED
      BY <1>1, <2>1, <2>2, FailuresGrow, ClaimsStep, ProgressStep DEF ContentInv, IInv
  <1>2. CASE UNCHANGED vars
    BY <1>2 DEF vars, disk, command, group, world, ContentInv, EndIsReached, EndIsWhole,
       ClaimsAreData, ProgressIsData, Data, Unverified, Reliable, Covered, CoveredBy,
       MatchesRemote
  <1>3. QED
    BY <1>1, <1>2

\* Over crashes, retries and foreign files, the prefix a command goes on from
\* is the remote file's, unless --continue asked for the bytes to be trusted
\* (ProgressCheckpoint::open, resume_input_length, commit_chunk).
THEOREM ResumedPrefixIsData == Spec => []PrefixIsData
  <1>1. ContentInv => PrefixIsData
    BY DEF ContentInv, ProgressIsData, Checked, Data, PrefixIsData
  <1>2. QED
    BY <1>1, InvInit, InvStep, ContentInit, ContentStep, PTL DEF Spec

\* A download that is done has the whole remote file on stable storage; what
\* finalize and the checksum say is true of the disk (execution.rs, phase 7).
THEOREM FinishedIsWhole == Spec => []DoneIsWhole
  <1>1. IInv /\ ContentInv => DoneIsWhole
    <2> SUFFICES ASSUME IInv, ContentInv, pc = "done"
                 PROVE  /\ options.checksum \/ (Reliable /\ ~options.continue) => MatchesRemote
                        /\ Reliable => Units \subseteq file.stable
      BY DEF DoneIsWhole
    <2>1. /\ options.checksum => MatchesRemote
          /\ Reliable => Covered(Length)
          /\ Reliable /\ ~options.continue => Data(Length)
      BY DEF ContentInv, EndIsWhole
    <2>2. file.length \in 0..Length /\ file.junk \subseteq 1..Length
      BY TypeParts DEF IInv, TypeInv, DiskTypes, FileType, Units
    <2>3. Covered(Length) => file.length = Length /\ Units \subseteq file.stable
      <3>1. SUFFICES ASSUME Covered(Length)
                     PROVE  file.length = Length /\ Units \subseteq file.stable
        OBVIOUS
      <3>2. 1..Length \subseteq file.stable /\ 1..Length \subseteq 1..file.length
        BY <3>1 DEF IInv, FileShape, Covered, CoveredBy
      <3>3. Length \in 1..Length
        BY DownloadAssumption
      <3>4. QED
        BY <2>2, <3>2, <3>3, DownloadAssumption DEF Units
    <2>4. Data(Length) => file.junk = {}
      BY <2>2 DEF Data
    <2>5. QED
      BY <2>1, <2>3, <2>4 DEF MatchesRemote
  <1>2. QED
    BY <1>1, InvInit, InvStep, ContentInit, ContentStep, PTL DEF Spec

-----------------------------------------------------------------------------
(***************************************************************************)
(* The record of the progress.                                             *)
(***************************************************************************)
\* A command that runs is in an attempt.
LEMMA AttemptStep ==
    ASSUME TypeInv, Running => attempt >= 1, Next PROVE (Running => attempt >= 1)'
  <1>1. attempt \in Nat
    BY TypeParts, DownloadAssumption DEF TypeInv, CommandTypes
  <1> USE <1>1 DEF Running, command, disk
  <1>2. CASE OpenSteps
    BY <1>2 DEF OpenSteps, Connect, RemoteFails, OpenCheckpoint, SyncExisting,
       SaveOpened, SkipVerifyLocal, VerifyLocal, SaveRestart, OpenRemote
  <1>3. CASE LoopSteps
    BY <1>3 DEF LoopSteps, HeadHalted, HeadComplete, HeadRead, Register,
       ReadNotified, WriteOk, WriteFails, SyncChunk, SaveChunk
  <1>4. CASE EndSteps
    BY <1>4 DEF EndSteps, FinalizePartial, Flush, Finalize, Verify, Complete,
       Fail, WaitHalted, PrepareRetry, Shutdown
  <1>5. CASE ServerAnswers \/ Requests \/ Start \/ Kill \/ LosePower
    BY <1>5 DEF ServerAnswers, ReadData, ReadFails, Requests, RequestHalt,
       RequestResume, RequestSave, Start, Kill, LosePower, Forget
  <1>6. QED
    BY <1>2, <1>3, <1>4, <1>5 DEF Next, CommandSteps

\* While nothing fails, a save records what it was given, and a sync and an
\* end of a writer change neither record nor progress.
LEMMA SavedUnfailing ==
    ASSUME ckpt \in CkptType, NEW c, Save(c), failures' = {}
    PROVE  /\ sidecar' = c /\ ghosts' = {} /\ ckpt'.saved = c /\ ckpt'.open = ckpt.open
           /\ failures = {}
  BY DEF Save, SaveOk, SaveFails, SaveUnsynced, CkptType

\* While nothing fails, what a step does to the record is what it leaves.
LEMMA RecordStep ==
    ASSUME IInv, RecordInv, Next, failures' = {}
    PROVE  SavedIsRecorded' /\ NotAhead' /\ NothingBehind'
  <1>1. /\ sidecar \in Int /\ completed \in Nat /\ attempt \in Nat /\ ckpt \in CkptType
        /\ SaveInterval \in Nat \ {0}
    BY TypeParts, DownloadAssumption
    DEF IInv, TypeInv, DiskTypes, CommandTypes, NoSidecar
  <1>2. failures = {} /\ Reliable
    <2>1. failures \subseteq failures'
      BY FailuresGrow DEF IInv
    <2>2. QED
      BY <2>1 DEF Reliable
  <1>3. /\ SavedIsRecorded /\ NotAhead /\ NothingBehind
        /\ SidecarBehind /\ (Running => attempt >= 1)
        /\ \A c \in {sidecar} \cup ghosts : Covered(c)
    BY <1>2 DEF RecordInv, IInv, DurableInv, ClaimsCovered
  <1>4. \A c : Save(c) => /\ sidecar' = c /\ ghosts' = {} /\ ckpt'.saved = c
                          /\ ckpt'.open = ckpt.open
    BY <1>1, SavedUnfailing
  <1>5. ~SyncFails
    BY DEF SyncFails
  <1>6. ASSUME SyncOk PROVE sidecar' = sidecar /\ ghosts' = ghosts
    BY <1>6 DEF SyncOk
  <1> USE <1>1, <1>3 DEF SavedIsRecorded, NotAhead, NothingBehind, SidecarBehind,
                         Transferring, Leading, Running, disk, command
  <1>7. CASE Start \/ Kill \/ LosePower
    <2>1. NoSidecar <= 0
      BY DEF NoSidecar
    <2>2. CASE Start
      BY <2>2 DEF Start, ClosedCheckpoint
    <2>3. CASE Kill \/ LosePower
      BY <2>3 DEF Kill, LosePower, Forget
    <2>4. QED
      BY <1>7, <2>2, <2>3
  <1>8. CASE Connect \/ RemoteFails \/ SkipVerifyLocal \/ VerifyLocal \/ OpenRemote
    BY <1>8 DEF Connect, RemoteFails, SkipVerifyLocal, VerifyLocal, OpenRemote
  <1>9. CASE OpenCheckpoint
    <2>1. ckpt'.saved = Trusted /\ completed' = Trusted
      BY <1>9 DEF OpenCheckpoint
    <2>2. sidecar' > 0 => sidecar' = sidecar /\ ghosts' = ghosts
      BY <1>9 DEF OpenCheckpoint, NoSidecar
    <2>3. pc' = "openSync" \/ (pc' = "opened" /\ Trusted = sidecar /\ sidecar' = sidecar)
      BY <1>9 DEF OpenCheckpoint, Compatible
    <2>4. QED
      BY <2>1, <2>2, <2>3
  <1>10. CASE SyncExisting
    BY <1>5, <1>6, <1>10 DEF SyncExisting
  <1>11. CASE SaveOpened
    BY <1>4, <1>11 DEF SaveOpened
  <1>12. CASE SaveRestart
    <2>1. completed = 0
      BY <1>2, <1>12 DEF SaveRestart, IInv, DurableInv, RestartAtZero
    <2>2. QED
      BY <1>4, <1>12, <2>1 DEF SaveRestart
  <1>13. CASE HeadHalted \/ HeadComplete \/ HeadRead \/ Register \/ ReadNotified
    BY <1>13 DEF HeadHalted, HeadComplete, HeadRead, Register, ReadNotified
  <1>14. CASE WriteOk
    BY <1>14 DEF WriteOk, NeedsUpdate
  <1>15. CASE WriteFails
    BY <1>15 DEF WriteFails
  <1>16. CASE SyncChunk
    BY <1>5, <1>6, <1>16 DEF SyncChunk
  <1>17. CASE SaveChunk
    BY <1>4, <1>17 DEF SaveChunk
  <1>18. CASE FinalizePartial \/ Finalize
    BY <1>5, <1>6, <1>18 DEF FinalizePartial, Finalize, FinalizeOk, FinalizeFails
  <1>19. CASE Flush
    BY <1>4, <1>19 DEF Flush
  <1>20. CASE Verify \/ Fail \/ WaitHalted
    BY <1>20 DEF Verify, Fail, WaitHalted
  <1>21. CASE PrepareRetry
    BY <1>21 DEF PrepareRetry
  <1>22. CASE Shutdown
    BY <1>4, <1>22 DEF Shutdown
  <1>23. CASE Complete
    BY <1>23 DEF Complete, NoSidecar
  <1>24. CASE ServerAnswers
    BY <1>24 DEF ServerAnswers, ReadData, ReadFails
  <1>25. CASE Requests
    BY <1>25, Zenon DEF Requests, RequestHalt, RequestResume, RequestSave
  <1>26. QED
    BY <1>7, <1>8, <1>9, <1>10, <1>11, <1>12, <1>13, <1>14, <1>15, <1>16, <1>17, <1>18,
       <1>19, <1>20, <1>21, <1>22, <1>23, <1>24, <1>25
    DEF Next, CommandSteps, OpenSteps, LoopSteps, EndSteps

\* The invariant of the record holds at the start, and every step keeps it.
LEMMA RecordInit == Init => RecordInv
  BY DEF Init, RecordInv, Running, SavedIsRecorded, NotAhead, NothingBehind,
     Transferring, NoSidecar

LEMMA RecordKept == IInv /\ RecordInv /\ [Next]_vars => RecordInv'
  <1> SUFFICES ASSUME IInv, RecordInv, [Next]_vars PROVE RecordInv'
    OBVIOUS
  <1>1. CASE Next
    BY <1>1, AttemptStep, RecordStep DEF RecordInv, IInv
  <1>2. CASE UNCHANGED vars
    BY <1>2 DEF vars, disk, command, group, world, RecordInv, Running, SavedIsRecorded,
       NotAhead, NothingBehind, Transferring
  <1>3. QED
    BY <1>1, <1>2

\* While nothing fails, what a crash costs is less than the save interval
\* (NeedsUpdate against what was saved last, work_commit.rs).
THEOREM LossIsBounded == Spec => []BoundedLoss
  <1>1. IInv /\ RecordInv => BoundedLoss
    <2> SUFFICES ASSUME IInv, RecordInv, failures = {},
                        pc \in {"loop", "register", "read", "write"}
                 PROVE  completed - Greater(sidecar, 0) < SaveInterval
      BY DEF BoundedLoss
    <2>1. sidecar \in Int /\ completed \in Nat /\ SaveInterval \in Nat
      BY TypeParts, DownloadAssumption
      DEF IInv, TypeInv, DiskTypes, CommandTypes, NoSidecar
    <2>2. completed - sidecar < SaveInterval
      BY DEF RecordInv, SavedIsRecorded, Transferring
    <2>3. QED
      BY <2>1, <2>2 DEF Greater
  <1>2. QED
    BY <1>1, InvInit, InvStep, RecordInit, RecordKept, PTL DEF Spec

\* A record that is taken back is one of the three exceptions.
LEMMA ForgottenBy ==
    ASSUME IInv, RecordInv, Next, failures' = {}, sidecar > 0, sidecar' < sidecar
    PROVE  (pc = "shutdown" /\ attempt > 1) \/ pc \in {"restart", "complete"}
  <1>1. sidecar \in Int /\ completed \in Nat /\ attempt \in Nat /\ ckpt \in CkptType
    BY TypeParts, DownloadAssumption
    DEF IInv, TypeInv, DiskTypes, CommandTypes, NoSidecar
  <1>2. failures = {} /\ Reliable
    <2>1. failures \subseteq failures'
      BY FailuresGrow DEF IInv
    <2>2. QED
      BY <2>1 DEF Reliable
  <1>3. NotAhead /\ ghosts = {} /\ (pc \in Leading => sidecar <= completed)
    BY <1>2 DEF RecordInv, NothingBehind, IInv, DurableInv, SidecarBehind
  <1>4. sidecar' # sidecar
    BY <1>1
  <1>5. ASSUME NEW c \in Int, Save(c) PROVE c < sidecar
    <2>1. sidecar' = c
      BY <1>1, <1>5, SavedUnfailing
    <2>2. QED
      BY <2>1
  <1>6. ~SyncOk /\ ~SyncFails
    BY <1>4 DEF SyncOk, SyncFails
  <1> USE <1>1, <1>3, <1>4 DEF disk
  <1>7. CASE OpenCheckpoint
    <2>1. ~file.exists
      BY <1>7 DEF OpenCheckpoint
    <2>2. file.named
      BY <1>2 DEF IInv, DurableInv, ClaimsCovered, Covered, CoveredBy
    <2>3. QED
      BY <2>1, <2>2 DEF IInv, FileShape
  <1>8. CASE SaveOpened \/ SaveChunk
    BY <1>5, <1>8 DEF SaveOpened, SaveChunk, Leading
  <1>9. CASE Flush \/ Shutdown
    BY <1>5, <1>9 DEF Flush, Shutdown, NotAhead
  <1>10. CASE SaveRestart \/ Complete
    BY <1>10 DEF SaveRestart, Complete
  <1>11. CASE OpenSteps
    BY <1>6, <1>7, <1>8, <1>10, <1>11 DEF OpenSteps, Connect, RemoteFails, SyncExisting,
       SkipVerifyLocal, VerifyLocal, OpenRemote
  <1>12. CASE LoopSteps
    BY <1>6, <1>8, <1>12 DEF LoopSteps, HeadHalted, HeadComplete, HeadRead, Register,
       ReadNotified, WriteOk, WriteFails, SyncChunk
  <1>13. CASE EndSteps
    BY <1>6, <1>9, <1>10, <1>13 DEF EndSteps, FinalizePartial, FinalizeOk, FinalizeFails,
       Finalize, Verify, Fail, WaitHalted, PrepareRetry
  <1>14. CASE ServerAnswers \/ Requests \/ Start \/ Kill \/ LosePower
    BY <1>14 DEF ServerAnswers, ReadData, ReadFails, Requests, RequestHalt,
       RequestResume, RequestSave, Start, Kill, LosePower
  <1>15. QED
    BY <1>11, <1>12, <1>13, <1>14 DEF Next, CommandSteps

\* While nothing fails, recorded progress is taken back only by the last flush
\* of a command that had reset it for a retry (prepare_retry, Command::shutdown),
\* by the restart after a mismatch, and at the end.
THEOREM RecordIsKept == Spec => OnlyRetryForgets
  <1>1. IInv /\ RecordInv /\ [Next]_vars =>
            [sidecar' < sidecar /\ sidecar > 0 /\ failures' = {}
             => \/ pc = "shutdown" /\ attempt > 1
                \/ pc \in {"restart", "complete"}]_vars
    BY ForgottenBy
  <1>2. QED
    BY <1>1, InvInit, InvStep, RecordInit, RecordKept, PTL DEF Spec, OnlyRetryForgets
=============================================================================
