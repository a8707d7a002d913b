---------------------------- MODULE RequestGroup ----------------------------
(***************************************************************************)
(* One download: the part of RequestGroup (aria2-core/src/request/         *)
(* request_group/) that its life cycle depends on, as a record, and the    *)
(* transitions of that record.  Status, control flags and halt reason are  *)
(* separate fields because separate actors write them: clients set the     *)
(* flags, the download task reads them, the engine settles the status when *)
(* the task has ended.  The force variants of halt and pause differ only   *)
(* in how fast a task obeys and are not distinguished.                     *)
(***************************************************************************)
EXTENDS Naturals

Statuses == {"Waiting", "Active", "Paused", "Complete", "Error", "Removed"}
HaltReasons == {"None", "ShutdownSignal", "UserRequest", "Timeout"}
TaskResults == {"Success", "Failed", "FailedPaused", "Cancelled"}
ResultCodes == {"Finished", "Removed", "InProgress", "Error"}   \* every failure code is Error

GroupRecord ==
    [status     : Statuses,
     halt       : BOOLEAN,      \* halt_requested
     pause      : BOOLEAN,      \* pause_requested
     restart    : BOOLEAN,      \* restart_requested
     reason     : HaltReasons,
     failure    : BOOLEAN,      \* command_failure
     commands   : Nat,          \* num_commands
     resolved   : BOOLEAN,      \* is_dependency_resolved()
     pending    : BOOLEAN]      \* options wait for the next command

NewGroup(resolved) ==
    [status |-> "Waiting", halt |-> FALSE, pause |-> FALSE, restart |-> FALSE,
     reason |-> "None", failure |-> FALSE, commands |-> 0,
     resolved |-> resolved, pending |-> FALSE]

IsTerminal(g) == g.status \in {"Complete", "Error", "Removed"}
IsPausable(g) == g.status \in {"Active", "Waiting"}

-----------------------------------------------------------------------------
\* The transitions clients ask for.
Start(g) == [g EXCEPT !.status = "Active"]

Pause(g) ==
    IF IsPausable(g) THEN [g EXCEPT !.status = "Paused", !.halt = TRUE, !.pause = TRUE]
    ELSE g

Resume(g) ==
    IF g.status = "Paused"
    THEN [g EXCEPT !.status = "Waiting", !.failure = FALSE, !.pause = FALSE,
                   !.halt = FALSE, !.restart = FALSE]
    ELSE g

\* A halt withdraws a pause that was asked for earlier.
RequestHalt(g, reason) ==
    [g EXCEPT !.halt = TRUE, !.pause = FALSE, !.reason = reason]
RequestRestart(g) == [g EXCEPT !.restart = TRUE]
SetPendingOptions(g) == [g EXCEPT !.pending = TRUE]
ApplyPendingOptions(g) == [g EXCEPT !.pending = FALSE]
TimeOut(g) == RequestHalt(g, "Timeout")

-----------------------------------------------------------------------------
\* The transitions of the engine and of the task.
MarkRemoved(g) == [g EXCEPT !.status = "Removed", !.reason = "UserRequest"]   \* and remove
MarkComplete(g) == [g EXCEPT !.status = "Complete"]
MarkError(g) == [g EXCEPT !.status = "Error"]      \* mark_timeout and both mark_error
MarkPaused(g) == [g EXCEPT !.status = "Paused"]
MarkWaiting(g) == [g EXCEPT !.status = "Waiting"]
RecordFailure(g) == [g EXCEPT !.failure = TRUE]

IncCommands(g) == [g EXCEPT !.commands = @ + 1]
DecCommands(g) == [g EXCEPT !.commands = IF @ > 0 THEN @ - 1 ELSE 0]

WasPauseRequested(g) == g.pause \/ g.status = "Paused"

\* The halt reason decides how a finished command settles its group; other is
\* the outcome when nobody asked for a halt.
SettleBy(g, other) ==
    CASE g.reason = "UserRequest"    -> MarkRemoved(g)
      [] g.reason = "Timeout"        -> MarkError(g)
      [] g.reason = "ShutdownSignal" -> g
      [] g.reason = "None"           -> other

SettleSuccess(g) ==
    IF g.failure THEN MarkError(g)
    ELSE SettleBy(g, IF WasPauseRequested(g) THEN MarkPaused(g) ELSE MarkComplete(g))

\* A pause that was undone before the task ended leaves the group waiting.
SettleFailure(g, result) ==
    LET settled ==
          SettleBy(g, IF WasPauseRequested(g) THEN MarkPaused(g)
                      ELSE IF result # "FailedPaused" THEN MarkError(g)
                      ELSE IF IsTerminal(g) THEN g ELSE MarkWaiting(g))
    IN  [settled EXCEPT !.failure = FALSE]

SettleCancelled(g, last) ==
    IF g.reason \in {"UserRequest", "Timeout"}
    THEN IF last THEN SettleBy(g, g) ELSE RecordFailure(g)
    ELSE IF WasPauseRequested(g) THEN MarkPaused(g)
    ELSE IF last THEN g ELSE RecordFailure(g)

\* apply_completion_state: only the last command of a group settles it.
ApplyCompletion(g, result, last) ==
    CASE result = "Cancelled" -> SettleCancelled(g, last)
      [] result = "Success"   -> IF last THEN SettleSuccess(g) ELSE g
      [] result \in {"Failed", "FailedPaused"} ->
            IF last THEN SettleFailure(g, result)
            ELSE RecordFailure(g)

\* create_download_result: what the stopped list remembers.  An error code a
\* task recorded before its last attempt is not modelled.
ResultCodeOfStatus(g) == IF g.status = "Complete" THEN "Finished" ELSE g.status  \* mutant
ResultCode(g) ==
    CASE g.status = "Complete" -> "Finished"
      [] g.status = "Removed"  -> "Removed"
      [] g.status \in {"Paused", "Error"} -> "Error"
      [] IsPausable(g) -> CASE g.reason = "UserRequest" -> "Removed"
                            [] g.reason = "Timeout"     -> "Error"
                            [] OTHER                    -> "InProgress"

DownloadResult(g) == [status |-> g.status, code |-> ResultCode(g)]
ResultRecord == [status : Statuses, code : ResultCodes]
=============================================================================
