-------------------------------- MODULE Apply --------------------------------
(***************************************************************************)
(* One setting of a model applied from its page, command by command        *)
(* (client/myna-config: backend_apply.rs, apply_plan.rs, command.rs, the   *)
(* pkexec side of adapters/system_configurator.rs, adapters/snap_backend.rs*)
(* and the reports of backend_ui.rs).  Settings has the apply as one of    *)
(* the operations behind the gate; here is what happens inside it.         *)
(*                                                                         *)
(* The plan runs as root in a process of its own under pkexec, which only  *)
(* the prompt's owner may kill, and only until the user has authorized it. *)
(* A page that vanishes meanwhile cancels its apply.  The machine          *)
(* (modelctl, snapd, the model's service) is external.                     *)
(***************************************************************************)
EXTENDS Naturals, Sequences

CONSTANTS Attempts,   \* READINESS_ATTEMPTS
          MaxVanish   \* bound: times the page vanishes

VARIABLES
  chg,  \* the change: a setting, the model, the engine, or the engine as "auto"
  sys,  \* the value stored, the components there are, the service and what it runs with
  exe,  \* pkexec and its executor: where it is, operations done, its report, reaped
  tok,  \* the CancellationToken, whether run_process still obeys it, and the bound
  app   \* execute_backend_apply: where it is, attempts, the status read, why, the verdict

applyVars == <<chg, sys, exe, tok, app>>

Selects == chg # "setting"

\* The values that prove the change: "auto" is any engine that fits the machine,
\* and "other" is none that does.
Wanted == IF chg = "auto" THEN {"old", "new"} ELSE {"new"}

\* ApplyPreview::new: the change, the restart, and the components it no longer
\* needs removed once the server has let go of them.
Plan ==
  <<CASE chg = "setting" -> "set"
      [] chg = "model" -> "use-model"
      [] OTHER -> "use-engine",
    "restart">> \o (IF Selects THEN <<"prune-cache">> ELSE <<>>)

\* A change of a page's row, behind the gate; its future has not run yet.
ApplyInit ==
  /\ chg \in {"setting", "model", "engine", "auto"}
  /\ sys = [stored |-> "old", parts |-> {"old"}, unit |-> "active", loaded |-> "old"]
  /\ exe = [at |-> "none", ran |-> 0, out |-> "none", reaped |-> FALSE]
  /\ tok = [cancelled |-> FALSE, stoppable |-> TRUE, vanished |-> 0]
  /\ app = [at |-> "start", attempt |-> 0, status |-> "none", why |-> "none", verdict |-> "none"]

-----------------------------------------------------------------------------
\* The executor, as root.

\* The polkit prompt: authorized, dismissed (126), refused (127), or pkexec would
\* not start for the environment it was given (127, too).
Prompted ==
  /\ exe.at = "prompt"
  /\ \/ exe' = [exe EXCEPT !.at = "root"]
     \/ \E out \in {"dismissed", "denied", "environment"} :
           exe' = [exe EXCEPT !.at = "exited", !.out = out]
  /\ UNCHANGED <<chg, sys, tok, app>>

\* What an operation does to the machine.  modelctl may keep another value than
\* the one it was given.
operation(op) ==
  CASE op \in {"set", "use-model", "use-engine"} ->
         \E v \in Wanted \cup {"other"} :
            sys' = [sys EXCEPT !.stored = v, !.parts = IF Selects THEN @ \cup {v} ELSE @]
    [] op = "restart" ->
         \E unit \in {"starting", "active"} :
            sys' = [sys EXCEPT !.unit = unit, !.loaded = sys.stored]
    [] op = "prune-cache" -> sys' = [sys EXCEPT !.parts = {sys.stored}]

\* One that fails leaves the machine as it was, but for a service that may be down.
Fails(op) ==
  \/ UNCHANGED sys
  \/ op = "restart" /\ \E unit \in {"inactive", "failed"} : sys' = [sys EXCEPT !.unit = unit]

\* run_plan: in order, up to the first that fails; then the results are printed.
\* The executor may also die, or print what cannot be read.
run_plan ==
  /\ exe.at = "root"
  /\ LET op == Plan[exe.ran + 1] IN
     \/ /\ operation(op)
        /\ exe' = IF exe.ran + 1 = Len(Plan)
                  THEN [exe EXCEPT !.ran = @ + 1, !.at = "exited", !.out = "done"]
                  ELSE [exe EXCEPT !.ran = @ + 1]
     \/ /\ Fails(op)
        /\ exe' = [exe EXCEPT !.at = "exited", !.out = "failed"]
     \/ /\ UNCHANGED sys
        /\ exe' = [exe EXCEPT !.at = "exited", !.out = "unreadable"]
  /\ UNCHANGED <<chg, tok, app>>

\* GLib's worker thread reaps the process, and it has no identifier any more.
Reaped ==
  /\ exe.at = "exited" /\ ~exe.reaped
  /\ exe' = [exe EXCEPT !.reaped = TRUE]
  /\ UNCHANGED <<chg, sys, tok, app>>

UnitSettles ==
  /\ sys.unit = "starting"
  /\ \E unit \in {"active", "failed"} : sys' = [sys EXCEPT !.unit = unit]
  /\ UNCHANGED <<chg, exe, tok, app>>

\* cancel_apply_state: the model is gone from a discovery, and its page with it.
Vanish ==
  /\ tok.vanished < MaxVanish /\ app.at # "over"
  /\ tok' = [tok EXCEPT !.cancelled = TRUE, !.vanished = @ + 1]
  /\ UNCHANGED <<chg, sys, exe, app>>

-----------------------------------------------------------------------------
\* The application.

Over(verdict) == app' = [app EXCEPT !.at = "over", !.verdict = verdict]

\* map_system_error, of a failure with nothing completed.
map_system_error(error) == IF error = "Cancelled" THEN "CancelledExecution" ELSE error

map_command_error(error) == IF error = "Cancelled" THEN "Cancelled" ELSE "Execution"

\* run_process: pkexec is started unless the token is cancelled already, or cannot be.
Start ==
  /\ app.at = "start"
  /\ \/ /\ tok.cancelled
        /\ Over(map_system_error(map_command_error("Cancelled")))
        /\ UNCHANGED exe
     \/ /\ ~tok.cancelled
        /\ app' = [app EXCEPT !.at = "wait"]
        /\ exe' = [exe EXCEPT !.at = "prompt"]
     \/ /\ ~tok.cancelled
        /\ Over(map_system_error(map_command_error("Spawn")))
        /\ UNCHANGED exe
  /\ UNCHANGED <<chg, sys, tok>>

\* kill_process: EPERM once root has it, a process not reaped yet included.
Refused == exe.at = "root" \/ (exe.at = "exited" /\ ~exe.reaped /\ exe.out \notin
                                 {"dismissed", "denied", "environment"})

\* run_process finds its token cancelled: pkexec is killed, or refuses, and the
\* cancellation is withdrawn for good.
PollCancelled ==
  /\ app.at = "wait" /\ tok.stoppable /\ tok.cancelled
  /\ IF Refused
     THEN tok' = [tok EXCEPT !.cancelled = FALSE, !.stoppable = FALSE] /\ UNCHANGED <<exe, app>>
     ELSE /\ Over(map_system_error(map_command_error("Cancelled")))
          /\ exe' = IF exe.at = "prompt" THEN [exe EXCEPT !.at = "killed"] ELSE exe
          /\ UNCHANGED tok
  /\ UNCHANGED <<chg, sys>>

\* A set that fails has rejected the values.
map_operation_failure(op) == IF op = "set" THEN "ValuesRejected" ELSE "Execution"

\* execute_plan's reading of how pkexec ended: the operations that are done, and
\* the error.
Answer ==
  CASE exe.out = "done" -> [commands |-> exe.ran, error |-> "none"]
    [] exe.out = "dismissed" -> [commands |-> 0, error |-> "Cancelled"]
    [] exe.out = "denied" -> [commands |-> 0, error |-> "AuthorizationDenied"]
    [] exe.out \in {"environment", "unreadable"} -> [commands |-> 0, error |-> "Execution"]
    [] exe.out = "failed" ->
         [commands |-> exe.ran, error |-> map_operation_failure(Plan[exe.ran + 1])]

\* execute_backend_apply from the executor's answer to its first read.
Completed ==
  /\ app.at = "wait" /\ exe.at = "exited" /\ exe.reaped
  /\ ~(tok.stoppable /\ tok.cancelled)
  /\ LET a == Answer IN
     IF a.error # "none" /\ a.commands = 0 THEN Over(map_system_error(a.error))
     ELSE IF a.error # "none" THEN app' = [app EXCEPT !.at = "partial", !.why = a.error]
     ELSE IF tok.cancelled THEN app' = [app EXCEPT !.at = "partial", !.why = "Cancelled"]
     ELSE app' = [app EXCEPT !.at = "status"]
  /\ UNCHANGED <<chg, sys, exe, tok>>

\* The snapshot that goes with a partial execution, whatever it could read.
ReadPartial ==
  /\ app.at = "partial"
  /\ Over("PartialExecution")
  /\ UNCHANGED <<chg, sys, exe, tok>>

\* What the model's own command says of its service and of the value, or nothing.
modelctl_status == {sys.unit, "unread"}
modelctl_data == {sys.stored, "unread"}

\* read_snapshot finds that command and asks it for the status, or does not; then
\* for the rest.
ReadStatus ==
  /\ app.at = "status"
  /\ \E status \in modelctl_status : app' = [app EXCEPT !.at = "data", !.status = status]
  /\ UNCHANGED <<chg, sys, exe, tok>>

\* Another attempt, unless it was the last.
Again(verdict) ==
  IF app.attempt + 1 >= Attempts THEN Over(verdict)
  ELSE app' = [app EXCEPT !.at = "status", !.attempt = @ + 1]

readiness_failure(status) == status # "active"
readiness_failure_is_terminal(status) == status = "failed"

\* The rest of the snapshot, and the readiness loop's decision on it.
ReadData ==
  /\ app.at = "data"
  /\ \E value \in modelctl_data :
        IF tok.cancelled THEN Over("PartialExecution")
        ELSE IF readiness_failure_is_terminal(app.status) THEN Over("RestartReadiness")
        ELSE IF readiness_failure(app.status) THEN Again("RestartReadiness")
        ELSE IF value = "unread" THEN Again("ReadBackUnavailable")
        ELSE Over(IF value \in Wanted THEN "Success" ELSE "ReadBackMismatch")
  /\ UNCHANGED <<chg, sys, exe, tok>>

Runs == \/ Start \/ PollCancelled \/ Completed \/ ReadPartial \/ ReadStatus \/ ReadData

ApplyNext == Prompted \/ run_plan \/ Reaped \/ UnitSettles \/ Vanish \/ Runs

-----------------------------------------------------------------------------
\* apply_report: what the user is told of a verdict; nothing of a success or a
\* cancellation.
apply_report ==
  CASE app.verdict \in {"none", "Success", "CancelledExecution"} -> "nothing"
    [] app.verdict = "RestartReadiness" -> "saved, not started"
    [] app.verdict = "ReadBackUnavailable" -> "changed, not read"
    [] app.verdict = "ReadBackMismatch" -> "another value kept"
    [] app.verdict = "PartialExecution" -> "after it started"
    [] app.verdict = "AuthorizationDenied" -> "not allowed"
    [] app.verdict = "ValuesRejected" -> "rejected"
    [] app.verdict = "Execution" -> "not made"

TypeOK ==
  /\ chg \in {"setting", "model", "engine", "auto"}
  /\ sys.stored \in {"old", "new", "other"} /\ sys.loaded \in {"old", "new", "other"}
  /\ sys.parts \subseteq {"old", "new", "other"}
  /\ sys.unit \in {"active", "starting", "inactive", "failed"}
  /\ exe.at \in {"none", "prompt", "root", "exited", "killed"} /\ exe.ran \in 0 .. Len(Plan)
  /\ tok.vanished \in 0 .. MaxVanish
  /\ app.at \in {"start", "wait", "partial", "status", "data", "over"}
  /\ app.attempt \in 0 .. Attempts - 1

\* The components a running server was started with are not pruned under it: the
\* plan restarts it before it prunes, and stops when the restart fails.
PruneSafe ==
  Selects /\ sys.unit \in {"active", "starting"} => sys.loaded \in sys.parts

\* Once the apply is over, nothing of it goes on as root: a process that cannot be
\* killed is waited for (run_process).
NothingRunsOn == app.at = "over" => exe.at \notin {"prompt", "root"}

\* What the user is told is so.  Silence means that the model serves with the value
\* chosen, or that nothing was done; a change that is not allowed, rejected or not
\* made did nothing either; anything else is said of a change that was begun.  Two
\* ends tell less than was done: a report that cannot be read, and a cancellation
\* that finds the process reaped but its end not heard of yet, which is taken for a
\* kill.
ReportIsTrue ==
  LET done == exe.ran > 0
      lost == exe.out = "unreadable" \/ (exe.reaped /\ app.verdict = "CancelledExecution")
  IN app.at = "over" =>
       /\ app.verdict = "Success" =>
            sys.unit = "active" /\ sys.loaded = sys.stored /\ sys.stored \in Wanted
       /\ app.verdict = "CancelledExecution" => ~done \/ lost
       /\ apply_report \in {"not allowed", "rejected", "not made"} => ~done \/ lost
       /\ apply_report \in {"saved, not started", "changed, not read", "another value kept"} =>
            exe.ran = Len(Plan)
       /\ apply_report = "after it started" => done
=============================================================================
