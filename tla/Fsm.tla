-------------------------------- MODULE Fsm --------------------------------
(***************************************************************************)
(* The pure orchestrator state machine (client/myna-orchestrator/src/     *)
(* fsm.rs): two orthogonal regions, the session track and the residency   *)
(* track, and one transition function (state, input) -> (state, effects). *)
(*                                                                         *)
(* A state is a record                                                     *)
(*   session    the session track                                          *)
(*   residency  the model-residency track                                  *)
(*   lost       TRUE while a capture fault is held for the terminal        *)
(*              (the field capture_fault)                                  *)
(*   code       the failure code of a failed session, NoCode otherwise     *)
(*   device     whether that failure names the capture fault (headline or  *)
(*              detail; the wording is abstracted to this bit)             *)
(*                                                                         *)
(* The effects are the Vec<Action> the driver applies: at most one item    *)
(* for the transport slot, whether the backend session is aborted, and    *)
(* the events surfaced to the caller, in order.                            *)
(***************************************************************************)
EXTENDS Integers, Sequences

\* Audio chunks are numbered from 1 in capture order; End stands for the
\* end of audio: the input EndOfAudio and the outbound item Finish.
End == 0

SessionStates == {"active", "finalizing", "done", "failed", "aborted"}
is_terminal(session) == session \in {"done", "failed", "aborted"}

Residencies == {"unloaded", "loading", "resident"}
gate_open(residency) == residency = "resident"

NoCode == "none"
FailureCodes ==
  {"capture_failed", "connection_closed", "backend_unresponsive", "server_error"}

FsmStates == [session : SessionStates, residency : Residencies, lost : BOOLEAN,
              code : FailureCodes \cup {NoCode}, device : BOOLEAN]

\* The events surfaced to the caller.  Transcript text is abstracted away.
OrchestratorEvents ==
  {"Loading", "Ready", "Transcribing", "Snippet", "Final", "Unstable", "Done",
   "Error", "AudioDropped", "CaptureLost", "Warning"}

\* Where among its events a transition tells the user of a failure.
ErrorsAt(emit) == {i \in DOMAIN emit : emit[i] = "Error"}

\* Transcript events of the backend.  A progress event has a phase and may
\* carry a snippet and a warning; "other" is a phase this client does not know.
Phases == {"preparing", "ready", "transcribing", "other"}
Progress(phase, snippet, warning) ==
  [type |-> "progress", phase |-> phase, snippet |-> snippet, warning |-> warning]
TranscriptionEvents ==
  [type : {"progress"}, phase : Phases, snippet : BOOLEAN, warning : BOOLEAN]
    \cup [type : {"committed", "unstable", "done", "error"}]
is_terminal_event(event) == event.type \in {"done", "error"}

NewFsm == [session |-> "active", residency |-> "unloaded", lost |-> FALSE,
           code |-> NoCode, device |-> FALSE]

accepts_audio(f) == f.session = "active" /\ gate_open(f.residency)

(***************************************************************************)
(* Results of a transition.                                                *)
(***************************************************************************)
Result(f, queue, abort, emit) ==
  [fsm |-> f, queue |-> queue, abort |-> abort, emit |-> emit]
Quiet(f) == Result(f, <<>>, FALSE, <<>>)

\* Opens the accept-gate, emitting Ready once.
mark_resident(f) == [f EXCEPT !.residency = "resident"]
ReadyOnce(f) == IF f.residency # "resident" THEN <<"Ready">> ELSE <<>>

\* Ends the session with a failure the user is shown.
terminate(f, code, device, abort, emit) ==
  Result([f EXCEPT !.session = "failed", !.code = code, !.device = device,
                   !.lost = FALSE],
         <<>>, abort, emit \o <<"Error">>)

\* Fails the session, folding a held capture fault into the detail.
fail(f, code, abort) == terminate(f, code, f.lost, abort, <<>>)

(***************************************************************************)
(* One operator per input handler.                                         *)
(***************************************************************************)
on_audio(f, chunk) ==
  IF accepts_audio(f) THEN Result(f, <<chunk>>, FALSE, <<>>)
                      ELSE Result(f, <<>>, FALSE, <<"AudioDropped">>)

\* Mutant: a second end of audio finishes again.
on_end_of_audio_Again(f) ==
  IF ~is_terminal(f.session)
  THEN Result([f EXCEPT !.session = "finalizing"], <<End>>, FALSE, <<>>)
  ELSE Quiet(f)

on_end_of_audio(f) ==
  IF f.session = "active"
  THEN Result([f EXCEPT !.session = "finalizing"], <<End>>, FALSE, <<>>)
  ELSE Quiet(f)

on_abort(f) ==
  IF is_terminal(f.session) THEN Quiet(f)
  ELSE Result([f EXCEPT !.session = "aborted"], <<>>, TRUE, <<>>)

on_capture_failed(f) ==
  IF is_terminal(f.session) THEN Quiet(f)
  ELSE Result([f EXCEPT !.session = "failed", !.code = "capture_failed",
                        !.device = TRUE],
              <<>>, TRUE, <<>>)

on_capture_lost(f) ==
  IF is_terminal(f.session) \/ f.lost THEN Quiet(f)
  ELSE Result([f EXCEPT !.lost = TRUE], <<>>, FALSE, <<"CaptureLost">>)

\* Mutant: a backend that prepares again closes the gate.
on_progress_Reloads(f, event) ==
  IF event.phase = "preparing"
  THEN Result([f EXCEPT !.residency = "loading"], <<>>, FALSE, <<"Loading">>)
  ELSE Result(mark_resident(f), <<>>, FALSE, ReadyOnce(f))

on_progress(f, event) ==
  LET notes == (IF event.snippet THEN <<"Snippet">> ELSE <<>>)
                 \o (IF event.warning THEN <<"Warning">> ELSE <<>>)
  IN CASE event.phase = "preparing" /\ f.residency = "unloaded" ->
            Result([f EXCEPT !.residency = "loading"], <<>>, FALSE,
                   <<"Loading">> \o notes)
       [] event.phase = "ready" ->
            Result(mark_resident(f), <<>>, FALSE, ReadyOnce(f) \o notes)
       [] event.phase = "transcribing" ->
            Result(mark_resident(f), <<>>, FALSE,
                   ReadyOnce(f) \o <<"Transcribing">> \o notes)
       [] OTHER -> Result(f, <<>>, FALSE, notes)

\* Mutant: a finished transcript hides the capture fault.
on_done_Forgets(f) == Result([f EXCEPT !.session = "done"], <<>>, FALSE, <<"Done">>)

on_done(f) ==
  IF f.lost THEN terminate(f, "capture_failed", TRUE, FALSE, <<"Done">>)
  ELSE Result([f EXCEPT !.session = "done"], <<>>, FALSE, <<"Done">>)

on_backend(f, event) ==
  IF is_terminal(f.session) THEN Quiet(f)
  ELSE CASE event.type = "progress" -> on_progress(f, event)
         [] event.type = "committed" ->
              Result(mark_resident(f), <<>>, FALSE, ReadyOnce(f) \o <<"Final">>)
         [] event.type = "unstable" ->
              Result(mark_resident(f), <<>>, FALSE, ReadyOnce(f) \o <<"Unstable">>)
         [] event.type = "done" -> on_done(f)
         [] event.type = "error" -> fail(f, "server_error", FALSE)

\* Mutant: a connection that closes after the end is a failure.
on_backend_closed_Late(f) == fail(f, "connection_closed", FALSE)

on_backend_closed(f) ==
  IF is_terminal(f.session) THEN Quiet(f) ELSE fail(f, "connection_closed", FALSE)

\* Mutant: a deadline that fires late fails the session once more.
on_stalled_Late(f) == fail(f, "backend_unresponsive", TRUE)

on_stalled(f) ==
  IF is_terminal(f.session) THEN Quiet(f) ELSE fail(f, "backend_unresponsive", TRUE)

\* What the caller is told at the end; Pending while the session runs.
Pending == "pending"
outcome(f) ==
  CASE f.session = "done"    -> "completed"
    [] f.session = "failed"  -> "failed"
    [] f.session = "aborted" -> "aborted"
    [] OTHER                 -> Pending
=============================================================================
