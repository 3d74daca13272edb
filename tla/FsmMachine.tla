----------------------------- MODULE FsmMachine -----------------------------
(***************************************************************************)
(* The state machine of Fsm fed with every input in every order, as        *)
(* Fsm::on_input may be: the contract the driver relies on, with no        *)
(* assumption about which inputs the driver really feeds it.               *)
(*                                                                         *)
(* fsm      the machine                                                    *)
(* effects  what the last transition asked the driver to do                *)
(* told     the events surfaced so far (history)                           *)
(* errors   how many of them were an Error (history)                       *)
(* finished whether the end of audio has been queued (history)             *)
(* ended    the input that ended the session, NotEnded until then          *)
(*          (history)                                                      *)
(***************************************************************************)
EXTENDS Fsm, Functions, FiniteSets

VARIABLES fsm, effects, told, errors, finished, ended
vars == <<fsm, effects, told, errors, finished, ended>>

\* The kinds of Input.
Inputs == {"Audio", "EndOfAudio", "Abort", "CaptureFailed", "CaptureLost",
           "Backend", "BackendClosed", "Stalled"}
NotEnded == "not_ended"

Init == /\ fsm = NewFsm
        /\ effects = [queue |-> <<>>, abort |-> FALSE, emit |-> <<>>]
        /\ told = {}
        /\ errors = 0
        /\ finished = FALSE
        /\ ended = NotEnded

\* on_input: one transition, whatever the input was.
Step(input, result) ==
  /\ fsm' = result.fsm
  /\ effects' = [queue |-> result.queue, abort |-> result.abort,
                 emit |-> result.emit]
  /\ told' = told \cup Range(result.emit)
  /\ errors' = errors + Cardinality(ErrorsAt(result.emit))
  /\ finished' = (finished \/ result.queue = <<End>>)
  /\ ended' = IF ~is_terminal(fsm.session) /\ is_terminal(result.fsm.session)
              THEN input ELSE ended

\* One chunk is enough here: the machine never looks at a chunk's contents.
Audio == Step("Audio", on_audio(fsm, 1))
EndOfAudio == Step("EndOfAudio", on_end_of_audio(fsm))
Abort == Step("Abort", on_abort(fsm))
CaptureFailed == Step("CaptureFailed", on_capture_failed(fsm))
CaptureLost == Step("CaptureLost", on_capture_lost(fsm))
Backend(event) == Step("Backend", on_backend(fsm, event))
BackendClosed == Step("BackendClosed", on_backend_closed(fsm))
Stalled == Step("Stalled", on_stalled(fsm))

Next == \/ Audio \/ EndOfAudio \/ Abort \/ CaptureFailed \/ CaptureLost
        \/ \E event \in TranscriptionEvents : Backend(event)
        \/ BackendClosed \/ Stalled

Spec == Init /\ [][Next]_vars

-----------------------------------------------------------------------------
\* Types; a transition queues at most one item, which is what lets the driver
\* hold it in one slot.
TypeOK == /\ fsm \in FsmStates
          /\ effects.queue \in {<<>>, <<1>>, <<End>>}
          /\ effects.abort \in BOOLEAN
          /\ told \in SUBSET OrchestratorEvents
          /\ errors \in Nat
          /\ finished \in BOOLEAN
          /\ ended \in Inputs \cup {NotEnded}

\* A capture fault the user was told of (CaptureLost: the utterance is being
\* salvaged) is never forgotten: unless the client aborts, the session ends
\* failed and its failure names the device, whichever of done, error, a closed
\* connection, a stall or a second capture failure came first.
FaultNeverForgotten ==
  "CaptureLost" \in told =>
     \/ fsm.session \in {"active", "finalizing"} /\ fsm.lost
     \/ fsm.session = "failed" /\ fsm.device
     \/ fsm.session = "aborted"

\* The end of audio is the last thing queued for the transport, once: after
\* it neither a chunk nor a second finish is ever handed over.
NothingAfterFinish == [][finished => effects'.queue = <<>>]_vars

\* A terminal session is final: later inputs change nothing, abort nothing
\* and surface nothing but dropped audio.
TerminalIsFinal ==
  [][is_terminal(fsm.session) =>
       /\ fsm' = fsm
       /\ effects'.queue = <<>> /\ ~effects'.abort
       /\ effects'.emit \in {<<>>, <<"AudioDropped">>}]_vars

\* The gate opens at most once and only the session closes it: audio already
\* flowing is never cut off by a backend that reports a reload.
GateStaysOpen ==
  [][accepts_audio(fsm) /\ ~accepts_audio(fsm') => fsm'.session # "active"]_vars

\* The user is told of a failure exactly when there is one, and told once,
\* whatever arrives later: a failed session surfaced one Error and no other
\* session surfaced any, a salvaged Done whose held fault fails the session
\* included.  The one failure without an Error is a capture that failed with
\* nothing to salvage (the input CaptureFailed), which the outcome reports: it
\* is then a failed one that names the device.
ErrorMatchesFailure ==
  /\ errors = IF fsm.session = "failed" /\ ended # "CaptureFailed" THEN 1 ELSE 0
  /\ ended = "CaptureFailed" =>
       fsm.session = "failed" /\ fsm.code = "capture_failed" /\ fsm.device
=============================================================================
