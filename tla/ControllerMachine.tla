-------------------------- MODULE ControllerMachine --------------------------
(***************************************************************************)
(* The controller with its fairness, and what it guarantees the user.      *)
(***************************************************************************)
EXTENDS Controller

\* The controller's task is scheduled, a lost lease is signalled, and a
\* session that was told to stop returns (AlwaysReturns of SessionMachine).
\* Nothing is assumed of the user.
Fairness ==
  /\ WF_vars(Acquire \/ abort_before_capture)
  /\ WF_vars(FocusOut \/ TargetGone)
  /\ WF_vars(TakeResult \/ route_event \/ EventsClose \/ Finish)
  /\ WF_vars(SignalLoss)
  /\ SF_vars(u.stop /\ (SessionDone \/ SessionFails))

Spec == Init /\ [][Next]_vars /\ Fairness

-----------------------------------------------------------------------------
\* Types, with the bound of the event queue; outside its steps the controller is
\* never in a state it only passes through.
TypeOK ==
  /\ TriggerTypeOK
  /\ state \in DictationStates \ {"Completed", "Cancelled", "Error"}
  /\ indicator \in {"hidden", "recording", "finalizing", "no_speech", "focus_lost",
                    "degraded", "restart", "critical"}
  /\ fsm \in FsmStates /\ Len(queue) <= QueueCap
  /\ result \in {Pending, "completed", "failed", "handshake_error", "restart"}
  /\ u.ending \in Endings /\ finals \in 0..MaxFinals /\ produced \in 0..MaxFinals
  /\ lease \in {"none", "held", "away", "lost", "gone"} /\ loss \in {"held", "lost", "gone"}

\* The state model is a contract: no order of edges, focus losses, events and
\* results makes advance panic.
NoIllegalTransition == ~panicked

Increasing(s) == \A i, j \in DOMAIN s : i < j => s[i] < s[j]

\* Text lands in the order it was dictated and never twice, and an indicator
\* that is hidden after an utterance means the target accepted all of it: what
\* is not in the field is a tail it held while focus was away, dropped with the
\* loss as Target::commit says.  The controller cannot tell: its Delivery is
\* Landed or FocusLost then, and both hide the indicator.
HiddenMeansAccepted ==
  /\ Increasing(field \o held \o u.pending)
  /\ state = "Idle" /\ indicator = "hidden" /\ ~misfire
       => field \o held = [i \in 1..produced |-> i]

\* After an utterance the next poke of a toggle starts a new one, unless the
\* utterance completed by itself.
ParityRestored == state = "Idle" /\ pressed => orphan

\* A poke that arrives while an utterance winds up never starts the next one.
NoGhostStart ==
  [][state # "Idle" /\ state' = "Idle" /\ state # "Starting" => Waiting' = <<>> /\ ~candidate']_vars

\* The indicator never goes back from finishing to listening in an utterance.
NeverListensAgain ==
  [][Looping /\ indicator = "finalizing" => indicator' # "recording"]_vars

\* Whatever ends an utterance, the controller is back where the next poke
\* starts one, having made no illegal transition on the way.
ReadyAgain == TypeOK /\ NoIllegalTransition /\ ParityRestored

\* Nothing stale takes effect: no poke of an utterance that winds up, and no
\* ping of a session that was told to finish.
NothingStale == NoGhostStart /\ NeverListensAgain

\* A stopped utterance ends, whatever queue of events is left to drain.
StoppedEnds == (Looping /\ u.stop) ~> (state = "Idle")

\* Losing the field stops capture, even when it is a refused commit that
\* finds out first.
LossStops == (Looping /\ lease \in {"lost", "gone"}) ~> (u.stop \/ state = "Idle")

-----------------------------------------------------------------------------
\* What the comments say and the code does not do.

\* ControlTrigger::discard_pending: "so the next real tap still delivers
\* `Press`".
NextTapIsPress == state = "Idle" => IsPress

\* C11: the completion agrees with what Done showed, "No speech detected" vs.
\* "Focus lost" included.
CompletionAgrees ==
  state = "Idle" /\ u.done = "completed" => u.shown \in {"none", indicator}
=============================================================================
