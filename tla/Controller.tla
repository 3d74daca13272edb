----------------------------- MODULE Controller ------------------------------
(***************************************************************************)
(* The desktop controller (client/myna-desktop/src/controller.rs): the     *)
(* push-to-talk loop that turns hotkey edges into utterances, routes the   *)
(* session's events into the focused field, and ends each utterance for    *)
(* whichever reason comes first.  It composes the trigger (Trigger) with   *)
(* the session, which is the state machine of Fsm behind a queue, and the  *)
(* target field (client/myna-platform/src/text_input.rs), modelled from    *)
(* the contract of Target.                                                 *)
(*                                                                         *)
(* state      DictationState.  Starting, Completed, Cancelled and Error    *)
(*            are passed through within one step, so between steps it is   *)
(*            Idle or one of the three states of the select loop           *)
(* panicked   advance met an illegal transition                            *)
(* indicator  what the indicator shows                                     *)
(* u          the locals of run_one_utterance: trigger_open, focus_open,   *)
(*            stats_open, events_open, done, ending, stop, pending and     *)
(*            dropped (the CommitBuffer), fault, seen (the last loss read  *)
(*            off the focus stream), and shown, what the indicator showed  *)
(*            when Done was routed (history)                               *)
(* fsm        the session's state machine; result: what its run returned   *)
(* queue      the events it has emitted and the controller has not read    *)
(* finals     Final texts the controller has read; they are numbered so    *)
(* produced   Final texts the session has emitted                          *)
(* verdict    the finished transcript: "silent", "clean", or "degraded"    *)
(*            (text over a noisy input or with a backend warning)          *)
(* lease      the target: "none", "held", "away" (focus left and may be    *)
(*            coming back), "lost" or "gone"                               *)
(* loss       the last state of the lease its focus stream has yielded     *)
(* field      the texts inserted into the field by this utterance          *)
(* held       the texts the target answered Ok to while focus was away:    *)
(*            they land once it is back, and with a lost lease never do    *)
(*            (what is then left is kept as history)                       *)
(* misfire    a commit failed for a reason other than focus (history)      *)
(* orphan     the last utterance ended by itself, with the key's press     *)
(*            never answered by a release (history)                        *)
(***************************************************************************)
EXTENDS Trigger, Fsm

CONSTANTS QueueCap,   \* capacity of the event queue
          MaxFinals,  \* bound: Final texts of one utterance
          PokeGaps,   \* bound: the gaps between this user's pokes
          MaxNear     \* bound: Final texts of one utterance around pokes that come close
ASSUME ControllerAssumption ==
  /\ QueueCap \in Nat \ {0} /\ MaxFinals \in Nat /\ MaxNear \in Nat
  /\ PokeGaps \subseteq Gaps

VARIABLES state, panicked, indicator, u, fsm, result, queue, finals, produced,
          verdict, lease, loss, field, held, misfire, orphan

sessionVars == <<fsm, result, queue, produced, verdict>>
targetVars == <<lease, loss>>
textVars == <<finals, field, held, misfire>>
vars == <<triggerVars, state, panicked, indicator, u, sessionVars, targetVars,
          textVars, orphan>>

DictationStates == {"Idle", "Starting", "Recording", "Transcribing",
                    "Finalizing", "Completed", "Cancelled", "Error"}
Capturing == {"Recording", "Transcribing"}
Busy == state # "Idle"

can_transition(from, to) ==
  CASE from = "Idle" -> to = "Starting"
    [] from = "Starting" -> to \in {"Recording", "Cancelled", "Error", "Idle"}
    [] from = "Recording" -> to \in {"Transcribing", "Finalizing", "Cancelled", "Error"}
    [] from = "Transcribing" -> to \in {"Recording", "Finalizing", "Cancelled", "Error"}
    [] from = "Finalizing" -> to \in {"Completed", "Cancelled", "Error"}
    [] OTHER -> to = "Idle"

\* advance along a path of states; an illegal step panics.
Advance(path) ==
  /\ state' = path[Len(path)]
  /\ panicked' = (panicked \/ \E i \in DOMAIN path :
        ~can_transition(IF i = 1 THEN state ELSE path[i - 1], path[i]))
Stay == UNCHANGED <<state, panicked>>

\* enter_finalizing, with its indicator update.
enter_finalizing ==
  IF state \in Capturing
  THEN Advance(<<"Finalizing">>) /\ indicator' = "finalizing"
  ELSE Stay /\ UNCHANGED indicator

(***************************************************************************)
(* Ending.                                                                 *)
(***************************************************************************)
Endings == {"None", "FocusLost", "TargetGone"}
Or(a, b) == CASE "TargetGone" \in {a, b} -> "TargetGone"
              [] "FocusLost" \in {a, b} -> "FocusLost"
              [] OTHER -> "None"
writes_allowed(ending) == ending = "None"

completion_indicator_state(ending, dropped) ==
  CASE dropped -> "focus_lost"
    [] ~dropped /\ verdict = "silent" ->
         IF ending = "FocusLost" THEN "focus_lost" ELSE "no_speech"
    [] ~dropped /\ verdict = "degraded" -> "degraded"
    [] OTHER -> "hidden"

(***************************************************************************)
(* Target::commit: its answer, what it puts into the field, and what it    *)
(* holds from then on.  With focus on the field, what was held goes first, *)
(* and a write that fails ends there; with focus away the text is held; a  *)
(* commit that waits out an activation is the one made when focus is back. *)
(***************************************************************************)
Commit(answer, put, keep) == [answer |-> answer, put |-> put, keep |-> keep]

Commits(text) ==
  {Commit("failed", <<>>, held)}
  \cup CASE lease = "held" ->
              {Commit("ok", held \o text, <<>>)}
              \cup {Commit("failed", SubSeq(held, 1, n), <<>>) : n \in 0..Len(held)}
         [] lease = "away" -> {Commit("ok", <<>>, held \o text)}
         [] OTHER -> {Commit("FocusLost", <<>>, held)}

(***************************************************************************)
(* CommitBuffer::flush against the target's answer.                        *)
(***************************************************************************)

\* Mutant: text that may not be written is discarded without a record.
flush_Quiet(v, answer) ==
  CASE v.pending = <<>> -> v
    [] v.pending # <<>> /\ writes_allowed(v.ending) /\ answer = "FocusLost" ->
         [v EXCEPT !.pending = <<>>, !.dropped = TRUE, !.ending = "FocusLost"]
    [] OTHER -> [v EXCEPT !.pending = <<>>]

flush(v, answer) ==
  CASE v.pending = <<>> -> v
    [] v.pending # <<>> /\ ~writes_allowed(v.ending) ->
         [v EXCEPT !.pending = <<>>, !.dropped = TRUE]
    [] v.pending # <<>> /\ writes_allowed(v.ending) /\ answer = "FocusLost" ->
         [v EXCEPT !.pending = <<>>, !.dropped = TRUE, !.ending = "FocusLost"]
    [] OTHER -> [v EXCEPT !.pending = <<>>]

\* What the flush puts into the field and what is held after it, and whether
\* it failed for a reason other than focus.
Attempted(v) == v.pending # <<>> /\ writes_allowed(v.ending)
Put(v, commit) == IF Attempted(v) THEN commit.put ELSE <<>>
Kept(v, commit) == IF Attempted(v) THEN commit.keep ELSE held
Misfired(v, commit) == Attempted(v) /\ commit.answer = "failed"

NoUtterance ==
  [trigger_open |-> FALSE, focus_open |-> FALSE, stats_open |-> FALSE,
   events_open |-> FALSE, done |-> Pending, ending |-> "None", stop |-> FALSE,
   pending |-> <<>>, dropped |-> FALSE, fault |-> FALSE, seen |-> "held",
   shown |-> "none"]

Init ==
  /\ TriggerInit
  /\ state = "Idle" /\ panicked = FALSE /\ indicator = "hidden" /\ u = NoUtterance
  /\ fsm = NewFsm /\ result = Pending /\ queue = <<>> /\ produced = 0
  /\ verdict = "silent" /\ lease = "none" /\ loss = "held"
  /\ finals = 0 /\ field = <<>> /\ held = <<>> /\ misfire = FALSE /\ orphan = FALSE

(***************************************************************************)
(* run, at Idle, and the start of run_one_utterance.                       *)
(***************************************************************************)
Press ==
  /\ ~Busy /\ IsPress /\ EdgeRead
  /\ Advance(<<"Starting">>)
  /\ UNCHANGED <<indicator, u, sessionVars, targetVars, textVars, orphan>>

\* A stray release at Idle is ignored.
StrayRelease ==
  /\ ~Busy /\ ~IsPress /\ EdgeRead
  /\ orphan' = FALSE
  /\ UNCHANGED <<state, panicked, indicator, u, sessionVars, targetVars, textVars>>

\* The focused field is acquired and the session started.
Acquire ==
  /\ state = "Starting"
  /\ Advance(<<"Recording">>) /\ indicator' = "recording"
  /\ \E stats \in BOOLEAN :
       u' = [NoUtterance EXCEPT !.trigger_open = TRUE, !.focus_open = TRUE,
               !.stats_open = stats, !.events_open = TRUE]
  /\ fsm' = NewFsm /\ result' = Pending /\ queue' = <<>> /\ produced' = 0
  /\ verdict' = "silent" /\ lease' = "held" /\ loss' = "held"
  /\ finals' = 0 /\ field' = <<>> /\ held' = <<>> /\ misfire' = FALSE
  /\ UNCHANGED <<triggerVars, orphan>>

\* Secure, missing or unreachable target.
abort_before_capture ==
  /\ state = "Starting"
  /\ Advance(<<"Error", "Idle">>) /\ indicator' = "critical"
  /\ resync
  /\ UNCHANGED <<rx, arrivalVars, candidate, later, streaming, u, sessionVars,
                 targetVars, textVars, orphan>>

(***************************************************************************)
(* The arms of the select loop.  It is biased and focus comes first, so no *)
(* other arm is taken while the focus stream has something to yield.       *)
(***************************************************************************)
Looping == state \in Capturing \cup {"Finalizing"}
FocusReady == u.focus_open /\ loss # u.seen
OtherArm == Looping /\ ~FocusReady
NotDone == u.done = Pending

\* Mutant: the capture goes on after focus is lost.
FocusOut_KeepsRecording ==
  /\ Looping /\ FocusReady /\ loss = "lost"
  /\ u' = [u EXCEPT !.seen = "lost", !.ending = Or(@, "FocusLost")]
  /\ Stay /\ UNCHANGED <<triggerVars, indicator, sessionVars, targetVars, textVars, orphan>>

FocusOut ==
  /\ Looping /\ FocusReady /\ loss = "lost"
  /\ enter_finalizing
  /\ u' = [u EXCEPT !.seen = "lost", !.stop = TRUE, !.trigger_open = FALSE,
             !.ending = Or(@, "FocusLost")]
  /\ resync
  /\ UNCHANGED <<rx, arrivalVars, candidate, later, streaming, sessionVars,
                 targetVars, textVars, orphan>>

TargetGone ==
  /\ Looping /\ FocusReady /\ loss = "gone"
  /\ u' = [u EXCEPT !.seen = "gone", !.stop = TRUE, !.trigger_open = FALSE,
             !.ending = Or(@, "TargetGone")]
  /\ resync
  /\ Stay
  /\ UNCHANGED <<rx, arrivalVars, candidate, later, streaming, indicator,
                 sessionVars, targetVars, textVars, orphan>>

\* The stream ends with the target.
FocusStreamEnds ==
  /\ Looping /\ u.focus_open /\ u.seen = "gone"
  /\ u' = [u EXCEPT !.focus_open = FALSE]
  /\ UNCHANGED <<triggerVars, state, panicked, indicator, sessionVars, targetVars,
                 textVars, orphan>>

\* A trigger edge: a Release stops the capture, an extra Press is ignored.
LoopEdge ==
  /\ OtherArm /\ u.trigger_open /\ NotDone
  /\ EdgeRead
  /\ IF IsPress THEN Stay /\ UNCHANGED <<indicator, u>>
     ELSE /\ enter_finalizing
          /\ u' = [u EXCEPT !.stop = TRUE, !.trigger_open = FALSE]
  /\ UNCHANGED <<sessionVars, targetVars, textVars, orphan>>

\* Pokes that are no edges, read at Idle or in the loop.
FilterPokes ==
  /\ ~Busy \/ (OtherArm /\ u.trigger_open /\ NotDone)
  /\ NoEdgeYet
  /\ UNCHANGED <<state, panicked, indicator, u, sessionVars, targetVars, textVars,
                 orphan>>

\* A stats snapshot with the silence timeout due.
AutoStop ==
  /\ OtherArm /\ u.stats_open /\ NotDone
  /\ enter_finalizing
  /\ u' = [u EXCEPT !.stop = TRUE, !.trigger_open = FALSE, !.stats_open = FALSE]
  /\ resync
  /\ UNCHANGED <<rx, arrivalVars, candidate, later, streaming, sessionVars,
                 targetVars, textVars, orphan>>

\* The capture that feeds the stats is over.
StatsClose ==
  /\ OtherArm /\ u.stats_open /\ NotDone
  /\ u' = [u EXCEPT !.stats_open = FALSE]
  /\ UNCHANGED <<triggerVars, state, panicked, indicator, sessionVars, targetVars,
                 textVars, orphan>>

TakeResult ==
  /\ OtherArm /\ NotDone /\ result # Pending
  /\ u' = [u EXCEPT !.done = result]
  /\ UNCHANGED <<triggerVars, state, panicked, indicator, sessionVars, targetVars,
                 textVars, orphan>>

\* event_to_indicator, in the state s the event has just led to.
event_to_indicator(event, s, v) ==
  CASE event \in {"Loading", "Ready", "Transcribing"} ->
         IF s \in Capturing THEN "recording" ELSE indicator
    [] event = "Done" ->
         IF v.fault THEN "critical" ELSE completion_indicator_state(v.ending, v.dropped)
    [] event = "Error" -> "critical"
    [] event = "CaptureLost" -> IF state \in Capturing THEN "finalizing" ELSE indicator
    [] OTHER -> indicator

\* route_event.
route_event ==
  /\ OtherArm /\ u.events_open /\ queue # <<>>
  /\ queue' = Tail(queue)
  /\ \E commit \in Commits(u.pending) :
       LET event == Head(queue)
           boundary == event # "Final"
           v == IF boundary THEN flush(u, commit.answer) ELSE u
           w == [v EXCEPT !.fault = @ \/ event = "CaptureLost"]
       IN /\ CASE event = "Transcribing" /\ state = "Recording" ->
                    Advance(<<"Transcribing">>)
               [] event = "CaptureLost" /\ state \in Capturing ->
                    Advance(<<"Finalizing">>)
               [] OTHER -> Stay
          /\ indicator' = event_to_indicator(event, state', w)
          /\ finals' = IF boundary THEN finals ELSE finals + 1
          /\ u' = [w EXCEPT !.pending = IF boundary THEN @ ELSE Append(@, finals + 1),
                            !.shown = IF event = "Done" THEN indicator' ELSE @]
          /\ field' = IF boundary THEN field \o Put(u, commit) ELSE field
          /\ held' = IF boundary THEN Kept(u, commit) ELSE held
          /\ misfire' = (misfire \/ (boundary /\ Misfired(u, commit)))
  /\ UNCHANGED <<triggerVars, fsm, result, produced, verdict, targetVars, orphan>>

\* route_event of an Unstable, whose preedit has the target write what it holds
\* first, one text after the other until a write fails.
set_preedit ==
  /\ OtherArm /\ u.events_open /\ writes_allowed(u.ending) /\ u.pending = <<>>
  /\ lease = "held" /\ held # <<>>
  /\ \/ field' = Append(field, Head(held)) /\ held' = Tail(held) /\ UNCHANGED misfire
     \/ held' = <<>> /\ misfire' = TRUE /\ UNCHANGED field
  /\ UNCHANGED <<triggerVars, state, panicked, indicator, u, sessionVars, targetVars,
                 finals, orphan>>

\* Mutant: a closed event queue is polled for ever.
EventsClose_Open ==
  /\ OtherArm /\ u.events_open /\ queue = <<>> /\ u.done # Pending
  /\ UNCHANGED <<triggerVars, state, panicked, indicator, u, sessionVars, targetVars,
                 textVars, orphan>>

\* The session dropped its sender, which it does as it returns.
EventsClose ==
  /\ OtherArm /\ u.events_open /\ queue = <<>> /\ u.done # Pending
  /\ u' = [u EXCEPT !.events_open = FALSE]
  /\ UNCHANGED <<triggerVars, state, panicked, indicator, sessionVars, targetVars,
                 textVars, orphan>>

(***************************************************************************)
(* The end of run_one_utterance: safety flush, release, disposition.  The  *)
(* release waits until focus is back or lost, and writes what is held as   *)
(* far as the lease and the bus last.  The session and the target are      *)
(* gone; of u, how it ended is kept (history).                             *)
(***************************************************************************)
ClosingPath(outcome_) ==
  CASE outcome_ = "completed" ->
         IF state \in Capturing THEN <<"Finalizing", "Completed">> ELSE <<"Completed">>
    [] outcome_ \in {"aborted", "restart", "gone"} -> <<"Cancelled">>
    [] OTHER -> <<"Error">>

ClosingIndicator(outcome_, v) ==
  CASE outcome_ = "completed" -> completion_indicator_state(v.ending, v.dropped)
    [] outcome_ = "aborted" -> indicator
    [] outcome_ = "restart" -> "restart"
    [] OTHER -> "critical"

\* Mutant: a failed utterance leaves the parity as it is.
ClosingResync_Failed(outcome_) ==
  pressed' = IF outcome_ \in {"aborted", "restart"} THEN FALSE ELSE pressed

\* Which dispositions put the trigger's parity back.
ClosingResync(outcome_) ==
  pressed' = IF outcome_ \in {"completed", "gone"} THEN pressed ELSE FALSE

Finish ==
  /\ Looping /\ ~u.events_open /\ u.done # Pending
  /\ \E commit \in Commits(u.pending), fails \in BOOLEAN :
       LET whole == u.done = "completed"
           v == IF whole THEN flush(u, commit.answer) ELSE u
           put == IF whole THEN Put(u, commit) ELSE <<>>
           kept == IF whole THEN Kept(u, commit) ELSE held
           way == IF v.ending = "TargetGone" THEN "gone" ELSE u.done
       IN /\ Advance(ClosingPath(way) \o <<"Idle">>)
          /\ indicator' = ClosingIndicator(way, v)
          /\ ClosingResync(way)
          /\ u' = [NoUtterance EXCEPT !.done = way, !.shown = u.shown]
          /\ \E n \in 0..(IF lease \in {"held", "away"} THEN Len(kept) ELSE 0) :
               /\ field' = field \o put \o SubSeq(kept, 1, n)
               /\ held' = SubSeq(kept, n + 1, Len(kept))
               /\ misfire' = (misfire \/ (fails /\ n < Len(kept))
                               \/ (whole /\ Misfired(u, commit)))
          /\ orphan' = (way = "completed" /\ pressed)
  /\ discard_pending
  /\ fsm' = NewFsm /\ result' = Pending /\ verdict' = "silent"
  /\ lease' = "none" /\ loss' = "held"
  /\ UNCHANGED <<arrivalVars, streaming, queue, produced, finals>>

ControllerStep ==
  \/ Press \/ StrayRelease \/ Acquire \/ abort_before_capture \/ FocusOut
  \/ TargetGone \/ FocusStreamEnds \/ LoopEdge \/ FilterPokes
  \/ TakeResult \/ route_event \/ set_preedit \/ EventsClose \/ Finish

(***************************************************************************)
(* The surroundings: the user, the field and the session.                  *)
(***************************************************************************)
UserFrame == UNCHANGED <<state, panicked, indicator, u, sessionVars, targetVars,
                         textVars, orphan>>
Poke ==
  /\ since \in PokeGaps /\ (since = "far" \/ produced <= MaxNear)
  /\ poke /\ UserFrame
Clock == TimePasses /\ UserFrame

FieldFrame == UNCHANGED <<triggerVars, state, panicked, indicator, u, sessionVars,
                          textVars, orphan>>

\* The user's activation takes focus off the field, and gives it back.
FocusBlips ==
  /\ lease = "held" /\ lease' = "away"
  /\ UNCHANGED loss /\ FieldFrame

FocusReturns ==
  /\ lease = "away" /\ lease' = "held"
  /\ UNCHANGED loss /\ FieldFrame

\* Focus leaves the field for good, or the field goes away; the right to write
\* is gone at once, and with it what is held.
LoseLease ==
  /\ \/ lease \in {"held", "away"} /\ lease' \in {"lost", "gone"}
     \/ lease = "lost" /\ lease' = "gone"
  /\ UNCHANGED loss /\ FieldFrame

\* The focus stream says so, some time later.
SignalLoss ==
  /\ Looping /\ lease \in {"lost", "gone"} /\ loss # lease /\ loss = u.seen
  /\ loss' = lease /\ UNCHANGED lease /\ FieldFrame

\* The trigger is telling a press from a repeat: a poke waits that came close, or
\* a candidate stands (part of the bound on texts, no guard of the code).
Filtering == candidate \/ \E i \in DOMAIN Waiting : Waiting[i] # "far"

\* One step of the session: an input of its state machine, the events it
\* surfaces, and its outcome once it is terminal.
SessionStep(res, transcript) ==
  /\ Looping /\ result = Pending
  /\ Len(queue) + Len(res.emit) <= QueueCap
  /\ fsm' = res.fsm /\ queue' = queue \o res.emit
  /\ result' = outcome(res.fsm)
  /\ produced' = produced + (IF "Final" \in {res.emit[i] : i \in DOMAIN res.emit} THEN 1 ELSE 0)
  /\ verdict' = transcript
  /\ UNCHANGED <<triggerVars, state, panicked, indicator, u, targetVars, textVars, orphan>>

SessionProgress ==
  \/ \E phase \in {"ready", "transcribing"} :
       SessionStep(on_backend(fsm, Progress(phase, FALSE, FALSE)), verdict)
  \/ /\ produced < MaxFinals /\ (Filtering => produced < MaxNear)
     /\ SessionStep(on_backend(fsm, [type |-> "committed"]), verdict)
  \/ SessionStep(on_end_of_audio(fsm), verdict)
  \/ SessionStep(on_capture_lost(fsm), verdict)

\* The transcript is only empty if no text was ever committed.
SessionDone ==
  \E transcript \in {"clean", "degraded"} \cup (IF produced = 0 THEN {"silent"} ELSE {}) :
    SessionStep(on_backend(fsm, [type |-> "done"]), transcript)

SessionFails ==
  \/ SessionStep(on_backend(fsm, [type |-> "error"]), verdict)
  \/ SessionStep(on_backend_closed(fsm), verdict)
  \/ SessionStep(on_capture_failed(fsm), verdict)

\* The handshake fails, perhaps because the daemon must restart.
HandshakeFails ==
  /\ Looping /\ result = Pending /\ fsm.residency = "unloaded"
  /\ result' \in {"handshake_error", "restart"}
  /\ UNCHANGED <<fsm, queue, produced, verdict>>
  /\ UNCHANGED <<triggerVars, state, panicked, indicator, u, targetVars, textVars, orphan>>

Next ==
  \/ ControllerStep \/ AutoStop \/ StatsClose
  \/ Poke \/ Clock \/ FocusBlips \/ FocusReturns \/ LoseLease \/ SignalLoss
  \/ SessionProgress \/ SessionDone \/ SessionFails \/ HandshakeFails
=============================================================================
