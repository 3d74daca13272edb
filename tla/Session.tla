------------------------------- MODULE Session -------------------------------
(***************************************************************************)
(* One utterance end to end: run_session, the async driver (client/myna-   *)
(* orchestrator/src/driver.rs), composed with the capture side (Capture),  *)
(* the transport (Transport) and the state machine (Fsm), as run_dictation *)
(* (runner.rs) wires them.                                                 *)
(*                                                                         *)
(* driver        "opening" (handshake), "running" (the main loop) or       *)
(*               "returned"                                                *)
(* fsm           the state machine                                         *)
(* outbound      the one item waiting for room in the transport            *)
(* control_open, inputs_open   the locals of those names                   *)
(* deadline      the progress clock: "unarmed", "armed" or "expired"       *)
(* polled        this pass of the select found the control channel empty.  *)
(*               The select is biased and polls control first, so every    *)
(*               other arm needs it; control may fill up after the poll.   *)
(*               The remaining arms are taken in any order.                *)
(* told          the events surfaced to the caller (history)               *)
(* result        what run_session returned: an outcome of the machine,     *)
(*               "handshake_error", or Pending                             *)
(***************************************************************************)
EXTENDS Capture, Transport

VARIABLES driver, fsm, outbound, control_open, inputs_open, deadline, polled,
          told, result

driverVars == <<driver, fsm, outbound, control_open, inputs_open, deadline,
                polled, told, result>>
vars == <<captureVars, transportVars, driverVars>>

Init ==
  /\ CaptureInit /\ TransportInit
  /\ driver = "opening" /\ fsm = NewFsm /\ outbound = <<>>
  /\ control_open = TRUE /\ inputs_open = TRUE
  /\ deadline = "unarmed" /\ polled = FALSE /\ told = {} /\ result = Pending

(***************************************************************************)
(* Deadline.                                                               *)
(***************************************************************************)
arm == "armed"
progress(d) == IF d = "unarmed" THEN d ELSE arm

(***************************************************************************)
(* apply, and what follows it in either loop: a terminal machine ends the  *)
(* call, which drops the receivers, the sink and the events (and, in the   *)
(* handshake, the connection being opened).  The abort reaches the         *)
(* transport only once there is a session to abort.                        *)
(***************************************************************************)
Returns(r) ==
  /\ driver' = "returned" /\ result' = r
  /\ DropReceivers /\ DropSession
  /\ pumping' = IF driver = "opening" THEN "gone" ELSE pumping

Stays == UNCHANGED <<driver, result, listening, sink_held, events_held, pumping>>

\* The one slot is empty whenever an item is queued (the assertion in queue).
Apply(res) ==
  /\ fsm' = res.fsm
  /\ outbound' = outbound \o res.queue
  /\ told' = told \cup {res.emit[i] : i \in DOMAIN res.emit}
  /\ abort' = (abort \/ (res.abort /\ driver = "running"))
  /\ polled' = FALSE

Ended(res) == is_terminal(res.fsm.session)

(***************************************************************************)
(* The control arm, first in both loops.                                   *)
(***************************************************************************)
Live == driver \in {"opening", "running"}
\* Mutant: the select is not biased.
Other_Unbiased == Live

Other == Live /\ (polled \/ ~control_open)

\* The pass begins: nothing on control.
PollControl ==
  /\ Live /\ control_open /\ ~polled
  /\ control = <<>> /\ pump.running
  /\ polled' = TRUE
  /\ UNCHANGED <<captureVars, transportVars, driver, fsm, outbound, control_open,
                 inputs_open, deadline, told, result>>

\* Nothing else was ready, and control woke the task: poll it again.
WakeOnControl ==
  /\ Live /\ control_open /\ polled
  /\ control # <<>> \/ ~pump.running
  /\ polled' = FALSE
  /\ UNCHANGED <<captureVars, transportVars, driver, fsm, outbound, control_open,
                 inputs_open, deadline, told, result>>

control_input(message) ==
  CASE message = "CaptureFailed" -> on_capture_failed(fsm)
    [] message = "CaptureLost"   -> on_capture_lost(fsm)
    [] OTHER                     -> Quiet(fsm)   \* CaptureEnded

\* Mutant: only a clean end arms the deadline.
TakeControlMessage_CleanOnly ==
  /\ Live /\ control_open /\ ~polled /\ control # <<>>
  /\ LET message == Head(control)
         res == control_input(message)
     IN /\ Apply(res)
        /\ deadline' = IF message = "CaptureEnded" THEN arm ELSE deadline
        /\ IF Ended(res)
           THEN Returns(outcome(res.fsm))
           ELSE RecvControl /\ Stays /\ UNCHANGED <<inputs, events>>
  /\ UNCHANGED <<ringVars, pump, taken, sent, outbox, writeVars,
                 readVars, control_open, inputs_open>>

TakeControlMessage ==
  /\ Live /\ control_open /\ ~polled /\ control # <<>>
  /\ LET message == Head(control)
         res == control_input(message)
     IN /\ Apply(res)
        /\ deadline' = IF message = "CaptureFailed" THEN deadline ELSE arm
        /\ IF Ended(res)
           THEN Returns(outcome(res.fsm))
           ELSE RecvControl /\ Stays /\ UNCHANGED <<inputs, events>>
  /\ UNCHANGED <<ringVars, pump, taken, sent, outbox, writeVars,
                 readVars, control_open, inputs_open>>

\* Every sender is gone (the pump has returned).
ControlCloses ==
  /\ Live /\ control_open /\ ~polled /\ control = <<>> /\ ~pump.running
  /\ control_open' = FALSE /\ polled' = FALSE
  /\ UNCHANGED <<captureVars, transportVars, driver, fsm, outbound, inputs_open,
                 deadline, told, result>>

(***************************************************************************)
(* The handshake.                                                          *)
(***************************************************************************)
Opened ==
  /\ driver = "opening" /\ Other
  /\ driver' = "running" /\ polled' = FALSE
  /\ UNCHANGED <<captureVars, transportVars, fsm, outbound, control_open,
                 inputs_open, deadline, told, result>>

OpenFails ==
  /\ driver = "opening" /\ Other
  /\ Returns("handshake_error") /\ polled' = FALSE
  /\ UNCHANGED <<ringVars, pump, taken, sent, outbox, writeVars, readVars,
                 abort, fsm, outbound, control_open, inputs_open, deadline, told>>

(***************************************************************************)
(* The deadline: time passes, then the arm of either loop.                 *)
(***************************************************************************)
DeadlinePasses ==
  /\ Live /\ deadline = "armed"
  /\ deadline' = "expired"
  /\ UNCHANGED <<captureVars, transportVars, driver, fsm, outbound, control_open,
                 inputs_open, polled, told, result>>

\* Mutant: the handshake has no deadline.
Stall_NotOpening ==
  /\ Other /\ deadline = "expired" /\ driver = "running"
  /\ LET res == on_stalled(fsm) IN Apply(res) /\ Returns(outcome(res.fsm))
  /\ UNCHANGED <<ringVars, pump, taken, sent, outbox, writeVars, readVars,
                 control_open, inputs_open, deadline>>

Stall ==
  /\ Other /\ deadline = "expired"
  /\ LET res == on_stalled(fsm) IN Apply(res) /\ Returns(outcome(res.fsm))
  /\ UNCHANGED <<ringVars, pump, taken, sent, outbox, writeVars, readVars,
                 control_open, inputs_open, deadline>>

(***************************************************************************)
(* The main loop.                                                          *)
(***************************************************************************)
Driving == driver = "running" /\ Other

TakeEvent ==
  /\ Driving
  /\ events # <<>> \/ EventsOver
  /\ LET res == IF events = <<>> \/ Head(events) = TransportError
                THEN on_backend_closed(fsm) ELSE on_backend(fsm, Head(events))
     IN /\ Apply(res)
        /\ IF Ended(res)
           THEN Returns(outcome(res.fsm))
           ELSE RecvEvent /\ Stays /\ UNCHANGED <<inputs, control>>
  /\ deadline' = progress(deadline)
  /\ UNCHANGED <<ringVars, pump, taken, sent, outbox, writeVars, readVars,
                 control_open, inputs_open>>

SeeActivity ==
  /\ Driving /\ activity
  /\ activity' = FALSE
  /\ deadline' = progress(deadline) /\ polled' = FALSE
  /\ UNCHANGED <<captureVars, outbox, events, pumping, writeVars, decoded, frames,
                 answered, ownerVars, driver, fsm, outbound, control_open,
                 inputs_open, told, result>>

\* Mutant: an item the transport has no room for is dropped.
HandOver_TrySend ==
  /\ Driving /\ outbound # <<>>
  /\ outbox' = IF Permit THEN outbox \o outbound ELSE outbox
  /\ outbound' = <<>> /\ polled' = FALSE
  /\ UNCHANGED <<captureVars, events, pumping, writeVars, readVars, ownerVars,
                 driver, fsm, control_open, inputs_open, deadline, told, result>>

\* sink.reserve: the item is handed over, or lost with the transport.
HandOver ==
  /\ Driving /\ outbound # <<>>
  /\ \/ Permit /\ outbox' = outbox \o outbound /\ deadline' = progress(deadline)
     \/ Refused /\ UNCHANGED <<outbox, deadline>>
  /\ outbound' = <<>> /\ polled' = FALSE
  /\ UNCHANGED <<captureVars, events, pumping, writeVars, readVars, ownerVars,
                 driver, fsm, control_open, inputs_open, told, result>>

TakeInputItem ==
  /\ Driving /\ inputs_open /\ outbound = <<>> /\ accepts_audio(fsm)
  /\ RecvInput
  /\ IF Head(inputs) = EndOfAudio
     THEN Apply(on_end_of_audio(fsm)) /\ deadline' = arm
     ELSE Apply(on_audio(fsm, Head(inputs))) /\ UNCHANGED deadline
  /\ Stays
  /\ UNCHANGED <<ringVars, pump, control, sent, outbox, events, writeVars,
                 readVars, control_open, inputs_open>>

\* The pump has returned without an end of audio left to read.
InputsClose ==
  /\ Driving /\ inputs_open /\ outbound = <<>> /\ accepts_audio(fsm)
  /\ inputs = <<>> /\ ~pump.running
  /\ inputs_open' = FALSE /\ polled' = FALSE
  /\ UNCHANGED <<captureVars, transportVars, driver, fsm, outbound, control_open,
                 deadline, told, result>>

DriverStep ==
  \/ PollControl \/ WakeOnControl \/ TakeControlMessage \/ ControlCloses \/ Stall
  \/ TakeEvent \/ SeeActivity \/ HandOver \/ TakeInputItem
  \/ InputsClose

(***************************************************************************)
(* The composition: run_dictation.  The transport exists from the end of   *)
(* the handshake.                                                          *)
(***************************************************************************)
CaptureSide == UNCHANGED <<transportVars, driverVars>>
TransportSide == driver # "opening" /\ UNCHANGED <<captureVars, driverVars>>

Next ==
  \/ Producing /\ CaptureFrame /\ CaptureSide
  \/ Stop /\ CaptureFrame /\ CaptureSide
  \/ Pumping /\ CaptureSide
  \/ CancelCapture /\ CaptureSide
  \/ PumpStep /\ TransportSide
  \/ PeerStep /\ TransportSide
  \/ DriverStep
  \/ Opened \/ OpenFails \/ DeadlinePasses
=============================================================================
