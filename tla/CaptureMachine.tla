--------------------------- MODULE CaptureMachine ---------------------------
(***************************************************************************)
(* The capture side on its own and what it promises the driver.            *)
(***************************************************************************)
EXTENDS Capture, Functions

-----------------------------------------------------------------------------
PumpStates ==
  [health_open : BOOLEAN, stream_open : BOOLEAN, ended : BOOLEAN,
   accepted : BOOLEAN, fault : Faults \cup {NoFault}, reported : BOOLEAN,
   pending : Seq(Nat), running : BOOLEAN]

\* Types, with the bounds of the input and control channels and of the one
\* pending item.
TypeOK ==
  /\ captured \in Nat /\ taken \in Nat
  /\ ring \in Seq(Nat) /\ inputs \in Seq(Nat) /\ Len(inputs) <= InputCap
  /\ ring_done \in BOOLEAN /\ ring_closed \in BOOLEAN
  /\ ring_fault \in Faults \cup {NoFault}
  /\ health \in {"opening", "capturing", "faulted", "ended"} /\ unread \in BOOLEAN
  /\ producer \in {"live", "overloaded", "concluding", "gone"}
  /\ verdict \in {NoFault, "device"}
  /\ stopped \in BOOLEAN /\ listening \in BOOLEAN
  /\ fate \in {"open", "clean", "fault"}
  /\ pump \in PumpStates /\ Len(pump.pending) <= 1
  /\ control \in Seq(ControlMessages) /\ Len(control) <= ControlCap
  /\ sent \in Seq(ControlMessages)

\* Everything between the driver and the device, oldest first.
InFlight == inputs \o pump.pending \o ring

\* No captured chunk is lost, repeated or overtaken on its way to the driver,
\* and the end of audio is only ever behind the last of them: what is in
\* flight is exactly the chunks the driver has not read, in order.
NothingLost ==
  listening =>
    \E end \in {<<>>, <<EndOfAudio>>} :
       InFlight = [i \in 1..(captured - taken) |-> taken + i] \o end

\* A capture that ended badly never reads as a clean end: by the time the
\* pump has returned, the driver was sent the fault - as a salvage if any
\* audio was taken from the ring, as a failure if none was.
FaultReported ==
  fate = "fault" /\ listening /\ ~pump.running =>
    sent = <<IF pump.accepted THEN "CaptureLost" ELSE "CaptureFailed">>

\* No false alarm: a reported fault really ended capture.
OnlyRealFaults ==
  Range(sent) \cap {"CaptureLost", "CaptureFailed"} # {} =>
     fate = "fault" \/ verdict = "device"

\* One verdict per utterance: the control channel is never asked to hold a
\* second message, so a send on it never blocks the pump.
OneVerdict == Len(sent) <= 1
=============================================================================
