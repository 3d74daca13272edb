------------------------------- MODULE Capture -------------------------------
(***************************************************************************)
(* pump_capture (client/myna-orchestrator/src/runner.rs): the task that    *)
(* drains the capture ring into the driver's bounded input channel and     *)
(* reports the end or the fault of capture on the control channel, out of  *)
(* band, as soon as health shows it.                                       *)
(*                                                                         *)
(* pump      the task's locals: health_open, stream_open, ended, accepted, *)
(*           fault, reported, pending (at most one item) and running       *)
(* inputs    the mpsc channel of audio and end-of-audio                    *)
(* control   the mpsc channel of capture outcomes                          *)
(* listening the driver still holds both receivers                         *)
(* taken     chunks the driver has read (history)                          *)
(* sent      the control messages sent so far, in order (history)          *)
(*                                                                         *)
(* One action is one pass of the select loop, the code after the select    *)
(* included.  The arms are taken in any order: the order the code polls    *)
(* them in is not atomic with the producer, so a later arm can win a race. *)
(***************************************************************************)
EXTENDS Ring

CONSTANTS InputCap,   \* INPUT_CAPACITY
          ControlCap  \* CONTROL_CAPACITY

ASSUME CaptureAssumption == InputCap \in Nat \ {0} /\ ControlCap \in Nat \ {0}

VARIABLES pump, inputs, control, listening, taken, sent

channelVars == <<inputs, control, listening, taken>>
captureVars == <<ringVars, pump, channelVars, sent>>

EndOfAudio == 0
ControlMessages == {"CaptureEnded", "CaptureLost", "CaptureFailed"}

CaptureInit ==
  /\ RingInit
  /\ pump = [health_open |-> TRUE, stream_open |-> TRUE, ended |-> FALSE,
             accepted |-> FALSE, fault |-> NoFault, reported |-> FALSE,
             pending |-> <<>>, running |-> TRUE]
  /\ inputs = <<>> /\ control = <<>> /\ listening = TRUE
  /\ taken = 0 /\ sent = <<>>

(***************************************************************************)
(* The code after the select: announce a salvage, then close up once the   *)
(* stream has ended and nothing is pending.  The messages the pass sends   *)
(* are collected in front of the ones below.                               *)
(***************************************************************************)
Salvage(p) == p.accepted /\ ~p.reported /\ p.fault # NoFault
Announced(p) == IF Salvage(p) THEN [p EXCEPT !.reported = TRUE, !.ended = TRUE] ELSE p

Over(p) == ~p.stream_open /\ p.pending = <<>>
Hopeless(p) == Over(p) /\ p.fault # NoFault /\ ~p.accepted
Closing(p) == Over(p) /\ ~Hopeless(p)

AfterSelect(p) ==
  LET q == Announced(p)
  IN CASE Hopeless(q) -> [q EXCEPT !.fault = NoFault, !.running = FALSE]
       [] Closing(q)  -> [q EXCEPT !.fault = NoFault, !.ended = TRUE,
                                   !.pending = <<EndOfAudio>>]
       [] OTHER       -> q

TailSends(p) ==
  (IF Salvage(p) THEN <<"CaptureLost">> ELSE <<>>)
    \o (CASE Hopeless(Announced(p)) -> <<"CaptureFailed">>
          [] Closing(Announced(p)) /\ ~Announced(p).ended -> <<"CaptureEnded">>
          [] OTHER -> <<>>)

\* control.send(..).await: waits for room; a closed channel refuses at once.
Send(messages) ==
  /\ listening => Len(control) + Len(messages) <= ControlCap
  /\ control' = IF listening THEN control \o messages ELSE control
  /\ sent' = sent \o messages

\* The task's locals after one pass whose arm left them as p, having sent
\* first.  A task that returns drops the stream and so closes the ring.
Pass(p, first) ==
  /\ pump' = AfterSelect(p)
  /\ Send(first \o TailSends(p))

(***************************************************************************)
(* The arms.                                                               *)
(***************************************************************************)
ReadHealth ==
  /\ pump.running /\ pump.health_open
  /\ unread \/ producer = "gone"
  /\ unread' = FALSE
  /\ IF ~unread THEN Pass([pump EXCEPT !.health_open = FALSE], <<>>)
     ELSE CASE health = "faulted" ->
                 Pass([pump EXCEPT !.health_open = FALSE,
                         !.fault = IF @ = NoFault THEN "device" ELSE @], <<>>)
            [] health = "ended" /\ ~pump.ended ->
                 Pass([pump EXCEPT !.ended = TRUE], <<"CaptureEnded">>)
            [] OTHER -> Pass(pump, <<>>)
  /\ IF pump'.running
     THEN UNCHANGED <<ring, ring_fault, ring_closed, stopped>> ELSE close
  /\ UNCHANGED <<captured, ring_done, health, producerVars, fate,
                 inputs, listening, taken>>

\* audio.reserve: room for the pending item, or the driver is gone.
SendPending ==
  /\ pump.running /\ pump.pending # <<>>
  /\ ~listening \/ Len(inputs) < InputCap
  /\ LET sentOne == [pump EXCEPT !.pending = <<>>] IN
     IF ~listening \/ pump.pending = <<EndOfAudio>>
     THEN pump' = [sentOne EXCEPT !.running = FALSE] /\ Send(<<>>)
     ELSE Pass(sentOne, <<>>)
  /\ inputs' = IF listening THEN inputs \o pump.pending ELSE inputs
  /\ IF pump'.running
     THEN UNCHANGED <<ring, ring_fault, ring_closed, stopped>> ELSE close
  /\ UNCHANGED <<captured, ring_done, healthVars, producerVars, fate,
                 listening, taken>>

Reading == pump.running /\ pump.stream_open /\ pump.pending = <<>>

\* Ring::next: a chunk.
ReadChunk ==
  /\ Reading /\ ring # <<>>
  /\ Pass([pump EXCEPT !.accepted = TRUE, !.pending = <<Head(ring)>>], <<>>)
  /\ ring' = Tail(ring)
  /\ UNCHANGED <<captured, ring_done, ring_fault, ring_closed, healthVars,
                 producerVars, stopped, fate, inputs, listening, taken>>

\* Mutant: the stream's fault is left for health to report.
ReadFault_Unlatched ==
  /\ Reading /\ ring = <<>> /\ ring_fault # NoFault
  /\ Pass([pump EXCEPT !.stream_open = FALSE], <<>>)
  /\ IF pump'.running
     THEN ring_fault' = NoFault /\ UNCHANGED <<ring, ring_closed, stopped>> ELSE close
  /\ UNCHANGED <<captured, ring_done, healthVars, producerVars, fate,
                 inputs, listening, taken>>

\* Ring::next: the fault, delivered once after the queued chunks.
ReadFault ==
  /\ Reading /\ ring = <<>> /\ ring_fault # NoFault
  /\ Pass([pump EXCEPT !.stream_open = FALSE,
             !.fault = IF @ = NoFault THEN ring_fault ELSE @], <<>>)
  /\ IF pump'.running
     THEN ring_fault' = NoFault /\ UNCHANGED <<ring, ring_closed, stopped>> ELSE close
  /\ UNCHANGED <<captured, ring_done, healthVars, producerVars, fate,
                 inputs, listening, taken>>

\* Ring::next: the end; the stream drops its guard, which closes the ring.
ReadEnd ==
  /\ Reading /\ ring = <<>> /\ ring_fault = NoFault
  /\ ring_done \/ ring_closed
  /\ Pass([pump EXCEPT !.stream_open = FALSE], <<>>)
  /\ close
  /\ UNCHANGED <<captured, ring_done, healthVars, producerVars, fate,
                 inputs, listening, taken>>

Pumping == ReadHealth \/ SendPending \/ ReadChunk \/ ReadFault \/ ReadEnd

\* run_dictation: capture.cancel() once the driver has returned.
CancelCapture ==
  /\ ~listening /\ pump.running
  /\ pump' = [pump EXCEPT !.running = FALSE]
  /\ close
  /\ UNCHANGED <<captured, ring_done, healthVars, producerVars, fate,
                 channelVars, sent>>

(***************************************************************************)
(* The receiving end of the channels, as the driver uses it.               *)
(***************************************************************************)
RecvInput ==
  /\ inputs # <<>>
  /\ inputs' = Tail(inputs)
  /\ taken' = IF Head(inputs) = EndOfAudio THEN taken ELSE taken + 1

RecvControl == control # <<>> /\ control' = Tail(control)

\* The driver returns: both receivers are dropped with what they hold.
DropReceivers == listening' = FALSE /\ inputs' = <<>> /\ control' = <<>>

(***************************************************************************)
(* Capture on its own: a driver that reads both channels when it likes and *)
(* may return at any time.  Session replaces it by the real driver.        *)
(***************************************************************************)
TakeInput ==
  listening /\ RecvInput /\ UNCHANGED <<ringVars, pump, control, listening, sent>>
TakeControl ==
  listening /\ RecvControl /\ UNCHANGED <<ringVars, pump, inputs, listening, taken, sent>>
DriverReturns ==
  listening /\ DropReceivers /\ UNCHANGED <<ringVars, pump, taken, sent>>

CaptureFrame == UNCHANGED <<pump, channelVars, sent>>

CaptureNext ==
  \/ Producing /\ CaptureFrame
  \/ Stop /\ CaptureFrame
  \/ Pumping \/ CancelCapture
  \/ TakeInput \/ TakeControl \/ DriverReturns
=============================================================================
