------------------------------ MODULE Transport ------------------------------
(***************************************************************************)
(* The session pump both WebSocket dialects share (client/myna-            *)
(* orchestrator/src/backend/transport.rs) with the channels of             *)
(* backend/mod.rs and the decoding of backend/ws_unix_ie115.rs and         *)
(* backend/ws_unix.rs.  One task owns the connection; it writes the        *)
(* outbound queue in order, and reads the peer's frames into the event     *)
(* queue.  The peer is the transcription server, free to send any frame at *)
(* any time, to stall, to close and to break the connection.               *)
(*                                                                         *)
(* outbox       the outbound queue (Outbox.queue)                          *)
(* abort        the abort watch (BackendSink::abort)                       *)
(* events       the event queue down to the driver                         *)
(* activity     a data frame arrived since the driver last looked          *)
(* pumping      "running", "sending" (waiting for room in the event queue; *)
(*              nothing else is polled meanwhile) or "gone"                *)
(* decoded      what is being sent in that state                           *)
(* writing      the item an in-flight write holds, at most one             *)
(* writer       "idle", "busy" or "failed"                                 *)
(* grace        the WRITE_GRACE timer: "off", "running" or "over"          *)
(* outbound_open, after_commit   the locals of those names                 *)
(* wire         what the peer has received, in order                       *)
(* frames       data frames the peer has sent                              *)
(* answered     whether the peer has completed the utterance: "no",        *)
(*              "early" (before it got the end of audio) or "proper"       *)
(* sink_held, events_held   the session's owner holds its two halves       *)
(***************************************************************************)
EXTENDS Fsm

CONSTANTS OutCap,      \* OUTBOUND_CAPACITY
          EventCap,    \* EVENT_CAPACITY
          Ie115,       \* whether the session speaks IE115 or the internal dialect
          PeerFrames,  \* the frames this peer may send
          MaxFrames    \* bound: data frames the peer sends in a run

Frames == {"loading", "ready", "transcribing", "delta", "unstable", "warning",
           "completed", "completed_empty", "error", "other", "malformed"}

ASSUME TransportAssumption ==
  /\ OutCap \in Nat \ {0} /\ EventCap \in Nat \ {0}
  /\ Ie115 \in BOOLEAN /\ PeerFrames \subseteq Frames /\ MaxFrames \in Nat

VARIABLES outbox, abort, events, activity, pumping, decoded, writing, writer,
          grace, outbound_open, after_commit, wire, frames, answered,
          sink_held, events_held

writeVars == <<writing, writer, grace, outbound_open, after_commit, wire>>
readVars == <<activity, decoded, frames, answered>>
ownerVars == <<abort, sink_held, events_held>>
transportVars == <<outbox, events, pumping, writeVars, readVars, ownerVars>>

TransportError == [type |-> "transport_error"]
EventItems == TranscriptionEvents \cup {TransportError}

TransportInit ==
  /\ outbox = <<>> /\ abort = FALSE /\ events = <<>> /\ activity = FALSE
  /\ pumping = "running" /\ decoded = <<>> /\ writing = <<>> /\ writer = "idle"
  /\ grace = "off" /\ outbound_open = TRUE /\ after_commit = FALSE
  /\ wire = <<>> /\ frames = 0 /\ answered = "no"
  /\ sink_held = TRUE /\ events_held = TRUE

(***************************************************************************)
(* Dialect::decode: the events a text frame stands for.                    *)
(***************************************************************************)
decode(frame) ==
  CASE frame = "loading"      -> <<Progress("preparing", FALSE, FALSE)>>
    [] frame = "ready"        -> <<Progress("ready", FALSE, FALSE)>>
    [] frame = "transcribing" -> <<Progress("transcribing", TRUE, FALSE)>>
    [] frame = "warning"      -> <<Progress("ready", FALSE, TRUE)>>
    [] frame = "delta"        -> <<[type |-> "committed"]>>
    [] frame = "unstable"     -> <<[type |-> "unstable"]>>
    [] frame = "completed"    -> <<[type |-> "done"]>>
    \* Before our commit an empty IE115 transcript is a revision reset.
    [] frame = "completed_empty" ->
         IF Ie115 /\ ~after_commit THEN <<>> ELSE <<[type |-> "done"]>>
    [] frame = "error"        -> <<[type |-> "error"]>>
    [] frame = "malformed"    -> <<TransportError>>
    [] OTHER                  -> <<>>

(***************************************************************************)
(* The arms of pump's select.                                              *)
(***************************************************************************)
Running == pumping = "running"

PumpAborted ==
  /\ Running /\ abort
  /\ pumping' = "gone"
  /\ UNCHANGED <<outbox, events, writeVars, readVars, ownerVars>>

\* Mutant: the dialect is not told that the commit was written.
WriteDone_Untold ==
  /\ Running /\ writer = "busy"
  /\ wire' = wire \o writing
  /\ writing' = <<>> /\ writer' = "idle"
  /\ UNCHANGED <<outbox, events, pumping, grace, outbound_open, after_commit,
                 readVars, ownerVars>>

WriteDone ==
  /\ Running /\ writer = "busy"
  /\ wire' = wire \o writing
  /\ writing' = <<>> /\ writer' = "idle"
  /\ after_commit' = (after_commit \/ (Ie115 /\ writing = <<End>>))
  /\ UNCHANGED <<outbox, events, pumping, grace, outbound_open, readVars, ownerVars>>

\* Mutant: a failed write waits for the peer without a limit.
WriteFails_NoGrace ==
  /\ Running /\ writer = "busy"
  /\ writing' = <<>> /\ writer' = "failed"
  /\ UNCHANGED <<outbox, events, pumping, grace, outbound_open, after_commit, wire,
                 readVars, ownerVars>>

\* The writer is never idle again, so nothing more is taken from the queue.
WriteFails ==
  /\ Running /\ writer = "busy"
  /\ writing' = <<>> /\ writer' = "failed" /\ grace' = "running"
  /\ UNCHANGED <<outbox, events, pumping, outbound_open, after_commit, wire,
                 readVars, ownerVars>>

\* Time passes.
GraceEnds ==
  /\ grace = "running" /\ pumping # "gone"
  /\ grace' = "over"
  /\ UNCHANGED <<outbox, events, pumping, writing, writer, outbound_open,
                 after_commit, wire, readVars, ownerVars>>

OutOfGrace ==
  /\ Running /\ grace = "over"
  /\ grace' = "off"
  /\ pumping' = "sending" /\ decoded' = <<TransportError>>
  /\ UNCHANGED <<outbox, events, writing, writer, outbound_open, after_commit,
                 wire, activity, frames, answered, ownerVars>>

TakeOutbound ==
  /\ Running /\ outbound_open /\ writer = "idle"
  /\ outbox # <<>>
  /\ writing' = <<Head(outbox)>> /\ writer' = "busy" /\ outbox' = Tail(outbox)
  /\ UNCHANGED <<events, pumping, grace, outbound_open, after_commit, wire,
                 readVars, ownerVars>>

\* Every sink is gone: stop sending, keep reading.
OutboundCloses ==
  /\ Running /\ outbound_open /\ writer = "idle"
  /\ outbox = <<>> /\ ~sink_held
  /\ outbound_open' = FALSE
  /\ UNCHANGED <<outbox, events, pumping, writing, writer, grace, after_commit,
                 wire, readVars, ownerVars>>

\* A data frame arrives and is decoded.
ReadFrame(frame) ==
  /\ Running /\ frames < MaxFrames
  /\ frames' = frames + 1
  /\ activity' = TRUE
  /\ decoded' = decode(frame)
  /\ pumping' = IF decode(frame) = <<>> THEN "running" ELSE "sending"
  /\ answered' = IF frame \in {"completed", "completed_empty"} /\ answered = "no"
                 THEN IF End \in {wire[i] : i \in DOMAIN wire} THEN "proper" ELSE "early"
                 ELSE answered
  /\ UNCHANGED <<outbox, events, writeVars, ownerVars>>

\* events.send(..).await: room in the queue, or nobody is listening.
SendEvent ==
  /\ pumping = "sending"
  /\ ~events_held \/ Len(events) < EventCap
  /\ events' = IF events_held THEN events \o decoded ELSE events
  /\ pumping' = IF \/ ~events_held
                   \/ decoded[1] = TransportError \/ is_terminal_event(decoded[1])
                THEN "gone" ELSE "running"
  /\ decoded' = <<>>
  /\ UNCHANGED <<outbox, writeVars, activity, frames, answered, ownerVars>>

\* The peer closes the connection.
ReadClose ==
  /\ Running
  /\ pumping' = "gone"
  /\ UNCHANGED <<outbox, events, writeVars, readVars, ownerVars>>

\* The connection breaks.
ReadError ==
  /\ Running
  /\ pumping' = "sending" /\ decoded' = <<TransportError>>
  /\ UNCHANGED <<outbox, events, writeVars, activity, frames, answered, ownerVars>>

\* TaskGuard: the events were dropped, which aborts the task.
PumpCancelled ==
  /\ ~events_held /\ pumping # "gone"
  /\ pumping' = "gone"
  /\ UNCHANGED <<outbox, events, writeVars, readVars, ownerVars>>

\* The peer's part, and the pump's own: what it must do when it can.
PeerStep == ReadClose \/ ReadError \/ (\E frame \in PeerFrames : ReadFrame(frame))
PumpStep == PumpAborted \/ WriteDone \/ WriteFails \/ GraceEnds \/ OutOfGrace
              \/ TakeOutbound \/ OutboundCloses \/ SendEvent \/ PumpCancelled

(***************************************************************************)
(* The owner's side: BackendSink and BackendEvents.                        *)
(***************************************************************************)
\* reserve: room in the queue, or refused because the pump is gone.
Permit == Len(outbox) < OutCap /\ pumping # "gone"
Refused == pumping = "gone"

RecvEvent == events # <<>> /\ events' = Tail(events)
EventsOver == events = <<>> /\ pumping = "gone"
\* Mutant: the events outlive the driver, and the pump with them.
DropSession_Leaks == sink_held' = FALSE /\ UNCHANGED events_held /\ events' = <<>>

DropSession == sink_held' = FALSE /\ events_held' = FALSE /\ events' = <<>>
=============================================================================
