-------------------------- MODULE TransportMachine --------------------------
(***************************************************************************)
(* The transport on its own, owned by a client that queues audio and the   *)
(* end of audio, reads events, may abort, may drop its sink and keep       *)
(* reading (commit-drain), and may drop the session.                       *)
(***************************************************************************)
EXTENDS Transport, Functions

CONSTANT MaxItems  \* bound: audio chunks the owner queues

VARIABLES queued,  \* items handed to the outbound queue, in order
          heard    \* events read by the owner, in order
vars == <<transportVars, queued, heard>>

Init == TransportInit /\ queued = <<>> /\ heard = <<>>

Queue(item) ==
  /\ sink_held /\ Permit /\ End \notin Range(queued)
  /\ outbox' = Append(outbox, item) /\ queued' = Append(queued, item)
  /\ UNCHANGED <<events, pumping, writeVars, readVars, ownerVars, heard>>
QueueNext == Queue(End) \/ (Len(queued) < MaxItems /\ Queue(Len(queued) + 1))

Hear ==
  /\ events_held /\ RecvEvent /\ heard' = Append(heard, Head(events))
  /\ UNCHANGED <<outbox, pumping, writeVars, readVars, ownerVars, queued>>

SendAbort ==
  /\ sink_held /\ ~abort /\ abort' = TRUE
  /\ UNCHANGED <<outbox, events, pumping, writeVars, readVars, sink_held,
                 events_held, queued, heard>>

DropSink ==
  /\ sink_held /\ sink_held' = FALSE
  /\ UNCHANGED <<outbox, events, pumping, writeVars, readVars, abort,
                 events_held, queued, heard>>

Drop ==
  /\ events_held /\ DropSession
  /\ UNCHANGED <<outbox, pumping, writeVars, readVars, abort, queued, heard>>

OwnerFrame == UNCHANGED <<queued, heard>>

Next == \/ PumpStep /\ OwnerFrame
        \/ PeerStep /\ OwnerFrame
        \/ QueueNext \/ Hear \/ SendAbort \/ DropSink \/ Drop

-----------------------------------------------------------------------------
\* Types, with the bounds of both queues and one write in flight.
TypeOK ==
  /\ outbox \in Seq(Nat) /\ Len(outbox) <= OutCap
  /\ events \in Seq(EventItems) /\ Len(events) <= EventCap
  /\ abort \in BOOLEAN /\ activity \in BOOLEAN
  /\ pumping \in {"running", "sending", "gone"}
  /\ decoded \in Seq(EventItems) /\ Len(decoded) <= 1
  /\ writing \in Seq(Nat) /\ Len(writing) <= 1
  /\ writer \in {"idle", "busy", "failed"} /\ grace \in {"off", "running", "over"}
  /\ outbound_open \in BOOLEAN /\ after_commit \in BOOLEAN
  /\ wire \in Seq(Nat) /\ frames \in 0..MaxFrames
  /\ answered \in {"no", "early", "proper"}
  /\ sink_held \in BOOLEAN /\ events_held \in BOOLEAN

\* What reaches the peer is a prefix of what was queued, and while no write
\* has failed nothing is missing in between.
WireInOrder ==
  /\ wire = SubSeq(queued, 1, Len(wire))
  /\ writer # "failed" => wire \o writing \o outbox = queued

\* The dialect knows of the commit exactly when the peer does, so the answer
\* to it is never taken for a mid-stream reset and swallowed.
CommitKnown == Ie115 => (after_commit <=> End \in Range(wire))

\* A terminal event or a transport error is the last thing the owner hears.
TerminalLast ==
  LET all == heard \o events IN
  \A i \in DOMAIN all :
    all[i] = TransportError \/ is_terminal_event(all[i]) =>
      i = Len(all) /\ pumping = "gone" /\ decoded = <<>>
=============================================================================
