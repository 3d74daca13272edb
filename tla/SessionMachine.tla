--------------------------- MODULE SessionMachine ---------------------------
(***************************************************************************)
(* One dictation end to end: the specification of Session with its         *)
(* fairness, and what the composition guarantees.                          *)
(***************************************************************************)
EXTENDS Session, Functions

\* The tasks are scheduled, the timers fire, and the device obeys the stop
\* flag.  Nothing is assumed of the server: it may never answer the handshake,
\* never read, never write and never close.
Fairness ==
  /\ WF_vars(Winding /\ CaptureFrame /\ CaptureSide)
  /\ WF_vars(ReadHealth /\ CaptureSide) /\ WF_vars(SendPending /\ CaptureSide)
  /\ WF_vars((ReadChunk \/ ReadFault \/ ReadEnd) /\ CaptureSide)
  /\ WF_vars(CancelCapture /\ CaptureSide)
  /\ WF_vars((PumpAborted \/ PumpCancelled \/ SendEvent \/ TakeOutbound) /\ TransportSide)
  /\ WF_vars(GraceEnds /\ TransportSide) /\ WF_vars(OutOfGrace /\ TransportSide)
  /\ WF_vars(DriverStep) /\ WF_vars(DeadlinePasses)

Spec == Init /\ [][Next]_vars /\ Fairness

-----------------------------------------------------------------------------
\* Types; the outbound slot never holds two items (the assertion in queue).
TypeOK ==
  /\ driver \in {"opening", "running", "returned"} /\ fsm \in FsmStates
  /\ outbound \in Seq(Nat) /\ Len(outbound) <= 1
  /\ control_open \in BOOLEAN /\ inputs_open \in BOOLEAN /\ polled \in BOOLEAN
  /\ deadline \in {"unarmed", "armed", "expired"}
  /\ told \in SUBSET OrchestratorEvents
  /\ result \in {"completed", "failed", "handshake_error", Pending}

Chunks(n) == [i \in 1..n |-> i]

\* Everything between the device and the server, oldest first, over five
\* queues and slots of four tasks.
Pipeline == wire \o writing \o outbox \o outbound \o (inputs \o pump.pending \o ring)

\* Speech is neither lost, repeated nor reordered between the microphone and
\* the server while the connection lives, through any stall of the handshake,
\* the accept gate, the outbound queue or a slow write.
NoSpeechLost ==
  Live /\ pumping # "gone" /\ writer # "failed" =>
    \E end \in {<<>>, <<End>>} : Pipeline = Chunks(captured) \o end

\* The server is only told that the utterance is over once it has all of it.
EndIsLast ==
  End \in Range(wire) => wire = Append(Chunks(captured), End)

\* Speech reaches the server whole and in order, and the end of audio behind
\* all of it.
SpeechKept == TypeOK /\ NoSpeechLost /\ EndIsLast

\* An utterance the server completed in answer to the end of audio is reported
\* as completed only if capture ended cleanly: a device fault sent on control
\* before the end of audio is seen before the answer to it.
CompletedIsWhole ==
  result = "completed" /\ answered = "proper" =>
    /\ Range(sent) \cap {"CaptureLost", "CaptureFailed"} = {}
    /\ wire = Append(Chunks(captured), End)

\* "Nothing arms it while capture is live": the progress deadline never
\* limits how long the user may speak.
DeadlineOnlyAfterCapture ==
  deadline # "unarmed" => ring_done \/ Terminal(health) \/ ring_closed

\* No unbounded wait: once only the server can move the session on - the end of
\* audio is queued, a salvage is under way, or capture has reported its end and
\* is gone - the deadline runs.
WaitingIsTimed ==
  Live /\ (fsm.session = "finalizing" \/ fsm.lost \/ (~pump.running /\ control = <<>>))
    => deadline # "unarmed"

\* The deadline runs exactly while it should: never against the user, always
\* against the server.
DeadlineIsRight == DeadlineOnlyAfterCapture /\ WaitingIsTimed

\* The composition implements the promise of one dictation.
Promise == INSTANCE Utterance WITH
  spoken <- captured, heard <- wire, lost <- "CaptureLost" \in told, verdict <- result
KeepsPromise == Promise!USpec

\* Once the user releases the key, or capture ends by itself, the call returns
\* whatever the server does.
AlwaysReturns == (stopped \/ Terminal(health)) ~> (driver = "returned")

\* Once it has returned, the microphone, the capture task and the connection
\* are all released.
AllReleased ==
  (driver = "returned") ~>
    (ring_closed /\ producer = "gone" /\ ~pump.running /\ pumping = "gone")
=============================================================================
