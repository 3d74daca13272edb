-------------------------- MODULE FsmMachineProofs --------------------------
(***************************************************************************)
(* Proofs about the orchestrator state machine: its properties follow from *)
(* the contract every handler of fsm.rs keeps (FsmProofs) alone, for any   *)
(* order of inputs.                                                        *)
(***************************************************************************)
EXTENDS FsmMachine, FsmProofs, FiniteSetTheorems

(***************************************************************************)
(* The properties of FsmMachine from the contract.                         *)
(***************************************************************************)

\* The input that fails a session in silence.
Silent(input) == input = "CaptureFailed"

\* Every step of the machine is one legal transition on one input.
LEMMA EveryStepLegal ==
  fsm \in FsmStates /\ Next =>
    \E input \in Inputs : \E r : LegalFor(fsm, r, Silent(input)) /\ Step(input, r)
<1> SUFFICES ASSUME fsm \in FsmStates, Next
             PROVE  \E input \in Inputs : \E r :
                       LegalFor(fsm, r, Silent(input)) /\ Step(input, r)
  OBVIOUS
<1>0. ASSUME NEW input \in Inputs, ~Silent(input), NEW r, Legal(fsm, r), Step(input, r)
      PROVE  \E in \in Inputs : \E s : LegalFor(fsm, s, Silent(in)) /\ Step(in, s)
  <2>1. Silent(input) = FALSE
    BY <1>0 DEF Silent
  <2>2. LegalFor(fsm, r, Silent(input))
    BY <1>0, <2>1 DEF Legal
  <2> QED BY <1>0, <2>2
<1>1. CASE Audio
  BY <1>0, <1>1, AudioLegal DEF Audio, Inputs, Silent
<1>2. CASE EndOfAudio
  BY <1>0, <1>2, EndOfAudioLegal DEF EndOfAudio, Inputs, Silent
<1>3. CASE Abort
  BY <1>0, <1>3, AbortLegal DEF Abort, Inputs, Silent
<1>4. CASE CaptureFailed
  <2>1. Silent("CaptureFailed") = TRUE /\ "CaptureFailed" \in Inputs
    BY DEF Silent, Inputs
  <2> QED BY <1>4, <2>1, CaptureFailedLegal DEF CaptureFailed
<1>5. CASE CaptureLost
  BY <1>0, <1>5, CaptureLostLegal DEF CaptureLost, Inputs, Silent
<1>6. ASSUME NEW event \in TranscriptionEvents, Backend(event)
      PROVE  \E input \in Inputs : \E r : LegalFor(fsm, r, Silent(input)) /\ Step(input, r)
  BY <1>0, <1>6, BackendLegal DEF Backend, Inputs, Silent
<1>7. CASE BackendClosed
  BY <1>0, <1>7, ClosedLegal DEF BackendClosed, Inputs, Silent
<1>8. CASE Stalled
  BY <1>0, <1>8, StalledLegal DEF Stalled, Inputs, Silent
<1> QED BY <1>1, <1>2, <1>3, <1>4, <1>5, <1>6, <1>7, <1>8 DEF Next

\* A session whose end of audio was queued is no longer active.
FinishedIsOver == finished => fsm.session # "active"

\* The inductive invariant: the checked invariants hold each other up, and
\* FinishedIsOver carries the history of the queue.
IInv == TypeOK /\ FaultNeverForgotten /\ ErrorMatchesFailure /\ FinishedIsOver

\* The invariant holds when the session starts.
LEMMA InitInv == Init => IInv
<1> SUFFICES ASSUME Init PROVE IInv
  OBVIOUS
<1>1. fsm \in FsmStates /\ fsm.session = "active"
  BY DEF Init, NewFsm, FsmStates, SessionStates, Residencies, FailureCodes, NoCode
<1>2. TypeOK
  BY <1>1 DEF Init, TypeOK, NotEnded
<1>3. FaultNeverForgotten /\ ErrorMatchesFailure /\ FinishedIsOver
  BY <1>1 DEF Init, NotEnded, FaultNeverForgotten, ErrorMatchesFailure, FinishedIsOver
<1> QED BY <1>2, <1>3 DEF IInv

\* Every legal step keeps the invariant.
LEMMA NextInv == IInv /\ [Next]_vars => IInv'
<1> SUFFICES ASSUME IInv, [Next]_vars PROVE IInv'
  OBVIOUS
<1>1. CASE UNCHANGED vars
  BY <1>1 DEF IInv, vars, TypeOK, FaultNeverForgotten, ErrorMatchesFailure,
              FinishedIsOver
<1>2. CASE Next
  <2>0. fsm \in FsmStates /\ fsm.session \in SessionStates
    BY DEF IInv, TypeOK, FsmStates
  <2>1a. PICK input \in Inputs : \E r : LegalFor(fsm, r, Silent(input)) /\ Step(input, r)
    BY <1>2, <2>0, EveryStepLegal
  <2>1. PICK r : LegalFor(fsm, r, Silent(input)) /\ Step(input, r)
    BY <2>1a
  <2>2. /\ fsm' = r.fsm /\ told' = told \cup Range(r.emit)
        /\ errors' = errors + Cardinality(ErrorsAt(r.emit))
        /\ ended' = IF ~is_terminal(fsm.session) /\ is_terminal(r.fsm.session)
                    THEN input ELSE ended
        /\ finished' = (finished \/ r.queue = <<End>>)
        /\ effects'.queue = r.queue /\ effects'.abort = r.abort
    BY <2>1 DEF Step
  <2>3. Typed(r) /\ FinalIsFinal(fsm, r) /\ FinishesOnce(fsm, r)
          /\ HoldsFault(fsm, r) /\ TellsFailure(fsm, r, Silent(input))
    BY <2>1 DEF LegalFor
  <2>4. is_terminal(fsm.session) => fsm' = fsm /\ Range(r.emit) \subseteq {"AudioDropped"}
    <3>1. Range(<<>>) = {} /\ Range(<<"AudioDropped">>) = {"AudioDropped"}
      BY RangeShort
    <3> QED BY <2>2, <2>3, <3>1 DEF FinalIsFinal
  <2>5. TypeOK'
    <3>1. Range(r.emit) \subseteq OrchestratorEvents
      BY <2>3 DEF Typed, Range
    <3>2. fsm' \in FsmStates /\ effects'.queue \in {<<>>, <<1>>, <<End>>}
            /\ effects'.abort \in BOOLEAN
      BY <2>2, <2>3 DEF Typed, QueueItems
    <3>3. told' \in SUBSET OrchestratorEvents /\ finished' \in BOOLEAN
      BY <2>2, <3>1 DEF IInv, TypeOK
    <3>4. errors' \in Nat /\ ended' \in Inputs \cup {NotEnded}
      <4>1. Cardinality(ErrorsAt(r.emit)) \in Nat
        <5>1. r.emit \in Seq(OrchestratorEvents)
          BY <2>3 DEF Typed
        <5>2. ErrorsAt(r.emit) \subseteq 1..Len(r.emit) /\ Len(r.emit) \in Nat
          BY <5>1 DEF ErrorsAt
        <5>3. IsFiniteSet(1..Len(r.emit))
          BY <5>2, FS_Interval
        <5>4. IsFiniteSet(ErrorsAt(r.emit))
          BY <5>2, <5>3, FS_Subset
        <5> QED BY <5>4, FS_CardinalityType
      <4> QED BY <2>2, <4>1 DEF IInv, TypeOK
    <3> QED BY <3>2, <3>3, <3>4 DEF TypeOK
  <2>6. FaultNeverForgotten'
    <3> SUFFICES ASSUME "CaptureLost" \in told' PROVE
            \/ fsm'.session \in {"active", "finalizing"} /\ fsm'.lost
            \/ fsm'.session = "failed" /\ fsm'.device
            \/ fsm'.session = "aborted"
      BY DEF FaultNeverForgotten
    <3>1. CASE is_terminal(fsm.session)
      BY <3>1, <2>2, <2>4 DEF IInv, FaultNeverForgotten
    <3>2. CASE ~is_terminal(fsm.session)
      <4>1. fsm.lost \/ Says(r, "CaptureLost")
        BY <3>2, <2>2 DEF IInv, FaultNeverForgotten, Says, is_terminal
      <4> QED BY <3>2, <4>1, <2>2, <2>3 DEF HoldsFault
    <3> QED BY <3>1, <3>2
  <2>7. ErrorMatchesFailure'
    <3>0. errors \in Nat /\ Silent(input) \in BOOLEAN
      BY DEF IInv, TypeOK, Silent
    <3>1. CASE is_terminal(fsm.session)
      <4>1. ErrorsAt(r.emit) = {}
        <5>1. "Error" \notin Range(r.emit)
          BY <2>2, <2>4, <3>1
        <5> QED BY <5>1, ErrorsCounted
      <4>2. errors' = errors /\ fsm' = fsm /\ ended' = ended
        BY <2>2, <2>4, <3>0, <3>1, <4>1, FS_EmptySet
      <4> QED BY <4>2 DEF IInv, ErrorMatchesFailure
    <3>2. CASE ~is_terminal(fsm.session)
      <4>1. errors = 0 /\ fsm.session # "failed" /\ ended # "CaptureFailed"
        BY <3>2 DEF IInv, ErrorMatchesFailure, is_terminal
      <4>2. ToldOnce(r.fsm, r.emit, Silent(input))
        BY <2>3, <3>2 DEF TellsFailure
      <4>3. CASE r.fsm.session = "failed" /\ ~Silent(input)
        <5>1. PICK i : ErrorsAt(r.emit) = {i}
          BY <4>2, <4>3 DEF ToldOnce
        <5>2. errors' = 1
          BY <2>2, <4>1, <5>1, FS_Singleton
        <5>3. ended' # "CaptureFailed"
          BY <2>2, <3>2, <4>3 DEF Silent, is_terminal
        <5> QED BY <2>2, <4>3, <5>2, <5>3 DEF ErrorMatchesFailure
      <4>4. CASE ~(r.fsm.session = "failed" /\ ~Silent(input))
        <5>1. ErrorsAt(r.emit) = {}
          BY <4>2, <4>4 DEF ToldOnce
        <5>2. errors' = 0
          BY <2>2, <4>1, <5>1, FS_EmptySet
        <5>3. Silent(input) => r.fsm.session = "failed" /\ r.fsm.code = "capture_failed"
                                 /\ r.fsm.device
          BY <4>2 DEF ToldOnce
        <5>4. CASE Silent(input)
          <6>1. ended' = "CaptureFailed"
            BY <2>2, <3>2, <5>3, <5>4 DEF Silent, is_terminal
          <6> QED BY <2>2, <5>2, <5>3, <5>4, <6>1 DEF ErrorMatchesFailure
        <5>5. CASE ~Silent(input)
          <6>1. ended' # "CaptureFailed" /\ fsm'.session # "failed"
            BY <2>2, <4>1, <4>4, <5>5 DEF Silent
          <6> QED BY <5>2, <6>1 DEF ErrorMatchesFailure
        <5> QED BY <5>4, <5>5
      <4> QED BY <4>3, <4>4
    <3> QED BY <3>1, <3>2
  <2>8. FinishedIsOver'
    BY <2>0, <2>2, <2>3, <2>4
       DEF IInv, FinishedIsOver, FinishesOnce, is_terminal, SessionStates
  <2> QED BY <2>5, <2>6, <2>7, <2>8 DEF IInv
<1> QED BY <1>1, <1>2 DEF vars

\* The inductive invariant holds throughout.
LEMMA Invariant == Spec => []IInv
BY InitInv, NextInv, PTL DEF Spec

\* The state machine keeps to its types, its transport slot included: a
\* transition never queues more than one item (Fsm::on_input).
THEOREM TypeCorrect == Spec => []TypeOK
<1>1. IInv => TypeOK
  BY DEF IInv
<1> QED BY <1>1, Invariant, PTL

\* A capture fault surfaced as CaptureLost is never forgotten, whichever of
\* done, error, a closed connection or a stall ends the session.
THEOREM FaultKept == Spec => []FaultNeverForgotten
<1>1. IInv => FaultNeverForgotten
  BY DEF IInv
<1> QED BY <1>1, Invariant, PTL

\* A failed session surfaced exactly one Error, and no other session any, for
\* inputs of any number in any order; only a capture failure with nothing to
\* salvage, the input CaptureFailed, fails without one.
THEOREM ErrorTold == Spec => []ErrorMatchesFailure
<1>1. IInv => ErrorMatchesFailure
  BY DEF IInv
<1> QED BY <1>1, Invariant, PTL

\* The end of audio is queued once, and nothing is queued behind it.
THEOREM FinishIsLast == Spec => NothingAfterFinish
<1>1. IInv /\ [Next]_vars => [finished => effects'.queue = <<>>]_vars
  <2> SUFFICES ASSUME IInv, Next, finished PROVE effects'.queue = <<>>
    OBVIOUS
  <2>1. fsm \in FsmStates /\ fsm.session \in SessionStates
    BY DEF IInv, TypeOK, FsmStates
  <2>2a. PICK input \in Inputs : \E r : LegalFor(fsm, r, Silent(input)) /\ Step(input, r)
    BY <2>1, EveryStepLegal
  <2>2. PICK r : LegalFor(fsm, r, Silent(input)) /\ Step(input, r)
    BY <2>2a
  <2>3. effects'.queue = r.queue
    BY <2>2 DEF Step
  <2>4. FinalIsFinal(fsm, r) /\ FinishesOnce(fsm, r)
    BY <2>2 DEF LegalFor
  <2>5. fsm.session # "active"
    BY DEF IInv, FinishedIsOver
  <2> QED BY <2>1, <2>3, <2>4, <2>5
             DEF FinalIsFinal, FinishesOnce, is_terminal, SessionStates
<1> QED BY <1>1, Invariant, PTL DEF Spec, NothingAfterFinish

\* A terminal session stays as it is whatever arrives late, and asks the
\* driver for nothing: no item, no abort, no event but dropped audio.
THEOREM TerminalKept == Spec => TerminalIsFinal
<1> DEFINE P == is_terminal(fsm.session) =>
                  /\ fsm' = fsm
                  /\ effects'.queue = <<>> /\ ~effects'.abort
                  /\ effects'.emit \in {<<>>, <<"AudioDropped">>}
<1>1. IInv /\ [Next]_vars => [P]_vars
  <2> SUFFICES ASSUME IInv, Next, is_terminal(fsm.session)
               PROVE  /\ fsm' = fsm
                      /\ effects'.queue = <<>> /\ ~effects'.abort
                      /\ effects'.emit \in {<<>>, <<"AudioDropped">>}
    OBVIOUS
  <2>1. fsm \in FsmStates
    BY DEF IInv, TypeOK
  <2>2a. PICK input \in Inputs : \E r : LegalFor(fsm, r, Silent(input)) /\ Step(input, r)
    BY <2>1, EveryStepLegal
  <2>2. PICK r : LegalFor(fsm, r, Silent(input)) /\ Step(input, r)
    BY <2>2a
  <2>3. fsm' = r.fsm /\ effects'.queue = r.queue /\ effects'.abort = r.abort
          /\ effects'.emit = r.emit
    BY <2>2 DEF Step
  <2>4. FinalIsFinal(fsm, r)
    BY <2>2 DEF LegalFor
  <2> QED BY <2>3, <2>4 DEF FinalIsFinal
<1> QED BY <1>1, Invariant, PTL DEF Spec, TerminalIsFinal

\* Once open, the accept-gate is closed only by the session leaving active: a
\* backend that reports a reload cuts no audio off (on_progress).
THEOREM GateKept == Spec => GateStaysOpen
<1> DEFINE P == accepts_audio(fsm) /\ ~accepts_audio(fsm') => fsm'.session # "active"
<1>1. IInv /\ [Next]_vars => [P]_vars
  <2> SUFFICES ASSUME IInv, Next, accepts_audio(fsm), ~accepts_audio(fsm')
               PROVE  fsm'.session # "active"
    OBVIOUS
  <2>1. fsm \in FsmStates
    BY DEF IInv, TypeOK
  <2>2a. PICK input \in Inputs : \E r : LegalFor(fsm, r, Silent(input)) /\ Step(input, r)
    BY <2>1, EveryStepLegal
  <2>2. PICK r : LegalFor(fsm, r, Silent(input)) /\ Step(input, r)
    BY <2>2a
  <2>3. fsm' = r.fsm /\ KeepsGate(fsm, r)
    BY <2>2 DEF Step, LegalFor
  <2> QED BY <2>3 DEF KeepsGate, accepts_audio, gate_open
<1> QED BY <1>1, Invariant, PTL DEF Spec, GateStaysOpen
=============================================================================
