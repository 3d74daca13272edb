------------------------------ MODULE FsmProofs ------------------------------
(***************************************************************************)
(* Proofs about the handlers of the orchestrator state machine: every      *)
(* handler of fsm.rs keeps one contract (Legal), and the ones the driver   *)
(* calls for anything but audio only ever end the session (Steady).        *)
(***************************************************************************)
EXTENDS Fsm, Functions, TLAPS

\* What one transition may queue for the transport: at most one item.
QueueItems == {<<>>, <<1>>, <<End>>}
USE DEF QueueItems

Says(r, event) == event \in Range(r.emit)

\* The contract of one transition from f with result r.
Typed(r) ==
  /\ r.fsm \in FsmStates
  /\ r.queue \in QueueItems
  /\ r.abort \in BOOLEAN
  /\ r.emit \in Seq(OrchestratorEvents)

FinalIsFinal(f, r) ==
  is_terminal(f.session) =>
    r.fsm = f /\ r.queue = <<>> /\ ~r.abort /\ r.emit \in {<<>>, <<"AudioDropped">>}

FinishesOnce(f, r) ==
  /\ f.session = "finalizing" => r.fsm.session # "active" /\ r.queue = <<>>
  /\ r.queue = <<End>> => r.fsm.session # "active"

HoldsFault(f, r) ==
  ~is_terminal(f.session) /\ (f.lost \/ Says(r, "CaptureLost")) =>
    \/ r.fsm.session \in {"active", "finalizing"} /\ r.fsm.lost
    \/ r.fsm.session = "failed" /\ r.fsm.device
    \/ r.fsm.session = "aborted"

\* A failure is told once, unless the input is the one that fails in silence.
ToldOnce(g, e, silent) ==
  /\ IF g.session = "failed" /\ ~silent
       THEN \E i : ErrorsAt(e) = {i} ELSE ErrorsAt(e) = {}
  /\ silent => g.session = "failed" /\ g.code = "capture_failed" /\ g.device

TellsFailure(f, r, silent) ==
  ~is_terminal(f.session) => ToldOnce(r.fsm, r.emit, silent)

KeepsGate(f, r) == f.residency = "resident" => r.fsm.residency = "resident"

LegalFor(f, r, silent) ==
  /\ Typed(r) /\ FinalIsFinal(f, r) /\ FinishesOnce(f, r)
  /\ HoldsFault(f, r) /\ TellsFailure(f, r, silent) /\ KeepsGate(f, r)

Legal(f, r) == LegalFor(f, r, FALSE)

-----------------------------------------------------------------------------
\* What the events of a joined sequence are; on_progress and terminate join.
LEMMA RangeConcat ==
  ASSUME NEW S, NEW s \in Seq(S), NEW t \in Seq(S)
  PROVE  s \o t \in Seq(S) /\ Range(s \o t) = Range(s) \cup Range(t)
<1>1. s \o t \in Seq(S) /\ Len(s \o t) = Len(s) + Len(t)
  OBVIOUS
<1>2. ASSUME NEW e \in Range(s \o t) PROVE e \in Range(s) \cup Range(t)
  <2>1. PICK i \in 1..(Len(s) + Len(t)) : e = (s \o t)[i]
    BY <1>1, <1>2 DEF Range
  <2>2. CASE i <= Len(s)
    BY <2>1, <2>2 DEF Range
  <2>3. CASE i > Len(s)
    <3>1. i - Len(s) \in 1..Len(t) /\ e = t[i - Len(s)]
      BY <2>1, <2>3
    <3> QED BY <3>1 DEF Range
  <2> QED BY <2>1, <2>2, <2>3
<1>3. ASSUME NEW e \in Range(s) PROVE e \in Range(s \o t)
  <2>1. PICK i \in 1..Len(s) : e = s[i]
    BY <1>3 DEF Range
  <2>2. i \in 1..Len(s \o t) /\ (s \o t)[i] = s[i]
    BY <1>1, <2>1
  <2> QED BY <2>1, <2>2, <1>1 DEF Range
<1>4. ASSUME NEW e \in Range(t) PROVE e \in Range(s \o t)
  <2>1. PICK i \in 1..Len(t) : e = t[i]
    BY <1>4 DEF Range
  <2>2. i + Len(s) \in 1..Len(s \o t) /\ (s \o t)[i + Len(s)] = t[i]
    BY <1>1, <2>1
  <2> QED BY <2>1, <2>2, <1>1 DEF Range
<1> QED BY <1>1, <1>2, <1>3, <1>4

\* Two sequences of one event each, joined.
LEMMA PairJoined ==
  ASSUME NEW S, NEW s \in Seq(S), NEW t \in Seq(S), Len(s) = 1, Len(t) = 1
  PROVE  s \o t \in Seq(S) /\ Len(s \o t) = 2 /\ (s \o t)[1] = s[1] /\ (s \o t)[2] = t[1]
<1>1. s \o t \in Seq(S) /\ Len(s \o t) = 2
  OBVIOUS
<1>2. (s \o t)[1] = s[1]
  OBVIOUS
<1>3. (s \o t)[2] = t[1]
  <2>1. ASSUME NEW i \in 1..Len(t)
        PROVE  (s \o t)[i + Len(s)] = t[i]
    BY <1>1
  <2>2. 1 \in 1..Len(t) /\ 1 + Len(s) = 2
    OBVIOUS
  <2> QED BY <2>1, <2>2
<1> QED BY <1>1, <1>2, <1>3

\* The events of a short sequence, and that they are events.
LEMMA RangeShort ==
  /\ Range(<<>>) = {}
  /\ \A e : Range(<<e>>) = {e}
BY DEF Range

\* Events without an Error tell of no failure, and terminate's tell of one.
LEMMA ErrorsCounted ==
  /\ \A e : "Error" \notin Range(e) => ErrorsAt(e) = {}
  /\ \E i : ErrorsAt(<<>> \o <<"Error">>) = {i}
  /\ \E i : ErrorsAt(<<"Done">> \o <<"Error">>) = {i}
<1>1. ASSUME NEW e, "Error" \notin Range(e) PROVE ErrorsAt(e) = {}
  BY <1>1 DEF ErrorsAt, Range
<1>2. ErrorsAt(<<>> \o <<"Error">>) = {1}
  <2>1. <<>> \o <<"Error">> = <<"Error">>
    OBVIOUS
  <2>2. DOMAIN <<"Error">> = {1} /\ <<"Error">>[1] = "Error"
    OBVIOUS
  <2> QED BY <2>1, <2>2 DEF ErrorsAt
<1>3. ErrorsAt(<<"Done">> \o <<"Error">>) = {2}
  <2> DEFINE a == <<"Done">>
             b == <<"Error">>
             e == a \o b
  <2>1. /\ a \in Seq({"Done", "Error"}) /\ Len(a) = 1 /\ a[1] = "Done"
        /\ b \in Seq({"Done", "Error"}) /\ Len(b) = 1 /\ b[1] = "Error"
    OBVIOUS
  <2> HIDE DEF a, b
  <2>2. Len(e) = 2 /\ e \in Seq({"Done", "Error"}) /\ e[1] = "Done" /\ e[2] = "Error"
    BY <2>1, PairJoined
  <2> HIDE DEF e
  <2>3. DOMAIN e = {1, 2}
    BY <2>2
  <2>4. ErrorsAt(e) = {2}
    BY <2>2, <2>3 DEF ErrorsAt
  <2> QED BY <2>4 DEF a, b, e
<1> QED BY <1>1, <1>2, <1>3

-----------------------------------------------------------------------------
(***************************************************************************)
(* Every handler keeps the contract.                                       *)
(***************************************************************************)

\* Doing nothing is legal in any state: the early return of most handlers.
LEMMA QuietLegal ==
  ASSUME NEW f \in FsmStates PROVE Legal(f, Quiet(f))
<1>1. Typed(Quiet(f))
  BY DEF Typed, Quiet, Result
<1>2. ~Says(Quiet(f), "CaptureLost") /\ ~Says(Quiet(f), "Error")
  BY RangeShort DEF Says, Quiet, Result
<1>3. FinalIsFinal(f, Quiet(f)) /\ FinishesOnce(f, Quiet(f)) /\ KeepsGate(f, Quiet(f))
  BY DEF FinalIsFinal, FinishesOnce, KeepsGate, Quiet, Result
<1>4. HoldsFault(f, Quiet(f)) /\ TellsFailure(f, Quiet(f), FALSE)
  <2>1. ErrorsAt(<<>>) = {}
    BY RangeShort, ErrorsCounted
  <2> QED BY <1>2, <2>1 DEF HoldsFault, TellsFailure, ToldOnce, Quiet, Result,
                            is_terminal, FsmStates, SessionStates
<1> QED BY <1>1, <1>3, <1>4 DEF Legal, LegalFor

\* A transition out of a live state is legal if its parts are.
LEMMA LiveLegal ==
  ASSUME NEW f \in FsmStates, ~is_terminal(f.session),
         NEW g \in FsmStates, NEW q \in QueueItems, NEW a \in BOOLEAN,
         NEW e \in Seq(OrchestratorEvents), NEW silent \in BOOLEAN,
         f.session = "finalizing" => g.session # "active" /\ q = <<>>,
         q = <<End>> => g.session # "active",
         f.lost \/ "CaptureLost" \in Range(e) =>
           \/ g.session \in {"active", "finalizing"} /\ g.lost
           \/ g.session = "failed" /\ g.device
           \/ g.session = "aborted",
         ToldOnce(g, e, silent),
         f.residency = "resident" => g.residency = "resident"
  PROVE  LegalFor(f, Result(g, q, a, e), silent)
<1> DEFINE r == Result(g, q, a, e)
<1>1. r.fsm = g /\ r.queue = q /\ r.abort = a /\ r.emit = e
  BY DEF Result
<1> HIDE DEF r
<1>2. Typed(r)
  BY <1>1 DEF Typed
<1>3. FinalIsFinal(f, r) /\ FinishesOnce(f, r) /\ KeepsGate(f, r)
  BY <1>1 DEF FinalIsFinal, FinishesOnce, KeepsGate
<1>4. HoldsFault(f, r) /\ TellsFailure(f, r, silent)
  BY <1>1 DEF HoldsFault, TellsFailure, Says
<1>5. LegalFor(f, r, silent)
  BY <1>2, <1>3, <1>4 DEF LegalFor
<1> QED BY <1>5 DEF r

\* A transition that neither fails nor says so tells the truth.
LEMMA NoFailure ==
  ASSUME NEW g, NEW e, "Error" \notin Range(e), g.session # "failed"
  PROVE  ToldOnce(g, e, FALSE)
BY ErrorsCounted DEF ToldOnce

\* No surfaced event.
LEMMA NoEvent ==
  <<>> \in Seq(OrchestratorEvents) /\ (\A e : e \notin Range(<<>>))
BY RangeShort

\* One surfaced event.
LEMMA OneEvent ==
  ASSUME NEW e \in OrchestratorEvents
  PROVE  <<e>> \in Seq(OrchestratorEvents) /\ Range(<<e>>) = {e}
BY RangeShort

\* on_audio: audio past the closed gate is dropped and nothing else happens.
LEMMA AudioLegal ==
  ASSUME NEW f \in FsmStates PROVE Legal(f, on_audio(f, 1))
<1>1. CASE accepts_audio(f)
  <2>1. Legal(f, Result(f, <<1>>, FALSE, <<>>))
    <3>1. ~is_terminal(f.session) /\ f.session = "active" /\ <<1>> # <<End>>
      BY <1>1 DEF accepts_audio, is_terminal, End
    <3>2. ToldOnce(f, <<>>, FALSE)
      BY <3>1, NoEvent, NoFailure
    <3> QED BY <3>1, <3>2, LiveLegal, NoEvent DEF Legal
  <2> QED BY <1>1, <2>1 DEF on_audio
<1>2. CASE ~accepts_audio(f)
  <2> DEFINE r == Result(f, <<>>, FALSE, <<"AudioDropped">>)
  <2>1. Legal(f, r)
    <3>1. Range(<<"AudioDropped">>) = {"AudioDropped"} /\ Typed(r)
      BY OneEvent DEF OrchestratorEvents, Typed, Result
    <3>2. FinalIsFinal(f, r) /\ FinishesOnce(f, r) /\ KeepsGate(f, r)
      BY DEF FinalIsFinal, FinishesOnce, KeepsGate, Result
    <3>3. ErrorsAt(<<"AudioDropped">>) = {}
      BY <3>1, ErrorsCounted
    <3>4. HoldsFault(f, r) /\ TellsFailure(f, r, FALSE)
      BY <3>1, <3>3 DEF HoldsFault, TellsFailure, ToldOnce, Says, Result, is_terminal,
                        FsmStates, SessionStates
    <3> QED BY <3>1, <3>2, <3>4 DEF Legal, LegalFor
  <2> QED BY <1>2, <2>1 DEF on_audio
<1> QED BY <1>1, <1>2

\* on_end_of_audio finishes an active session and only that.
LEMMA EndOfAudioLegal ==
  ASSUME NEW f \in FsmStates PROVE Legal(f, on_end_of_audio(f))
<1>1. CASE f.session = "active"
  <2> DEFINE g == [f EXCEPT !.session = "finalizing"]
  <2>1. g \in FsmStates /\ g.session = "finalizing" /\ g.lost = f.lost
          /\ g.residency = f.residency /\ ~is_terminal(f.session)
    BY <1>1 DEF FsmStates, SessionStates, is_terminal
  <2> HIDE DEF g
  <2>2. Legal(f, Result(g, <<End>>, FALSE, <<>>))
    <3>1. ToldOnce(g, <<>>, FALSE)
      BY <2>1, NoEvent, NoFailure
    <3> QED BY <1>1, <2>1, <3>1, LiveLegal, NoEvent DEF Legal
  <2> QED BY <1>1, <2>2 DEF on_end_of_audio, g
<1>2. CASE f.session # "active"
  BY <1>2, QuietLegal DEF on_end_of_audio
<1> QED BY <1>1, <1>2

\* on_abort ends a live session and drops the backend.
LEMMA AbortLegal ==
  ASSUME NEW f \in FsmStates PROVE Legal(f, on_abort(f))
<1>1. CASE ~is_terminal(f.session)
  <2> DEFINE g == [f EXCEPT !.session = "aborted"]
  <2>1. g \in FsmStates /\ g.session = "aborted" /\ g.residency = f.residency
    BY DEF FsmStates, SessionStates
  <2> HIDE DEF g
  <2>2. Legal(f, Result(g, <<>>, TRUE, <<>>))
    <3>1. ToldOnce(g, <<>>, FALSE)
      BY <2>1, NoEvent, NoFailure
    <3> QED BY <1>1, <2>1, <3>1, LiveLegal, NoEvent DEF Legal
  <2> QED BY <1>1, <2>2 DEF on_abort, g
<1>2. CASE is_terminal(f.session)
  BY <1>2, QuietLegal DEF on_abort
<1> QED BY <1>1, <1>2

\* on_capture_failed ends a live session naming the device, and is the only
\* handler that fails one without an Error.
LEMMA CaptureFailedLegal ==
  ASSUME NEW f \in FsmStates PROVE LegalFor(f, on_capture_failed(f), TRUE)
<1>1. CASE ~is_terminal(f.session)
  <2> DEFINE g == [f EXCEPT !.session = "failed", !.code = "capture_failed",
                            !.device = TRUE]
  <2>1. g \in FsmStates /\ g.session = "failed" /\ g.code = "capture_failed"
          /\ g.device = TRUE /\ g.residency = f.residency
    BY DEF FsmStates, SessionStates, FailureCodes
  <2> HIDE DEF g
  <2>2. ToldOnce(g, <<>>, TRUE)
    BY <2>1, NoEvent, ErrorsCounted DEF ToldOnce
  <2>3. LegalFor(f, Result(g, <<>>, TRUE, <<>>), TRUE)
    BY <1>1, <2>1, <2>2, LiveLegal, NoEvent
  <2> QED BY <1>1, <2>3 DEF on_capture_failed, g
<1>2. CASE is_terminal(f.session)
  <2>1. LegalFor(f, Quiet(f), TRUE)
    BY <1>2, QuietLegal DEF Legal, LegalFor, TellsFailure
  <2> QED BY <1>2, <2>1 DEF on_capture_failed
<1> QED BY <1>1, <1>2

\* on_capture_lost holds the first fault until the terminal.
LEMMA CaptureLostLegal ==
  ASSUME NEW f \in FsmStates PROVE Legal(f, on_capture_lost(f))
<1>1. CASE ~is_terminal(f.session) /\ ~f.lost
  <2> DEFINE g == [f EXCEPT !.lost = TRUE]
  <2>1. g \in FsmStates /\ g.session = f.session /\ g.lost = TRUE
          /\ g.residency = f.residency /\ f.session \in {"active", "finalizing"}
    BY <1>1 DEF FsmStates, SessionStates, is_terminal
  <2> HIDE DEF g
  <2>2. <<"CaptureLost">> \in Seq(OrchestratorEvents)
          /\ Range(<<"CaptureLost">>) = {"CaptureLost"}
    BY OneEvent DEF OrchestratorEvents
  <2>3. Legal(f, Result(g, <<>>, FALSE, <<"CaptureLost">>))
    <3>1. ToldOnce(g, <<"CaptureLost">>, FALSE)
      BY <2>1, <2>2, NoFailure
    <3> QED BY <1>1, <2>1, <2>2, <3>1, LiveLegal DEF Legal
  <2> QED BY <1>1, <2>3 DEF on_capture_lost, g
<1>2. CASE is_terminal(f.session) \/ f.lost
  BY <1>2, QuietLegal DEF on_capture_lost
<1> QED BY <1>1, <1>2

\* terminate fails a live session, tells the user, and lets go of a held fault
\* only if the failure names the device.
LEMMA TerminateLegal ==
  ASSUME NEW f \in FsmStates, ~is_terminal(f.session),
         NEW code \in FailureCodes, NEW device \in BOOLEAN, f.lost => device,
         NEW abort \in BOOLEAN, NEW emit \in {<<>>, <<"Done">>}
  PROVE  Legal(f, terminate(f, code, device, abort, emit))
<1> DEFINE g == [f EXCEPT !.session = "failed", !.code = code, !.device = device,
                          !.lost = FALSE]
           e == emit \o <<"Error">>
<1>1. g \in FsmStates /\ g.session = "failed" /\ g.code = code
        /\ g.device = device /\ g.residency = f.residency
  BY DEF FsmStates, SessionStates
<1>2. e \in Seq(OrchestratorEvents) /\ Range(e) = Range(emit) \cup {"Error"}
  <2>1. "Done" \in OrchestratorEvents /\ "Error" \in OrchestratorEvents
    BY DEF OrchestratorEvents
  <2>2. <<"Error">> \in Seq(OrchestratorEvents) /\ Range(<<"Error">>) = {"Error"}
    BY <2>1, OneEvent
  <2>3. emit \in Seq(OrchestratorEvents)
    <3>1. CASE emit = <<>>
      BY <3>1, NoEvent
    <3>2. CASE emit = <<"Done">>
      BY <2>1, <3>2, OneEvent
    <3> QED BY <3>1, <3>2
  <2> DEFINE error == <<"Error">>
  <2>4. error \in Seq(OrchestratorEvents) /\ Range(error) = {"Error"}
    BY <2>2
  <2> HIDE DEF error
  <2>5. emit \o error \in Seq(OrchestratorEvents)
          /\ Range(emit \o error) = Range(emit) \cup Range(error)
    BY <2>3, <2>4, RangeConcat
  <2> QED BY <2>4, <2>5 DEF error
<1>3. "CaptureLost" \notin Range(e)
  <2>1. Range(emit) \subseteq {"Done"}
    BY RangeShort
  <2> QED BY <1>2, <2>1
<1>4. \E i : ErrorsAt(e) = {i}
  BY ErrorsCounted
<1> HIDE DEF g, e
<1>5. ToldOnce(g, e, FALSE)
  BY <1>1, <1>4 DEF ToldOnce
<1>6. Legal(f, Result(g, <<>>, abort, e))
  BY <1>1, <1>2, <1>3, <1>5, LiveLegal DEF Legal
<1> QED BY <1>6 DEF terminate, g, e

\* fail names the device exactly when a fault is held.
LEMMA FailLegal ==
  ASSUME NEW f \in FsmStates, ~is_terminal(f.session), NEW code \in FailureCodes,
         NEW abort \in BOOLEAN
  PROVE  Legal(f, fail(f, code, abort))
<1>1. f.lost \in BOOLEAN
  BY DEF FsmStates
<1> QED BY <1>1, TerminateLegal DEF fail

\* on_backend_closed: a connection that ends early is a failure.
LEMMA ClosedLegal ==
  ASSUME NEW f \in FsmStates PROVE Legal(f, on_backend_closed(f))
BY FailLegal, QuietLegal DEF on_backend_closed, FailureCodes

\* on_stalled: the deadline is a failure, unless the session ended first.
LEMMA StalledLegal ==
  ASSUME NEW f \in FsmStates PROVE Legal(f, on_stalled(f))
BY FailLegal, QuietLegal DEF on_stalled, FailureCodes

\* Events that neither announce nor hold a failure.
Harmless == OrchestratorEvents \ {"Error", "CaptureLost"}

\* A step that keeps the session going and surfaces harmless events is legal.
LEMMA ServingLegal ==
  ASSUME NEW f \in FsmStates, ~is_terminal(f.session), NEW g \in FsmStates,
         g.session = f.session, g.lost = f.lost,
         f.residency = "resident" => g.residency = "resident",
         NEW e \in Seq(Harmless)
  PROVE  Legal(f, Result(g, <<>>, FALSE, e))
<1>1. e \in Seq(OrchestratorEvents)
  BY DEF Harmless
<1>2. "Error" \notin Range(e) /\ "CaptureLost" \notin Range(e)
  BY DEF Harmless, Range
<1>3. f.session \in {"active", "finalizing"}
  BY DEF FsmStates, SessionStates, is_terminal
<1>4. <<>> # <<End>>
  OBVIOUS
<1>5. ToldOnce(g, e, FALSE)
  BY <1>2, <1>3, NoFailure
<1> QED BY <1>1, <1>2, <1>3, <1>4, <1>5, LiveLegal DEF Legal

\* Opening the gate changes nothing else.
LEMMA ResidentOnly ==
  ASSUME NEW f \in FsmStates
  PROVE  LET g == mark_resident(f) IN
         /\ g \in FsmStates /\ g.session = f.session /\ g.lost = f.lost
         /\ g.residency = "resident"
         /\ ReadyOnce(f) \in Seq(Harmless)
<1>1. ReadyOnce(f) \in Seq(Harmless)
  <2>1. <<"Ready">> \in Seq(Harmless) /\ <<>> \in Seq(Harmless)
    BY DEF Harmless, OrchestratorEvents
  <2>2. ReadyOnce(f) = <<"Ready">> \/ ReadyOnce(f) = <<>>
    BY DEF ReadyOnce
  <2> QED BY <2>1, <2>2
<1> QED BY <1>1 DEF mark_resident, FsmStates, Residencies

\* on_progress in every phase, with any snippet and warning, keeps the session
\* going and surfaces harmless events.
LEMMA ProgressServes ==
  ASSUME NEW f \in FsmStates, NEW event \in TranscriptionEvents, event.type = "progress"
  PROVE  \E g \in FsmStates, e \in Seq(Harmless) :
           /\ on_progress(f, event) = Result(g, <<>>, FALSE, e)
           /\ g.session = f.session /\ g.lost = f.lost
           /\ f.residency = "resident" => g.residency = "resident"
<1> DEFINE notes == (IF event.snippet THEN <<"Snippet">> ELSE <<>>)
                      \o (IF event.warning THEN <<"Warning">> ELSE <<>>)
<1>0. event.snippet \in BOOLEAN /\ event.warning \in BOOLEAN
  BY DEF TranscriptionEvents
<1>1. notes \in Seq(Harmless)
  <2> DEFINE snippet == IF event.snippet THEN <<"Snippet">> ELSE <<>>
             warning == IF event.warning THEN <<"Warning">> ELSE <<>>
  <2>1. <<>> \in Seq(Harmless) /\ <<"Snippet">> \in Seq(Harmless)
          /\ <<"Warning">> \in Seq(Harmless)
    BY DEF Harmless, OrchestratorEvents
  <2>2. snippet = <<"Snippet">> \/ snippet = <<>>
    BY <1>0
  <2>3. warning = <<"Warning">> \/ warning = <<>>
    BY <1>0
  <2>4. snippet \in Seq(Harmless) /\ warning \in Seq(Harmless)
    <3> HIDE DEF snippet, warning
    <3> QED BY <2>1, <2>2, <2>3
  <2> HIDE DEF snippet, warning
  <2>5. snippet \o warning \in Seq(Harmless)
    BY <2>4, RangeConcat
  <2> QED BY <2>5 DEF snippet, warning
<1> HIDE DEF notes
<1>2. CASE event.phase = "preparing" /\ f.residency = "unloaded"
  <2> DEFINE g == [f EXCEPT !.residency = "loading"]
             e == <<"Loading">> \o notes
  <2>1. g \in FsmStates /\ g.session = f.session /\ g.lost = f.lost
    BY DEF FsmStates, Residencies
  <2>2. e \in Seq(Harmless)
    BY <1>1 DEF Harmless, OrchestratorEvents
  <2>3. on_progress(f, event) = Result(g, <<>>, FALSE, e)
    BY <1>2 DEF on_progress, notes
  <2> HIDE DEF g, e
  <2> QED BY <1>2, <2>1, <2>2, <2>3
<1>3. CASE event.phase = "ready"
  <2> DEFINE e == ReadyOnce(f) \o notes
  <2>1. e \in Seq(Harmless)
    BY <1>1, ResidentOnly
  <2>2. on_progress(f, event) = Result(mark_resident(f), <<>>, FALSE, e)
    BY <1>3 DEF on_progress, notes
  <2> HIDE DEF e
  <2> QED BY <2>1, <2>2, ResidentOnly
<1>4. CASE event.phase = "transcribing"
  <2> DEFINE e == ReadyOnce(f) \o <<"Transcribing">> \o notes
  <2>1. e \in Seq(Harmless)
    <3>1. <<"Transcribing">> \in Seq(Harmless)
      BY DEF Harmless, OrchestratorEvents
    <3> QED BY <1>1, <3>1, ResidentOnly
  <2>2. on_progress(f, event) = Result(mark_resident(f), <<>>, FALSE, e)
    BY <1>4 DEF on_progress, notes
  <2> HIDE DEF e
  <2> QED BY <2>1, <2>2, ResidentOnly
<1>5. CASE /\ ~(event.phase = "preparing" /\ f.residency = "unloaded")
           /\ event.phase # "ready" /\ event.phase # "transcribing"
  <2>1. on_progress(f, event) = Result(f, <<>>, FALSE, notes)
    BY <1>5 DEF on_progress, notes
  <2> QED BY <1>1, <2>1
<1> QED BY <1>2, <1>3, <1>4, <1>5

\* So it is legal.
LEMMA ProgressLegal ==
  ASSUME NEW f \in FsmStates, ~is_terminal(f.session),
         NEW event \in TranscriptionEvents, event.type = "progress"
  PROVE  Legal(f, on_progress(f, event))
<1>1. PICK g \in FsmStates, e \in Seq(Harmless) :
        /\ on_progress(f, event) = Result(g, <<>>, FALSE, e)
        /\ g.session = f.session /\ g.lost = f.lost
        /\ f.residency = "resident" => g.residency = "resident"
  BY ProgressServes
<1>2. Legal(f, Result(g, <<>>, FALSE, e))
  BY <1>1, ServingLegal
<1> QED BY <1>1, <1>2

\* on_done: a held fault turns the completion into a failure.
LEMMA DoneLegal ==
  ASSUME NEW f \in FsmStates, ~is_terminal(f.session) PROVE Legal(f, on_done(f))
<1>1. CASE f.lost
  <2>1. Legal(f, terminate(f, "capture_failed", TRUE, FALSE, <<"Done">>))
    BY TerminateLegal DEF FailureCodes
  <2> QED BY <1>1, <2>1 DEF on_done
<1>2. CASE ~f.lost
  <2> DEFINE g == [f EXCEPT !.session = "done"]
  <2>1. g \in FsmStates /\ g.session = "done" /\ g.residency = f.residency
    BY DEF FsmStates, SessionStates
  <2>2. <<"Done">> \in Seq(OrchestratorEvents) /\ Range(<<"Done">>) = {"Done"}
    BY OneEvent DEF OrchestratorEvents
  <2> HIDE DEF g
  <2>3. Legal(f, Result(g, <<>>, FALSE, <<"Done">>))
    <3>1. ToldOnce(g, <<"Done">>, FALSE)
      BY <2>1, <2>2, NoFailure
    <3> QED BY <1>2, <2>1, <2>2, <3>1, LiveLegal DEF Legal
  <2> QED BY <1>2, <2>3 DEF on_done, g
<1> QED BY <1>1, <1>2

\* on_backend over every event of the wire.
LEMMA BackendLegal ==
  ASSUME NEW f \in FsmStates, NEW event \in TranscriptionEvents
  PROVE  Legal(f, on_backend(f, event))
<1>1. CASE is_terminal(f.session)
  BY <1>1, QuietLegal DEF on_backend
<1>2. CASE ~is_terminal(f.session)
  <2>1. CASE event.type = "progress"
    BY <1>2, <2>1, ProgressLegal DEF on_backend
  <2>2. CASE event.type = "committed"
    <3>1. ReadyOnce(f) \o <<"Final">> \in Seq(Harmless)
      BY ResidentOnly DEF Harmless, OrchestratorEvents
    <3>2. Legal(f, Result(mark_resident(f), <<>>, FALSE, ReadyOnce(f) \o <<"Final">>))
      BY <1>2, <3>1, ResidentOnly, ServingLegal
    <3> QED BY <1>2, <2>2, <3>2 DEF on_backend
  <2>3. CASE event.type = "unstable"
    <3>1. ReadyOnce(f) \o <<"Unstable">> \in Seq(Harmless)
      BY ResidentOnly DEF Harmless, OrchestratorEvents
    <3>2. Legal(f, Result(mark_resident(f), <<>>, FALSE, ReadyOnce(f) \o <<"Unstable">>))
      BY <1>2, <3>1, ResidentOnly, ServingLegal
    <3> QED BY <1>2, <2>3, <3>2 DEF on_backend
  <2>4. CASE event.type = "done"
    BY <1>2, <2>4, DoneLegal DEF on_backend
  <2>5. CASE event.type = "error"
    <3>1. Legal(f, fail(f, "server_error", FALSE))
      BY <1>2, FailLegal DEF FailureCodes
    <3> QED BY <1>2, <2>5, <3>1 DEF on_backend
  <2> QED BY <2>1, <2>2, <2>3, <2>4, <2>5 DEF TranscriptionEvents
<1> QED BY <1>1, <1>2

-----------------------------------------------------------------------------
(***************************************************************************)
(* What the driver relies on besides: a backend event, a closed connection *)
(* and a stall queue nothing, leave the session as it is or end it, end it *)
(* well only with no fault held, and announce no salvage.                  *)
(***************************************************************************)
Audible == OrchestratorEvents \ {"CaptureLost"}

Steady(f, r) ==
  /\ r.fsm \in FsmStates /\ r.queue = <<>> /\ r.emit \in Seq(Audible)
  /\ r.fsm.session \in {f.session, "done", "failed"}
  /\ r.fsm.session = f.session => r.fsm.lost = f.lost
  /\ r.fsm.session = "done" => ~f.lost

\* A result is steady if its parts are.
LEMMA SteadyParts ==
  ASSUME NEW f \in FsmStates, ~is_terminal(f.session), NEW g \in FsmStates,
         NEW a \in BOOLEAN, NEW e \in Seq(Audible),
         g.session \in {f.session, "done", "failed"},
         g.session = f.session => g.lost = f.lost,
         g.session = "done" => ~f.lost
  PROVE  Steady(f, Result(g, <<>>, a, e))
BY DEF Steady, Result

\* terminate is steady.
LEMMA TerminateSteady ==
  ASSUME NEW f \in FsmStates, ~is_terminal(f.session), NEW code \in FailureCodes,
         NEW device \in BOOLEAN, NEW a \in BOOLEAN, NEW emit \in {<<>>, <<"Done">>}
  PROVE  LET r == terminate(f, code, device, a, emit) IN
         Steady(f, r) /\ r.fsm.session = "failed"
<1> DEFINE g == [f EXCEPT !.session = "failed", !.code = code, !.device = device,
                          !.lost = FALSE]
           e == emit \o <<"Error">>
<1>1. g \in FsmStates /\ g.session = "failed"
  BY DEF FsmStates, SessionStates
<1>2. e \in Seq(Audible)
  <2>1. <<"Error">> \in Seq(Audible) /\ <<"Done">> \in Seq(Audible) /\ <<>> \in Seq(Audible)
    BY DEF Audible, OrchestratorEvents
  <2> DEFINE error == <<"Error">>
  <2>2. error \in Seq(Audible) /\ emit \in Seq(Audible)
    BY <2>1
  <2> HIDE DEF error
  <2>3. emit \o error \in Seq(Audible)
    BY <2>2, RangeConcat
  <2> QED BY <2>3 DEF error
<1>3. f.session # "failed"
  BY DEF is_terminal
<1> HIDE DEF g, e
<1>4. Steady(f, Result(g, <<>>, a, e)) /\ Result(g, <<>>, a, e).fsm = g
  BY <1>1, <1>2, <1>3, SteadyParts DEF Result
<1> QED BY <1>1, <1>4 DEF terminate, g, e

\* A step that keeps the session going and surfaces harmless events is steady.
LEMMA ServingSteady ==
  ASSUME NEW f \in FsmStates, ~is_terminal(f.session), NEW g \in FsmStates,
         g.session = f.session, g.lost = f.lost, NEW e \in Seq(Harmless)
  PROVE  Steady(f, Result(g, <<>>, FALSE, e))
<1>1. e \in Seq(Audible)
  BY DEF Harmless, Audible
<1>2. g.session # "done"
  BY DEF is_terminal
<1> QED BY <1>1, <1>2, SteadyParts

\* Which results on_progress has.
LEMMA ProgressSteady ==
  ASSUME NEW f \in FsmStates, ~is_terminal(f.session),
         NEW event \in TranscriptionEvents, event.type = "progress"
  PROVE  LET r == on_progress(f, event) IN Steady(f, r) /\ r.fsm.session = f.session
<1> DEFINE r == on_progress(f, event)
<1>1. PICK g \in FsmStates, e \in Seq(Harmless) :
        r = Result(g, <<>>, FALSE, e) /\ g.session = f.session /\ g.lost = f.lost
  BY ProgressServes
<1>2. Steady(f, Result(g, <<>>, FALSE, e)) /\ Result(g, <<>>, FALSE, e).fsm = g
  BY <1>1, ServingSteady DEF Result
<1> HIDE DEF r
<1>3. Steady(f, r) /\ r.fsm.session = f.session
  BY <1>1, <1>2
<1> QED BY <1>3 DEF r

\* on_backend: only a done event with no fault held completes the session.
LEMMA BackendSteady ==
  ASSUME NEW f \in FsmStates, ~is_terminal(f.session), NEW event \in TranscriptionEvents
  PROVE  LET r == on_backend(f, event) IN
         Steady(f, r) /\ (r.fsm.session = "done" => event.type = "done")
<1>0. f.session # "done"
  BY DEF is_terminal
<1>1. CASE event.type = "progress"
  BY <1>0, <1>1, ProgressSteady DEF on_backend
<1>2. CASE event.type \in {"committed", "unstable"}
  <2> DEFINE what == IF event.type = "committed" THEN "Final" ELSE "Unstable"
             e == ReadyOnce(f) \o <<what>>
  <2>1. e \in Seq(Harmless)
    <3>1. <<what>> \in Seq(Harmless)
      BY DEF Harmless, OrchestratorEvents
    <3> HIDE DEF what
    <3> QED BY <3>1, ResidentOnly, RangeConcat
  <2>2. on_backend(f, event) = Result(mark_resident(f), <<>>, FALSE, e)
    BY <1>2 DEF on_backend
  <2> HIDE DEF e
  <2>3. Steady(f, Result(mark_resident(f), <<>>, FALSE, e))
    BY <2>1, ResidentOnly, ServingSteady
  <2> QED BY <1>0, <2>2, <2>3, ResidentOnly DEF Result
<1>3. CASE event.type = "done"
  <2>1. CASE f.lost
    <3>1. Steady(f, terminate(f, "capture_failed", TRUE, FALSE, <<"Done">>))
      BY TerminateSteady DEF FailureCodes
    <3> QED BY <1>3, <2>1, <3>1 DEF on_backend, on_done
  <2>2. CASE ~f.lost
    <3> DEFINE g == [f EXCEPT !.session = "done"]
    <3>1. g \in FsmStates /\ g.session = "done" /\ <<"Done">> \in Seq(Audible)
      BY DEF FsmStates, SessionStates, Audible, OrchestratorEvents
    <3> HIDE DEF g
    <3>2. Steady(f, Result(g, <<>>, FALSE, <<"Done">>))
      BY <1>0, <2>2, <3>1, SteadyParts
    <3> QED BY <1>3, <2>2, <3>2 DEF on_backend, on_done, g
  <2> QED BY <2>1, <2>2
<1>4. CASE event.type = "error"
  <2>1. f.lost \in BOOLEAN
    BY DEF FsmStates
  <2>2. LET r == fail(f, "server_error", FALSE) IN Steady(f, r) /\ r.fsm.session = "failed"
    BY <2>1, TerminateSteady DEF fail, FailureCodes
  <2> QED BY <1>4, <2>2 DEF on_backend
<1> QED BY <1>1, <1>2, <1>3, <1>4 DEF TranscriptionEvents

\* on_backend_closed and on_stalled fail the session.
LEMMA FailSteady ==
  ASSUME NEW f \in FsmStates, ~is_terminal(f.session)
  PROVE  /\ Steady(f, on_backend_closed(f)) /\ on_backend_closed(f).fsm.session = "failed"
         /\ Steady(f, on_stalled(f)) /\ on_stalled(f).fsm.session = "failed"
<1>1. f.lost \in BOOLEAN
  BY DEF FsmStates
<1>2. ASSUME NEW code \in FailureCodes, NEW a \in BOOLEAN
      PROVE  Steady(f, fail(f, code, a)) /\ fail(f, code, a).fsm.session = "failed"
  BY <1>1, TerminateSteady DEF fail
<1> QED BY <1>2 DEF on_backend_closed, on_stalled, FailureCodes
=============================================================================
