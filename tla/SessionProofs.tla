---------------------------- MODULE SessionProofs ----------------------------
(***************************************************************************)
(* Proofs about one dictation end to end: the composition of the driver,   *)
(* the capture side and the transport keeps the speech whole, never calls  *)
(* a truncated utterance complete, runs its deadline exactly while it      *)
(* should, and implements the promise of Utterance, for any capacities,    *)
(* any number of chunks and any peer.                                      *)
(***************************************************************************)
EXTENDS SessionMachine, FsmProofs, SequenceTheorems, TLAPS

-----------------------------------------------------------------------------
(***************************************************************************)
(* The capture side: what the pump, the ring and the two channels keep     *)
(* true of each other at every step.                                       *)
(***************************************************************************)

\* The chunks after a up to b, in order.
Span(a, b) == [i \in 1..(b - a) |-> a + i]

-----------------------------------------------------------------------------
(***************************************************************************)
(* Queues.                                                                 *)
(***************************************************************************)

\* A span is a sequence of chunk numbers.
LEMMA SpanSeq ==
  ASSUME NEW a \in Nat, NEW b \in Nat, a <= b
  PROVE  /\ Span(a, b) \in Seq(Nat) /\ Len(Span(a, b)) = b - a
         /\ \A i \in 1..(b - a) : Span(a, b)[i] = a + i
<1>1. b - a \in Nat /\ \A i \in 1..(b - a) : a + i \in Nat
  OBVIOUS
<1> QED BY <1>1 DEF Span

\* The next chunk extends a span.
LEMMA SpanGrows ==
  ASSUME NEW a \in Nat, NEW b \in Nat, a <= b
  PROVE  Append(Span(a, b), b + 1) = Span(a, b + 1)
<1> DEFINE s == Append(Span(a, b), b + 1)
           t == Span(a, b + 1)
<1>1. s \in Seq(Nat) /\ Len(s) = b - a + 1
        /\ \A i \in 1..(b - a + 1) : s[i] = IF i <= b - a THEN a + i ELSE b + 1
  <2> DEFINE u == Span(a, b)
  <2>1. u \in Seq(Nat) /\ Len(u) = b - a /\ \A i \in 1..(b - a) : u[i] = a + i
    BY SpanSeq
  <2> HIDE DEF u
  <2>2. Append(u, b + 1) \in Seq(Nat) /\ Len(Append(u, b + 1)) = b - a + 1
          /\ \A i \in 1..(b - a + 1) :
               Append(u, b + 1)[i] = IF i <= b - a THEN u[i] ELSE b + 1
    BY <2>1
  <2>3. \A i \in 1..(b - a + 1) : i <= b - a => i \in 1..(b - a)
    OBVIOUS
  <2> QED BY <2>1, <2>2, <2>3 DEF u
<1>2. t \in Seq(Nat) /\ Len(t) = b - a + 1 /\ \A i \in 1..(b - a + 1) : t[i] = a + i
  BY SpanSeq, b + 1 \in Nat, a <= b + 1, b + 1 - a = b - a + 1
<1> HIDE DEF s, t
<1>3. \A i \in 1..Len(s) : s[i] = t[i]
  BY <1>1, <1>2
<1>4. s = t
  BY <1>1, <1>2, <1>3, SeqEqual
<1> QED BY <1>4 DEF s, t

\* Reading the first chunk of a span leaves the rest.
LEMMA SpanShrinks ==
  ASSUME NEW a \in Nat, NEW b \in Nat, a < b
  PROVE  Head(Span(a, b)) = a + 1 /\ Tail(Span(a, b)) = Span(a + 1, b)
<1> DEFINE s == Span(a, b)
           t == Span(a + 1, b)
<1>1. s \in Seq(Nat) /\ Len(s) = b - a /\ \A i \in 1..(b - a) : s[i] = a + i
  BY SpanSeq
<1>2. t \in Seq(Nat) /\ Len(t) = b - a - 1 /\ \A i \in 1..(b - a - 1) : t[i] = a + 1 + i
  BY SpanSeq, a + 1 \in Nat, a + 1 <= b, b - (a + 1) = b - a - 1
<1> HIDE DEF s, t
<1>3. s # <<>> /\ Head(s) = a + 1
  BY <1>1
<1>4. Tail(s) \in Seq(Nat) /\ Len(Tail(s)) = b - a - 1
        /\ \A i \in 1..(b - a - 1) : Tail(s)[i] = s[i + 1]
  BY <1>1, <1>3
<1>5. \A i \in 1..(b - a - 1) : Tail(s)[i] = t[i]
  BY <1>1, <1>2, <1>4
<1>6. Tail(s) = t
  BY <1>2, <1>4, <1>5, SeqEqual
<1> QED BY <1>3, <1>6 DEF s, t

\* How queues are joined does not matter.
LEMMA Joined ==
  ASSUME NEW i \in Seq(Nat), NEW j \in Seq(Nat), NEW k \in Seq(Nat)
  PROVE  (i \o j) \o k = i \o (j \o k)
<1> DEFINE N == Nat
<1>1. i \in Seq(N) /\ j \in Seq(N) /\ k \in Seq(N)
  OBVIOUS
<1> HIDE DEF N
<1> QED BY ONLY <1>1, ConcatAssociative

\* Adding to the last of two queues adds to their whole.
LEMMA ConcatAppend ==
  ASSUME NEW S, NEW s \in Seq(S), NEW t \in Seq(S), NEW e \in S
  PROVE  s \o Append(t, e) = Append(s \o t, e)
<1>1. Append(t, e) = t \o <<e>> /\ Append(s \o t, e) = (s \o t) \o <<e>>
  BY AppendIsConcat, ConcatProperties
<1>2. <<e>> \in Seq(S)
  OBVIOUS
<1> QED BY <1>1, <1>2, ConcatAssociative

\* Moving the head of one queue to the end of the queue before it changes
\* nothing about the two together.
LEMMA MoveHead ==
  ASSUME NEW S, NEW s \in Seq(S), NEW t \in Seq(S), t # <<>>
  PROVE  (s \o <<Head(t)>>) \o Tail(t) = s \o t
<1>1. Head(t) \in S /\ Tail(t) \in Seq(S) /\ <<Head(t)>> \in Seq(S)
  BY HeadTailProperties
<1>2. <<Head(t)>> \o Tail(t) = t
  <2> DEFINE u == <<Head(t)>> \o Tail(t)
  <2>1. Len(t) \in Nat /\ Len(t) >= 1 /\ Len(Tail(t)) = Len(t) - 1
          /\ \A i \in 1..(Len(t) - 1) : Tail(t)[i] = t[i + 1]
    OBVIOUS
  <2>2. u \in Seq(S) /\ Len(u) = Len(t)
          /\ \A i \in 1..Len(t) : u[i] = IF i <= 1 THEN Head(t) ELSE Tail(t)[i - 1]
    BY <1>1, <2>1, ConcatProperties
  <2> HIDE DEF u
  <2>3. \A i \in 1..Len(t) : u[i] = t[i]
    BY <2>1, <2>2
  <2>4. u = t
    BY <2>2, <2>3, SeqEqual
  <2> QED BY <2>4 DEF u
<1> QED BY <1>1, <1>2, ConcatAssociative

\* The head of a queue in front of another is the head of the whole.
LEMMA TakeHead ==
  ASSUME NEW S, NEW s \in Seq(S), NEW t \in Seq(S), s # <<>>
  PROVE  s \o t # <<>> /\ Head(s \o t) = Head(s) /\ Tail(s \o t) = Tail(s) \o t
<1>1. s \o t \in Seq(S) /\ Len(s \o t) = Len(s) + Len(t) /\ Len(s) >= 1
        /\ \A i \in 1..(Len(s) + Len(t)) : (s \o t)[i] = IF i <= Len(s) THEN s[i] ELSE t[i - Len(s)]
  BY ConcatProperties
<1>2. s \o t # <<>> /\ Head(s \o t) = Head(s)
  BY <1>1
<1> DEFINE u == Tail(s \o t)
           v == Tail(s) \o t
<1>3. u \in Seq(S) /\ Len(u) = Len(s) + Len(t) - 1
        /\ \A i \in 1..(Len(s) + Len(t) - 1) : u[i] = (s \o t)[i + 1]
  BY <1>1, <1>2
<1>4. Tail(s) \in Seq(S) /\ Len(Tail(s)) = Len(s) - 1
        /\ \A i \in 1..(Len(s) - 1) : Tail(s)[i] = s[i + 1]
  BY <1>1
<1>5. v \in Seq(S) /\ Len(v) = Len(s) + Len(t) - 1
        /\ \A i \in 1..(Len(s) + Len(t) - 1) :
              v[i] = IF i <= Len(s) - 1 THEN s[i + 1] ELSE t[i - Len(s) + 1]
  <2>1. v \in Seq(S) /\ Len(v) = Len(Tail(s)) + Len(t)
          /\ \A i \in 1..(Len(Tail(s)) + Len(t)) :
               v[i] = IF i <= Len(Tail(s)) THEN Tail(s)[i] ELSE t[i - Len(Tail(s))]
    BY <1>4, ConcatProperties
  <2> QED BY <2>1, <1>4, Len(s) \in Nat, Len(t) \in Nat
<1> HIDE DEF u, v
<1>6. \A i \in 1..Len(u) : u[i] = v[i]
  BY <1>1, <1>3, <1>5, Len(s) \in Nat, Len(t) \in Nat
<1>7. u = v
  BY <1>3, <1>5, <1>6, SeqEqual
<1> QED BY <1>2, <1>7 DEF u, v

\* What a queue holds after an item is taken from its head.
LEMMA RangeTail ==
  ASSUME NEW S, NEW s \in Seq(S), s # <<>>
  PROVE  Tail(s) \in Seq(S) /\ Range(s) = {Head(s)} \cup Range(Tail(s))
<1>1. Tail(s) \in Seq(S) /\ Head(s) \in S /\ <<Head(s)>> \in Seq(S)
  BY HeadTailProperties
<1>2. <<Head(s)>> \o Tail(s) = s
  BY <1>1, MoveHead, ConcatEmptySeq
<1>3. Range(<<Head(s)>>) = {Head(s)}
  BY DEF Range
<1>4. Range(<<Head(s)>> \o Tail(s)) = Range(<<Head(s)>>) \cup Range(Tail(s))
  BY <1>1, RangeConcatenation, ZenonT(40)
<1> QED BY <1>1, <1>2, <1>3, <1>4

-----------------------------------------------------------------------------
(***************************************************************************)
(* The invariant.                                                          *)
(***************************************************************************)

\* No chunk can be pushed any more; capture is over, for the ring or for health.
StreamOver == ring_done \/ ring_closed
CaptureOver == StreamOver \/ Terminal(health)

PumpTypes ==
  [health_open : BOOLEAN, stream_open : BOOLEAN, ended : BOOLEAN,
   accepted : BOOLEAN, fault : Faults \cup {NoFault}, reported : BOOLEAN,
   pending : {<<>>} \cup {<<i>> : i \in Nat}, running : BOOLEAN]

CaptureTypes ==
  /\ captured \in Nat /\ taken \in 0..captured
  /\ ring \in Seq(Nat \ {EndOfAudio}) /\ inputs \in Seq(Nat)
  /\ ring_done \in BOOLEAN /\ ring_closed \in BOOLEAN
  /\ ring_fault \in Faults \cup {NoFault} /\ verdict \in Faults \cup {NoFault}
  /\ listening \in BOOLEAN
  /\ pump \in PumpTypes
  /\ control \in Seq(ControlMessages) /\ sent \in Seq(ControlMessages)

\* A closed ring is empty, and only a finished one has a fault to deliver.
RingSound ==
  /\ ring_closed => ring = <<>>
  /\ ring_fault # NoFault => ring_done

\* A pump that has returned has closed the ring; one whose stream has ended
\* has nothing left but the end of audio to send.
PumpSound ==
  /\ ~pump.running => ring_closed
  /\ ~pump.stream_open => ring = <<>> /\ StreamOver
  /\ pump.running /\ ~pump.stream_open => pump.pending = <<EndOfAudio>>
  /\ pump.pending = <<EndOfAudio>> => ~pump.stream_open /\ pump.ended
  /\ pump.fault # NoFault => CaptureOver

\* The driver is only told that capture is over when it is, and a pump that
\* returned has told it.
SentSound ==
  /\ sent # <<>> => CaptureOver
  /\ "CaptureFailed" \in Range(sent) => ~pump.running
  /\ listening /\ ~pump.running => pump.ended \/ "CaptureFailed" \in Range(sent)
  /\ Range(control) \subseteq Range(sent)

\* Everything between the driver and the device, oldest first, is what the
\* driver has not read yet, and the end of audio behind the last of it, which
\* a capture that failed never gets.
Upstream == inputs \o pump.pending \o ring
FlowSound ==
  listening =>
    \/ Upstream = Span(taken, captured)
    \/ /\ ~pump.stream_open /\ "CaptureFailed" \notin Range(sent)
       /\ Upstream = Append(Span(taken, captured), EndOfAudio)

CapInv == CaptureTypes /\ RingSound /\ PumpSound /\ SentSound /\ FlowSound

\* What the ring holds is a queue of numbers.
LEMMA RingSeq == CaptureTypes => ring \in Seq(Nat)
BY SeqMonotonic DEF CaptureTypes

\* The pending item is a queue of its own, of one place.
LEMMA PendingSeq == CaptureTypes => pump.pending \in Seq(Nat)
<1> SUFFICES ASSUME CaptureTypes PROVE pump.pending \in Seq(Nat)
  OBVIOUS
<1>1. pump.pending = <<>> \/ \E i \in Nat : pump.pending = <<i>>
  BY DEF CaptureTypes, PumpTypes
<1>2. CASE pump.pending = <<>>
  BY <1>2, EmptySeq
<1>3. ASSUME NEW i \in Nat, pump.pending = <<i>> PROVE pump.pending \in Seq(Nat)
  <2>1. <<i>> \in Seq(Nat)
    OBVIOUS
  <2> QED BY <1>3, <2>1
<1> QED BY <1>1, <1>2, <1>3

-----------------------------------------------------------------------------
(***************************************************************************)
(* The code after the select.                                              *)
(***************************************************************************)

\* While the stream is open or an item is pending, the code after the select
\* only announces a salvage.
LEMMA PassGoesOn ==
  ASSUME NEW p \in PumpTypes, p.stream_open \/ p.pending # <<>>
  PROVE  LET q == AfterSelect(p) IN
         /\ q \in PumpTypes
         /\ q.running = p.running /\ q.pending = p.pending /\ q.fault = p.fault
         /\ q.stream_open = p.stream_open
         /\ q.ended = (p.ended \/ Salvage(p))
         /\ TailSends(p) = IF Salvage(p) THEN <<"CaptureLost">> ELSE <<>>
<1> DEFINE a == Announced(p)
<1>1. /\ a \in PumpTypes /\ a.running = p.running /\ a.pending = p.pending
      /\ a.fault = p.fault /\ a.stream_open = p.stream_open
      /\ a.ended = (p.ended \/ Salvage(p))
  BY DEF Announced, PumpTypes
<1>2. ~Hopeless(a) /\ ~Closing(a)
  BY <1>1 DEF Hopeless, Closing, Over
<1>3. AfterSelect(p) = a
  BY <1>2 DEF AfterSelect
<1>4. TailSends(p) = IF Salvage(p) THEN <<"CaptureLost">> ELSE <<>>
  BY <1>2 DEF TailSends
<1> QED BY <1>1, <1>3, <1>4

\* When the stream has ended and nothing is pending, the pass either gives the
\* utterance up, with nothing taken from a faulted stream, or queues the end
\* of audio, having told the driver how capture ended.
LEMMA PassClosesUp ==
  ASSUME NEW p \in PumpTypes, ~p.stream_open, p.pending = <<>>
  PROVE  LET q == AfterSelect(p) IN
         /\ q \in PumpTypes /\ ~q.stream_open /\ q.fault = NoFault
         /\ \/ /\ ~q.running /\ q.pending = <<>> /\ q.ended = p.ended
               /\ TailSends(p) = <<"CaptureFailed">>
            \/ /\ q.running = p.running /\ q.pending = <<EndOfAudio>> /\ q.ended
               /\ \/ TailSends(p) \in {<<"CaptureLost">>, <<"CaptureEnded">>}
                  \/ TailSends(p) = <<>> /\ p.ended
<1> DEFINE a == Announced(p)
<1>1. /\ a \in PumpTypes /\ a.running = p.running /\ a.pending = <<>>
      /\ a.fault = p.fault /\ ~a.stream_open /\ a.accepted = p.accepted
      /\ a.ended = (p.ended \/ Salvage(p))
  BY DEF Announced, PumpTypes
<1>2. EndOfAudio \in Nat /\ NoFault \in Faults \cup {NoFault}
  BY DEF EndOfAudio
<1>3. CASE Hopeless(a)
  <2>1. ~Salvage(p) /\ a.ended = p.ended
    BY <1>1, <1>3 DEF Hopeless, Salvage, PumpTypes
  <2>2. TailSends(p) = <<>> \o <<"CaptureFailed">>
    BY <1>3, <2>1 DEF TailSends, Closing
  <2>3. TailSends(p) = <<"CaptureFailed">>
    BY <2>2, ConcatEmptySeq, <<"CaptureFailed">> \in Seq({"CaptureFailed"})
  <2>4. AfterSelect(p) = [a EXCEPT !.fault = NoFault, !.running = FALSE]
    BY <1>3 DEF AfterSelect, Closing
  <2> QED BY <1>1, <1>2, <2>1, <2>3, <2>4 DEF PumpTypes
<1>4. CASE ~Hopeless(a)
  <2>1. Closing(a)
    BY <1>1, <1>4 DEF Closing, Over
  <2>2. AfterSelect(p) = [a EXCEPT !.fault = NoFault, !.ended = TRUE, !.pending = <<EndOfAudio>>]
    BY <1>4, <2>1 DEF AfterSelect
  <2>3. CASE Salvage(p)
    <3>1. a.ended
      BY <1>1, <2>3
    <3>2. TailSends(p) = <<"CaptureLost">> \o <<>>
      BY <1>4, <2>1, <2>3, <3>1 DEF TailSends
    <3>3. TailSends(p) = <<"CaptureLost">>
      BY <3>2, ConcatEmptySeq, <<"CaptureLost">> \in Seq({"CaptureLost"})
    <3> QED BY <1>1, <1>2, <2>2, <3>3 DEF PumpTypes
  <2>4. CASE ~Salvage(p)
    <3> DEFINE m == IF ~p.ended THEN <<"CaptureEnded">> ELSE <<>>
    <3>1. a.ended = p.ended
      BY <1>1, <2>4 DEF PumpTypes
    <3>2. TailSends(p) = <<>> \o m
      BY <3>1, <1>4, <2>1, <2>4 DEF TailSends
    <3>3. m \in Seq({"CaptureEnded"})
      <4>1. <<"CaptureEnded">> \in Seq({"CaptureEnded"}) /\ <<>> \in Seq({"CaptureEnded"})
        OBVIOUS
      <4> QED BY <4>1
    <3>4. TailSends(p) = m
      BY <3>2, <3>3, ConcatEmptySeq
    <3> QED BY <1>1, <1>2, <2>2, <3>4 DEF PumpTypes
  <2> QED BY <2>3, <2>4
<1> QED BY <1>3, <1>4

\* What a send leaves on the control channel and in its history.
LEMMA SendAdds ==
  ASSUME CaptureTypes, NEW m \in Seq(ControlMessages), Send(m)
  PROVE  /\ control' \in Seq(ControlMessages) /\ sent' \in Seq(ControlMessages)
         /\ Range(sent') = Range(sent) \cup Range(m)
         /\ Range(control') = IF listening THEN Range(control) \cup Range(m)
                                           ELSE Range(control)
         /\ m = <<>> => sent' = sent /\ control' = control
         /\ sent' # <<>> => sent # <<>> \/ m # <<>>
<1>1. sent' = sent \o m /\ control' = IF listening THEN control \o m ELSE control
  BY DEF Send
<1>2. sent \in Seq(ControlMessages) /\ control \in Seq(ControlMessages)
  BY DEF CaptureTypes
<1>3. sent \o m \in Seq(ControlMessages) /\ control \o m \in Seq(ControlMessages)
  BY <1>2, ConcatProperties
<1>4. Range(sent \o m) = Range(sent) \cup Range(m)
  BY <1>2, RangeConcatenation
<1>5. Range(control \o m) = Range(control) \cup Range(m)
  BY <1>2, RangeConcatenation
<1>6. m = <<>> => sent \o m = sent /\ control \o m = control
  BY <1>2, ConcatEmptySeq
<1> QED BY <1>1, <1>2, <1>3, <1>4, <1>5, <1>6

\* What is in a message or none.
LEMMA RangeOne == Range(<<>>) = {} /\ \A e : Range(<<e>>) = {e}
BY DEF Range

-----------------------------------------------------------------------------
(***************************************************************************)
(* Every step keeps the invariant.                                         *)
(***************************************************************************)

\* Terminal health is never left.
LEMMA PublishKeeps ==
  ASSUME NEW next, publish(next), Terminal(health) PROVE Terminal(health')
BY DEF publish, healthVars

\* The backend and the ring: only Push adds a chunk, behind all the others,
\* and only while the stream is not over.
LEMMA ProducingKeeps ==
  ASSUME CapInv, Producing, CaptureFrame PROVE CapInv'
<1> USE DEF CapInv, CaptureFrame, channelVars
<1>1. CASE Push
  <2>1. /\ captured' = captured + 1 /\ ring' = Append(ring, captured + 1)
        /\ ~ring_done /\ ~ring_closed
        /\ UNCHANGED <<ring_done, ring_fault, ring_closed, verdict, pump, inputs,
                       control, listening, taken, sent>>
    BY <1>1 DEF Push, producerVars
  <2>2. Terminal(health) => Terminal(health')
    BY <1>1, PublishKeeps DEF Push
  <2>3. pump.stream_open /\ pump.running
    BY <2>1 DEF PumpSound, StreamOver
  <2>4. captured + 1 \in Nat /\ captured \in Nat /\ taken \in Nat /\ taken <= captured
    BY DEF CaptureTypes
  <2>5. CaptureTypes'
    <3>1. captured + 1 \in Nat \ {EndOfAudio}
      BY <2>4 DEF EndOfAudio
    <3> QED BY <2>1, <2>4, <3>1, AppendProperties DEF CaptureTypes
  <2>6. RingSound' /\ PumpSound'
    BY <2>1, <2>2, <2>3 DEF RingSound, PumpSound, StreamOver, CaptureOver, CaptureTypes
  <2>7. SentSound'
    BY <2>1, <2>2 DEF SentSound, StreamOver, CaptureOver
  <2>8. FlowSound'
    <3> SUFFICES ASSUME listening PROVE Upstream' = Span(taken, captured + 1)
      BY <2>1 DEF FlowSound
    <3>1. Upstream = Span(taken, captured)
      BY <2>3 DEF FlowSound
    <3> DEFINE front == inputs \o pump.pending
    <3>2. front \in Seq(Nat) /\ ring \in Seq(Nat)
      BY PendingSeq, RingSeq, ConcatProperties DEF CaptureTypes
    <3>3. Upstream = front \o ring /\ Upstream' = front \o Append(ring, captured + 1)
      BY <2>1 DEF Upstream
    <3> HIDE DEF front
    <3>4. Upstream' = Append(Upstream, captured + 1)
      BY <2>4, <3>2, <3>3, ConcatAppend
    <3> QED BY <2>4, <3>1, <3>4, SpanGrows
  <2> QED BY <2>5, <2>6, <2>7, <2>8
<1>2. CASE PushOverload \/ PublishOverload \/ FinishRing
             \/ \E fault \in {NoFault, "device"} : Conclude(fault)
  <2>1. UNCHANGED <<captured, ring, ring_closed, pump, inputs, control, listening,
                    taken, sent>>
    BY <1>2 DEF PushOverload, PublishOverload, FinishRing, Conclude, queueVars
  <2>2. /\ ring_done' \in BOOLEAN /\ ring_fault' \in Faults \cup {NoFault}
        /\ verdict' \in Faults \cup {NoFault} /\ (ring_done => ring_done')
        /\ (ring_fault' # NoFault => ring_done')
    BY <1>2 DEF PushOverload, PublishOverload, FinishRing, Conclude, queueVars,
                CaptureTypes, RingSound, Faults, NoFault
  <2>3. Terminal(health) => Terminal(health')
    <3>1. CASE PushOverload \/ PublishOverload
      BY <3>1, PublishKeeps DEF PushOverload, PublishOverload
    <3>2. CASE FinishRing
      BY <3>2 DEF FinishRing, healthVars
    <3>3. ASSUME NEW fault \in {NoFault, "device"}, Conclude(fault)
          PROVE  Terminal(health) => Terminal(health')
      BY <3>3, PublishKeeps DEF Conclude
    <3> QED BY <1>2, <3>1, <3>2, <3>3
  <2>4. CaptureTypes' /\ RingSound'
    BY <2>1, <2>2 DEF CaptureTypes, RingSound
  <2>5. PumpSound' /\ SentSound'
    BY <2>1, <2>2, <2>3 DEF PumpSound, SentSound, StreamOver, CaptureOver
  <2>6. FlowSound'
    <3>1. Upstream' = Upstream
      BY <2>1 DEF Upstream
    <3> QED BY <2>1, <3>1 DEF FlowSound
  <2> QED BY <2>4, <2>5, <2>6
<1> QED BY <1>1, <1>2 DEF Producing

\* The key is released.
LEMMA StopKeeps == ASSUME CapInv, Stop, CaptureFrame PROVE CapInv'
<1>1. UNCHANGED <<captured, ring, ring_done, ring_fault, ring_closed, health,
                  verdict, pump, inputs, control, listening, taken, sent>>
  BY DEF Stop, CaptureFrame, channelVars, queueVars, healthVars, producerVars
<1>2. Upstream' = Upstream
  BY <1>1 DEF Upstream
<1> QED BY <1>1, <1>2 DEF CapInv, CaptureTypes, RingSound, PumpSound, SentSound,
                          FlowSound, StreamOver, CaptureOver

\* ReadHealth: a fault is held and a clean end announced only when health
\* shows them; the stream is untouched.
LEMMA ReadHealthKeeps == ASSUME CapInv, ReadHealth PROVE CapInv'
<1> USE DEF CapInv
<1>1. PICK p, first :
        /\ p \in PumpTypes /\ first \in {<<>>, <<"CaptureEnded">>} /\ Pass(p, first)
        /\ p.running /\ p.stream_open = pump.stream_open /\ p.pending = pump.pending
        /\ (pump.ended => p.ended) /\ (first # <<>> => p.ended)
        /\ (p.fault # NoFault => pump.fault # NoFault \/ Terminal(health))
        /\ (first # <<>> => Terminal(health))
  <2>1. pump \in PumpTypes /\ pump.running
    BY DEF CaptureTypes, ReadHealth
  <2>2. CASE ~unread
    <3> DEFINE p == [pump EXCEPT !.health_open = FALSE]
    <3>1. p \in PumpTypes /\ p.running /\ p.stream_open = pump.stream_open
            /\ p.pending = pump.pending /\ p.ended = pump.ended /\ p.fault = pump.fault
      BY <2>1 DEF PumpTypes
    <3>2. Pass(p, <<>>)
      BY <2>2 DEF ReadHealth
    <3> QED BY <3>1, <3>2
  <2>3. CASE unread /\ health = "faulted"
    <3> DEFINE p == [pump EXCEPT !.health_open = FALSE,
                       !.fault = IF @ = NoFault THEN "device" ELSE @]
    <3>1. p \in PumpTypes /\ p.running /\ p.stream_open = pump.stream_open
            /\ p.pending = pump.pending /\ p.ended = pump.ended
      BY <2>1 DEF PumpTypes, Faults
    <3>2. Pass(p, <<>>)
      BY <2>3 DEF ReadHealth
    <3> QED BY <2>3, <3>1, <3>2 DEF Terminal
  <2>4. CASE unread /\ health = "ended" /\ ~pump.ended
    <3> DEFINE p == [pump EXCEPT !.ended = TRUE]
    <3>1. p \in PumpTypes /\ p.running /\ p.stream_open = pump.stream_open
            /\ p.pending = pump.pending /\ p.ended /\ p.fault = pump.fault
      BY <2>1 DEF PumpTypes
    <3>2. Pass(p, <<"CaptureEnded">>)
      BY <2>4 DEF ReadHealth
    <3> QED BY <2>4, <3>1, <3>2 DEF Terminal
  <2>5. CASE unread /\ health # "faulted" /\ ~(health = "ended" /\ ~pump.ended)
    <3>1. Pass(pump, <<>>)
      BY <2>5 DEF ReadHealth
    <3> QED BY <2>1, <3>1
  <2> QED BY <2>2, <2>3, <2>4, <2>5
<1>2. UNCHANGED <<captured, ring_done, health, verdict, inputs, listening, taken>>
  BY DEF ReadHealth, producerVars
<1>3. pump.running /\ (pump.stream_open \/ pump.pending # <<>>)
  BY DEF ReadHealth, PumpSound
<1>4. /\ pump' \in PumpTypes /\ pump'.running /\ pump'.pending = pump.pending
      /\ pump'.fault = p.fault /\ pump'.stream_open = pump.stream_open
      /\ pump'.ended = (p.ended \/ Salvage(p))
      /\ TailSends(p) = IF Salvage(p) THEN <<"CaptureLost">> ELSE <<>>
  BY <1>1, <1>3, PassGoesOn DEF Pass
<1>5. UNCHANGED <<ring, ring_fault, ring_closed>>
  BY <1>4 DEF ReadHealth
<1> DEFINE m == first \o TailSends(p)
<1>6. /\ m \in Seq(ControlMessages)
      /\ Range(m) \subseteq {"CaptureEnded", "CaptureLost"}
      /\ (m # <<>> => Terminal(health) \/ pump.fault # NoFault)
  <2>1. first \in Seq(ControlMessages) /\ TailSends(p) \in Seq(ControlMessages)
    <3>1. <<>> \in Seq(ControlMessages) /\ <<"CaptureEnded">> \in Seq(ControlMessages)
            /\ <<"CaptureLost">> \in Seq(ControlMessages)
      BY DEF ControlMessages
    <3> QED BY <1>1, <1>4, <3>1
  <2>2. Range(m) = Range(first) \cup Range(TailSends(p)) /\ m \in Seq(ControlMessages)
    BY <2>1, RangeConcatenation, ConcatProperties
  <2>3. m # <<>> => first # <<>> \/ TailSends(p) # <<>>
    BY <2>1, ConcatEmptySeq
  <2>4. TailSends(p) # <<>> => p.fault # NoFault
    BY <1>4 DEF Salvage
  <2> QED BY <1>1, <1>4, <2>2, <2>3, <2>4, RangeOne
<1>7. Send(m)
  BY <1>1 DEF Pass
<1> HIDE DEF m
<1>8. Upstream' = Upstream
  BY <1>2, <1>4, <1>5 DEF Upstream
<1>9. CaptureTypes'
  BY <1>2, <1>4, <1>5, <1>6, <1>7, SendAdds DEF CaptureTypes
<1>10. RingSound' /\ PumpSound'
  BY <1>1, <1>2, <1>3, <1>4, <1>5 DEF RingSound, PumpSound, StreamOver, CaptureOver
<1>11. SentSound' /\ (("CaptureFailed" \in Range(sent')) = ("CaptureFailed" \in Range(sent)))
  BY <1>2, <1>3, <1>4, <1>5, <1>6, <1>7, SendAdds DEF SentSound, PumpSound, StreamOver, CaptureOver
<1>12. FlowSound'
  BY <1>2, <1>4, <1>8, <1>11 DEF FlowSound
<1> QED BY <1>9, <1>10, <1>11, <1>12

\* SendPending: the pending item goes behind what the driver has not read;
\* the end of audio is the last thing the pump does.
LEMMA SendPendingKeeps == ASSUME CapInv, SendPending PROVE CapInv'
<1> USE DEF CapInv
<1> DEFINE one == [pump EXCEPT !.pending = <<>>]
<1>1. UNCHANGED <<captured, ring_done, health, verdict, listening, taken>>
        /\ pump.running /\ pump.pending # <<>>
        /\ inputs' = IF listening THEN inputs \o pump.pending ELSE inputs
  BY DEF SendPending, producerVars, healthVars
<1>2. one \in PumpTypes /\ one.pending = <<>> /\ one.running /\ one.ended = pump.ended
        /\ one.fault = pump.fault /\ one.stream_open = pump.stream_open
  BY <1>1 DEF CaptureTypes, PumpTypes
<1>3. inputs' \in Seq(Nat) /\ pump.pending \in Seq(Nat) /\ inputs \in Seq(Nat) /\ ring \in Seq(Nat)
  BY <1>1, PendingSeq, RingSeq, ConcatProperties DEF CaptureTypes
<1>4. <<>> \in Seq(ControlMessages) /\ Range(<<>>) = {}
  BY RangeOne
<1>5. CASE ~listening \/ pump.pending = <<EndOfAudio>>
  <2>1. pump' = [one EXCEPT !.running = FALSE] /\ Send(<<>>)
    BY <1>5 DEF SendPending
  <2>2. /\ pump' \in PumpTypes /\ ~pump'.running /\ pump'.pending = <<>>
        /\ pump'.ended = pump.ended /\ pump'.fault = pump.fault
        /\ pump'.stream_open = pump.stream_open
    BY <1>2, <2>1 DEF PumpTypes
  <2>3. ring' = <<>> /\ ring_closed' = TRUE /\ ring_fault' = NoFault
    BY <2>2 DEF SendPending, close
  <2>4. sent' = sent /\ control' = control
    BY <1>4, <2>1, SendAdds
  <2>5. CaptureTypes' /\ RingSound'
    BY <1>1, <1>3, <2>2, <2>3, <2>4 DEF CaptureTypes, RingSound
  <2>6. PumpSound'
    BY <2>2, <2>3 DEF PumpSound, StreamOver, CaptureOver
  <2>7. SentSound'
    BY <1>1, <1>5, <2>2, <2>3, <2>4 DEF SentSound, PumpSound, StreamOver, CaptureOver
  <2>8. FlowSound'
    <3> SUFFICES ASSUME listening PROVE FlowSound'
      BY <1>1 DEF FlowSound
    <3>1. ~pump.stream_open /\ ring = <<>>
      BY <1>5 DEF PumpSound
    <3> DEFINE front == inputs \o pump.pending
    <3>2. front \in Seq(Nat) /\ Upstream = front \o <<>> /\ Upstream' = (front \o <<>>) \o <<>>
      BY <1>1, <1>3, <2>2, <2>3, <3>1, ConcatProperties DEF Upstream
    <3> HIDE DEF front
    <3>3. Upstream' = Upstream
      BY <3>2, ConcatEmptySeq
    <3> QED BY <1>1, <2>2, <2>4, <3>1, <3>3 DEF FlowSound
  <2> QED BY <2>5, <2>6, <2>7, <2>8
<1>6. CASE listening /\ pump.pending # <<EndOfAudio>>
  <2>1. Pass(one, <<>>)
    BY <1>6 DEF SendPending
  <2>2. pump.stream_open
    BY <1>1, <1>6 DEF PumpSound
  <2>3. /\ pump' \in PumpTypes /\ pump'.running /\ pump'.pending = <<>>
        /\ pump'.fault = pump.fault /\ pump'.stream_open
        /\ TailSends(one) = IF Salvage(one) THEN <<"CaptureLost">> ELSE <<>>
    BY <1>2, <2>1, <2>2, PassGoesOn DEF Pass
  <2>4. UNCHANGED <<ring, ring_fault, ring_closed>>
    BY <2>3 DEF SendPending
  <2> DEFINE m == <<>> \o TailSends(one)
  <2>5. /\ m \in Seq(ControlMessages) /\ Range(m) \subseteq {"CaptureLost"}
        /\ (m # <<>> => pump.fault # NoFault)
    <3>1. TailSends(one) \in Seq(ControlMessages)
      <4>1. <<>> \in Seq(ControlMessages) /\ <<"CaptureLost">> \in Seq(ControlMessages)
        BY DEF ControlMessages
      <4> QED BY <2>3, <4>1
    <3>2. m = TailSends(one)
      BY <3>1, ConcatEmptySeq
    <3>3. Range(<<"CaptureLost">>) = {"CaptureLost"}
      BY RangeOne
    <3> QED BY <1>2, <1>4, <2>3, <3>1, <3>2, <3>3 DEF Salvage
  <2>6. Send(m)
    BY <2>1 DEF Pass
  <2> HIDE DEF m
  <2>7. CaptureTypes' /\ RingSound'
    BY <1>1, <1>3, <2>3, <2>4, <2>5, <2>6, SendAdds DEF CaptureTypes, RingSound
  <2>8. PumpSound'
    BY <1>1, <2>3, <2>4 DEF PumpSound, StreamOver, CaptureOver
  <2>9. SentSound' /\ (("CaptureFailed" \in Range(sent')) = ("CaptureFailed" \in Range(sent)))
    BY <1>1, <2>3, <2>4, <2>5, <2>6, SendAdds DEF SentSound, PumpSound, StreamOver, CaptureOver
  <2>10. FlowSound'
    <3> DEFINE front == inputs \o pump.pending
    <3>1. front \in Seq(Nat) /\ Upstream = front \o ring /\ Upstream' = (front \o <<>>) \o ring
      BY <1>1, <1>3, <1>6, <2>3, <2>4, ConcatProperties DEF Upstream
    <3> HIDE DEF front
    <3>2. Upstream' = Upstream
      BY <3>1, ConcatEmptySeq
    <3> QED BY <1>1, <2>2, <2>3, <3>2 DEF FlowSound
  <2> QED BY <2>7, <2>8, <2>9, <2>10
<1> QED BY <1>1, <1>5, <1>6

\* ReadChunk: the oldest chunk of the ring becomes the pending item.
LEMMA ReadChunkKeeps == ASSUME CapInv, ReadChunk PROVE CapInv'
<1> USE DEF CapInv
<1> DEFINE p == [pump EXCEPT !.accepted = TRUE, !.pending = <<Head(ring)>>]
<1>1. /\ UNCHANGED <<captured, ring_done, ring_fault, ring_closed, health, verdict,
                     inputs, listening, taken>>
      /\ pump.running /\ pump.stream_open /\ pump.pending = <<>> /\ ring # <<>>
      /\ ring' = Tail(ring) /\ Pass(p, <<>>)
  BY DEF ReadChunk, Reading, producerVars, healthVars
<1>2. /\ ring \in Seq(Nat) /\ inputs \in Seq(Nat) /\ Head(ring) \in Nat \ {EndOfAudio}
      /\ Tail(ring) \in Seq(Nat \ {EndOfAudio})
  BY <1>1, HeadTailProperties, RingSeq DEF CaptureTypes
<1>3. p \in PumpTypes /\ p.pending = <<Head(ring)>> /\ p.running /\ p.ended = pump.ended
        /\ p.fault = pump.fault /\ p.stream_open
  BY <1>1, <1>2 DEF CaptureTypes, PumpTypes
<1> HIDE DEF p
<1>4. /\ pump' \in PumpTypes /\ pump'.running /\ pump'.pending = <<Head(ring)>>
      /\ pump'.fault = pump.fault /\ pump'.stream_open
      /\ TailSends(p) = IF Salvage(p) THEN <<"CaptureLost">> ELSE <<>>
  BY <1>1, <1>3, PassGoesOn DEF Pass
<1> DEFINE m == <<>> \o TailSends(p)
<1>5. /\ m \in Seq(ControlMessages) /\ Range(m) \subseteq {"CaptureLost"}
      /\ (m # <<>> => pump.fault # NoFault)
  <2>1. TailSends(p) \in Seq(ControlMessages)
    <3>1. <<>> \in Seq(ControlMessages) /\ <<"CaptureLost">> \in Seq(ControlMessages)
      BY DEF ControlMessages
    <3> QED BY <1>4, <3>1
  <2>2. m = TailSends(p)
    BY <2>1, ConcatEmptySeq
  <2>3. Range(<<"CaptureLost">>) = {"CaptureLost"} /\ Range(<<>>) = {}
    BY RangeOne
  <2> QED BY <1>3, <1>4, <2>1, <2>2, <2>3 DEF Salvage
<1>6. Send(m)
  BY <1>1 DEF Pass
<1> HIDE DEF m
<1>7. Upstream' = Upstream
  <2>1. inputs \o <<>> = inputs
    BY <1>2, ConcatEmptySeq
  <2>2. Upstream = inputs \o ring /\ Upstream' = (inputs \o <<Head(ring)>>) \o Tail(ring)
    BY <1>1, <1>4, <2>1 DEF Upstream
  <2> QED BY <1>1, <1>2, <2>2, MoveHead
<1>8. CaptureTypes' /\ RingSound'
  BY <1>1, <1>2, <1>4, <1>5, <1>6, SendAdds DEF CaptureTypes, RingSound
<1>9. SentSound' /\ (("CaptureFailed" \in Range(sent')) = ("CaptureFailed" \in Range(sent)))
  BY <1>1, <1>4, <1>5, <1>6, SendAdds DEF SentSound, PumpSound, StreamOver, CaptureOver
<1>10. FlowSound'
  BY <1>1, <1>4, <1>7, <1>9 DEF FlowSound
<1>11. PumpSound'
  BY <1>1, <1>2, <1>4 DEF PumpSound, StreamOver, CaptureOver
<1> QED BY <1>8, <1>9, <1>10, <1>11

\* The stream has ended: the ring is empty for good, so the end of audio, if
\* the pass queues it, is behind every chunk.
LEMMA CloseUpKeeps ==
  ASSUME CapInv, Reading, ring = <<>>,
         NEW p \in PumpTypes, ~p.stream_open, p.pending = <<>>, p.running, Pass(p, <<>>),
         ring' = <<>>, ring_fault' = NoFault, ring_closed' \in BOOLEAN,
         ~pump'.running => ring_closed', ring_done \/ ring_closed',
         UNCHANGED <<captured, ring_done, health, verdict, inputs, listening, taken>>
  PROVE  CapInv'
<1> USE DEF CapInv
<1>1. pump.running /\ pump.stream_open /\ pump.pending = <<>>
  BY DEF Reading
<1>2. "CaptureFailed" \notin Range(sent)
  BY <1>1 DEF SentSound
<1> DEFINE tail == TailSends(p)
<1>3. /\ pump' \in PumpTypes /\ ~pump'.stream_open /\ pump'.fault = NoFault
      /\ \/ /\ ~pump'.running /\ pump'.pending = <<>> /\ tail = <<"CaptureFailed">>
         \/ /\ pump'.running /\ pump'.pending = <<EndOfAudio>> /\ pump'.ended
            /\ tail \in {<<>>, <<"CaptureLost">>, <<"CaptureEnded">>}
  BY PassClosesUp DEF Pass
<1>4. tail \in Seq(ControlMessages)
  <2>1. <<>> \in Seq(ControlMessages) /\ <<"CaptureLost">> \in Seq(ControlMessages)
          /\ <<"CaptureEnded">> \in Seq(ControlMessages)
          /\ <<"CaptureFailed">> \in Seq(ControlMessages)
    BY DEF ControlMessages
  <2> QED BY <1>3, <2>1
<1>5. Send(tail)
  BY <1>4, ConcatEmptySeq DEF Pass
<1>6. Range(tail) = IF pump'.running THEN Range(tail) \ {"CaptureFailed"} ELSE {"CaptureFailed"}
  <2>1. Range(<<>>) = {} /\ Range(<<"CaptureLost">>) = {"CaptureLost"}
          /\ Range(<<"CaptureEnded">>) = {"CaptureEnded"}
          /\ Range(<<"CaptureFailed">>) = {"CaptureFailed"}
    BY RangeOne
  <2> QED BY <1>3, <2>1
<1> HIDE DEF tail
<1>7. /\ control' \in Seq(ControlMessages) /\ sent' \in Seq(ControlMessages)
      /\ Range(sent') = Range(sent) \cup Range(tail)
      /\ Range(control') \subseteq Range(control) \cup Range(tail)
  BY <1>4, <1>5, SendAdds
<1>8. CaptureTypes' /\ RingSound'
  BY <1>3, <1>7 DEF CaptureTypes, RingSound
<1>9. PumpSound'
  BY <1>3 DEF PumpSound, StreamOver, CaptureOver
<1>10. SentSound'
  BY <1>2, <1>3, <1>6, <1>7 DEF SentSound, StreamOver, CaptureOver
<1>11. FlowSound'
  <2> SUFFICES ASSUME listening PROVE FlowSound'
    BY DEF FlowSound
  <2>1. inputs \in Seq(Nat) /\ Upstream = Span(taken, captured)
    BY <1>1 DEF FlowSound, CaptureTypes
  <2>2. inputs \o <<>> = inputs
    BY <2>1, ConcatEmptySeq
  <2>3. Upstream = inputs
    BY <1>1, <2>2 DEF Upstream
  <2>4. CASE ~pump'.running
    <3>1. Upstream' = inputs
      BY <1>3, <2>2, <2>4 DEF Upstream
    <3> QED BY <2>1, <2>3, <3>1 DEF FlowSound
  <2>5. CASE pump'.running
    <3>1. EndOfAudio \in Nat /\ inputs \o <<EndOfAudio>> \in Seq(Nat)
      BY <2>1 DEF EndOfAudio
    <3>2. Upstream' = (inputs \o <<EndOfAudio>>) \o <<>>
      BY <1>3, <2>5 DEF Upstream
    <3>3. Upstream' = inputs \o <<EndOfAudio>>
      BY <3>1, <3>2, ConcatEmptySeq
    <3>4. Upstream' = Append(inputs, EndOfAudio)
      BY <2>1, <3>1, <3>3, AppendIsConcat
    <3>5. "CaptureFailed" \notin Range(sent')
      BY <1>2, <1>6, <1>7, <2>5
    <3> QED BY <1>3, <2>1, <2>3, <3>4, <3>5 DEF FlowSound
  <2> QED BY <2>4, <2>5
<1> QED BY <1>8, <1>9, <1>10, <1>11

\* ReadFault: the fault behind the last chunk.
LEMMA ReadFaultKeeps == ASSUME CapInv, ReadFault PROVE CapInv'
<1> DEFINE p == [pump EXCEPT !.stream_open = FALSE,
                   !.fault = IF @ = NoFault THEN ring_fault ELSE @]
<1>1. /\ Reading /\ ring = <<>> /\ ring_fault # NoFault /\ Pass(p, <<>>)
      /\ UNCHANGED <<captured, ring_done, health, verdict, inputs, listening, taken>>
  BY DEF ReadFault, healthVars, producerVars
<1>2. p \in PumpTypes /\ ~p.stream_open /\ p.pending = <<>> /\ p.running
  BY <1>1 DEF CapInv, CaptureTypes, PumpTypes, Reading
<1>3. ring_done /\ ring_closed \in BOOLEAN
  BY <1>1 DEF CapInv, RingSound, CaptureTypes
<1>4. ring' = <<>> /\ ring_fault' = NoFault /\ ring_closed' \in BOOLEAN
        /\ (~pump'.running => ring_closed')
  BY <1>1, <1>3 DEF ReadFault, close
<1> HIDE DEF p
<1> QED BY <1>1, <1>2, <1>3, <1>4, CloseUpKeeps

\* ReadEnd: the end of the stream, which closes the ring.
LEMMA ReadEndKeeps == ASSUME CapInv, ReadEnd PROVE CapInv'
<1> DEFINE p == [pump EXCEPT !.stream_open = FALSE]
<1>1. /\ Reading /\ ring = <<>> /\ Pass(p, <<>>)
      /\ UNCHANGED <<captured, ring_done, health, verdict, inputs, listening, taken>>
      /\ ring' = <<>> /\ ring_fault' = NoFault /\ ring_closed' = TRUE
  BY DEF ReadEnd, close, healthVars, producerVars
<1>2. p \in PumpTypes /\ ~p.stream_open /\ p.pending = <<>> /\ p.running
  BY <1>1 DEF CapInv, CaptureTypes, PumpTypes, Reading
<1> HIDE DEF p
<1> QED BY <1>1, <1>2, CloseUpKeeps

\* capture.cancel: the driver has gone.
LEMMA CancelKeeps == ASSUME CapInv, CancelCapture PROVE CapInv'
<1>1. /\ UNCHANGED <<captured, ring_done, health, verdict, inputs, control, listening,
                     taken, sent>>
      /\ ~listening /\ pump' = [pump EXCEPT !.running = FALSE]
      /\ ring' = <<>> /\ ring_fault' = NoFault /\ ring_closed' = TRUE
  BY DEF CancelCapture, close, healthVars, producerVars, channelVars
<1>2. /\ pump' \in PumpTypes /\ ~pump'.running /\ pump'.pending = pump.pending
      /\ pump'.ended = pump.ended /\ pump'.fault = pump.fault
      /\ pump'.stream_open = pump.stream_open
  BY <1>1 DEF CapInv, CaptureTypes, PumpTypes
<1>3. CaptureTypes' /\ RingSound'
  BY <1>1, <1>2 DEF CapInv, CaptureTypes, RingSound
<1>4. PumpSound' /\ SentSound' /\ FlowSound'
  BY <1>1, <1>2 DEF CapInv, PumpSound, SentSound, FlowSound, StreamOver, CaptureOver
<1> QED BY <1>3, <1>4 DEF CapInv

\* The driver reads the oldest chunk; or the end of audio, and then it has
\* read everything there will ever be.
LEMMA TakeInputKeeps ==
  ASSUME CapInv, TakeInput
  PROVE  /\ CapInv'
         /\ Head(inputs) # EndOfAudio => Head(inputs) = taken + 1 /\ taken' = taken + 1
         /\ Head(inputs) = EndOfAudio =>
              /\ taken = captured /\ taken' = taken /\ Upstream' = <<>>
              /\ ~pump.running /\ ~pump.stream_open
              /\ "CaptureFailed" \notin Range(sent)
<1> USE DEF CapInv
<1>1. /\ listening /\ inputs # <<>> /\ inputs' = Tail(inputs)
      /\ taken' = IF Head(inputs) = EndOfAudio THEN taken ELSE taken + 1
      /\ UNCHANGED <<captured, ring, ring_done, ring_fault, ring_closed, health, verdict,
                     pump, control, listening, sent>>
  BY DEF TakeInput, RecvInput, ringVars, queueVars, healthVars, producerVars
<1> DEFINE rest == pump.pending \o ring
<1>2. /\ inputs \in Seq(Nat) /\ rest \in Seq(Nat) /\ Tail(inputs) \in Seq(Nat)
      /\ pump.pending \in Seq(Nat) /\ ring \in Seq(Nat)
  BY <1>1, PendingSeq, RingSeq, ConcatProperties, HeadTailProperties DEF CaptureTypes
<1>3. Upstream = inputs \o rest /\ Upstream' = Tail(inputs) \o rest
  <2>1. (inputs \o pump.pending) \o ring = inputs \o rest
    BY <1>2, Joined, ZenonT(40)
  <2>2. (Tail(inputs) \o pump.pending) \o ring = Tail(inputs) \o rest
    BY <1>2, Joined, ZenonT(40)
  <2> QED BY <1>1, <2>1, <2>2 DEF Upstream
<1>4. captured \in Nat /\ taken \in Nat /\ taken <= captured
  BY DEF CaptureTypes
<1> HIDE DEF rest
<1>5. Upstream # <<>> /\ Head(Upstream) = Head(inputs) /\ Upstream' = Tail(Upstream)
  BY <1>1, <1>2, <1>3, TakeHead
<1> DEFINE span == Span(taken, captured)
<1>6. /\ span \in Seq(Nat) /\ Len(span) = captured - taken
      /\ (taken < captured => Head(span) = taken + 1 /\ Tail(span) = Span(taken + 1, captured))
  BY <1>4, SpanSeq, SpanShrinks
<1>7. span = <<>> <=> taken = captured
  <2> HIDE DEF span
  <2>1. span = <<>> <=> Len(span) = 0
    BY <1>6
  <2> QED BY <1>4, <1>6, <2>1
<1>8. CASE taken < captured
  <2>1. Head(Upstream) = taken + 1
    <3>1. CASE Upstream = span
      BY <1>6, <1>8, <3>1
    <3>2. CASE Upstream = Append(span, EndOfAudio)
      BY <1>6, <1>7, <1>8, <1>4, <3>2, HeadTailAppend
    <3> QED BY <1>1, <3>1, <3>2 DEF FlowSound
  <2>2. Head(inputs) = taken + 1 /\ Head(inputs) # EndOfAudio /\ taken' = taken + 1
    BY <1>1, <1>4, <1>5, <2>1 DEF EndOfAudio
  <2>3. FlowSound'
    <3>1. CASE Upstream = span
      BY <1>1, <1>5, <1>6, <1>8, <2>2, <3>1 DEF FlowSound
    <3>2. CASE /\ ~pump.stream_open /\ "CaptureFailed" \notin Range(sent)
               /\ Upstream = Append(span, EndOfAudio)
      <4>1. Tail(Append(span, EndOfAudio)) = Append(Tail(span), EndOfAudio)
        BY <1>4, <1>6, <1>7, <1>8, HeadTailAppend, SMTT(30)
      <4> QED BY <1>1, <1>5, <1>6, <1>8, <2>2, <3>2, <4>1 DEF FlowSound
    <3> QED BY <1>1, <3>1, <3>2 DEF FlowSound
  <2>4. CaptureTypes'
    BY <1>1, <1>2, <1>4, <1>8, <2>2 DEF CaptureTypes
  <2>5. RingSound' /\ PumpSound' /\ SentSound'
    BY <1>1 DEF RingSound, PumpSound, SentSound, StreamOver, CaptureOver
  <2> QED BY <2>2, <2>3, <2>4, <2>5
<1>9. CASE taken = captured
  <2>1. /\ Upstream = Append(<<>>, EndOfAudio) /\ ~pump.stream_open
        /\ "CaptureFailed" \notin Range(sent)
    BY <1>1, <1>5, <1>7, <1>9 DEF FlowSound
  <2>2. Head(inputs) = EndOfAudio /\ Upstream' = <<>>
    BY <1>5, <2>1
  <2>3. taken' = taken
    BY <1>1, <2>2
  <2>4. ~pump.running
    <3>1. Len(Upstream) = 1
      BY <2>1
    <3>2. Len(inputs) + Len(rest) = 1 /\ Len(inputs) >= 1
      BY <1>1, <1>2, <1>3, <3>1, ConcatProperties
    <3>3. rest = <<>>
      BY <1>2, <3>2
    <3>4. pump.pending = <<>>
      BY <1>2, <3>3, ConcatEqualIffEmpty DEF rest
    <3>5. <<EndOfAudio>> # <<>>
      OBVIOUS
    <3> QED BY <2>1, <3>4, <3>5 DEF PumpSound
  <2>5. FlowSound'
    BY <1>1, <1>7, <1>9, <2>2, <2>3 DEF FlowSound
  <2>6. CaptureTypes'
    BY <1>1, <1>2, <1>4, <2>3 DEF CaptureTypes
  <2>7. RingSound' /\ PumpSound' /\ SentSound'
    BY <1>1 DEF RingSound, PumpSound, SentSound, StreamOver, CaptureOver
  <2> QED BY <1>9, <2>1, <2>2, <2>3, <2>4, <2>5, <2>6, <2>7
<1> QED BY <1>4, <1>8, <1>9

\* The driver reads a control message, or returns.
LEMMA TakeControlKeeps == ASSUME CapInv, TakeControl PROVE CapInv'
<1>1. /\ control # <<>> /\ control' = Tail(control)
      /\ UNCHANGED <<captured, ring, ring_done, ring_fault, ring_closed, health, verdict,
                     pump, inputs, taken, listening, sent>>
  BY DEF TakeControl, RecvControl, ringVars, queueVars, healthVars, producerVars
<1>2. control' \in Seq(ControlMessages) /\ Range(control') \subseteq Range(control)
  BY <1>1, RangeTail DEF CapInv, CaptureTypes
<1>3. Upstream' = Upstream
  BY <1>1 DEF Upstream
<1>4. CaptureTypes' /\ RingSound' /\ PumpSound' /\ FlowSound'
  BY <1>1, <1>2, <1>3 DEF CapInv, CaptureTypes, RingSound, PumpSound, FlowSound,
                          StreamOver, CaptureOver
<1>5. SentSound'
  BY <1>1, <1>2 DEF CapInv, SentSound, StreamOver, CaptureOver
<1> QED BY <1>4, <1>5 DEF CapInv

\* The driver that returns drops its ends of the channels.
LEMMA DriverReturnsKeeps == ASSUME CapInv, DriverReturns PROVE CapInv'
<1>1. /\ listening' = FALSE /\ inputs' = <<>> /\ control' = <<>>
      /\ UNCHANGED <<captured, ring, ring_done, ring_fault, ring_closed, health, verdict,
                     pump, taken, sent>>
  BY DEF DriverReturns, DropReceivers, ringVars, queueVars, healthVars, producerVars
<1>2. CaptureTypes'
  BY <1>1, EmptySeq DEF CapInv, CaptureTypes
<1>3. RingSound' /\ PumpSound' /\ FlowSound'
  BY <1>1 DEF CapInv, RingSound, PumpSound, FlowSound, StreamOver, CaptureOver
<1>4. SentSound'
  BY <1>1, RangeOne DEF CapInv, SentSound, StreamOver, CaptureOver
<1> QED BY <1>2, <1>3, <1>4 DEF CapInv

\* Nothing that the invariant is about changes.
LEMMA CaptureStutters == ASSUME CapInv, UNCHANGED captureVars PROVE CapInv'
<1>1. UNCHANGED <<captured, ring, ring_done, ring_fault, ring_closed, health, verdict,
                  pump, inputs, control, taken, listening, sent>>
  BY DEF captureVars, channelVars, ringVars, queueVars, healthVars, producerVars
<1>2. Upstream' = Upstream
  BY <1>1 DEF Upstream
<1> QED BY <1>1, <1>2 DEF CapInv, CaptureTypes, RingSound, PumpSound, SentSound, FlowSound,
                          StreamOver, CaptureOver

\* The invariant holds when capture begins.
LEMMA CaptureInitInv == CaptureInit => CapInv
<1> SUFFICES ASSUME CaptureInit PROVE CapInv
  OBVIOUS
<1> USE DEF CaptureInit, RingInit
<1>1. CaptureTypes
  <2>1. pump \in PumpTypes
    BY DEF PumpTypes
  <2>2. <<>> \in Seq(Nat) /\ <<>> \in Seq(Nat \ {EndOfAudio}) /\ <<>> \in Seq(ControlMessages)
    OBVIOUS
  <2>3. captured \in Nat /\ taken \in 0..captured
    OBVIOUS
  <2> QED BY <2>1, <2>2, <2>3 DEF CaptureTypes
<1>2. RingSound /\ PumpSound
  BY DEF RingSound, PumpSound
<1>3. SentSound
  BY RangeOne DEF SentSound
<1>4. FlowSound
  <2>1. Upstream = (<<>> \o <<>>) \o <<>> /\ <<>> \o <<>> = <<>>
    BY DEF Upstream
  <2>2. Span(0, 0) \in Seq(Nat) /\ Len(Span(0, 0)) = 0
    BY SpanSeq
  <2>3. Span(0, 0) = <<>>
    <3> DEFINE s == Span(0, 0)
    <3> HIDE DEF s
    <3>1. s \in Seq(Nat) /\ Len(s) = 0 => s = <<>>
      OBVIOUS
    <3> QED BY <2>2, <3>1 DEF s
  <2> QED BY <2>1, <2>3 DEF FlowSound
<1> QED BY <1>1, <1>2, <1>3, <1>4 DEF CapInv

\* Every step of the capture side keeps the invariant.
LEMMA CaptureNextInv == CapInv /\ [CaptureNext]_captureVars => CapInv'
<1> SUFFICES ASSUME CapInv, [CaptureNext]_captureVars PROVE CapInv'
  OBVIOUS
<1>1. CASE UNCHANGED captureVars
  BY <1>1, CaptureStutters
<1>2. CASE Producing /\ CaptureFrame
  BY <1>2, ProducingKeeps
<1>3. CASE Stop /\ CaptureFrame
  BY <1>3, StopKeeps
<1>4. CASE Pumping
  BY <1>4, ReadHealthKeeps, SendPendingKeeps, ReadChunkKeeps, ReadFaultKeeps, ReadEndKeeps
     DEF Pumping
<1>5. CASE CancelCapture
  BY <1>5, CancelKeeps
<1>6. CASE TakeInput \/ TakeControl \/ DriverReturns
  BY <1>6, TakeInputKeeps, TakeControlKeeps, DriverReturnsKeeps
<1> QED BY <1>1, <1>2, <1>3, <1>4, <1>5, <1>6 DEF CaptureNext

-----------------------------------------------------------------------------
(***************************************************************************)
(* What a step of the capture side means to the driver.                    *)
(***************************************************************************)
CaptureSteps ==
  (Producing /\ CaptureFrame) \/ (Stop /\ CaptureFrame) \/ Pumping \/ CancelCapture

\* The messages a step sends; a pump that regards capture as ended has said so.
Reports(m) ==
  /\ Range(sent') = Range(sent) \cup Range(m)
  /\ listening => Range(control') = Range(control) \cup Range(m)
  /\ pump'.ended => pump.ended \/ Range(m) \cap {"CaptureEnded", "CaptureLost"} # {}

\* A pass reports what it concludes.
LEMMA PassReports ==
  ASSUME CaptureTypes, NEW p \in PumpTypes, NEW first \in {<<>>, <<"CaptureEnded">>},
         Pass(p, first), p.ended => pump.ended \/ first # <<>>
  PROVE  \E m \in Seq(ControlMessages) : Reports(m)
<1> DEFINE tail == TailSends(p)
           m == first \o tail
<1>1. <<>> \in Seq(ControlMessages) /\ <<"CaptureEnded">> \in Seq(ControlMessages)
        /\ <<"CaptureLost">> \in Seq(ControlMessages)
        /\ <<"CaptureFailed">> \in Seq(ControlMessages)
  BY DEF ControlMessages
<1>2. Range(<<>>) = {} /\ Range(<<"CaptureEnded">>) = {"CaptureEnded"}
        /\ Range(<<"CaptureLost">>) = {"CaptureLost"}
  BY RangeOne
<1>3. /\ tail \in Seq(ControlMessages)
      /\ pump'.ended => p.ended \/ Range(tail) \cap {"CaptureEnded", "CaptureLost"} # {}
  <2>1. CASE p.stream_open \/ p.pending # <<>>
    <3>1. /\ pump'.ended = (p.ended \/ Salvage(p))
          /\ tail = IF Salvage(p) THEN <<"CaptureLost">> ELSE <<>>
      BY <2>1, PassGoesOn DEF Pass
    <3> HIDE DEF tail
    <3> QED BY <1>1, <1>2, <3>1
  <2>2. CASE ~p.stream_open /\ p.pending = <<>>
    <3>1. \/ tail = <<"CaptureFailed">> /\ pump'.ended = p.ended
          \/ tail \in {<<"CaptureLost">>, <<"CaptureEnded">>}
          \/ tail = <<>> /\ p.ended
      BY <2>2, PassClosesUp DEF Pass
    <3> HIDE DEF tail
    <3> QED BY <1>1, <1>2, <3>1
  <2>3. p.stream_open \in BOOLEAN
    BY DEF PumpTypes
  <2> QED BY <2>1, <2>2, <2>3
<1>4. Send(m)
  BY DEF Pass
<1> HIDE DEF tail
<1>5. m \in Seq(ControlMessages) /\ Range(m) = Range(first) \cup Range(tail)
  <2>1. first \in Seq(ControlMessages)
    BY <1>1
  <2> QED BY <1>3, <2>1, ConcatProperties, RangeConcatenation
<1> HIDE DEF m
<1>6. pump'.ended => pump.ended \/ Range(m) \cap {"CaptureEnded", "CaptureLost"} # {}
  <2>1. CASE first = <<>>
    BY <1>3, <1>5, <2>1
  <2>2. CASE first = <<"CaptureEnded">>
    BY <1>2, <1>5, <2>2
  <2> QED BY <2>1, <2>2
<1>7. /\ Range(sent') = Range(sent) \cup Range(m)
      /\ listening => Range(control') = Range(control) \cup Range(m)
  BY <1>4, <1>5, SendAdds
<1>8. Reports(m)
  BY <1>6, <1>7 DEF Reports
<1> QED BY <1>5, <1>8

\* So does every arm of the select.
LEMMA ArmsReport ==
  ASSUME CapInv, Pumping PROVE \E m \in Seq(ControlMessages) : Reports(m)
<1> USE DEF CapInv
<1>1. pump \in PumpTypes /\ <<>> \in Seq(ControlMessages)
  BY DEF CaptureTypes
<1>2. CASE ReadHealth
  <2> DEFINE closed == [pump EXCEPT !.health_open = FALSE]
             faulted == [pump EXCEPT !.health_open = FALSE,
                           !.fault = IF @ = NoFault THEN "device" ELSE @]
             over == [pump EXCEPT !.ended = TRUE]
  <2>1. /\ closed \in PumpTypes /\ closed.ended = pump.ended
        /\ faulted \in PumpTypes /\ faulted.ended = pump.ended
        /\ over \in PumpTypes
    BY <1>1 DEF PumpTypes, Faults
  <2>2. \/ Pass(closed, <<>>) \/ Pass(faulted, <<>>) \/ Pass(over, <<"CaptureEnded">>)
        \/ Pass(pump, <<>>)
    BY <1>2 DEF ReadHealth
  <2> HIDE DEF closed, faulted, over
  <2>3. <<"CaptureEnded">> # <<>>
    OBVIOUS
  <2> QED BY <1>1, <2>1, <2>2, <2>3, PassReports
<1>3. CASE SendPending
  <2> DEFINE one == [pump EXCEPT !.pending = <<>>]
  <2>1. one \in PumpTypes /\ one.ended = pump.ended
    BY <1>1 DEF PumpTypes
  <2>2. CASE pump' = [one EXCEPT !.running = FALSE] /\ Send(<<>>)
    <3>1. pump'.ended = pump.ended
      BY <2>1, <2>2 DEF PumpTypes
    <3>2. sent' = sent /\ control' = control
      BY <1>1, <2>2, SendAdds
    <3>3. Reports(<<>>)
      BY <3>1, <3>2, RangeOne DEF Reports
    <3> QED BY <1>1, <3>3
  <2>3. CASE Pass(one, <<>>)
    <3> HIDE DEF one
    <3> QED BY <2>1, <2>3, PassReports
  <2> QED BY <1>3, <2>2, <2>3 DEF SendPending
<1>4. CASE ReadChunk
  <2> DEFINE p == [pump EXCEPT !.accepted = TRUE, !.pending = <<Head(ring)>>]
  <2>1. Head(ring) \in Nat
    BY <1>4, HeadTailProperties DEF ReadChunk, CaptureTypes
  <2>2. p \in PumpTypes /\ p.ended = pump.ended /\ Pass(p, <<>>)
    BY <1>1, <1>4, <2>1 DEF PumpTypes, ReadChunk
  <2> HIDE DEF p
  <2> QED BY <2>2, PassReports
<1>5. CASE ReadFault
  <2> DEFINE p == [pump EXCEPT !.stream_open = FALSE,
                     !.fault = IF @ = NoFault THEN ring_fault ELSE @]
  <2>1. p \in PumpTypes /\ p.ended = pump.ended /\ Pass(p, <<>>)
    BY <1>1, <1>5 DEF PumpTypes, ReadFault, CaptureTypes
  <2> HIDE DEF p
  <2> QED BY <2>1, PassReports
<1>6. CASE ReadEnd
  <2> DEFINE p == [pump EXCEPT !.stream_open = FALSE]
  <2>1. p \in PumpTypes /\ p.ended = pump.ended /\ Pass(p, <<>>)
    BY <1>1, <1>6 DEF PumpTypes, ReadEnd
  <2> HIDE DEF p
  <2> QED BY <2>1, PassReports
<1> QED BY <1>2, <1>3, <1>4, <1>5, <1>6 DEF Pumping

\* A step that leaves the channels and the pump's verdict alone sends nothing.
LEMMA NoReport ==
  ASSUME UNCHANGED <<control, sent>>, pump'.ended = pump.ended
  PROVE  \E m \in Seq(ControlMessages) : Reports(m)
<1>1. <<>> \in Seq(ControlMessages) /\ Range(<<>>) = {}
  BY RangeOne
<1>2. Reports(<<>>)
  BY <1>1 DEF Reports
<1> QED BY <1>1, <1>2

\* A step of the capture side, as the driver sees it.
LEMMA CaptureOnly ==
  ASSUME CapInv, CaptureSteps
  PROVE  /\ UNCHANGED <<listening, taken>> /\ captured' >= captured
         /\ StreamOver => StreamOver' /\ captured' = captured
         /\ CaptureOver => CaptureOver'
         /\ ~pump.running => /\ UNCHANGED <<pump, inputs, control, sent>>
                             /\ ring = <<>> /\ ring' = <<>>
         /\ \E m \in Seq(ControlMessages) : Reports(m)
<1> USE DEF CapInv
<1>1. captured \in Nat
  BY DEF CaptureTypes
<1>2. CASE Producing /\ CaptureFrame
  <2>1. UNCHANGED <<pump, inputs, control, listening, taken, sent>>
    BY <1>2 DEF CaptureFrame, channelVars
  <2>2. \E m \in Seq(ControlMessages) : Reports(m)
    BY <2>1, NoReport
  <2>3. CASE Push
    <3>1. captured' = captured + 1 /\ ~ring_done /\ ~ring_closed
            /\ UNCHANGED <<ring_done, ring_closed>>
      BY <2>3 DEF Push
    <3>2. pump.running
      BY <3>1 DEF PumpSound
    <3>3. Terminal(health) => Terminal(health')
      BY <2>3, PublishKeeps DEF Push
    <3> QED BY <1>1, <2>1, <2>2, <3>1, <3>2, <3>3 DEF StreamOver, CaptureOver
  <2>4. CASE PushOverload \/ PublishOverload \/ FinishRing
               \/ \E fault \in {NoFault, "device"} : Conclude(fault)
    <3>1. UNCHANGED <<captured, ring, ring_closed>> /\ (ring_done => ring_done')
      BY <2>4 DEF PushOverload, PublishOverload, FinishRing, Conclude, queueVars
    <3>2. Terminal(health) => Terminal(health')
      <4>1. CASE PushOverload \/ PublishOverload
        BY <4>1, PublishKeeps DEF PushOverload, PublishOverload
      <4>2. CASE FinishRing
        BY <4>2 DEF FinishRing, healthVars
      <4>3. ASSUME NEW fault \in {NoFault, "device"}, Conclude(fault)
            PROVE  Terminal(health) => Terminal(health')
        BY <4>3, PublishKeeps DEF Conclude
      <4> QED BY <2>4, <4>1, <4>2, <4>3
    <3>3. ~pump.running => ring = <<>>
      BY DEF PumpSound, RingSound
    <3> QED BY <1>1, <2>1, <2>2, <3>1, <3>2, <3>3 DEF StreamOver, CaptureOver
  <2> QED BY <1>2, <2>3, <2>4 DEF Producing
<1>3. CASE Stop /\ CaptureFrame
  <2>1. UNCHANGED <<captured, ring, ring_done, ring_closed, health, pump, inputs, control,
                    listening, taken, sent>>
    BY <1>3 DEF Stop, CaptureFrame, channelVars, queueVars, healthVars
  <2>2. \E m \in Seq(ControlMessages) : Reports(m)
    BY <2>1, NoReport
  <2>3. ~pump.running => ring = <<>>
    BY DEF PumpSound, RingSound
  <2> QED BY <1>1, <2>1, <2>2, <2>3 DEF StreamOver, CaptureOver
<1>4. CASE Pumping
  <2>1. /\ UNCHANGED <<captured, ring_done, health, listening, taken>> /\ pump.running
        /\ (ring_closed => ring_closed')
    BY <1>4 DEF Pumping, ReadHealth, SendPending, ReadChunk, ReadFault, ReadEnd, Reading,
                healthVars, close
  <2>2. \E m \in Seq(ControlMessages) : Reports(m)
    BY <1>4, ArmsReport
  <2> QED BY <1>1, <2>1, <2>2 DEF StreamOver, CaptureOver
<1>5. CASE CancelCapture
  <2>1. /\ UNCHANGED <<captured, ring_done, health, listening, taken, control, sent>>
        /\ pump.running /\ pump'.ended = pump.ended /\ ring_closed'
    BY <1>5 DEF CancelCapture, channelVars, healthVars, close, CaptureTypes, PumpTypes
  <2>2. \E m \in Seq(ControlMessages) : Reports(m)
    BY <2>1, NoReport
  <2> QED BY <1>1, <2>1, <2>2 DEF StreamOver, CaptureOver
<1> QED BY <1>2, <1>3, <1>4, <1>5 DEF CaptureSteps

-----------------------------------------------------------------------------
(***************************************************************************)
(* What may be on the wire: the chunks in order, as far as they go, or all *)
(* of them and the end of audio once there will be no more.                *)
(***************************************************************************)
Proper(s, n, over) ==
  \/ \E k \in 0..n : s = Chunks(k)
  \/ over /\ s = Append(Chunks(n), End)

\* The first chunks are a sequence of chunk numbers.
LEMMA ChunksSeq ==
  ASSUME NEW n \in Nat
  PROVE  /\ Chunks(n) \in Seq(Nat) /\ Len(Chunks(n)) = n
         /\ \A i \in 1..n : Chunks(n)[i] = i
BY DEF Chunks

\* So are the chunks with the end of audio behind them.
LEMMA WholeSeq ==
  ASSUME NEW n \in Nat
  PROVE  LET w == Append(Chunks(n), End) IN
         /\ w \in Seq(Nat) /\ Len(w) = n + 1 /\ w[n + 1] = End
         /\ \A i \in 1..n : w[i] = i
<1> DEFINE c == Chunks(n)
<1>1. c \in Seq(Nat) /\ Len(c) = n /\ \A i \in 1..n : c[i] = i
  BY ChunksSeq
<1> HIDE DEF c
<1>2. /\ Append(c, End) \in Seq(Nat) /\ Len(Append(c, End)) = n + 1
      /\ Append(c, End)[n + 1] = End /\ \A i \in 1..n : Append(c, End)[i] = c[i]
  BY <1>1 DEF End
<1> QED BY <1>1, <1>2 DEF c

\* A sequence that counts up from one is that many chunks.
LEMMA CountsUp ==
  ASSUME NEW s \in Seq(Nat), \A i \in 1..Len(s) : s[i] = i
  PROVE  s = Chunks(Len(s))
<1>1. Len(s) \in Nat
  OBVIOUS
<1> DEFINE c == Chunks(Len(s))
<1>2. c \in Seq(Nat) /\ Len(c) = Len(s) /\ \A i \in 1..Len(s) : c[i] = i
  BY <1>1, ChunksSeq
<1> HIDE DEF c
<1>3. s = c
  BY <1>2, SeqEqual
<1> QED BY <1>3 DEF c

\* The chunks read and the chunks that follow them are all the chunks.
LEMMA ChunksThenSpan ==
  ASSUME NEW a \in Nat, NEW b \in Nat, a <= b
  PROVE  Chunks(a) \o Span(a, b) = Chunks(b)
<1> DEFINE c == Chunks(a)
           d == Span(a, b)
           e == Chunks(b)
<1>1. c \in Seq(Nat) /\ Len(c) = a /\ \A i \in 1..a : c[i] = i
  BY ChunksSeq
<1>2. d \in Seq(Nat) /\ Len(d) = b - a /\ \A i \in 1..(b - a) : d[i] = a + i
  BY SpanSeq
<1>3. e \in Seq(Nat) /\ Len(e) = b /\ \A i \in 1..b : e[i] = i
  BY ChunksSeq
<1> HIDE DEF c, d, e
<1>4. /\ c \o d \in Seq(Nat) /\ Len(c \o d) = b
      /\ \A i \in 1..b : (c \o d)[i] = IF i <= a THEN c[i] ELSE d[i - a]
  <2>1. /\ c \o d \in Seq(Nat) /\ Len(c \o d) = Len(c) + Len(d)
        /\ \A i \in 1..(Len(c) + Len(d)) :
             (c \o d)[i] = IF i <= Len(c) THEN c[i] ELSE d[i - Len(c)]
    BY <1>1, <1>2, ConcatProperties
  <2> QED BY <1>1, <1>2, <2>1, a + (b - a) = b
<1>5. \A i \in 1..b : (c \o d)[i] = i
  BY <1>1, <1>2, <1>4, SMTT(30)
<1>6. c \o d = e
  BY <1>3, <1>4, <1>5, SeqEqual
<1> QED BY <1>6 DEF c, d, e

\* The next chunk behind the chunks.
LEMMA ChunksGrow ==
  ASSUME NEW n \in Nat PROVE Append(Chunks(n), n + 1) = Chunks(n + 1)
<1> DEFINE c == Chunks(n)
           d == Chunks(n + 1)
<1>1. c \in Seq(Nat) /\ Len(c) = n /\ \A i \in 1..n : c[i] = i
  BY ChunksSeq
<1>2. d \in Seq(Nat) /\ Len(d) = n + 1 /\ \A i \in 1..(n + 1) : d[i] = i
  BY ChunksSeq, n + 1 \in Nat
<1> HIDE DEF c, d
<1>3. Append(c, n + 1) = d
  BY <1>1, <1>2, SeqEqual
<1> QED BY <1>3 DEF c, d

\* With the end of audio behind them, and without.
LEMMA WithEnd ==
  ASSUME NEW n \in Nat
  PROVE  /\ Chunks(n) = Chunks(n) \o <<>> /\ Append(Chunks(n), End) = Chunks(n) \o <<End>>
         /\ <<>> \in {<<>>, <<End>>} /\ <<End>> \in {<<>>, <<End>>}
<1> DEFINE c == Chunks(n)
<1>1. c \in Seq(Nat) /\ End \in Nat
  BY ChunksSeq DEF End
<1> HIDE DEF c
<1>2. c = c \o <<>> /\ Append(c, End) = c \o <<End>>
  BY <1>1, AppendIsConcat, ConcatEmptySeq
<1> QED BY <1>2 DEF c

\* Chunks hold no end of audio.
LEMMA ChunksNoEnd ==
  ASSUME NEW n \in Nat PROVE End \notin Range(Chunks(n))
BY ChunksSeq DEF Range, End

\* A queue of at most one item.
LEMMA OneItem ==
  ASSUME NEW s \in Seq(Nat), Len(s) <= 1, s # <<>>
  PROVE  \E x \in Nat : s = <<x>>
<1>1. Len(s) = 1
  <2> DEFINE n == Len(s)
  <2>1. n \in Nat /\ n <= 1 /\ n # 0
    BY EmptySeq
  <2> HIDE DEF n
  <2>2. n = 1
    BY <2>1
  <2> QED BY <2>2 DEF n
<1>2. s[1] \in Nat
  BY <1>1
<1>3. s = <<s[1]>>
  BY <1>1
<1> QED BY <1>2, <1>3

\* The end of audio behind the last of two queues is behind both.
LEMMA EndBehind ==
  ASSUME NEW c \in Seq(Nat), NEW d \in Seq(Nat)
  PROVE  c \o Append(d, End) = Append(c \o d, End)
<1>1. End \in Nat
  BY DEF End
<1> QED BY <1>1, ConcatAppend

\* What is proper stays so while more is captured.
LEMMA ProperKept ==
  ASSUME NEW s, NEW n \in Nat, NEW m \in Nat, NEW over, NEW over2, n <= m,
         over => over2 /\ m = n, Proper(s, n, over)
  PROVE  Proper(s, m, over2)
<1>1. CASE over /\ s = Append(Chunks(n), End)
  BY <1>1 DEF Proper
<1>2. CASE \E k \in 0..n : s = Chunks(k)
  <2>1. PICK k \in 0..n : s = Chunks(k)
    BY <1>2
  <2>2. k \in 0..m
    OBVIOUS
  <2> QED BY <2>1, <2>2 DEF Proper
<1> QED BY <1>1, <1>2 DEF Proper

\* A beginning of what is proper is proper.
LEMMA ProperPrefix ==
  ASSUME NEW s \in Seq(Nat), NEW t \in Seq(Nat), NEW n \in Nat, NEW over,
         Proper(s \o t, n, over)
  PROVE  Proper(s, n, over)
<1> DEFINE u == s \o t
<1>1. /\ u \in Seq(Nat) /\ Len(u) = Len(s) + Len(t) /\ Len(s) \in Nat /\ Len(t) \in Nat
      /\ \A i \in 1..Len(s) : u[i] = s[i]
  BY ConcatProperties
<1>2. CASE t = <<>>
  BY <1>2, ConcatEmptySeq
<1>3. CASE t # <<>>
  <2>1. Len(t) >= 1
    BY <1>3
  <2> HIDE DEF u
  <2>2. Len(s) <= n /\ \A i \in 1..Len(s) : u[i] = i
    <3>1. CASE \E k \in 0..n : u = Chunks(k)
      <4>1. PICK k \in 0..n : u = Chunks(k)
        BY <3>1
      <4>2. k \in Nat /\ Len(u) = k /\ \A i \in 1..k : u[i] = i
        BY <4>1, ChunksSeq
      <4> QED BY <1>1, <2>1, <4>2
    <3>2. CASE u = Append(Chunks(n), End)
      <4>1. Len(u) = n + 1 /\ \A i \in 1..n : u[i] = i
        BY <3>2, WholeSeq
      <4> QED BY <1>1, <2>1, <4>1
    <3> QED BY <3>1, <3>2 DEF Proper, u
  <2>3. \A i \in 1..Len(s) : s[i] = i
    BY <1>1, <2>2
  <2>4. s = Chunks(Len(s))
    BY <2>3, CountsUp
  <2>5. Len(s) \in 0..n
    BY <1>1, <2>2
  <2> QED BY <2>4, <2>5 DEF Proper
<1> QED BY <1>2, <1>3

\* A proper sequence that has the end of audio is the whole utterance.
LEMMA ProperEnd ==
  ASSUME NEW s, NEW n \in Nat, NEW over, Proper(s, n, over), End \in Range(s)
  PROVE  over /\ s = Append(Chunks(n), End)
<1>1. ASSUME NEW k \in 0..n, s = Chunks(k) PROVE FALSE
  BY <1>1, ChunksNoEnd
<1> QED BY <1>1 DEF Proper

\* The last item of a proper sequence is the next chunk, or the end of audio
\* behind all of them.
LEMMA ProperLast ==
  ASSUME NEW s \in Seq(Nat), NEW x \in Nat, NEW n \in Nat, NEW over,
         Proper(s \o <<x>>, n, over)
  PROVE  \/ Len(s) < n /\ x = Len(s) + 1 /\ End \notin Range(s)
         \/ s = Chunks(n) /\ x = End
<1> DEFINE u == s \o <<x>>
<1>1. /\ u \in Seq(Nat) /\ Len(u) = Len(s) + 1 /\ Len(s) \in Nat /\ u[Len(s) + 1] = x
      /\ \A i \in 1..Len(s) : u[i] = s[i]
  OBVIOUS
<1> HIDE DEF u
<1>2. CASE \E k \in 0..n : u = Chunks(k)
  <2>1. PICK k \in 0..n : u = Chunks(k)
    BY <1>2
  <2>2. k \in Nat /\ Len(u) = k /\ \A i \in 1..k : u[i] = i
    BY <2>1, ChunksSeq
  <2>3. Len(s) < n /\ x = Len(s) + 1 /\ \A i \in 1..Len(s) : s[i] = i
    BY <1>1, <2>2
  <2>4. End \notin Range(s)
    BY <2>3 DEF Range, End
  <2> QED BY <2>3, <2>4
<1>3. CASE u = Append(Chunks(n), End)
  <2>1. Len(u) = n + 1 /\ u[n + 1] = End /\ \A i \in 1..n : u[i] = i
    BY <1>3, WholeSeq
  <2>2. Len(s) = n /\ x = End /\ \A i \in 1..Len(s) : s[i] = i
    BY <1>1, <2>1
  <2> QED BY <2>2, CountsUp
<1> QED BY <1>2, <1>3 DEF Proper, u

-----------------------------------------------------------------------------
(***************************************************************************)
(* The inductive invariant.                                                *)
(***************************************************************************)

\* What the driver has handed to the transport, and with its one slot.
Handed == wire \o writing \o outbox
Out == Handed \o outbound

\* The connection still carries what it is given.
Carrying == pumping # "gone" /\ writer # "failed"
Finalizing == Live /\ fsm.session = "finalizing"
Done == [type |-> "done"]

SessionTypes ==
  /\ TypeOK
  /\ wire \in Seq(Nat) /\ writing \in Seq(Nat) /\ outbox \in Seq(Nat)
  /\ events \in Seq(EventItems) /\ decoded \in Seq(EventItems)

\* A live driver holds its receivers and has no result; a capture fault it
\* told of is held by the machine; a control channel it found closed is empty.
LiveSound ==
  /\ listening <=> Live
  /\ (result = Pending) <=> Live
  /\ Live => fsm.session \in {"active", "finalizing"}
  /\ Live /\ "CaptureLost" \in told => fsm.lost
  /\ Live /\ ~control_open => control = <<>> /\ ~pump.running

\* Once the end of audio is queued nothing is left upstream of the driver.
FinalSound ==
  Finalizing =>
    /\ ~polled /\ ~pump.running /\ Upstream = <<>> /\ taken = captured
    /\ "CaptureFailed" \notin Range(sent)

\* What the pump reported has been acted upon or waits on control.
NewsSound ==
  Live =>
    /\ "CaptureLost" \in Range(sent) => fsm.lost \/ "CaptureLost" \in Range(control)
    /\ "CaptureFailed" \in Range(sent) => "CaptureFailed" \in Range(control)
    /\ pump.ended => \/ deadline # "unarmed"
                     \/ Range(control) \cap {"CaptureEnded", "CaptureLost"} # {}

ClockSound ==
  /\ deadline # "unarmed" => CaptureOver
  /\ Live /\ (fsm.session = "finalizing" \/ fsm.lost) => deadline # "unarmed"

\* A completion was sent by the peer, and one sent in answer to the end of
\* audio is only reported once the pump is done and no fault was.
AnswerSound ==
  /\ Done \in Range(events) \cup Range(decoded) => answered # "no"
  /\ answered = "proper" => End \in Range(wire)
  /\ result = "completed" => answered # "no"
  /\ result = "completed" /\ answered = "proper" =>
       ~pump.running /\ Range(sent) \cap {"CaptureLost", "CaptureFailed"} = {}

WireSound ==
  /\ Len(writing) <= 1 /\ (writer # "busy" => writing = <<>>)
  /\ Live /\ Carrying =>
       Out = IF Finalizing THEN Append(Chunks(taken), End) ELSE Chunks(taken)
  /\ Live /\ fsm.session = "active" => End \notin Range(Out)
  /\ Carrying => Proper(Handed, captured, StreamOver)
  /\ Proper(wire, captured, StreamOver)

DrivenInv == /\ SessionTypes /\ LiveSound /\ FinalSound /\ NewsSound /\ ClockSound
             /\ AnswerSound /\ WireSound

SessionInv == CapInv /\ DrivenInv

-----------------------------------------------------------------------------
(***************************************************************************)
(* Steps of the capture side and of the transport.                         *)
(***************************************************************************)

\* A step of the producer or the pump leaves the driver and the connection
\* alone; only its reports and the end of the stream reach them.
LEMMA CaptureSideKeeps ==
  ASSUME SessionInv, CaptureSteps, CaptureSide, CapInv'
  PROVE  DrivenInv'
<1> USE DEF SessionInv, DrivenInv
<1>1. /\ UNCHANGED <<outbox, events, pumping, writing, writer, wire, decoded, answered>>
      /\ UNCHANGED <<driver, fsm, outbound, control_open, inputs_open, deadline, polled,
                     told, result>>
  BY DEF CaptureSide, transportVars, writeVars, readVars, driverVars
<1>2. /\ UNCHANGED <<listening, taken>> /\ captured' >= captured
      /\ StreamOver => StreamOver' /\ captured' = captured
      /\ CaptureOver => CaptureOver'
      /\ ~pump.running => /\ UNCHANGED <<pump, inputs, control, sent>>
                          /\ ring = <<>> /\ ring' = <<>>
  BY CaptureOnly
<1>3. PICK m \in Seq(ControlMessages) : Reports(m)
  BY CaptureOnly
<1>4. captured \in Nat /\ captured' \in Nat /\ taken \in Nat
  BY DEF CapInv, CaptureTypes
<1>5. ~pump.running => StreamOver
  BY DEF CapInv, PumpSound, StreamOver
<1>6. SessionTypes'
  BY <1>1 DEF SessionTypes, TypeOK
<1>7. LiveSound'
  BY <1>1, <1>2 DEF LiveSound, Live
<1>8. FinalSound'
  <2>1. ~pump.running => Upstream' = Upstream
    BY <1>2 DEF Upstream
  <2> QED BY <1>1, <1>2, <1>5, <2>1 DEF FinalSound, Finalizing, Live
<1>9. NewsSound'
  <2>1. Live => listening
    BY DEF LiveSound
  <2> QED BY <1>1, <1>3, <2>1 DEF NewsSound, Live, Reports
<1>10. ClockSound'
  BY <1>1, <1>2 DEF ClockSound, Live
<1>11. AnswerSound'
  BY <1>1, <1>2 DEF AnswerSound
<1>12. WireSound'
  <2>1. Handed' = Handed /\ Out' = Out /\ Carrying' = Carrying /\ Finalizing' = Finalizing
    BY <1>1 DEF Handed, Out, Carrying, Finalizing, Live
  <2>2. Carrying => Proper(Handed, captured', StreamOver')
    BY <1>2, <1>4, ProperKept DEF WireSound
  <2>3. Proper(wire, captured', StreamOver')
    BY <1>2, <1>4, ProperKept DEF WireSound
  <2> QED BY <1>1, <1>2, <2>1, <2>2, <2>3 DEF WireSound, Live
<1> QED BY <1>6, <1>7, <1>8, <1>9, <1>10, <1>11, <1>12

\* A step of the transport leaves capture and the driver alone.
LEMMA DriverAside ==
  ASSUME SessionInv, UNCHANGED <<captureVars, driverVars>>
  PROVE  /\ TypeOK' /\ LiveSound' /\ FinalSound' /\ NewsSound' /\ ClockSound'
         /\ UNCHANGED <<driver, fsm, outbound, result, taken, captured, pump, sent>>
         /\ StreamOver' = StreamOver /\ Live' = Live /\ Finalizing' = Finalizing
<1> USE DEF SessionInv, DrivenInv
<1>1. /\ UNCHANGED <<captured, ring, ring_done, ring_closed, health, pump, inputs, control,
                     listening, taken, sent>>
      /\ UNCHANGED <<driver, fsm, outbound, control_open, inputs_open, deadline, polled,
                     told, result>>
  BY DEF captureVars, ringVars, queueVars, healthVars, channelVars, driverVars
<1>2. TypeOK'
  BY <1>1 DEF SessionTypes, TypeOK
<1>3. LiveSound'
  BY <1>1 DEF LiveSound, Live
<1>4. FinalSound'
  <2>1. Upstream' = Upstream
    BY <1>1 DEF Upstream
  <2> QED BY <1>1, <2>1 DEF FinalSound, Finalizing, Live
<1>5. NewsSound'
  BY <1>1 DEF NewsSound, Live
<1>6. ClockSound'
  BY <1>1 DEF ClockSound, Live, CaptureOver, StreamOver
<1> QED BY <1>1, <1>2, <1>3, <1>4, <1>5, <1>6 DEF StreamOver, Live, Finalizing

\* Four queues joined hold what each of them holds.
LEMMA FourQueues ==
  ASSUME NEW a \in Seq(Nat), NEW b \in Seq(Nat), NEW c \in Seq(Nat), NEW d \in Seq(Nat)
  PROVE  /\ a \o b \o c \in Seq(Nat) /\ a \o b \o c \o d \in Seq(Nat)
         /\ Range(a \o b \o c \o d) = Range(a) \cup Range(b) \cup Range(c) \cup Range(d)
<1> DEFINE p == a \o b
           q == p \o c
<1>1. p \in Seq(Nat) /\ Range(p) = Range(a) \cup Range(b)
  BY ConcatProperties, RangeConcatenation
<1> HIDE DEF p
<1>2. q \in Seq(Nat) /\ Range(q) = Range(p) \cup Range(c)
  BY <1>1, ConcatProperties, RangeConcatenation
<1> HIDE DEF q
<1>3. q \o d \in Seq(Nat) /\ Range(q \o d) = Range(q) \cup Range(d)
  BY <1>2, ConcatProperties, RangeConcatenation
<1>4. /\ q \in Seq(Nat) /\ q \o d \in Seq(Nat)
      /\ Range(q \o d) = Range(a) \cup Range(b) \cup Range(c) \cup Range(d)
  BY <1>1, <1>2, <1>3
<1> QED BY <1>4 DEF p, q

\* A write is begun, ends or fails.
LEMMA WritingKeeps ==
  ASSUME SessionInv, UNCHANGED <<captureVars, driverVars>>,
         WriteDone \/ WriteFails \/ TakeOutbound
  PROVE  DrivenInv'
<1> USE DEF SessionInv, DrivenInv
<1>1. /\ TypeOK' /\ LiveSound' /\ FinalSound' /\ NewsSound' /\ ClockSound'
      /\ UNCHANGED <<driver, fsm, outbound, result, taken, captured, pump, sent>>
      /\ StreamOver' = StreamOver /\ Live' = Live /\ Finalizing' = Finalizing
  BY DriverAside
<1>2. UNCHANGED <<events, pumping, decoded, answered>>
  BY DEF WriteDone, WriteFails, TakeOutbound, readVars
<1>3. /\ wire \in Seq(Nat) /\ writing \in Seq(Nat) /\ outbox \in Seq(Nat)
      /\ captured \in Nat
  BY DEF SessionTypes, CapInv, CaptureTypes
<1>4. wire \o writing \in Seq(Nat) /\ <<>> \in Seq(Nat)
  BY <1>3, ConcatProperties, EmptySeq
<1>5. CASE WriteDone
  <2>1. /\ Running /\ writer = "busy" /\ wire' = wire \o writing /\ writing' = <<>>
        /\ writer' = "idle" /\ outbox' = outbox
    BY <1>5 DEF WriteDone
  <2>2. Carrying /\ Carrying' = Carrying
    BY <1>2, <2>1 DEF Carrying, Running
  <2>3. Handed' = Handed
    BY <1>4, <2>1, ConcatEmptySeq DEF Handed
  <2>4. Proper(wire', captured, StreamOver)
    BY <1>3, <1>4, <2>1, <2>2, ProperPrefix DEF WireSound, Handed
  <2>5. Range(wire) \subseteq Range(wire')
    BY <1>3, <2>1, RangeConcatenation
  <2>6. SessionTypes'
    BY <1>1, <1>2, <1>3, <1>4, <2>1 DEF SessionTypes
  <2>7. AnswerSound'
    BY <1>1, <1>2, <2>5 DEF AnswerSound
  <2>8. Out' = Out
    BY <1>1, <2>3 DEF Out
  <2>9. WireSound'
    BY <1>1, <2>1, <2>2, <2>3, <2>4, <2>8, EmptySeq DEF WireSound
  <2> QED BY <1>1, <2>6, <2>7, <2>9
<1>6. CASE WriteFails
  <2>1. /\ writing' = <<>> /\ writer' = "failed" /\ UNCHANGED <<outbox, wire>>
    BY <1>6 DEF WriteFails
  <2>2. ~Carrying'
    BY <2>1 DEF Carrying
  <2>3. SessionTypes'
    BY <1>1, <1>2, <1>3, <1>4, <2>1 DEF SessionTypes
  <2>4. AnswerSound'
    BY <1>1, <1>2, <2>1 DEF AnswerSound
  <2>5. Range(Out') \subseteq Range(Out)
    <3>1. Range(Out') = Range(wire') \cup Range(writing') \cup Range(outbox') \cup Range(outbound')
      BY <2>3, FourQueues DEF SessionTypes, TypeOK, Out, Handed
    <3>2. Range(Out) = Range(wire) \cup Range(writing) \cup Range(outbox) \cup Range(outbound)
      BY FourQueues DEF SessionTypes, TypeOK, Out, Handed
    <3> QED BY <1>1, <2>1, <3>1, <3>2, RangeOne
  <2>6. WireSound'
    BY <1>1, <2>1, <2>2, <2>5, EmptySeq DEF WireSound
  <2> QED BY <1>1, <2>3, <2>4, <2>6
<1>7. CASE TakeOutbound
  <2>1. /\ writer = "idle" /\ outbox # <<>> /\ writing' = <<Head(outbox)>>
        /\ writer' = "busy" /\ outbox' = Tail(outbox) /\ wire' = wire
    BY <1>7 DEF TakeOutbound
  <2>2. writing = <<>>
    BY <2>1 DEF WireSound
  <2>3. Head(outbox) \in Nat /\ Tail(outbox) \in Seq(Nat)
    BY <1>3, <2>1, HeadTailProperties
  <2>4. writing' \in Seq(Nat) /\ Len(writing') = 1
    BY <2>1, <2>3
  <2>5. Carrying' = Carrying
    BY <1>2, <2>1 DEF Carrying
  <2>6. wire \o writing = wire
    BY <1>3, <2>2, ConcatEmptySeq
  <2>7. Handed' = Handed
    BY <1>3, <2>1, <2>6, MoveHead, ZenonT(40) DEF Handed
  <2>8. SessionTypes'
    BY <1>1, <1>2, <1>3, <2>1, <2>3, <2>4 DEF SessionTypes
  <2>9. AnswerSound'
    BY <1>1, <1>2, <2>1 DEF AnswerSound
  <2>10. Out' = Out
    BY <1>1, <2>7 DEF Out
  <2>11. WireSound'
    BY <1>1, <2>1, <2>4, <2>5, <2>7, <2>10 DEF WireSound
  <2> QED BY <1>1, <2>8, <2>9, <2>11
<1> QED BY <1>5, <1>6, <1>7

\* What a frame decodes to.
LEMMA Decoded ==
  ASSUME NEW frame
  PROVE  /\ decode(frame) \in Seq(EventItems)
         /\ Done \in Range(decode(frame)) => frame \in {"completed", "completed_empty"}
<1> DEFINE items == {Progress("preparing", FALSE, FALSE), Progress("ready", FALSE, FALSE),
                     Progress("transcribing", TRUE, FALSE), Progress("ready", FALSE, TRUE),
                     [type |-> "committed"], [type |-> "unstable"], [type |-> "error"],
                     TransportError}
<1>1. items \subseteq EventItems /\ Done \in EventItems
  BY DEF EventItems, TranscriptionEvents, Progress, Phases, Done
<1>2. Done \notin items
  <2>1. Done.type = "done"
    BY DEF Done
  <2>2. \A e \in items : e.type # "done"
    BY DEF Progress, TransportError
  <2> QED BY <2>1, <2>2
<1>3. \/ decode(frame) = <<>>
      \/ \E e \in items : decode(frame) = <<e>>
      \/ decode(frame) = <<Done>> /\ frame \in {"completed", "completed_empty"}
  BY DEF decode, Done
<1> HIDE DEF items
<1>4. ASSUME NEW e \in items, decode(frame) = <<e>>
      PROVE  decode(frame) \in Seq(EventItems) /\ Done \notin Range(decode(frame))
  <2>1. e \in EventItems /\ e # Done
    BY <1>1, <1>2
  <2>2. <<e>> \in Seq(EventItems) /\ Range(<<e>>) = {e}
    BY <2>1, RangeOne
  <2> QED BY <1>4, <2>1, <2>2
<1>5. <<>> \in Seq(EventItems) /\ Range(<<>>) = {} /\ <<Done>> \in Seq(EventItems)
  BY <1>1, RangeOne
<1>6. CASE \E e \in items : decode(frame) = <<e>>
  BY <1>4, <1>6
<1>7. CASE decode(frame) = <<>> \/ (decode(frame) = <<Done>> /\ frame \in {"completed", "completed_empty"})
  BY <1>5, <1>7
<1> QED BY <1>3, <1>6, <1>7

\* Everything else the pump and its peer do: frames are read and decoded, events
\* passed on, the connection ends.
LEMMA ReadingKeeps ==
  ASSUME SessionInv, UNCHANGED <<captureVars, driverVars>>,
         \/ PumpAborted \/ GraceEnds \/ OutOfGrace \/ OutboundCloses \/ SendEvent
         \/ PumpCancelled \/ PeerStep
  PROVE  DrivenInv'
<1> USE DEF SessionInv, DrivenInv
<1>1. /\ TypeOK' /\ LiveSound' /\ FinalSound' /\ NewsSound' /\ ClockSound'
      /\ UNCHANGED <<driver, fsm, outbound, result, taken, captured, pump, sent>>
      /\ StreamOver' = StreamOver /\ Live' = Live /\ Finalizing' = Finalizing
  BY DriverAside
<1>2. UNCHANGED <<outbox, writing, writer, wire>> /\ (pumping = "gone" => pumping' = "gone")
  BY DEF PumpAborted, GraceEnds, OutOfGrace, OutboundCloses, SendEvent, PumpCancelled, PeerStep,
         ReadClose, ReadError, ReadFrame, writeVars, Running
<1>3. WireSound'
  <2>1. Handed' = Handed /\ Out' = Out /\ (Carrying' => Carrying)
    BY <1>1, <1>2 DEF Handed, Out, Carrying
  <2> QED BY <1>1, <1>2, <2>1 DEF WireSound
<1>4. /\ events' \in Seq(EventItems) /\ decoded' \in Seq(EventItems)
      /\ Done \in Range(events') \cup Range(decoded') => answered' # "no"
      /\ answered # "no" => answered' = answered
      /\ answered' = "proper" => End \in Range(wire)
  <2>1. events \in Seq(EventItems) /\ decoded \in Seq(EventItems) /\ <<>> \in Seq(EventItems)
    BY DEF SessionTypes
  <2>2. CASE UNCHANGED <<events, decoded, answered>>
    BY <2>1, <2>2 DEF AnswerSound
  <2>3. CASE UNCHANGED <<events, answered>> /\ decoded' = <<TransportError>>
    <3>1. TransportError \in EventItems /\ TransportError # Done
      <4>1. TransportError.type # Done.type
        BY DEF TransportError, Done
      <4> QED BY <4>1 DEF EventItems
    <3>2. decoded' \in Seq(EventItems) /\ Range(decoded') = {TransportError}
      BY <2>3, <3>1, RangeOne
    <3> QED BY <2>1, <2>3, <3>1, <3>2 DEF AnswerSound
  <2>4. CASE SendEvent
    <3>1. decoded' = <<>> /\ events' \in {events, events \o decoded} /\ answered' = answered
      BY <2>4 DEF SendEvent
    <3>2. events \o decoded \in Seq(EventItems)
          /\ Range(events \o decoded) = Range(events) \cup Range(decoded)
      BY <2>1, ConcatProperties, RangeConcatenation
    <3>3. Range(events') \cup Range(decoded') \subseteq Range(events) \cup Range(decoded)
      BY <3>1, <3>2, RangeOne
    <3> QED BY <2>1, <3>1, <3>2, <3>3 DEF AnswerSound
  <2>5. ASSUME NEW frame \in PeerFrames, ReadFrame(frame) PROVE <1>4!:
    <3>1. /\ decoded' = decode(frame) /\ events' = events
          /\ answered' = IF frame \in {"completed", "completed_empty"} /\ answered = "no"
                         THEN IF End \in {wire[i] : i \in DOMAIN wire} THEN "proper" ELSE "early"
                         ELSE answered
      BY <2>5 DEF ReadFrame
    <3>2. {wire[i] : i \in DOMAIN wire} = Range(wire)
      BY DEF Range
    <3>3. decoded' \in Seq(EventItems)
          /\ (Done \in Range(decoded') => frame \in {"completed", "completed_empty"})
      BY <3>1, Decoded
    <3> QED BY <2>1, <3>1, <3>2, <3>3 DEF AnswerSound
  <2> QED BY <2>2, <2>3, <2>4, <2>5
          DEF PumpAborted, GraceEnds, OutOfGrace, OutboundCloses, PumpCancelled, PeerStep,
              ReadClose, ReadError, readVars
<1>5. SessionTypes'
  BY <1>1, <1>2, <1>4 DEF SessionTypes
<1>6. AnswerSound'
  BY <1>1, <1>2, <1>4 DEF AnswerSound
<1> QED BY <1>1, <1>3, <1>5, <1>6

-----------------------------------------------------------------------------
(***************************************************************************)
(* Steps of the driver.                                                    *)
(***************************************************************************)

\* Whether the caller has been told of a loss; what a step that returns a
\* result says of it.
Lost == "CaptureLost" \in told
Concludes == \/ result' = result
             \/ (Lost' => Lost) /\ (result' = "completed" => ~fsm.lost)

\* A step in which the driver neither reads capture nor changes the course of
\* the session.
GoesOn ==
  /\ UNCHANGED captureVars /\ Live /\ Live' /\ result' = result
  /\ driver' \in {"opening", "running"}
  /\ fsm' \in FsmStates /\ fsm'.session = fsm.session /\ fsm'.lost = fsm.lost
  /\ told' \in SUBSET OrchestratorEvents
  /\ "CaptureLost" \in told' => "CaptureLost" \in told
  /\ polled' \in BOOLEAN /\ (polled' => polled \/ pump.running)
  /\ control_open' \in BOOLEAN /\ inputs_open' \in BOOLEAN
  /\ ~control_open' => ~control_open \/ (control = <<>> /\ ~pump.running)
  /\ deadline' \in {"unarmed", "armed", "expired"}
  /\ deadline' = "unarmed" <=> deadline = "unarmed"

\* Such a step keeps what relates the driver to capture.
LEMMA GoesOnKeeps ==
  ASSUME SessionInv, GoesOn
  PROVE  /\ LiveSound' /\ FinalSound' /\ NewsSound' /\ ClockSound'
         /\ outbound' \in Seq(Nat) /\ Len(outbound') <= 1 => TypeOK'
         /\ UNCHANGED <<captured, taken, pump, sent, result>>
         /\ StreamOver' = StreamOver /\ Finalizing' = Finalizing
<1> USE DEF SessionInv, DrivenInv
<1>1. UNCHANGED <<captured, ring, ring_done, ring_closed, health, pump, inputs, control,
                  listening, taken, sent>>
  BY DEF GoesOn, captureVars, ringVars, queueVars, healthVars, channelVars
<1>2. Finalizing' = Finalizing
  BY DEF GoesOn, Finalizing
<1>3. LiveSound'
  BY <1>1 DEF LiveSound, GoesOn
<1>4. FinalSound'
  <2>1. Upstream' = Upstream
    BY <1>1 DEF Upstream
  <2> QED BY <1>1, <1>2, <2>1 DEF FinalSound, GoesOn
<1>5. NewsSound'
  BY <1>1 DEF NewsSound, GoesOn
<1>6. ClockSound'
  BY <1>1 DEF ClockSound, GoesOn, CaptureOver, StreamOver
<1>7. outbound' \in Seq(Nat) /\ Len(outbound') <= 1 => TypeOK'
  BY DEF SessionTypes, TypeOK, GoesOn
<1> QED BY <1>1, <1>2, <1>3, <1>4, <1>5, <1>6, <1>7 DEF StreamOver, GoesOn

\* The transport's queues as a step that leaves them alone sees them.
Untouched == UNCHANGED <<outbox, writing, writer, wire, pumping, decoded, answered>>

\* The driver turns over, sees time pass or a channel close.
LEMMA TurnKeeps ==
  ASSUME SessionInv,
         \/ PollControl \/ WakeOnControl \/ ControlCloses \/ Opened \/ DeadlinePasses
         \/ SeeActivity \/ InputsClose
  PROVE  DrivenInv'
<1> USE DEF SessionInv, DrivenInv
<1>1. GoesOn
  <2>1. TypeOK
    BY DEF SessionTypes
  <2>2. /\ UNCHANGED <<captureVars, fsm, told, result>>
        /\ Live /\ driver' \in {"opening", "running"}
    BY DEF PollControl, WakeOnControl, ControlCloses, Opened, DeadlinePasses, SeeActivity,
           InputsClose, Driving, Other, Live
  <2>3. polled' \in BOOLEAN /\ (polled' => polled \/ pump.running)
    <3>1. CASE PollControl
      BY <3>1 DEF PollControl
    <3>2. CASE WakeOnControl \/ ControlCloses \/ Opened \/ SeeActivity \/ InputsClose
      BY <3>2 DEF WakeOnControl, ControlCloses, Opened, SeeActivity, InputsClose
    <3>3. CASE DeadlinePasses
      BY <2>1, <3>3 DEF DeadlinePasses, TypeOK
    <3> QED BY <3>1, <3>2, <3>3
  <2>4. /\ control_open' \in BOOLEAN /\ inputs_open' \in BOOLEAN
        /\ ~control_open' => ~control_open \/ (control = <<>> /\ ~pump.running)
    BY <2>1 DEF PollControl, WakeOnControl, ControlCloses, Opened, DeadlinePasses, SeeActivity,
           InputsClose, TypeOK
  <2>5. /\ deadline' \in {"unarmed", "armed", "expired"}
        /\ deadline' = "unarmed" <=> deadline = "unarmed"
    BY <2>1 DEF PollControl, WakeOnControl, ControlCloses, Opened, DeadlinePasses, SeeActivity,
           InputsClose, TypeOK, progress, arm
  <2> QED BY <2>1, <2>2, <2>3, <2>4, <2>5 DEF GoesOn, Live, TypeOK
<1>2. Untouched /\ UNCHANGED <<events, outbound>>
  BY DEF PollControl, WakeOnControl, ControlCloses, Opened, DeadlinePasses, SeeActivity,
         InputsClose, Untouched, transportVars, writeVars, readVars
<1>3. /\ LiveSound' /\ FinalSound' /\ NewsSound' /\ ClockSound'
      /\ outbound' \in Seq(Nat) /\ Len(outbound') <= 1 => TypeOK'
      /\ UNCHANGED <<captured, taken, pump, sent, result>>
      /\ StreamOver' = StreamOver /\ Finalizing' = Finalizing
  BY <1>1, GoesOnKeeps
<1>4. SessionTypes'
  BY <1>2, <1>3 DEF SessionTypes, TypeOK, Untouched
<1>5. AnswerSound'
  BY <1>2, <1>3 DEF AnswerSound, Untouched
<1>6. WireSound'
  <2>1. Handed' = Handed /\ Out' = Out /\ Carrying' = Carrying
    BY <1>2 DEF Handed, Out, Carrying, Untouched
  <2> QED BY <1>1, <1>2, <1>3, <2>1 DEF WireSound, Untouched, GoesOn
<1> QED BY <1>3, <1>4, <1>5, <1>6

\* The item in the slot goes to the transport, or is lost with it.
LEMMA HandOverKeeps ==
  ASSUME SessionInv, HandOver PROVE DrivenInv'
<1> USE DEF SessionInv, DrivenInv
<1>1. GoesOn
  <2>1. TypeOK
    BY DEF SessionTypes
  <2>2. /\ UNCHANGED <<captureVars, fsm, told, result, driver, control_open, inputs_open>>
        /\ Live /\ driver' \in {"opening", "running"} /\ polled' = FALSE
    BY DEF HandOver, Driving, Other, Live
  <2>3. /\ deadline' \in {"unarmed", "armed", "expired"}
        /\ deadline' = "unarmed" <=> deadline = "unarmed"
    BY <2>1 DEF HandOver, TypeOK, progress, arm
  <2> QED BY <2>1, <2>2, <2>3 DEF GoesOn, Live, TypeOK
<1>2. /\ UNCHANGED <<events, pumping, writing, writer, wire, decoded, answered>>
      /\ outbound' = <<>>
  BY DEF HandOver, writeVars, readVars
<1>3. /\ LiveSound' /\ FinalSound' /\ NewsSound' /\ ClockSound'
      /\ outbound' \in Seq(Nat) /\ Len(outbound') <= 1 => TypeOK'
      /\ UNCHANGED <<captured, taken, pump, sent, result>>
      /\ StreamOver' = StreamOver /\ Finalizing' = Finalizing
  BY <1>1, GoesOnKeeps
<1>4. /\ wire \in Seq(Nat) /\ writing \in Seq(Nat) /\ outbox \in Seq(Nat)
      /\ outbound \in Seq(Nat) /\ captured \in Nat /\ taken \in 0..captured
      /\ <<>> \in Seq(Nat) /\ Len(<<>>) = 0
  BY EmptySeq DEF SessionTypes, TypeOK, CapInv, CaptureTypes
<1>5. wire \o writing \in Seq(Nat) /\ Handed \in Seq(Nat) /\ Out \in Seq(Nat)
        /\ outbox \o outbound \in Seq(Nat)
  BY <1>4, FourQueues, ConcatProperties DEF Handed, Out
<1>6. outbox' \in {outbox, outbox \o outbound}
  BY DEF HandOver
<1>7. SessionTypes'
  <2>1. outbox' \in Seq(Nat)
    BY <1>4, <1>5, <1>6
  <2>2. TypeOK'
    BY <1>2, <1>3, <1>4
  <2> QED BY <1>2, <2>1, <2>2 DEF SessionTypes
<1>8. AnswerSound'
  BY <1>2, <1>3 DEF AnswerSound
<1>9. Carrying' = Carrying
  BY <1>2 DEF Carrying
<1>10. CASE Permit /\ outbox' = outbox \o outbound
  <2>1. Handed' = Out
    <3> DEFINE w == wire \o writing
    <3>1. w \in Seq(Nat)
      BY <1>5
    <3>2. Handed' = w \o (outbox \o outbound) /\ Out = (w \o outbox) \o outbound
      BY <1>2, <1>10 DEF Handed, Out
    <3> HIDE DEF w
    <3> QED BY <1>4, <3>1, <3>2, Joined
  <2>2. Out' = Out
    BY <1>2, <1>5, <2>1, ConcatEmptySeq DEF Out
  <2>3. Carrying => Proper(Out, captured, StreamOver)
    <3>1. CASE Finalizing
      <4>1. StreamOver /\ taken = captured
        BY <3>1 DEF FinalSound, CapInv, PumpSound, StreamOver
      <4> QED BY <3>1, <4>1 DEF WireSound, Proper, Finalizing
    <3>2. CASE ~Finalizing
      BY <1>1, <1>4, <3>2 DEF WireSound, Proper, GoesOn
    <3> QED BY <3>1, <3>2
  <2> QED BY <1>1, <1>2, <1>3, <1>7, <1>8, <1>9, <2>1, <2>2, <2>3 DEF WireSound, GoesOn
<1>11. CASE Refused /\ outbox' = outbox
  <2>1. ~Carrying
    BY <1>11 DEF Carrying, Refused
  <2>2. Range(Out') \subseteq Range(Out)
    <3>1. Handed' = Handed
      BY <1>2, <1>11 DEF Handed
    <3>2. Out' = Handed
      BY <1>2, <1>5, <3>1, ConcatEmptySeq DEF Out
    <3>3. Range(Out) = Range(Handed) \cup Range(outbound)
      BY <1>4, <1>5, RangeConcatenation DEF Out
    <3> QED BY <3>2, <3>3
  <2> QED BY <1>1, <1>2, <1>3, <1>7, <1>8, <1>9, <2>1, <2>2 DEF WireSound, GoesOn
<1> QED BY <1>10, <1>11 DEF HandOver

\* The next chunk goes into the slot, or the end of audio does and the session
\* is finalizing.
LEMMA TakeInputItemKeeps ==
  ASSUME SessionInv, TakeInputItem PROVE SessionInv'
<1> USE DEF SessionInv, DrivenInv
<1> DEFINE x == Head(inputs)
<1>1. /\ Live /\ driver = "running" /\ outbound = <<>> /\ fsm.session = "active" /\ inputs # <<>>
      /\ UNCHANGED <<driver, result, listening, pumping, control, pump, sent, outbox, events,
                     writing, writer, wire, decoded, answered, control_open, inputs_open>>
      /\ UNCHANGED <<captured, ring, ring_done, ring_closed, health>>
      /\ polled' = FALSE
  BY DEF TakeInputItem, Driving, Other, accepts_audio, RecvInput, Stays, ringVars, queueVars,
         healthVars, writeVars, readVars, Apply
<1>2. TakeInput
  <2>1. listening
    BY <1>1 DEF LiveSound
  <2> QED BY <1>1, <2>1 DEF TakeInputItem, TakeInput
<1>3. CapInv'
  BY <1>2, TakeInputKeeps
<1>4. x \in Nat /\ fsm \in FsmStates /\ taken \in Nat /\ captured \in Nat
  BY <1>1, HeadTailProperties DEF CapInv, CaptureTypes, SessionTypes, TypeOK
<1>5. /\ UNCHANGED <<told>> /\ outbound' = <<x>>
      /\ IF x = EndOfAudio
         THEN fsm' = [fsm EXCEPT !.session = "finalizing"] /\ deadline' = arm
         ELSE fsm' = fsm /\ deadline' = deadline
  <2>1. CASE x = EndOfAudio
    <3>1. Apply(on_end_of_audio(fsm)) /\ deadline' = arm
      BY <2>1 DEF TakeInputItem
    <3>2. on_end_of_audio(fsm)
            = Result([fsm EXCEPT !.session = "finalizing"], <<End>>, FALSE, <<>>)
      BY <1>1 DEF on_end_of_audio
    <3>3. /\ fsm' = [fsm EXCEPT !.session = "finalizing"] /\ outbound' = <<>> \o <<End>>
          /\ told' = told
      BY <1>1, <3>1, <3>2 DEF Apply, Result
    <3> QED BY <2>1, <3>1, <3>3 DEF End, EndOfAudio
  <2>2. CASE x # EndOfAudio
    <3>1. Apply(on_audio(fsm, x)) /\ deadline' = deadline
      BY <2>2 DEF TakeInputItem
    <3>2. on_audio(fsm, x) = Result(fsm, <<x>>, FALSE, <<>>)
      BY DEF on_audio, TakeInputItem
    <3>3. fsm' = fsm /\ outbound' = <<>> \o <<x>> /\ told' = told
      BY <1>1, <3>1, <3>2 DEF Apply, Result
    <3> QED BY <1>4, <2>2, <3>1, <3>3
  <2> QED BY <2>1, <2>2
<1>6. fsm' \in FsmStates /\ fsm'.lost = fsm.lost /\ fsm'.session \in {"active", "finalizing"}
        /\ (fsm'.session = "finalizing" <=> x = EndOfAudio)
  BY <1>1, <1>4, <1>5 DEF FsmStates, SessionStates
<1>7. /\ x # EndOfAudio => x = taken + 1 /\ taken' = taken + 1
      /\ x = EndOfAudio => /\ taken = captured /\ taken' = taken /\ Upstream' = <<>>
                           /\ ~pump.running /\ ~pump.stream_open
                           /\ "CaptureFailed" \notin Range(sent)
  BY <1>2, TakeInputKeeps
<1>8. Live' /\ StreamOver' = StreamOver /\ CaptureOver' = CaptureOver
  BY <1>1 DEF Live, StreamOver, CaptureOver
<1>9. x = EndOfAudio => StreamOver
  BY <1>7 DEF CapInv, PumpSound
<1>10. outbound' \in Seq(Nat) /\ Len(outbound') = 1
  BY <1>4, <1>5
<1> HIDE DEF x
<1>11. SessionTypes'
  <2>1. deadline' \in {"unarmed", "armed", "expired"}
    BY <1>5 DEF SessionTypes, TypeOK, arm
  <2>2. UNCHANGED <<driver, control_open, inputs_open, told, result>>
          /\ polled' = FALSE /\ fsm' \in FsmStates
          /\ outbound' \in Seq(Nat) /\ Len(outbound') <= 1
    BY <1>1, <1>5, <1>6, <1>10
  <2>3. TypeOK
    BY DEF SessionTypes
  <2>4. TypeOK'
    BY ONLY <2>1, <2>2, <2>3 DEF TypeOK
  <2> QED BY <1>1, <2>4 DEF SessionTypes
<1>12. LiveSound'
  BY <1>1, <1>5, <1>6, <1>8 DEF LiveSound
<1>13. FinalSound'
  BY <1>1, <1>6, <1>7, <1>8 DEF FinalSound, Finalizing
<1>14. NewsSound'
  BY <1>1, <1>5, <1>6, <1>8 DEF NewsSound, arm
<1>15. ClockSound'
  BY <1>1, <1>5, <1>6, <1>8, <1>9 DEF ClockSound, CaptureOver, arm
<1>16. AnswerSound'
  BY <1>1 DEF AnswerSound
<1>17. WireSound'
  <2>1. Handed' = Handed /\ Carrying' = Carrying
    BY <1>1 DEF Handed, Carrying
  <2>2. Handed \in Seq(Nat)
    BY FourQueues DEF SessionTypes, TypeOK, Handed
  <2>3. Out = Handed
    BY <1>1, <2>2, ConcatEmptySeq DEF Out
  <2>4. Out' = Append(Out, x)
    BY <1>4, <1>5, <2>1, <2>2, <2>3, AppendIsConcat DEF Out
  <2>5. Carrying => Out = Chunks(taken)
    BY <1>1 DEF WireSound, Finalizing
  <2>6. Carrying => Out' = IF Finalizing' THEN Append(Chunks(taken'), End) ELSE Chunks(taken')
    <3>1. CASE x = EndOfAudio
      BY <1>6, <1>7, <1>8, <2>4, <2>5, <3>1 DEF Finalizing, End, EndOfAudio
    <3>2. CASE x # EndOfAudio
      BY <1>4, <1>6, <1>7, <1>8, <2>4, <2>5, <3>2, ChunksGrow DEF Finalizing
    <3> QED BY <3>1, <3>2
  <2>7. fsm'.session = "active" => End \notin Range(Out')
    <3>1. Range(Out') = Range(Handed) \cup Range(outbound')
      BY <1>10, <2>1, <2>2, RangeConcatenation DEF Out
    <3>2. Range(outbound') = {x}
      BY <1>5, RangeOne
    <3> QED BY <1>1, <1>6, <2>3, <3>1, <3>2 DEF WireSound, End, EndOfAudio
  <2> QED BY <1>1, <1>8, <2>1, <2>6, <2>7 DEF WireSound
<1> QED BY <1>3, <1>11, <1>12, <1>13, <1>14, <1>15, <1>16, <1>17

\* The driver returns, with a result it has the right to.
LEMMA ReturnsKeeps ==
  ASSUME SessionInv, Live, NEW r \in {"completed", "failed", "handshake_error"}, Returns(r),
         UNCHANGED <<ringVars, pump, taken, sent, outbox, writeVars, decoded, answered,
                     outbound, control_open, inputs_open>>,
         fsm' \in FsmStates, told' \in SUBSET OrchestratorEvents, polled' = FALSE,
         deadline' \in {"unarmed", "armed", "expired"}, deadline' # "unarmed" => CaptureOver,
         r = "completed" => /\ answered # "no"
                            /\ answered = "proper" =>
                                 /\ ~pump.running
                                 /\ Range(sent) \cap {"CaptureLost", "CaptureFailed"} = {}
  PROVE  SessionInv'
<1> USE DEF SessionInv, DrivenInv
<1>1. /\ driver' = "returned" /\ result' = r /\ listening' = FALSE /\ events' = <<>>
      /\ (pumping = "gone" => pumping' = "gone") /\ DropReceivers
  BY DEF Returns, DropReceivers, DropSession
<1>2. UNCHANGED <<captured, ring_done, ring_closed, health, writing, writer, wire>>
  BY DEF ringVars, queueVars, healthVars, writeVars
<1>3. CapInv'
  <2>1. DriverReturns
    BY <1>1 DEF LiveSound, DriverReturns
  <2> QED BY <2>1, DriverReturnsKeeps
<1>4. ~Live' /\ StreamOver' = StreamOver /\ CaptureOver' = CaptureOver
  BY <1>1, <1>2 DEF Live, StreamOver, CaptureOver
<1>5. SessionTypes'
  <2>1. TypeOK
    BY DEF SessionTypes
  <2>2. TypeOK'
    BY <1>1, <2>1 DEF TypeOK
  <2> QED BY <1>1, <1>2, <2>2, EmptySeq DEF SessionTypes
<1>6. LiveSound'
  BY <1>1, <1>4 DEF LiveSound, Pending
<1>7. FinalSound' /\ NewsSound'
  BY <1>4 DEF FinalSound, NewsSound, Finalizing
<1>8. ClockSound'
  BY <1>4 DEF ClockSound
<1>9. AnswerSound'
  BY <1>1, <1>2, RangeOne DEF AnswerSound
<1>10. WireSound'
  <2>1. Handed' = Handed /\ (Carrying' => Carrying)
    BY <1>1, <1>2 DEF Handed, Carrying
  <2> QED BY <1>2, <1>4, <2>1 DEF WireSound
<1> QED BY <1>3, <1>5, <1>6, <1>7, <1>8, <1>9, <1>10

\* The handshake fails.
LEMMA OpenFailsKeeps ==
  ASSUME SessionInv, OpenFails PROVE SessionInv' /\ Concludes
<1>1. /\ Live /\ Returns("handshake_error") /\ polled' = FALSE
      /\ UNCHANGED <<ringVars, pump, taken, sent, outbox, writeVars, decoded, answered,
                     outbound, control_open, inputs_open, fsm, told, deadline>>
  BY DEF OpenFails, Other, Live, readVars
<1>2. TypeOK /\ (deadline # "unarmed" => CaptureOver)
  BY DEF SessionInv, DrivenInv, SessionTypes, ClockSound
<1>3. Concludes
  BY <1>1 DEF Concludes, Returns, Lost
<1> QED BY <1>1, <1>2, <1>3, ReturnsKeeps DEF TypeOK

\* What applying a steady result does.
LEMMA SteadyApplied ==
  ASSUME TypeOK, NEW res, Steady(fsm, res), Apply(res)
  PROVE  /\ fsm' = res.fsm /\ fsm' \in FsmStates /\ outbound' = outbound /\ polled' = FALSE
         /\ told' \in SUBSET OrchestratorEvents
         /\ "CaptureLost" \in told' => "CaptureLost" \in told
<1>1. /\ fsm' = res.fsm /\ outbound' = outbound \o res.queue /\ polled' = FALSE
      /\ told' = told \cup {res.emit[i] : i \in DOMAIN res.emit}
  BY DEF Apply
<1>2. res.fsm \in FsmStates /\ res.queue = <<>> /\ res.emit \in Seq(Audible)
  BY DEF Steady
<1>3. outbound \in Seq(Nat) /\ told \in SUBSET OrchestratorEvents
  BY DEF TypeOK
<1>4. outbound' = outbound
  BY <1>1, <1>2, <1>3, ConcatEmptySeq
<1>5. {res.emit[i] : i \in DOMAIN res.emit} \subseteq Audible
  BY <1>2
<1> QED BY <1>1, <1>2, <1>3, <1>4, <1>5 DEF Audible

\* The outcome of a machine that has finished or failed.
LEMMA OutcomeIs ==
  ASSUME NEW f, f.session \in {"done", "failed"}
  PROVE  outcome(f) = IF f.session = "done" THEN "completed" ELSE "failed"
BY DEF outcome

\* The deadline ends the session.
LEMMA StallKeeps ==
  ASSUME SessionInv, Stall PROVE SessionInv' /\ Concludes
<1> DEFINE res == on_stalled(fsm)
<1>1. TypeOK /\ Live /\ (deadline # "unarmed" => CaptureOver)
        /\ fsm \in FsmStates /\ ~is_terminal(fsm.session)
  BY DEF SessionInv, DrivenInv, SessionTypes, ClockSound, LiveSound, TypeOK, Stall, Other,
         is_terminal
<1>2. /\ Apply(res) /\ Returns(outcome(res.fsm))
      /\ UNCHANGED <<ringVars, pump, taken, sent, outbox, writeVars, decoded, answered,
                     control_open, inputs_open, deadline>>
  BY DEF Stall, readVars
<1>3. Steady(fsm, res) /\ res.fsm.session = "failed"
  BY <1>1, FailSteady
<1> HIDE DEF res
<1>4. outcome(res.fsm) = "failed"
  BY <1>3, OutcomeIs
<1>5. fsm' \in FsmStates /\ outbound' = outbound /\ polled' = FALSE
        /\ told' \in SUBSET OrchestratorEvents /\ (Lost' => Lost)
  BY <1>1, <1>2, <1>3, SteadyApplied DEF Lost
<1>6. Returns("failed") /\ deadline' \in {"unarmed", "armed", "expired"}
  BY <1>1, <1>2, <1>4 DEF TypeOK
<1>7. Concludes
  BY <1>5, <1>6 DEF Concludes, Returns
<1> QED BY <1>1, <1>2, <1>5, <1>6, <1>7, ReturnsKeeps

\* An event of the backend, or the end of them: a completion answers the end
\* of audio only when capture has ended, and control has been read to its end.
LEMMA TakeEventKeeps ==
  ASSUME SessionInv, TakeEvent PROVE SessionInv' /\ Concludes
<1> DEFINE over == events = <<>> \/ Head(events) = TransportError
           res == IF over THEN on_backend_closed(fsm) ELSE on_backend(fsm, Head(events))
<1>1. /\ TypeOK /\ Live /\ driver = "running" /\ Other /\ (deadline # "unarmed" => CaptureOver)
      /\ fsm \in FsmStates /\ fsm.session \in {"active", "finalizing"}
      /\ events \in Seq(EventItems)
  BY DEF SessionInv, DrivenInv, SessionTypes, ClockSound, LiveSound, TypeOK, TakeEvent, Driving,
         Other
<1>2. /\ Apply(res) /\ deadline' = progress(deadline)
      /\ UNCHANGED <<ringVars, pump, taken, sent, outbox, writeVars, decoded, answered,
                     control_open, inputs_open>>
      /\ IF Ended(res) THEN Returns(outcome(res.fsm))
         ELSE RecvEvent /\ Stays /\ UNCHANGED <<inputs, control>>
  BY DEF TakeEvent, readVars
<1>3. ~is_terminal(fsm.session)
  BY <1>1 DEF is_terminal
<1>4. Steady(fsm, res) /\ (res.fsm.session = "done" => Done \in Range(events))
  <2>1. CASE over
    BY <1>1, <1>3, <2>1, FailSteady
  <2>2. CASE ~over
    <3>1. Head(events) \in Range(events) /\ Head(events) \in TranscriptionEvents
      <4>1. Head(events) \in EventItems /\ Range(events) = {Head(events)} \cup Range(Tail(events))
        BY <1>1, <2>2, HeadTailProperties, RangeTail
      <4> QED BY <2>2, <4>1 DEF EventItems
    <3>2. Steady(fsm, res) /\ (res.fsm.session = "done" => Head(events).type = "done")
      BY <1>1, <1>3, <2>2, <3>1, BackendSteady
    <3>3. ASSUME Head(events).type = "done" PROVE Head(events) = Done
      BY <3>1, <3>3 DEF TranscriptionEvents, Done
    <3> QED BY <3>1, <3>2, <3>3
  <2> QED BY <2>1, <2>2
<1> HIDE DEF res, over
<1>5. /\ fsm' = res.fsm /\ fsm' \in FsmStates /\ outbound' = outbound /\ polled' = FALSE
      /\ told' \in SUBSET OrchestratorEvents
      /\ "CaptureLost" \in told' => "CaptureLost" \in told
  BY <1>1, <1>2, <1>4, SteadyApplied
<1>6. /\ deadline' \in {"unarmed", "armed", "expired"}
      /\ deadline' = "unarmed" <=> deadline = "unarmed"
  BY <1>1, <1>2 DEF TypeOK, progress, arm
<1>7. res.fsm.session \in {fsm.session, "done", "failed"}
        /\ (res.fsm.session = fsm.session => res.fsm.lost = fsm.lost)
        /\ (res.fsm.session = "done" => ~fsm.lost)
  BY <1>4 DEF Steady
<1>8. CASE ~Ended(res)
  <2>1. res.fsm.session = fsm.session
    BY <1>7, <1>8 DEF Ended, is_terminal
  <2>2. RecvEvent /\ UNCHANGED <<driver, result, listening, sink_held, events_held, pumping,
                                 inputs, control>>
    BY <1>2, <1>8 DEF Stays
  <2>3. UNCHANGED captureVars
    BY <1>2, <2>2 DEF captureVars, channelVars
  <2>4. GoesOn
    BY <1>1, <1>2, <1>5, <1>6, <1>7, <2>1, <2>2, <2>3 DEF GoesOn, Live, TypeOK
  <2>5. CapInv'
    BY <2>3, CaptureStutters DEF SessionInv
  <2>6. /\ LiveSound' /\ FinalSound' /\ NewsSound' /\ ClockSound'
        /\ outbound' \in Seq(Nat) /\ Len(outbound') <= 1 => TypeOK'
        /\ UNCHANGED <<captured, taken, pump, sent, result>>
        /\ StreamOver' = StreamOver /\ Finalizing' = Finalizing
    BY <2>4, GoesOnKeeps
  <2>7. events' \in Seq(EventItems) /\ Range(events') \subseteq Range(events)
    BY <1>1, <2>2, RangeTail DEF RecvEvent
  <2>8. UNCHANGED <<outbox, writing, writer, wire, pumping, decoded, answered, outbound>>
    BY <1>2, <1>5, <2>2 DEF writeVars
  <2>9. SessionTypes'
    BY <1>1, <2>6, <2>7, <2>8 DEF SessionInv, DrivenInv, SessionTypes, TypeOK
  <2>10. AnswerSound'
    BY <2>6, <2>7, <2>8 DEF SessionInv, DrivenInv, AnswerSound
  <2>11. WireSound'
    <3>1. Handed' = Handed /\ Out' = Out /\ Carrying' = Carrying
      BY <2>8 DEF Handed, Out, Carrying
    <3> QED BY <1>1, <1>5, <2>1, <2>4, <2>6, <2>8, <3>1
            DEF SessionInv, DrivenInv, WireSound, GoesOn
  <2>12. Concludes
    BY <2>6 DEF Concludes
  <2> QED BY <2>5, <2>6, <2>9, <2>10, <2>11, <2>12 DEF SessionInv, DrivenInv
<1>9. CASE Ended(res)
  <2>1. res.fsm.session \in {"done", "failed"}
    BY <1>1, <1>7, <1>9 DEF Ended, is_terminal
  <2> DEFINE r == IF res.fsm.session = "done" THEN "completed" ELSE "failed"
  <2>2. Returns(r)
    BY <1>2, <1>9, <2>1, OutcomeIs
  <2>3. deadline' # "unarmed" => CaptureOver
    BY <1>1, <1>6
  <2>4. r = "completed" => /\ answered # "no"
                           /\ answered = "proper" =>
                                /\ ~pump.running
                                /\ Range(sent) \cap {"CaptureLost", "CaptureFailed"} = {}
    <3> USE DEF SessionInv, DrivenInv
    <3> SUFFICES ASSUME res.fsm.session = "done"
                 PROVE  /\ answered # "no"
                        /\ answered = "proper" =>
                             /\ ~pump.running
                             /\ Range(sent) \cap {"CaptureLost", "CaptureFailed"} = {}
      OBVIOUS
    <3>1. ~fsm.lost /\ answered # "no"
      BY <1>4, <1>7 DEF AnswerSound
    <3>2. ASSUME answered = "proper" PROVE Finalizing
      <4>1. End \in Range(wire)
        BY <3>2 DEF AnswerSound
      <4>2. End \in Range(Out)
        BY <4>1, FourQueues DEF SessionTypes, TypeOK, Out, Handed
      <4> QED BY <1>1, <4>2 DEF WireSound, Finalizing
    <3>3. ASSUME Finalizing
          PROVE  ~pump.running /\ Range(sent) \cap {"CaptureLost", "CaptureFailed"} = {}
      <4>1. ~polled /\ ~pump.running /\ "CaptureFailed" \notin Range(sent)
        BY <3>3 DEF FinalSound
      <4>2. control = <<>>
        BY <1>1, <4>1 DEF Other, LiveSound
      <4>3. "CaptureLost" \notin Range(sent)
        BY <1>1, <3>1, <4>2, RangeOne DEF NewsSound
      <4> QED BY <4>1, <4>3
    <3> QED BY <3>1, <3>2, <3>3
  <2>5. r \in {"completed", "failed", "handshake_error"}
    OBVIOUS
  <2>6. Concludes
    <3>1. r = "completed" => ~fsm.lost
      BY <1>7
    <3>2. result' = r
      BY <2>2 DEF Returns
    <3> QED BY <1>5, <3>1, <3>2 DEF Concludes, Lost
  <2> HIDE DEF r
  <2> QED BY <1>1, <1>2, <1>5, <1>6, <2>2, <2>3, <2>4, <2>5, <2>6, ReturnsKeeps
<1> QED BY <1>8, <1>9

\* A message of the pump: a failure ends the session, an end or a loss arms the
\* deadline, and a loss is held by the machine from then on.
LEMMA TakeControlMessageKeeps ==
  ASSUME SessionInv, TakeControlMessage PROVE SessionInv' /\ Concludes
<1> DEFINE message == Head(control)
           res == control_input(message)
<1>1. /\ TypeOK /\ Live /\ control # <<>> /\ control \in Seq(ControlMessages)
      /\ fsm \in FsmStates /\ fsm.session \in {"active", "finalizing"}
      /\ (deadline # "unarmed" => CaptureOver) /\ listening /\ outbound \in Seq(Nat)
  BY DEF SessionInv, DrivenInv, SessionTypes, ClockSound, LiveSound, TypeOK,
         TakeControlMessage, CapInv, CaptureTypes
<1>2. /\ Apply(res)
      /\ deadline' = IF message = "CaptureFailed" THEN deadline ELSE arm
      /\ IF Ended(res) THEN Returns(outcome(res.fsm))
         ELSE RecvControl /\ Stays /\ UNCHANGED <<inputs, events>>
      /\ UNCHANGED <<ringVars, pump, taken, sent, outbox, writeVars, decoded, answered,
                     control_open, inputs_open>>
  BY DEF TakeControlMessage, readVars
<1>3. /\ message \in ControlMessages /\ Tail(control) \in Seq(ControlMessages)
      /\ Range(control) = {message} \cup Range(Tail(control))
  BY <1>1, HeadTailProperties, RangeTail
<1>4. CaptureOver
  <2>1. message \in Range(sent)
    BY <1>3 DEF SessionInv, CapInv, SentSound
  <2>2. sent # <<>>
    BY <2>1, RangeOne
  <2> QED BY <2>2 DEF SessionInv, CapInv, SentSound
<1>5. deadline' \in {"unarmed", "armed", "expired"} /\ ~is_terminal(fsm.session)
  BY <1>1, <1>2 DEF TypeOK, arm, is_terminal
<1>6. CASE message = "CaptureFailed"
  <2> DEFINE failed == [fsm EXCEPT !.session = "failed", !.code = "capture_failed",
                                   !.device = TRUE]
  <2>1. res = Result(failed, <<>>, TRUE, <<>>)
    BY <1>5, <1>6 DEF control_input, on_capture_failed
  <2>2. /\ res.fsm \in FsmStates /\ res.fsm.session = "failed" /\ res.queue = <<>>
        /\ res.emit = <<>>
    <3>1. failed \in FsmStates /\ failed.session = "failed"
      BY <1>1 DEF FsmStates, SessionStates, FailureCodes
    <3> HIDE DEF failed
    <3> QED BY <2>1, <3>1 DEF Result
  <2> HIDE DEF res
  <2>3. Returns("failed")
    BY <1>2, <2>2, OutcomeIs DEF Ended, is_terminal
  <2>4. fsm' \in FsmStates /\ outbound' = outbound /\ told' = told /\ polled' = FALSE
    BY <1>1, <1>2, <2>2, ConcatEmptySeq DEF Apply
  <2>5. told' \in SUBSET OrchestratorEvents
    BY <1>1, <2>4 DEF TypeOK
  <2>6. Concludes
    BY <2>3, <2>4 DEF Concludes, Returns, Lost
  <2> QED BY <1>1, <1>2, <1>4, <1>5, <2>3, <2>4, <2>5, <2>6, ReturnsKeeps
<1>7. CASE message # "CaptureFailed"
  <2>1. /\ res.fsm \in FsmStates /\ res.fsm.session = fsm.session /\ res.queue = <<>>
        /\ (fsm.lost => res.fsm.lost) /\ (message = "CaptureLost" => res.fsm.lost)
        /\ (~res.fsm.lost => res.emit = <<>>) /\ res.emit \in {<<>>, <<"CaptureLost">>}
    <3>1. CASE message = "CaptureLost" /\ ~fsm.lost
      <4> DEFINE held == [fsm EXCEPT !.lost = TRUE]
      <4>1. res = Result(held, <<>>, FALSE, <<"CaptureLost">>)
        BY <1>5, <3>1 DEF control_input, on_capture_lost
      <4>2. held \in FsmStates /\ held.session = fsm.session /\ held.lost
        BY <1>1 DEF FsmStates
      <4> HIDE DEF held, res
      <4> QED BY <4>1, <4>2 DEF Result
    <3>2. CASE message # "CaptureLost" \/ fsm.lost
      <4>1. res = Result(fsm, <<>>, FALSE, <<>>)
        <5>1. CASE message = "CaptureLost" /\ fsm.lost
          BY <5>1 DEF control_input, on_capture_lost, Quiet
        <5>2. CASE message = "CaptureEnded"
          BY <5>2 DEF control_input, Quiet
        <5> QED BY <1>3, <1>7, <3>2, <5>1, <5>2 DEF ControlMessages
      <4> QED BY <1>1, <3>2, <4>1 DEF Result
    <3> QED BY <3>1, <3>2
  <2> HIDE DEF res, message
  <2>2. /\ RecvControl /\ UNCHANGED <<driver, result, listening, sink_held, events_held, pumping,
                                      inputs, events>>
    BY <1>2, <1>5, <2>1 DEF Ended, Stays
  <2>3. /\ fsm' = res.fsm /\ outbound' = outbound /\ polled' = FALSE
        /\ told' \subseteq told \cup (IF fsm'.lost THEN {"CaptureLost"} ELSE {})
    <3>1. {res.emit[i] : i \in DOMAIN res.emit} \subseteq IF res.fsm.lost THEN {"CaptureLost"} ELSE {}
      BY <2>1
    <3> QED BY <1>1, <1>2, <2>1, <3>1, ConcatEmptySeq DEF Apply
  <2>4. control' = Tail(control) /\ deadline' = "armed"
    BY <1>2, <1>7, <2>2 DEF RecvControl, arm
  <2>5. /\ UNCHANGED <<captured, ring, ring_done, ring_closed, health, pump, taken, sent>>
        /\ UNCHANGED <<outbox, writing, writer, wire, decoded, answered, control_open, inputs_open>>
    BY <1>2 DEF ringVars, queueVars, healthVars, writeVars
  <2>6. CapInv'
    <3>1. TakeControl
      BY <1>1, <1>2, <2>2 DEF TakeControl
    <3> QED BY <3>1, TakeControlKeeps DEF SessionInv
  <2>7. /\ Live' = Live /\ Finalizing' = Finalizing /\ StreamOver' = StreamOver
        /\ CaptureOver' = CaptureOver
    BY <2>1, <2>2, <2>3, <2>5 DEF Live, Finalizing, StreamOver, CaptureOver
  <2>8. SessionTypes'
    <3>1. told' \in SUBSET OrchestratorEvents
      BY <1>1, <2>3 DEF TypeOK, OrchestratorEvents
    <3>2. TypeOK'
      BY <1>1, <2>1, <2>2, <2>3, <2>4, <2>5, <3>1 DEF TypeOK
    <3> QED BY <2>2, <2>5, <3>2 DEF SessionInv, DrivenInv, SessionTypes
  <2>9. LiveSound'
    <3>1. "CaptureLost" \in told' => "CaptureLost" \in told \/ fsm'.lost
      BY <2>3
    <3>2. control_open
      BY DEF TakeControlMessage
    <3> QED BY <1>1, <2>1, <2>2, <2>3, <2>5, <2>7, <3>1, <3>2
            DEF SessionInv, DrivenInv, LiveSound
  <2>10. FinalSound'
    <3>1. Upstream' = Upstream
      BY <2>2, <2>5 DEF Upstream
    <3> QED BY <2>3, <2>5, <2>7, <3>1 DEF SessionInv, DrivenInv, FinalSound
  <2>11. NewsSound'
    <3>1. NewsSound
      BY DEF SessionInv, DrivenInv
    <3>2. "CaptureLost" \in Range(sent) => fsm'.lost \/ "CaptureLost" \in Range(control')
      BY <1>1, <1>3, <2>1, <2>3, <2>4, <3>1 DEF NewsSound
    <3>3. "CaptureFailed" \in Range(sent) => "CaptureFailed" \in Range(control')
      BY <1>1, <1>3, <1>7, <2>4, <3>1 DEF NewsSound
    <3> QED BY <2>4, <2>5, <3>2, <3>3 DEF NewsSound
  <2>12. ClockSound'
    BY <1>4, <2>4, <2>7 DEF ClockSound
  <2>13. AnswerSound'
    BY <2>2, <2>5 DEF SessionInv, DrivenInv, AnswerSound
  <2>14. WireSound'
    <3>1. Handed' = Handed /\ Out' = Out /\ Carrying' = Carrying
      BY <2>2, <2>3, <2>5 DEF Handed, Out, Carrying
    <3> QED BY <1>1, <2>1, <2>3, <2>5, <2>7, <3>1 DEF SessionInv, DrivenInv, WireSound
  <2>15. Concludes
    BY <2>2 DEF Concludes
  <2> QED BY <2>6, <2>8, <2>9, <2>10, <2>11, <2>12, <2>13, <2>14, <2>15
          DEF SessionInv, DrivenInv
<1> QED BY <1>6, <1>7

-----------------------------------------------------------------------------
(***************************************************************************)
(* The invariant is inductive.                                             *)
(***************************************************************************)

\* It holds before anything has happened.
LEMMA SessionInitInv == Init => SessionInv
<1> SUFFICES ASSUME Init PROVE SessionInv
  OBVIOUS
<1>1. CapInv
  BY CaptureInitInv DEF Init
<1> USE DEF Init, CaptureInit, RingInit, TransportInit
<1>2. SessionTypes
  <2>1. <<>> \in Seq(Nat) /\ <<>> \in Seq(EventItems) /\ Len(<<>>) <= 1
    OBVIOUS
  <2>2. fsm \in FsmStates
    BY DEF NewFsm, FsmStates, SessionStates, Residencies
  <2>3. TypeOK
    BY <2>1, <2>2 DEF TypeOK, Pending
  <2> QED BY <2>1, <2>3 DEF SessionTypes
<1>3. Live /\ ~Finalizing /\ fsm.session = "active" /\ ~fsm.lost
  BY DEF Live, Finalizing, NewFsm
<1>4. LiveSound /\ FinalSound /\ NewsSound /\ ClockSound
  BY <1>3, RangeOne DEF LiveSound, FinalSound, NewsSound, ClockSound
<1>5. AnswerSound
  BY RangeOne DEF AnswerSound, Pending
<1>6. WireSound
  <2>1. Chunks(0) = <<>>
    BY DEF Chunks
  <2>2. Handed = <<>> /\ Out = <<>>
    BY DEF Handed, Out
  <2>3. Proper(<<>>, captured, StreamOver)
    BY <2>1 DEF Proper
  <2> QED BY <1>3, <2>1, <2>2, <2>3, RangeOne DEF WireSound
<1> QED BY <1>1, <1>2, <1>4, <1>5, <1>6 DEF SessionInv, DrivenInv

\* Every step keeps it.
LEMMA SessionNextInv == SessionInv /\ [Next]_vars => SessionInv'
<1> SUFFICES ASSUME SessionInv, [Next]_vars PROVE SessionInv'
  OBVIOUS
<1>1. CASE UNCHANGED vars
  <2>1. UNCHANGED <<captureVars, driverVars>>
    BY <1>1 DEF vars
  <2>2. CapInv'
    BY <2>1, CaptureStutters DEF SessionInv
  <2>3. /\ TypeOK' /\ LiveSound' /\ FinalSound' /\ NewsSound' /\ ClockSound'
        /\ UNCHANGED <<driver, fsm, outbound, result, taken, captured, pump, sent>>
        /\ StreamOver' = StreamOver /\ Live' = Live /\ Finalizing' = Finalizing
    BY <2>1, DriverAside
  <2>4. UNCHANGED <<outbox, events, pumping, writing, writer, wire, decoded, answered>>
    BY <1>1 DEF vars, transportVars, writeVars, readVars
  <2>5. Handed' = Handed /\ Out' = Out /\ Carrying' = Carrying
    BY <2>3, <2>4 DEF Handed, Out, Carrying
  <2>6. SessionTypes' /\ AnswerSound'
    BY <2>3, <2>4 DEF SessionInv, DrivenInv, SessionTypes, AnswerSound
  <2>7. WireSound'
    BY <2>3, <2>4, <2>5 DEF SessionInv, DrivenInv, WireSound
  <2> QED BY <2>2, <2>3, <2>6, <2>7 DEF SessionInv, DrivenInv
<1>2. CASE CaptureSteps /\ CaptureSide
  <2>1. CapInv'
    <3>1. CaptureNext
      BY <1>2 DEF CaptureSteps, CaptureNext
    <3> QED BY <3>1, CaptureNextInv DEF SessionInv
  <2> QED BY <1>2, <2>1, CaptureSideKeeps DEF SessionInv
<1>3. CASE (PumpStep \/ PeerStep) /\ TransportSide
  <2>1. UNCHANGED <<captureVars, driverVars>>
    BY <1>3 DEF TransportSide
  <2>2. CapInv'
    BY <2>1, CaptureStutters DEF SessionInv
  <2>3. DrivenInv'
    BY <1>3, <2>1, WritingKeeps, ReadingKeeps DEF PumpStep
  <2> QED BY <2>2, <2>3 DEF SessionInv
<1>4. CASE \/ PollControl \/ WakeOnControl \/ ControlCloses \/ Opened \/ DeadlinePasses
           \/ SeeActivity \/ InputsClose \/ HandOver
  <2>1. UNCHANGED captureVars
    BY <1>4 DEF PollControl, WakeOnControl, ControlCloses, Opened, DeadlinePasses, SeeActivity,
                InputsClose, HandOver
  <2>2. CapInv'
    BY <2>1, CaptureStutters DEF SessionInv
  <2>3. DrivenInv'
    BY <1>4, TurnKeeps, HandOverKeeps
  <2> QED BY <2>2, <2>3 DEF SessionInv
<1>5. CASE TakeControlMessage \/ Stall \/ TakeEvent \/ TakeInputItem \/ OpenFails
  BY <1>5, TakeControlMessageKeeps, StallKeeps, TakeEventKeeps, TakeInputItemKeeps, OpenFailsKeeps
<1> QED BY <1>1, <1>2, <1>3, <1>4, <1>5 DEF Next, DriverStep, CaptureSteps

\* So it always holds.
THEOREM SessionAlways == Spec => []SessionInv
<1>1. Init => SessionInv
  BY SessionInitInv
<1>2. SessionInv /\ [Next]_vars => SessionInv'
  BY SessionNextInv
<1> QED BY <1>1, <1>2, PTL DEF Spec

-----------------------------------------------------------------------------
(***************************************************************************)
(* What the composition guarantees.                                        *)
(***************************************************************************)

\* Speech reaches the server whole and in order, over the queues and slots of
\* four tasks, and the end of audio behind all of it (run_session, pump_capture
\* and the transport's pump together).
THEOREM SpeechIsKept == Spec => []SpeechKept
<1>1. SessionInv => SpeechKept
  <2> SUFFICES ASSUME SessionInv PROVE SpeechKept
    OBVIOUS
  <2> USE DEF SessionInv, DrivenInv
  <2>1. TypeOK
    BY DEF SessionTypes
  <2>2. /\ inputs \in Seq(Nat) /\ pump.pending \in Seq(Nat) /\ ring \in Seq(Nat)
        /\ captured \in Nat /\ taken \in Nat /\ taken <= captured
        /\ wire \in Seq(Nat) /\ writing \in Seq(Nat) /\ outbox \in Seq(Nat)
        /\ outbound \in Seq(Nat)
    BY PendingSeq, RingSeq DEF CapInv, CaptureTypes, SessionTypes, TypeOK
  <2>3. EndIsLast
    BY ProperEnd, <2>2 DEF WireSound, EndIsLast
  <2>4. ASSUME Live, pumping # "gone", writer # "failed"
        PROVE  \E end \in {<<>>, <<End>>} : Pipeline = Chunks(captured) \o end
    <3>1. Out \in Seq(Nat)
      BY <2>2, FourQueues DEF Out, Handed
    <3>2. Pipeline = Out \o Upstream
      BY DEF Pipeline, Out, Handed, Upstream
    <3>3. Out = IF Finalizing THEN Append(Chunks(taken), End) ELSE Chunks(taken)
      BY <2>4 DEF WireSound, Carrying
    <3>4. CASE Finalizing
      <4>1. Upstream = <<>> /\ taken = captured
        BY <3>4 DEF FinalSound
      <4>2. Pipeline = Append(Chunks(captured), End)
        <5>1. Pipeline = Out
          BY <3>1, <3>2, <4>1, ConcatEmptySeq
        <5> QED BY <3>3, <3>4, <4>1, <5>1
      <4> QED BY <2>2, <4>2, WithEnd
    <3>5. CASE ~Finalizing
      <4> DEFINE c == Chunks(taken)
                 d == Span(taken, captured)
      <4>1. c \in Seq(Nat) /\ d \in Seq(Nat) /\ c \o d = Chunks(captured)
        BY <2>2, ChunksSeq, SpanSeq, ChunksThenSpan
      <4>2. Pipeline = c \o Upstream
        BY <3>2, <3>3, <3>5
      <4>3. Upstream \in {d, Append(d, End)}
        BY <2>4 DEF FlowSound, CapInv, LiveSound, End, EndOfAudio
      <4> HIDE DEF c, d
      <4>4. c \o Append(d, End) = Append(c \o d, End)
        BY <4>1, EndBehind
      <4>5. Pipeline \in {Chunks(captured), Append(Chunks(captured), End)}
        BY <4>1, <4>2, <4>3, <4>4
      <4> QED BY <2>2, <4>5, WithEnd
    <3> QED BY <3>4, <3>5
  <2> QED BY <2>1, <2>3, <2>4 DEF SpeechKept, NoSpeechLost
<1> QED BY <1>1, SessionAlways, PTL

\* An answer to the end of audio is reported as a completion only if capture
\* told of no fault and the server has heard everything (the biased select of
\* run_session, and the order in which pump_capture reports).
THEOREM CompletionIsWhole == Spec => []CompletedIsWhole
<1>1. SessionInv => CompletedIsWhole
  BY ProperEnd DEF SessionInv, DrivenInv, AnswerSound, WireSound, CompletedIsWhole, CapInv,
                   CaptureTypes
<1> QED BY <1>1, SessionAlways, PTL

\* The deadline of run_session never runs against a speaking user, and always
\* runs once only the server can move the session on.
THEOREM DeadlineRunsRight == Spec => []DeadlineIsRight
<1>1. SessionInv => DeadlineIsRight
  <2> SUFFICES ASSUME SessionInv PROVE DeadlineIsRight
    OBVIOUS
  <2> USE DEF SessionInv, DrivenInv
  <2>1. DeadlineOnlyAfterCapture
    BY DEF ClockSound, CaptureOver, StreamOver, DeadlineOnlyAfterCapture
  <2>2. ASSUME Live, ~pump.running, control = <<>>
        PROVE  deadline # "unarmed"
    <3>1. Range(control) = {}
      BY <2>2, RangeOne
    <3>2. pump.ended \/ "CaptureFailed" \in Range(sent)
      BY <2>2 DEF LiveSound, CapInv, SentSound
    <3> QED BY <2>2, <3>1, <3>2 DEF NewsSound
  <2>3. WaitingIsTimed
    BY <2>2 DEF WaitingIsTimed, ClockSound
  <2> QED BY <2>1, <2>3 DEF DeadlineIsRight
<1> QED BY <1>1, SessionAlways, PTL

-----------------------------------------------------------------------------
(***************************************************************************)
(* The composition implements Utterance: each step is one of its steps or  *)
(* changes nothing the caller and the server can see.                      *)
(***************************************************************************)

Seen == <<captured, wire, Lost, result>>

\* The device speaks, until the server has the end of audio.
LEMMA CaptureSpeaks ==
  ASSUME SessionInv, CaptureSteps, CaptureSide
  PROVE  Promise!Speak \/ UNCHANGED Seen
<1> USE DEF SessionInv, DrivenInv
<1>1. UNCHANGED <<wire, told, result>>
  BY DEF CaptureSide, transportVars, writeVars, driverVars
<1>2. CASE Push
  <2>1. captured' = captured + 1 /\ ~StreamOver
    BY <1>2 DEF Push, StreamOver
  <2>2. Proper(wire, captured, StreamOver) /\ captured \in Nat
    BY DEF WireSound, CapInv, CaptureTypes
  <2>3. End \notin Range(wire)
    BY ONLY <2>1, <2>2, ProperEnd, SMTT(30)
  <2>4. ~Promise!Committed
    BY <2>3 DEF Promise!Committed, Promise!EndMark, Range, End
  <2> QED BY <1>1, <2>1, <2>4 DEF Promise!Speak
<1>3. CASE ~Push
  <2>1. captured' = captured
    BY <1>3 DEF CaptureSteps, Producing, PushOverload, PublishOverload, FinishRing, Conclude, Stop,
                Pumping, ReadHealth, SendPending, ReadChunk, ReadFault, ReadEnd, CancelCapture,
                queueVars
  <2> QED BY <1>1, <2>1 DEF Seen, Lost
<1> QED BY <1>2, <1>3

\* A write that ends is the next chunk heard, or the commit behind all of them.
LEMMA WriteIsHeard ==
  ASSUME SessionInv, WriteDone, UNCHANGED <<captureVars, driverVars>>
  PROVE  Promise!Hear \/ Promise!Commit \/ UNCHANGED Seen
<1> USE DEF SessionInv, DrivenInv
<1>1. UNCHANGED <<captured, told, result>>
  BY DEF captureVars, ringVars, queueVars, driverVars
<1>2. /\ wire \in Seq(Nat) /\ writing \in Seq(Nat) /\ outbox \in Seq(Nat) /\ captured \in Nat
      /\ Carrying /\ wire' = wire \o writing /\ Len(writing) <= 1
  BY DEF SessionTypes, CapInv, CaptureTypes, WriteDone, Carrying, Running, WireSound
<1>3. CASE writing = <<>>
  <2>1. wire' = wire
    BY <1>2, <1>3, ConcatEmptySeq
  <2> QED BY <1>1, <2>1 DEF Seen, Lost
<1>4. CASE writing # <<>>
  <2>1. PICK x \in Nat : writing = <<x>>
    <3>1. writing \in Seq(Nat) /\ Len(writing) <= 1
      BY <1>2
    <3> QED BY ONLY <1>4, <3>1, OneItem
  <2>2. Proper(wire \o <<x>>, captured, StreamOver)
    <3>1. wire \o writing \in Seq(Nat)
      BY <1>2, ConcatProperties
    <3>2. Proper(wire \o writing, captured, StreamOver)
      BY <1>2, <3>1, ProperPrefix DEF WireSound, Handed
    <3> QED BY <2>1, <3>2
  <2>3. wire' = Append(wire, x)
    BY <1>2, <2>1, AppendIsConcat
  <2>4. \/ Len(wire) < captured /\ x = Len(wire) + 1 /\ End \notin Range(wire)
        \/ wire = Chunks(captured) /\ x = End
    BY <1>2, <2>2, ProperLast
  <2>5. CASE Len(wire) < captured /\ x = Len(wire) + 1 /\ End \notin Range(wire)
    <3>1. ~Promise!Committed
      BY <2>5 DEF Promise!Committed, Promise!EndMark, Range, End
    <3> QED BY <1>1, <2>3, <2>5, <3>1 DEF Promise!Hear
  <2>6. CASE wire = Chunks(captured) /\ x = End
    BY <1>1, <2>3, <2>6 DEF Promise!Commit, Promise!Whole, Promise!EndMark, Chunks, End
  <2> QED BY <2>4, <2>5, <2>6
<1> QED BY <1>3, <1>4

\* The driver tells of a loss once, or concludes.
LEMMA DriverTells ==
  ASSUME SessionInv, SessionInv', DriverStep \/ Opened \/ OpenFails \/ DeadlinePasses
  PROVE  Promise!Lose \/ (\E v \in Promise!Verdicts : Promise!Conclude(v)) \/ UNCHANGED Seen
<1> USE DEF SessionInv, DrivenInv
<1>1. UNCHANGED <<captured, wire>> /\ Live
  BY DEF DriverStep, PollControl, WakeOnControl, TakeControlMessage, ControlCloses, Stall,
         TakeEvent, SeeActivity, HandOver, TakeInputItem, InputsClose, Opened, OpenFails,
         DeadlinePasses, captureVars, ringVars, queueVars, transportVars, writeVars, Driving,
         Other, Live
<1>2. result = Pending
  BY <1>1 DEF LiveSound
<1>3. Lost => Lost'
  BY DEF DriverStep, PollControl, WakeOnControl, TakeControlMessage, ControlCloses, Stall,
         TakeEvent, SeeActivity, HandOver, TakeInputItem, InputsClose, Opened, OpenFails,
         DeadlinePasses, Apply, Lost
<1>4. Concludes
  <2>1. CASE OpenFails \/ Stall \/ TakeEvent \/ TakeControlMessage
    BY <2>1, OpenFailsKeeps, StallKeeps, TakeEventKeeps, TakeControlMessageKeeps
  <2>2. CASE ~(OpenFails \/ Stall \/ TakeEvent \/ TakeControlMessage)
    <3>1. result' = result
      BY <2>2 DEF DriverStep, PollControl, WakeOnControl, ControlCloses, SeeActivity, HandOver,
                  TakeInputItem, InputsClose, Opened, DeadlinePasses, Stays
    <3> QED BY <3>1 DEF Concludes
  <2> QED BY <2>1, <2>2
<1>5. CASE result' = result
  <2>1. CASE Lost' = Lost
    BY <1>1, <1>5, <2>1 DEF Seen
  <2>2. CASE Lost' # Lost
    <3>1. Lost' /\ ~Lost
      BY <1>3, <2>2 DEF Lost
    <3> QED BY <1>1, <1>2, <1>5, <3>1 DEF Promise!Lose, Promise!Waiting, Lost, Pending
  <2> QED BY <2>1, <2>2
<1>6. CASE result' # result
  <2>1. Lost' = Lost /\ (result' = "completed" => ~Lost)
    <3>1. Lost => fsm.lost
      BY <1>1 DEF LiveSound, Lost
    <3>2. (Lost' => Lost) /\ (result' = "completed" => ~Lost)
      BY <1>4, <1>6, <3>1 DEF Concludes
    <3> QED BY <1>3, <3>2 DEF Lost
  <2>2. result' \in {"completed", "failed", "handshake_error"}
    BY <1>2, <1>6 DEF SessionTypes, TypeOK
  <2>3. result' \in Promise!Verdicts
    BY <2>2 DEF Promise!Verdicts
  <2>4. Promise!Conclude(result')
    BY <1>1, <1>2, <2>1 DEF Promise!Conclude, Promise!Waiting, Lost, Pending
  <2> QED BY <2>3, <2>4
<1> QED BY <1>5, <1>6

\* run_dictation keeps the promise of one dictation, whatever the server does.
THEOREM PromiseIsKept == Spec => KeepsPromise
<1>1. Init => Promise!UInit
  BY DEF Init, CaptureInit, RingInit, TransportInit, Promise!UInit, Promise!Waiting, Pending
<1>2. SessionInv /\ SessionInv' /\ [Next]_vars => [Promise!UNext]_(Promise!uvars)
  <2> SUFFICES ASSUME SessionInv, SessionInv', [Next]_vars
               PROVE  [Promise!UNext]_(Promise!uvars)
    OBVIOUS
  <2>1. ASSUME UNCHANGED Seen PROVE UNCHANGED Promise!uvars
    BY <2>1 DEF Seen, Lost, Promise!uvars
  <2>2. CASE UNCHANGED vars
    <3>1. UNCHANGED Seen
      BY <2>2 DEF vars, captureVars, ringVars, queueVars, transportVars, writeVars, driverVars,
                  Seen, Lost
    <3> QED BY <2>1, <3>1
  <2>3. CASE CaptureSteps /\ CaptureSide
    BY <2>1, <2>3, CaptureSpeaks DEF Promise!UNext
  <2>4. CASE (PumpStep \/ PeerStep) /\ TransportSide
    <3>1. UNCHANGED <<captureVars, driverVars>>
      BY <2>4 DEF TransportSide
    <3>2. CASE WriteDone
      BY <2>1, <3>1, <3>2, WriteIsHeard DEF Promise!UNext
    <3>3. CASE ~WriteDone
      <4>1. wire' = wire
        BY <2>4, <3>3 DEF PumpStep, PumpAborted, WriteFails, GraceEnds, OutOfGrace, TakeOutbound,
                          OutboundCloses, SendEvent, PumpCancelled, PeerStep, ReadClose, ReadError,
                          ReadFrame, writeVars
      <4>2. UNCHANGED Seen
        BY <3>1, <4>1 DEF captureVars, ringVars, queueVars, driverVars, Seen, Lost
      <4> QED BY <2>1, <4>2
    <3> QED BY <3>2, <3>3
  <2>5. CASE DriverStep \/ Opened \/ OpenFails \/ DeadlinePasses
    BY <2>1, <2>5, DriverTells DEF Promise!UNext
  <2> QED BY <2>2, <2>3, <2>4, <2>5 DEF Next, CaptureSteps
<1> QED BY <1>1, <1>2, SessionAlways, PTL DEF Spec, KeepsPromise, Promise!USpec
=============================================================================
