-------------------------------- MODULE Ring --------------------------------
(***************************************************************************)
(* The capture buffer and its producer (client/myna-audio/src/ring.rs,     *)
(* backend.rs, source.rs; StopHandle in client/myna-core/src/capture.rs).  *)
(*                                                                         *)
(* A capture thread pushes PCM chunks into a bounded ring and publishes    *)
(* capture health on a watch channel; a consumer task drains the ring and  *)
(* watches health independently.  Chunks are numbered in capture order and *)
(* count one unit each against the bound, which is bytes in the code.      *)
(*                                                                         *)
(* ring, ring_done, ring_fault, ring_closed   the fields of Inner          *)
(* captured   chunks the ring has taken so far                             *)
(* health     the watch value; unread: the subscriber has not seen it yet  *)
(* producer   "live", "overloaded" (the push latched the fault, health not *)
(*            yet published), "concluding" (health published, the ring not *)
(*            yet finished) or "gone"                                      *)
(* verdict    the fault the producer concludes with, NoFault for none      *)
(* stopped    the StopHandle                                               *)
(* fate       how the ring ended capture (history): "open", "clean" or     *)
(*            "fault"                                                      *)
(***************************************************************************)
EXTENDS Integers, Sequences

CONSTANTS RingCap,   \* max_bytes, in chunks
          MaxChunks  \* bound: chunks the device delivers in a run

ASSUME RingAssumption == RingCap \in Nat \ {0} /\ MaxChunks \in Nat

VARIABLES captured, ring, ring_done, ring_fault, ring_closed,
          health, unread, producer, verdict, stopped, fate

queueVars == <<captured, ring, ring_done, ring_fault, ring_closed, fate>>
healthVars == <<health, unread>>
producerVars == <<producer, verdict>>
ringVars == <<queueVars, healthVars, producerVars, stopped>>

NoFault == "none"
Faults == {"device", "overloaded"}
Terminal(h) == h \in {"faulted", "ended"}

RingInit ==
  /\ captured = 0 /\ ring = <<>>
  /\ ring_done = FALSE /\ ring_fault = NoFault /\ ring_closed = FALSE
  /\ health = "opening" /\ unread = TRUE
  /\ producer = "live" /\ verdict = NoFault
  /\ stopped = FALSE /\ fate = "open"

\* Advance health; terminal states are never left, and an unchanged value
\* wakes nobody.
publish(next) ==
  IF Terminal(health) \/ health = next
  THEN UNCHANGED healthVars
  ELSE health' = next /\ unread' = TRUE

\* Producer::push / emit / Ring::push: a chunk the ring has room for.
Push ==
  /\ producer = "live" /\ ~ring_done /\ ~ring_closed
  /\ captured < MaxChunks
  /\ Len(ring) < RingCap
  /\ captured' = captured + 1
  /\ ring' = Append(ring, captured + 1)
  /\ publish("capturing")
  /\ UNCHANGED <<ring_done, ring_fault, ring_closed, producerVars, stopped, fate>>

\* Ring::push past the bound: the chunk is refused and the overload latched.
\* The stream can deliver the fault before health shows it.
PushOverload ==
  /\ producer = "live" /\ ~ring_done /\ ~ring_closed
  /\ captured < MaxChunks
  /\ Len(ring) >= RingCap
  /\ ring_done' = TRUE /\ ring_fault' = "overloaded" /\ fate' = "fault"
  /\ publish("capturing")
  /\ producer' = "overloaded"
  /\ UNCHANGED <<captured, ring, ring_closed, verdict, stopped>>

\* emit: the overload the push returned becomes health.
PublishOverload ==
  /\ producer = "overloaded"
  /\ publish("faulted")
  /\ producer' = "live"
  /\ UNCHANGED <<queueVars, verdict, stopped>>

\* Producer::finish (or its drop): the device failed, never opened, or ended.
\* The chunk conclude flushes first is a Push just before this.
Conclude(fault) ==
  /\ producer = "live"
  /\ publish(IF fault # NoFault /\ ~ring_closed THEN "faulted" ELSE "ended")
  /\ verdict' = fault
  /\ producer' = "concluding"
  /\ UNCHANGED <<queueVars, stopped>>

\* Ring::finish, then the producer is dropped, closing the health watch.
FinishRing ==
  /\ producer = "concluding"
  /\ producer' = "gone"
  /\ IF ring_done
     THEN UNCHANGED <<ring_done, ring_fault, fate>>
     ELSE /\ ring_done' = TRUE
          /\ ring_fault' = IF ring_closed THEN ring_fault ELSE verdict
          /\ fate' = IF verdict = NoFault \/ ring_closed THEN "clean" ELSE "fault"
  /\ UNCHANGED <<captured, ring, ring_closed, healthVars, verdict, stopped>>

\* StopHandle::stop from the desktop (hotkey release).
Stop ==
  /\ ~stopped
  /\ stopped' = TRUE
  /\ UNCHANGED <<queueVars, healthVars, producerVars>>

\* ConsumerGuard::drop: the consumer's stream is gone.
close == /\ stopped' = TRUE /\ ring_closed' = TRUE
         /\ ring' = <<>> /\ ring_fault' = NoFault

\* What the backend does of its own accord.
Producing ==
  \/ Push \/ PushOverload \/ PublishOverload \/ FinishRing
  \/ \E fault \in {NoFault, "device"} : Conclude(fault)

\* What it must do: finish the calls it has begun, and conclude once it is
\* told to stop or a push returns false.
Winding ==
  \/ PublishOverload \/ FinishRing
  \/ (stopped \/ ring_done \/ ring_closed)
       /\ \E fault \in {NoFault, "device"} : Conclude(fault)
=============================================================================
