------------------------------ MODULE PipeWire ------------------------------
(***************************************************************************)
(* The PipeWire capture backend (client/myna-audio/src/native.rs).  The    *)
(* realtime data thread puts each buffer into a lock-free ring and keeps   *)
(* an account of the frames the stream clock says there should have been;  *)
(* the loop thread drains the ring into the producer, watches the stop     *)
(* flag and the deadlines, and closes.  They share the ring and three      *)
(* atomics.                                                                *)
(*                                                                         *)
(* Audio is counted in frames of a coarse clock and a buffer is its        *)
(* number, so that what reached the producer can be compared with what     *)
(* the graph handed over.                                                  *)
(***************************************************************************)
EXTENDS Integers, Sequences

CONSTANTS Quanta,      \* frames in a graph cycle; the graph may change it
          Tolerance,   \* LOSS_TOLERANCE
          Confirm,     \* LOSS_CONFIRM
          RtCap,       \* buffers the realtime ring holds (REALTIME_BUFFER)
          Skips,       \* cycles the graph may overwrite before one it hands over
          MaxBuffers,  \* bound: buffers the graph hands over
          MaxTurns     \* bound: changes of the stream's state, cycle and clock

VARIABLES
  graph,   \* the stream's state, its cycle and clock domain, whether the second
           \* half of a split cycle is due, and turns, the changes so far
  truth,   \* what the graph did, for the properties: buffers sent, frames of them
           \* missed since the account began, and whether the cycle has changed
           \* under the account
  acct,    \* struct Continuity
  path,    \* DataPath: its epoch and lost
  shared,  \* struct Shared: epoch, loss, unconfirmed
  rt,      \* the realtime ring
  poll,    \* the loss Drain::run has read before it drains, "idle" between polls
  sup,     \* struct Supervisor
  ending,  \* the first ending, "none" for None
  at,      \* where capture_session is
  pushed,  \* buffers given to the producer
  owner    \* whether the consumer had gone at a push, and what finish reported

Larger(a, b) == IF a > b THEN a ELSE b

Disconnected == [state |-> "none", cycle |-> 0, domain |-> 1, split |-> FALSE, turns |-> 0]
NoAccount == [domain |-> 0, last |-> FALSE, owed |-> 0, cycle |-> 0, unrepaid |-> -1,
              delivery |-> 0, disagreed |-> 0]
NoPath == [epoch |-> 0, lost |-> FALSE]
NoLoss == [epoch |-> 0, loss |-> "none", unconfirmed |-> FALSE]

PipeWireInit ==
  /\ graph = Disconnected /\ acct = NoAccount /\ path = NoPath /\ shared = NoLoss
  /\ truth = [sent |-> 0, missed |-> 0, moved |-> FALSE]
  /\ rt = <<>> /\ poll = "idle"
  /\ sup = [phase |-> "Discovering", wired |-> FALSE]
  /\ ending = "none" /\ at = "start" /\ pushed = <<>>
  /\ owner = [gone |-> FALSE, outcome |-> "none"]

-----------------------------------------------------------------------------
\* Continuity: the account of the frames owed.

\* Nothing is owed across a pause; the measure of a delivery outlives this.
restart(c) == [c EXCEPT !.last = FALSE, !.owed = 0, !.cycle = 0, !.unrepaid = -1]

\* One delivery that disagrees is a burst or a short last buffer; two running
\* are a change of the graph's cycle.  CYCLE_CHANGE is 5/4.
Agrees(c, frames) == frames * 4 <= c.delivery * 5 /\ frames * 5 >= c.delivery * 4

CycleChanged(c, frames) ==
  c.delivery # 0 /\ ~Agrees(c, frames) /\ c.disagreed + 1 >= 2

measure(c, frames) ==
  IF c.delivery = 0 THEN [c EXCEPT !.delivery = frames]
  ELSE IF Agrees(c, frames) THEN [c EXCEPT !.disagreed = 0]
  ELSE IF CycleChanged(c, frames) THEN [c EXCEPT !.disagreed = 0, !.delivery = frames]
  ELSE [c EXCEPT !.disagreed = @ + 1]

\* The account before a delivery is charged to it.
Opened(c, domain, frames) ==
  LET m == measure(c, frames) IN
  IF CycleChanged(c, frames) \/ domain # c.domain
  THEN [restart(m) EXCEPT !.domain = domain] ELSE m

Credit(c) == Larger(c.cycle, Tolerance)

\* The first delivery only sets the clock.  A surplus is bounded to one cycle,
\* and the delivery that opens a deficit is no evidence against it.
delivered(c, clock, domain, frames) ==
  LET o == Opened(c, domain, frames)
      cycle == IF clock > 0 /\ (o.cycle = 0 \/ clock < o.cycle) THEN clock ELSE o.cycle
      owed == Larger(o.owed + clock - frames, -Larger(cycle, Tolerance)) IN
  IF ~o.last THEN [o EXCEPT !.last = TRUE]
  ELSE [o EXCEPT !.cycle = cycle, !.owed = owed,
                 !.unrepaid = IF owed <= Tolerance THEN -1
                              ELSE IF o.unrepaid < 0 THEN 0 ELSE @ + frames]

\* A deficit that LOSS_CONFIRM of later audio has not repaid.  The account
\* before decides whether this delivery was charged at all.
Lost(o, c) == o.last /\ c.unrepaid >= Confirm

outstanding(c) == c.owed > Credit(c) + Tolerance

-----------------------------------------------------------------------------
\* The data thread.  It reaches the loop thread by filling the ring and then
\* latching, and the loop thread reads the latch and then the ring: a poll in
\* the middle of a callback is one just before or just after it, and a callback
\* is one step.

Streaming == at = "running" /\ graph.state = "Streaming"

\* DataPath::deliver, for the n buffers of a callback: each goes into the ring
\* whole or not at all, and none after a loss.
Fit(n) == IF path.lost THEN 0 ELSE IF n <= RtCap - Len(rt) THEN n ELSE RtCap - Len(rt)
Overflow(n) == ~path.lost /\ Fit(n) < n
deliver(n) == rt \o [i \in 1..Fit(n) |-> truth.sent + i]

\* DataPath::account: a loss is latched, once, and a deficit that is none yet
\* is left for a capture that ends on it.
account(n, clock, skipped) ==
  LET frames == n * graph.cycle
      a == IF shared.epoch # path.epoch THEN restart(acct) ELSE acct
      o == Opened(a, graph.domain, frames)
      c == delivered(a, clock, graph.domain, frames)
      loss == IF Overflow(n) THEN "Overflow" ELSE IF Lost(o, c) THEN "Missed" ELSE "none"
  IN
  /\ acct' = c
  /\ path' = [epoch |-> shared.epoch, lost |-> path.lost \/ loss # "none"]
  /\ shared' = [shared EXCEPT
       !.loss = IF path.lost \/ loss = "none" THEN @ ELSE loss,
       !.unconfirmed = IF Lost(o, c) THEN @ ELSE outstanding(c)]
  /\ truth' = IF path.lost THEN [truth EXCEPT !.sent = @ + n]
              ELSE [sent |-> truth.sent + n, moved |-> truth.moved /\ o.last,
                    missed |-> IF o.last THEN truth.missed + skipped ELSE 0]

\* Across a pause or a change of domain the clock's advance is not of cycles.
Jumped == shared.epoch # path.epoch \/ graph.domain # acct.domain

\* The graph hands over n cycles, having overwritten the skip before them.  A
\* "split" is the loaded graph whose clock is a cycle ahead of its buffer until
\* the next call, its "rest".
process(n, kind, skip) ==
  LET q == graph.cycle
      ahead == IF kind = "split" THEN 1 ELSE IF kind = "rest" THEN -1 ELSE 0
      clock == IF Jumped THEN 4 * q ELSE (n + ahead + skip) * q IN
  /\ Streaming /\ truth.sent + n <= MaxBuffers
  /\ kind = "rest" <=> graph.split
  /\ n > 1 \/ kind # "whole" => skip = 0
  /\ kind = "split" => n = 1
  /\ rt' = deliver(n)
  /\ account(n, clock, skip * q)
  /\ graph' = [graph EXCEPT !.split = (kind = "split")]
  /\ UNCHANGED <<poll, sup, ending, at, pushed, owner>>

-----------------------------------------------------------------------------
\* The loop thread.

\* Supervisor::tick.
tick(s, stopped, late) ==
  IF stopped
  THEN IF s.wired \/ s.phase = "Capturing" THEN "Clean" ELSE "NotWired"
  ELSE IF ~late THEN "none"
  ELSE IF s.phase = "Discovering" THEN "ServiceUnresponsive" ELSE "NoFlow"

First(why, next) == IF why = "none" THEN next ELSE why

Failures == {"UnsupportedFormat", "NoChannels", "DeviceUnavailable", "Backend"}

finish(outcome) == at' = "done" /\ owner' = [owner EXCEPT !.outcome = outcome]

\* start checks the format and the channels; then the loop, the context and the
\* connection to the daemon, each of which may fail.
start ==
  /\ at = "start"
  /\ \/ at' = "discovering" /\ UNCHANGED owner
     \/ \E e \in Failures : finish(e)
  /\ UNCHANGED <<graph, truth, acct, path, shared, rt, poll, sup, ending, pushed>>

\* The poll timer, in Drain::run: the loss is read before the ring.  The loop
\* that has been told to quit does so after the callbacks of that turn; a timer
\* or a state among them could only do what Close does.
ReadLoss ==
  /\ at \in {"discovering", "running"} /\ poll = "idle" /\ ending = "none"
  /\ poll' = shared.loss
  /\ UNCHANGED <<graph, truth, acct, path, shared, rt, sup, ending, at, pushed, owner>>

\* Producer::push fails once the consumer has gone, which it may have by now.
push(gone) ==
  /\ owner.gone => gone
  /\ rt' = <<>> /\ pushed' = IF gone THEN pushed ELSE pushed \o rt

\* The rest of the timer: what was drained, the loss, and the supervisor, each
\* of which may be the first ending.  The stop flag and the clock are read here
\* only, and audio puts the deadline off; late is SILENCE_TIMEOUT without any.
Polled(gone, stopped, late) ==
  LET some == rt # <<>>
      s == IF some THEN [sup EXCEPT !.phase = "Capturing"] ELSE sup
      abandoned == IF some /\ gone THEN "Clean" ELSE "none" IN
  /\ poll # "idle" /\ (late => ~some)
  /\ push(gone) /\ (gone => some \/ owner.gone)
  /\ poll' = "idle" /\ sup' = s
  /\ ending' = First(First(abandoned, poll), tick(s, stopped, late))
  /\ owner' = [owner EXCEPT !.gone = gone]
  /\ UNCHANGED <<graph, truth, acct, path, shared, at>>

\* graph_has_source returns: the daemon answered, or the loop was told to quit,
\* which outranks the answer.  With a source the stream is made and connected.
Discovered(answer) ==
  /\ at = "discovering" /\ poll = "idle"
  /\ IF ending # "none" THEN finish(ending) /\ UNCHANGED <<sup, graph>>
     ELSE CASE answer = "source" ->
                 /\ at' = "running"
                 /\ sup' = [sup EXCEPT !.phase = "Linking"]
                 /\ \E q \in Quanta :
                      graph' = [graph EXCEPT !.state = "Connecting", !.cycle = q]
                 /\ UNCHANGED owner
            [] answer # "source" -> finish(answer) /\ UNCHANGED <<sup, graph>>
  /\ ending' = "none"
  /\ UNCHANGED <<truth, acct, path, shared, rt, poll, pushed>>

Answers == {"source", "NoSource", "Backend", "DeviceUnavailable"}

\* state_changed: every change restarts the account, and a split cycle is not
\* resumed.
state_changed(new) ==
  /\ at = "running" /\ poll = "idle"
  /\ new # graph.state /\ ending = "none"
  /\ graph.state = "Streaming" => graph.turns < MaxTurns
  /\ graph' = [graph EXCEPT !.state = new, !.split = FALSE,
                            !.turns = IF graph.state = "Streaming" THEN @ + 1 ELSE @]
  /\ shared' = [shared EXCEPT !.epoch = @ + 1]
  /\ sup' = [sup EXCEPT !.wired = @ \/ new \in {"Paused", "Streaming"}]
  /\ ending' = IF new = "Error" THEN "DeviceUnavailable" ELSE "none"
  /\ UNCHANGED <<truth, acct, path, rt, poll, at, pushed, owner>>

\* The graph changes its cycle or its clock under a stream that goes on.
Retuned ==
  /\ Streaming /\ ~graph.split /\ graph.turns < MaxTurns
  /\ \/ \E q \in Quanta \ {graph.cycle} :
          /\ graph' = [graph EXCEPT !.cycle = q, !.turns = @ + 1]
          /\ truth' = [truth EXCEPT !.moved = TRUE]
     \/ /\ graph' = [graph EXCEPT !.domain = 3 - @, !.turns = @ + 1]
        /\ UNCHANGED truth
  /\ UNCHANGED <<acct, path, shared, rt, poll, sup, ending, at, pushed, owner>>

\* A loss outranks a clean end, never an earlier fault.
final_ending(why, loss) == IF why # "Clean" \/ loss = "none" THEN why ELSE loss

\* The loop returns; disconnecting waits for process to, and what the ring then
\* holds is drained.  No audio can repay a deficit any more.  The PipeWire
\* objects and the account are dropped before the producer finishes.
Close(gone) ==
  LET loss == IF shared.loss # "none" THEN shared.loss
              ELSE IF shared.unconfirmed THEN "Missed" ELSE "none" IN
  /\ at = "running" /\ ending # "none" /\ poll = "idle"
  /\ push(gone) /\ at' = "done"
  /\ owner' = [gone |-> gone, outcome |-> final_ending(ending, loss)]
  /\ graph' = Disconnected /\ acct' = NoAccount /\ path' = NoPath
  /\ shared' = NoLoss /\ ending' = "none"
  /\ UNCHANGED <<truth, poll, sup>>

Poll == \E gone, stopped, late \in BOOLEAN : Polled(gone, stopped, late)
Answered == \E a \in Answers : Discovered(a)
Closed == \E gone \in BOOLEAN : Close(gone)

PipeWireNext ==
  \/ \E n \in 1..2, kind \in {"whole", "split", "rest"}, skip \in Skips :
       process(n, kind, skip)
  \/ start \/ ReadLoss \/ Poll \/ Answered
  \/ \E s \in {"Paused", "Streaming", "Error"} : state_changed(s)
  \/ Retuned \/ Closed

-----------------------------------------------------------------------------
(***************************************************************************)
(* What a capture through PipeWire promises its producer, whatever the two *)
(* threads do to each other and the graph to the stream.                   *)
(***************************************************************************)

\* Types, with the bounds of the account.
TypeOK ==
  /\ graph.state \in {"none", "Connecting", "Paused", "Streaming", "Error"}
  /\ Len(rt) <= RtCap /\ Len(pushed) <= truth.sent /\ truth.sent <= MaxBuffers
  /\ acct.owed >= -Credit(acct) /\ acct.disagreed \in 0..1 /\ acct.unrepaid >= -1
  /\ shared.loss \in {"none", "Overflow", "Missed"}
  /\ at \in {"start", "discovering", "running", "done"}

\* Buffers reach the producer in order, without a gap: all of them when the
\* capture ends cleanly, and what was buffered before a loss when it does not.
BuffersReach ==
  /\ \A i \in 1..Len(pushed) : ~owner.gone => pushed[i] = i
  /\ at = "done" /\ ~owner.gone =>
       /\ rt = <<>>
       /\ owner.outcome = "Clean" => Len(pushed) = truth.sent

\* A clean end is of a stream the graph accepted, never of a failed open.
CleanIsWired == owner.outcome = "Clean" => sup.wired

\* Were the capture to end now without a loss to report, no more than the phase
\* of two cycles and the tolerance would have gone missing unseen.
LossSeen ==
  at = "running" /\ shared.loss = "none" /\ ~shared.unconfirmed =>
    truth.missed <= 2 * Credit(acct) + Tolerance

\* Audio is reported missing only when it is: a split cycle, a burst, a pause or
\* a change of clock is not a loss.  The first delivery of a longer cycle is only a
\* candidate for a change, and its split half may pass for one.
OnlyRealLoss ==
  shared.loss = "Missed" \/ (shared.loss = "none" /\ shared.unconfirmed) =>
    truth.missed > 0 \/ truth.moved
=============================================================================
