------------------------------- MODULE Server -------------------------------
(***************************************************************************)
(* One connection of the speech server (core/transport_ws.py): the task    *)
(* that reads the client's frames into the bounded ingress, the handler    *)
(* that runs one adapter session per utterance, the adapter, and the IE115 *)
(* encoder both of them use (core/wire_ie115.py).  All of it runs on one   *)
(* event loop, so a step is what a task does between two awaits: a send, a *)
(* put or a get may let every other task run first.                        *)
(*                                                                         *)
(* A chunk of audio is the number of the utterance it belongs to; Boundary *)
(* is an IE115 commit in the stream.  A frame to the client is a pair of   *)
(* its kind and the item it names.                                         *)
(***************************************************************************)
EXTENDS Integers, Sequences, FiniteSets

CONSTANTS Capacity,    \* chunks the ingress holds (_INGRESS_CAPACITY_BYTES)
          MaxCommits,  \* bound: commits the client sends
          MaxChunks,   \* bound: chunks the client sends for one utterance
          Tailed       \* the utterances whose audio leaves a tail in the resampler

ASSUME ServerAssumption ==
  Capacity \in Nat \ {0} /\ MaxCommits \in Nat \ {0} /\ MaxChunks \in Nat \ {0}

VARIABLES
  dialect,  \* chosen by the shape of the first frame, "none" until then
  handler,  \* "opening", "running", "draining", "answering", "closing", "closed"
  link,     \* "open", "gone" once the client left, "stopped" once the server is
  ingress,  \* [items, closed, aborted], the class _Ingress
  reader,   \* [at, put, out]: frames left to send, then items left to put
  session,  \* the adapter's task: "none", "live", "done", "failed", "cancelled"
  utt,      \* the class _Utterance, with its number, the chunks its adapter
            \* heard, whether it spoke or was drained, and its unsent frames
  enc,      \* [queued, current, uncommitted, minted]: the class Ie115Encoder
  client,   \* [utt, chunks, bad]: the utterance it speaks, the chunks of each,
            \* resampled
  seen      \* [acked, named, answered]: what the client was sent, the items of
            \* its commits, the items of each utterance, those with a terminal
svars == <<dialect, handler, link, ingress, reader, session, utt, enc, client, seen>>

Boundary == 0
None == 0
CloseMark == -1

ServerInit ==
  /\ dialect = "none" /\ handler = "opening" /\ link = "open"
  /\ ingress = [items |-> <<>>, closed |-> FALSE, aborted |-> FALSE]
  /\ reader = [at |-> "none", put |-> <<>>, out |-> <<>>]
  /\ session = "none"
  /\ utt = [n |-> 0, ended |-> FALSE, closed |-> FALSE, terminal |-> FALSE,
            out |-> <<>>, heard |-> <<>>, spoke |-> FALSE, drained |-> FALSE]
  /\ enc = [queued |-> <<>>, current |-> None, uncommitted |-> None, minted |-> 0]
  /\ client = [utt |-> 1, chunks |-> [u \in 1..MaxCommits + 1 |-> 0], bad |-> FALSE]
  /\ seen = [acked |-> <<>>, named |-> {}, answered |-> {}]

-----------------------------------------------------------------------------
\* Ie115Encoder.

\* commit_frames: the item of an utterance the adapter already spoke for, or a
\* new one queued for the adapter's events; with the frames to send.
commit_frames ==
  IF enc.uncommitted # None
  THEN [enc |-> [enc EXCEPT !.uncommitted = None],
        frames |-> <<<<"ack", enc.uncommitted>>>>]
  ELSE LET i == enc.minted + 1 IN
       [enc |-> [enc EXCEPT !.minted = i, !.queued = Append(@, i)],
        frames |-> <<<<"ack", i>>, <<"created", i>>>>]

\* _item and frames, for an event of the given kind that names its item.
event_frames(kind) ==
  IF enc.current # None
  THEN [enc |-> enc, frames |-> <<<<kind, enc.current>>>>]
  ELSE IF enc.queued # <<>>
  THEN [enc |-> [enc EXCEPT !.current = Head(enc.queued), !.queued = Tail(@)],
        frames |-> <<<<kind, Head(enc.queued)>>>>]
  ELSE LET i == enc.minted + 1 IN
       [enc |-> [enc EXCEPT !.minted = i, !.current = i, !.uncommitted = i],
        frames |-> <<<<"created", i>>, <<kind, i>>>>]

\* Mutant: the item of an utterance that named none stays queued.
begin_utterance_KeepsQueue == [enc EXCEPT !.current = None]

\* begin_utterance: the item of an utterance that ended without naming one
\* would otherwise land on this utterance.
begin_utterance ==
  [enc EXCEPT !.queued = IF enc.current = None /\ @ # <<>> THEN Tail(@) ELSE @,
              !.current = None]

-----------------------------------------------------------------------------
\* _Ingress.

Bytes(items) == Cardinality({i \in DOMAIN items : items[i] # Boundary})
BoundaryPending(items) == \E i \in DOMAIN items : items[i] = Boundary
\* Mutant: the ingress counts boundaries, not audio.
_has_room_Audio(item) == item # Boundary \/ ~BoundaryPending(ingress.items)

_has_room(item) ==
  IF item = Boundary THEN ~BoundaryPending(ingress.items)
                     ELSE Bytes(ingress.items) < Capacity

\* Mutant: the adapter is left to find out.
abort_Spares ==
  /\ ingress' = [ingress EXCEPT !.items = <<>>, !.aborted = TRUE]
  /\ UNCHANGED session

abort ==
  /\ ingress' = [ingress EXCEPT !.items = <<>>, !.aborted = TRUE]
  /\ session' = IF session = "live" THEN "cancelled" ELSE session

-----------------------------------------------------------------------------
\* What ws.send writes; a connection that is gone swallows it.  Sends take the
\* connection in the order of their calls, so the first frame of an event is
\* written in the step that calls; the one after it, behind whatever other
\* tasks called for while the first was on its way.
Connected == link = "open"

Written(f) ==
  LET kind == f[1] i == f[2] IN
  IF ~Connected THEN seen
  ELSE CASE kind = "ack" -> [seen EXCEPT !.acked = Append(@, i)]
         [] kind = "created" -> seen
         [] kind = "error" -> [seen EXCEPT !.answered = @ \cup {utt.n}]
         [] OTHER -> [seen EXCEPT
              !.named = @ \cup {<<utt.n, i>>},
              !.answered = IF kind = "completed" THEN @ \cup {utt.n} ELSE @]

-----------------------------------------------------------------------------
\* The handler: handle, _handle_ie115, _pump_session, _run_utterance.

\* A fresh _Utterance, its item retired, its adapter session started and
\* served; serve cancels it when the ingress was given up on meanwhile.
StartUtterance(d) ==
  /\ utt' = [n |-> utt.n + 1, ended |-> FALSE, closed |-> FALSE, terminal |-> FALSE,
             out |-> <<>>, heard |-> <<>>, spoke |-> FALSE, drained |-> FALSE]
  /\ enc' = IF d = "ie115" THEN begin_utterance ELSE enc
  /\ session' = IF ingress.aborted THEN "cancelled" ELSE "live"
  /\ handler' = "running"

\* The first frame opens a session of one of the dialects.
handle(d) ==
  /\ handler = "opening" /\ Connected
  /\ dialect' = d
  /\ reader' = [reader EXCEPT !.at = "read"]
  /\ StartUtterance(d)
  /\ UNCHANGED <<link, ingress, client, seen>>

\* A capabilities query, a version, model or keyword list that is refused, or
\* no opening frame at all: one reply at most, and the connection is closed.
_refuse ==
  /\ handler = "opening"
  /\ handler' = "closed"
  /\ UNCHANGED <<dialect, link, ingress, reader, session, utt, enc, client, seen>>

\* _end_connection: the one exit of both dialects.
_end_connection ==
  /\ abort
  /\ reader' = [at |-> "done", put |-> <<>>, out |-> <<>>]
  /\ handler' = "closing"

\* _run_utterance after its wait: a cancelled adapter gave up on the stream, a
\* crashed one is reported, then what it left of the utterance is drained.
_run_utterance ==
  /\ handler = "running" /\ session \in {"done", "failed", "cancelled"}
  /\ handler' = "draining"
  /\ IF session = "cancelled" THEN abort ELSE UNCHANGED <<ingress, session>>
  /\ utt' = [utt EXCEPT !.out = <<>>, !.terminal = @ \/ session = "failed"]
  /\ seen' = IF session = "failed" THEN Written(<<"error", None>>) ELSE seen
  /\ UNCHANGED <<dialect, link, reader, enc, client>>

\* ingress.get by whoever consumes the utterance.
get(adapter) ==
  /\ ~utt.ended /\ ~ingress.aborted
  /\ \/ /\ ingress.items # <<>>
        /\ ingress' = [ingress EXCEPT !.items = Tail(@)]
        /\ utt' = IF Head(ingress.items) = Boundary THEN [utt EXCEPT !.ended = TRUE]
                  ELSE IF adapter THEN [utt EXCEPT !.heard = Append(@, Head(ingress.items))]
                  ELSE [utt EXCEPT !.drained = TRUE]
     \/ /\ ingress.items = <<>> /\ ingress.closed
        /\ utt' = [utt EXCEPT !.ended = TRUE, !.closed = TRUE]
        /\ UNCHANGED ingress

\* _Utterance.drain.
drain ==
  /\ handler = "draining" /\ dialect = "ie115"
  /\ get(FALSE)
  /\ UNCHANGED <<dialect, handler, link, reader, session, enc, client, seen>>

\* _Utterance.emit, for an adapter that returned without its terminal; other
\* tasks run while the error is sent.
MakeUp ==
  /\ handler' = "answering" /\ utt' = [utt EXCEPT !.terminal = TRUE]
  /\ seen' = Written(<<"error", None>>)
  /\ UNCHANGED <<ingress, reader, session, enc>>

\* Mutant: the rest of an utterance its adapter left is not drained.
NextUtterance_Undrained ==
  /\ handler \in {"draining", "answering"} /\ dialect = "ie115"
  /\ IF handler = "draining" /\ (utt.closed \/ ingress.aborted)
     THEN _end_connection /\ UNCHANGED <<utt, enc, seen>>
     ELSE IF utt.terminal
     THEN utt.n <= MaxCommits /\ StartUtterance(dialect) /\ UNCHANGED <<ingress, reader, seen>>
     ELSE MakeUp
  /\ UNCHANGED <<dialect, link, client>>

\* Mutant: an adapter that returned without a terminal is not made up for.
NextUtterance_Unanswered ==
  /\ handler \in {"draining", "answering"} /\ dialect = "ie115"
  /\ utt.ended \/ ingress.aborted
  /\ IF handler = "draining" /\ (utt.closed \/ ingress.aborted)
     THEN _end_connection /\ UNCHANGED <<utt, enc, seen>>
     ELSE StartUtterance(dialect) /\ UNCHANGED <<ingress, reader, seen>>
  /\ UNCHANGED <<dialect, link, client>>

\* The utterance loop of _handle_ie115 once its utterance is over: the stream
\* ended, or an adapter that broke the exactly-one-terminal contract is made
\* up for, or the next utterance starts.
NextUtterance ==
  /\ handler \in {"draining", "answering"} /\ dialect = "ie115"
  /\ utt.ended \/ ingress.aborted
  /\ IF handler = "draining" /\ (utt.closed \/ ingress.aborted)
     THEN _end_connection /\ UNCHANGED <<utt, enc, seen>>
     ELSE IF utt.terminal
     THEN StartUtterance(dialect) /\ UNCHANGED <<ingress, reader, seen>>
     ELSE MakeUp
  /\ UNCHANGED <<dialect, link, client>>

\* The internal dialect serves one utterance and ends.
EndInternal ==
  /\ handler = "draining" /\ dialect = "internal"
  /\ _end_connection
  /\ UNCHANGED <<dialect, link, utt, enc, client, seen>>

\* _close returns once the closing handshake is over.
_close ==
  /\ handler = "closing" /\ handler' = "closed"
  /\ UNCHANGED <<dialect, link, ingress, reader, session, utt, enc, client, seen>>

\* The second frame of an adapter's event is written.
EmitSends ==
  /\ utt.out # <<>> /\ session = "live"
  /\ seen' = Written(Head(utt.out))
  /\ utt' = [utt EXCEPT !.out = Tail(@)]
  /\ UNCHANGED <<dialect, handler, link, ingress, reader, session, enc, client>>

-----------------------------------------------------------------------------
\* The adapter, known only by its contract (core/transport.py, SttService).

AdapterFree == handler = "running" /\ session = "live" /\ utt.out = <<>>

Emit(kind, terminal) ==
  LET f == IF dialect = "ie115" THEN event_frames(kind)
           ELSE [enc |-> enc, frames |-> <<<<kind, None>>>>] IN
  /\ enc' = f.enc
  /\ seen' = Written(Head(f.frames))
  /\ utt' = [utt EXCEPT !.out = Tail(f.frames), !.spoke = TRUE, !.terminal = terminal]

AdapterReads ==
  /\ AdapterFree /\ get(TRUE) /\ ~utt.terminal
  /\ UNCHANGED <<dialect, handler, link, reader, session, enc, client, seen>>

\* A streaming adapter emits text before the utterance is committed.
AdapterEmits ==
  /\ AdapterFree /\ ~utt.terminal /\ ~utt.spoke
  /\ Emit("delta", FALSE)
  /\ UNCHANGED <<dialect, handler, link, ingress, reader, session, client>>

AdapterFinishes ==
  /\ AdapterFree /\ ~utt.terminal /\ utt.ended
  /\ Emit("completed", TRUE)
  /\ UNCHANGED <<dialect, handler, link, ingress, reader, session, client>>

\* A refused format or a failed inference: a terminal error at any moment.
AdapterRejects ==
  /\ AdapterFree /\ ~utt.terminal
  /\ utt' = [utt EXCEPT !.terminal = TRUE]
  /\ seen' = Written(<<"error", None>>)
  /\ UNCHANGED <<dialect, handler, link, ingress, reader, session, enc, client>>

\* It returns, after its terminal or, breaking its contract, without one; or
\* it raises.
AdapterReturns ==
  /\ AdapterFree
  /\ session' \in IF utt.terminal THEN {"done"} ELSE {"done", "failed"}
  /\ UNCHANGED <<dialect, handler, link, ingress, reader, utt, enc, client, seen>>

-----------------------------------------------------------------------------
\* The reader: read_frames of either dialect.

Reading == reader.at = "read" /\ Connected

\* A frame of audio, larger than one piece or not.
ReadAudio(n) ==
  /\ Reading
  /\ client.chunks[client.utt] + n <= MaxChunks
  /\ client' = [client EXCEPT !.chunks[client.utt] = @ + n]
  /\ reader' = [reader EXCEPT !.at = "put", !.put = [i \in 1..n |-> client.utt]]
  /\ UNCHANGED <<dialect, handler, link, ingress, session, utt, enc, seen>>

\* input_audio_buffer.commit: acknowledged at receipt, then what the resampler
\* still holds of the utterance's audio, if it resamples, then the boundary.
ReadCommit ==
  /\ Reading /\ dialect = "ie115" /\ client.utt <= MaxCommits
  /\ client' = [client EXCEPT !.utt = @ + 1]
  /\ enc' = commit_frames.enc
  /\ reader' = [put |-> <<Boundary>>, out |-> Tail(commit_frames.frames),
                at |-> IF client.utt \in Tailed /\ client.chunks[client.utt] > 0
                       THEN "flush" ELSE "put"]
  /\ seen' = Written(Head(commit_frames.frames))
  /\ UNCHANGED <<dialect, handler, link, ingress, session, utt>>

\* A frame that cannot be decoded ends the audio; only IE115 reports it, with
\* an error that belongs to no utterance, before it does.
ReadBad ==
  /\ Reading
  /\ client' = [client EXCEPT !.bad = TRUE]
  /\ IF dialect = "ie115"
     THEN reader' = [reader EXCEPT !.at = "put", !.put = <<CloseMark>>] /\ UNCHANGED ingress
     ELSE /\ reader' = [reader EXCEPT !.at = "done"]
          /\ ingress' = [ingress EXCEPT !.closed = TRUE]
  /\ UNCHANGED <<dialect, handler, link, session, utt, enc, seen>>

\* session.finish of the internal dialect; what follows is discarded.
ReadFinish ==
  /\ Reading /\ dialect = "internal"
  /\ ingress' = [ingress EXCEPT !.closed = TRUE]
  /\ reader' = [reader EXCEPT !.at = "discard"]
  /\ UNCHANGED <<dialect, handler, link, session, utt, enc, client, seen>>

\* The client left, or the server closed the connection: the reader notices
\* only when it reads.
ReadEnd ==
  /\ reader.at \in {"read", "discard"} /\ ~Connected
  /\ ingress' = [items |-> <<>>, closed |-> TRUE, aborted |-> TRUE]
  /\ session' = IF session = "live" THEN "cancelled" ELSE session
  /\ reader' = [reader EXCEPT !.at = "done"]
  /\ UNCHANGED <<dialect, handler, link, utt, enc, client, seen>>

ReaderSends ==
  /\ reader.out # <<>>
  /\ seen' = Written(Head(reader.out))
  /\ reader' = [reader EXCEPT !.out = Tail(@)]
  /\ UNCHANGED <<dialect, handler, link, ingress, session, utt, enc, client>>

\* _put: waits for room, returns at once after an abort.  A wait between two
\* pieces that fit is one more interleaving than the event loop has.
_put ==
  /\ reader.at = "put" /\ reader.out = <<>>
  /\ LET item == Head(reader.put) IN
     /\ ingress.aborted \/ item = CloseMark \/ _has_room(item)
     /\ ingress' = IF item = CloseMark THEN [ingress EXCEPT !.closed = TRUE]
                   ELSE IF ingress.aborted THEN ingress
                   ELSE [ingress EXCEPT !.items = Append(@, item)]
     /\ reader' = [reader EXCEPT !.put = Tail(@),
                     !.at = IF item = CloseMark THEN "done"
                            ELSE IF Len(reader.put) = 1 THEN "read" ELSE "put"]
  /\ UNCHANGED <<dialect, handler, link, session, utt, enc, client, seen>>

\* The put of the resampler's tail, less than a piece, before the boundary's.
PutTail ==
  /\ reader.at = "flush" /\ reader.out = <<>>
  /\ LET u == client.utt - 1 IN
     IF ingress.aborted THEN UNCHANGED <<ingress, client>>
     ELSE /\ _has_room(u)
          /\ ingress' = [ingress EXCEPT !.items = Append(@, u)]
          /\ client' = [client EXCEPT !.chunks[u] = @ + 1]
  /\ reader' = [reader EXCEPT !.at = "put"]
  /\ UNCHANGED <<dialect, handler, link, session, utt, enc, seen>>

-----------------------------------------------------------------------------
\* The rest of the world.

PeerLeaves ==
  /\ Connected /\ link' = "gone"
  /\ UNCHANGED <<dialect, handler, ingress, reader, session, utt, enc, client, seen>>

\* serve leaves serve_unix: abort_sessions, then every connection is closed.
abort_sessions ==
  /\ link # "stopped" /\ link' = "stopped"
  /\ IF dialect # "none" THEN abort ELSE UNCHANGED <<ingress, session>>
  /\ UNCHANGED <<dialect, handler, reader, utt, enc, client, seen>>

Handler == _run_utterance \/ drain \/ NextUtterance \/ EndInternal \/ _close \/ EmitSends
Adapter == AdapterReads \/ AdapterEmits \/ AdapterFinishes \/ AdapterRejects \/ AdapterReturns
Reader == ReadEnd \/ ReaderSends \/ PutTail \/ _put
Client ==
  \/ \E n \in 1..MaxChunks : ReadAudio(n)
  \/ ReadCommit \/ ReadBad \/ ReadFinish \/ PeerLeaves

ServerNext ==
  \/ \E d \in {"ie115", "internal"} : handle(d)
  \/ _refuse \/ Handler \/ Adapter \/ Reader \/ Client \/ abort_sessions
=============================================================================
