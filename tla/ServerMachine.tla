---------------------------- MODULE ServerMachine ----------------------------
(***************************************************************************)
(* The server's connection with its fairness, and what it promises the     *)
(* client: the transcript of an utterance on the item that acknowledged    *)
(* it, from that utterance's audio alone, and an answer to every commit.   *)
(***************************************************************************)
EXTENDS Server

\* Every task of the event loop runs.  An adapter keeps reading, finishes after
\* the end of its audio and returns after its terminal; it need not emit early
\* or fail, and one that waits for audio waits.  Nothing is assumed of the
\* client.
Fairness ==
  /\ WF_svars(Handler)
  /\ WF_svars(Reader)
  /\ WF_svars(AdapterReads \/ AdapterFinishes \/ (AdapterReturns /\ utt.terminal))
  /\ WF_svars(_refuse /\ ~Connected)

Spec == ServerInit /\ [][ServerNext]_svars /\ Fairness

-----------------------------------------------------------------------------
\* Types.
TypeOK ==
  /\ dialect \in {"none", "ie115", "internal"} /\ link \in {"open", "gone", "stopped"}
  /\ handler \in {"opening", "running", "draining", "answering", "closing", "closed"}
  /\ session \in {"none", "live", "done", "failed", "cancelled"}
  /\ reader.at \in {"none", "read", "put", "flush", "discard", "done"}
  /\ ingress.items \in Seq(0..MaxCommits + 1) /\ enc.queued \in Seq(1..enc.minted)
  /\ utt.n \in 0..MaxCommits + 1 /\ seen.answered \subseteq 1..MaxCommits + 1

\* The deltas and the completed of an utterance name the item its own commit
\* acknowledged, and no two utterances share an item, however far the reader
\* has run ahead of the adapter and however an utterance before ended.
OwnItem ==
  dialect = "ie115" =>
    /\ \A x \in seen.named : x[1] \in DOMAIN seen.acked => seen.acked[x[1]] = x[2]
    /\ \A x, y \in seen.named : x[2] = y[2] <=> x[1] = y[1]

\* An adapter hears the audio of its own utterance and nothing else, in order,
\* and all of it once it was told that the utterance is over.
OwnAudio ==
  /\ \A i \in DOMAIN utt.heard : utt.heard[i] = utt.n
  /\ utt.ended /\ ~utt.closed /\ ~utt.drained => Len(utt.heard) = client.chunks[utt.n]

\* "The transport's one-pending-commit rule bounds the queue": the ingress
\* holds its capacity and one boundary, the encoder three items, with the
\* reader acknowledging one commit while a second waits and a third decodes.
Bounded ==
  /\ TypeOK
  /\ Bytes(ingress.items) <= Capacity
  /\ Cardinality({i \in DOMAIN ingress.items : ingress.items[i] = Boundary}) <= 1
  /\ Len(enc.queued) <= 3

\* "Every utterance ends with its terminal": a commit that was acknowledged
\* is answered by a completed or an error unless the connection is lost or the
\* client breaks the protocol, even when the adapter broke its contract.
AckedIsAnswered ==
  \A k \in 1..MaxCommits :
    (Len(seen.acked) >= k) ~> (k \in seen.answered \/ ~Connected \/ client.bad)

\* A client that leaves, and a server that stops, end the connection, even
\* with the reader blocked on a full ingress.
LostCloses == ~Connected ~> handler = "closed"

-----------------------------------------------------------------------------
\* Ie115Encoder: "An item is announced when it is minted, never later than the
\* first frame that names it."
AnnouncedFirst ==
  \A x \in seen.named, i \in DOMAIN reader.out : reader.out[i] # <<"created", x[2]>>
=============================================================================
