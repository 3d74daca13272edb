-------------------------- MODULE StreamingMachine --------------------------
(***************************************************************************)
(* What the transcript is worth: with a decoder that hears whole words,    *)
(* every word once, in the order it was spoken.                            *)
(***************************************************************************)
EXTENDS Streaming

\* The loop runs; audio need not arrive, and the utterance need not end.
Fairness == WF_tvars(fill \/ observe \/ force_boundary \/ Room \/ _chunked_partial \/ AgreementTick)

Spec == StreamingInit /\ [][StreamingNext]_tvars /\ Fairness

-----------------------------------------------------------------------------
Texts(words) == [i \in DOMAIN words |-> words[i].text]

\* I1, I2: no word is committed twice or out of order, although every region
\* is decoded with the overlap of the one before it.
OnceInOrder ==
  \A i, j \in DOMAIN committed : i < j => committed[i].text < committed[j].text

Missed == {w \in Range(speech) : \A i \in DOMAIN committed : committed[i].text # w.s}

\* At the end every word was committed, those a cut went through too, when
\* audio followed the last cut.
NothingMissed == pc = "done" /\ received > processed => Missed = {}

\* I3: while the audio lasts, what is on display never restates what was
\* committed.
DisplayIsFresh == pc # "done" => Range(Texts(unstable)) \cap Range(Texts(committed)) = {}

\* I6: the window never holds more than its cap, with every frame before it
\* processed.
WindowBounded == received - retained <= Cap /\ retained <= processed /\ processed <= received

\* No word is told twice or out of order, neither as committed nor, while the
\* audio lasts, on display beside it.
NoWordTwice == OnceInOrder /\ DisplayIsFresh

\* The audio is covered: by the window and by what was processed before it
\* while it arrives, by the words committed once it is over.
AudioCovered == WindowBounded /\ NothingMissed

\* A chunk is always absorbed: no cut is taken for ever without retiring audio.
ChunkAbsorbed == pc = "fill" ~> pc = "chunk"

-----------------------------------------------------------------------------
\* I5: "end-of-audio resolves the outstanding unstable tail - the remainder is
\* committed (or dropped if empty) before return".
TailResolved == pc = "done" => Missed = {}
=============================================================================
