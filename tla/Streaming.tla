------------------------------ MODULE Streaming ------------------------------
(***************************************************************************)
(* The streaming emission loop of the server's adapters: run_streaming_loop*)
(* (testbed/streaming/loop.py) over a RollingWindow (window.py), with the  *)
(* strategies SilenceCut, which cuts the audio at pauses and decodes each  *)
(* region once, and LocalAgreement, which decodes the window again and     *)
(* again and commits what two passes agree on (strategies.py).             *)
(*                                                                         *)
(* Time is counted in frames.  A spoken word is the frame it starts at     *)
(* with its length, and its text is that of no other word.  The decoder    *)
(* hears every word that lies whole in what it is given, with its times; a *)
(* word clipped at an edge it may hear, with clipped times, or miss.       *)
(***************************************************************************)
EXTENDS Integers, Sequences, FiniteSets, SequencesExt

CONSTANTS Cap,         \* window_cap_seconds
          Overlap,     \* overlap_seconds
          Guard,       \* TAIL_GUARD_S
          MinDecode,   \* MIN_DECODE_S
          Arm, SilenceRun, ForceCut,  \* of SilenceCut
          Drift,       \* AGREE_DRIFT_S
          MaxOverlapWords,  \* _MAX_OVERLAP_WORDS
          MaxWord,     \* bound: the longest word
          MaxTime,     \* bound: frames of one utterance
          MaxChunk     \* bound: frames of one chunk

\* What the adapters' constructors require, and the one thing asked of the
\* speech: a word is not longer than the overlap.
ASSUME StreamingAssumption ==
  /\ Overlap < Cap /\ ForceCut > Overlap + MinDecode /\ ForceCut <= Cap
  /\ SilenceRun > 0 /\ Guard <= Overlap /\ MaxWord <= Overlap

VARIABLES
  strategy,   \* "silence" or "agreement"
  overlapped, \* silence_cut_overlap: a verified pause keeps overlap too
  pc,         \* "chunk", "fill", "observe", "room", "tick", "done"
  speech,     \* the words spoken so far, [s, e] each, in order
  received, retained, processed,   \* the positions of RollingWindow
  pending,    \* frames of the chunk not yet in the window
  cut_taken,
  scanned, run, quiet, heard,      \* SilenceCut: _scanned, _silence_run, whether
                                   \* the run is verified quiet, _heard_since_cut
  started,    \* _AdaptiveVad._started: it has once judged a frame active
  committed,  \* the words committed, as heard
  through,    \* committed_through
  last_hyp,   \* of LocalAgreement
  unstable    \* the words on display, <<>> once a commit resolved them
wvars == <<received, retained, processed>>
vvars == <<scanned, run, quiet, heard, started>>
tvars == <<strategy, overlapped, pc, speech, wvars, pending, cut_taken, vvars, committed,
           through, last_hyp, unstable>>

StreamingInit ==
  /\ strategy \in {"silence", "agreement"} /\ overlapped \in BOOLEAN
  /\ pc = "chunk" /\ speech = <<>>
  /\ received = 0 /\ retained = 0 /\ processed = 0 /\ pending = 0
  /\ cut_taken = FALSE
  /\ scanned = 0 /\ run = 0 /\ quiet = TRUE /\ heard = FALSE /\ started = FALSE
  /\ committed = <<>> /\ through = 0 /\ last_hyp = <<>> /\ unstable = <<>>

-----------------------------------------------------------------------------
\* The decoder over [lo, hi): the words it may return, each with its text (the
\* word's start) and the times it heard.
Whole(w, lo, hi) == w.s >= lo /\ w.e <= hi
Clipped(w, lo, hi) == w.s < hi /\ w.e > lo /\ ~Whole(w, lo, hi)
Clip(w, lo, hi) == [text |-> w.s, s |-> IF w.s < lo THEN lo ELSE w.s,
                    e |-> IF w.e > hi THEN hi ELSE w.e]

decode(lo, hi) ==
  LET clipped == {i \in DOMAIN speech : Clipped(speech[i], lo, hi)} IN
  { LET kept == SelectSeq([i \in DOMAIN speech |-> i],
                          LAMBDA i : Whole(speech[i], lo, hi) \/ i \in also)
    IN [k \in DOMAIN kept |-> Clip(speech[kept[k]], lo, hi)] : also \in SUBSET clipped }

\* _alignment_drop: the last committed word found again in the new words ends
\* the part that is old, unless that part is longer than the overlap can be.
_alignment_drop(old, new) ==
  LET ends == {i \in DOMAIN new : old # <<>> /\ new[i].text = Last(old).text} IN
  IF ends = {} THEN 0
  ELSE LET drop == CHOOSE i \in ends : \A j \in ends : i <= j
       IN IF drop > MaxOverlapWords THEN 0 ELSE drop

\* Mutant: only times tell old words from new.
_drop_committed_NoAlignment(words, old, watermark) ==
  SelectSeq(words, LAMBDA w : w.e > watermark)

\* _drop_committed: words that end before the watermark or in the aligned part
\* are old.
_drop_committed(words, old, watermark) ==
  LET drop == _alignment_drop(old, words)
      kept == SelectSeq([i \in DOMAIN words |-> i],
                        LAMBDA i : words[i].e > watermark /\ i > drop)
  IN [k \in DOMAIN kept |-> words[kept[k]]]

\* fresh_words: only a window that holds processed audio has old words.
fresh_words(words) ==
  IF retained >= processed THEN words ELSE _drop_committed(words, committed, through)

\* boundary_commit: how many words commit at a cut that retains from
\* retain_from; the rest is heard again.
boundary_commit(words, cut, retain_from) ==
  LET held == {i \in DOMAIN words : words[i].s >= retain_from /\ words[i].e > cut - Guard}
  IN IF held = {} THEN Len(words) ELSE (CHOOSE i \in held : \A j \in held : i <= j) - 1

\* LocalAgreement.commit_rule: the longest prefix both passes agree on that
\* does not reach into the guard at the tail.
commit_rule(last, current) ==
  LET agree(i) == /\ i \in DOMAIN last /\ last[i].text = current[i].text
                  /\ last[i].s - current[i].s \in -Drift..Drift
                  /\ current[i].e <= received - Guard
      n == {k \in DOMAIN current : \A i \in 1..k : agree(i)}
  IN Cardinality(n)

Later(a, b) == IF a > b THEN a ELSE b
Earlier(a, b) == IF a < b THEN a ELSE b

\* Mutant: a cut moves the watermark and retains the audio.
retire_Keeps(to, keep_overlap) ==
  processed' = Later(processed, Earlier(to, received)) /\ UNCHANGED <<received, retained>>

\* Mutant: no overlap is kept.
retire_Bare(to, keep_overlap) ==
  /\ processed' = Later(processed, Earlier(to, received))
  /\ retained' = Later(retained, processed')
  /\ UNCHANGED received

\* RollingWindow.retire.
retire(to, keep_overlap) ==
  /\ processed' = Later(processed, Earlier(to, received))
  /\ retained' = Later(retained, processed' - (IF keep_overlap THEN Overlap ELSE 0))
  /\ UNCHANGED received

\* SilenceCut.mark_cut.
mark_cut(at) ==
  scanned' = at /\ run' = 0 /\ quiet' = TRUE /\ heard' = FALSE /\ UNCHANGED started

-----------------------------------------------------------------------------
\* The next chunk of audio: silence, or a word that starts or goes on in it.
\* The last word may be extended while it is the frame before that spoke.
Speak(words, from, n) ==
  {words} \cup
  { Append(words, [s |-> s, e |-> e]) :
      s \in {x \in from..from + n - 1 : words = <<>> \/ x >= Last(words).e},
      e \in from + 1..from + n }

NextChunk(n) ==
  /\ pc = "chunk" /\ received + n <= MaxTime
  /\ \E ws \in Speak(speech, received, n) :
       /\ speech' \in
            {ws} \cup {[speech EXCEPT ![Len(speech)].e = x] :
                         x \in IF speech # <<>> /\ Last(speech).e = received
                               THEN {received + 1} ELSE {}}
       /\ \A i \in DOMAIN speech' :
            speech'[i].e - speech'[i].s \in 1..MaxWord
  /\ pending' = n /\ cut_taken' = FALSE /\ pc' = "fill"
  /\ UNCHANGED <<strategy, overlapped, wvars, vvars, committed, through, last_hyp, unstable>>

\* RollingWindow.fill takes what fits under the cap.
fill ==
  /\ pc = "fill"
  /\ LET n == Earlier(pending, Cap - (received - retained)) IN
     received' = received + n /\ pending' = pending - n
  /\ pc' = IF strategy = "silence" THEN "observe" ELSE "room"
  /\ UNCHANGED <<strategy, overlapped, speech, retained, processed, cut_taken, vvars,
                 committed, through, last_hyp, unstable>>

\* cut_region: the region up to the cut is decoded once, committed and retired.
cut_region(cut, forced, keep_overlap) ==
  \E hyp \in decode(retained, cut) :
    LET held == IF forced THEN Overlap ELSE Guard
        n == IF keep_overlap
             THEN boundary_commit(hyp, cut, Later(retained, cut - held)) ELSE Len(hyp)
        words == SubSeq(hyp, 1, n)
    IN /\ committed' = committed \o fresh_words(words)
       /\ through' = IF ~keep_overlap THEN Later(through, cut)
                     ELSE IF n = 0 THEN through ELSE Later(through, words[n].e)
       /\ retire(cut, keep_overlap)
       /\ unstable' = <<>>

\* What _AdaptiveVad may judge a frame: an onset is active. Any other may be
\* active too (noise, or the smoothed tail of a word) or pass for silence (a
\* quiet frame inside a word also, which is then not verified quiet); until a
\* frame was active it is not yet silence, and neither counts nor breaks a run.
Spoken(t) == \E i \in DOMAIN speech : speech[i].s <= t /\ t < speech[i].e
Onset(t) == \E i \in DOMAIN speech : speech[i].s = t
Verdicts(t) == IF Onset(t) THEN {"active"}
               ELSE {"active", IF started THEN "silent" ELSE "not-started"}

\* One frame of SilenceCut.observe, with the loop around it.

observe ==
  /\ pc = "observe"
  /\ LET at == Later(scanned, retained) IN
     IF received - retained >= ForceCut
     THEN /\ mark_cut(received)
          /\ IF received > processed
             THEN cut_region(received, TRUE, TRUE) /\ cut_taken' = TRUE /\ UNCHANGED pc
             ELSE pc' = "room" /\ UNCHANGED <<wvars, cut_taken, committed, through, unstable>>
     ELSE IF at >= received
     THEN pc' = "room" /\ UNCHANGED <<wvars, vvars, cut_taken, committed, through, unstable>>
     ELSE \E activity \in Verdicts(at) :
       LET armed == at + 1 - retained >= Arm
           silent == armed /\ activity = "silent"
           broken == armed /\ activity = "active"
           crossed == silent /\ run + 1 >= SilenceRun
           still == quiet /\ ~Spoken(at)
       IN IF crossed
          THEN /\ mark_cut(at + 1)
               /\ IF at + 1 - retained < MinDecode \/ at + 1 <= processed
                  THEN pc' = "room"
                       /\ UNCHANGED <<wvars, cut_taken, committed, through, unstable>>
                  ELSE /\ cut_region(at + 1, FALSE, overlapped \/ ~still)
                       /\ cut_taken' = TRUE /\ UNCHANGED pc
          ELSE /\ scanned' = at + 1
               /\ heard' = (heard \/ activity = "active")
               /\ started' = (started \/ activity = "active")
               /\ run' = IF silent THEN run + 1 ELSE IF broken THEN 0 ELSE run
               /\ quiet' = IF silent THEN still ELSE IF broken THEN TRUE ELSE quiet
               /\ UNCHANGED <<pc, wvars, cut_taken, committed, through, unstable>>
  /\ UNCHANGED <<strategy, overlapped, speech, pending, last_hyp>>

\* The window is full and audio still waits: force_boundary.
force_boundary ==
  /\ pc = "room" /\ pending > 0
  /\ IF strategy = "silence"
     THEN /\ mark_cut(received) /\ cut_region(received, TRUE, TRUE)
          /\ UNCHANGED last_hyp
     ELSE \E hyp \in decode(retained, received) :
            LET n == boundary_commit(hyp, received, received - Overlap)
                fresh == fresh_words(SubSeq(hyp, 1, n))
            IN /\ committed' = committed \o fresh
               /\ unstable' = IF fresh # <<>> THEN <<>> ELSE unstable
               /\ through' = IF n = 0 THEN through ELSE Later(through, hyp[n].e)
               /\ last_hyp' = <<>> /\ retire(received, TRUE) /\ UNCHANGED vvars
  /\ cut_taken' = TRUE /\ pc' = "fill"
  /\ UNCHANGED <<strategy, overlapped, speech, pending>>

\* The chunk is in the window; whether the cadence has come round depends on
\* the clock.
Room ==
  /\ pc = "room" /\ pending = 0
  /\ pc' \in IF strategy = "silence" /\ cut_taken THEN {"chunk"} ELSE {"chunk", "tick"}
  /\ UNCHANGED <<strategy, overlapped, speech, wvars, pending, cut_taken, vvars, committed,
                 through, last_hyp, unstable>>

\* A tick of SilenceCut decodes the window for display only; an empty decode
\* leaves what is shown.
_chunked_partial ==
  /\ pc = "tick" /\ strategy = "silence"
  /\ \E hyp \in decode(retained, received) :
       unstable' = IF fresh_words(hyp) = <<>> THEN unstable ELSE fresh_words(hyp)
  /\ pc' = "chunk"
  /\ UNCHANGED <<strategy, overlapped, speech, wvars, pending, cut_taken, vvars, committed,
                 through, last_hyp>>

\* A tick of LocalAgreement commits what agrees, retires it, and shows the rest.
AgreementTick ==
  /\ pc = "tick" /\ strategy = "agreement"
  /\ \E hyp \in decode(retained, received) :
       LET n == commit_rule(last_hyp, hyp)
           commits == n > 0 /\ hyp[n].e > through
           fresh == IF commits THEN fresh_words(SubSeq(hyp, 1, n)) ELSE <<>>
       IN /\ committed' = committed \o fresh
          /\ last_hyp' = hyp
          /\ IF commits THEN through' = hyp[n].e /\ retire(hyp[n].e, TRUE)
                        ELSE UNCHANGED <<through, wvars>>
          /\ LET rest == IF retained' >= processed' THEN hyp
                         ELSE _drop_committed(hyp, committed', through')
             IN unstable' = IF rest # <<>> THEN rest
                            ELSE IF fresh # <<>> THEN <<>> ELSE unstable
  /\ pc' = "chunk"
  /\ UNCHANGED <<strategy, overlapped, speech, pending, cut_taken, vvars>>

\* The end of the audio resolves the tail.
ResolveTail ==
  /\ pc = "chunk" /\ pc' = "done"
  /\ LET silent_remainder == /\ strategy = "silence" /\ processed > 0
                             /\ retained >= processed /\ ~heard
     IN IF /\ received > processed /\ ~silent_remainder
           /\ processed > 0 \/ received - retained >= MinDecode
        THEN \E hyp \in decode(retained, received) :
               committed' = committed \o fresh_words(hyp)
        ELSE UNCHANGED committed
  /\ UNCHANGED <<strategy, overlapped, speech, wvars, pending, cut_taken, vvars, through,
                 last_hyp, unstable>>

StreamingNext ==
  \/ \E n \in 1..MaxChunk : NextChunk(n)
  \/ fill \/ observe \/ force_boundary \/ Room \/ _chunked_partial \/ AgreementTick \/ ResolveTail
=============================================================================
