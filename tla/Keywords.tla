------------------------------ MODULE Keywords ------------------------------
(***************************************************************************)
(* The decode of one region of audio toward a session's keywords           *)
(* (server/testbed: _decode_sequence of parakeet.py, the automaton of      *)
(* keyword_bias.py).  The model's own choice of a token is kept, or one    *)
(* that would begin or continue a keyword is taken instead; a match that   *)
(* comes to nothing is taken back, by going back to where it began.        *)
(*                                                                         *)
(* A piece of the vocabulary is one letter, and a state of the automaton   *)
(* is the prefix of a keyword it stands for.  The model may answer         *)
(* anything, and another time anything else; which boosted piece beats its *)
(* choice is open too.                                                     *)
(***************************************************************************)
EXTENDS Integers, Sequences

CONSTANTS Pieces,    \* the vocabulary without the blank
          Spellings, \* of the keywords, each a sequence of pieces
          EncFrames, \* bound: encoder frames of the region
          PerFrame,  \* MAX_TOKENS_PER_STEP
          Durations  \* what the duration head can say

VARIABLES
  t, emitted_at_frame,
  tokens,  \* what was emitted: the piece, its frame, whether the model itself chose it
  match,   \* state: the automaton's
  lstm,    \* the pieces that the decoder's state has been fed
  rewind,  \* None, or what to go back to
  mode     \* how the next choice is made: "biased", "unbiased" or "rival"

keywordsVars == <<t, emitted_at_frame, tokens, match, lstm, rewind, mode>>

None == <<>>
Blank == "blank"
ROOT == <<>>

-----------------------------------------------------------------------------
\* The automaton, made by keyword_bias.

prefixes == UNION {{SubSeq(w, 1, n) : n \in 0..Len(w)} : w \in Spellings}
children(p) == {x \in Pieces : Append(p, x) \in prefixes}
complete(p) == p \in Spellings

\* p and the proper suffixes of it that are prefixes, the longest first.
Suffix(p, k) == SubSeq(p, k + 1, Len(p))
fallback(p) == {k \in 0..Len(p) : Suffix(p, k) \in prefixes}

\* What _offer may boost: the continuations of the match and of its fallbacks.
_offer(p) == UNION {children(Suffix(p, k)) : k \in fallback(p)}

advance(p, x) ==
  LET ks == {k \in fallback(p) : x \in children(Suffix(p, k))} IN
  IF ks = {} THEN ROOT
  ELSE Append(Suffix(p, CHOOSE k \in ks : \A j \in ks : k <= j), x)

\* Whether x goes on with the match, rather than falling back or starting over.
extends(p, x) == x \in children(p)

\* The model's choice, or the boosted piece that beats it.
rerank(token) == {token} \cup _offer(match)

-----------------------------------------------------------------------------
KeywordsInit ==
  /\ t = 0 /\ emitted_at_frame = 0 /\ tokens = <<>> /\ match = ROOT /\ lstm = <<>>
  /\ rewind = None /\ mode = "biased"

Here(own) == [t |-> t, emitted_at_frame |-> emitted_at_frame, match |-> match,
              n_tokens |-> Len(tokens), lstm |-> lstm, own |-> own]

\* The duration head moves on, a blank or a full frame moves on by one.
MoveOn(token, emitted, duration) ==
  IF duration > 0 THEN t' = t + duration /\ emitted_at_frame' = 0
  ELSE IF token = Blank \/ emitted = PerFrame THEN t' = t + 1 /\ emitted_at_frame' = 0
  ELSE t' = t /\ emitted_at_frame' = emitted

\* Back to where the match began, to try a rival of the model's own beginning or
\* else to keep what the model chose.
Rewound ==
  /\ t' = rewind.t /\ emitted_at_frame' = rewind.emitted_at_frame
  /\ tokens' = SubSeq(tokens, 1, rewind.n_tokens)
  /\ lstm' = rewind.lstm /\ match' = rewind.match
  /\ mode' = IF rewind.own THEN "rival" ELSE "unbiased"
  /\ rewind' = None

\* The audio ended inside a match.
EndsInside == t >= EncFrames /\ rewind # None /\ Rewound

Blanks(duration) ==
  /\ t < EncFrames
  /\ MoveOn(Blank, 0, duration) /\ mode' = "biased"
  /\ UNCHANGED <<tokens, match, lstm, rewind>>

\* The model chose token, and chosen is what is taken.  A match that the model
\* begins itself can be gone back to once.
Emits(token, chosen, duration) ==
  LET starts == mode = "biased" /\ chosen = token /\ match = ROOT /\ extends(match, token)
      fresh == mode # "unbiased" /\ (chosen # token \/ starts) /\ rewind = None
      pending == IF fresh THEN Here(starts) ELSE rewind
      after == advance(match, chosen) IN
  /\ t < EncFrames
  /\ chosen \in IF mode = "unbiased" THEN {token} ELSE rerank(token)
  /\ IF pending # None /\ ~extends(match, chosen) /\ ~fresh
     THEN Rewound
     ELSE /\ match' = after
          /\ rewind' = IF complete(after) THEN None ELSE pending
          /\ tokens' = Append(tokens, [piece |-> chosen, at |-> t, own |-> chosen = token])
          /\ lstm' = Append(lstm, chosen)
          /\ MoveOn(chosen, emitted_at_frame + 1, duration) /\ mode' = "biased"

KeywordsNext ==
  \/ EndsInside
  \/ \E d \in Durations : Blanks(d) \/ \E token, chosen \in Pieces : Emits(token, chosen, d)

-----------------------------------------------------------------------------
over == t >= EncFrames /\ rewind = None

TypeOK ==
  /\ t \in Nat /\ emitted_at_frame \in 0..PerFrame
  /\ tokens \in Seq([piece : Pieces, at : 0..EncFrames - 1, own : BOOLEAN])
  /\ match \in prefixes /\ mode \in {"biased", "unbiased", "rival"}

\* What a match that is taken back leaves behind is what would be there without it:
\* the decoder and the automaton have been fed exactly what is kept, the times of
\* which do not go back.
InStep ==
  LET fed[n \in 0..Len(lstm)] == IF n = 0 THEN ROOT ELSE advance(fed[n - 1], lstm[n]) IN
  /\ lstm = [i \in DOMAIN tokens |-> tokens[i].piece]
  /\ match = fed[Len(lstm)]
  /\ \A i, j \in DOMAIN tokens : i <= j => tokens[i].at <= tokens[j].at

\* The token i is part of a keyword that was written out.
Spelt(i) ==
  \E w \in Spellings : \E j \in 0..Len(tokens) - Len(w) :
    /\ i \in j + 1..j + Len(w)
    /\ \A k \in 1..Len(w) : tokens[j + k].piece = w[k]

\* Only a whole keyword overrules the model: a boosted piece that is not part of one
\* is still provisional, and none is when the decode is over.
OnlyKeywords ==
  \A i \in DOMAIN tokens :
    tokens[i].own \/ Spelt(i) \/ (rewind # None /\ i > rewind.n_tokens)
=============================================================================
