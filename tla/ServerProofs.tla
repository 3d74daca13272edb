---------------------------- MODULE ServerProofs ----------------------------
(***************************************************************************)
(* Proofs about one connection of the speech server: whatever the client,  *)
(* the adapter and the scheduler do, for any capacity and any number of    *)
(* commits, an utterance is transcribed from its own audio, its transcript *)
(* names the item its commit acknowledged, and the queues are bounded.     *)
(***************************************************************************)
EXTENDS ServerMachine, FiniteSetTheorems, TLAPS

-----------------------------------------------------------------------------
\* The inductive invariant.

Utterances == 1..MaxCommits + 1

Sessions == {"none", "live", "done", "failed", "cancelled"}
Ingresses == [items : Seq(0..MaxCommits + 1), closed : BOOLEAN, aborted : BOOLEAN]
Readers == [at : {"none", "read", "put", "flush", "discard", "done"},
            put : Seq(-1..MaxCommits + 1), out : Seq({"created"} \X Nat)]
Utts == [n : 0..MaxCommits + 1, ended : BOOLEAN, closed : BOOLEAN, terminal : BOOLEAN,
         out : Seq({"delta", "completed"} \X Nat), heard : Seq(Utterances),
         spoke : BOOLEAN, drained : BOOLEAN]
Encoders == [queued : Seq(Nat), current : Nat, uncommitted : Nat, minted : Nat]
Clients == [utt : Utterances, chunks : [Utterances -> Nat], bad : BOOLEAN]
Sent == [acked : Seq(Nat), named : SUBSET (Utterances \X Nat), answered : SUBSET Utterances]

ServerTypes ==
  /\ dialect \in {"none", "ie115", "internal"} /\ link \in {"open", "gone", "stopped"}
  /\ handler \in {"opening", "running", "draining", "answering", "closing", "closed"}
  /\ session \in Sessions
  /\ ingress \in Ingresses /\ reader \in Readers /\ utt \in Utts
  /\ enc \in Encoders /\ client \in Clients /\ seen \in Sent

\* Before its first frame a connection has nothing; the encoder is only used
\* by its own dialect.
FreshSound ==
  /\ handler = "opening" => dialect = "none"
  /\ dialect # "ie115" =>
       /\ enc = [queued |-> <<>>, current |-> None, uncommitted |-> None, minted |-> 0]
  /\ dialect = "none" =>
       /\ handler \in {"opening", "closed"} /\ session = "none"
       /\ utt.n = 0 /\ utt.heard = <<>> /\ utt.out = <<>> /\ ~utt.ended /\ ~utt.closed
       /\ client.utt = 1 /\ client.chunks = [u \in Utterances |-> 0]
       /\ ingress = [items |-> <<>>, closed |-> FALSE, aborted |-> FALSE]
       /\ reader = [at |-> "none", put |-> <<>>, out |-> <<>>]
       /\ seen.acked = <<>> /\ seen.named = {}
  /\ dialect # "none" => utt.n >= 1

\* The reader holds pieces of one utterance, a boundary or the mark of the
\* end, and reads no more once the ingress is closed or given up, as it is
\* whenever the adapter was cancelled.
ReaderSound ==
  /\ reader.at \in {"put", "flush"} <=> reader.put # <<>>
  /\ reader.at = "flush" => reader.put = <<Boundary>> /\ client.utt > 1
  /\ reader.put # <<>> =>
       \/ \A i \in DOMAIN reader.put : reader.put[i] = client.utt
       \/ reader.put = <<Boundary>>
       \/ reader.put = <<CloseMark>>
  /\ ingress.closed => reader.at \in {"done", "discard"}
  /\ ingress.aborted => reader.at = "done" \/ ~Connected
  /\ utt.closed => utt.ended /\ ingress.closed
  /\ session = "cancelled" => ingress.aborted

\* The handler makes up for an adapter only once its utterance is over, with
\* more of the stream to come.
AnswerSound == handler = "answering" => utt.ended /\ ~utt.closed

\* The utterance whose audio is at the head of the stream, what the reader
\* still holds of the stream, and the last utterance the ingress has seen.
Serving == IF utt.ended THEN utt.n + 1 ELSE utt.n
CommitWaits == reader.put = <<Boundary>>
Waiting == IF reader.put = <<>> \/ CommitWaits \/ reader.put = <<CloseMark>>
           THEN 0 ELSE Len(reader.put)
Latest == IF CommitWaits THEN client.utt - 1 ELSE client.utt

\* The audio of the utterance being served that is still to be consumed.
RestOf(n, s, l, w, c) == IF l = s THEN n + w ELSE n - 1 - (c - w)
Rest == RestOf(Len(ingress.items), Serving, Latest, Waiting, client.chunks[Latest])

\* A stream with r chunks of utterance s, a boundary, and chunks of utterance l;
\* or only chunks of s.
Shape(items, s, l, r) ==
  \A i \in 1..Len(items) :
    items[i] = IF l = s \/ i <= r THEN s ELSE IF i = r + 1 THEN Boundary ELSE l

\* The client is at most two commits ahead, and an utterance that ended with
\* its boundary has been heard whole.
OrderSound ==
  /\ dialect # "none" =>
       /\ client.utt <= Serving + 2
       /\ ~utt.closed => Serving <= client.utt
  /\ \A u \in Utterances : u > client.utt => client.chunks[u] = 0
  /\ CommitWaits => client.chunks[client.utt] = 0
  /\ \A i \in DOMAIN utt.heard : utt.heard[i] = utt.n
  /\ utt.ended /\ ~utt.closed /\ ~utt.drained => Len(utt.heard) = client.chunks[utt.n]

\* The ingress holds the rest of the utterance being served, then at most one
\* boundary and what was put of the next one.
StreamSound ==
  dialect # "none" /\ ~ingress.aborted /\ ~utt.closed =>
    /\ Latest \in {Serving, Serving + 1}
    /\ 0 <= Rest /\ Waiting <= client.chunks[Latest]
    /\ Shape(ingress.items, Serving, Latest, Rest)
    /\ utt.ended => Rest = client.chunks[Serving]
    /\ ~utt.ended /\ ~utt.drained => Len(utt.heard) + Rest = client.chunks[Serving]

\* The ingress never holds more than its capacity, and one boundary.
RoomSound ==
  /\ Bytes(ingress.items) <= Capacity
  /\ \A i, j \in DOMAIN ingress.items :
       ingress.items[i] = Boundary /\ ingress.items[j] = Boundary => i = j

\* q is what follows the first k members of a.
Follows(q, a, k) ==
  /\ Len(a) = k + Len(q)
  /\ \A j \in 1..Len(q) : q[j] = a[k + j]

\* The encoder's queue holds the acknowledged items from the utterance being
\* served on, less the one it has already named; an item it named before its
\* commit is acknowledged by that commit.
ItemSound ==
  dialect = "ie115" =>
    /\ utt.n <= client.utt
    /\ Len(seen.acked) = client.utt - 1
    /\ enc.uncommitted = None =>
         /\ enc.current = None => Follows(enc.queued, seen.acked, utt.n - 1)
         /\ enc.current # None =>
              /\ Follows(enc.queued, seen.acked, utt.n)
              /\ utt.n < client.utt /\ enc.current = seen.acked[utt.n]
    /\ enc.uncommitted # None =>
         /\ enc.current = enc.uncommitted /\ enc.queued = <<>> /\ client.utt = utt.n
         /\ \A k \in DOMAIN seen.acked : seen.acked[k] # enc.uncommitted
    /\ \A k, l \in DOMAIN seen.acked : seen.acked[k] = seen.acked[l] => k = l
    /\ \A k \in DOMAIN seen.acked : 0 < seen.acked[k] /\ seen.acked[k] <= enc.minted
    /\ enc.current <= enc.minted

\* What the client was sent, and what is still to be sent, names these items.
NamedSound ==
  dialect = "ie115" =>
    /\ \A x \in seen.named :
         /\ x[1] <= utt.n
         /\ x[2] = IF x[1] = utt.n THEN enc.current ELSE seen.acked[x[1]]
         /\ x[1] = utt.n => enc.current # None
    /\ utt.out # <<>> =>
         /\ enc.current # None /\ Len(utt.out) = 1 /\ utt.out[1][2] = enc.current

ServerInv ==
  /\ ServerTypes /\ FreshSound /\ ReaderSound /\ AnswerSound /\ OrderSound
  /\ StreamSound /\ RoomSound /\ ItemSound /\ NamedSound

-----------------------------------------------------------------------------
\* The initial states.
LEMMA ServerInitInv == ServerInit => ServerInv
<1> SUFFICES ASSUME ServerInit PROVE ServerInv
  OBVIOUS
<1> USE DEF ServerInit
<1>0. MaxCommits \in Nat \ {0} /\ MaxChunks \in Nat \ {0} /\ Capacity \in Nat \ {0}
  BY ServerAssumption
<1>1. ServerTypes
  BY <1>0 DEF ServerTypes, Utterances, None, Sessions, Ingresses, Readers, Utts,
              Encoders, Clients, Sent
<1>2. FreshSound /\ ReaderSound
  BY DEF FreshSound, ReaderSound, Utterances, None
<1>3. OrderSound /\ StreamSound
  BY <1>0 DEF OrderSound, StreamSound, Utterances, CommitWaits, Boundary
<1>4. RoomSound
  <2>1. {i \in DOMAIN ingress.items : ingress.items[i] # Boundary} = {}
    OBVIOUS
  <2>2. DOMAIN ingress.items = {}
    OBVIOUS
  <2> QED BY <2>1, <2>2, <1>0, FS_EmptySet DEF RoomSound, Bytes
<1>5. ItemSound /\ NamedSound
  BY DEF ItemSound, NamedSound
<1>6. AnswerSound
  BY DEF ServerInit, AnswerSound
<1> QED BY <1>1, <1>2, <1>3, <1>4, <1>5, <1>6 DEF ServerInv

-----------------------------------------------------------------------------
\* Sequences, as the queues of the connection use them.
LEMMA Shorter ==
  ASSUME NEW S, NEW s \in Seq(S), s # <<>>
  PROVE  /\ Tail(s) \in Seq(S) /\ Head(s) \in S /\ Head(s) = s[1]
         /\ Len(s) \in Nat \ {0} /\ Len(Tail(s)) = Len(s) - 1
         /\ \A i \in 1..Len(s) - 1 : Tail(s)[i] = s[i + 1]
         /\ Tail(s) = <<>> <=> Len(s) = 1
<1> DEFINE t == Tail(s)
<1>1. /\ t \in Seq(S) /\ Head(s) \in S /\ Head(s) = s[1]
      /\ Len(s) \in Nat \ {0} /\ Len(t) = Len(s) - 1
      /\ \A i \in 1..Len(s) - 1 : t[i] = s[i + 1]
  OBVIOUS
<1> HIDE DEF t
<1>2. t = <<>> <=> Len(t) = 0
  BY <1>1
<1> QED BY <1>1, <1>2 DEF t

\* Adding an item at the end leaves the ones before it in place.
LEMMA Longer ==
  ASSUME NEW S, NEW s \in Seq(S), NEW x \in S
  PROVE  /\ Append(s, x) \in Seq(S) /\ Len(Append(s, x)) = Len(s) + 1
         /\ \A i \in 1..Len(s) : Append(s, x)[i] = s[i]
         /\ Append(s, x)[Len(s) + 1] = x
OBVIOUS

-----------------------------------------------------------------------------
\* An event of the adapter is written at once: on the item of the utterance, on
\* the next one that was acknowledged, or on a new one, announced first.
EmittedOn(kind, t, e, rest) ==
  /\ enc' = e
  /\ utt' = [utt EXCEPT !.out = rest, !.spoke = TRUE, !.terminal = t]

\* An event of the adapter takes one of four forms, by what the encoder holds.
LEMMA EmitForms ==
  ASSUME NEW kind \in {"delta", "completed"}, NEW t \in BOOLEAN, Emit(kind, t)
  PROVE
    \/ /\ dialect # "ie115"
       /\ EmittedOn(kind, t, enc, <<>>) /\ seen' = Written(<<kind, None>>)
    \/ /\ dialect = "ie115" /\ enc.current # None
       /\ EmittedOn(kind, t, enc, <<>>) /\ seen' = Written(<<kind, enc.current>>)
    \/ /\ dialect = "ie115" /\ enc.current = None /\ enc.queued # <<>>
       /\ EmittedOn(kind, t, [enc EXCEPT !.current = Head(enc.queued), !.queued = Tail(@)], <<>>)
       /\ seen' = Written(<<kind, Head(enc.queued)>>)
    \/ /\ dialect = "ie115" /\ enc.current = None /\ enc.queued = <<>>
       /\ LET i == enc.minted + 1 IN
          /\ EmittedOn(kind, t, [enc EXCEPT !.minted = i, !.current = i, !.uncommitted = i],
                       <<<<kind, i>>>>)
          /\ seen' = Written(<<"created", i>>)
<1>0. /\ \A f : Head(<<f>>) = f /\ Tail(<<f>>) = <<>>
      /\ \A f, g : Head(<<f, g>>) = f /\ Tail(<<f, g>>) = <<g>>
  OBVIOUS
<1>1. CASE dialect # "ie115"
  BY <1>0, <1>1 DEF Emit, EmittedOn
<1>2. CASE dialect = "ie115" /\ enc.current # None
  BY <1>0, <1>2 DEF Emit, EmittedOn, event_frames
<1>3. CASE dialect = "ie115" /\ enc.current = None /\ enc.queued # <<>>
  BY <1>0, <1>3 DEF Emit, EmittedOn, event_frames
<1>4. CASE dialect = "ie115" /\ enc.current = None /\ enc.queued = <<>>
  BY <1>0, <1>4 DEF Emit, EmittedOn, event_frames
<1> QED BY <1>1, <1>2, <1>3, <1>4

\* What a frame does to what the client was sent.
LEMMA WrittenForms ==
  ASSUME NEW i
  PROVE  /\ Written(<<"created", i>>) = seen
         /\ Written(<<"ack", i>>) \in {seen, [seen EXCEPT !.acked = Append(@, i)]}
         /\ Connected => Written(<<"ack", i>>) = [seen EXCEPT !.acked = Append(@, i)]
         /\ Written(<<"error", i>>) \in {seen, [seen EXCEPT !.answered = @ \cup {utt.n}]}
         /\ \A kind \in {"delta", "completed"} :
              \/ Written(<<kind, i>>) = seen
              \/ \E a \in {seen.answered, seen.answered \cup {utt.n}} :
                   Written(<<kind, i>>) =
                     [seen EXCEPT !.named = @ \cup {<<utt.n, i>>}, !.answered = a]
<1>1. CASE ~Connected
  BY <1>1 DEF Written
<1>2. CASE Connected
  <2>1. \A kind \in {"delta", "completed"} :
          Written(<<kind, i>>) =
            [seen EXCEPT !.named = @ \cup {<<utt.n, i>>},
               !.answered = IF kind = "completed" THEN @ \cup {utt.n} ELSE @]
    BY <1>2 DEF Written
  <2> QED BY <1>2, <2>1 DEF Written
<1> QED BY <1>1, <1>2

\* A connection that has its first frame is serving a numbered utterance.
LEMMA Numbered ==
  ASSUME ServerTypes, FreshSound, session # "none" \/ dialect # "none"
  PROVE  utt.n \in Utterances
BY ServerAssumption DEF ServerTypes, FreshSound, Utterances, Utts

\* Taking an item off the ingress keeps the types.
LEMMA GetTypes ==
  ASSUME ingress \in Ingresses, utt \in Utts, NEW adapter \in BOOLEAN, get(adapter)
  PROVE  ingress' \in Ingresses /\ utt' \in Utts
<1>1. CASE ingress.items = <<>>
  BY <1>1 DEF get, Utts, Ingresses
<1>2. CASE ingress.items # <<>>
  <2>1. /\ Tail(ingress.items) \in Seq(0..MaxCommits + 1)
        /\ Head(ingress.items) \in 0..MaxCommits + 1
    BY <1>2, Shorter DEF Ingresses
  <2>2. Head(ingress.items) # Boundary => Append(utt.heard, Head(ingress.items)) \in Seq(Utterances)
    BY <2>1, Longer, ServerAssumption DEF Boundary, Utterances, Utts
  <2> DEFINE h == Head(ingress.items)
             tl == Tail(ingress.items)
             hs == Append(utt.heard, h)
  <2>3. /\ ingress' = [ingress EXCEPT !.items = tl]
        /\ \/ utt' = [utt EXCEPT !.ended = TRUE]
           \/ utt' = [utt EXCEPT !.drained = TRUE]
           \/ h # Boundary /\ utt' = [utt EXCEPT !.heard = hs]
    BY <1>2 DEF get
  <2>4. tl \in Seq(0..MaxCommits + 1) /\ (h # Boundary => hs \in Seq(Utterances))
    BY <2>1, <2>2
  <2> HIDE DEF h, tl, hs
  <2>5. ingress' \in Ingresses
    BY <2>3, <2>4 DEF Ingresses
  <2>6. utt' \in Utts
    BY <2>3, <2>4 DEF Utts
  <2> QED BY <2>5, <2>6
<1> QED BY <1>1, <1>2

\* Giving up on the ingress empties it and keeps the types.
LEMMA AbortTypes ==
  ASSUME ingress \in Ingresses, session \in Sessions, abort
  PROVE  /\ ingress' \in Ingresses /\ session' \in Sessions
         /\ ingress' = [ingress EXCEPT !.items = <<>>, !.aborted = TRUE]
<1>1. ingress' = [ingress EXCEPT !.items = <<>>, !.aborted = TRUE]
  BY DEF abort
<1>2. ingress' \in Ingresses
  <2> DEFINE e == <<>>
  <2>1. e \in Seq(0..MaxCommits + 1)
    OBVIOUS
  <2>2. ingress' = [ingress EXCEPT !.items = e, !.aborted = TRUE]
    BY <1>1
  <2> HIDE DEF e
  <2> QED BY <2>1, <2>2 DEF Ingresses
<1>3. session' \in Sessions
  BY DEF abort, Sessions
<1> QED BY <1>1, <1>2, <1>3

\* A frame written to the client keeps the type of what it was sent.
LEMMA WrittenTypes ==
  ASSUME seen \in Sent, utt.n \in Utterances, NEW i \in Nat
  PROVE  /\ Written(<<"ack", i>>) \in Sent /\ Written(<<"error", i>>) \in Sent
         /\ Written(<<"created", i>>) \in Sent
         /\ \A kind \in {"delta", "completed"} : Written(<<kind, i>>) \in Sent
<1>1. Append(seen.acked, i) \in Seq(Nat)
  BY Longer DEF Sent
<1> DEFINE a == Append(seen.acked, i)
<1> HIDE DEF a
<1>2. a \in Seq(Nat)
  BY <1>1 DEF a
<1>3. Written(<<"ack", i>>) \in {seen, [seen EXCEPT !.acked = a]}
  BY WrittenForms DEF a
<1>4. Written(<<"ack", i>>) \in Sent
  BY <1>2, <1>3 DEF Sent
<1>5. Written(<<"error", i>>) \in Sent /\ Written(<<"created", i>>) \in Sent
  <2>1. seen.answered \cup {utt.n} \in SUBSET Utterances
    BY DEF Sent
  <2> DEFINE b == seen.answered \cup {utt.n}
  <2>2. Written(<<"error", i>>) \in {seen, [seen EXCEPT !.answered = b]}
    BY WrittenForms
  <2>3. b \in SUBSET Utterances
    BY <2>1
  <2> HIDE DEF b
  <2>4. Written(<<"error", i>>) \in Sent
    BY <2>2, <2>3 DEF Sent
  <2> QED BY <2>4, WrittenForms
<1>6. ASSUME NEW kind \in {"delta", "completed"}
      PROVE  Written(<<kind, i>>) \in Sent
  <2>1. CASE Written(<<kind, i>>) = seen
    BY <2>1
  <2>2. ASSUME NEW b \in {seen.answered, seen.answered \cup {utt.n}},
               Written(<<kind, i>>) =
                 [seen EXCEPT !.named = @ \cup {<<utt.n, i>>}, !.answered = b]
        PROVE  Written(<<kind, i>>) \in Sent
    <3>1. seen.named \cup {<<utt.n, i>>} \in SUBSET (Utterances \X Nat)
            /\ b \in SUBSET Utterances
      BY DEF Sent
    <3> QED BY <2>2, <3>1 DEF Sent
  <2> QED BY <2>1, <2>2, WrittenForms
<1> QED BY <1>4, <1>5, <1>6

\* An event of the adapter keeps the types of the encoder and the utterance.
LEMMA EmitTypes ==
  ASSUME enc \in Encoders, seen \in Sent, utt \in Utts, utt.n \in Utterances,
         NEW kind \in {"delta", "completed"}, NEW t \in BOOLEAN, Emit(kind, t)
  PROVE  enc' \in Encoders /\ seen' \in Sent /\ utt' \in Utts
<1>0. enc.queued # <<>> => Head(enc.queued) \in Nat /\ Tail(enc.queued) \in Seq(Nat)
  BY Shorter DEF Encoders
<1> DEFINE i == enc.minted + 1
           h == Head(enc.queued)
           tl == Tail(enc.queued)
           out == <<<<kind, i>>>>
<1>1. i \in Nat /\ None \in Nat /\ enc.current \in Nat
        /\ out \in Seq({"delta", "completed"} \X Nat)
        /\ <<>> \in Seq({"delta", "completed"} \X Nat)
  BY DEF Encoders, None
<1>2. \/ enc' = enc
      \/ enc.queued # <<>> /\ enc' = [enc EXCEPT !.current = h, !.queued = tl]
      \/ enc' = [enc EXCEPT !.minted = i, !.current = i, !.uncommitted = i]
  BY EmitForms DEF EmittedOn
<1>3. \E o \in {<<>>, out} : utt' = [utt EXCEPT !.out = o, !.spoke = TRUE, !.terminal = t]
  BY EmitForms DEF EmittedOn
<1>4. \/ seen' = Written(<<kind, None>>) \/ seen' = Written(<<kind, enc.current>>)
      \/ enc.queued # <<>> /\ seen' = Written(<<kind, h>>)
      \/ seen' = Written(<<"created", i>>)
  BY EmitForms
<1>5. seen' \in Sent
  BY <1>0, <1>1, <1>4, WrittenTypes
<1>6. enc.queued # <<>> => h \in Nat /\ tl \in Seq(Nat)
  BY <1>0
<1> HIDE DEF i, h, tl, out
<1>7. enc' \in Encoders
  BY <1>1, <1>2, <1>6 DEF Encoders
<1>8. utt' \in Utts
  BY <1>1, <1>3, ZenonT(40) DEF Utts
<1> QED BY <1>5, <1>7, <1>8

\* Starting an utterance keeps the types.
LEMMA StartTypes ==
  ASSUME ServerTypes, NEW d \in {"ie115", "internal"}, StartUtterance(d),
         utt.n <= MaxCommits
  PROVE  /\ utt' \in Utts /\ enc' \in Encoders /\ session' \in Sessions /\ handler' = "running"
         /\ utt'.n = utt.n + 1
<1>1. utt.n + 1 \in 0..MaxCommits + 1
  BY ServerAssumption DEF ServerTypes, Utts
<1>2. utt' \in Utts /\ utt'.n = utt.n + 1
  BY <1>1 DEF StartUtterance, Utts
<1>3. enc' \in Encoders
  <2>1. enc.queued # <<>> => Tail(enc.queued) \in Seq(Nat)
    BY Shorter DEF ServerTypes, Encoders
  <2> DEFINE tl == Tail(enc.queued)
  <2>2. \/ enc' = enc
        \/ enc' = [enc EXCEPT !.current = None]
        \/ enc.queued # <<>> /\ enc' = [enc EXCEPT !.queued = tl, !.current = None]
    <3>1. enc' = enc \/ enc' = begin_utterance
      BY DEF StartUtterance
    <3>2. CASE enc.current = None /\ enc.queued # <<>>
      BY <3>1, <3>2 DEF begin_utterance
    <3>3. CASE ~(enc.current = None /\ enc.queued # <<>>)
      BY <3>1, <3>3 DEF begin_utterance, ServerTypes, Encoders
    <3> QED BY <3>2, <3>3
  <2>3. enc.queued # <<>> => tl \in Seq(Nat)
    BY <2>1
  <2> HIDE DEF tl
  <2>4. enc \in Encoders
    BY DEF ServerTypes
  <2>5. CASE enc' = enc
    BY <2>4, <2>5
  <2>6. CASE enc' = [enc EXCEPT !.current = None]
    BY ONLY <2>4, <2>6 DEF Encoders, None
  <2>7. CASE enc.queued # <<>> /\ enc' = [enc EXCEPT !.queued = tl, !.current = None]
    BY ONLY <2>3, <2>4, <2>7 DEF Encoders, None
  <2> QED BY <2>2, <2>5, <2>6, <2>7
<1> QED BY <1>2, <1>3 DEF StartUtterance, Sessions

\* What the handler does once an utterance is over.
LEMMA NextParts ==
  ASSUME AnswerSound, NextUtterance
  PROVE  /\ dialect = "ie115" /\ UNCHANGED <<dialect, link, client>>
         /\ \/ _end_connection /\ UNCHANGED <<utt, enc, seen>>
            \/ utt.ended /\ ~utt.closed /\ StartUtterance(dialect)
                 /\ UNCHANGED <<ingress, reader, seen>>
            \/ utt.ended /\ ~utt.closed /\ MakeUp
<1>1. CASE handler = "draining" /\ (utt.closed \/ ingress.aborted)
  BY <1>1 DEF NextUtterance
<1>2. CASE ~(handler = "draining" /\ (utt.closed \/ ingress.aborted))
  <2>1. utt.ended /\ ~utt.closed
    BY <1>2 DEF NextUtterance, AnswerSound
  <2> QED BY <1>2, <2>1 DEF NextUtterance
<1> QED BY <1>1, <1>2

\* Every step of the server keeps the types.  The number of an utterance stays
\* in range because the client has sent the commit of the one before.
LEMMA TypesNext ==
  ASSUME ServerTypes, FreshSound, ReaderSound, AnswerSound, OrderSound, ServerNext
  PROVE  ServerTypes'
<1>0. /\ dialect \in {"none", "ie115", "internal"} /\ link \in {"open", "gone", "stopped"}
      /\ handler \in {"opening", "running", "draining", "answering", "closing", "closed"}
      /\ session \in Sessions /\ ingress \in Ingresses /\ reader \in Readers
      /\ utt \in Utts /\ enc \in Encoders /\ client \in Clients /\ seen \in Sent
      /\ None \in Nat /\ MaxCommits \in Nat
  BY ServerAssumption DEF ServerTypes, None
<1>n. session # "none" \/ dialect # "none" => utt.n \in Utterances
  BY Numbered
<1>p. \A r \in Readers, at \in {"none", "read", "put", "flush", "discard", "done"} :
        /\ [r EXCEPT !.at = at] \in Readers
        /\ [at |-> at, put |-> <<>>, out |-> <<>>] \in Readers
        /\ [r EXCEPT !.at = at, !.put = <<CloseMark>>] \in Readers
  <2>1. ASSUME NEW r \in Readers, NEW at \in {"none", "read", "put", "flush", "discard", "done"},
               NEW p \in Seq(-1..MaxCommits + 1), NEW o \in Seq({"created"} \X Nat)
        PROVE  /\ [r EXCEPT !.at = at, !.put = p] \in Readers /\ [r EXCEPT !.at = at] \in Readers
               /\ [at |-> at, put |-> p, out |-> o] \in Readers
    BY DEF Readers
  <2>2. /\ <<CloseMark>> \in Seq(-1..MaxCommits + 1) /\ <<>> \in Seq(-1..MaxCommits + 1)
        /\ <<>> \in Seq({"created"} \X Nat)
    BY <1>0 DEF CloseMark
  <2> QED BY <2>1, <2>2
<1>i. /\ [ingress EXCEPT !.closed = TRUE] \in Ingresses
      /\ [items |-> <<>>, closed |-> TRUE, aborted |-> TRUE] \in Ingresses
  <2>1. ASSUME NEW e \in Seq(0..MaxCommits + 1)
        PROVE  [items |-> e, closed |-> TRUE, aborted |-> TRUE] \in Ingresses
    BY DEF Ingresses
  <2>2. <<>> \in Seq(0..MaxCommits + 1)
    OBVIOUS
  <2>3. [ingress EXCEPT !.closed = TRUE] \in Ingresses
    BY <1>0 DEF Ingresses
  <2> QED BY <2>1, <2>2, <2>3
<1>1. ASSUME NEW d \in {"ie115", "internal"}, handle(d) PROVE ServerTypes'
  <2>1. utt.n <= MaxCommits
    BY <1>0, <1>1 DEF handle, FreshSound
  <2>2. utt' \in Utts /\ enc' \in Encoders /\ session' \in Sessions /\ handler' = "running"
    BY <1>1, <2>1, StartTypes DEF handle
  <2> QED BY <1>0, <1>1, <1>p, <2>2 DEF handle, ServerTypes
<1>2. CASE _refuse
  BY <1>0, <1>2 DEF _refuse, ServerTypes
<1>3. CASE _run_utterance
  <2>1. ingress' \in Ingresses /\ session' \in Sessions
    BY <1>0, <1>3, AbortTypes DEF _run_utterance
  <2>2. utt' \in Utts
    <3>1. \E t \in BOOLEAN : utt' = [utt EXCEPT !.out = <<>>, !.terminal = t]
      BY <1>0, <1>3 DEF _run_utterance, Utts
    <3>2. ASSUME NEW e \in Seq({"delta", "completed"} \X Nat), NEW t \in BOOLEAN
          PROVE  [utt EXCEPT !.out = e, !.terminal = t] \in Utts
      BY <1>0 DEF Utts
    <3>3. <<>> \in Seq({"delta", "completed"} \X Nat)
      OBVIOUS
    <3> QED BY <3>1, <3>2, <3>3
  <2>3. seen' \in Sent
    BY <1>0, <1>3, <1>n, WrittenTypes DEF _run_utterance
  <2> QED BY <1>0, <1>3, <2>1, <2>2, <2>3 DEF _run_utterance, ServerTypes
<1>4. CASE drain
  <2>1. ingress' \in Ingresses /\ utt' \in Utts
    BY <1>0, <1>4, GetTypes DEF drain
  <2> QED BY <1>0, <1>4, <2>1 DEF drain, ServerTypes
<1>5. CASE NextUtterance
  <2>0. UNCHANGED <<dialect, link, client>>
    BY <1>5, NextParts
  <2>1. CASE _end_connection /\ UNCHANGED <<utt, enc, seen>>
    <3>1. ingress' \in Ingresses /\ session' \in Sessions
      BY <1>0, <2>1, AbortTypes DEF _end_connection
    <3> QED BY <1>0, <1>p, <2>0, <2>1, <3>1 DEF _end_connection, ServerTypes
  <2>2. CASE /\ utt.ended /\ ~utt.closed /\ StartUtterance(dialect)
             /\ UNCHANGED <<ingress, reader, seen>>
    <3>1. utt.n <= MaxCommits /\ dialect \in {"ie115", "internal"}
      BY <1>0, <1>5, <2>2 DEF OrderSound, Serving, NextUtterance, Clients, Utterances, Utts
    <3>2. utt' \in Utts /\ enc' \in Encoders /\ session' \in Sessions /\ handler' = "running"
      BY <2>2, <3>1, StartTypes
    <3> QED BY <1>0, <2>0, <2>2, <3>2 DEF ServerTypes
  <2>3. CASE MakeUp
    <3>1. utt' \in Utts
      BY <1>0, <2>3 DEF MakeUp, Utts
    <3>2. seen' \in Sent
      BY <1>0, <1>5, <1>n, <2>3, WrittenTypes DEF MakeUp, NextUtterance
    <3> QED BY <1>0, <2>0, <2>3, <3>1, <3>2 DEF MakeUp, ServerTypes
  <2> QED BY <1>5, <2>1, <2>2, <2>3, NextParts
<1>6. CASE EndInternal
  <2>1. ingress' \in Ingresses /\ session' \in Sessions
    BY <1>0, <1>6, AbortTypes DEF EndInternal, _end_connection
  <2> QED BY <1>0, <1>6, <1>p, <2>1 DEF EndInternal, _end_connection, ServerTypes
<1>7. CASE _close
  BY <1>0, <1>7 DEF _close, ServerTypes
<1>8. CASE EmitSends
  <2>1. /\ Tail(utt.out) \in Seq({"delta", "completed"} \X Nat)
        /\ Head(utt.out) \in {"delta", "completed"} \X Nat
    BY <1>0, <1>8, Shorter DEF EmitSends, Utts
  <2>2. utt' \in Utts
    <3> DEFINE tl == Tail(utt.out)
    <3>1. utt' = [utt EXCEPT !.out = tl] /\ tl \in Seq({"delta", "completed"} \X Nat)
      BY <1>8, <2>1 DEF EmitSends
    <3> HIDE DEF tl
    <3> QED BY <1>0, <3>1 DEF Utts
  <2>3. seen' \in Sent
    <3>1. PICK kind \in {"delta", "completed"}, i \in Nat : Head(utt.out) = <<kind, i>>
      BY <2>1
    <3> QED BY <1>0, <1>8, <1>n, <3>1, WrittenTypes DEF EmitSends
  <2> QED BY <1>0, <1>8, <2>2, <2>3 DEF EmitSends, ServerTypes
<1>9. CASE AdapterReads
  <2>1. ingress' \in Ingresses /\ utt' \in Utts
    BY <1>0, <1>9, GetTypes DEF AdapterReads
  <2> QED BY <1>0, <1>9, <2>1 DEF AdapterReads, ServerTypes
<1>10. CASE AdapterEmits \/ AdapterFinishes
  <2>1. enc' \in Encoders /\ seen' \in Sent /\ utt' \in Utts
    BY <1>0, <1>10, <1>n, EmitTypes DEF AdapterEmits, AdapterFinishes, AdapterFree
  <2> QED BY <1>0, <1>10, <2>1 DEF AdapterEmits, AdapterFinishes, ServerTypes
<1>11. CASE AdapterRejects
  <2>1. seen' \in Sent
    BY <1>0, <1>11, <1>n, WrittenTypes DEF AdapterRejects, AdapterFree
  <2>2. utt' \in Utts
    BY <1>0, <1>11 DEF AdapterRejects, Utts
  <2> QED BY <1>0, <1>11, <2>1, <2>2 DEF AdapterRejects, ServerTypes
<1>12. CASE AdapterReturns
  BY <1>0, <1>12 DEF AdapterReturns, ServerTypes, Sessions
<1>13. ASSUME NEW n \in 1..MaxChunks, ReadAudio(n) PROVE ServerTypes'
  <2>1. client.utt \in Utterances /\ client.chunks \in [Utterances -> Nat]
    BY <1>0 DEF Clients
  <2>2. n \in Nat /\ MaxChunks \in Nat
    BY ServerAssumption
  <2>3. client' \in Clients
    <3> DEFINE c == [client.chunks EXCEPT ![client.utt] = @ + n]
    <3>1. c \in [Utterances -> Nat]
      BY <1>13, <2>1, <2>2 DEF ReadAudio
    <3>2. client' = [client EXCEPT !.chunks = c]
      BY <1>13 DEF ReadAudio
    <3> HIDE DEF c
    <3> QED BY <1>0, <3>1, <3>2 DEF Clients
  <2>4. reader' \in Readers
    <3> DEFINE p == [i \in 1..n |-> client.utt]
    <3>1. client.utt \in -1..MaxCommits + 1
      BY <1>0, <2>1 DEF Utterances
    <3>2. p \in Seq(-1..MaxCommits + 1)
      BY <2>2, <3>1
    <3>3. reader' = [reader EXCEPT !.at = "put", !.put = p]
      BY <1>13 DEF ReadAudio
    <3> HIDE DEF p
    <3> QED BY <1>0, <3>2, <3>3 DEF Readers
  <2> QED BY <1>0, <1>13, <2>3, <2>4 DEF ReadAudio, ServerTypes
<1>14. CASE ReadCommit
  <2>0. dialect # "none"
    BY <1>14 DEF ReadCommit
  <2>1. client' \in Clients
    BY <1>0, <1>14 DEF ReadCommit, Clients, Utterances
  <2> DEFINE i == enc.minted + 1
             q == Append(enc.queued, i)
  <2>2. i \in Nat /\ q \in Seq(Nat) /\ enc.uncommitted \in Nat
    BY <1>0, Longer DEF Encoders
  <2>3. /\ enc' \in {[enc EXCEPT !.uncommitted = None], [enc EXCEPT !.minted = i, !.queued = q]}
        /\ \/ seen' = Written(<<"ack", enc.uncommitted>>)
           \/ seen' = Written(<<"ack", i>>)
        /\ \E o \in {<<>>, <<<<"created", i>>>>} :
             \E at \in {"put", "flush"} :
               reader' = [put |-> <<Boundary>>, out |-> o, at |-> at]
    <3>1. CASE enc.uncommitted # None
      BY <1>14, <3>1 DEF ReadCommit, commit_frames
    <3>2. CASE enc.uncommitted = None
      BY <1>14, <3>2 DEF ReadCommit, commit_frames
    <3> QED BY <3>1, <3>2
  <2>4. seen' \in Sent
    BY <1>0, <1>n, <2>0, <2>2, <2>3, WrittenTypes
  <2>5. reader' \in Readers
    <3>1. <<Boundary>> \in Seq(-1..MaxCommits + 1)
      BY <1>0 DEF Boundary
    <3>2. /\ <<>> \in Seq({"created"} \X Nat)
          /\ <<<<"created", i>>>> \in Seq({"created"} \X Nat)
      BY <2>2
    <3>3. ASSUME NEW p \in Seq(-1..MaxCommits + 1), NEW o \in Seq({"created"} \X Nat),
                 NEW at \in {"put", "flush"}
          PROVE  [put |-> p, out |-> o, at |-> at] \in Readers
      BY DEF Readers
    <3>4. PICK o \in {<<>>, <<<<"created", i>>>>}, at \in {"put", "flush"} :
            reader' = [put |-> <<Boundary>>, out |-> o, at |-> at]
      BY <2>3
    <3>5. o \in Seq({"created"} \X Nat)
      BY <3>2
    <3> QED BY <3>1, <3>3, <3>4, <3>5
  <2> HIDE DEF i, q
  <2>6. enc' \in Encoders
    BY <1>0, <2>2, <2>3 DEF Encoders
  <2> QED BY <1>0, <1>14, <2>1, <2>4, <2>5, <2>6 DEF ReadCommit, ServerTypes
<1>15. CASE ReadBad
  <2>1. client' \in Clients
    BY <1>0, <1>15 DEF ReadBad, Clients
  <2> QED BY <1>0, <1>15, <1>p, <1>i, <2>1 DEF ReadBad, ServerTypes
<1>16. CASE ReadFinish
  BY <1>0, <1>16, <1>p, <1>i DEF ReadFinish, ServerTypes
<1>17. CASE ReadEnd
  BY <1>0, <1>17, <1>p, <1>i DEF ReadEnd, ServerTypes, Sessions
<1>18. CASE ReaderSends
  <2>1. /\ Tail(reader.out) \in Seq({"created"} \X Nat)
        /\ Head(reader.out) \in {"created"} \X Nat
    BY <1>0, <1>18, Shorter DEF ReaderSends, Readers
  <2>2. reader' \in Readers
    <3> DEFINE tl == Tail(reader.out)
    <3>1. reader' = [reader EXCEPT !.out = tl] /\ tl \in Seq({"created"} \X Nat)
      BY <1>18, <2>1 DEF ReaderSends
    <3> HIDE DEF tl
    <3> QED BY <1>0, <3>1 DEF Readers
  <2>3. seen' = seen
    <3>1. PICK i \in Nat : Head(reader.out) = <<"created", i>>
      BY <2>1
    <3> QED BY <1>18, <3>1, WrittenForms DEF ReaderSends
  <2> QED BY <1>0, <1>18, <2>2, <2>3 DEF ReaderSends, ServerTypes
<1>19. CASE _put
  <2>1. /\ Tail(reader.put) \in Seq(-1..MaxCommits + 1)
        /\ Head(reader.put) \in -1..MaxCommits + 1
    BY <1>0, <1>19, Shorter DEF _put, Readers, ReaderSound
  <2>2. reader' \in Readers
    <3> DEFINE tl == Tail(reader.put)
    <3>1. \E at \in {"done", "read", "put"} : reader' = [reader EXCEPT !.put = tl, !.at = at]
      BY <1>19 DEF _put
    <3>2. tl \in Seq(-1..MaxCommits + 1)
      BY <2>1
    <3> HIDE DEF tl
    <3> QED BY <1>0, <3>1, <3>2 DEF Readers
  <2>3. ingress' \in Ingresses
    <3> DEFINE its == Append(ingress.items, Head(reader.put))
    <3>1. Head(reader.put) # CloseMark => its \in Seq(0..MaxCommits + 1)
      <4> SUFFICES ASSUME Head(reader.put) # CloseMark PROVE its \in Seq(0..MaxCommits + 1)
        OBVIOUS
      <4>1. Head(reader.put) \in 0..MaxCommits + 1
        BY <1>0, <2>1 DEF CloseMark
      <4> QED BY <1>0, <4>1, Longer DEF Ingresses
    <3>2. \/ ingress' = [ingress EXCEPT !.closed = TRUE]
          \/ ingress' = ingress
          \/ Head(reader.put) # CloseMark /\ ingress' = [ingress EXCEPT !.items = its]
      BY <1>19 DEF _put
    <3> HIDE DEF its
    <3> QED BY <1>0, <1>i, <3>1, <3>2 DEF Ingresses
  <2> QED BY <1>0, <1>19, <2>2, <2>3 DEF _put, ServerTypes
<1>22. CASE PutTail
  <2> DEFINE u == client.utt - 1
             its == Append(ingress.items, u)
             c == [client.chunks EXCEPT ![u] = @ + 1]
  <2>1. u \in Utterances /\ u \in 0..MaxCommits + 1
    BY <1>0, <1>22 DEF PutTail, ReaderSound, Clients, Utterances
  <2>2. its \in Seq(0..MaxCommits + 1) /\ c \in [Utterances -> Nat]
    BY <1>0, <2>1, Longer DEF Ingresses, Clients
  <2>3. \/ UNCHANGED <<ingress, client>>
        \/ /\ ingress' = [ingress EXCEPT !.items = its]
           /\ client' = [client EXCEPT !.chunks = c]
    BY <1>22 DEF PutTail
  <2> HIDE DEF its, c, u
  <2>4. ingress' \in Ingresses /\ client' \in Clients
    BY <1>0, <2>2, <2>3 DEF Ingresses, Clients
  <2> QED BY <1>0, <1>22, <1>p, <2>4 DEF PutTail, ServerTypes
<1>20. CASE PeerLeaves
  BY <1>0, <1>20 DEF PeerLeaves, ServerTypes
<1>21. CASE abort_sessions
  <2>1. ingress' \in Ingresses /\ session' \in Sessions
    BY <1>0, <1>21, AbortTypes DEF abort_sessions
  <2> QED BY <1>0, <1>21, <2>1 DEF abort_sessions, ServerTypes
<1> QED
  BY <1>1, <1>2, <1>3, <1>4, <1>5, <1>6, <1>7, <1>8, <1>9, <1>10, <1>11, <1>12, <1>13,
     <1>14, <1>15, <1>16, <1>17, <1>18, <1>19, <1>20, <1>21, <1>22
     DEF ServerNext, Handler, Adapter, Reader, Client

-----------------------------------------------------------------------------
\* Until its first frame a connection has nothing to do but to take it, to
\* refuse it, or to end.
LEMMA FreshNext ==
  ASSUME ServerTypes, FreshSound, ServerNext
  PROVE  FreshSound'
<1>1. CASE dialect = "none"
  <2>1. ASSUME NEW d \in {"ie115", "internal"}, handle(d) PROVE FreshSound'
    <3>1. utt'.n = 1 /\ handler' = "running" /\ dialect' = d
      BY <1>1, <2>1 DEF handle, StartUtterance, FreshSound
    <3>2. d # "ie115" => enc' = enc
      BY <2>1 DEF handle, StartUtterance
    <3> QED BY <1>1, <3>1, <3>2 DEF FreshSound
  <2>2. CASE _refuse \/ PeerLeaves \/ abort_sessions
    BY <1>1, <2>2 DEF _refuse, PeerLeaves, abort_sessions, FreshSound
  <2>3. ~Handler /\ ~Adapter
    BY <1>1 DEF FreshSound, Handler, Adapter, _run_utterance, drain, NextUtterance,
         EndInternal, _close, EmitSends, AdapterReads, AdapterEmits, AdapterFinishes,
         AdapterRejects, AdapterReturns, AdapterFree
  <2>4. ~Reader /\ (Client => PeerLeaves)
    <3>1. reader.at = "none" /\ reader.out = <<>>
      BY <1>1 DEF FreshSound
    <3>2. ~Reader
      BY <3>1 DEF Reader, ReadEnd, ReaderSends, PutTail, _put
    <3>3. ~Reading
      BY <3>1 DEF Reading
    <3> QED BY <3>2, <3>3 DEF Client, ReadAudio, ReadCommit, ReadBad, ReadFinish
  <2> QED BY <2>1, <2>2, <2>3, <2>4 DEF ServerNext
<1>2. CASE dialect # "none"
  <2>1. handler # "opening" /\ utt.n \in Nat /\ utt.n >= 1
          /\ (dialect # "ie115" =>
                enc = [queued |-> <<>>, current |-> None, uncommitted |-> None, minted |-> 0])
    BY <1>2, ServerAssumption DEF FreshSound, ServerTypes, Utts
  <2> SUFFICES /\ dialect' = dialect /\ handler' # "opening" /\ utt'.n >= 1
               /\ dialect # "ie115" => enc' = enc
    BY <1>2, <2>1 DEF FreshSound
  <2>2. CASE Handler
    <3>1. CASE _run_utterance \/ EndInternal \/ _close \/ EmitSends
      BY <2>1, <3>1 DEF _run_utterance, EndInternal, _end_connection, _close, EmitSends,
           ServerTypes, Utts
    <3>2. CASE drain
      BY <2>1, <3>2 DEF drain, get, ServerTypes, Utts
    <3>3. CASE NextUtterance
      <4>1. CASE MakeUp
        BY <2>1, <3>3, <4>1 DEF NextUtterance, MakeUp, ServerTypes, Utts
      <4>2. CASE ~MakeUp
        BY <2>1, <3>3, <4>2 DEF NextUtterance, _end_connection, StartUtterance
      <4> QED BY <4>1, <4>2
    <3> QED BY <2>2, <3>1, <3>2, <3>3 DEF Handler
  <2>3. CASE Adapter
    <3>1. CASE AdapterReads
      BY <2>1, <3>1 DEF AdapterReads, get, ServerTypes, Utts
    <3>2. CASE AdapterEmits \/ AdapterFinishes
      BY <2>1, <3>2 DEF AdapterEmits, AdapterFinishes, Emit, ServerTypes, Utts
    <3>3. CASE AdapterRejects \/ AdapterReturns
      BY <2>1, <3>3 DEF AdapterRejects, AdapterReturns, ServerTypes, Utts
    <3> QED BY <2>3, <3>1, <3>2, <3>3 DEF Adapter
  <2>4. CASE Reader
    BY <2>1, <2>4 DEF Reader, ReadEnd, ReaderSends, PutTail, _put
  <2>5. CASE Client
    BY <2>1, <2>5 DEF Client, ReadAudio, ReadCommit, ReadBad, ReadFinish, PeerLeaves
  <2>6. CASE abort_sessions
    BY <2>1, <2>6 DEF abort_sessions
  <2> QED BY <2>1, <2>2, <2>3, <2>4, <2>5, <2>6 DEF ServerNext, handle, _refuse
<1> QED BY <1>1, <1>2

\* The steps after which the ingress is closed or given up take the reader with
\* them, and a reader that waits holds one thing.
LEMMA ReaderNext ==
  ASSUME ServerTypes, FreshSound, ReaderSound, ServerNext
  PROVE  ReaderSound'
<1>0. /\ ingress \in Ingresses /\ reader \in Readers /\ utt \in Utts /\ client \in Clients
      /\ handler = "opening" => reader.at = "none" /\ ~ingress.aborted /\ ~utt.closed
      /\ link \in {"open", "gone", "stopped"}
  BY DEF ServerTypes, FreshSound
<1>s. ASSUME UNCHANGED <<reader, client, link>>,
             ingress'.aborted = ingress.aborted, ingress'.closed = ingress.closed,
             utt'.closed => utt'.ended /\ ingress.closed,
             session' = "cancelled" => ingress.aborted
      PROVE  ReaderSound'
  BY <1>s DEF ReaderSound, Connected
<1>u. utt.closed => utt.ended /\ ingress.closed
  BY DEF ReaderSound
<1>c. session = "cancelled" => ingress.aborted
  BY DEF ReaderSound
<1>g. ASSUME NEW adapter \in BOOLEAN, get(adapter)
      PROVE  /\ ingress'.aborted = ingress.aborted /\ ingress'.closed = ingress.closed
             /\ utt'.closed => utt'.ended /\ ingress.closed
  <2>1. CASE ingress.items = <<>>
    BY <1>0, <1>g, <2>1 DEF get, Ingresses, Utts
  <2>2. CASE ingress.items # <<>>
    BY <1>0, <1>g, <1>u, <2>2 DEF get, Ingresses, Utts
  <2> QED BY <2>1, <2>2
<1>1. ASSUME NEW d \in {"ie115", "internal"}, handle(d) PROVE ReaderSound'
  BY <1>0, <1>1 DEF handle, StartUtterance, ReaderSound, FreshSound
<1>2. CASE _refuse \/ _close
  BY <1>2, <1>s, <1>u, <1>c DEF _refuse, _close
<1>a. abort => /\ ingress'.aborted /\ ingress'.closed = ingress.closed
               /\ session' = "cancelled" \/ session' = session
  BY <1>0 DEF abort, Ingresses
<1>e. CASE _end_connection /\ UNCHANGED <<utt, link, client>>
  BY <1>0, <1>e, <1>a, <1>u DEF _end_connection, ReaderSound
<1>3. CASE _run_utterance
  <2>1. utt'.closed = utt.closed /\ utt'.ended = utt.ended
    BY <1>0, <1>3 DEF _run_utterance, Utts
  <2>2. ingress'.aborted = ingress.aborted /\ ingress'.closed = ingress.closed
          /\ (session' = "cancelled" => ingress.aborted)
    BY <1>3, <1>a, <1>c DEF _run_utterance
  <2> QED BY <1>3, <1>s, <1>u, <2>1, <2>2 DEF _run_utterance
<1>4. CASE drain \/ AdapterReads
  BY <1>4, <1>g, <1>s, <1>c DEF drain, AdapterReads
<1>5. CASE NextUtterance
  <2>0. UNCHANGED <<link, client>>
    BY <1>5 DEF NextUtterance
  <2>1. CASE StartUtterance(dialect) /\ UNCHANGED <<ingress, reader>>
    BY <1>s, <2>0, <2>1 DEF StartUtterance
  <2>2. CASE MakeUp
    <3>1. utt'.closed = utt.closed /\ utt'.ended = utt.ended
      BY <1>0, <2>2 DEF MakeUp, Utts
    <3> QED BY <1>s, <1>u, <1>c, <2>0, <2>2, <3>1 DEF MakeUp
  <2> QED BY <1>5, <1>e, <2>0, <2>1, <2>2 DEF NextUtterance
<1>6. CASE EndInternal
  BY <1>6, <1>e DEF EndInternal
<1>7. CASE EmitSends \/ AdapterEmits \/ AdapterFinishes \/ AdapterRejects \/ AdapterReturns
  <2>1. utt'.closed = utt.closed /\ utt'.ended = utt.ended
    BY <1>0, <1>7 DEF EmitSends, AdapterEmits, AdapterFinishes, Emit, AdapterRejects,
         AdapterReturns, Utts
  <2> QED BY <1>7, <1>s, <1>u, <1>c, <2>1 DEF EmitSends, AdapterEmits, AdapterFinishes,
        AdapterRejects, AdapterReturns
<1>8. ASSUME NEW n \in 1..MaxChunks, ReadAudio(n) PROVE ReaderSound'
  <2>1. reader' = [reader EXCEPT !.at = "put", !.put = [i \in 1..n |-> client.utt]]
          /\ client'.utt = client.utt
    BY <1>0, <1>8 DEF ReadAudio, Clients
  <2>2. [i \in 1..n |-> client.utt] # <<>>
    BY ServerAssumption
  <2>3. reader'.at = "put" /\ reader'.put = [i \in 1..n |-> client.utt]
    BY <1>0, <2>1 DEF Readers
  <2>4. ~ingress.closed /\ ~ingress.aborted
    BY <1>8 DEF ReadAudio, Reading, ReaderSound
  <2> QED BY <1>8, <1>u, <1>c, <2>1, <2>2, <2>3, <2>4 DEF ReadAudio, ReaderSound, Connected
<1>9. CASE ReadCommit
  <2>1. ~ingress.closed /\ ~ingress.aborted
    BY <1>9 DEF ReadCommit, Reading, ReaderSound
  <2>2. client'.utt > 1
    BY <1>0, <1>9, ServerAssumption DEF ReadCommit, Clients, Utterances
  <2>3. reader'.put = <<Boundary>> /\ reader'.at \in {"put", "flush"} /\ <<Boundary>> # <<>>
    BY <1>9 DEF ReadCommit
  <2>4. UNCHANGED <<ingress, utt, session, link>>
    BY <1>9 DEF ReadCommit
  <2> QED BY <1>u, <1>c, <2>1, <2>2, <2>3, <2>4 DEF ReaderSound, Connected
<1>10. CASE ReadBad
  <2>1. ~ingress.closed /\ ~ingress.aborted /\ reader.put = <<>>
    BY <1>10 DEF ReadBad, Reading, ReaderSound
  <2>2. CASE dialect = "ie115"
    <3>1. reader'.at = "put" /\ reader'.put = <<CloseMark>>
      BY <1>0, <1>10, <2>2 DEF ReadBad, Readers
    <3>2. <<CloseMark>> # <<>>
      OBVIOUS
    <3>3. UNCHANGED <<ingress, utt, session, link>>
      BY <1>10, <2>2 DEF ReadBad
    <3> QED BY <1>u, <1>c, <2>1, <3>1, <3>2, <3>3 DEF ReaderSound, Connected
  <2>3. CASE dialect # "ie115"
    BY <1>0, <1>10, <1>u, <1>c, <2>1, <2>3 DEF ReadBad, ReaderSound, Connected, Readers, Ingresses
  <2> QED BY <2>2, <2>3
<1>11. CASE ReadFinish
  BY <1>0, <1>11, <1>u, <1>c DEF ReadFinish, Reading, ReaderSound, Connected, Readers, Ingresses
<1>12. CASE ReadEnd
  BY <1>0, <1>12, <1>u, <1>c DEF ReadEnd, ReaderSound, Connected, Readers
<1>13. CASE ReaderSends
  BY <1>0, <1>13, <1>u, <1>c DEF ReaderSends, ReaderSound, Connected, Readers
<1>14. CASE _put
  <2>1. reader.put # <<>> /\ Head(reader.put) = reader.put[1] /\ Len(reader.put) \in Nat \ {0}
          /\ Len(Tail(reader.put)) = Len(reader.put) - 1
          /\ \A i \in 1..Len(reader.put) - 1 : Tail(reader.put)[i] = reader.put[i + 1]
          /\ Tail(reader.put) \in Seq(-1..MaxCommits + 1)
    BY <1>0, <1>14, Shorter DEF _put, Readers, ReaderSound
  <2> DEFINE tl == Tail(reader.put)
  <2>2. /\ reader'.put = tl /\ client' = client /\ link' = link /\ utt' = utt /\ session' = session
        /\ reader'.at = IF Head(reader.put) = CloseMark THEN "done"
                        ELSE IF Len(reader.put) = 1 THEN "read" ELSE "put"
        /\ ingress'.aborted = ingress.aborted
        /\ ingress'.closed = (ingress.closed \/ Head(reader.put) = CloseMark)
    <3>1. UNCHANGED <<client, link, utt, session>>
      BY <1>14 DEF _put
    <3>2. /\ reader'.put = tl
          /\ reader'.at = IF Head(reader.put) = CloseMark THEN "done"
                          ELSE IF Len(reader.put) = 1 THEN "read" ELSE "put"
      BY <1>0, <1>14 DEF _put, Readers
    <3>3. CASE Head(reader.put) = CloseMark
      BY <1>0, <1>14, <3>1, <3>2, <3>3 DEF _put, Ingresses
    <3>4. CASE Head(reader.put) # CloseMark
      BY <1>0, <1>14, <3>1, <3>2, <3>4 DEF _put, Ingresses
    <3> QED BY <3>3, <3>4
  <2>3. tl = <<>> <=> Len(reader.put) = 1
    BY <1>0, <2>1, Shorter DEF Readers
  <2>4. Len(reader.put) # 1 => \A i \in DOMAIN reader.put : reader.put[i] = client.utt
    <3>1. Len(<<Boundary>>) = 1 /\ Len(<<CloseMark>>) = 1
      OBVIOUS
    <3> QED BY <2>1, <3>1 DEF ReaderSound
  <2>5. tl # <<>> => \A i \in DOMAIN tl : tl[i] = client.utt
    BY <1>0, <2>1, <2>3, <2>4 DEF Readers
  <2>6. Head(reader.put) = CloseMark => tl = <<>>
    BY <1>0, <2>1, <2>3, <2>4 DEF CloseMark, Clients, Utterances, Readers
  <2>7. ~ingress.closed
    BY <1>14 DEF _put, ReaderSound
  <2> HIDE DEF tl
  <2>8. reader.at = "put" /\ (ingress.aborted => ~Connected)
    BY <1>14 DEF _put, ReaderSound
  <2>9. (reader'.at \in {"put", "flush"} <=> tl # <<>>) /\ reader'.at # "flush"
    BY <2>2, <2>3, <2>6
  <2>10. ingress'.closed => reader'.at = "done"
    BY <2>2, <2>7
  <2>11. ingress'.aborted => ~Connected'
    BY <2>2, <2>8 DEF Connected
  <2> QED BY <1>u, <1>c, <2>2, <2>5, <2>9, <2>10, <2>11 DEF ReaderSound
<1>17. CASE PutTail
  <2>1. /\ reader.at = "flush" /\ reader.put = <<Boundary>> /\ reader.put # <<>>
        /\ ~ingress.closed /\ (ingress.aborted => ~Connected)
    BY <1>17 DEF PutTail, ReaderSound
  <2>2. reader'.at = "put" /\ reader'.put = reader.put
    BY <1>0, <1>17 DEF PutTail, Readers
  <2>3. /\ ingress'.aborted = ingress.aborted /\ ingress'.closed = ingress.closed
        /\ UNCHANGED <<link, utt, session>>
    BY <1>0, <1>17 DEF PutTail, Ingresses
  <2> QED BY <1>u, <1>c, <2>1, <2>2, <2>3 DEF ReaderSound, Connected
<1>15. CASE PeerLeaves
  BY <1>0, <1>15, <1>u, <1>c DEF PeerLeaves, ReaderSound, Connected
<1>16. CASE abort_sessions
  BY <1>0, <1>16, <1>u, <1>c, <1>a DEF abort_sessions, ReaderSound, Connected
<1> QED
  BY <1>1, <1>2, <1>3, <1>4, <1>5, <1>6, <1>7, <1>8, <1>9, <1>10, <1>11, <1>12, <1>13,
     <1>14, <1>15, <1>16, <1>17
     DEF ServerNext, Handler, Adapter, Reader, Client

\* Only the loop of the handler makes up for an adapter, behind an utterance that
\* is over; nothing but its next step changes the utterance then.
LEMMA AnswerNext ==
  ASSUME ServerTypes, FreshSound, AnswerSound, ServerNext
  PROVE  AnswerSound'
<1>0. /\ utt \in Utts /\ (handler = "opening" => dialect = "none")
  BY DEF ServerTypes, FreshSound
<1> SUFFICES ASSUME handler' = "answering" PROVE utt'.ended /\ ~utt'.closed
  BY DEF AnswerSound
<1>1. CASE NextUtterance
  <2>1. CASE _end_connection \/ StartUtterance(dialect)
    BY <2>1 DEF _end_connection, StartUtterance
  <2>2. CASE utt.ended /\ ~utt.closed /\ MakeUp
    BY <1>0, <2>2 DEF MakeUp, Utts
  <2> QED BY <1>1, <2>1, <2>2, NextParts
<1>2. CASE EmitSends \/ ReadEnd \/ ReaderSends \/ PutTail \/ _put \/ Client \/ abort_sessions
  BY <1>0, <1>2 DEF AnswerSound, EmitSends, ReadEnd, ReaderSends, PutTail, _put, Client,
       ReadAudio, ReadCommit, ReadBad, ReadFinish, PeerLeaves, abort_sessions, Utts
<1>3. CASE Adapter
  BY <1>3 DEF Adapter, AdapterReads, AdapterEmits, AdapterFinishes, AdapterRejects,
       AdapterReturns, AdapterFree
<1>4. ~_refuse /\ ~_run_utterance /\ ~drain /\ ~EndInternal /\ ~_close
        /\ \A d : ~handle(d)
  BY DEF _refuse, _run_utterance, drain, EndInternal, _end_connection, _close, handle,
       StartUtterance
<1> QED BY <1>1, <1>2, <1>3, <1>4 DEF ServerNext, Handler, Reader

-----------------------------------------------------------------------------
\* The room of the ingress counts its audio.
LEMMA BytesNat ==
  ASSUME NEW S, NEW s \in Seq(S)
  PROVE  /\ IsFiniteSet({i \in DOMAIN s : s[i] # Boundary}) /\ Bytes(s) \in Nat
<1>1. DOMAIN s = 1..Len(s) /\ Len(s) \in Nat
  OBVIOUS
<1>2. IsFiniteSet(1..Len(s))
  BY <1>1, FS_Interval
<1>3. {i \in DOMAIN s : s[i] # Boundary} \in SUBSET (1..Len(s))
  BY <1>1
<1> QED BY <1>2, <1>3, FS_Subset, FS_CardinalityType DEF Bytes

\* Taking the first item adds no audio.
LEMMA BytesShorter ==
  ASSUME NEW S, NEW s \in Seq(S), s # <<>>
  PROVE  Bytes(Tail(s)) <= Bytes(s)
<1> DEFINE A == {i \in DOMAIN Tail(s) : Tail(s)[i] # Boundary}
           B == {i \in DOMAIN s : s[i] # Boundary}
           f == [i \in A |-> i + 1]
<1>1. Tail(s) \in Seq(S) /\ DOMAIN Tail(s) = 1..Len(s) - 1 /\ DOMAIN s = 1..Len(s)
        /\ Len(s) \in Nat /\ \A i \in 1..Len(s) - 1 : Tail(s)[i] = s[i + 1]
  BY Shorter
<1>2. \A i \in A : i \in Nat /\ i + 1 \in B
  BY <1>1
<1>3. f \in Injection(A, B)
  BY <1>2 DEF Injection, IsInjective
<1>4. IsFiniteSet(B)
  BY BytesNat
<1>5. Cardinality(A) <= Cardinality(B)
  BY <1>3, <1>4, FS_Injection
<1> QED BY <1>5 DEF Bytes

\* Adding a chunk adds one, adding a boundary none.
LEMMA BytesLonger ==
  ASSUME NEW S, NEW s \in Seq(S), NEW x \in S
  PROVE  Bytes(Append(s, x)) = IF x = Boundary THEN Bytes(s) ELSE Bytes(s) + 1
<1> DEFINE A == {i \in DOMAIN s : s[i] # Boundary}
           B == {i \in DOMAIN Append(s, x) : Append(s, x)[i] # Boundary}
           n == Len(s) + 1
<1>1. /\ DOMAIN s = 1..Len(s) /\ Len(s) \in Nat /\ DOMAIN Append(s, x) = 1..n
      /\ \A i \in 1..Len(s) : Append(s, x)[i] = s[i]
      /\ Append(s, x)[n] = x
  BY Longer
<1>2. B = IF x = Boundary THEN A ELSE A \cup {n}
  BY <1>1
<1>3. IsFiniteSet(A) /\ n \notin A
  BY <1>1, BytesNat
<1>4. Cardinality(A \cup {n}) = Cardinality(A) + 1
  BY <1>3, FS_AddElement
<1> QED BY <1>2, <1>4 DEF Bytes

\* What a step does to the ingress: nothing, or it empties it, takes its first
\* item, or puts one for which there was room.
LEMMA IngressNext ==
  ASSUME ServerTypes, FreshSound, ReaderSound, ServerNext
  PROVE  \/ ingress'.items = ingress.items
         \/ ingress'.items = <<>>
         \/ ingress.items # <<>> /\ ingress'.items = Tail(ingress.items)
         \/ \E x \in 0..MaxCommits + 1 :
              _has_room(x) /\ ingress'.items = Append(ingress.items, x)
<1>0. ingress \in Ingresses /\ reader \in Readers
  BY DEF ServerTypes
<1>1. CASE UNCHANGED ingress
  BY <1>1
<1>2. CASE abort
  BY <1>0, <1>2 DEF abort, Ingresses
<1>3. ASSUME NEW adapter \in BOOLEAN, get(adapter)
      PROVE  \/ ingress'.items = ingress.items
             \/ ingress.items # <<>> /\ ingress'.items = Tail(ingress.items)
  BY <1>0, <1>3 DEF get, Ingresses
<1>4. CASE ReadBad \/ ReadFinish \/ ReadEnd
  BY <1>0, <1>4 DEF ReadBad, ReadFinish, ReadEnd, Ingresses
<1>5. CASE _put
  <2>1. Head(reader.put) \in -1..MaxCommits + 1
    BY <1>0, <1>5, Shorter DEF _put, Readers, ReaderSound
  <2>2. CASE Head(reader.put) = CloseMark \/ ingress.aborted
    BY <1>0, <1>5, <2>2 DEF _put, Ingresses
  <2>3. CASE Head(reader.put) # CloseMark /\ ~ingress.aborted
    <3>1. _has_room(Head(reader.put))
            /\ ingress' = [ingress EXCEPT !.items = Append(@, Head(reader.put))]
      BY <1>5, <2>3 DEF _put
    <3>2. Head(reader.put) \in 0..MaxCommits + 1
      BY <2>1, <2>3 DEF CloseMark
    <3> QED BY <1>0, <3>1, <3>2 DEF Ingresses
  <2> QED BY <2>2, <2>3
<1>6. CASE PutTail
  <2> DEFINE u == client.utt - 1
  <2>1. u \in 0..MaxCommits + 1
    BY <1>6, ServerAssumption DEF PutTail, ReaderSound, ServerTypes, Clients, Utterances
  <2>2. CASE ingress.aborted
    BY <1>6, <2>2 DEF PutTail
  <2>3. CASE ~ingress.aborted
    BY <1>0, <1>6, <2>1, <2>3 DEF PutTail, Ingresses
  <2> QED BY <2>2, <2>3
<1> QED
  BY <1>1, <1>2, <1>3, <1>4, <1>5, <1>6
     DEF ServerNext, Handler, Adapter, Reader, Client, handle, _refuse, _run_utterance,
         drain, NextUtterance, MakeUp, EndInternal, _end_connection, _close, EmitSends,
         AdapterReads, AdapterEmits, AdapterFinishes, AdapterRejects, AdapterReturns,
         ReadAudio, ReadCommit, ReaderSends, PeerLeaves, abort_sessions

\* So the ingress keeps within its capacity, and takes a boundary only when it
\* holds none.
LEMMA RoomNext ==
  ASSUME ServerTypes, FreshSound, ReaderSound, RoomSound, ServerNext
  PROVE  RoomSound'
<1> DEFINE its == ingress.items
           One(s) == \A i, j \in DOMAIN s : s[i] = Boundary /\ s[j] = Boundary => i = j
<1>0. its \in Seq(0..MaxCommits + 1) /\ Capacity \in Nat /\ Bytes(its) \in Nat
        /\ Bytes(its) <= Capacity /\ One(its)
  BY ServerAssumption, BytesNat DEF ServerTypes, Ingresses, RoomSound
<1>s. SUFFICES Bytes(ingress'.items) <= Capacity /\ One(ingress'.items)
  BY DEF RoomSound
<1> HIDE DEF its
<1>1. CASE ingress'.items = its
  BY <1>0, <1>1
<1>2. CASE ingress'.items = <<>>
  <2>1. {i \in DOMAIN ingress'.items : ingress'.items[i] # Boundary} = {}
          /\ DOMAIN ingress'.items = {}
    BY <1>2
  <2>2. Bytes(ingress'.items) = 0
    BY <2>1, FS_EmptySet DEF Bytes
  <2> QED BY <1>0, <2>1, <2>2
<1>3. CASE its # <<>> /\ ingress'.items = Tail(its)
  <2> DEFINE t == Tail(its)
             n == Len(its)
  <2>1. Bytes(t) <= Bytes(its) /\ Bytes(t) \in Nat
    BY <1>0, <1>3, BytesShorter, BytesNat, Shorter
  <2>2. /\ DOMAIN t = 1..n - 1 /\ DOMAIN its = 1..n /\ n \in Nat
        /\ \A i \in 1..n - 1 : t[i] = its[i + 1]
    BY <1>0, <1>3, Shorter
  <2> HIDE DEF t, n
  <2>3. One(t)
    <3> SUFFICES ASSUME NEW i \in 1..n - 1, NEW j \in 1..n - 1,
                        t[i] = Boundary, t[j] = Boundary
                 PROVE  i = j
      BY <2>2
    <3>1. i + 1 \in DOMAIN its /\ j + 1 \in DOMAIN its
      BY <2>2
    <3>2. i + 1 = j + 1
      BY <1>0, <2>2, <3>1
    <3> QED BY <2>2, <3>2
  <2> QED BY <1>0, <1>3, <2>1, <2>3 DEF t
<1>4. ASSUME NEW x \in 0..MaxCommits + 1, _has_room(x), ingress'.items = Append(its, x)
      PROVE  Bytes(ingress'.items) <= Capacity /\ One(ingress'.items)
  <2>1. Bytes(Append(its, x)) = IF x = Boundary THEN Bytes(its) ELSE Bytes(its) + 1
    BY <1>0, BytesLonger
  <2>2. x # Boundary => Bytes(its) < Capacity
    BY <1>4 DEF _has_room, its
  <2>3. x = Boundary => \A i \in DOMAIN its : its[i] # Boundary
    BY <1>4 DEF _has_room, BoundaryPending, its
  <2>4. /\ DOMAIN its = 1..Len(its) /\ DOMAIN Append(its, x) = 1..Len(its) + 1
        /\ \A i \in 1..Len(its) : Append(its, x)[i] = its[i]
        /\ Append(its, x)[Len(its) + 1] = x /\ Len(its) \in Nat
    BY <1>0, Longer
  <2>5. One(Append(its, x))
    <3> DEFINE u == Append(its, x)
    <3> HIDE DEF u
    <3>1. \A i \in DOMAIN u : i \in DOMAIN its \/ i = Len(its) + 1
      BY <2>4 DEF u
    <3>2. u[Len(its) + 1] = x /\ \A i \in DOMAIN its : u[i] = its[i]
      BY <2>4 DEF u
    <3> QED BY <1>0, <2>3, <3>1, <3>2 DEF u
  <2> QED BY <1>0, <1>4, <2>1, <2>2, <2>5
<1> QED BY <1>1, <1>2, <1>3, <1>4, IngressNext DEF its

-----------------------------------------------------------------------------
\* The shape of the stream, in numbers: taking its first item.
Taken(items, s, l, w, c, r) ==
  /\ Head(items) = Boundary =>
       /\ l = s + 1 /\ r = 0
       /\ RestOf(Len(Tail(items)), l, l, w, c) = c
       /\ Shape(Tail(items), l, l, c)
  /\ Head(items) # Boundary =>
       /\ Head(items) = s /\ r >= 1
       /\ RestOf(Len(Tail(items)), s, l, w, c) = r - 1
       /\ Shape(Tail(items), s, l, r - 1)

\* Taking the first item of a stream of that shape leaves one of that shape:
\* a chunk of the utterance being served, or its boundary, after which the
\* latest utterance is the one being served.
LEMMA ShapeTaken ==
  ASSUME NEW items, NEW s, NEW l, NEW w, NEW c, NEW r,
         items \in Seq(Nat), items # <<>>, s \in Nat \ {0}, l \in {s, s + 1},
         w \in Nat, c \in Nat, r \in Nat, r = RestOf(Len(items), s, l, w, c),
         w <= c, Shape(items, s, l, r)
  PROVE  Taken(items, s, l, w, c, r)
<1> DEFINE t == Tail(items)
           h == Head(items)
           n == Len(items)
<1>1. /\ t \in Seq(Nat) /\ h = items[1] /\ n \in Nat \ {0} /\ Len(t) = n - 1
      /\ \A i \in 1..n - 1 : t[i] = items[i + 1]
  BY Shorter
<1>2. \A i \in 1..n :
        items[i] = IF l = s \/ i <= r THEN s ELSE IF i = r + 1 THEN Boundary ELSE l
  BY DEF Shape
<1>3. r = IF l = s THEN n + w ELSE n - 1 - (c - w)
  BY DEF RestOf
<1> HIDE DEF t, h, n
<1>4. h = IF l = s \/ 1 <= r THEN s ELSE Boundary
  BY <1>1, <1>2
<1>5. CASE h = Boundary
  <2>1. l = s + 1 /\ r = 0
    BY <1>4, <1>5 DEF Boundary
  <2>2. n - 1 + w = c
    BY <1>1, <1>3, <2>1
  <2>3. RestOf(Len(t), l, l, w, c) = c
    BY <1>1, <2>2 DEF RestOf
  <2>4. \A i \in 1..n - 1 : t[i] = l
    BY <1>1, <1>2, <2>1
  <2> QED BY <1>1, <1>5, <2>1, <2>3, <2>4 DEF Taken, Shape, t, h
<1>6. CASE h # Boundary
  <2>1. h = s /\ (l = s \/ 1 <= r)
    BY <1>4, <1>6
  <2>2. r >= 1
    BY <1>1, <1>3, <2>1
  <2>3. RestOf(Len(t), s, l, w, c) = r - 1
    <3>1. RestOf(Len(t), s, l, w, c) = IF l = s THEN (n - 1) + w ELSE (n - 1) - 1 - (c - w)
      BY <1>1 DEF RestOf
    <3>2. l \in Nat
      OBVIOUS
    <3>3. CASE l = s
      BY <1>1, <1>3, <3>1, <3>3
    <3>4. CASE l # s
      BY <1>1, <1>3, <3>1, <3>4
    <3> QED BY <3>3, <3>4
  <2>4. \A i \in 1..n - 1 :
          t[i] = IF l = s \/ i <= r - 1 THEN s ELSE IF i = r - 1 + 1 THEN Boundary ELSE l
    <3> TAKE i \in 1..n - 1
    <3>1. i + 1 \in 1..n /\ t[i] = items[i + 1] /\ i \in Nat
      BY <1>1
    <3>2. items[i + 1] = IF l = s \/ i + 1 <= r THEN s ELSE IF i + 1 = r + 1 THEN Boundary ELSE l
      BY <1>2, <3>1
    <3> QED BY <3>1, <3>2
  <2> QED BY <1>1, <1>6, <2>1, <2>2, <2>3, <2>4 DEF Taken, Shape, t, h
<1> QED BY <1>5, <1>6

\* Putting a chunk of the latest utterance behind it.
PutOne(items, s, l, w, c, r) ==
  /\ RestOf(Len(Append(items, l)), s, l, w - 1, c) = r
  /\ Shape(Append(items, l), s, l, r)

\* A chunk of the latest utterance put at the end keeps the shape of the stream.
LEMMA ShapeAudio ==
  ASSUME NEW items, NEW s, NEW l, NEW w, NEW c, NEW r,
         items \in Seq(Nat), s \in Nat \ {0}, l \in {s, s + 1},
         w \in Nat \ {0}, c \in Nat, r \in Nat, r = RestOf(Len(items), s, l, w, c),
         w <= c, Shape(items, s, l, r)
  PROVE  PutOne(items, s, l, w, c, r)
<1> DEFINE a == Append(items, l)
           n == Len(items)
<1>1. /\ n \in Nat /\ Len(a) = n + 1 /\ a[n + 1] = l
      /\ \A i \in 1..n : a[i] = items[i]
  BY Longer
<1>2. \A i \in 1..n :
        items[i] = IF l = s \/ i <= r THEN s ELSE IF i = r + 1 THEN Boundary ELSE l
  BY DEF Shape
<1>3. r = IF l = s THEN n + w ELSE n - 1 - (c - w)
  BY DEF RestOf
<1> HIDE DEF a, n
<1>4. RestOf(Len(a), s, l, w - 1, c) = r
  <2>1. RestOf(Len(a), s, l, w - 1, c) =
          IF l = s THEN (n + 1) + (w - 1) ELSE (n + 1) - 1 - (c - (w - 1))
    BY <1>1 DEF RestOf
  <2>2. CASE l = s
    BY <1>1, <1>3, <2>1, <2>2
  <2>3. CASE l # s
    BY <1>1, <1>3, <2>1, <2>3
  <2> QED BY <2>2, <2>3
<1>5. \A i \in 1..n + 1 :
        a[i] = IF l = s \/ i <= r THEN s ELSE IF i = r + 1 THEN Boundary ELSE l
  <2>1. l # s => r <= n - 1
    BY <1>1, <1>3
  <2> TAKE i \in 1..n + 1
  <2>2. CASE i = n + 1
    BY <1>1, <2>1, <2>2
  <2>3. CASE i # n + 1
    <3>1. i \in 1..n
      BY <1>1, <2>3
    <3> QED BY <1>1, <1>2, <3>1
  <2> QED BY <2>2, <2>3
<1> QED BY <1>1, <1>4, <1>5 DEF PutOne, Shape, a

\* Putting a boundary, for which there is room only if there is none.
LEMMA ShapeBoundary ==
  ASSUME NEW items, NEW s, NEW l, NEW c, NEW r,
         items \in Seq(Nat), s \in Nat \ {0}, l \in {s, s + 1}, c \in Nat,
         r \in Nat, r = RestOf(Len(items), s, l, 0, c), Shape(items, s, l, r),
         ~BoundaryPending(items)
  PROVE  /\ l = s /\ RestOf(Len(Append(items, Boundary)), s, s + 1, 0, 0) = r
         /\ Shape(Append(items, Boundary), s, s + 1, r)
<1> DEFINE a == Append(items, Boundary)
           n == Len(items)
<1>1. /\ n \in Nat /\ Len(a) = n + 1 /\ a[n + 1] = Boundary
      /\ \A i \in 1..n : a[i] = items[i]
  BY Longer DEF Boundary
<1>2. \A i \in 1..n :
        items[i] = IF l = s \/ i <= r THEN s ELSE IF i = r + 1 THEN Boundary ELSE l
  BY DEF Shape
<1>3. r = IF l = s THEN n ELSE n - 1 - c
  BY <1>1 DEF RestOf
<1>4. \A i \in 1..n : items[i] # Boundary
  BY DEF BoundaryPending
<1> HIDE DEF a, n
<1>5. l = s
  BY <1>1, <1>2, <1>3, <1>4
<1>6. RestOf(Len(a), s, s + 1, 0, 0) = r
  BY <1>1, <1>3, <1>5 DEF RestOf
<1>7. \A i \in 1..n + 1 :
        a[i] = IF s + 1 = s \/ i <= r THEN s ELSE IF i = r + 1 THEN Boundary ELSE s + 1
  <2>1. r = n /\ s + 1 # s
    BY <1>3, <1>5
  <2> TAKE i \in 1..n + 1
  <2>2. CASE i = n + 1
    <3>1. ~(i <= r) /\ i = r + 1
      BY <1>1, <2>1, <2>2
    <3> QED BY <1>1, <2>1, <2>2, <3>1
  <2>3. CASE i # n + 1
    <3>1. i \in 1..n /\ i <= r
      BY <1>1, <2>1, <2>3
    <3>2. items[i] = s
      BY <1>2, <1>5, <3>1
    <3> QED BY <1>1, <3>1, <3>2
  <2> QED BY <2>2, <2>3
<1> QED BY <1>1, <1>5, <1>6, <1>7 DEF Shape, a

-----------------------------------------------------------------------------
\* A step that leaves the stream alone keeps what is known of it.
SameUtterance ==
  /\ UNCHANGED dialect
  /\ utt'.n = utt.n /\ utt'.ended = utt.ended /\ utt'.closed = utt.closed
  /\ utt'.heard = utt.heard /\ utt'.drained = utt.drained

SameClient == client'.utt = client.utt /\ client'.chunks = client.chunks

\* A step that leaves the ingress, the pending put and the utterance alone keeps
\* the order of the stream.
LEMMA StreamStays ==
  ASSUME OrderSound, StreamSound, SameUtterance, SameClient,
         CommitWaits' <=> CommitWaits, Waiting' = Waiting,
         ingress'.items = ingress.items, ingress'.aborted = ingress.aborted
  PROVE  OrderSound' /\ StreamSound'
<1>1. Serving' = Serving /\ Latest' = Latest
  BY DEF SameUtterance, SameClient, Serving, Latest
<1>2. Rest' = Rest
  BY <1>1 DEF SameClient, Rest
<1>3. OrderSound'
  BY <1>1 DEF SameUtterance, SameClient, OrderSound
<1>4. StreamSound'
  BY <1>1, <1>2 DEF SameUtterance, SameClient, StreamSound
<1> QED BY <1>3, <1>4

\* Once the ingress was given up, nobody takes anything from it any more.
LEMMA StreamGivenUp ==
  ASSUME OrderSound, SameUtterance, SameClient, CommitWaits' => CommitWaits, ingress'.aborted
  PROVE  OrderSound' /\ StreamSound'
<1>1. Serving' = Serving
  BY DEF SameUtterance, Serving
<1>2. OrderSound'
  BY <1>1 DEF SameUtterance, SameClient, OrderSound
<1> QED BY <1>2 DEF StreamSound

\* The next utterance starts where the one before it ended.
LEMMA StreamAdvances ==
  ASSUME utt \in Utts, client \in Clients, OrderSound, StreamSound,
         UNCHANGED <<dialect, client, ingress, reader>>, utt.ended, ~utt.closed,
         utt'.n = utt.n + 1, ~utt'.ended, ~utt'.closed, utt'.heard = <<>>, ~utt'.drained
  PROVE  OrderSound' /\ StreamSound'
<1>1. /\ Serving' = Serving /\ CommitWaits' = CommitWaits /\ Waiting' = Waiting
      /\ Latest' = Latest
  BY DEF Serving, CommitWaits, Waiting, Latest
<1>2. Rest' = Rest
  BY <1>1 DEF Rest
<1>3. OrderSound'
  BY <1>1 DEF OrderSound
<1>4. StreamSound'
  <2>1. Len(<<>>) = 0
    OBVIOUS
  <2>2. dialect # "none" => client.chunks[Serving] \in Nat
    BY ServerAssumption DEF OrderSound, Serving, Utts, Clients, Utterances
  <2>3. dialect # "none" /\ ~ingress.aborted => Rest = client.chunks[Serving]
    BY DEF StreamSound
  <2> QED BY <1>1, <1>2, <2>1, <2>2, <2>3 DEF StreamSound
<1> QED BY <1>3, <1>4

\* Numbers of the stream, for the arithmetic that follows.
LEMMA StreamNumbers ==
  ASSUME ServerTypes, FreshSound, ReaderSound, OrderSound, StreamSound,
         dialect # "none", ~ingress.aborted, ~utt.closed
  PROVE  /\ Serving \in Utterances /\ Latest \in Utterances /\ client.utt \in Utterances
         /\ Serving \in Nat \ {0} /\ Latest \in {Serving, Serving + 1}
         /\ client.utt \in Nat \ {0} /\ client.utt <= MaxCommits + 1
         /\ Waiting \in Nat /\ Rest \in Nat /\ ingress.items \in Seq(Nat)
         /\ client.chunks[Serving] \in Nat /\ client.chunks[Latest] \in Nat
         /\ client.chunks[client.utt] \in Nat
<1>0. /\ utt \in Utts /\ client \in Clients /\ reader \in Readers /\ ingress \in Ingresses
      /\ MaxCommits \in Nat /\ MaxChunks \in Nat /\ utt.n \in Nat \ {0}
  BY ServerAssumption DEF ServerTypes, FreshSound, Utts
<1>1. client.utt \in Utterances /\ Utterances \subseteq Nat \ {0}
        /\ \A u \in Utterances : client.chunks[u] \in Nat /\ u <= MaxCommits + 1
  BY <1>0 DEF Clients, Utterances
<1>2. Serving \in Nat \ {0} /\ Serving <= client.utt
  BY <1>0 DEF OrderSound, Serving
<1>3. Serving \in Utterances
  BY <1>0, <1>1, <1>2 DEF Utterances
<1>4. Latest \in Utterances /\ Latest \in {Serving, Serving + 1}
  BY <1>0, <1>1, <1>2 DEF Latest, Utterances, StreamSound
<1>5. ingress.items \in Seq(Nat) /\ Len(ingress.items) \in Nat
  <2>1. 0..MaxCommits + 1 \subseteq Nat
    BY <1>0
  <2> QED BY <1>0, <2>1 DEF Ingresses
<1>6. Waiting \in Nat
  BY <1>0 DEF Waiting, Readers
<1>7. Rest \in Int
  BY <1>1, <1>4, <1>5, <1>6 DEF Rest, RestOf
<1>8. 0 <= Rest
  BY <1>0 DEF StreamSound
<1>9. Rest \in Nat
  BY <1>7, <1>8
<1>10. /\ client.utt \in Nat \ {0} /\ client.utt <= MaxCommits + 1
       /\ client.chunks[Serving] \in Nat /\ client.chunks[Latest] \in Nat
       /\ client.chunks[client.utt] \in Nat
  BY <1>1, <1>3, <1>4
<1> QED BY <1>1, <1>2, <1>3, <1>4, <1>5, <1>6, <1>9, <1>10

\* Whoever takes the next item takes a chunk of the utterance being served, or
\* the boundary behind the last of them.
LEMMA StreamTaken ==
  ASSUME ServerTypes, FreshSound, ReaderSound, OrderSound, StreamSound,
         dialect # "none", NEW adapter \in BOOLEAN, get(adapter),
         UNCHANGED <<dialect, client, reader>>
  PROVE  OrderSound' /\ StreamSound'
<1>0. /\ utt \in Utts /\ ingress \in Ingresses /\ utt.n \in Nat \ {0}
      /\ ~utt.ended /\ ~utt.closed /\ ~ingress.aborted
  BY ServerAssumption DEF ServerTypes, FreshSound, Utts, get, ReaderSound
<1>1. CASE ingress.items = <<>>
  <2>1. utt' = [utt EXCEPT !.ended = TRUE, !.closed = TRUE]
    BY <1>1 DEF get
  <2>2. utt'.ended /\ utt'.closed /\ utt'.n = utt.n /\ utt'.heard = utt.heard
    BY <1>0, <2>1 DEF Utts
  <2>3. Serving' = utt.n + 1 /\ Serving = utt.n /\ CommitWaits' = CommitWaits
    BY <1>0, <2>2 DEF Serving, CommitWaits
  <2>4. client.utt \in Nat
    BY ServerAssumption DEF ServerTypes, Clients, Utterances
  <2>5. OrderSound'
    BY <1>0, <2>2, <2>3, <2>4 DEF OrderSound
  <2> QED BY <2>2, <2>5 DEF StreamSound
<1>2. CASE ingress.items # <<>>
  <2> DEFINE h == Head(ingress.items)
             its == Tail(ingress.items)
             c == client.chunks[Latest]
  <2>1. /\ Serving \in Utterances
        /\ Serving \in Nat \ {0} /\ Latest \in {Serving, Serving + 1}
        /\ client.utt \in Nat \ {0}
        /\ Waiting \in Nat /\ Rest \in Nat /\ ingress.items \in Seq(Nat)
        /\ client.chunks[Serving] \in Nat /\ c \in Nat
    BY <1>0, StreamNumbers
  <2>2. /\ Waiting <= c /\ Shape(ingress.items, Serving, Latest, Rest)
        /\ ~utt.drained => Len(utt.heard) + Rest = client.chunks[Serving]
    BY <1>0 DEF StreamSound
  <2>3. Rest = RestOf(Len(ingress.items), Serving, Latest, Waiting, c)
    BY DEF Rest
  <2>4. /\ h = Boundary =>
             /\ Latest = Serving + 1 /\ Rest = 0
             /\ RestOf(Len(its), Latest, Latest, Waiting, c) = c
             /\ Shape(its, Latest, Latest, c)
        /\ h # Boundary =>
             /\ h = Serving /\ Rest >= 1
             /\ RestOf(Len(its), Serving, Latest, Waiting, c) = Rest - 1
             /\ Shape(its, Serving, Latest, Rest - 1)
    <3> HIDE DEF c
    <3>1. ingress.items # <<>> /\ Waiting <= c /\ Shape(ingress.items, Serving, Latest, Rest)
      BY <1>2, <2>2
    <3>2. Taken(ingress.items, Serving, Latest, Waiting, c, Rest)
      BY ONLY <2>1, <2>3, <3>1, ShapeTaken
    <3> QED BY <3>2 DEF Taken, h, its
  <2>5. ingress'.items = its /\ ingress'.aborted = ingress.aborted
    BY <1>0, <1>2 DEF get, Ingresses
  <2>6. /\ CommitWaits' = CommitWaits /\ Waiting' = Waiting /\ Latest' = Latest
        /\ Serving = utt.n
    BY <1>0 DEF CommitWaits, Waiting, Latest, Serving
  <2> HIDE DEF h, its
  <2>7. CASE h = Boundary
    <3>1. utt' = [utt EXCEPT !.ended = TRUE]
      BY <1>2, <2>7 DEF get, h
    <3>2. /\ utt'.ended /\ ~utt'.closed /\ utt'.n = utt.n /\ utt'.heard = utt.heard
          /\ utt'.drained = utt.drained
      BY <1>0, <3>1 DEF Utts
    <3>3. Latest = Serving + 1 /\ Rest = 0 /\ Serving' = Latest
      BY <2>4, <2>6, <2>7, <3>2 DEF Serving
    <3>4. Rest' = c
      BY <2>4, <2>5, <2>6, <2>7, <3>3 DEF Rest
    <3>5. Latest <= client.utt
      BY <2>1 DEF Latest
    <3>6. ~utt.drained => Len(utt.heard) = client.chunks[utt.n]
      <4>1. Len(utt.heard) \in Nat
        BY <1>0 DEF Utts
      <4> QED BY <2>1, <2>2, <2>6, <3>3, <4>1
    <3>7. OrderSound'
      <4>1. client'.utt <= Serving' + 2
        BY <2>1, <3>3, <3>5 DEF OrderSound
      <4> QED BY <2>6, <3>2, <3>3, <3>5, <3>6, <4>1 DEF OrderSound
    <3>8. StreamSound'
      BY <2>1, <2>2, <2>4, <2>5, <2>6, <2>7, <3>2, <3>3, <3>4 DEF StreamSound
    <3> QED BY <3>7, <3>8
  <2>8. CASE h # Boundary
    <3>1. h = Serving /\ Rest >= 1
      BY <2>4, <2>8
    <3>2. utt' = [utt EXCEPT !.heard = Append(@, h)] \/ utt' = [utt EXCEPT !.drained = TRUE]
      BY <1>2, <2>8 DEF get, h
    <3>3. ~utt'.ended /\ ~utt'.closed /\ utt'.n = utt.n
      BY <1>0, <3>2 DEF Utts
    <3>4. /\ \A i \in DOMAIN utt'.heard : utt'.heard[i] = utt.n
          /\ ~utt'.drained => ~utt.drained /\ Len(utt'.heard) = Len(utt.heard) + 1
          /\ Len(utt.heard) \in Nat
      <4>1. /\ DOMAIN utt.heard = 1..Len(utt.heard) /\ Len(utt.heard) \in Nat
            /\ \A i \in DOMAIN utt.heard : utt.heard[i] = utt.n
        BY <1>0 DEF OrderSound, Utts
      <4>2. CASE utt' = [utt EXCEPT !.drained = TRUE]
        BY <1>0, <4>1, <4>2 DEF Utts
      <4>3. CASE utt' = [utt EXCEPT !.heard = Append(@, h)]
        <5>1. utt'.heard = Append(utt.heard, h) /\ utt'.drained = utt.drained
          BY <1>0, <4>3 DEF Utts
        <5>2. utt.heard \in Seq(Utterances) /\ h \in Utterances
          BY <1>0, <2>1, <3>1 DEF Utts
        <5>3. /\ Append(utt.heard, h) \in Seq(Utterances)
              /\ Len(Append(utt.heard, h)) = Len(utt.heard) + 1
              /\ \A i \in 1..Len(utt.heard) : Append(utt.heard, h)[i] = utt.heard[i]
              /\ Append(utt.heard, h)[Len(utt.heard) + 1] = h
          BY <5>2, Longer
        <5> DEFINE hs == Append(utt.heard, h)
        <5>4. DOMAIN hs = 1..Len(utt.heard) + 1
          BY <5>3
        <5>5. /\ \A i \in 1..Len(utt.heard) : hs[i] = utt.heard[i]
              /\ hs[Len(utt.heard) + 1] = h
          BY <5>3
        <5> HIDE DEF hs
        <5>6. \A i \in DOMAIN hs : hs[i] = utt.n
          BY <4>1, <5>4, <5>5, <2>6, <3>1
        <5> QED BY <4>1, <5>1, <5>3, <5>6 DEF hs
      <4> QED BY <3>2, <4>2, <4>3
    <3>5. Serving' = Serving
      BY <2>6, <3>3 DEF Serving
    <3>6. Rest' = Rest - 1
      BY <2>4, <2>5, <2>6, <2>8, <3>5 DEF Rest
    <3>7. OrderSound'
      BY <1>0, <2>6, <3>3, <3>4, <3>5 DEF OrderSound
    <3>8. ~utt'.drained => Len(utt'.heard) + (Rest - 1) = client.chunks[Serving]
      <4> SUFFICES ASSUME ~utt'.drained PROVE Len(utt'.heard) + (Rest - 1) = client.chunks[Serving]
        OBVIOUS
      <4>1. /\ Len(utt.heard) + Rest = client.chunks[Serving]
            /\ Len(utt'.heard) = Len(utt.heard) + 1 /\ Len(utt.heard) \in Nat
        BY <2>2, <3>4
      <4> QED BY <2>1, <4>1
    <3>9. 0 <= Rest - 1
      BY <2>1, <3>1
    <3>10. StreamSound'
      BY <2>1, <2>2, <2>4, <2>5, <2>6, <2>8, <3>3, <3>5, <3>6, <3>8, <3>9 DEF StreamSound
    <3> QED BY <3>7, <3>10
  <2> QED BY <2>7, <2>8
<1> QED BY <1>1, <1>2

\* The client's next frame: pieces of its utterance, or the commit that ends it.
LEMMA StreamRead ==
  ASSUME ServerTypes, FreshSound, ReaderSound, OrderSound, StreamSound,
         NEW n \in 1..MaxChunks, ReadAudio(n)
  PROVE  OrderSound' /\ StreamSound'
<1>0. /\ dialect # "none" /\ ~ingress.aborted /\ ~utt.closed /\ reader.put = <<>>
      /\ reader \in Readers /\ client \in Clients /\ utt \in Utts
      /\ n \in Nat \ {0}
  BY ServerAssumption
     DEF ServerTypes, FreshSound, ReaderSound, ReadAudio, Reading
<1>1. /\ Serving \in Utterances /\ Latest \in Utterances /\ client.utt \in Utterances
      /\ Serving \in Nat \ {0} /\ Latest \in {Serving, Serving + 1}
      /\ client.utt \in Nat \ {0}
      /\ Waiting \in Nat /\ Rest \in Nat /\ ingress.items \in Seq(Nat)
      /\ client.chunks[Serving] \in Nat /\ client.chunks[Latest] \in Nat
      /\ client.chunks[client.utt] \in Nat
  BY <1>0, StreamNumbers
<1>2. ~CommitWaits /\ Waiting = 0 /\ Latest = client.utt
  <2>1. <<Boundary>> # <<>>
    OBVIOUS
  <2> QED BY <1>0, <2>1 DEF CommitWaits, Waiting, Latest
<1>3. /\ reader'.put = [i \in 1..n |-> client.utt] /\ client'.utt = client.utt
      /\ client'.chunks = [client.chunks EXCEPT ![client.utt] = @ + n]
      /\ UNCHANGED <<dialect, ingress, utt>>
  BY <1>0, <1>1 DEF ReadAudio, Readers, Clients
<1>4. ~CommitWaits' /\ Waiting' = n /\ Latest' = client.utt
  <2> DEFINE p == [i \in 1..n |-> client.utt]
  <2>1. p \in Seq(Nat) /\ Len(p) = n /\ p[1] = client.utt
    BY <1>0, <1>1
  <2>2. <<Boundary>>[1] = 0 /\ <<CloseMark>>[1] = -1 /\ Len(<<>>) = 0
    BY DEF Boundary, CloseMark
  <2> HIDE DEF p
  <2>3. p # <<>> /\ p # <<Boundary>> /\ p # <<CloseMark>>
    BY <1>0, <1>1, <2>1, <2>2
  <2>4. reader'.put = p
    BY <1>3 DEF p
  <2> QED BY <1>3, <2>1, <2>3, <2>4 DEF CommitWaits, Waiting, Latest
<1>5. Serving' = Serving
  BY <1>3 DEF Serving
<1>6. /\ client'.chunks[client.utt] = client.chunks[client.utt] + n
      /\ \A u \in Utterances : u # client.utt => client'.chunks[u] = client.chunks[u]
  BY <1>0, <1>1, <1>3 DEF Clients
<1>7. Rest' = IF client.utt = Serving THEN Rest + n ELSE Rest
  <2>1. Rest = RestOf(Len(ingress.items), Serving, client.utt, 0, client.chunks[client.utt])
    BY <1>2 DEF Rest
  <2>2. Rest' = RestOf(Len(ingress.items), Serving, client.utt, n, client.chunks[client.utt] + n)
    BY <1>3, <1>4, <1>5, <1>6 DEF Rest
  <2>3. Len(ingress.items) \in Nat
    BY <1>1
  <2> QED BY <1>0, <1>1, <2>1, <2>2, <2>3 DEF RestOf
<1>8. OrderSound'
  <2>1. utt.ended => utt.n \in Utterances /\ utt.n # client.utt
    BY <1>0, <1>1, ServerAssumption DEF OrderSound, Serving, Utts, FreshSound, Utterances
  <2>2. \A u \in Utterances : u > client.utt => client'.chunks[u] = 0
    BY <1>1, <1>6 DEF OrderSound, Utterances
  <2> QED BY <1>3, <1>4, <1>5, <1>6, <2>1, <2>2 DEF OrderSound
<1>9. StreamSound'
  <2>1. Shape(ingress.items, Serving, client.utt, Rest)
    BY <1>0, <1>2 DEF StreamSound
  <2>2. Shape(ingress.items, Serving, client.utt, Rest')
    BY <1>7, <2>1 DEF Shape
  <2>3. 0 <= Rest' /\ Waiting' <= client'.chunks[client.utt]
    BY <1>0, <1>1, <1>4, <1>6, <1>7
  <2>4. client'.chunks[Serving] = IF client.utt = Serving THEN client.chunks[Serving] + n
                                  ELSE client.chunks[Serving]
    BY <1>1, <1>6
  <2>5. utt.ended => Rest' = client'.chunks[Serving]
    BY <1>0, <1>7, <2>4 DEF StreamSound
  <2>6. ~utt.ended /\ ~utt.drained => Len(utt.heard) + Rest' = client'.chunks[Serving]
    <3>1. ~utt.ended /\ ~utt.drained => Len(utt.heard) + Rest = client.chunks[Serving]
      BY <1>0 DEF StreamSound
    <3>2. Len(utt.heard) \in Nat
      BY <1>0 DEF Utts
    <3>3. CASE client.utt = Serving
      <4>1. /\ Rest' = Rest + n /\ client'.chunks[Serving] = client.chunks[Serving] + n
            /\ Rest \in Nat /\ n \in Nat /\ client.chunks[Serving] \in Nat
        BY <1>0, <1>1, <1>7, <2>4, <3>3
      <4> SUFFICES ASSUME ~utt.ended, ~utt.drained
                   PROVE  Len(utt.heard) + Rest' = client'.chunks[Serving]
        OBVIOUS
      <4>2. Len(utt.heard) + Rest = client.chunks[Serving]
        BY <3>1
      <4>3. \A a, b, d \in Nat : a + b = d => a + (b + n) = d + n
        BY <1>0
      <4>4. Len(utt.heard) + (Rest + n) = client.chunks[Serving] + n
        BY <3>2, <4>1, <4>2, <4>3
      <4> QED BY <4>1, <4>4
    <3>4. CASE client.utt # Serving
      BY <1>7, <2>4, <3>1, <3>4
    <3> QED BY <3>3, <3>4
  <2> QED BY <1>1, <1>2, <1>3, <1>4, <1>5, <2>2, <2>3, <2>5, <2>6 DEF StreamSound
<1> QED BY <1>8, <1>9

\* A commit that is read makes its boundary the reader's pending put.
LEMMA StreamCommit ==
  ASSUME ServerTypes, FreshSound, ReaderSound, OrderSound, StreamSound, ReadCommit
  PROVE  OrderSound' /\ StreamSound'
<1>0. /\ dialect # "none" /\ ~ingress.aborted /\ ~utt.closed /\ reader.put = <<>>
      /\ reader \in Readers /\ client \in Clients /\ utt \in Utts
      /\ client.utt <= MaxCommits /\ MaxCommits \in Nat
  BY ServerAssumption
     DEF ServerTypes, FreshSound, ReaderSound, ReadCommit, Reading
<1>1. /\ Serving \in Utterances /\ Latest \in Utterances /\ client.utt \in Utterances
      /\ Serving \in Nat \ {0} /\ Latest \in {Serving, Serving + 1}
      /\ client.utt \in Nat \ {0}
  BY <1>0, StreamNumbers
<1>2. ~CommitWaits /\ Waiting = 0 /\ Latest = client.utt
  <2>1. <<Boundary>> # <<>>
    OBVIOUS
  <2> QED BY <1>0, <2>1 DEF CommitWaits, Waiting, Latest
<1>3. /\ reader'.put = <<Boundary>> /\ client'.utt = client.utt + 1
      /\ client'.chunks = client.chunks /\ UNCHANGED <<dialect, ingress, utt>>
  BY <1>0 DEF ReadCommit, Readers, Clients
<1>4. CommitWaits' /\ Waiting' = 0 /\ Latest' = client.utt /\ Serving' = Serving
  BY <1>1, <1>3 DEF CommitWaits, Waiting, Latest, Serving
<1>5. Rest' = Rest
  BY <1>2, <1>3, <1>4 DEF Rest
<1>6. OrderSound'
  <2>1. client.utt + 1 \in Utterances
    BY <1>0, <1>1 DEF Utterances
  <2>2. client.chunks[client.utt + 1] = 0
    BY <1>1, <2>1 DEF OrderSound
  <2>3. client.utt + 1 <= Serving + 2 /\ Serving <= client.utt + 1
    BY <1>1, <1>2
  <2>4. \A u \in Utterances : u > client.utt + 1 => client.chunks[u] = 0
    BY <1>1 DEF OrderSound, Utterances
  <2> QED BY <1>3, <1>4, <2>2, <2>3, <2>4 DEF OrderSound
<1>7. StreamSound'
  BY <1>2, <1>3, <1>4, <1>5 DEF StreamSound
<1> QED BY <1>6, <1>7

\* The resampler's tail goes in behind the other audio of the utterance that the
\* pending boundary ends.
LEMMA StreamTail ==
  ASSUME ServerTypes, FreshSound, ReaderSound, OrderSound, StreamSound, PutTail
  PROVE  OrderSound' /\ StreamSound'
<1> DEFINE u == client.utt - 1
<1>0. /\ ingress \in Ingresses /\ reader \in Readers /\ client \in Clients /\ utt \in Utts
      /\ dialect # "none" /\ ~utt.closed /\ reader.put = <<Boundary>>
      /\ reader'.put = reader.put /\ UNCHANGED <<dialect, utt>>
  BY DEF ServerTypes, FreshSound, ReaderSound, PutTail, Readers
<1>1. /\ CommitWaits /\ CommitWaits' /\ Waiting = 0 /\ Waiting' = 0 /\ Latest = u
      /\ Serving' = Serving /\ SameUtterance
  BY <1>0 DEF CommitWaits, Waiting, Latest, Serving, SameUtterance
<1>2. CASE ingress.aborted
  <2>1. UNCHANGED <<ingress, client>>
    BY <1>2 DEF PutTail
  <2> QED BY <1>1, <2>1, StreamStays DEF SameClient
<1>3. CASE ~ingress.aborted
  <2>0. /\ ingress' = [ingress EXCEPT !.items = Append(@, u)]
        /\ client' = [client EXCEPT !.chunks[u] = @ + 1]
    BY <1>3 DEF PutTail
  <2>1. /\ Serving \in Utterances /\ Latest \in Utterances /\ client.utt \in Utterances
        /\ Serving \in Nat \ {0} /\ Latest \in {Serving, Serving + 1}
        /\ Rest \in Nat /\ ingress.items \in Seq(Nat)
        /\ client.chunks[Serving] \in Nat /\ client.chunks[Latest] \in Nat
        /\ client.utt \in Nat
    BY <1>0, <1>3, StreamNumbers
  <2>2. /\ Shape(ingress.items, Serving, Latest, Rest)
        /\ utt.ended => Rest = client.chunks[Serving]
        /\ ~utt.ended /\ ~utt.drained => Len(utt.heard) + Rest = client.chunks[Serving]
    BY <1>0, <1>3 DEF StreamSound
  <2> DEFINE c == client.chunks[Latest]
             r == IF Latest = Serving THEN Rest + 1 ELSE Rest
  <2>3. /\ ingress'.items = Append(ingress.items, Latest) /\ ingress'.aborted = ingress.aborted
        /\ client'.utt = client.utt /\ client'.chunks[Latest] = c + 1
        /\ \A v \in Utterances : v # Latest => client'.chunks[v] = client.chunks[v]
        /\ Latest' = Latest
    <3>1. Latest' = Latest
      BY <1>0, <1>1, <2>0 DEF Latest, Clients
    <3> QED BY <1>0, <1>1, <2>0, <2>1, <3>1 DEF Ingresses, Clients
  <2>4. RestOf(Len(Append(ingress.items, Latest)), Serving, Latest, 0, c + 1) = r
        /\ Shape(Append(ingress.items, Latest), Serving, Latest, r)
    <3>1. Rest = RestOf(Len(ingress.items), Serving, Latest, 0, c)
      BY <1>1 DEF Rest
    <3>2. Len(ingress.items) \in Nat /\ c \in Nat
      BY <2>1
    <3>3. r = RestOf(Len(ingress.items), Serving, Latest, 1, c + 1) /\ r \in Nat
      BY <2>1, <3>1, <3>2 DEF RestOf
    <3>4. Shape(ingress.items, Serving, Latest, r)
      BY <2>1, <2>2 DEF Shape
    <3> HIDE DEF c, r
    <3>5. c + 1 \in Nat /\ 1 <= c + 1 /\ 1 \in Nat \ {0} /\ 1 - 1 = 0
      BY <3>2
    <3>6. PutOne(ingress.items, Serving, Latest, 1, c + 1, r)
      BY ONLY <2>1, <3>3, <3>4, <3>5, ShapeAudio
    <3> QED BY <3>5, <3>6 DEF PutOne
  <2>5. Rest' = r
    <3>1. Rest' = RestOf(Len(ingress'.items), Serving', Latest', Waiting', client'.chunks[Latest'])
      BY DEF Rest
    <3>2. Rest' = RestOf(Len(Append(ingress.items, Latest)), Serving, Latest, 0, c + 1)
      BY <1>1, <2>3, <3>1
    <3> QED BY <2>4, <3>2
  <2>6. OrderSound'
    <3>1. ASSUME NEW v \in Utterances, v > client.utt PROVE client'.chunks[v] = 0
      <4>1. v # Latest
        <5>1. v \in Nat
          BY ServerAssumption DEF Utterances
        <5> QED BY <1>1, <2>1, <3>1, <5>1
      <4>2. client.chunks[v] = 0
        BY <3>1 DEF OrderSound
      <4> QED BY <2>3, <4>1, <4>2
    <3>2. client'.chunks[client.utt] = 0
      <4>1. client.utt # Latest
        BY <1>1, <2>1
      <4>2. client.chunks[client.utt] = 0
        BY <1>1 DEF OrderSound
      <4> QED BY <2>1, <2>3, <4>1, <4>2
    <3>3. utt.ended => utt.n \in Utterances /\ utt.n # Latest
      BY <1>0, <2>1, ServerAssumption DEF Serving, Utts, FreshSound, Utterances
    <3>4. utt.ended /\ ~utt.closed /\ ~utt.drained => Len(utt.heard) = client'.chunks[utt.n]
      BY <2>3, <3>3 DEF OrderSound
    <3> QED BY <1>0, <1>1, <2>3, <3>1, <3>2, <3>4 DEF OrderSound
  <2>7. StreamSound'
    <3>1. 0 <= r /\ 0 <= c + 1 /\ (utt.ended => r = client'.chunks[Serving])
      BY <2>1, <2>2, <2>3
    <3>2. ~utt.ended /\ ~utt.drained => Len(utt.heard) + r = client'.chunks[Serving]
      <4>1. Len(utt.heard) \in Nat
        BY <1>0 DEF Utts
      <4>2. CASE Latest = Serving
        <5>1. \A a, b, d \in Nat : a + b = d => a + (b + 1) = d + 1
          OBVIOUS
        <5>2. /\ r = Rest + 1 /\ client'.chunks[Serving] = client.chunks[Serving] + 1
              /\ Rest \in Nat /\ client.chunks[Serving] \in Nat
          BY <2>1, <2>3, <4>2
        <5> HIDE DEF r
        <5> QED BY <2>2, <4>1, <5>1, <5>2
      <4>3. CASE Latest # Serving
        BY <2>1, <2>2, <2>3, <4>3
      <4> QED BY <4>2, <4>3
    <3> HIDE DEF r, c
    <3> QED BY <1>0, <1>1, <2>1, <2>3, <2>4, <2>5, <3>1, <3>2 DEF StreamSound
  <2> QED BY <2>6, <2>7
<1> QED BY <1>2, <1>3

\* A chunk or a boundary moves from the reader to the ingress.
LEMMA StreamPut ==
  ASSUME ServerTypes, FreshSound, ReaderSound, OrderSound, StreamSound, _put
  PROVE  OrderSound' /\ StreamSound'
<1>0. /\ ingress \in Ingresses /\ reader \in Readers /\ client \in Clients /\ utt \in Utts
      /\ reader.put # <<>> /\ dialect # "none" /\ client.utt \in Nat \ {0}
  BY ServerAssumption DEF ServerTypes, FreshSound, ReaderSound, _put, Clients, Utterances
<1> DEFINE x == Head(reader.put)
           p == Tail(reader.put)
<1>1. /\ p \in Seq(-1..MaxCommits + 1) /\ x = reader.put[1]
      /\ Len(reader.put) \in Nat \ {0} /\ Len(p) = Len(reader.put) - 1
      /\ \A i \in 1..Len(reader.put) - 1 : p[i] = reader.put[i + 1]
      /\ DOMAIN reader.put = 1..Len(reader.put)
      /\ p = <<>> <=> Len(reader.put) = 1
  BY <1>0, Shorter DEF Readers
<1>2. /\ reader'.put = p /\ UNCHANGED <<dialect, client, utt>>
      /\ ingress'.aborted = ingress.aborted
      /\ SameUtterance /\ SameClient /\ Serving' = Serving
  <2>1. reader'.put = p /\ UNCHANGED <<dialect, client, utt>>
    BY <1>0 DEF _put, Readers
  <2>2. ingress'.aborted = ingress.aborted
    BY <1>0 DEF _put, Ingresses
  <2> QED BY <2>1, <2>2 DEF SameUtterance, SameClient, Serving
<1>3. /\ Len(<<Boundary>>) = 1 /\ Len(<<CloseMark>>) = 1
      /\ <<Boundary>>[1] = Boundary /\ <<CloseMark>>[1] = CloseMark
      /\ <<Boundary>> # <<>> /\ <<CloseMark>> # <<>>
  OBVIOUS
<1> HIDE DEF x, p
<1>4. ~CommitWaits' /\ (p = <<>> \/ x = client.utt)
  <2>1. CASE p = <<>>
    BY <1>2, <1>3, <2>1 DEF CommitWaits
  <2>2. CASE p # <<>>
    <3>1. Len(reader.put) # 1
      BY <1>1, <2>2
    <3>2. \A i \in DOMAIN reader.put : reader.put[i] = client.utt
      BY <1>0, <1>3, <3>1 DEF ReaderSound
    <3>3. x = client.utt /\ p[1] = client.utt
      BY <1>1, <3>1, <3>2
    <3>4. p # <<Boundary>>
      BY <1>0, <1>3, <3>3 DEF Boundary
    <3> QED BY <1>2, <3>3, <3>4 DEF CommitWaits
  <2> QED BY <2>1, <2>2
<1>5. CASE ingress.aborted
  BY <1>2, <1>4, <1>5, StreamGivenUp
<1>6. CASE ~ingress.aborted
  <2>0. ~utt.closed
    <3>1. reader.at = "put"
      BY DEF _put
    <3> QED BY <3>1 DEF ReaderSound
  <2>1. /\ Serving \in Utterances /\ Latest \in Utterances /\ client.utt \in Utterances
        /\ Serving \in Nat \ {0} /\ Latest \in {Serving, Serving + 1}
        /\ Waiting \in Nat /\ Rest \in Nat /\ ingress.items \in Seq(Nat)
        /\ client.chunks[Serving] \in Nat /\ client.chunks[Latest] \in Nat
        /\ client.chunks[client.utt] \in Nat
    BY <1>0, <1>6, <2>0, StreamNumbers
  <2>2. /\ 0 <= Rest /\ Waiting <= client.chunks[Latest]
        /\ Shape(ingress.items, Serving, Latest, Rest)
        /\ utt.ended => Rest = client.chunks[Serving]
        /\ ~utt.ended /\ ~utt.drained => Len(utt.heard) + Rest = client.chunks[Serving]
    BY <1>0, <1>6, <2>0 DEF StreamSound
  <2>3. Rest = RestOf(Len(ingress.items), Serving, Latest, Waiting, client.chunks[Latest])
    BY DEF Rest
  <2>4. CASE x = CloseMark
    <3>1. p = <<>> /\ x # client.utt
      BY <1>0, <1>4, <2>4 DEF CloseMark
    <3>2. ~CommitWaits /\ Waiting = 0 /\ Waiting' = 0
      <4>1. reader.put = <<CloseMark>>
        <5>1. reader.put[1] # client.utt /\ reader.put[1] # Boundary /\ 1 \in DOMAIN reader.put
          BY <1>0, <1>1, <2>4 DEF CloseMark, Boundary
        <5> QED BY <1>0, <1>3, <5>1 DEF ReaderSound
      <4>2. <<CloseMark>> # <<Boundary>>
        BY <1>3 DEF CloseMark, Boundary
      <4> QED BY <1>2, <3>1, <4>1, <4>2 DEF CommitWaits, Waiting
    <3>3. ingress'.items = ingress.items
      BY <1>0, <2>4 DEF _put, Ingresses, x
    <3> QED BY <1>2, <1>4, <3>2, <3>3, StreamStays
  <2>5. CASE x = Boundary
    <3>1. p = <<>> /\ x # client.utt
      BY <1>0, <1>4, <2>5 DEF Boundary
    <3>2. CommitWaits /\ Waiting = 0 /\ Waiting' = 0
      <4>1. reader.put = <<Boundary>>
        <5>1. reader.put[1] # client.utt /\ reader.put[1] # CloseMark /\ 1 \in DOMAIN reader.put
          BY <1>0, <1>1, <2>5 DEF CloseMark, Boundary
        <5> QED BY <1>0, <1>3, <5>1 DEF ReaderSound
      <4> QED BY <1>2, <3>1, <4>1 DEF CommitWaits, Waiting
    <3>3. /\ ingress'.items = Append(ingress.items, Boundary)
          /\ ~BoundaryPending(ingress.items)
      BY <1>0, <1>6, <2>5 DEF _put, Ingresses, x, _has_room, CloseMark, Boundary
    <3>4. /\ Latest = Serving
          /\ RestOf(Len(Append(ingress.items, Boundary)), Serving, Serving + 1, 0, 0) = Rest
          /\ Shape(Append(ingress.items, Boundary), Serving, Serving + 1, Rest)
      BY <2>1, <2>2, <2>3, <3>2, <3>3, ShapeBoundary
    <3>5. Latest = client.utt - 1 /\ Latest' = client.utt /\ client.utt = Serving + 1
      BY <1>0, <1>2, <1>4, <2>1, <3>2, <3>4 DEF Latest
    <3>6. client.chunks[client.utt] = 0
      BY <3>2 DEF OrderSound
    <3>7. Rest' = Rest
      BY <1>2, <3>2, <3>3, <3>4, <3>5, <3>6 DEF Rest
    <3>8. OrderSound'
      BY <1>2, <1>4 DEF OrderSound
    <3>9. StreamSound'
      BY <1>2, <2>2, <3>2, <3>3, <3>4, <3>5, <3>6, <3>7 DEF StreamSound
    <3> QED BY <3>8, <3>9
  <2>6. CASE x # CloseMark /\ x # Boundary
    <3>1. \A i \in DOMAIN reader.put : reader.put[i] = client.utt
      BY <1>0, <1>1, <1>3, <2>6 DEF ReaderSound
    <3>2. x = client.utt
      BY <1>1, <3>1
    <3>3. ~CommitWaits /\ Latest = client.utt /\ Latest' = client.utt
            /\ reader.put # <<CloseMark>>
      BY <1>1, <1>2, <1>3, <1>4, <2>6 DEF CommitWaits, Latest
    <3>4. Waiting = Len(reader.put)
      BY <1>0, <3>3 DEF Waiting
    <3>5. Waiting' = Waiting - 1
      <4>1. CASE p = <<>>
        BY <1>1, <1>2, <3>4, <4>1 DEF Waiting
      <4>2. CASE p # <<>>
        <5>1. p[1] = client.utt
          BY <1>1, <3>1, <4>2
        <5>2. p # <<CloseMark>>
          BY <1>0, <1>3, <5>1 DEF CloseMark
        <5> QED BY <1>1, <1>2, <1>4, <3>4, <4>2, <5>2 DEF Waiting
      <4> QED BY <4>1, <4>2
    <3>6. ingress'.items = Append(ingress.items, client.utt)
      BY <1>0, <1>6, <2>6, <3>2 DEF _put, Ingresses, x
    <3>7. /\ RestOf(Len(Append(ingress.items, Latest)), Serving, Latest, Waiting - 1,
                    client.chunks[Latest]) = Rest
          /\ Shape(Append(ingress.items, Latest), Serving, Latest, Rest)
      <4>1. Waiting \in Nat \ {0}
        BY <1>1, <3>4
      <4> DEFINE c == client.chunks[Latest]
      <4> HIDE DEF c
      <4>2. /\ c \in Nat /\ Waiting <= c
            /\ Rest = RestOf(Len(ingress.items), Serving, Latest, Waiting, c)
        BY <2>1, <2>2, <2>3 DEF c
      <4>3. PutOne(ingress.items, Serving, Latest, Waiting, c, Rest)
        BY ONLY <2>1, <2>2, <4>1, <4>2, ShapeAudio
      <4> QED BY <4>3 DEF PutOne, c
    <3>8. Rest' = Rest
      BY <1>2, <3>3, <3>5, <3>6, <3>7 DEF Rest
    <3>9. OrderSound'
      BY <1>2, <1>4 DEF OrderSound
    <3>10. Waiting' <= client.chunks[Latest]
      BY <1>1, <2>1, <2>2, <3>4, <3>5
    <3>11. StreamSound'
      BY <1>2, <2>1, <2>2, <3>3, <3>6, <3>7, <3>8, <3>10 DEF StreamSound
    <3> QED BY <3>9, <3>11
  <2> QED BY <2>4, <2>5, <2>6
<1> QED BY <1>5, <1>6

\* Every step keeps the order of the stream.
LEMMA StreamNext ==
  ASSUME ServerTypes, FreshSound, ReaderSound, AnswerSound, OrderSound, StreamSound, ServerNext
  PROVE  OrderSound' /\ StreamSound'
<1>0. /\ ingress \in Ingresses /\ reader \in Readers /\ client \in Clients /\ utt \in Utts
      /\ <<Boundary>> # <<>> /\ <<CloseMark>> # <<>> /\ <<CloseMark>> # <<Boundary>>
  <2>1. <<Boundary>>[1] # <<CloseMark>>[1]
    BY DEF Boundary, CloseMark
  <2> QED BY <2>1 DEF ServerTypes
<1>s. ASSUME SameUtterance, UNCHANGED client, reader'.put = reader.put,
             ingress'.items = ingress.items, ingress'.aborted = ingress.aborted
      PROVE  OrderSound' /\ StreamSound'
  BY <1>s, StreamStays DEF SameClient, CommitWaits, Waiting
<1>a. ASSUME SameUtterance, UNCHANGED client, reader'.put \in {reader.put, <<>>}, ingress'.aborted
      PROVE  OrderSound' /\ StreamSound'
  BY <1>0, <1>a, StreamGivenUp DEF SameClient, CommitWaits
<1>b. abort => ingress'.aborted
  BY <1>0 DEF abort, Ingresses
<1>1. ASSUME NEW d \in {"ie115", "internal"}, handle(d) PROVE OrderSound' /\ StreamSound'
  <2>1. dialect = "none"
    BY <1>1 DEF handle, FreshSound
  <2>2. /\ utt.n = 0 /\ client.utt = 1 /\ client.chunks = [u \in Utterances |-> 0]
        /\ ingress.items = <<>> /\ reader.put = <<>>
    BY <2>1 DEF FreshSound
  <2>3. /\ utt'.n = 1 /\ ~utt'.ended /\ ~utt'.closed /\ ~utt'.drained /\ utt'.heard = <<>>
        /\ UNCHANGED <<ingress, client>> /\ reader'.put = <<>>
    BY <1>0, <1>1, <2>2 DEF handle, StartUtterance, Readers
  <2>4. Serving' = 1 /\ ~CommitWaits' /\ Waiting' = 0 /\ Latest' = 1
    BY <1>0, <2>2, <2>3 DEF Serving, CommitWaits, Waiting, Latest
  <2>5. 1 \in Utterances /\ \A u \in Utterances : client.chunks[u] = 0
    BY <2>2, ServerAssumption DEF Utterances
  <2>6. Len(<<>>) = 0 /\ DOMAIN <<>> = {}
    OBVIOUS
  <2>7. Rest' = 0 /\ Shape(ingress'.items, 1, 1, 0)
    BY <2>2, <2>3, <2>4, <2>5, <2>6 DEF Rest, RestOf, Shape
  <2>8. OrderSound'
    BY <2>2, <2>3, <2>4, <2>5, <2>6 DEF OrderSound
  <2>9. StreamSound'
    BY <2>2, <2>3, <2>4, <2>5, <2>6, <2>7 DEF StreamSound
  <2> QED BY <2>8, <2>9
<1>2. CASE _refuse \/ _close \/ PeerLeaves
  BY <1>2, <1>s DEF _refuse, _close, PeerLeaves, SameUtterance
<1>3. CASE _run_utterance
  <2>1. SameUtterance
    BY <1>0, <1>3 DEF _run_utterance, SameUtterance, Utts
  <2>2. CASE abort
    BY <1>3, <1>a, <1>b, <2>1, <2>2 DEF _run_utterance
  <2>3. CASE UNCHANGED ingress
    BY <1>3, <1>s, <2>1, <2>3 DEF _run_utterance
  <2> QED BY <1>3, <2>2, <2>3 DEF _run_utterance
<1>4. CASE drain \/ AdapterReads
  <2>1. dialect # "none"
    BY <1>4 DEF drain, AdapterReads, AdapterFree, FreshSound
  <2> QED BY <1>4, <2>1, StreamTaken DEF drain, AdapterReads
<1>e. ASSUME _end_connection, UNCHANGED <<dialect, utt, client>>
      PROVE  OrderSound' /\ StreamSound'
  BY <1>e, <1>a, <1>b DEF _end_connection, SameUtterance
<1>5. CASE NextUtterance
  <2>0. UNCHANGED <<dialect, client>>
    BY <1>5, NextParts
  <2>1. CASE _end_connection /\ UNCHANGED utt
    BY <1>e, <2>0, <2>1
  <2>2. CASE /\ utt.ended /\ ~utt.closed /\ StartUtterance(dialect)
             /\ UNCHANGED <<ingress, reader>>
    BY <1>0, <2>0, <2>2, StreamAdvances DEF StartUtterance
  <2>3. CASE MakeUp
    <3>1. SameUtterance
      BY <1>0, <2>0, <2>3 DEF MakeUp, SameUtterance, Utts
    <3> QED BY <1>s, <2>0, <2>3, <3>1 DEF MakeUp
  <2> QED BY <1>5, <2>1, <2>2, <2>3, NextParts
<1>6. CASE EndInternal
  BY <1>6, <1>e DEF EndInternal
<1>7. CASE EmitSends \/ AdapterEmits \/ AdapterFinishes \/ AdapterRejects \/ AdapterReturns
  <2>1. SameUtterance
    BY <1>0, <1>7 DEF EmitSends, AdapterEmits, AdapterFinishes, Emit, AdapterRejects,
         AdapterReturns, SameUtterance, Utts
  <2> QED BY <1>7, <1>s, <2>1 DEF EmitSends, AdapterEmits, AdapterFinishes, AdapterRejects,
        AdapterReturns
<1>8. ASSUME NEW n \in 1..MaxChunks, ReadAudio(n) PROVE OrderSound' /\ StreamSound'
  BY <1>8, StreamRead
<1>9. CASE ReadCommit
  BY <1>9, StreamCommit
<1>10. CASE ReadBad
  <2>1. reader.put = <<>> /\ UNCHANGED <<dialect, utt>> /\ SameUtterance /\ SameClient
    BY <1>0, <1>10
       DEF ReadBad, Reading, ReaderSound, SameUtterance, SameClient, Clients
  <2>2. reader'.put \in {<<>>, <<CloseMark>>}
    BY <1>0, <1>10, <2>1 DEF ReadBad, Readers
  <2>3. ingress'.items = ingress.items /\ ingress'.aborted = ingress.aborted
    BY <1>0, <1>10 DEF ReadBad, Ingresses
  <2>4. (CommitWaits' <=> CommitWaits) /\ Waiting' = Waiting
    BY <1>0, <2>1, <2>2 DEF CommitWaits, Waiting
  <2> QED BY <2>1, <2>3, <2>4, StreamStays
<1>11. CASE ReadFinish
  BY <1>0, <1>11, <1>s DEF ReadFinish, SameUtterance, Readers, Ingresses
<1>12. CASE ReadEnd
  BY <1>0, <1>12, <1>a DEF ReadEnd, SameUtterance, Readers
<1>13. CASE ReaderSends
  BY <1>0, <1>13, <1>s DEF ReaderSends, SameUtterance, Readers
<1>14. CASE _put
  BY <1>14, StreamPut
<1>16. CASE PutTail
  BY <1>16, StreamTail
<1>15. CASE abort_sessions
  <2>1. CASE abort
    BY <1>15, <1>a, <1>b, <2>1 DEF abort_sessions, SameUtterance
  <2>2. CASE UNCHANGED ingress
    BY <1>15, <1>s, <2>2 DEF abort_sessions, SameUtterance
  <2> QED BY <1>15, <2>1, <2>2 DEF abort_sessions
<1> QED
  BY <1>1, <1>2, <1>3, <1>4, <1>5, <1>6, <1>7, <1>8, <1>9, <1>10, <1>11, <1>12, <1>13,
     <1>14, <1>15, <1>16
     DEF ServerNext, Handler, Adapter, Reader, Client

-----------------------------------------------------------------------------
\* A step that acknowledges nothing and names nothing keeps what is known of
\* the items; it may drop what an adapter left unsent.
LEMMA ItemsStay ==
  ASSUME ItemSound, NamedSound, UNCHANGED <<dialect, enc>>,
         utt'.n = utt.n, client'.utt = client.utt,
         seen'.acked = seen.acked, seen'.named = seen.named,
         utt'.out = utt.out \/ utt'.out = <<>>
  PROVE  ItemSound' /\ NamedSound'
<1>1. ItemSound'
  BY DEF ItemSound
<1>2. NamedSound'
  BY DEF NamedSound
<1> QED BY <1>1, <1>2

\* What an answer does to what the client was sent.
LEMMA AnswerNamesNothing ==
  ASSUME seen \in Sent, NEW i
  PROVE  /\ Written(<<"error", i>>).acked = seen.acked
         /\ Written(<<"error", i>>).named = seen.named
<1>1. Written(<<"error", i>>) \in {seen, [seen EXCEPT !.answered = @ \cup {utt.n}]}
  BY WrittenForms
<1> QED BY <1>1 DEF Sent

\* The numbers of the encoder.
LEMMA ItemNumbers ==
  ASSUME ServerTypes, FreshSound, ItemSound, dialect = "ie115"
  PROVE  /\ utt.n \in Nat \ {0} /\ client.utt \in Nat \ {0} /\ utt.n <= client.utt
         /\ enc.queued \in Seq(Nat) /\ seen.acked \in Seq(Nat)
         /\ Len(seen.acked) = client.utt - 1 /\ DOMAIN seen.acked = 1..client.utt - 1
         /\ enc.current \in Nat /\ enc.uncommitted \in Nat /\ enc.minted \in Nat
         /\ enc.current <= enc.minted
         /\ \A k, l \in DOMAIN seen.acked : seen.acked[k] = seen.acked[l] => k = l
         /\ \A k \in DOMAIN seen.acked : 0 < seen.acked[k] /\ seen.acked[k] <= enc.minted
<1>1. /\ utt.n \in Nat \ {0} /\ client.utt \in Nat \ {0}
      /\ enc.queued \in Seq(Nat) /\ seen.acked \in Seq(Nat)
      /\ enc.current \in Nat /\ enc.uncommitted \in Nat /\ enc.minted \in Nat
  BY ServerAssumption
     DEF ServerTypes, FreshSound, Utts, Clients, Utterances, Encoders, Sent
<1>2. DOMAIN seen.acked = 1..Len(seen.acked)
  BY <1>1
<1> QED BY <1>1, <1>2 DEF ItemSound

\* The queue of the encoder, as it is taken from and added to.
LEMMA FollowsTail ==
  ASSUME NEW q, NEW a, NEW k, q \in Seq(Nat), a \in Seq(Nat), k \in Nat, q # <<>>,
         Follows(q, a, k)
  PROVE  /\ Head(q) = a[k + 1] /\ k + 1 \in DOMAIN a
         /\ Tail(q) \in Seq(Nat) /\ Follows(Tail(q), a, k + 1)
<1> DEFINE t == Tail(q)
           n == Len(q)
<1>1. /\ t \in Seq(Nat) /\ Head(q) = q[1] /\ n \in Nat \ {0} /\ Len(t) = n - 1
      /\ \A i \in 1..n - 1 : t[i] = q[i + 1]
  BY Shorter
<1>2. Len(a) = k + n /\ \A j \in 1..n : q[j] = a[k + j]
  BY DEF Follows
<1>3. DOMAIN a = 1..k + n
  BY <1>2
<1> HIDE DEF t, n
<1>4. Len(a) = (k + 1) + Len(t)
  BY <1>1, <1>2
<1>5. \A j \in 1..Len(t) : t[j] = a[(k + 1) + j]
  <2> TAKE j \in 1..Len(t)
  <2>1. j \in Nat /\ j + 1 \in 1..n /\ t[j] = q[j + 1]
    BY <1>1
  <2>2. q[j + 1] = a[k + (j + 1)]
    BY <1>2, <2>1
  <2> QED BY <2>1, <2>2
<1>6. q[1] = a[k + 1] /\ k + 1 \in DOMAIN a
  BY <1>1, <1>2, <1>3
<1>7. Follows(t, a, k + 1)
  BY <1>4, <1>5 DEF Follows
<1> QED BY <1>1, <1>6, <1>7 DEF t

\* An item added to the queue and to the acknowledged items alike.
LEMMA FollowsAppend ==
  ASSUME NEW q, NEW a, NEW k, NEW i, q \in Seq(Nat), a \in Seq(Nat), k \in Nat, i \in Nat,
         Follows(q, a, k)
  PROVE  Follows(Append(q, i), Append(a, i), k)
<1> DEFINE p == Append(q, i)
           b == Append(a, i)
           n == Len(q)
           m == Len(a)
<1>1. /\ Len(p) = n + 1 /\ p[n + 1] = i /\ \A j \in 1..n : p[j] = q[j]
      /\ n \in Nat /\ m \in Nat
  BY Longer
<1>2. Len(b) = m + 1 /\ b[m + 1] = i /\ \A j \in 1..m : b[j] = a[j]
  BY Longer
<1>3. m = k + n /\ \A j \in 1..n : q[j] = a[k + j]
  BY DEF Follows
<1> HIDE DEF p, b, n, m
<1>4. Len(b) = k + Len(p)
  BY <1>1, <1>2, <1>3
<1>5. \A j \in 1..Len(p) : p[j] = b[k + j]
  <2> TAKE j \in 1..Len(p)
  <2>1. CASE j = n + 1
    <3>1. k + j = m + 1
      BY <1>1, <1>3, <2>1
    <3> QED BY <1>1, <1>2, <2>1, <3>1
  <2>2. CASE j # n + 1
    <3>1. j \in 1..n /\ k + j \in 1..m
      BY <1>1, <1>3, <2>2
    <3> QED BY <1>1, <1>2, <1>3, <3>1
  <2> QED BY <2>1, <2>2
<1> QED BY <1>4, <1>5 DEF Follows, p, b

\* The next utterance retires the item of the one before it, named or not.
LEMMA ItemsRetire ==
  ASSUME ServerTypes, FreshSound, OrderSound, ItemSound, NamedSound,
         dialect = "ie115", UNCHANGED <<dialect, client>>, utt.ended, ~utt.closed,
         enc' = begin_utterance, utt'.n = utt.n + 1, utt'.out = <<>>,
         seen'.acked = seen.acked, seen'.named = seen.named
  PROVE  ItemSound' /\ NamedSound'
<1>1. /\ utt.n \in Nat \ {0} /\ client.utt \in Nat \ {0}
      /\ enc.queued \in Seq(Nat) /\ seen.acked \in Seq(Nat) /\ enc \in Encoders
      /\ Len(seen.acked) = client.utt - 1 /\ DOMAIN seen.acked = 1..client.utt - 1
      /\ enc.minted \in Nat
      /\ \A k, l \in DOMAIN seen.acked : seen.acked[k] = seen.acked[l] => k = l
      /\ \A k \in DOMAIN seen.acked : 0 < seen.acked[k] /\ seen.acked[k] <= enc.minted
  BY ItemNumbers DEF ServerTypes
<1>2. utt.n < client.utt /\ utt.n + 1 <= client.utt
  BY <1>1 DEF OrderSound, Serving
<1>3. enc.uncommitted = None
  BY <1>1, <1>2 DEF ItemSound
<1>4. enc'.uncommitted = None /\ enc'.current = None /\ enc'.minted = enc.minted
        /\ None <= enc.minted
  BY <1>1, <1>3 DEF begin_utterance, Encoders, None
<1>5. Follows(enc'.queued, seen.acked, utt.n)
  <2>1. CASE enc.current = None
    <3>1. Follows(enc.queued, seen.acked, utt.n - 1) /\ utt.n - 1 \in Nat
      BY <1>1, <1>3, <2>1 DEF ItemSound
    <3>2. enc.queued # <<>>
      <4>1. Len(seen.acked) = (utt.n - 1) + Len(enc.queued) /\ Len(enc.queued) \in Nat
        BY <1>1, <3>1 DEF Follows
      <4>2. Len(enc.queued) # 0
        BY <1>1, <1>2, <4>1
      <4> QED BY <4>2
    <3>3. enc'.queued = Tail(enc.queued)
      BY <1>1, <2>1, <3>2 DEF begin_utterance, Encoders
    <3>4. Follows(Tail(enc.queued), seen.acked, (utt.n - 1) + 1)
      BY <1>1, <3>1, <3>2, FollowsTail
    <3>5. (utt.n - 1) + 1 = utt.n
      BY <1>1
    <3> QED BY <3>3, <3>4, <3>5
  <2>2. CASE enc.current # None
    <3>1. enc'.queued = enc.queued
      BY <1>1, <2>2 DEF begin_utterance, Encoders
    <3> QED BY <1>3, <2>2, <3>1 DEF ItemSound
  <2> QED BY <2>1, <2>2
<1>6. ItemSound'
  <2>1. (utt.n + 1) - 1 = utt.n
    BY <1>1
  <2> QED BY <1>1, <1>2, <1>4, <1>5, <2>1 DEF ItemSound
<1>7. NamedSound'
  <2>1. \A x \in seen.named :
          /\ x[1] <= utt.n
          /\ x[2] = IF x[1] = utt.n THEN enc.current ELSE seen.acked[x[1]]
          /\ x[1] = utt.n => enc.current # None
    BY DEF NamedSound
  <2>2. \A x \in seen.named : x[1] \in Nat
    BY ServerAssumption DEF ServerTypes, Sent, Utterances
  <2>3. enc.current # None => enc.current = seen.acked[utt.n]
    BY <1>3 DEF ItemSound
  <2>4. \A x \in seen.named :
          /\ x[1] <= utt.n + 1 /\ x[1] # utt.n + 1 /\ x[2] = seen.acked[x[1]]
    BY <1>1, <2>1, <2>2, <2>3
  <2> QED BY <2>4 DEF NamedSound
<1> QED BY <1>6, <1>7

\* An utterance without a name takes the oldest item that was acknowledged.
LEMMA ItemsTaken ==
  ASSUME ServerTypes, FreshSound, ItemSound, NamedSound, dialect = "ie115",
         UNCHANGED <<dialect, client>>, enc.current = None, enc.queued # <<>>,
         enc' = [enc EXCEPT !.current = Head(enc.queued), !.queued = Tail(@)],
         utt'.n = utt.n, utt'.out = <<>>, seen'.acked = seen.acked,
         \A x \in seen'.named : x \in seen.named \/ x = <<utt.n, Head(enc.queued)>>
  PROVE  ItemSound' /\ NamedSound'
<1> DEFINE h == Head(enc.queued)
<1>1. /\ utt.n \in Nat \ {0} /\ client.utt \in Nat \ {0} /\ utt.n <= client.utt
      /\ enc.queued \in Seq(Nat) /\ seen.acked \in Seq(Nat) /\ enc \in Encoders
      /\ Len(seen.acked) = client.utt - 1 /\ DOMAIN seen.acked = 1..client.utt - 1
      /\ enc.minted \in Nat
      /\ \A k, l \in DOMAIN seen.acked : seen.acked[k] = seen.acked[l] => k = l
      /\ \A k \in DOMAIN seen.acked : 0 < seen.acked[k] /\ seen.acked[k] <= enc.minted
  BY ItemNumbers DEF ServerTypes
<1>2. enc.uncommitted = None
  BY DEF ItemSound
<1>3. /\ enc'.current = h /\ enc'.queued = Tail(enc.queued) /\ enc'.uncommitted = None
      /\ enc'.minted = enc.minted
  BY <1>1, <1>2 DEF Encoders
<1>4. /\ h = seen.acked[utt.n] /\ utt.n \in DOMAIN seen.acked
      /\ Follows(Tail(enc.queued), seen.acked, utt.n)
  <2>1. Follows(enc.queued, seen.acked, utt.n - 1) /\ utt.n - 1 \in Nat
    BY <1>1, <1>2 DEF ItemSound
  <2>2. /\ h = seen.acked[(utt.n - 1) + 1] /\ (utt.n - 1) + 1 \in DOMAIN seen.acked
        /\ Follows(Tail(enc.queued), seen.acked, (utt.n - 1) + 1)
    BY <1>1, <2>1, FollowsTail
  <2>3. (utt.n - 1) + 1 = utt.n
    BY <1>1
  <2> QED BY <2>2, <2>3
<1>5. h # None /\ h <= enc.minted /\ utt.n < client.utt
  <2> DEFINE b == seen.acked[utt.n]
  <2>1. h = b /\ b \in Nat /\ 0 < b /\ b <= enc.minted
    BY <1>1, <1>4, SMTT(30)
  <2>2. utt.n \in 1..client.utt - 1
    BY <1>1, <1>4
  <2>3. utt.n < client.utt
    BY <1>1, <2>2
  <2> HIDE DEF b, h
  <2> QED BY <2>1, <2>3 DEF None
<1> HIDE DEF h
<1>6. ItemSound'
  BY <1>1, <1>3, <1>4, <1>5 DEF ItemSound
<1>7. NamedSound'
  <2>1. \A x \in seen.named :
          x[1] <= utt.n /\ x[1] # utt.n /\ x[2] = seen.acked[x[1]]
    BY DEF NamedSound
  <2>2. \A x \in seen'.named : x \in seen.named \/ x = <<utt.n, h>>
    BY DEF h
  <2> QED BY <1>1, <1>3, <1>5, <2>1, <2>2 DEF NamedSound
<1> QED BY <1>6, <1>7

\* One that speaks before any commit names a new item, and says so first.
LEMMA ItemsMinted ==
  ASSUME ServerTypes, FreshSound, ItemSound, NamedSound, dialect = "ie115",
         UNCHANGED <<dialect, client, seen>>, enc.current = None, enc.queued = <<>>,
         NEW i, i = enc.minted + 1,
         enc' = [enc EXCEPT !.minted = i, !.current = i, !.uncommitted = i],
         NEW kind, utt'.n = utt.n, utt'.out = <<<<kind, i>>>>
  PROVE  ItemSound' /\ NamedSound'
<1>1. /\ utt.n \in Nat \ {0} /\ client.utt \in Nat \ {0} /\ utt.n <= client.utt
      /\ seen.acked \in Seq(Nat) /\ enc \in Encoders
      /\ Len(seen.acked) = client.utt - 1 /\ DOMAIN seen.acked = 1..client.utt - 1
      /\ enc.minted \in Nat
      /\ \A k, l \in DOMAIN seen.acked : seen.acked[k] = seen.acked[l] => k = l
      /\ \A k \in DOMAIN seen.acked : 0 < seen.acked[k] /\ seen.acked[k] <= enc.minted
  BY ItemNumbers DEF ServerTypes
<1>2. client.utt = utt.n
  <2>1. Follows(enc.queued, seen.acked, utt.n - 1)
    BY DEF ItemSound
  <2>2. Len(enc.queued) = 0
    OBVIOUS
  <2>3. client.utt - 1 = utt.n - 1
    BY <1>1, <2>1, <2>2 DEF Follows
  <2> QED BY <1>1, <2>3
<1>3. /\ enc'.current = i /\ enc'.queued = <<>> /\ enc'.uncommitted = i /\ enc'.minted = i
      /\ i \in Nat /\ i # None /\ i <= i /\ enc.minted <= i
  BY <1>1 DEF Encoders, None
<1>4. \A k \in DOMAIN seen.acked : seen.acked[k] # i /\ 0 < seen.acked[k] /\ seen.acked[k] <= i
  <2> TAKE k \in DOMAIN seen.acked
  <2>1. seen.acked[k] \in Nat /\ 0 < seen.acked[k] /\ seen.acked[k] <= enc.minted
    BY <1>1
  <2> QED BY <1>1, <2>1
<1>5. ItemSound'
  BY <1>1, <1>2, <1>3, <1>4 DEF ItemSound
<1>6. NamedSound'
  <2>1. \A x \in seen.named :
          x[1] <= utt.n /\ x[1] # utt.n /\ x[2] = seen.acked[x[1]]
    BY DEF NamedSound
  <2>2. /\ Len(<<<<kind, i>>>>) = 1 /\ <<<<kind, i>>>>[1][2] = i
    OBVIOUS
  <2> QED BY <1>3, <2>1, <2>2 DEF NamedSound
<1> QED BY <1>5, <1>6

\* A frame on the item the utterance already has.
LEMMA ItemsNamed ==
  ASSUME ServerTypes, ItemSound, NamedSound, dialect = "ie115",
         UNCHANGED <<dialect, client, enc>>, enc.current # None,
         utt'.n = utt.n, utt'.out = <<>>, seen'.acked = seen.acked,
         \A x \in seen'.named : x \in seen.named \/ x = <<utt.n, enc.current>>
  PROVE  ItemSound' /\ NamedSound'
<1>1. ItemSound'
  BY DEF ItemSound
<1>2. NamedSound'
  <2>1. utt.n <= utt.n
    BY ServerAssumption DEF ServerTypes, Utts
  <2> QED BY <2>1 DEF NamedSound
<1> QED BY <1>1, <1>2

\* A commit acknowledges the item the utterance already named, or a new one.
LEMMA ItemsCommitted ==
  ASSUME ServerTypes, FreshSound, ItemSound, NamedSound, ReadCommit
  PROVE  ItemSound' /\ NamedSound'
<1> DEFINE i == IF enc.uncommitted # None THEN enc.uncommitted ELSE enc.minted + 1
           a == Append(seen.acked, i)
<1>1. /\ dialect = "ie115" /\ UNCHANGED <<dialect, utt>> /\ client'.utt = client.utt + 1
      /\ enc' = commit_frames.enc
  BY DEF ReadCommit, ServerTypes, Clients
<1>2. /\ utt.n \in Nat \ {0} /\ client.utt \in Nat \ {0} /\ utt.n <= client.utt
      /\ enc.queued \in Seq(Nat) /\ seen.acked \in Seq(Nat) /\ enc \in Encoders
      /\ Len(seen.acked) = client.utt - 1 /\ DOMAIN seen.acked = 1..client.utt - 1
      /\ enc.minted \in Nat /\ enc.current \in Nat /\ enc.uncommitted \in Nat
      /\ enc.current <= enc.minted
      /\ \A k, l \in DOMAIN seen.acked : seen.acked[k] = seen.acked[l] => k = l
      /\ \A k \in DOMAIN seen.acked : 0 < seen.acked[k] /\ seen.acked[k] <= enc.minted
  BY <1>1, ItemNumbers DEF ServerTypes
<1>3. seen'.acked = a /\ seen'.named = seen.named
  <2>1. Connected /\ seen' = Written(Head(commit_frames.frames))
    BY DEF ReadCommit, Reading
  <2>2. Head(commit_frames.frames) = <<"ack", i>>
    BY DEF commit_frames
  <2>3. seen' = [seen EXCEPT !.acked = a]
    BY <2>1, <2>2, WrittenForms
  <2> HIDE DEF a
  <2> QED BY <2>3 DEF ServerTypes, Sent
<1>4. /\ Len(a) = client.utt /\ DOMAIN a = 1..client.utt /\ a[client.utt] = i
      /\ \A k \in 1..client.utt - 1 : a[k] = seen.acked[k]
      /\ i \in Nat
  <2>1. i \in Nat
    BY <1>2
  <2>2. /\ Append(seen.acked, i) \in Seq(Nat)
        /\ Len(Append(seen.acked, i)) = Len(seen.acked) + 1
        /\ \A k \in 1..Len(seen.acked) : Append(seen.acked, i)[k] = seen.acked[k]
        /\ Append(seen.acked, i)[Len(seen.acked) + 1] = i
    BY <1>2, <2>1, Longer
  <2>3. (client.utt - 1) + 1 = client.utt
    BY <1>2
  <2>4. DOMAIN a = 1..Len(a)
    BY <2>2
  <2> QED BY <1>2, <2>1, <2>2, <2>3, <2>4
<1>5. /\ i # None
      /\ \A k \in DOMAIN seen.acked : seen.acked[k] # i
      /\ i <= enc'.minted /\ enc.minted <= enc'.minted
      /\ enc'.uncommitted = None /\ enc'.current = enc.current
      /\ enc'.minted \in Nat
  <2>1. CASE enc.uncommitted # None
    <3>1. enc' = [enc EXCEPT !.uncommitted = None]
      BY <1>1, <2>1 DEF commit_frames
    <3>2. i = enc.uncommitted /\ i = enc.current
            /\ \A k \in DOMAIN seen.acked : seen.acked[k] # i
      BY <1>1, <2>1 DEF ItemSound
    <3>3. enc'.minted = enc.minted /\ enc'.uncommitted = None /\ enc'.current = enc.current
      BY <1>2, <3>1 DEF Encoders
    <3> QED BY <1>2, <2>1, <3>2, <3>3
  <2>2. CASE enc.uncommitted = None
    <3>1. enc' = [enc EXCEPT !.minted = enc.minted + 1, !.queued = Append(@, enc.minted + 1)]
            /\ i = enc.minted + 1
      BY <1>1, <2>2 DEF commit_frames
    <3>2. enc'.minted = i /\ enc'.uncommitted = None /\ enc'.current = enc.current
      BY <1>2, <2>2, <3>1 DEF Encoders
    <3>3. \A k \in DOMAIN seen.acked : seen.acked[k] # i
      <4> TAKE k \in DOMAIN seen.acked
      <4>1. seen.acked[k] \in Nat /\ seen.acked[k] <= enc.minted
        BY <1>2
      <4> QED BY <1>2, <3>1, <4>1
    <3> HIDE DEF i
    <3> QED BY <1>2, <3>1, <3>2, <3>3 DEF None
  <2> QED BY <2>1, <2>2
<1> DEFINE Q(k) == Follows(enc'.queued, a, k)
<1>6. /\ enc.current = None => Q(utt.n - 1)
      /\ enc.current # None => Q(utt.n) /\ enc.current = a[utt.n]
  <2>1. CASE enc.uncommitted # None
    <3>1. /\ enc.current = enc.uncommitted /\ enc.queued = <<>> /\ client.utt = utt.n
          /\ i = enc.current
      BY <1>1, <2>1 DEF ItemSound
    <3>2. enc'.queued = <<>>
      BY <1>1, <1>2, <2>1, <3>1 DEF commit_frames, Encoders
    <3>3. Len(<<>>) = 0
      OBVIOUS
    <3> HIDE DEF a, i
    <3> QED BY <1>2, <1>4, <2>1, <3>1, <3>2, <3>3 DEF Follows
  <2>2. CASE enc.uncommitted = None
    <3>1. i = enc.minted + 1 /\ enc'.queued = Append(enc.queued, i)
      BY <1>1, <1>2, <2>2 DEF commit_frames, Encoders
    <3>2. /\ enc.current = None => Follows(enc.queued, seen.acked, utt.n - 1)
          /\ enc.current # None =>
               /\ Follows(enc.queued, seen.acked, utt.n)
               /\ utt.n < client.utt /\ enc.current = seen.acked[utt.n]
      BY <1>1, <2>2 DEF ItemSound
    <3>3. utt.n - 1 \in Nat /\ utt.n \in Nat
      BY <1>2
    <3>4. \A k \in Nat : Follows(enc.queued, seen.acked, k) => Q(k)
      <4> SUFFICES ASSUME NEW k \in Nat, Follows(enc.queued, seen.acked, k)
                   PROVE  Follows(Append(enc.queued, i), Append(seen.acked, i), k)
        BY <3>1
      <4>1. enc.queued \in Seq(Nat) /\ seen.acked \in Seq(Nat) /\ i \in Nat
        BY <1>2, <1>4
      <4> HIDE DEF i
      <4> QED BY ONLY <4>1, k \in Nat, Follows(enc.queued, seen.acked, k), FollowsAppend
    <3>5. enc.current # None => enc.current = a[utt.n]
      <4> HIDE DEF a, i
      <4>1. utt.n < client.utt => utt.n \in 1..client.utt - 1
        BY <1>2
      <4>2. utt.n < client.utt => a[utt.n] = seen.acked[utt.n]
        BY <1>4, <4>1
      <4> QED BY <3>2, <4>2
    <3> QED BY <3>2, <3>3, <3>4, <3>5
  <2> QED BY <2>1, <2>2
<1> HIDE DEF a, i
<1>7. ItemSound'
  <2>1. \A k, l \in DOMAIN a : a[k] = a[l] => k = l
    <3> TAKE k, l \in DOMAIN a
    <3>1. /\ k = client.utt \/ k \in DOMAIN seen.acked
          /\ l = client.utt \/ l \in DOMAIN seen.acked
      BY <1>2, <1>4
    <3> QED BY <1>2, <1>4, <1>5, <3>1
  <2>2. \A k \in DOMAIN a : 0 < a[k] /\ a[k] <= enc'.minted
    <3> TAKE k \in DOMAIN a
    <3>1. CASE k = client.utt
      BY <1>4, <1>5, <3>1 DEF None
    <3>2. CASE k # client.utt
      <4>1. k \in DOMAIN seen.acked /\ a[k] = seen.acked[k] /\ seen.acked[k] \in Nat
        BY <1>2, <1>4, <3>2, SMTT(30)
      <4>2. 0 < a[k] /\ a[k] <= enc.minted /\ a[k] \in Nat
        BY <1>2, <4>1
      <4> QED BY <1>2, <1>5, <4>2
    <3> QED BY <3>1, <3>2
  <2>3. (client.utt + 1) - 1 = client.utt /\ utt.n < client.utt + 1 /\ utt.n <= client.utt + 1
    BY <1>2
  <2>4. enc'.current <= enc'.minted
    BY <1>2, <1>5
  <2> QED BY <1>1, <1>3, <1>4, <1>5, <1>6, <2>1, <2>2, <2>3, <2>4 DEF ItemSound
<1>8. NamedSound'
  <2>1. \A x \in seen.named :
          /\ x[1] <= utt.n
          /\ x[2] = IF x[1] = utt.n THEN enc.current ELSE seen.acked[x[1]]
          /\ x[1] = utt.n => enc.current # None
    BY <1>1 DEF NamedSound
  <2>2. \A x \in seen.named : x[1] \in Nat \ {0}
    BY ServerAssumption DEF ServerTypes, Sent, Utterances
  <2>3. \A x \in seen.named : x[1] # utt.n => a[x[1]] = seen.acked[x[1]]
    <3> TAKE x \in seen.named
    <3>1. x[1] \in Nat \ {0} /\ x[1] <= utt.n
      BY <2>1, <2>2
    <3>2. x[1] # utt.n => x[1] \in 1..client.utt - 1
      BY <1>2, <3>1
    <3> QED BY <1>4, <3>2
  <2>4. utt.out # <<>> =>
          /\ enc.current # None /\ Len(utt.out) = 1 /\ utt.out[1][2] = enc.current
    BY <1>1 DEF NamedSound
  <2> QED BY <1>1, <1>3, <1>5, <2>1, <2>3, <2>4 DEF NamedSound
<1> QED BY <1>7, <1>8

\* An event of the adapter, on the item of its utterance.
LEMMA ItemsEmitted ==
  ASSUME ServerTypes, FreshSound, ItemSound, NamedSound, UNCHANGED <<dialect, client>>,
         NEW kind \in {"delta", "completed"}, NEW t \in BOOLEAN, Emit(kind, t)
  PROVE  ItemSound' /\ NamedSound'
<1>0. seen \in Sent /\ utt \in Utts
  BY DEF ServerTypes
<1>1. \A e, r : EmittedOn(kind, t, e, r) => enc' = e /\ utt'.n = utt.n /\ utt'.out = r
  BY <1>0 DEF EmittedOn, Utts
<1>2. \A i : seen' = Written(<<kind, i>>) =>
        /\ seen'.acked = seen.acked
        /\ \A x \in seen'.named : x \in seen.named \/ x = <<utt.n, i>>
  <2> SUFFICES ASSUME NEW i, seen' = Written(<<kind, i>>)
               PROVE  /\ seen'.acked = seen.acked
                      /\ \A x \in seen'.named : x \in seen.named \/ x = <<utt.n, i>>
    OBVIOUS
  <2>1. \/ seen' = seen
        \/ \E a \in {seen.answered, seen.answered \cup {utt.n}} :
             seen' = [seen EXCEPT !.named = @ \cup {<<utt.n, i>>}, !.answered = a]
    BY WrittenForms
  <2>2. ASSUME NEW a, seen' = [seen EXCEPT !.named = @ \cup {<<utt.n, i>>}, !.answered = a]
        PROVE  seen'.acked = seen.acked /\ seen'.named = seen.named \cup {<<utt.n, i>>}
    BY <1>0, <2>2 DEF Sent
  <2> QED BY <2>1, <2>2
<1>3. CASE dialect # "ie115"
  BY <1>3 DEF ItemSound, NamedSound
<1>4. CASE dialect = "ie115" /\ enc.current # None
  <2>1. EmittedOn(kind, t, enc, <<>>) /\ seen' = Written(<<kind, enc.current>>)
    BY <1>4, EmitForms
  <2> QED BY <1>1, <1>2, <1>4, <2>1, ItemsNamed
<1>5. CASE dialect = "ie115" /\ enc.current = None /\ enc.queued # <<>>
  <2>1. /\ EmittedOn(kind, t, [enc EXCEPT !.current = Head(enc.queued), !.queued = Tail(@)], <<>>)
        /\ seen' = Written(<<kind, Head(enc.queued)>>)
    BY <1>5, EmitForms
  <2> QED BY <1>1, <1>2, <1>5, <2>1, ItemsTaken
<1>6. CASE dialect = "ie115" /\ enc.current = None /\ enc.queued = <<>>
  <2> DEFINE i == enc.minted + 1
  <2>1. /\ EmittedOn(kind, t, [enc EXCEPT !.minted = i, !.current = i, !.uncommitted = i],
                     <<<<kind, i>>>>)
        /\ seen' = Written(<<"created", i>>)
    BY <1>6, EmitForms
  <2>2. seen' = seen
    BY <2>1, WrittenForms
  <2>3. i = enc.minted + 1
    OBVIOUS
  <2> HIDE DEF i
  <2>4. /\ enc' = [enc EXCEPT !.minted = i, !.current = i, !.uncommitted = i]
        /\ utt'.n = utt.n /\ utt'.out = <<<<kind, i>>>>
    BY <1>1, <2>1
  <2>5. UNCHANGED <<dialect, client, seen>> /\ enc.current = None /\ enc.queued = <<>>
          /\ dialect = "ie115"
    BY <1>6, <2>2
  <2> QED BY <2>3, <2>4, <2>5, ItemsMinted
<1> QED BY <1>3, <1>4, <1>5, <1>6

\* Every step keeps what is known of the items.
LEMMA NamesNext ==
  ASSUME ServerTypes, FreshSound, ReaderSound, AnswerSound, OrderSound, ItemSound, NamedSound,
         ServerNext
  PROVE  ItemSound' /\ NamedSound'
<1>0. /\ seen \in Sent /\ utt \in Utts /\ client \in Clients /\ enc \in Encoders
      /\ dialect \in {"none", "ie115", "internal"}
  BY DEF ServerTypes
<1>s. ASSUME UNCHANGED <<dialect, enc>>, utt'.n = utt.n, client'.utt = client.utt,
             utt'.out = utt.out \/ utt'.out = <<>>,
             seen' = seen \/ seen' = Written(<<"error", None>>)
      PROVE  ItemSound' /\ NamedSound'
  BY <1>0, <1>s, ItemsStay, AnswerNamesNothing
<1>1. ASSUME NEW d \in {"ie115", "internal"}, handle(d) PROVE ItemSound' /\ NamedSound'
  <2>1. CASE d # "ie115"
    BY <1>1, <2>1 DEF handle, ItemSound, NamedSound
  <2>2. CASE d = "ie115"
    <3>1. dialect = "none"
      BY <1>1 DEF handle, FreshSound
    <3>2. /\ enc = [queued |-> <<>>, current |-> None, uncommitted |-> None, minted |-> 0]
          /\ utt.n = 0 /\ client.utt = 1 /\ seen.acked = <<>> /\ seen.named = {}
      BY <3>1 DEF FreshSound
    <3>3. /\ enc'.queued = <<>> /\ enc'.current = None /\ enc'.uncommitted = None
          /\ enc'.minted = 0
      <4>1. enc' = begin_utterance
        BY <1>1, <2>2 DEF handle, StartUtterance
      <4>2. /\ enc.queued = <<>> /\ enc.current = None /\ enc.uncommitted = None
            /\ enc.minted = 0
        BY <3>2
      <4> QED BY <1>0, <4>1, <4>2 DEF begin_utterance, Encoders
    <3>4. utt'.n = 1 /\ utt'.out = <<>> /\ UNCHANGED <<client, seen>>
      BY <1>1, <3>2 DEF handle, StartUtterance
    <3>5. Len(<<>>) = 0 /\ DOMAIN <<>> = {}
      OBVIOUS
    <3>6. ItemSound'
      BY <3>2, <3>3, <3>4, <3>5 DEF ItemSound, Follows, None
    <3>7. NamedSound'
      BY <3>2, <3>4 DEF NamedSound
    <3> QED BY <3>6, <3>7
  <2> QED BY <2>1, <2>2
<1>2. CASE _refuse \/ _close \/ PeerLeaves \/ EndInternal \/ ReadFinish \/ ReadEnd \/ _put
           \/ abort_sessions \/ AdapterReturns
  BY <1>2, <1>s DEF _refuse, _close, PeerLeaves, EndInternal, ReadFinish, ReadEnd, _put,
       abort_sessions, AdapterReturns
<1>3. CASE _run_utterance
  <2>1. utt'.n = utt.n /\ utt'.out = <<>>
    BY <1>0, <1>3 DEF _run_utterance, Utts
  <2> QED BY <1>3, <1>s, <2>1 DEF _run_utterance
<1>4. CASE drain \/ AdapterReads
  <2>1. utt'.n = utt.n /\ utt'.out = utt.out
    BY <1>0, <1>4 DEF drain, AdapterReads, get, Utts
  <2> QED BY <1>4, <1>s, <2>1 DEF drain, AdapterReads
<1>5. CASE NextUtterance
  <2>1. CASE UNCHANGED <<utt, enc, seen>>
    BY <1>5, <1>s, <2>1 DEF NextUtterance
  <2>2. CASE utt.ended /\ ~utt.closed /\ StartUtterance(dialect) /\ UNCHANGED seen
    <3>1. seen'.acked = seen.acked /\ seen'.named = seen.named
      BY <2>2
    <3>2. dialect = "ie115" /\ UNCHANGED <<dialect, client>>
      BY <1>5 DEF NextUtterance
    <3>3. enc' = begin_utterance /\ utt'.n = utt.n + 1 /\ utt'.out = <<>>
      BY <2>2, <3>2 DEF StartUtterance
    <3> QED BY <2>2, <3>1, <3>2, <3>3, ItemsRetire
  <2>3. CASE MakeUp
    <3>1. utt'.n = utt.n /\ utt'.out = utt.out
      BY <1>0, <2>3 DEF MakeUp, Utts
    <3>2. UNCHANGED <<dialect, client>>
      BY <1>5, NextParts
    <3> QED BY <1>s, <2>3, <3>1, <3>2 DEF MakeUp
  <2> QED BY <1>5, <2>1, <2>2, <2>3, NextParts
<1>6. CASE EmitSends
  <2>1. utt.out # <<>> /\ seen' = Written(Head(utt.out)) /\ utt' = [utt EXCEPT !.out = Tail(@)]
          /\ UNCHANGED <<dialect, client, enc>>
    BY <1>6 DEF EmitSends
  <2>2. CASE dialect # "ie115"
    BY <2>1, <2>2 DEF ItemSound, NamedSound
  <2>3. CASE dialect = "ie115"
    <3>1. enc.current # None /\ Len(utt.out) = 1 /\ utt.out[1][2] = enc.current
      BY <2>1, <2>3 DEF NamedSound
    <3>2. /\ utt.out \in Seq({"delta", "completed"} \X Nat)
      BY <1>0 DEF Utts
    <3>3. /\ Head(utt.out) = utt.out[1] /\ Head(utt.out) \in {"delta", "completed"} \X Nat
          /\ Tail(utt.out) = <<>>
      BY <2>1, <3>1, <3>2, Shorter
    <3>4. PICK kind \in {"delta", "completed"} : Head(utt.out) = <<kind, enc.current>>
      BY <3>1, <3>3
    <3>5. \/ Written(<<kind, enc.current>>) = seen
          \/ \E a \in {seen.answered, seen.answered \cup {utt.n}} :
               Written(<<kind, enc.current>>) =
                 [seen EXCEPT !.named = @ \cup {<<utt.n, enc.current>>}, !.answered = a]
      BY WrittenForms
    <3>6. /\ seen'.acked = seen.acked
          /\ \A x \in seen'.named : x \in seen.named \/ x = <<utt.n, enc.current>>
      BY <1>0, <2>1, <3>4, <3>5, ZenonT(40) DEF Sent
    <3>7. utt'.n = utt.n /\ utt'.out = <<>>
      BY <1>0, <2>1, <3>3 DEF Utts
    <3> QED BY <2>1, <2>3, <3>1, <3>6, <3>7, ItemsNamed
  <2> QED BY <2>2, <2>3
<1>7. CASE AdapterEmits
  BY <1>7, ItemsEmitted DEF AdapterEmits
<1>8. CASE AdapterFinishes
  BY <1>8, ItemsEmitted DEF AdapterFinishes
<1>9. CASE AdapterRejects
  <2>1. utt'.n = utt.n /\ utt'.out = utt.out
    BY <1>0, <1>9 DEF AdapterRejects, Utts
  <2> QED BY <1>9, <1>s, <2>1 DEF AdapterRejects
<1>10. ASSUME NEW n \in 1..MaxChunks, ReadAudio(n) PROVE ItemSound' /\ NamedSound'
  <2>1. client'.utt = client.utt
    BY <1>0, <1>10 DEF ReadAudio, Clients
  <2> QED BY <1>10, <1>s, <2>1 DEF ReadAudio
<1>11. CASE ReadCommit
  BY <1>11, ItemsCommitted
<1>12. CASE ReadBad
  <2>1. client'.utt = client.utt
    BY <1>0, <1>12 DEF ReadBad, Clients
  <2> QED BY <1>12, <1>s, <2>1 DEF ReadBad
<1>13. CASE ReaderSends
  <2>1. reader.out \in Seq({"created"} \X Nat)
    BY DEF ServerTypes, Readers
  <2>2. Head(reader.out) \in {"created"} \X Nat
    BY <1>13, <2>1, Shorter DEF ReaderSends
  <2>3. PICK i : Head(reader.out) = <<"created", i>>
    BY <2>2
  <2>4. seen' = seen
    BY <1>13, <2>3, WrittenForms DEF ReaderSends
  <2> QED BY <1>13, <1>s, <2>4 DEF ReaderSends
<1>14. CASE PutTail
  <2>1. client'.utt = client.utt
    BY <1>0, <1>14 DEF PutTail, Clients
  <2> QED BY <1>14, <1>s, <2>1 DEF PutTail
<1> QED
  BY <1>1, <1>2, <1>3, <1>4, <1>5, <1>6, <1>7, <1>8, <1>9, <1>10, <1>11, <1>12, <1>13, <1>14
     DEF ServerNext, Handler, Adapter, Reader, Client

-----------------------------------------------------------------------------
\* Every step of the connection, and one that changes nothing, keep the
\* invariant.
LEMMA ServerNextInv == ServerInv /\ [ServerNext]_svars => ServerInv'
<1> SUFFICES ASSUME ServerInv, [ServerNext]_svars PROVE ServerInv'
  OBVIOUS
<1>1. CASE ServerNext
  <2> USE DEF ServerInv
  <2>1. ServerTypes' /\ FreshSound'
    BY <1>1, TypesNext, FreshNext
  <2>2. ReaderSound' /\ AnswerSound' /\ RoomSound'
    BY <1>1, ReaderNext, AnswerNext, RoomNext
  <2>3. OrderSound' /\ StreamSound'
    BY <1>1, StreamNext
  <2>4. ItemSound' /\ NamedSound'
    BY <1>1, NamesNext
  <2> QED BY <2>1, <2>2, <2>3, <2>4
<1>2. CASE UNCHANGED svars
  BY <1>2
     DEF svars, ServerInv, ServerTypes, FreshSound, ReaderSound, AnswerSound, OrderSound, StreamSound,
         RoomSound, ItemSound, NamedSound, Serving, CommitWaits, Waiting, Latest, Rest,
         Connected
<1> QED BY <1>1, <1>2

\* The connection of core/transport_ws.py keeps its invariant, whatever the
\* client sends, the adapter does and the event loop schedules.
THEOREM ServerAlways == Spec => []ServerInv
<1>1. ServerInit => ServerInv
  BY ServerInitInv
<1>2. ServerInv /\ [ServerNext]_svars => ServerInv'
  BY ServerNextInv
<1> QED BY <1>1, <1>2, PTL DEF Spec

\* The deltas and the completed of an utterance name the item its own commit
\* acknowledged, and no two utterances share an item (Ie115Encoder, with the
\* reader acknowledging commits while an earlier utterance is served).
THEOREM OwnItemKept == Spec => []OwnItem
<1>1. ServerInv => OwnItem
  <2> SUFFICES ASSUME ServerInv, dialect = "ie115"
               PROVE  /\ \A x \in seen.named :
                           x[1] \in DOMAIN seen.acked => seen.acked[x[1]] = x[2]
                      /\ \A x, y \in seen.named : x[2] = y[2] <=> x[1] = y[1]
    BY DEF OwnItem
  <2>1. /\ utt.n \in Nat \ {0} /\ client.utt \in Nat \ {0} /\ utt.n <= client.utt
        /\ DOMAIN seen.acked = 1..client.utt - 1
        /\ \A k, l \in DOMAIN seen.acked : seen.acked[k] = seen.acked[l] => k = l
    BY ItemNumbers DEF ServerInv
  <2>2. \A x \in seen.named :
          /\ x[1] <= utt.n
          /\ x[2] = IF x[1] = utt.n THEN enc.current ELSE seen.acked[x[1]]
          /\ x[1] = utt.n => enc.current # None
    BY DEF ServerInv, NamedSound
  <2>3. \A x \in seen.named : x[1] \in Nat \ {0}
    BY ServerAssumption DEF ServerInv, ServerTypes, Sent, Utterances
  <2>4. enc.uncommitted = None /\ enc.current # None =>
          utt.n < client.utt /\ enc.current = seen.acked[utt.n]
    BY DEF ServerInv, ItemSound
  <2>5. enc.uncommitted # None =>
          /\ client.utt = utt.n
          /\ \A k \in DOMAIN seen.acked : seen.acked[k] # enc.current
    BY DEF ServerInv, ItemSound
  <2>6. \A x \in seen.named : x[1] # utt.n => x[1] \in DOMAIN seen.acked
    BY <2>1, <2>2, <2>3
  <2>7. utt.n \in DOMAIN seen.acked => enc.uncommitted = None
    BY <2>1, <2>5
  <2>8. utt.n < client.utt => utt.n \in DOMAIN seen.acked
    BY <2>1
  <2>9. \A x \in seen.named : x[1] \in DOMAIN seen.acked => seen.acked[x[1]] = x[2]
    BY <2>2, <2>4, <2>7
  <2>10. ASSUME NEW x \in seen.named, NEW y \in seen.named, x[2] = y[2] PROVE x[1] = y[1]
    <3>1. CASE x[1] \in DOMAIN seen.acked /\ y[1] \in DOMAIN seen.acked
      BY <2>1, <2>9, <2>10, <3>1
    <3>2. CASE x[1] \notin DOMAIN seen.acked \/ y[1] \notin DOMAIN seen.acked
      <4>1. enc.uncommitted # None
        BY <2>2, <2>4, <2>6, <2>8, <3>2
      <4>2. \A k \in DOMAIN seen.acked : seen.acked[k] # enc.current
        BY <2>5, <4>1
      <4>3. CASE x[1] = utt.n /\ y[1] # utt.n
        <5>1. x[2] = enc.current /\ y[2] = seen.acked[y[1]] /\ y[1] \in DOMAIN seen.acked
          BY <2>2, <2>6, <4>3
        <5> QED BY <2>10, <4>2, <5>1
      <4>4. CASE x[1] # utt.n /\ y[1] = utt.n
        <5>1. y[2] = enc.current /\ x[2] = seen.acked[x[1]] /\ x[1] \in DOMAIN seen.acked
          BY <2>2, <2>6, <4>4
        <5> QED BY <2>10, <4>2, <5>1
      <4> QED BY <2>6, <3>2, <4>3, <4>4
    <3> QED BY <3>1, <3>2
  <2> QED BY <2>2, <2>9, <2>10
<1> QED BY <1>1, ServerAlways, PTL

\* An adapter hears the audio of its own utterance and nothing else, and all of
\* it once it was told that the utterance is over (_Ingress and _Utterance, the
\* reader putting audio of up to two later utterances meanwhile).
THEOREM OwnAudioKept == Spec => []OwnAudio
<1>1. ServerInv => OwnAudio
  BY DEF ServerInv, OrderSound, OwnAudio
<1> QED BY <1>1, ServerAlways, PTL

\* The ingress holds its capacity and one boundary, and the encoder three
\* acknowledged items (_has_room and the one-pending-commit rule).
THEOREM BoundedKept == Spec => []Bounded
<1>1. ServerInv => Bounded
  <2> SUFFICES ASSUME ServerInv PROVE Bounded
    OBVIOUS
  <2>0. ServerTypes /\ FreshSound /\ OrderSound /\ RoomSound /\ ItemSound
    BY DEF ServerInv
  <2>1. /\ utt.ended \in BOOLEAN /\ enc.queued \in Seq(Nat) /\ seen.acked \in Seq(Nat)
        /\ enc.minted \in Nat /\ ingress.items \in Seq(0..MaxCommits + 1)
        /\ utt.n \in 0..MaxCommits + 1 /\ seen.answered \subseteq 1..MaxCommits + 1
    BY <2>0 DEF ServerTypes, Utts, Encoders, Sent, Ingresses, Utterances
  <2>2. enc.queued \in Seq(1..enc.minted) /\ Len(enc.queued) <= 3
    <3>1. CASE dialect # "ie115"
      <4>1. enc.queued = <<>>
        BY <2>0, <3>1 DEF FreshSound
      <4> QED BY <4>1
    <3>2. CASE dialect = "ie115" /\ enc.uncommitted # None
      <4>1. enc.queued = <<>>
        BY <2>0, <3>2 DEF ItemSound
      <4> QED BY <4>1
    <3>3. CASE dialect = "ie115" /\ enc.uncommitted = None
      <4> DEFINE k == IF enc.current = None THEN utt.n - 1 ELSE utt.n
      <4>1. /\ utt.n \in Nat \ {0} /\ client.utt \in Nat \ {0} /\ utt.n <= client.utt
            /\ Len(seen.acked) = client.utt - 1 /\ DOMAIN seen.acked = 1..client.utt - 1
            /\ \A j \in DOMAIN seen.acked : 0 < seen.acked[j] /\ seen.acked[j] <= enc.minted
        BY <2>0, <3>3, ItemNumbers
      <4>2. Follows(enc.queued, seen.acked, k)
        BY <2>0, <3>3 DEF ItemSound
      <4>3. k \in Nat /\ utt.n - 1 <= k
        BY <4>1
      <4>4. client.utt <= utt.n + 3
        <5>1. client.utt <= Serving + 2
          BY <2>0, <3>3 DEF OrderSound
        <5>2. Serving \in Nat /\ Serving <= utt.n + 1
          BY <4>1 DEF Serving
        <5> QED BY <4>1, <5>1, <5>2
      <4> DEFINE m == Len(enc.queued)
      <4> HIDE DEF k, m
      <4>5. /\ m \in Nat /\ client.utt - 1 = k + m
            /\ \A j \in 1..m : enc.queued[j] = seen.acked[k + j]
        BY <2>1, <4>1, <4>2 DEF Follows, m
      <4>6. m <= 3
        BY <4>1, <4>3, <4>4, <4>5
      <4>7. \A j \in 1..m : enc.queued[j] \in 1..enc.minted
        <5> TAKE j \in 1..m
        <5>1. k + j \in DOMAIN seen.acked
          BY <4>1, <4>3, <4>5
        <5> DEFINE b == seen.acked[k + j]
        <5>2. b \in Nat /\ 0 < b /\ b <= enc.minted
          <6>1. \A n \in DOMAIN seen.acked : seen.acked[n] \in Nat
            BY <2>1
          <6> QED BY <4>1, <5>1, <6>1
        <5>3. enc.queued[j] = b
          BY <4>5
        <5> HIDE DEF b
        <5>4. b \in 1..enc.minted
          BY <2>1, <5>2
        <5> QED BY <5>3, <5>4
      <4> DEFINE q == enc.queued
                 R == 1..enc.minted
      <4>8. q \in Seq(Nat) /\ \A j \in 1..Len(q) : q[j] \in R
        BY <2>1, <4>7 DEF m
      <4> HIDE DEF q, R
      <4>9. q \in Seq(R)
        BY <4>8
      <4> QED BY <4>6, <4>9 DEF m, q, R
    <3> QED BY <3>1, <3>2, <3>3
  <2>3. TypeOK
    BY <2>0, <2>1, <2>2 DEF TypeOK, ServerTypes, Sessions, Readers
  <2>4. Cardinality({i \in DOMAIN ingress.items : ingress.items[i] = Boundary}) <= 1
    <3> DEFINE B == {i \in DOMAIN ingress.items : ingress.items[i] = Boundary}
    <3>1. B = {} \/ \E i \in B : B = {i}
      BY <2>0 DEF RoomSound
    <3>2. Cardinality({}) = 0 /\ \A i : Cardinality({i}) = 1
      BY FS_EmptySet, FS_Singleton
    <3> HIDE DEF B
    <3>3. ASSUME NEW i \in B, B = {i} PROVE Cardinality(B) <= 1
      <4>1. Cardinality(B) = 1
        BY <3>2, <3>3
      <4> QED BY <4>1
    <3>4. Cardinality(B) <= 1
      <4>1. CASE B = {}
        <5>1. Cardinality(B) = 0
          BY <3>2, <4>1
        <5> QED BY <5>1
      <4> QED BY <3>1, <3>3, <4>1
    <3> QED BY <3>4 DEF B
  <2> QED BY <2>0, <2>2, <2>3, <2>4 DEF Bounded, RoomSound
<1> QED BY <1>1, ServerAlways, PTL
=============================================================================
