-------------------------- MODULE ControllerProofs --------------------------
(***************************************************************************)
(* Proofs about the desktop controller: in whatever order edges, losses of *)
(* the field, events and results arrive, for any backlog, event queue and  *)
(* number of texts, an utterance makes no illegal transition, leaves the   *)
(* toggle ready, inserts its text in order, and hides the indicator only   *)
(* when the target accepted all of it.                                     *)
(***************************************************************************)
EXTENDS ControllerMachine, FsmProofs, FiniteSetTheorems

-----------------------------------------------------------------------------
(***************************************************************************)
(* The invariant.                                                          *)
(***************************************************************************)

Indicators == {"hidden", "recording", "finalizing", "no_speech", "focus_lost",
               "degraded", "restart", "critical"}
Results == {Pending, "completed", "failed", "handshake_error", "restart"}
Losses == {"held", "lost", "gone"}
Locals == [trigger_open : BOOLEAN, focus_open : BOOLEAN, stats_open : BOOLEAN,
           events_open : BOOLEAN, done : Results \cup {"gone"}, ending : Endings,
           stop : BOOLEAN, pending : Seq(Nat), dropped : BOOLEAN, fault : BOOLEAN,
           seen : Losses, shown : Indicators \cup {"none"}]

ControllerTypes ==
  /\ TypeOK
  /\ u \in Locals /\ queue \in Seq(OrchestratorEvents) /\ field \in Seq(Nat)
  /\ held \in Seq(Nat) /\ misfire \in BOOLEAN /\ orphan \in BOOLEAN

\* An utterance whose target is gone has its key released and reads no more of
\* it; an indicator that says finishing is never ahead of the controller.
ControlSound ==
  /\ NoIllegalTransition /\ ParityRestored
  /\ Looping /\ u.ending = "TargetGone" => ~pressed /\ ~u.trigger_open
  /\ Looping /\ indicator = "finalizing" => state = "Finalizing"

\* The texts among the events of a queue.
Finals(q) == Cardinality({i \in DOMAIN q : q[i] = "Final"})

\* A text the session emitted has been read or waits in the queue; a closed
\* queue is empty and stays so.
QueueSound ==
  /\ finals + Finals(queue) = produced
  /\ Looping /\ result = Pending => ~is_terminal(fsm.session)
  /\ Looping /\ u.done # Pending => u.done = result
  /\ Looping /\ ~u.events_open => queue = <<>> /\ u.done # Pending

\* What the target took, into the field or until focus is back, and what waits
\* for a boundary is, in order, what was read, unless a text was dropped or an
\* insertion failed.
Numbers(n) == [i \in 1..n |-> i]
Taken == field \o held
Told == Taken \o u.pending
TextSound ==
  /\ Increasing(Told)
  /\ \A i \in DOMAIN Told : Told[i] \in 1..finals
  /\ ~Looping => u.pending = <<>>
  /\ Looping /\ ~u.dropped /\ ~misfire => Told = Numbers(finals)
  /\ state = "Idle" /\ indicator = "hidden" /\ ~misfire => Taken = Numbers(produced)

ControllerInv == ControllerTypes /\ ControlSound /\ QueueSound /\ TextSound

-----------------------------------------------------------------------------
(***************************************************************************)
(* The trigger.                                                            *)
(***************************************************************************)

\* What is read next.
LEMMA WaitingIs ==
  ASSUME TriggerTypeOK
  PROVE  /\ Waiting \in Seq(Gaps)
         /\ Waiting # <<>> => Head(Waiting) \in Gaps
         /\ later = <<>> => Waiting = rx
BY DEF TriggerTypeOK, Waiting

\* Taking a poke leaves a shorter backlog.
LEMMA PokeTaken ==
  ASSUME TriggerTypeOK, Waiting # <<>>
  PROVE  LET q == IF later = <<>> THEN Tail(rx) ELSE rx
         IN  q \in Seq(Gaps) /\ Len(q) <= Backlog
<1>1. rx \in Seq(Gaps) /\ Len(rx) <= Backlog /\ Backlog \in Nat
  BY BacklogAssumption DEF TriggerTypeOK
<1>2. CASE later = <<>>
  <2>1. rx # <<>>
    BY <1>2, WaitingIs
  <2>2. Tail(rx) \in Seq(Gaps) /\ Len(Tail(rx)) = Len(rx) - 1
    BY <1>1, <2>1
  <2> QED BY <1>1, <1>2, <2>2
<1>3. CASE later # <<>>
  BY <1>1, <1>3
<1> QED BY <1>2, <1>3

\* The types of the next state, one by one.
LEMMA TriggerTyped ==
  ASSUME rx' \in Seq(Gaps), Len(rx') <= Backlog, later' \in Seq(Gaps), Len(later') <= 1,
         since' \in Gaps, missed' \in BOOLEAN, pressed' \in BOOLEAN, candidate' \in BOOLEAN,
         streaming' \in BOOLEAN
  PROVE  TriggerTypeOK'
<1>1. {missed', pressed', candidate', streaming'} \subseteq BOOLEAN
  BY Zenon
<1> QED BY <1>1, Zenon DEF TriggerTypeOK

\* Its flags.
LEMMA TriggerFlags ==
  TriggerTypeOK => /\ missed \in BOOLEAN /\ pressed \in BOOLEAN
                   /\ candidate \in BOOLEAN /\ streaming \in BOOLEAN
BY Zenon DEF TriggerTypeOK

\* Every reading of the trigger, and every poke, keeps its types.
LEMMA TriggerKeeps ==
  ASSUME TriggerTypeOK, EdgeRead \/ NoEdgeYet \/ poke \/ TimePasses
  PROVE  TriggerTypeOK'
<1> DEFINE q == IF later = <<>> THEN Tail(rx) ELSE rx
<1>1. Waiting # <<>> => q \in Seq(Gaps) /\ Len(q) <= Backlog
  BY PokeTaken
<1>2. Waiting # <<>> => Head(Waiting) \in Gaps
  BY WaitingIs
<1>3. <<>> \in Seq(Gaps) /\ Len(<<>>) = 0
  OBVIOUS
<1>4. rx' \in Seq(Gaps) /\ Len(rx') <= Backlog
  <2>0. rx \in Seq(Gaps) /\ Len(rx) <= Backlog /\ Backlog \in Nat /\ since \in Gaps
    BY BacklogAssumption DEF TriggerTypeOK
  <2>1. CASE poke
    BY <2>0, <2>1 DEF poke
  <2>2. CASE TimePasses \/ CandidateTimesOut
    BY <2>0, <2>2 DEF TimePasses, CandidateTimesOut
  <2>3. CASE TakeArrival
    <3>1. rx' = q /\ Waiting # <<>>
      BY <2>3 DEF TakeArrival
    <3> QED BY <1>1, <3>1
  <2>4. CASE CandidateStands
    <3>1. rx' = q /\ Waiting # <<>>
      BY <2>4 DEF CandidateStands
    <3> QED BY <1>1, <3>1
  <2> QED BY <2>1, <2>2, <2>3, <2>4
          DEF EdgeRead, NoEdgeYet, FreshPress, SkipRepeat, Consider, CandidateRepeats
<1>5. later' \in Seq(Gaps) /\ Len(later') <= 1
  <2>0. later \in Seq(Gaps) /\ Len(later) <= 1
    BY DEF TriggerTypeOK
  <2>1. CASE CandidateStands
    <3>1. <<Head(Waiting)>> \in Seq(Gaps) /\ Len(<<Head(Waiting)>>) = 1
      BY <1>2, <2>1 DEF CandidateStands
    <3> QED BY <2>1, <3>1 DEF CandidateStands
  <2>2. CASE TakeArrival
    BY <1>3, <2>2 DEF TakeArrival
  <2>3. CASE poke \/ TimePasses \/ CandidateTimesOut
    BY <2>0, <2>3 DEF poke, TimePasses, CandidateTimesOut
  <2> QED BY <2>1, <2>2, <2>3
          DEF EdgeRead, NoEdgeYet, FreshPress, SkipRepeat, Consider, CandidateRepeats
<1>6. since' \in Gaps
  <2>1. since \in Gaps
    BY DEF TriggerTypeOK
  <2> QED BY <2>1 DEF EdgeRead, NoEdgeYet, FreshPress, SkipRepeat, Consider, CandidateRepeats,
            CandidateStands, CandidateTimesOut, poke, TimePasses, arrivalVars, Gaps
<1>7. missed' \in BOOLEAN /\ pressed' \in BOOLEAN /\ candidate' \in BOOLEAN
        /\ streaming' \in BOOLEAN
  <2>1. missed \in BOOLEAN /\ pressed \in BOOLEAN /\ candidate \in BOOLEAN
          /\ streaming \in BOOLEAN
    BY TriggerFlags
  <2>2. missed' \in BOOLEAN
    <3>1. CASE poke
      <4>1. missed' = (Len(rx) >= Backlog)
        BY <3>1 DEF poke
      <4>2. (Len(rx) >= Backlog) \in BOOLEAN
        OBVIOUS
      <4> QED BY <4>1, <4>2, Zenon
    <3>2. CASE ~poke
      <4>1. missed' = missed
        BY <3>2 DEF EdgeRead, NoEdgeYet, FreshPress, SkipRepeat, Consider, CandidateRepeats,
                    CandidateStands, CandidateTimesOut, TimePasses, arrivalVars
      <4> QED BY <2>1, <4>1, Zenon
    <3> QED BY <3>1, <3>2
  <2>3. pressed' \in BOOLEAN
    BY <2>1, ZenonT(40) DEF EdgeRead, NoEdgeYet, FreshPress, SkipRepeat, Consider,
         CandidateRepeats, CandidateStands, CandidateTimesOut, poke, TimePasses, toggle
  <2>4. candidate' \in BOOLEAN
    BY <2>1, ZenonT(40) DEF EdgeRead, NoEdgeYet, FreshPress, SkipRepeat, Consider,
         CandidateRepeats, CandidateStands, CandidateTimesOut, poke, TimePasses
  <2>5. streaming' \in BOOLEAN
    BY <2>1, ZenonT(40) DEF EdgeRead, NoEdgeYet, FreshPress, SkipRepeat, Consider,
         CandidateRepeats, CandidateStands, CandidateTimesOut, poke, TimePasses
  <2> QED BY <2>2, <2>3, <2>4, <2>5, Zenon
<1> QED BY <1>4, <1>5, <1>6, <1>7, TriggerTyped

\* Putting the parity back, and discarding what is queued, keep them too.
LEMMA TriggerReset ==
  ASSUME TriggerTypeOK, UNCHANGED <<missed, since, streaming>>,
         pressed' \in BOOLEAN,
         UNCHANGED <<rx, later, candidate>> \/ discard_pending
  PROVE  TriggerTypeOK'
<1>1. rx \in Seq(Gaps) /\ Len(rx) <= Backlog /\ later \in Seq(Gaps) /\ Len(later) <= 1
        /\ since \in Gaps
  BY DEF TriggerTypeOK
<1>2. <<>> \in Seq(Gaps) /\ Len(<<>>) = 0 /\ 0 <= Backlog /\ 0 <= 1
  BY BacklogAssumption
<1>3. rx' \in Seq(Gaps) /\ Len(rx') <= Backlog /\ later' \in Seq(Gaps) /\ Len(later') <= 1
        /\ since' \in Gaps
  <2>1. CASE UNCHANGED <<rx, later, candidate>>
    BY <1>1, <2>1
  <2>2. CASE discard_pending
    <3>1. rx' = <<>> /\ later' = <<>> /\ since' = since
      BY <2>2 DEF discard_pending
    <3> QED BY <1>1, <1>2, <3>1
  <2> QED BY <2>1, <2>2
<1>4. missed' \in BOOLEAN /\ streaming' \in BOOLEAN
  <2>1. missed' = missed /\ streaming' = streaming
    OBVIOUS
  <2> QED BY <2>1, TriggerFlags, Zenon
<1>5. candidate' \in BOOLEAN
  <2>1. candidate' = candidate \/ candidate' = FALSE
    BY DEF discard_pending
  <2> QED BY <2>1, TriggerFlags, Zenon
<1> QED BY <1>3, <1>4, <1>5, TriggerTyped

\* Only an edge changes the parity, and every edge does.
LEMMA EdgesToggle ==
  ASSUME TriggerTypeOK
  PROVE  /\ EdgeRead => pressed' = ~pressed
         /\ NoEdgeYet \/ poke \/ TimePasses => pressed' = pressed
BY DEF EdgeRead, FreshPress, CandidateStands, CandidateTimesOut, NoEdgeYet, SkipRepeat,
       Consider, CandidateRepeats, poke, TimePasses, toggle

-----------------------------------------------------------------------------
(***************************************************************************)
(* Queues, texts and the texts in a queue.                                 *)
(***************************************************************************)

\* A queue without its first event.
LEMMA Shorter ==
  ASSUME NEW S, NEW s \in Seq(S), s # <<>>
  PROVE  /\ Tail(s) \in Seq(S) /\ Head(s) \in S /\ Head(s) = s[1]
         /\ Len(s) \in Nat \ {0} /\ Len(Tail(s)) = Len(s) - 1
         /\ \A i \in 1..Len(s) - 1 : Tail(s)[i] = s[i + 1]
OBVIOUS

\* A sequence with one more item.
LEMMA Longer ==
  ASSUME NEW S, NEW s \in Seq(S), NEW x \in S
  PROVE  /\ Append(s, x) \in Seq(S) /\ Len(Append(s, x)) = Len(s) + 1
         /\ \A i \in 1..Len(s) : Append(s, x)[i] = s[i]
         /\ Append(s, x)[Len(s) + 1] = x
OBVIOUS

\* Sequences with the same items are the same.
LEMMA SameItems ==
  ASSUME NEW S, NEW s \in Seq(S), NEW t \in Seq(S), Len(s) = Len(t),
         \A i \in 1..Len(s) : s[i] = t[i]
  PROVE  s = t
OBVIOUS

\* Joining nothing.
LEMMA JoinedNothing ==
  ASSUME NEW S, NEW s \in Seq(S) PROVE s \o <<>> = s /\ <<>> \o s = s
OBVIOUS

\* Joining one event, to any, to one, and to two.
LEMMA JoinedOne ==
  ASSUME NEW S, NEW s \in Seq(S), NEW x \in S PROVE s \o <<x>> = Append(s, x)
OBVIOUS

\* A sequence of two, one by one.
LEMMA JoinedTwo ==
  ASSUME NEW S, NEW x \in S, NEW y \in S
  PROVE  <<x>> \o <<y>> = <<x, y>>
<1> DEFINE s == <<x>>
           c == <<x, y>>
<1>0. s \in Seq(S)
  OBVIOUS
<1>1. /\ Len(s) = 1 /\ s[1] = x
      /\ c \in Seq(S) /\ Len(c) = 2 /\ c[1] = x /\ c[2] = y
  OBVIOUS
<1> HIDE DEF s, c
<1> DEFINE t == Append(s, y)
<1>2. /\ t \in Seq(S) /\ Len(t) = Len(s) + 1 /\ t[Len(s) + 1] = y
      /\ \A i \in 1..Len(s) : t[i] = s[i]
  BY <1>0
<1> HIDE DEF t
<1>3. ASSUME NEW i \in 1..Len(t) PROVE t[i] = c[i]
  <2>1. i = 1 \/ i = 2
    BY <1>1, <1>2
  <2> QED BY <1>1, <1>2, <2>1
<1>4. t = c
  <2>1. Len(t) = Len(c)
    BY <1>1, <1>2
  <2> QED BY <1>1, <1>2, <1>3, <2>1, SameItems
<1>5. s \o <<y>> = t
  BY <1>0, JoinedOne DEF t
<1> QED BY <1>4, <1>5 DEF s, c

\* A sequence of three, one by one.
LEMMA JoinedThree ==
  ASSUME NEW S, NEW x \in S, NEW y \in S, NEW z \in S
  PROVE  <<x, y>> \o <<z>> = <<x, y, z>>
<1> DEFINE s == <<x, y>>
           c == <<x, y, z>>
<1>0. s \in Seq(S)
  OBVIOUS
<1>1. /\ Len(s) = 2 /\ s[1] = x /\ s[2] = y
      /\ c \in Seq(S) /\ Len(c) = 3 /\ c[1] = x /\ c[2] = y /\ c[3] = z
  OBVIOUS
<1> HIDE DEF s, c
<1> DEFINE t == Append(s, z)
<1>2. /\ t \in Seq(S) /\ Len(t) = Len(s) + 1 /\ t[Len(s) + 1] = z
      /\ \A i \in 1..Len(s) : t[i] = s[i]
  BY <1>0
<1> HIDE DEF t
<1>3. ASSUME NEW i \in 1..Len(t) PROVE t[i] = c[i]
  <2>1. i = 1 \/ i = 2 \/ i = 3
    BY <1>1, <1>2
  <2> QED BY <1>1, <1>2, <2>1
<1>4. t = c
  <2>1. Len(t) = Len(c)
    BY <1>1, <1>2
  <2> QED BY <1>1, <1>2, <1>3, <2>1, SameItems
<1>5. s \o <<z>> = t
  BY <1>0, JoinedOne DEF t
<1> QED BY <1>4, <1>5 DEF s, c

\* Joining in turn.
LEMMA JoinedInTurn ==
  ASSUME NEW s \in Seq(Nat), NEW t \in Seq(Nat), NEW r \in Seq(Nat)
  PROVE  (s \o t) \o r = s \o (t \o r)
<1> DEFINE a == (s \o t) \o r
           b == s \o (t \o r)
<1>1. /\ a \in Seq(Nat) /\ b \in Seq(Nat) /\ Len(a) = Len(b) /\ Len(a) = Len(s) + Len(t) + Len(r)
      /\ Len(s) \in Nat /\ Len(t) \in Nat /\ Len(r) \in Nat
  OBVIOUS
<1>2. ASSUME NEW i \in 1..Len(a) PROVE a[i] = b[i]
  <2>1. CASE i \in 1..Len(s)
    BY <2>1
  <2>2. CASE i \in Len(s) + 1..Len(s) + Len(t)
    BY <2>2
  <2>3. CASE i \in Len(s) + Len(t) + 1..Len(s) + Len(t) + Len(r)
    BY <2>3
  <2> HIDE DEF a, b
  <2> QED BY <1>1, <2>1, <2>2, <2>3
<1> HIDE DEF a, b
<1>3. a = b
  BY <1>1, <1>2, SameItems
<1> QED BY <1>3 DEF a, b

\* A sequence cut in two.
LEMMA Cut ==
  ASSUME NEW S, NEW s \in Seq(S), NEW n \in 0..Len(s)
  PROVE  /\ SubSeq(s, 1, n) \in Seq(S) /\ SubSeq(s, n + 1, Len(s)) \in Seq(S)
         /\ SubSeq(s, 1, n) \o SubSeq(s, n + 1, Len(s)) = s
<1> DEFINE f == SubSeq(s, 1, n)
           b == SubSeq(s, n + 1, Len(s))
<1>1. /\ f \in Seq(S) /\ Len(f) = n /\ \A i \in 1..n : f[i] = s[i]
      /\ n \in Nat /\ Len(s) \in Nat
  OBVIOUS
<1>2. /\ b \in Seq(S) /\ Len(b) = Len(s) - n
      /\ \A i \in 1..Len(s) - n : b[i] = s[i + n]
  OBVIOUS
<1> HIDE DEF f, b
<1> DEFINE c == f \o b
<1>3. /\ c \in Seq(S) /\ Len(c) = Len(s)
      /\ \A i \in 1..n : c[i] = f[i]
      /\ \A i \in n + 1..Len(s) : c[i] = b[i - n]
  BY <1>1, <1>2
<1> HIDE DEF c
<1>4. ASSUME NEW i \in 1..Len(c) PROVE c[i] = s[i]
  <2>1. CASE i \in 1..n
    BY <1>1, <1>3, <2>1
  <2>2. CASE i \in n + 1..Len(s)
    <3>1. i - n \in 1..Len(s) - n /\ (i - n) + n = i
      BY <1>1, <2>2
    <3> QED BY <1>2, <1>3, <2>2, <3>1
  <2> QED BY <1>1, <1>3, <2>1, <2>2
<1>5. c = s
  BY <1>3, <1>4, SameItems
<1> QED BY <1>1, <1>2, <1>5 DEF f, b, c

\* The first of one sequence put behind another.
LEMMA Handed ==
  ASSUME NEW s \in Seq(Nat), NEW t \in Seq(Nat), t # <<>>
  PROVE  /\ Append(s, Head(t)) \in Seq(Nat) /\ Tail(t) \in Seq(Nat)
         /\ Append(s, Head(t)) \o Tail(t) = s \o t
<1>1. Head(t) \in Nat /\ Tail(t) \in Seq(Nat) /\ <<Head(t)>> \in Seq(Nat)
  BY Shorter
<1>2. Append(s, Head(t)) = s \o <<Head(t)>> /\ Append(s, Head(t)) \in Seq(Nat)
  BY <1>1, JoinedOne
<1>3. <<Head(t)>> \o Tail(t) = t
  OBVIOUS
<1>4. (s \o <<Head(t)>>) \o Tail(t) = s \o (<<Head(t)>> \o Tail(t))
  BY <1>1, JoinedInTurn
<1> QED BY <1>1, <1>2, <1>3, <1>4

\* The number of texts is a number, 0 in an empty queue.
LEMMA FinalsNat ==
  ASSUME NEW S, NEW s \in Seq(S)
  PROVE  /\ IsFiniteSet({i \in DOMAIN s : s[i] = "Final"}) /\ Finals(s) \in Nat
         /\ s = <<>> => Finals(s) = 0
<1>1. DOMAIN s = 1..Len(s) /\ Len(s) \in Nat
  OBVIOUS
<1>2. IsFiniteSet(1..Len(s))
  BY <1>1, FS_Interval
<1>3. {i \in DOMAIN s : s[i] = "Final"} \in SUBSET (1..Len(s))
  BY <1>1
<1>4. s = <<>> => {i \in DOMAIN s : s[i] = "Final"} = {}
  BY <1>1
<1> QED BY <1>2, <1>3, <1>4, FS_Subset, FS_CardinalityType, FS_EmptySet DEF Finals

\* A text that is queued counts one, any other event nothing.
LEMMA FinalsLonger ==
  ASSUME NEW S, NEW s \in Seq(S), NEW x \in S
  PROVE  Finals(Append(s, x)) = IF x = "Final" THEN Finals(s) + 1 ELSE Finals(s)
<1> DEFINE A == {i \in DOMAIN s : s[i] = "Final"}
           B == {i \in DOMAIN Append(s, x) : Append(s, x)[i] = "Final"}
           n == Len(s) + 1
<1>1. /\ DOMAIN s = 1..Len(s) /\ Len(s) \in Nat /\ DOMAIN Append(s, x) = 1..n
      /\ \A i \in 1..Len(s) : Append(s, x)[i] = s[i]
      /\ Append(s, x)[n] = x
  BY Longer
<1>2. B = IF x = "Final" THEN A \cup {n} ELSE A
  BY <1>1
<1>3. IsFiniteSet(A) /\ n \notin A
  BY <1>1, FinalsNat
<1>4. Cardinality(A \cup {n}) = Cardinality(A) + 1
  BY <1>3, FS_AddElement
<1> QED BY <1>2, <1>4 DEF Finals

\* Reading the first event takes away one text, if it is one.
LEMMA FinalsShorter ==
  ASSUME NEW S, NEW s \in Seq(S), s # <<>>
  PROVE  Finals(s) = IF Head(s) = "Final" THEN Finals(Tail(s)) + 1 ELSE Finals(Tail(s))
<1> DEFINE t == Tail(s)
           A == {i \in DOMAIN t : t[i] = "Final"}
           B == {i \in DOMAIN s : s[i] = "Final"}
           C == B \ {1}
           f == [i \in A |-> i + 1]
<1>1. t \in Seq(S) /\ DOMAIN t = 1..Len(s) - 1 /\ DOMAIN s = 1..Len(s)
        /\ Len(s) \in Nat \ {0} /\ (\A i \in 1..Len(s) - 1 : t[i] = s[i + 1])
        /\ Head(s) = s[1]
  BY Shorter
<1> HIDE DEF t
<1>2. f \in Bijection(A, C)
  <2>1. \A i \in A : i \in Nat /\ i + 1 \in C
    BY <1>1
  <2>2. \A j \in C : j - 1 \in A /\ f[j - 1] = j
    BY <1>1
  <2>3. f \in Injection(A, C)
    BY <2>1 DEF Injection, IsInjective
  <2>4. f \in Surjection(A, C)
    BY <2>1, <2>2 DEF Surjection
  <2> QED BY <2>3, <2>4 DEF Bijection
<1>3. IsFiniteSet(A) /\ IsFiniteSet(B)
  BY <1>1, FinalsNat
<1>4. IsFiniteSet(C) /\ Cardinality(C) = Cardinality(A)
  BY <1>2, <1>3, FS_Bijection DEF ExistsBijection
<1>5. 1 \notin C /\ B = IF Head(s) = "Final" THEN C \cup {1} ELSE C
  BY <1>1
<1>6. Cardinality(C \cup {1}) = Cardinality(C) + 1
  BY <1>4, <1>5, FS_AddElement
<1> QED BY <1>4, <1>5, <1>6 DEF Finals, t

\* What a session step surfaces is short, with a text at its end if anywhere.
Brief(e) == \/ e = <<>>
            \/ \E a \in OrchestratorEvents : e = <<a>>
            \/ \E a \in OrchestratorEvents \ {"Final"}, b \in OrchestratorEvents : e = <<a, b>>

\* Queueing it adds its text, if it has one.
LEMMA FinalsJoined ==
  ASSUME NEW q \in Seq(OrchestratorEvents), NEW e, Brief(e)
  PROVE  /\ q \o e \in Seq(OrchestratorEvents)
         /\ Finals(q \o e) =
              Finals(q) + (IF "Final" \in {e[i] : i \in DOMAIN e} THEN 1 ELSE 0)
<1>0. Finals(q) \in Nat
  BY FinalsNat
<1>1. CASE e = <<>>
  <2>1. q \o e = q /\ {e[i] : i \in DOMAIN e} = {}
    BY <1>1
  <2> QED BY <1>0, <2>1
<1>2. ASSUME NEW a \in OrchestratorEvents, e = <<a>>
      PROVE  /\ q \o e \in Seq(OrchestratorEvents)
             /\ Finals(q \o e) =
                  Finals(q) + (IF "Final" \in {e[i] : i \in DOMAIN e} THEN 1 ELSE 0)
  <2>1. q \o e = Append(q, a) /\ {e[i] : i \in DOMAIN e} = {a}
    BY <1>2
  <2>2. Append(q, a) \in Seq(OrchestratorEvents)
    BY Longer
  <2>3. Finals(Append(q, a)) = IF a = "Final" THEN Finals(q) + 1 ELSE Finals(q)
    BY FinalsLonger
  <2> QED BY <1>0, <2>1, <2>2, <2>3
<1>3. ASSUME NEW a \in OrchestratorEvents \ {"Final"}, NEW b \in OrchestratorEvents,
             e = <<a, b>>
      PROVE  /\ q \o e \in Seq(OrchestratorEvents)
             /\ Finals(q \o e) =
                  Finals(q) + (IF "Final" \in {e[i] : i \in DOMAIN e} THEN 1 ELSE 0)
  <2> DEFINE r == Append(q, a)
  <2> DEFINE said == {e[i] : i \in DOMAIN e}
  <2>1. q \o e = Append(r, b) /\ said = {a, b}
    BY <1>3
  <2>5. "Final" \in said <=> b = "Final"
    BY <1>3, <2>1
  <2> HIDE DEF said
  <2>2. r \in Seq(OrchestratorEvents) /\ Finals(r) = Finals(q)
    BY Longer, FinalsLonger
  <2> HIDE DEF r
  <2>3. Append(r, b) \in Seq(OrchestratorEvents)
    BY <2>2, Longer
  <2>4. Finals(Append(r, b)) = IF b = "Final" THEN Finals(r) + 1 ELSE Finals(r)
    BY <2>2, FinalsLonger
  <2> QED BY <1>0, <2>1, <2>2, <2>3, <2>4, <2>5 DEF said
<1> QED BY <1>1, <1>2, <1>3 DEF Brief

-----------------------------------------------------------------------------
(***************************************************************************)
(* The session.                                                            *)
(***************************************************************************)

\* What the controller sees of a step of the session's state machine.
Reported(r) ==
  /\ r.fsm \in FsmStates /\ r.fsm.session # "aborted" /\ Brief(r.emit)

\* One without a text.
Plain(r) == Reported(r) /\ "Final" \notin {r.emit[i] : i \in DOMAIN r.emit}

\* The parts of a result.
LEMMA PlainParts ==
  ASSUME NEW g \in FsmStates, g.session # "aborted", NEW q, NEW a, NEW e,
         \/ e = <<>>
         \/ \E x \in OrchestratorEvents \ {"Final"} : e = <<x>>
         \/ \E x, y \in OrchestratorEvents \ {"Final"} : e = <<x, y>>
  PROVE  Plain(Result(g, q, a, e))
<1>1. Brief(e)
  BY DEF Brief
<1>2. "Final" \notin {e[i] : i \in DOMAIN e}
  OBVIOUS
<1> QED BY <1>1, <1>2 DEF Plain, Reported, Result

\* A text is surfaced by a committed event only.
LEMMA InputsPlain ==
  ASSUME NEW f \in FsmStates, ~is_terminal(f.session), NEW phase \in {"ready", "transcribing"}
  PROVE  /\ Plain(on_backend(f, Progress(phase, FALSE, FALSE)))
         /\ Plain(on_backend(f, [type |-> "done"]))
         /\ Plain(on_backend(f, [type |-> "error"]))
         /\ Plain(on_end_of_audio(f)) /\ Plain(on_capture_lost(f))
         /\ Plain(on_backend_closed(f)) /\ Plain(on_capture_failed(f))
         /\ Reported(on_backend(f, [type |-> "committed"]))
<1> DEFINE Silent == OrchestratorEvents \ {"Final"}
<1>1. f.session \in {"active", "finalizing"} /\ f.lost \in BOOLEAN
  BY DEF FsmStates, SessionStates, is_terminal
<1>2. mark_resident(f) \in FsmStates /\ mark_resident(f).session = f.session
  BY ResidentOnly
<1>3. {"Ready", "Transcribing", "Done", "Error", "CaptureLost"} \subseteq Silent
        /\ "Final" \in OrchestratorEvents
  BY DEF OrchestratorEvents
<1>4. ReadyOnce(f) = <<>> \/ ReadyOnce(f) = <<"Ready">>
  BY DEF ReadyOnce
<1>14. <<>> \o <<>> = <<>> /\ ReadyOnce(f) \o <<>> = ReadyOnce(f)
  <2> DEFINE q == ReadyOnce(f)
  <2>1. <<>> \in Seq(OrchestratorEvents) /\ <<"Ready">> \in Seq(OrchestratorEvents)
    BY <1>3, NoEvent, OneEvent
  <2>2. q \in Seq(OrchestratorEvents)
    BY <1>4, <2>1
  <2> HIDE DEF q
  <2>3. q \o <<>> = q /\ <<>> \o <<>> = <<>>
    BY <2>1, <2>2, JoinedNothing
  <2> QED BY <2>3 DEF q
<1>15. ASSUME NEW x \in OrchestratorEvents
       PROVE  ReadyOnce(f) \o <<x>> \in {<<x>>, <<"Ready", x>>}
  <2> DEFINE one == <<x>>
  <2>1. one \in Seq(OrchestratorEvents)
    BY OneEvent
  <2>2. <<"Ready">> \o one = <<"Ready", x>>
    BY <1>3, JoinedTwo
  <2> HIDE DEF one
  <2>3. <<>> \o one = one
    BY <2>1, JoinedNothing
  <2>4. ReadyOnce(f) \o one \in {one, <<"Ready", x>>}
    BY <1>4, <2>2, <2>3
  <2> QED BY <2>4 DEF one
<1>16. ASSUME NEW x \in OrchestratorEvents
       PROVE  ReadyOnce(f) \o <<x>> \o <<>> = ReadyOnce(f) \o <<x>>
  <2> DEFINE q == ReadyOnce(f) \o <<x>>
  <2>1. q \in {<<x>>, <<"Ready", x>>}
    BY <1>15
  <2>2. <<x>> \in Seq(OrchestratorEvents) /\ <<"Ready", x>> \in Seq(OrchestratorEvents)
    BY <1>3, OneEvent
  <2>3. q \in Seq(OrchestratorEvents)
    BY <2>1, <2>2
  <2> HIDE DEF q
  <2>4. q \o <<>> = q
    BY <2>3, JoinedNothing
  <2> QED BY <2>4 DEF q
<1>5. Plain(on_backend(f, Progress(phase, FALSE, FALSE)))
  <2> DEFINE both == ReadyOnce(f) \o <<"Transcribing">>
             e == IF phase = "ready" THEN ReadyOnce(f) ELSE both
  <2>1. on_backend(f, Progress(phase, FALSE, FALSE)) = on_progress(f, Progress(phase, FALSE, FALSE))
    BY DEF on_backend, Progress
  <2>2. both \o <<>> = both /\ both \in {<<"Transcribing">>, <<"Ready", "Transcribing">>}
    BY <1>3, <1>15, <1>16
  <2>3. CASE phase = "ready"
    <3>1. on_progress(f, Progress(phase, FALSE, FALSE))
            = Result(mark_resident(f), <<>>, FALSE, ReadyOnce(f))
      BY <1>14, <2>3 DEF on_progress, Progress
    <3>2. Plain(Result(mark_resident(f), <<>>, FALSE, ReadyOnce(f)))
      BY <1>1, <1>2, <1>3, <1>4, PlainParts
    <3> QED BY <2>1, <3>1, <3>2
  <2>4. CASE phase = "transcribing"
    <3>1. on_progress(f, Progress(phase, FALSE, FALSE))
            = Result(mark_resident(f), <<>>, FALSE, both)
      BY <1>14, <2>2, <2>4 DEF on_progress, Progress
    <3> HIDE DEF both
    <3>2. Plain(Result(mark_resident(f), <<>>, FALSE, both))
      BY <1>1, <1>2, <1>3, <2>2, PlainParts
    <3> QED BY <2>1, <3>1, <3>2
  <2> QED BY <2>3, <2>4
<1>6. Reported(on_backend(f, [type |-> "committed"]))
  <2> DEFINE e == ReadyOnce(f) \o <<"Final">>
  <2>1. on_backend(f, [type |-> "committed"]) = Result(mark_resident(f), <<>>, FALSE, e)
    BY DEF on_backend
  <2>2. e = <<"Final">> \/ e = <<"Ready", "Final">>
    BY <1>3, <1>15
  <2> HIDE DEF e
  <2>3. Brief(e)
    BY <1>3, <2>2 DEF Brief
  <2> DEFINE r == on_backend(f, [type |-> "committed"])
  <2>4. r.fsm = mark_resident(f) /\ r.emit = e
    BY <2>1 DEF Result
  <2> HIDE DEF r
  <2>5. Reported(r)
    BY <1>1, <1>2, <2>3, <2>4 DEF Reported
  <2> QED BY <2>5 DEF r
<1>7. ASSUME NEW code \in FailureCodes, NEW device \in BOOLEAN, NEW a \in BOOLEAN,
             NEW before \in {<<>>, <<"Done">>}
      PROVE  Plain(terminate(f, code, device, a, before))
  <2> DEFINE g == [f EXCEPT !.session = "failed", !.code = code, !.device = device,
                            !.lost = FALSE]
             e == before \o <<"Error">>
  <2>1. g \in FsmStates /\ g.session # "aborted"
    BY DEF FsmStates, SessionStates
  <2>2. e = <<"Error">> \/ e = <<"Done", "Error">>
    <3> DEFINE error == <<"Error">>
    <3>1. error \in Seq(OrchestratorEvents)
      BY <1>3, OneEvent
    <3>2. <<"Done">> \o error = <<"Done", "Error">>
      BY <1>3, JoinedTwo
    <3> HIDE DEF error
    <3>3. <<>> \o error = error
      BY <3>1, JoinedNothing
    <3>4. before \o error \in {error, <<"Done", "Error">>}
      BY <3>2, <3>3
    <3> QED BY <3>4 DEF error
  <2> HIDE DEF g, e
  <2>3. Plain(Result(g, <<>>, a, e))
    BY <1>3, <2>1, <2>2, PlainParts
  <2> QED BY <2>3 DEF terminate, g, e
<1>8. Plain(on_backend(f, [type |-> "error"])) /\ Plain(on_backend_closed(f))
  BY <1>1, <1>7 DEF on_backend, on_backend_closed, fail, FailureCodes
<1>9. Plain(on_backend(f, [type |-> "done"]))
  <2> DEFINE g == [f EXCEPT !.session = "done"]
  <2>1. on_backend(f, [type |-> "done"]) = on_done(f)
    BY DEF on_backend
  <2>2. CASE f.lost
    BY <1>7, <2>1, <2>2 DEF on_done, FailureCodes
  <2>3. CASE ~f.lost
    <3>1. g \in FsmStates /\ g.session # "aborted"
      BY DEF FsmStates, SessionStates
    <3> HIDE DEF g
    <3>2. Plain(Result(g, <<>>, FALSE, <<"Done">>))
      BY <1>3, <3>1, PlainParts
    <3> QED BY <2>1, <2>3, <3>2 DEF on_done, g
  <2> QED BY <2>2, <2>3
<1>10. Plain(Quiet(f))
  BY <1>1, PlainParts DEF Quiet
<1>11. Plain(on_end_of_audio(f))
  <2> DEFINE g == [f EXCEPT !.session = "finalizing"]
  <2>1. g \in FsmStates /\ g.session # "aborted"
    BY DEF FsmStates, SessionStates
  <2> HIDE DEF g
  <2>2. Plain(Result(g, <<End>>, FALSE, <<>>))
    BY <2>1, PlainParts
  <2> QED BY <1>10, <2>2 DEF on_end_of_audio, g
<1>12. Plain(on_capture_lost(f))
  <2> DEFINE g == [f EXCEPT !.lost = TRUE]
  <2>1. g \in FsmStates /\ g.session # "aborted"
    BY <1>1 DEF FsmStates
  <2> HIDE DEF g
  <2>2. Plain(Result(g, <<>>, FALSE, <<"CaptureLost">>))
    BY <1>3, <2>1, PlainParts
  <2> QED BY <1>10, <2>2 DEF on_capture_lost, g
<1>13. Plain(on_capture_failed(f))
  <2> DEFINE g == [f EXCEPT !.session = "failed", !.code = "capture_failed", !.device = TRUE]
  <2>1. g \in FsmStates /\ g.session # "aborted"
    BY DEF FsmStates, SessionStates, FailureCodes
  <2> HIDE DEF g
  <2>2. Plain(Result(g, <<>>, TRUE, <<>>))
    BY <2>1, PlainParts
  <2> QED BY <1>10, <2>2 DEF on_capture_failed, g
<1> QED BY <1>5, <1>6, <1>8, <1>9, <1>11, <1>12, <1>13
-----------------------------------------------------------------------------
(***************************************************************************)
(* Steps of the session and of the commit buffer.                          *)
(***************************************************************************)

\* What the controller relies on of a session step.
SessionMoves ==
  /\ Looping /\ result = Pending
  /\ fsm' \in FsmStates /\ result' \in Results
  /\ result' = Pending => ~is_terminal(fsm'.session)
  /\ queue' \in Seq(OrchestratorEvents) /\ Len(queue') <= QueueCap
  /\ produced' \in 0..MaxFinals /\ produced' + Finals(queue) = produced + Finals(queue')
  /\ UNCHANGED <<triggerVars, state, panicked, indicator, u, targetVars, textVars, orphan>>

\* One step with its result.
LEMMA StepMoves ==
  ASSUME ControllerTypes, NEW r, NEW t, SessionStep(r, t), Reported(r),
         "Final" \in {r.emit[i] : i \in DOMAIN r.emit} => produced < MaxFinals
  PROVE  SessionMoves
<1> DEFINE said == {r.emit[i] : i \in DOMAIN r.emit}
<1>1. queue \in Seq(OrchestratorEvents) /\ produced \in 0..MaxFinals /\ MaxFinals \in Nat
        /\ QueueCap \in Nat
  BY ControllerAssumption DEF ControllerTypes, TypeOK
<1>2. Brief(r.emit) /\ r.fsm \in FsmStates /\ r.fsm.session # "aborted"
  BY DEF Reported
<1>3. /\ Looping /\ result = Pending /\ Len(queue) + Len(r.emit) <= QueueCap
      /\ fsm' = r.fsm /\ queue' = queue \o r.emit /\ result' = outcome(r.fsm)
      /\ produced' = produced + (IF "Final" \in said THEN 1 ELSE 0)
      /\ UNCHANGED <<triggerVars, state, panicked, indicator, u, targetVars, textVars, orphan>>
  BY DEF SessionStep
<1>4. queue' \in Seq(OrchestratorEvents)
        /\ Finals(queue') = Finals(queue) + (IF "Final" \in said THEN 1 ELSE 0)
  BY <1>1, <1>2, <1>3, FinalsJoined
<1>5. Len(queue') <= QueueCap
  <2>1. r.emit \in Seq(OrchestratorEvents)
    <3> DEFINE e == r.emit
    <3>1. CASE e = <<>>
      BY <3>1
    <3>2. ASSUME NEW a \in OrchestratorEvents, e = <<a>> PROVE e \in Seq(OrchestratorEvents)
      BY <3>2
    <3>3. ASSUME NEW a \in OrchestratorEvents, NEW b \in OrchestratorEvents, e = <<a, b>>
          PROVE  e \in Seq(OrchestratorEvents)
      BY <3>3
    <3> QED BY <1>2, <3>1, <3>2, <3>3 DEF Brief
  <2>2. Len(queue \o r.emit) = Len(queue) + Len(r.emit)
    BY <1>1, <2>1
  <2> QED BY <1>3, <2>2
<1>6. result' \in Results /\ (result' = Pending => ~is_terminal(fsm'.session))
  BY <1>2, <1>3 DEF outcome, Results, Pending, FsmStates, SessionStates, is_terminal
<1>7. Finals(queue) \in Nat
  BY <1>1, FinalsNat
<1> HIDE DEF said
<1>8. produced' \in 0..MaxFinals /\ produced' + Finals(queue) = produced + Finals(queue')
  <2>1. "Final" \in said => produced < MaxFinals
    BY DEF said
  <2> QED BY <1>1, <1>3, <1>4, <1>7, <2>1
<1> QED BY <1>2, <1>3, <1>4, <1>5, <1>6, <1>8 DEF SessionMoves

\* Every step of the session is one.
LEMMA SessionSteps ==
  ASSUME ControllerTypes, QueueSound, SessionProgress \/ SessionDone \/ SessionFails
  PROVE  SessionMoves
<1>1. fsm \in FsmStates
  BY DEF ControllerTypes, TypeOK
<1>2. ASSUME NEW r, NEW t, SessionStep(r, t), ~is_terminal(fsm.session) => Plain(r)
      PROVE  SessionMoves
  <2>1. ~is_terminal(fsm.session)
    BY <1>2 DEF SessionStep, QueueSound
  <2> QED BY <1>2, <2>1, StepMoves DEF Plain
<1>3. ASSUME produced < MaxFinals, SessionStep(on_backend(fsm, [type |-> "committed"]), verdict)
      PROVE  SessionMoves
  <2>1. ~is_terminal(fsm.session)
    BY <1>3 DEF SessionStep, QueueSound
  <2>2. Reported(on_backend(fsm, [type |-> "committed"]))
    BY <1>1, <2>1, InputsPlain
  <2> QED BY <1>3, <2>2, StepMoves
<1>4. CASE SessionProgress
  <2>1. ASSUME NEW phase \in {"ready", "transcribing"},
               SessionStep(on_backend(fsm, Progress(phase, FALSE, FALSE)), verdict)
        PROVE  SessionMoves
    BY <1>1, <1>2, <2>1, InputsPlain
  <2>2. CASE SessionStep(on_end_of_audio(fsm), verdict)
    BY <1>1, <1>2, <2>2, InputsPlain
  <2>3. CASE SessionStep(on_capture_lost(fsm), verdict)
    BY <1>1, <1>2, <2>3, InputsPlain
  <2> QED BY <1>3, <1>4, <2>1, <2>2, <2>3 DEF SessionProgress
<1>5. CASE SessionDone
  <2>1. PICK t : SessionStep(on_backend(fsm, [type |-> "done"]), t)
    BY <1>5 DEF SessionDone
  <2> QED BY <1>1, <1>2, <2>1, InputsPlain
<1>6. CASE SessionFails
  BY <1>1, <1>2, <1>6, InputsPlain DEF SessionFails
<1> QED BY <1>4, <1>5, <1>6

\* The front of a sequence of texts.
Front(s, t) == s \in Seq(Nat) /\ \E rest \in Seq(Nat) : t = s \o rest

\* What the field and the target have with what a commit put and kept.
After(put, kept) == (field \o put) \o kept

\* A commit that is accepted adds its text to what the target took, one that is
\* not adds nothing, and may lose the end of what was held.
LEMMA CommitForms ==
  ASSUME ControllerTypes, NEW text \in Seq(Nat), NEW commit \in Commits(text)
  PROVE  /\ commit.put \in Seq(Nat) /\ commit.keep \in Seq(Nat)
         /\ commit.answer \in {"ok", "failed", "FocusLost"}
         /\ commit.answer = "ok" => After(commit.put, commit.keep) = Taken \o text
         /\ commit.answer # "ok" => Front(After(commit.put, commit.keep), Taken)
<1> DEFINE none == <<>>
<1>0. /\ field \in Seq(Nat) /\ held \in Seq(Nat) /\ none \in Seq(Nat) /\ held \o text \in Seq(Nat)
      /\ Taken \in Seq(Nat)
  BY DEF ControllerTypes, Taken
<1>1. field \o (held \o text) = Taken \o text
  <2>1. (field \o held) \o text = field \o (held \o text)
    BY <1>0, JoinedInTurn
  <2> QED BY <2>1 DEF Taken
<1> HIDE DEF none
<1>2. \A s \in Seq(Nat) : s \o none = s
  BY JoinedNothing DEF none
<1>3. CASE commit = Commit("failed", none, held) \/ commit = Commit("FocusLost", none, held)
  <2>1. commit.put = none /\ commit.keep = held /\ commit.answer \in {"failed", "FocusLost"}
    BY <1>3 DEF Commit
  <2>2. After(none, held) = Taken
    BY <1>0, <1>2 DEF After, Taken
  <2> QED BY <1>0, <1>2, <2>1, <2>2 DEF Front
<1>4. CASE commit = Commit("ok", held \o text, none)
  <2>1. commit.put = held \o text /\ commit.keep = none /\ commit.answer = "ok"
    BY <1>4 DEF Commit
  <2>2. After(held \o text, none) = Taken \o text
    <3>1. Taken \o text \in Seq(Nat)
      BY <1>0
    <3> QED BY <1>1, <1>2, <3>1 DEF After
  <2> QED BY <1>0, <2>1, <2>2
<1>5. CASE commit = Commit("ok", none, held \o text)
  <2>1. commit.put = none /\ commit.keep = held \o text /\ commit.answer = "ok"
    BY <1>5 DEF Commit
  <2>2. After(none, held \o text) = Taken \o text
    BY <1>0, <1>1, <1>2 DEF After
  <2> QED BY <1>0, <2>1, <2>2
<1>6. ASSUME NEW n \in 0..Len(held), commit = Commit("failed", SubSeq(held, 1, n), none)
      PROVE  /\ commit.put \in Seq(Nat) /\ commit.keep \in Seq(Nat) /\ commit.answer = "failed"
             /\ Front(After(commit.put, commit.keep), Taken)
  <2> DEFINE f == SubSeq(held, 1, n)
             b == SubSeq(held, n + 1, Len(held))
  <2>1. commit.put = f /\ commit.keep = none /\ commit.answer = "failed"
    BY <1>6 DEF Commit
  <2>2. f \in Seq(Nat) /\ b \in Seq(Nat) /\ f \o b = held
    BY <1>0, Cut
  <2> HIDE DEF f, b
  <2>3. field \o f \in Seq(Nat)
    BY <1>0, <2>2
  <2>4. After(f, none) = field \o f
    BY <1>2, <2>3 DEF After
  <2>5. (field \o f) \o b = Taken
    <3>0. field \in Seq(Nat) /\ f \in Seq(Nat) /\ b \in Seq(Nat)
      BY <1>0, <2>2
    <3>1. (field \o f) \o b = field \o (f \o b)
      BY <3>0, JoinedInTurn
    <3>2. (field \o f) \o b = field \o held
      BY <2>2, <3>1
    <3> QED BY <3>2 DEF Taken
  <2> QED BY <1>0, <2>1, <2>2, <2>3, <2>4, <2>5 DEF Front
<1>7. \/ commit = Commit("failed", none, held) \/ commit = Commit("FocusLost", none, held)
      \/ commit = Commit("ok", held \o text, none) \/ commit = Commit("ok", none, held \o text)
      \/ \E n \in 0..Len(held) : commit = Commit("failed", SubSeq(held, 1, n), none)
  BY DEF Commits, none
<1> QED BY <1>3, <1>4, <1>5, <1>6, <1>7

\* A flush empties the buffer: the target took what was in it, or it was
\* recorded as dropped or misfired, or there was nothing.
Flushed(v, text, misfired) ==
  /\ v = [u EXCEPT !.pending = <<>>, !.dropped = v.dropped, !.ending = v.ending]
  /\ v \in Locals
  /\ v.ending = "TargetGone" => u.ending = "TargetGone"
  /\ \/ text = Told /\ v.dropped = u.dropped /\ ~misfired
     \/ Front(text, Taken) /\ (v.dropped \/ misfired)
  /\ u.dropped => v.dropped

\* What flush leaves: the pending texts gone, with the target or for good.
LEMMA FlushForms ==
  ASSUME ControllerTypes, NEW commit \in Commits(u.pending)
  PROVE  /\ Put(u, commit) \in Seq(Nat) /\ Kept(u, commit) \in Seq(Nat)
         /\ Flushed(flush(u, commit.answer), After(Put(u, commit), Kept(u, commit)),
                    Misfired(u, commit))
<1> DEFINE v == flush(u, commit.answer)
           none == <<>>
<1>0. /\ u \in Locals /\ none \in Seq(Nat) /\ u.dropped \in BOOLEAN /\ u.ending \in Endings
      /\ u.pending \in Seq(Nat) /\ field \in Seq(Nat) /\ held \in Seq(Nat) /\ Taken \in Seq(Nat)
  BY DEF ControllerTypes, Locals, Taken
<1>1. /\ commit.put \in Seq(Nat) /\ commit.keep \in Seq(Nat)
      /\ commit.answer \in {"ok", "failed", "FocusLost"}
      /\ commit.answer = "ok" => After(commit.put, commit.keep) = Told
      /\ commit.answer # "ok" => Front(After(commit.put, commit.keep), Taken)
  BY <1>0, CommitForms DEF Told
<1>2. Put(u, commit) \in Seq(Nat) /\ Kept(u, commit) \in Seq(Nat)
  BY <1>0, <1>1 DEF Put, Kept
<1>3. field \o none = field /\ Taken \o none = Taken
  BY <1>0, JoinedNothing
<1> DEFINE text == After(Put(u, commit), Kept(u, commit))
<1>4. ~Attempted(u) => text = Taken /\ Front(text, Taken) /\ ~Misfired(u, commit)
  <2>1. ~Attempted(u) => Put(u, commit) = none /\ Kept(u, commit) = held
    BY DEF Put, Kept
  <2>2. After(none, held) = Taken
    BY <1>3 DEF After, Taken
  <2> HIDE DEF none
  <2> QED BY <1>0, <1>3, <2>1, <2>2 DEF Front, Misfired
<1>5. Attempted(u) => text = After(commit.put, commit.keep)
  BY DEF Put, Kept
<1> HIDE DEF text
<1>6. CASE u.pending = <<>>
  <2>1. v = u /\ ~Attempted(u)
    BY <1>6 DEF flush, Attempted
  <2>2. u = [u EXCEPT !.pending = <<>>, !.dropped = u.dropped, !.ending = u.ending]
    BY <1>0, <1>6 DEF Locals
  <2>3. text = Told
    BY <1>3, <1>4, <1>6, <2>1 DEF Told
  <2> HIDE DEF v
  <2>4. Flushed(v, text, Misfired(u, commit))
    BY <1>0, <1>4, <2>1, <2>2, <2>3 DEF Flushed
  <2> QED BY <1>2, <2>4 DEF v, text
<1>7. CASE u.pending # <<>> /\ ~writes_allowed(u.ending)
  <2>1. v = [u EXCEPT !.pending = <<>>, !.dropped = TRUE] /\ ~Attempted(u)
    BY <1>7 DEF flush, Attempted
  <2>2. Flushed(v, text, Misfired(u, commit))
    BY <1>0, <1>4, <2>1 DEF Flushed, Locals
  <2> QED BY <1>2, <2>2 DEF text
<1>8. CASE u.pending # <<>> /\ writes_allowed(u.ending) /\ commit.answer = "FocusLost"
  <2>1. v = [u EXCEPT !.pending = <<>>, !.dropped = TRUE, !.ending = "FocusLost"] /\ Attempted(u)
    BY <1>8 DEF flush, Attempted
  <2>2. Front(text, Taken)
    BY <1>1, <1>5, <1>8, <2>1
  <2>3. Flushed(v, text, Misfired(u, commit))
    BY <1>0, <2>1, <2>2 DEF Flushed, Locals, Endings
  <2> QED BY <1>2, <2>3 DEF text
<1>9. CASE u.pending # <<>> /\ writes_allowed(u.ending) /\ commit.answer # "FocusLost"
  <2>1. v = [u EXCEPT !.pending = <<>>] /\ Attempted(u)
    BY <1>9 DEF flush, Attempted
  <2>2. \/ text = Told /\ ~Misfired(u, commit)
        \/ Front(text, Taken) /\ Misfired(u, commit)
    BY <1>1, <1>5, <1>9, <2>1 DEF Misfired
  <2>3. Flushed(v, text, Misfired(u, commit))
    BY <1>0, <2>1, <2>2 DEF Flushed, Locals
  <2> QED BY <1>2, <2>3 DEF text
<1> QED BY <1>6, <1>7, <1>8, <1>9
-----------------------------------------------------------------------------
(***************************************************************************)
(* The steps that write into the field.                                    *)
(***************************************************************************)

\* What the target has after the step of a boundary: all that waited too, or no
\* more than before, which is recorded; the other locals are as they were.
Writes(v, text, misfired) ==
  /\ v \in Locals /\ v.pending = <<>>
  /\ \A local \in {"trigger_open", "events_open", "done"} : v[local] = u[local]
  /\ v.ending = "TargetGone" => u.ending = "TargetGone"
  /\ u.dropped => v.dropped
  /\ \/ text = Told /\ v.dropped = u.dropped /\ ~misfired
     \/ Front(text, Taken) /\ (v.dropped \/ misfired)

\* What flush hands the target are the pending texts, in order.
LEMMA FlushWrites ==
  ASSUME ControllerTypes, NEW commit \in Commits(u.pending)
  PROVE  /\ Put(u, commit) \in Seq(Nat) /\ Kept(u, commit) \in Seq(Nat)
         /\ Writes(flush(u, commit.answer), After(Put(u, commit), Kept(u, commit)),
                   Misfired(u, commit))
<1> DEFINE v == flush(u, commit.answer)
           t == After(Put(u, commit), Kept(u, commit))
           m == Misfired(u, commit)
<1>0. u \in Locals
  BY DEF ControllerTypes
<1>1. Flushed(v, t, m) /\ Put(u, commit) \in Seq(Nat) /\ Kept(u, commit) \in Seq(Nat)
  BY FlushForms
<1> HIDE DEF v, t, m
<1>2. v = [u EXCEPT !.pending = <<>>, !.dropped = v.dropped, !.ending = v.ending] /\ v \in Locals
  BY <1>1 DEF Flushed
<1>3. /\ v.pending = <<>> /\ v.trigger_open = u.trigger_open /\ v.events_open = u.events_open
      /\ v.done = u.done
  BY <1>0, <1>2 DEF Locals
<1>4. Writes(v, t, m)
  BY <1>1, <1>3 DEF Flushed, Writes
<1> QED BY <1>1, <1>4 DEF v, t, m

\* What any event does to the state and the indicator.
LEMMA RouteShows ==
  ASSUME ControllerTypes, route_event
  PROVE  /\ Looping /\ queue # <<>> /\ queue' = Tail(queue) /\ u.events_open
         /\ indicator' \in Indicators
         /\ \/ Stay
            \/ state = "Recording" /\ Advance(<<"Transcribing">>)
            \/ state \in Capturing /\ Advance(<<"Finalizing">>)
         /\ indicator = "finalizing" /\ state = "Finalizing" => indicator' # "recording"
         /\ indicator' = "finalizing" => indicator = "finalizing" \/ state' = "Finalizing"
<1> DEFINE event == Head(queue)
<1>1. PICK commit \in Commits(u.pending) :
        LET boundary == event # "Final"
            v == IF boundary THEN flush(u, commit.answer) ELSE u
            w == [v EXCEPT !.fault = @ \/ event = "CaptureLost"]
        IN  /\ CASE event = "Transcribing" /\ state = "Recording" ->
                      Advance(<<"Transcribing">>)
                 [] event = "CaptureLost" /\ state \in Capturing ->
                      Advance(<<"Finalizing">>)
                 [] OTHER -> Stay
            /\ indicator' = event_to_indicator(event, state', w)
  BY DEF route_event
<1>2. PICK w : indicator' = event_to_indicator(event, state', w)
  BY <1>1
<1> HIDE DEF event
<1>3. \/ event = "Transcribing" /\ state = "Recording" /\ Advance(<<"Transcribing">>)
      \/ event = "CaptureLost" /\ state \in Capturing /\ Advance(<<"Finalizing">>)
      \/ ~(event = "CaptureLost" /\ state \in Capturing) /\ Stay
  BY <1>1
<1>4. indicator \in Indicators
  BY DEF ControllerTypes, TypeOK, Indicators
<1>5. completion_indicator_state(w.ending, w.dropped)
        \in {"focus_lost", "no_speech", "degraded", "hidden"}
  BY DEF completion_indicator_state
<1>6. indicator' \in Indicators
  BY <1>2, <1>4, <1>5 DEF event_to_indicator, Indicators
<1>7. state = "Finalizing" => Stay
  BY <1>3 DEF Capturing
<1>8. indicator = "finalizing" /\ state = "Finalizing" => indicator' # "recording"
  BY <1>2, <1>5, <1>7 DEF event_to_indicator, Capturing, Stay
<1>9. indicator' = "finalizing" => indicator = "finalizing" \/ state' = "Finalizing"
  <2>1. Advance(<<"Finalizing">>) => state' = "Finalizing"
    BY DEF Advance
  <2>2. indicator' = "finalizing" =>
          indicator = "finalizing" \/ (event = "CaptureLost" /\ state \in Capturing)
    BY <1>2, <1>5 DEF event_to_indicator
  <2>3. event = "CaptureLost" /\ state \in Capturing => Advance(<<"Finalizing">>)
    BY <1>3
  <2> QED BY <2>1, <2>2, <2>3
<1> QED BY <1>3, <1>6, <1>8, <1>9 DEF route_event, OtherArm

\* Reading a text puts it behind those that wait.
LEMMA TextRead ==
  ASSUME ControllerTypes, route_event, Head(queue) = "Final"
  PROVE  /\ u' = [u EXCEPT !.fault = u'.fault, !.pending = Append(u.pending, finals + 1)]
         /\ u' \in Locals /\ finals' = finals + 1 /\ field' = field /\ held' = held
         /\ misfire' = misfire
<1>0. u \in Locals /\ misfire \in BOOLEAN /\ finals \in Nat
  BY DEF ControllerTypes, TypeOK
<1> DEFINE fault == u.fault \/ Head(queue) = "CaptureLost"
           w == [u EXCEPT !.fault = fault]
<1>1. /\ finals' = finals + 1 /\ field' = field /\ held' = held
      /\ u' = [w EXCEPT !.pending = Append(@, finals + 1), !.shown = @]
      /\ misfire' = (misfire \/ FALSE)
  BY DEF route_event
<1>2. misfire' = misfire
  BY <1>0, <1>1, Zenon
<1>3. fault \in BOOLEAN
  <2>1. u.fault \in BOOLEAN
    BY <1>0 DEF Locals
  <2> QED BY <2>1, Zenon
<1>4. u.pending \in Seq(Nat) /\ Append(u.pending, finals + 1) \in Seq(Nat)
  BY <1>0 DEF Locals
<1> HIDE DEF fault
<1>5. w \in Locals /\ w.pending = u.pending /\ w.shown = u.shown
  BY <1>0, <1>3 DEF Locals
<1>6. u' = [u EXCEPT !.fault = fault, !.pending = Append(u.pending, finals + 1)]
  BY <1>0, <1>1, <1>5 DEF Locals
<1>7. u'.fault = fault /\ u' \in Locals
  BY <1>0, <1>3, <1>4, <1>6 DEF Locals
<1> QED BY <1>1, <1>2, <1>6, <1>7

\* Any other event is a boundary.
LEMMA BoundaryRead ==
  ASSUME ControllerTypes, route_event, Head(queue) # "Final"
  PROVE  \E misfired :
           /\ field' \in Seq(Nat) /\ held' \in Seq(Nat) /\ Writes(u', Taken', misfired)
           /\ misfire' = (misfire \/ misfired) /\ finals' = finals
<1>0. u \in Locals
  BY DEF ControllerTypes
<1>1. PICK commit \in Commits(u.pending) :
        /\ finals' = finals /\ field' = field \o Put(u, commit) /\ held' = Kept(u, commit)
        /\ misfire' = (misfire \/ Misfired(u, commit))
        /\ u' = [[flush(u, commit.answer) EXCEPT !.fault = @ \/ Head(queue) = "CaptureLost"]
                   EXCEPT !.pending = @, !.shown = IF Head(queue) = "Done" THEN indicator' ELSE @]
  <2> DEFINE boundary == Head(queue) # "Final"
  <2>1. boundary = TRUE
    OBVIOUS
  <2> HIDE DEF boundary
  <2>2. PICK commit \in Commits(u.pending) :
          LET v == IF boundary THEN flush(u, commit.answer) ELSE u
              w == [v EXCEPT !.fault = @ \/ Head(queue) = "CaptureLost"]
          IN  /\ finals' = IF boundary THEN finals ELSE finals + 1
              /\ field' = IF boundary THEN field \o Put(u, commit) ELSE field
              /\ held' = IF boundary THEN Kept(u, commit) ELSE held
              /\ misfire' = (misfire \/ (boundary /\ Misfired(u, commit)))
              /\ u' = [w EXCEPT !.pending = IF boundary THEN @ ELSE Append(@, finals + 1),
                               !.shown = IF Head(queue) = "Done" THEN indicator' ELSE @]
    BY Zenon DEF route_event, boundary
  <2>3. (boundary /\ Misfired(u, commit)) = Misfired(u, commit)
    BY <2>1 DEF Misfired
  <2> QED BY <2>1, <2>2, <2>3
<1> DEFINE text == After(Put(u, commit), Kept(u, commit))
<1>2. /\ Put(u, commit) \in Seq(Nat) /\ Kept(u, commit) \in Seq(Nat)
      /\ Writes(flush(u, commit.answer), text, Misfired(u, commit))
  BY FlushWrites
<1>8. field' \in Seq(Nat) /\ held' \in Seq(Nat) /\ Taken' = text
  <2>1. field \in Seq(Nat)
    BY DEF ControllerTypes
  <2> QED BY <1>1, <1>2, <2>1 DEF Taken, After
<1> HIDE DEF text
<1> DEFINE v == flush(u, commit.answer)
           fault == v.fault \/ Head(queue) = "CaptureLost"
           shown == IF Head(queue) = "Done" THEN indicator' ELSE v.shown
<1>3. v \in Locals
  BY <1>2 DEF Writes
<1>4. fault \in BOOLEAN /\ shown \in Indicators \cup {"none"}
  <2>1. v.fault \in BOOLEAN /\ v.shown \in Indicators \cup {"none"}
    BY <1>3 DEF Locals
  <2>2. fault \in BOOLEAN
    BY <2>1, Zenon
  <2>3. indicator' \in Indicators
    BY RouteShows
  <2> QED BY <2>1, <2>2, <2>3
<1>5. u' = [v EXCEPT !.fault = fault, !.shown = shown]
  BY <1>1, <1>3 DEF Locals
<1> HIDE DEF v, fault, shown
<1>6. /\ u' \in Locals /\ u'.pending = v.pending /\ u'.ending = v.ending
      /\ u'.dropped = v.dropped /\ u'.trigger_open = v.trigger_open
      /\ u'.events_open = v.events_open /\ u'.done = v.done
  BY <1>3, <1>4, <1>5 DEF Locals
<1>7. Writes(u', Taken', Misfired(u, commit))
  BY <1>2, <1>6, <1>8 DEF Writes, v
<1> QED BY <1>1, <1>7, <1>8
-----------------------------------------------------------------------------
(***************************************************************************)
(* Transitions, and the end of an utterance.                               *)
(***************************************************************************)

\* A path of legal transitions does not panic.
LEMMA AdvanceNone == ~panicked /\ Stay => state' = state /\ ~panicked'
<1>1. Stay => state' = state /\ panicked' = panicked
  BY DEF Stay
<1> QED BY <1>1, Zenon

\* A transition the table allows is made.
LEMMA AdvanceOne ==
  ASSUME ~panicked, NEW a, Advance(<<a>>), can_transition(state, a)
  PROVE  state' = a /\ ~panicked'
<1> DEFINE path == <<a>>
<1>1. DOMAIN path = {1} /\ Len(path) = 1 /\ path[1] = a
  OBVIOUS
<1> HIDE DEF path
<1>2. ASSUME NEW i \in {1}
      PROVE  can_transition(IF i = 1 THEN state ELSE path[i - 1], path[i])
  <2>1. i = 1
    OBVIOUS
  <2> QED BY <1>1, <2>1
<1>3. ~\E i \in DOMAIN path : ~can_transition(IF i = 1 THEN state ELSE path[i - 1], path[i])
  BY <1>1, <1>2
<1>4. Advance(path)
  BY DEF path
<1> QED BY <1>1, <1>3, <1>4 DEF Advance

\* Two transitions in a row are made.
LEMMA AdvanceTwo ==
  ASSUME ~panicked, NEW a, NEW b, Advance(<<a, b>>), can_transition(state, a), can_transition(a, b)
  PROVE  state' = b /\ ~panicked'
<1> DEFINE path == <<a, b>>
<1>1. DOMAIN path = 1..2 /\ Len(path) = 2 /\ path[1] = a /\ path[2] = b
  OBVIOUS
<1> HIDE DEF path
<1>2. ASSUME NEW i \in 1..2
      PROVE  can_transition(IF i = 1 THEN state ELSE path[i - 1], path[i])
  <2>1. i = 1 \/ i = 2
    OBVIOUS
  <2> QED BY <1>1, <2>1
<1>3. ~\E i \in DOMAIN path : ~can_transition(IF i = 1 THEN state ELSE path[i - 1], path[i])
  BY <1>1, <1>2
<1>4. Advance(path)
  BY DEF path
<1> QED BY <1>1, <1>3, <1>4 DEF Advance

\* Three transitions in a row are made.
LEMMA AdvanceThree ==
  ASSUME ~panicked, NEW a, NEW b, NEW c, Advance(<<a, b, c>>), can_transition(state, a),
         can_transition(a, b), can_transition(b, c)
  PROVE  state' = c /\ ~panicked'
<1> DEFINE path == <<a, b, c>>
<1>1. DOMAIN path = 1..3 /\ Len(path) = 3 /\ path[1] = a /\ path[2] = b /\ path[3] = c
  OBVIOUS
<1> HIDE DEF path
<1>2. ASSUME NEW i \in 1..3
      PROVE  can_transition(IF i = 1 THEN state ELSE path[i - 1], path[i])
  <2>1. i = 1 \/ i = 2 \/ i = 3
    OBVIOUS
  <2> QED BY <1>1, <2>1
<1>3. ~\E i \in DOMAIN path : ~can_transition(IF i = 1 THEN state ELSE path[i - 1], path[i])
  BY <1>1, <1>2
<1>4. Advance(path)
  BY DEF path
<1> QED BY <1>1, <1>3, <1>4 DEF Advance

\* The states of the loop, and what enter_finalizing does in them.
LEMMA LoopStates ==
  ASSUME ControllerTypes
  PROVE  /\ Looping <=> state \in {"Recording", "Transcribing", "Finalizing"}
         /\ Looping \/ state \in {"Idle", "Starting"}
         /\ ~Looping \/ state \notin {"Idle", "Starting"}
BY DEF ControllerTypes, TypeOK, Looping, Capturing, DictationStates

\* From any state of an utterance under way the controller gets to Finalizing.
LEMMA EntersFinalizing ==
  ASSUME ControllerTypes, Looping, ~panicked, enter_finalizing
  PROVE  /\ state' = "Finalizing" /\ ~panicked'
         /\ indicator' \in {indicator, "finalizing"}
<1>1. CASE state \in Capturing
  <2>1. Advance(<<"Finalizing">>) /\ indicator' = "finalizing"
    BY <1>1 DEF enter_finalizing
  <2>2. can_transition(state, "Finalizing")
    BY <1>1 DEF can_transition, Capturing
  <2> QED BY <2>1, <2>2, AdvanceOne
<1>2. CASE state \notin Capturing
  <2>1. Stay /\ indicator' = indicator /\ state = "Finalizing"
    BY <1>2 DEF enter_finalizing, Looping
  <2> QED BY <2>1, AdvanceNone
<1> QED BY <1>1, <1>2

\* An event is routed along legal transitions and stays in the loop.
LEMMA RouteAdvances ==
  ASSUME ControllerTypes, ~panicked, route_event
  PROVE  /\ state' \in {"Recording", "Transcribing", "Finalizing"} /\ ~panicked'
         /\ state = "Finalizing" => state' = "Finalizing"
<1>1. Looping
  BY RouteShows
<1>2. CASE Stay
  BY <1>1, <1>2, AdvanceNone, LoopStates
<1>3. CASE state = "Recording" /\ Advance(<<"Transcribing">>)
  BY <1>3, AdvanceOne DEF can_transition
<1>4. CASE state \in Capturing /\ Advance(<<"Finalizing">>)
  BY <1>4, AdvanceOne DEF can_transition, Capturing
<1> QED BY <1>2, <1>3, <1>4, RouteShows

\* Every disposition leads back to Idle.
LEMMA ClosingAdvances ==
  ASSUME ControllerTypes, Looping, ~panicked, NEW way \in (Results \ {Pending}) \cup {"gone"},
         Advance(ClosingPath(way) \o <<"Idle">>)
  PROVE  state' = "Idle" /\ ~panicked'
<1>0. state \in {"Recording", "Transcribing", "Finalizing"}
  BY LoopStates
<1>1. CASE way # "completed"
  <2> DEFINE last == IF way \in {"restart", "gone"} THEN "Cancelled" ELSE "Error"
  <2>1. ClosingPath(way) = <<last>>
    BY <1>1 DEF ClosingPath, Results, Pending
  <2>2. last \in {"Cancelled", "Error"}
    OBVIOUS
  <2> HIDE DEF last
  <2>3. <<last>> \o <<"Idle">> = <<last, "Idle">>
    <3>1. last \in DictationStates /\ "Idle" \in DictationStates
      BY <2>2 DEF DictationStates
    <3> QED BY <3>1, JoinedTwo
  <2>4. can_transition(state, last) /\ can_transition(last, "Idle")
    BY <1>0, <2>2 DEF can_transition
  <2> QED BY <2>1, <2>3, <2>4, AdvanceTwo
<1>2. CASE way = "completed" /\ state = "Finalizing"
  <2>1. ClosingPath(way) = <<"Completed">>
    BY <1>2 DEF ClosingPath, Capturing
  <2>2. <<"Completed">> \o <<"Idle">> = <<"Completed", "Idle">>
    <3>1. "Completed" \in DictationStates /\ "Idle" \in DictationStates
      BY DEF DictationStates
    <3> QED BY <3>1, JoinedTwo
  <2>3. can_transition(state, "Completed") /\ can_transition("Completed", "Idle")
    BY <1>2 DEF can_transition
  <2> QED BY <2>1, <2>2, <2>3, AdvanceTwo
<1>3. CASE way = "completed" /\ state # "Finalizing"
  <2>1. ClosingPath(way) = <<"Finalizing", "Completed">>
    BY <1>0, <1>3 DEF ClosingPath, Capturing
  <2>2. <<"Finalizing", "Completed">> \o <<"Idle">> = <<"Finalizing", "Completed", "Idle">>
    <3>1. /\ "Finalizing" \in DictationStates /\ "Completed" \in DictationStates
          /\ "Idle" \in DictationStates
      BY DEF DictationStates
    <3> QED BY <3>1, JoinedThree
  <2>3. /\ can_transition(state, "Finalizing") /\ can_transition("Finalizing", "Completed")
        /\ can_transition("Completed", "Idle")
    BY <1>0, <1>3 DEF can_transition
  <2> QED BY <2>1, <2>2, <2>3, AdvanceThree
<1> QED BY <1>0, <1>1, <1>2, <1>3

\* How an utterance may end.
LEMMA FinishForms ==
  ASSUME ControllerTypes, QueueSound, ~panicked, Finish
  PROVE  /\ Looping /\ ~u.events_open /\ u.done # Pending
         /\ state' = "Idle" /\ ~panicked' /\ indicator' \in Indicators \ {"recording"}
         /\ \E way \in (Results \ {Pending}) \cup {"gone"} :
              /\ u' = [NoUtterance EXCEPT !.done = way, !.shown = u.shown]
              /\ ClosingResync(way) /\ orphan' = (way = "completed" /\ pressed)
              /\ way = "gone" => u.ending = "TargetGone"
         /\ field' \in Seq(Nat) /\ held' \in Seq(Nat)
         /\ Front(Taken', Taken) \/ Taken' = Told
         /\ misfire' \in BOOLEAN
         /\ indicator' = "hidden" /\ ~misfire' => ~u.dropped /\ ~misfire /\ Taken' = Told
<1>0. /\ u \in Locals /\ held \in Seq(Nat) /\ Taken \in Seq(Nat) /\ misfire \in BOOLEAN /\ field \in Seq(Nat)
      /\ Looping /\ ~u.events_open /\ u.done # Pending
  BY DEF ControllerTypes, Finish, Taken
<1> DEFINE whole == u.done = "completed"
<1>1. PICK commit \in Commits(u.pending), fails \in BOOLEAN :
        LET v == IF whole THEN flush(u, commit.answer) ELSE u
            put == IF whole THEN Put(u, commit) ELSE <<>>
            kept == IF whole THEN Kept(u, commit) ELSE held
            way == IF v.ending = "TargetGone" THEN "gone" ELSE u.done
        IN  /\ Advance(ClosingPath(way) \o <<"Idle">>)
            /\ indicator' = ClosingIndicator(way, v)
            /\ ClosingResync(way)
            /\ u' = [NoUtterance EXCEPT !.done = way, !.shown = u.shown]
            /\ \E n \in 0..(IF lease \in {"held", "away"} THEN Len(kept) ELSE 0) :
                 /\ field' = field \o put \o SubSeq(kept, 1, n)
                 /\ held' = SubSeq(kept, n + 1, Len(kept))
                 /\ misfire' = (misfire \/ (fails /\ n < Len(kept))
                                 \/ (whole /\ Misfired(u, commit)))
            /\ orphan' = (way = "completed" /\ pressed)
  BY Zenon DEF Finish
<1> DEFINE v == IF whole THEN flush(u, commit.answer) ELSE u
           put == IF whole THEN Put(u, commit) ELSE <<>>
           kept == IF whole THEN Kept(u, commit) ELSE held
           way == IF v.ending = "TargetGone" THEN "gone" ELSE u.done
<1>2. /\ Put(u, commit) \in Seq(Nat) /\ Kept(u, commit) \in Seq(Nat)
      /\ Writes(flush(u, commit.answer), After(Put(u, commit), Kept(u, commit)),
                Misfired(u, commit))
  BY FlushWrites
<1>14. put \in Seq(Nat) /\ kept \in Seq(Nat)
  BY <1>0, <1>2
<1>15. PICK n \in 0..Len(kept), failed \in BOOLEAN :
         /\ field' = (field \o put) \o SubSeq(kept, 1, n)
         /\ held' = SubSeq(kept, n + 1, Len(kept))
         /\ misfire' = (misfire \/ failed \/ (whole /\ Misfired(u, commit)))
  <2>1. PICK n \in 0..(IF lease \in {"held", "away"} THEN Len(kept) ELSE 0) :
          /\ field' = field \o put \o SubSeq(kept, 1, n)
          /\ held' = SubSeq(kept, n + 1, Len(kept))
          /\ misfire' = (misfire \/ (fails /\ n < Len(kept)) \/ (whole /\ Misfired(u, commit)))
    BY <1>1
  <2> HIDE DEF kept
  <2>2. n \in 0..Len(kept)
    BY <1>14
  <2>3. (fails /\ n < Len(kept)) \in BOOLEAN
    BY Zenon
  <2> QED BY <2>1, <2>2, <2>3
<1> DEFINE text == After(put, kept)
<1>16. field' \in Seq(Nat) /\ held' \in Seq(Nat) /\ Taken' = text
  <2> HIDE DEF put, kept
  <2> DEFINE f == SubSeq(kept, 1, n)
             b == SubSeq(kept, n + 1, Len(kept))
             base == field \o put
  <2>1. f \in Seq(Nat) /\ b \in Seq(Nat) /\ f \o b = kept
    BY <1>14, Cut
  <2>2. base \in Seq(Nat)
    BY <1>0, <1>14
  <2> HIDE DEF f, b, base
  <2>3. base \o f \in Seq(Nat) /\ (base \o f) \o b = base \o kept
    <3>1. (base \o f) \o b = base \o (f \o b)
      BY <2>1, <2>2, JoinedInTurn
    <3> QED BY <2>1, <2>2, <3>1
  <2>4. field' = base \o f /\ held' = b
    BY <1>15 DEF base, f, b
  <2> QED BY <2>1, <2>3, <2>4 DEF Taken, After, base
<1>3. v \in Locals /\ (v.ending = "TargetGone" => u.ending = "TargetGone")
        /\ (u.dropped => v.dropped)
  BY <1>0, <1>2 DEF Writes
<1>4. u.done \in Results \cup {"gone"}
  BY <1>0 DEF Locals
<1>5. way \in (Results \ {Pending}) \cup {"gone"}
  BY <1>0, <1>4
<1>6. way = "gone" => u.ending = "TargetGone"
  <2>1. u.done = result /\ result \in Results
    BY <1>0 DEF QueueSound, ControllerTypes, TypeOK, Results
  <2>2. u.done # "gone"
    BY <2>1 DEF Results, Pending
  <2> QED BY <1>3, <2>2
<1>7. /\ Advance(ClosingPath(way) \o <<"Idle">>) /\ indicator' = ClosingIndicator(way, v)
      /\ ClosingResync(way) /\ u' = [NoUtterance EXCEPT !.done = way, !.shown = u.shown]
      /\ orphan' = (way = "completed" /\ pressed)
  BY <1>1
<1>8. way = "completed" => whole
  OBVIOUS
<1> HIDE DEF v, way, text
<1>9. completion_indicator_state(v.ending, v.dropped)
        \in {"focus_lost", "no_speech", "degraded", "hidden"}
      /\ (completion_indicator_state(v.ending, v.dropped) = "hidden" => ~v.dropped)
  BY DEF completion_indicator_state
<1>10. /\ indicator' \in Indicators \ {"recording"}
       /\ indicator' = "hidden" => way = "completed" /\ ~v.dropped
  BY <1>5, <1>7, <1>9 DEF ClosingIndicator, Results, Indicators, Pending
<1>11. state' = "Idle" /\ ~panicked'
  BY <1>0, <1>5, <1>7, ClosingAdvances
<1>12. /\ Front(Taken', Taken) \/ Taken' = Told
       /\ misfire' \in BOOLEAN
       /\ whole /\ ~v.dropped /\ ~misfire' => ~u.dropped /\ ~misfire /\ Taken' = Told
  <2> DEFINE m == Misfired(u, commit)
  <2>1. misfire' \in BOOLEAN
    BY <1>15, <1>0, Zenon
  <2>2. CASE whole
    <3>1. v = flush(u, commit.answer) /\ text = After(Put(u, commit), Kept(u, commit))
      BY <2>2 DEF v, text
    <3>2. Writes(v, text, m)
      BY <1>2, <3>1
    <3>3. misfire \/ m => misfire'
      BY <1>15, <2>2
    <3> HIDE DEF m
    <3>4. CASE text = Told /\ v.dropped = u.dropped /\ ~m
      BY <1>16, <2>1, <3>3, <3>4
    <3>5. CASE Front(text, Taken) /\ (v.dropped \/ m)
      BY <1>16, <2>1, <3>3, <3>5
    <3> QED BY <3>2, <3>4, <3>5 DEF Writes
  <2>3. CASE ~whole
    <3> DEFINE none == <<>>
    <3>1. none \in Seq(Nat) /\ put = none /\ kept = held
      BY <2>3
    <3> HIDE DEF none
    <3>2. field \o none = field /\ Taken \o none = Taken
      BY <1>0, <3>1, JoinedNothing DEF none
    <3>3. text = Taken
      BY <3>1, <3>2 DEF text, After, Taken
    <3>4. Front(Taken, Taken)
      BY <1>0, <3>1, <3>2 DEF Front
    <3> QED BY <1>16, <2>1, <2>3, <3>3, <3>4
  <2> QED BY <2>2, <2>3
<1>13. indicator' = "hidden" /\ ~misfire' => ~u.dropped /\ ~misfire /\ Taken' = Told
  BY <1>8, <1>10, <1>12
<1> QED BY <1>0, <1>5, <1>6, <1>7, <1>10, <1>11, <1>12, <1>13, <1>16
-----------------------------------------------------------------------------
(***************************************************************************)
(* Every step keeps the types.                                             *)
(***************************************************************************)

\* What the steps that are not the end of an utterance or a boundary do to the
\* trigger.
LEMMA TriggerStays ==
  ASSUME TriggerTypeOK, UNCHANGED triggerVars PROVE TriggerTypeOK'
<1>1. /\ rx \in Seq(Gaps) /\ Len(rx) <= Backlog /\ later \in Seq(Gaps) /\ Len(later) <= 1
      /\ since \in Gaps
  BY DEF TriggerTypeOK
<1>2. /\ rx' = rx /\ later' = later /\ since' = since /\ missed' = missed
      /\ pressed' = pressed /\ candidate' = candidate /\ streaming' = streaming
  BY DEF triggerVars, arrivalVars
<1>3. /\ missed' \in BOOLEAN /\ pressed' \in BOOLEAN
      /\ candidate' \in BOOLEAN /\ streaming' \in BOOLEAN
  BY <1>2, TriggerFlags, Zenon
<1> QED BY <1>1, <1>2, <1>3, TriggerTyped

\* Every step keeps the trigger's types.
LEMMA TriggerNext ==
  ASSUME ControllerInv, Next PROVE TriggerTypeOK'
<1>0. TriggerTypeOK /\ ControllerTypes /\ QueueSound /\ ~panicked
  BY DEF ControllerInv, ControllerTypes, TypeOK, ControlSound, NoIllegalTransition
<1>1. CASE Press \/ StrayRelease \/ LoopEdge \/ FilterPokes \/ Poke \/ Clock
  BY <1>0, <1>1, TriggerKeeps DEF Press, StrayRelease, LoopEdge, FilterPokes, Poke, Clock
<1>2. CASE abort_before_capture \/ FocusOut \/ TargetGone \/ AutoStop
  <2>1. /\ pressed' = FALSE /\ UNCHANGED <<rx, later, candidate>>
        /\ UNCHANGED <<missed, since, streaming>>
    BY <1>2 DEF abort_before_capture, FocusOut, TargetGone, AutoStop, resync, arrivalVars
  <2>2. pressed' \in BOOLEAN
    BY <2>1, Zenon
  <2> QED BY <1>0, <2>1, <2>2, TriggerReset
<1>3. CASE Finish
  <2>1. PICK way : ClosingResync(way)
    BY <1>0, <1>3, FinishForms
  <2>2. pressed' \in BOOLEAN
    BY <1>0, <2>1, TriggerFlags, Zenon DEF ClosingResync
  <2>3. discard_pending /\ UNCHANGED <<missed, since, streaming>>
    BY <1>3 DEF Finish, arrivalVars
  <2> QED BY <1>0, <2>2, <2>3, TriggerReset
<1>4. CASE Acquire \/ FocusStreamEnds \/ TakeResult \/ route_event \/ set_preedit \/ EventsClose
             \/ StatsClose \/ FocusBlips \/ FocusReturns \/ LoseLease \/ SignalLoss
             \/ HandshakeFails
  <2>1. UNCHANGED triggerVars
    BY <1>4 DEF Acquire, FocusStreamEnds, TakeResult, route_event, set_preedit, EventsClose,
                StatsClose, FocusBlips, FocusReturns, LoseLease, SignalLoss, HandshakeFails, FieldFrame
  <2> QED BY <1>0, <2>1, TriggerStays
<1>5. CASE SessionProgress \/ SessionDone \/ SessionFails
  <2>1. UNCHANGED triggerVars
    BY <1>0, <1>5, SessionSteps DEF SessionMoves
  <2> QED BY <1>0, <2>1, TriggerStays
<1> QED BY <1>1, <1>2, <1>3, <1>4, <1>5 DEF Next, ControllerStep

\* No utterance, and one that begins, are typed.
LEMMA NoneTyped == NoUtterance \in Locals
<1> DEFINE none == <<>>
<1>1. none \in Seq(Nat)
  OBVIOUS
<1> HIDE DEF none
<1>2. NoUtterance =
        [trigger_open |-> FALSE, focus_open |-> FALSE, stats_open |-> FALSE,
         events_open |-> FALSE, done |-> Pending, ending |-> "None", stop |-> FALSE,
         pending |-> none, dropped |-> FALSE, fault |-> FALSE, seen |-> "held",
         shown |-> "none"]
  BY DEF NoUtterance, none
<1> QED BY <1>1, <1>2 DEF Locals, Results, Endings, Losses

\* The locals stay in their types.
LEMMA LocalsNext ==
  ASSUME ControllerInv, Next PROVE u' \in Locals
<1>0. /\ ControllerTypes /\ QueueSound /\ ~panicked /\ u \in Locals
      /\ result \in Results /\ loss \in Losses
  BY DEF ControllerInv, ControllerTypes, TypeOK, ControlSound, NoIllegalTransition, Results, Losses
<1>1. CASE Acquire
  <2>1. PICK stats \in BOOLEAN :
          u' = [NoUtterance EXCEPT !.trigger_open = TRUE, !.focus_open = TRUE,
                  !.stats_open = stats, !.events_open = TRUE]
    BY <1>1 DEF Acquire
  <2> QED BY <2>1, NoneTyped DEF Locals
<1>2. CASE FocusOut \/ TargetGone
  <2>1. Or(u.ending, "FocusLost") \in Endings /\ Or(u.ending, "TargetGone") \in Endings
    BY DEF Or, Endings
  <2>2. CASE FocusOut
    <3>1. u' = [u EXCEPT !.seen = "lost", !.stop = TRUE, !.trigger_open = FALSE,
                   !.ending = Or(@, "FocusLost")]
      BY <2>2 DEF FocusOut
    <3> QED BY <1>0, <2>1, <3>1 DEF Locals, Losses
  <2>3. CASE TargetGone
    <3>1. u' = [u EXCEPT !.seen = "gone", !.stop = TRUE, !.trigger_open = FALSE,
                   !.ending = Or(@, "TargetGone")]
      BY <2>3 DEF TargetGone
    <3> QED BY <1>0, <2>1, <3>1 DEF Locals, Losses
  <2> QED BY <1>2, <2>2, <2>3
<1>3. CASE FocusStreamEnds \/ AutoStop \/ StatsClose \/ EventsClose
  <2>1. /\ FocusStreamEnds => u' = [u EXCEPT !.focus_open = FALSE]
        /\ AutoStop =>
             u' = [u EXCEPT !.stop = TRUE, !.trigger_open = FALSE, !.stats_open = FALSE]
        /\ StatsClose => u' = [u EXCEPT !.stats_open = FALSE]
        /\ EventsClose => u' = [u EXCEPT !.events_open = FALSE]
    BY DEF FocusStreamEnds, AutoStop, StatsClose, EventsClose
  <2>2. [u EXCEPT !.focus_open = FALSE] \in Locals
    BY <1>0 DEF Locals
  <2>3. [u EXCEPT !.stop = TRUE, !.trigger_open = FALSE, !.stats_open = FALSE] \in Locals
    BY <1>0 DEF Locals
  <2>4. [u EXCEPT !.stats_open = FALSE] \in Locals
    BY <1>0 DEF Locals
  <2>5. [u EXCEPT !.events_open = FALSE] \in Locals
    BY <1>0 DEF Locals
  <2> QED BY <1>3, <2>1, <2>2, <2>3, <2>4, <2>5
<1>4. CASE TakeResult
  BY <1>0, <1>4 DEF TakeResult, Locals
<1>5. CASE LoopEdge
  <2>1. u' = u \/ u' = [u EXCEPT !.stop = TRUE, !.trigger_open = FALSE]
    BY <1>5 DEF LoopEdge
  <2> QED BY <1>0, <2>1 DEF Locals
<1>6. CASE route_event
  BY <1>0, <1>6, TextRead, BoundaryRead DEF Writes
<1>7. CASE Finish
  <2>1. PICK way \in (Results \ {Pending}) \cup {"gone"} :
          u' = [NoUtterance EXCEPT !.done = way, !.shown = u.shown]
    BY <1>0, <1>7, FinishForms
  <2>2. u.shown \in Indicators \cup {"none"} /\ way \in Results \cup {"gone"}
    BY <1>0 DEF Locals
  <2> QED BY <2>1, <2>2, NoneTyped DEF Locals
<1>8. CASE Press \/ StrayRelease \/ abort_before_capture \/ FilterPokes \/ Poke \/ Clock
             \/ set_preedit \/ FocusBlips \/ FocusReturns \/ LoseLease \/ SignalLoss
             \/ HandshakeFails
  <2>1. u' = u
    BY <1>8 DEF Press, StrayRelease, abort_before_capture, FilterPokes, Poke, Clock, UserFrame,
                set_preedit, FocusBlips, FocusReturns, LoseLease, SignalLoss, FieldFrame, HandshakeFails
  <2> QED BY <1>0, <2>1
<1>9. CASE SessionProgress \/ SessionDone \/ SessionFails
  <2>1. u' = u
    BY <1>0, <1>9, SessionSteps DEF SessionMoves
  <2> QED BY <1>0, <2>1
<1> QED BY <1>1, <1>2, <1>3, <1>4, <1>5, <1>6, <1>7, <1>8, <1>9 DEF Next, ControllerStep

\* The session's side: its machine, its queue and what it returned.
LEMMA SessionTypesNext ==
  ASSUME ControllerInv, Next
  PROVE  /\ fsm' \in FsmStates /\ result' \in Results
         /\ queue' \in Seq(OrchestratorEvents) /\ Len(queue') <= QueueCap
         /\ produced' \in 0..MaxFinals
<1>0. /\ ControllerTypes /\ QueueSound /\ ~panicked /\ fsm \in FsmStates /\ result \in Results
      /\ queue \in Seq(OrchestratorEvents) /\ Len(queue) <= QueueCap
      /\ produced \in 0..MaxFinals /\ QueueCap \in Nat /\ MaxFinals \in Nat
  BY ControllerAssumption
     DEF ControllerInv, ControllerTypes, TypeOK, ControlSound, NoIllegalTransition, Results
<1>1. NewFsm \in FsmStates /\ Pending \in Results
  BY DEF NewFsm, FsmStates, SessionStates, Residencies, Results
<1>2. CASE Acquire
  BY <1>0, <1>1, <1>2 DEF Acquire
<1>3. CASE route_event
  <2>1. queue # <<>> /\ queue' = Tail(queue) /\ UNCHANGED <<fsm, result, produced>>
    BY <1>3 DEF route_event
  <2>2. Tail(queue) \in Seq(OrchestratorEvents) /\ Len(Tail(queue)) = Len(queue) - 1
          /\ Len(queue) \in Nat
    BY <1>0, <2>1, Shorter
  <2> QED BY <1>0, <2>1, <2>2
<1>4. CASE Finish
  BY <1>0, <1>1, <1>4 DEF Finish
<1>5. CASE SessionProgress \/ SessionDone \/ SessionFails
  BY <1>0, <1>5, SessionSteps DEF SessionMoves
<1>6. CASE HandshakeFails
  BY <1>0, <1>6 DEF HandshakeFails, Results
<1>7. CASE Press \/ StrayRelease \/ abort_before_capture \/ FocusOut \/ TargetGone
             \/ FocusStreamEnds \/ LoopEdge \/ FilterPokes \/ TakeResult \/ EventsClose
             \/ AutoStop \/ StatsClose \/ Poke \/ Clock \/ set_preedit \/ FocusBlips
             \/ FocusReturns \/ LoseLease \/ SignalLoss
  <2>1. UNCHANGED sessionVars
    BY <1>7 DEF Press, StrayRelease, abort_before_capture, FocusOut, TargetGone,
                FocusStreamEnds, LoopEdge, FilterPokes, TakeResult, EventsClose, AutoStop,
                StatsClose, Poke, Clock, UserFrame, set_preedit, FocusBlips, FocusReturns,
                LoseLease, SignalLoss, FieldFrame
  <2> QED BY <1>0, <2>1 DEF sessionVars
<1> QED BY <1>2, <1>3, <1>4, <1>5, <1>6, <1>7 DEF Next, ControllerStep

\* The texts: what was read, what the field has, whether an insertion failed.
LEMMA TextTypesNext ==
  ASSUME ControllerInv, Next
  PROVE  /\ finals' \in 0..MaxFinals /\ field' \in Seq(Nat) /\ held' \in Seq(Nat)
         /\ misfire' \in BOOLEAN /\ orphan' \in BOOLEAN
<1>0. /\ ControllerTypes /\ QueueSound /\ ~panicked /\ u \in Locals
      /\ finals \in 0..MaxFinals /\ field \in Seq(Nat) /\ held \in Seq(Nat)
      /\ misfire \in BOOLEAN /\ orphan \in BOOLEAN /\ produced \in 0..MaxFinals
      /\ MaxFinals \in Nat /\ queue \in Seq(OrchestratorEvents)
  BY ControllerAssumption
     DEF ControllerInv, ControllerTypes, TypeOK, ControlSound, NoIllegalTransition
<1>1. CASE Acquire
  <2>1. finals' = 0 /\ field' = <<>> /\ held' = <<>> /\ misfire' = FALSE /\ orphan' = orphan
    BY <1>1 DEF Acquire
  <2>2. misfire' \in BOOLEAN /\ orphan' \in BOOLEAN
    BY <1>0, <2>1, Zenon
  <2> QED BY <1>0, <2>1, <2>2
<1>2. CASE route_event /\ Head(queue) = "Final"
  <2>1. finals' = finals + 1 /\ field' = field /\ held' = held /\ misfire' = misfire
    BY <1>0, <1>2, TextRead
  <2>2. queue # <<>> /\ orphan' = orphan
    BY <1>2 DEF route_event
  <2>3. Tail(queue) \in Seq(OrchestratorEvents)
    BY <1>0, <2>2, Shorter
  <2>4. Finals(queue) = Finals(Tail(queue)) + 1 /\ Finals(Tail(queue)) \in Nat
    BY <1>0, <1>2, <2>2, <2>3, FinalsShorter, FinalsNat
  <2>5. finals' \in 0..MaxFinals
    BY <1>0, <2>1, <2>4 DEF QueueSound
  <2>6. misfire' \in BOOLEAN /\ orphan' \in BOOLEAN
    BY <1>0, <2>1, <2>2, Zenon
  <2> QED BY <1>0, <2>1, <2>5, <2>6
<1>3. CASE route_event /\ Head(queue) # "Final"
  <2>1. PICK misfired :
          /\ field' \in Seq(Nat) /\ held' \in Seq(Nat) /\ Writes(u', Taken', misfired)
          /\ misfire' = (misfire \/ misfired) /\ finals' = finals
    BY <1>0, <1>3, BoundaryRead
  <2>2. orphan' = orphan
    BY <1>3 DEF route_event
  <2>3. misfire' \in BOOLEAN /\ orphan' \in BOOLEAN
    BY <1>0, <2>1, <2>2, Zenon
  <2> QED BY <1>0, <2>1, <2>3
<1>4. CASE Finish
  <2>1. field' \in Seq(Nat) /\ held' \in Seq(Nat) /\ misfire' \in BOOLEAN
    BY <1>0, <1>4, FinishForms
  <2>2. PICK way : orphan' = (way = "completed" /\ pressed)
    BY <1>0, <1>4, FinishForms
  <2>3. orphan' \in BOOLEAN
    BY <2>2, Zenon
  <2>4. finals' = finals
    BY <1>4 DEF Finish
  <2> QED BY <1>0, <2>1, <2>3, <2>4
<1>7. CASE set_preedit
  <2>1. /\ finals' = finals /\ orphan' = orphan /\ held # <<>>
        /\ \/ field' = Append(field, Head(held)) /\ held' = Tail(held) /\ misfire' = misfire
           \/ field' = field /\ held' = <<>> /\ misfire' = TRUE
    BY <1>7 DEF set_preedit
  <2>2. misfire' \in BOOLEAN /\ orphan' \in BOOLEAN
    BY <1>0, <2>1, Zenon
  <2>3. Append(field, Head(held)) \in Seq(Nat) /\ Tail(held) \in Seq(Nat) /\ <<>> \in Seq(Nat)
    BY <1>0, <2>1, Handed
  <2> QED BY <1>0, <2>1, <2>2, <2>3
<1>5. CASE StrayRelease
  <2>1. orphan' = FALSE /\ UNCHANGED textVars
    BY <1>5 DEF StrayRelease
  <2>2. misfire' = misfire /\ field' = field /\ held' = held /\ finals' = finals
    BY <2>1 DEF textVars
  <2>3. misfire' \in BOOLEAN /\ orphan' \in BOOLEAN
    BY <1>0, <2>1, <2>2, Zenon
  <2> QED BY <1>0, <2>2, <2>3
<1>6. CASE Press \/ abort_before_capture \/ FocusOut \/ TargetGone
             \/ FocusStreamEnds \/ LoopEdge \/ FilterPokes \/ TakeResult \/ EventsClose
             \/ AutoStop \/ StatsClose \/ Poke \/ Clock \/ FocusBlips \/ FocusReturns
             \/ LoseLease \/ SignalLoss \/ HandshakeFails \/ SessionProgress \/ SessionDone \/ SessionFails
  <2>1. UNCHANGED textVars /\ orphan' = orphan
    <3>1. CASE SessionProgress \/ SessionDone \/ SessionFails
      BY <1>0, <3>1, SessionSteps DEF SessionMoves
    <3>2. CASE ~(SessionProgress \/ SessionDone \/ SessionFails)
      BY <1>6, <3>2
         DEF Press, abort_before_capture, FocusOut, TargetGone, FocusStreamEnds, LoopEdge,
             FilterPokes, TakeResult, EventsClose, AutoStop, StatsClose, Poke, Clock, UserFrame,
             FocusBlips, FocusReturns, LoseLease, SignalLoss, FieldFrame, HandshakeFails
    <3> QED BY <3>1, <3>2
  <2>2. misfire' = misfire /\ field' = field /\ held' = held /\ finals' = finals
    BY <2>1 DEF textVars
  <2>3. misfire' \in BOOLEAN /\ orphan' \in BOOLEAN
    BY <1>0, <2>1, <2>2, Zenon
  <2> QED BY <1>0, <2>2, <2>3
<1> QED BY <1>1, <1>2, <1>3, <1>4, <1>5, <1>6, <1>7 DEF Next, ControllerStep
-----------------------------------------------------------------------------
(***************************************************************************)
(* Every step keeps the controller sound.                                  *)
(***************************************************************************)

\* The steps that leave the state and the indicator as they are.
Still ==
  \/ StrayRelease \/ FocusStreamEnds \/ FilterPokes \/ TakeResult \/ EventsClose
  \/ StatsClose \/ Poke \/ Clock \/ set_preedit \/ FocusBlips \/ FocusReturns
  \/ LoseLease \/ SignalLoss \/ SessionProgress \/ SessionDone \/ SessionFails \/ HandshakeFails

\* The steps of the session and the field leave the controller's state.
LEMMA StillIs ==
  ASSUME ControllerInv, Still PROVE UNCHANGED <<state, panicked, indicator>>
<1>1. CASE SessionProgress \/ SessionDone \/ SessionFails
  BY <1>1, SessionSteps DEF ControllerInv, SessionMoves
<1>2. CASE ~(SessionProgress \/ SessionDone \/ SessionFails)
  BY <1>2 DEF Still, StrayRelease, FocusStreamEnds, FilterPokes, TakeResult, EventsClose,
              StatsClose, Poke, Clock, UserFrame, set_preedit, FocusBlips, FocusReturns,
              LoseLease, SignalLoss, FieldFrame, HandshakeFails
<1> QED BY <1>1, <1>2

\* Where each of the others leads.
LEMMA StatesNext ==
  ASSUME ControllerInv, Next
  PROVE  /\ Still => UNCHANGED <<state, panicked, indicator>>
         /\ Press => state' = "Starting" /\ indicator' = indicator
         /\ Acquire => state' = "Recording" /\ indicator' = "recording"
         /\ abort_before_capture => state' = "Idle" /\ indicator' = "critical"
         /\ FocusOut \/ AutoStop =>
              Looping /\ state' = "Finalizing" /\ indicator' \in {indicator, "finalizing"}
         /\ LoopEdge => /\ Looping /\ state' \in {state, "Finalizing"}
                        /\ \/ state' = state /\ indicator' = indicator
                           \/ state' = "Finalizing" /\ indicator' \in {indicator, "finalizing"}
         /\ TargetGone => Looping /\ state' = state /\ indicator' = indicator
         /\ route_event => /\ state' \in {"Recording", "Transcribing", "Finalizing"}
                           /\ state = "Finalizing" => state' = "Finalizing"
         /\ Finish => state' = "Idle"
         /\ ~panicked'
<1>0. ControllerTypes /\ QueueSound /\ ~panicked
  BY DEF ControllerInv, ControlSound, NoIllegalTransition
<1>1. Still => UNCHANGED <<state, panicked, indicator>>
  BY StillIs
<1>2. Press => state' = "Starting" /\ indicator' = indicator /\ ~panicked'
  <2>1. Press => Advance(<<"Starting">>) /\ state = "Idle" /\ indicator' = indicator
    BY DEF Press, Busy
  <2>2. can_transition("Idle", "Starting")
    BY DEF can_transition
  <2> QED BY <1>0, <2>1, <2>2, AdvanceOne
<1>3. Acquire => state' = "Recording" /\ indicator' = "recording" /\ ~panicked'
  <2>1. Acquire => Advance(<<"Recording">>) /\ state = "Starting" /\ indicator' = "recording"
    BY DEF Acquire
  <2>2. can_transition("Starting", "Recording")
    BY DEF can_transition
  <2> QED BY <1>0, <2>1, <2>2, AdvanceOne
<1>4. abort_before_capture => state' = "Idle" /\ indicator' = "critical" /\ ~panicked'
  <2>1. abort_before_capture =>
          Advance(<<"Error", "Idle">>) /\ state = "Starting" /\ indicator' = "critical"
    BY DEF abort_before_capture
  <2>2. can_transition("Starting", "Error") /\ can_transition("Error", "Idle")
    BY DEF can_transition
  <2> QED BY <1>0, <2>1, <2>2, AdvanceTwo
<1>5. FocusOut \/ AutoStop =>
        /\ Looping /\ state' = "Finalizing" /\ indicator' \in {indicator, "finalizing"}
        /\ ~panicked'
  <2>1. FocusOut \/ AutoStop => Looping /\ enter_finalizing
    BY DEF FocusOut, AutoStop, OtherArm
  <2> QED BY <1>0, <2>1, EntersFinalizing
<1>6. LoopEdge => /\ Looping /\ ~panicked'
                  /\ \/ state' = state /\ indicator' = indicator
                     \/ state' = "Finalizing" /\ indicator' \in {indicator, "finalizing"}
  <2>1. LoopEdge => Looping /\ (enter_finalizing \/ (Stay /\ indicator' = indicator))
    BY DEF LoopEdge, OtherArm
  <2> QED BY <1>0, <2>1, EntersFinalizing, AdvanceNone
<1>7. TargetGone => Looping /\ state' = state /\ indicator' = indicator /\ ~panicked'
  <2>1. TargetGone => Looping /\ Stay /\ indicator' = indicator
    BY DEF TargetGone
  <2> QED BY <1>0, <2>1, AdvanceNone
<1>8. route_event => /\ state' \in {"Recording", "Transcribing", "Finalizing"} /\ ~panicked'
                     /\ state = "Finalizing" => state' = "Finalizing"
  BY <1>0, RouteAdvances
<1>9. Finish => state' = "Idle" /\ ~panicked'
  BY <1>0, FinishForms
<1>10. ~panicked'
  <2>1. Still => ~panicked'
    BY <1>0, <1>1
  <2> QED BY <2>1, <1>2, <1>3, <1>4, <1>5, <1>6, <1>7, <1>8, <1>9 DEF Next, ControllerStep, Still
<1> QED BY <1>1, <1>2, <1>3, <1>4, <1>5, <1>6, <1>7, <1>8, <1>9, <1>10

\* The state and the indicator stay in their types, and the indicator says
\* finishing in no other state of the loop.
LEMMA ShownNext ==
  ASSUME ControllerInv, Next
  PROVE  /\ state' \in {"Idle", "Starting", "Recording", "Transcribing", "Finalizing"}
         /\ indicator' \in Indicators
         /\ Looping' /\ indicator' = "finalizing" => state' = "Finalizing"
<1>0. /\ ControllerTypes /\ QueueSound /\ ~panicked /\ indicator \in Indicators
      /\ state \in {"Idle", "Starting", "Recording", "Transcribing", "Finalizing"}
      /\ Looping => state \in {"Recording", "Transcribing", "Finalizing"}
      /\ Looping /\ indicator = "finalizing" => state = "Finalizing"
      /\ Looping \/ state \in {"Idle", "Starting"}
  BY LoopStates
     DEF ControllerInv, ControllerTypes, TypeOK, ControlSound, NoIllegalTransition, Indicators,
         DictationStates
<1>1. Looping' => state' \in {"Recording", "Transcribing", "Finalizing"}
  BY DEF Looping, Capturing
<1>2. "finalizing" \in Indicators /\ "recording" \in Indicators /\ "critical" \in Indicators
  BY DEF Indicators
<1>3. CASE route_event
  <2>1. /\ indicator' \in Indicators /\ Looping
        /\ indicator' = "finalizing" => indicator = "finalizing" \/ state' = "Finalizing"
    BY <1>0, <1>3, RouteShows
  <2>2. /\ state' \in {"Recording", "Transcribing", "Finalizing"}
        /\ state = "Finalizing" => state' = "Finalizing"
    BY <1>3, StatesNext
  <2> QED BY <1>0, <2>1, <2>2
<1>4. CASE Finish
  <2>1. indicator' \in Indicators /\ state' = "Idle"
    BY <1>0, <1>4, FinishForms
  <2> QED BY <1>1, <2>1
<1>5. CASE Still
  <2>1. state' = state /\ indicator' = indicator
    BY <1>5, StatesNext
  <2>2. Looping' <=> Looping
    BY <2>1 DEF Looping
  <2> QED BY <1>0, <2>1, <2>2
<1>6. CASE Press \/ Acquire \/ abort_before_capture
  <2>1. \/ state' \in {"Starting", "Idle"} /\ indicator' \in {indicator, "critical"}
        \/ state' = "Recording" /\ indicator' = "recording"
    BY <1>6, StatesNext
  <2> QED BY <1>0, <1>1, <1>2, <2>1
<1>7. CASE FocusOut \/ AutoStop \/ LoopEdge \/ TargetGone
  <2>1. /\ Looping
        /\ \/ state' = state /\ indicator' = indicator
           \/ state' = "Finalizing" /\ indicator' \in {indicator, "finalizing"}
    BY <1>7, StatesNext
  <2> QED BY <1>0, <1>2, <2>1
<1> QED BY <1>3, <1>4, <1>5, <1>6, <1>7 DEF Next, ControllerStep, Still

\* What a step of the loop that is none of its edges does to the parity.
LEMMA ParityNext ==
  ASSUME ControllerInv, Next
  PROVE  /\ state' = "Idle" /\ pressed' => orphan'
         /\ Looping' /\ u'.ending = "TargetGone" => ~pressed' /\ ~u'.trigger_open
<1>0. /\ ControllerTypes /\ QueueSound /\ ~panicked /\ u \in Locals /\ TriggerTypeOK
      /\ pressed \in BOOLEAN
      /\ state = "Idle" /\ pressed => orphan
      /\ Looping /\ u.ending = "TargetGone" => ~pressed /\ ~u.trigger_open
  BY TriggerFlags
     DEF ControllerInv, ControllerTypes, TypeOK, ControlSound, NoIllegalTransition, ParityRestored
<1>1. /\ Looping' => state' \in {"Recording", "Transcribing", "Finalizing"}
      /\ Looping => state \in {"Recording", "Transcribing", "Finalizing"}
  BY DEF Looping, Capturing
<1>2. CASE Press
  <2>1. state' = "Starting"
    BY <1>2, StatesNext
  <2> QED BY <1>1, <2>1
<1>3. CASE StrayRelease
  <2>1. state' = state /\ state = "Idle" /\ pressed /\ EdgeRead
    BY <1>3 DEF StrayRelease, Busy, IsPress
  <2>2. ~pressed'
    BY <1>0, <2>1, EdgesToggle
  <2> QED BY <1>1, <2>1, <2>2
<1>4. CASE Acquire
  <2>1. state' = "Recording"
    BY <1>4, StatesNext
  <2>2. u'.ending = "None"
    BY <1>4, NoneTyped DEF Acquire, NoUtterance
  <2> QED BY <2>1, <2>2
<1>5. CASE abort_before_capture \/ FocusOut \/ TargetGone \/ AutoStop
  <2>1. pressed' = FALSE
    BY <1>5 DEF abort_before_capture, FocusOut, TargetGone, AutoStop, resync
  <2>2. abort_before_capture => state' = "Idle"
    BY StatesNext
  <2>3. FocusOut \/ TargetGone \/ AutoStop => u'.trigger_open = FALSE
    BY <1>0 DEF FocusOut, TargetGone, AutoStop, Locals
  <2> QED BY <1>1, <1>5, <2>1, <2>2, <2>3
<1>6. CASE LoopEdge
  <2>1. /\ u.trigger_open /\ Looping
        /\ u' = u \/ u' = [u EXCEPT !.stop = TRUE, !.trigger_open = FALSE]
    BY <1>6 DEF LoopEdge, OtherArm
  <2>2. u'.ending = u.ending
    BY <1>0, <2>1 DEF Locals
  <2>3. state' \in {state, "Finalizing"}
    BY <1>6, StatesNext
  <2> QED BY <1>0, <1>1, <2>1, <2>2, <2>3
<1>7. CASE Still /\ ~StrayRelease
  <2>1. state' = state
    BY <1>7, StatesNext
  <2>2. pressed' = pressed /\ orphan' = orphan
    <3>1. CASE SessionProgress \/ SessionDone \/ SessionFails
      BY <1>0, <3>1, SessionSteps DEF SessionMoves, triggerVars
    <3>2. CASE FilterPokes \/ Poke \/ Clock
      BY <1>0, <3>2, EdgesToggle DEF FilterPokes, Poke, Clock, UserFrame
    <3>3. CASE FocusStreamEnds \/ TakeResult \/ EventsClose \/ StatsClose \/ set_preedit
                 \/ FocusBlips \/ FocusReturns \/ LoseLease \/ SignalLoss \/ HandshakeFails
      BY <3>3 DEF FocusStreamEnds, TakeResult, EventsClose, StatsClose, set_preedit, FocusBlips,
                  FocusReturns, LoseLease, SignalLoss, FieldFrame, HandshakeFails, triggerVars
    <3> QED BY <1>7, <3>1, <3>2, <3>3 DEF Still
  <2>3. u'.ending = u.ending /\ u'.trigger_open = u.trigger_open
    <3>1. CASE SessionProgress \/ SessionDone \/ SessionFails
      BY <1>0, <3>1, SessionSteps DEF SessionMoves
    <3>2. CASE FilterPokes \/ Poke \/ Clock \/ set_preedit \/ FocusBlips \/ FocusReturns
                 \/ LoseLease \/ SignalLoss \/ HandshakeFails
      BY <3>2 DEF FilterPokes, Poke, Clock, UserFrame, set_preedit, FocusBlips, FocusReturns,
                  LoseLease, SignalLoss, FieldFrame, HandshakeFails
    <3>3. CASE FocusStreamEnds \/ TakeResult \/ EventsClose \/ StatsClose
      BY <1>0, <3>3 DEF FocusStreamEnds, TakeResult, EventsClose, StatsClose, Locals
    <3> QED BY <1>7, <3>1, <3>2, <3>3 DEF Still
  <2>4. Looping' <=> Looping
    BY <2>1 DEF Looping
  <2> QED BY <1>0, <2>1, <2>2, <2>3, <2>4
<1>8. CASE route_event
  <2>1. pressed' = pressed /\ Looping
    BY <1>8 DEF route_event, triggerVars, OtherArm
  <2>2. state' \in {"Recording", "Transcribing", "Finalizing"}
    BY <1>8, StatesNext
  <2>3. (u'.ending = "TargetGone" => u.ending = "TargetGone") /\ u'.trigger_open = u.trigger_open
    <3>1. CASE Head(queue) = "Final"
      BY <1>0, <1>8, <3>1, TextRead DEF Locals
    <3>2. CASE Head(queue) # "Final"
      BY <1>0, <1>8, <3>2, BoundaryRead DEF Writes
    <3> QED BY <3>1, <3>2
  <2> QED BY <1>0, <2>1, <2>2, <2>3
<1>9. CASE Finish
  <2>1. PICK way \in (Results \ {Pending}) \cup {"gone"} :
          /\ ClosingResync(way) /\ orphan' = (way = "completed" /\ pressed)
          /\ way = "gone" => u.ending = "TargetGone"
    BY <1>0, <1>9, FinishForms
  <2>2. state' = "Idle" /\ Looping
    BY <1>0, <1>9, FinishForms
  <2>3. way = "completed" /\ pressed => orphan'
    BY <2>1
  <2>4. pressed' => pressed /\ way \in {"completed", "gone"}
    BY <2>1 DEF ClosingResync
  <2> QED BY <1>0, <1>1, <2>1, <2>2, <2>3, <2>4
<1> QED BY <1>2, <1>3, <1>4, <1>5, <1>6, <1>7, <1>8, <1>9 DEF Next, ControllerStep, Still

\* All of it.
LEMMA ControlNext ==
  ASSUME ControllerInv, Next PROVE ControlSound'
<1>1. ~panicked'
  BY StatesNext
<1> QED BY <1>1, ShownNext, ParityNext DEF ControlSound, NoIllegalTransition, ParityRestored
\* The target's lease and what its stream says of it.
LEMMA LeaseNext ==
  ASSUME ControllerInv, Next
  PROVE  lease' \in {"none", "held", "away", "lost", "gone"} /\ loss' \in Losses
<1>0. /\ lease \in {"none", "held", "away", "lost", "gone"} /\ loss \in Losses
      /\ ControllerTypes /\ QueueSound
  BY DEF ControllerInv, ControllerTypes, TypeOK, Losses
<1>1. CASE Acquire \/ Finish \/ FocusBlips \/ FocusReturns \/ LoseLease \/ SignalLoss
  BY <1>0, <1>1 DEF Acquire, Finish, FocusBlips, FocusReturns, LoseLease, SignalLoss, Losses
<1>2. CASE SessionProgress \/ SessionDone \/ SessionFails
  BY <1>0, <1>2, SessionSteps DEF SessionMoves, targetVars
<1>3. CASE Press \/ StrayRelease \/ abort_before_capture \/ FocusOut \/ TargetGone
             \/ FocusStreamEnds \/ LoopEdge \/ FilterPokes \/ TakeResult \/ route_event
             \/ set_preedit \/ EventsClose \/ AutoStop \/ StatsClose \/ Poke \/ Clock
             \/ HandshakeFails
  <2>1. UNCHANGED targetVars
    BY <1>3 DEF Press, StrayRelease, abort_before_capture, FocusOut, TargetGone,
                FocusStreamEnds, LoopEdge, FilterPokes, TakeResult, route_event, set_preedit,
                EventsClose, AutoStop, StatsClose, Poke, Clock, UserFrame, HandshakeFails
  <2> QED BY <1>0, <2>1 DEF targetVars
<1> QED BY <1>1, <1>2, <1>3 DEF Next, ControllerStep

\* All the types.
LEMMA TypesNext ==
  ASSUME ControllerInv, Next PROVE ControllerTypes'
<1>1. TriggerTypeOK'
  BY TriggerNext
<1>2. state' \in DictationStates \ {"Completed", "Cancelled", "Error"}
  BY ShownNext DEF DictationStates
<1>3. indicator' \in Indicators
  BY ShownNext
<1>4. u' \in Locals
  BY LocalsNext
<1>5. u'.ending \in Endings
  BY <1>4 DEF Locals
<1>6. /\ fsm' \in FsmStates /\ result' \in Results
      /\ queue' \in Seq(OrchestratorEvents) /\ Len(queue') <= QueueCap
      /\ produced' \in 0..MaxFinals
  BY SessionTypesNext
<1>7. /\ finals' \in 0..MaxFinals /\ field' \in Seq(Nat) /\ held' \in Seq(Nat)
      /\ misfire' \in BOOLEAN /\ orphan' \in BOOLEAN
  BY TextTypesNext
<1>8. lease' \in {"none", "held", "away", "lost", "gone"} /\ loss' \in Losses
  BY LeaseNext
<1>9. TypeOK'
  BY <1>1, <1>2, <1>3, <1>5, <1>6, <1>7, <1>8 DEF TypeOK, Indicators, Results, Losses
<1> QED BY <1>4, <1>6, <1>7, <1>9 DEF ControllerTypes

-----------------------------------------------------------------------------
(***************************************************************************)
(* Every step keeps the queue and the texts sound.                         *)
(***************************************************************************)

\* The steps that leave the session, the texts, and of the utterance its result
\* and its buffer.
Aside ==
  \/ Press \/ StrayRelease \/ abort_before_capture \/ FocusOut \/ TargetGone
  \/ FocusStreamEnds \/ LoopEdge \/ FilterPokes \/ AutoStop \/ StatsClose
  \/ Poke \/ Clock \/ FocusBlips \/ FocusReturns \/ LoseLease \/ SignalLoss

\* What happens around the loop leaves its texts and its session.
LEMMA AsideIs ==
  ASSUME ControllerTypes, Aside
  PROVE  /\ UNCHANGED <<fsm, result, queue, produced, finals, field, held, misfire>>
         /\ \A local \in {"done", "events_open", "pending", "dropped"} : u'[local] = u[local]
<1>1. UNCHANGED <<sessionVars, textVars>>
  BY DEF Aside, Press, StrayRelease, abort_before_capture, FocusOut, TargetGone,
         FocusStreamEnds, LoopEdge, FilterPokes, AutoStop, StatsClose, Poke, Clock, UserFrame,
         FocusBlips, FocusReturns, LoseLease, SignalLoss, FieldFrame
<1>2. /\ u'.done = u.done /\ u'.events_open = u.events_open
      /\ u'.pending = u.pending /\ u'.dropped = u.dropped
  <2>0. u \in Locals
    BY DEF ControllerTypes
  <2>1. CASE Press \/ StrayRelease \/ abort_before_capture \/ FilterPokes \/ Poke \/ Clock
               \/ FocusBlips \/ FocusReturns \/ LoseLease \/ SignalLoss
    BY <2>1 DEF Press, StrayRelease, abort_before_capture, FilterPokes, Poke, Clock, UserFrame,
                FocusBlips, FocusReturns, LoseLease, SignalLoss, FieldFrame
  <2>2. CASE FocusOut \/ TargetGone \/ FocusStreamEnds \/ AutoStop \/ StatsClose
    BY <2>0, <2>2 DEF FocusOut, TargetGone, FocusStreamEnds, AutoStop, StatsClose, Locals
  <2>3. CASE LoopEdge
    <3>1. u' = u \/ u' = [u EXCEPT !.stop = TRUE, !.trigger_open = FALSE]
      BY <2>3 DEF LoopEdge
    <3> QED BY <2>0, <3>1 DEF Locals
  <2> QED BY <2>1, <2>2, <2>3 DEF Aside
<1> QED BY <1>1, <1>2 DEF sessionVars, textVars

\* The loop is entered by Acquire and left by Finish, and Idle is reached by
\* the end of an utterance only.
LEMMA LoopNext ==
  ASSUME ControllerInv, Next
  PROVE  /\ Looping' /\ ~Acquire => Looping
         /\ Looping /\ ~Finish => Looping'
         /\ state' = "Idle" /\ ~Finish /\ indicator' = "hidden" =>
              state = "Idle" /\ indicator = "hidden"
<1>0. /\ ControllerTypes
      /\ Looping <=> state \in {"Recording", "Transcribing", "Finalizing"}
      /\ Looping' <=> state' \in {"Recording", "Transcribing", "Finalizing"}
  BY LoopStates DEF ControllerInv, Looping, Capturing
<1>1. CASE Still
  <2>1. state' = state /\ indicator' = indicator
    BY <1>1, StatesNext
  <2> QED BY <1>0, <2>1
<1>2. CASE Press \/ abort_before_capture
  <2>1. state' = "Starting" \/ (state' = "Idle" /\ indicator' = "critical")
    BY <1>2, StatesNext
  <2>2. state \in {"Idle", "Starting"}
    BY <1>2 DEF Press, Busy, abort_before_capture
  <2> QED BY <1>0, <2>1, <2>2
<1>3. CASE FocusOut \/ AutoStop \/ LoopEdge \/ TargetGone
  <2>1. Looping /\ (state' = state \/ state' = "Finalizing")
    BY <1>3, StatesNext
  <2> QED BY <1>0, <2>1
<1>4. CASE route_event
  <2>1. Looping /\ Looping'
    BY <1>0, <1>4, RouteShows, StatesNext
  <2> QED BY <1>0, <2>1
<1>5. CASE Acquire
  <2>1. state' = "Recording" /\ state = "Starting"
    BY <1>5, StatesNext DEF Acquire
  <2> QED BY <1>0, <1>5, <2>1
<1>6. CASE Finish
  <2>1. state' = "Idle"
    BY <1>6, StatesNext
  <2> QED BY <1>0, <1>6, <2>1
<1> QED BY <1>1, <1>2, <1>3, <1>4, <1>5, <1>6 DEF Next, ControllerStep, Still

\* No text of the queue is lost, and its end is told apart.
LEMMA QueueNext ==
  ASSUME ControllerInv, Next PROVE QueueSound'
<1>7. /\ queue \in Seq(OrchestratorEvents) /\ finals \in 0..MaxFinals
      /\ produced \in 0..MaxFinals /\ MaxFinals \in Nat
  BY ControllerAssumption DEF ControllerInv, ControllerTypes, TypeOK
<1>8. Finals(queue) \in Nat
  BY <1>7, FinalsNat
<1>0. /\ ControllerTypes /\ QueueSound /\ ~panicked /\ u \in Locals
      /\ queue \in Seq(OrchestratorEvents)
      /\ finals \in Nat /\ produced \in Nat /\ Finals(queue) \in Nat
      /\ finals + Finals(queue) = produced
      /\ Looping /\ result = Pending => ~is_terminal(fsm.session)
      /\ Looping /\ u.done # Pending => u.done = result
      /\ Looping /\ ~u.events_open => queue = <<>> /\ u.done # Pending
  BY <1>7, <1>8
     DEF ControllerInv, ControllerTypes, ControlSound, NoIllegalTransition, QueueSound
<1> DEFINE Count == finals' + Finals(queue') = produced'
           Runs == Looping' /\ result' = Pending => ~is_terminal(fsm'.session)
           Answered == Looping' /\ u'.done # Pending => u'.done = result'
           Closed == Looping' /\ ~u'.events_open => queue' = <<>> /\ u'.done # Pending
<1>1. CASE (Aside \/ TakeResult \/ EventsClose \/ set_preedit) /\ ~Acquire
  <2>1. UNCHANGED <<fsm, result, queue, produced, finals>>
    BY <1>0, <1>1, AsideIs DEF TakeResult, EventsClose, set_preedit, sessionVars, textVars
  <2>2. Looping' => Looping
    BY <1>1, LoopNext
  <2>3. Aside \/ set_preedit => u'.done = u.done /\ u'.events_open = u.events_open
    BY <1>0, AsideIs DEF set_preedit
  <2>4. TakeResult => u'.done = result /\ result # Pending /\ u'.events_open = u.events_open
    BY <1>0 DEF TakeResult, Locals
  <2>5. EventsClose => u'.done = u.done /\ queue = <<>> /\ u.done # Pending
    BY <1>0 DEF EventsClose, Locals
  <2>6. Runs
    BY <1>0, <2>1, <2>2, Zenon
  <2>7. Answered
    BY <1>0, <1>1, <2>1, <2>2, <2>3, <2>4, <2>5, Zenon
  <2>8. Closed
    BY <1>0, <1>1, <2>1, <2>2, <2>3, <2>4, <2>5, Zenon
  <2> QED BY <1>0, <2>1, <2>6, <2>7, <2>8 DEF QueueSound
<1>2. CASE Acquire
  <2>1. /\ fsm' = NewFsm /\ result' = Pending /\ queue' = <<>> /\ produced' = 0 /\ finals' = 0
        /\ u'.events_open = TRUE /\ u'.done = Pending
    BY <1>2, NoneTyped DEF Acquire, NoUtterance, Locals
  <2>2. Finals(queue') = 0
    <3>1. queue' \in Seq(OrchestratorEvents)
      BY SessionTypesNext
    <3> QED BY <2>1, <3>1, FinalsNat
  <2>3. ~is_terminal(fsm'.session)
    BY <2>1 DEF NewFsm, is_terminal
  <2> QED BY <2>1, <2>2, <2>3 DEF QueueSound
<1>3. CASE route_event
  <2>1. /\ queue # <<>> /\ queue' = Tail(queue) /\ u.events_open /\ Looping
        /\ UNCHANGED <<fsm, result, produced>>
    BY <1>0, <1>3, RouteShows DEF route_event
  <2>2. Tail(queue) \in Seq(OrchestratorEvents)
    BY <1>0, <2>1, Shorter
  <2>3. /\ Finals(Tail(queue)) \in Nat
        /\ Finals(queue) = IF Head(queue) = "Final" THEN Finals(Tail(queue)) + 1
                                                    ELSE Finals(Tail(queue))
    BY <1>0, <2>1, <2>2, FinalsNat, FinalsShorter
  <2>4. /\ finals' = IF Head(queue) = "Final" THEN finals + 1 ELSE finals
        /\ u'.events_open = u.events_open /\ u'.done = u.done
    <3>1. CASE Head(queue) = "Final"
      BY <1>0, <1>3, <3>1, TextRead DEF Locals
    <3>2. CASE Head(queue) # "Final"
      BY <1>0, <1>3, <3>2, BoundaryRead DEF Writes
    <3> QED BY <3>1, <3>2
  <2>5. Count
    BY <1>0, <2>1, <2>3, <2>4
  <2> QED BY <1>0, <2>1, <2>4, <2>5 DEF QueueSound
<1>4. CASE Finish
  <2>1. state' = "Idle" /\ UNCHANGED <<queue, produced, finals>>
    BY <1>4, StatesNext DEF Finish
  <2>2. ~Looping'
    BY <2>1 DEF Looping, Capturing
  <2> QED BY <1>0, <2>1, <2>2 DEF QueueSound
<1>5. CASE SessionProgress \/ SessionDone \/ SessionFails
  <2>1. SessionMoves
    BY <1>0, <1>5, SessionSteps
  <2>2. /\ Looping /\ result = Pending
        /\ result' = Pending => ~is_terminal(fsm'.session)
        /\ u' = u
    BY <2>1 DEF SessionMoves
  <2>3. /\ produced' + Finals(queue) = produced + Finals(queue') /\ finals' = finals
        /\ Finals(queue') \in Nat /\ produced' \in Nat
    <3>1. /\ produced' + Finals(queue) = produced + Finals(queue') /\ finals' = finals
          /\ queue' \in Seq(OrchestratorEvents) /\ produced' \in 0..MaxFinals
      BY <2>1 DEF SessionMoves, textVars
    <3>2. Finals(queue') \in Nat
      BY <3>1, FinalsNat
    <3> QED BY <1>7, <3>1, <3>2
  <2>4. u.done = Pending /\ u.events_open
    BY <1>0, <2>2, Zenon
  <2>5. Count
    <3>1. finals + Finals(queue) = produced /\ finals \in Nat
      BY <1>0
    <3> QED BY <1>8, <2>3, <3>1
  <2>6. Runs
    BY <2>2, Zenon
  <2>7. Answered /\ Closed
    BY <2>2, <2>4, Zenon
  <2> QED BY <2>5, <2>6, <2>7 DEF QueueSound
<1>6. CASE HandshakeFails
  <2>1. /\ Looping /\ result = Pending /\ result' # Pending
        /\ UNCHANGED <<queue, produced, finals, u>>
    BY <1>6 DEF HandshakeFails, textVars, Pending
  <2>2. u.done = Pending /\ u.events_open
    BY <1>0, <2>1, Zenon
  <2> QED BY <1>0, <2>1, <2>2 DEF QueueSound
<1> QED BY <1>1, <1>2, <1>3, <1>4, <1>5, <1>6 DEF Next, ControllerStep, Aside

\* The numbered texts, one after the other.
LEMMA NumbersAre ==
  ASSUME NEW n \in Nat
  PROVE  /\ Numbers(n) \in Seq(Nat) /\ Len(Numbers(n)) = n
         /\ \A i \in 1..n : Numbers(n)[i] = i
         /\ Numbers(0) = <<>>
BY DEF Numbers

\* Texts in order, none later than the n-th.
Ordered(s, n) == Increasing(s) /\ \A i \in DOMAIN s : s[i] \in 1..n

\* The next text keeps them so.
LEMMA OrderedLonger ==
  ASSUME NEW s \in Seq(Nat), NEW n \in Nat, Ordered(s, n)
  PROVE  /\ Ordered(Append(s, n + 1), n + 1)
         /\ s = Numbers(n) => Append(s, n + 1) = Numbers(n + 1)
<1> DEFINE t == Append(s, n + 1)
           m == Len(s) + 1
<1>1. /\ t \in Seq(Nat) /\ Len(t) = m /\ DOMAIN t = 1..m /\ DOMAIN s = 1..Len(s)
      /\ Len(s) \in Nat /\ t[m] = n + 1
      /\ \A i \in 1..Len(s) : t[i] = s[i]
  BY Longer
<1>2. \A i \in 1..Len(s) : s[i] \in 1..n
  BY <1>1 DEF Ordered
<1>3. \A i, j \in 1..Len(s) : i < j => s[i] < s[j]
  BY <1>1 DEF Ordered, Increasing
<1> HIDE DEF t
<1>4. ASSUME NEW i \in 1..m PROVE t[i] \in 1..n + 1
  <2>1. i \in 1..Len(s) \/ i = m
    BY <1>1
  <2> QED BY <1>1, <1>2, <2>1
<1>5. ASSUME NEW i \in 1..m, NEW j \in 1..m, i < j PROVE t[i] < t[j]
  <2>1. i \in 1..Len(s)
    BY <1>1, <1>5
  <2>2. CASE j = m
    <3>1. t[i] \in 1..n /\ t[j] = n + 1
      BY <1>1, <1>2, <2>1, <2>2
    <3> QED BY <3>1
  <2>3. CASE j # m
    <3>1. j \in 1..Len(s)
      BY <1>1, <2>3
    <3> QED BY <1>1, <1>3, <1>5, <2>1, <3>1
  <2> QED BY <2>2, <2>3
<1>6. Ordered(t, n + 1)
  BY <1>1, <1>4, <1>5 DEF Ordered, Increasing
<1>7. ASSUME s = Numbers(n) PROVE t = Numbers(n + 1)
  <2>1. Len(s) = n /\ \A i \in 1..n : s[i] = i
    BY <1>7, NumbersAre
  <2>2. /\ Numbers(n + 1) \in Seq(Nat) /\ Len(Numbers(n + 1)) = n + 1
        /\ \A i \in 1..n + 1 : Numbers(n + 1)[i] = i
    BY NumbersAre
  <2>3. \A i \in 1..n + 1 : t[i] = Numbers(n + 1)[i]
    BY <1>1, <2>1, <2>2
  <2> HIDE DEF m
  <2>4. Len(t) = n + 1
    BY <1>1, <2>1 DEF m
  <2> QED BY <1>1, <2>2, <2>3, <2>4, SameItems
<1> QED BY <1>6, <1>7 DEF t

\* Those at the front of such texts are such texts.
LEMMA OrderedFront ==
  ASSUME NEW f \in Seq(Nat), NEW p \in Seq(Nat), NEW n \in Nat, Ordered(f \o p, n)
  PROVE  Ordered(f, n)
<1> DEFINE s == f \o p
<1>1. /\ Len(f) \in Nat /\ Len(p) \in Nat /\ DOMAIN f = 1..Len(f)
      /\ DOMAIN s = 1..Len(f) + Len(p)
      /\ \A i \in 1..Len(f) : s[i] = f[i]
  OBVIOUS
<1>2. /\ \A i \in DOMAIN s : s[i] \in 1..n
      /\ \A i, j \in DOMAIN s : i < j => s[i] < s[j]
  BY DEF Ordered, Increasing
<1> HIDE DEF s
<1>3. \A i \in 1..Len(f) : i \in DOMAIN s
  BY <1>1
<1>4. \A i \in 1..Len(f) : f[i] \in 1..n
  BY <1>1, <1>2, <1>3
<1>5. \A i, j \in 1..Len(f) : i < j => f[i] < f[j]
  BY <1>1, <1>2, <1>3
<1> QED BY <1>1, <1>4, <1>5 DEF Ordered, Increasing

\* What the target has at the front of what it took is in order when all that was
\* told is.
LEMMA FrontOrdered ==
  ASSUME ControllerTypes, NEW n \in Nat, Ordered(Told, n), NEW s, Front(s, Taken)
  PROVE  Ordered(s, n)
<1>1. Taken \in Seq(Nat) /\ u.pending \in Seq(Nat)
  BY DEF ControllerTypes, Locals, Taken
<1>2. Ordered(Taken, n)
  BY <1>1, OrderedFront DEF Told
<1>3. PICK rest \in Seq(Nat) : Taken = s \o rest
  BY DEF Front
<1> QED BY <1>2, <1>3, OrderedFront DEF Front

\* What the target took and what waits stays in order, and whole.
LEMMA TextNext ==
  ASSUME ControllerInv, Next PROVE TextSound'
<1>0. /\ ControllerTypes /\ QueueSound /\ ~panicked /\ u \in Locals
      /\ finals \in Nat /\ produced \in Nat /\ field \in Seq(Nat) /\ u.pending \in Seq(Nat)
      /\ held \in Seq(Nat) /\ misfire \in BOOLEAN /\ queue \in Seq(OrchestratorEvents)
  BY ControllerAssumption
     DEF ControllerInv, ControllerTypes, TypeOK, ControlSound, NoIllegalTransition, Locals
<1>1. /\ Ordered(Told, finals)
      /\ ~Looping => u.pending = <<>>
      /\ Looping /\ ~u.dropped /\ ~misfire => Told = Numbers(finals)
      /\ state = "Idle" /\ indicator = "hidden" /\ ~misfire => Taken = Numbers(produced)
  BY DEF ControllerInv, TextSound, Ordered
<1>2. Taken \in Seq(Nat) /\ Told \in Seq(Nat)
  BY <1>0 DEF Taken, Told
<1> DEFINE InOrder == Ordered(Told', finals')
           Empty == ~Looping' => u'.pending = <<>>
           Whole == Looping' /\ ~u'.dropped /\ ~misfire' => Told' = Numbers(finals')
           Done == state' = "Idle" /\ indicator' = "hidden" /\ ~misfire' =>
                     Taken' = Numbers(produced')
<1>3. SUFFICES InOrder /\ Empty /\ Whole /\ Done
  BY DEF TextSound, Ordered, Numbers, Told, Taken
<1>4. CASE /\ Aside \/ TakeResult \/ EventsClose \/ SessionProgress \/ SessionDone
                 \/ SessionFails \/ HandshakeFails
           /\ ~Acquire /\ ~Finish
  <2>1. /\ field' = field /\ held' = held /\ finals' = finals /\ misfire' = misfire
        /\ u'.pending = u.pending /\ u'.dropped = u.dropped
    <3>1. CASE Aside
      BY <1>0, <3>1, AsideIs
    <3>2. CASE TakeResult \/ EventsClose \/ HandshakeFails
      BY <1>0, <3>2 DEF TakeResult, EventsClose, HandshakeFails, textVars, Locals
    <3>3. CASE SessionProgress \/ SessionDone \/ SessionFails
      BY <1>0, <3>3, SessionSteps DEF SessionMoves, textVars
    <3> QED BY <1>4, <3>1, <3>2, <3>3
  <2>2. Told' = Told /\ Taken' = Taken
    BY <2>1 DEF Told, Taken
  <2>3. /\ Looping' <=> Looping
        /\ state' = "Idle" /\ indicator' = "hidden" => state = "Idle" /\ indicator = "hidden"
    BY <1>4, LoopNext
  <2>4. state' = "Idle" => produced' = produced
    <3>1. CASE Aside
      BY <1>0, <3>1, AsideIs
    <3>2. CASE TakeResult \/ EventsClose \/ HandshakeFails
      BY <3>2 DEF TakeResult, EventsClose, HandshakeFails, sessionVars
    <3>3. CASE SessionProgress \/ SessionDone \/ SessionFails
      <4>1. Looping /\ state' = state
        BY <1>0, <3>3, SessionSteps DEF SessionMoves
      <4>2. state # "Idle"
        BY <4>1 DEF Looping, Capturing
      <4> QED BY <4>1, <4>2
    <3> QED BY <1>4, <3>1, <3>2, <3>3
  <2>5. InOrder
    BY <1>1, <2>1, <2>2
  <2>6. Empty
    BY <1>1, <2>1, <2>3, Zenon
  <2>7. Whole
    BY <1>1, <2>1, <2>2, <2>3, Zenon
  <2>8. Done
    BY <1>1, <2>1, <2>2, <2>3, <2>4, Zenon
  <2> QED BY <2>5, <2>6, <2>7, <2>8
<1>5. CASE Acquire
  <2>1. /\ field' = <<>> /\ held' = <<>> /\ finals' = 0 /\ u'.pending = <<>>
    BY <1>5, NoneTyped DEF Acquire, NoUtterance, Locals
  <2>2. Told' = <<>>
    <3> DEFINE none == <<>>
    <3>1. none \in Seq(Nat)
      OBVIOUS
    <3> HIDE DEF none
    <3>2. none \o <<>> = none
      BY <3>1, JoinedNothing
    <3> QED BY <2>1, <3>2 DEF Told, Taken, none
  <2>3. state' = "Recording"
    BY <1>5, StatesNext
  <2>4. Numbers(0) = <<>>
    BY NumbersAre
  <2>5. Ordered(<<>>, 0)
    BY DEF Ordered, Increasing
  <2>6. InOrder
    BY <2>1, <2>2, <2>5
  <2>7. Whole
    BY <2>1, <2>2, <2>4
  <2> QED BY <2>1, <2>3, <2>6, <2>7
<1>6. CASE route_event /\ Head(queue) = "Final"
  <2>1. /\ u'.pending = Append(u.pending, finals + 1) /\ u'.dropped = u.dropped
        /\ finals' = finals + 1 /\ field' = field /\ held' = held /\ misfire' = misfire
    BY <1>0, <1>6, TextRead DEF Locals
  <2>2. Told' = Append(Told, finals + 1)
    <3>1. Taken \o Append(u.pending, finals + 1) = Append(Taken \o u.pending, finals + 1)
      <4>1. Taken \in Seq(Nat) /\ u.pending \in Seq(Nat) /\ finals + 1 \in Nat
        BY <1>0, <1>2
      <4> HIDE DEF Taken
      <4> QED BY <4>1, SMTT(30)
    <3>2. Taken' = Taken
      BY <2>1 DEF Taken
    <3> QED BY <2>1, <3>1, <3>2 DEF Told
  <2>3. /\ Ordered(Append(Told, finals + 1), finals + 1)
        /\ Told = Numbers(finals) => Append(Told, finals + 1) = Numbers(finals + 1)
    BY <1>0, <1>1, <1>2, OrderedLonger
  <2>4. Looping /\ Looping' /\ state' # "Idle"
    <3>1. Looping /\ state' \in {"Recording", "Transcribing", "Finalizing"}
      BY <1>0, <1>6, RouteShows, StatesNext
    <3> QED BY <3>1 DEF Looping, Capturing
  <2>5. InOrder
    BY <2>1, <2>2, <2>3
  <2>6. Whole
    BY <1>1, <2>1, <2>2, <2>3, <2>4, Zenon
  <2> QED BY <2>4, <2>5, <2>6
<1>7. CASE route_event /\ Head(queue) # "Final"
  <2>1. PICK misfired :
          /\ field' \in Seq(Nat) /\ held' \in Seq(Nat) /\ Writes(u', Taken', misfired)
          /\ misfire' = (misfire \/ misfired) /\ finals' = finals
    BY <1>0, <1>7, BoundaryRead
  <2>2. /\ u'.pending = <<>> /\ (u.dropped => u'.dropped)
        /\ \/ Taken' = Told /\ u'.dropped = u.dropped /\ ~misfired
           \/ Front(Taken', Taken) /\ (u'.dropped \/ misfired)
    BY <2>1 DEF Writes
  <2>3. Told' = Taken'
    <3>1. Taken' \in Seq(Nat)
      BY <1>2, <2>2 DEF Front
    <3>2. Taken' \o <<>> = Taken'
      BY <3>1, JoinedNothing
    <3> QED BY <2>2, <3>2 DEF Told
  <2>4. Looping /\ Looping' /\ state' # "Idle"
    <3>1. Looping /\ state' \in {"Recording", "Transcribing", "Finalizing"}
      BY <1>0, <1>7, RouteShows, StatesNext
    <3> QED BY <3>1 DEF Looping, Capturing
  <2>6. InOrder
    <3>1. Front(Taken', Taken) => Ordered(Taken', finals)
      BY <1>0, <1>1, FrontOrdered
    <3> QED BY <1>1, <2>1, <2>2, <2>3, <3>1
  <2>7. Whole
    <3>1. misfire \/ misfired => misfire'
      BY <2>1
    <3>2. ASSUME ~u'.dropped, ~misfire' PROVE Told' = Numbers(finals')
      <4>1. Taken' = Told /\ ~u.dropped /\ ~misfire
        BY <2>2, <3>1, <3>2, Zenon
      <4>2. Told = Numbers(finals)
        BY <1>1, <2>4, <4>1, Zenon
      <4> QED BY <2>1, <2>3, <4>1, <4>2
    <3> QED BY <3>2
  <2> QED BY <2>4, <2>6, <2>7
<1>8. CASE Finish
  <2>1. /\ Looping /\ ~u.events_open /\ state' = "Idle"
        /\ field' \in Seq(Nat) /\ held' \in Seq(Nat)
        /\ Front(Taken', Taken) \/ Taken' = Told
        /\ indicator' = "hidden" /\ ~misfire' => ~u.dropped /\ ~misfire /\ Taken' = Told
    BY <1>0, <1>8, FinishForms
  <2>2. PICK way \in (Results \ {Pending}) \cup {"gone"} :
          u' = [NoUtterance EXCEPT !.done = way, !.shown = u.shown]
    BY <1>0, <1>8, FinishForms
  <2>3. u'.pending = <<>>
    BY <2>2, NoneTyped DEF NoUtterance, Locals
  <2>4. finals' = finals /\ produced' = produced
    BY <1>8 DEF Finish
  <2>5. finals = produced
    <3>1. queue = <<>> /\ finals + Finals(queue) = produced
      BY <1>0, <2>1 DEF QueueSound
    <3>2. Finals(queue) = 0
      BY <1>0, <3>1, FinalsNat
    <3> QED BY <1>0, <3>1, <3>2
  <2>6. Told' = Taken' /\ ~Looping'
    <3>1. Taken' \in Seq(Nat)
      BY <1>2, <2>1 DEF Front
    <3>2. Taken' \o <<>> = Taken'
      BY <3>1, JoinedNothing
    <3> QED BY <2>1, <2>3, <3>2 DEF Told, Looping, Capturing
  <2>7. InOrder
    <3>1. Front(Taken', Taken) => Ordered(Taken', finals)
      BY <1>0, <1>1, FrontOrdered
    <3> QED BY <1>1, <2>1, <2>4, <2>6, <3>1
  <2>8. Done
    <3>1. ASSUME indicator' = "hidden", ~misfire' PROVE Taken' = Numbers(produced')
      <4>1. ~u.dropped /\ ~misfire /\ Taken' = Told
        BY <2>1, <3>1
      <4>2. Told = Numbers(finals)
        BY <1>1, <2>1, <4>1, Zenon
      <4> QED BY <2>4, <2>5, <4>1, <4>2
    <3> QED BY <3>1
  <2> QED BY <2>3, <2>6, <2>7, <2>8
<1>9. CASE set_preedit
  <2>1. /\ finals' = finals /\ u' = u /\ state' = state /\ held # <<>> /\ Looping
        /\ \/ field' = Append(field, Head(held)) /\ held' = Tail(held) /\ misfire' = misfire
           \/ field' = field /\ held' = <<>> /\ misfire' = TRUE
        /\ u.pending = <<>>
    BY <1>9 DEF set_preedit, OtherArm
  <2>2. Looping' /\ state' # "Idle"
    BY <2>1 DEF Looping, Capturing
  <2>3. CASE misfire' = misfire /\ field' = Append(field, Head(held)) /\ held' = Tail(held)
    <3>1. Taken' = Taken
      BY <1>0, <2>1, <2>3, Handed DEF Taken
    <3>2. Told' = Told
      BY <2>1, <3>1 DEF Told
    <3>3. Whole
      BY <1>1, <2>1, <2>3, <3>2, Zenon
    <3> QED BY <1>1, <2>1, <2>2, <3>2, <3>3
  <2>4. CASE misfire' = TRUE /\ field' = field /\ held' = <<>>
    <3> DEFINE none == <<>>
    <3>0. none \in Seq(Nat) /\ u'.pending = none
      BY <2>1
    <3>1. Taken' = field /\ field \o none = field
      BY <1>0, <2>4, JoinedNothing DEF Taken
    <3> HIDE DEF none
    <3>2. Told' = field
      BY <3>0, <3>1 DEF Told
    <3>3. Front(field, Taken)
      BY <1>0 DEF Front, Taken
    <3>4. Ordered(field, finals)
      BY <1>0, <1>1, <3>3, FrontOrdered
    <3> QED BY <2>1, <2>2, <2>4, <3>2, <3>4
  <2> QED BY <2>1, <2>3, <2>4
<1> QED BY <1>4, <1>5, <1>6, <1>7, <1>8, <1>9 DEF Next, ControllerStep, Aside

-----------------------------------------------------------------------------
(***************************************************************************)
(* The theorems.                                                           *)
(***************************************************************************)

\* The controller starts with no utterance and nothing queued.
LEMMA InitHolds == Init => ControllerInv
<1> SUFFICES ASSUME Init PROVE ControllerInv
  OBVIOUS
<1> DEFINE none == <<>>
<1>1. /\ none \in Seq(Gaps) /\ none \in Seq(Nat) /\ none \in Seq(OrchestratorEvents)
      /\ Len(none) = 0 /\ DOMAIN none = {} /\ none \o none = none
  OBVIOUS
<1>2. Finals(none) = 0 /\ Numbers(0) = none
  BY <1>1, FinalsNat, NumbersAre
<1>3. /\ rx = none /\ missed = FALSE /\ since = "far" /\ pressed = FALSE /\ candidate = FALSE
      /\ later = none /\ streaming = FALSE
      /\ state = "Idle" /\ panicked = FALSE /\ indicator = "hidden" /\ u = NoUtterance
      /\ fsm = NewFsm /\ result = Pending /\ queue = none /\ produced = 0
      /\ lease = "none" /\ loss = "held"
      /\ finals = 0 /\ field = none /\ held = none /\ misfire = FALSE /\ orphan = FALSE
      /\ u.pending = none
  BY DEF Init, TriggerInit, NoUtterance
<1> HIDE DEF none
<1>4. TriggerTypeOK
  <2>1. rx \in Seq(Gaps) /\ Len(rx) <= Backlog /\ later \in Seq(Gaps) /\ Len(later) <= 1
    BY <1>1, <1>3, BacklogAssumption
  <2>2. since \in Gaps
    BY <1>3 DEF Gaps
  <2>3. {missed, pressed, candidate, streaming} \subseteq BOOLEAN
    BY <1>3, Zenon
  <2> QED BY <2>1, <2>2, <2>3, Zenon DEF TriggerTypeOK
<1>5. u \in Locals
  BY <1>3, NoneTyped
<1>6. ControllerTypes
  <2>1. fsm \in FsmStates
    BY <1>3 DEF NewFsm, FsmStates, SessionStates, Residencies
  <2>2. u.ending \in Endings
    BY <1>5 DEF Locals
  <2>3. QueueCap \in Nat /\ MaxFinals \in Nat
    BY ControllerAssumption
  <2>4. TypeOK
    BY <1>1, <1>3, <1>4, <2>1, <2>2, <2>3 DEF TypeOK, DictationStates
  <2> QED BY <1>1, <1>3, <1>5, <2>4 DEF ControllerTypes
<1>7. ~Looping
  BY <1>3 DEF Looping, Capturing
<1>8. ControlSound
  BY <1>3, <1>7 DEF ControlSound, NoIllegalTransition, ParityRestored
<1>9. QueueSound
  BY <1>2, <1>3, <1>7 DEF QueueSound
<1>10. TextSound
  <2>1. Taken = none /\ Told = none
    BY <1>1, <1>3 DEF Taken, Told
  <2> QED BY <1>1, <1>2, <1>3, <1>7, <2>1 DEF TextSound, Increasing
<1> QED BY <1>6, <1>8, <1>9, <1>10 DEF ControllerInv

\* A step in which nothing moves keeps the invariant.
LEMMA StutterKeeps == ControllerInv /\ UNCHANGED vars => ControllerInv'
<1> SUFFICES ASSUME ControllerInv, UNCHANGED vars PROVE ControllerInv'
  OBVIOUS
<1>1. UNCHANGED <<triggerVars, state, panicked, indicator, u, sessionVars, targetVars,
                  textVars, orphan>>
  BY DEF vars
<1>2. /\ UNCHANGED <<state, panicked, indicator, u, fsm, result, queue, produced, lease, loss,
                     finals, field, held, misfire, orphan, pressed>>
      /\ UNCHANGED triggerVars
  BY <1>1 DEF sessionVars, targetVars, textVars, triggerVars
<1>3. TriggerTypeOK'
  BY <1>2, TriggerStays DEF ControllerInv, ControllerTypes, TypeOK
<1>4. ControllerTypes'
  BY <1>2, <1>3 DEF ControllerInv, ControllerTypes, TypeOK
<1>5. (Looping' <=> Looping) /\ Taken' = Taken /\ Told' = Told
  BY <1>2 DEF Looping, Taken, Told
<1>6. ControlSound'
  BY <1>2, <1>5 DEF ControllerInv, ControlSound, NoIllegalTransition, ParityRestored
<1>7. QueueSound'
  BY <1>2, <1>5 DEF ControllerInv, QueueSound
<1>8. TextSound'
  BY <1>2, <1>5 DEF ControllerInv, TextSound
<1> QED BY <1>4, <1>6, <1>7, <1>8 DEF ControllerInv

\* The invariant holds in every state the controller reaches.
THEOREM ControllerAlways == Spec => []ControllerInv
<1>1. Init => ControllerInv
  BY InitHolds
<1>2. ControllerInv /\ [Next]_vars => ControllerInv'
  <2>1. ControllerInv /\ Next => ControllerInv'
    BY TypesNext, ControlNext, QueueNext, TextNext DEF ControllerInv
  <2> QED BY <2>1, StutterKeeps
<1> QED BY <1>1, <1>2, PTL DEF Spec

\* Whatever ends an utterance (controller.rs, run_one_utterance), advance met no
\* illegal transition and the toggle is back where the next poke is a press,
\* unless the utterance completed with the key's press never answered.
THEOREM ReadyAgainKept == Spec => []ReadyAgain
<1>1. ControllerInv => ReadyAgain
  BY DEF ControllerInv, ControllerTypes, ControlSound, ReadyAgain
<1> QED BY <1>1, ControllerAlways, PTL

\* The text in the field, what the target holds until focus is back and the
\* commit buffer are in the order it was dictated, each text once; an indicator
\* hidden at Idle means that the target accepted all of it, and that all of it is
\* in the field but what was held when focus was lost (Target::commit), unless an
\* insertion failed for a reason other than focus.
THEOREM AcceptedWhenHidden == Spec => []HiddenMeansAccepted
<1>1. ControllerInv => HiddenMeansAccepted
  BY DEF ControllerInv, TextSound, HiddenMeansAccepted, Told, Taken, Numbers
<1> QED BY <1>1, ControllerAlways, PTL

\* An utterance ends with no poke left that would start the next one, and an
\* indicator that says finishing says listening no more in it.
THEOREM NothingStaleKept == Spec => NothingStale
<1>1. ControllerInv /\ [Next]_vars =>
        [state # "Idle" /\ state' = "Idle" /\ state # "Starting" =>
           Waiting' = <<>> /\ ~candidate']_vars
  <2>1. ASSUME ControllerInv, Next, state # "Idle", state' = "Idle", state # "Starting"
        PROVE  Waiting' = <<>> /\ ~candidate'
    <3>1. Looping
      BY <2>1, LoopStates DEF ControllerInv
    <3>2. ~Looping'
      BY <2>1 DEF Looping, Capturing
    <3>3. Finish
      BY <2>1, <3>1, <3>2, LoopNext
    <3>4. later' = <<>> /\ rx' = <<>> /\ candidate' = FALSE
      BY <3>3 DEF Finish, discard_pending
    <3>5. Waiting' = <<>>
      BY <3>4 DEF Waiting
    <3> QED BY <3>4, <3>5
  <2> QED BY <2>1
<1>2. ControllerInv /\ [Next]_vars =>
        [Looping /\ indicator = "finalizing" => indicator' # "recording"]_vars
  <2>1. ASSUME ControllerInv, Next, Looping, indicator = "finalizing"
        PROVE  indicator' # "recording"
    <3>0. /\ ControllerTypes /\ QueueSound /\ ~panicked /\ state = "Finalizing"
      BY <2>1 DEF ControllerInv, ControlSound, NoIllegalTransition
    <3>1. CASE Still \/ FocusOut \/ AutoStop \/ LoopEdge \/ TargetGone \/ Press
      BY <2>1, <3>1, StatesNext
    <3>2. CASE abort_before_capture
      BY <2>1, <3>2, StatesNext
    <3>3. CASE Acquire
      BY <3>0, <3>3 DEF Acquire
    <3>4. CASE route_event
      BY <2>1, <3>0, <3>4, RouteShows
    <3>5. CASE Finish
      BY <3>0, <3>5, FinishForms
    <3> QED BY <2>1, <3>1, <3>2, <3>3, <3>4, <3>5 DEF Next, ControllerStep, Still
  <2> QED BY <2>1
<1> QED BY <1>1, <1>2, ControllerAlways, PTL
        DEF Spec, NothingStale, NoGhostStart, NeverListensAgain
=============================================================================
