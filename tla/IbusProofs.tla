------------------------------ MODULE IbusProofs ------------------------------
(***************************************************************************)
(* Proofs about text input through IBus: however focus moves, calls are    *)
(* delayed and engines are picked, for any fields and any number of texts, *)
(* an utterance writes in order, to one field, never to a secret one, and  *)
(* hands the user's input method back.                                     *)
(***************************************************************************)
EXTENDS IbusMachine, SequenceTheorems, FiniteSetTheorems, TLAPS

-----------------------------------------------------------------------------
(***************************************************************************)
(* The invariant.                                                          *)
(***************************************************************************)

Engines == {"user", "other", "myna"}
Places == Contexts \cup {None}
Call == [kind : {"in", "out", "content"}, ctx : Places, named : BOOLEAN, secure : BOOLEAN]
Lease == [b : {"Pending", "Unnamed", "Context", "Away", "Left", "Unfocused", "Lost"},
          path : Places, blip : {"over", "window", "grace"}, activated : BOOLEAN,
          back : BOOLEAN, act : {"recent", "old"}, on_fake : BOOLEAN, wrote : BOOLEAN,
          fieldless : BOOLEAN]
Entry == Nat \cup {HeldPreedit}
Text == [n : Nat, at : Places, leak : BOOLEAN]
Steps == {"idle", "connect", "read", "switch", "arrive", "check", "settle", "taken",
          "open", "standing", "writing", "settling", "flushing", "restoring", "ended"}

\* Where an utterance has no target yet.
Acquiring == {"idle", "connect", "read", "switch", "arrive", "check", "settle", "taken"}

Daemons == [engine : Engines, wants : {"user", "other"}, focus : Contexts,
            secret : SUBSET Fields, conn : BOOLEAN, ids : Ids]
Regs == [before : Engines \cup {None}, displaced : Engines \cup {None},
         switch : 1..SWITCHES, held : BOOLEAN, unavailable : BOOLEAN]
Targets == [held : Seq(Nat), held_preedit : BOOLEAN, preedit_active : BOOLEAN,
            out : Seq(Entry), texts : 0..MaxTexts, op : {None, "commit", "preedit"}]
Screens == [text : Seq(Text), preedit : BOOLEAN]
IbusTypes ==
  /\ daemon \in Daemons /\ calls \in Seq(Call) /\ told \in Places /\ content \in BOOLEAN
  /\ lease \in Lease /\ owed \in {None, "user", "other"} /\ inner \in BOOLEAN
  /\ step \in Steps /\ reg \in Regs /\ target \in Targets /\ screen \in Screens
  /\ undone \in BOOLEAN

\* While Myna's engine is global the input method it displaced is owed, and that
\* is the user's choice unless one was made in the window that `undone` marks.
ChoiceSound ==
  /\ daemon.engine = "myna" =>
       daemon.conn /\ owed # None /\ step \notin {"idle", "connect", "read", "switch"}
  /\ screen.preedit => daemon.engine = "myna"
  /\ step = "switch" => reg.displaced \in {"user", "other"}
  /\ ~undone =>
       /\ daemon.engine \in {"myna", daemon.wants}
       /\ daemon.engine = "myna" => owed = daemon.wants
       /\ step = "switch" => reg.displaced = daemon.wants
       /\ step \in {"settling", "flushing", "restoring"} /\ daemon.conn /\ owed # None =>
            daemon.engine = "myna"

\* What the engine will have been told of the focus after a call; a call about
\* focus names the field that has it.
Heard(t, c) == CASE c.kind = "in" -> c.ctx [] c.kind = "out" -> None [] OTHER -> t
Fits(t, c) == c.kind # "content" /\ t \in Fields => c.ctx = t

\* The engine, told of focus on t, is told of u once these calls are dispatched.
Reaches(t, cs, u) ==
  \E h \in [0..Len(cs) -> Places] :
    /\ h[0] = t /\ h[Len(cs)] = u
    /\ \A i \in 1..Len(cs) : h[i] = Heard(h[i - 1], cs[i]) /\ Fits(h[i - 1], cs[i])

Behind(u) == IF daemon.engine = "myna" THEN u = daemon.focus ELSE u \notin Fields

\* The calls that wait end with the focus as it is.
CallsSound ==
  /\ ~daemon.conn => calls = <<>>
  /\ daemon.conn => \E u \in Places : Reaches(told, calls, u) /\ Behind(u)

\* They end with the content type of a secure field that has the focus.
SecretSound ==
  /\ daemon.engine = "myna" /\ daemon.focus \in daemon.secret =>
       IF calls = <<>> THEN content ELSE calls[Len(calls)] = ContentType(TRUE)
  /\ SecretKept

\* All the text in a field is in field p.
Written(p) == \A i \in DOMAIN screen.text : screen.text[i].at \in Fields => screen.text[i].at = p

LeaseSound ==
  /\ \E p \in Places : Written(p)
  /\ lease.b \in {"Context", "Away"} =>
       Written(lease.path) /\ (told \in Fields => told = lease.path)
  /\ lease.b \in {"Unnamed", "Unfocused"} => Written(told)
  /\ lease.b \in {"Pending", "Left"} \/ (held_by /\ ~lease.wrote) => Written(None)
  /\ lease.b = "Left" => told \notin Fields
  /\ lease.b = "Pending" => step = "arrive"
  /\ step \in Acquiring => screen.text = <<>> /\ target = NoTarget

\* The texts given to commit whose fate is settled or queued.
Given == IF step = "standing" /\ target.op = "commit" THEN target.texts - 1 ELSE target.texts
IsText(e) == e \notin {Preedit, HeldPreedit}

\* The texts written, then those of a queue of writes, then those held are
\* numbers up to top, each higher than the one before.
Rising(text, out, held, top) ==
  /\ \A i \in DOMAIN text : text[i].n \in 1..top
  /\ \A i \in DOMAIN out : IsText(out[i]) => out[i] \in 1..top
  /\ \A i \in DOMAIN held : held[i] \in 1..top
  /\ \A i, j \in DOMAIN text : i < j => text[i].n < text[j].n
  /\ \A i, j \in DOMAIN out : i < j /\ IsText(out[i]) /\ IsText(out[j]) => out[i] < out[j]
  /\ \A i, j \in DOMAIN held : i < j => held[i] < held[j]
  /\ \A i \in DOMAIN text, j \in DOMAIN out : IsText(out[j]) => text[i].n < out[j]
  /\ \A i \in DOMAIN text, j \in DOMAIN held : text[i].n < held[j]

\* Nothing is held while a queue is written.
OrderSound ==
  /\ IF step \in {"writing", "flushing"} THEN target.out # <<>> /\ target.held = <<>>
     ELSE target.out = <<>>
  /\ step = "standing" /\ target.op = "commit" => target.texts > 0
  /\ Rising(screen.text, target.out, target.held, Given)

\* With k texts written, the queue starts with the next m; a held preedit, then
\* the call's own write, may follow, and with that all texts are accounted for.
Queued(k, out, texts, m) ==
  /\ m <= Len(out) /\ \A i \in 1..m : out[i] = k + i
  /\ \/ Len(out) = m /\ texts = k + m
     \/ Len(out) = m + 1 /\ ~IsText(out[m + 1]) /\ texts = k + m
     \/ /\ Len(out) = m + 2 /\ out[m + 1] = HeldPreedit
        /\ \/ out[m + 2] = Preedit /\ texts = k + m
           \/ out[m + 2] = k + m + 1 /\ texts = k + m + 1

\* Without a secure field the engine is told of none.
Plain(cs) == \A i \in DOMAIN cs : ~cs[i].secure
PlainSound == daemon.secret = {} => ~content /\ Plain(calls)

\* As long as the lease and the connection live, every text is on the screen,
\* being written or held.
Kept ==
  /\ \A i \in DOMAIN screen.text : screen.text[i].n = i
  /\ held_by /\ daemon.conn =>
       IF step \in {"writing", "flushing"}
       THEN \E m \in Nat : Queued(Len(screen.text), target.out, target.texts, m)
       ELSE /\ Given = Len(screen.text) + Len(target.held)
            /\ \A i \in DOMAIN target.held : target.held[i] = Len(screen.text) + i

\* Nothing is skipped then.
WholeSound == daemon.secret = {} => Kept

IbusInv == /\ IbusTypes /\ ChoiceSound /\ CallsSound /\ SecretSound /\ LeaseSound /\ OrderSound
           /\ PlainSound /\ WholeSound

-----------------------------------------------------------------------------
(***************************************************************************)
(* Types.                                                                  *)
(***************************************************************************)

\* The two contexts that are no field's, and the parameters.
LEMMA Names == /\ None = "none" /\ "fake" \in Contexts /\ None \notin Contexts /\ None \notin Fields
               /\ "fake" \notin Fields /\ Fields \subseteq Contexts /\ Contexts \subseteq Places
               /\ None \in Places /\ Start \subseteq Contexts /\ MaxTexts \in Nat
BY IbusAssumption DEF None, Contexts, Places

\* A fresh lease and one that is gone.
LEMMA LeaseTyped == Gone \in Lease /\ Minted \in Lease
BY Names DEF Gone, Minted, Lease

\* Queues of one and of two.
LEMMA Short ==
  ASSUME NEW S, NEW x \in S, NEW y \in S
  PROVE  <<x>> \in Seq(S) /\ <<x, y>> \in Seq(S)
OBVIOUS

\* What the daemon sends are calls.
LEMMA Sent ==
  ASSUME NEW c \in Contexts, NEW first \in BOOLEAN
  PROVE  /\ Unfocus(c) = <<Out(c, daemon.ids # "never")>>
         /\ Unfocus(c) \in Seq(Call) /\ Focus(c, first) \in Seq(Call)
         /\ \A b \in BOOLEAN : ContentType(b) \in Call /\ In(c, b) \in Call /\ Out(c, b) \in Call
<1>1. \A b \in BOOLEAN : ContentType(b) \in Call /\ In(c, b) \in Call /\ Out(c, b) \in Call
  BY Names DEF ContentType, In, Out, Call
<1>2. Unfocus(c) \in Seq(Call)
  <2>1. \A b \in BOOLEAN : <<Out(c, b)>> \in Seq(Call)
    BY <1>1
  <2>2. (daemon.ids # "never") \in BOOLEAN
    OBVIOUS
  <2> QED BY <2>1, <2>2, Zenon DEF Unfocus
<1>3. Focus(c, first) \in Seq(Call)
  <2> DEFINE s == CASE daemon.ids = "never" \/ (first /\ daemon.ids = "moved") -> <<In(c, FALSE)>>
                    [] first /\ daemon.ids = "again" -> <<In(c, FALSE), In(c, TRUE)>>
                    [] OTHER -> <<In(c, TRUE)>>
             e == IF c = "fake" THEN <<>> ELSE <<ContentType(c \in daemon.secret)>>
  <2>1. s \in Seq(Call)
    <3>1. In(c, FALSE) \in Call /\ In(c, TRUE) \in Call
      BY <1>1
    <3>2. <<In(c, FALSE)>> \in Seq(Call) /\ <<In(c, TRUE)>> \in Seq(Call)
            /\ <<In(c, FALSE), In(c, TRUE)>> \in Seq(Call)
      BY <3>1, Short, Zenon
    <3> QED BY <3>2, Zenon
  <2>2. e \in Seq(Call)
    <3>1. ContentType(c \in daemon.secret) \in Call
      BY <1>1, (c \in daemon.secret) \in BOOLEAN
    <3> QED BY <3>1
  <2>3. Focus(c, first) = s \o e
    BY DEF Focus
  <2> HIDE DEF s, e
  <2> QED BY <2>1, <2>2, <2>3
<1> QED BY <1>1, <1>2, <1>3 DEF Unfocus

\* What the daemon sends an engine that stops being the global one.
LEMMA DeactivatedSent ==
  ASSUME IbusTypes, NEW e
  PROVE  Deactivated(e) \in Seq(Call)
<1>1. daemon.focus \in Contexts
  BY DEF IbusTypes, Daemons
<1>2. Unfocus(daemon.focus) \in Seq(Call) /\ Focus("fake", FALSE) \in Seq(Call)
  BY <1>1, Names, Sent
<1>3. <<>> \in Seq(Call)
  OBVIOUS
<1>4. Unfocus(daemon.focus) \o Focus("fake", FALSE) \in Seq(Call)
  BY <1>2, ConcatProperties, Zenon
<1> QED BY <1>3, <1>4, Zenon DEF Deactivated

\* Lease keeps its type.
LEMMA LeaseStays ==
  ASSUME IbusTypes, NEW c \in Call
  PROVE  /\ FocusIn(lease, c) \in Lease /\ FocusOut(lease, c) \in Lease
         /\ activated(lease) \in Lease
         /\ \A b \in BOOLEAN : expire(b) \in Lease
<1>0. lease \in Lease
  BY DEF IbusTypes
<1>1. Bind(lease, c) \in Lease
  BY <1>0 DEF Bind, Lease, Call
<1>2. FocusIn(lease, c) \in Lease
  <2> DEFINE a == [lease EXCEPT !.on_fake = TRUE]
             l == [lease EXCEPT !.b = "Left", !.blip = "window"]
             r == [lease EXCEPT !.b = "Context", !.blip = "over", !.activated = FALSE]
             k == [lease EXCEPT !.back = TRUE]
  <2>1. a \in Lease /\ l \in Lease /\ r \in Lease /\ k \in Lease
    BY <1>0 DEF Lease
  <2>2. FocusIn(lease, c) \in {lease, Gone, Bind(lease, c), a, l, r, k}
    <3> HIDE DEF a, l, r, k
    <3> QED BY Zenon DEF FocusIn, a, l, r, k
  <2> HIDE DEF a, l, r, k
  <2> QED BY <1>0, <1>1, <2>1, <2>2, LeaseTyped
<1>3. FocusOut(lease, c) \in Lease
  <2> DEFINE away(p) == [lease EXCEPT !.b = "Away", !.path = p, !.blip = "window",
                              !.activated = (lease.act = "recent"), !.back = FALSE]
             f == [lease EXCEPT !.on_fake = FALSE]
             l == [lease EXCEPT !.b = "Left", !.blip = "window"]
             k == [lease EXCEPT !.back = FALSE]
  <2>1. f \in Lease /\ l \in Lease /\ k \in Lease
    BY <1>0 DEF Lease
  <2>2. lease.path \in Places /\ c.ctx \in Places
    BY <1>0 DEF Lease, Call
  <2>3. \A p \in Places : away(p) \in Lease
    BY <1>0 DEF Lease
  <2>4. FocusOut(lease, c) \in {lease, Gone, away(lease.path), away(c.ctx), f, l, k}
    BY Zenon DEF FocusOut
  <2> HIDE DEF away, f, l, k
  <2> QED BY <1>0, <2>1, <2>2, <2>3, <2>4, LeaseTyped
<1>4. activated(lease) \in Lease
  BY <1>0 DEF activated, Lease
<1>5. \A b \in BOOLEAN : expire(b) \in Lease
  BY <1>0, LeaseTyped DEF expire, Lease
<1> QED BY <1>2, <1>3, <1>4, <1>5

\* What flush writes, and the call's own write.
LEMMA FlushedTyped ==
  ASSUME IbusTypes
  PROVE  Flushed(target) \in Seq(Entry) /\ This(target) \in Entry
<1>1. target.held \in Seq(Nat) /\ target.texts \in Nat
  BY Names DEF IbusTypes, Targets
<1>2. target.held \in Seq(Entry)
  BY <1>1 DEF Entry
<1>3. (IF target.held_preedit THEN <<HeldPreedit>> ELSE <<>>) \in Seq(Entry)
  <2>1. HeldPreedit \in Entry
    BY DEF Entry
  <2> QED BY <2>1, Short
<1> QED BY <1>1, <1>2, <1>3 DEF Flushed, This, Entry, Preedit

\* What an utterance starts from.
LEMMA Cleared == NoReg \in Regs /\ NoTarget \in Targets /\ [text |-> <<>>, preedit |-> FALSE] \in Screens
<1>1. NoReg \in Regs
  BY Names DEF NoReg, Regs, SWITCHES
<1>2. NoTarget \in Targets
  <2>1. <<>> \in Seq(Nat) /\ <<>> \in Seq(Entry) /\ 0 \in 0..MaxTexts
    BY Names
  <2> QED BY <2>1 DEF NoTarget, Targets
<1>3. [text |-> <<>>, preedit |-> FALSE] \in Screens
  BY DEF Screens
<1> QED BY <1>1, <1>2, <1>3

\* Before the first press every part has its type.
LEMMA TypesInit == IbusInit => IbusTypes
<1> HAVE IbusInit
<1>1. daemon \in Daemons
  BY Names DEF IbusInit, Daemons, Engines
<1>2. calls \in Seq(Call)
  BY DEF IbusInit
<1>3. told \in Places /\ content \in BOOLEAN /\ owed \in {None, "user", "other"} /\ undone \in BOOLEAN
  BY Names DEF IbusInit
<1> QED BY <1>1, <1>2, <1>3, LeaseTyped, Cleared DEF IbusInit, IbusTypes, Steps

\* The user, the Shell and the daemon keep the types.
LEMMA DesktopTyped ==
  ASSUME IbusTypes, Desktop
  PROVE  IbusTypes'
<1>0. \A b \in BOOLEAN : screen \in Screens => [screen EXCEPT !.preedit = b] \in Screens
  BY DEF Screens
<1>1. ASSUME NEW c \in Contexts, FocusMoves(c) PROVE IbusTypes'
  <2>1. Unfocus(daemon.focus) \in Seq(Call) /\ Focus(c, FALSE) \in Seq(Call)
    BY Sent DEF IbusTypes, Daemons
  <2>2. calls \o Unfocus(daemon.focus) \o Focus(c, FALSE) \in Seq(Call)
    BY <2>1, ConcatProperties, Zenon DEF IbusTypes
  <2>3. calls' \in Seq(Call)
    BY <1>1, <2>2, Zenon DEF FocusMoves, IbusTypes
  <2>4. daemon' \in Daemons
    BY <1>1 DEF FocusMoves, IbusTypes, Daemons
  <2> QED BY <1>0, <1>1, <2>3, <2>4 DEF FocusMoves, IbusTypes
<1>2. CASE EngineTaken
  <2>1. calls' \in Seq(Call)
    BY <1>2, DeactivatedSent, ConcatProperties, Zenon DEF EngineTaken, IbusTypes
  <2>2. undone' \in BOOLEAN
    BY <1>2 DEF EngineTaken, IbusTypes
  <2>3. daemon' \in Daemons
    BY <1>2 DEF EngineTaken, IbusTypes, Daemons, Engines
  <2> QED BY <1>0, <1>2, <2>1, <2>2, <2>3 DEF EngineTaken, IbusTypes
<1>3. CASE DaemonRestarts
  <2>1. daemon' \in Daemons
    BY <1>3 DEF DaemonRestarts, IbusTypes, Daemons, Engines
  <2>2. <<>> \in Seq(Call)
    OBVIOUS
  <2> QED BY <1>0, <1>3, <2>1, <2>2 DEF DaemonRestarts, IbusTypes
<1>4. CASE Activate
  <2>1. lease' \in Lease
    BY <1>4, LeaseStays, Sent, Names DEF Activate
  <2> QED BY <1>4, <2>1 DEF Activate, IbusTypes
<1>5. ASSUME NEW f \in Fields, FieldHides(f) PROVE IbusTypes'
  <2>1. ContentType(TRUE) \in Call
    BY Sent, Names
  <2>2. calls' \in Seq(Call)
    BY <1>5, <2>1, AppendProperties, Zenon DEF FieldHides, IbusTypes
  <2>3. daemon' \in Daemons
    BY <1>5 DEF FieldHides, IbusTypes, Daemons
  <2> QED BY <1>5, <2>2, <2>3 DEF FieldHides, IbusTypes
<1> QED BY <1>1, <1>2, <1>3, <1>4, <1>5 DEF Desktop

\* A call dispatched and time that passes keep the types.
LEMMA EngineTyped ==
  ASSUME IbusTypes, Dispatch \/ Timer \/ ActivationAges
  PROVE  IbusTypes'
<1>1. CASE Dispatch
  <2>1. Head(calls) \in Call /\ Tail(calls) \in Seq(Call)
    BY <1>1 DEF Dispatch, IbusTypes
  <2>2. lease' \in Lease
    <3>1. lease \in Lease
      BY DEF IbusTypes
    <3> QED BY <1>1, <2>1, <3>1, LeaseStays, Zenon DEF Dispatch
  <2>3. content' \in BOOLEAN /\ told' \in Places
    BY <1>1, <2>1, Names DEF Dispatch, Call, IbusTypes
  <2> QED BY <1>1, <2>1, <2>2, <2>3 DEF Dispatch, IbusTypes
<1>2. CASE Timer
  <2>1. lease' \in Lease
    BY <1>2, LeaseStays, Sent, Names DEF Timer, WindowEnds, GraceEnds
  <2> QED BY <1>2, <2>1 DEF Timer, WindowEnds, GraceEnds, IbusTypes
<1>3. CASE ActivationAges
  <2>1. lease' \in Lease
    BY <1>3 DEF ActivationAges, Lease, IbusTypes
  <2> QED BY <1>3, <2>1 DEF ActivationAges, IbusTypes
<1> QED BY <1>1, <1>2, <1>3

\* acquire and the connection it opens keep the types.
LEMMA AcquireTyped ==
  ASSUME IbusTypes,
         Acquire \/ reconnect \/ ReadBefore \/ switch \/ SwitchCancelled \/ focus_arrived
         \/ CheckSwitch \/ left_settled
  PROVE  IbusTypes'
<1>0. reg \in Regs /\ daemon.engine \in Engines /\ inner \in BOOLEAN /\ reg.switch \in 1..SWITCHES
  BY DEF IbusTypes, Daemons, Regs
<1>a. \A e, d \in Engines : [reg EXCEPT !.before = e, !.displaced = d, !.switch = 1] \in Regs
  BY <1>0, 1 \in 1..SWITCHES DEF Regs, SWITCHES
<1>b. \A d \in Engines : reg.switch < SWITCHES =>
        [reg EXCEPT !.displaced = d, !.switch = @ + 1] \in Regs
  <2>1. reg.switch < SWITCHES => reg.switch + 1 \in 1..SWITCHES
    BY <1>0 DEF SWITCHES
  <2> QED BY <1>0, <2>1 DEF Regs
<1>1. CASE Acquire
  <2>1. reg' \in Regs
    BY <1>0, <1>1 DEF Acquire, Regs
  <2> QED BY <1>1, <2>1, Cleared DEF Acquire, IbusTypes, Steps
<1>2. CASE reconnect
  <2>1. daemon' \in Daemons
    BY <1>2 DEF reconnect, Daemons, IbusTypes
  <2>2. <<>> \in Seq(Call)
    OBVIOUS
  <2> QED BY <1>2, <2>1, <2>2, LeaseTyped, Names DEF reconnect, IbusTypes, Steps
<1>3. CASE ReadBefore
  <2>1. reg' \in Regs
    BY <1>0, <1>a, <1>3, Cleared DEF ReadBefore, Unavailable
  <2> QED BY <1>3, <2>1 DEF ReadBefore, Unavailable, IbusTypes, Steps
<1>4. CASE switch
  <2>1. calls' \in Seq(Call)
    <3>1. Focus(daemon.focus, TRUE) \in Seq(Call)
      BY Sent DEF IbusTypes, Daemons
    <3> QED BY <1>4, <3>1, ConcatProperties, Zenon DEF switch, IbusTypes
  <2>2. owed' \in {None, "user", "other"}
    BY <1>0, <1>4 DEF switch, displace, IbusTypes, Regs, Engines
  <2>3. reg' \in Regs
    BY <1>0, <1>4, Cleared DEF switch, Unavailable
  <2>4. daemon' \in Daemons
    BY <1>4 DEF switch, Daemons, Engines, IbusTypes
  <2>5. lease' \in Lease /\ content' \in BOOLEAN
    BY <1>4, LeaseTyped DEF switch
  <2>6. step' \in Steps /\ inner' \in BOOLEAN
    BY <1>0, <1>4 DEF switch, Unavailable, Steps
  <2> QED BY <1>4, <2>1, <2>2, <2>3, <2>4, <2>5, <2>6 DEF switch, IbusTypes
<1>5. CASE SwitchCancelled
  <2>1. reg' \in Regs
    BY <1>0, <1>b, <1>5, Cleared, "other" \in Engines DEF SwitchCancelled, Engines
  <2>2. daemon' \in Daemons
    BY <1>5 DEF SwitchCancelled, Daemons, Engines, IbusTypes
  <2> QED BY <1>5, <2>1, <2>2, LeaseTyped DEF SwitchCancelled, IbusTypes, Steps
<1>6. CASE focus_arrived
  <2>1. lease' \in Lease
    BY <1>6 DEF focus_arrived, Lease, IbusTypes
  <2> QED BY <1>6, <2>1 DEF focus_arrived, IbusTypes, Steps
<1>7. CASE CheckSwitch
  <2>1. reg' \in Regs
    <3>1. [reg EXCEPT !.unavailable = TRUE] \in Regs
      BY <1>0 DEF Regs
    <3> QED BY <1>0, <1>b, <1>7, <3>1 DEF CheckSwitch
  <2> QED BY <1>7, <2>1, LeaseTyped DEF CheckSwitch, IbusTypes, Steps
<1>8. CASE left_settled
  BY <1>8 DEF left_settled, IbusTypes, Steps
<1> QED BY <1>1, <1>2, <1>3, <1>4, <1>5, <1>6, <1>7, <1>8

\* The parts of a target.
LEMMA TargetParts ==
  ASSUME target \in Targets, screen \in Screens
  PROVE  /\ target.held \in Seq(Nat) /\ target.out \in Seq(Entry) /\ target.texts \in 0..MaxTexts
         /\ target.texts \in Nat /\ target.op \in {None, "commit", "preedit"}
         /\ target.held_preedit \in BOOLEAN /\ target.preedit_active \in BOOLEAN
         /\ screen.text \in Seq(Text) /\ screen.preedit \in BOOLEAN
BY Names DEF Targets, Screens

\* What a write leaves.
LEMMA WriteTyped ==
  ASSUME IbusTypes, NEW n \in Nat, target.out # <<>>, Write(n),
         step \in {"writing", "flushing"}
  PROVE  lease' \in Lease /\ screen' \in Screens /\ step' \in Steps /\ target' \in Targets
<1>0. /\ target \in Targets /\ screen \in Screens /\ lease \in Lease /\ told \in Places
      /\ Tail(target.out) \in Seq(Entry) /\ <<>> \in Seq(Entry)
  BY TargetParts DEF IbusTypes
<1>1. \A b \in BOOLEAN : [lease EXCEPT !.wrote = b] \in Lease
  BY <1>0 DEF Lease
<1>2. lease' \in Lease
  <2>1. (lease.wrote \/ (held_by /\ ~content)) \in BOOLEAN
    BY <1>0 DEF Lease
  <2>2. lease' = [lease EXCEPT !.wrote = lease.wrote \/ (held_by /\ ~content)]
    BY Zenon DEF Write
  <2> QED BY <1>1, <2>1, <2>2
<1>3. Landed(n) \in Text
  <2>1. (told \in daemon.secret /\ calls = <<>>) \in BOOLEAN
    OBVIOUS
  <2> QED BY <1>0, <2>1 DEF Landed, Text
<1>4. screen' \in Screens
  <2>1. Append(screen.text, Landed(n)) \in Seq(Text)
    BY <1>0, <1>3, TargetParts, AppendProperties
  <2>2. screen'.text \in Seq(Text) /\ screen'.preedit \in BOOLEAN
          /\ screen' = [text |-> screen'.text, preedit |-> screen'.preedit]
    BY <1>0, <2>1, TargetParts DEF Write
  <2> QED BY <2>2 DEF Screens
<1>5. step' \in Steps
  BY DEF Write, AfterWrite, AfterError, Steps
<1>6. \A q \in Seq(Entry) : [target EXCEPT !.preedit_active = FALSE, !.out = q] \in Targets
  BY <1>0 DEF Targets
<1>7. target' \in Targets
  BY <1>0, <1>6 DEF Write
<1> QED BY <1>2, <1>4, <1>5, <1>7

\* What show_preedit leaves.
LEMMA ShowTyped ==
  ASSUME IbusTypes, NEW e, target.out # <<>>, show_preedit(e),
         step \in {"writing", "flushing"}
  PROVE  lease' \in Lease /\ screen' \in Screens /\ step' \in Steps /\ target' \in Targets
<1>0. /\ target \in Targets /\ screen \in Screens /\ lease \in Lease
      /\ Tail(target.out) \in Seq(Entry)
  BY TargetParts DEF IbusTypes
<1>1. \A b \in BOOLEAN : [lease EXCEPT !.wrote = b] \in Lease
  BY <1>0 DEF Lease
<1>2. lease' \in Lease
  <2>1. (lease.wrote \/ (held_by /\ ~content)) \in BOOLEAN
    BY <1>0 DEF Lease
  <2>2. lease' = [lease EXCEPT !.wrote = lease.wrote \/ (held_by /\ ~content)]
    BY Zenon DEF show_preedit
  <2> QED BY <1>1, <2>1, <2>2
<1>3. \A b \in BOOLEAN : [screen EXCEPT !.preedit = b] \in Screens
  BY <1>0 DEF Screens
<1>4. screen' \in Screens
  <2> DEFINE b == screen.preedit \/ ((held_by /\ ~content) /\ daemon.conn /\ daemon.engine = "myna")
  <2>1. b \in BOOLEAN
    BY <1>0, TargetParts, Zenon
  <2>2. screen' = [screen EXCEPT !.preedit = b]
    BY Zenon DEF show_preedit
  <2> HIDE DEF b
  <2> QED BY <1>3, <2>1, <2>2
<1>5. step' \in Steps
  BY DEF show_preedit, AfterWrite, Steps
<1>6. \A a, b \in BOOLEAN, q \in Seq(Entry) :
        [target EXCEPT !.preedit_active = a, !.held_preedit = b, !.out = q] \in Targets
  BY <1>0 DEF Targets
<1>7. target' \in Targets
  <2> DEFINE a == target.preedit_active \/ ((held_by /\ ~content) /\ daemon.conn)
             b == target.held_preedit /\ e # HeldPreedit
  <2>1. a \in BOOLEAN /\ b \in BOOLEAN
    BY <1>0, TargetParts, Zenon
  <2>2. target' = [target EXCEPT !.preedit_active = a, !.held_preedit = b, !.out = Tail(target.out)]
    BY Zenon DEF show_preedit
  <2> HIDE DEF a, b
  <2> QED BY <1>0, <1>6, <2>1, <2>2
<1> QED BY <1>2, <1>4, <1>5, <1>7

\* A write and release keep the types.
LEMMA TargetTyped ==
  ASSUME IbusTypes, step \in {"writing", "flushing"} => target.out # <<>>,
         commit \/ set_preedit \/ Stand \/ WriteNext \/ release \/ ReleaseSettles
         \/ ReleaseRestores
  PROVE  IbusTypes'
<1>0. target \in Targets /\ screen \in Screens /\ lease \in Lease /\ <<>> \in Seq(Nat)
  BY DEF IbusTypes
<1>P. /\ target.held \in Seq(Nat) /\ target.out \in Seq(Entry) /\ target.texts \in 0..MaxTexts
      /\ target.texts \in Nat
  BY <1>0, TargetParts
<1>a. \A h \in Seq(Nat), b \in BOOLEAN : [target EXCEPT !.held = h, !.held_preedit = b] \in Targets
  BY <1>0 DEF Targets
<1>b. \A q \in Seq(Entry), h \in Seq(Nat) : [target EXCEPT !.out = q, !.held = h] \in Targets
  BY <1>0 DEF Targets
<1>L. Lose => lease' \in Lease /\ owed' \in {None, "user", "other"} /\ target' \in Targets
  BY <1>0, <1>a, LeaseTyped DEF Lose
<1>F. Flushed(target) \in Seq(Entry) /\ This(target) \in Entry
        /\ Append(Flushed(target), This(target)) \in Seq(Entry)
  <2>1. Flushed(target) \in Seq(Entry) /\ This(target) \in Entry
    BY FlushedTyped
  <2> QED BY <2>1, AppendProperties
<1>1. CASE commit
  <2>1. target.texts < MaxTexts =>
          [target EXCEPT !.texts = @ + 1, !.op = "commit"] \in Targets
    <3>1. target.texts < MaxTexts => target.texts + 1 \in 0..MaxTexts
      BY <1>P, Names
    <3> QED BY <1>0, <3>1 DEF Targets
  <2> QED BY <1>1, <1>L, <2>1 DEF commit, IbusTypes, Steps
<1>2. CASE set_preedit
  <2>1. [target EXCEPT !.op = "preedit"] \in Targets
    BY <1>0 DEF Targets
  <2> QED BY <1>2, <2>1 DEF set_preedit, IbusTypes, Steps
<1>3. CASE Stand
  <2>1. Append(target.held, target.texts) \in Seq(Nat)
    BY <1>P, AppendProperties
  <2>2. [target EXCEPT !.held_preedit = TRUE] \in Targets
    BY <1>0 DEF Targets
  <2>3. target' \in {[target EXCEPT !.out = Append(Flushed(target), This(target)), !.held = <<>>],
                     [target EXCEPT !.held = <<>>, !.held_preedit = FALSE],
                     [target EXCEPT !.held = Append(@, target.texts), !.held_preedit = FALSE],
                     [target EXCEPT !.held_preedit = TRUE]}
    BY <1>3, Zenon DEF Stand
  <2>4. target' \in Targets
    BY <1>0, <1>a, <1>b, <1>F, <2>1, <2>2, <2>3
  <2>5. step' \in Steps
    BY <1>3 DEF Stand, Steps
  <2> QED BY <1>3, <2>4, <2>5 DEF Stand, IbusTypes
<1>4. CASE WriteNext
  <2>1. target.out # <<>> /\ Head(target.out) \in Entry
    BY <1>4, <1>P DEF WriteNext
  <2>2. Head(target.out) \in {Preedit, HeldPreedit} \/ Head(target.out) \in Nat
    BY <2>1 DEF Entry
  <2>3. lease' \in Lease /\ screen' \in Screens /\ step' \in Steps /\ target' \in Targets
    <3>1. CASE Head(target.out) \in {Preedit, HeldPreedit}
      <4>1. show_preedit(Head(target.out)) /\ step \in {"writing", "flushing"}
        BY <1>4, <3>1, Zenon DEF WriteNext
      <4> QED BY <2>1, <4>1, ShowTyped, Zenon
    <3>2. CASE Head(target.out) \notin {Preedit, HeldPreedit}
      <4>1. Write(Head(target.out)) /\ step \in {"writing", "flushing"}
        BY <1>4, <3>2, Zenon DEF WriteNext
      <4>2. Head(target.out) \in Nat
        BY <2>2, <3>2, Zenon
      <4> QED BY <2>1, <4>1, <4>2, WriteTyped, Zenon
    <3> QED BY <3>1, <3>2
  <2> QED BY <1>4, <2>3, Zenon DEF WriteNext, IbusTypes
<1>5. CASE release
  BY <1>5, <1>L DEF release, IbusTypes, Steps
<1>6. CASE ReleaseSettles
  <2>1. target' \in Targets
    BY <1>0, <1>6, <1>b, <1>F DEF ReleaseSettles
  <2> QED BY <1>6, <2>1 DEF ReleaseSettles, IbusTypes, Steps
<1>7. CASE ReleaseRestores
  <2>1. calls' \in Seq(Call)
    BY <1>7, DeactivatedSent, ConcatProperties, Zenon DEF ReleaseRestores, IbusTypes
  <2>2. daemon' \in Daemons
    BY <1>7 DEF ReleaseRestores, IbusTypes, Daemons, Engines
  <2>3. screen' \in Screens
    <3> DEFINE b == /\ screen.preedit /\ ~(target.preedit_active /\ held_by)
                    /\ ~(owed # None /\ daemon.conn)
    <3>1. b \in BOOLEAN
      BY <1>0, TargetParts, Zenon
    <3>2. screen' = [text |-> <<>>, preedit |-> b]
      BY <1>7, Zenon DEF ReleaseRestores
    <3>3. \A c \in BOOLEAN : [text |-> <<>>, preedit |-> c] \in Screens
      BY DEF Screens
    <3> HIDE DEF b
    <3> QED BY <3>1, <3>2, <3>3
  <2>4. step' \in Steps /\ inner' \in BOOLEAN /\ reg' \in Regs
    BY <1>7, Cleared DEF ReleaseRestores, Unavailable, IbusTypes, Steps
  <2>5. owed' \in {None, "user", "other"} /\ target' \in Targets /\ lease' \in Lease
    BY <1>7, Cleared, LeaseTyped DEF ReleaseRestores
  <2>6. told' \in Places /\ content' \in BOOLEAN /\ undone' \in BOOLEAN
    BY <1>7 DEF ReleaseRestores, IbusTypes
  <2> QED BY <2>1, <2>2, <2>3, <2>4, <2>5, <2>6 DEF IbusTypes
<1> QED BY <1>1, <1>2, <1>3, <1>4, <1>5, <1>6, <1>7

-----------------------------------------------------------------------------
(***************************************************************************)
(* The input method.                                                       *)
(***************************************************************************)

\* What a step does to the daemon.
LEMMA DaemonIs ==
  ASSUME IbusTypes
  PROVE  /\ daemon.engine \in Engines /\ daemon.wants \in {"user", "other"}
         /\ daemon.focus \in Contexts /\ daemon.secret \subseteq Fields /\ daemon.conn \in BOOLEAN
         /\ \A e \in Engines :
              LET d == [daemon EXCEPT !.engine = e]
              IN  /\ d.engine = e /\ d.wants = daemon.wants /\ d.focus = daemon.focus
                  /\ d.secret = daemon.secret /\ d.conn = daemon.conn
         /\ \A e, w \in Engines :
              LET d == [daemon EXCEPT !.engine = e, !.wants = w]
              IN  /\ d.engine = e /\ d.wants = w /\ d.focus = daemon.focus
                  /\ d.secret = daemon.secret /\ d.conn = daemon.conn
         /\ \A b \in BOOLEAN, e \in Engines :
              LET d == [daemon EXCEPT !.conn = b, !.engine = e]
              IN  /\ d.engine = e /\ d.wants = daemon.wants /\ d.focus = daemon.focus
                  /\ d.secret = daemon.secret /\ d.conn = b
         /\ \A b \in BOOLEAN :
              LET d == [daemon EXCEPT !.conn = b]
              IN  /\ d.engine = daemon.engine /\ d.wants = daemon.wants /\ d.focus = daemon.focus
                  /\ d.secret = daemon.secret /\ d.conn = b
         /\ \A c \in Contexts :
              LET d == [daemon EXCEPT !.focus = c]
              IN  /\ d.engine = daemon.engine /\ d.wants = daemon.wants /\ d.focus = c
                  /\ d.secret = daemon.secret /\ d.conn = daemon.conn
         /\ \A f \in Fields :
              LET d == [daemon EXCEPT !.secret = @ \cup {f}]
              IN  /\ d.engine = daemon.engine /\ d.wants = daemon.wants /\ d.focus = daemon.focus
                  /\ d.secret = daemon.secret \cup {f} /\ d.conn = daemon.conn
<1>1. daemon \in Daemons
  BY DEF IbusTypes
<1> QED BY <1>1 DEF Daemons

\* A desktop that moves: engines picked, focus, restarts.
LEMMA DesktopChoice ==
  ASSUME IbusTypes, ChoiceSound, Desktop
  PROVE  ChoiceSound'
<1>0. /\ daemon.engine \in Engines /\ "other" \in Engines /\ daemon.wants \in Engines
      /\ daemon.wants \in {"user", "other"} /\ screen \in Screens /\ undone \in BOOLEAN
  BY DaemonIs DEF Engines, IbusTypes
<1>a. [screen EXCEPT !.preedit = FALSE].preedit = FALSE
  BY <1>0 DEF Screens
<1>1. ASSUME NEW c \in Contexts, FocusMoves(c) PROVE ChoiceSound'
  <2>1. daemon'.engine = daemon.engine /\ daemon'.wants = daemon.wants /\ daemon'.conn = daemon.conn
    BY <1>1, DaemonIs DEF FocusMoves
  <2> QED BY <1>1, <1>a, <2>1 DEF FocusMoves, ChoiceSound
<1>2. CASE EngineTaken
  <2>1. daemon'.engine = "other" /\ daemon'.wants = "other" /\ daemon'.conn = daemon.conn
    BY <1>0, <1>2, DaemonIs DEF EngineTaken
  <2>2. screen'.preedit = FALSE
    BY <1>a, <1>2 DEF EngineTaken
  <2>3. ~undone' => step' \notin {"switch", "settling", "flushing", "restoring"}
    BY <1>2 DEF EngineTaken
  <2>4. step' = step /\ reg' = reg
    BY <1>2 DEF EngineTaken
  <2> QED BY <2>1, <2>2, <2>3, <2>4 DEF ChoiceSound
<1>3. CASE DaemonRestarts
  <2>1. daemon'.engine = daemon.wants /\ daemon'.wants = daemon.wants /\ daemon'.conn = FALSE
    BY <1>0, <1>3, DaemonIs DEF DaemonRestarts
  <2> QED BY <1>0, <1>3, <1>a, <2>1 DEF DaemonRestarts, ChoiceSound
<1>4. CASE Activate
  BY <1>4 DEF Activate, ChoiceSound
<1>5. ASSUME NEW f \in Fields, FieldHides(f) PROVE ChoiceSound'
  <2>1. daemon'.engine = daemon.engine /\ daemon'.wants = daemon.wants /\ daemon'.conn = daemon.conn
    BY <1>5, DaemonIs DEF FieldHides
  <2> QED BY <1>5, <2>1 DEF FieldHides, ChoiceSound
<1> QED BY <1>1, <1>2, <1>3, <1>4, <1>5 DEF Desktop

\* acquire owes the user what it displaces, and knows when it does not.
LEMMA AcquireChoice ==
  ASSUME IbusTypes, ChoiceSound,
         Acquire \/ reconnect \/ ReadBefore \/ switch \/ SwitchCancelled \/ focus_arrived
         \/ CheckSwitch \/ left_settled
  PROVE  ChoiceSound'
<1>0. /\ daemon.engine \in Engines /\ "other" \in Engines /\ "myna" \in Engines
      /\ daemon.wants \in {"user", "other"} /\ undone \in BOOLEAN /\ reg \in Regs
  BY DaemonIs DEF Engines, IbusTypes
<1>1. CASE Acquire
  BY <1>1 DEF Acquire, ChoiceSound
<1>2. CASE reconnect
  <2>1. daemon'.engine = daemon.engine /\ daemon'.wants = daemon.wants
    BY <1>2, DaemonIs DEF reconnect
  <2> QED BY <1>2, <2>1 DEF reconnect, ChoiceSound
<1>3. CASE ReadBefore
  <2>1. step' = "switch" => reg'.displaced = daemon.engine
    BY <1>0, <1>3 DEF ReadBefore, Unavailable, Regs
  <2>2. step' \in {"switch", "connect", "idle"} /\ daemon.engine \in {"user", "other"}
    BY <1>0, <1>3 DEF ReadBefore, Unavailable, ChoiceSound, Engines
  <2>3. UNCHANGED <<daemon, screen, owed, undone>>
    BY <1>3 DEF ReadBefore
  <2> QED BY <1>3, <2>1, <2>2, <2>3 DEF ReadBefore, ChoiceSound
<1>4. CASE switch
  <2>1. daemon.engine # "myna"
    BY <1>4 DEF switch, ChoiceSound
  <2>2. CASE daemon.conn
    <3>1. daemon'.engine = "myna" /\ daemon'.wants = daemon.wants /\ daemon'.conn
      <4>1. daemon' = [daemon EXCEPT !.engine = "myna"]
        BY <1>4, <2>2 DEF switch
      <4> QED BY <1>0, <2>2, <4>1, DaemonIs
    <3>2. reg.displaced \in {"user", "other"} /\ (~undone => reg.displaced = daemon.wants)
      BY <1>4 DEF switch, ChoiceSound
    <3>3. owed' = reg.displaced /\ step' = "arrive" /\ UNCHANGED <<undone, screen>>
      BY <1>4, <2>2, <3>2 DEF switch, displace, None
    <3> QED BY <3>1, <3>2, <3>3 DEF ChoiceSound, None
  <2>3. CASE ~daemon.conn
    <3>1. step' \in {"connect", "idle"} /\ UNCHANGED <<undone, screen, daemon, owed>>
      BY <1>4, <2>3 DEF switch, Unavailable
    <3> QED BY <2>1, <3>1 DEF ChoiceSound
  <2> QED BY <2>2, <2>3
<1>5. CASE SwitchCancelled
  <2>1. daemon'.engine = "other" /\ daemon'.wants = "other" /\ daemon'.conn = daemon.conn
    <3>1. daemon' = [daemon EXCEPT !.engine = "other", !.wants = "other"]
      BY <1>5 DEF SwitchCancelled
    <3> QED BY <1>0, <3>1, DaemonIs
  <2>2. step' \in {"switch", "idle"} /\ (step' = "switch" => reg'.displaced = "other")
    BY <1>0, <1>5 DEF SwitchCancelled, Regs
  <2>3. daemon.engine # "myna" /\ screen' = screen
    BY <1>5 DEF SwitchCancelled, ChoiceSound
  <2> QED BY <2>1, <2>2, <2>3 DEF ChoiceSound
<1>6. CASE focus_arrived
  BY <1>6 DEF focus_arrived, ChoiceSound
<1>7. CASE CheckSwitch
  <2>1. step' = "switch" => reg'.displaced = daemon.engine /\ daemon.engine # "myna"
    BY <1>0, <1>7 DEF CheckSwitch, Regs
  <2>2. step' \in {"taken", "settle", "switch"}
    BY <1>7 DEF CheckSwitch
  <2>3. owed' = owed \/ daemon.engine # "myna"
    BY <1>7 DEF CheckSwitch
  <2>4. UNCHANGED <<undone, screen, daemon>>
    BY <1>7 DEF CheckSwitch
  <2> QED BY <1>0, <2>1, <2>2, <2>3, <2>4 DEF ChoiceSound, Engines
<1>8. CASE left_settled
  BY <1>8 DEF left_settled, ChoiceSound
<1> QED BY <1>1, <1>2, <1>3, <1>4, <1>5, <1>6, <1>7, <1>8

\* A write owes what it did; release hands it back.
LEMMA TargetChoice ==
  ASSUME IbusTypes, ChoiceSound,
         commit \/ set_preedit \/ Stand \/ WriteNext \/ release \/ ReleaseSettles
         \/ ReleaseRestores
  PROVE  ChoiceSound'
<1>0. /\ daemon.engine \in Engines /\ {"user", "other"} \subseteq Engines
      /\ daemon.wants \in {"user", "other"} /\ undone \in BOOLEAN /\ screen \in Screens
      /\ owed \in {None, "user", "other"} /\ daemon.conn \in BOOLEAN
  BY DaemonIs DEF Engines, IbusTypes
<1>1. CASE commit
  <2>1. step' \in {"ended", "open", "standing"} /\ (owed' = owed \/ daemon.engine # "myna")
    BY <1>1 DEF commit, Lose
  <2>2. UNCHANGED <<undone, screen, daemon>>
    BY <1>1 DEF commit
  <2> QED BY <2>1, <2>2 DEF ChoiceSound
<1>2. CASE set_preedit
  BY <1>2 DEF set_preedit, ChoiceSound
<1>3. CASE Stand
  <2>1. step' \in {"writing", "ended", "open"} /\ UNCHANGED <<undone, screen, daemon, owed>>
    BY <1>3 DEF Stand
  <2> QED BY <2>1 DEF ChoiceSound
<1>4. CASE WriteNext
  <2>1. screen'.preedit => screen.preedit \/ daemon.engine = "myna"
    <3>1. \A b \in BOOLEAN : [screen EXCEPT !.preedit = b].preedit = b
      BY <1>0 DEF Screens
    <3>2. CASE show_preedit(Head(target.out))
      BY <1>0, <3>1, <3>2 DEF show_preedit
    <3>3. CASE Write(Head(target.out))
      BY <3>3 DEF Write
    <3> QED BY <1>4, <3>2, <3>3 DEF WriteNext
  <2>2. UNCHANGED <<undone, daemon, owed>>
    BY <1>4 DEF WriteNext
  <2>3. \/ step \in {"settling", "flushing", "restoring"} /\ step' \in {"flushing", "restoring"}
        \/ step' \in {"writing", "open", "ended"}
    BY <1>4 DEF WriteNext, show_preedit, Write, AfterWrite, AfterError
  <2> QED BY <2>1, <2>2, <2>3 DEF ChoiceSound
<1>5. CASE release
  <2>1. step' = "settling" /\ UNCHANGED <<undone, daemon, screen>>
    BY <1>5 DEF release
  <2>2. (daemon.conn /\ daemon.engine # "myna") => owed' = None
    BY <1>5 DEF release, Lose
  <2>3. daemon.engine = "myna" => owed' = owed
    BY <1>5 DEF release
  <2> QED BY <2>1, <2>2, <2>3 DEF ChoiceSound
<1>6. CASE ReleaseSettles
  <2>1. step = "settling" /\ step' \in {"flushing", "restoring"}
    BY <1>6 DEF ReleaseSettles
  <2> QED BY <1>6, <2>1 DEF ReleaseSettles, ChoiceSound
<1>7. CASE ReleaseRestores
  <2> DEFINE back == owed # None /\ daemon.conn
  <2>1. step = "restoring" /\ step' \in {"idle", "connect"} /\ undone' = undone
    BY <1>7 DEF ReleaseRestores, Unavailable
  <2>2. back => /\ daemon'.engine = owed /\ daemon'.wants = daemon.wants /\ ~screen'.preedit
                /\ owed \in {"user", "other"}
    <3>1. back => daemon' = [daemon EXCEPT !.engine = owed] /\ ~screen'.preedit
      BY <1>7 DEF ReleaseRestores
    <3>2. back => owed \in {"user", "other"} /\ owed \in Engines
      BY <1>0
    <3> HIDE DEF back
    <3>3. ASSUME back PROVE daemon'.engine = owed /\ daemon'.wants = daemon.wants
      <4>1. owed \in Engines
        BY <3>2, <3>3
      <4>2. [daemon EXCEPT !.engine = owed].engine = owed /\ [daemon EXCEPT !.engine = owed].wants = daemon.wants
        BY <4>1, DaemonIs
      <4> QED BY <3>1, <3>3, <4>2
    <3> QED BY <3>1, <3>2, <3>3
  <2>3. ~back => /\ daemon' = daemon /\ daemon.engine # "myna"
                 /\ (screen'.preedit => screen.preedit)
    BY <1>7 DEF ReleaseRestores, ChoiceSound
  <2>4. back /\ ~undone => owed = daemon.wants
    BY <2>1 DEF ChoiceSound
  <2> HIDE DEF back
  <2> QED BY <2>1, <2>2, <2>3, <2>4 DEF ChoiceSound
<1> QED BY <1>1, <1>2, <1>3, <1>4, <1>5, <1>6, <1>7

\* Every step keeps the user's choice owed.
LEMMA ChoiceNext ==
  ASSUME IbusTypes, ChoiceSound, IbusNext
  PROVE  ChoiceSound'
<1>1. CASE Dispatch \/ Timer \/ ActivationAges
  BY <1>1 DEF Dispatch, Timer, WindowEnds, GraceEnds, ActivationAges, ChoiceSound
<1> QED BY <1>1, DesktopChoice, AcquireChoice, TargetChoice DEF IbusNext, Controller

-----------------------------------------------------------------------------
(***************************************************************************)
(* The calls that wait.                                                    *)
(***************************************************************************)

\* A focus call tells the engine of a context or of none.
LEMMA HeardTyped ==
  ASSUME NEW t \in Places, NEW c \in Call
  PROVE  Heard(t, c) \in Places
BY Names DEF Heard, Call

\* With no call waiting the engine knows what it was told.
LEMMA ReachesNone ==
  ASSUME NEW t \in Places
  PROVE  \A u \in Places : Reaches(t, <<>>, u) <=> u = t
<1>1. Len(<<>>) = 0 /\ \A i \in 1..0 : FALSE
  OBVIOUS
<1>2. Reaches(t, <<>>, t)
  <2>1. [i \in 0..0 |-> t] \in [0..0 -> Places] /\ [i \in 0..0 |-> t][0] = t
    OBVIOUS
  <2> QED BY <1>1, <2>1 DEF Reaches
<1>3. ASSUME NEW u \in Places, Reaches(t, <<>>, u) PROVE u = t
  BY <1>1, <1>3 DEF Reaches
<1> QED BY <1>2, <1>3

\* One more call.
LEMMA ReachesAppend ==
  ASSUME NEW cs \in Seq(Call), NEW c \in Call, NEW t \in Places, NEW u \in Places,
         Reaches(t, cs, u), Fits(u, c)
  PROVE  Reaches(t, Append(cs, c), Heard(u, c))
<1> DEFINE n == Len(cs)
<1>1. PICK h \in [0..n -> Places] :
        /\ h[0] = t /\ h[n] = u
        /\ \A i \in 1..n : h[i] = Heard(h[i - 1], cs[i]) /\ Fits(h[i - 1], cs[i])
  BY DEF Reaches
<1> DEFINE g == [i \in 0..(n + 1) |-> IF i = n + 1 THEN Heard(u, c) ELSE h[i]]
           ds == Append(cs, c)
<1>2. n \in Nat /\ Heard(u, c) \in Places
  BY HeardTyped
<1>3. g \in [0..(n + 1) -> Places]
  BY <1>2
<1>4. Len(ds) = n + 1 /\ ds[n + 1] = c /\ \A i \in 1..n : ds[i] = cs[i]
  OBVIOUS
<1>5. g[0] = t /\ g[n + 1] = Heard(u, c) /\ \A i \in 0..n : g[i] = h[i]
  BY <1>1, <1>2
<1>6. ASSUME NEW i \in 1..(n + 1)
      PROVE  g[i] = Heard(g[i - 1], ds[i]) /\ Fits(g[i - 1], ds[i])
  <2>1. CASE i = n + 1
    <3>1. g[i - 1] = u /\ ds[i] = c /\ g[i] = Heard(u, c)
      BY <1>1, <1>2, <1>4, <1>5, <2>1
    <3> QED BY <3>1
  <2>2. CASE i # n + 1
    <3>1. i \in 1..n /\ i - 1 \in 0..n /\ i \in 0..n
      BY <1>2, <2>2
    <3>2. g[i - 1] = h[i - 1] /\ g[i] = h[i] /\ ds[i] = cs[i]
      BY <1>4, <1>5, <3>1
    <3> QED BY <1>1, <3>1, <3>2
  <2> QED BY <2>1, <2>2
<1> HIDE DEF g, ds
<1>7. g \in [0..Len(ds) -> Places] /\ g[Len(ds)] = Heard(u, c)
        /\ \A i \in 1..Len(ds) : g[i] = Heard(g[i - 1], ds[i]) /\ Fits(g[i - 1], ds[i])
  BY <1>3, <1>4, <1>5, <1>6
<1>8. Reaches(t, ds, Heard(u, c))
  BY <1>5, <1>7 DEF Reaches
<1> QED BY <1>8 DEF ds

\* The next call is dispatched.
LEMMA ReachesTail ==
  ASSUME NEW cs \in Seq(Call), cs # <<>>, NEW t \in Places, NEW u \in Places,
         Reaches(t, cs, u)
  PROVE  Fits(t, Head(cs)) /\ Reaches(Heard(t, Head(cs)), Tail(cs), u)
<1> DEFINE n == Len(cs)
<1>1. PICK h \in [0..n -> Places] :
        /\ h[0] = t /\ h[n] = u
        /\ \A i \in 1..n : h[i] = Heard(h[i - 1], cs[i]) /\ Fits(h[i - 1], cs[i])
  BY DEF Reaches
<1> DEFINE g == [i \in 0..(n - 1) |-> h[i + 1]]
           ds == Tail(cs)
<1>2. n \in Nat /\ n >= 1 /\ Head(cs) = cs[1]
  OBVIOUS
<1>3. Len(ds) = n - 1 /\ \A i \in 1..(n - 1) : ds[i] = cs[i + 1]
  OBVIOUS
<1>4. g \in [0..(n - 1) -> Places] /\ \A i \in 0..(n - 1) : g[i] = h[i + 1]
  BY <1>2
<1>5. Fits(t, cs[1]) /\ h[1] = Heard(t, cs[1])
  BY <1>1, <1>2, 1 - 1 = 0, 1 \in 1..n
<1>6. g[0] = Heard(t, cs[1]) /\ g[n - 1] = u
  <2>1. 0 \in 0..(n - 1) /\ n - 1 \in 0..(n - 1) /\ (n - 1) + 1 = n /\ 0 + 1 = 1
    BY <1>2
  <2> QED BY <1>1, <1>4, <1>5, <2>1
<1>7. ASSUME NEW i \in 1..(n - 1)
      PROVE  g[i] = Heard(g[i - 1], ds[i]) /\ Fits(g[i - 1], ds[i])
  <2>1. i \in 0..(n - 1) /\ i - 1 \in 0..(n - 1) /\ (i - 1) + 1 = i /\ (i + 1) - 1 = i
          /\ i + 1 \in 1..n
    BY <1>2
  <2>2. g[i] = h[i + 1] /\ g[i - 1] = h[i] /\ ds[i] = cs[i + 1]
    BY <1>3, <1>4, <2>1
  <2>3. h[i + 1] = Heard(h[(i + 1) - 1], cs[i + 1]) /\ Fits(h[(i + 1) - 1], cs[i + 1])
    BY <1>1, <2>1
  <2> QED BY <2>1, <2>2, <2>3
<1> HIDE DEF g, ds
<1>8. Reaches(Heard(t, cs[1]), ds, u)
  BY <1>3, <1>4, <1>6, <1>7 DEF Reaches
<1> QED BY <1>2, <1>5, <1>8 DEF ds

\* Two and three calls, and four.
LEMMA Several ==
  ASSUME NEW s \in Seq(Call), NEW a \in Call, NEW b \in Call
  PROVE  /\ s \o <<>> = s /\ s \o <<a>> = Append(s, a)
         /\ s \o <<a, b>> = Append(Append(s, a), b)
OBVIOUS

\* What waits ends with another focus.
LEMMA FocusReaches ==
  ASSUME NEW s \in Seq(Call), NEW t \in Places, NEW u \in Places, Reaches(t, s, u),
         NEW c \in Contexts, NEW first \in BOOLEAN, u \in Fields => u = c
  PROVE  /\ Reaches(t, s \o Focus(c, first), c)
         /\ c # "fake" => /\ s \o Focus(c, first) # <<>>
                          /\ (s \o Focus(c, first))[Len(s \o Focus(c, first))]
                               = ContentType(c \in daemon.secret)
<1> DEFINE e == IF c = "fake" THEN <<>> ELSE <<ContentType(c \in daemon.secret)>>
           k == ContentType(c \in daemon.secret)
<1>0. c \in Places /\ \A b \in BOOLEAN : In(c, b) \in Call /\ ContentType(b) \in Call
  BY Sent, Names
<1>1. \A b \in BOOLEAN, v \in Places : (v \in Fields => v = c) =>
        Fits(v, In(c, b)) /\ Heard(v, In(c, b)) = c
  BY DEF Fits, Heard, In
<1>2. \A b \in BOOLEAN, v \in Places : Fits(v, ContentType(b)) /\ Heard(v, ContentType(b)) = v
  BY DEF Fits, Heard, ContentType
<1>b. (c \in daemon.secret) \in BOOLEAN
  OBVIOUS
<1>k. k \in Call
  BY <1>0, <1>b, Zenon
<1>3. PICK p \in Seq(Call) : Reaches(t, p, c) /\ s \o Focus(c, first) = p \o e
  <2> DEFINE one(b) == <<In(c, b)>>
             two == <<In(c, FALSE), In(c, TRUE)>>
  <2>1. e \in Seq(Call)
    <3>1. <<k>> \in Seq(Call) /\ <<>> \in Seq(Call)
      BY <1>k, Short
    <3> QED BY <3>1, Zenon
  <2>2. \A b \in BOOLEAN : one(b) \in Seq(Call) /\ Reaches(t, s \o one(b), c)
    <3>1. TAKE b \in BOOLEAN
    <3>2. s \o one(b) = Append(s, In(c, b)) /\ one(b) \in Seq(Call)
      BY <1>0, Several, Short
    <3>3. Reaches(t, Append(s, In(c, b)), Heard(u, In(c, b)))
      BY <1>0, <1>1, ReachesAppend
    <3> QED BY <1>1, <3>2, <3>3
  <2>3. two \in Seq(Call) /\ Reaches(t, s \o two, c)
    <3>1. two \in Seq(Call) /\ s \o two = Append(Append(s, In(c, FALSE)), In(c, TRUE))
      BY <1>0, Several, Short
    <3>2. Append(s, In(c, FALSE)) \in Seq(Call) /\ Reaches(t, Append(s, In(c, FALSE)), c)
      <4>1. Reaches(t, Append(s, In(c, FALSE)), Heard(u, In(c, FALSE)))
        BY <1>0, <1>1, ReachesAppend
      <4> QED BY <1>0, <1>1, <4>1, AppendProperties
    <3>3. Reaches(t, Append(Append(s, In(c, FALSE)), In(c, TRUE)), Heard(c, In(c, TRUE)))
      BY <1>0, <1>1, <3>2, ReachesAppend
    <3> QED BY <1>0, <1>1, <3>1, <3>3
  <2>4. \E q \in {one(TRUE), one(FALSE), two} : Focus(c, first) = q \o e
    <3> HIDE DEF e
    <3> QED BY Zenon DEF Focus, e
  <2> HIDE DEF one, two, e
  <2>5. PICK q \in {one(TRUE), one(FALSE), two} : Focus(c, first) = q \o e
    BY <2>4
  <2>6. q \in Seq(Call) /\ Reaches(t, s \o q, c)
    BY <2>2, <2>3
  <2>7. s \o Focus(c, first) = (s \o q) \o e /\ s \o q \in Seq(Call)
    <3>1. (s \o q) \o e = s \o (q \o e)
      BY <2>1, <2>6, ConcatAssociative
    <3>2. s \o q \in Seq(Call)
      BY <2>6
    <3> QED BY <2>5, <3>1, <3>2
  <2> QED BY <2>6, <2>7
<1>4. CASE c = "fake"
  <2>1. p \o e = p
    BY <1>4
  <2> QED BY <1>3, <1>4, <2>1
<1>5. CASE c # "fake"
  <2>1. k \in Call /\ Fits(c, k) /\ Heard(c, k) = c
    BY <1>0, <1>k, <1>2, <1>b, Zenon
  <2>2. p \o e = Append(p, k)
    BY <1>5, <2>1, Several
  <2>3. Reaches(t, Append(p, k), c)
    BY <1>0, <1>3, <2>1, ReachesAppend
  <2>4. Append(p, k) # <<>> /\ Append(p, k)[Len(Append(p, k))] = k
    BY <2>1
  <2> QED BY <1>3, <2>2, <2>3, <2>4
<1> QED BY <1>4, <1>5

\* The call for a context that loses focus, behind those that wait.
LEMMA UnfocusReaches ==
  ASSUME NEW s \in Seq(Call), NEW t \in Places, NEW u \in Places, Reaches(t, s, u),
         NEW c \in Contexts, u \in Fields => u = c
  PROVE  s \o Unfocus(c) \in Seq(Call) /\ Reaches(t, s \o Unfocus(c), None)
<1> DEFINE o == Out(c, daemon.ids # "never")
<1>1. o \in Call /\ Unfocus(c) = <<o>>
  BY Sent, (daemon.ids # "never") \in BOOLEAN
<1>2. Fits(u, o) /\ Heard(u, o) = None
  BY DEF Fits, Heard, Out
<1> HIDE DEF o
<1>3. s \o Unfocus(c) = Append(s, o) /\ Append(s, o) \in Seq(Call)
  BY <1>1, Several, AppendProperties
<1> QED BY <1>1, <1>2, <1>3, ReachesAppend

\* Focus goes from where it is to another context.
LEMMA MovesReach ==
  ASSUME NEW s \in Seq(Call), NEW t \in Places, NEW c \in Contexts, Reaches(t, s, c),
         NEW d \in Contexts
  PROVE  \E q \in Seq(Call) :
           /\ Reaches(t, q, d) /\ q = s \o (Unfocus(c) \o Focus(d, FALSE))
           /\ q = s \o Unfocus(c) \o Focus(d, FALSE)
           /\ d # "fake" => q # <<>> /\ q[Len(q)] = ContentType(d \in daemon.secret)
<1>1. s \o Unfocus(c) \in Seq(Call) /\ Reaches(t, s \o Unfocus(c), None)
  BY UnfocusReaches, Names
<1>2. Unfocus(c) \in Seq(Call) /\ Focus(d, FALSE) \in Seq(Call)
  BY Sent
<1>3. s \o (Unfocus(c) \o Focus(d, FALSE)) = s \o Unfocus(c) \o Focus(d, FALSE)
  <2>1. \A x, y, z \in Seq(Call) : x \o (y \o z) = (x \o y) \o z
    BY ConcatAssociative
  <2> QED BY <1>2, <2>1, Zenon
<1> DEFINE q == s \o Unfocus(c) \o Focus(d, FALSE)
<1>4. q \in Seq(Call)
  BY <1>1, <1>2, ConcatProperties, Zenon
<1>5. /\ Reaches(t, q, d)
      /\ d # "fake" => q # <<>> /\ q[Len(q)] = ContentType(d \in daemon.secret)
  BY <1>1, FocusReaches, Names
<1> QED BY <1>3, <1>4, <1>5

\* What picking another engine sends.
LEMMA DeactivatedReaches ==
  ASSUME IbusTypes, ChoiceSound, CallsSound, NEW e \in {"user", "other"}
  PROVE  /\ daemon.conn => \E u \in Places : Reaches(told, calls \o Deactivated(e), u) /\ u \notin Fields
         /\ ~daemon.conn => calls \o Deactivated(e) = <<>>
<1>0. calls \in Seq(Call) /\ told \in Places /\ daemon.focus \in Contexts
  BY DaemonIs DEF IbusTypes
<1>1. CASE ~daemon.conn
  BY <1>0, <1>1 DEF CallsSound, Deactivated
<1>2. CASE daemon.conn
  <2>1. PICK u \in Places : Reaches(told, calls, u) /\ Behind(u)
    BY <1>2 DEF CallsSound
  <2>2. CASE daemon.engine = "myna"
    <3>1. Deactivated(e) = Unfocus(daemon.focus) \o Focus("fake", FALSE)
      BY <1>2, <2>2 DEF Deactivated
    <3>2. Reaches(told, calls \o (Unfocus(daemon.focus) \o Focus("fake", FALSE)), "fake")
      <4>1. Reaches(told, calls, daemon.focus) /\ daemon.focus \in Places /\ "fake" \in Contexts
        BY <1>0, <2>1, <2>2, Names DEF Behind
      <4>2. \E q \in Seq(Call) :
              /\ Reaches(told, q, "fake") /\ q = calls \o (Unfocus(daemon.focus) \o Focus("fake", FALSE))
              /\ q = calls \o Unfocus(daemon.focus) \o Focus("fake", FALSE)
              /\ "fake" # "fake" => q # <<>> /\ q[Len(q)] = ContentType("fake" \in daemon.secret)
        BY <1>0, <4>1, MovesReach, Zenon
      <4> QED BY <4>2, Zenon
    <3> QED BY <1>2, <3>1, <3>2, Names
  <2>3. CASE daemon.engine # "myna"
    <3>1. calls \o Deactivated(e) = calls
      BY <1>0, <2>3 DEF Deactivated
    <3> QED BY <1>2, <2>1, <2>3, <3>1 DEF Behind
  <2> QED BY <2>2, <2>3
<1> QED BY <1>1, <1>2

\* Nothing of it changes.
LEMMA CallsStay ==
  ASSUME UNCHANGED <<daemon, calls, told>>
  PROVE  CallsSound => CallsSound'
BY DEF CallsSound, Behind, Reaches, Heard, Fits, Places, Contexts

\* Without a new call, field or text no secret is at stake.
LEMMA SecretStays ==
  ASSUME UNCHANGED <<daemon, calls, content>>, screen'.text = screen.text
  PROVE  SecretSound => SecretSound'
BY DEF SecretSound, SecretKept

\* What the desktop does sends the calls that tell the engine of it.
LEMMA DesktopCalls ==
  ASSUME IbusTypes, ChoiceSound, CallsSound, SecretSound, Desktop
  PROVE  CallsSound' /\ SecretSound'
<1>0. /\ calls \in Seq(Call) /\ told \in Places /\ daemon.focus \in Contexts /\ "other" \in Engines
      /\ daemon.engine \in Engines /\ daemon.wants \in {"user", "other"} /\ daemon.wants \in Engines
      /\ daemon.secret \subseteq Fields /\ screen \in Screens /\ daemon.conn \in BOOLEAN
  BY DaemonIs DEF IbusTypes, Engines
<1>t. [screen EXCEPT !.preedit = FALSE].text = screen.text
  BY <1>0 DEF Screens
<1>1. ASSUME NEW c \in Contexts, FocusMoves(c) PROVE CallsSound' /\ SecretSound'
  <2>1. /\ daemon'.engine = daemon.engine /\ daemon'.conn = daemon.conn /\ daemon'.focus = c
        /\ daemon'.secret = daemon.secret
    <3>1. daemon' = [daemon EXCEPT !.focus = c]
      BY <1>1 DEF FocusMoves
    <3> QED BY <3>1, DaemonIs
  <2>2. told' = told /\ screen'.text = screen.text /\ content' = content
    BY <1>1, <1>t DEF FocusMoves
  <2>3. CASE daemon.engine = "myna" /\ daemon.conn
    <3>1. Reaches(told, calls, daemon.focus) /\ daemon.focus \in Places
      BY <1>0, <2>3, Names DEF CallsSound, Behind
    <3>2. PICK q \in Seq(Call) :
            /\ Reaches(told, q, c) /\ q = calls \o (Unfocus(daemon.focus) \o Focus(c, FALSE))
            /\ q = calls \o Unfocus(daemon.focus) \o Focus(c, FALSE)
            /\ c # "fake" => q # <<>> /\ q[Len(q)] = ContentType(c \in daemon.secret)
      BY <1>0, <3>1, MovesReach, Zenon
    <3>3. calls' = q
      BY <1>1, <2>3, <3>2 DEF FocusMoves
    <3>4. c \in daemon.secret => calls' # <<>> /\ calls'[Len(calls')] = ContentType(TRUE)
      <4>1. c \in daemon.secret => c # "fake" /\ (c \in daemon.secret) = TRUE
        BY <1>0, Names
      <4> QED BY <3>2, <3>3, <4>1
    <3>5. CallsSound'
      <4>1. Reaches(told', calls', c) /\ daemon'.focus = c /\ daemon'.engine = "myna"
        BY <2>1, <2>2, <2>3, <3>2, <3>3 DEF Reaches, Heard, Fits
      <4>2. daemon'.conn = TRUE /\ c \in Places
        BY <1>0, <2>1, <2>3, Names
      <4> QED BY <4>1, <4>2 DEF CallsSound, Behind, Reaches, Heard, Fits, Places, Contexts
    <3>6. SecretSound'
      BY <2>1, <2>2, <3>4 DEF SecretSound, SecretKept
    <3> QED BY <3>5, <3>6
  <2>4. CASE ~(daemon.engine = "myna" /\ daemon.conn)
    <3>1. calls' = calls /\ daemon.engine # "myna"
      BY <1>1, <2>4 DEF FocusMoves, ChoiceSound
    <3>2. CallsSound'
      BY <2>1, <2>2, <3>1 DEF CallsSound, Behind
    <3>3. SecretSound'
      BY <2>1, <2>2, <3>1 DEF SecretSound, SecretKept
    <3> QED BY <3>2, <3>3
  <2> QED BY <2>3, <2>4
<1>2. CASE EngineTaken
  <2>1. daemon'.engine = "other" /\ daemon'.conn = daemon.conn
    <3>1. daemon' = [daemon EXCEPT !.engine = "other", !.wants = "other"]
      BY <1>2 DEF EngineTaken
    <3> QED BY <1>0, <3>1, DaemonIs
  <2>2. told' = told /\ screen'.text = screen.text /\ calls' = calls \o Deactivated("other")
    BY <1>2, <1>t DEF EngineTaken
  <2>3. /\ daemon'.conn => \E u \in Places : Reaches(told', calls', u) /\ u \notin Fields
        /\ ~daemon'.conn => calls' = <<>>
    <3>1. /\ daemon.conn => \E u \in Places : Reaches(told, calls \o Deactivated("other"), u) /\ u \notin Fields
          /\ ~daemon.conn => calls \o Deactivated("other") = <<>>
      BY DeactivatedReaches
    <3> QED BY <2>1, <2>2, <3>1
  <2> QED BY <2>1, <2>2, <2>3
          DEF CallsSound, SecretSound, SecretKept, Behind, Reaches, Heard, Fits, Places, Contexts
<1>3. CASE DaemonRestarts
  <2>1. daemon'.engine = daemon.wants /\ daemon'.conn = FALSE
    <3>1. daemon' = [daemon EXCEPT !.conn = FALSE, !.engine = daemon.wants]
      BY <1>3 DEF DaemonRestarts
    <3> QED BY <1>0, <3>1, DaemonIs
  <2>2. calls' = <<>> /\ screen'.text = screen.text
    BY <1>3, <1>t DEF DaemonRestarts
  <2> QED BY <1>0, <2>1, <2>2 DEF CallsSound, SecretSound, SecretKept
<1>4. CASE Activate
  BY <1>4, CallsStay, SecretStays DEF Activate
<1>5. ASSUME NEW f \in Fields, FieldHides(f) PROVE CallsSound' /\ SecretSound'
  <2>1. /\ daemon'.engine = daemon.engine /\ daemon'.conn = daemon.conn
        /\ daemon'.focus = daemon.focus /\ daemon'.secret = daemon.secret \cup {f}
    <3>1. daemon' = [daemon EXCEPT !.secret = @ \cup {f}]
      BY <1>5 DEF FieldHides
    <3> QED BY <3>1, DaemonIs
  <2>2. UNCHANGED <<told, content, screen>>
    BY <1>5 DEF FieldHides
  <2>3. CASE daemon.engine = "myna" /\ daemon.conn /\ daemon.focus = f
    <3> DEFINE k == ContentType(TRUE)
    <3>1. k \in Call /\ Fits(f, k) /\ Heard(f, k) = f /\ f \in Places
      <4>1. k \in Call /\ f \in Places
        BY Sent, Names
      <4> QED BY <4>1 DEF ContentType, Fits, Heard
    <3>2. Reaches(told, calls, f)
      BY <2>3 DEF CallsSound, Behind
    <3>3. calls' = Append(calls, k)
      BY <1>5, <2>3 DEF FieldHides
    <3>4. calls' # <<>> /\ calls'[Len(calls')] = k
      <4> HIDE DEF k
      <4> QED BY <1>0, <3>1, <3>3
    <3>5. Reaches(told', calls', f)
      BY <1>0, <2>2, <3>1, <3>2, <3>3, ReachesAppend DEF Reaches, Heard, Fits
    <3> HIDE DEF k
    <3>6. CallsSound'
      BY <2>1, <2>3, <3>1, <3>5 DEF CallsSound, Behind, Reaches, Heard, Fits, Places, Contexts
    <3>7. SecretSound'
      BY <2>2, <3>4 DEF SecretSound, SecretKept, k
    <3> QED BY <3>6, <3>7
  <2>4. CASE ~(daemon.engine = "myna" /\ daemon.conn /\ daemon.focus = f)
    <3>1. calls' = calls
      BY <1>5, <2>4 DEF FieldHides
    <3>2. daemon.engine = "myna" => daemon.focus # f
      BY <2>4 DEF ChoiceSound
    <3>3. CallsSound'
      BY <2>1, <2>2, <3>1 DEF CallsSound, Behind, Reaches, Heard, Fits, Places, Contexts
    <3>4. SecretSound'
      BY <2>1, <2>2, <3>1, <3>2 DEF SecretSound, SecretKept
    <3> QED BY <3>3, <3>4
  <2> QED BY <2>3, <2>4
<1> QED BY <1>1, <1>2, <1>3, <1>4, <1>5 DEF Desktop

\* A call dispatched tells the engine what it was to be told.
LEMMA DispatchCalls ==
  ASSUME IbusTypes, ChoiceSound, CallsSound, SecretSound, Dispatch
  PROVE  CallsSound' /\ SecretSound'
<1> DEFINE c == Head(calls)
<1>0. /\ calls \in Seq(Call) /\ told \in Places /\ calls # <<>> /\ c \in Call
      /\ Tail(calls) \in Seq(Call)
  BY DEF IbusTypes, Dispatch
<1>1. UNCHANGED <<daemon, screen>> /\ calls' = Tail(calls)
  BY DEF Dispatch
<1>2. told' = Heard(told, c)
  BY <1>0 DEF Dispatch, Heard, Call
<1>3. daemon.conn /\ \E u \in Places : Reaches(told, calls, u) /\ Behind(u)
  BY <1>0 DEF CallsSound, IbusTypes, Daemons
<1>4. CallsSound'
  <2>1. PICK u \in Places : Reaches(told, calls, u) /\ Behind(u)
    BY <1>3
  <2>2. Reaches(told', calls', u)
    BY <1>0, <1>1, <1>2, <2>1, ReachesTail
  <2> QED BY <1>1, <1>3, <2>1, <2>2 DEF CallsSound, Behind
<1>5. SecretSound'
  <2>1. ASSUME daemon.engine = "myna", daemon.focus \in daemon.secret
        PROVE  IF calls' = <<>> THEN content' ELSE calls'[Len(calls')] = ContentType(TRUE)
    <3>1. calls[Len(calls)] = ContentType(TRUE)
      BY <1>0, <2>1 DEF SecretSound
    <3>2. CASE calls' = <<>>
      <4>1. Len(Tail(calls)) = Len(calls) - 1 /\ Len(calls) >= 1 /\ c = calls[1]
        BY <1>0
      <4>2. Len(calls) = 1
        <5>1. Tail(calls) = <<>> /\ Len(<<>>) = 0
          BY <1>1, <3>2
        <5>2. Len(Tail(calls)) = 0
          BY <5>1, Zenon
        <5> QED BY <4>1, <5>2
      <4>3. calls[Len(calls)] = c
        BY <4>1, <4>2
      <4>4. content' = TRUE
        BY <3>1, <4>3 DEF Dispatch, ContentType
      <4> QED BY <3>2, <4>4
    <3>3. CASE calls' # <<>>
      <4>1. calls'[Len(calls')] = calls[Len(calls)]
        BY <1>0, <1>1, <3>3
      <4> QED BY <3>1, <3>3, <4>1
    <3> QED BY <3>2, <3>3
  <2> QED BY <1>1, <2>1 DEF SecretSound, SecretKept
<1> QED BY <1>4, <1>5

\* The focus a switch sends is told, and content it resets is sent anew.
LEMMA AcquireCalls ==
  ASSUME IbusTypes, ChoiceSound, CallsSound, SecretSound,
         Acquire \/ reconnect \/ ReadBefore \/ switch \/ SwitchCancelled \/ focus_arrived
         \/ CheckSwitch \/ left_settled
  PROVE  CallsSound' /\ SecretSound'
<1>0. /\ calls \in Seq(Call) /\ told \in Places /\ daemon.focus \in Contexts
      /\ {"other", "myna"} \subseteq Engines /\ daemon.conn \in BOOLEAN
      /\ daemon.engine \in Engines /\ daemon.secret \subseteq Fields
  BY DaemonIs DEF IbusTypes, Engines
<1>1. CASE Acquire \/ ReadBefore \/ focus_arrived \/ CheckSwitch \/ left_settled
  <2>1. UNCHANGED <<daemon, calls, told, content, screen>>
    BY <1>1 DEF Acquire, ReadBefore, focus_arrived, CheckSwitch, left_settled
  <2> QED BY <2>1, CallsStay, SecretStays
<1>2. CASE reconnect
  <2>0. daemon.engine # "myna" /\ screen' = screen
    BY <1>2 DEF reconnect, ChoiceSound
  <2>1. CASE daemon' = [daemon EXCEPT !.conn = TRUE] /\ calls' = <<>> /\ told' = None
    <3>1. daemon'.conn = TRUE /\ daemon'.engine = daemon.engine
      BY <2>1, DaemonIs
    <3>2. Reaches(told', calls', None) /\ None \in Places /\ None \notin Fields
      BY <2>1, ReachesNone, Names
    <3>3. CallsSound'
      BY <2>0, <3>1, <3>2 DEF CallsSound, Behind
    <3>4. SecretSound'
      BY <2>0, <3>1 DEF SecretSound, SecretKept
    <3> QED BY <3>3, <3>4
  <2>2. CASE UNCHANGED <<daemon, calls, told, content>>
    BY <2>0, <2>2, CallsStay, SecretStays
  <2> QED BY <1>2, <2>1, <2>2 DEF reconnect
<1>3. CASE switch
  <2>0. daemon.engine # "myna" /\ UNCHANGED <<screen, told>>
    BY <1>3 DEF switch, ChoiceSound
  <2>1. CASE daemon.conn
    <3>1. PICK u \in Places : Reaches(told, calls, u) /\ u \notin Fields
      BY <2>0, <2>1 DEF CallsSound, Behind
    <3>2. calls' = calls \o Focus(daemon.focus, TRUE)
            /\ daemon' = [daemon EXCEPT !.engine = "myna"]
      BY <1>3, <2>0, <2>1 DEF switch
    <3>3. /\ Reaches(told', calls', daemon.focus)
          /\ daemon.focus # "fake" => /\ calls' # <<>>
                                      /\ calls'[Len(calls')] = ContentType(daemon.focus \in daemon.secret)
      <4> DEFINE q == calls \o Focus(daemon.focus, TRUE)
      <4>1. /\ Reaches(told, q, daemon.focus)
            /\ daemon.focus # "fake" => q # <<>> /\ q[Len(q)] = ContentType(daemon.focus \in daemon.secret)
        <5>1. (u \in Fields => u = daemon.focus) /\ TRUE \in BOOLEAN
          BY <3>1
        <5>2. Reaches(told, q, daemon.focus)
          BY <1>0, <3>1, <5>1, FocusReaches
        <5>3. ASSUME daemon.focus # "fake"
              PROVE  q # <<>> /\ q[Len(q)] = ContentType(daemon.focus \in daemon.secret)
          <6>1. Reaches(told, calls, u) /\ u \in Places /\ calls \in Seq(Call) /\ told \in Places
            BY <1>0, <3>1
          <6>2. daemon.focus \in Contexts
            BY <1>0
          <6> QED BY <5>1, <5>3, <6>1, <6>2, FocusReaches, Zenon
        <5> QED BY <5>2, <5>3
      <4>2. told' = told /\ calls' = q
        BY <2>0, <3>2
      <4> HIDE DEF q
      <4> QED BY <4>1, <4>2
    <3>4. /\ daemon'.engine = "myna" /\ daemon'.focus = daemon.focus
          /\ daemon'.secret = daemon.secret /\ daemon'.conn = daemon.conn
      BY <1>0, <3>2, DaemonIs
    <3>5. CallsSound'
      BY <1>0, <2>1, <3>3, <3>4, Names DEF CallsSound, Behind
    <3>6. daemon.focus \in daemon.secret =>
            daemon.focus # "fake" /\ (daemon.focus \in daemon.secret) = TRUE
      BY <1>0, Names
    <3>7. SecretSound'
      BY <2>0, <3>3, <3>4, <3>6 DEF SecretSound, SecretKept
    <3> QED BY <3>5, <3>7
  <2>2. CASE ~daemon.conn
    <3>1. UNCHANGED <<daemon, calls>>
      BY <1>3, <2>2 DEF switch
    <3>2. SecretSound'
      BY <2>0, <3>1 DEF SecretSound, SecretKept
    <3> QED BY <2>0, <3>1, <3>2, CallsStay
  <2> QED BY <2>1, <2>2
<1>4. CASE SwitchCancelled
  <2>0. daemon.engine # "myna" /\ UNCHANGED <<screen, told, calls>>
    BY <1>4 DEF SwitchCancelled, ChoiceSound
  <2>1. daemon'.engine = "other" /\ daemon'.conn = daemon.conn
    <3>1. daemon' = [daemon EXCEPT !.engine = "other", !.wants = "other"]
      BY <1>4 DEF SwitchCancelled
    <3> QED BY <1>0, <3>1, DaemonIs
  <2>2. CallsSound'
    BY <2>0, <2>1 DEF CallsSound, Behind
  <2>3. SecretSound'
    BY <2>0, <2>1 DEF SecretSound, SecretKept
  <2> QED BY <2>2, <2>3
<1> QED BY <1>1, <1>2, <1>3, <1>4

\* No text lands in a field that the engine was told is secure.
LEMMA WriteSecret ==
  ASSUME IbusTypes, ChoiceSound, CallsSound, SecretSound, NEW n, Write(n)
  PROVE  SecretKept'
<1>0. screen.text \in Seq(Text) /\ told \in Places /\ daemon.secret \subseteq Fields
  BY DaemonIs, TargetParts DEF IbusTypes
<1>1. CASE ~(held_by /\ ~content /\ daemon.conn)
  <2>1. screen'.text = screen.text
    BY <1>1 DEF Write
  <2> QED BY <2>1 DEF SecretSound, SecretKept
<1>2. CASE held_by /\ ~content /\ daemon.conn
  <2>1. ~(told \in daemon.secret /\ calls = <<>>)
    <3>1. ASSUME told \in daemon.secret, calls = <<>> PROVE FALSE
      <4>1. PICK u \in Places : Reaches(told, calls, u) /\ Behind(u)
        BY <1>2 DEF CallsSound
      <4>2. u = told
        BY <1>0, <3>1, <4>1, ReachesNone
      <4>3. daemon.engine = "myna" /\ daemon.focus \in daemon.secret
        BY <1>0, <3>1, <4>1, <4>2 DEF Behind
      <4>4. content
        BY <3>1, <4>3 DEF SecretSound
      <4> QED BY <1>2, <4>4
    <3> QED BY <3>1
  <2>2. screen'.text = Append(screen.text, Landed(n)) /\ ~Landed(n).leak
    <3>1. ~Landed(n).leak
      BY <2>1 DEF Landed
    <3> QED BY <1>2, <3>1, Zenon DEF Write
  <2>3. \A i \in DOMAIN screen'.text :
          (i \in DOMAIN screen.text /\ screen'.text[i] = screen.text[i])
            \/ screen'.text[i] = Landed(n)
    <3> HIDE DEF Landed
    <3>1. \A x : \A i \in DOMAIN Append(screen.text, x) :
            (i \in DOMAIN screen.text /\ Append(screen.text, x)[i] = screen.text[i])
              \/ Append(screen.text, x)[i] = x
      BY <1>0
    <3> QED BY <2>2, <3>1
  <2> QED BY <2>2, <2>3 DEF SecretSound, SecretKept
<1> QED BY <1>1, <1>2

\* A write sends no call; the engine a release hands over is unfocused.
LEMMA TargetCalls ==
  ASSUME IbusTypes, ChoiceSound, CallsSound, SecretSound,
         commit \/ set_preedit \/ Stand \/ WriteNext \/ release \/ ReleaseSettles
         \/ ReleaseRestores
  PROVE  CallsSound' /\ SecretSound'
<1>0. /\ daemon.conn \in BOOLEAN /\ owed \in {None, "user", "other"} /\ calls \in Seq(Call)
      /\ screen \in Screens /\ daemon.engine \in Engines
  BY DaemonIs DEF IbusTypes
<1>1. CASE commit \/ set_preedit \/ Stand \/ release \/ ReleaseSettles
  <2>1. UNCHANGED <<daemon, calls, told, content, screen>>
    BY <1>1 DEF commit, set_preedit, Stand, release, ReleaseSettles
  <2> QED BY <2>1, CallsStay, SecretStays
<1>2. CASE WriteNext
  <2>1. UNCHANGED <<daemon, calls, told, content>>
    BY <1>2 DEF WriteNext
  <2>2. SecretKept'
    <3>1. CASE Write(Head(target.out))
      BY <3>1, WriteSecret
    <3>2. CASE show_preedit(Head(target.out))
      <4>1. screen'.text = screen.text
        <5>1. \A b : [screen EXCEPT !.preedit = b].text = screen.text
          BY <1>0 DEF Screens
        <5> QED BY <3>2, <5>1 DEF show_preedit
      <4> QED BY <4>1 DEF SecretSound, SecretKept
    <3> QED BY <1>2, <3>1, <3>2 DEF WriteNext
  <2> QED BY <2>1, <2>2, CallsStay DEF SecretSound
<1>3. CASE ReleaseRestores
  <2> DEFINE back == owed # None /\ daemon.conn
  <2>0. UNCHANGED <<told, content>> /\ SecretKept'
    <3>1. screen'.text = <<>> /\ UNCHANGED <<told, content>>
      BY <1>3 DEF ReleaseRestores
    <3>2. DOMAIN <<>> = {}
      OBVIOUS
    <3> QED BY <3>1, <3>2 DEF SecretKept
  <2>1. CASE back
    <3>1. daemon' = [daemon EXCEPT !.engine = owed] /\ calls' = calls \o Deactivated(owed)
      BY <1>3, <2>1 DEF ReleaseRestores
    <3>2. owed \in {"user", "other"} /\ owed \in Engines
      BY <1>0, <2>1 DEF Engines
    <3>3. daemon'.engine = owed /\ daemon'.conn = daemon.conn
      BY <3>1, <3>2, DaemonIs
    <3>4. /\ daemon.conn => \E u \in Places : Reaches(told, calls \o Deactivated(owed), u) /\ u \notin Fields
          /\ ~daemon.conn => calls \o Deactivated(owed) = <<>>
      BY <3>2, DeactivatedReaches
    <3>5. CallsSound'
      BY <2>0, <3>1, <3>2, <3>3, <3>4 DEF CallsSound, Behind
    <3>6. SecretSound'
      BY <2>0, <3>2, <3>3 DEF SecretSound
    <3> QED BY <3>5, <3>6
  <2>2. CASE ~back
    <3>1. daemon' = daemon /\ calls' = calls \o Deactivated("myna")
      BY <1>3, <2>2 DEF ReleaseRestores
    <3>2. daemon.engine # "myna" /\ calls' = calls
      BY <1>0, <2>2, <3>1 DEF ChoiceSound, Deactivated
    <3>3. SecretSound'
      BY <2>0, <3>1, <3>2 DEF SecretSound
    <3> QED BY <2>0, <3>1, <3>2, <3>3, CallsStay
  <2> QED BY <2>1, <2>2
<1> QED BY <1>1, <1>2, <1>3

\* Every step keeps the calls true to the focus and to secure fields.
LEMMA CallsNext ==
  ASSUME IbusTypes, ChoiceSound, CallsSound, SecretSound, IbusNext
  PROVE  CallsSound' /\ SecretSound'
<1>1. CASE Timer \/ ActivationAges
  <2>1. UNCHANGED <<daemon, calls, told, content, screen>>
    BY <1>1 DEF Timer, WindowEnds, GraceEnds, ActivationAges
  <2> QED BY <2>1, CallsStay, SecretStays
<1> QED BY <1>1, DispatchCalls, DesktopCalls, AcquireCalls, TargetCalls DEF IbusNext, Controller

-----------------------------------------------------------------------------
(***************************************************************************)
(* The field.                                                              *)
(***************************************************************************)

\* Where the text is depends on the text alone.
LEMMA WrittenStays ==
  ASSUME screen'.text = screen.text
  PROVE  \A p : Written(p)' <=> Written(p)
BY DEF Written

\* Nothing is in a field, so it is all in any field.
LEMMA WrittenNone == Written(None) => \A p : Written(p)
BY Names DEF Written

\* What a focus call makes of the lease, one binding at a time.
LEMMA FocusInIs ==
  ASSUME IbusTypes, NEW c \in Call
  PROVE  LET l == FocusIn(lease, c)
             bound == /\ l.b \in {"Context", "Unnamed"} /\ l.wrote = lease.wrote
                      /\ l.b = "Context" => l.path = c.ctx
         IN  \/ l.b = "Lost"
             \/ l = lease /\ lease.b = "Lost"
             \/ lease.b = "Pending" /\ (bound \/ (l.b = "Pending" /\ l.wrote = lease.wrote))
             \/ /\ lease.b = "Unnamed"
                /\ \/ l.b = "Left" /\ l.wrote = lease.wrote /\ ~lease.wrote /\ c.ctx = "fake"
                   \/ bound /\ l.b = "Context"
             \/ lease.b = "Left" /\ (bound \/ (l = lease /\ c.ctx = "fake"))
             \/ lease.b = "Context" /\ l = lease /\ c.ctx = lease.path
             \/ lease.b = "Away" /\ l = lease /\ c.ctx = "fake"
             \/ /\ lease.b = "Away" /\ l.b \in {"Context", "Away"} /\ l.path = lease.path
                /\ c.ctx = lease.path /\ l.wrote = lease.wrote
<1>0. lease \in Lease /\ c.named \in BOOLEAN
  BY DEF IbusTypes, Call
<1>1. CASE lease.b = "Pending"
  BY <1>0, <1>1, Zenon DEF FocusIn, Bind, Lease
<1>2. CASE lease.b = "Unnamed"
  BY <1>0, <1>2 DEF FocusIn, Bind, Lease, Gone, Minted
<1>3. CASE lease.b = "Left"
  BY <1>0, <1>3 DEF FocusIn, Bind, Lease
<1>4. CASE lease.b = "Context"
  BY <1>0, <1>4 DEF FocusIn, Lease, Gone, Minted
<1>5. CASE lease.b = "Away"
  BY <1>0, <1>5 DEF FocusIn, Lease, Gone, Minted
<1>6. CASE lease.b = "Unfocused"
  BY <1>0, <1>6 DEF FocusIn, Lease, Gone, Minted
<1>7. CASE lease.b = "Lost"
  BY <1>0, <1>7 DEF FocusIn, Lease
<1> QED BY <1>0, <1>1, <1>2, <1>3, <1>4, <1>5, <1>6, <1>7 DEF Lease

\* What a loss of focus makes of the lease, one binding at a time.
LEMMA FocusOutIs ==
  ASSUME IbusTypes, NEW c \in Call
  PROVE  LET l == FocusOut(lease, c)
         IN  \/ l.b = "Lost"
             \/ l = lease /\ lease.b \in {"Lost", "Left"}
             \/ lease.b = "Pending" /\ l.b = "Pending" /\ l.wrote = lease.wrote
             \/ /\ lease.b \in {"Context", "Away"} /\ l.b = "Away" /\ l.path = lease.path
                /\ l.wrote = lease.wrote
             \/ /\ lease.b = "Unnamed" /\ l.b = "Left" /\ ~lease.wrote /\ l.wrote = lease.wrote
             \/ /\ lease.b = "Unnamed" /\ l.b = "Away" /\ l.path = c.ctx /\ l.wrote = lease.wrote
<1>0. lease \in Lease /\ c.named \in BOOLEAN
  BY DEF IbusTypes, Call
<1> QED BY <1>0 DEF FocusOut, Lease, Gone, Minted

\* LeaseSound without where an utterance is in its acquire.
Bound ==
  /\ \E p \in Places : Written(p)
  /\ lease.b \in {"Context", "Away"} =>
       Written(lease.path) /\ (told \in Fields => told = lease.path)
  /\ lease.b \in {"Unnamed", "Unfocused"} => Written(told)
  /\ lease.b \in {"Pending", "Left"} \/ (held_by /\ ~lease.wrote) => Written(None)
  /\ lease.b = "Left" => told \notin Fields

\* Focus told moves the lease, or ends it if text would follow it elsewhere.
LEMMA DispatchLease ==
  ASSUME IbusTypes, CallsSound, LeaseSound, Dispatch
  PROVE  LeaseSound'
<1> DEFINE c == Head(calls)
<1>0. /\ calls \in Seq(Call) /\ told \in Places /\ calls # <<>> /\ c \in Call
      /\ lease \in Lease
  BY DEF IbusTypes, Dispatch
<1>1. Fits(told, c)
  <2>1. PICK u \in Places : Reaches(told, calls, u) /\ Behind(u)
    BY <1>0 DEF CallsSound, IbusTypes, Daemons
  <2> QED BY <1>0, <2>1, ReachesTail
<1>2. UNCHANGED <<screen, step, target>> /\ \A p : Written(p)' <=> Written(p)
  <2>1. UNCHANGED <<screen, step, target>>
    BY DEF Dispatch
  <2> QED BY <2>1, WrittenStays
<1>3. \A p, q : told \in Fields /\ told = p /\ Written(told) => Written(p)
  OBVIOUS
<1>4. told \notin Fields /\ Written(told) => Written(None)
  BY Names DEF Written
<1>5. CASE c.kind = "in"
  <2>1. lease' = FocusIn(lease, c) /\ told' = c.ctx
    BY <1>5 DEF Dispatch
  <2>2. told \in Fields => c.ctx = told
    BY <1>1, <1>5 DEF Fits
  <2>3. c.ctx = "fake" => c.ctx \notin Fields
    BY Names
  <2> HIDE DEF c
  <2>4. Bound'
    <3>1. Bound
      BY DEF LeaseSound, Bound
    <3>2. CASE lease'.b = "Lost"
      BY <1>2, <3>1, <3>2 DEF Bound, held_by
    <3>3. CASE lease' = lease /\ lease.b = "Lost"
      BY <1>2, <3>1, <3>3 DEF Bound, held_by
    <3>4. CASE Written(None)
      <4>1. \A p : Written(p)'
        BY <1>2, <3>4, WrittenNone
      <4>2. lease'.b = "Left" => told' \notin Fields
        BY <1>0, <2>1, <2>3, <3>1, FocusInIs DEF Bound
      <4>3. lease'.b \in {"Context", "Away"} => (told' \in Fields => told' = lease'.path)
        BY <1>0, <2>1, <2>3, <3>1, FocusInIs DEF Bound
      <4> QED BY <4>1, <4>2, <4>3, Names DEF Bound
    <3>5. CASE lease.b = "Unnamed" /\ ~Written(None) /\ lease'.b # "Lost"
      <4>1. lease'.b = "Context" /\ lease'.path = c.ctx /\ lease'.wrote = lease.wrote /\ lease.wrote
        BY <1>0, <2>1, <3>1, <3>5, FocusInIs DEF Bound, held_by
      <4>2. Written(c.ctx)
        BY <1>4, <2>2, <3>1, <3>5 DEF Bound
      <4> QED BY <1>2, <2>1, <3>1, <4>1, <4>2 DEF Bound, held_by
    <3>6. CASE lease.b \in {"Context", "Away"} /\ ~Written(None) /\ lease'.b # "Lost"
      <4>1. /\ lease'.b \in {"Context", "Away"} /\ lease'.path = lease.path
            /\ lease'.wrote = lease.wrote /\ lease.wrote /\ (told' \in Fields => told' = lease.path)
        BY <1>0, <2>1, <2>3, <3>1, <3>6, FocusInIs DEF Bound, held_by
      <4> QED BY <1>2, <3>1, <3>6, <4>1 DEF Bound, held_by
    <3>7. lease.b = "Unfocused" => lease'.b = "Lost"
      BY <1>0, <2>1, FocusInIs
    <3> QED BY <1>0, <3>1, <3>2, <3>3, <3>4, <3>5, <3>6, <3>7, <2>1, FocusInIs DEF Bound, Lease
  <2>5. lease'.b = "Pending" => lease.b = "Pending"
    BY <1>0, <2>1, FocusInIs
  <2> QED BY <1>2, <2>4, <2>5 DEF LeaseSound, Bound
<1>6. CASE c.kind = "out"
  <2>1. lease' = FocusOut(lease, c) /\ told' = None
    BY <1>6 DEF Dispatch
  <2>2. told \in Fields => c.ctx = told
    BY <1>1, <1>6 DEF Fits
  <2>3. None \notin Fields
    BY Names
  <2> HIDE DEF c
  <2>4. Bound'
    <3>1. Bound
      BY DEF LeaseSound, Bound
    <3>2. CASE lease'.b = "Lost"
      BY <1>2, <3>1, <3>2 DEF Bound, held_by
    <3>4. CASE Written(None)
      <4>1. \A p : Written(p)'
        BY <1>2, <3>4, WrittenNone
      <4> QED BY <2>1, <2>3, <4>1, Names DEF Bound
    <3>5. CASE lease.b = "Unnamed" /\ ~Written(None) /\ lease'.b # "Lost"
      <4>1. lease'.b = "Away" /\ lease'.path = c.ctx /\ lease'.wrote = lease.wrote /\ lease.wrote
        BY <1>0, <2>1, <3>1, <3>5, FocusOutIs DEF Bound, held_by
      <4>2. Written(c.ctx)
        BY <1>4, <2>2, <3>1, <3>5 DEF Bound
      <4> QED BY <1>2, <2>1, <2>3, <3>1, <4>1, <4>2 DEF Bound, held_by
    <3>6. CASE lease.b \in {"Context", "Away"} /\ ~Written(None) /\ lease'.b # "Lost"
      <4>1. /\ lease'.b = "Away" /\ lease'.path = lease.path
            /\ lease'.wrote = lease.wrote /\ lease.wrote
        BY <1>0, <2>1, <3>1, <3>6, FocusOutIs DEF Bound, held_by
      <4> QED BY <1>2, <2>1, <2>3, <3>1, <3>6, <4>1 DEF Bound, held_by
    <3>7. lease.b \in {"Unfocused", "Lost"} => lease'.b = "Lost"
      BY <1>0, <2>1, FocusOutIs
    <3> QED BY <1>0, <3>1, <3>2, <3>4, <3>5, <3>6, <3>7 DEF Bound, Lease
  <2>5. lease'.b = "Pending" => lease.b = "Pending"
    BY <1>0, <2>1, FocusOutIs
  <2> QED BY <1>2, <2>4, <2>5 DEF LeaseSound, Bound
<1>7. CASE c.kind \notin {"in", "out"}
  <2>1. lease' = lease /\ told' = told
    BY <1>7 DEF Dispatch
  <2> QED BY <1>2, <2>1 DEF LeaseSound, held_by
<1> QED BY <1>5, <1>6, <1>7

\* The lease keeps its binding or is lost, and nothing is written.
LEMMA LeaseHolds ==
  ASSUME LeaseSound, screen'.text = screen.text,
         \/ lease'.b = "Lost"
         \/ /\ told' = told /\ lease'.b = lease.b /\ lease'.path = lease.path
            /\ lease'.wrote = lease.wrote
         \/ /\ told' = told /\ lease.b = "Away" /\ lease'.b = "Context" /\ lease'.path = lease.path
            /\ lease'.wrote = lease.wrote,
         lease'.b = "Pending" => step' = "arrive",
         step' \in Acquiring => step \in Acquiring /\ target' = NoTarget
  PROVE  LeaseSound'
<1>1. \A p : Written(p)' <=> Written(p)
  BY WrittenStays
<1>2. step' \in Acquiring => screen'.text = <<>> /\ target' = NoTarget
  BY DEF LeaseSound
<1>3. CASE lease'.b = "Lost"
  BY <1>1, <1>2, <1>3 DEF LeaseSound, held_by
<1>4. CASE /\ told' = told /\ lease'.b = lease.b /\ lease'.path = lease.path
           /\ lease'.wrote = lease.wrote
  BY <1>1, <1>2, <1>4 DEF LeaseSound, held_by
<1>5. CASE /\ told' = told /\ lease.b = "Away" /\ lease'.b = "Context" /\ lease'.path = lease.path
           /\ lease'.wrote = lease.wrote
  BY <1>1, <1>2, <1>5 DEF LeaseSound, held_by
<1> QED BY <1>3, <1>4, <1>5

\* An utterance without a target has written nothing.
LEMMA NothingYet ==
  ASSUME LeaseSound, step \in Acquiring, screen' = screen
  PROVE  \A p : Written(p)'
<1>1. screen'.text = <<>> /\ DOMAIN <<>> = {}
  BY DEF LeaseSound
<1> QED BY <1>1 DEF Written

\* Time, activations and the desktop move no lease to another field.
LEMMA LeaseAside ==
  ASSUME IbusTypes, LeaseSound, Timer \/ ActivationAges \/ Desktop
  PROVE  LeaseSound'
<1>0. lease \in Lease /\ screen \in Screens /\ [screen EXCEPT !.preedit = FALSE].text = screen.text
  BY DEF IbusTypes, Screens
<1>1. CASE Timer
  <2>1. \/ lease'.b = "Lost"
        \/ lease'.b = lease.b /\ lease'.path = lease.path /\ lease'.wrote = lease.wrote
    BY <1>0, <1>1 DEF Timer, WindowEnds, GraceEnds, expire, Gone, Minted, Lease
  <2>2. UNCHANGED <<told, step, target, screen>>
    BY <1>1 DEF Timer, WindowEnds, GraceEnds
  <2> QED BY <2>1, <2>2, LeaseHolds DEF LeaseSound
<1>2. CASE ActivationAges
  <2>1. lease'.b = lease.b /\ lease'.path = lease.path /\ lease'.wrote = lease.wrote
    BY <1>0, <1>2 DEF ActivationAges, Lease
  <2>2. UNCHANGED <<told, step, target, screen>>
    BY <1>2 DEF ActivationAges
  <2> QED BY <2>1, <2>2, LeaseHolds DEF LeaseSound
<1>3. CASE Activate
  <2>1. \/ lease'.b = lease.b /\ lease'.path = lease.path /\ lease'.wrote = lease.wrote
        \/ /\ lease.b = "Away" /\ lease'.b = "Context" /\ lease'.path = lease.path
           /\ lease'.wrote = lease.wrote
    BY <1>0, <1>3 DEF Activate, activated, Lease
  <2>2. UNCHANGED <<told, step, target, screen>>
    BY <1>3 DEF Activate
  <2> QED BY <2>1, <2>2, LeaseHolds DEF LeaseSound
<1>4. CASE Desktop /\ ~Activate
  <2>1. UNCHANGED <<told, lease, step, target>> /\ screen'.text = screen.text
    BY <1>0, <1>4 DEF Desktop, FocusMoves, EngineTaken, FieldHides, DaemonRestarts
  <2> QED BY <2>1, LeaseHolds DEF LeaseSound
<1> QED BY <1>1, <1>2, <1>3, <1>4

\* A lease is minted before anything is written under it.
LEMMA AcquireLease ==
  ASSUME IbusTypes, LeaseSound,
         Acquire \/ reconnect \/ ReadBefore \/ switch \/ SwitchCancelled \/ focus_arrived
         \/ CheckSwitch \/ left_settled
  PROVE  LeaseSound'
<1>0. lease \in Lease /\ Gone.b = "Lost"
  BY DEF IbusTypes, Gone, Minted
<1>1. CASE Acquire
  <2>1. UNCHANGED <<told, lease, screen>> /\ target' = NoTarget
          /\ step \in Acquiring /\ step = "idle"
    BY <1>1 DEF Acquire, Acquiring
  <2> QED BY <2>1, LeaseHolds DEF LeaseSound
<1>2. CASE reconnect
  <2>1. UNCHANGED <<target, screen>> /\ step \in Acquiring /\ step = "connect"
          /\ (lease' = Gone \/ UNCHANGED <<told, lease>>)
    BY <1>2 DEF reconnect, Acquiring
  <2> QED BY <1>0, <2>1, LeaseHolds DEF LeaseSound
<1>3. CASE ReadBefore
  <2>1. UNCHANGED <<told, lease, target, screen>> /\ step \in Acquiring /\ step = "read"
    BY <1>3 DEF ReadBefore, Acquiring
  <2> QED BY <2>1, LeaseHolds DEF LeaseSound
<1>4. CASE switch
  <2>0. UNCHANGED <<told, target, screen>> /\ step \in Acquiring
    BY <1>4 DEF switch, Acquiring
  <2>1. CASE daemon.conn
    <3>1. lease' = Minted /\ step' = "arrive"
      BY <1>4, <2>1 DEF switch
    <3>2. \A p : Written(p)'
      BY <2>0, NothingYet
    <3>3. lease'.b = "Pending"
      BY <3>1 DEF Minted
    <3>4. screen'.text = <<>> /\ target' = NoTarget
      BY <2>0 DEF LeaseSound
    <3> QED BY <3>1, <3>2, <3>3, <3>4, Names DEF LeaseSound
  <2>2. CASE ~daemon.conn
    <3>1. lease'.b = "Lost"
      BY <1>0, <1>4, <2>2 DEF switch
    <3> QED BY <2>0, <3>1, LeaseHolds DEF LeaseSound
  <2> QED BY <2>1, <2>2
<1>5. CASE SwitchCancelled
  <2>1. UNCHANGED <<target, screen>> /\ step \in Acquiring /\ lease'.b = "Lost"
    BY <1>0, <1>5 DEF SwitchCancelled, Acquiring
  <2> QED BY <2>1, LeaseHolds DEF LeaseSound
<1>6. CASE focus_arrived
  <2>0. UNCHANGED <<told, target, screen>> /\ step \in Acquiring /\ step' \in Acquiring
    BY <1>6 DEF focus_arrived, Acquiring
  <2>1. CASE lease' = lease /\ lease.b # "Pending"
    BY <2>0, <2>1, LeaseHolds DEF LeaseSound
  <2>2. CASE lease' = [lease EXCEPT !.b = "Unfocused"]
    <3>1. lease'.b = "Unfocused"
      BY <1>0, <2>2 DEF Lease
    <3>2. \A p : Written(p)'
      BY <2>0, NothingYet
    <3>3. screen'.text = <<>> /\ target' = NoTarget
      BY <2>0 DEF LeaseSound
    <3> QED BY <3>1, <3>2, <3>3, Names DEF LeaseSound
  <2> QED BY <1>6, <2>1, <2>2 DEF focus_arrived
<1>7. CASE CheckSwitch
  <2>1. UNCHANGED <<told, target, screen>> /\ step \in Acquiring /\ step = "check"
          /\ (lease'.b = "Lost" \/ lease' = lease)
    BY <1>0, <1>7 DEF CheckSwitch, Acquiring
  <2> QED BY <2>1, LeaseHolds DEF LeaseSound
<1>8. CASE left_settled
  <2>1. UNCHANGED <<told, target, screen, lease>> /\ step \in Acquiring /\ step = "settle"
    BY <1>8 DEF left_settled, Acquiring
  <2> QED BY <2>1, LeaseHolds DEF LeaseSound
<1> QED BY <1>1, <1>2, <1>3, <1>4, <1>5, <1>6, <1>7, <1>8

\* A commit lands where all the text before it is.
LEMMA WriteLease ==
  ASSUME IbusTypes, LeaseSound, NEW n, Write(n), told' = told, step \in {"writing", "flushing"}
  PROVE  LeaseSound'
<1>0. /\ lease \in Lease /\ screen.text \in Seq(Text) /\ told \in Places
      /\ lease.b # "Pending" /\ lease'.b = lease.b /\ lease'.path = lease.path
      /\ lease'.wrote = (lease.wrote \/ (held_by /\ ~content))
      /\ step' \notin Acquiring
  <2>1. lease \in Lease /\ screen.text \in Seq(Text) /\ told \in Places /\ lease.b # "Pending"
    BY TargetParts DEF IbusTypes, LeaseSound
  <2>2. lease' = [lease EXCEPT !.wrote = @ \/ (held_by /\ ~content)]
    BY DEF Write
  <2>3. lease'.b = lease.b /\ lease'.path = lease.path /\ lease'.wrote = (lease.wrote \/ (held_by /\ ~content))
    BY <2>1, <2>2 DEF Lease
  <2>4. step' \notin Acquiring
    BY DEF Write, AfterWrite, AfterError, Acquiring
  <2> QED BY <2>1, <2>3, <2>4
<1>1. CASE ~(held_by /\ ~content /\ daemon.conn)
  <2>1. screen'.text = screen.text
    BY <1>1 DEF Write
  <2>2. \A p : Written(p)' <=> Written(p)
    BY <2>1, WrittenStays
  <2> QED BY <1>0, <2>2 DEF LeaseSound, held_by
<1>2. CASE held_by /\ ~content /\ daemon.conn
  <2>1. screen'.text = Append(screen.text, Landed(n)) /\ Landed(n).at = told
    <3>1. Landed(n).at = told
      BY DEF Landed
    <3> QED BY <1>2, <3>1, Zenon DEF Write
  <2>2. \A p : Written(p) /\ (told \in Fields => told = p) => Written(p)'
    <3> HIDE DEF Landed
    <3>1. \A i \in DOMAIN screen'.text : (i \in DOMAIN screen.text /\ screen'.text[i] = screen.text[i])
                                          \/ screen'.text[i] = Landed(n)
      <4>1. \A x : \A i \in DOMAIN Append(screen.text, x) :
              (i \in DOMAIN screen.text /\ Append(screen.text, x)[i] = screen.text[i])
                \/ Append(screen.text, x)[i] = x
        BY <1>0
      <4> QED BY <2>1, <4>1
    <3> QED BY <2>1, <3>1 DEF Written
  <2>3. lease.b \in {"Context", "Away"} => Written(lease.path)'
    <3>1. ASSUME lease.b \in {"Context", "Away"}
          PROVE  \A i \in DOMAIN screen'.text :
                   screen'.text[i].at \in Fields => screen'.text[i].at = lease.path
      BY <2>2, <3>1 DEF LeaseSound, Written
    <3> QED BY <1>0, <3>1 DEF Written
  <2>4. lease.b \in {"Unnamed", "Unfocused"} => Written(told)'
    BY <2>2 DEF LeaseSound
  <2>5. lease.b = "Left" => Written(None)'
    BY <2>2 DEF LeaseSound
  <2>6. \E p \in Places : Written(p)'
    <3>1. lease.b \in {"Context", "Away", "Unnamed", "Unfocused", "Left"} /\ lease.path \in Places
      BY <1>0, <1>2 DEF Lease, held_by
    <3> QED BY <1>0, <2>3, <2>4, <2>5, <3>1, Names
  <2> QED BY <1>0, <1>2, <2>3, <2>4, <2>5, <2>6 DEF LeaseSound
<1> QED BY <1>1, <1>2

\* A preedit that is shown puts no text anywhere.
LEMMA ShowLease ==
  ASSUME IbusTypes, LeaseSound, NEW e, show_preedit(e), told' = told,
         step \in {"writing", "flushing"}
  PROVE  LeaseSound'
<1>1. lease \in Lease /\ screen \in Screens /\ lease.b # "Pending"
  BY DEF IbusTypes, LeaseSound
<1>2. /\ lease'.b = lease.b /\ lease'.path = lease.path
      /\ lease'.wrote = (lease.wrote \/ (held_by /\ ~content)) /\ step' \notin Acquiring
  <2>1. lease' = [lease EXCEPT !.wrote = @ \/ (held_by /\ ~content)]
    BY DEF show_preedit
  <2>2. step' \notin Acquiring
    BY DEF show_preedit, AfterWrite, Acquiring
  <2> QED BY <1>1, <2>1, <2>2 DEF Lease
<1>3. screen'.text = screen.text
  <2>1. \A b : [screen EXCEPT !.preedit = b].text = screen.text
    BY <1>1 DEF Screens
  <2> QED BY <2>1 DEF show_preedit
<1>4. \A p : Written(p)' <=> Written(p)
  BY <1>3, WrittenStays
<1> QED BY <1>1, <1>2, <1>4 DEF LeaseSound, held_by

\* Writes and release keep the text where the lease is.
LEMMA TargetLease ==
  ASSUME IbusTypes, LeaseSound,
         commit \/ set_preedit \/ Stand \/ WriteNext \/ release \/ ReleaseSettles
         \/ ReleaseRestores
  PROVE  LeaseSound'
<1>0. lease \in Lease /\ Gone.b = "Lost"
  BY DEF IbusTypes, Gone, Minted
<1>1. CASE commit \/ release
  <2>1. UNCHANGED <<screen, told>> /\ (lease'.b = "Lost" \/ lease' = lease)
    BY <1>0, <1>1 DEF commit, release, Lose
  <2>2. step # "arrive" /\ step' \notin Acquiring
    BY <1>1 DEF commit, release, Acquiring
  <2> QED BY <2>1, <2>2, LeaseHolds DEF LeaseSound
<1>2. CASE set_preedit \/ Stand \/ ReleaseSettles
  <2>1. UNCHANGED <<screen, told, lease>>
    BY <1>2 DEF set_preedit, Stand, ReleaseSettles
  <2>2. step # "arrive" /\ step' \notin Acquiring
    BY <1>2 DEF set_preedit, Stand, ReleaseSettles, Acquiring
  <2> QED BY <2>1, <2>2, LeaseHolds DEF LeaseSound
<1>3. CASE WriteNext
  <2>1. told' = told /\ step \in {"writing", "flushing"}
    BY <1>3 DEF WriteNext
  <2> QED BY <1>3, <2>1, WriteLease, ShowLease DEF WriteNext
<1>4. CASE ReleaseRestores
  <2>1. screen'.text = <<>> /\ target' = NoTarget /\ lease' = Gone
    BY <1>4 DEF ReleaseRestores
  <2>2. \A p : Written(p)'
    <3>1. DOMAIN <<>> = {}
      OBVIOUS
    <3> QED BY <2>1, <3>1 DEF Written
  <2> QED BY <1>0, <2>1, <2>2, Names DEF LeaseSound, held_by
<1> QED BY <1>1, <1>2, <1>3, <1>4

\* Every step keeps the lease with its text.
LEMMA LeaseNext ==
  ASSUME IbusTypes, CallsSound, LeaseSound, IbusNext
  PROVE  LeaseSound'
BY DispatchLease, LeaseAside, AcquireLease, TargetLease DEF IbusNext, Controller

-----------------------------------------------------------------------------
(***************************************************************************)
(* The order of the texts.                                                 *)
(***************************************************************************)

\* No text, nothing queued and nothing held is in order.
LEMMA RisingEmpty == \A top \in Nat : Rising(<<>>, <<>>, <<>>, top)
BY DEF Rising

\* The queue, or what is held, is dropped; more texts are given.
LEMMA RisingLess ==
  ASSUME NEW text \in Seq(Text), NEW out \in Seq(Entry), NEW held \in Seq(Nat), NEW top \in Nat,
         Rising(text, out, held, top)
  PROVE  /\ Rising(text, <<>>, held, top) /\ Rising(text, out, <<>>, top)
         /\ Rising(text, <<>>, <<>>, top) /\ Rising(text, out, held, top + 1)
<1>1. DOMAIN <<>> = {}
  OBVIOUS
<1>2. Rising(text, <<>>, held, top) /\ Rising(text, out, <<>>, top) /\ Rising(text, <<>>, <<>>, top)
  BY <1>1 DEF Rising
<1>3. \A x : x \in 1..top => x \in 1..(top + 1)
  OBVIOUS
<1>4. Rising(text, out, held, top + 1)
  BY <1>3 DEF Rising
<1> QED BY <1>2, <1>4

\* One more text is held.
LEMMA RisingHold ==
  ASSUME NEW text \in Seq(Text), NEW held \in Seq(Nat), NEW top \in Nat,
         Rising(text, <<>>, held, top)
  PROVE  Rising(text, <<>>, Append(held, top + 1), top + 1)
<1> DEFINE h == Append(held, top + 1)
<1>0. DOMAIN text = 1..Len(text) /\ DOMAIN held = 1..Len(held) /\ Len(held) \in Nat
        /\ DOMAIN <<>> = {}
  OBVIOUS
<1>1. DOMAIN h = 1..(Len(held) + 1) /\ h[Len(held) + 1] = top + 1
        /\ \A i \in 1..Len(held) : h[i] = held[i]
  OBVIOUS
<1> HIDE DEF h
<1>2. \A i \in DOMAIN h : (i \in DOMAIN held /\ h[i] = held[i]) \/ (i = Len(held) + 1 /\ h[i] = top + 1)
  BY <1>0, <1>1
<1>3. \A i \in DOMAIN h : h[i] \in 1..(top + 1)
  BY <1>2 DEF Rising
<1>4. \A i, j \in DOMAIN h : i < j => h[i] < h[j]
  <2>1. TAKE i, j \in DOMAIN h
  <2>2. HAVE i < j
  <2>3. i \in DOMAIN held /\ h[i] = held[i]
    BY <1>0, <1>1, <1>2, <2>2
  <2> QED BY <1>2, <2>2, <2>3 DEF Rising
<1>5. \A i \in DOMAIN text, j \in DOMAIN h : text[i].n < h[j]
  BY <1>2 DEF Rising
<1>6. \A i \in DOMAIN text : text[i].n \in 1..(top + 1)
  BY DEF Rising
<1> QED BY <1>0, <1>3, <1>4, <1>5, <1>6 DEF Rising, h

\* What is held becomes the queue, with a marker or the next text behind.
LEMMA RisingQueue ==
  ASSUME NEW text \in Seq(Text), NEW held \in Seq(Nat), NEW top \in Nat,
         Rising(text, <<>>, held, top)
  PROVE  Rising(text, held, <<>>, top)
BY DEF Rising

\* A queue takes a preedit, or the text after all others.
LEMMA RisingAppend ==
  ASSUME NEW text \in Seq(Text), NEW out \in Seq(Entry), NEW top \in Nat, NEW e \in Entry,
         Rising(text, out, <<>>, top), IsText(e) => e = top + 1
  PROVE  Rising(text, Append(out, e), <<>>, IF IsText(e) THEN top + 1 ELSE top)
<1> DEFINE q == Append(out, e)
           t == IF IsText(e) THEN top + 1 ELSE top
<1>0. DOMAIN text = 1..Len(text) /\ DOMAIN out = 1..Len(out) /\ Len(out) \in Nat
        /\ DOMAIN <<>> = {}
  OBVIOUS
<1>1. DOMAIN q = 1..(Len(out) + 1) /\ q[Len(out) + 1] = e /\ \A i \in 1..Len(out) : q[i] = out[i]
  OBVIOUS
<1>t. t \in Nat /\ top <= t /\ \A x \in 1..top : x \in 1..t
  OBVIOUS
<1>u. IsText(e) => t = top + 1 /\ e \in 1..t
  OBVIOUS
<1> HIDE DEF q, t
<1>2. \A i \in DOMAIN q : (i \in DOMAIN out /\ q[i] = out[i]) \/ (i = Len(out) + 1 /\ q[i] = e)
  BY <1>0, <1>1
<1>3. \A i \in DOMAIN q : IsText(q[i]) => q[i] \in 1..t
  BY <1>2, <1>t, <1>u DEF Rising
<1>4. \A i, j \in DOMAIN q : i < j /\ IsText(q[i]) /\ IsText(q[j]) => q[i] < q[j]
  <2>1. TAKE i, j \in DOMAIN q
  <2>2. HAVE i < j /\ IsText(q[i]) /\ IsText(q[j])
  <2>3. i \in DOMAIN out /\ q[i] = out[i]
    BY <1>0, <1>1, <1>2, <2>2
  <2>4. q[i] \in 1..top
    BY <2>2, <2>3 DEF Rising
  <2>5. CASE j \in DOMAIN out /\ q[j] = out[j]
    BY <2>2, <2>3, <2>5 DEF Rising
  <2>6. CASE q[j] = e
    BY <1>u, <2>2, <2>4, <2>6
  <2> QED BY <1>2, <2>5, <2>6
<1>5. \A i \in DOMAIN text, j \in DOMAIN q : IsText(q[j]) => text[i].n < q[j]
  <2>1. TAKE i \in DOMAIN text, j \in DOMAIN q
  <2>2. HAVE IsText(q[j])
  <2>3. text[i].n \in 1..top
    BY DEF Rising
  <2>4. CASE j \in DOMAIN out /\ q[j] = out[j]
    BY <2>2, <2>4 DEF Rising
  <2>5. CASE q[j] = e
    BY <1>u, <2>2, <2>3, <2>5
  <2> QED BY <1>2, <2>4, <2>5
<1>6. \A i \in DOMAIN text : text[i].n \in 1..t
  BY <1>t DEF Rising
<1>7. \A i, j \in DOMAIN text : i < j => text[i].n < text[j].n
  BY DEF Rising
<1>8. Rising(text, q, <<>>, t)
  BY <1>0, <1>3, <1>4, <1>5, <1>6, <1>7 DEF Rising
<1> QED BY <1>8 DEF q, t

\* The head of the queue is done with, or lands.
LEMMA RisingStep ==
  ASSUME NEW text \in Seq(Text), NEW out \in Seq(Entry), NEW top \in Nat, out # <<>>,
         Rising(text, out, <<>>, top)
  PROVE  /\ Rising(text, Tail(out), <<>>, top)
         /\ \A x \in Text : IsText(Head(out)) /\ x.n = Head(out) =>
              Rising(Append(text, x), Tail(out), <<>>, top)
<1> DEFINE q == Tail(out)
<1>0. /\ DOMAIN text = 1..Len(text) /\ DOMAIN out = 1..Len(out) /\ Len(out) \in Nat /\ Len(out) >= 1
      /\ DOMAIN <<>> = {} /\ Head(out) = out[1] /\ Len(text) \in Nat
  OBVIOUS
<1>1. DOMAIN q = 1..(Len(out) - 1) /\ \A i \in 1..(Len(out) - 1) : q[i] = out[i + 1]
  OBVIOUS
<1>2. \A i \in DOMAIN q : i + 1 \in DOMAIN out /\ q[i] = out[i + 1] /\ i \in Nat /\ i >= 1
  BY <1>0, <1>1
<1> HIDE DEF q
<1>3. Rising(text, q, <<>>, top)
  <2>1. \A i, j \in DOMAIN q : i < j /\ IsText(q[i]) /\ IsText(q[j]) => q[i] < q[j]
    <3>1. TAKE i, j \in DOMAIN q
    <3>2. i < j => i + 1 < j + 1
      BY <1>2
    <3> QED BY <1>2, <3>2 DEF Rising
  <2> QED BY <1>0, <1>2, <2>1 DEF Rising
<1>4. ASSUME NEW x \in Text, IsText(Head(out)), x.n = Head(out)
      PROVE  Rising(Append(text, x), q, <<>>, top)
  <2> DEFINE s == Append(text, x)
  <2>1. DOMAIN s = 1..(Len(text) + 1) /\ s[Len(text) + 1] = x /\ \A i \in 1..Len(text) : s[i] = text[i]
    OBVIOUS
  <2> HIDE DEF s
  <2>2. \A i \in DOMAIN s : (i \in DOMAIN text /\ s[i] = text[i]) \/ (i = Len(text) + 1 /\ s[i] = x)
    BY <1>0, <2>1
  <2>3. x.n \in 1..top /\ \A i \in DOMAIN text : text[i].n < x.n
    BY <1>0, <1>4 DEF Rising
  <2>4. \A j \in DOMAIN q : IsText(q[j]) => x.n < q[j]
    <3>1. TAKE j \in DOMAIN q
    <3>2. j + 1 \in DOMAIN out /\ 1 \in DOMAIN out /\ 1 < j + 1 /\ q[j] = out[j + 1]
      BY <1>0, <1>2
    <3> QED BY <1>0, <1>4, <3>2 DEF Rising
  <2>5. \A i \in DOMAIN s : s[i].n \in 1..top
    BY <2>2, <2>3 DEF Rising
  <2>6. \A i, j \in DOMAIN s : i < j => s[i].n < s[j].n
    <3>1. TAKE i, j \in DOMAIN s
    <3>2. HAVE i < j
    <3>3. i \in DOMAIN text /\ s[i] = text[i]
      BY <1>0, <2>1, <2>2, <3>2
    <3>4. CASE j \in DOMAIN text /\ s[j] = text[j]
      BY <3>2, <3>3, <3>4 DEF Rising
    <3>5. CASE s[j] = x
      BY <2>3, <3>3, <3>5
    <3> QED BY <2>2, <3>4, <3>5
  <2>7. \A i \in DOMAIN s, j \in DOMAIN q : IsText(q[j]) => s[i].n < q[j]
    BY <1>3, <2>2, <2>4 DEF Rising
  <2>8. Rising(s, q, <<>>, top)
    BY <1>0, <1>3, <2>5, <2>6, <2>7 DEF Rising
  <2> QED BY <2>8 DEF s
<1> QED BY <1>3, <1>4 DEF q

\* The sequences of an utterance.
LEMMA OrderParts ==
  ASSUME IbusTypes, OrderSound
  PROVE  /\ screen.text \in Seq(Text) /\ target.out \in Seq(Entry) /\ target.held \in Seq(Nat)
         /\ Given \in Nat /\ target.texts \in Nat /\ target \in Targets
BY TargetParts DEF IbusTypes, OrderSound, Given

\* An utterance starts, and ends, with nothing to order.
LEMMA OrderFresh ==
  ASSUME target' = NoTarget, screen'.text = <<>>, step' \notin {"writing", "flushing"}
  PROVE  OrderSound'
<1>1. /\ target'.texts = 0 /\ target'.held = <<>> /\ target'.out = <<>> /\ target'.op = None
      /\ None # "commit"
  BY DEF NoTarget, None
<1>2. Given' = 0
  BY <1>1 DEF Given
<1> QED BY <1>1, <1>2, RisingEmpty DEF OrderSound

\* Without a write and without a call the order is as it was.
LEMMA OrderStays ==
  ASSUME OrderSound, UNCHANGED <<target, step>>, screen'.text = screen.text
  PROVE  OrderSound'
BY DEF OrderSound, Given

\* What flush writes, and the call's own write behind it.
LEMMA FlushedRises ==
  ASSUME IbusTypes, OrderSound, target.out = <<>>
  PROVE  /\ Rising(screen.text, Flushed(target), <<>>, Given) /\ Flushed(target) \in Seq(Entry)
         /\ step = "standing" => Rising(screen.text, Append(Flushed(target), This(target)), <<>>, target.texts)
<1>0. /\ screen.text \in Seq(Text) /\ target.held \in Seq(Nat) /\ Given \in Nat /\ target.texts \in Nat
      /\ target.held \in Seq(Entry) /\ HeldPreedit \in Entry /\ ~IsText(HeldPreedit)
      /\ This(target) \in Entry /\ Flushed(target) \in Seq(Entry)
  <2>1. target.held \in Seq(Nat)
    BY OrderParts
  <2>2. target.held \in Seq(Entry)
    BY <2>1 DEF Entry
  <2> QED BY <2>2, OrderParts, FlushedTyped DEF Entry, IsText
<1>1. Rising(screen.text, target.held, <<>>, Given)
  BY <1>0, RisingQueue DEF OrderSound
<1>2. Rising(screen.text, Flushed(target), <<>>, Given)
  <2>1. CASE target.held_preedit
    <3>1. Flushed(target) = Append(target.held, HeldPreedit)
      BY <1>0, <2>1 DEF Flushed
    <3>2. Rising(screen.text, Append(target.held, HeldPreedit), <<>>,
                 IF IsText(HeldPreedit) THEN Given + 1 ELSE Given)
      BY <1>0, <1>1, RisingAppend
    <3> QED BY <1>0, <3>1, <3>2
  <2>2. CASE ~target.held_preedit
    <3>1. Flushed(target) = target.held
      BY <1>0, <2>2 DEF Flushed
    <3> QED BY <1>1, <3>1
  <2> QED BY <2>1, <2>2
<1>3. ASSUME step = "standing"
      PROVE  Rising(screen.text, Append(Flushed(target), This(target)), <<>>, target.texts)
  <2>1. IsText(This(target)) => target.op = "commit" /\ This(target) = Given + 1
    BY <1>0, <1>3 DEF This, Given, IsText
  <2>2. Rising(screen.text, Append(Flushed(target), This(target)), <<>>,
               IF IsText(This(target)) THEN Given + 1 ELSE Given)
    BY <1>0, <1>2, <2>1, RisingAppend
  <2>3. CASE IsText(This(target))
    <3>1. Given + 1 = target.texts
      BY <1>0, <1>3, <2>1, <2>3 DEF Given
    <3> QED BY <2>2, <2>3, <3>1
  <2>4. CASE ~IsText(This(target))
    <3>1. target.op # "commit" \/ target.texts = 0
      BY <1>0, <2>4 DEF This, IsText, Preedit, HeldPreedit
    <3>2. Given = target.texts
      BY <1>0, <1>3, <3>1 DEF Given, OrderSound
    <3> QED BY <2>2, <2>4, <3>2
  <2> QED BY <2>3, <2>4
<1> QED BY <1>0, <1>2, <1>3

\* Where the lease stands, what a call brings is queued or held last.
LEMMA StandOrder ==
  ASSUME IbusTypes, OrderSound, Stand
  PROVE  OrderSound'
<1>0. /\ screen.text \in Seq(Text) /\ target.held \in Seq(Nat) /\ Given \in Nat
      /\ target.texts \in Nat /\ target \in Targets /\ target.out = <<>> /\ step = "standing"
      /\ screen' = screen /\ (target.op = "commit" => Given + 1 = target.texts)
  <2>1. step = "standing" /\ screen' = screen
    BY DEF Stand
  <2>2. target.out = <<>> /\ (target.op = "commit" => Given + 1 = target.texts)
    BY <2>1, OrderParts DEF OrderSound, Given
  <2> QED BY <2>1, <2>2, OrderParts
<1>o. target.op # "commit" => Given = target.texts
  BY DEF Given
<1>1. Rising(screen.text, <<>>, target.held, Given)
  BY <1>0 DEF OrderSound
<1>2. step' # "standing" => Given' = target'.texts
  BY DEF Given
<1>3. CASE standing(lease) = "Held"
  <2>1. target' = [target EXCEPT !.out = Append(Flushed(target), This(target)), !.held = <<>>]
          /\ step' = "writing"
    BY <1>3 DEF Stand
  <2>2. target'.out = Append(Flushed(target), This(target)) /\ target'.held = <<>>
          /\ target'.texts = target.texts
    BY <1>0, <2>1 DEF Targets
  <2>3. Append(Flushed(target), This(target)) # <<>>
    BY FlushedTyped, AppendProperties
  <2>4. Rising(screen.text, target'.out, <<>>, target.texts)
    BY <1>0, <2>2, FlushedRises
  <2> QED BY <1>0, <1>2, <2>1, <2>2, <2>3, <2>4 DEF OrderSound
<1>4. CASE standing(lease) # "Held"
  <2>0. step' \in {"ended", "open"}
    BY <1>4 DEF Stand
  <2>t. Given <= target.texts /\ \A h : Rising(screen.text, <<>>, h, Given) /\ h \in Seq(Nat)
                                   => Rising(screen.text, <<>>, h, target.texts)
    <3>1. <<>> \in Seq(Entry)
      OBVIOUS
    <3>2. \A h : Rising(screen.text, <<>>, h, Given) /\ h \in Seq(Nat)
                   => Rising(screen.text, <<>>, h, Given + 1)
      BY <1>0, <3>1, RisingLess
    <3>3. Given = target.texts \/ Given + 1 = target.texts
      BY <1>0, <1>o
    <3> QED BY <1>0, <3>2, <3>3
  <2>1. target'.out = <<>> /\ target'.texts = target.texts
    <3>1. target' \in {[target EXCEPT !.held = <<>>, !.held_preedit = FALSE],
                       [target EXCEPT !.held = Append(@, target.texts), !.held_preedit = FALSE],
                       [target EXCEPT !.held_preedit = TRUE]}
      BY <1>4 DEF Stand
    <3> QED BY <1>0, <3>1 DEF Targets
  <2>2. Rising(screen.text, <<>>, target'.held, target.texts)
    <3>1. CASE standing(lease) = "Lost"
      <4>1. target' = [target EXCEPT !.held = <<>>, !.held_preedit = FALSE]
        BY <3>1 DEF Stand
      <4>2. target'.held = <<>> /\ <<>> \in Seq(Nat) /\ <<>> \in Seq(Entry)
        BY <1>0, <4>1 DEF Targets
      <4>3. Rising(screen.text, <<>>, <<>>, Given)
        BY <1>0, <1>1, <4>2, RisingLess
      <4> QED BY <2>t, <4>2, <4>3
    <3>2. CASE standing(lease) = "Unsure" /\ target.op = "commit"
      <4>1. target' = [target EXCEPT !.held = Append(@, target.texts), !.held_preedit = FALSE]
        BY <3>2 DEF Stand
      <4>2. target'.held = Append(target.held, Given + 1) /\ Given + 1 = target.texts
        BY <1>0, <3>2, <4>1 DEF Targets
      <4> QED BY <1>0, <1>1, <4>2, RisingHold
    <3>3. CASE standing(lease) # "Lost" /\ ~(standing(lease) = "Unsure" /\ target.op = "commit")
      <4>1. target' = [target EXCEPT !.held_preedit = TRUE]
        BY <1>4, <3>3 DEF Stand
      <4>2. target'.held = target.held
        BY <1>0, <4>1 DEF Targets
      <4> QED BY <1>0, <1>1, <2>t, <4>2
    <3> QED BY <3>1, <3>2, <3>3
  <2> QED BY <1>0, <1>2, <2>0, <2>1, <2>2 DEF OrderSound
<1> QED BY <1>3, <1>4

\* A write under way: what is queued, and that nothing is held.
LEMMA WriteParts ==
  ASSUME IbusTypes, OrderSound, WriteNext
  PROVE  /\ screen.text \in Seq(Text) /\ target.out \in Seq(Entry) /\ target.held = <<>>
         /\ Given = target.texts /\ target.texts \in Nat /\ target \in Targets /\ target.out # <<>>
         /\ step \in {"writing", "flushing"} /\ screen \in Screens
         /\ Head(target.out) \in Entry /\ Len(target.out) \in Nat /\ Len(target.out) >= 1
         /\ Tail(target.out) \in Seq(Entry) /\ (Len(target.out) > 1 <=> Tail(target.out) # <<>>)
<1>1. step \in {"writing", "flushing"}
  BY DEF WriteNext
<1>2. target.held = <<>> /\ target.out # <<>> /\ Given = target.texts /\ screen \in Screens
  BY <1>1 DEF OrderSound, Given, IbusTypes
<1>3. screen.text \in Seq(Text) /\ target.out \in Seq(Entry) /\ target.texts \in Nat /\ target \in Targets
  BY OrderParts
<1>4. /\ Tail(target.out) \in Seq(Entry) /\ Len(Tail(target.out)) = Len(target.out) - 1
      /\ Head(target.out) \in Entry /\ Len(target.out) \in Nat /\ Len(target.out) >= 1
  BY <1>2, <1>3
<1>5. Len(target.out) > 1 <=> Tail(target.out) # <<>>
  <2>1. Tail(target.out) # <<>> => Len(Tail(target.out)) \in Nat \ {0}
    BY <1>4, EmptySeq
  <2>2. Tail(target.out) = <<>> => Len(Tail(target.out)) = 0
    BY EmptySeq, Zenon
  <2>3. Tail(target.out) # <<>> => Len(target.out) > 1
    BY <1>4, <2>1
  <2>4. Tail(target.out) = <<>> => ~(Len(target.out) > 1)
    <3> DEFINE l == Len(Tail(target.out))
               k == Len(target.out)
    <3>1. l = k - 1 /\ k \in Nat
      BY <1>4
    <3>2. Tail(target.out) = <<>> => l = 0
      BY <2>2
    <3> HIDE DEF l, k
    <3>3. Tail(target.out) = <<>> => ~(k > 1)
      BY <3>1, <3>2
    <3> QED BY <3>3 DEF k
  <2> QED BY <2>3, <2>4, Zenon
<1> QED BY <1>1, <1>2, <1>3, <1>4, <1>5

\* A write takes the first of the queue to the end of the text.
LEMMA WriteNextOrder ==
  ASSUME IbusTypes, OrderSound, WriteNext
  PROVE  OrderSound'
<1>0. /\ screen.text \in Seq(Text) /\ target.out \in Seq(Entry) /\ target.held = <<>>
      /\ Given = target.texts /\ target.texts \in Nat /\ target \in Targets /\ target.out # <<>>
      /\ step \in {"writing", "flushing"} /\ screen \in Screens
      /\ Head(target.out) \in Entry /\ Len(target.out) \in Nat /\ Len(target.out) >= 1
      /\ Tail(target.out) \in Seq(Entry) /\ (Len(target.out) > 1 <=> Tail(target.out) # <<>>)
  BY WriteParts
<1> DEFINE n == Head(target.out)
<1>1. /\ Rising(screen.text, target.out, <<>>, target.texts)
      /\ Rising(screen.text, Tail(target.out), <<>>, target.texts)
      /\ \A x \in Text : IsText(n) /\ x.n = n =>
           Rising(Append(screen.text, x), Tail(target.out), <<>>, target.texts)
  <2>1. Rising(screen.text, target.out, <<>>, target.texts)
    BY <1>0 DEF OrderSound
  <2> QED BY <1>0, <2>1, RisingStep
<1>2. /\ target'.texts = target.texts /\ target'.held = <<>>
      /\ step' # "standing" /\ Given' = target'.texts
      /\ target'.out \in {Tail(target.out), <<>>}
      /\ step' \in {"writing", "flushing"} <=> target'.out # <<>>
  <2>1. CASE Write(n)
    <3> DEFINE ok == held_by /\ ~content /\ daemon.conn
    <3>1. target' = [target EXCEPT !.preedit_active = FALSE, !.out = IF ok THEN Tail(@) ELSE <<>>]
            /\ step' = IF ok THEN AfterWrite ELSE AfterError
      BY <2>1 DEF Write
    <3>2. target'.texts = target.texts /\ target'.held = <<>>
            /\ target'.out = IF ok THEN Tail(target.out) ELSE <<>>
      BY <1>0, <3>1 DEF Targets
    <3>3. AfterError \notin {"writing", "flushing", "standing"} /\ AfterWrite # "standing"
            /\ (AfterWrite \in {"writing", "flushing"} <=> Len(target.out) > 1)
      BY <1>0 DEF AfterError, AfterWrite
    <3> HIDE DEF ok
    <3>5. step' # "standing" /\ Given' = target'.texts
      BY <3>1, <3>3 DEF Given
    <3> QED BY <1>0, <3>1, <3>2, <3>3, <3>5
  <2>2. CASE show_preedit(n)
    <3>1. /\ target'.texts = target.texts /\ target'.held = <<>>
          /\ target'.out = Tail(target.out)
      BY <1>0, <2>2 DEF show_preedit, Targets
    <3>2. step' = AfterWrite
      BY <2>2 DEF show_preedit
    <3>3. AfterWrite # "standing" /\ (AfterWrite \in {"writing", "flushing"} <=> Len(target.out) > 1)
      BY <1>0 DEF AfterWrite
    <3>5. step' # "standing" /\ Given' = target'.texts
      BY <3>2, <3>3 DEF Given
    <3> QED BY <1>0, <3>1, <3>2, <3>3, <3>5
  <2> QED BY <2>1, <2>2 DEF WriteNext
<1>3. Rising(screen'.text, target'.out, <<>>, target.texts)
  <2>1. CASE screen'.text = screen.text
    <3>1. <<>> \in Seq(Nat)
      OBVIOUS
    <3>2. Rising(screen.text, <<>>, <<>>, target.texts)
      BY <1>0, <1>1, <3>1, RisingLess
    <3> QED BY <1>1, <1>2, <2>1, <3>2
  <2>2. CASE screen'.text = Append(screen.text, Landed(n)) /\ target'.out = Tail(target.out)
             /\ n \notin {Preedit, HeldPreedit}
    <3>1. Landed(n) \in Text /\ Landed(n).n = n /\ IsText(n)
      <4>1. n \in Nat
        BY <1>0, <2>2 DEF Entry
      <4>2. (told \in daemon.secret /\ calls = <<>>) \in BOOLEAN /\ told \in Places
        BY DEF IbusTypes
      <4> QED BY <2>2, <4>1, <4>2 DEF Landed, Text, IsText
    <3> QED BY <1>1, <2>2, <3>1
  <2>3. CASE n \in {Preedit, HeldPreedit}
    <3>1. show_preedit(n)
      BY <2>3 DEF WriteNext
    <3>2. \A b : [screen EXCEPT !.preedit = b].text = screen.text
      BY <1>0 DEF Screens
    <3> QED BY <2>1, <3>1, <3>2 DEF show_preedit
  <2>4. CASE n \notin {Preedit, HeldPreedit}
    <3>1. Write(n)
      BY <2>4 DEF WriteNext
    <3>2. CASE held_by /\ ~content /\ daemon.conn
      <4>1. screen'.text = Append(screen.text, Landed(n))
        BY <3>1, <3>2, Zenon DEF Write
      <4>2. target' = [target EXCEPT !.preedit_active = FALSE, !.out = Tail(@)]
        BY <3>1, <3>2 DEF Write
      <4>3. target'.out = Tail(target.out)
        BY <1>0, <4>2 DEF Targets
      <4> QED BY <2>2, <2>4, <4>1, <4>3
    <3>3. CASE ~(held_by /\ ~content /\ daemon.conn)
      <4>1. screen'.text = screen.text
        BY <3>1, <3>3 DEF Write
      <4> QED BY <2>1, <4>1
    <3> QED BY <3>2, <3>3
  <2> QED BY <2>3, <2>4
<1> QED BY <1>2, <1>3 DEF OrderSound

\* Every step keeps the order.
LEMMA OrderNext ==
  ASSUME IbusTypes, LeaseSound, OrderSound, IbusNext
  PROVE  OrderSound'
<1>0. /\ screen.text \in Seq(Text) /\ target.out \in Seq(Entry) /\ target.held \in Seq(Nat)
      /\ Given \in Nat /\ target.texts \in Nat /\ target \in Targets /\ screen \in Screens
      /\ <<>> \in Seq(Nat)
  BY OrderParts DEF IbusTypes
<1>1. CASE Dispatch \/ Timer \/ ActivationAges \/ Desktop
  <2>1. UNCHANGED <<target, step>>
    BY <1>1 DEF Dispatch, Timer, WindowEnds, GraceEnds, ActivationAges, Desktop, FocusMoves,
                EngineTaken, DaemonRestarts, Activate, FieldHides
  <2>2. screen' = screen \/ screen' = [screen EXCEPT !.preedit = FALSE]
    BY <1>1 DEF Dispatch, Timer, WindowEnds, GraceEnds, ActivationAges, Desktop, FocusMoves,
                EngineTaken, DaemonRestarts, Activate, FieldHides
  <2>3. screen'.text = screen.text
    BY <1>0, <2>2 DEF Screens
  <2> QED BY <2>1, <2>3, OrderStays
<1>2. CASE Acquire \/ reconnect \/ ReadBefore \/ switch \/ SwitchCancelled \/ focus_arrived
           \/ CheckSwitch \/ left_settled
  <2>1. step \in Acquiring /\ screen' = screen /\ target' \in {target, NoTarget}
    BY <1>2 DEF Acquire, reconnect, ReadBefore, switch, SwitchCancelled, focus_arrived,
                CheckSwitch, left_settled, Acquiring
  <2>2. step' \notin {"writing", "flushing"}
    BY <1>2 DEF Acquire, reconnect, ReadBefore, switch, SwitchCancelled, focus_arrived,
                CheckSwitch, left_settled, Unavailable
  <2>3. target' = NoTarget /\ screen'.text = <<>>
    BY <2>1 DEF LeaseSound
  <2> QED BY <2>2, <2>3, OrderFresh
<1>3. CASE commit
  <2>0. screen' = screen /\ step = "open"
    BY <1>3 DEF commit
  <2>1. target.out = <<>> /\ Given = target.texts
    BY <2>0 DEF OrderSound, Given
  <2>2. CASE step' \in {"ended", "open"} /\ (target' = target \/ Lose)
    <3>1. target'.out = <<>> /\ target'.texts = target.texts /\ target'.held \in {target.held, <<>>}
      BY <1>0, <2>1, <2>2 DEF Lose, Targets
    <3>2. Rising(screen.text, <<>>, target.held, target.texts)
      BY <2>1 DEF OrderSound
    <3>3. <<>> \in Seq(Entry)
      OBVIOUS
    <3>4. Rising(screen.text, <<>>, <<>>, target.texts)
      BY <1>0, <3>2, <3>3, RisingLess
    <3>5. Given' = target'.texts
      BY <2>2 DEF Given
    <3> QED BY <2>0, <2>2, <3>1, <3>2, <3>4, <3>5 DEF OrderSound
  <2>3. CASE step' = "standing" /\ target' = [target EXCEPT !.texts = @ + 1, !.op = "commit"]
    <3>1. /\ target'.out = <<>> /\ target'.texts = target.texts + 1 /\ target'.held = target.held
          /\ target'.op = "commit"
      BY <1>0, <2>1, <2>3 DEF Targets
    <3>2. Given' = Given /\ target'.texts > 0
      BY <1>0, <2>1, <2>3, <3>1 DEF Given
    <3> QED BY <2>0, <2>1, <2>3, <3>1, <3>2 DEF OrderSound
  <2> QED BY <1>3, <2>2, <2>3 DEF commit
<1>4. CASE set_preedit
  <2>1. screen' = screen /\ step = "open" /\ step' = "standing"
          /\ target' = [target EXCEPT !.op = "preedit"]
    BY <1>4 DEF set_preedit
  <2>2. /\ target'.out = target.out /\ target'.texts = target.texts /\ target'.held = target.held
        /\ target'.op = "preedit"
    BY <1>0, <2>1 DEF Targets
  <2>3. Given' = Given
    BY <2>1, <2>2 DEF Given
  <2> QED BY <2>1, <2>2, <2>3 DEF OrderSound
<1>5. CASE release
  <2>1. screen' = screen /\ step' = "settling" /\ step \in {"open", "ended", "taken"}
          /\ (target' = target \/ Lose)
    BY <1>5 DEF release
  <2>2. target.out = <<>> /\ Given = target.texts
    BY <2>1 DEF OrderSound, Given
  <2>3. target'.out = <<>> /\ target'.texts = target.texts /\ target'.held \in {target.held, <<>>}
    BY <1>0, <2>1, <2>2 DEF Lose, Targets
  <2>4. Rising(screen.text, <<>>, target.held, target.texts)
    BY <2>2 DEF OrderSound
  <2>5. <<>> \in Seq(Entry)
    OBVIOUS
  <2>6. Rising(screen.text, <<>>, <<>>, target.texts)
    BY <1>0, <2>4, <2>5, RisingLess
  <2>7. Given' = target'.texts
    BY <2>1 DEF Given
  <2> QED BY <2>1, <2>3, <2>4, <2>6, <2>7 DEF OrderSound
<1>6. CASE ReleaseSettles
  <2>1. screen' = screen /\ step = "settling" /\ step' \in {"flushing", "restoring"}
    BY <1>6 DEF ReleaseSettles
  <2>2. target.out = <<>> /\ Given = target.texts /\ Given' = target'.texts
    BY <2>1 DEF OrderSound, Given
  <2>3. CASE standing(lease) = "Held"
    <3>1. target' = [target EXCEPT !.out = Flushed(target), !.held = <<>>]
            /\ step' = IF Flushed(target) = <<>> THEN "restoring" ELSE "flushing"
      BY <1>6, <2>3 DEF ReleaseSettles
    <3>2. target'.out = Flushed(target) /\ target'.texts = target.texts /\ target'.held = <<>>
      BY <1>0, <3>1 DEF Targets
    <3>3. Rising(screen.text, Flushed(target), <<>>, Given)
      BY <2>2, FlushedRises
    <3> QED BY <2>1, <2>2, <3>1, <3>2, <3>3 DEF OrderSound
  <2>4. CASE standing(lease) # "Held"
    <3>1. target' = target /\ step' = "restoring"
      BY <1>6, <2>4 DEF ReleaseSettles
    <3> QED BY <2>1, <2>2, <3>1 DEF OrderSound
  <2> QED BY <2>3, <2>4
<1>7. CASE ReleaseRestores
  <2>1. target' = NoTarget /\ screen'.text = <<>> /\ step' \notin {"writing", "flushing"}
    BY <1>7 DEF ReleaseRestores, Unavailable
  <2> QED BY <2>1, OrderFresh
<1> QED BY <1>1, <1>2, <1>3, <1>4, <1>5, <1>6, <1>7, StandOrder, WriteNextOrder
        DEF IbusNext, Controller

\* Two queues of calls that tell of no secure field, joined.
LEMMA PlainJoined ==
  ASSUME NEW s \in Seq(Call), NEW t \in Seq(Call), Plain(s), Plain(t)
  PROVE  Plain(s \o t)
<1>1. /\ DOMAIN s = 1..Len(s) /\ DOMAIN t = 1..Len(t) /\ Len(s) \in Nat /\ Len(t) \in Nat
      /\ DOMAIN (s \o t) = 1..(Len(s) + Len(t))
      /\ \A i \in 1..(Len(s) + Len(t)) : (s \o t)[i] = IF i <= Len(s) THEN s[i] ELSE t[i - Len(s)]
  OBVIOUS
<1>2. ASSUME NEW i \in 1..(Len(s) + Len(t)) PROVE ~(s \o t)[i].secure
  <2>1. CASE i <= Len(s)
    <3>1. i \in 1..Len(s) /\ (s \o t)[i] = s[i]
      BY <1>1, <2>1
    <3> QED BY <1>1, <3>1 DEF Plain
  <2>2. CASE ~(i <= Len(s))
    <3>1. i - Len(s) \in 1..Len(t) /\ (s \o t)[i] = t[i - Len(s)]
      BY <1>1, <2>2
    <3> QED BY <1>1, <3>1 DEF Plain
  <2> QED BY <2>1, <2>2
<1> QED BY <1>1, <1>2 DEF Plain

\* Queues of none, one and two such calls.
LEMMA PlainOnes ==
  ASSUME NEW a \in Call, NEW b \in Call, ~a.secure, ~b.secure
  PROVE  Plain(<<>>) /\ Plain(<<a>>) /\ Plain(<<a, b>>)
BY DEF Plain

\* What the daemon sends of focus while no field is secure.
LEMMA PlainSent ==
  ASSUME NEW c \in Contexts, NEW first \in BOOLEAN, daemon.secret = {}
  PROVE  Plain(Unfocus(c)) /\ Plain(Focus(c, first))
<1>1. \A b \in BOOLEAN : /\ In(c, b) \in Call /\ Out(c, b) \in Call
                         /\ ~In(c, b).secure /\ ~Out(c, b).secure
  BY Sent DEF In, Out
<1>2. Plain(Unfocus(c))
  <2> DEFINE o == Out(c, daemon.ids # "never")
  <2>1. Unfocus(c) = <<o>>
    BY DEF Unfocus
  <2>2. (daemon.ids # "never") \in BOOLEAN
    OBVIOUS
  <2>3. o \in Call /\ ~o.secure
    BY <1>1, <2>2, Zenon
  <2> HIDE DEF o
  <2> QED BY <2>1, <2>3, PlainOnes
<1>3. Plain(Focus(c, first))
  <2> DEFINE k == ContentType(c \in daemon.secret)
             e == IF c = "fake" THEN <<>> ELSE <<k>>
  <2>1. k \in Call /\ ~k.secure
    <3>1. (c \in daemon.secret) = FALSE
      OBVIOUS
    <3>2. ContentType(FALSE) \in Call /\ ~ContentType(FALSE).secure
      BY Sent DEF ContentType
    <3> QED BY <3>1, <3>2, Zenon
  <2> HIDE DEF k
  <2>2. Plain(e) /\ e \in Seq(Call)
    <3>1. Plain(<<k>>) /\ <<k>> \in Seq(Call)
      BY <2>1, PlainOnes, Short, Zenon
    <3>2. Plain(<<>>) /\ <<>> \in Seq(Call)
      BY DEF Plain
    <3>3. e = <<>> \/ e = <<k>>
      OBVIOUS
    <3> QED BY <3>1, <3>2, <3>3, Zenon
  <2>3. \A b \in BOOLEAN : Plain(<<In(c, b)>>) /\ <<In(c, b)>> \in Seq(Call)
    BY <1>1, PlainOnes, Short
  <2>4. Plain(<<In(c, FALSE), In(c, TRUE)>>) /\ <<In(c, FALSE), In(c, TRUE)>> \in Seq(Call)
    <3>1. In(c, FALSE) \in Call /\ In(c, TRUE) \in Call /\ ~In(c, FALSE).secure /\ ~In(c, TRUE).secure
      BY <1>1
    <3> QED BY <3>1, PlainOnes, Short, Zenon
  <2> HIDE DEF e
  <2>5. \E q \in {<<In(c, TRUE)>>, <<In(c, FALSE)>>, <<In(c, FALSE), In(c, TRUE)>>} :
          Focus(c, first) = q \o e
    BY Zenon DEF Focus, e, k
  <2>6. PICK q \in {<<In(c, TRUE)>>, <<In(c, FALSE)>>, <<In(c, FALSE), In(c, TRUE)>>} :
          Focus(c, first) = q \o e
    BY <2>5
  <2>7. Plain(q) /\ q \in Seq(Call)
    BY <2>3, <2>4
  <2> QED BY <2>2, <2>6, <2>7, PlainJoined
<1> QED BY <1>2, <1>3

\* No field stops being secure.
LEMMA SecretsStay ==
  ASSUME IbusTypes, IbusNext, daemon'.secret = {}
  PROVE  daemon.secret = {}
<1>1. \/ daemon' = daemon
      \/ \E e \in Engines : daemon' = [daemon EXCEPT !.engine = e]
      \/ \E e, w \in Engines : daemon' = [daemon EXCEPT !.engine = e, !.wants = w]
      \/ \E b \in BOOLEAN, e \in Engines : daemon' = [daemon EXCEPT !.conn = b, !.engine = e]
      \/ \E b \in BOOLEAN : daemon' = [daemon EXCEPT !.conn = b]
      \/ \E c \in Contexts : daemon' = [daemon EXCEPT !.focus = c]
      \/ \E f \in Fields : daemon' = [daemon EXCEPT !.secret = @ \cup {f}]
  <2>1. daemon.wants \in Engines /\ {"myna", "other"} \subseteq Engines
          /\ owed \in {None, "user", "other"} /\ {"user", "other"} \subseteq Engines
    BY DaemonIs DEF Engines, IbusTypes
  <2>2. CASE Desktop
    <3>1. CASE \E c \in Contexts : FocusMoves(c)
      BY <3>1 DEF FocusMoves
    <3>2. CASE EngineTaken
      BY <2>1, <3>2 DEF EngineTaken
    <3>3. CASE DaemonRestarts
      BY <2>1, <3>3 DEF DaemonRestarts
    <3>4. CASE Activate
      BY <3>4 DEF Activate
    <3>5. CASE \E f \in Fields : FieldHides(f)
      BY <3>5 DEF FieldHides
    <3> QED BY <2>2, <3>1, <3>2, <3>3, <3>4, <3>5 DEF Desktop
  <2>3. CASE Dispatch \/ Timer \/ ActivationAges
    BY <2>3 DEF Dispatch, Timer, WindowEnds, GraceEnds, ActivationAges
  <2>4. CASE reconnect
    BY <2>4 DEF reconnect
  <2>5. CASE switch
    BY <2>1, <2>5 DEF switch
  <2>6. CASE SwitchCancelled
    BY <2>1, <2>6 DEF SwitchCancelled
  <2>7. CASE ReleaseRestores
    BY <2>1, <2>7 DEF ReleaseRestores
  <2>8. CASE Acquire \/ ReadBefore \/ focus_arrived \/ CheckSwitch \/ left_settled \/ commit
             \/ set_preedit \/ Stand \/ WriteNext \/ release \/ ReleaseSettles
    BY <2>8 DEF Acquire, ReadBefore, focus_arrived, CheckSwitch, left_settled, commit,
                set_preedit, Stand, WriteNext, release, ReleaseSettles
  <2> QED BY <2>2, <2>3, <2>4, <2>5, <2>6, <2>7, <2>8 DEF IbusNext, Controller
<1>2. ASSUME NEW f \in Fields, daemon' = [daemon EXCEPT !.secret = @ \cup {f}] PROVE FALSE
  <2>1. daemon'.secret = daemon.secret \cup {f}
    BY <1>2, DaemonIs
  <2> QED BY <2>1
<1>3. daemon'.secret = daemon.secret
  <2>1. \A e \in Engines : daemon' = [daemon EXCEPT !.engine = e] => daemon'.secret = daemon.secret
    BY DaemonIs
  <2>2. \A e, w \in Engines : daemon' = [daemon EXCEPT !.engine = e, !.wants = w]
                               => daemon'.secret = daemon.secret
    BY DaemonIs
  <2>3. \A b \in BOOLEAN, e \in Engines : daemon' = [daemon EXCEPT !.conn = b, !.engine = e]
                                          => daemon'.secret = daemon.secret
    BY DaemonIs
  <2>4. \A b \in BOOLEAN : daemon' = [daemon EXCEPT !.conn = b] => daemon'.secret = daemon.secret
    BY DaemonIs
  <2>5. \A c \in Contexts : daemon' = [daemon EXCEPT !.focus = c] => daemon'.secret = daemon.secret
    BY DaemonIs
  <2> QED BY <1>1, <1>2, <2>1, <2>2, <2>3, <2>4, <2>5, Zenon
<1> QED BY <1>3

\* While no field is secure the engine is told of none.
LEMMA PlainNext ==
  ASSUME IbusTypes, PlainSound, IbusNext
  PROVE  PlainSound'
<1> SUFFICES ASSUME daemon'.secret = {} PROVE ~content' /\ Plain(calls')
  BY DEF PlainSound
<1>0. calls \in Seq(Call) /\ daemon.focus \in Contexts
  BY DaemonIs DEF IbusTypes
<1>1. daemon.secret = {}
  BY SecretsStay
<1>2. ~content /\ Plain(calls)
  BY <1>1 DEF PlainSound
<1>3. \A c \in Contexts : Plain(Unfocus(c)) /\ Unfocus(c) \in Seq(Call)
  BY <1>1, PlainSent, Sent
<1>4. \A c \in Contexts, b \in BOOLEAN : Plain(Focus(c, b)) /\ Focus(c, b) \in Seq(Call)
  BY <1>1, PlainSent, Sent
<1>5. \A q \in Seq(Call) : Plain(q) => Plain(calls \o q)
  BY <1>0, <1>2, PlainJoined
<1>6. \A c \in Contexts : Plain(calls \o Unfocus(daemon.focus) \o Focus(c, FALSE))
  <2>1. Plain(calls \o Unfocus(daemon.focus)) /\ calls \o Unfocus(daemon.focus) \in Seq(Call)
    BY <1>0, <1>3, <1>5, ConcatProperties
  <2> QED BY <1>4, <2>1, PlainJoined
<1>7. \A e : Plain(calls \o Deactivated(e))
  <2>1. TAKE e
  <2>2. Deactivated(e) \in {<<>>, Unfocus(daemon.focus) \o Focus("fake", FALSE)}
    BY DEF Deactivated
  <2>3. Plain(<<>>) /\ <<>> \in Seq(Call)
    BY DEF Plain
  <2>4. Plain(Unfocus(daemon.focus) \o Focus("fake", FALSE))
          /\ Unfocus(daemon.focus) \o Focus("fake", FALSE) \in Seq(Call)
    <3>1. Plain(Unfocus(daemon.focus)) /\ Unfocus(daemon.focus) \in Seq(Call)
      BY <1>0, <1>3
    <3>2. Plain(Focus("fake", FALSE)) /\ Focus("fake", FALSE) \in Seq(Call)
      BY <1>4, Names
    <3> QED BY <3>1, <3>2, PlainJoined, ConcatProperties
  <2> QED BY <1>5, <2>2, <2>3, <2>4
<1>8. CASE Desktop
  <2>1. ASSUME NEW c \in Contexts, FocusMoves(c) PROVE Plain(calls')
    BY <1>2, <1>6, <2>1 DEF FocusMoves
  <2>2. ASSUME EngineTaken PROVE Plain(calls')
    BY <1>7, <2>2 DEF EngineTaken
  <2>3. ASSUME DaemonRestarts PROVE Plain(calls')
    BY <2>3 DEF DaemonRestarts, Plain
  <2>4. ASSUME Activate PROVE Plain(calls')
    BY <1>2, <2>4 DEF Activate
  <2>5. ASSUME NEW f \in Fields, FieldHides(f) PROVE FALSE
    <3>1. daemon'.secret = daemon.secret \cup {f}
      BY <2>5, DaemonIs DEF FieldHides
    <3> QED BY <3>1
  <2>6. content' = content
    BY <1>8 DEF Desktop, FocusMoves, EngineTaken, DaemonRestarts, Activate, FieldHides
  <2>7. Plain(calls')
    BY <1>8, <2>1, <2>2, <2>3, <2>4, <2>5, Zenon DEF Desktop
  <2> QED BY <1>2, <2>6, <2>7
<1>9. CASE Dispatch
  <2>1. calls # <<>> /\ calls' = Tail(calls)
          /\ content' = IF Head(calls).kind = "content" THEN Head(calls).secure ELSE content
    BY <1>9 DEF Dispatch
  <2>2. DOMAIN calls = 1..Len(calls) /\ Head(calls) = calls[1] /\ Len(calls) \in Nat /\ Len(calls) >= 1
          /\ DOMAIN Tail(calls) = 1..(Len(calls) - 1)
          /\ \A i \in 1..(Len(calls) - 1) : Tail(calls)[i] = calls[i + 1] /\ i + 1 \in 1..Len(calls)
    BY <1>0, <2>1
  <2>3. ~Head(calls).secure
    BY <1>2, <2>2 DEF Plain
  <2>4. ~content'
    BY <1>2, <2>1, <2>3
  <2>5. Plain(calls')
    <3>1. \A i \in 1..(Len(calls) - 1) : ~Tail(calls)[i].secure
      BY <1>2, <2>2 DEF Plain
    <3> QED BY <2>1, <2>2, <3>1 DEF Plain
  <2> QED BY <2>4, <2>5
<1>10. CASE switch
  <2>1. content' = FALSE
    BY <1>10 DEF switch
  <2>2. calls' \in {calls, calls \o Focus(daemon.focus, TRUE)}
    BY <1>10 DEF switch
  <2>3. Plain(calls \o Focus(daemon.focus, TRUE))
    BY <1>0, <1>4, <1>5
  <2> QED BY <1>2, <2>1, <2>2, <2>3
<1>11. CASE reconnect
  <2>1. (calls' = <<>> /\ content' = FALSE) \/ UNCHANGED <<calls, content>>
    BY <1>11 DEF reconnect
  <2> QED BY <1>2, <2>1 DEF Plain
<1>12. CASE ReleaseRestores
  <2>1. content' = content /\ \E e : calls' = calls \o Deactivated(e)
    BY <1>12 DEF ReleaseRestores
  <2> QED BY <1>2, <1>7, <2>1
<1>13. CASE SwitchCancelled
  BY <1>2, <1>13 DEF SwitchCancelled
<1>14. CASE Acquire \/ ReadBefore \/ focus_arrived \/ CheckSwitch \/ left_settled \/ commit
            \/ set_preedit \/ Stand \/ WriteNext \/ release \/ ReleaseSettles \/ Timer
            \/ ActivationAges
  <2>1. UNCHANGED <<calls, content>>
    BY <1>14 DEF Acquire, ReadBefore, focus_arrived, CheckSwitch, left_settled, commit,
              set_preedit, Stand, WriteNext, release, ReleaseSettles, Timer, WindowEnds,
              GraceEnds, ActivationAges
  <2> QED BY <1>2, <2>1
<1> QED BY <1>8, <1>9, <1>10, <1>11, <1>12, <1>13, <1>14 DEF IbusNext, Controller

-----------------------------------------------------------------------------
(***************************************************************************)
(* Without a secure field nothing is skipped.                              *)
(***************************************************************************)

\* What flush writes are the texts held.
LEMMA QueuedFlushed ==
  ASSUME IbusTypes, NEW k \in Nat, \A i \in DOMAIN target.held : target.held[i] = k + i
  PROVE  Queued(k, Flushed(target), k + Len(target.held), Len(target.held))
<1> DEFINE h == target.held
           m == Len(h)
<1>0. h \in Seq(Nat) /\ h \in Seq(Entry)
  <2>1. h \in Seq(Nat)
    BY TargetParts DEF IbusTypes
  <2> QED BY <2>1 DEF Entry
<1>1. m \in Nat /\ DOMAIN h = 1..m
  BY <1>0
<1>2. CASE target.held_preedit
  <2>1. Flushed(target) = Append(h, HeldPreedit)
    BY <1>0, <1>2 DEF Flushed
  <2>2. HeldPreedit \in Entry /\ ~IsText(HeldPreedit)
    BY DEF Entry, IsText
  <2>3. /\ Len(Append(h, HeldPreedit)) = m + 1 /\ Append(h, HeldPreedit)[m + 1] = HeldPreedit
        /\ \A i \in 1..m : Append(h, HeldPreedit)[i] = h[i]
    BY <1>0, <2>2, AppendProperties
  <2> HIDE DEF m
  <2> QED BY <1>1, <2>1, <2>2, <2>3 DEF Queued
<1>3. CASE ~target.held_preedit
  <2>1. Flushed(target) = h
    BY <1>0, <1>3 DEF Flushed
  <2> QED BY <1>1, <2>1 DEF Queued
<1> QED BY <1>2, <1>3

\* A call's own write goes behind what flush writes.
LEMMA QueuedAppend ==
  ASSUME NEW k \in Nat, NEW h \in Seq(Entry), \A i \in DOMAIN h : h[i] = k + i,
         NEW f \in Seq(Entry), f = h \/ f = Append(h, HeldPreedit),
         NEW e \in Entry, NEW texts \in Nat,
         \/ e = Preedit /\ texts = k + Len(h)
         \/ e = k + Len(h) + 1 /\ texts = k + Len(h) + 1
  PROVE  \E m \in Nat : Queued(k, Append(f, e), texts, m)
<1> DEFINE m == Len(h)
           o == Append(f, e)
<1>1. m \in Nat /\ DOMAIN h = 1..m /\ Len(f) \in Nat
  OBVIOUS
<1>2. /\ Len(o) = Len(f) + 1 /\ o[Len(f) + 1] = e /\ \A i \in 1..Len(f) : o[i] = f[i]
  BY AppendProperties
<1>3. \/ e = Preedit /\ texts = k + m
      \/ e = k + m + 1 /\ texts = k + m + 1
  OBVIOUS
<1>4. CASE f = Append(h, HeldPreedit)
  <2>1. HeldPreedit \in Entry
    BY DEF Entry
  <2>2. Len(f) = m + 1 /\ f[m + 1] = HeldPreedit /\ \A i \in 1..m : f[i] = h[i]
    BY <1>4, <2>1, AppendProperties
  <2> HIDE DEF m, o
  <2>3. Len(o) = m + 2 /\ o[m + 1] = HeldPreedit /\ o[m + 2] = e /\ \A i \in 1..m : o[i] = k + i
    BY <1>1, <1>2, <2>2
  <2>4. Queued(k, o, texts, m)
    BY <1>1, <1>3, <2>3 DEF Queued
  <2> QED BY <1>1, <2>4 DEF o
<1>5. CASE f = h
  <2>1. Len(f) = m /\ \A i \in 1..m : f[i] = k + i
    BY <1>1, <1>5
  <2> HIDE DEF m, o
  <2>2. Len(o) = m + 1 /\ o[m + 1] = e /\ \A i \in 1..m : o[i] = k + i
    BY <1>1, <1>2, <2>1
  <2>3. CASE e = Preedit /\ texts = k + m
    <3>1. Queued(k, o, texts, m)
      BY <1>1, <2>2, <2>3 DEF Queued, IsText
    <3> QED BY <1>1, <3>1 DEF o
  <2>4. CASE e = k + m + 1 /\ texts = k + m + 1
    <3>1. ASSUME NEW i \in 1..(m + 1) PROVE o[i] = k + i
      <4>1. i \in 1..m \/ i = m + 1
        BY <1>1
      <4>2. CASE i \in 1..m
        BY <2>2, <4>2
      <4>3. CASE i = m + 1
        <5>1. o[i] = e /\ e = k + m + 1
          BY <2>2, <2>4, <4>3
        <5> QED BY <1>1, <4>3, <5>1
      <4> QED BY <4>1, <4>2, <4>3
    <3>2. Queued(k, o, texts, m + 1)
      BY <1>1, <2>2, <2>4, <3>1 DEF Queued
    <3> QED BY <1>1, <3>2 DEF o
  <2> QED BY <1>3, <2>3, <2>4
<1> QED BY <1>4, <1>5

\* What a call that may write queues: all texts given are accounted for.
LEMMA QueuedOwn ==
  ASSUME IbusTypes, NEW k \in Nat, \A i \in DOMAIN target.held : target.held[i] = k + i,
         target.texts = k + Len(target.held) + (IF target.op = "commit" THEN 1 ELSE 0)
  PROVE  \E m \in Nat : Queued(k, Append(Flushed(target), This(target)), target.texts, m)
<1>1. target.held \in Seq(Nat) /\ target.texts \in Nat
  BY TargetParts DEF IbusTypes
<1>2. target.held \in Seq(Entry)
  BY <1>1 DEF Entry
<1>3. Flushed(target) = target.held \/ Flushed(target) = Append(target.held, HeldPreedit)
  <2>1. CASE target.held_preedit
    BY <1>2, <2>1 DEF Flushed, Entry
  <2>2. CASE ~target.held_preedit
    BY <1>2, <2>2 DEF Flushed, Entry
  <2> QED BY <2>1, <2>2
<1>4. \/ This(target) = Preedit /\ target.texts = k + Len(target.held)
      \/ /\ This(target) = k + Len(target.held) + 1
         /\ target.texts = k + Len(target.held) + 1
  <2>1. Len(target.held) \in Nat
    BY <1>1
  <2>2. CASE target.op = "commit"
    <3>1. target.texts = k + Len(target.held) + 1 /\ This(target) = target.texts
      BY <2>2 DEF This
    <3> QED BY <3>1
  <2>3. CASE target.op # "commit"
    <3> DEFINE l == Len(target.held)
               n == target.texts
    <3>1. n = k + l + 0 /\ l \in Nat
      BY <2>1, <2>3
    <3> HIDE DEF l, n
    <3>2. n = k + l
      BY <3>1
    <3>3. This(target) = Preedit
      BY <2>3 DEF This
    <3> QED BY <3>2, <3>3, Zenon DEF l, n
  <2> QED BY <2>2, <2>3, Zenon
<1> QED BY <1>1, <1>2, <1>3, <1>4, FlushedTyped, QueuedAppend

\* The first of a queue is written: a text is the next one, and a preedit leaves
\* the texts as they are.
LEMMA QueuedStep ==
  ASSUME NEW k \in Nat, NEW out \in Seq(Entry), NEW texts \in Nat, NEW m \in Nat,
         Queued(k, out, texts, m), out # <<>>
  PROVE  /\ IsText(Head(out)) => /\ Head(out) = k + 1
                                 /\ \E n \in Nat : Queued(k + 1, Tail(out), texts, n)
         /\ ~IsText(Head(out)) => \E n \in Nat : Queued(k, Tail(out), texts, n)
<1>1. /\ Len(out) \in Nat /\ Len(out) >= 1 /\ Head(out) = out[1]
      /\ Len(Tail(out)) = Len(out) - 1
      /\ \A i \in 1..(Len(out) - 1) : Tail(out)[i] = out[i + 1]
  OBVIOUS
<1> DEFINE t == Tail(out)
           l == Len(out)
<1> HIDE DEF t
<1>2. CASE m >= 1
  <2>1. m - 1 \in Nat /\ m <= l /\ \A i \in 1..m : out[i] = k + i
    BY <1>2 DEF Queued
  <2>2. out[1] = k + 1 /\ IsText(k + 1)
    BY <1>2, <2>1 DEF IsText, Preedit, HeldPreedit
  <2>3. Len(t) = l - 1 /\ \A i \in 1..(l - 1) : t[i] = out[i + 1]
    BY <1>1 DEF t
  <2> HIDE DEF l
  <2>4. \A i \in 1..(m - 1) : t[i] = (k + 1) + i
    <3>1. TAKE i \in 1..(m - 1)
    <3>2. i \in 1..(l - 1) /\ i + 1 \in 1..m
      BY <1>1, <2>1 DEF l
    <3> QED BY <2>1, <2>3, <3>2
  <2>5. Queued(k + 1, t, texts, m - 1)
    <3>1. CASE l = m /\ texts = k + m
      BY <2>1, <2>3, <2>4, <3>1 DEF Queued
    <3>2. CASE l = m + 1 /\ ~IsText(out[m + 1]) /\ texts = k + m
      <4>1. t[m] = out[m + 1] /\ (m - 1) + 1 = m
        BY <1>2, <2>3, <3>2
      <4> QED BY <2>1, <2>3, <2>4, <3>2, <4>1 DEF Queued
    <3>3. CASE /\ l = m + 2 /\ out[m + 1] = HeldPreedit
               /\ \/ out[m + 2] = Preedit /\ texts = k + m
                  \/ out[m + 2] = k + m + 1 /\ texts = k + m + 1
      <4>1. t[m] = out[m + 1] /\ t[m + 1] = out[m + 2] /\ (m - 1) + 1 = m /\ (m - 1) + 2 = m + 1
        BY <1>2, <2>3, <3>3
      <4> QED BY <2>1, <2>3, <2>4, <3>3, <4>1 DEF Queued
    <3> QED BY <3>1, <3>2, <3>3 DEF Queued, l
  <2> QED BY <1>1, <2>1, <2>2, <2>5 DEF t
<1>3. CASE m = 0
  <2>5. \/ l = 1 /\ ~IsText(out[1]) /\ texts = k
        \/ l = 2 /\ out[1] = HeldPreedit /\ out[2] = Preedit /\ texts = k
        \/ l = 2 /\ out[1] = HeldPreedit /\ out[2] = k + 1 /\ texts = k + 1
    <3>1. Queued(k, out, texts, 0)
      BY <1>3
    <3>2. \/ l = 0 /\ texts = k + 0
          \/ l = 0 + 1 /\ ~IsText(out[0 + 1]) /\ texts = k + 0
          \/ /\ l = 0 + 2 /\ out[0 + 1] = HeldPreedit
             /\ \/ out[0 + 2] = Preedit /\ texts = k + 0
                \/ out[0 + 2] = k + 0 + 1 /\ texts = k + 0 + 1
      BY <3>1, Zenon DEF Queued
    <3>3. l >= 1 /\ k + 0 = k /\ 0 + 1 = 1 /\ 0 + 2 = 2
      BY <1>1
    <3> HIDE DEF l
    <3>4. l # 0
      BY <3>3
    <3> QED BY <3>2, <3>3, <3>4, Zenon
  <2>1. Len(t) = l - 1 /\ \A i \in 1..(l - 1) : t[i] = out[i + 1]
    BY <1>1 DEF t
  <2> HIDE DEF l
  <2>2. CASE l = 1 /\ ~IsText(out[1]) /\ texts = k
    <3>1. Queued(k, t, texts, 0)
      BY <2>1, <2>2 DEF Queued
    <3> QED BY <1>1, <2>2, <3>1 DEF t
  <2>3. CASE l = 2 /\ out[1] = HeldPreedit /\ out[2] = Preedit /\ texts = k
    <3>1. Queued(k, t, texts, 0)
      BY <2>1, <2>3 DEF Queued, IsText
    <3> QED BY <1>1, <2>3, <3>1 DEF t, IsText
  <2>4. CASE l = 2 /\ out[1] = HeldPreedit /\ out[2] = k + 1 /\ texts = k + 1
    <3>1. Queued(k, t, texts, 1)
      BY <2>1, <2>4 DEF Queued
    <3> QED BY <1>1, <2>4, <3>1 DEF t, IsText
  <2> QED BY <2>2, <2>3, <2>4, <2>5, Zenon
<1>4. m >= 1 \/ m = 0
  OBVIOUS
<1> QED BY <1>2, <1>3, <1>4, Zenon

\* Once the queue is written every text given is on the screen.
LEMMA QueuedEmpty ==
  ASSUME NEW k \in Nat, NEW texts, NEW m \in Nat, Queued(k, <<>>, texts, m)
  PROVE  texts = k
<1>1. Len(<<>>) = 0
  OBVIOUS
<1> QED BY <1>1 DEF Queued

\* An utterance starts, and ends, with no text to account for.
LEMMA KeptFresh ==
  ASSUME target' = NoTarget, screen'.text = <<>>, step' \notin {"writing", "flushing"}
  PROVE  Kept'
<1>1. target'.held = <<>> /\ target'.texts = 0 /\ target'.op = None /\ None # "commit"
  BY DEF NoTarget, None
<1>2. Given' = 0
  BY <1>1 DEF Given
<1> QED BY <1>1, <1>2 DEF Kept

\* Nothing is lost while no one writes.
LEMMA KeptStays ==
  ASSUME Kept, UNCHANGED <<target, step>>, screen'.text = screen.text,
         held_by' => held_by, daemon'.conn => daemon.conn
  PROVE  Kept'
<1>1. Given' = Given
  BY DEF Given
<1> QED BY <1>1 DEF Kept

\* Nothing is written, and the lease or the connection is lost.
LEMMA KeptLost ==
  ASSUME Kept, screen'.text = screen.text, ~(held_by' /\ daemon'.conn)
  PROVE  Kept'
BY DEF Kept

\* A text that may not be written is held or ends the lease.
LEMMA StandKept ==
  ASSUME IbusTypes, OrderSound, Kept, Stand
  PROVE  Kept'
<1>0. /\ screen.text \in Seq(Text) /\ Len(screen.text) \in Nat /\ target.held \in Seq(Nat)
      /\ target.texts \in Nat /\ target \in Targets /\ step = "standing"
      /\ UNCHANGED <<screen, daemon, lease>> /\ Given \in Nat /\ Len(target.held) \in Nat
  <2>1. step = "standing" /\ UNCHANGED <<screen, daemon, lease>>
    BY DEF Stand
  <2> QED BY <2>1, OrderParts
<1>c. SUFFICES ASSUME held_by /\ daemon.conn
               PROVE  Kept'
  BY <1>0, KeptLost DEF held_by
<1>1. /\ \A i \in DOMAIN screen.text : screen.text[i].n = i
      /\ Given = Len(screen.text) + Len(target.held)
      /\ \A i \in DOMAIN target.held : target.held[i] = Len(screen.text) + i
  BY <1>0, <1>c DEF Kept
<1>2. target.texts = Len(screen.text) + Len(target.held) + (IF target.op = "commit" THEN 1 ELSE 0)
  <2> DEFINE k == Len(screen.text)
             l == Len(target.held)
             t == target.texts
  <2>1. k \in Nat /\ l \in Nat /\ t \in Nat /\ Given = k + l
    BY <1>0, <1>1
  <2>2. Given = IF target.op = "commit" THEN t - 1 ELSE t
    BY <1>0 DEF Given
  <2> HIDE DEF k, l, t
  <2>3. t = k + l + (IF target.op = "commit" THEN 1 ELSE 0)
    <3>1. CASE target.op = "commit"
      BY <2>1, <2>2, <3>1
    <3>2. CASE target.op # "commit"
      BY <2>1, <2>2, <3>2
    <3> QED BY <3>1, <3>2
  <2> QED BY <2>3 DEF k, l, t
<1>3. CASE standing(lease) = "Held"
  <2>1. target' = [target EXCEPT !.out = Append(Flushed(target), This(target)), !.held = <<>>]
          /\ step' = "writing"
    BY <1>3 DEF Stand
  <2>2. target'.out = Append(Flushed(target), This(target)) /\ target'.texts = target.texts
    BY <1>0, <2>1 DEF Targets
  <2>3. \E m \in Nat : Queued(Len(screen.text), target'.out, target'.texts, m)
    BY <1>0, <1>1, <1>2, <2>2, QueuedOwn
  <2> QED BY <1>0, <1>1, <2>1, <2>3 DEF Kept
<1>4. CASE standing(lease) = "Lost"
  BY <1>c, <1>4 DEF standing, held_by
<1>5. CASE standing(lease) = "Unsure" /\ target.op = "commit"
  <2>1. target' = [target EXCEPT !.held = Append(@, target.texts), !.held_preedit = FALSE]
          /\ step' = "open"
    BY <1>5 DEF Stand
  <2>2. target'.held = Append(target.held, target.texts) /\ target'.texts = target.texts
    BY <1>0, <2>1 DEF Targets
  <2>3. target.texts = Len(screen.text) + Len(target.held) + 1
    BY <1>2, <1>5
  <2>4. Len(target'.held) = Len(target.held) + 1
          /\ \A i \in DOMAIN target'.held : target'.held[i] = Len(screen.text) + i
    <3> DEFINE h == target.held
               k == Len(screen.text)
               x == target.texts
    <3>1. /\ h \in Seq(Nat) /\ k \in Nat /\ x \in Nat /\ x = k + Len(h) + 1
          /\ \A i \in DOMAIN h : h[i] = k + i
      BY <1>0, <1>1, <2>3
    <3> HIDE DEF h, k, x
    <3>2. Len(Append(h, x)) = Len(h) + 1 /\ DOMAIN Append(h, x) = 1..(Len(h) + 1)
            /\ DOMAIN h = 1..Len(h) /\ Len(h) \in Nat
            /\ Append(h, x)[Len(h) + 1] = x /\ \A i \in 1..Len(h) : Append(h, x)[i] = h[i]
      BY <3>1, AppendProperties
    <3>3. ASSUME NEW i \in 1..(Len(h) + 1) PROVE Append(h, x)[i] = k + i
      <4>1. i \in 1..Len(h) \/ i = Len(h) + 1
        BY <3>2
      <4>2. CASE i \in 1..Len(h)
        BY <3>1, <3>2, <4>2
      <4>3. CASE i = Len(h) + 1
        BY <3>1, <3>2, <4>3
      <4> QED BY <4>1, <4>2, <4>3
    <3>4. target'.held = Append(h, x)
      BY <2>2 DEF h, x
    <3> QED BY <3>2, <3>3, <3>4 DEF h, k
  <2>5. Given' = target.texts
    BY <2>1, <2>2 DEF Given
  <2>6. Given' = Len(screen.text) + Len(target'.held)
    <3> DEFINE k == Len(screen.text)
               l == Len(target.held)
               j == Len(target'.held)
               t == target.texts
    <3>1. k \in Nat /\ l \in Nat /\ t = k + l + 1 /\ j = l + 1 /\ Given' = t
      BY <1>0, <2>3, <2>4, <2>5
    <3> HIDE DEF k, l, j, t
    <3>2. Given' = k + j
      BY <3>1
    <3> QED BY <3>2 DEF k, j
  <2> QED BY <1>0, <1>1, <2>1, <2>4, <2>6 DEF Kept
<1>6. CASE standing(lease) = "Unsure" /\ target.op # "commit"
  <2>1. target' = [target EXCEPT !.held_preedit = TRUE] /\ step' = "open"
    BY <1>6 DEF Stand
  <2>2. target'.held = target.held /\ target'.texts = target.texts
    BY <1>0, <2>1 DEF Targets
  <2>3. Given' = Given
    BY <1>6, <2>1, <2>2 DEF Given
  <2> QED BY <1>0, <1>1, <2>1, <2>2, <2>3 DEF Kept
<1>7. standing(lease) \in {"Held", "Lost", "Unsure"}
  <2>1. standing(lease) # "wait"
    BY DEF Stand
  <2> QED BY <2>1 DEF standing
<1> QED BY <1>3, <1>4, <1>5, <1>6, <1>7

\* A write takes the next text, and one that fails ends the utterance's claim.
LEMMA WriteNextKept ==
  ASSUME IbusTypes, OrderSound, Kept, WriteNext, ~content
  PROVE  Kept'
<1>0. /\ screen.text \in Seq(Text) /\ Len(screen.text) \in Nat /\ target.out \in Seq(Entry)
      /\ target.held = <<>> /\ target.texts \in Nat /\ target \in Targets /\ screen \in Screens
      /\ target.out # <<>> /\ step \in {"writing", "flushing"} /\ lease \in Lease
      /\ Tail(target.out) \in Seq(Entry) /\ (Len(target.out) > 1 <=> Tail(target.out) # <<>>)
  BY WriteParts DEF IbusTypes
<1> DEFINE n == Head(target.out)
           k == Len(screen.text)
<1>1. daemon' = daemon /\ (show_preedit(n) \/ Write(n))
      /\ (IsText(n) => Write(n)) /\ (~IsText(n) => show_preedit(n))
  BY DEF WriteNext, IsText
<1>2. held_by' <=> held_by
  <2>1. lease' = [lease EXCEPT !.wrote = @ \/ (held_by /\ ~content)]
    BY <1>1 DEF show_preedit, Write
  <2>2. lease'.b = lease.b
    BY <1>0, <2>1 DEF Lease
  <2> QED BY <2>2 DEF held_by
<1>3. \A i \in DOMAIN screen.text : screen.text[i].n = i
  BY DEF Kept
<1>4. ASSUME NEW t \in Nat, Len(screen'.text) = t, target'.out = Tail(target.out),
             target'.texts = target.texts, target'.held = <<>>, step' = AfterWrite,
             \A i \in DOMAIN screen'.text : screen'.text[i].n = i,
             \E m \in Nat : Queued(t, Tail(target.out), target.texts, m)
      PROVE  Kept'
  <2>1. CASE Tail(target.out) # <<>>
    <3>1. step' \in {"writing", "flushing"}
      BY <1>0, <1>4, <2>1 DEF AfterWrite
    <3> QED BY <1>4, <3>1 DEF Kept
  <2>2. CASE Tail(target.out) = <<>>
    <3>1. step' \notin {"writing", "flushing", "standing"}
      BY <1>0, <1>4, <2>2 DEF AfterWrite
    <3>2. target.texts = t
      BY <1>4, <2>2, QueuedEmpty
    <3>3. Given' = t
      BY <1>4, <3>1, <3>2 DEF Given
    <3>4. Len(target'.held) = 0 /\ DOMAIN target'.held = {}
      BY <1>4
    <3>5. Given' = Len(screen'.text) + Len(target'.held)
      BY <1>4, <3>3, <3>4
    <3> QED BY <1>4, <3>1, <3>4, <3>5 DEF Kept
  <2> QED BY <2>1, <2>2
<1>5. CASE ~(held_by /\ daemon.conn)
  <2>1. screen'.text = screen.text
    <3>1. CASE IsText(n)
      <4>1. Write(n)
        BY <1>1, <3>1
      <4> QED BY <1>5, <4>1 DEF Write
    <3>2. CASE ~IsText(n)
      <4>1. \A b : [screen EXCEPT !.preedit = b].text = screen.text
        BY <1>0 DEF Screens
      <4> QED BY <1>1, <3>2, <4>1 DEF show_preedit
    <3> QED BY <3>1, <3>2
  <2> QED BY <1>1, <1>2, <1>5, <2>1, KeptLost
<1>6. CASE held_by /\ daemon.conn
  <2>1. PICK m \in Nat : Queued(k, target.out, target.texts, m)
    BY <1>0, <1>6 DEF Kept
  <2>2. CASE IsText(n)
    <3>1. /\ screen'.text = Append(screen.text, Landed(n)) /\ step' = AfterWrite
          /\ target' = [target EXCEPT !.preedit_active = FALSE, !.out = Tail(@)]
      <4>1. Write(n)
        BY <1>1, <2>2
      <4> QED BY <1>6, <4>1, Zenon DEF Write
    <3>2. target'.out = Tail(target.out) /\ target'.texts = target.texts /\ target'.held = <<>>
      BY <1>0, <3>1 DEF Targets
    <3>3. n = k + 1 /\ \E j \in Nat : Queued(k + 1, Tail(target.out), target.texts, j)
      BY <1>0, <2>1, <2>2, QueuedStep
    <3>4. Landed(n) \in Text /\ Landed(n).n = k + 1
      <4>1. n \in Nat
        BY <1>0, <3>3
      <4>2. (told \in daemon.secret /\ calls = <<>>) \in BOOLEAN /\ told \in Places
        BY DEF IbusTypes
      <4> QED BY <3>3, <4>1, <4>2 DEF Landed, Text
    <3>5. Len(screen'.text) = k + 1 /\ k + 1 \in Nat
            /\ \A i \in DOMAIN screen'.text : screen'.text[i].n = i
      <4> DEFINE s == screen.text
                 x == Landed(n)
      <4>1. s \in Seq(Text) /\ x \in Text /\ x.n = Len(s) + 1 /\ \A i \in DOMAIN s : s[i].n = i
        BY <1>0, <1>3, <3>4
      <4>2. screen'.text = Append(s, x)
        BY <3>1
      <4> HIDE DEF s, x
      <4>3. /\ Len(Append(s, x)) = Len(s) + 1 /\ DOMAIN Append(s, x) = 1..(Len(s) + 1)
            /\ DOMAIN s = 1..Len(s) /\ Len(s) \in Nat
            /\ Append(s, x)[Len(s) + 1] = x /\ \A i \in 1..Len(s) : Append(s, x)[i] = s[i]
        BY <4>1, AppendProperties
      <4>4. ASSUME NEW i \in 1..(Len(s) + 1) PROVE Append(s, x)[i].n = i
        <5>1. i \in 1..Len(s) \/ i = Len(s) + 1
          BY <4>3
        <5>2. CASE i \in 1..Len(s)
          BY <4>1, <4>3, <5>2
        <5>3. CASE i = Len(s) + 1
          BY <4>1, <4>3, <5>3
        <5> QED BY <5>1, <5>2, <5>3
      <4> QED BY <4>2, <4>3, <4>4 DEF s
    <3> QED BY <1>4, <3>1, <3>2, <3>3, <3>5
  <2>3. CASE ~IsText(n)
    <3>1. show_preedit(n)
      BY <1>1, <2>3
    <3>2. target'.out = Tail(target.out) /\ target'.texts = target.texts /\ target'.held = <<>>
            /\ step' = AfterWrite
      BY <1>0, <3>1 DEF show_preedit, Targets
    <3>3. screen'.text = screen.text
      BY <1>0, <3>1 DEF show_preedit, Screens
    <3>4. \E j \in Nat : Queued(k, Tail(target.out), target.texts, j)
      BY <1>0, <2>1, <2>3, QueuedStep
    <3> QED BY <1>0, <1>3, <1>4, <3>2, <3>3, <3>4
  <2> QED BY <2>2, <2>3
<1> QED BY <1>5, <1>6

\* Without a secure field every step keeps all texts accounted for.
LEMMA WholeNext ==
  ASSUME IbusTypes, LeaseSound, OrderSound, PlainSound, WholeSound, IbusNext
  PROVE  WholeSound'
<1> SUFFICES ASSUME daemon'.secret = {} PROVE Kept'
  BY DEF WholeSound
<1>0. /\ Kept /\ ~content /\ target \in Targets /\ screen \in Screens /\ target.texts \in Nat
      /\ daemon.conn \in BOOLEAN /\ lease \in Lease
  BY SecretsStay, OrderParts, DaemonIs DEF PlainSound, WholeSound, IbusTypes
<1>1. CASE Dispatch \/ Timer \/ ActivationAges \/ Desktop
  <2>1. UNCHANGED <<target, step>>
    BY <1>1 DEF Dispatch, Timer, WindowEnds, GraceEnds, ActivationAges, Desktop, FocusMoves,
                EngineTaken, DaemonRestarts, Activate, FieldHides
  <2>2. screen' = screen \/ screen' = [screen EXCEPT !.preedit = FALSE]
    BY <1>1 DEF Dispatch, Timer, WindowEnds, GraceEnds, ActivationAges, Desktop, FocusMoves,
                EngineTaken, DaemonRestarts, Activate, FieldHides
  <2>3. screen'.text = screen.text
    BY <1>0, <2>2 DEF Screens
  <2>4. daemon'.conn => daemon.conn
    <3>1. CASE Dispatch \/ Timer \/ ActivationAges \/ Activate
      BY <3>1 DEF Dispatch, Timer, WindowEnds, GraceEnds, ActivationAges, Activate
    <3>2. ASSUME NEW c \in Contexts, FocusMoves(c) PROVE daemon'.conn = daemon.conn
      BY <3>2, DaemonIs DEF FocusMoves
    <3>3. CASE EngineTaken
      <4>1. daemon' = [daemon EXCEPT !.engine = "other", !.wants = "other"] /\ "other" \in Engines
        BY <3>3 DEF EngineTaken, Engines
      <4> QED BY <4>1, DaemonIs
    <3>4. CASE DaemonRestarts
      <4>1. daemon' = [daemon EXCEPT !.conn = FALSE, !.engine = daemon.wants]
        BY <3>4 DEF DaemonRestarts
      <4>2. daemon.wants \in Engines
        BY DaemonIs DEF Engines
      <4> QED BY <4>1, <4>2, DaemonIs
    <3>5. ASSUME NEW f \in Fields, FieldHides(f) PROVE daemon'.conn = daemon.conn
      BY <3>5, DaemonIs DEF FieldHides
    <3> QED BY <1>1, <3>1, <3>2, <3>3, <3>4, <3>5 DEF Desktop
  <2>5. held_by' => held_by
    <3> SUFFICES ASSUME lease.b = "Lost" PROVE lease'.b = "Lost"
      BY DEF held_by
    <3>1. \A b : expire(b).b = "Lost"
      BY <1>0 DEF expire, Gone, Minted, Lease
    <3>2. \A c : FocusIn(lease, c) = lease /\ FocusOut(lease, c) = lease
      BY DEF FocusIn, FocusOut
    <3>3. CASE Dispatch
      BY <3>2, <3>3 DEF Dispatch
    <3>4. CASE Timer
      BY <3>1, <3>4 DEF Timer, WindowEnds, GraceEnds
    <3>5. CASE ActivationAges
      BY <1>0, <3>5 DEF ActivationAges, Lease
    <3>6. CASE Desktop
      <4>1. lease' = lease \/ (Activate /\ lease' = activated(lease))
        BY <3>6 DEF Desktop, FocusMoves, EngineTaken, DaemonRestarts, Activate, FieldHides
      <4> QED BY <4>1 DEF Activate, held_by
    <3> QED BY <1>1, <3>3, <3>4, <3>5, <3>6
  <2> QED BY <1>0, <2>1, <2>3, <2>4, <2>5, KeptStays
<1>2. CASE Acquire \/ reconnect \/ ReadBefore \/ switch \/ SwitchCancelled \/ focus_arrived
           \/ CheckSwitch \/ left_settled
  <2>1. step \in Acquiring /\ screen' = screen /\ target' \in {target, NoTarget}
    BY <1>2 DEF Acquire, reconnect, ReadBefore, switch, SwitchCancelled, focus_arrived,
                CheckSwitch, left_settled, Acquiring
  <2>2. step' \notin {"writing", "flushing"}
    BY <1>2 DEF Acquire, reconnect, ReadBefore, switch, SwitchCancelled, focus_arrived,
                CheckSwitch, left_settled, Unavailable
  <2>3. target' = NoTarget /\ screen'.text = <<>>
    BY <2>1 DEF LeaseSound
  <2> QED BY <2>2, <2>3, KeptFresh
<1>3. ASSUME Lose, UNCHANGED screen PROVE Kept'
  <2>1. ~held_by'
    BY <1>3 DEF Lose, Gone, Minted, held_by
  <2> QED BY <1>0, <1>3, <2>1, KeptLost
<1>4. ASSUME UNCHANGED <<screen, daemon>>, step \notin {"writing", "flushing"},
             step' \notin {"writing", "flushing"}, Given' = Given, target'.held = target.held,
             lease' = lease
      PROVE  Kept'
  BY <1>0, <1>4 DEF Kept, held_by
<1>5. CASE commit
  <2>1. UNCHANGED <<screen, daemon>> /\ step = "open"
    BY <1>5 DEF commit
  <2>2. CASE ~daemon.conn
    <3>1. daemon' = daemon
      BY <2>1
    <3> QED BY <1>0, <2>1, <2>2, <3>1, KeptLost
  <2>3. CASE daemon.conn /\ daemon.engine # "myna"
    BY <1>3, <1>5, <2>1, <2>3 DEF commit
  <2>4. CASE daemon.conn /\ daemon.engine = "myna"
    <3>1. step' = "standing" /\ lease' = lease
            /\ target' = [target EXCEPT !.texts = @ + 1, !.op = "commit"]
      BY <1>5, <2>4 DEF commit
    <3>2. target'.texts = target.texts + 1 /\ target'.held = target.held /\ target'.op = "commit"
      BY <1>0, <3>1 DEF Targets
    <3>3. Given' = Given
      BY <1>0, <2>1, <3>1, <3>2 DEF Given
    <3> QED BY <1>4, <2>1, <3>1, <3>2, <3>3
  <2> QED BY <2>2, <2>3, <2>4
<1>6. CASE set_preedit
  <2>1. UNCHANGED <<screen, daemon, lease>> /\ step = "open" /\ step' = "standing"
          /\ target' = [target EXCEPT !.op = "preedit"]
    BY <1>6 DEF set_preedit
  <2>2. target'.texts = target.texts /\ target'.held = target.held /\ target'.op = "preedit"
    BY <1>0, <2>1 DEF Targets
  <2>3. Given' = Given
    BY <2>1, <2>2 DEF Given
  <2> QED BY <1>4, <2>1, <2>2, <2>3
<1>7. CASE release
  <2>1. UNCHANGED <<screen, daemon>> /\ step \in {"open", "ended", "taken"} /\ step' = "settling"
    BY <1>7 DEF release
  <2>2. CASE daemon.conn /\ daemon.engine # "myna"
    BY <1>3, <1>7, <2>1, <2>2 DEF release
  <2>3. CASE ~(daemon.conn /\ daemon.engine # "myna")
    <3>1. UNCHANGED <<lease, target>>
      BY <1>7, <2>3 DEF release
    <3>2. Given' = Given
      BY <2>1, <3>1 DEF Given
    <3> QED BY <1>4, <2>1, <3>1, <3>2
  <2> QED BY <2>2, <2>3
<1>8. CASE ReleaseSettles
  <2>1. UNCHANGED <<screen, daemon, lease>> /\ step = "settling"
    BY <1>8 DEF ReleaseSettles
  <2>2. CASE standing(lease) = "Held"
    <3>1. target' = [target EXCEPT !.out = Flushed(target), !.held = <<>>]
            /\ step' = IF Flushed(target) = <<>> THEN "restoring" ELSE "flushing"
      BY <1>8, <2>2 DEF ReleaseSettles
    <3>2. target'.out = Flushed(target) /\ target'.texts = target.texts /\ target'.held = <<>>
      BY <1>0, <3>1 DEF Targets
    <3> SUFFICES ASSUME held_by /\ daemon.conn PROVE Kept'
      BY <1>0, <2>1, KeptLost DEF held_by
    <3> DEFINE k == Len(screen.text)
               l == Len(target.held)
    <3>3. /\ k \in Nat /\ l \in Nat /\ target.texts = k + l
          /\ \A i \in DOMAIN target.held : target.held[i] = k + i
          /\ \A i \in DOMAIN screen.text : screen.text[i].n = i
      <4>1. Given = target.texts
        BY <2>1 DEF Given
      <4>2. screen.text \in Seq(Text) /\ target.held \in Seq(Nat)
        BY OrderParts
      <4>3. step \notin {"writing", "flushing"}
        BY <2>1
      <4>4. /\ Given = k + l /\ \A i \in DOMAIN target.held : target.held[i] = k + i
            /\ \A i \in DOMAIN screen.text : screen.text[i].n = i
        BY <1>0, <4>3, Zenon DEF Kept
      <4>5. k \in Nat /\ l \in Nat
        BY <4>2
      <4> QED BY <4>1, <4>4, <4>5, Zenon
    <3>4. Queued(k, Flushed(target), target.texts, l)
      BY <3>3, QueuedFlushed
    <3>5. CASE Flushed(target) # <<>>
      <4>1. step' = "flushing"
        BY <3>1, <3>5
      <4> QED BY <2>1, <3>2, <3>3, <3>4, <4>1 DEF Kept
    <3>6. CASE Flushed(target) = <<>>
      <4>1. target.texts = k
        BY <3>3, <3>4, <3>6, QueuedEmpty
      <4>2. step' = "restoring"
        BY <3>1, <3>6
      <4>3. Given' = k
        BY <3>2, <4>1, <4>2 DEF Given
      <4>4. Len(target'.held) = 0 /\ DOMAIN target'.held = {}
        BY <3>2
      <4>5. Given' = k + Len(target'.held)
        BY <3>3, <4>3, <4>4
      <4> QED BY <2>1, <3>3, <4>2, <4>4, <4>5 DEF Kept
    <3> QED BY <3>5, <3>6
  <2>3. CASE standing(lease) # "Held"
    <3>1. target' = target /\ step' = "restoring"
      BY <1>8, <2>3 DEF ReleaseSettles
    <3>2. Given' = Given
      BY <2>1, <3>1 DEF Given
    <3> QED BY <1>4, <2>1, <3>1, <3>2
  <2> QED BY <2>2, <2>3
<1>9. CASE ReleaseRestores
  <2>1. target' = NoTarget /\ screen'.text = <<>> /\ step' \notin {"writing", "flushing"}
    BY <1>9 DEF ReleaseRestores, Unavailable
  <2> QED BY <2>1, KeptFresh
<1> QED BY <1>0, <1>1, <1>2, <1>5, <1>6, <1>7, <1>8, <1>9, StandKept, WriteNextKept
        DEF IbusNext, Controller

-----------------------------------------------------------------------------
(***************************************************************************)
(* The invariant holds, and what it means for text input.                  *)
(***************************************************************************)

\* Nothing is written, owed or heard before the first press.
LEMMA InvInit == IbusInit => IbusInv
<1> SUFFICES ASSUME IbusInit PROVE IbusInv
  OBVIOUS
<1>1. IbusTypes
  BY TypesInit
<1>2. /\ daemon.engine = "user" /\ daemon.wants = "user" /\ daemon.secret = {} /\ ~daemon.conn
      /\ calls = <<>> /\ ~content /\ told = None /\ owed = None /\ step = "idle" /\ ~undone
      /\ target = NoTarget /\ target.out = <<>> /\ target.held = <<>> /\ target.texts = 0
      /\ target.op # "commit" /\ screen.text = <<>> /\ ~screen.preedit
      /\ lease.b = "Lost"
  <2>1. daemon.engine = "user" /\ daemon.wants = "user" /\ daemon.secret = {} /\ ~daemon.conn
    BY DEF IbusInit
  <2>2. None # "commit"
    BY Names
  <2> QED BY <2>1, <2>2 DEF IbusInit, NoTarget, Gone, Minted
<1>3. ChoiceSound
  BY <1>2 DEF ChoiceSound
<1>4. CallsSound
  BY <1>2 DEF CallsSound
<1>5. DOMAIN screen.text = {} /\ DOMAIN calls = {} /\ DOMAIN target.held = {} /\ Len(screen.text) = 0
      /\ Len(target.held) = 0
  BY <1>2
<1>6. SecretSound
  BY <1>2, <1>5 DEF SecretSound, SecretKept
<1>7. \A p : Written(p)
  BY <1>5 DEF Written
<1>8. LeaseSound
  BY <1>2, <1>7, Names DEF LeaseSound, held_by
<1>9. Given = 0
  BY <1>2 DEF Given
<1>10. OrderSound
  BY <1>2, <1>9, RisingEmpty DEF OrderSound
<1>11. PlainSound
  BY <1>2, <1>5 DEF PlainSound, Plain
<1>12. WholeSound
  BY <1>2, <1>5, <1>9 DEF WholeSound, Kept
<1> QED BY <1>1, <1>3, <1>4, <1>6, <1>8, <1>10, <1>11, <1>12 DEF IbusInv

\* Every step keeps the invariant.
LEMMA InvNext == IbusInv /\ [IbusNext]_ivars => IbusInv'
<1> SUFFICES ASSUME IbusInv, [IbusNext]_ivars PROVE IbusInv'
  OBVIOUS
<1>1. CASE IbusNext
  <2>1. /\ IbusTypes /\ ChoiceSound /\ CallsSound /\ SecretSound /\ LeaseSound /\ OrderSound
        /\ PlainSound /\ WholeSound
    BY DEF IbusInv
  <2>2. step \in {"writing", "flushing"} => target.out # <<>>
    BY <2>1 DEF OrderSound
  <2>3. IbusTypes'
    BY <1>1, <2>1, <2>2, DesktopTyped, EngineTyped, AcquireTyped, TargetTyped, Zenon
       DEF IbusNext, Controller
  <2>4. ChoiceSound'
    BY <1>1, <2>1, ChoiceNext
  <2>5. CallsSound' /\ SecretSound'
    BY <1>1, <2>1, CallsNext
  <2>6. LeaseSound'
    BY <1>1, <2>1, LeaseNext
  <2>7. OrderSound'
    BY <1>1, <2>1, OrderNext
  <2>8. PlainSound'
    BY <1>1, <2>1, PlainNext
  <2>9. WholeSound'
    BY <1>1, <2>1, WholeNext
  <2> QED BY <2>3, <2>4, <2>5, <2>6, <2>7, <2>8, <2>9 DEF IbusInv
<1>2. CASE UNCHANGED ivars
  <2>1. \A p : Written(p)' <=> Written(p)
    BY <1>2 DEF ivars, Written
  <2>2. ChoiceSound' /\ PlainSound'
    BY <1>2 DEF ivars, IbusInv, ChoiceSound, PlainSound
  <2>3. CallsSound' /\ SecretSound'
    BY <1>2, CallsStay, SecretStays DEF ivars, IbusInv
  <2>4. LeaseSound'
    BY <1>2, <2>1 DEF ivars, IbusInv, LeaseSound, held_by
  <2>5. OrderSound'
    BY <1>2, OrderStays DEF ivars, IbusInv
  <2>6. WholeSound'
    <3>1. Kept => Kept'
      BY <1>2, KeptStays DEF ivars, held_by
    <3> QED BY <1>2, <3>1 DEF ivars, IbusInv, WholeSound
  <2>7. IbusTypes'
    BY <1>2 DEF ivars, IbusInv, IbusTypes
  <2> QED BY <2>2, <2>3, <2>4, <2>5, <2>6, <2>7 DEF IbusInv
<1> QED BY <1>1, <1>2

\* However the daemon's calls are delayed and whatever the desktop does, the
\* engine state of inject/ibus.rs, the controller's target and the screen fit
\* together: who is owed the engine, where the calls that wait will leave the
\* lease, where the text is, and which text comes next.
THEOREM IbusAlways == Spec => []IbusInv
<1> QED BY InvInit, InvNext, PTL DEF Spec

\* All the text an utterance writes with focus on a field goes to one field: a
\* lease (Lease::focus) never follows focus from a field it wrote to to another.
THEOREM OneFieldKept == Spec => []OneField
<1>1. IbusInv => OneField
  <2> SUFFICES ASSUME IbusInv PROVE OneField
    OBVIOUS
  <2>1. IbusTypes /\ LeaseSound
    BY DEF IbusInv
  <2>2. TypeOK
    <3>1. daemon \in Daemons /\ lease \in Lease /\ told \in Places /\ owed \in {None, "user", "other"}
            /\ step \in Steps /\ reg \in Regs /\ target \in Targets
      BY <2>1 DEF IbusTypes
    <3> QED BY <3>1 DEF TypeOK, Daemons, Engines, Lease, Places, Steps, Regs, Targets
  <2>3. PICK p \in Places : Written(p)
    BY <2>1 DEF LeaseSound
  <2> DEFINE S == {screen.text[i].at : i \in DOMAIN screen.text} \cap Fields
  <2>4. S \subseteq {p}
    BY <2>3 DEF Written
  <2> HIDE DEF S
  <2>5. Cardinality(S) <= 1
    <3>1. S = {} \/ S = {p}
      BY <2>4
    <3>2. Cardinality({}) = 0 /\ Cardinality({p}) = 1
      BY FS_EmptySet, FS_Singleton
    <3>3. CASE S = {}
      <4>1. Cardinality(S) = 0
        BY <3>2, <3>3
      <4> QED BY <4>1
    <3>4. CASE S = {p}
      <4>1. Cardinality(S) = 1
        BY <3>2, <3>4
      <4> QED BY <4>1
    <3> QED BY <3>1, <3>3, <3>4
  <2> QED BY <2>2, <2>5 DEF OneField, S
<1> QED BY <1>1, IbusAlways, PTL

\* Text held over a focus blip (IbusTarget::commit, flush) is written once, in
\* order and before later text; without a secure field none is skipped.
THEOREM InOrderKept == Spec => []InOrder
<1>1. IbusInv => InOrder
  <2> SUFFICES ASSUME IbusInv, NEW i \in DOMAIN screen.text
               PROVE  /\ i > 1 => screen.text[i].n > screen.text[i - 1].n
                      /\ daemon.secret = {} => screen.text[i].n = i
    BY DEF InOrder
  <2>1. daemon.secret = {} => screen.text[i].n = i
    BY DEF IbusInv, WholeSound, Kept
  <2>2. ASSUME i > 1 PROVE screen.text[i].n > screen.text[i - 1].n
    <3>1. screen.text \in Seq(Text) /\ DOMAIN screen.text = 1..Len(screen.text)
            /\ Len(screen.text) \in Nat
      BY TargetParts DEF IbusInv, IbusTypes
    <3>2. i - 1 \in DOMAIN screen.text /\ i - 1 < i
      BY <2>2, <3>1
    <3>3. screen.text[i - 1].n < screen.text[i].n
      BY <3>2 DEF IbusInv, OrderSound, Rising
    <3>4. screen.text[i].n \in Nat /\ screen.text[i - 1].n \in Nat
      <4>1. \A j \in DOMAIN screen.text : screen.text[j] \in Text
        BY <3>1
      <4>2. screen.text[i] \in Text /\ screen.text[i - 1] \in Text
        BY <3>2, <4>1
      <4> QED BY <4>2 DEF Text
    <3> QED BY <3>3, <3>4
  <2> QED BY <2>1, <2>2
<1> QED BY <1>1, IbusAlways, PTL

\* No text lands in a field the daemon has declared secure (IbusTarget::write
\* checks the content type, which switch resets before the engine is global).
THEOREM SecretIsKept == Spec => []SecretKept
<1>1. IbusInv => SecretKept
  BY DEF IbusInv, SecretSound
<1> QED BY <1>1, IbusAlways, PTL

\* When no utterance is under way Myna's engine is not the global one, no preedit
\* shows and the input method chosen last is back (EngineState::displace, taken,
\* reclaim).
THEOREM HandsBackKept == Spec => []HandsBack
<1>1. IbusInv => HandsBack
  BY DEF IbusInv, ChoiceSound, HandsBack, ChoiceKept
<1> QED BY <1>1, IbusAlways, PTL
=============================================================================
