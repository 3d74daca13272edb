-------------------------------- MODULE Ibus --------------------------------
(***************************************************************************)
(* Text input through IBus (inject/ibus.rs) behind the connection that is  *)
(* opened on demand (inject/lazy.rs).  One utterance at a time makes       *)
(* Myna's engine the global one, is focused by the daemon, writes commits  *)
(* and preedit while its lease holds, and hands the user's input method    *)
(* back.  The daemon's calls on the engine object wait in `calls`: nothing *)
(* orders their dispatch against what the utterance does.                  *)
(*                                                                         *)
(* The controller acquires and releases one after the other, so the only   *)
(* lease a target can hold is the current one and Retired::Superseded does *)
(* not occur; lease ids are left out.  Time is abstract: an activation is  *)
(* recent for ACTIVATION_WINDOW and old after it, a blip is in its window  *)
(* and then in its grace.  Blip ids, which tell the timer of one blip from *)
(* the next one's, are left out with the timers of blips that are over.    *)
(***************************************************************************)
EXTENDS Integers, Sequences, FiniteSets, SequencesExt

CONSTANTS Fields,    \* input contexts of applications
          Ids,       \* when a daemon's focus calls name their context
          Start,     \* contexts that may be focused at first
          MaxTexts,  \* bound: texts one utterance commits
          MaxEvents  \* bound: presses, preedits, focus moves, engines picked,
                     \* fields made secret, activations and daemon restarts

ASSUME IbusAssumption ==
  /\ "fake" \notin Fields /\ "none" \notin Fields
  /\ Start \subseteq Fields \cup {"fake"}
  /\ Ids \subseteq {"always", "again", "moved", "never"}
  /\ MaxTexts \in Nat

SWITCHES == 2

VARIABLES
  daemon,   \* [engine, wants, focus, secret, conn, ids]: the global engine, the
            \* one last chosen by the user or the Shell, the focused context, the
            \* secure fields, whether our connection is to this daemon, and when
            \* its focus calls name their context
  calls,    \* calls on the engine object still to be dispatched
  told,     \* the context of the last focus call dispatched, "none" after Out
  lease,    \* struct Lease with the fields of its Binding
  content,  \* EngineState.content_type: is it a secure field's
  owed,     \* EngineState.displaced, "none" for None
  inner,    \* LazyInjector.inner is Some
  step,     \* where the controller is in acquire, a write or release
  reg,      \* the locals of acquire, and whether it ends in Unavailable
  target,   \* IbusTarget's held, held_preedit and preedit_active, with the writes
            \* under way, the texts given to commit so far, the call it serves
  screen,   \* [text, preedit]: what was written by this utterance and where, is
            \* a preedit showing
  undone,   \* was an engine picked between a look at the global one and the switch
            \* that followed from it
  spent     \* events so far
ivars == <<daemon, calls, told, lease, content, owed, inner, step, reg,
           target, screen, undone, spent>>

None == "none"
Contexts == Fields \cup {"fake"}
Minted == [b |-> "Pending", path |-> None, blip |-> "over", activated |-> FALSE,
           back |-> FALSE, act |-> "old", on_fake |-> FALSE, wrote |-> FALSE,
           fieldless |-> FALSE]
Gone == [Minted EXCEPT !.b = "Lost"]
NoTarget == [held |-> <<>>, held_preedit |-> FALSE, preedit_active |-> FALSE,
             out |-> <<>>, texts |-> 0, op |-> None]
NoReg == [before |-> None, displaced |-> None, switch |-> 1, held |-> FALSE,
          unavailable |-> FALSE]

IbusInit ==
  /\ daemon \in [engine : {"user"}, wants : {"user"}, focus : Start,
                 secret : {{}}, conn : {FALSE}, ids : Ids]
  /\ calls = <<>> /\ told = None /\ content = FALSE /\ owed = None
  /\ lease = Gone
  /\ inner = FALSE /\ step = "idle"
  /\ reg = NoReg
  /\ target = NoTarget
  /\ screen = [text |-> <<>>, preedit |-> FALSE] /\ undone = FALSE
  /\ spent = 0

-----------------------------------------------------------------------------
\* Lease.

held_by == lease.b # "Lost"

Bind(l, call) == IF call.named THEN [l EXCEPT !.b = "Context", !.path = call.ctx, !.blip = "over"]
                 ELSE [l EXCEPT !.b = "Unnamed", !.blip = "over"]

\* Mutant: any context that comes after a blip is the field come back.
FocusIn_AnyBack(l, call) ==
  LET fake == call.named /\ call.ctx = "fake"
  IN CASE l.b = "Pending" -> IF fake THEN [l EXCEPT !.on_fake = TRUE] ELSE Bind(l, call)
       [] l.b \in {"Unnamed", "Left"} -> IF fake THEN l ELSE Bind(l, call)
       [] l.b = "Context" -> IF call.named /\ call.ctx = l.path THEN l ELSE Gone
       [] l.b = "Away" -> IF fake THEN l ELSE Bind(l, call)
       [] l.b = "Unfocused" -> Gone
       [] OTHER -> l

\* Lease::focus on FocusIn or FocusInId.
FocusIn(l, call) ==
  LET fake == call.named /\ call.ctx = "fake"
  IN CASE l.b = "Pending" -> IF fake THEN [l EXCEPT !.on_fake = TRUE] ELSE Bind(l, call)
       [] l.b = "Unnamed" ->
            IF ~call.named \/ (fake /\ l.wrote) THEN Gone
            ELSE IF fake THEN [l EXCEPT !.b = "Left", !.blip = "window"]
            ELSE Bind(l, call)
       [] l.b = "Left" -> IF fake THEN l ELSE Bind(l, call)
       [] l.b = "Context" -> IF call.named /\ call.ctx = l.path THEN l ELSE Gone
       [] l.b = "Away" ->
            IF fake THEN l
            ELSE IF ~call.named \/ call.ctx # l.path THEN Gone
            ELSE IF l.activated THEN [l EXCEPT !.b = "Context", !.blip = "over", !.activated = FALSE]
            ELSE [l EXCEPT !.back = TRUE]
       [] l.b = "Unfocused" -> Gone
       [] OTHER -> l

\* Lease::focus on FocusOut or FocusOutId.
FocusOut(l, call) ==
  LET away(p) == [l EXCEPT !.b = "Away", !.path = p, !.blip = "window",
                           !.activated = (l.act = "recent"), !.back = FALSE]
  IN CASE l.b = "Pending" -> [l EXCEPT !.on_fake = FALSE]
       [] l.b = "Away"    -> [l EXCEPT !.back = FALSE]
       [] l.b = "Left"    -> l
       [] l.b = "Context" -> away(l.path)
       [] l.b = "Unnamed" -> IF ~l.wrote THEN [l EXCEPT !.b = "Left", !.blip = "window"]
                             ELSE IF call.named THEN away(call.ctx)
                             ELSE Gone
       [] l.b = "Unfocused" -> Gone
       [] OTHER -> l

\* Lease::standing.  "wait" is its None.
standing(l) ==
  CASE l.b = "Lost" -> "Lost"
    [] l.b = "Left" \/ (l.b = "Away" /\ ~l.activated) -> "Unsure"
    [] l.b = "Away" /\ l.activated -> "wait"
    [] OTHER -> "Held"

\* Lease::activated.
activated(l) ==
  IF l.b # "Away" THEN [l EXCEPT !.act = "recent"]
  ELSE IF l.back THEN [l EXCEPT !.act = "recent", !.b = "Context", !.blip = "over", !.back = FALSE]
  ELSE [l EXCEPT !.act = "recent", !.activated = TRUE]

\* EngineState::on_fake.
on_fake == CASE lease.b \in {"Pending", "Unfocused"} -> lease.on_fake
             [] lease.b = "Lost" -> lease.fieldless
             [] OTHER -> FALSE

\* Mutant: the grace of a blip no activation came with does not end it.
expire_Waits(even_activated) == [lease EXCEPT !.blip = IF even_activated THEN "over" ELSE "grace"]

\* EngineState::expire for the blip under way.
expire(even_activated) ==
  IF even_activated \/ (lease.b = "Away" /\ ~lease.activated)
  THEN [Gone EXCEPT !.fieldless = (lease.b = "Left")]
  ELSE [lease EXCEPT !.blip = "grace"]

-----------------------------------------------------------------------------
\* The daemon.

In(ctx, named)  == [kind |-> "in", ctx |-> ctx, named |-> named, secure |-> FALSE]
Out(ctx, named) == [kind |-> "out", ctx |-> ctx, named |-> named, secure |-> FALSE]
ContentType(b)  == [kind |-> "content", ctx |-> None, named |-> FALSE, secure |-> b]

\* The focus on an engine that was just made global: by name; first without and
\* then by name, as ibus 1.5.34; without, until focus moves, as 1.5.29; or never
\* by name.  Then the content type of a field.
Focus(c, first) ==
  (CASE daemon.ids = "never" \/ (first /\ daemon.ids = "moved") -> <<In(c, FALSE)>>
     [] first /\ daemon.ids = "again" -> <<In(c, FALSE), In(c, TRUE)>>
     [] OTHER -> <<In(c, TRUE)>>)
  \o (IF c = "fake" THEN <<>> ELSE <<ContentType(c \in daemon.secret)>>)

Unfocus(c) == <<Out(c, daemon.ids # "never")>>

\* What our engine is sent when engine e becomes global.
Deactivated(e) ==
  IF daemon.engine # "myna" \/ e = "myna" \/ ~daemon.conn THEN <<>>
  ELSE Unfocus(daemon.focus) \o Focus("fake", FALSE)

\* Focus moves.  The daemon clears the preedit of the context that loses it.
FocusMoves(c) ==
  /\ spent < MaxEvents /\ c # daemon.focus
  /\ daemon' = [daemon EXCEPT !.focus = c]
  /\ calls' = IF daemon.engine = "myna" /\ daemon.conn
              THEN calls \o Unfocus(daemon.focus) \o Focus(c, FALSE) ELSE calls
  /\ screen' = [screen EXCEPT !.preedit = FALSE]
  /\ spent' = spent + 1
  /\ UNCHANGED <<told, lease, content, owed, inner, step, reg, target, undone>>

\* The user, or the Shell re-applying its input source, picks an engine.
EngineTaken ==
  /\ spent < MaxEvents
  /\ daemon' = [daemon EXCEPT !.engine = "other", !.wants = "other"]
  /\ calls' = calls \o Deactivated("other")
  /\ screen' = [screen EXCEPT !.preedit = FALSE]
  /\ undone' = (step \in {"switch", "settling", "flushing", "restoring"} \/ undone)
  /\ spent' = spent + 1
  /\ UNCHANGED <<told, lease, content, owed, inner, step, reg, target>>

\* A field starts to hide its text.
FieldHides(f) ==
  /\ spent < MaxEvents /\ f \notin daemon.secret
  /\ daemon' = [daemon EXCEPT !.secret = @ \cup {f}]
  /\ calls' = IF daemon.engine = "myna" /\ daemon.conn /\ daemon.focus = f
              THEN Append(calls, ContentType(TRUE)) ELSE calls
  /\ spent' = spent + 1
  /\ UNCHANGED <<told, lease, content, owed, inner, step, reg, target, screen,
                 undone>>

\* The daemon restarts: the connection is gone, and the session's own input
\* source is global in the new one.
DaemonRestarts ==
  /\ spent < MaxEvents
  /\ daemon' = [daemon EXCEPT !.conn = FALSE, !.engine = daemon.wants]
  /\ calls' = <<>>
  /\ screen' = [screen EXCEPT !.preedit = FALSE]
  /\ spent' = spent + 1
  /\ UNCHANGED <<told, lease, content, owed, inner, step, reg, target, undone>>

-----------------------------------------------------------------------------
\* EngineState, driven by the daemon, by timers and by the user.

\* EngineObject: the next call takes effect.
Dispatch ==
  /\ calls # <<>>
  /\ calls' = Tail(calls)
  /\ LET c == Head(calls) IN
     /\ lease' = CASE c.kind = "in"  -> FocusIn(lease, c)
                   [] c.kind = "out" -> FocusOut(lease, c)
                   [] OTHER -> lease
     /\ content' = IF c.kind = "content" THEN c.secure ELSE content
     /\ told' = CASE c.kind = "in" -> c.ctx [] c.kind = "out" -> None [] OTHER -> told
  /\ UNCHANGED <<daemon, owed, inner, step, reg, target, screen, undone, spent>>

\* ACTIVATION_WINDOW is over since the blip began.
WindowEnds ==
  /\ lease.blip = "window"
  /\ lease' = expire(FALSE)
  /\ UNCHANGED <<daemon, calls, told, content, owed, inner, step, reg, target, screen,
                 undone, spent>>

\* blip_deadline: FOCUS_BLIP_GRACE is over since the blip began and since the
\* last activation.
GraceEnds ==
  /\ lease.blip = "grace" /\ lease.act # "recent"
  /\ lease' = expire(TRUE)
  /\ UNCHANGED <<daemon, calls, told, content, owed, inner, step, reg, target, screen,
                 undone, spent>>

\* activated_current and activated: the user's key, or one of its repeats.
Activate ==
  /\ spent < MaxEvents
  /\ held_by
  /\ lease' = activated(lease)
  /\ spent' = spent + 1
  /\ UNCHANGED <<daemon, calls, told, content, owed, inner, step, reg, target,
                 screen, undone>>

\* ACTIVATION_WINDOW passes since the last activation.
ActivationAges ==
  /\ lease.act = "recent"
  /\ lease' = [lease EXCEPT !.act = "old"]
  /\ UNCHANGED <<daemon, calls, told, content, owed, inner, step, reg, target,
                 screen, undone, spent>>

-----------------------------------------------------------------------------
\* LazyInjector::acquire around IbusInjector::acquire.

Acquire ==
  /\ step = "idle" /\ spent < MaxEvents
  /\ step' = IF inner THEN "read" ELSE "connect"
  /\ reg' = [reg EXCEPT !.held = inner]
  /\ target' = NoTarget
  /\ spent' = spent + 1
  /\ UNCHANGED <<daemon, calls, told, lease, content, owed, inner, screen, undone>>

\* reconnect, with the fresh EngineState of connect_to.
reconnect ==
  /\ step = "connect"
  /\ \/ /\ daemon' = [daemon EXCEPT !.conn = TRUE]
        /\ inner' = TRUE /\ step' = "read"
        /\ lease' = Gone
        /\ calls' = <<>> /\ told' = None /\ content' = FALSE /\ owed' = None
     \/ /\ inner' = FALSE /\ step' = "idle"
        /\ UNCHANGED <<daemon, calls, told, lease, content, owed>>
  /\ UNCHANGED <<reg, target, screen, undone, spent>>

\* acquire failed as Unavailable: a connection held from an earlier utterance is
\* replaced and tried once more, a fresh one is dropped.
Unavailable ==
  /\ step' = IF reg.held THEN "connect" ELSE "idle"
  /\ inner' = FALSE
  /\ reg' = NoReg

\* IbusInjector::acquire reads the engine it displaces and registers.
ReadBefore ==
  /\ step = "read"
  /\ IF daemon.conn
     THEN /\ reg' = [reg EXCEPT !.before = daemon.engine, !.displaced = daemon.engine,
                                !.switch = 1]
          /\ step' = "switch" /\ inner' = inner
     ELSE Unavailable
  /\ UNCHANGED <<daemon, calls, told, lease, content, owed, target, screen,
                 undone, spent>>

\* EngineState::displace.
displace(current) == IF current \in {None, "myna"} THEN owed ELSE current

\* Mutant: the content type is reset once the engine is global.
switch_ResetsLate ==
  /\ step = "switch"
  /\ content' = content
  /\ IF daemon.conn
     THEN /\ lease' = Minted
          /\ calls' = (IF daemon.engine = "myna" THEN calls
                       ELSE calls \o Focus(daemon.focus, TRUE)) \o <<ContentType(FALSE)>>
          /\ daemon' = [daemon EXCEPT !.engine = "myna"]
          /\ owed' = displace(reg.displaced)
          /\ step' = "arrive" /\ UNCHANGED <<inner, reg>>
     ELSE /\ lease' = Gone
          /\ Unavailable /\ UNCHANGED <<daemon, calls, owed>>
  /\ UNCHANGED <<told, target, screen, undone, spent>>

\* IbusInjector::switch, up to the wait for focus.
switch ==
  /\ step = "switch"
  /\ content' = FALSE
  /\ IF daemon.conn
     THEN /\ lease' = Minted
          /\ calls' = IF daemon.engine = "myna" THEN calls
                      ELSE calls \o Focus(daemon.focus, TRUE)
          /\ daemon' = [daemon EXCEPT !.engine = "myna"]
          /\ owed' = displace(reg.displaced)
          /\ step' = "arrive" /\ UNCHANGED <<inner, reg>>
     ELSE /\ lease' = Gone
          /\ Unavailable /\ UNCHANGED <<daemon, calls, owed>>
  /\ UNCHANGED <<told, target, screen, undone, spent>>

\* The daemon cancels the switch for a newer one.  reclaims: it counts if that
\* made another engine global than before the press, and only once.
SwitchCancelled ==
  /\ step = "switch" /\ daemon.conn /\ spent < MaxEvents
  /\ daemon' = [daemon EXCEPT !.engine = "other", !.wants = "other"]
  /\ content' = FALSE /\ lease' = Gone
  /\ IF reg.switch < SWITCHES /\ reg.before # "other"
     THEN /\ reg' = [reg EXCEPT !.displaced = "other", !.switch = @ + 1]
          /\ step' = "switch"
     ELSE step' = "idle" /\ reg' = NoReg
  /\ spent' = spent + 1
  /\ UNCHANGED <<calls, told, owed, inner, target, screen, undone>>

\* EngineState::focus_arrived: a focus came, or FOCUS_WAIT ran out, extended on
\* the fake context by FOCUS_BLIP_GRACE and by activations.
focus_arrived ==
  /\ step = "arrive"
  /\ \/ lease.b # "Pending" /\ lease' = lease
     \/ /\ lease.b = "Pending" /\ (lease.on_fake => lease.act # "recent")
        /\ lease' = [lease EXCEPT !.b = "Unfocused"]
  /\ step' = "check"
  /\ UNCHANGED <<daemon, calls, told, content, owed, inner, reg, target, screen,
                 undone, spent>>

\* acquire asks whether the switch stuck: if not, EngineState::taken and another
\* switch, or a refusal.
CheckSwitch ==
  /\ step = "check"
  /\ IF ~daemon.conn
     THEN step' = "taken" /\ reg' = [reg EXCEPT !.unavailable = TRUE] /\ UNCHANGED <<lease, owed>>
     ELSE IF daemon.engine = "myna"
     THEN step' = "settle" /\ UNCHANGED <<reg, lease, owed>>
     ELSE IF reg.switch < SWITCHES
     THEN /\ lease' = Gone /\ owed' = None
          /\ reg' = [reg EXCEPT !.displaced = daemon.engine, !.switch = @ + 1]
          /\ step' = "switch"
     ELSE step' = "taken" /\ UNCHANGED <<reg, lease, owed>>
  /\ UNCHANGED <<daemon, calls, told, content, inner, target, screen, undone, spent>>

\* left_settled, then the refusals of acquire: no field, focus moved, secure.
left_settled ==
  /\ step = "settle" /\ lease.b # "Left"
  /\ step' = IF on_fake \/ ~held_by \/ content THEN "taken" ELSE "open"
  /\ UNCHANGED <<daemon, calls, told, lease, content, owed, inner, reg, target,
                 screen, undone, spent>>

-----------------------------------------------------------------------------
\* IbusTarget.

\* IbusTarget::taken: another engine is global, which ends the lease, what was
\* held for it and the restore.
Lose ==
  /\ lease' = Gone /\ owed' = None
  /\ target' = [target EXCEPT !.held = <<>>, !.held_preedit = FALSE]

\* commit, up to the lease's standing. Only focus lost ends the utterance: a text
\* that fails with the connection is dropped and the controller goes on.
commit ==
  /\ step = "open" /\ target.texts < MaxTexts
  /\ IF ~daemon.conn THEN UNCHANGED <<step, lease, owed, target>>
     ELSE IF daemon.engine # "myna" THEN step' = "ended" /\ Lose
     ELSE /\ step' = "standing"
          /\ target' = [target EXCEPT !.texts = @ + 1, !.op = "commit"]
          /\ UNCHANGED <<lease, owed>>
  /\ UNCHANGED <<daemon, calls, told, content, inner, reg, screen, undone, spent>>

set_preedit ==
  /\ step = "open" /\ spent < MaxEvents
  /\ step' = "standing" /\ target' = [target EXCEPT !.op = "preedit"]
  /\ spent' = spent + 1
  /\ UNCHANGED <<daemon, calls, told, lease, content, owed, inner, reg, screen,
                 undone>>

\* In a queue of writes a commit is its number.
Preedit == 0
HeldPreedit == -1

\* Mutant: what was held is written last first.
Flushed_Reversed(t) == Reverse(t.held) \o (IF t.held_preedit THEN <<HeldPreedit>> ELSE <<>>)

\* What flush writes: the held commits, then the held preedit.
Flushed(t) == t.held \o (IF t.held_preedit THEN <<HeldPreedit>> ELSE <<>>)
This(t) == IF t.op = "commit" THEN t.texts ELSE Preedit

\* IbusTarget::standing, waiting out a blip that came with an activation: hold
\* the write, refuse it, or go on to flush and write.
Stand ==
  /\ step = "standing" /\ standing(lease) # "wait"
  /\ LET s == standing(lease) IN
     /\ step' = CASE s = "Held" -> "writing"
                  [] s = "Lost" /\ target.op = "commit" -> "ended"
                  [] OTHER -> "open"
     /\ target' =
          CASE s = "Held" -> [target EXCEPT !.out = Append(Flushed(target), This(target)),
                                            !.held = <<>>]
            [] s = "Lost" -> [target EXCEPT !.held = <<>>, !.held_preedit = FALSE]
            [] s = "Unsure" /\ target.op = "commit" ->
                 [target EXCEPT !.held = Append(@, target.texts), !.held_preedit = FALSE]
            [] OTHER -> [target EXCEPT !.held_preedit = TRUE]
  /\ UNCHANGED <<daemon, calls, told, lease, content, owed, inner, reg, screen,
                 undone, spent>>

\* Where the last write leaves commit or set_preedit, and release.
AfterWrite == IF Len(target.out) > 1 THEN step
              ELSE IF step = "flushing" THEN "restoring" ELSE "open"

\* Where a failed write leaves commit, set_preedit and release: a commit refused
\* for the focus ends the utterance, one refused by a secure field or failed with
\* the connection drops its text only.
AfterError == CASE step = "flushing" -> "restoring"
                [] step = "writing" /\ target.op = "commit" /\ ~held_by -> "ended"
                [] OTHER -> "open"

\* A commit as it lands: the focus the engine was told of, and whether that is
\* a secure field with no call under way that would say so.
Landed(n) == [n |-> n, at |-> told, leak |-> told \in daemon.secret /\ calls = <<>>]

\* IbusTarget::write: hide the preedit, check the lease and the content type,
\* emit.
Write(n) ==
  LET shows == screen.preedit /\ ~(target.preedit_active /\ held_by)
      ok    == held_by /\ ~content
  IN /\ lease' = [lease EXCEPT !.wrote = @ \/ ok]
     /\ screen' = [text |-> IF ok /\ daemon.conn THEN Append(screen.text, Landed(n))
                            ELSE screen.text,
                   preedit |-> shows]
     /\ step' = IF ok /\ daemon.conn THEN AfterWrite ELSE AfterError
     /\ target' = [target EXCEPT !.preedit_active = FALSE,
                                 !.out = IF ok /\ daemon.conn THEN Tail(@) ELSE <<>>]

\* IbusTarget::show_preedit; a refused or failed one is no error.
show_preedit(from) ==
  LET ok == held_by /\ ~content
  IN /\ lease' = [lease EXCEPT !.wrote = @ \/ ok]
     /\ screen' = [screen EXCEPT !.preedit = @ \/ (ok /\ daemon.conn /\ daemon.engine = "myna")]
     /\ target' = [target EXCEPT !.preedit_active = @ \/ (ok /\ daemon.conn),
                                 !.held_preedit = @ /\ from # HeldPreedit,
                                 !.out = Tail(@)]
     /\ step' = AfterWrite

\* One write of flush or of the call itself; other tasks run between two.
WriteNext ==
  /\ step \in {"writing", "flushing"}
  /\ IF Head(target.out) \in {Preedit, HeldPreedit}
     THEN show_preedit(Head(target.out)) ELSE Write(Head(target.out))
  /\ UNCHANGED <<daemon, calls, told, content, owed, inner, reg, undone, spent>>

\* release, first step: an engine taken is owed nothing.
release ==
  /\ step \in {"open", "ended", "taken"}
  /\ step' = "settling"
  /\ IF daemon.conn /\ daemon.engine # "myna" THEN Lose ELSE UNCHANGED <<lease, owed, target>>
  /\ UNCHANGED <<daemon, calls, told, content, inner, reg, screen, undone, spent>>

\* release waits out any blip and flushes what it held.
ReleaseSettles ==
  /\ step = "settling" /\ standing(lease) \in {"Held", "Lost"}
  /\ IF standing(lease) = "Held"
     THEN /\ step' = IF Flushed(target) = <<>> THEN "restoring" ELSE "flushing"
          /\ target' = [target EXCEPT !.out = Flushed(target), !.held = <<>>]
     ELSE step' = "restoring" /\ target' = target
  /\ UNCHANGED <<daemon, calls, told, lease, content, owed, inner, reg, screen,
                 undone, spent>>

\* Mutant: a lease that was lost restores nothing.
ReleaseRestores_OnlyHeld ==
  /\ step = "restoring"
  /\ lease' = Gone
  /\ LET back == owed # None /\ daemon.conn /\ held_by
         hide == target.preedit_active /\ held_by
     IN /\ daemon' = IF back THEN [daemon EXCEPT !.engine = owed] ELSE daemon
        /\ calls' = calls \o Deactivated(IF back THEN owed ELSE "myna")
        /\ screen' = [text |-> <<>>, preedit |-> screen.preedit /\ ~hide /\ ~back]
  /\ owed' = None /\ target' = NoTarget
  /\ IF reg.unavailable THEN Unavailable ELSE step' = "idle" /\ reg' = NoReg /\ inner' = inner
  /\ UNCHANGED <<told, content, undone, spent>>

\* retire, hide the preedit, reclaim: SetGlobalEngine hands the displaced input
\* method back.
ReleaseRestores ==
  /\ step = "restoring"
  /\ lease' = Gone
  /\ LET back == owed # None /\ daemon.conn
         hide == target.preedit_active /\ held_by
     IN /\ daemon' = IF back THEN [daemon EXCEPT !.engine = owed] ELSE daemon
        /\ calls' = calls \o Deactivated(IF back THEN owed ELSE "myna")
        /\ screen' = [text |-> <<>>, preedit |-> screen.preedit /\ ~hide /\ ~back]
  /\ owed' = None /\ target' = NoTarget
  /\ IF reg.unavailable THEN Unavailable ELSE step' = "idle" /\ reg' = NoReg /\ inner' = inner
  /\ UNCHANGED <<told, content, undone, spent>>

-----------------------------------------------------------------------------
Controller ==
  \/ Acquire \/ reconnect \/ ReadBefore \/ switch \/ SwitchCancelled \/ focus_arrived
  \/ CheckSwitch \/ left_settled \/ commit \/ set_preedit \/ Stand \/ WriteNext
  \/ release \/ ReleaseSettles \/ ReleaseRestores

Timer == WindowEnds \/ GraceEnds

Desktop ==
  \/ \E c \in Contexts : FocusMoves(c)
  \/ EngineTaken \/ DaemonRestarts \/ Activate
  \/ \E f \in Fields : FieldHides(f)

IbusNext == Controller \/ Dispatch \/ Timer \/ ActivationAges \/ Desktop
=============================================================================
