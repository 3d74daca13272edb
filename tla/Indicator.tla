----------------------------- MODULE Indicator -----------------------------
(***************************************************************************)
(* How the daemon shows its state (client/myna-desktop/src/indicator):     *)
(* DynamicIndicator publishes it on the bus (DbusIndicator) and, unless a  *)
(* HUD is registered, raises a toast (NotifyIndicator).  Each of the two   *)
(* dismisses by a task of its own what nobody replaced.                    *)
(*                                                                         *)
(* A task that is aborted ends where it next waits.  The runtime has       *)
(* several threads, so one that was past its sleep may still do the rest,  *)
(* or part of it: it goes on as a stray.  The label of a state is the      *)
(* state's own name; that of idle is empty.                                *)
(***************************************************************************)
VARIABLES
  wanted,    \* the IndicatorState the controller set last, and whether it is done
  last,     \* DbusIndicator's last, "none" before the first
  served,   \* the pair on the bus
  locked,   \* who holds the bus: "none", "set", "hide", "stray"
  hide,     \* pending_hide, the task of the state now shown: where it is, and its label
  stray,    \* one that was aborted and still runs
  toast,    \* NotifyIndicator: the toast it has, the one on screen, its pending_hide
  torn      \* set in the middle of a dismissal, and not published whole since (history)

States == {"Hidden", "Recording", "notice", "error"}  \* the later phases are like Recording
Transient == {"notice", "error"}
None == "none"

Pair(state) == [state |-> state, label |-> IF state \in {"idle", None} THEN "" ELSE state]

map_state(s, ready) ==
  CASE s = "Hidden" -> "idle"
    [] s = "Recording" -> IF ready THEN "recording" ELSE "loading"
    [] OTHER -> s

Asleep == [at |-> None, label |-> ""]

IndicatorInit ==
  /\ wanted = [state |-> "Hidden", at |-> "done", wire |-> "idle"]
  /\ last = Pair(None) /\ served = Pair("idle") /\ locked = None
  /\ hide = Asleep /\ stray = Asleep
  /\ toast = [live |-> None, open |-> None, hide |-> None]
  /\ torn = FALSE

-----------------------------------------------------------------------------
\* DbusIndicator::set_state.

\* cancel_auto_hide, and publish up to the bus: a repeated pair is not published.
\* Readiness is the session's, which changes at any time.  Bound: one stray at a
\* time, which has a few instructions left.
set_state(s, ready) ==
  LET wire == map_state(s, ready)  p == Pair(wire) IN
  /\ wanted.at = "done"
  /\ hide.at \in {None, "sleeping"} \/ stray.at = None
  /\ wanted' = [state |-> s, wire |-> wire, at |-> IF last = p THEN "published" ELSE "label"]
  /\ stray' = IF hide.at \in {None, "sleeping"} THEN stray ELSE hide
  /\ locked' = IF locked = "hide" THEN "stray" ELSE locked
  /\ torn' = (hide.at \notin {None, "sleeping"} \/ stray.at # None \/ (torn /\ last = p))
  /\ hide' = Asleep /\ last' = p
  /\ UNCHANGED <<served, toast>>

PublishLabel ==
  /\ wanted.at = "label" /\ locked = None /\ locked' = "set"
  /\ served' = [served EXCEPT !.label = Pair(wanted.wire).label]
  /\ wanted' = [wanted EXCEPT !.at = "state"]
  /\ UNCHANGED <<last, hide, stray, toast, torn>>

PublishState ==
  /\ wanted.at = "state" /\ locked' = None
  /\ served' = [served EXCEPT !.state = wanted.wire]
  /\ wanted' = [wanted EXCEPT !.at = "published"]
  /\ UNCHANGED <<last, hide, stray, toast, torn>>

schedule_auto_hide ==
  IF wanted.wire \in Transient
  THEN [at |-> "sleeping", label |-> Pair(wanted.wire).label] ELSE hide

-----------------------------------------------------------------------------
\* NotifyIndicator::set_state, with what DynamicIndicator hands it: Hidden while a
\* client is registered.  Notify may be refused; a refused replacement leaves the
\* old toast up.

\* pending_hide, which a task that is done leaves as it is.
pending(t) == t.hide \in {"sleeping", "closing", "closed"}

\* A task that already closes goes on, until the next is scheduled: its toast may
\* be the one that was replaced.
abort_pending(t) == IF t.hide \in {"closing", "stray"} THEN "stray" ELSE None

Replaced(s, accepted) ==
  LET t == IF accepted THEN [toast EXCEPT !.live = s, !.open = s] ELSE toast IN
  [t EXCEPT !.hide =
     IF s = "notice" /\ t.live # None THEN "sleeping" ELSE abort_pending(toast)]

set_toast(clients) ==
  LET s == IF clients THEN "Hidden" ELSE wanted.state IN
  /\ wanted.at = "published"
  /\ wanted' = [wanted EXCEPT !.at = "done"]
  /\ hide' = schedule_auto_hide
  /\ IF s = "Hidden"
     THEN toast' = IF pending(toast) THEN toast
                   ELSE [toast EXCEPT !.live = None, !.open = None]
     ELSE IF s \notin Transient /\ toast.live = s THEN toast' = toast
     ELSE \E accepted \in BOOLEAN : toast' = Replaced(s, accepted)
  /\ UNCHANGED <<last, served, locked, stray, torn>>

\* The hold ends; the toast is closed; or the user closes it.  pending_hide stays.
ToastHeld ==
  /\ toast.hide = "sleeping" /\ toast' = [toast EXCEPT !.hide = "closing"]
  /\ UNCHANGED <<wanted, last, served, locked, hide, stray, torn>>

ToastClosed ==
  /\ toast.hide \in {"closing", "stray"}
  /\ toast' = [toast EXCEPT !.open = None, !.hide = IF @ = "closing" THEN "closed" ELSE None]
  /\ UNCHANGED <<wanted, last, served, locked, hide, stray, torn>>

UserCloses ==
  /\ toast.open # None /\ toast' = [toast EXCEPT !.open = None]
  /\ UNCHANGED <<wanted, last, served, locked, hide, stray, torn>>

-----------------------------------------------------------------------------
\* The auto-dismiss of schedule_auto_hide, by the task t that who is: it asks whether
\* its state is still the last, then has the bus for both properties, then says so
\* in last.

Woken(t) ==
  /\ t.at = "sleeping"
  /\ IF last.state \in Transient /\ last.label = t.label
     THEN hide' = [t EXCEPT !.at = "label"] ELSE hide' = Asleep
  /\ UNCHANGED <<served, locked, last>>

HideLabel(t, who) ==
  /\ t.at = "label" /\ locked = None /\ locked' = who
  /\ served' = [served EXCEPT !.label = ""]
  /\ UNCHANGED last

HideState(t) ==
  /\ t.at = "state" /\ locked' = None
  /\ served' = [served EXCEPT !.state = "idle"]
  /\ UNCHANGED last

HideLast(t) ==
  /\ t.at = "last" /\ last' = Pair("idle")
  /\ UNCHANGED <<served, locked>>

After(t) ==
  CASE t.at = "label" -> [t EXCEPT !.at = "state"]
    [] t.at = "state" -> [t EXCEPT !.at = "last"]
    [] OTHER -> Asleep

AutoHide ==
  /\ \/ Woken(hide)
     \/ /\ HideLabel(hide, "hide") \/ HideState(hide) \/ HideLast(hide)
        /\ hide' = After(hide)
  /\ UNCHANGED <<wanted, stray, toast, torn>>

StrayHide ==
  /\ HideLabel(stray, "stray") \/ HideState(stray) \/ HideLast(stray)
  /\ stray' = After(stray)
  /\ UNCHANGED <<wanted, hide, toast, torn>>

\* The abort, wherever it waits; what it holds is released.
StrayEnds ==
  /\ stray.at # None /\ stray' = Asleep
  /\ locked' = IF locked = "stray" THEN None ELSE locked
  /\ UNCHANGED <<wanted, last, served, hide, toast, torn>>

IndicatorNext ==
  \/ \E s \in States, ready \in BOOLEAN : set_state(s, ready)
  \/ PublishLabel \/ PublishState
  \/ \E clients \in BOOLEAN : set_toast(clients)
  \/ ToastHeld \/ ToastClosed \/ UserCloses
  \/ AutoHide \/ StrayHide \/ StrayEnds

-----------------------------------------------------------------------------
\* What the indicator promises: the bus says what the controller set, until that
\* is dismissed, and no toast is left behind.

\* Types.
TypeOK ==
  /\ wanted.at \in {"label", "state", "published", "done"}
  /\ hide.at \in {None, "sleeping", "label", "state", "last"}
  /\ stray.at \in {None, "label", "state", "last"}
  /\ toast.hide \in {None, "sleeping", "closing", "closed", "stray"}

\* Neither the controller nor a dismissal is publishing.
Settled == wanted.at = "done" /\ hide.at \in {None, "sleeping"} /\ stray.at = None

\* The bus shows the state the controller set last, or idle once a problem was
\* dismissed, and it shows what the next state is compared with: none is taken
\* for a repetition of what is no longer shown.  The exception is a state set in
\* the middle of a dismissal, until the next is published.
Published ==
  Settled /\ ~torn =>
    /\ served = (IF last.state = None THEN Pair("idle") ELSE last)
    /\ \/ served = Pair(wanted.wire)
       \/ wanted.wire \in Transient /\ hide = Asleep /\ served = Pair("idle")

\* A toast on screen is the one the next state replaces or closes, whatever was
\* refused, closed by the user or left to its hold before.
NoToastLeft == toast.open # None => toast.live # None
=============================================================================
