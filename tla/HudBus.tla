------------------------------- MODULE HudBus -------------------------------
(***************************************************************************)
(* How the HUD hears of the daemon (client/myna-hud: bus.rs, the two       *)
(* threads that read its properties, and dbus_consumer.rs, the rules that  *)
(* the GTK thread applies to what they send; what is then on screen is     *)
(* Pill).                                                                  *)
(*                                                                         *)
(* A thread reads in one step and its snapshot is applied in another.  The *)
(* channel between them is unbounded and the GTK thread looks at nothing   *)
(* else of the daemon, so that only the order of what is sent matters: a   *)
(* snapshot is applied when it is sent.  The label of a state is the       *)
(* state's own name; that of idle is empty.                                *)
(***************************************************************************)
EXTENDS Naturals, Sequences

CONSTANTS Showable,  \* the states that are published besides idle
          MaxNames   \* bound: times the daemon starts or ends

VARIABLES
  pub,     \* the daemon: up, the pair it serves, the state it is about to set, and changes
  worker,  \* myna-hud-dbus: at, owner changes to read, and its snapshot
  props,   \* myna-hud-props: whether it subscribed, a push to read, and its snapshot
  cons,    \* DictationService: available, last_state
  unseen   \* what changed while a thread did not look: "name", "value" (history)

Pair(state) == [state |-> state, label |-> IF state = "idle" THEN "" ELSE state]
Blank == [state |-> "", label |-> ""]  \* a failed read, or nothing applied yet

HudBusInit ==
  /\ \E up \in BOOLEAN :
       pub = [up |-> up, served |-> Pair("idle"), next |-> {}, changes |-> 0]
  /\ worker = [at |-> "start", names |-> <<>>, hand |-> {}]
  /\ props = [on |-> FALSE, push |-> FALSE, hand |-> {}]
  /\ cons = [available |-> FALSE, last |-> Blank]
  /\ unseen = {}

-----------------------------------------------------------------------------
\* The daemon.  Each property is set and pushed on its own, the label first.

push ==
  /\ props' = [props EXCEPT !.push = @ \/ props.on]
  /\ unseen' = IF worker.hand = {} /\ (props.on \/ worker.at = "start")
               THEN unseen \ {"value"} ELSE unseen \cup {"value"}
  /\ UNCHANGED <<worker, cons>>

publish(state) ==
  /\ pub.up /\ pub.next = {} /\ pub.served # Pair(state)
  /\ pub' = [pub EXCEPT !.served.label = Pair(state).label, !.next = {state}]
  /\ push

PublishState ==
  /\ \E state \in pub.next :
       pub' = [pub EXCEPT !.served.state = state, !.next = {}]
  /\ push

\* The level pump's pushes carry no state, and are read like any other.
publish_levels == pub.up /\ push /\ UNCHANGED pub

\* It starts, idle, or ends.
NameChanges ==
  /\ pub.changes < MaxNames
  /\ pub' = [up |-> ~pub.up, served |-> Pair("idle"), next |-> {}, changes |-> pub.changes + 1]
  /\ worker' = IF worker.at = "watching"
               THEN [worker EXCEPT !.names = Append(@, ~pub.up)] ELSE worker
  /\ unseen' = IF worker.hand = {} /\ props.hand = {} /\ worker.at \in {"start", "watching"}
               THEN {} ELSE {"name", "value"}
  /\ UNCHANGED <<props, cons>>

-----------------------------------------------------------------------------
\* DictationService.  A pair that differs from the last is applied.

name_appeared(p) == cons' = [available |-> TRUE, last |-> p]

properties_changed(p) ==
  cons' = IF cons.available THEN [cons EXCEPT !.last = p] ELSE cons

name_vanished == cons' = [available |-> FALSE, last |-> Pair("idle")]

-----------------------------------------------------------------------------
\* The threads.

\* run, up to its subscriptions: a daemon that is there is read before either.
FirstRead ==
  /\ worker.at = "start"
  /\ worker' = IF pub.up THEN [worker EXCEPT !.at = "first", !.hand = {pub.served}]
               ELSE [worker EXCEPT !.at = "spawned"]
  /\ UNCHANGED <<pub, props, cons, unseen>>

Subscribe ==
  /\ worker.at = "spawned" /\ worker' = [worker EXCEPT !.at = "watching"]
  /\ UNCHANGED <<pub, props, cons, unseen>>

PropsSubscribe ==
  /\ worker.at \in {"spawned", "watching"} /\ ~props.on
  /\ props' = [props EXCEPT !.on = TRUE]
  /\ UNCHANGED <<pub, worker, cons, unseen>>

\* The loop over owner changes: of a daemon that is gone again, a blank snapshot.
OwnerChanged ==
  /\ worker.hand = {} /\ worker.names # <<>>
  /\ LET w == [worker EXCEPT !.names = Tail(@)] IN
     IF Head(worker.names)
     THEN /\ worker' = [w EXCEPT !.hand = {IF pub.up THEN pub.served ELSE Blank}]
          /\ UNCHANGED cons
     ELSE worker' = w /\ name_vanished
  /\ UNCHANGED <<pub, props, unseen>>

SendAppeared ==
  /\ \E p \in worker.hand : name_appeared(p)
  /\ worker' = [worker EXCEPT !.hand = {}, !.at = IF @ = "first" THEN "spawned" ELSE @]
  /\ UNCHANGED <<pub, props, unseen>>

\* The loop over pushes reads the whole set again.
Pushed ==
  /\ props.push /\ props.hand = {}
  /\ props' = [props EXCEPT !.push = FALSE, !.hand = IF pub.up THEN {pub.served} ELSE {}]
  /\ UNCHANGED <<pub, worker, cons, unseen>>

SendProperties ==
  /\ \E p \in props.hand : properties_changed(p)
  /\ props' = [props EXCEPT !.hand = {}]
  /\ UNCHANGED <<pub, worker, unseen>>

HudBusNext ==
  \/ \E state \in Showable \cup {"idle"} : publish(state)
  \/ PublishState \/ publish_levels \/ NameChanges
  \/ FirstRead \/ Subscribe \/ PropsSubscribe
  \/ OwnerChanged \/ SendAppeared \/ Pushed \/ SendProperties

-----------------------------------------------------------------------------
\* Types.
TypeOK ==
  /\ pub.served.state \in Showable \cup {"idle"} /\ pub.next \subseteq Showable \cup {"idle"}
  /\ worker.at \in {"start", "first", "spawned", "watching"}

\* Nothing is in a thread's hand or before it, and nothing half published.
Quiet ==
  /\ pub.next = {} /\ worker.hand = {} /\ worker.names = <<>> /\ worker.at = "watching"
  /\ ~props.push /\ props.hand = {} /\ props.on

\* Whichever thread was faster, and through every end and start of the daemon, the
\* HUD comes to what the daemon serves, both halves of it, and to idle without a
\* daemon; but for a change made before the threads subscribed, or while one had
\* an older snapshot in its hand.
PillFollows ==
  Quiet /\ unseen = {} =>
    /\ cons.available = pub.up
    /\ pub.up => cons.last = pub.served
    /\ ~pub.up /\ cons.last # Blank => cons.last = Pair("idle")
=============================================================================
