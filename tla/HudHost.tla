------------------------------- MODULE HudHost -------------------------------
(***************************************************************************)
(* The supervisor of the HUD on desktops without the shell extension       *)
(* (client/myna-config/src/hud_host: machine.rs, the rules, and run.rs,    *)
(* which feeds them), with the daemon's registry of HUD clients            *)
(* (client/myna-desktop/src/dbus/serve.rs) that it and the HUD enter: the  *)
(* daemon shows toasts only while the registry is empty                    *)
(* (indicator/dynamic.rs).                                                 *)
(*                                                                         *)
(* The host learns of the daemon's name, of the HUD's exit and of its      *)
(* timers later than they happen; its calls reach whichever daemon owns    *)
(* the name when they are made.                                            *)
(***************************************************************************)
EXTENDS Naturals, Sequences

CONSTANTS RestartBudget,  \* RESTART_BUDGET
          MaxDaemon       \* bound: times the daemon starts or stops

VARIABLES
  up,       \* the daemon owns its bus name
  clients,  \* its ClientRegistry: "host", "hud"
  news,     \* name owner changes not yet delivered to the host
  changes,  \* starts and stops of the daemon so far
  host,     \* "running", "quitting", "ended"
  machine,  \* struct Machine
  hud,      \* the process: "none", "starting", "up" once it registered, "dead"
            \* until the host is told
  code,     \* what it exited with
  armed,    \* the timers set, of "restart" and "kill"
  doubled   \* a HUD was spawned beside another (history)

HudHostInit ==
  /\ up = FALSE /\ clients = {} /\ news = <<>> /\ changes = 0
  /\ host = "running"
  /\ machine = [owned |-> FALSE, child |-> "None", then_start |-> FALSE, failures |-> 0,
                refused |-> FALSE, dormant |-> FALSE, registered |-> FALSE]
  /\ hud = "none" /\ code = "none" /\ armed = {} /\ doubled = FALSE

has_child(s) == s.child \in {"Running", "Stopping"}
startable(s) == s.owned /\ ~s.refused /\ ~s.dormant

-----------------------------------------------------------------------------
\* Machine: each rule gives the machine after it and the actions to perform.

Then(s, actions) == [m |-> s, actions |-> actions]

unregister(s) == IF s.registered THEN <<"Unregister">> ELSE <<>>

name_owned(s) ==
  LET o == [s EXCEPT !.owned = TRUE] IN
  IF s.owned THEN Then(s, <<>>)
  ELSE IF ~startable(o) THEN Then(o, <<>>)
  ELSE Then([o EXCEPT !.registered = TRUE, !.then_start = (s.child = "Stopping")],
            IF s.child = "None" THEN <<"Register", "Spawn">> ELSE <<"Register">>)

\* A new lifetime of the daemon is a fresh incident.
name_lost(s) ==
  LET l == [s EXCEPT !.owned = FALSE, !.registered = FALSE, !.failures = 0,
                     !.dormant = FALSE, !.then_start = FALSE] IN
  IF ~s.owned THEN Then(s, <<>>)
  ELSE CASE s.child = "Running" ->
              Then([l EXCEPT !.child = "Stopping"], <<"Terminate", "ArmKill">>)
         [] s.child = "Backoff" -> Then([l EXCEPT !.child = "None"], <<"CancelRestart">>)
         [] OTHER -> Then(l, <<>>)

\* Shutdown withdraws the registration first: the daemon may still be up.
Shutdown(s) ==
  LET lost == name_lost(s)
  IN Then([lost.m EXCEPT !.registered = FALSE], unregister(s) \o lost.actions)

\* Mutant: giving up leaves the registration.
fail_StaysRegistered(s) ==
  LET f == [s EXCEPT !.failures = @ + 1] IN
  IF f.failures > RestartBudget THEN Then([f EXCEPT !.dormant = TRUE], <<>>)
  ELSE Then([f EXCEPT !.child = "Backoff"], <<"ArmRestart">>)

\* One more consecutive failure: back off, or give up.
fail(s) ==
  LET f == [s EXCEPT !.failures = @ + 1] IN
  IF f.failures > RestartBudget
  THEN Then([f EXCEPT !.dormant = TRUE, !.registered = FALSE], unregister(s))
  ELSE Then([f EXCEPT !.child = "Backoff"], <<"ArmRestart">>)

exited(s, status) ==
  LET n == [s EXCEPT !.child = "None"] IN
  CASE s.child = "Stopping" ->
         Then([n EXCEPT !.failures = 0, !.then_start = FALSE],
              IF s.then_start /\ startable(s) THEN <<"CancelKill", "Spawn">>
              ELSE <<"CancelKill">>)
    [] s.child = "Running" /\ status = "cannot_host" ->
         Then([n EXCEPT !.refused = TRUE, !.registered = FALSE], unregister(s))
    [] s.child = "Running" /\ status # "cannot_host" ->
         fail(IF status = "healthy" THEN [n EXCEPT !.failures = 0] ELSE n)
    [] s.child = "None" /\ startable(s) -> fail(s)
    [] OTHER -> Then(s, <<>>)

RestartDue(s) ==
  IF s.child = "Backoff" /\ s.owned THEN Then([s EXCEPT !.child = "None"], <<"Spawn">>)
  ELSE Then(s, <<>>)

KillDue(s) == Then(s, IF s.child = "Stopping" THEN <<"Kill">> ELSE <<>>)

-----------------------------------------------------------------------------
\* feed performs the rule's actions in order, Spawn last.

Does(r, a) == \E i \in DOMAIN r.actions : r.actions[i] = a

\* tell_daemon: the call reaches the daemon there is, if any.
tell_daemon(r) ==
  clients' = IF Does(r, "Unregister") THEN clients \ {"host"}
             ELSE IF up /\ Does(r, "Register") THEN clients \cup {"host"} ELSE clients

timers(r, left) ==
  armed' = (left \ ((IF Does(r, "CancelRestart") THEN {"restart"} ELSE {})
                      \cup (IF Does(r, "CancelKill") THEN {"kill"} ELSE {})))
           \cup (IF Does(r, "ArmRestart") THEN {"restart"} ELSE {})
           \cup (IF Does(r, "ArmKill") THEN {"kill"} ELSE {})

\* What a rule comes to when its spawn succeeds or fails; a failed one ends with
\* its failure.
Outcomes(r) ==
  IF Does(r, "Spawn")
  THEN {Then([r.m EXCEPT !.child = "Running"], r.actions),
        LET f == exited(r.m, "none") IN Then(f.m, r.actions \o f.actions)}
  ELSE {r}
Spawned(r) == Does(r, "Spawn") /\ r.m.child = "Running"

\* h is the process when the rule is fed, left the timers still set, leaving
\* whether the host quits once it has no child.
feed(rule, h, left, leaving) ==
  \E r \in Outcomes(rule) :
    /\ machine' = r.m /\ tell_daemon(r) /\ timers(r, left)
    /\ hud' = IF Spawned(r) THEN "starting"
              ELSE IF Does(r, "Kill") /\ h # "none" THEN "dead" ELSE h
    /\ doubled' = (doubled \/ (Spawned(r) /\ h # "none"))
    /\ host' = IF ~leaving THEN host ELSE IF has_child(r.m) THEN "quitting" ELSE "ended"

Leaving == host = "quitting"

\* bus_watch_name: a name that appears is ignored by a host that is leaving.
NameChanges ==
  /\ host # "ended" /\ news # <<>>
  /\ news' = Tail(news)
  /\ IF Head(news) = "owned" /\ Leaving
     THEN UNCHANGED <<machine, clients, armed, hud, doubled, host>>
     ELSE feed(IF Head(news) = "owned" THEN name_owned(machine) ELSE name_lost(machine), hud, armed, Leaving)
  /\ UNCHANGED <<up, changes, code>>

\* The wait on the process returns.
Exited ==
  /\ host # "ended" /\ hud = "dead"
  /\ feed(exited(machine, code), "none", armed, Leaving)
  /\ code' = "none"
  /\ UNCHANGED <<up, news, changes>>

Timer(t) ==
  /\ host # "ended" /\ t \in armed
  /\ feed(IF t = "restart" THEN RestartDue(machine) ELSE KillDue(machine), hud, armed \ {t}, Leaving)
  /\ code' = IF hud # hud' /\ hud' = "dead" THEN "signal" ELSE code
  /\ UNCHANGED <<up, news, changes>>

\* end: SIGTERM, SIGINT, or the display of the session is gone.
end ==
  /\ host = "running"
  /\ feed(Shutdown(machine), hud, armed, TRUE)
  /\ UNCHANGED <<up, news, changes, code>>

-----------------------------------------------------------------------------
\* The daemon and the HUD.

\* A daemon that starts has an empty registry.
DaemonChanges ==
  /\ changes < MaxDaemon /\ changes' = changes + 1
  /\ up' = ~up /\ clients' = {}
  /\ news' = Append(news, IF up THEN "lost" ELSE "owned")
  /\ UNCHANGED <<host, machine, hud, code, armed, doubled>>

\* The HUD registers with every daemon it sees.
register_client ==
  /\ up
  /\ hud = "starting" \/ (hud = "up" /\ "hud" \notin clients)
  /\ clients' = clients \cup {"hud"} /\ hud' = "up"
  /\ UNCHANGED <<up, news, changes, host, machine, code, armed, doubled>>

\* It exits by itself or at the SIGTERM, which it need not obey; a run past
\* HEALTHY_UPTIME_MS is one that had registered.
HudExits(status) ==
  /\ hud = "up" \/ (hud = "starting" /\ status # "healthy")
  /\ hud' = "dead" /\ code' = status
  /\ UNCHANGED <<up, clients, news, changes, host, machine, armed, doubled>>

\* remove_if_present: the unique name of a client, or of the HUD before this
\* one, vanished.
remove_if_present(c) ==
  /\ c \in clients
  /\ IF c = "hud" THEN hud # "up" ELSE host = "ended"
  /\ clients' = clients \ {c}
  /\ UNCHANGED <<up, news, changes, host, machine, hud, code, armed, doubled>>

HudHostNext ==
  \/ NameChanges \/ Exited \/ (\E t \in {"restart", "kill"} : Timer(t)) \/ end
  \/ DaemonChanges \/ register_client
  \/ \E status \in {"cannot_host", "healthy", "other"} : HudExits(status)
  \/ \E c \in {"host", "hud"} : remove_if_present(c)

-----------------------------------------------------------------------------
\* What the user sees of a dictation: the HUD's pill or, when none can come, a
\* toast.

\* Types, with the bound of the restarts.
TypeOK ==
  /\ up \in BOOLEAN /\ clients \subseteq {"host", "hud"}
  /\ news \in Seq({"owned", "lost"}) /\ host \in {"running", "quitting", "ended"}
  /\ machine.child \in {"None", "Running", "Stopping", "Backoff"}
  /\ machine.failures \in 0..RestartBudget + 1
  /\ hud \in {"none", "starting", "up", "dead"} /\ armed \subseteq {"restart", "kill"}

\* There is never a second HUD, however the daemon's name flickers while one
\* is being stopped or waits to be restarted.
OneHud == ~doubled /\ (host # "ended" => (has_child(machine) <=> hud # "none"))

\* The host is on the daemon's books only while a pill is there or coming: not
\* once it gave up, was refused, or stops the HUD for good.
NoEmptyPromise ==
  "host" \in clients /\ news = <<>> /\ host = "running" =>
    \/ machine.child \in {"Running", "Backoff"}
    \/ machine.child = "Stopping" /\ machine.then_start
=============================================================================
