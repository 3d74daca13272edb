-------------------------------- MODULE Shell --------------------------------
(***************************************************************************)
(* The GNOME Shell extension (extensions/myna-shell: extension.js, host.js *)
(* and the rules it composes, respawn.js, registration.js and              *)
(* dictationProxy.js).  It runs the HUD renderer while the daemon owns its *)
(* bus name, adopts the renderer's window and promises the daemon a pill.  *)
(*                                                                         *)
(* The extension is one thread.  What it learns late: the proxy it made,   *)
(* the name's owner, the renderer's exit, its timer.  What it says late:   *)
(* its calls, which reach whichever daemon owns the name when they arrive. *)
(***************************************************************************)
EXTENDS Naturals, Sequences, FiniteSets

CONSTANTS Renderers,   \* processes; one that is gone may be launched again
          Budget,      \* RESTART_BUDGET
          MaxOwners,   \* bound: times the daemon starts or stops
          MaxEnables   \* bound: times the extension is enabled

VARIABLES
  ext,     \* OverlayHost, its DictationProxy and PillRegistration
  enables, \* times the extension was enabled
  bus,     \* the daemon: up, owner changes not yet delivered, calls not yet
           \* delivered, whether it has the extension's registration, and changes
  procs,   \* the renderers: "none", "running", "killed" by the host, "exited"
  waits,   \* of _watchExit's waits, the ones neither answered nor cancelled
  wins     \* their windows: "none", "created", "docked" once dock-typed, "overlay"
           \* once adopted, "stray" when mapped and not

\* proxy: "none", "making", "live"; present: its name owner; child, window: the
\* renderer the host has and the one whose window it adopted, if any.
Disabled == [on |-> FALSE, starting |-> FALSE, proxy |-> "none", present |-> FALSE,
             registered |-> FALSE, dormant |-> FALSE, failures |-> 0, timer |-> FALSE,
             child |-> {}, window |-> {}]

ShellInit ==
  /\ ext = Disabled /\ enables = 0
  /\ bus = [up |-> FALSE, news |-> <<>>, calls |-> <<>>, pill |-> FALSE, changes |-> 0]
  /\ procs = [r \in Renderers |-> "none"] /\ waits = {}
  /\ wins = [r \in Renderers |-> "none"]

-----------------------------------------------------------------------------
\* What a callback does is a host, the calls it sends, and what it does to its
\* renderer: nothing, a launch or a kill.

Did(h, calls, renderer) == [h |-> h, calls |-> calls, renderer |-> renderer]

register(h) == IF h.registered THEN <<>> ELSE <<"RegisterClient">>
unregister(h) == IF h.registered THEN <<"UnregisterClient">> ELSE <<>>

giveUp(h) == Did([h EXCEPT !.dormant = TRUE, !.registered = FALSE], unregister(h), "keep")

\* planRestart and _scheduleRestart, for an exit or a failed launch.
scheduleRestart(h, healthy) ==
  LET failures == (IF healthy THEN 0 ELSE h.failures) + 1
      g == [h EXCEPT !.failures = failures] IN
  IF failures > Budget THEN giveUp(g) ELSE Did([g EXCEPT !.timer = TRUE], <<>>, "keep")

\* _spawn: there is no renderer to launch or none started, launching throws, or it
\* is launched.
spawn(h, how) ==
  CASE how = "missing" -> giveUp(h)
    [] how = "throws" -> scheduleRestart(h, FALSE)
    [] how = "launched" -> Did(h, <<>>, "launch")

\* _stopRenderer: the wait is cancelled before the kill, so the exit is expected.
stopRenderer(h) == Did([h EXCEPT !.timer = FALSE, !.child = {}, !.window = {}], <<>>, "kill")

onDaemonAppeared(h, how) ==
  LET fresh == [h EXCEPT !.dormant = FALSE, !.failures = 0, !.registered = TRUE]
      d == spawn(fresh, how) IN
  IF h.child # {} \/ h.timer THEN Did(h, <<>>, "keep")
  ELSE [d EXCEPT !.calls = register(h) \o @]

onDaemonVanished(h) ==
  LET f == [h EXCEPT !.registered = FALSE] IN
  IF h.child = {} /\ ~h.timer THEN Did(f, <<>>, "keep") ELSE stopRenderer(f)

onDaemonOwnerChanged(h, how) ==
  IF h.present THEN onDaemonAppeared(h, how) ELSE onDaemonVanished(h)

\* The effects of a callback: a launch takes a process that is free, no matter
\* which, and watches its exit.
Free == {r \in Renderers : procs[r] = "none" /\ wins[r] = "none"}

Do(d) ==
  /\ CASE d.renderer = "keep" -> ext' = d.h /\ UNCHANGED <<procs, waits>>
       [] d.renderer = "kill" ->
            /\ ext' = d.h /\ waits' = waits \ ext.child
            /\ procs' = [r \in Renderers |->
                 IF r \notin ext.child THEN procs[r]
                 ELSE IF procs[r] = "running" THEN "killed" ELSE "none"]
       [] d.renderer = "launch" ->
            LET r == CHOOSE r \in Free : TRUE IN
            /\ Free # {}
            /\ ext' = [d.h EXCEPT !.child = {r}]
            /\ procs' = [procs EXCEPT ![r] = "running"]
            /\ waits' = waits \cup {r}
  /\ UNCHANGED wins

Send(d, news) == bus' = [bus EXCEPT !.calls = @ \o d.calls, !.news = news]

\* _watchDaemon: the host follows the proxy once there is one and it is enabled.
Attached(h) == h.on /\ ~h.starting /\ h.proxy = "live"
Follow(h, how) == IF Attached(h) THEN onDaemonOwnerChanged(h, how) ELSE Did(h, <<>>, "keep")

Launches == {"missing", "throws", "launched"}

-----------------------------------------------------------------------------
\* The Shell enables the extension, also before its own startup is complete, and
\* disables it when the screen locks.

enable(starting) ==
  /\ ~ext.on /\ enables < MaxEnables
  /\ ext' = [Disabled EXCEPT !.on = TRUE, !.starting = starting, !.proxy = "making"]
  /\ enables' = enables + 1
  /\ UNCHANGED <<bus, procs, waits, wins>>

startupComplete(how) ==
  LET d == Follow([ext EXCEPT !.starting = FALSE], how) IN
  /\ ext.on /\ ext.starting
  /\ Do(d) /\ Send(d, bus.news)
  /\ UNCHANGED enables

\* The proxy is made, with the owner of the name at that moment; or it is not,
\* and the host never hears of a daemon.
ProxyMade(how) ==
  LET d == Follow([ext EXCEPT !.proxy = "live", !.present = bus.up], how) IN
  /\ ext.proxy = "making"
  /\ \/ Do(d) /\ Send(d, <<>>)
     \/ ext' = [ext EXCEPT !.proxy = "none"] /\ UNCHANGED <<bus, procs, waits, wins>>
  /\ UNCHANGED enables

\* The host unregisters and stops its renderer, then the proxy is dropped.
disable ==
  LET d == [stopRenderer(ext) EXCEPT !.h = Disabled, !.calls = unregister(ext)] IN
  /\ ext.on
  /\ Do(d) /\ Send(d, <<>>)
  /\ UNCHANGED enables

-----------------------------------------------------------------------------
\* What the host hears.

\* notify::g-name-owner.
OwnerNotified(how) ==
  /\ bus.news # <<>>
  /\ LET d == Follow([ext EXCEPT !.present = Head(bus.news)], how) IN
     Do(d) /\ Send(d, Tail(bus.news))
  /\ UNCHANGED enables

\* _watchExit, of a wait nobody cancelled: any exit is an incident, and one after
\* HEALTHY_UPTIME is the first.
onRendererExited(r, healthy) ==
  LET d == scheduleRestart([ext EXCEPT !.child = {}, !.window = {}], healthy) IN
  /\ r \in waits /\ procs[r] = "exited"
  /\ ext' = d.h /\ Send(d, bus.news)
  /\ waits' = waits \ {r} /\ procs' = [procs EXCEPT ![r] = "none"]
  /\ UNCHANGED <<enables, wins>>

\* The daemon may have gone inside the backoff.
RestartTimer(how) ==
  LET h == [ext EXCEPT !.timer = FALSE]
      d == IF h.present THEN spawn(h, how) ELSE Did(h, <<>>, "keep") IN
  /\ ext.timer
  /\ Do(d) /\ Send(d, bus.news)
  /\ UNCHANGED enables

\* The compositor's windows: one of another client, or a second one, is left as
\* it is.  A renderer has one window at a time, and hides it when idle.
Ours(r) == r \in ext.child /\ ext.window = {}

onWindowCreated(r) ==
  /\ procs[r] = "running" /\ wins[r] = "none"
  /\ wins' = [wins EXCEPT ![r] = IF Ours(r) THEN "docked" ELSE "created"]
  /\ UNCHANGED <<ext, enables, bus, procs, waits>>

onWindowMapped(r) ==
  /\ wins[r] \in {"created", "docked"}
  /\ IF Ours(r)
     THEN /\ ext' = [ext EXCEPT !.window = {r}]
          /\ wins' = [wins EXCEPT ![r] = IF @ = "docked" THEN "overlay" ELSE "stray"]
     ELSE wins' = [wins EXCEPT ![r] = "stray"] /\ UNCHANGED ext
  /\ UNCHANGED <<enables, bus, procs, waits>>

onWindowUnmanaged(r) ==
  /\ wins[r] # "none"
  /\ wins' = [wins EXCEPT ![r] = "none"]
  /\ ext' = [ext EXCEPT !.window = @ \ {r}]
  /\ UNCHANGED <<enables, bus, procs, waits>>

-----------------------------------------------------------------------------
\* The daemon, the bus and the renderers.

\* A daemon that starts has nobody's registration.
DaemonChanges ==
  /\ bus.changes < MaxOwners
  /\ bus' = [bus EXCEPT !.up = ~@, !.pill = FALSE, !.changes = @ + 1,
                        !.news = IF ext.proxy = "live" THEN Append(@, ~bus.up) ELSE @]
  /\ UNCHANGED <<ext, enables, procs, waits, wins>>

CallArrives ==
  /\ bus.calls # <<>>
  /\ bus' = [bus EXCEPT !.calls = Tail(@),
                        !.pill = bus.up /\ Head(bus.calls) = "RegisterClient"]
  /\ UNCHANGED <<ext, enables, procs, waits, wins>>

RendererExits(r) ==
  /\ procs[r] = "running"
  /\ procs' = [procs EXCEPT ![r] = "exited"]
  /\ UNCHANGED <<ext, enables, bus, waits, wins>>

RendererDies(r) ==
  /\ procs[r] = "killed"
  /\ procs' = [procs EXCEPT ![r] = "none"]
  /\ UNCHANGED <<ext, enables, bus, waits, wins>>

Hears ==
  \E how \in Launches :
    startupComplete(how) \/ ProxyMade(how) \/ OwnerNotified(how) \/ RestartTimer(how)
Told == \E r \in Renderers, healthy \in BOOLEAN : onRendererExited(r, healthy)
Reaped == \E r \in Renderers : RendererDies(r)
WindowGone == \E r \in Renderers : procs[r] = "none" /\ onWindowUnmanaged(r)

\* There is a renderer to show what the toasts no longer do.
Pilled == \E r \in Renderers : procs[r] = "running"

ShellNext ==
  \/ \E starting \in BOOLEAN : enable(starting)
  \/ disable \/ Hears \/ Told
  \/ \E r \in Renderers :
       onWindowCreated(r) \/ onWindowMapped(r) \/ onWindowUnmanaged(r) \/ RendererExits(r)
  \/ DaemonChanges \/ CallArrives \/ Reaped

-----------------------------------------------------------------------------
\* Types, with the bound of the restarts.
TypeOK ==
  /\ ext.failures \in 0..Budget + 1 /\ Cardinality(ext.child) <= 1
  /\ procs \in [Renderers -> {"none", "running", "killed", "exited"}]
  /\ wins \in [Renderers -> {"none", "created", "docked", "overlay", "stray"}]
  /\ waits = ext.child /\ ext.window \subseteq ext.child

\* A renderer runs only as the host's one child, and the host has a child or a
\* restart pending only while it is enabled and sees the daemon on the bus: none
\* is left behind by a disable, a vanished daemon or a crash at the same moment.
OneRenderer ==
  /\ \A r \in Renderers : procs[r] = "running" => ext.child = {r}
  /\ ext.child # {} \/ ext.timer => Attached(ext) /\ ext.present
  /\ ~(ext.child # {} /\ ext.timer)

\* The running renderer's window, shown, hidden and shown again, is adopted each
\* time it is mapped, and was a dock before that, so that it never took the focus.
WindowKept ==
  \A r \in ext.child :
    /\ wins[r] # "stray" /\ (wins[r] = "overlay" <=> ext.window = {r})
    /\ wins[r] # "created"

\* The extension is registered only while a renderer runs or will, and once its
\* calls and the news have arrived the daemon's registry says the same.
PillPromised ==
  /\ ext.registered => ext.child # {} \/ ext.timer
  /\ Attached(ext) /\ bus.up /\ bus.news = <<>> /\ bus.calls = <<>> =>
       (bus.pill <=> ext.registered)
=============================================================================
