-------------------------------- MODULE Parts --------------------------------
(***************************************************************************)
(* Seventeen parts of the system that are checked alone, each against any  *)
(* user of it: the capture side (CaptureMachine), its PipeWire backend     *)
(* (PipeWire), the transport (TransportMachine), the trigger               *)
(* (TriggerMachine), the model's life in the server (Lifecycle), the HUD's *)
(* supervisor (HudHost), the Shell extension that runs the HUD under GNOME *)
(* (Shell), the daemon's process (Daemon), its indicator                   *)
(* (Indicator), the HUD's bus threads (HudBus) and window (Pill), the      *)
(* setup wizard (Onboarding), a row of the settings page                   *)
(* (Preferences), a change of a model applied as root (Apply), the key     *)
(* that dictates (Shortcut), the decode of a region of audio toward the    *)
(* user's keywords (Keywords), and the benchmark of a snap (Sweep). They   *)
(* share nothing, so a behaviour is of one part, chosen at its start, and  *)
(* the others stand still: the state space is the sum of theirs.           *)
(***************************************************************************)
EXTENDS Integers, Sequences, FiniteSets

CONSTANTS RingCap, MaxChunks, InputCap, ControlCap,
          OutCap, EventCap, Ie115, PeerFrames, MaxFrames, MaxItems,
          Backlog, MaxPresses, MaxRepeats,
          Sessions, MaxLoads,
          RestartBudget, MaxDaemon,
          Quanta, Tolerance, Confirm, RtCap, Skips, MaxBuffers, MaxTurns,
          Renderers, Budget, MaxOwners, MaxEnables,
          Models, Streamers, Choices,
          Showable, MaxNames, Visible,
          Snaps, MaxOdd,
          Texts, MaxEdits, MaxElsewhere,
          Pieces, EncFrames, PerFrame, Durations,
          Attempts, MaxVanish,
          Keys, MaxRebinds

ASSUME PartsAssumption ==
  /\ RingCap \in Nat \ {0} /\ MaxChunks \in Nat
  /\ InputCap \in Nat \ {0} /\ ControlCap \in Nat \ {0}
  /\ OutCap \in Nat \ {0} /\ EventCap \in Nat \ {0} /\ MaxFrames \in Nat
  /\ Backlog \in Nat \ {0} /\ MaxItems \in Nat /\ MaxPresses \in Nat /\ MaxLoads \in Nat
  /\ IsFiniteSet(Sessions) /\ "unload" \notin Sessions
  /\ RestartBudget \in Nat /\ MaxDaemon \in Nat
  /\ Quanta \subseteq Nat \ {0} /\ Tolerance \in Nat /\ Confirm \in Nat
  /\ RtCap \in Nat /\ Skips \subseteq Nat /\ MaxBuffers \in Nat /\ MaxTurns \in Nat
  /\ Renderers # {} /\ Budget \in Nat /\ MaxOwners \in Nat /\ MaxEnables \in Nat
  /\ MaxNames \in Nat /\ MaxOdd \in Nat
  /\ "" \in Texts /\ MaxEdits \in Nat /\ MaxElsewhere \in Nat
  /\ {"a", "b"} \subseteq Pieces /\ EncFrames \in Nat /\ PerFrame \in Nat \ {0}
  /\ Durations \subseteq Nat /\ Durations # {}
  /\ Attempts \in Nat \ {0} /\ MaxVanish \in Nat
  /\ "j" \in Keys /\ MaxRebinds \in Nat
  /\ "Model" \in Snaps /\ Snaps \subseteq {"Myna", "Model"}
  /\ Streamers \subseteq Models /\ Choices \subseteq {"None", "Streaming", "Batch"}
  /\ MaxRepeats \in Nat \ {0, 1}  \* a key held into its repeats repeats twice

VARIABLE part  \* the part this behaviour is of

VARIABLES
  captured, ring, ring_done, ring_fault, ring_closed, health, unread, producer,
  verdict, stopped, fate, pump, inputs, control, listening, taken, sent
captureVars ==
  <<captured, ring, ring_done, ring_fault, ring_closed, health, unread, producer,
    verdict, stopped, fate, pump, inputs, control, listening, taken, sent>>

VARIABLES
  outbox, abort, events, activity, pumping, decoded, writing, writer, grace,
  outbound_open, after_commit, wire, frames, answered, sink_held, events_held,
  queued, heard
transportVars ==
  <<outbox, abort, events, activity, pumping, decoded, writing, writer, grace,
    outbound_open, after_commit, wire, frames, answered, sink_held, events_held,
    queued, heard>>

VARIABLES
  rx, missed, since, pressed, candidate, later, streaming,
  down, repeats, presses, edges, dropped
triggerVars ==
  <<rx, missed, since, pressed, candidate, later, streaming,
    down, repeats, presses, edges, dropped>>

VARIABLES
  idle_action, gpu, proc, active, released, idle, monitor, lock, model, loads,
  started, ses, uses, device, on, leftover
lifecycleVars ==
  <<idle_action, gpu, proc, active, released, idle, monitor, lock, model, loads,
    started, ses, uses, device, on, leftover>>

VARIABLES up, clients, news, changes, host, machine, hud, code, armed, doubled
hudVars == <<up, clients, news, changes, host, machine, hud, code, armed, doubled>>

VARIABLES graph, truth, acct, path, shared, rt, poll, sup, ending, at, pushed, owner
pipewireVars ==
  <<graph, truth, acct, path, shared, rt, poll, sup, ending, at, pushed, owner>>

VARIABLES ext, enables, bus, procs, waits, wins
shellVars == <<ext, enables, bus, procs, waits, wins>>

VARIABLES store, cells, stage, read, watcher, shares, visible, asked, overtaken, answer
daemonVars ==
  <<store, cells, stage, read, watcher, shares, visible, asked, overtaken, answer>>

VARIABLES wanted, last, served, locked, hide, stray, toast, torn
indicatorVars == <<wanted, last, served, locked, hide, stray, toast, torn>>

VARIABLES pub, worker, props, cons, unseen
hudBusVars == <<pub, worker, props, cons, unseen>>

VARIABLES given, pill, win
pillVars == <<given, pill, win>>

VARIABLES mach, comp, ui, installs, follower, reading, tail, run, root, setup, known
wizardVars ==
  <<mach, comp, ui, installs, follower, reading, tail, run, root, setup, known>>

VARIABLES kind, disk, seen, row, gate, echoes, field, saves, results, live, hist
prefsVars == <<kind, disk, seen, row, gate, echoes, field, saves, results, live, hist>>

VARIABLES t, emitted_at_frame, tokens, match, lstm, rewind, mode
keywordsVars == <<t, emitted_at_frame, tokens, match, lstm, rewind, mode>>

VARIABLES chg, sys, exe, tok, app
applyVars == <<chg, sys, exe, tok, app>>

VARIABLES desk, dmn, prox, ctl, ask, past
shortcutVars == <<desk, dmn, prox, ctl, ask, past>>

VARIABLES box, tgt, swp, out
sweepVars == <<box, tgt, swp, out>>

vars == <<part, captureVars, transportVars, triggerVars, lifecycleVars, hudVars,
          pipewireVars, shellVars, daemonVars, indicatorVars, hudBusVars, pillVars,
          wizardVars, prefsVars, keywordsVars, applyVars, shortcutVars, sweepVars>>

Cap == INSTANCE CaptureMachine
Tra == INSTANCE TransportMachine
Tri == INSTANCE TriggerMachine
Lif == INSTANCE Lifecycle
Hud == INSTANCE HudHost
Pip == INSTANCE PipeWire
She == INSTANCE Shell
Dae == INSTANCE Daemon
Ind == INSTANCE Indicator
Bus == INSTANCE HudBus
Pil == INSTANCE Pill
Wiz == INSTANCE Onboarding
Prf == INSTANCE Preferences
App == INSTANCE Apply
Sho == INSTANCE Shortcut
Key == INSTANCE Keywords WITH Spellings <- {<<"a", "b">>, <<"a", "a", "b">>}
Swe == INSTANCE Sweep WITH
         Engines <- <<"cpu", "gpu">>, Weights <- <<"small", "large">>,
         Points <- <<[label |-> "int8", modes |-> {"streaming"}, engines |-> {"cpu"}],
                     [label |-> "f32", modes |-> {"streaming"}, engines |-> {"cpu"}]>>

Init ==
  /\ part \in {"capture", "transport", "trigger", "lifecycle", "hud", "pipewire",
             "shell", "daemon", "indicator", "hudbus", "pill", "wizard", "prefs", "keywords",
             "apply", "shortcut", "sweep"}
  /\ Cap!CaptureInit /\ Tra!Init /\ Tri!Init /\ Lif!LifecycleInit /\ Hud!HudHostInit
  /\ Pip!PipeWireInit /\ She!ShellInit /\ Dae!DaemonInit
  /\ Ind!IndicatorInit /\ Bus!HudBusInit /\ Pil!PillInit /\ Wiz!OnboardingInit
  /\ Prf!PreferencesInit /\ Key!KeywordsInit /\ App!ApplyInit
  /\ Sho!ShortcutInit /\ Swe!SweepInit
  /\ part # "lifecycle" => idle_action = "unload" /\ ~gpu /\ model = 0  \* the others need only one
  /\ part # "daemon" => store = "None"
  /\ part # "hudbus" => pub.up
  /\ part # "wizard" => mach.has = Wiz!Ids
  /\ part # "prefs" => kind = "mode"
  /\ part # "apply" => chg = "setting"
  /\ part # "shortcut" => Sho!Plain

\* A step of the part p, and of no other.
Only(p) ==
  /\ UNCHANGED part
  /\ IF p = "capture" THEN TRUE ELSE UNCHANGED captureVars
  /\ IF p = "transport" THEN TRUE ELSE UNCHANGED transportVars
  /\ IF p = "trigger" THEN TRUE ELSE UNCHANGED triggerVars
  /\ IF p = "lifecycle" THEN TRUE ELSE UNCHANGED lifecycleVars
  /\ IF p = "hud" THEN TRUE ELSE UNCHANGED hudVars
  /\ IF p = "pipewire" THEN TRUE ELSE UNCHANGED pipewireVars
  /\ IF p = "shell" THEN TRUE ELSE UNCHANGED shellVars
  /\ IF p = "daemon" THEN TRUE ELSE UNCHANGED daemonVars
  /\ IF p = "indicator" THEN TRUE ELSE UNCHANGED indicatorVars
  /\ IF p = "hudbus" THEN TRUE ELSE UNCHANGED hudBusVars
  /\ IF p = "pill" THEN TRUE ELSE UNCHANGED pillVars
  /\ IF p = "wizard" THEN TRUE ELSE UNCHANGED wizardVars
  /\ IF p = "prefs" THEN TRUE ELSE UNCHANGED prefsVars
  /\ IF p = "keywords" THEN TRUE ELSE UNCHANGED keywordsVars
  /\ IF p = "apply" THEN TRUE ELSE UNCHANGED applyVars
  /\ IF p = "shortcut" THEN TRUE ELSE UNCHANGED shortcutVars
  /\ IF p = "sweep" THEN TRUE ELSE UNCHANGED sweepVars

Next ==
  \/ part = "capture" /\ Cap!CaptureNext /\ Only("capture")
  \/ part = "transport" /\ Tra!Next /\ Only("transport")
  \/ part = "trigger" /\ Tri!Next /\ Only("trigger")
  \/ part = "lifecycle" /\ Lif!LifecycleNext /\ Only("lifecycle")
  \/ part = "hud" /\ Hud!HudHostNext /\ Only("hud")
  \/ part = "pipewire" /\ Pip!PipeWireNext /\ Only("pipewire")
  \/ part = "shell" /\ She!ShellNext /\ Only("shell")
  \/ part = "daemon" /\ Dae!DaemonNext /\ Only("daemon")
  \/ part = "indicator" /\ Ind!IndicatorNext /\ Only("indicator")
  \/ part = "hudbus" /\ Bus!HudBusNext /\ Only("hudbus")
  \/ part = "pill" /\ Pil!PillNext /\ Only("pill")
  \/ part = "wizard" /\ Wiz!OnboardingNext /\ Only("wizard")
  \/ part = "prefs" /\ Prf!PreferencesNext /\ Only("prefs")
  \/ part = "keywords" /\ Key!KeywordsNext /\ Only("keywords")
  \/ part = "apply" /\ App!ApplyNext /\ Only("apply")
  \/ part = "shortcut" /\ Sho!ShortcutNext /\ Only("shortcut")
  \/ part = "sweep" /\ Swe!SweepNext /\ Only("sweep")

\* A step of the part that runs changes its variables, and the fairness of a part
\* looks at no others: with Next they stand still.
PartVars ==
  CASE part = "capture" -> captureVars
    [] part = "transport" -> transportVars
    [] part = "trigger" -> triggerVars
    [] part = "lifecycle" -> lifecycleVars
    [] part = "hud" -> hudVars
    [] part = "pipewire" -> pipewireVars
    [] part = "shell" -> shellVars
    [] part = "daemon" -> daemonVars
    [] part = "indicator" -> indicatorVars
    [] part = "hudbus" -> hudBusVars
    [] part = "pill" -> pillVars
    [] part = "wizard" -> wizardVars
    [] part = "prefs" -> prefsVars
    [] part = "keywords" -> keywordsVars
    [] part = "apply" -> applyVars
    [] part = "shortcut" -> shortcutVars
    [] part = "sweep" -> sweepVars

Does(p, A) == part = p /\ A /\ UNCHANGED part

\* Tasks are scheduled, timers fire, the device obeys the stop flag within its
\* promptness contract, and the reader of a queue reads it or goes.  The server
\* and the client each owe the other nothing, a write may stay in flight for
\* ever, and the user owes nothing but to let go of the key.  A HUD that is not
\* stopped registers; it need not obey SIGTERM.  A behaviour is of one part, so
\* one conjunct states the fairness of an action of each.
Fairness ==
  /\ WF_PartVars(
       \/ Does("capture", Cap!Winding /\ Cap!CaptureFrame)
       \/ Does("transport", /\ \/ Tra!PumpAborted \/ Tra!PumpCancelled
                               \/ Tra!SendEvent \/ Tra!TakeOutbound
                            /\ Tra!OwnerFrame)
       \/ Does("trigger", Tri!Wait)
       \/ Does("lifecycle", Lif!_load_model \/ Lif!LoadFails \/ Lif!unload)
       \/ Does("pipewire", Pip!Poll)
       \/ Does("shell", She!Hears)
       \/ Does("daemon", Dae!GraceEnds)
       \/ Does("indicator", Ind!AutoHide)
       \/ Does("pill", Pil!Faded)
       \/ Does("wizard", Wiz!read_machine \/ Wiz!ReadTaken)
       \/ Does("prefs", Prf!Commit)
       \/ Does("keywords", Key!KeywordsNext)
       \/ Does("apply", App!run_plan)
       \/ Does("shortcut", Sho!ProxyTells)
       \/ Does("sweep", Swe!SweepStep)
       \/ Does("hud", \/ Hud!NameChanges \/ Hud!Exited
                      \/ \E timer \in {"restart", "kill"} : Hud!Timer(timer)))
  /\ WF_PartVars(
       \/ Does("capture", Cap!ReadHealth)
       \/ Does("transport", Tra!GraceEnds /\ Tra!OwnerFrame)
       \/ Does("trigger", Tri!ReadEdge \/ Tri!Filter)
       \/ Does("lifecycle", \E s \in Sessions :
                             Lif!ThreadEnds(s) \/ Lif!Drained(s) \/ Lif!_serve_on_cpu(s)
                             \/ Lif!Built(s))
       \/ Does("pipewire", Pip!Closed \/ (ending # "none" /\ Pip!Answered))
       \/ Does("shell", She!Told)
       \/ Does("daemon", Dae!Start)
       \/ Does("indicator", Ind!StrayEnds)
       \/ Does("pill", Pil!map_faded)
       \/ Does("wizard", Wiz!ReadEnds)
       \/ Does("prefs", Prf!CheckRevision \/ Prf!Write \/ Prf!RecordPersisted)
       \/ Does("apply", App!Reaped)
       \/ Does("shortcut", Sho!Watched)
       \/ Does("hud", \/ Hud!register_client
                      \/ \E c \in {"host", "hud"} : Hud!remove_if_present(c)))
  /\ WF_PartVars(
       \/ Does("capture", Cap!SendPending)
       \/ Does("transport", Tra!OutOfGrace /\ Tra!OwnerFrame)
       \/ Does("trigger", Tri!LiftKey)
       \/ Does("lifecycle", Lif!Idles \/ Lif!maybe_release)
       \/ Does("shell", She!CallArrives)
       \/ Does("daemon", Dae!Hear \/ Dae!HeardApplied)
       \/ Does("wizard", \/ Wiz!RunNext \/ Wiz!SetUpEnds \/ Wiz!DesktopEnds
                         \/ Wiz!RereadAnswers \/ Wiz!RereadTaken \/ Wiz!RunEnds)
       \/ Does("prefs", \E r \in results : Prf!complete(r))
       \/ Does("apply", App!Runs)
       \/ Does("indicator", \/ Ind!PublishLabel \/ Ind!PublishState
                            \/ \E c \in BOOLEAN : Ind!set_toast(c)))
  /\ WF_PartVars(
       \/ Does("capture", Cap!ReadChunk \/ Cap!ReadFault \/ Cap!ReadEnd)
       \/ Does("transport", Tra!Hear)
       \/ Does("trigger", Tri!RepeatKey)
       \/ Does("lifecycle", Lif!Shutdown)
       \/ Does("shell", She!Reaped \/ She!WindowGone)
       \/ Does("wizard", \E s \in Snaps : follower[s] # "doing" /\ Wiz!FollowEnds(s))
       \/ Does("prefs", Prf!apply_external)
       \/ Does("indicator", Ind!ToastHeld \/ Ind!ToastClosed))
  /\ WF_PartVars(
       \/ Does("capture", Cap!CancelCapture)
       \/ Does("wizard", \E s \in Snaps : Wiz!ChangeEnds(s, "Done") \/ Wiz!ChangeEnds(s, "Error")))
  /\ WF_PartVars(
       \/ Does("capture", Cap!TakeInput)
       \/ Does("wizard", Wiz!RootStep))
  /\ WF_PartVars(
       \/ Does("capture", Cap!TakeControl)
       \/ Does("wizard", Wiz!Poll))

Spec == Init /\ [][Next]_vars /\ Fairness

-----------------------------------------------------------------------------
\* Captured audio reaches the driver in order, none lost, and PipeWire's reaches
\* the ring; a capture that ended badly is reported, exactly once, and no other
\* is, nor a loss that was none.
CaptureReported ==
  /\ part = "capture" =>
       /\ Cap!TypeOK /\ Cap!NothingLost
       /\ Cap!FaultReported /\ Cap!OnlyRealFaults /\ Cap!OneVerdict
  /\ part = "pipewire" =>
       /\ Pip!TypeOK /\ Pip!BuffersReach
       /\ Pip!CleanIsWired /\ Pip!LossSeen /\ Pip!OnlyRealLoss

\* The wire carries what was queued, in order; the dialect knows of the commit
\* when the server does; a terminal event is the last the owner hears.
WireContract ==
  part = "transport" =>
    Tra!TypeOK /\ Tra!WireInOrder /\ Tra!CommitKnown /\ Tra!TerminalLast

\* What the user does is heard: one edge for each press of the key and none for its
\* repeats; the settings in force are the stored ones once the settings thread has
\* nothing left to do, and hypotheses are shown exactly in the mode that the
\* user's choice and the backend's last answer together resolve to.  And the user
\* is told: the bus shows the state set last, and no toast is left behind.
UserHeard ==
  /\ part = "trigger" => Tri!TypeOK /\ Tri!NoGhostEdge /\ Tri!OneEdgePerPress
  /\ part = "daemon" => Dae!TypeOK /\ Dae!PreeditAgrees /\ Dae!SettingsFollow
  /\ part = "indicator" => Ind!TypeOK /\ Ind!Published /\ Ind!NoToastLeft

\* What is shown is so, where others change it too.  The setup wizard does one thing
\* at a time, offers nothing twice, and reaches its last step only over a model whose
\* install is done.  A row of the settings page at rest is what the settings file
\* holds, and the user's last edit is what it holds.  What is said of a change applied
\* as root is so, nothing of it goes on behind the report, and it never prunes what a
\* running server uses.  The key shown is the one that dictates, and no other shortcut
\* loses its key to it unasked, where the desktop answered who holds it.  Each row of a benchmark names what it measured, each
\* cell of it has its verdict.  And of what is shown as said only a whole keyword
\* overrules what the model heard.
ShownIsSo ==
  /\ part = "wizard" =>
       Wiz!TypeOK /\ Wiz!OneAtATime /\ Wiz!NotOfferedTwice /\ Wiz!SetUpWhole
  /\ part = "prefs" => Prf!TypeOK /\ Prf!RowIsStored /\ Prf!EditIsStored
  /\ part = "apply" => App!TypeOK /\ App!PruneSafe /\ App!NothingRunsOn /\ App!ReportIsTrue
  /\ part = "shortcut" =>
       /\ Sho!TypeOK /\ Sho!NothingTaken /\ Sho!OneHolder
       /\ Sho!ShownIsBound /\ Sho!KeptOrTold
  /\ part = "sweep" => Swe!TypeOK /\ Swe!RowIsTrue /\ Swe!Accounted
  /\ part = "keywords" => Key!TypeOK /\ Key!InStep /\ Key!OnlyKeywords

\* The model a session decodes with is the adapter's only one, and a release
\* that is done stays done until the next session.
OneModel == part = "lifecycle" => Lif!TypeOK /\ Lif!OneModel /\ Lif!ReleaseHolds

\* One HUD at most, whether its own host or the Shell extension runs it, its window
\* adopted each time it is mapped, and on the daemon's books only while a pill is
\* there or coming.  It comes to show what the daemon serves, and nothing that it
\* was not told to show.
HudPromised ==
  /\ part = "hud" => Hud!TypeOK /\ Hud!OneHud /\ Hud!NoEmptyPromise
  /\ part = "shell" =>
       She!TypeOK /\ She!OneRenderer /\ She!WindowKept /\ She!PillPromised
  /\ part = "hudbus" => Bus!TypeOK /\ Bus!PillFollows
  /\ part = "pill" => Pil!TypeOK /\ Pil!NoStrayPill

\* What a part still owes.  What was told to end does: a stopped capture drains, and
\* gives its device back when the driver is gone; a PipeWire capture with a reason to
\* end closes; a failed write or an abort ends the connection's task, though the peer
\* never answers and however much audio is queued; every poke is decided; the HUD's
\* host leaves even when the HUD ignores its SIGTERM; a server that nobody uses gives
\* its memory back even when its last session was cancelled in the middle of the load;
\* a daemon that cannot see a model connected after it started makes way for one that
\* does; a problem on the bus is dismissed and a notice's toast closed when nothing
\* follows it; a HUD told to be idle leaves the screen; an install that is shown as
\* under way is settled by a read; a decode comes to its end however many matches it
\* takes back; an authorized change is reported on, and a cancelled one ends or is
\* found to run as root already; a benchmark leaves nothing installed.
OwedEnd ==
  \/ part = "capture" /\ \/ stopped /\ pump.running
                         \/ ~listening /\ ~(ring_closed /\ producer = "gone")
  \/ part = "pipewire" /\ ending # "none" /\ at # "done"
  \/ part = "transport" /\ (writer = "failed" \/ abort) /\ pumping # "gone"
  \/ part = "trigger" /\ ~Tri!Decided
  \/ part = "hud" /\ host = "quitting"
  \/ part = "lifecycle" /\ active = 0 /\ model # Lif!None /\ ~leftover
  \/ part = "daemon" /\ stage \in {"leaving", "down"}
  \/ part = "indicator" /\ wanted.at = "done" /\
       \/ served.state \in Ind!Transient /\ ~torn
       \/ toast.open = "notice" /\ toast.hide \in {"sleeping", "closing"}
  \/ part = "pill" /\ given = "idle" /\ win.mapped
  \/ part = "wizard" /\ installs["Model"] # "none" /\ root # "prompt"
  \/ part = "keywords" /\ ~Key!over
  \/ part = "apply" /\ (exe.at \notin {"none", "prompt"} \/ tok.cancelled) /\ app.at # "over"
  \/ part = "sweep" /\ (swp.at # "over" \/ box.installed)

\* And what was asked for comes: toasts are not suppressed for ever with no pill to
\* stand in for them, a session that waits for the model gets it or its error (any one
\* stands for the others, which differ in name only), a stored change is in force
\* without a restart, a HUD that is told to show something comes on screen, a wizard
\* that waits on its component step sees what others installed, an edited settings
\* row comes to rest, its file written or its user told, the default key is decided on
\* as soon as a daemon runs, and the key comes to run what the daemon there is takes if
\* the desktop answers which key that is.
OwedService ==
  LET s == CHOOSE s \in Sessions : TRUE IN
  \/ part = "hud" /\ up /\ clients # {} /\ hud # "up"
  \/ part = "shell" /\ bus.up /\ bus.pill /\ She!Attached(ext) /\ ~She!Pilled
  \/ part = "lifecycle" /\ ses[s] = "load"
  \/ part = "daemon" /\ stage = "running" /\ cells.choice # store /\ ~overtaken
  \/ part = "pill" /\ given # "idle" /\ ~win.mapped /\ ~win.cut
  \/ part = "wizard" /\ mach.has = Wiz!Ids /\ mach.changes = {}
                      /\ ~(Wiz!can_advance(ui.step, Wiz!shown) \/ ui.running \/ ui.busy)
  \/ part = "prefs" /\ ~(Prf!Quiet /\ field.typed = Prf!None)
  \/ part = "shortcut" /\ dmn.up /\ (ctl.default_pending \/ (Sho!Outdated /\ ~past.lapsed /\ ~past.blind))

\* Whatever a part comes to owe, to its user or to the parts around it, it delivers:
\* again and again there is a moment when it owes nothing.
PartsDeliver == []<>~(OwedEnd \/ OwedService)
=============================================================================
