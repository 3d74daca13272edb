------------------------------- MODULE Daemon -------------------------------
(***************************************************************************)
(* The daemon's process (client/myna-desktop/src/bin/myna-desktop.rs): the *)
(* settings it follows while it runs, the backend it resolves and asks at  *)
(* each press (client/myna-orchestrator/src/backend/share.rs), and the     *)
(* restart that lets it see a model connected after it started.            *)
(*                                                                         *)
(* Settings change on their own thread, which shares the cells with the    *)
(* thread that starts the controller and with the tasks that ask the       *)
(* backend whether it streams.  A settings value is its transcription      *)
(* mode; the other keys travel with it.                                    *)
(***************************************************************************)
EXTENDS Naturals, FiniteSets

CONSTANTS Models,      \* the inference snaps, each a share once connected
          Streamers,   \* of them, the ones that stream
          Choices      \* the modes a user may store, "None" for no choice

Modes == {"None", "Streaming", "Batch"}

VARIABLES
  store,    \* the mode in the settings store
  cells,    \* LiveSettings: ModeInputs (choice, backend_streams) and preedit
  stage,    \* where the process is: "down", "loaded" before the watch is there,
            \* "watching", "reread" holding the second read, "running", "leaving"
            \* in RESTART_GRACE
  read,     \* the value of the second read, until it is applied
  watcher,  \* the settings thread: whether it is due to hear of a change, and
            \* the value it holds between its read and the lock, if any
  shares,   \* each model's share: "none", "silent" while no socket is found in it,
            \* "serving"
  visible,  \* the shares this process's mount namespace shows
  asked,    \* capabilities queries under way
  overtaken, \* main applied an older value over the thread's (history)
  answer    \* what a backend last told this process of its mode (history)

\* effective_mode: the user's choice, else the backend's mode, else streaming.
effective(choice, streams) ==
  IF choice # "None" THEN choice ELSE IF streams # "None" THEN streams ELSE "Streaming"

resolve_preedit(choice, streams) == effective(choice, streams) = "Streaming"

Resolved(choice, streams) ==
  [choice |-> choice, streams |-> streams, preedit |-> resolve_preedit(choice, streams)]

Resting == [due |-> FALSE, holds |-> {}]

DaemonInit ==
  /\ store \in Choices /\ cells = Resolved("None", "None") /\ stage = "down"
  /\ read = "None" /\ watcher = Resting
  /\ shares = [m \in Models |-> "none"] /\ visible = {}
  /\ asked = {} /\ overtaken = FALSE /\ answer = "None"

-----------------------------------------------------------------------------
\* Settings.

\* A writer, in Myna Settings or elsewhere.  A watch that is there hears of it.
Edit(choice) ==
  /\ choice # store
  /\ store' = choice
  /\ watcher' = [watcher EXCEPT !.due = stage \notin {"down", "loaded"}]
  /\ UNCHANGED <<cells, stage, read, shares, visible, asked, overtaken, answer>>

\* main: the settings are loaded and resolved.  A fresh process shows the shares
\* that are connected.
Start ==
  /\ stage = "down"
  /\ stage' = "loaded" /\ cells' = Resolved(store, "None")
  /\ visible' = {m \in Models : shares[m] # "none"}
  /\ UNCHANGED <<store, read, watcher, shares, asked, overtaken, answer>>

\* follow: the watch is live; it reads once more, before it takes the lock that
\* settings_changed takes.
Watch ==
  /\ stage = "loaded" /\ stage' = "watching"
  /\ UNCHANGED <<store, cells, read, watcher, shares, visible, asked, overtaken, answer>>

Reread ==
  /\ stage = "watching" /\ stage' = "reread" /\ read' = store
  /\ UNCHANGED <<store, cells, watcher, shares, visible, asked, overtaken, answer>>

\* Under the lock, with what the backend last said.
settings_changed(choice) == cells' = Resolved(choice, cells.streams)

RereadApplied ==
  /\ stage = "reread" /\ stage' = "running"
  /\ settings_changed(read) /\ read' = "None"
  /\ overtaken' = (read # store /\ watcher = Resting)
  /\ UNCHANGED <<store, watcher, shares, visible, asked, answer>>

\* The settings thread: connect_changed's handler reads the store, then applies.
Hear ==
  /\ watcher.due /\ watcher.holds = {}
  /\ watcher' = [due |-> FALSE, holds |-> {store}]
  /\ UNCHANGED <<store, cells, stage, read, shares, visible, asked, overtaken, answer>>

HeardApplied ==
  /\ \E choice \in watcher.holds : settings_changed(choice)
  /\ watcher' = [watcher EXCEPT !.holds = {}]
  /\ overtaken' = FALSE
  /\ UNCHANGED <<store, stage, read, shares, visible, asked, answer>>

-----------------------------------------------------------------------------
\* The backend.

\* snapd and the models: a share is connected and disconnected, which takes its
\* mount point, and its server comes and goes.
ShareChanges(m, state) ==
  /\ shares[m] # state /\ (shares[m] = "none" => state = "silent")
  /\ shares' = [shares EXCEPT ![m] = state]
  /\ visible' = IF state = "none" THEN visible \ {m} ELSE visible
  /\ UNCHANGED <<store, cells, stage, read, watcher, asked, overtaken, answer>>

\* resolve: the serving shares this process can see.  The others are empty mount
\* points to it.
Found == {m \in visible : shares[m] = "serving"}
Unmounted == {m \in Models : shares[m] # "none"} \ visible
needs_restart == Found = {} /\ Unmounted # {}

\* make_session, also while the process is about to leave: no backend, several,
\* one that only a fresh process can see, or one, which is asked beside the
\* session whether it streams.
Press ==
  /\ stage \in {"running", "leaving"}
  /\ stage' = IF needs_restart THEN "leaving" ELSE stage
  /\ asked' = IF Cardinality(Found) = 1 THEN asked \cup Found ELSE asked
  /\ UNCHANGED <<store, cells, read, watcher, shares, visible, overtaken, answer>>

\* What the backend says: None when it does not, or cannot be asked.
backend_streams(m) ==
  IF shares[m] # "serving" THEN "None" ELSE IF m \in Streamers THEN "Streaming" ELSE "Batch"

backend_learned(m) ==
  LET streams == backend_streams(m) IN
  /\ m \in asked /\ asked' = asked \ {m} /\ answer' = streams
  /\ cells' = IF cells.streams = streams THEN cells
              ELSE [cells EXCEPT !.streams = streams,
                                 !.preedit = resolve_preedit(cells.choice, streams)]
  /\ UNCHANGED <<store, stage, read, watcher, shares, visible, overtaken>>

\* run_controller returns after RESTART_GRACE, or when the bus is lost, and
\* Restart=on-failure starts a fresh process.
Exit ==
  /\ stage' = "down" /\ cells' = Resolved("None", "None")
  /\ watcher' = Resting /\ visible' = {} /\ asked' = {}
  /\ overtaken' = FALSE /\ answer' = "None"
  /\ UNCHANGED <<store, read, shares>>

GraceEnds == stage = "leaving" /\ Exit
BusLost == stage \in {"running", "leaving"} /\ Exit

DaemonNext ==
  \/ \E choice \in Choices : Edit(choice)
  \/ Start \/ Watch \/ Reread \/ RereadApplied \/ Hear \/ HeardApplied
  \/ \E m \in Models, state \in {"none", "silent", "serving"} : ShareChanges(m, state)
  \/ Press \/ GraceEnds \/ BusLost
  \/ \E m \in Models : backend_learned(m)

-----------------------------------------------------------------------------
\* What the daemon's process promises: the settings and the backend it shows are
\* the ones in force.

\* Types.
TypeOK ==
  /\ store \in Choices /\ cells.choice \in Modes /\ cells.streams \in Modes
  /\ stage \in {"down", "loaded", "watching", "reread", "running", "leaving"}
  /\ watcher.holds \subseteq Choices /\ visible \subseteq Models /\ asked \subseteq Models

\* However the settings thread, the second read and the backends' answers
\* interleave, none is lost on the way: hypotheses are shown exactly in the mode
\* that the choice in force and the backend's last answer together resolve to.
PreeditAgrees == cells.preedit = (effective(cells.choice, answer) = "Streaming")

\* A change is applied without a restart, also one made while the daemon starts:
\* when the settings thread has nothing left to do, what is in force is what is
\* stored, unless the second read of a starting daemon overtook the thread.
SettingsFollow ==
  stage \in {"running", "leaving"} /\ watcher = Resting /\ ~overtaken =>
    cells.choice = store
=============================================================================
