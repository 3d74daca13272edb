# A TLA+ model of myna

Myna is a dictation service: a hotkey opens the microphone, captured speech is
streamed over a local WebSocket to an inference server, and the text that comes
back is typed into the focused field.  Around that path stand a daemon with its
indicator and HUD, a settings application that installs, connects and configures
models, and a benchmark.  This directory holds TLA+ modules for the concurrent
and failure-prone parts of the system, TLC configurations that check them on
small instances, and TLAPS proofs about the dictation path on both sides of the
socket, the settings application and some of the parts around them.  Paths are relative to the repository root, without the leading `src/`
where that is clear.

## 1. Inventory

| Component (source) | State | Operations | Talks to |
| --- | --- | --- | --- |
| Orchestrator state machine, `client/myna-orchestrator/src/fsm.rs` | session track, residency track (the accept-gate), held capture fault, failure | one handler for each input; each returns the actions the driver applies | called by the driver only |
| Session driver, `driver.rs` | control and input receivers, one outbound slot, progress deadline | `run_session`: handshake loop, then a biased `select!` | pump, transport, the caller |
| Capture pump, `runner.rs` | pending item, latched fault, what was reported | `pump_capture`, cancelled by `run_dictation` | ring and health; input and control channels |
| Session transport, `backend/transport.rs`, with the IE115 and internal dialects | outbound and event queues, abort watch, in-flight write, write grace | `pump`: one task with a `select!` loop | WebSocket |
| Capture ring, `client/myna-audio/src/{ring,backend,source}.rs` | ring, terminal item, health watch, stop flag | push, overload, finish, recv, stop, drop | device thread, pump |
| PipeWire capture, `client/myna-audio/src/native.rs` | frames owed, epochs, poll deadlines, a small ring | realtime callback, loop thread's poll, close | PipeWire, the capture ring |
| Hotkey trigger, `client/myna-desktop/src/shortcut/control.rs` | backlog of pokes, candidate, `pressed` | `poke`, `next_edge`, `discard_pending`, `resync` | control socket, controller |
| Desktop controller, `controller.rs` | `DictationState`, indicator, utterance locals, commit buffer | acquire, edges, focus losses, event routing, commit, disposition | trigger, session, field, indicator |
| Text input, `inject/{ibus,lazy}.rs` | lease with blips and activations, held commits, displaced engine | acquire, write, focus calls, release | IBus daemon |
| Daemon, `bin/myna-desktop.rs`, `orchestrator/src/backend/share.rs` | settings cells, resolved backend | follow settings, resolve and ask at a press, restart | settings file, model shares |
| Indicator, `client/myna-desktop/src/indicator/` | published state and label, toast, dismissal tasks | set, auto-dismiss, toast with hold | bus, HUD registry |
| HUD, `client/myna-hud/src/` | snapshots of the daemon, pill, window, hold and fade timers | bus threads, consumer rules, fades | daemon |
| HUD supervisors: `myna-config/src/hud_host/` and `extensions/myna-shell/` | renderer process, restart budget, registration, adopted window | name changes, exits, timers, enable and disable | daemon's registry, the window |
| Server transport, `server/src/myna/core/{transport_ws,wire_ie115}.py` | bounded ingress, utterance, encoder's items | reader task, utterance loop, adapter session, abort, close | client, adapter |
| Model's life, `server/lifecycle.py`, `testbed/{whisper,parakeet,nemotron,funasr}.py` | busy count, idle monitor, model lock, loaded model | load, use, release, cancel, fall back to the CPU | server transport, GPU |
| Streaming loop, `testbed/streaming/` | rolling window, cuts, two hypotheses | fill, silence cut, forced cut, agreement | adapter's decoder |
| Keyword decoding, `parakeet.py`, `keyword_bias.py` | frame clock, tokens, automaton, rewind point | step, match, take back | model |
| Settings application: models, `myna-config/src/` (`backend_controller`, `active_backend`, `backend_apply`, `backend_ui`, `operation_gate`) | discovery, pages, gate, running operations | discover, read, apply as root, switch, repair | snapd, polkit |
| Settings application: setup wizard (`onboarding*.rs`, `snap_*.rs`) | step, installs followed, reads | read the machine, install, set up | snapd |
| Settings application: rows (`app.rs`, `myna_settings.rs`), key (`shortcut*.rs`, `platform/`), apply (`command.rs`, `apply_plan.rs`) | row and echoes; bound key and command; plan, process, report | edit, write, watch; claim, bind, follow; run, cancel, read back | settings file; desktop; pkexec |
| Benchmark, `server/src/myna/benchmarker/` | cells of a sweep, verdicts, rows | install, select, apply, measure, purge | snapd, modelctl |
| Voice activity, SNR, sounds, CLI, packaging, test doubles | | not modelled, see section 6 | |

What is hard, and what has to be true:

* **One fact on several paths.**  A device fault travels on the health watch, in
  the ring behind the audio and on the control channel, and the server's answer
  on a fourth: the outcome must still name the fault (`FaultNeverForgotten`,
  `CompletedIsWhole`, `CaptureReported`).
* **Back-pressure.**  Seven bounded queues and slots lie between microphone and
  wire, and a bounded ingress behind it.  Each may fill; none may lose, repeat or
  reorder audio, and an end stays behind all of it (`SpeechKept`, `OwnAudio`).
* **One party running ahead of another.**  The server's reader acknowledges
  commits while an earlier utterance is still transcribed; the text must land on
  the item its own commit acknowledged (`OwnItem`, `AckedIsAnswered`).  Echoes,
  file notifications, discoveries and bus snapshots arrive late and in any order
  (`Shown`, `ShownIsSo`, `UserHeard`).
* **Endings.**  Sessions, writes, releases, applies and HUDs end in many ways,
  half-way included, and everything they held has to be given back
  (`AlwaysReturns`, `AllReleased`, `LostCloses`, `HandsBack`, `OperationEnds`,
  `PartsDeliver`).
* **Timeouts.**  The progress deadline runs whenever the user waits for the server
  and never while the user speaks (`DeadlineIsRight`); quiet periods, holds,
  fades, blips and grace periods race what they wait for.
* **Copies of a state.**  The trigger's `pressed` repeats whether an utterance
  runs, the indicator the controller's state, the HUD the indicator's
  (`ReadyAgain`, `HiddenMeansAccepted`, `NothingStale`, `HudPromised`).

The list of hazards, each at its line, is in `PROJECT.json`.

## 2. Modules

A module without `Machine` models a component: its state, its actions, and
nothing about its surroundings.  The `...Machine` module closes it with an
environment, a specification with fairness, and the properties.  Small components
have both in one module.  A module with `Proofs` holds theorems.

| Modules | Models | Closed in |
| --- | --- | --- |
| `Fsm` | `fsm.rs` as operators: a machine is a record, a handler maps it to the next machine and the commands it asks for | `FsmMachine`; used by `Transport`, `Session`, `Controller` |
| `Ring`, `Capture` | device thread, ring, health watch, `pump_capture` | `CaptureMachine`, `Session` |
| `Transport` | the client's connection task, its queues and dialects | `TransportMachine`, `Session` |
| `Session` | `run_session` with `Capture` and `Transport` as `run_dictation` wires them | `SessionMachine` |
| `Utterance` | the abstract promise of one dictation | refined by `SessionMachine` (`KeepsPromise`) |
| `Trigger` | pokes, the repeat filter, resync | `TriggerMachine`, `Controller` |
| `Controller` | `run`, `run_one_utterance`, event routing, commits | `ControllerMachine` |
| `Ibus` | acquire, focus calls, held writes, release | `IbusMachine` |
| `Server` | a connection of the server: reader, utterance loop, adapter, encoder | `ServerMachine` |
| `Streaming` | the emission loop with both strategies | `StreamingMachine` |
| `Settings` | the settings application's futures on the models | `SettingsMachine` |
| `PipeWire` | realtime thread, loop thread, their atomics, and what a capture promises | |
| `Lifecycle` | the model's life in the server process | itself |
| `Shell` | the GNOME Shell extension as a supervisor of the HUD | itself |
| `Onboarding` | the setup wizard | itself |
| `HudHost`, `Daemon`, `Indicator`, `HudBus`, `Pill`, `Preferences`, `Apply`, `Shortcut`, `Keywords`, `Sweep` | the components of those names in section 1 | themselves |
| `Parts` | composes the parts that share nothing | run `parts` |
| `FsmProofs`, `FsmMachineProofs`, `SessionProofs`, `ServerProofs`, `ControllerProofs`, `IbusProofs`, `SettingsProofs`, `PartsProofs` | theorems, section 4 | |

How state and actions correspond to the code:

* A variable is a field or a local of the source, or a queue between two tasks;
  the comment at its declaration says which.  Variables that only remember what
  happened (`told`, `sent`, `wire`, `captured`, `seen`, `utt.heard`) are called
  history or are described as what another party has received.
* An action is what a task does between two points where others may run: one pass
  of a `select!` loop with the code behind it, one stretch between two `await`s of
  the Python event loop or the GTK thread, one atomic access of a thread.
* `Session` expresses a biased `select!` by `polled`: the control channel is polled
  first, so another arm is taken only in a pass that found it empty, and a fault
  may still arrive right after the poll.
* `Controller` knows the field by the contract of `Target`: focus that an activation
  took away (`lease = "away"`) may come back, a text committed meanwhile is answered Ok
  and held, and it lands later or goes with the lease (`Commits`, `held`).
* `Server` numbers a chunk of audio by the utterance it was spoken in and a commit's
  boundary by 0.  The reader (`ReadAudio`, `ReadCommit`, `ReadBad`, `ReadFinish`,
  `ReadEnd`, `ReaderSends`, `PutTail`, `_put`) and the handler (`_run_utterance`, `drain`,
  `NextUtterance`, `MakeUp`, ...) interleave at every `await`; two frames of one event are
  written in two steps.  The adapter is known by its contract, which it may break.
* `Settings`, `Onboarding`, `Preferences`, `Apply` and `Shortcut` model snapd, polkit,
  the settings file and the desktop from how the code uses them, and let a user or
  another program change them at any time, up to a bound.

`PROJECT.json` maps each definition to the lines it models.

### Parts

Seventeen parts share no state with one another and are checked alone against any
user of theirs.  `Parts` instantiates them all; a behaviour is of one part, chosen in
`Init`, and the others stand still, so the state space is the *sum* of theirs and
nothing is lost by checking them in one run.  `CaptureReported`, `WireContract`,
`UserHeard`, `ShownIsSo`, `OneModel` and `HudPromised` are conjunctions of the
parts' own invariants, grouped by what they promise.  `PartsDeliver` says that
again and again there is a moment when the running part owes nothing; `OwedEnd` and
`OwedService` spell out what each can owe.  The weak fairness of a part's actions is
stated on the variables of the part that runs (`PartVars`), one conjunct for an
action of each, since at most one of them can ever be enabled.

Distinct states by part: capture 4,665; transport 37,004; trigger 5,449; lifecycle
21,758; hud 1,672; pipewire 55,527; shell 27,779; daemon 21,440; indicator 16,507;
hudbus 9,454; pill 214; wizard 69,080; prefs 29,008; keywords 8,528; apply 4,877;
shortcut 54,205; sweep 11,234.

## 3. What is checked

| Run | Bounds | States | Shows |
| --- | --- | --- | --- |
| `fsm` | none: the state space is finite | 12,504 | every input in every order: a held fault becomes the outcome, a failed session is told of by exactly one Error, terminal states are final, the gate stays open, nothing follows the end of audio |
| `session` | every queue 1, 2 chunks, 2 peer frames | 495,388 | end to end: speech whole and in order, a completion never hides a fault, the deadline runs exactly when it should, refinement of `Utterance` |
| `session_liveness` | 1 chunk, otherwise the same | 95,864 | the call returns and everything is released |
| `controller` | backlog 1, event queue 1, 2 finals (1 around near pokes), taps and near pokes | 2,225,569 | text lands once and in order; a hidden indicator means that the field accepted all of it and lost only what it held when focus was lost; the toggle is ready again; nothing stale takes effect |
| `controller_liveness` | event queue 2, 1 final, taps | 427,243 | a stopped utterance ends; losing the field stops capture |
| `server` | ingress of 1, 3 commits, 1 chunk each, a resampler's tail behind two of them | 619,562 | an utterance's text is on its own item and from its own audio, queues are bounded, an acknowledged commit is answered, a lost connection closes |
| `streaming` | window of 6 frames, words up to 3, 8 frames | 407,064 | no word twice or out of order, the audio covered, every chunk absorbed |
| `ibus` | 2 fields, 2 texts, 4 events of the user or daemon | 874,126 | text in one field, in order, never in a secure one; the input method handed back |
| `settings` | 2 models, 2 values, 2 of the user's acts, 2 of the world's | 701,642 | one writer, nothing stale shown at rest, no silent loss of the model, the gate given back |
| `parts` | see `Parts.cfg` | 378,401 | section 2 |
| `tail_resolved`, `next_tap` | as `streaming`; 1 final, taps | - | the findings below |

Why these bounds.  Queue protocols go wrong at "empty", "full" and "one more than
fits", which all occur with capacity 1 (2 in the ring, where a latched terminal item
sits behind audio).  Two chunks are the least number that can be reordered; four
overrun ring, pump and queue together.  In `server` three commits let one be
transcribed, one wait in the ingress and one in the reader's hand, and `Tailed` names
the first and the last, so that a commit with a tail to put first and one without are
each behind the other; the inductive invariant was also checked with capacity, commits
and chunks of 2.  In `controller`
two finals let one be committed and one refused; `MaxNear` keeps to one final while
the trigger tells a press from a repeat, because a near poke reaches the texts only
through the edge it becomes, and taps give the same edges around both.  In `streaming` eight frames hold a
forced cut, its overlap and the audio behind it.  In `ibus` four
events give a blip, its return, a move and a restart.  In `settings` two acts of the
user and two of the world overlap any operation with a second and a change
elsewhere.  The wizard's invariants were also checked with two odd events (`MaxOdd`,
390,290 states), the settings row with three edits and two writes from elsewhere
(2,907,076), the model's life with four loads (75,659), the keywords with three
pieces (24,050) and the key with two rebinds (259,062).  `ControlCap = 4`, the
trigger's backlog of 8 in `parts` and the restart budget of 5 are the code's own.

`CHECK_DEADLOCK FALSE` appears where the system may stop: a session ends, a user
stops pressing keys.  `FsmMachine` never stops and is checked for deadlock.

### Fairness

Nothing is assumed of a user, except where it says so below, of the server by the
client, of the client by the server, or of a focus that moves.

* Tasks of an async runtime are weakly fair: a task with a ready arm takes one.
  The bias of a select, where a property depends on it, is in the guards (`polled` in
  Session, `FocusReady` in Controller).  Futures on a GTK thread complete when what
  they wait for does.
* Timers fire: an armed deadline passes unless it is reset, a write's grace ends, a
  quiet period, a fade, a hold, a blip's window and an activation's age end.
* A device thread is fair only once it was told to stop; it need not produce audio.
  PipeWire's loop thread polls.
* The server's adapter reads, finishes after the end of its audio and returns after
  its terminal; it need not emit early, and one that waits for audio waits.
* In `controller_liveness` a session told to stop ends.  This is strong fairness: its
  last event needs room in a queue that can be full again and again.
  `AlwaysReturns` is what establishes it of the session itself.
* `AlwaysReturns` holds for a server that sends finitely many frames (`MaxFrames`):
  the deadline measures progress and each frame resets it.
* In `parts`, besides: a held key is lifted, and one held into its repeats repeats
  twice (the measurements beside `REPEAT_QUIET` and `REPEAT_FOLLOW`); snapd ends its
  changes, polls fire, and nobody need answer a prompt; a text row's timer fires, the
  writer thread runs and the file watch reports; a root process runs its operations to
  an end and GLib reaps it; the desktop's proxy and watches call back, and the user
  need not answer the replace question; a benchmark's commands return.

### Findings

* **next_tap**: when an utterance completes without a Release having been read (a
  backend ends it by itself, or the capture ends), the `Completed` branch goes to
  Idle without `trigger.resync()`.  `pressed` stays TRUE and the next tap is
  delivered as a Release, which `run` ignores: the user has to tap twice.  The
  comments on `discard_pending` and `resync` promise a Press.
* **tail_resolved**: audio that ends exactly at a forced cut leaves the word that was
  held back at the cut uncommitted; the loop's invariant I5 says that the end of the
  audio resolves it.

Further places where the code does not do what a comment, a docstring or a test says
were met while modelling.  The definitions named here state the words; they are
violated when checked and are in no run, and the properties that are checked excuse
exactly these cases:

* `CompletionAgrees` (`controller.rs:801-806`): a FocusOut read between Done and the
  disposition replaces "No speech detected" by "Focus lost".
* `controller.rs:194-195`: hiding the indicator "would report an insertion that never
  happened", so text that landed nowhere is to read "Focus lost".  But a text is
  accepted while focus is away (`ibus.rs:1717`), which counts as landed, and is dropped
  with the loss, as `text_input.rs:146-148` says of `Target::commit`: the indicator is
  hidden over it.  `HiddenMeansAccepted` excuses that tail (`held`) and nothing else.
* `AnnouncedFirst` (`wire_ie115.py`, Ie115Encoder): the frame that announces an item
  can be written after the first that names it.
* `TakenIsKept` (`ibus.rs:1752`, "An engine taken is owed nothing"): an engine the
  user picked between a look at the global one and the switch behind it is displaced,
  and the release puts back the one before (`undone`).
* `LossTold` (`active_backend.rs:356`): a dismissed switch whose repair could not
  read the machine loses the model without the failure "the user has to hear about".
* `NothingBehind` (`onboarding_ui.rs:303-304`): closing the wizard does not stop a
  setup that waits on snapd.  Settings' `OneWriter` excuses that setup.
* `NoticeHeld` (`Pill`; `notice_slot.rs:9-11`): the server's idle fades the pill out
  whatever its hold; the hold timer never applies idle itself, and
  `set_hud_style` restarts a hold.
* `backend_ui.rs:1541`: "a switch or apply rediscovers when it completes", but
  `complete_apply` does not.
* `native.rs:313-316`: a tail deficit "which no split cycle can reach" is reached when
  the graph's cycle length has just changed (`truth.moved`).
* `myna-desktop.rs`, about 253: `LiveSettings::follow` loads before it takes the lock,
  so an older read can win (`overtaken`); the answers of two presses may be applied
  out of order.
* Indicator: a state set in the middle of a dismissal leaves `last` at idle, and the
  same error again is dropped (`torn`); a toast whose replacement is refused loses its
  hold.
* HudBus: the status is read before its changes are subscribed to (`unseen`).  Pill: a
  delayed hide does not look at what was shown since (`window.rs:61-63`, `cut`).
* Shell: a `Register` that arrives late; `PillPromised` is about an attached host.
* Onboarding: a setup's beat can be overlapped by a second one; `reread` ignores the
  epoch, so an older answer can replace a newer read; a change undone between check
  and wait of `ensure_backend_active` is not read again.
* Preferences: with two quick edits, the first one's file notification arriving before
  its completion counts as a change from elsewhere, and the second edit is dropped
  (`myna_settings.rs:648-657`; the file watch and the writer's reply are two sources of
  one main loop).  `tests/myna_settings_controller.rs:330`, "delayed local notification
  cannot cancel a newer save", has the other order only, completion first, and of that
  order `EditIsStored` says what the test says.  The excuse (`Overtakes`) is for an
  earlier save that is in the file and whose completion the page has not had, or that
  was crossed by a failure or a foreign write; a completion erases text typed
  since (against `app.rs:5794-5798`); an echo that never comes swallows a later change
  of another program; a foreign write equal to a pending one is taken for ours.
* Lifecycle: a cancelled session whose GPU decode fails builds a model without the
  model lock (`leftover`); `_drain`'s "every later one runs on the CPU" does not
  survive an unload.
* Apply: a cancellation polled after GLib reaped the root process is reported as one,
  though the plan ran (against `command.rs:309-311`); an executor that dies or prints
  what cannot be read is reported as "could not be made" though operations may have
  run; the `VerificationCancelled` branch is dead.
* Shortcut: `claim` asks about the first of several conflicts only (`several`);
  releasing a GNOME shortcut clears whatever it holds by then, and Xfce's bind
  overwrites a command that took the key while the question was open (`raced`); a
  question that Plasma or Xfce does not answer is read as no holder, no key or no
  command (`shortcut_ui.rs:234-246`, `598-603`), so that another's key is overwritten
  unasked on Xfce, the default is installed over the key there was, and the control
  shows none (`guessed`, `blind`); a key that cannot follow a changed daemon fails silently (`lapsed`).
* Sweep: a refused restart measures the old settings under the new label (`unsure`); a
  target's failure is recorded against the last cell applied, against `cell_label`'s
  docstring; rows are written only at the end of `run_clips`; a value left by the
  previous engine's last cell is not put back.

## 4. What is proved

TLC checks the small instances of section 3; the theorems here hold for every value
of the constants that their assumptions allow.  All proofs are checked by TLAPS with
Z3, Zenon and, for the temporal steps, LS4.

**State machine** (`FsmProofs`, `FsmMachineProofs`; no assumptions).  `Legal(m, res)`
says what a handler may do to a machine and to the driver, with one lemma for each
handler of `fsm.rs` that it is met; `EveryStepLegal` puts them together.  The inductive
invariant is `TypeOK`, `FaultNeverForgotten`, `ErrorMatchesFailure` (with the number of
Errors told and the input that ended the session as history) and `FinishedIsOver`, the last of which none of the properties says: once the end of audio
was queued, no session is active, without which a second end of audio could queue
something behind the first.  `TypeCorrect`, `FaultKept`, `ErrorTold`, `FinishIsLast`,
`TerminalKept` and `GateKept` are the properties of run `fsm`.

**Client, microphone to wire** (`SessionProofs`; assumptions
`RingAssumption`, `CaptureAssumption`, `TransportAssumption`: capacities of at least 1,
either dialect, any number of chunks and any frames of the peer).
`SessionInv == CapInv /\ DrivenInv` has these parts:

* `RingSound`, `PumpSound`, `SentSound`: a closed ring is empty; what the pump latched
  agrees with the health watch and with where the ring ends; each of the two
  channels has been sent its news once.
* `FlowSound`: `Upstream == inputs \o pump.pending \o ring` is exactly the audio that
  the driver has not read, in order, with the end of audio behind it when there is one.
* `WireSound`: `Handed == wire \o writing \o outbox` and `Out`, which adds the driver's
  slot, are the audio it has read, in order, with nothing behind an end.
* `FinalSound`: once the end of audio was queued, nothing is left upstream.
* `NewsSound`: a fault the pump reported has been acted upon or waits on the control
  channel, so no completion can overtake it.
* `LiveSound`, `ClockSound`, `AnswerSound`: the driver's state, its deadline and its
  result agree with the state machine.

None of the properties is inductive alone.  `SpeechKept` speaks of the wire and needs
the five queues behind it; `CompletedIsWhole` needs in addition that the news of a
fault lies on one of its paths at any time.  `DriverAside` and `CaptureSideKeeps` let
each side be stepped with the other unchanged; `GoesOnKeeps` and `ReturnsKeeps` do
once what the passes of the driver have in common.  Of the state machine only the
lemmas of `FsmProofs` are used.  `SpeechIsKept`, `CompletionIsWhole` and
`DeadlineRunsRight` are the properties of run `session`, and `PromiseIsKept` is the
refinement `Spec => Utterance!Spec`: a step of the capture side is `Speak` or a
stutter, a write that completes is `Hear` or `Commit`, a step of the driver `Lose` or
`Conclude` or a stutter (`CaptureSpeaks`, `WriteIsHeard`, `DriverTells`).

**Server, one connection** (`ServerProofs`; `ServerAssumption`: capacity, commits and
chunks of at least 1).  `ServerInv` has these parts:

* `FreshSound`, `ReaderSound`: what is so before the first frame, and what the reader
  holds at each of its `await`s, and `AnswerSound`: an error is only made up
  (`MakeUp`) for an utterance whose audio was read to its end.
* `OrderSound`, `StreamSound`: the shape of the stream, which is the ingress and the
  item whose put waits for room.  It is the rest of the utterance being served, then at
  most one boundary, then what was put of the next, and the client is at most two
  commits ahead of the adapter.
* `RoomSound`: the audio in the ingress fits its capacity, and beside it there is at
  most one boundary, which carries no audio.
* `ItemSound`, `NamedSound`: the encoder's queue is the tail of the acknowledged items
  (`Follows`), and an item named before its commit is the one that commit
  acknowledges.

`OwnItem` needs all of them: that text gets its own item follows from the encoder's
queue and the stream advancing together, which holds because a boundary
and an acknowledgement are made in one stretch of the reader and used up in one of the
handler.  `OwnItemKept`, `OwnAudioKept` and `BoundedKept` are properties of run
`server`.  `ServerInv` and `SessionInv` were checked by TLC before they were proved,
`ServerInv` on a second instance with capacity, commits and chunks of 2 too.

**Desktop controller** (`ControllerProofs`; `BacklogAssumption`,
`ControllerAssumption`: a backlog and an event queue of at least 1, any number of texts
and any gaps between pokes).  `ControllerInv` has these parts:

* `ControllerTypes`: `TypeOK` with the locals of `run_one_utterance`, the field and the
  events of the queue.
* `ControlSound`: no illegal transition; the toggle is ready at Idle; an utterance whose
  target is gone has the key released and reads no more of it, which is why the
  disposition that leaves the parity alone (`ClosingResync`) may; an indicator that
  says finishing is not ahead of the state.
* `QueueSound`: the texts read and those in the queue are the texts the session
  produced; the result taken is the session's; a queue found closed is empty.
* `TextSound`: `Told`, the field and behind it what the target holds and the commit
  buffer, is in order and has no text twice; it is every text read, unless one was dropped with a record or an
  insertion failed for a reason other than focus.

`HiddenMeansAccepted` speaks of Idle only, where the buffer is gone.  It follows from
`TextSound` at the last step of the loop, together with the empty queue of `QueueSound`
and the one disposition that hides the indicator.  The state and the field are stepped
by lemmas on what each handler leads to (`StatesNext`, `TextRead`, `BoundaryRead`,
`FinishForms`), the session by `InputsPlain`: no input of its state machine surfaces
two texts.  `ReadyAgainKept`, `AcceptedWhenHidden` and `NothingStaleKept` are the
properties of run `controller`.  TLC checked the parts of `ControllerInv` on the
instances of both controller runs first.

**Text input** (`IbusProofs`; `IbusAssumption`: the fields, which of them may be focused
at first, and any of the four ways a daemon names contexts, with any number of texts).
`IbusInv` has these parts:

* `IbusTypes`: the types of the engine's lease, the calls that wait, the target's queue.
* `ChoiceSound`: while Myna's engine is global the input method it displaced is owed,
  and that is the user's choice unless one was made in the window `undone` marks.
* `CallsSound`: the calls that wait, dispatched in order, end with the focus as it is.
  `Reaches` says so with a history of what the engine was told after each of them, and
  that a call about focus names the field that has it.
* `SecretSound`: they end with the content type of a secure field that has the focus.
* `LeaseSound`: all the text in a field is in one field.  A bound lease names it and is
  lost with focus on another, a lease that may still be bound anew has put none in any.
* `OrderSound`: the texts written, then those queued, then those held are numbers that
  rise; nothing is held while a queue is written.
* `PlainSound`, `WholeSound`: without a secure field the engine is told of none, and as
  long as the lease and the connection live every text is on the screen, queued or held.

The properties speak of what was written, and none is inductive: a late call decides
where the next text goes.  `OneField` needs `CallsSound` too, since focus
that reaches the engine late must not bind a lease that has written (`FocusInIs`,
`FocusOutIs` go through the bindings one at a time).  `SecretKept` needs that a field
with no call under way has been told of its content type, and so that `switch` resets
it before the engine is global.  `InOrder` is `OrderSound`, with `WholeSound` for what
is skipped.  `OneFieldKept`, `InOrderKept`, `SecretIsKept` and `HandsBackKept` are the
safety properties of run `ibus`.  TLC checked `IbusInv` for each of the four daemons
first.

**Settings application** (`SettingsProofs`; `SettingsAssumption`: any models that are
not named like the gate's other holders, at least one value, and any number of
requests, dismissals, failures and changes by other programs).  `SettingsInv` has these
parts:

* `SettingsTypes`: the shapes of an apply, of a switch, of a setup and of what the
  discoveries and page reads hold, with at most one discovery of each generation.
* `GateHeld`: the operation that runs has the gate, and it is free while the wizard is
  open; `OneWriter` is a consequence.
* `ViewSound`: what the newest discovery read is so unless the machine moved behind it
  or a switch runs.  A superseded discovery may hold anything, so the invariant speaks
  of the generation `gen` only.
* `PageSound`: a page, a pending read of it and an apply's read-back hold the model's
  configuration, unless it changed behind them (`stale`, `old`) or the apply's own
  read-back is still to come.  The pending reads have to be part of it: one that began
  before an apply comes back after it.
* `SwitchSound`: `Failing`, that a switch on its way down a failure path remembers so,
  and `Whole`, what it knows of the machine when nothing else moved it: its base
  while it writes, the connections at its end, and that a repair which was not refused
  left a model connected.

`OneWriterKept` and `ShownKept` are the invariants of run `settings`, `NeverLessKept`
its action property, from `SwitchSound` at the step that takes the switch away.
`ConfigShown` is stated without an exception for a tab that is out of sight or for
reads that are under way: it is `PageSound` at rest.  TLC checked `SettingsInv` first.

**Parts** (`PartsProofs`; `PartsAssumption`: any capacities, finitely many sessions, none
named like the monitor's unload).  A behaviour is of one part, and `Only` keeps the
others still: `LifePart`, `TransPart` and their likes lift what a part keeps to the
composition.

* *The model's life.*  `LifeInv` is `TypeOK`, that `active` counts the sessions that
  are there, and three parts.  `LockSound`: the monitor's unload is in the queue of the
  model lock exactly while the monitor waits, whoever waits for the model is queued,
  and before the unload only sessions that have left wait.  `ReleaseSound`: while
  `released` is set nobody came, so nothing is behind the unload and nothing left after
  it.  `DeviceSound`: a session that decodes has a model on the device that serves or
  served before, and one builds at a time.  `OneModelKept` needs the queue's order: a
  load behind the unload would bring the model back after the release.
* *The connection.*  `TransInv` is `TypeOK`, `WireSound` (what was queued is on the
  wire, then in the writer's hand, then in the outbox; the dialect's view of the commit
  follows the wire) and `EventsSound` (a pump that runs has nothing decoded in hand,
  and nothing that ends the owner's reading is among the events before the pump is
  over).  `WireContractKept` is the property.

* *The HUD and who runs it.*  `HudPromisedKept` joins four invariants.
  - `HudInv`, of the HUD's own supervisor: it is registered exactly while a HUD is there or
    coming (`MachineSound`), it has a child exactly while there is a process, and it is on
    the books of the daemon there is only while it is registered or has yet to hear that
    the daemon came (`BooksSound`: the last of the owner's changes not yet heard is what
    is so).  Every rule is taken with the actions it performs, a spawn with its failure
    (`OwnedIs`, `LostIs`, `ExitedIs`, `TimersAre`, `ShutdownIs`); `FeedKeeps` is what
    performing them does.
  - `ShellInv`, of the Shell extension: the owner's changes it has yet to hear alternate,
    from what it saw to what is (`Turns`), so that it hears of a daemon that comes only
    when it has nothing running; and the last word it said or has on its way to the
    daemon is whether it is registered (`Says`).  A renderer or a timer is there only
    while it is attached to a daemon it sees and has not used its budget (`HostSound`).
  - `BusInv`, of the HUD's reader: a snapshot that no push will replace is of what is
    served, unless something changed while the thread did not look.
  - `PillInv`, of its window: it is to be hidden exactly in idle, and then it fades.
* *What the user does and is told.*  `UserHeardKept` joins three.
  - `TriInv`, of the trigger: `Accounted` is the balance of presses and edges.  An edge
    is owed for each queued poke that no repeat follows closely (`Presses`) and for a
    candidate that stands (`Stands`), and the first repeat of a held key is the one poke
    that looks like a press until the second comes.  `KeyHeld` is what the user's repeats
    left at the newest end of the queue, `Filtered` that what the filter takes for a
    repeat at the oldest end is one; a press in between separates them.  All of it ends
    with the first poke that a full backlog drops, as the property does.
  - `DaemonInv`, of the process: what is in force is resolved from one choice and the
    last answer (`InForce`), and the settings thread is due again whenever what it holds
    is not what is stored (`ThreadSound`).
  - `IndInv`, of the indicator: how far the publishing of the state set last, or else its
    dismissal, has come (`OnTheBus`), unless a dismissal was torn by a new state.

TLC checked the nine invariants on run `parts`, `LifeInv` with three sessions and four
loads too.

**Only model-checked.**  All liveness (`AlwaysReturns`, `AllReleased`, `LostCloses`,
`PartsDeliver`, ...), since fairness and ENABLED are outside what the prover can do;
`AckedIsAnswered` of the server; all of `Streaming`; the parts under
`CaptureReported` and `ShownIsSo`.  What a definition by
recursion over data computes for every input is not provable with the installed provers
(`SelectSeq` in `Streaming` and the automaton's run in `Keywords` are such definitions):
where the proofs need sequences they use concatenation and tails, never a fold.

## 5. Abstractions

* Audio is a numbered chunk, a text a numbered final, a frame its kind.  Levels, SNR,
  JSON, base64 and wording are left out.  A frame reaches the peer in the poll that
  completes its write.
* Each composition leaves to its neighbours what is modelled there.  `Session`'s caller
  drains its output at once (a full event queue is in `Controller`, `QueueCap`); the
  abort on the control channel is an input of `FsmMachine` only.  `Controller` leaves
  out preedit, the counter of dropped audio, separators, warnings and the stdin trigger;
  its field and its session are their contracts.  `select!` arms without `biased` are
  taken in any order.
* `LoopEdge` in `Controller` keeps the branch for a Press that arrives in a running
  utterance, which the trigger's `pressed` makes unreachable with this trigger.
* A history variable that marks a case a property excuses is set exactly where the
  code does what section 3 lists: `drift` and `stale` in `Settings`, `undone` in `Ibus`,
  `truth.moved` in `PipeWire`, `overtaken` in `Daemon`, `torn` in `Indicator`, `unseen`
  in `HudBus`, `cut` in `Pill`, `known.setup`, `reread` and `reading` in `Onboarding`,
  `hist.astray` and `hist.crossed` in `Preferences`, `leftover` in `Lifecycle`, `several`, `raced`,
  `lapsed` and `blind` in `Shortcut`, `unsure` and `gave_up` in `Sweep`.
* `Lifecycle`: a load is one step, its end.  `whisper.py` awaits the load on a thread
  with the model lock held, and assigns model and device when it is over; what comes,
  leaves and queues meanwhile does so while the session is the head of the lock.  Only
  the leftover decode of a cancelled session could put a model there during the load,
  and the model then keeps that one, where the code replaces it by the one just loaded.
* `HudHost`: a HUD alive past `HEALTHY_UPTIME` has registered, and `tell_daemon` is
  atomic.
* `Onboarding`: the status surface can be missing alone only at the start, one snap is
  followed, strange answers are bounded by `MaxOdd`, a read is of one moment, a
  second read's tail waits for the first.
* `Sweep`: verdicts are not told apart, the pace of a clip is not modelled, and Ctrl-C
  drops the planned cells.  The cold overrun branch is dead in the code, and an empty
  list of clips yields "ok" without rows.

## 6. Not modelled

The map names about 14% of the implementation's lines.  The largest files hold
little that is stateful: `app.rs` (6,300 lines) is mostly widget construction and
headless GTK probes, `backend_ui.rs` (6,400) rendering and 2,800 lines of inline tests,
the HUD crate drawing; about a quarter of the Rust lines stands behind `cfg(test)`, and
the Python tree is largely offline tooling.

Left out: the memory-pressure monitor, `_drop_resegmented`, the keyword `correct` step
and segmentation by spelling, retries after a collapse, parakeet's fallback in place,
the commit in pieces for XIM clients, model installs from the settings page, the
wizard's input method and language offers, clock reports without a rate and errors of
`stream.time()` in PipeWire, downmixing, HUD rendering and placement on X11 and
layer-shell, sounds, the command line client, voice activity and SNR (pure signal
arithmetic), the adapters' inference runtimes, the benchmark's metrics and reports,
packaging, the last-error and levels properties of the status interface, and the HUD
lab and `serve-dbus` simulator.

## 7. Plan

Proofs, in this order: the capture half of `CaptureReported` (its lemmas are those of
`SessionProofs`), then `ShownIsSo`; each part's invariant is lifted
by one lemma like `LifePart`.  `NoWordTwice` and `AudioCovered` stay with TLC: what the
decoder returns is selected with `SelectSeq`, which is defined by recursion.  For each
the inductive invariant is first checked as an invariant of its run.  Models: the setup
wizard's input method, the settings page's installs, the rest of the status interface.
