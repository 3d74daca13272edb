------------------------------ MODULE Settings ------------------------------
(***************************************************************************)
(* The settings application's operations on the models: discovery, page    *)
(* reads, one change applied as root, a switch of the connected model, and  *)
(* the setup wizard (client/myna-config/src: operation_gate.rs,             *)
(* backend_controller.rs, active_backend.rs, backend_apply.rs, command.rs,  *)
(* backend_ui.rs, onboarding_ui.rs and the snapd and pkexec adapters).      *)
(*                                                                          *)
(* Everything runs as futures on one GTK thread, so a step is what runs     *)
(* between two awaits.  What lies behind the awaits is the machine: snapd's *)
(* connections, the models' configuration, polkit's prompts, and the user   *)
(* or snapd changing things outside the application.                        *)
(***************************************************************************)
EXTENDS Naturals, FiniteSets

CONSTANTS Models,          \* backend snaps
          Values,          \* values of the one setting a page changes
          MaxUser,         \* things the user asks the application for
          MaxWorld,        \* failures of a read, snapd or polkit, and changes made elsewhere
          MaxAttempts      \* READINESS_ATTEMPTS

ASSUME SettingsAssumption ==
  /\ Models \cap {"free", "ui"} = {} /\ Values # {}
  /\ {MaxUser, MaxWorld} \subseteq Nat
  /\ MaxAttempts \in Nat \ {0}

VARIABLES
  installed, linked, cfg,  \* the machine: snaps, myna:backend connections, configuration
  late,                    \* snapd changes nobody waits for any more
  gate,                    \* OperationCoordinator.active: "free" or its holder
  gen, disc,               \* discovery_generation and the requests in flight
  view, failed,            \* the pages and their connections; last_discovery_error
  shown, reads,            \* each page's snapshot, and the live page reads
  tab,                     \* the Model tab is the one on show
  snap, verified, tabbed,  \* ActiveBackendController's snapshot; shown_state
  job,                     \* apply_state, with how far the apply is
  sw,                      \* the switch of the model list, and of the wizard
  wizard,                  \* "never", "open" or "closed"
  asks, events,            \* what is left of MaxUser and MaxWorld
  drift, stale             \* what the machine did behind the view, and behind each page

machine == <<installed, linked, cfg, late>>
pages   == <<view, failed, shown, reads, snap, verified, tabbed>>
vars == <<installed, linked, cfg, late, gate, gen, disc, view, failed, shown, reads,
          tab, snap, verified, tabbed, job, sw, wizard, asks, events, drift, stale>>

Unread == [ok |-> "unread", backends |-> {}, active |-> {}]
Error  == [ok |-> "error", backends |-> {}, active |-> {}]
Blank  == "blank"
Idle   == [pc |-> "idle"]

(* What a refresh of snapd's connections returns now. *)
Connections == [ok |-> "read", backends |-> installed, active |-> linked]

(* ActiveBackendState: the one connected model, if exactly one is. *)
Sole(c) == IF Cardinality(c.active) = 1 THEN c.active ELSE {}

Asks    == asks > 0 /\ asks' = asks - 1 /\ UNCHANGED events
Happens == events > 0 /\ events' = events - 1 /\ UNCHANGED asks
bounds  == <<asks, events>>

Init ==
  /\ installed = Models
  /\ linked \in {s \in SUBSET Models : Cardinality(s) <= 1}
  /\ cfg = [m \in Models |-> CHOOSE v \in Values : TRUE]
  /\ late = {}
  /\ gate = "free"
  /\ gen = 1
  /\ disc = {[gen |-> 1, quiet |-> FALSE, got |-> Unread, old |-> FALSE]}
  /\ view = [ok |-> "read", backends |-> {}, active |-> {}]
  /\ failed = FALSE
  /\ shown = [m \in Models |-> Blank]
  /\ reads = {}
  /\ tab = TRUE
  /\ snap = view
  /\ verified = TRUE
  /\ tabbed = {}
  /\ job = [m \in Models |-> Idle]
  /\ sw = [p \in {"ui", "wizard"} |-> Idle]
  /\ wizard = "never"
  /\ asks = MaxUser
  /\ events = MaxWorld
  /\ drift = FALSE
  /\ stale = [m \in Models |-> FALSE]

-----------------------------------------------------------------------------
(* Discovery. *)

Discovering == \E d \in disc : d.gen = gen
discovery_loading == \E d \in disc : d.gen = gen /\ ~d.quiet

(* Discoveries that read before something the application does not track. *)
Outdated == {[d EXCEPT !.old = @ \/ d.got # Unread] : d \in disc}

(* Begins one, cancelling the one before: what that had read still comes
   back, and complete_discovery refuses it. *)
begin_discovery(quiet) ==
  /\ gen' = gen + 1
  /\ disc' = {d \in disc : d.got # Unread} \cup
             {[gen |-> gen + 1, quiet |-> quiet, got |-> Unread, old |-> FALSE]}

(* The window regains focus: nothing during an operation, nor while any
   discovery runs. *)
rediscover_on_focus ==
  /\ wizard # "open"
  /\ gate = "free"
  /\ ~Discovering
  /\ Asks
  /\ begin_discovery(TRUE)
  /\ UNCHANGED <<machine, pages, gate, tab, job, sw, wizard, drift, stale>>

(* The Diagnostics tab, or its refresh. *)
on_diagnostics_requested ==
  /\ wizard # "open"
  /\ ~discovery_loading
  /\ Asks
  /\ begin_discovery(FALSE)
  /\ UNCHANGED <<machine, pages, gate, tab, job, sw, wizard, drift, stale>>

(* snapd answers a refresh, or does not. *)
DiscoveryReads(d) ==
  /\ d.got = Unread
  /\ \/ /\ disc' = (disc \ {d}) \cup {[d EXCEPT !.got = Connections]}
        /\ UNCHANGED bounds
     \/ /\ d.gen = gen
        /\ Happens
        /\ disc' = (disc \ {d}) \cup {[d EXCEPT !.got = Error]}
  /\ UNCHANGED <<machine, pages, gate, gen, tab, job, sw, wizard, drift, stale>>

begin_snapshot(rs, m) == {r \in rs : r.m # m} \cup {[m |-> m, got |-> Blank, old |-> FALSE]}
cancel_page(rs, m) == {r \in rs : r.m # m}

(* sync_active_backend and sync_backend_tab on reads `rs`: the Model tab
   follows the one connected model, and reads it when on show. *)
sync_active_backend(c, rs) ==
  IF sw["ui"] # Idle
  THEN /\ UNCHANGED <<snap, verified, tabbed>>
       /\ reads' = rs
  ELSE /\ snap' = c
       /\ verified' = TRUE
       /\ tabbed' = Sole(c)
       /\ reads' = IF Sole(c) = tabbed THEN rs
                   ELSE LET left == {r \in rs : r.m \notin tabbed}
                            on   == {m \in Sole(c) : tab}
                        IN {r \in left : r.m \notin on}
                             \cup {[m |-> m, got |-> Blank, old |-> FALSE] : m \in on}

(* cancel_apply_state: the apply is told, the gate stays with it. *)
cancel_apply_state(gone) ==
  job' = [m \in Models |-> IF m \in gone /\ job[m] # Idle
                           THEN [job[m] EXCEPT !.cancelled = TRUE] ELSE job[m]]

(* apply_discovery, then what DiscoveryChanged makes the window do. *)
apply_discovery(c, quiet, old) ==
  LET gone == view.backends \ c.backends
      rs   == {r \in reads : r.m \notin gone}
  IN /\ view' = c
     /\ failed' = FALSE
     /\ shown' = [m \in Models |-> IF m \in c.backends THEN shown[m] ELSE Blank]
     /\ stale' = [m \in Models |-> stale[m] /\ m \in c.backends]
     /\ IF ~quiet \/ failed \/ c # view
        THEN sync_active_backend(c, rs) /\ cancel_apply_state(gone) /\ drift' = old
        ELSE UNCHANGED <<snap, verified, tabbed, reads, job, drift>>

(* Mutant: whatever comes back is applied. *)
complete_discovery_Any(d) ==
  /\ d.got # Unread
  /\ disc' = disc \ {d}
  /\ IF d.got = Error
     THEN /\ failed' = TRUE
          /\ drift' = TRUE
          /\ UNCHANGED <<view, shown, reads, snap, verified, tabbed, job, stale>>
     ELSE apply_discovery(d.got, d.quiet, d.old)
  /\ UNCHANGED <<machine, gate, gen, tab, sw, wizard, bounds>>

(* complete_discovery: only the newest request is accepted. *)
complete_discovery(d) ==
  /\ d.got # Unread
  /\ disc' = disc \ {d}
  /\ IF d.gen # gen
     THEN UNCHANGED <<pages, job, drift, stale>>
     ELSE IF d.got = Error
     THEN /\ failed' = TRUE
          /\ drift' = TRUE
          /\ UNCHANGED <<view, shown, reads, snap, verified, tabbed, job, stale>>
     ELSE apply_discovery(d.got, d.quiet, d.old)
  /\ UNCHANGED <<machine, gate, gen, tab, sw, wizard, bounds>>

CompleteDiscovery == \E d \in disc : complete_discovery(d)

-----------------------------------------------------------------------------
(* Page reads. *)

(* A page's model changed with nothing to tell the page. *)
Aged(m) == /\ stale' = [stale EXCEPT ![m] = TRUE]
           /\ reads' = {IF r.m = m THEN [r EXCEPT !.old = r.got # Blank] ELSE r : r \in reads}

(* The Model tab is shown, or its page refreshed; leaving it drops its read. *)
trigger_snapshot ==
  /\ wizard # "open"
  /\ Asks
  /\ \/ /\ tab' = ~tab
        /\ reads' = IF tab THEN {r \in reads : r.m \notin tabbed}
                    ELSE {r \in reads : r.m \notin tabbed} \cup
                         {[m |-> m, got |-> Blank, old |-> FALSE] : m \in tabbed \cap view.backends}
     \/ /\ tab
        /\ \E m \in tabbed \cap view.backends :
              /\ job[m] = Idle /\ \A r \in reads : r.m # m
              /\ reads' = begin_snapshot(reads, m)
        /\ UNCHANGED tab
  /\ UNCHANGED <<machine, view, failed, shown, snap, verified, tabbed, gate, gen, disc,
                 job, sw, wizard, drift, stale>>

SnapshotReads(r) ==
  /\ r.got = Blank
  /\ reads' = (reads \ {r}) \cup {[r EXCEPT !.got = cfg[r.m]]}
  /\ UNCHANGED <<machine, view, failed, shown, snap, verified, tabbed, gate, gen, disc,
                 tab, job, sw, wizard, bounds, drift, stale>>

(* complete_snapshot, of a read nothing cancelled. *)
complete_snapshot(r) ==
  /\ r.got # Blank
  /\ reads' = reads \ {r}
  /\ shown' = [shown EXCEPT ![r.m] = r.got]
  /\ stale' = [stale EXCEPT ![r.m] = r.old]
  /\ UNCHANGED <<machine, view, failed, snap, verified, tabbed, gate, gen, disc,
                 tab, job, sw, wizard, bounds, drift>>

(* The read-back of an apply replaces the page and drops its read. *)
apply_readback(m, value, old) ==
  /\ shown' = [shown EXCEPT ![m] = value]
  /\ stale' = [stale EXCEPT ![m] = old]
  /\ reads' = cancel_page(reads, m)

-----------------------------------------------------------------------------
(* One change applied through pkexec. *)

(* Mutant: a new operation takes the gate over. *)
begin_Replaces(who) == gate' = who

begin(who) == gate = "free" /\ gate' = who
complete(who) == gate' = IF gate = who THEN "free" ELSE gate

apply_change(m, v) ==
  /\ wizard # "open"
  /\ tab /\ m \in tabbed \cap view.backends
  /\ job[m] = Idle
  /\ shown[m] \notin {Blank, v}
  /\ begin(m)
  /\ Asks
  /\ job' = [job EXCEPT ![m] = [pc |-> "prompt", value |-> v, cancelled |-> FALSE,
                                attempt |-> 0, got |-> Blank, old |-> FALSE, partial |-> FALSE]]
  /\ UNCHANGED <<machine, pages, gen, disc, tab, sw, wizard, drift, stale>>

(* The prompt: authorized, refused, or pkexec killed while still ours. *)
Prompt(m) ==
  /\ job[m].pc = "prompt"
  /\ IF job[m].cancelled
     THEN job' = [job EXCEPT ![m].pc = "over"] /\ UNCHANGED bounds
     ELSE \/ job' = [job EXCEPT ![m].pc = "root"] /\ UNCHANGED bounds
          \/ job' = [job EXCEPT ![m].pc = "over"] /\ Happens
  /\ UNCHANGED <<machine, pages, gate, gen, disc, tab, sw, wizard, drift, stale>>

(* run_process: root refuses the kill, so the cancellation is withdrawn. *)
refuse(m) ==
  /\ job[m].pc = "root" /\ job[m].cancelled
  /\ job' = [job EXCEPT ![m].cancelled = FALSE]
  /\ UNCHANGED <<machine, pages, gate, gen, disc, tab, sw, wizard, bounds, drift, stale>>

(* The executor stops at the first failed operation and reports the ones
   before it: none, the write without the restart, or all.  Its report can
   also be unreadable, which reads as none. *)
execute_plan(m) ==
  /\ job[m].pc = "root"
  /\ \/ /\ cfg' = [cfg EXCEPT ![m] = job[m].value]
        /\ job' = [job EXCEPT ![m].pc = "read"]
        /\ UNCHANGED <<bounds, stale, reads>>
     \/ /\ Happens
        /\ \/ /\ job' = [job EXCEPT ![m].pc = "over"]
              /\ UNCHANGED <<cfg, stale, reads>>
           \/ /\ cfg' = [cfg EXCEPT ![m] = job[m].value]
              /\ job' = [job EXCEPT ![m].pc = "read", ![m].partial = TRUE]
              /\ UNCHANGED <<stale, reads>>
           \/ /\ cfg' = [cfg EXCEPT ![m] = job[m].value]
              /\ job' = [job EXCEPT ![m].pc = "over"]
              /\ Aged(m)
  /\ UNCHANGED <<installed, linked, late, view, failed, shown, snap, verified, tabbed,
                 gate, gen, disc, tab, sw, wizard, drift>>

(* One read of the readiness loop: the model answers, or is retried. *)
ReadBack(m) ==
  /\ job[m].pc = "read"
  /\ \/ /\ job' = [job EXCEPT ![m].pc = "back", ![m].got = cfg[m]]
        /\ UNCHANGED bounds
     \/ /\ Happens
        /\ job' = IF \/ job[m].attempt + 1 >= MaxAttempts
                     \/ job[m].partial \/ job[m].cancelled
                  THEN [job EXCEPT ![m].pc = "back", ![m].got = Blank]
                  ELSE [job EXCEPT ![m].attempt = @ + 1]
  /\ UNCHANGED <<machine, pages, gate, gen, disc, tab, sw, wizard, drift, stale>>

(* Mutant: an apply that never read back keeps the gate. *)
complete_apply_KeepsGate(m) ==
  /\ job[m].pc \in {"over", "back"}
  /\ job' = [job EXCEPT ![m] = Idle]
  /\ IF job[m].pc = "back" THEN complete(m) ELSE UNCHANGED gate
  /\ IF job[m].pc = "back" /\ m \in view.backends
     THEN apply_readback(m, job[m].got, job[m].old)
     ELSE UNCHANGED <<shown, stale, reads>>
  /\ UNCHANGED <<machine, view, failed, snap, verified, tabbed, gen, disc, tab, sw,
                 wizard, bounds, drift>>

(* complete_apply: the gate is given back, and the page shows the read-back. *)
complete_apply(m) ==
  /\ job[m].pc \in {"over", "back"}
  /\ job' = [job EXCEPT ![m] = Idle]
  /\ complete(m)
  /\ IF job[m].pc = "back" /\ m \in view.backends
     THEN apply_readback(m, job[m].got, job[m].old)
     ELSE UNCHANGED <<shown, stale, reads>>
  /\ UNCHANGED <<machine, view, failed, snap, verified, tabbed, gen, disc, tab, sw,
                 wizard, bounds, drift>>

-----------------------------------------------------------------------------
(* Switching the connected model: execute_switch, for the model list and    *)
(* for the wizard.                                                          *)

SwitchPlan(c, sel) ==
  [pc |-> "preflight", sel |-> sel, base |-> c, todo |-> c.active, target |-> sel,
   final |-> Unread, why |-> "none", restoring |-> FALSE, unrestored |-> FALSE, moved |-> FALSE]

Goes(p, pc) == sw' = [sw EXCEPT ![p].pc = pc]
Fails(p, why) == sw' = [sw EXCEPT ![p].pc = "settle", ![p].why = why]

Elsewhere  == UNCHANGED <<pages, gate, gen, tab, job, wizard, stale>>
SwitchOnly == Elsewhere /\ UNCHANGED disc

(* ActiveBackendController::begin: one pending switch, behind the gate. *)
begin_backend_switch(sel) ==
  /\ wizard # "open"
  /\ verified
  /\ sw["ui"] = Idle
  /\ sel \in snap.backends \ Sole(snap)
  /\ begin("ui")
  /\ Asks
  /\ sw' = [sw EXCEPT !["ui"] = SwitchPlan(snap, sel)]
  /\ UNCHANGED <<machine, pages, gen, disc, tab, job, wizard, drift, stale>>

(* The connections must still be those the plan was made from. *)
Preflight(p) ==
  /\ sw[p].pc = "preflight"
  /\ \/ /\ IF Connections = sw[p].base THEN Goes(p, "holding")
           ELSE sw' = [sw EXCEPT ![p].pc = "done", ![p].why = "stale", ![p].final = Connections]
        /\ UNCHANGED bounds
     \/ /\ Happens
        /\ sw' = [sw EXCEPT ![p].pc = "done", ![p].why = "unread", ![p].final = Error]
  /\ UNCHANGED <<machine, drift>>
  /\ SwitchOnly

(* change_holding: snapd would refuse a step on a snap it is changing. *)
change_holding(p) ==
  /\ sw[p].pc = "holding"
  /\ \/ /\ IF late # {} THEN sw' = [sw EXCEPT ![p].pc = "done", ![p].why = "busy",
                                              ![p].final = sw[p].base]
           ELSE Goes(p, IF sw[p].todo = {} THEN "connect" ELSE "disconnect")
        /\ UNCHANGED bounds
     \/ /\ late # {} /\ Happens
        /\ Goes(p, IF sw[p].todo = {} THEN "connect" ELSE "disconnect")
  /\ UNCHANGED <<machine, drift>>
  /\ SwitchOnly

Link(act, m) == IF act = "connect" THEN (linked \cup {m}) \cap installed ELSE linked \ {m}

(* One interface action through snapd, ending in `sw_` when done: refused,
   its prompt dismissed, or its change left running past the deadline. *)
apply_interface_action(p, act, m, done) ==
  \/ /\ late = {} /\ m \in installed
     /\ linked' = Link(act, m)
     /\ sw' = IF p = "wizard" /\ wizard = "closed" /\ sw["ui"] # Idle
              THEN [done EXCEPT !["ui"].moved = TRUE] ELSE done
     /\ IF p = "wizard" /\ wizard = "closed" THEN drift' = TRUE /\ disc' = Outdated
        ELSE UNCHANGED <<drift, disc>>
     /\ UNCHANGED <<late, bounds>>
  \/ /\ IF late = {} /\ m \in installed THEN Happens ELSE UNCHANGED bounds
     /\ \E why \in {"cancelled", "failed"} :
          IF sw[p].restoring
          THEN sw' = [sw EXCEPT ![p].pc = "reread", ![p].unrestored = TRUE]
          ELSE Fails(p, why)
     /\ UNCHANGED <<linked, late, drift, disc>>
  \/ /\ late = {} /\ m \in installed
     /\ Happens
     /\ late' = {[act |-> act, m |-> m]}
     /\ IF sw[p].restoring
        THEN sw' = [sw EXCEPT ![p].pc = "reread", ![p].unrestored = TRUE]
        ELSE Fails(p, "failed")
     /\ UNCHANGED <<linked, drift, disc>>

Disconnect(p) ==
  /\ sw[p].pc = "disconnect"
  /\ \E m \in sw[p].todo :
        apply_interface_action(p, "disconnect", m,
          [sw EXCEPT ![p].todo = @ \ {m},
                     ![p].pc = IF sw[p].todo = {m} THEN "connect" ELSE "disconnect"])
  /\ UNCHANGED <<installed, cfg>>
  /\ Elsewhere

Connect(p) ==
  /\ sw[p].pc = "connect"
  /\ apply_interface_action(p, "connect", sw[p].target, [sw EXCEPT ![p].pc = "restart"])
  /\ UNCHANGED <<installed, cfg>>
  /\ Elsewhere

restart_myna(p) ==
  /\ sw[p].pc = "restart"
  /\ \/ /\ Goes(p, IF sw[p].restoring THEN "reread" ELSE "final")
        /\ UNCHANGED bounds
     \/ /\ Happens
        /\ IF sw[p].restoring
           THEN sw' = [sw EXCEPT ![p].pc = "reread", ![p].unrestored = TRUE]
           ELSE Fails(p, "failed")
  /\ UNCHANGED <<machine, drift>>
  /\ SwitchOnly

(* Mutant: a dismissed prompt needs no repair. *)
Lost_OnlyFailed(s, c) == /\ c.active = {} /\ s.why = "failed"
                         /\ Sole(s.base) # {} /\ Sole(s.base) \subseteq c.backends

(* restore_lost_model's condition on what settling read. *)
Lost(s, c) == /\ c.active = {}
              /\ Sole(s.base) # {} /\ Sole(s.base) \subseteq c.backends

(* The refreshes after the steps: final, settling a failure, and after the
   restore.  Settling with no model left where one was reconnects it. *)
refresh(p) ==
  /\ sw[p].pc \in {"final", "settle", "reread"}
  /\ \/ /\ sw' = IF sw[p].pc = "settle" /\ Lost(sw[p], Connections)
                 THEN [sw EXCEPT ![p].pc = "connect", ![p].restoring = TRUE,
                                 ![p].target = CHOOSE m \in sw[p].base.active : TRUE]
                 ELSE [sw EXCEPT ![p].pc = "done", ![p].final = Connections]
        /\ UNCHANGED bounds
     \/ /\ Happens
        /\ sw' = [sw EXCEPT ![p].pc = "done", ![p].final = Error,
                            ![p].why = IF sw[p].pc = "final" THEN "unread" ELSE @]
  /\ UNCHANGED <<machine, drift>>
  /\ SwitchOnly

(* SwitchOutcome::notice. *)
Notice(s) ==
  IF s.why = "unread" THEN "unconfirmed"
  ELSE IF s.why = "none" THEN IF s.final.active = {s.sel} THEN "none" ELSE "failed"
  ELSE IF s.why = "cancelled" /\ ~s.unrestored THEN "none"
  ELSE "failed"

(* ActiveBackendController::complete, then the discovery it triggers. *)
CompleteSwitch ==
  LET s == sw["ui"] IN
  /\ s.pc = "done"
  /\ complete("ui")
  /\ sw' = [sw EXCEPT !["ui"] = Idle]
  /\ IF s.final = Error THEN verified' = FALSE /\ UNCHANGED snap
     ELSE snap' = s.final /\ verified' = TRUE
  /\ begin_discovery(FALSE)
  /\ UNCHANGED <<machine, view, failed, shown, reads, tabbed, tab, job, wizard, bounds, drift, stale>>

-----------------------------------------------------------------------------
(* The setup wizard, modal over the window, opened behind the gate. *)

open_setup ==
  /\ wizard = "never"
  /\ gate = "free"
  /\ Asks
  /\ wizard' = "open"
  /\ UNCHANGED <<machine, pages, gate, gen, disc, tab, job, sw, drift, stale>>

Setup(pc, c, waited) == sw' = [sw EXCEPT !["wizard"] = [pc |-> pc, got |-> c, waited |-> waited]]
SetupOver == sw' = [sw EXCEPT !["wizard"] = Idle]

(* finish_setup: ensure_backend_active starts by reading the connections. *)
finish_setup ==
  /\ wizard = "open"
  /\ sw["wizard"] = Idle
  /\ Asks
  /\ Setup("check", Unread, FALSE)
  /\ UNCHANGED <<machine, drift>>
  /\ SwitchOnly

(* With one model connected only restart; else switch to one installed. *)
ensure_backend_active(c) ==
  IF Sole(c) # {} THEN Setup("restarts", c, TRUE)
  ELSE IF c.backends = {} THEN SetupOver
  ELSE \E m \in c.backends : sw' = [sw EXCEPT !["wizard"] = SwitchPlan(c, m)]

Check ==
  /\ sw["wizard"].pc = "check"
  /\ \/ /\ IF sw["wizard"].waited THEN ensure_backend_active(Connections)
           ELSE Setup("wait", Connections, FALSE)
        /\ UNCHANGED bounds
     \/ SetupOver /\ Happens
  /\ UNCHANGED <<machine, drift>>
  /\ SwitchOnly

(* wait_for_snapd, from the top of its loop: a closed wizard stops it here. *)
wait_for_snapd ==
  /\ sw["wizard"].pc = "wait"
  /\ IF wizard = "closed" THEN SetupOver
     ELSE sw' = [sw EXCEPT !["wizard"].pc = "changes"]
  /\ UNCHANGED <<machine, bounds, drift>>
  /\ SwitchOnly

(* snapd's changes: wait for one, up to the deadline; after a wait the
   connections are read again. *)
ChangesRead ==
  LET s == sw["wizard"] IN
  /\ s.pc = "changes"
  /\ \/ /\ \/ wizard = "closed" /\ SetupOver
           \/ late # {} /\ (Setup("wait", s.got, TRUE) \/ SetupOver)
           \/ late = {} /\ s.waited /\ Setup("check", s.got, TRUE)
           \/ late = {} /\ ~s.waited /\ ensure_backend_active(s.got)
        /\ UNCHANGED bounds
     \/ SetupOver /\ Happens
  /\ UNCHANGED <<machine, drift>>
  /\ SwitchOnly

(* The restart came back, or the switch: either way the setup is over. *)
SetupEnds ==
  /\ sw["wizard"].pc \in {"restarts", "done"}
  /\ SetupOver
  /\ UNCHANGED <<machine, bounds, drift>>
  /\ SwitchOnly

(* Closing rediscovers, unless a discovery is showing that it loads. *)
CloseWizard ==
  /\ wizard = "open"
  /\ wizard' = "closed"
  /\ IF discovery_loading
     THEN disc' = Outdated /\ drift' = TRUE /\ UNCHANGED gen
     ELSE begin_discovery(FALSE) /\ UNCHANGED drift
  /\ UNCHANGED <<machine, pages, gate, tab, job, sw, bounds, stale>>

-----------------------------------------------------------------------------
(* The machine by itself: the user elsewhere, and snapd finishing late. *)

Behind == /\ drift' = TRUE
          /\ disc' = Outdated
          /\ sw' = [p \in DOMAIN sw |-> IF "moved" \in DOMAIN sw[p]
                                        THEN [sw[p] EXCEPT !.moved = TRUE] ELSE sw[p]]

Outside ==
  /\ Happens
  /\ \/ /\ \E m \in installed : installed' = installed \ {m} /\ linked' = linked \ {m}
        /\ Behind /\ UNCHANGED <<cfg, reads, job, stale>>
     \/ /\ \E m \in Models \ installed : installed' = installed \cup {m}
        /\ Behind /\ UNCHANGED <<linked, cfg, reads, job, stale>>
     \/ /\ \E m \in installed : linked' = IF m \in linked THEN linked \ {m} ELSE linked \cup {m}
        /\ Behind /\ UNCHANGED <<installed, cfg, reads, job, stale>>
     \/ /\ \E m \in installed, v \in Values :
             /\ cfg' = [cfg EXCEPT ![m] = v]
             /\ Aged(m)
             /\ job' = IF job[m] = Idle THEN job ELSE [job EXCEPT ![m].old = job[m].pc = "back"]
        /\ UNCHANGED <<installed, linked, drift, disc, sw>>
  /\ UNCHANGED <<late, gate, gen, view, failed, shown, tab, snap, verified, tabbed,
                 wizard>>

(* A change its caller gave up on finishes, or is undone by snapd. *)
LateChange ==
  /\ \E c \in late : linked' \in {linked, Link(c.act, c.m)}
  /\ late' = {}
  /\ Behind
  /\ UNCHANGED <<installed, cfg, pages, gate, gen, tab, job, wizard, bounds, stale>>
=============================================================================
