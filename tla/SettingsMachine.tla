-------------------------- MODULE SettingsMachine --------------------------
(***************************************************************************)
(* The settings application over a small machine: the steps of every       *)
(* future interleaved with the user's and the machine's.                   *)
(***************************************************************************)
EXTENDS Settings

SwitchStep(p) == \/ Preflight(p) \/ change_holding(p) \/ Disconnect(p)
                 \/ Connect(p) \/ restart_myna(p) \/ refresh(p)

ApplyStep(m) == \/ Prompt(m) \/ refuse(m) \/ execute_plan(m) \/ ReadBack(m) \/ complete_apply(m)

SetupStep == \/ Check \/ wait_for_snapd \/ ChangesRead \/ SetupEnds

ReadStep == \/ \E d \in disc : DiscoveryReads(d)
            \/ CompleteDiscovery
            \/ \E r \in reads : SnapshotReads(r) \/ complete_snapshot(r)

UserStep == \/ rediscover_on_focus \/ on_diagnostics_requested \/ trigger_snapshot
            \/ \E m \in Models, v \in Values : apply_change(m, v)
            \/ \E m \in Models : begin_backend_switch(m)
            \/ open_setup \/ finish_setup \/ CloseWizard

Next == \/ UserStep \/ ReadStep \/ CompleteSwitch \/ SetupStep
        \/ \E p \in {"ui", "wizard"} : SwitchStep(p)
        \/ \E m \in Models : ApplyStep(m)
        \/ Outside \/ LateChange

(* The GTK loop polls every ready future, snapd and polkit answer. *)
Fairness == /\ \A m \in Models : WF_vars(ApplyStep(m))
            /\ WF_vars(SwitchStep("ui"))
            /\ WF_vars(CompleteSwitch)

Spec == Init /\ [][Next]_vars /\ Fairness

-----------------------------------------------------------------------------
(* Types.                                                                   *)
TypeOK ==
  /\ linked \subseteq Models /\ installed \subseteq Models
  /\ cfg \in [Models -> Values] /\ Cardinality(late) <= 1
  /\ gate \in Models \cup {"free", "ui"}
  /\ shown \in [Models -> Values \cup {Blank}] /\ {r.m : r \in reads} \subseteq Models
  /\ wizard \in {"never", "open", "closed"} /\ DOMAIN job = Models
  /\ asks \in 0..MaxUser /\ events \in 0..MaxWorld

(* Whoever is changing the machine for the user, except a setup its closed  *)
(* wizard left behind.                                                      *)
Writers == {m \in Models : job[m] # Idle}
             \cup {p \in {"ui"} : sw[p] # Idle}
             \cup {p \in {"wizard"} : sw[p] # Idle /\ wizard = "open"}

(* One privileged operation at a time: even when a vanished model's apply   *)
(* is cancelled, the gate is not given away before its root process ends.   *)
OneWriter == TypeOK /\ Cardinality(Writers) <= 1 /\ \A w \in Writers \ {"wizard"} : gate = w

(* At rest the model list marks what is connected: no superseded discovery, *)
(* and none that read before a switch, is ever the one that stays.  Only a  *)
(* change made behind the application, or an announced failure to read, is  *)
(* excused.                                                                 *)
ConnectionsShown ==
  (~Discovering /\ sw["ui"] = Idle /\ wizard # "open" /\ ~drift) =>
     snap = Connections /\ view = Connections

(* While its model is not being configured the Model page shows the model's *)
(* configuration, on screen or not and whatever is still being read: a read *)
(* begun before an apply never replaces the read-back.  Only a change made  *)
(* behind the page since its last read is excused.                          *)
ConfigShown ==
  \A m \in view.backends :
    (job[m] = Idle /\ ~stale[m] /\ shown[m] # Blank) => shown[m] = cfg[m]

(* What the window shows at rest is what the machine has.                   *)
Shown == ConnectionsShown /\ ConfigShown

(* A switch that ends without a toast leaves a model connected where it     *)
(* found one, unless the machine moved or could not be read: the loss of a  *)
(* failed or dismissed connect is repaired first, or told.                  *)
NeverLess ==
  [][LET s == sw["ui"] IN
       (s # Idle /\ sw'["ui"] = Idle /\ Notice(s) = "none" /\ Sole(s.base) # {}
          /\ ~s.moved /\ s.final # Error) => linked # {}]_vars

(* Every operation gives the gate back: no failure path keeps it.           *)
OperationEnds == gate # "free" ~> gate = "free"

(* As its comment has it: a switch that lost the model says so.             *)
LossTold ==
  [][LET s == sw["ui"] IN
       (s # Idle /\ sw'["ui"] = Idle /\ Notice(s) = "none" /\ Sole(s.base) # {}
          /\ ~s.moved) => linked # {}]_vars

(* As its comment has it: a setup still waiting on snapd when the wizard    *)
(* closes connects and restarts nothing.                                    *)
NothingBehind ==
  [][(sw["wizard"].pc \in {"check", "wait", "changes"} /\ wizard = "closed") =>
        sw'["wizard"].pc \notin {"preflight", "restarts"}]_vars
=============================================================================
