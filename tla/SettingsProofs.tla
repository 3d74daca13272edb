---------------------------- MODULE SettingsProofs ----------------------------
(***************************************************************************)
(* Proofs about the settings application: for any models, values and       *)
(* number of requests and failures, one operation writes at a time, what   *)
(* the window shows at rest is what the machine has, and a switch that     *)
(* ends without a word leaves a model where it found one.                  *)
(***************************************************************************)
EXTENDS SettingsMachine, FiniteSetTheorems, TLAPS

-----------------------------------------------------------------------------
(***************************************************************************)
(* The invariant.                                                          *)
(***************************************************************************)

Reads == {c \in [ok : {"read"}, backends : SUBSET Models, active : SUBSET Models] :
            c.active \subseteq c.backends}
Discoveries == [gen : Nat, quiet : BOOLEAN, got : Reads \cup {Unread, Error}, old : BOOLEAN]
PageReads == [m : Models, got : Values \cup {Blank}, old : BOOLEAN]
Jobs == [pc : {"prompt", "root", "read", "back", "over"}, value : Values, cancelled : BOOLEAN,
         attempt : Nat, got : Values \cup {Blank}, old : BOOLEAN, partial : BOOLEAN]
Plans == [pc : {"preflight", "holding", "disconnect", "connect", "restart", "final",
                "settle", "reread", "done"},
          sel : Models, base : Reads, todo : SUBSET Models, target : Models,
          final : Reads \cup {Unread, Error},
          why : {"none", "stale", "unread", "busy", "cancelled", "failed"},
          restoring : BOOLEAN, unrestored : BOOLEAN, moved : BOOLEAN]
Setups == [pc : {"check", "wait", "changes", "restarts"}, got : Reads \cup {Unread},
           waited : BOOLEAN]

MachineTypes == /\ installed \subseteq Models /\ linked \subseteq installed
                /\ cfg \in [Models -> Values] /\ (late = {} \/ \E c : late = {c})
DiscTypes == /\ gen \in Nat /\ disc \subseteq Discoveries /\ \A d \in disc : d.gen <= gen
             /\ \A d, e \in disc : (d.gen = gen /\ e.gen = gen) => d = e
PageTypes == /\ view \in Reads /\ snap \in Reads /\ failed \in BOOLEAN
             /\ shown \in [Models -> Values \cup {Blank}] /\ reads \subseteq PageReads
             /\ tab \in BOOLEAN /\ tabbed \subseteq Models /\ stale \in [Models -> BOOLEAN]
JobTypes == job \in [Models -> Jobs \cup {Idle}]
SwTypes == /\ sw \in [{"ui", "wizard"} -> Plans \cup Setups \cup {Idle}]
           /\ sw["ui"] \notin Setups
           /\ \A p \in {"ui", "wizard"} : sw[p].pc = "done" => sw[p].final # Unread
RestTypes == /\ gate \in Models \cup {"free", "ui"} /\ wizard \in {"never", "open", "closed"}
             /\ asks \in 0..MaxUser /\ events \in 0..MaxWorld /\ drift \in BOOLEAN
SettingsTypes == MachineTypes /\ DiscTypes /\ PageTypes /\ JobTypes /\ SwTypes /\ RestTypes

\* The gate is with the one operation that runs, and free while the wizard is open.
GateHeld ==
  /\ \A m \in Models : job[m] # Idle => gate = m
  /\ sw["ui"] # Idle => gate = "ui"
  /\ wizard = "open" => gate = "free"
  /\ sw["wizard"] # Idle => wizard # "never"

\* What the newest discovery read is still so, unless the machine moved behind it or a
\* switch runs; and the switch's own snapshot differs from the view only until a
\* discovery that redraws.
ViewSound ==
  /\ \A d \in disc : d.gen = gen /\ d.old => drift
  /\ (sw["ui"] = Idle /\ wizard # "open") =>
       \A d \in disc : (d.gen = gen /\ ~d.old /\ d.got \notin {Unread, Error}) => d.got = Connections
  /\ (sw["ui"] = Idle /\ ~discovery_loading /\ ~failed) => snap = view
  /\ ConnectionsShown

\* An apply whose root process may have written ahead of what was read before.
Ahead(m) == job[m].pc \in {"read", "back"}

\* A page, a read of one and a read-back hold the model's configuration, unless it
\* changed behind them or the apply's own read-back is still to come.
PageSound ==
  /\ \A m \in Models : m \notin view.backends => shown[m] = Blank
  /\ \A r \in reads : r.m \in view.backends
  /\ \A r \in reads : r.got = Blank \/ r.old \/ r.got = cfg[r.m] \/ Ahead(r.m)
  /\ \A m \in Models : shown[m] = Blank \/ stale[m] \/ shown[m] = cfg[m] \/ Ahead(m)
  /\ \A m \in Models : job[m].pc = "back" =>
       job[m].got = Blank \/ job[m].old \/ job[m].got = cfg[m]

\* What a switch the machine did not move under knows of the machine.
Whole(s) ==
  /\ s.pc \in {"holding", "disconnect", "connect", "restart", "final", "settle", "reread"} =>
       installed = s.base.backends
  /\ (s.pc = "done" /\ s.why = "none") => s.final = Connections
  /\ (s.restoring /\ s.pc \in {"restart", "reread"} /\ ~s.unrestored) => linked # {}
  /\ (s.pc = "done" /\ s.why = "cancelled" /\ ~s.unrestored /\ s.final # Error /\ Sole(s.base) # {}) =>
       linked # {}

\* A switch on its way down a failure path remembers that it failed.
Failing(s) == /\ (s.restoring \/ s.pc \in {"settle", "reread"}) => s.why \in {"cancelled", "failed"}
              /\ s.pc = "reread" => s.restoring
              /\ s.restoring => s.pc \in {"connect", "restart", "reread", "done"}
              /\ (~s.restoring /\ s.pc \notin {"settle", "done"}) => s.why = "none"

SwitchSound == sw["ui"] # Idle => Failing(sw["ui"]) /\ (sw["ui"].moved \/ Whole(sw["ui"]))

SettingsInv == SettingsTypes /\ GateHeld /\ ViewSound /\ PageSound /\ SwitchSound

-----------------------------------------------------------------------------
(***************************************************************************)
(* The records.                                                            *)
(***************************************************************************)

\* An operation, a plan of a switch and a setup are told apart by where they are.
LEMMA Apart ==
  /\ Idle.pc = "idle"
  /\ \A j \in Jobs : j # Idle /\ j.pc # "idle"
  /\ \A s \in Plans : s # Idle /\ s.pc # "idle" /\ s \notin Setups
  /\ \A s \in Setups : s # Idle /\ s.pc # "idle" /\ s \notin Plans
  BY DEF Idle, Jobs, Plans, Setups

\* A connection record names the read that made it.
LEMMA ReadsApart ==
  /\ Unread \notin Reads /\ Error \notin Reads /\ Unread # Error
  /\ Unread.backends = {}
  /\ \A c \in Reads : /\ c.ok = "read" /\ c.backends \subseteq Models /\ c.active \subseteq Models
                      /\ c.active \subseteq c.backends
  BY DEF Reads, Unread, Error

\* The one connected model is connected.
LEMMA SoleIs == ASSUME NEW c PROVE Sole(c) \subseteq c.active /\ (Sole(c) # {} => c.active # {} /\ Sole(c) = c.active)
  BY FS_EmptySet DEF Sole

\* What snapd answers is a read.
LEMMA ConnectionsRead == ASSUME MachineTypes PROVE Connections \in Reads
  BY DEF MachineTypes, Connections, Reads

\* What each way a switch moves on leaves in its plan.
LEMMA PlanGoes ==
  ASSUME NEW s \in Plans,
         NEW x \in {"preflight", "holding", "disconnect", "connect", "restart", "final",
                    "settle", "reread", "done"}
  PROVE LET t == [s EXCEPT !.pc = x] IN
        /\ t \in Plans /\ t.pc = x /\ t.why = s.why /\ t.base = s.base /\ t.final = s.final
        /\ t.restoring = s.restoring /\ t.unrestored = s.unrestored /\ t.moved = s.moved
  BY DEF Plans

\* A plan that ends for a reason, with what was read last.
LEMMA PlanEnds ==
  ASSUME NEW s \in Plans, NEW f \in Reads \cup {Unread, Error},
         NEW w \in {"none", "stale", "unread", "busy", "cancelled", "failed"}
  PROVE LET t == [s EXCEPT !.pc = "done", !.why = w, !.final = f] IN
        /\ t \in Plans /\ t.pc = "done" /\ t.why = w /\ t.base = s.base /\ t.final = f
        /\ t.restoring = s.restoring /\ t.unrestored = s.unrestored /\ t.moved = s.moved
  BY DEF Plans

\* One that ends with the reason it has.
LEMMA PlanEndsSame ==
  ASSUME NEW s \in Plans, NEW f \in Reads \cup {Unread, Error}
  PROVE LET t == [s EXCEPT !.pc = "done", !.final = f] IN
        /\ t \in Plans /\ t.pc = "done" /\ t.why = s.why /\ t.base = s.base /\ t.final = f
        /\ t.restoring = s.restoring /\ t.unrestored = s.unrestored /\ t.moved = s.moved
  BY DEF Plans

\* A step that failed or was dismissed starts the repair.
LEMMA PlanFails ==
  ASSUME NEW s \in Plans, NEW w \in {"cancelled", "failed"}
  PROVE LET t == [s EXCEPT !.pc = "settle", !.why = w] IN
        /\ t \in Plans /\ t.pc = "settle" /\ t.why = w /\ t.base = s.base /\ t.final = s.final
        /\ t.restoring = s.restoring /\ t.unrestored = s.unrestored /\ t.moved = s.moved
  BY DEF Plans

\* A repair that cannot connect the model again reads the machine anew.
LEMMA PlanLosesTheRestore ==
  ASSUME NEW s \in Plans
  PROVE LET t == [s EXCEPT !.pc = "reread", !.unrestored = TRUE] IN
        /\ t \in Plans /\ t.pc = "reread" /\ t.why = s.why /\ t.base = s.base /\ t.final = s.final
        /\ t.restoring = s.restoring /\ t.unrestored /\ t.moved = s.moved
  BY DEF Plans

\* A repair that connects the model that was lost.
LEMMA PlanRestores ==
  ASSUME NEW s \in Plans, NEW m \in Models
  PROVE LET t == [s EXCEPT !.pc = "connect", !.restoring = TRUE, !.target = m] IN
        /\ t \in Plans /\ t.pc = "connect" /\ t.why = s.why /\ t.base = s.base /\ t.final = s.final
        /\ t.restoring /\ t.unrestored = s.unrestored /\ t.moved = s.moved
  BY DEF Plans

\* A plan done with one of its connections.
LEMMA PlanUnlinks ==
  ASSUME NEW s \in Plans, NEW m, NEW x \in {"connect", "disconnect"}
  PROVE LET t == [s EXCEPT !.todo = s.todo \ {m}, !.pc = x] IN
        /\ t \in Plans /\ t.pc = x /\ t.why = s.why /\ t.base = s.base /\ t.final = s.final
        /\ t.restoring = s.restoring /\ t.unrestored = s.unrestored /\ t.moved = s.moved
  BY DEF Plans

\* A plan behind whose back the machine moves.
LEMMA PlanMoves ==
  ASSUME NEW s \in Plans
  PROVE LET t == [s EXCEPT !.moved = TRUE] IN
        /\ t \in Plans /\ t.pc = s.pc /\ t.why = s.why /\ t.base = s.base /\ t.final = s.final
        /\ t.restoring = s.restoring /\ t.unrestored = s.unrestored /\ t.moved
  BY DEF Plans

\* A step of a switch, or of the wizard, rewrites its own record and no other.
LEMMA SwPut ==
  ASSUME SwTypes, NEW p \in {"ui", "wizard"}, NEW t \in Plans \cup Setups \cup {Idle},
         p = "ui" => t \notin Setups, t.pc = "done" => t.final # Unread,
         sw' = [sw EXCEPT ![p] = t]
  PROVE SwTypes' /\ sw'[p] = t /\ \A q \in {"ui", "wizard"} : q # p => sw'[q] = sw[q]
  BY DEF SwTypes

\* Only a plan has steps of its own; the wizard's other records wait in others.
LEMMA Planned ==
  ASSUME SwTypes, NEW p \in {"ui", "wizard"}
  PROVE /\ sw[p].pc \in {"preflight", "holding", "disconnect", "connect", "restart", "final",
                         "settle", "reread", "done"} => sw[p] \in Plans
        /\ sw[p].pc \in {"check", "wait", "changes", "restarts"} => sw[p] \in Setups
        /\ sw["ui"] # Idle => sw["ui"] \in Plans
  BY DEF SwTypes, Idle, Plans, Setups

-----------------------------------------------------------------------------
(***************************************************************************)
(* One step of a switch.                                                   *)
(***************************************************************************)

\* What a step that changes no connection makes of the plan s.
Advances(s, t) ==
  \/ s.pc = "preflight" /\ Connections = s.base /\ t = [s EXCEPT !.pc = "holding"]
  \/ s.pc = "preflight" /\ \E w \in {"stale", "unread"}, f \in {Connections, Error} :
       t = [s EXCEPT !.pc = "done", !.why = w, !.final = f]
  \/ s.pc = "holding" /\ t = [s EXCEPT !.pc = "done", !.why = "busy", !.final = s.base]
  \/ s.pc = "holding" /\ \E x \in {"connect", "disconnect"} : t = [s EXCEPT !.pc = x]
  \/ /\ s.pc \in {"disconnect", "connect", "restart"} /\ s.restoring
     /\ t = [s EXCEPT !.pc = "reread", !.unrestored = TRUE]
  \/ /\ s.pc \in {"disconnect", "connect", "restart"} /\ ~s.restoring
     /\ \E w \in {"cancelled", "failed"} : t = [s EXCEPT !.pc = "settle", !.why = w]
  \/ s.pc = "restart" /\ s.restoring /\ t = [s EXCEPT !.pc = "reread"]
  \/ s.pc = "restart" /\ ~s.restoring /\ t = [s EXCEPT !.pc = "final"]
  \/ /\ s.pc = "settle" /\ Lost(s, Connections)
     /\ \E m \in s.base.active : t = [s EXCEPT !.pc = "connect", !.restoring = TRUE, !.target = m]
  \/ /\ s.pc \in {"final", "settle", "reread"} /\ ~(s.pc = "settle" /\ Lost(s, Connections))
     /\ t = [s EXCEPT !.pc = "done", !.final = Connections]
  \/ s.pc = "final" /\ t = [s EXCEPT !.pc = "done", !.why = "unread", !.final = Error]
  \/ s.pc \in {"settle", "reread"} /\ t = [s EXCEPT !.pc = "done", !.final = Error]

\* What a change of a connection makes of it, on the model m.
Relinks(s, t, m) ==
  /\ m \in installed
  /\ \/ /\ s.pc = "disconnect" /\ linked' = linked \ {m}
        /\ \E x \in {"connect", "disconnect"} : t = [s EXCEPT !.todo = s.todo \ {m}, !.pc = x]
     \/ /\ s.pc = "connect" /\ linked' = (linked \cup {m}) \cap installed
        /\ t = [s EXCEPT !.pc = "restart"]

\* A plan stays a plan, and knows that it failed.
LEMMA AdvanceIs ==
  ASSUME MachineTypes, NEW s \in Plans, NEW t, Advances(s, t)
  PROVE /\ t \in Plans /\ (t.pc = "done" => t.final # Unread) /\ t.moved = s.moved
        /\ Failing(s) => Failing(t)
  <1>c. Connections \in Reads /\ Connections # Unread /\ Error # Unread
    BY ConnectionsRead, ReadsApart
  <1>s. /\ s.why \in {"none", "stale", "unread", "busy", "cancelled", "failed"} /\ s.base \in Reads
        /\ s.base # Unread /\ s.base.active \subseteq Models /\ s.base \in Reads \cup {Unread, Error}
    <2>1. s.why \in {"none", "stale", "unread", "busy", "cancelled", "failed"} /\ s.base \in Reads
      BY DEF Plans
    <2>q. QED BY <2>1, ReadsApart
  <1>b. s.restoring \in BOOLEAN /\ s.unrestored \in BOOLEAN /\ s.moved \in BOOLEAN
    BY DEF Plans
  <1>1. CASE s.pc = "preflight" /\ Connections = s.base /\ t = [s EXCEPT !.pc = "holding"]
    <2>f. t \in Plans /\ t.pc = "holding" /\ t.why = s.why /\ t.restoring = s.restoring /\ t.moved = s.moved
      BY <1>1, PlanGoes
    <2>q. QED BY <1>1, <2>f, <1>b, <1>c, <1>s DEF Failing
  <1>2. CASE s.pc = "preflight" /\ \E w \in {"stale", "unread"}, f \in {Connections, Error} :
               t = [s EXCEPT !.pc = "done", !.why = w, !.final = f]
    <2>1. PICK w \in {"stale", "unread"}, f \in {Connections, Error} :
            t = [s EXCEPT !.pc = "done", !.why = w, !.final = f]
      BY <1>2
    <2>2. f \in Reads \cup {Unread, Error} /\ f # Unread BY <1>c
    <2>f. t \in Plans /\ t.pc = "done" /\ t.final # Unread /\ t.why \in {"stale", "unread"} /\ t.restoring = s.restoring /\ t.moved = s.moved
      BY <2>1, <2>2 DEF Plans
    <2>q. QED BY <1>2, <2>f, <1>b, <1>c, <1>s DEF Failing
  <1>3. CASE s.pc = "holding" /\ t = [s EXCEPT !.pc = "done", !.why = "busy", !.final = s.base]
    <2>f. t \in Plans /\ t.pc = "done" /\ t.final # Unread /\ t.why = "busy" /\ t.restoring = s.restoring /\ t.moved = s.moved
      BY <1>3, <1>s DEF Plans
    <2>q. QED BY <1>3, <2>f, <1>b, <1>c, <1>s DEF Failing
  <1>4. CASE s.pc = "holding" /\ \E x \in {"connect", "disconnect"} : t = [s EXCEPT !.pc = x]
    <2>1. PICK x \in {"connect", "disconnect"} : t = [s EXCEPT !.pc = x] BY <1>4
    <2>f. t \in Plans /\ t.pc = x /\ t.why = s.why /\ t.restoring = s.restoring /\ t.moved = s.moved
      BY <2>1 DEF Plans
    <2>q. QED BY <1>4, <2>f, <1>b, <1>c, <1>s DEF Failing
  <1>5. CASE /\ s.pc \in {"disconnect", "connect", "restart"} /\ s.restoring
             /\ t = [s EXCEPT !.pc = "reread", !.unrestored = TRUE]
    <2>f. t \in Plans /\ t.pc = "reread" /\ t.why = s.why /\ t.restoring = s.restoring /\ t.moved = s.moved
      BY <1>5, PlanLosesTheRestore
    <2>q. QED BY <1>5, <2>f, <1>b, <1>c, <1>s DEF Failing
  <1>6. CASE /\ s.pc \in {"disconnect", "connect", "restart"} /\ ~s.restoring
             /\ \E w \in {"cancelled", "failed"} : t = [s EXCEPT !.pc = "settle", !.why = w]
    <2>1. PICK w \in {"cancelled", "failed"} : t = [s EXCEPT !.pc = "settle", !.why = w] BY <1>6
    <2>f. t \in Plans /\ t.pc = "settle" /\ t.why = w /\ t.restoring = s.restoring /\ t.moved = s.moved
      BY <2>1, PlanFails
    <2>q. QED BY <1>6, <2>f, <1>b, <1>c, <1>s DEF Failing
  <1>7. CASE s.pc = "restart" /\ s.restoring /\ t = [s EXCEPT !.pc = "reread"]
    <2>f. t \in Plans /\ t.pc = "reread" /\ t.why = s.why /\ t.restoring = s.restoring /\ t.moved = s.moved
      BY <1>7, PlanGoes
    <2>q. QED BY <1>7, <2>f, <1>b, <1>c, <1>s DEF Failing
  <1>8. CASE s.pc = "restart" /\ ~s.restoring /\ t = [s EXCEPT !.pc = "final"]
    <2>f. t \in Plans /\ t.pc = "final" /\ t.why = s.why /\ t.restoring = s.restoring /\ t.moved = s.moved
      BY <1>8, PlanGoes
    <2>q. QED BY <1>8, <2>f, <1>b, <1>c, <1>s DEF Failing
  <1>9. CASE /\ s.pc = "settle" /\ Lost(s, Connections)
             /\ \E m \in s.base.active : t = [s EXCEPT !.pc = "connect", !.restoring = TRUE, !.target = m]
    <2>1. PICK m \in s.base.active : t = [s EXCEPT !.pc = "connect", !.restoring = TRUE, !.target = m]
      BY <1>9
    <2>2. m \in Models BY <1>s
    <2>f. t \in Plans /\ t.pc = "connect" /\ t.why = s.why /\ t.restoring /\ t.moved = s.moved
      BY <2>1, <2>2, PlanRestores
    <2>q. QED BY <1>9, <2>f, <1>b, <1>c, <1>s DEF Failing
  <1>10. CASE /\ s.pc \in {"final", "settle", "reread"}
              /\ t = [s EXCEPT !.pc = "done", !.final = Connections]
    <2>f. t \in Plans /\ t.pc = "done" /\ t.final # Unread /\ t.why = s.why /\ t.restoring = s.restoring /\ t.moved = s.moved
      BY <1>10, <1>c, PlanEndsSame
    <2>q. QED BY <1>10, <2>f, <1>b, <1>c, <1>s DEF Failing
  <1>11. CASE s.pc = "final" /\ t = [s EXCEPT !.pc = "done", !.why = "unread", !.final = Error]
    <2>f. t \in Plans /\ t.pc = "done" /\ t.final # Unread /\ t.why = "unread" /\ t.restoring = s.restoring /\ t.moved = s.moved
      BY <1>11, <1>c DEF Plans
    <2>q. QED BY <1>11, <2>f, <1>b, <1>c, <1>s DEF Failing
  <1>12. CASE s.pc \in {"settle", "reread"} /\ t = [s EXCEPT !.pc = "done", !.final = Error]
    <2>f. t \in Plans /\ t.pc = "done" /\ t.final # Unread /\ t.why = s.why /\ t.restoring = s.restoring /\ t.moved = s.moved
      BY <1>12, <1>c, PlanEndsSame
    <2>q. QED BY <1>12, <2>f, <1>b, <1>c, <1>s DEF Failing
  <1>q. QED BY <1>1, <1>2, <1>3, <1>4, <1>5, <1>6, <1>7, <1>8, <1>9, <1>10, <1>11, <1>12 DEF Advances

\* Nor does it lose what it knows of the machine.
LEMMA AdvanceWhole ==
  ASSUME MachineTypes, NEW s \in Plans, NEW t, Advances(s, t), Failing(s), Whole(s),
         UNCHANGED <<installed, linked>>
  PROVE Whole(t)'
  <1>b. /\ s.base \in Reads /\ s.base.active \subseteq s.base.backends
        /\ s.restoring \in BOOLEAN /\ s.unrestored \in BOOLEAN
    <2>1. s.base \in Reads /\ s.restoring \in BOOLEAN /\ s.unrestored \in BOOLEAN BY DEF Plans
    <2>q. QED BY <2>1, ReadsApart
  <1>c. /\ Connections' = Connections /\ Connections.active = linked
        /\ Connections.backends = installed /\ Connections # Error
    BY ConnectionsRead, ReadsApart DEF Connections
  <1>w. /\ s.pc \in {"holding", "disconnect", "connect", "restart", "final", "settle", "reread"} =>
             installed = s.base.backends
        /\ (s.restoring /\ s.pc \in {"restart", "reread"} /\ ~s.unrestored) => linked # {}
    BY DEF Whole
  <1>f. /\ (s.restoring \/ s.pc \in {"settle", "reread"}) => s.why \in {"cancelled", "failed"}
        /\ s.pc = "reread" => s.restoring
        /\ s.restoring => s.pc \in {"connect", "restart", "reread", "done"}
        /\ (~s.restoring /\ s.pc \notin {"settle", "done"}) => s.why = "none"
    BY DEF Failing
  \* On the way, all that is known is which models are installed.
  <1>k. ASSUME t.pc \in {"holding", "disconnect", "connect", "restart", "final", "settle"},
               t.base = s.base, installed = s.base.backends, t.restoring => t.pc # "restart"
        PROVE  Whole(t)'
    BY <1>k DEF Whole
  <1>1. CASE s.pc = "preflight" /\ Connections = s.base /\ t = [s EXCEPT !.pc = "holding"]
    <2>f. t.pc = "holding" /\ t.base = s.base /\ t.restoring = s.restoring
      BY <1>1, PlanGoes
    <2>q. QED BY <1>1, <2>f, <1>c, <1>k
  <1>2. CASE s.pc = "preflight" /\ \E w \in {"stale", "unread"}, f \in {Connections, Error} :
               t = [s EXCEPT !.pc = "done", !.why = w, !.final = f]
    <2>1. PICK w \in {"stale", "unread"}, f \in {Connections, Error} :
            t = [s EXCEPT !.pc = "done", !.why = w, !.final = f]
      BY <1>2
    <2>f. t.pc = "done" /\ t.why \in {"stale", "unread"}
      BY <2>1 DEF Plans
    <2>q. QED BY <1>2, <2>f, <1>f DEF Whole
  <1>3. CASE s.pc = "holding" /\ t = [s EXCEPT !.pc = "done", !.why = "busy", !.final = s.base]
    <2>f. t.pc = "done" /\ t.why = "busy"
      BY <1>3 DEF Plans
    <2>q. QED BY <1>3, <2>f, <1>f DEF Whole
  <1>4. CASE s.pc = "holding" /\ \E x \in {"connect", "disconnect"} : t = [s EXCEPT !.pc = x]
    <2>1. PICK x \in {"connect", "disconnect"} : t = [s EXCEPT !.pc = x] BY <1>4
    <2>f. t.pc = x /\ t.base = s.base /\ t.restoring = s.restoring
      BY <2>1 DEF Plans
    <2>q. QED BY <1>4, <2>f, <2>1, <1>w, <1>k
  <1>5. CASE /\ s.pc \in {"disconnect", "connect", "restart"} /\ s.restoring
             /\ t = [s EXCEPT !.pc = "reread", !.unrestored = TRUE]
    <2>f. t.pc = "reread" /\ t.unrestored /\ t.base = s.base /\ t.restoring = s.restoring
      BY <1>5, PlanLosesTheRestore
    <2>q. QED BY <1>5, <2>f, <1>w DEF Whole
  <1>6. CASE /\ s.pc \in {"disconnect", "connect", "restart"} /\ ~s.restoring
             /\ \E w \in {"cancelled", "failed"} : t = [s EXCEPT !.pc = "settle", !.why = w]
    <2>1. PICK w \in {"cancelled", "failed"} : t = [s EXCEPT !.pc = "settle", !.why = w] BY <1>6
    <2>f. t.pc = "settle" /\ t.base = s.base /\ t.restoring = s.restoring
      BY <2>1, PlanFails
    <2>q. QED BY <1>6, <2>f, <1>w, <1>k
  <1>7. CASE s.pc = "restart" /\ s.restoring /\ t = [s EXCEPT !.pc = "reread"]
    <2>f. t.pc = "reread" /\ t.unrestored = s.unrestored /\ t.base = s.base /\ t.restoring = s.restoring
      BY <1>7, PlanGoes
    <2>q. QED BY <1>7, <2>f, <1>w, <1>b DEF Whole
  <1>8. CASE s.pc = "restart" /\ ~s.restoring /\ t = [s EXCEPT !.pc = "final"]
    <2>f. t.pc = "final" /\ t.base = s.base /\ t.restoring = s.restoring
      BY <1>8, PlanGoes
    <2>q. QED BY <1>8, <2>f, <1>w, <1>k
  <1>9. CASE /\ s.pc = "settle" /\ Lost(s, Connections)
             /\ \E m \in s.base.active : t = [s EXCEPT !.pc = "connect", !.restoring = TRUE, !.target = m]
    <2>1. PICK m \in s.base.active : t = [s EXCEPT !.pc = "connect", !.restoring = TRUE, !.target = m]
      BY <1>9
    <2>f. t.pc = "connect" /\ t.base = s.base
      BY <2>1 DEF Plans
    <2>q. QED BY <1>9, <2>f, <1>w, <1>k
  <1>10. CASE /\ s.pc \in {"final", "settle", "reread"} /\ ~(s.pc = "settle" /\ Lost(s, Connections))
              /\ t = [s EXCEPT !.pc = "done", !.final = Connections]
    <2>f. /\ t.pc = "done" /\ t.why = s.why /\ t.base = s.base /\ t.final = Connections
          /\ t.unrestored = s.unrestored
      BY <1>10, <1>c, ConnectionsRead, PlanEndsSame
    <2>1. CASE s.pc = "settle"
      <3>1. linked # {} \/ Sole(s.base) = {} \/ ~(Sole(s.base) \subseteq installed)
        BY <1>10, <1>c, <2>1 DEF Lost
      <3>2. Sole(s.base) \subseteq installed BY <1>b, <1>w, <2>1, SoleIs
      <3>q. QED BY <3>1, <3>2, <2>f, <2>1, <1>c DEF Whole
    <2>2. CASE s.pc = "reread"
      <3>1. s.restoring BY <2>2, <1>f
      <3>2. ~t.unrestored => linked # {} BY <3>1, <2>2, <1>w, <2>f, <1>b
      <3>q. QED BY <3>2, <2>f, <1>c DEF Whole
    <2>3. CASE s.pc = "final"
      <3>1. ASSUME t.why = "cancelled", ~t.unrestored, Sole(t.base) # {} PROVE linked # {}
        BY <3>1, <2>3, <2>f, <1>b, <1>f
      <3>q. QED BY <3>1, <2>f, <1>c DEF Whole
    <2>q. QED BY <1>10, <2>1, <2>2, <2>3
  <1>11. CASE s.pc = "final" /\ t = [s EXCEPT !.pc = "done", !.why = "unread", !.final = Error]
    <2>f. t.pc = "done" /\ t.why = "unread" BY <1>11 DEF Plans
    <2>q. QED BY <2>f DEF Whole
  <1>12. CASE s.pc \in {"settle", "reread"} /\ t = [s EXCEPT !.pc = "done", !.final = Error]
    <2>f. t.pc = "done" /\ t.why = s.why /\ t.final = Error BY <1>12, PlanEndsSame
    <2>q. QED BY <1>12, <2>f, <1>f DEF Whole
  <1>q. QED BY <1>1, <1>2, <1>3, <1>4, <1>5, <1>6, <1>7, <1>8, <1>9, <1>10, <1>11, <1>12 DEF Advances

\* A change of a connection keeps the plan whole: a restored model is connected.
LEMMA RelinkIs ==
  ASSUME MachineTypes, NEW s \in Plans, NEW t, NEW m, Relinks(s, t, m), UNCHANGED installed
  PROVE /\ t \in Plans /\ t.pc # "done" /\ t.moved = s.moved /\ (Failing(s) => Failing(t))
        /\ linked' \subseteq installed /\ (Whole(s) => Whole(t)')
  <1>b. s.restoring \in BOOLEAN /\ s.unrestored \in BOOLEAN /\ s.moved \in BOOLEAN
    BY DEF Plans
  <1>w. Whole(s) /\ s.pc \in {"connect", "disconnect"} => installed = s.base.backends
    BY DEF Whole
  <1>1. CASE /\ s.pc = "disconnect" /\ linked' = linked \ {m}
             /\ \E x \in {"connect", "disconnect"} : t = [s EXCEPT !.todo = s.todo \ {m}, !.pc = x]
    <2>1. PICK x \in {"connect", "disconnect"} : t = [s EXCEPT !.todo = s.todo \ {m}, !.pc = x]
      BY <1>1
    <2>2. /\ t \in Plans /\ t.pc = x /\ t.why = s.why /\ t.base = s.base
          /\ t.restoring = s.restoring /\ t.moved = s.moved
      BY <2>1 DEF Plans
    <2>3. Failing(s) => Failing(t) BY <2>2, <1>1, <1>b DEF Failing
    <2>4. Whole(s) => Whole(t)' BY <2>2, <1>1, <1>w DEF Whole
    <2>q. QED BY <1>1, <2>2, <2>3, <2>4 DEF MachineTypes
  <1>2. CASE /\ s.pc = "connect" /\ linked' = (linked \cup {m}) \cap installed /\ m \in installed
             /\ t = [s EXCEPT !.pc = "restart"]
    <2>2. /\ t \in Plans /\ t.pc = "restart" /\ t.why = s.why /\ t.base = s.base
          /\ t.restoring = s.restoring /\ t.moved = s.moved
      BY <1>2, PlanGoes
    <2>3. Failing(s) => Failing(t) BY <2>2, <1>2, <1>b DEF Failing
    <2>4. Whole(s) => Whole(t)'
      <3>1. linked' # {} BY <1>2
      <3>q. QED BY <3>1, <2>2, <1>2, <1>w DEF Whole
    <2>q. QED BY <1>2, <2>2, <2>3, <2>4 DEF MachineTypes
  <1>q. QED BY <1>1, <1>2 DEF Relinks

\* The two shapes of a step: on with the plan, or a connection changed, which a wizard
\* already closed does behind the window.
Onward(p) == \E t : /\ Advances(sw[p], t) /\ sw' = [sw EXCEPT ![p] = t]
                    /\ UNCHANGED <<linked, drift, disc>>
Relinked(p) ==
  \E t, m :
    /\ Relinks(sw[p], t, m)
    /\ IF p = "wizard" /\ wizard = "closed"
       THEN /\ drift' = TRUE /\ disc' = Outdated
            /\ sw' = IF sw["ui"] # Idle
                     THEN [[sw EXCEPT ![p] = t] EXCEPT !["ui"] = [sw["ui"] EXCEPT !.moved = TRUE]]
                     ELSE [sw EXCEPT ![p] = t]
       ELSE sw' = [sw EXCEPT ![p] = t] /\ UNCHANGED <<drift, disc>>

\* What the bounds and the changes left running become.
Rest == /\ asks' \in 0..MaxUser /\ events' \in 0..MaxWorld
        /\ (late' = {} \/ \E c : late' = {c})

\* The counters stay within their bounds.
LEMMA BoundsHold ==
  ASSUME asks \in 0..MaxUser, events \in 0..MaxWorld
  PROVE  (Asks \/ Happens \/ UNCHANGED bounds) => asks' \in 0..MaxUser /\ events' \in 0..MaxWorld
  BY SettingsAssumption DEF Asks, Happens, bounds

\* One action on a connection.
LEMMA ActionIs ==
  ASSUME SettingsTypes, NEW p \in {"ui", "wizard"}, NEW act \in {"connect", "disconnect"},
         NEW m, NEW t, NEW done, sw[p].pc = act, done = [sw EXCEPT ![p] = t],
         (m \in installed /\ linked' = Link(act, m)) => Relinks(sw[p], t, m),
         apply_interface_action(p, act, m, done)
  PROVE (Onward(p) \/ Relinked(p)) /\ Rest
  <1>t. /\ asks \in 0..MaxUser /\ events \in 0..MaxWorld /\ (late = {} \/ \E c : late = {c})
        /\ DOMAIN sw = {"ui", "wizard"}
    BY DEF SettingsTypes, RestTypes, MachineTypes, SwTypes
  <1>1. CASE /\ late = {} /\ m \in installed
             /\ linked' = Link(act, m)
             /\ sw' = IF p = "wizard" /\ wizard = "closed" /\ sw["ui"] # Idle
                      THEN [done EXCEPT !["ui"].moved = TRUE] ELSE done
             /\ IF p = "wizard" /\ wizard = "closed" THEN drift' = TRUE /\ disc' = Outdated
                ELSE UNCHANGED <<drift, disc>>
             /\ UNCHANGED <<late, bounds>>
    <2>1. Relinks(sw[p], t, m) BY <1>1
    <2>2. p = "wizard" => [done EXCEPT !["ui"].moved = TRUE]
              = [[sw EXCEPT ![p] = t] EXCEPT !["ui"] = [sw["ui"] EXCEPT !.moved = TRUE]]
      BY <1>t
    <2>3. Relinked(p) BY <1>1, <2>1, <2>2 DEF Relinked
    <2>q. QED BY <1>1, <2>3, <1>t, BoundsHold DEF Rest
  <1>k. ASSUME \/ sw[p].restoring /\ sw' = [sw EXCEPT ![p].pc = "reread", ![p].unrestored = TRUE]
               \/ ~sw[p].restoring /\ \E why \in {"cancelled", "failed"} : Fails(p, why),
               UNCHANGED <<linked, drift, disc>>
        PROVE  Onward(p)
    <2>1. CASE sw[p].restoring /\ sw' = [sw EXCEPT ![p].pc = "reread", ![p].unrestored = TRUE]
      <3>1. sw' = [sw EXCEPT ![p] = [sw[p] EXCEPT !.pc = "reread", !.unrestored = TRUE]]
        BY <2>1, <1>t
      <3>q. QED BY <3>1, <2>1, <1>k DEF Onward, Advances
    <2>2. CASE ~sw[p].restoring /\ \E why \in {"cancelled", "failed"} : Fails(p, why)
      <3>1. PICK why \in {"cancelled", "failed"} : Fails(p, why) BY <2>2
      <3>2. sw' = [sw EXCEPT ![p] = [sw[p] EXCEPT !.pc = "settle", !.why = why]]
        BY <3>1, <1>t DEF Fails
      <3>q. QED BY <3>2, <2>2, <1>k DEF Onward, Advances
    <2>q. QED BY <1>k, <2>1, <2>2
  <1>2. CASE /\ (IF late = {} /\ m \in installed THEN Happens ELSE UNCHANGED bounds)
             /\ \E why \in {"cancelled", "failed"} :
                  IF sw[p].restoring
                  THEN sw' = [sw EXCEPT ![p].pc = "reread", ![p].unrestored = TRUE]
                  ELSE Fails(p, why)
             /\ UNCHANGED <<linked, late, drift, disc>>
    <2>1. Onward(p) BY <1>2, <1>k
    <2>q. QED BY <1>2, <2>1, <1>t, BoundsHold DEF Rest
  <1>3. CASE /\ Happens
             /\ late' = {[act |-> act, m |-> m]}
             /\ IF sw[p].restoring
                THEN sw' = [sw EXCEPT ![p].pc = "reread", ![p].unrestored = TRUE]
                ELSE Fails(p, "failed")
             /\ UNCHANGED <<linked, drift, disc>>
    <2>1. Onward(p) BY <1>3, <1>k
    <2>q. QED BY <1>3, <2>1, <1>t, BoundsHold DEF Rest
  <1>q. QED BY <1>1, <1>2, <1>3 DEF apply_interface_action

\* Every step of a switch has one of the two shapes, and leaves the rest alone.
LEMMA SwitchStepIs ==
  ASSUME SettingsTypes, NEW p \in {"ui", "wizard"}, SwitchStep(p)
  PROVE /\ sw[p] \in Plans /\ (Onward(p) \/ Relinked(p)) /\ Rest
        /\ UNCHANGED <<installed, cfg, pages, gate, gen, tab, job, wizard, stale>>
  <1>t. /\ asks \in 0..MaxUser /\ events \in 0..MaxWorld /\ (late = {} \/ \E c : late = {c})
        /\ DOMAIN sw = {"ui", "wizard"} /\ SwTypes /\ MachineTypes
    BY DEF SettingsTypes, RestTypes, MachineTypes, SwTypes
  <1>1. CASE Preflight(p)
    <2>1. sw[p] \in Plans BY <1>1, <1>t, Planned DEF Preflight
    <2>u. UNCHANGED <<linked, drift, disc>> /\ sw[p].pc = "preflight"
      BY <1>1 DEF Preflight, machine, SwitchOnly
    <2>2. ASSUME Connections = sw[p].base, Goes(p, "holding") PROVE Onward(p)
      <3>1. sw' = [sw EXCEPT ![p] = [sw[p] EXCEPT !.pc = "holding"]] BY <2>2, <1>t DEF Goes
      <3>q. QED BY <3>1, <2>2, <2>u DEF Onward, Advances
    <2>3. ASSUME sw' = [sw EXCEPT ![p].pc = "done", ![p].why = "stale", ![p].final = Connections]
          PROVE  Onward(p)
      <3>1. sw' = [sw EXCEPT ![p] = [sw[p] EXCEPT !.pc = "done", !.why = "stale", !.final = Connections]]
        BY <2>3, <1>t
      <3>2. Advances(sw[p], [sw[p] EXCEPT !.pc = "done", !.why = "stale", !.final = Connections])
        BY <2>u DEF Advances
      <3>q. QED BY <3>1, <3>2, <2>u DEF Onward
    <2>4. ASSUME sw' = [sw EXCEPT ![p].pc = "done", ![p].why = "unread", ![p].final = Error]
          PROVE  Onward(p)
      <3>1. sw' = [sw EXCEPT ![p] = [sw[p] EXCEPT !.pc = "done", !.why = "unread", !.final = Error]]
        BY <2>4, <1>t
      <3>2. Advances(sw[p], [sw[p] EXCEPT !.pc = "done", !.why = "unread", !.final = Error])
        BY <2>u DEF Advances
      <3>q. QED BY <3>1, <3>2, <2>u DEF Onward
    <2>5. Onward(p) BY <1>1, <2>2, <2>3, <2>4 DEF Preflight
    <2>6. Rest BY <1>1, <1>t, BoundsHold DEF Preflight, Rest, machine
    <2>q. QED BY <1>1, <2>1, <2>5, <2>6 DEF Preflight, SwitchOnly, Elsewhere, machine
  <1>2. CASE change_holding(p)
    <2>1. sw[p] \in Plans BY <1>2, <1>t, Planned DEF change_holding
    <2>u. UNCHANGED <<linked, drift, disc>> /\ sw[p].pc = "holding"
      BY <1>2 DEF change_holding, machine, SwitchOnly
    <2>2. ASSUME sw' = [sw EXCEPT ![p].pc = "done", ![p].why = "busy", ![p].final = sw[p].base]
          PROVE  Onward(p)
      <3>1. sw' = [sw EXCEPT ![p] = [sw[p] EXCEPT !.pc = "done", !.why = "busy", !.final = sw[p].base]]
        BY <2>2, <1>t
      <3>q. QED BY <3>1, <2>u DEF Onward, Advances
    <2>3. ASSUME NEW x \in {"connect", "disconnect"}, Goes(p, x) PROVE Onward(p)
      <3>1. sw' = [sw EXCEPT ![p] = [sw[p] EXCEPT !.pc = x]] BY <2>3, <1>t DEF Goes
      <3>q. QED BY <3>1, <2>u DEF Onward, Advances
    <2>4. ASSUME Goes(p, IF sw[p].todo = {} THEN "connect" ELSE "disconnect") PROVE Onward(p)
      BY <2>3, <2>4
    <2>5. Onward(p) BY <1>2, <2>2, <2>4 DEF change_holding
    <2>6. Rest BY <1>2, <1>t, BoundsHold DEF change_holding, Rest, machine
    <2>q. QED BY <1>2, <2>1, <2>5, <2>6 DEF change_holding, SwitchOnly, Elsewhere, machine
  <1>3. CASE Disconnect(p)
    <2>1. sw[p] \in Plans BY <1>3, <1>t, Planned DEF Disconnect
    <2>2. PICK m \in sw[p].todo :
             apply_interface_action(p, "disconnect", m,
               [sw EXCEPT ![p].todo = @ \ {m},
                          ![p].pc = IF sw[p].todo = {m} THEN "connect" ELSE "disconnect"])
      BY <1>3 DEF Disconnect
    <2> DEFINE x == IF sw[p].todo = {m} THEN "connect" ELSE "disconnect"
               t == [sw[p] EXCEPT !.todo = sw[p].todo \ {m}, !.pc = x]
    <2>3. [sw EXCEPT ![p].todo = @ \ {m}, ![p].pc = x] = [sw EXCEPT ![p] = t]
      BY <1>t
    <2>4. (m \in installed /\ linked' = Link("disconnect", m)) => Relinks(sw[p], t, m)
      BY <1>3 DEF Disconnect, Link, Relinks
    <2>5. apply_interface_action(p, "disconnect", m, [sw EXCEPT ![p].todo = @ \ {m}, ![p].pc = x])
      BY <2>2
    <2>6. sw[p].pc = "disconnect" BY <1>3 DEF Disconnect
    <2> HIDE DEF t, x
    <2>7. (Onward(p) \/ Relinked(p)) /\ Rest BY <2>3, <2>4, <2>5, <2>6, ActionIs
    <2>q. QED BY <1>3, <2>1, <2>7 DEF Disconnect, Elsewhere
  <1>4. CASE Connect(p)
    <2>1. sw[p] \in Plans BY <1>4, <1>t, Planned DEF Connect
    <2> DEFINE m == sw[p].target
               t == [sw[p] EXCEPT !.pc = "restart"]
    <2>3. [sw EXCEPT ![p].pc = "restart"] = [sw EXCEPT ![p] = t] BY <1>t
    <2>4. (m \in installed /\ linked' = Link("connect", m)) => Relinks(sw[p], t, m)
      BY <1>4 DEF Connect, Link, Relinks
    <2>5. apply_interface_action(p, "connect", m, [sw EXCEPT ![p].pc = "restart"])
      BY <1>4 DEF Connect
    <2>6. sw[p].pc = "connect" BY <1>4 DEF Connect
    <2> HIDE DEF t, m
    <2>7. (Onward(p) \/ Relinked(p)) /\ Rest BY <2>3, <2>4, <2>5, <2>6, ActionIs
    <2>q. QED BY <1>4, <2>1, <2>7 DEF Connect, Elsewhere
  <1>5. CASE restart_myna(p)
    <2>1. sw[p] \in Plans BY <1>5, <1>t, Planned DEF restart_myna
    <2>u. UNCHANGED <<linked, drift, disc>> BY <1>5 DEF restart_myna, machine, SwitchOnly
    <2>2. ASSUME NEW x, Goes(p, x), x = IF sw[p].restoring THEN "reread" ELSE "final"
          PROVE  Onward(p)
      <3>1. sw' = [sw EXCEPT ![p] = [sw[p] EXCEPT !.pc = x]] BY <2>2, <1>t DEF Goes
      <3>2. CASE sw[p].restoring
        BY <3>1, <3>2, <2>2, <2>u, <1>5 DEF restart_myna, Onward, Advances
      <3>3. CASE ~sw[p].restoring
        BY <3>1, <3>3, <2>2, <2>u, <1>5 DEF restart_myna, Onward, Advances
      <3>q. QED BY <3>2, <3>3
    <2>3. ASSUME sw[p].restoring, sw' = [sw EXCEPT ![p].pc = "reread", ![p].unrestored = TRUE]
          PROVE  Onward(p)
      <3>1. sw' = [sw EXCEPT ![p] = [sw[p] EXCEPT !.pc = "reread", !.unrestored = TRUE]]
        BY <2>3, <1>t
      <3>q. QED BY <3>1, <2>3, <2>u, <1>5 DEF restart_myna, Onward, Advances
    <2>4. ASSUME ~sw[p].restoring, Fails(p, "failed") PROVE Onward(p)
      <3>1. sw' = [sw EXCEPT ![p] = [sw[p] EXCEPT !.pc = "settle", !.why = "failed"]]
        BY <2>4, <1>t DEF Fails
      <3>2. Advances(sw[p], [sw[p] EXCEPT !.pc = "settle", !.why = "failed"])
        BY <2>4, <1>5 DEF restart_myna, Advances
      <3>q. QED BY <3>1, <3>2, <2>u DEF Onward
    <2>5. Onward(p) BY <1>5, <2>2, <2>3, <2>4 DEF restart_myna
    <2>6. Rest BY <1>5, <1>t, BoundsHold DEF restart_myna, Rest, machine
    <2>q. QED BY <1>5, <2>1, <2>5, <2>6 DEF restart_myna, SwitchOnly, Elsewhere, machine
  <1>6. CASE refresh(p)
    <2>1. sw[p] \in Plans /\ sw[p].base \in Reads
      <3>1. sw[p] \in Plans BY <1>6, <1>t, Planned DEF refresh
      <3>q. QED BY <3>1 DEF Plans
    <2>u. UNCHANGED <<linked, drift, disc>> BY <1>6 DEF refresh, machine, SwitchOnly
    <2>p. sw[p].pc \in {"final", "settle", "reread"} BY <1>6 DEF refresh
    <2>2. ASSUME sw[p].pc = "settle", Lost(sw[p], Connections),
                 sw' = [sw EXCEPT ![p].pc = "connect", ![p].restoring = TRUE,
                                  ![p].target = CHOOSE m \in sw[p].base.active : TRUE]
          PROVE  Onward(p)
      <3> DEFINE m == CHOOSE m \in sw[p].base.active : TRUE
      <3>1. m \in sw[p].base.active BY <2>2, SoleIs DEF Lost
      <3>3. sw' = [sw EXCEPT ![p].pc = "connect", ![p].restoring = TRUE, ![p].target = m]
        BY <2>2
      <3> HIDE DEF m
      <3>2. sw' = [sw EXCEPT ![p] = [sw[p] EXCEPT !.pc = "connect", !.restoring = TRUE, !.target = m]]
        BY <3>3, <1>t
      <3>q. QED BY <3>1, <3>2, <2>2, <2>u DEF Onward, Advances
    <2>3. ASSUME ~(sw[p].pc = "settle" /\ Lost(sw[p], Connections)),
                 sw' = [sw EXCEPT ![p].pc = "done", ![p].final = Connections]
          PROVE  Onward(p)
      <3>1. sw' = [sw EXCEPT ![p] = [sw[p] EXCEPT !.pc = "done", !.final = Connections]]
        BY <2>3, <1>t
      <3>q. QED BY <3>1, <2>3, <2>p, <2>u DEF Onward, Advances
    <2>4. ASSUME sw' = [sw EXCEPT ![p].pc = "done", ![p].final = Error,
                                  ![p].why = IF sw[p].pc = "final" THEN "unread" ELSE @]
          PROVE  Onward(p)
      <3>1. CASE sw[p].pc = "final"
        <4>1. sw' = [sw EXCEPT ![p] = [sw[p] EXCEPT !.pc = "done", !.why = "unread", !.final = Error]]
          BY <2>4, <3>1, <2>1, <1>t DEF Plans, SwTypes
        <4>q. QED BY <4>1, <3>1, <2>u DEF Onward, Advances
      <3>2. CASE sw[p].pc \in {"settle", "reread"}
        <4>1. sw' = [sw EXCEPT ![p] = [sw[p] EXCEPT !.pc = "done", !.final = Error]]
          BY <2>4, <3>2, <2>1, <1>t DEF Plans, SwTypes
        <4>q. QED BY <4>1, <3>2, <2>u DEF Onward, Advances
      <3>q. QED BY <3>1, <3>2, <2>p
    <2>5. Onward(p) BY <1>6, <2>2, <2>3, <2>4 DEF refresh
    <2>6. Rest BY <1>6, <1>t, BoundsHold DEF refresh, Rest, machine
    <2>q. QED BY <1>6, <2>1, <2>5, <2>6 DEF refresh, SwitchOnly, Elsewhere, machine
  <1>q. QED BY <1>1, <1>2, <1>3, <1>4, <1>5, <1>6 DEF SwitchStep

-----------------------------------------------------------------------------
(***************************************************************************)
(* What leaves each part of the invariant alone.                           *)
(***************************************************************************)

\* The view depends on the connections, the discoveries and the window only.
LEMMA ViewFrame ==
  ASSUME ViewSound, UNCHANGED <<installed, linked, gen, disc, view, snap, failed, drift>>,
         sw'["ui"] = Idle => sw["ui"] = Idle, wizard' # "open" => wizard # "open"
  PROVE  ViewSound'
  BY DEF ViewSound, ConnectionsShown, Discovering, discovery_loading, Connections

\* A discovery that read before the machine moved says so.
LEMMA OutdatedIs ==
  ASSUME DiscTypes
  PROVE /\ Outdated \subseteq Discoveries /\ \A d \in Outdated : d.gen <= gen
        /\ \A d, e \in Outdated : (d.gen = gen /\ e.gen = gen) => d = e
        /\ \A d \in Outdated : d.old \/ d.got = Unread
        /\ \A d \in Outdated : \E e \in disc : d.gen = e.gen /\ d.quiet = e.quiet
        /\ \A e \in disc : \E d \in Outdated : d.gen = e.gen /\ d.quiet = e.quiet
  <1> DEFINE o(d) == [d EXCEPT !.old = @ \/ d.got # Unread]
  <1>1. ASSUME NEW d \in disc
        PROVE  /\ o(d) \in Discoveries /\ o(d).gen = d.gen /\ o(d).quiet = d.quiet
               /\ o(d).got = d.got
    BY DEF DiscTypes, Discoveries
  <1>2. ASSUME NEW d \in disc PROVE o(d).old \/ o(d).got = Unread
    <2>1. o(d).old = (d.old \/ d.got # Unread) BY Zenon DEF DiscTypes, Discoveries
    <2>q. QED BY <2>1, <1>1
  <1>3. Outdated = {o(d) : d \in disc} BY DEF Outdated
  <1> HIDE DEF o
  <1>4. /\ \A d \in disc : d.gen <= gen
        /\ \A d, e \in disc : (d.gen = gen /\ e.gen = gen) => d = e
    BY DEF DiscTypes
  <1>q. QED BY <1>1, <1>2, <1>3, <1>4

\* Behind the window's back nothing is promised until a discovery has read again.
LEMMA ViewBehind ==
  ASSUME ViewSound, DiscTypes, UNCHANGED <<gen, view, snap, failed>>,
         drift' = TRUE, disc' = Outdated, sw'["ui"] = Idle => sw["ui"] = Idle
  PROVE  ViewSound' /\ DiscTypes'
  <1>1. discovery_loading' <=> discovery_loading BY OutdatedIs DEF discovery_loading
  <1>2. \A d \in disc' : d.old \/ d.got = Unread BY OutdatedIs
  <1>3. DiscTypes' BY OutdatedIs DEF DiscTypes
  <1>4. (sw'["ui"] = Idle /\ ~discovery_loading' /\ ~failed') => snap' = view'
    BY <1>1 DEF ViewSound
  <1>q. QED BY <1>2, <1>3, <1>4 DEF ViewSound, ConnectionsShown

\* A discovery begun leaves only itself to answer.
LEMMA BeginIs ==
  ASSUME DiscTypes, NEW quiet \in BOOLEAN, begin_discovery(quiet)
  PROVE /\ DiscTypes' /\ Discovering'
        /\ \A d \in disc' : d.gen = gen' => d.got = Unread /\ ~d.old /\ d.quiet = quiet
        /\ discovery_loading' <=> ~quiet
  <1> DEFINE new == [gen |-> gen + 1, quiet |-> quiet, got |-> Unread, old |-> FALSE]
  <1>1. new \in Discoveries /\ new.gen = gen + 1 /\ new.got = Unread /\ ~new.old
    BY DEF DiscTypes, Discoveries
  <1>2. new.quiet = quiet BY Zenon
  <1>3. gen' = gen + 1 /\ disc' = {d \in disc : d.got # Unread} \cup {new}
    BY DEF begin_discovery
  <1> HIDE DEF new
  <1>4. \A d \in disc : d.gen <= gen /\ d.gen \in Nat /\ d.gen # gen + 1
    <2>1. \A d \in disc : d.gen <= gen /\ d.gen \in Nat /\ gen \in Nat BY DEF DiscTypes, Discoveries
    <2>q. QED BY <2>1
  <1>5. gen \in Nat /\ disc \subseteq Discoveries BY DEF DiscTypes
  <1>6. DiscTypes'
    <2>1. \A d \in disc' : d.gen <= gen'
      <3>1. ASSUME NEW d \in disc PROVE d.gen <= gen + 1 BY <1>4, <1>5
      <3>q. QED BY <3>1, <1>1, <1>3, <1>5
    <2>2. \A d, e \in disc' : (d.gen = gen' /\ e.gen = gen') => d = e BY <1>3, <1>4
    <2>q. QED BY <2>1, <2>2, <1>1, <1>3, <1>5 DEF DiscTypes
  <1>7. new \in disc' /\ new.gen = gen' BY <1>1, <1>3
  <1>8. \A d \in disc' : d.gen = gen' => d = new BY <1>3, <1>4
  <1>9. discovery_loading' <=> ~quiet
    <2>1. discovery_loading' <=> ~new.quiet BY <1>7, <1>8 DEF discovery_loading
    <2>q. QED BY <2>1, <1>2
  <1>q. QED BY <1>1, <1>2, <1>6, <1>7, <1>8, <1>9 DEF Discovering

\* What a discovery begun leaves of the view's promises.
LEMMA ViewBegins ==
  ASSUME ViewSound, DiscTypes, NEW quiet \in BOOLEAN, begin_discovery(quiet),
         quiet => snap = view \/ failed \/ sw["ui"] # Idle, quiet => sw'["ui"] = sw["ui"],
         quiet => UNCHANGED <<snap, view, failed>>
  PROVE  ViewSound' /\ DiscTypes'
  BY BeginIs DEF ViewSound, ConnectionsShown

\* The pages depend on the configuration, the applies and the view only.
LEMMA PageFrame ==
  ASSUME PageSound, UNCHANGED <<cfg, view, shown, reads, stale, job>>
  PROVE  PageSound'
  BY DEF PageSound, Ahead

\* A switch the machine leaves alone keeps what it knows.
LEMMA SwitchFrame ==
  ASSUME SwitchSound, UNCHANGED <<installed, linked>>, sw'["ui"] = sw["ui"]
  PROVE  SwitchSound'
  BY DEF SwitchSound, Whole, Failing, Connections

\* One the machine moved under is told.
LEMMA SwitchBehind ==
  ASSUME SwitchSound, SwTypes,
         \/ sw["ui"] = Idle /\ sw'["ui"] = Idle
         \/ sw["ui"] # Idle /\ sw'["ui"] = [sw["ui"] EXCEPT !.moved = TRUE]
  PROVE  SwitchSound'
  <1>1. CASE sw'["ui"] = Idle BY <1>1 DEF SwitchSound
  <1>2. CASE sw["ui"] # Idle /\ sw'["ui"] = [sw["ui"] EXCEPT !.moved = TRUE]
    <2> DEFINE s == sw["ui"]
               t == sw'["ui"]
    <2>1. s \in Plans BY <1>2, Planned
    <2>2. t.pc = s.pc /\ t.why = s.why /\ t.restoring = s.restoring /\ t.moved
      BY <1>2, <2>1, PlanMoves
    <2>3. Failing(s) BY <1>2 DEF SwitchSound
    <2> HIDE DEF s, t
    <2>4. Failing(t) BY <2>2, <2>3 DEF Failing
    <2>q. QED BY <2>4, <2>2 DEF SwitchSound, Failing, t
  <1>q. QED BY <1>1, <1>2

\* Who holds the gate depends on who runs and on the wizard only.
LEMMA GateFrame ==
  ASSUME GateHeld, UNCHANGED <<gate, wizard>>,
         \A m \in Models : job'[m] # Idle => job[m] # Idle,
         \A p \in {"ui", "wizard"} : sw'[p] # Idle => sw[p] # Idle
  PROVE  GateHeld'
  BY DEF GateHeld

-----------------------------------------------------------------------------
(***************************************************************************)
(* The steps of a switch.                                                  *)
(***************************************************************************)

\* What a step of a switch makes of the records: its own plan goes on, and the other
\* record is as it was, but for the model list's, which may be told it was moved.
LEMMA StepRecords ==
  ASSUME SettingsTypes, NEW p \in {"ui", "wizard"}, sw[p] \in Plans, Onward(p) \/ Relinked(p),
         UNCHANGED installed
  PROVE /\ SwTypes' /\ linked' \subseteq installed /\ sw'[p] \in Plans
        /\ p = "wizard" => \/ sw'["ui"] = sw["ui"] /\ (UNCHANGED linked \/ sw["ui"] = Idle \/ wizard # "closed")
                           \/ sw["ui"] # Idle /\ sw'["ui"] = [sw["ui"] EXCEPT !.moved = TRUE]
        /\ p = "ui" => sw'["wizard"] = sw["wizard"]
  <1>t. SwTypes /\ MachineTypes /\ linked \subseteq installed
    BY DEF SettingsTypes, MachineTypes
  <1>a. \A s \in Plans : s \notin Setups /\ s # Idle BY Apart
  <1>1. ASSUME Onward(p)
        PROVE  /\ SwTypes' /\ linked' \subseteq installed /\ sw'[p] \in Plans /\ UNCHANGED linked
               /\ \A q \in {"ui", "wizard"} : q # p => sw'[q] = sw[q]
    <2>1. PICK t : /\ Advances(sw[p], t) /\ sw' = [sw EXCEPT ![p] = t]
                   /\ UNCHANGED <<linked, drift, disc>>
      BY <1>1 DEF Onward
    <2>2. t \in Plans /\ (t.pc = "done" => t.final # Unread) BY <2>1, <1>t, AdvanceIs
    <2>3. /\ SwTypes' /\ sw'[p] = t /\ \A q \in {"ui", "wizard"} : q # p => sw'[q] = sw[q]
      BY <2>1, <2>2, <1>a, <1>t, SwPut
    <2>q. QED BY <2>1, <2>2, <2>3, <1>t
  <1>2. ASSUME Relinked(p)
        PROVE  /\ SwTypes' /\ linked' \subseteq installed /\ sw'[p] \in Plans
               /\ p = "wizard" => \/ sw'["ui"] = sw["ui"] /\ (sw["ui"] = Idle \/ wizard # "closed")
                                  \/ sw["ui"] # Idle /\ sw'["ui"] = [sw["ui"] EXCEPT !.moved = TRUE]
               /\ p = "ui" => sw'["wizard"] = sw["wizard"]
    <2>1. PICK t, m :
            /\ Relinks(sw[p], t, m)
            /\ IF p = "wizard" /\ wizard = "closed"
               THEN /\ drift' = TRUE /\ disc' = Outdated
                    /\ sw' = IF sw["ui"] # Idle
                             THEN [[sw EXCEPT ![p] = t] EXCEPT !["ui"] = [sw["ui"] EXCEPT !.moved = TRUE]]
                             ELSE [sw EXCEPT ![p] = t]
               ELSE sw' = [sw EXCEPT ![p] = t] /\ UNCHANGED <<drift, disc>>
      BY <1>2 DEF Relinked
    <2>2. t \in Plans /\ t.pc # "done" /\ linked' \subseteq installed BY <2>1, <1>t, RelinkIs
    <2>3. CASE ~(p = "wizard" /\ wizard = "closed" /\ sw["ui"] # Idle)
      <3>0. sw' = [sw EXCEPT ![p] = t] BY <2>1, <2>3
      <3>1. /\ SwTypes' /\ sw'[p] = t /\ \A q \in {"ui", "wizard"} : q # p => sw'[q] = sw[q]
        BY <3>0, <2>2, <1>a, <1>t, SwPut
      <3>2. CASE p = "ui" BY <3>1, <3>2, <2>2
      <3>3. CASE p = "wizard"
        <4>1. sw["ui"] = Idle \/ wizard # "closed" BY <2>3, <3>3
        <4>q. QED BY <4>1, <3>1, <3>3, <2>2
      <3>q. QED BY <3>2, <3>3
    <2>4. CASE p = "wizard" /\ wizard = "closed" /\ sw["ui"] # Idle
      <3> DEFINE u == [sw["ui"] EXCEPT !.moved = TRUE]
      <3>1. u \in Plans /\ u.pc = sw["ui"].pc /\ u.final = sw["ui"].final
        BY <2>4, <1>t, Planned, PlanMoves
      <3>2. /\ DOMAIN sw = {"ui", "wizard"} /\ (u.pc = "done" => u.final # Unread)
            /\ sw = [q \in {"ui", "wizard"} |-> sw[q]]
        BY <3>1, <1>t DEF SwTypes
      <3>3. sw' = [[sw EXCEPT ![p] = t] EXCEPT !["ui"] = u] BY <2>1, <2>4
      <3> HIDE DEF u
      <3>4. sw'["ui"] = u /\ sw'["wizard"] = t /\ sw' \in [{"ui", "wizard"} -> Plans]
        BY <3>1, <3>2, <3>3, <2>2, <2>4
      <3>5. SwTypes' BY <3>4, <3>2, <3>1, <2>2, <1>a DEF SwTypes
      <3>6. sw'["ui"] = [sw["ui"] EXCEPT !.moved = TRUE] BY <3>4 DEF u
      <3>q. QED BY <3>4, <3>5, <3>6, <2>2, <2>4
    <2>q. QED BY <2>1, <2>3, <2>4
  <1>q. QED BY <1>1, <1>2

\* A switch is ended by its completion only: no step of a plan makes it nothing.
LEMMA SwitchStays ==
  ASSUME SettingsTypes, NEW p \in {"ui", "wizard"}, SwitchStep(p)
  PROVE /\ \A q \in {"ui", "wizard"} : sw'[q] # Idle => sw[q] # Idle
        /\ sw'["ui"] = Idle => sw["ui"] = Idle
        /\ sw[p] # Idle /\ sw'[p] # Idle
  <1>t. SwTypes BY DEF SettingsTypes
  <1>1. sw[p] \in Plans /\ (Onward(p) \/ Relinked(p)) /\ UNCHANGED installed BY SwitchStepIs
  <1>2. /\ sw'[p] \in Plans
        /\ p = "wizard" => \/ sw'["ui"] = sw["ui"]
                           \/ sw["ui"] # Idle /\ sw'["ui"] = [sw["ui"] EXCEPT !.moved = TRUE]
        /\ p = "ui" => sw'["wizard"] = sw["wizard"]
    BY <1>1, StepRecords
  <1>3. sw[p] # Idle /\ sw'[p] # Idle BY <1>1, <1>2, Apart
  <1>4. sw["ui"] # Idle => [sw["ui"] EXCEPT !.moved = TRUE] # Idle
    BY <1>t, Planned, PlanMoves, Apart
  <1>q. QED BY <1>2, <1>3, <1>4

\* A switch keeps the invariant: the model list's writes only behind the gate, and the
\* wizard's only while the window is shut out, or is told.
LEMMA SwitchKeeps ==
  ASSUME SettingsInv, NEW p \in {"ui", "wizard"}, SwitchStep(p)
  PROVE  SettingsInv'
  <1>t. SettingsTypes /\ SwTypes /\ MachineTypes /\ DiscTypes /\ GateHeld /\ ViewSound /\ SwitchSound
    BY DEF SettingsInv, SettingsTypes
  <1>1. /\ sw[p] \in Plans /\ (Onward(p) \/ Relinked(p)) /\ Rest
        /\ UNCHANGED <<installed, cfg, pages, gate, gen, tab, job, wizard, stale>>
    BY <1>t, SwitchStepIs
  <1>2. /\ SwTypes' /\ linked' \subseteq installed /\ sw'[p] \in Plans
        /\ p = "wizard" => \/ sw'["ui"] = sw["ui"] /\ (UNCHANGED linked \/ sw["ui"] = Idle \/ wizard # "closed")
                           \/ sw["ui"] # Idle /\ sw'["ui"] = [sw["ui"] EXCEPT !.moved = TRUE]
        /\ p = "ui" => sw'["wizard"] = sw["wizard"]
    BY <1>1, <1>t, StepRecords
  <1>u. UNCHANGED <<installed, cfg, view, failed, shown, reads, snap, verified, tabbed, gate,
                    gen, tab, job, wizard, stale>>
    BY <1>1 DEF pages
  <1>d. \/ UNCHANGED <<disc, drift>>
        \/ drift' = TRUE /\ disc' = Outdated
    BY <1>1 DEF Onward, Relinked
  <1>i. /\ \A q \in {"ui", "wizard"} : sw'[q] # Idle => sw[q] # Idle
        /\ sw'["ui"] = Idle => sw["ui"] = Idle
        /\ sw[p] # Idle /\ sw'[p] # Idle
    BY <1>t, SwitchStays
  <1>3. ViewSound' /\ DiscTypes'
    <2>1. CASE drift' = TRUE /\ disc' = Outdated
      BY <2>1, <1>t, <1>u, <1>i, ViewBehind
    <2>2. CASE UNCHANGED <<disc, drift>> /\ UNCHANGED linked
      <3>1. ViewSound' BY <2>2, <1>t, <1>u, <1>i, ViewFrame
      <3>q. QED BY <3>1, <2>2, <1>t, <1>u DEF DiscTypes
    <2>3. CASE UNCHANGED <<disc, drift>> /\ p = "ui"
      <3>1. sw'["ui"] # Idle BY <2>3, <1>i
      <3>2. ViewSound'
        BY <3>1, <2>3, <1>t, <1>u DEF ViewSound, ConnectionsShown
      <3>q. QED BY <3>2, <2>3, <1>t, <1>u DEF DiscTypes
    <2>4. CASE UNCHANGED <<disc, drift>> /\ p = "wizard" /\ wizard = "open"
      <3>1. ViewSound'
        BY <2>4, <1>t, <1>u, <1>i DEF ViewSound, ConnectionsShown, discovery_loading
      <3>q. QED BY <3>1, <2>4, <1>t, <1>u DEF DiscTypes
    <2>5. wizard \in {"open", "closed"} \/ p = "ui"
      BY <1>t, <1>i DEF GateHeld, SettingsTypes, RestTypes
    <2>6. UNCHANGED <<disc, drift, linked>> \/ (drift' = TRUE /\ disc' = Outdated) \/ p = "ui" \/ wizard # "closed"
      BY <1>1 DEF Onward, Relinked
    <2>q. QED BY <1>d, <2>1, <2>2, <2>3, <2>4, <2>5, <2>6
  <1>4. SwitchSound'
    <2>1. CASE p = "wizard"
      <3>1. CASE sw["ui"] # Idle /\ sw'["ui"] = [sw["ui"] EXCEPT !.moved = TRUE]
        BY <3>1, <1>t, SwitchBehind
      <3>2. CASE sw'["ui"] = sw["ui"] /\ UNCHANGED linked
        BY <3>2, <1>t, <1>u, SwitchFrame
      <3>3. CASE sw'["ui"] = sw["ui"] /\ sw["ui"] = Idle
        BY <3>3 DEF SwitchSound
      <3>4. CASE sw'["ui"] = sw["ui"] /\ wizard # "closed" /\ sw["ui"] # Idle
        <4>1. wizard = "open"
          BY <3>4, <2>1, <1>t, <1>i DEF GateHeld, SettingsTypes, RestTypes
        <4>q. QED BY <4>1, <3>4, <1>t DEF GateHeld
      <3>q. QED BY <2>1, <1>2, <3>1, <3>2, <3>3, <3>4
    <2>2. CASE p = "ui"
      <3> DEFINE s == sw["ui"]
      <3>1. s \in Plans /\ Failing(s) /\ (s.moved \/ Whole(s))
        BY <2>2, <1>1, <1>t, <1>i DEF SwitchSound
      <3>2. ASSUME NEW t, sw' = [sw EXCEPT ![p] = t] PROVE sw'["ui"] = t
        BY <3>2, <2>2, <1>t DEF SwTypes
      <3> HIDE DEF s
      <3>5. ASSUME NEW t, sw'["ui"] = t, t.moved = s.moved, Failing(t), Whole(s) => Whole(t)'
            PROVE  SwitchSound'
        <4>1. Failing(sw["ui"])' BY <3>5 DEF Failing
        <4>2. sw["ui"]'.moved \/ Whole(sw["ui"])' BY <3>5, <3>1 DEF Whole
        <4>q. QED BY <4>1, <4>2 DEF SwitchSound
      <3>3. ASSUME Onward(p) PROVE SwitchSound'
        <4>1. PICK t : /\ Advances(sw[p], t) /\ sw' = [sw EXCEPT ![p] = t]
                       /\ UNCHANGED <<linked, drift, disc>>
          BY <3>3 DEF Onward
        <4>2. Advances(s, t) /\ UNCHANGED <<installed, linked>> BY <4>1, <2>2, <1>u DEF s
        <4>3. t.moved = s.moved /\ Failing(t) BY <4>2, <3>1, <1>t, AdvanceIs
        <4>4. Whole(s) => Whole(t)' BY <4>2, <3>1, <1>t, AdvanceWhole
        <4>q. QED BY <4>1, <4>3, <4>4, <3>2, <3>5
      <3>4. ASSUME Relinked(p) PROVE SwitchSound'
        <4>1. PICK t, m : Relinks(sw[p], t, m) /\ sw' = [sw EXCEPT ![p] = t]
          BY <3>4, <2>2 DEF Relinked
        <4>2. Relinks(s, t, m) /\ UNCHANGED installed BY <4>1, <2>2, <1>u DEF s
        <4>3. t.moved = s.moved /\ Failing(t) /\ (Whole(s) => Whole(t)')
          BY <4>2, <3>1, <1>t, RelinkIs
        <4>q. QED BY <4>1, <4>3, <3>2, <3>5
      <3>q. QED BY <1>1, <3>3, <3>4
    <2>q. QED BY <2>1, <2>2
  <1>5. PageSound' BY <1>u, PageFrame DEF SettingsInv
  <1>6. GateHeld' BY <1>t, <1>u, <1>i, GateFrame
  <1>7. SettingsTypes'
    <2>1. MachineTypes' BY <1>1, <1>2, <1>t, <1>u DEF MachineTypes, Rest
    <2>2. PageTypes' /\ JobTypes' BY <1>t, <1>u DEF SettingsTypes, PageTypes, JobTypes
    <2>3. RestTypes' BY <1>1, <1>d, <1>t, <1>u DEF SettingsTypes, RestTypes, Rest
    <2>q. QED BY <2>1, <2>2, <2>3, <1>2, <1>3 DEF SettingsTypes
  <1>q. QED BY <1>3, <1>4, <1>5, <1>6, <1>7 DEF SettingsInv

-----------------------------------------------------------------------------
(***************************************************************************)
(* Discovery.                                                              *)
(***************************************************************************)

\* A discovery the user's focus or the Diagnostics tab begins.
LEMMA DiscoverKeeps ==
  ASSUME SettingsInv, rediscover_on_focus \/ on_diagnostics_requested
  PROVE  SettingsInv'
  <1>t. /\ SettingsTypes /\ DiscTypes /\ GateHeld /\ ViewSound /\ PageSound /\ SwitchSound
        /\ asks \in 0..MaxUser /\ events \in 0..MaxWorld
    BY DEF SettingsInv, SettingsTypes, RestTypes
  <1>1. /\ UNCHANGED <<machine, pages, gate, tab, job, sw, wizard, drift, stale>> /\ Asks
        /\ \E quiet \in BOOLEAN : begin_discovery(quiet) /\ (quiet => ~Discovering)
    BY DEF rediscover_on_focus, on_diagnostics_requested
  <1>u. UNCHANGED <<installed, linked, cfg, late, view, failed, shown, reads, snap, verified,
                    tabbed, gate, tab, job, sw, wizard, drift, stale>>
    BY <1>1 DEF pages, machine
  <1>2. PICK quiet \in BOOLEAN : begin_discovery(quiet) /\ (quiet => ~Discovering)
    BY <1>1
  <1>3. ~Discovering => snap = view \/ failed \/ sw["ui"] # Idle
    BY <1>t DEF ViewSound, Discovering, discovery_loading
  <1>4. ViewSound' /\ DiscTypes' BY <1>2, <1>3, <1>t, <1>u, ViewBegins
  <1>5. PageSound' BY <1>t, <1>u, PageFrame
  <1>6. GateHeld' BY <1>t, <1>u, GateFrame
  <1>7. SwitchSound' BY <1>t, <1>u, SwitchFrame
  <1>8. asks' \in 0..MaxUser /\ events' \in 0..MaxWorld BY <1>1, <1>t, BoundsHold
  <1>9. SettingsTypes'
    BY <1>4, <1>8, <1>t, <1>u
    DEF SettingsTypes, MachineTypes, PageTypes, JobTypes, SwTypes, RestTypes
  <1>q. QED BY <1>4, <1>5, <1>6, <1>7, <1>9 DEF SettingsInv

\* snapd's answer to one is what its connections are now, or an error.
LEMMA DiscoveryReadsKeeps ==
  ASSUME SettingsInv, NEW d \in disc, DiscoveryReads(d)
  PROVE  SettingsInv'
  <1>t. /\ SettingsTypes /\ DiscTypes /\ MachineTypes /\ GateHeld /\ ViewSound /\ PageSound
        /\ SwitchSound /\ asks \in 0..MaxUser /\ events \in 0..MaxWorld
    BY DEF SettingsInv, SettingsTypes, RestTypes
  <1>u. /\ UNCHANGED <<installed, linked, cfg, late, view, failed, shown, reads, snap, verified,
                       tabbed, gate, gen, tab, job, sw, wizard, drift, stale>>
        /\ Happens \/ UNCHANGED bounds
    BY DEF pages, machine, DiscoveryReads
  <1>1. PICK c \in {Connections, Error} : disc' = (disc \ {d}) \cup {[d EXCEPT !.got = c]}
    BY DEF DiscoveryReads
  <1> DEFINE e == [d EXCEPT !.got = c]
  <1>2. /\ e \in Discoveries /\ e.gen = d.gen /\ e.quiet = d.quiet /\ e.old = d.old /\ e.got = c
    <2>1. d \in Discoveries /\ c \in Reads \cup {Unread, Error}
      BY <1>t, ConnectionsRead DEF DiscTypes
    <2>q. QED BY <2>1 DEF Discoveries
  <1>3. disc' = (disc \ {d}) \cup {e} BY <1>1
  <1> HIDE DEF e
  <1>4. DiscTypes' BY <1>2, <1>3, <1>t, <1>u DEF DiscTypes
  <1>5. discovery_loading' <=> discovery_loading
    BY <1>2, <1>3, <1>u DEF discovery_loading
  <1>6. Discovering' <=> Discovering BY <1>2, <1>3, <1>u DEF Discovering
  <1>7. ViewSound'
    <2>1. \A x \in disc' : x.gen = gen' /\ x.old => drift' BY <1>2, <1>3, <1>t, <1>u DEF ViewSound
    <2>2. (sw'["ui"] = Idle /\ wizard' # "open") =>
             \A x \in disc' : (x.gen = gen' /\ ~x.old /\ x.got \notin {Unread, Error}) => x.got = Connections'
      <3>1. Connections' = Connections BY <1>u DEF Connections
      <3>q. QED BY <3>1, <1>2, <1>3, <1>t, <1>u DEF ViewSound
    <2>3. (sw'["ui"] = Idle /\ ~discovery_loading' /\ ~failed') => snap' = view'
      BY <1>5, <1>t, <1>u DEF ViewSound
    <2>4. ConnectionsShown' BY <1>6, <1>t, <1>u DEF ViewSound, ConnectionsShown, Connections
    <2>q. QED BY <2>1, <2>2, <2>3, <2>4 DEF ViewSound
  <1>8. PageSound' /\ GateHeld' /\ SwitchSound'
    BY <1>t, <1>u, PageFrame, GateFrame, SwitchFrame
  <1>9. asks' \in 0..MaxUser /\ events' \in 0..MaxWorld BY <1>u, <1>t, BoundsHold
  <1>10. SettingsTypes'
    BY <1>4, <1>9, <1>t, <1>u
    DEF SettingsTypes, MachineTypes, PageTypes, JobTypes, SwTypes, RestTypes
  <1>q. QED BY <1>7, <1>8, <1>10 DEF SettingsInv

\* Once a discovery is taken out, those that remain were there.
LEMMA TakenOut ==
  ASSUME DiscTypes, NEW d \in disc, disc' = disc \ {d}, UNCHANGED gen
  PROVE /\ DiscTypes' /\ (Discovering' => Discovering) /\ (discovery_loading' => discovery_loading)
        /\ d.quiet => (discovery_loading' <=> discovery_loading)
        /\ d.gen # gen => (discovery_loading' <=> discovery_loading) /\ (Discovering' <=> Discovering)
        /\ d.gen = gen => ~Discovering' /\ \A e \in disc' : e.gen # gen'
  BY DEF DiscTypes, Discovering, discovery_loading

\* The jobs of the models that went are told; none begins, ends or moves.
LEMMA CancelIs ==
  ASSUME JobTypes, NEW gone, cancel_apply_state(gone) \/ UNCHANGED job
  PROVE /\ JobTypes'
        /\ \A m \in Models : /\ job'[m] # Idle <=> job[m] # Idle
                             /\ job'[m].pc = job[m].pc
                             /\ job[m] # Idle => job'[m].got = job[m].got /\ job'[m].old = job[m].old
  <1>1. CASE UNCHANGED job BY <1>1 DEF JobTypes
  <1>2. CASE cancel_apply_state(gone)
    <2>1. ASSUME NEW m \in Models, m \in gone, job[m] # Idle
          PROVE  /\ job'[m] \in Jobs /\ job'[m] # Idle /\ job'[m].pc = job[m].pc
                 /\ job'[m].got = job[m].got /\ job'[m].old = job[m].old
      <3>1. job[m] \in Jobs BY <2>1 DEF JobTypes
      <3>2. job'[m] = [job[m] EXCEPT !.cancelled = TRUE] BY <1>2, <2>1 DEF cancel_apply_state
      <3>3. /\ job'[m] \in Jobs /\ job'[m].pc = job[m].pc
            /\ job'[m].got = job[m].got /\ job'[m].old = job[m].old
        BY <3>1, <3>2 DEF Jobs
      <3>q. QED BY <3>3, Apart
    <2>2. ASSUME NEW m \in Models, ~(m \in gone /\ job[m] # Idle) PROVE job'[m] = job[m]
      BY <1>2, <2>2 DEF cancel_apply_state
    <2>3. JobTypes'
      <3>1. job' = [m \in Models |-> job'[m]] BY <1>2 DEF cancel_apply_state
      <3>2. \A m \in Models : job'[m] \in Jobs \cup {Idle} BY <2>1, <2>2 DEF JobTypes
      <3>q. QED BY <3>1, <3>2 DEF JobTypes
    <2>q. QED BY <2>1, <2>2, <2>3
  <1>q. QED BY <1>1, <1>2

\* A read whose answer is taken: the pages left over show their models' configuration,
\* and the view, redrawn or not, is what was read.
LEMMA ApplyKeeps ==
  ASSUME SettingsInv, NEW d \in disc, d.gen = gen, d.got \in Reads, disc' = disc \ {d},
         apply_discovery(d.got, d.quiet, d.old),
         UNCHANGED <<machine, gate, gen, tab, sw, wizard, bounds>>
  PROVE  SettingsInv'
  <1> DEFINE c == d.got
             gone == view.backends \ c.backends
             rs == {r \in reads : r.m \notin gone}
             redraw == ~d.quiet \/ failed \/ c # view
  <1>t. /\ SettingsTypes /\ MachineTypes /\ DiscTypes /\ PageTypes /\ JobTypes
        /\ GateHeld /\ ViewSound /\ PageSound /\ SwitchSound
        /\ d.quiet \in BOOLEAN /\ d.old \in BOOLEAN /\ drift \in BOOLEAN
    BY DEF SettingsInv, SettingsTypes, RestTypes, DiscTypes, Discoveries
  <1>u. UNCHANGED <<installed, linked, cfg, late, gate, gen, tab, sw, wizard, asks, events>>
    BY DEF machine, bounds
  <1>c. /\ c \in Reads /\ c.backends \subseteq Models /\ c.active \subseteq c.backends
        /\ c \notin {Unread, Error}
    BY ReadsApart
  <1>1. /\ view' = c /\ failed' = FALSE
        /\ shown' = [m \in Models |-> IF m \in c.backends THEN shown[m] ELSE Blank]
        /\ stale' = [m \in Models |-> stale[m] /\ m \in c.backends]
        /\ IF redraw THEN sync_active_backend(c, rs) /\ cancel_apply_state(gone) /\ drift' = d.old
                     ELSE UNCHANGED <<snap, verified, tabbed, reads, job, drift>>
    BY DEF apply_discovery
  <1>2. /\ \A s \in reads : s \in PageReads /\ s.m \in Models /\ s.m \in view.backends
        /\ reads \subseteq PageReads
    <2>1. reads \subseteq PageReads /\ \A s \in reads : s.m \in view.backends
      BY <1>t DEF PageTypes, PageSound
    <2>q. QED BY <2>1 DEF PageReads
  \* A read left over was there, or has only begun, of a model in view.
  <1>3. /\ \A r \in reads' : r.m \in c.backends /\ (r \in reads \/ r.got = Blank)
        /\ reads' \subseteq PageReads /\ tabbed' \subseteq Models
        /\ snap' \in {snap, c}
    <2>0. \A m \in Models : LET r == [m |-> m, got |-> Blank, old |-> FALSE] IN
                            r \in PageReads /\ r.m = m /\ r.got = Blank
      BY DEF PageReads
    <2>1. \A r \in rs : r \in reads /\ r.m \in c.backends BY <1>2
    <2>2. CASE ~redraw
      <3>1. c = view /\ reads' = reads /\ snap' = snap /\ tabbed' = tabbed BY <1>1, <2>2
      <3>q. QED BY <3>1, <1>2, <1>t DEF PageTypes
    <2>3. CASE redraw /\ sw["ui"] # Idle
      <3>1. reads' = rs /\ snap' = snap /\ tabbed' = tabbed BY <1>1, <2>3 DEF sync_active_backend
      <3>q. QED BY <3>1, <2>1, <1>2, <1>t DEF PageTypes
    <2>4. CASE redraw /\ sw["ui"] = Idle
      <3> DEFINE left == {r \in rs : r.m \notin tabbed}
                 on == {m \in Sole(c) : tab}
      <3>1. /\ snap' = c /\ tabbed' = Sole(c)
            /\ reads' = IF Sole(c) = tabbed THEN rs
                        ELSE {r \in left : r.m \notin on}
                               \cup {[m |-> m, got |-> Blank, old |-> FALSE] : m \in on}
        BY <1>1, <2>4 DEF sync_active_backend
      <3>2. on \subseteq c.backends /\ on \subseteq Models /\ Sole(c) \subseteq Models
        BY <1>c, SoleIs
      <3>3. left \subseteq rs OBVIOUS
      <3> HIDE DEF on, left, rs
      <3>q. QED BY <3>1, <3>2, <3>3, <2>0, <2>1, <1>2
    <2>q. QED BY <2>2, <2>3, <2>4
  <1>j. /\ JobTypes'
        /\ \A m \in Models : /\ job'[m] # Idle <=> job[m] # Idle
                             /\ job'[m].pc = job[m].pc
                             /\ job[m] # Idle => job'[m].got = job[m].got /\ job'[m].old = job[m].old
    <2>1. cancel_apply_state(gone) \/ UNCHANGED job BY <1>1
    <2>q. QED BY <2>1, <1>t, CancelIs
  <1>s. /\ \A m \in Models : shown'[m] = IF m \in c.backends THEN shown[m] ELSE Blank
        /\ \A m \in Models : m \in c.backends /\ stale[m] => stale'[m]
    <2>1. \A m \in Models : stale'[m] = (stale[m] /\ m \in c.backends) BY Zenon, <1>1
    <2>q. QED BY <2>1, <1>1
  <1>4. PageSound'
    <2>1. \A m \in Models : m \notin view'.backends => shown'[m] = Blank BY <1>1, <1>s
    <2>2. \A r \in reads' : r.m \in view'.backends BY <1>1, <1>3
    <2>3. ASSUME NEW r \in reads', r.got # Blank
          PROVE  r.old \/ r.got = cfg'[r.m] \/ Ahead(r.m)'
      <3>1. r \in reads BY <2>3, <1>3
      <3>2. r.old \/ r.got = cfg[r.m] \/ Ahead(r.m) BY <3>1, <2>3, <1>t DEF PageSound
      <3>3. r.m \in Models BY <3>1, <1>2
      <3>q. QED BY <3>2, <3>3, <1>j, <1>u DEF Ahead
    <2>4. ASSUME NEW m \in Models, shown'[m] # Blank
          PROVE  stale'[m] \/ shown'[m] = cfg'[m] \/ Ahead(m)'
      <3>1. m \in c.backends /\ shown'[m] = shown[m] BY <2>4, <1>s
      <3>2. stale[m] \/ shown[m] = cfg[m] \/ Ahead(m) BY <3>1, <2>4, <1>t DEF PageSound
      <3>q. QED BY <3>1, <3>2, <1>j, <1>s, <1>u DEF Ahead
    <2>5. ASSUME NEW m \in Models, job'[m].pc = "back"
          PROVE  job'[m].got = Blank \/ job'[m].old \/ job'[m].got = cfg'[m]
      <3>1. job[m].pc = "back" /\ job[m] # Idle BY <2>5, <1>j, Apart
      <3>2. job[m].got = Blank \/ job[m].old \/ job[m].got = cfg[m] BY <3>1, <1>t DEF PageSound
      <3>q. QED BY <3>1, <3>2, <1>j, <1>u
    <2>q. QED BY <2>1, <2>2, <2>3, <2>4, <2>5 DEF PageSound
  <1>5. /\ DiscTypes' /\ ~Discovering' /\ (\A e \in disc' : e.gen # gen')
        /\ d.quiet => ~discovery_loading
    <2>1. DiscTypes' /\ ~Discovering' /\ (\A e \in disc' : e.gen # gen') BY <1>t, <1>u, TakenOut
    <2>2. \A e \in disc : e.gen = gen => e = d BY <1>t DEF DiscTypes
    <2>q. QED BY <2>1, <2>2 DEF discovery_loading
  <1>d. /\ d.old => drift
        /\ (sw["ui"] = Idle /\ wizard # "open" /\ ~d.old) => c = Connections
    BY <1>c, <1>t DEF ViewSound
  <1>6. ViewSound'
    <2>1. sw["ui"] = Idle => snap' = view'
      <3>1. CASE redraw BY <3>1, <1>1 DEF sync_active_backend
      <3>2. CASE ~redraw
        <4>1. d.quiet /\ ~failed /\ c = view /\ snap' = snap BY <3>2, <1>1, <1>t
        <4>2. sw["ui"] = Idle => snap = view BY <4>1, <1>5, <1>t DEF ViewSound
        <4>q. QED BY <4>1, <4>2, <1>1
      <3>q. QED BY <3>1, <3>2
    <2>2. ~drift' => ~d.old
      <3>1. CASE redraw BY <3>1, <1>1
      <3>2. CASE ~redraw BY <3>2, <1>1, <1>d
      <3>q. QED BY <3>1, <3>2
    <2>3. ConnectionsShown'
      <3>1. Connections' = Connections BY <1>u DEF Connections
      <3>q. QED BY <2>1, <2>2, <3>1, <1>1, <1>d, <1>u DEF ConnectionsShown
    <2>q. QED BY <2>1, <2>3, <1>5, <1>u DEF ViewSound
  <1>7. GateHeld' /\ SwitchSound' BY <1>t, <1>u, <1>j, GateFrame, SwitchFrame
  <1>8. PageTypes'
    <2>1. shown' \in [Models -> Values \cup {Blank}] BY <1>1, <1>t DEF PageTypes
    <2>2. stale' \in [Models -> BOOLEAN] BY <1>1
    <2>q. QED BY <2>1, <2>2, <1>1, <1>3, <1>c, <1>t, <1>u DEF PageTypes
  <1>9. drift' \in BOOLEAN
    <2>1. drift' = d.old \/ drift' = drift BY <1>1
    <2>q. QED BY <2>1, <1>t
  <1>10. SettingsTypes'
    BY <1>5, <1>8, <1>9, <1>j, <1>t, <1>u
    DEF SettingsTypes, MachineTypes, SwTypes, RestTypes
  <1>q. QED BY <1>4, <1>6, <1>7, <1>10 DEF SettingsInv

\* A discovery completes: only the newest is taken, and a failure is told.
LEMMA CompleteDiscoveryKeeps ==
  ASSUME SettingsInv, CompleteDiscovery
  PROVE  SettingsInv'
  <1>1. PICK d \in disc : complete_discovery(d) BY DEF CompleteDiscovery
  <1>t. /\ SettingsTypes /\ MachineTypes /\ DiscTypes /\ PageTypes /\ JobTypes
        /\ GateHeld /\ ViewSound /\ PageSound /\ SwitchSound
        /\ d.got \in Reads \cup {Unread, Error}
    BY DEF SettingsInv, SettingsTypes, DiscTypes, Discoveries
  <1>u. /\ UNCHANGED <<machine, gate, gen, tab, sw, wizard, bounds>> /\ disc' = disc \ {d}
        /\ UNCHANGED <<installed, linked, cfg, late, gate, gen, tab, sw, wizard, asks, events>>
        /\ d.got # Unread
    BY <1>1 DEF complete_discovery, machine, bounds
  <1>2. CASE d.gen = gen /\ d.got # Error
    <2>1. d.got \in Reads /\ apply_discovery(d.got, d.quiet, d.old)
      BY <1>2, <1>1, <1>t, <1>u DEF complete_discovery
    <2>q. QED BY <2>1, <1>2, <1>u, ApplyKeeps
  <1>3. CASE d.gen # gen
    <2>1. UNCHANGED <<view, failed, shown, reads, snap, verified, tabbed, job, drift, stale>>
      BY <1>3, <1>1 DEF complete_discovery, pages
    <2>2. /\ DiscTypes' /\ (discovery_loading' <=> discovery_loading)
          /\ (Discovering' <=> Discovering)
      BY <1>3, <1>t, <1>u, TakenOut
    <2>3. ViewSound'
      BY <2>1, <2>2, <1>t, <1>u DEF ViewSound, ConnectionsShown, Connections
    <2>4. PageSound' /\ GateHeld' /\ SwitchSound'
      BY <2>1, <1>t, <1>u, PageFrame, GateFrame, SwitchFrame
    <2>5. SettingsTypes'
      BY <2>1, <2>2, <1>t, <1>u
      DEF SettingsTypes, MachineTypes, PageTypes, JobTypes, SwTypes, RestTypes
    <2>q. QED BY <2>3, <2>4, <2>5 DEF SettingsInv
  <1>4. CASE d.gen = gen /\ d.got = Error
    <2>1. /\ failed' = TRUE /\ drift' = TRUE
          /\ UNCHANGED <<view, shown, reads, snap, verified, tabbed, job, stale>>
      BY <1>4, <1>1 DEF complete_discovery
    <2>2. DiscTypes' /\ ~Discovering' /\ (\A e \in disc' : e.gen # gen')
      BY <1>4, <1>t, <1>u, TakenOut
    <2>3. ViewSound' BY <2>1, <2>2 DEF ViewSound, ConnectionsShown
    <2>4. PageSound' /\ GateHeld' /\ SwitchSound'
      BY <2>1, <1>t, <1>u, PageFrame, GateFrame, SwitchFrame
    <2>5. SettingsTypes'
      BY <2>1, <2>2, <1>t, <1>u
      DEF SettingsTypes, MachineTypes, PageTypes, JobTypes, SwTypes, RestTypes
    <2>q. QED BY <2>3, <2>4, <2>5 DEF SettingsInv
  <1>q. QED BY <1>2, <1>3, <1>4

-----------------------------------------------------------------------------
(***************************************************************************)
(* Page reads and applies.                                                 *)
(***************************************************************************)

\* A step of the pages alone: the view, the discoveries and the switches stay.
LEMMA PageStep ==
  ASSUME SettingsInv,
         UNCHANGED <<installed, linked, late, gen, disc, view, failed, snap, sw, wizard, drift>>,
         PageSound', GateHeld', PageTypes', JobTypes', cfg' \in [Models -> Values],
         gate' \in Models \cup {"free", "ui"}, asks' \in 0..MaxUser, events' \in 0..MaxWorld
  PROVE  SettingsInv'
  <1>1. ViewSound' /\ SwitchSound' BY ViewFrame, SwitchFrame DEF SettingsInv
  <1>2. SettingsTypes'
    BY DEF SettingsInv, SettingsTypes, MachineTypes, DiscTypes, SwTypes, RestTypes
  <1>q. QED BY <1>1, <1>2 DEF SettingsInv

\* What a step of the pages starts from.
LEMMA PageFacts ==
  ASSUME SettingsInv
  PROVE /\ PageSound /\ GateHeld /\ PageTypes /\ JobTypes /\ cfg \in [Models -> Values]
        /\ gate \in Models \cup {"free", "ui"} /\ asks \in 0..MaxUser /\ events \in 0..MaxWorld
        /\ reads \subseteq PageReads /\ shown \in [Models -> Values \cup {Blank}]
        /\ stale \in [Models -> BOOLEAN] /\ view \in Reads /\ view.backends \subseteq Models
        /\ \A r \in reads : r \in PageReads /\ r.m \in Models /\ r.m \in view.backends
        /\ \A m \in Models : job[m] \in Jobs \cup {Idle}
        /\ \A m \in Models : job[m].pc # "idle" => job[m] \in Jobs /\ job[m] # Idle
  <1>1. /\ PageSound /\ GateHeld /\ PageTypes /\ JobTypes /\ cfg \in [Models -> Values]
        /\ gate \in Models \cup {"free", "ui"} /\ asks \in 0..MaxUser /\ events \in 0..MaxWorld
    BY DEF SettingsInv, SettingsTypes, MachineTypes, RestTypes
  <1>2. /\ reads \subseteq PageReads /\ shown \in [Models -> Values \cup {Blank}]
        /\ stale \in [Models -> BOOLEAN] /\ view \in Reads /\ view.backends \subseteq Models
    BY <1>1, ReadsApart DEF PageTypes
  <1>3. \A r \in reads : r \in PageReads /\ r.m \in Models /\ r.m \in view.backends
    BY <1>1, <1>2 DEF PageSound, PageReads
  <1>4. /\ \A m \in Models : job[m] \in Jobs \cup {Idle}
        /\ \A m \in Models : job[m].pc # "idle" => job[m] \in Jobs /\ job[m] # Idle
    BY <1>1, Apart DEF JobTypes
  <1>q. QED BY <1>1, <1>2, <1>3, <1>4

\* A page read begun knows nothing yet.
LEMMA FreshRead ==
  ASSUME NEW m \in Models
  PROVE LET r == [m |-> m, got |-> Blank, old |-> FALSE] IN
        r \in PageReads /\ r.m = m /\ r.got = Blank
  BY DEF PageReads

\* Showing, leaving or refreshing the Model tab begins and drops reads, of models in view.
LEMMA TriggerKeeps ==
  ASSUME SettingsInv, trigger_snapshot
  PROVE  SettingsInv'
  <1>u. /\ UNCHANGED <<machine, view, failed, shown, snap, verified, tabbed, gate, gen, disc,
                       job, sw, wizard, drift, stale>> /\ Asks
        /\ UNCHANGED <<installed, linked, cfg, late>>
    BY DEF trigger_snapshot, machine
  <1>t. tab' \in BOOLEAN /\ tabbed \subseteq Models
    BY PageFacts DEF PageTypes, trigger_snapshot
  <1>1. ASSUME NEW r \in reads'
        PROVE  r \in reads \/ \E m \in tabbed \cap view.backends :
                                 r = [m |-> m, got |-> Blank, old |-> FALSE]
    BY <1>1 DEF trigger_snapshot, begin_snapshot
  <1>2. \A r \in reads' : /\ r \in PageReads /\ r.m \in view.backends
                          /\ r \in reads \/ r.got = Blank
    BY <1>1, <1>t, FreshRead, PageFacts
  <1>3. PageSound' BY <1>2, <1>u, PageFacts DEF PageSound, Ahead
  <1>4. PageTypes' BY <1>2, <1>u, <1>t, PageFacts DEF PageTypes
  <1>5. GateHeld' BY <1>u, PageFacts, GateFrame
  <1>6. asks' \in 0..MaxUser /\ events' \in 0..MaxWorld BY <1>u, PageFacts, BoundsHold
  <1>7. JobTypes' BY <1>u, PageFacts DEF JobTypes
  <1>q. QED BY <1>u, <1>3, <1>4, <1>5, <1>6, <1>7, PageFacts, PageStep

\* The page's model answers with its configuration of that moment.
LEMMA SnapshotReadsKeeps ==
  ASSUME SettingsInv, NEW r \in reads, SnapshotReads(r)
  PROVE  SettingsInv'
  <1>u. /\ UNCHANGED <<machine, view, failed, shown, snap, verified, tabbed, gate, gen, disc,
                       tab, job, sw, wizard, bounds, drift, stale>>
        /\ UNCHANGED <<installed, linked, cfg, late, asks, events>>
    BY DEF SnapshotReads, machine, bounds
  <1> DEFINE e == [r EXCEPT !.got = cfg[r.m]]
  <1>1. e \in PageReads /\ e.m = r.m /\ e.got = cfg[r.m]
    <2>1. r \in PageReads /\ cfg[r.m] \in Values BY PageFacts
    <2>q. QED BY <2>1 DEF PageReads
  <1>2. reads' = (reads \ {r}) \cup {e} BY DEF SnapshotReads
  <1> HIDE DEF e
  <1>3. PageSound' BY <1>1, <1>2, <1>u, PageFacts DEF PageSound, Ahead
  <1>4. PageTypes' BY <1>1, <1>2, <1>u, PageFacts DEF PageTypes
  <1>5. GateHeld' BY <1>u, PageFacts, GateFrame
  <1>7. JobTypes' BY <1>u, PageFacts DEF JobTypes
  <1>q. QED BY <1>u, <1>3, <1>4, <1>5, <1>7, PageFacts, PageStep

\* A page shows what its read brought, and whether it was overtaken.
LEMMA CompleteSnapshotKeeps ==
  ASSUME SettingsInv, NEW r \in reads, complete_snapshot(r)
  PROVE  SettingsInv'
  <1>u. /\ UNCHANGED <<machine, view, failed, snap, verified, tabbed, gate, gen, disc,
                       tab, job, sw, wizard, bounds, drift>>
        /\ UNCHANGED <<installed, linked, cfg, late, asks, events>>
    BY DEF complete_snapshot, machine, bounds
  <1>1. /\ r.m \in Models /\ r.m \in view.backends /\ r.got \in Values \cup {Blank}
        /\ r.old \in BOOLEAN /\ reads' = reads \ {r}
        /\ shown' = [shown EXCEPT ![r.m] = r.got] /\ stale' = [stale EXCEPT ![r.m] = r.old]
    BY PageFacts DEF complete_snapshot, PageReads
  <1>2. /\ shown'[r.m] = r.got /\ (stale'[r.m] = r.old)
        /\ \A m \in Models : m # r.m => shown'[m] = shown[m] /\ stale'[m] = stale[m]
    BY <1>1, PageFacts
  <1>3. PageSound'
    <2>1. ASSUME NEW m \in Models, shown'[m] # Blank
          PROVE  stale'[m] \/ shown'[m] = cfg'[m] \/ Ahead(m)'
      <3>1. CASE m = r.m
        <4>1. r.old \/ r.got = cfg[r.m] \/ Ahead(r.m) BY <2>1, <3>1, <1>2, PageFacts DEF PageSound
        <4>q. QED BY <4>1, <3>1, <1>2, <1>u DEF Ahead
      <3>2. CASE m # r.m BY <3>2, <2>1, <1>2, <1>u, PageFacts DEF PageSound, Ahead
      <3>q. QED BY <3>1, <3>2
    <2>q. QED BY <2>1, <1>1, <1>2, <1>u, PageFacts DEF PageSound, Ahead
  <1>4. PageTypes' BY <1>1, <1>u, PageFacts DEF PageTypes
  <1>5. GateHeld' BY <1>u, PageFacts, GateFrame
  <1>7. JobTypes' BY <1>u, PageFacts DEF JobTypes
  <1>q. QED BY <1>u, <1>3, <1>4, <1>5, <1>7, PageFacts, PageStep

\* A step of one apply that moves it to another place, and nothing of the machine.
LEMMA JobMoves ==
  ASSUME SettingsInv, NEW m \in Models, NEW j \in Jobs, job[m] \in Jobs,
         job' = [job EXCEPT ![m] = j],
         UNCHANGED <<machine, pages, gate, gen, disc, tab, sw, wizard, drift, stale>>,
         Asks \/ Happens \/ UNCHANGED bounds,
         Ahead(m) <=> j.pc \in {"read", "back"},
         j.pc = "back" => j.got = Blank \/ j.old \/ j.got = cfg[m]
  PROVE  SettingsInv'
  <1>u. UNCHANGED <<installed, linked, cfg, late, view, failed, shown, reads, snap, verified,
                    tabbed, gate, gen, disc, tab, sw, wizard, drift, stale>>
    BY DEF machine, pages
  <1>1. /\ job'[m] = j /\ (\A n \in Models : n # m => job'[n] = job[n]) /\ JobTypes'
    BY PageFacts DEF JobTypes
  <1>2. \A n \in Models : Ahead(n)' <=> Ahead(n) BY <1>1 DEF Ahead
  <1>3. PageSound' BY <1>1, <1>2, <1>u, PageFacts DEF PageSound
  <1>4. PageTypes' BY <1>u, PageFacts DEF PageTypes
  <1>5. GateHeld'
    <2>1. job[m] # Idle BY Apart
    <2>q. QED BY <2>1, <1>1, <1>u, PageFacts, GateFrame
  <1>6. asks' \in 0..MaxUser /\ events' \in 0..MaxWorld BY PageFacts, BoundsHold
  <1>q. QED BY <1>u, <1>1, <1>3, <1>4, <1>5, <1>6, PageFacts, PageStep

\* A page told that its model changed is told for what it shows and for what it reads.
LEMMA AgedIs ==
  ASSUME SettingsInv, NEW m \in Models, Aged(m)
  PROVE /\ stale' \in [Models -> BOOLEAN] /\ stale'[m] = TRUE
        /\ \A n \in Models : n # m => stale'[n] = stale[n]
        /\ \A r \in reads' : /\ r \in PageReads /\ r.m \in view.backends
                             /\ r.m = m => r.got = Blank \/ r.old
                             /\ r.m # m => r \in reads
  <1> DEFINE a(r) == [r EXCEPT !.old = r.got # Blank]
  <1>1. stale' \in [Models -> BOOLEAN] /\ stale'[m] = TRUE
        /\ \A n \in Models : n # m => stale'[n] = stale[n]
    BY PageFacts DEF Aged
  <1>2. ASSUME NEW r \in PageReads
        PROVE  a(r) \in PageReads /\ a(r).m = r.m /\ a(r).got = r.got
    BY <1>2 DEF PageReads
  <1>3. ASSUME NEW r \in PageReads PROVE a(r).got = Blank \/ a(r).old
    <2>1. a(r).old = (r.got # Blank) BY Zenon, <1>3 DEF PageReads
    <2>q. QED BY <2>1, <1>2
  <1>4. reads' = {IF r.m = m THEN a(r) ELSE r : r \in reads} BY DEF Aged
  <1> HIDE DEF a
  <1>q. QED BY <1>1, <1>2, <1>3, <1>4, PageFacts

\* A change the user makes takes the free gate for its model.
LEMMA ApplyChangeKeeps ==
  ASSUME SettingsInv, NEW m \in Models, NEW v \in Values, apply_change(m, v)
  PROVE  SettingsInv'
  <1> DEFINE j == [pc |-> "prompt", value |-> v, cancelled |-> FALSE, attempt |-> 0,
                   got |-> Blank, old |-> FALSE, partial |-> FALSE]
  <1>u. /\ UNCHANGED <<machine, pages, gen, disc, tab, sw, wizard, drift, stale>> /\ Asks
        /\ UNCHANGED <<installed, linked, cfg, late, view, failed, shown, reads, snap, verified,
                       tabbed>>
        /\ wizard # "open" /\ gate = "free" /\ gate' = m /\ job[m] = Idle
    BY DEF apply_change, machine, pages, begin
  <1>1. j \in Jobs /\ j.pc = "prompt" BY DEF Jobs
  <1>2. job' = [job EXCEPT ![m] = j] BY DEF apply_change
  <1> HIDE DEF j
  <1>3. /\ job'[m] = j /\ (\A n \in Models : n # m => job'[n] = job[n]) /\ JobTypes'
    BY <1>1, <1>2, PageFacts DEF JobTypes
  <1>4. \A n \in Models : Ahead(n)' <=> Ahead(n) BY <1>1, <1>3, <1>u, Apart DEF Ahead
  <1>5. PageSound' BY <1>1, <1>3, <1>4, <1>u, PageFacts DEF PageSound
  <1>6. GateHeld'
    <2>1. m # "free" /\ m # "ui" BY SettingsAssumption
    <2>2. (\A n \in Models : job[n] = Idle) /\ sw["ui"] = Idle
      BY <1>u, SettingsAssumption, PageFacts DEF GateHeld
    <2>q. QED BY <2>1, <2>2, <1>3, <1>u, PageFacts DEF GateHeld
  <1>7. PageTypes' BY <1>u, PageFacts DEF PageTypes
  <1>8. asks' \in 0..MaxUser /\ events' \in 0..MaxWorld BY <1>u, PageFacts, BoundsHold
  <1>q. QED BY <1>u, <1>3, <1>5, <1>6, <1>7, <1>8, PageFacts, PageStep

\* A write of root's changes the configuration ahead of what was read, or tells the page.
LEMMA ExecuteKeeps ==
  ASSUME SettingsInv, NEW m \in Models, execute_plan(m)
  PROVE  SettingsInv'
  <1>u. /\ UNCHANGED <<installed, linked, late, view, failed, shown, snap, verified, tabbed,
                       gate, gen, disc, tab, sw, wizard, drift>>
        /\ job[m].pc = "root" /\ (Happens \/ UNCHANGED bounds)
    BY DEF execute_plan
  <1>1. /\ job[m] \in Jobs /\ job[m] # Idle /\ job[m].value \in Values
    <2>1. job[m] \in Jobs /\ job[m] # Idle BY <1>u, PageFacts
    <2>q. QED BY <2>1 DEF Jobs
  <1>m. \A x \in {"read", "over"} : /\ [job[m] EXCEPT !.pc = x] \in Jobs
                                   /\ [job[m] EXCEPT !.pc = x].pc = x
    BY <1>1 DEF Jobs
  <1>2. PICK j \in Jobs :
          /\ job' = [job EXCEPT ![m] = j]
          /\ \/ /\ cfg' = [cfg EXCEPT ![m] = job[m].value] /\ j.pc = "read"
                /\ UNCHANGED <<stale, reads>>
             \/ j.pc = "over" /\ UNCHANGED <<cfg, stale, reads>>
             \/ /\ cfg' = [cfg EXCEPT ![m] = job[m].value] /\ j.pc = "over" /\ Aged(m)
    <2>1. CASE /\ cfg' = [cfg EXCEPT ![m] = job[m].value] /\ job' = [job EXCEPT ![m].pc = "read"]
               /\ UNCHANGED <<stale, reads>>
      <3>1. job' = [job EXCEPT ![m] = [job[m] EXCEPT !.pc = "read"]] BY <2>1
      <3>q. QED BY <2>1, <3>1, <1>m
    <2>2. CASE /\ cfg' = [cfg EXCEPT ![m] = job[m].value]
               /\ job' = [job EXCEPT ![m].pc = "read", ![m].partial = TRUE]
               /\ UNCHANGED <<stale, reads>>
      <3>1. job' = [job EXCEPT ![m] = [job[m] EXCEPT !.pc = "read", !.partial = TRUE]]
        BY <2>2, PageFacts DEF JobTypes
      <3>2. /\ [job[m] EXCEPT !.pc = "read", !.partial = TRUE] \in Jobs
            /\ [job[m] EXCEPT !.pc = "read", !.partial = TRUE].pc = "read"
        BY <1>1 DEF Jobs
      <3>q. QED BY <2>2, <3>1, <3>2
    <2>3. CASE job' = [job EXCEPT ![m].pc = "over"] /\ UNCHANGED <<cfg, stale, reads>>
      <3>1. job' = [job EXCEPT ![m] = [job[m] EXCEPT !.pc = "over"]] BY <2>3
      <3>q. QED BY <2>3, <3>1, <1>m
    <2>4. CASE /\ cfg' = [cfg EXCEPT ![m] = job[m].value] /\ job' = [job EXCEPT ![m].pc = "over"]
               /\ Aged(m)
      <3>1. job' = [job EXCEPT ![m] = [job[m] EXCEPT !.pc = "over"]] BY <2>4
      <3>q. QED BY <2>4, <3>1, <1>m
    <2>q. QED BY <2>1, <2>2, <2>3, <2>4 DEF execute_plan
  <1>3. /\ job'[m] = j /\ (\A n \in Models : n # m => job'[n] = job[n]) /\ JobTypes'
    BY <1>2, PageFacts DEF JobTypes
  <1>4. cfg' \in [Models -> Values] /\ \A n \in Models : n # m => cfg'[n] = cfg[n]
    BY <1>1, <1>2, PageFacts
  <1>5. \A n \in Models : /\ n # m => (Ahead(n)' <=> Ahead(n))
                          /\ Ahead(m)' <=> j.pc = "read"
                          /\ ~Ahead(m)
    BY <1>2, <1>3, <1>u DEF Ahead
  <1>6. PageSound' /\ PageTypes'
    <2>1. ASSUME j.pc = "read", UNCHANGED <<stale, reads>> PROVE PageSound' /\ PageTypes'
      <3>1. Ahead(m)' BY <2>1, <1>5
      <3>2. PageSound' BY <2>1, <3>1, <1>3, <1>4, <1>5, <1>u, PageFacts DEF PageSound
      <3>q. QED BY <3>2, <2>1, <1>u, PageFacts DEF PageTypes
    <2>2. ASSUME j.pc = "over", UNCHANGED <<cfg, stale, reads>> PROVE PageSound' /\ PageTypes'
      <3>2. PageSound' BY <2>2, <1>3, <1>4, <1>5, <1>u, PageFacts DEF PageSound
      <3>q. QED BY <3>2, <2>2, <1>u, PageFacts DEF PageTypes
    <2>3. ASSUME j.pc = "over", Aged(m) PROVE PageSound' /\ PageTypes'
      <3>1. /\ stale' \in [Models -> BOOLEAN] /\ stale'[m] = TRUE
            /\ \A n \in Models : n # m => stale'[n] = stale[n]
            /\ \A r \in reads' : /\ r \in PageReads /\ r.m \in view.backends
                                 /\ r.m = m => r.got = Blank \/ r.old
                                 /\ r.m # m => r \in reads
        BY <2>3, AgedIs
      <3>2. \A r \in reads' : r.got = Blank \/ r.old \/ r.got = cfg'[r.m] \/ Ahead(r.m)'
        BY <3>1, <1>4, <1>5, PageFacts DEF PageSound
      <3>3. \A n \in Models : shown'[n] = Blank \/ stale'[n] \/ shown'[n] = cfg'[n] \/ Ahead(n)'
        BY <3>1, <1>4, <1>5, <1>u, PageFacts DEF PageSound
      <3>4. PageSound'
        BY <2>3, <3>1, <3>2, <3>3, <1>3, <1>4, <1>u, PageFacts DEF PageSound
      <3>q. QED BY <3>1, <3>4, <1>u, PageFacts DEF PageTypes
    <2>q. QED BY <1>2, <2>1, <2>2, <2>3
  <1>7. GateHeld' BY <1>1, <1>3, <1>u, PageFacts, GateFrame
  <1>8. asks' \in 0..MaxUser /\ events' \in 0..MaxWorld BY <1>u, PageFacts, BoundsHold
  <1>q. QED BY <1>u, <1>3, <1>4, <1>6, <1>7, <1>8, PageFacts, PageStep

\* The prompt, the refusal of a cancellation and the readiness loop move the apply only.
LEMMA PromptKeeps ==
  ASSUME SettingsInv, NEW m \in Models, Prompt(m) \/ refuse(m) \/ ReadBack(m)
  PROVE  SettingsInv'
  <1>1. job[m].pc \in {"prompt", "root", "read"} /\ job[m] \in Jobs /\ cfg[m] \in Values
    BY PageFacts DEF Prompt, refuse, ReadBack
  <1>u. /\ UNCHANGED <<machine, pages, gate, gen, disc, tab, sw, wizard, drift, stale>>
        /\ Asks \/ Happens \/ UNCHANGED bounds
    BY DEF Prompt, refuse, ReadBack
  <1>2. CASE Prompt(m)
    <2>1. PICK x \in {"over", "root"} : job' = [job EXCEPT ![m] = [job[m] EXCEPT !.pc = x]]
      BY <1>2 DEF Prompt
    <2>2. [job[m] EXCEPT !.pc = x] \in Jobs /\ [job[m] EXCEPT !.pc = x].pc = x BY <1>1 DEF Jobs
    <2>3. ~Ahead(m) BY <1>2 DEF Ahead, Prompt
    <2>q. QED BY <2>1, <2>2, <2>3, <1>1, <1>u, JobMoves
  <1>3. CASE refuse(m)
    <2>1. job' = [job EXCEPT ![m] = [job[m] EXCEPT !.cancelled = FALSE]] BY <1>3 DEF refuse
    <2>2. /\ [job[m] EXCEPT !.cancelled = FALSE] \in Jobs
          /\ [job[m] EXCEPT !.cancelled = FALSE].pc = "root"
      BY <1>1, <1>3 DEF Jobs, refuse
    <2>3. ~Ahead(m) BY <1>3 DEF Ahead, refuse
    <2>q. QED BY <2>1, <2>2, <2>3, <1>1, <1>u, JobMoves
  <1>4. CASE ReadBack(m)
    <2>1. job[m].pc = "read" /\ Ahead(m) BY <1>4 DEF Ahead, ReadBack
    <2>2. ASSUME NEW x \in Values \cup {Blank}, x \in {cfg[m], Blank},
                 job' = [job EXCEPT ![m].pc = "back", ![m].got = x]
          PROVE  SettingsInv'
      <3>1. job' = [job EXCEPT ![m] = [job[m] EXCEPT !.pc = "back", !.got = x]]
        BY <2>2, PageFacts DEF JobTypes
      <3>2. /\ [job[m] EXCEPT !.pc = "back", !.got = x] \in Jobs
            /\ [job[m] EXCEPT !.pc = "back", !.got = x].pc = "back"
            /\ [job[m] EXCEPT !.pc = "back", !.got = x].got = x
        BY <1>1, <2>2 DEF Jobs
      <3>q. QED BY <3>1, <3>2, <2>1, <2>2, <1>1, <1>u, JobMoves
    <2>3. CASE job' = [job EXCEPT ![m].attempt = @ + 1]
      <3>1. job' = [job EXCEPT ![m] = [job[m] EXCEPT !.attempt = @ + 1]] BY <2>3
      <3>2. /\ [job[m] EXCEPT !.attempt = @ + 1] \in Jobs
            /\ [job[m] EXCEPT !.attempt = @ + 1].pc = "read"
        BY <1>1, <2>1 DEF Jobs
      <3>q. QED BY <3>1, <3>2, <2>1, <1>1, <1>u, JobMoves
    <2>4. \/ job' = [job EXCEPT ![m].pc = "back", ![m].got = cfg[m]]
          \/ job' = [job EXCEPT ![m].pc = "back", ![m].got = Blank]
          \/ job' = [job EXCEPT ![m].attempt = @ + 1]
      BY <1>4 DEF ReadBack
    <2>q. QED BY <2>2, <2>3, <2>4, <1>1
  <1>q. QED BY <1>2, <1>3, <1>4

\* The apply that ends gives the gate back, and its read-back drops what overtook it.
LEMMA CompleteApplyKeeps ==
  ASSUME SettingsInv, NEW m \in Models, complete_apply(m)
  PROVE  SettingsInv'
  <1>u. /\ UNCHANGED <<machine, view, failed, snap, verified, tabbed, gen, disc, tab, sw,
                       wizard, bounds, drift>>
        /\ UNCHANGED <<installed, linked, cfg, late, asks, events>>
        /\ job[m].pc \in {"over", "back"} /\ job' = [job EXCEPT ![m] = Idle]
        /\ gate' = IF gate = m THEN "free" ELSE gate
    BY DEF complete_apply, machine, bounds, complete
  <1>1. job[m] \in Jobs /\ job[m] # Idle /\ job[m].got \in Values \cup {Blank} /\ job[m].old \in BOOLEAN
    <2>1. job[m] \in Jobs /\ job[m] # Idle BY <1>u, PageFacts
    <2>q. QED BY <2>1 DEF Jobs
  <1>2. gate = m /\ gate' = "free" BY <1>1, <1>u, PageFacts DEF GateHeld
  <1>3. job'[m] = Idle /\ (\A n \in Models : n # m => job'[n] = job[n]) /\ JobTypes'
    BY <1>u, PageFacts DEF JobTypes
  <1>4. GateHeld'
    <2>1. \A n \in Models : n # m => job[n] = Idle BY <1>2, PageFacts DEF GateHeld
    <2>2. sw["ui"] = Idle BY <1>2, PageFacts, SettingsAssumption DEF GateHeld
    <2>q. QED BY <2>1, <2>2, <1>2, <1>3, <1>u, PageFacts DEF GateHeld
  <1>5. (\A n \in Models : n # m => (Ahead(n)' <=> Ahead(n))) /\ job'[m].pc = "idle" /\ ~Ahead(m)'
    BY <1>3, Apart DEF Ahead
  <1>6. ASSUME job[m].pc = "back", m \in view.backends PROVE PageSound' /\ PageTypes'
    <2>1. /\ shown' = [shown EXCEPT ![m] = job[m].got] /\ stale' = [stale EXCEPT ![m] = job[m].old]
          /\ reads' = {r \in reads : r.m # m}
      BY <1>6 DEF complete_apply, apply_readback, cancel_page
    <2>2. job[m].got = Blank \/ job[m].old \/ job[m].got = cfg[m] BY <1>6, PageFacts DEF PageSound
    <2>3. /\ shown'[m] = job[m].got /\ (stale'[m] = job[m].old)
          /\ \A n \in Models : n # m => shown'[n] = shown[n] /\ stale'[n] = stale[n]
      BY <2>1, PageFacts
    <2>4. \A n \in Models : shown'[n] = Blank \/ stale'[n] \/ shown'[n] = cfg'[n] \/ Ahead(n)'
      <3>1. shown'[m] = Blank \/ stale'[m] \/ shown'[m] = cfg'[m] BY <2>2, <2>3, <1>u
      <3>q. QED BY <3>1, <2>3, <1>5, <1>u, PageFacts DEF PageSound
    <2>5. \A r \in reads' : r.got = Blank \/ r.old \/ r.got = cfg'[r.m] \/ Ahead(r.m)'
      BY <2>1, <1>5, <1>u, PageFacts DEF PageSound
    <2>6. PageSound' BY <2>1, <2>3, <2>4, <2>5, <1>3, <1>5, <1>6, <1>u, PageFacts DEF PageSound
    <2>q. QED BY <2>1, <2>6, <1>1, <1>u, PageFacts DEF PageTypes
  <1>7. ASSUME ~(job[m].pc = "back" /\ m \in view.backends) PROVE PageSound' /\ PageTypes'
    <2>1. UNCHANGED <<shown, stale, reads>> BY <1>7 DEF complete_apply
    <2>2. job[m].pc = "back" => shown[m] = Blank /\ \A r \in reads : r.m # m
      BY <1>7, PageFacts DEF PageSound
    <2>3. job[m].pc = "over" => ~Ahead(m) BY DEF Ahead
    <2>6. PageSound' BY <2>1, <2>2, <2>3, <1>3, <1>5, <1>u, PageFacts DEF PageSound
    <2>q. QED BY <2>1, <2>6, <1>1, <1>u, PageFacts DEF PageTypes
  <1>8. PageSound' /\ PageTypes' BY <1>6, <1>7
  <1>q. QED BY <1>u, <1>2, <1>3, <1>4, <1>8, PageFacts, PageStep

-----------------------------------------------------------------------------
(***************************************************************************)
(* Beginning and ending a switch, and the setup wizard.                    *)
(***************************************************************************)

\* A plan begins with nothing done and nothing known.
LEMMA SwitchPlanIs ==
  ASSUME NEW c \in Reads, NEW sel \in Models
  PROVE LET t == SwitchPlan(c, sel) IN t \in Plans /\ t.pc = "preflight" /\ Failing(t) /\ Whole(t)
  <1> DEFINE t == SwitchPlan(c, sel)
  <1>1. c.active \subseteq Models BY ReadsApart
  <1>2. t \in Plans /\ t.pc = "preflight" /\ t.why = "none" BY <1>1 DEF SwitchPlan, Plans
  <1>3. t.restoring = FALSE BY DEF SwitchPlan
  <1> HIDE DEF t
  <1>4. Failing(t) /\ Whole(t) BY <1>2, <1>3 DEF Failing, Whole
  <1>q. QED BY <1>2, <1>4 DEF t

\* The model list's switch begins behind the free gate, from what the list shows.
LEMMA BeginSwitchKeeps ==
  ASSUME SettingsInv, NEW sel \in Models, begin_backend_switch(sel)
  PROVE  SettingsInv'
  <1>t. /\ SettingsTypes /\ SwTypes /\ GateHeld /\ ViewSound /\ PageSound /\ PageTypes
        /\ snap \in Reads /\ asks \in 0..MaxUser /\ events \in 0..MaxWorld
    BY DEF SettingsInv, SettingsTypes, PageTypes, RestTypes
  <1>u. /\ UNCHANGED <<machine, pages, gen, disc, tab, job, wizard, drift, stale>> /\ Asks
        /\ UNCHANGED <<installed, linked, cfg, late, view, failed, shown, reads, snap, verified,
                       tabbed>>
        /\ wizard # "open" /\ gate = "free" /\ gate' = "ui" /\ sw["ui"] = Idle
    BY DEF begin_backend_switch, machine, pages, begin
  <1> DEFINE t == SwitchPlan(snap, sel)
  <1>1. t \in Plans /\ t.pc = "preflight" /\ Failing(t) /\ Whole(t) BY <1>t, SwitchPlanIs
  <1>2. sw' = [sw EXCEPT !["ui"] = t] BY DEF begin_backend_switch
  <1> HIDE DEF t
  <1>3. SwTypes' /\ sw'["ui"] = t /\ sw'["wizard"] = sw["wizard"] /\ t # Idle
    BY <1>1, <1>2, <1>t, SwPut, Apart
  <1>4. SwitchSound'
    BY <1>1, <1>3 DEF SwitchSound, Failing, Whole
  <1>5. GateHeld'
    <2>1. \A m \in Models : job[m] = Idle BY <1>t, <1>u, SettingsAssumption DEF GateHeld
    <2>q. QED BY <2>1, <1>3, <1>t, <1>u DEF GateHeld
  <1>6. ViewSound' BY <1>3, <1>t, <1>u, ViewFrame
  <1>7. PageSound' BY <1>t, <1>u, PageFrame
  <1>8. asks' \in 0..MaxUser /\ events' \in 0..MaxWorld BY <1>u, <1>t, BoundsHold
  <1>9. SettingsTypes'
    BY <1>3, <1>8, <1>t, <1>u
    DEF SettingsTypes, MachineTypes, DiscTypes, PageTypes, JobTypes, RestTypes
  <1>q. QED BY <1>4, <1>5, <1>6, <1>7, <1>9 DEF SettingsInv

\* It ends with a discovery that redraws.
LEMMA CompleteSwitchKeeps ==
  ASSUME SettingsInv, CompleteSwitch
  PROVE  SettingsInv'
  <1> DEFINE s == sw["ui"]
  <1>t. /\ SettingsTypes /\ SwTypes /\ DiscTypes /\ GateHeld /\ ViewSound /\ PageSound /\ PageTypes
        /\ asks \in 0..MaxUser /\ events \in 0..MaxWorld
    BY DEF SettingsInv, SettingsTypes, RestTypes
  <1>u. /\ UNCHANGED <<machine, view, failed, shown, reads, tabbed, tab, job, wizard, bounds,
                       drift, stale>>
        /\ UNCHANGED <<installed, linked, cfg, late, asks, events>>
        /\ s.pc = "done" /\ gate' = IF gate = "ui" THEN "free" ELSE gate
        /\ begin_discovery(FALSE) /\ sw' = [sw EXCEPT !["ui"] = Idle]
        /\ (s.final = Error /\ snap' = snap) \/ (s.final # Error /\ snap' = s.final)
    BY DEF CompleteSwitch, machine, bounds, complete
  <1>1. s \in Plans /\ s # Idle /\ gate = "ui" /\ gate' = "free"
    <2>1. s \in Plans BY <1>t, <1>u, Planned
    <2>q. QED BY <2>1, <1>t, <1>u, Apart DEF GateHeld
  <1>2. snap' \in Reads
    <2>1. s.final \in Reads \cup {Error}
      <3>1. s.final # Unread BY <1>t, <1>u DEF SwTypes
      <3>q. QED BY <3>1, <1>1 DEF Plans
    <2>q. QED BY <2>1, <1>t, <1>u DEF PageTypes
  <1>3. SwTypes' /\ sw'["ui"] = Idle /\ sw'["wizard"] = sw["wizard"]
    BY <1>t, <1>u, SwPut, Apart
  <1>4. ViewSound' /\ DiscTypes'
    <2>1. /\ DiscTypes' /\ Discovering'
          /\ \A d \in disc' : d.gen = gen' => d.got = Unread /\ ~d.old
          /\ discovery_loading'
      BY <1>t, <1>u, BeginIs
    <2>q. QED BY <2>1 DEF ViewSound, ConnectionsShown
  <1>5. SwitchSound' BY <1>3 DEF SwitchSound
  <1>6. PageSound' BY <1>t, <1>u, PageFrame
  <1>7. GateHeld'
    <2>1. \A m \in Models : job[m] = Idle BY <1>t, <1>1, SettingsAssumption DEF GateHeld
    <2>q. QED BY <2>1, <1>1, <1>3, <1>t, <1>u DEF GateHeld
  <1>8. SettingsTypes'
    BY <1>1, <1>2, <1>3, <1>4, <1>t, <1>u
    DEF SettingsTypes, MachineTypes, PageTypes, JobTypes, RestTypes
  <1>q. QED BY <1>4, <1>5, <1>6, <1>7, <1>8 DEF SettingsInv

\* The wizard opens behind the free gate, so with nothing running.
LEMMA OpenKeeps ==
  ASSUME SettingsInv, open_setup
  PROVE  SettingsInv'
  <1>t. /\ SettingsTypes /\ GateHeld /\ ViewSound /\ PageSound /\ SwitchSound
        /\ asks \in 0..MaxUser /\ events \in 0..MaxWorld
    BY DEF SettingsInv, SettingsTypes, RestTypes
  <1>u. /\ UNCHANGED <<installed, linked, cfg, late, view, failed, shown, reads, snap, verified,
                       tabbed, gate, gen, disc, tab, job, sw, drift, stale>>
        /\ Asks /\ wizard = "never" /\ wizard' = "open" /\ gate = "free"
    BY DEF open_setup, machine, pages
  <1>1. GateHeld' BY <1>t, <1>u DEF GateHeld
  <1>2. ViewSound' /\ PageSound' /\ SwitchSound' BY <1>t, <1>u, ViewFrame, PageFrame, SwitchFrame
  <1>3. asks' \in 0..MaxUser /\ events' \in 0..MaxWorld BY <1>u, <1>t, BoundsHold
  <1>4. SettingsTypes'
    BY <1>3, <1>t, <1>u
    DEF SettingsTypes, MachineTypes, DiscTypes, PageTypes, JobTypes, SwTypes, RestTypes
  <1>q. QED BY <1>1, <1>2, <1>4 DEF SettingsInv

\* A step of the wizard's own record.
LEMMA WizardStep ==
  ASSUME SettingsInv, NEW t \in Plans \cup Setups \cup {Idle}, t.pc = "done" => t.final # Unread,
         sw' = [sw EXCEPT !["wizard"] = t], wizard # "never", UNCHANGED <<machine, drift>>,
         SwitchOnly, Asks \/ Happens \/ UNCHANGED bounds
  PROVE  SettingsInv'
  <1>t. /\ SettingsTypes /\ SwTypes /\ GateHeld /\ ViewSound /\ PageSound /\ SwitchSound
        /\ asks \in 0..MaxUser /\ events \in 0..MaxWorld
    BY DEF SettingsInv, SettingsTypes, RestTypes
  <1>u. UNCHANGED <<installed, linked, cfg, late, view, failed, shown, reads, snap, verified,
                    tabbed, gate, gen, disc, tab, job, wizard, drift, stale>>
    BY DEF machine, pages, SwitchOnly, Elsewhere
  <1>1. SwTypes' /\ sw'["wizard"] = t /\ sw'["ui"] = sw["ui"] BY <1>t, SwPut
  <1>2. GateHeld' BY <1>1, <1>t, <1>u DEF GateHeld
  <1>3. ViewSound' /\ PageSound' /\ SwitchSound'
    BY <1>1, <1>t, <1>u, ViewFrame, PageFrame, SwitchFrame
  <1>4. asks' \in 0..MaxUser /\ events' \in 0..MaxWorld BY <1>t, BoundsHold
  <1>5. SettingsTypes'
    BY <1>1, <1>4, <1>t, <1>u
    DEF SettingsTypes, MachineTypes, DiscTypes, PageTypes, JobTypes, RestTypes
  <1>q. QED BY <1>2, <1>3, <1>5 DEF SettingsInv

\* What a step of the setup leaves: a setup, the plan of a switch, or nothing.
LEMMA SetupIs ==
  ASSUME NEW pc \in {"check", "wait", "changes", "restarts"}, NEW c \in Reads \cup {Unread},
         NEW waited \in BOOLEAN
  PROVE LET t == [pc |-> pc, got |-> c, waited |-> waited] IN t \in Setups /\ t.pc = pc
  BY DEF Setups

\* What a setup does next, by what it found connected.
LEMMA EnsureIs ==
  ASSUME NEW c \in Reads \cup {Unread}, ensure_backend_active(c)
  PROVE \E t \in Plans \cup Setups \cup {Idle} :
           t.pc # "done" /\ sw' = [sw EXCEPT !["wizard"] = t]
  <1>1. CASE Setup("restarts", c, TRUE)
    BY <1>1, SetupIs DEF Setup
  <1>2. CASE SetupOver
    BY <1>2, Apart DEF SetupOver
  <1>3. CASE \E m \in c.backends : sw' = [sw EXCEPT !["wizard"] = SwitchPlan(c, m)]
    <2>1. PICK m \in c.backends : sw' = [sw EXCEPT !["wizard"] = SwitchPlan(c, m)] BY <1>3
    <2>2. c \in Reads /\ m \in Models BY <2>1, ReadsApart
    <2>q. QED BY <2>1, <2>2, SwitchPlanIs
  <1>q. QED BY <1>1, <1>2, <1>3 DEF ensure_backend_active

\* The setup's steps rewrite the wizard's record.
LEMMA SetupKeeps ==
  ASSUME SettingsInv, finish_setup \/ SetupStep
  PROVE  SettingsInv'
  <1> DEFINE s == sw["wizard"]
  <1>t. /\ SwTypes /\ MachineTypes /\ GateHeld /\ Connections \in Reads /\ DOMAIN sw = {"ui", "wizard"}
    <2>1. SwTypes /\ MachineTypes /\ GateHeld BY DEF SettingsInv, SettingsTypes
    <2>q. QED BY <2>1, ConnectionsRead DEF SwTypes
  <1>u. /\ UNCHANGED <<machine, drift>> /\ SwitchOnly /\ (Asks \/ Happens \/ UNCHANGED bounds)
    BY DEF finish_setup, SetupStep, Check, wait_for_snapd, ChangesRead, SetupEnds
  <1>w. wizard # "never"
    <2>1. finish_setup => wizard # "never" BY DEF finish_setup
    <2>2. SetupStep => s.pc # "idle"
      BY DEF SetupStep, Check, wait_for_snapd, ChangesRead, SetupEnds
    <2>q. QED BY <2>1, <2>2, <1>t, Apart DEF GateHeld
  <1>k. ASSUME NEW t \in Plans \cup Setups \cup {Idle}, t.pc # "done",
               sw' = [sw EXCEPT !["wizard"] = t]
        PROVE  SettingsInv'
    BY <1>k, <1>u, <1>w, WizardStep
  <1>o. SetupOver => SettingsInv' BY <1>k, Apart DEF SetupOver
  <1>e. \A c \in Reads \cup {Unread} : ensure_backend_active(c) => SettingsInv' BY <1>k, EnsureIs
  <1>s. \A pc \in {"check", "wait", "changes", "restarts"}, c \in Reads \cup {Unread}, waited \in BOOLEAN :
          Setup(pc, c, waited) => SettingsInv'
    <2>1. SUFFICES ASSUME NEW pc \in {"check", "wait", "changes", "restarts"},
                          NEW c \in Reads \cup {Unread}, NEW waited \in BOOLEAN, Setup(pc, c, waited)
                   PROVE  SettingsInv'
      OBVIOUS
    <2> DEFINE t == [pc |-> pc, got |-> c, waited |-> waited]
    <2>2. t \in Setups /\ t.pc = pc BY SetupIs
    <2>3. sw' = [sw EXCEPT !["wizard"] = t] BY <2>1 DEF Setup
    <2> HIDE DEF t
    <2>q. QED BY <2>2, <2>3, <1>k
  <1>1. CASE finish_setup BY <1>1, <1>s DEF finish_setup
  <1>2. CASE Check
    <2>1. SetupOver \/ ensure_backend_active(Connections) \/ Setup("wait", Connections, FALSE)
      BY <1>2 DEF Check
    <2>q. QED BY <2>1, <1>o, <1>e, <1>s, <1>t
  <1>3. CASE wait_for_snapd
    <2>1. s \in Setups BY <1>3, <1>t, Planned DEF wait_for_snapd
    <2>2. SetupOver \/ sw' = [sw EXCEPT !["wizard"].pc = "changes"] BY <1>3 DEF wait_for_snapd
    <2>3. [s EXCEPT !.pc = "changes"] \in Setups /\ [s EXCEPT !.pc = "changes"].pc = "changes"
      BY <2>1 DEF Setups
    <2>4. ASSUME sw' = [sw EXCEPT !["wizard"].pc = "changes"] PROVE SettingsInv'
      <3>1. sw' = [sw EXCEPT !["wizard"] = [s EXCEPT !.pc = "changes"]] BY <2>4, <1>t
      <3>q. QED BY <3>1, <2>3, <1>k
    <2>q. QED BY <2>2, <2>4, <1>o
  <1>4. CASE ChangesRead
    <2>1. s \in Setups BY <1>4, <1>t, Planned DEF ChangesRead
    <2>2. s.got \in Reads \cup {Unread} BY <2>1 DEF Setups
    <2>3. \/ SetupOver \/ ensure_backend_active(s.got)
          \/ Setup("wait", s.got, TRUE) \/ Setup("check", s.got, TRUE)
      BY <1>4 DEF ChangesRead
    <2>q. QED BY <2>2, <2>3, <1>o, <1>e, <1>s
  <1>5. CASE SetupEnds BY <1>5, <1>o DEF SetupEnds
  <1>q. QED BY <1>1, <1>2, <1>3, <1>4, <1>5 DEF SetupStep

\* Closing the wizard rediscovers, or tells the discovery that already loads.
LEMMA CloseKeeps ==
  ASSUME SettingsInv, CloseWizard
  PROVE  SettingsInv'
  <1>t. /\ SettingsTypes /\ DiscTypes /\ GateHeld /\ ViewSound /\ PageSound /\ SwitchSound
    BY DEF SettingsInv, SettingsTypes
  <1>u. /\ UNCHANGED <<installed, linked, cfg, late, view, failed, shown, reads, snap, verified,
                       tabbed, gate, tab, job, sw, asks, events, stale>>
        /\ wizard' = "closed"
        /\ \/ disc' = Outdated /\ drift' = TRUE /\ UNCHANGED gen
           \/ begin_discovery(FALSE) /\ UNCHANGED drift
    BY DEF CloseWizard, machine, pages, bounds
  <1>1. GateHeld' BY <1>t, <1>u DEF GateHeld
  <1>2. ViewSound' /\ DiscTypes'
    <2>1. CASE disc' = Outdated /\ drift' = TRUE /\ UNCHANGED gen
      BY <2>1, <1>t, <1>u, ViewBehind
    <2>2. CASE begin_discovery(FALSE)
      BY <2>2, <1>t, <1>u, ViewBegins
    <2>q. QED BY <1>u, <2>1, <2>2
  <1>3. PageSound' /\ SwitchSound' BY <1>t, <1>u, PageFrame, SwitchFrame
  <1>4. SettingsTypes'
    BY <1>2, <1>t, <1>u
    DEF SettingsTypes, MachineTypes, PageTypes, JobTypes, SwTypes, RestTypes
  <1>q. QED BY <1>1, <1>2, <1>3, <1>4 DEF SettingsInv

-----------------------------------------------------------------------------
(***************************************************************************)
(* The machine by itself.                                                  *)
(***************************************************************************)

\* Every plan is told, and no record begins, ends or goes anywhere.
LEMMA BehindIs ==
  ASSUME SwTypes, Behind, NEW p \in {"ui", "wizard"}
  PROVE /\ sw[p] \in Plans => sw'[p] = [sw[p] EXCEPT !.moved = TRUE] /\ sw'[p] \in Plans
        /\ sw[p] \notin Plans => sw'[p] = sw[p]
        /\ sw'[p].pc = sw[p].pc /\ (sw'[p].pc = "done" => sw'[p].final = sw[p].final)
        /\ sw'[p] # Idle => sw[p] # Idle
        /\ sw[p] # Idle => sw'[p] # Idle
  <1>1. /\ sw[p] \in Plans => sw'[p] = [sw[p] EXCEPT !.moved = TRUE]
        /\ sw[p] \notin Plans => sw'[p] = sw[p]
    <2>1. sw'[p] = IF "moved" \in DOMAIN sw[p] THEN [sw[p] EXCEPT !.moved = TRUE] ELSE sw[p]
      BY DEF Behind, SwTypes
    <2>2. \A s \in Plans : "moved" \in DOMAIN s BY DEF Plans
    <2>3. \A s \in Setups \cup {Idle} : "moved" \notin DOMAIN s BY DEF Setups, Idle
    <2>4. sw[p] \in Plans \cup Setups \cup {Idle} BY DEF SwTypes
    <2>q. QED BY <2>1, <2>2, <2>3, <2>4
  <1>2. /\ sw[p] \in Plans => sw'[p] \in Plans
        /\ sw'[p].pc = sw[p].pc /\ (sw'[p].pc = "done" => sw'[p].final = sw[p].final)
        /\ sw'[p] # Idle => sw[p] # Idle
        /\ sw[p] # Idle => sw'[p] # Idle
    <2>1. CASE sw[p] \in Plans
      <3> DEFINE s == sw[p]
                 t == [sw[p] EXCEPT !.moved = TRUE]
      <3>1. t \in Plans /\ t.pc = s.pc /\ t.final = s.final BY <2>1, PlanMoves
      <3>2. sw'[p] = t BY <2>1, <1>1
      <3>3. s # Idle /\ t # Idle BY <3>1, <2>1, Apart
      <3> HIDE DEF t
      <3>q. QED BY <3>1, <3>2, <3>3
    <2>2. CASE sw[p] \notin Plans BY <2>2, <1>1
    <2>q. QED BY <2>1, <2>2
  <1>q. QED BY <1>1, <1>2

\* A change of the connections behind the window is told to every plan and discovery.
LEMMA BehindKeeps ==
  ASSUME SettingsInv, Behind, installed' \subseteq Models, linked' \subseteq installed',
         late' = {} \/ \E c : late' = {c}, asks' \in 0..MaxUser, events' \in 0..MaxWorld,
         UNCHANGED <<cfg, gate, gen, view, failed, shown, reads, tab, snap, verified, tabbed, job,
                     wizard, stale>>
  PROVE  SettingsInv'
  <1>t. /\ SettingsTypes /\ SwTypes /\ DiscTypes /\ GateHeld /\ ViewSound /\ PageSound
        /\ SwitchSound
    BY DEF SettingsInv, SettingsTypes
  <1>1. drift' = TRUE /\ disc' = Outdated BY DEF Behind
  <1>4. SwTypes'
    <2>1. \A p \in {"ui", "wizard"} : sw'[p] \in Plans \cup Setups \cup {Idle}
      BY <1>t, BehindIs DEF SwTypes
    <2>2. sw' = [p \in {"ui", "wizard"} |-> sw'[p]] BY <1>t DEF Behind, SwTypes
    <2>3. sw'["ui"] \notin Setups BY <1>t, BehindIs, Apart DEF SwTypes
    <2>4. \A p \in {"ui", "wizard"} : sw'[p].pc = "done" => sw'[p].final # Unread
      BY <1>t, BehindIs DEF SwTypes
    <2>q. QED BY <2>1, <2>2, <2>3, <2>4 DEF SwTypes
  <1>5. SwitchSound'
    <2>1. \/ sw["ui"] = Idle /\ sw'["ui"] = Idle
          \/ sw["ui"] # Idle /\ sw'["ui"] = [sw["ui"] EXCEPT !.moved = TRUE]
      BY <1>t, BehindIs, Planned, Apart
    <2>q. QED BY <2>1, <1>t, SwitchBehind
  <1>6. ViewSound' /\ DiscTypes'
    <2>1. sw'["ui"] = Idle => sw["ui"] = Idle BY <1>t, BehindIs
    <2>q. QED BY <2>1, <1>1, <1>t, ViewBehind
  <1>7. PageSound' BY <1>t, PageFrame
  <1>8. GateHeld' BY <1>t, BehindIs, GateFrame
  <1>9. SettingsTypes'
    BY <1>1, <1>4, <1>6, <1>t
    DEF SettingsTypes, MachineTypes, PageTypes, JobTypes, RestTypes
  <1>q. QED BY <1>5, <1>6, <1>7, <1>8, <1>9 DEF SettingsInv

\* A configuration changed elsewhere is told to the page and to the apply that read back.
LEMMA ConfigureKeeps ==
  ASSUME SettingsInv, NEW m \in installed, NEW v \in Values, Happens,
         cfg' = [cfg EXCEPT ![m] = v], Aged(m),
         job' = IF job[m] = Idle THEN job ELSE [job EXCEPT ![m].old = job[m].pc = "back"],
         UNCHANGED <<installed, linked, late, gate, gen, disc, view, failed, shown, tab, snap,
                     verified, tabbed, sw, wizard, drift>>
  PROVE  SettingsInv'
  <1>m. m \in Models BY DEF SettingsInv, SettingsTypes, MachineTypes
  <1>1. /\ stale' \in [Models -> BOOLEAN] /\ stale'[m] = TRUE
        /\ \A n \in Models : n # m => stale'[n] = stale[n]
        /\ \A r \in reads' : /\ r \in PageReads /\ r.m \in view.backends
                             /\ r.m = m => r.got = Blank \/ r.old
                             /\ r.m # m => r \in reads
    BY <1>m, AgedIs
  <1>2. cfg' \in [Models -> Values] /\ \A n \in Models : n # m => cfg'[n] = cfg[n]
    BY <1>m, PageFacts
  <1>3. /\ JobTypes' /\ (\A n \in Models : n # m => job'[n] = job[n])
        /\ job'[m].pc = job[m].pc /\ (job'[m] # Idle => job[m] # Idle)
        /\ job'[m].pc = "back" => job'[m].old
    <2>1. CASE job[m] = Idle BY <2>1, PageFacts, Apart DEF JobTypes
    <2>2. CASE job[m] # Idle
      <3> DEFINE j == [job[m] EXCEPT !.old = job[m].pc = "back"]
      <3>1. job[m] \in Jobs BY <2>2, <1>m, PageFacts
      <3>2. j \in Jobs /\ j.pc = job[m].pc BY <3>1 DEF Jobs
      <3>3. job[m].pc = "back" => j.old
        <4>1. j.old = (job[m].pc = "back") BY Zenon, <3>1 DEF Jobs
        <4>q. QED BY <4>1
      <3>4. job' = [job EXCEPT ![m] = j] BY <2>2
      <3> HIDE DEF j
      <3>5. job'[m] = j /\ JobTypes' /\ \A n \in Models : n # m => job'[n] = job[n]
        BY <3>2, <3>4, <1>m, PageFacts DEF JobTypes
      <3>q. QED BY <3>2, <3>3, <3>5, <2>2
    <2>q. QED BY <2>1, <2>2
  <1>4. \A n \in Models : Ahead(n)' <=> Ahead(n) BY <1>3 DEF Ahead
  <1>5. \A r \in reads' : r.got = Blank \/ r.old \/ r.got = cfg'[r.m] \/ Ahead(r.m)'
    BY <1>1, <1>2, <1>4, PageFacts DEF PageSound
  <1>6. \A n \in Models : shown'[n] = Blank \/ stale'[n] \/ shown'[n] = cfg'[n] \/ Ahead(n)'
    BY <1>1, <1>2, <1>4, PageFacts DEF PageSound
  <1>7. PageSound' BY <1>1, <1>2, <1>3, <1>5, <1>6, PageFacts DEF PageSound
  <1>8. PageTypes' BY <1>1, PageFacts DEF PageTypes
  <1>9. GateHeld' BY <1>3, PageFacts, GateFrame
  <1>10. asks' \in 0..MaxUser /\ events' \in 0..MaxWorld BY PageFacts, BoundsHold
  <1>q. QED BY <1>2, <1>3, <1>7, <1>8, <1>9, <1>10, PageFacts, PageStep

\* Every step of another program keeps the invariant.
LEMMA WorldKeeps ==
  ASSUME SettingsInv, Outside \/ LateChange
  PROVE  SettingsInv'
  <1>t. /\ installed \subseteq Models /\ linked \subseteq installed
        /\ (late = {} \/ \E c : late = {c}) /\ asks \in 0..MaxUser /\ events \in 0..MaxWorld
    BY DEF SettingsInv, SettingsTypes, MachineTypes, RestTypes
  <1>1. CASE Outside
    <2>1. /\ Happens /\ asks' \in 0..MaxUser /\ events' \in 0..MaxWorld
          /\ UNCHANGED <<late, gate, gen, view, failed, shown, tab, snap, verified, tabbed,
                         wizard>>
      BY <1>1, <1>t, BoundsHold DEF Outside
    <2>2. ASSUME Behind, installed' \subseteq Models, linked' \subseteq installed',
                 UNCHANGED <<cfg, reads, job, stale>>
          PROVE  SettingsInv'
      BY <2>1, <2>2, <1>t, BehindKeeps
    <2>3. ASSUME NEW m \in installed, installed' = installed \ {m}, linked' = linked \ {m},
                 Behind, UNCHANGED <<cfg, reads, job, stale>>
          PROVE  SettingsInv'
      BY <2>3, <2>2, <1>t
    <2>4. ASSUME NEW m \in Models, installed' = installed \cup {m}, Behind,
                 UNCHANGED <<linked, cfg, reads, job, stale>>
          PROVE  SettingsInv'
      BY <2>4, <2>2, <1>t
    <2>5. ASSUME NEW m \in installed, Behind, UNCHANGED <<installed, cfg, reads, job, stale>>,
                 linked' = IF m \in linked THEN linked \ {m} ELSE linked \cup {m}
          PROVE  SettingsInv'
      BY <2>5, <2>2, <1>t
    <2>6. ASSUME NEW m \in installed, NEW v \in Values, cfg' = [cfg EXCEPT ![m] = v], Aged(m),
                 job' = IF job[m] = Idle THEN job ELSE [job EXCEPT ![m].old = job[m].pc = "back"],
                 UNCHANGED <<installed, linked, drift, disc, sw>>
          PROVE  SettingsInv'
      BY <2>6, <2>1, ConfigureKeeps
    <2>q. QED BY <1>1, <2>3, <2>4, <2>5, <2>6 DEF Outside
  <1>2. CASE LateChange
    <2>1. PICK c \in late : linked' \in {linked, Link(c.act, c.m)} BY <1>2 DEF LateChange
    <2>2. linked' \subseteq installed BY <2>1, <1>t DEF Link
    <2>3. /\ UNCHANGED <<installed, cfg, gate, gen, view, failed, shown, reads, tab, snap, verified,
                         tabbed, job, wizard, stale>>
          /\ late' = {} /\ Behind /\ asks' = asks /\ events' = events
      BY <1>2 DEF LateChange, pages, bounds
    <2>q. QED BY <2>2, <2>3, <1>t, BehindKeeps
  <1>q. QED BY <1>1, <1>2

-----------------------------------------------------------------------------
(***************************************************************************)
(* The theorems.                                                           *)
(***************************************************************************)

\* The first window shows nothing, and discovers.
LEMMA InitHolds == Init => SettingsInv
  <1> SUFFICES ASSUME Init PROVE SettingsInv
    OBVIOUS
  <1> DEFINE d == [gen |-> 1, quiet |-> FALSE, got |-> Unread, old |-> FALSE]
             c == [ok |-> "read", backends |-> {}, active |-> {}]
  <1>1. d \in Discoveries /\ d.gen = 1 /\ d.got = Unread /\ ~d.old /\ ~d.quiet BY DEF Discoveries
  <1>2. c \in Reads /\ c.backends = {} BY DEF Reads
  <1>3. disc = {d} /\ gen = 1 /\ view = c /\ snap = c BY DEF Init
  <1> HIDE DEF d, c
  <1>4. DiscTypes BY <1>1, <1>3 DEF DiscTypes
  <1>5. discovery_loading /\ Discovering BY <1>1, <1>3 DEF discovery_loading, Discovering
  <1>6. ViewSound BY <1>1, <1>3, <1>5 DEF ViewSound, ConnectionsShown
  <1>7. PageSound
    <2>1. \A m \in Models : job[m] = Idle /\ shown[m] = Blank BY DEF Init
    <2>2. reads = {} BY DEF Init
    <2>q. QED BY <2>1, <2>2, Apart DEF PageSound
  <1>8. GateHeld /\ SwitchSound BY DEF Init, GateHeld, SwitchSound
  <1>9. MachineTypes
    <2>1. (CHOOSE v \in Values : TRUE) \in Values BY SettingsAssumption
    <2>q. QED BY <2>1 DEF Init, MachineTypes
  <1>10. PageTypes /\ JobTypes BY <1>2, <1>3 DEF Init, PageTypes, JobTypes
  <1>11. SwTypes
    <2>1. sw["ui"] = Idle /\ sw["wizard"] = Idle /\ sw \in [{"ui", "wizard"} -> {Idle}] BY DEF Init
    <2>q. QED BY <2>1, Apart DEF SwTypes
  <1>12. RestTypes
    <2>1. MaxUser \in Nat /\ MaxWorld \in Nat BY SettingsAssumption
    <2>2. MaxUser \in 0..MaxUser /\ MaxWorld \in 0..MaxWorld BY <2>1
    <2>q. QED BY <2>2 DEF Init, RestTypes
  <1>q. QED BY <1>4, <1>6, <1>7, <1>8, <1>9, <1>10, <1>11, <1>12 DEF SettingsInv, SettingsTypes

\* Every step keeps the invariant.
LEMMA StepKeeps == SettingsInv /\ [Next]_vars => SettingsInv'
  <1> SUFFICES ASSUME SettingsInv, [Next]_vars PROVE SettingsInv'
    OBVIOUS
  <1>1. CASE UserStep
    BY <1>1, DiscoverKeeps, TriggerKeeps, ApplyChangeKeeps, BeginSwitchKeeps, OpenKeeps,
       SetupKeeps, CloseKeeps DEF UserStep
  <1>2. CASE ReadStep
    BY <1>2, DiscoveryReadsKeeps, CompleteDiscoveryKeeps, SnapshotReadsKeeps,
       CompleteSnapshotKeeps DEF ReadStep
  <1>3. CASE CompleteSwitch BY <1>3, CompleteSwitchKeeps
  <1>4. CASE SetupStep BY <1>4, SetupKeeps
  <1>5. CASE \E p \in {"ui", "wizard"} : SwitchStep(p) BY <1>5, SwitchKeeps
  <1>6. CASE \E m \in Models : ApplyStep(m)
    BY <1>6, PromptKeeps, ExecuteKeeps, CompleteApplyKeeps DEF ApplyStep
  <1>7. CASE Outside \/ LateChange BY <1>7, WorldKeeps
  <1>8. CASE UNCHANGED vars
    <2>1. ViewSound' /\ PageSound' /\ SwitchSound' /\ GateHeld'
      BY <1>8, ViewFrame, PageFrame, SwitchFrame, GateFrame DEF vars, SettingsInv
    <2>2. SettingsTypes'
      BY <1>8 DEF vars, SettingsInv, SettingsTypes, MachineTypes, DiscTypes, PageTypes, JobTypes,
                  SwTypes, RestTypes
    <2>q. QED BY <2>1, <2>2 DEF SettingsInv
  <1>q. QED BY <1>1, <1>2, <1>3, <1>4, <1>5, <1>6, <1>7, <1>8 DEF Next

\* A set of nothing or of one thing.
LEMMA AtMostOne == ASSUME NEW S, S = {} \/ \E x : S = {x} PROVE Cardinality(S) <= 1
  <1>1. CASE S = {} BY <1>1, FS_EmptySet
  <1>2. CASE \E x : S = {x}
    <2>1. PICK x : S = {x} BY <1>2
    <2>2. Cardinality({x}) = 1 BY FS_Singleton
    <2>q. QED BY <2>1, <2>2
  <1>q. QED BY <1>1, <1>2

\* The model list's switch ends in its completion only, after the last of its reads.
LEMMA SwitchEnds ==
  ASSUME SettingsInv, [Next]_vars, sw["ui"] # Idle, sw'["ui"] = Idle
  PROVE  sw["ui"].pc = "done" /\ UNCHANGED <<installed, linked>>
  <1>t. SettingsTypes /\ SwTypes /\ DOMAIN sw = {"ui", "wizard"}
    BY DEF SettingsInv, SettingsTypes, SwTypes
  <1>s. sw' # sw OBVIOUS
  <1>1. ~(rediscover_on_focus \/ on_diagnostics_requested \/ trigger_snapshot \/ open_setup \/ CloseWizard
          \/ \E m \in Models, v \in Values : apply_change(m, v))
    BY <1>s DEF rediscover_on_focus, on_diagnostics_requested, trigger_snapshot, open_setup,
                CloseWizard, apply_change
  <1>2. ~\E m \in Models : begin_backend_switch(m) BY DEF begin_backend_switch
  <1>3. ASSUME finish_setup \/ SetupStep PROVE FALSE
    <2>1. \E t : sw' = [sw EXCEPT !["wizard"] = t]
      <3>1. ASSUME wait_for_snapd PROVE \E t : sw' = [sw EXCEPT !["wizard"] = t]
        BY <3>1 DEF wait_for_snapd, SetupOver
      <3>2. ASSUME ~wait_for_snapd PROVE \E t : sw' = [sw EXCEPT !["wizard"] = t]
        BY <1>3, <3>2 DEF finish_setup, SetupStep, Check, ChangesRead, SetupEnds, SetupOver, Setup,
                          ensure_backend_active
      <3>q. QED BY <3>1, <3>2
    <2>q. QED BY <2>1, <1>t
  <1>4. ~ReadStep
    BY <1>s DEF ReadStep, DiscoveryReads, CompleteDiscovery, complete_discovery, SnapshotReads,
                complete_snapshot
  <1>5. ~\E p \in {"ui", "wizard"} : SwitchStep(p) BY <1>t, SwitchStays
  <1>6. ~\E m \in Models : ApplyStep(m)
    BY <1>s DEF ApplyStep, Prompt, refuse, execute_plan, ReadBack, complete_apply
  <1>7. ~(Outside \/ LateChange)
    <2>1. ~Behind BY <1>t, BehindIs
    <2>q. QED BY <2>1, <1>s DEF Outside, LateChange
  <1>8. CompleteSwitch
    BY <1>1, <1>2, <1>3, <1>4, <1>5, <1>6, <1>7, <1>s DEF Next, UserStep, vars
  <1>q. QED BY <1>8 DEF CompleteSwitch, machine

\* What the operations, the window and the machine know of one another, whatever the
\* order of the futures.
THEOREM SettingsSound == Spec => []SettingsInv
  BY InitHolds, StepKeeps, PTL DEF Spec

\* One privileged operation at a time, and it holds the gate.
THEOREM OneWriterKept == Spec => []OneWriter
  <1>1. SettingsInv => OneWriter
    <2> SUFFICES ASSUME SettingsInv PROVE OneWriter
      OBVIOUS
    <2>t. SettingsTypes /\ GateHeld BY DEF SettingsInv
    <2>1. TypeOK
      <3>1. Cardinality(late) <= 1
        <4>1. late = {} \/ \E c : late = {c} BY <2>t DEF SettingsTypes, MachineTypes
        <4>q. QED BY <4>1, AtMostOne
      <3>2. {r.m : r \in reads} \subseteq Models BY PageFacts
      <3>3. DOMAIN job = Models BY <2>t DEF SettingsTypes, JobTypes
      <3>q. QED BY <3>1, <3>2, <3>3, <2>t
            DEF TypeOK, SettingsTypes, MachineTypes, PageTypes, RestTypes
    <2>2. \A w \in Writers \ {"wizard"} : gate = w BY <2>t DEF Writers, GateHeld
    <2>3. Writers = {} \/ \E w : Writers = {w}
      <3>1. CASE wizard = "open" /\ sw["wizard"] # Idle
        <4>1. gate = "free" /\ "free" \notin Models /\ "ui" # "free"
          BY <3>1, <2>t, SettingsAssumption DEF GateHeld
        <4>2. (\A m \in Models : job[m] = Idle) /\ sw["ui"] = Idle BY <4>1, <2>t DEF GateHeld
        <4>q. QED BY <4>2 DEF Writers
      <3>2. CASE ~(wizard = "open" /\ sw["wizard"] # Idle)
        <4>1. \A w \in Writers : w = gate BY <3>2, <2>t DEF Writers, GateHeld
        <4>q. QED BY <4>1
      <3>q. QED BY <3>1, <3>2
    <2>4. Cardinality(Writers) <= 1 BY <2>3, AtMostOne
    <2>q. QED BY <2>1, <2>2, <2>4 DEF OneWriter
  <1>q. QED BY <1>1, SettingsSound, PTL

\* At rest the window shows what the machine has: no superseded discovery, overtaken
\* page read or delayed answer is the one that stays.
THEOREM ShownKept == Spec => []Shown
  <1>1. SettingsInv => Shown
    <2>1. SettingsInv => ConnectionsShown BY DEF SettingsInv, ViewSound
    <2>2. SettingsInv => ConfigShown
      <3> SUFFICES ASSUME SettingsInv, NEW m \in view.backends, job[m] = Idle, ~stale[m],
                          shown[m] # Blank
                   PROVE  shown[m] = cfg[m]
        BY DEF ConfigShown
      <3>1. m \in Models BY PageFacts
      <3>2. ~Ahead(m) BY Apart DEF Ahead
      <3>q. QED BY <3>1, <3>2, PageFacts DEF PageSound
    <2>q. QED BY <2>1, <2>2 DEF Shown
  <1>q. QED BY <1>1, SettingsSound, PTL

\* A switch that ends without a word leaves a model where it found one.
THEOREM NeverLessKept == Spec => NeverLess
  <1> DEFINE A == LET s == sw["ui"] IN
                    (s # Idle /\ sw'["ui"] = Idle /\ Notice(s) = "none" /\ Sole(s.base) # {}
                       /\ ~s.moved /\ s.final # Error) => linked # {}
  <1>1. SettingsInv /\ [Next]_vars => A
    <2> SUFFICES ASSUME SettingsInv, [Next]_vars, sw["ui"] # Idle, sw'["ui"] = Idle,
                        Notice(sw["ui"]) = "none", Sole(sw["ui"].base) # {}, ~sw["ui"].moved,
                        sw["ui"].final # Error
                 PROVE  linked # {}
      OBVIOUS
    <2> DEFINE s == sw["ui"]
    <2>1. s.pc = "done" BY SwitchEnds
    <2>2. s \in Plans /\ Failing(s) /\ Whole(s)
      BY Planned DEF SettingsInv, SettingsTypes, SwitchSound
    <2>3. /\ s.why = "none" => s.final = Connections
          /\ (s.why = "cancelled" /\ ~s.unrestored) => linked # {}
      BY <2>1, <2>2 DEF Whole
    <2>4. \/ s.why = "none" /\ s.final.active = {s.sel}
          \/ s.why = "cancelled" /\ ~s.unrestored
      <3>1. Notice(s) = "none" OBVIOUS
      <3> HIDE DEF s
      <3>q. QED BY <3>1 DEF Notice
    <2> HIDE DEF s
    <2>q. QED BY <2>3, <2>4 DEF Connections
  <1>q. QED BY <1>1, SettingsSound, PTL DEF Spec, NeverLess
=============================================================================
