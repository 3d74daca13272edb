------------------------------ MODULE Shortcut ------------------------------
(***************************************************************************)
(* The key of dictation as the settings application sets it up             *)
(* (client/myna-config: shortcut.rs, shortcut_ui.rs and the three desktops *)
(* of platform, activation.rs).   The desktop owns the key and runs a      *)
(* command on it; other shortcuts, the user in the desktop's own settings  *)
(* and the daemon, whose age decides the command, change behind the        *)
(* control, which hears of it later.                                       *)
(*                                                                         *)
(* A key is a chord; its spellings are one.  A desktop that Myna cannot    *)
(* manage shows a text and does nothing.                                   *)
(***************************************************************************)
EXTENDS Naturals, FiniteSets, Sequences

CONSTANTS Keys,      \* the chords, DEFAULT_ACCELERATOR "j" among them
          MaxRebinds \* bound: changes made in the desktop's settings, and of the daemon

VARIABLES
  desk, \* the desktop's kind, Myna's entries (key and command), the others' keys
  dmn,  \* the daemon: on the bus, one whose Toggle does nothing
  prox, \* the control's proxy: made, what it has cached, whether it is behind;
        \* whether the watch on the desktop is due to call
  ctl,  \* ShortcutControl: state, capture, refusal, asking, failed, default_pending
  ask,  \* the replace question: key, holder, answer, closed
  past  \* history, see Step

shortcutVars == <<desk, dmn, prox, ctl, ask, past>>

None == "none"
Default == "j"
NoQuestion == [key |-> None, holder |-> None, answer |-> None, closed |-> FALSE]

\* The order in which conflicts() finds the other holders of a key.  "static" is
\* reserved: GNOME grabs it at login.
Holders ==
  CASE desk.kind = "gnome" -> <<"system", "static", "custom">>
    [] OTHER -> <<"custom", "system">>

ShortcutInit ==
  /\ \E kind \in {"gnome", "kde", "xfce"}, ours \in {{}} \cup {{<<k, "new">>} : k \in Keys},
        system \in {{}, {Default}}, static \in SUBSET (Keys \ {Default}),
        custom \in {{}} \cup {{k} : k \in Keys} :
       /\ kind # "gnome" => static = {}
       /\ kind = "kde" => system \cap custom = {} /\ \A p \in ours : p[1] \notin system \cup custom
       /\ kind = "xfce" => \A p \in ours : p[1] \notin custom
       /\ desk = [kind |-> kind, ours |-> ours,
                  theirs |-> [system |-> system, static |-> static, custom |-> custom]]
  /\ dmn \in [up : BOOLEAN, legacy : {FALSE}, changes : {0}]
  /\ prox = [made |-> FALSE, up |-> FALSE, legacy |-> FALSE, news |-> TRUE, due |-> FALSE]
  /\ ctl = [state |-> "NotRunning", capture |-> FALSE, refusal |-> FALSE, asking |-> FALSE,
            failed |-> FALSE, default_pending |-> FALSE]
  /\ ask = NoQuestion
  /\ past = [taken |-> {}, agreed |-> {}, several |-> FALSE, raced |-> FALSE,
             mine |-> None, lapsed |-> FALSE, lost |-> FALSE, blind |-> FALSE]

\* A desktop with no shortcuts yet.
Plain ==
  /\ desk.kind = "gnome" /\ desk.ours = {} /\ dmn.up
  /\ \A h \in DOMAIN desk.theirs : desk.theirs[h] = {}

-----------------------------------------------------------------------------
\* shortcut.rs.

\* command: the app of the snap that pokes the control socket, or the Toggle.
command(v) == IF v.legacy THEN "old" ELSE "new"

\* ShortcutState::observe of what the desktop has, with the entry that binding and
\* command take.
entry(d, v) ==
  IF ~v.up THEN {[state |-> "NotRunning", command |-> None]}
  ELSE IF d.ours = {} THEN {[state |-> "Unbound", command |-> None]}
  ELSE {[state |-> p[1], command |-> p[2]] : p \in d.ours}

\* Plasma and Xfce are asked over the bus, where each question may go unanswered;
\* GNOME's settings are read in place.
Answers(d) == IF d.kind = "gnome" THEN {TRUE} ELSE BOOLEAN

\* ShortcutState::observe in refresh: without an answer of binding there is no key,
\* and without one of command no command that could be the one wanted.
observe(d, v) ==
  {[state |-> e.state, command |-> IF said THEN e.command ELSE None, known |-> TRUE] :
     e \in entry(d, v), said \in Answers(d)}
  \cup IF v.up /\ d.ours # {} /\ FALSE \in Answers(d)
       THEN {[state |-> "Unbound", command |-> None, known |-> FALSE]} ELSE {}

\* Mutant: the default is installed over whatever holds it.
default_key_Greedy(state, available) ==
  CASE state = "NotRunning" -> "Wait"
    [] state = "Unbound" -> "Install"
    [] OTHER -> "Leave"

default_key(state, available) ==
  CASE state = "NotRunning" -> "Wait"
    [] state = "Unbound" /\ available -> "Install"
    [] OTHER -> "Leave"

button_action(state, capturing) ==
  CASE capturing -> "CancelCapture"
    [] ~capturing /\ state = "NotRunning" -> "Nothing"
    [] OTHER -> "Capture"

-----------------------------------------------------------------------------
\* The three Activations, each call of which may be refused half way.

\* Who holds key besides Myna, and conflicts, which takes no answer for no holder.
holders(d, key) == SelectSeq(Holders, LAMBDA h : key \in d.theirs[h])
conflicts(d, key) ==
  {[held |-> IF known THEN holders(d, key) ELSE <<>>, known |-> known] : known \in Answers(d)}

Result(d, ours, ok) == [desk |-> [d EXCEPT !.ours = ours], ok |-> ok]

\* GnomeActivation::bind: command, binding and the list are written in turn.
bind_gnome(d, key, cmd) ==
  {Result(d, {<<key, cmd>>}, TRUE), Result(d, d.ours, FALSE),
   Result(d, {<<p[1], cmd>> : p \in d.ours}, FALSE)}

\* KglobalaccelActivation::bind: the entries of other commands are retired first;
\* then the entry is found, or not, and takes the key, unless another holds it, and
\* last the key is read back, which may not be answered.
bind_kde(d, key, cmd) ==
  LET stale == {p \in d.ours : p[2] # cmd}
      free == holders(d, key) = <<>>
  IN  {Result(d, d.ours \ gone, FALSE) : gone \in SUBSET stale}
      \cup {Result(d, {<<key, cmd>>}, read) : read \in IF free THEN BOOLEAN ELSE {}}
      \cup {Result(d, {}, FALSE) : x \in IF free THEN {} ELSE {1}}

\* XfconfActivation::bind: the new entry takes the place of any command on its key,
\* and then the old ones are reset, one by one.
bind_xfce(d, key, cmd) ==
  LET set == [d EXCEPT !.theirs.custom = @ \ {key}]
      stale == {p \in d.ours : p[1] # key}
  IN  {Result(d, d.ours, FALSE)}
      \cup {Result(set, {<<key, cmd>>} \cup left, left = {}) : left \in SUBSET stale}

bind(d, key, cmd) ==
  CASE d.kind = "gnome" -> bind_gnome(d, key, cmd)
    [] d.kind = "kde" -> bind_kde(d, key, cmd)
    [] OTHER -> bind_xfce(d, key, cmd)

\* release: the key is taken from a list of keys, or the custom shortcut of GNOME
\* loses the one it has by now.
release(d, holder, key) ==
  {[desk |-> d, ok |-> FALSE],
   [desk |-> [d EXCEPT !.theirs[holder] =
                IF d.kind = "gnome" /\ holder = "custom" THEN {} ELSE @ \ {key}],
    ok |-> TRUE]}

-----------------------------------------------------------------------------
\* ShortcutControl, run on the main loop: each of its callbacks is one step.

\* What a callback leaves; lapsed if a key did not follow its daemon, told if the
\* toast of a failure was shown, blind if the key shown is not one that was answered,
\* guessed if anything was decided on with no answer.
Left(d, c, lapsed, blind) ==
  [desk |-> d, ctl |-> c, lapsed |-> lapsed, told |-> FALSE, blind |-> blind,
   guessed |-> blind]

\* refresh, up to the default key: show what there is, and make a key that was set
\* up for another daemon follow this one; that it cannot is not said.
Redraw(d, v, c) ==
  UNION {LET shown == [c EXCEPT !.state = s.state]
         IN  IF s.state \in Keys /\ s.command # command(v)
             THEN {Left(r.desk, shown, ~r.ok, ~s.known) : r \in bind(d, s.state, command(v))}
             ELSE {Left(d, shown, FALSE, ~s.known)} : s \in observe(d, v)}

\* install: bind, say so if it failed, and refresh.  The default is not pending:
\* it is decided as soon as a daemon is seen, and a key is captured only then.
install(d, v, c, key) ==
  UNION {{[x EXCEPT !.told = ~r.ok] : x \in Redraw(r.desk, v, [c EXCEPT !.failed = @ \/ ~r.ok])} :
           r \in bind(d, key, command(v))}

\* refresh.
refresh(d, v, c) ==
  IF ~c.default_pending THEN Redraw(d, v, c)
  ELSE UNION {LET what == default_key(r.ctl.state, found.held = <<>>)
                  decided == [r.ctl EXCEPT !.default_pending = FALSE]
              IN  CASE what = "Wait" -> {r}
                    [] what = "Leave" -> {[r EXCEPT !.ctl = decided]}
                    [] what = "Install" ->
                         {[x EXCEPT !.guessed = @ \/ r.guessed \/ ~found.known] :
                            x \in install(r.desk, v, decided, Default)} :
              r \in Redraw(d, v, c), found \in conflicts(d, Default)}

\* The step that leaves r.  The desktop tells of what was written.  History: keys
\* others lost in this step though the desktop was asked who has them, and those that
\* the user agreed to; the key that was installed, a key that did not follow its
\* daemon, and one of Myna's that was lost otherwise with no failure shown, or
\* replaced unasked.
Takes(d, e) ==
  UNION {{<<h, k>> : k \in d.theirs[h] \ e.theirs[h]} : h \in DOMAIN d.theirs}
KeysOf(d) == {p[1] : p \in d.ours}
Step(r, mine, agreed) ==
  /\ desk' = r.desk /\ ctl' = r.ctl
  /\ past' = [past EXCEPT !.agreed = agreed,
                          !.taken = IF r.guessed THEN {} ELSE Takes(desk, r.desk),
                          !.mine = IF mine \in KeysOf(r.desk) /\ ~r.guessed THEN mine ELSE @,
                          !.lapsed = r.lapsed \/ (@ /\ r.desk.ours = desk.ours),
                          !.blind = r.blind,
                          !.lost = @ \/ (/\ desk.ours # {} /\ ~r.told
                                         /\ \/ r.desk.ours = {} /\ ~r.lapsed
                                            \/ /\ mine = None /\ agreed = {} /\ ~r.guessed
                                               /\ ~(KeysOf(r.desk) \subseteq KeysOf(desk)))]
Heard(v, r) == prox' = [v EXCEPT !.due = @ \/ r.desk.ours # desk.ours]

\* The proxy was made, or tells of the daemon's name and properties.
ProxyTells ==
  LET v == [prox EXCEPT !.made = TRUE, !.up = dmn.up, !.legacy = dmn.up /\ dmn.legacy,
                        !.news = FALSE]
  IN  /\ prox.news
      /\ \E r \in refresh(desk, v, ctl) : Step(r, None, {}) /\ Heard(v, r)
      /\ UNCHANGED <<dmn, ask>>

\* The watch on the desktop's shortcuts.
Watched ==
  LET v == [prox EXCEPT !.due = FALSE]
  IN  /\ prox.due
      /\ \E r \in refresh(desk, v, ctl) : Step(r, None, {}) /\ Heard(v, r)
      /\ UNCHANGED <<dmn, ask>>

\* install_default: setup is finished.  The wizard does not finish over a capture.
install_default ==
  /\ ~ctl.capture /\ ~ctl.default_pending
  /\ \E r \in refresh(desk, prox, [ctl EXCEPT !.default_pending = TRUE, !.failed = FALSE]) :
       Step(r, None, {}) /\ Heard(prox, r)
  /\ UNCHANGED <<dmn, ask>>

Ended(c) == [c EXCEPT !.capture = FALSE, !.refusal = FALSE, !.asking = FALSE]

\* activate, Cancel and leaving the page.  The question is modal.
activate ==
  /\ ask = NoQuestion
  /\ CASE button_action(ctl.state, ctl.capture) = "Capture" ->
            ctl' = [ctl EXCEPT !.capture = TRUE, !.refusal = FALSE, !.asking = FALSE]
       [] button_action(ctl.state, ctl.capture) = "CancelCapture" -> ctl' = Ended(ctl)
       [] OTHER -> FALSE
  /\ UNCHANGED <<desk, dmn, prox, ask, past>>

\* What claim's callback does.
then(c, taken) ==
  IF taken \/ c.failed THEN Ended([c EXCEPT !.failed = FALSE]) ELSE [c EXCEPT !.asking = FALSE]

Bound(d, key) == \E p \in d.ours : p[1] = key

\* press with claim: a reserved key is refused, a free one installed, and for one
\* that another shortcut holds the user is asked, about the first that does.
press(key) ==
  \E found \in conflicts(desk, key) :
    LET fresh == [ctl EXCEPT !.refusal = FALSE, !.asking = TRUE, !.failed = FALSE] IN
    /\ ctl.capture /\ ~ctl.asking
    /\ \/ /\ found.held # <<>> /\ found.held[1] = "static"
          /\ ctl' = [ctl EXCEPT !.refusal = TRUE]
          /\ UNCHANGED <<desk, prox, ask, past>>
       \/ /\ found.held # <<>> /\ found.held[1] # "static"
          /\ ctl' = fresh
          /\ ask' = [NoQuestion EXCEPT !.key = key, !.holder = found.held[1]]
          /\ past' = [past EXCEPT !.taken = {}, !.agreed = {}, !.raced = FALSE,
                                  !.several = Len(found.held) > 1]
          /\ UNCHANGED <<desk, prox>>
       \/ /\ found.held = <<>>
          /\ \E r \in install(desk, prox, fresh, key) :
               /\ Step([r EXCEPT !.ctl = then(r.ctl, ~r.ctl.failed),
                                 !.guessed = @ \/ ~found.known],
                       IF r.ctl.failed THEN None ELSE key, {})
               /\ Heard(prox, r)
          /\ UNCHANGED ask
    /\ UNCHANGED dmn

\* claim's answer: replace, then install; its callback waits until the alert closed.
Answer(response) ==
  LET Done(r) ==
        LET taken == response = "replace" /\ ~r.ctl.failed
        IN  /\ ask' = IF ask.closed THEN NoQuestion
                      ELSE [ask EXCEPT !.answer = IF taken THEN "taken" ELSE "not"]
            /\ Step([r EXCEPT !.ctl = IF ask.closed THEN then(r.ctl, taken) ELSE r.ctl],
                    IF taken /\ ~past.several /\ ~past.raced THEN ask.key ELSE None,
                    IF response = "replace" THEN {<<ask.holder, ask.key>>} ELSE {})
            /\ Heard(prox, r)
  IN  /\ ask.key # None /\ ask.answer = None
      /\ IF response = "cancel" THEN Done(Left(desk, ctl, past.lapsed, past.blind))
         ELSE \E q \in release(desk, ask.holder, ask.key) :
                IF q.ok THEN \E r \in install(q.desk, prox, ctl, ask.key) : Done(r)
                ELSE Done(Left(desk, [ctl EXCEPT !.failed = TRUE], past.lapsed, past.blind))
      /\ UNCHANGED dmn

AlertCloses ==
  /\ ask.key # None /\ ~ask.closed
  /\ \/ ask.answer = None /\ ask' = [ask EXCEPT !.closed = TRUE] /\ UNCHANGED ctl
     \/ ask.answer # None /\ ask' = NoQuestion /\ ctl' = then(ctl, ask.answer = "taken")
  /\ UNCHANGED <<desk, dmn, prox, past>>

-----------------------------------------------------------------------------
\* The daemon, the desktop's settings.

DaemonChanges ==
  /\ dmn.changes < MaxRebinds
  /\ \E up, legacy \in BOOLEAN :
       /\ <<up, legacy>> # <<dmn.up, dmn.legacy>>
       /\ dmn' = [up |-> up, legacy |-> legacy, changes |-> dmn.changes + 1]
  /\ prox' = [prox EXCEPT !.news = TRUE]
  /\ UNCHANGED <<desk, ctl, ask, past>>

Elsewhere(d) ==
  /\ dmn.changes < MaxRebinds
  /\ dmn' = [dmn EXCEPT !.changes = @ + 1]
  /\ desk' = d
  /\ prox' = [prox EXCEPT !.due = @ \/ d.ours # desk.ours]
  /\ past' = [past EXCEPT !.raced = TRUE, !.mine = None,
                          !.lapsed = @ /\ d.ours = desk.ours]
  /\ UNCHANGED <<ctl, ask>>

\* Plasma and Xfce keep a key (of a command) with one holder.
Free(key) ==
  /\ desk.kind = "kde" => \A h \in DOMAIN desk.theirs : key \notin desk.theirs[h]
  /\ desk.kind # "gnome" => ~Bound(desk, key) /\ key \notin desk.theirs.custom

OursRebound ==
  \/ desk.ours # {} /\ Elsewhere([desk EXCEPT !.ours = {}])
  \/ \E p \in desk.ours, k \in Keys :
       Free(k) /\ Elsewhere([desk EXCEPT !.ours = {<<k, p[2]>>}])

TheirsRebound ==
  \E h \in {"system", "custom"} :
    \/ desk.theirs[h] # {} /\ Elsewhere([desk EXCEPT !.theirs[h] = {}])
    \/ \E k \in Keys \ desk.theirs[h] :
         Free(k) /\ Elsewhere([desk EXCEPT !.theirs[h] = {k}])

ShortcutNext ==
  \/ ProxyTells \/ Watched \/ install_default \/ activate
  \/ \E key \in Keys : press(key)
  \/ \E response \in {"replace", "cancel"} : Answer(response)
  \/ AlertCloses \/ DaemonChanges \/ OursRebound \/ TheirsRebound

-----------------------------------------------------------------------------
\* Types.
TypeOK ==
  /\ desk.ours \subseteq Keys \X {"old", "new"}
  /\ ctl.state \in Keys \cup {"NotRunning", "Unbound"}
  /\ ask.key \in Keys \cup {None} /\ (ctl.asking <=> ask # NoQuestion)

\* No other shortcut loses a key that the user did not agree to take from it, unless
\* the desktop's settings changed under the question, or the desktop did not answer
\* who holds the key: it is then installed over any holder that it can take it from.
NothingTaken == past.taken \subseteq past.agreed \/ (past.raced /\ past.agreed # {})

\* A key that was installed is Myna's alone, unless several held it: the user was
\* asked about one of them; or the desktop did not answer who did.
OneHolder ==
  past.mine # None /\ Bound(desk, past.mine) => holders(desk, past.mine) = <<>>

\* When nothing is left to hear, the key shown is the desktop's, and it runs what
\* the daemon there is takes, unless the desktop refused that; or the desktop did not
\* answer when it was last asked for the key: none is shown.
ShownIsBound ==
  ~prox.news /\ ~prox.due /\ ~past.blind =>
    \E s \in entry(desk, dmn) :
       /\ ctl.state = s.state
       /\ s.state \in Keys => s.command = command(dmn) \/ past.lapsed

\* No entry of Myna's runs what the daemon there is takes.
Outdated == desk.ours # {} /\ \A p \in desk.ours : p[2] # command(dmn)

\* A key that Myna loses itself is told as a failure, but for one that could not
\* follow its daemon; and the default takes the place of no key that there is, unless
\* the desktop did not answer when it was asked for that.
KeptOrTold == ~past.lost
=============================================================================
