-------------------------------- MODULE Pill --------------------------------
(***************************************************************************)
(* What the HUD has on screen (client/myna-hud: states.rs, notice_slot.rs, *)
(* pill.rs and window.rs), told one pair of a state and its label after    *)
(* the other (HudBus).  Fades and maps are callbacks of the GTK thread     *)
(* that come later, as is the end of a notice's hold.                      *)
(***************************************************************************)
CONSTANT Visible  \* the states that are shown, "notice" and "error" among them

VARIABLES
  given, \* the state applied last
  pill,  \* the state the pill shows, the clock of its notice, a timer at its end
  win    \* HudWindow: mapped, pending_hidden, and the callbacks to come;
         \* unmapped against what it was told, and not mapped since (history)

PillInit ==
  /\ given = "idle"
  /\ pill = [shows |-> "idle", clock |-> "none", due |-> FALSE]
  /\ win = [mapped |-> FALSE, pending_hidden |-> TRUE, fade |-> FALSE, late |-> FALSE,
            mapping |-> FALSE, cut |-> FALSE]

-----------------------------------------------------------------------------
\* NoticeSlot::is_showing.  An error has no clock that runs out; "ending" is the
\* last fraction of a millisecond of a notice, which the timer's delay leaves off.
is_showing == pill.clock \in {"never", "running", "ending"}

\* NoticeSlot::hold, or its clear.
hold(state) ==
  CASE state = "notice" -> "running"
    [] state = "error" -> "never"
    [] OTHER -> "none"

set_hidden_faded(hidden) ==
  win' = IF hidden
         THEN [win EXCEPT !.pending_hidden = TRUE, !.fade = @ \/ win.mapped]
         ELSE [win EXCEPT !.pending_hidden = FALSE, !.mapping = @ \/ ~win.mapped]

\* The pill keeps a notice through an idle until its clock runs out; the window
\* is hidden all the same.  The same state comes again with another label.
apply_descriptor(state) ==
  /\ given' = state
  /\ pill' = IF state = "idle" /\ is_showing
             THEN [pill EXCEPT !.due = @ \/ pill.clock # "never"]
             ELSE [shows |-> state, clock |-> hold(state), due |-> FALSE]
  /\ set_hidden_faded(state = "idle")

\* The daemon's setting changes the indicator's style: the pill, not the window, is
\* told once more what it shows, and a notice's hold starts again.
set_hud_style ==
  /\ pill' = [pill EXCEPT !.clock = hold(pill.shows), !.due = FALSE]
  /\ UNCHANGED <<given, win>>

HoldPasses ==
  /\ pill.clock \in {"running", "ending"}
  /\ pill' = [pill EXCEPT !.clock = IF @ = "running" THEN "ending" ELSE "over"]
  /\ UNCHANGED <<given, win>>

\* The timer of that idle, unless the notice was replaced: what it applies is kept
\* off by is_showing once more, and the window is unmapped after the fade.
HoldDue ==
  /\ pill.due /\ pill.clock \in {"ending", "over"}
  /\ pill' = [pill EXCEPT !.due = is_showing]
  /\ win' = [win EXCEPT !.late = @ \/ is_showing]
  /\ UNCHANGED given

\* The callbacks: the end of the window's fade, the end of the pill's, which asks
\* nothing, and the map of a window that is to be shown.
Faded ==
  /\ win.fade
  /\ win' = [win EXCEPT !.fade = FALSE, !.mapped = @ /\ ~win.pending_hidden]
  /\ UNCHANGED <<given, pill>>

FadedLate ==
  /\ win.late
  /\ win' = [win EXCEPT !.late = FALSE, !.mapped = FALSE,
                        !.cut = @ \/ (win.mapped /\ ~win.pending_hidden)]
  /\ UNCHANGED <<given, pill>>

map_faded ==
  /\ win.mapping
  /\ win' = [win EXCEPT !.mapping = FALSE, !.mapped = @ \/ ~win.pending_hidden,
                        !.cut = @ /\ win.pending_hidden]
  /\ UNCHANGED <<given, pill>>

PillNext ==
  \/ \E state \in Visible \cup {"idle"} : apply_descriptor(state)
  \/ set_hud_style \/ HoldPasses \/ HoldDue \/ Faded \/ FadedLate \/ map_faded

-----------------------------------------------------------------------------
\* What the HUD's window promises: what it is told to show is on screen, and
\* nothing else is.

\* Types.
TypeOK ==
  /\ given \in Visible \cup {"idle"} /\ pill.shows \in Visible \cup {"idle"}
  /\ pill.clock \in {"none", "never", "running", "ending", "over"}
  /\ pill.due => pill.clock \in {"running", "ending", "over"}

\* With no callback to come, a window on screen is one that was told to show, and
\* the pill in it shows what it was told; and one that was told to is on screen,
\* but for what the late end of a notice's hold took from it.
NoStrayPill ==
  /\ win.mapped /\ ~win.fade => given # "idle" /\ pill.shows = given
  /\ given # "idle" => win.mapped \/ win.mapping \/ win.cut

\* The notice that the pill holds stays on screen until its clock runs out.
NoticeHeld == pill.clock = "running" => ~win.pending_hidden
=============================================================================
