---------------------------- MODULE Preferences ----------------------------
(***************************************************************************)
(* A row of the Myna page (client/myna-config: myna_settings.rs, the rows  *)
(* of app.rs, list_editor_ui.rs and adapters/client_settings.rs): the user *)
(* edits it, a thread of its own saves it to the settings file, other      *)
(* programs write the same file, and the page's own store hears of every   *)
(* change by watching the file.                                            *)
(*                                                                         *)
(* A row is one of two kinds: a text that is saved once the typing pauses, *)
(* or the mode, which shows what the active backend does while the file    *)
(* has no value.  A number, a switch, a list and any other choice are a    *)
(* mode that always has a value.  The main loop runs one handler at a      *)
(* time; the writer's thread is in between its steps anywhere.             *)
(***************************************************************************)
EXTENDS Naturals, Sequences

CONSTANTS Texts,        \* what can be typed; "" is the schema's default
          MaxEdits,     \* bound: edits by the user
          MaxElsewhere  \* bound: writes by other programs, and writes that fail

VARIABLES
  kind,    \* of the row: "text" or "mode"
  disk,    \* the settings file: the value (or Unset), and who wrote it
  seen,    \* the page's copy of it
  row,     \* SettingRow: value, user_set, pending
  gate,    \* PersistenceGate: revision, persisted
  echoes,  \* observed_echoes and expected_echoes of the key
  field,   \* the widget: shown, committed, and the text that waits for its timer
  saves,   \* the writer's channel, the request in its hands, and where it is
  results, \* what the futures that wait for a request are about to complete with
  live,    \* the page is open; whether the active backend streams, or may; edits; others' writes
  hist     \* history: what the user wants saved, a row that others led astray, and
           \* others' writes and failures since the row was last at rest

preferencesVars ==
  <<kind, disk, seen, row, gate, echoes, field, saves, results, live, hist>>

Unset == "unset"
None == "none"
Modes == {"batch", "streaming"}
Values == IF kind = "mode" THEN Modes ELSE Texts

\* value_from_variant of the key's value: the schema's default when it has none.
Value(stored) ==
  IF stored # Unset THEN stored ELSE IF kind = "mode" THEN "streaming" ELSE ""

\* effective_mode without a user's value; a backend that nobody could ask streams.
backend_mode(streams) == IF streams THEN "streaming" ELSE "batch"

shown_value(r, streams) ==
  IF kind = "mode" /\ ~r.user_set THEN backend_mode(streams) ELSE r.value

\* MynaSettingsController::load and the row made for it.
PreferencesInit ==
  /\ kind \in {"text", "mode"}
  /\ disk = [value |-> Unset, by |-> "others"]
  /\ seen = Unset
  /\ row = [value |-> Value(Unset), user_set |-> FALSE, pending |-> FALSE]
  /\ gate = [revision |-> 0, persisted |-> Value(Unset)]
  /\ echoes = [observed |-> 0, expected |-> <<>>]
  /\ field = [shown |-> shown_value(row, TRUE), committed |-> Value(Unset), typed |-> None]
  /\ saves = [queue |-> <<>>, at |-> "recv"]
  /\ results = {}
  /\ live = [open |-> TRUE, streams |-> TRUE, edits |-> 0, elsewhere |-> 0]
  /\ hist = [want |-> None, astray |-> FALSE, crossed |-> FALSE]

\* Nothing is on its way between the row and the file.
Quiet == saves.queue = <<>> /\ results = {} /\ disk.value = seen

-----------------------------------------------------------------------------
\* The controller.

\* RowBinding::apply: the row shows the value, and forgets what was being typed.
\* With the page gone nothing observes.
apply(f, v) ==
  IF live.open THEN [shown |-> v, committed |-> v, typed |-> None] ELSE f

\* update_row with its RowChanged.  Text that was being typed is gone with it.
update_row(r) ==
  /\ row' = r
  /\ field' = apply(field, shown_value(r, live.streams))

\* MynaSettingsController::set, and persist_request's submit.
set(v) ==
  LET revision == gate.revision + 1 IN
  /\ gate' = [gate EXCEPT !.revision = revision]
  /\ row' = [value |-> v, user_set |-> TRUE, pending |-> TRUE]
  /\ saves' = [saves EXCEPT !.queue = Append(@, [revision |-> revision, value |-> v])]

\* A row that is not text: connect_selected_notify, connect_active_notify,
\* connect_value_notify and the list's commit.
Choose(v) ==
  /\ kind = "mode" /\ live.open /\ live.edits < MaxEdits /\ v # field.shown
  /\ set(v)
  /\ field' = apply(field, v)
  /\ live' = [live EXCEPT !.edits = @ + 1]
  /\ hist' = [hist EXCEPT !.want = v, !.astray = FALSE, !.crossed = @ /\ ~Quiet]
  /\ UNCHANGED <<kind, disk, seen, echoes, results>>

\* connect_changed with DebouncedTextCommit::changed: the timer of an earlier
\* edit is removed, so that its revision never differs from the text's.
Type(v) ==
  /\ kind = "text" /\ live.open /\ live.edits < MaxEdits /\ v # field.shown
  /\ field' = [field EXCEPT !.shown = v, !.typed = IF v = field.committed THEN None ELSE v]
  /\ live' = [live EXCEPT !.edits = @ + 1]
  /\ hist' = [hist EXCEPT !.want = IF v = field.committed /\ ~row.pending THEN None ELSE v,
                          !.crossed = @ /\ ~Quiet]
  /\ UNCHANGED <<kind, disk, seen, row, gate, echoes, saves, results>>

\* The pause is over, or the user pressed Apply before it was.
Commit ==
  /\ live.open /\ field.typed # None
  /\ set(field.typed)
  /\ field' = apply(field, field.typed)
  /\ hist' = [hist EXCEPT !.astray = FALSE]
  /\ UNCHANGED <<kind, disk, seen, echoes, results, live>>

\* The window is closed: RowBinding::drop flushes what waits for its timer.  The
\* futures hold the application until they are through.
Close ==
  /\ live.open
  /\ live' = [live EXCEPT !.open = FALSE]
  /\ IF field.typed = None THEN UNCHANGED <<row, gate, saves>> ELSE set(field.typed)
  /\ field' = [field EXCEPT !.typed = None]
  /\ hist' = IF field.typed = None THEN hist ELSE [hist EXCEPT !.astray = FALSE]
  /\ UNCHANGED <<kind, disk, seen, echoes, results>>

set_backend_streams(streams) ==
  /\ kind = "mode" /\ streams # live.streams
  /\ live' = [live EXCEPT !.streams = streams]
  /\ field' = apply(field, shown_value(row, streams))
  /\ UNCHANGED <<kind, disk, seen, row, gate, echoes, saves, results, hist>>

\* What the user typed since the save began is erased with the row's update.
Erases == field.typed # None /\ live.open

\* Mutant: only the end of the last save says which echo to expect.
ExpectEcho_OnlyLast(r) ==
  IF r.result = "written" /\ gate.revision = r.revision
  THEN [observed |-> 0,
        expected |-> IF echoes.observed = r.revision THEN echoes.expected
                     ELSE Append(echoes.expected, r.value)]
  ELSE echoes

\* A completion that is not of the last revision only says which echo to expect,
\* and that only while a newer save of ours is under way.
ExpectEcho(r) ==
  LET current == gate.revision = r.revision IN
  IF r.result = "written" /\ (current \/ row.pending)
  THEN [observed |-> 0,
        expected |-> IF echoes.observed = r.revision THEN echoes.expected
                     ELSE Append(echoes.expected, r.value)]
  ELSE echoes

complete(r) ==
  /\ r \in results
  /\ results' = results \ {r}
  /\ echoes' = ExpectEcho(r)
  /\ \/ /\ gate.revision # r.revision \/ r.result = "superseded"
        /\ UNCHANGED <<row, field, hist>>
     \/ /\ gate.revision = r.revision /\ r.result = "written"
        /\ update_row([row EXCEPT !.value = r.value, !.pending = FALSE])
        /\ hist' = [hist EXCEPT !.want = IF Erases THEN None ELSE @]
     \/ /\ gate.revision = r.revision /\ r.result = "failed"  \* and SaveFailed tells the user
        /\ update_row([value |-> gate.persisted, user_set |-> seen # Unset,
                       pending |-> FALSE])
        /\ hist' = [hist EXCEPT !.want = None,
                    !.astray = disk.by = "others" /\ gate.persisted # Value(disk.value)]
  /\ UNCHANGED <<kind, disk, seen, gate, saves, live>>

\* The file holds an earlier save of ours than the one that is pending, and the page
\* has not been told of its end, or was led astray about it on the way.
Overtakes ==
  /\ row.pending /\ disk.by = "us"
  /\ \/ saves.at = "written" \/ hist.crossed
     \/ \E r \in results : r.result = "written" /\ r.value = disk.value

\* The watch on the file: it is read, and apply_external is called if the key's
\* value is another one.  Two writes close together are heard as one.
apply_external ==
  LET value == Value(disk.value)
      echo == {i \in 1..Len(echoes.expected) : echoes.expected[i] = value}
      own == row.pending /\ row.value = value IN
  /\ disk.value # seen
  /\ seen' = disk.value
  /\ \/ \E i \in echo :  \* consume_expected_echo
        /\ \A j \in echo : i <= j
        /\ echoes' = [echoes EXCEPT !.expected =
                        SubSeq(@, 1, i - 1) \o SubSeq(@, i + 1, Len(@))]
        /\ UNCHANGED <<row, gate, field>>
        /\ hist' = [hist EXCEPT !.astray = \/ @ \/ disk.by = "others"
                                           \/ ~row.pending /\ row.value # value]
     \/ /\ echo = {} /\ own
        /\ echoes' = [echoes EXCEPT !.observed = gate.revision]
        /\ UNCHANGED <<row, gate, field>>
        /\ hist' = [hist EXCEPT !.astray = @ \/ disk.by = "others"]
     \/ /\ echo = {} /\ ~own
        /\ gate' = [revision |-> gate.revision + 1, persisted |-> value]
        /\ update_row([value |-> value, user_set |-> disk.value # Unset, pending |-> FALSE])
        /\ UNCHANGED echoes
        /\ hist' = [want |-> IF Erases \/ disk.by = "others" \/ Overtakes
                             THEN None ELSE hist.want,
                    astray |-> FALSE, crossed |-> hist.crossed \/ Overtakes]
  /\ UNCHANGED <<kind, disk, saves, results, live>>

-----------------------------------------------------------------------------
\* The writer's thread: PersistenceWriter::spawn, PersistenceRequest::persist.

Reply(result) ==
  /\ results' = results \cup {[revision |-> Head(saves.queue).revision,
                               value |-> Head(saves.queue).value, result |-> result]}
  /\ saves' = [queue |-> Tail(saves.queue), at |-> "recv"]

\* A request that is no longer the last one is left unwritten.
CheckRevision ==
  /\ saves.at = "recv" /\ saves.queue # <<>>
  /\ IF gate.revision # Head(saves.queue).revision
     THEN Reply("superseded")
     ELSE saves' = [saves EXCEPT !.at = "checked"] /\ UNCHANGED results
  /\ UNCHANGED <<kind, disk, seen, row, gate, echoes, field, live, hist>>

Write ==
  /\ saves.at = "checked"
  /\ disk' = [value |-> Head(saves.queue).value, by |-> "us"]
  /\ saves' = [saves EXCEPT !.at = "written"]
  /\ UNCHANGED <<kind, seen, row, gate, echoes, field, results, live, hist>>

WriteFails ==
  /\ saves.at = "checked" /\ live.elsewhere < MaxElsewhere
  /\ live' = [live EXCEPT !.elsewhere = @ + 1]
  /\ Reply("failed")
  /\ hist' = [hist EXCEPT !.crossed = TRUE]
  /\ UNCHANGED <<kind, disk, seen, row, gate, echoes, field>>

RecordPersisted ==
  /\ saves.at = "written"
  /\ gate' = [gate EXCEPT !.persisted = Head(saves.queue).value]
  /\ Reply("written")
  /\ UNCHANGED <<kind, disk, seen, row, echoes, field, live, hist>>

\* myna.config set and reset, or a second window.
WrittenElsewhere ==
  /\ live.elsewhere < MaxElsewhere
  /\ \E v \in (Values \cup {Unset}) \ {disk.value} :
       /\ disk' = [value |-> v, by |-> "others"]
       /\ hist' = [hist EXCEPT !.want = None, !.astray = @ \/ v = seen, !.crossed = TRUE]
  /\ live' = [live EXCEPT !.elsewhere = @ + 1]
  /\ UNCHANGED <<kind, seen, row, gate, echoes, field, saves, results>>

PreferencesNext ==
  \/ \E v \in Values : Choose(v) \/ Type(v)
  \/ Commit \/ Close
  \/ \E streams \in BOOLEAN : set_backend_streams(streams)
  \/ \E r \in results : complete(r)
  \/ apply_external
  \/ CheckRevision \/ Write \/ WriteFails \/ RecordPersisted
  \/ WrittenElsewhere

-----------------------------------------------------------------------------
TypeOK ==
  /\ disk.value \in Values \cup {Unset} /\ disk.by \in {"us", "others"}
  /\ seen \in Values \cup {Unset}
  /\ row \in [value : Values, user_set : BOOLEAN, pending : BOOLEAN]
  /\ gate.revision \in 0..(MaxEdits + MaxElsewhere + MaxEdits) /\ gate.persisted \in Values
  /\ field.shown \in Values /\ field.typed \in Values \cup {None}
  /\ saves.at \in {"recv", "checked", "written"}

\* A row at rest is the file's, and shows what it is, except for a write by another
\* program that was taken for the echo of one of ours or fell between a save and its failure.
RowIsStored ==
  Quiet =>
    /\ ~row.pending
    /\ hist.astray \/ row.value = Value(disk.value)
    /\ live.open /\ field.typed = None => field.shown = shown_value(row, live.streams)

\* What the user chose or typed last is on file once the row is at rest, unless the
\* user was told that it was not saved, others wrote, the row's update erased what was
\* being typed, or an earlier save of ours was heard of on file before the page learnt
\* of its end (or over a failure or others' writes on the way): that cancels the newer
\* one.  After its end, however late, it cancels none.
EditIsStored ==
  Quiet /\ ~hist.astray /\ field.typed = None /\ hist.want # None =>
    Value(disk.value) = hist.want
=============================================================================
