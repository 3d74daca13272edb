------------------------------ MODULE Trigger -------------------------------
(***************************************************************************)
(* ControlTrigger (client/myna-desktop/src/shortcut/control.rs): pokes of  *)
(* the hotkey become alternating Press and Release edges, and a held key's *)
(* repeats become none.  Times are abstracted to how they compare with     *)
(* REPEAT_FOLLOW and the quiet period: a gap is "repeat" (below            *)
(* REPEAT_FOLLOW), "near" (below quiet) or "far" (anything longer).        *)
(*                                                                         *)
(* rx         the gaps of the pokes queued, oldest first                   *)
(* missed     the newest poke was dropped by the full backlog              *)
(* since      how long ago the newest poke was                             *)
(* pressed, candidate, later, streaming   the fields of those names        *)
(***************************************************************************)
EXTENDS Integers, Sequences

CONSTANT Backlog  \* BACKLOG
ASSUME BacklogAssumption == Backlog \in Nat \ {0}

VARIABLES rx, missed, since, pressed, candidate, later, streaming

arrivalVars == <<missed, since>>
triggerVars == <<rx, arrivalVars, pressed, candidate, later, streaming>>

Gaps == {"repeat", "near", "far"}

TriggerInit ==
  /\ rx = <<>> /\ missed = FALSE /\ since = "far"
  /\ pressed = FALSE /\ candidate = FALSE /\ later = <<>> /\ streaming = FALSE

TriggerTypeOK ==
  /\ rx \in Seq(Gaps) /\ Len(rx) <= Backlog
  /\ later \in Seq(Gaps) /\ Len(later) <= 1
  /\ since \in Gaps
  /\ {missed, pressed, candidate, streaming} \subseteq BOOLEAN

\* Poke::poke: stamped with the gap since the one before; a full backlog
\* drops it, but the next gap is still measured from it.
poke ==
  /\ rx' = IF Len(rx) < Backlog THEN Append(rx, since) ELSE rx
  /\ missed' = (Len(rx) >= Backlog)
  /\ since' = "repeat"
  /\ UNCHANGED <<pressed, candidate, later, streaming>>

TimePasses ==
  /\ since # "far"
  /\ since' = IF since = "repeat" THEN "near" ELSE "far"
  /\ UNCHANGED <<rx, missed, pressed, candidate, later, streaming>>

(***************************************************************************)
(* The iterations of next_edge.  None of them awaits after it has taken a  *)
(* poke, so a caller that drops the call loses nothing.                    *)
(***************************************************************************)
Waiting == later \o rx
TakeArrival ==
  /\ Waiting # <<>>
  /\ later' = <<>>
  /\ rx' = IF later = <<>> THEN Tail(rx) ELSE rx
toggle == pressed' = ~pressed

\* A poke long after the last: a press.
FreshPress ==
  /\ ~candidate /\ TakeArrival /\ Head(Waiting) = "far"
  /\ streaming' = FALSE /\ toggle
  /\ UNCHANGED <<arrivalVars, candidate>>

\* Mutant: while a key repeats, a press close behind is skipped too.
SkipRepeat_Near ==
  /\ ~candidate /\ TakeArrival /\ streaming /\ Head(Waiting) # "far"
  /\ UNCHANGED <<arrivalVars, pressed, candidate, streaming>>

\* Another repeat of the held key.
SkipRepeat ==
  /\ ~candidate /\ TakeArrival /\ streaming /\ Head(Waiting) = "repeat"
  /\ UNCHANGED <<arrivalVars, pressed, candidate, streaming>>

\* A press, unless another poke follows closely.
Consider ==
  /\ ~candidate /\ TakeArrival
  /\ Head(Waiting) # "far" /\ ~(streaming /\ Head(Waiting) = "repeat")
  /\ candidate' = TRUE /\ streaming' = FALSE
  /\ UNCHANGED <<arrivalVars, pressed>>

\* One follows closely: both are repeats.
CandidateRepeats ==
  /\ candidate /\ TakeArrival /\ Head(Waiting) = "repeat"
  /\ candidate' = FALSE /\ streaming' = TRUE
  /\ UNCHANGED <<arrivalVars, pressed>>

\* One follows, not closely: the candidate was a press.
CandidateStands ==
  /\ candidate /\ Waiting # <<>> /\ Head(Waiting) # "repeat"
  /\ later' = <<Head(Waiting)>>
  /\ rx' = IF later = <<>> THEN Tail(rx) ELSE rx
  /\ candidate' = FALSE /\ toggle
  /\ UNCHANGED <<arrivalVars, streaming>>

\* None follows within REPEAT_FOLLOW.  A queued poke is read even when the
\* time is up.  After a dropped poke the candidate is older than since tells.
CandidateTimesOut ==
  /\ candidate /\ Waiting = <<>> /\ (since # "repeat" \/ missed)
  /\ candidate' = FALSE /\ toggle
  /\ UNCHANGED <<rx, arrivalVars, later, streaming>>

EdgeRead == FreshPress \/ CandidateStands \/ CandidateTimesOut
NoEdgeYet == SkipRepeat \/ Consider \/ CandidateRepeats

\* The edge an EdgeRead step delivers: Press, or else Release.
IsPress == ~pressed

\* Mutant: the poke already read ahead survives.
discard_pending_Queue == candidate' = candidate /\ later' = <<>> /\ rx' = <<>>

discard_pending == candidate' = FALSE /\ later' = <<>> /\ rx' = <<>>
resync == pressed' = FALSE
=============================================================================
