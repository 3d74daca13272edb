--------------------------- MODULE TriggerMachine ---------------------------
(***************************************************************************)
(* The trigger in the hands of a user who taps and holds the hotkey on a   *)
(* desktop that repeats held keys.  What the desktop and the user do is    *)
(* taken from the measurements beside REPEAT_QUIET and REPEAT_FOLLOW: the  *)
(* first repeat comes a "near" gap after the press, the others a "repeat"  *)
(* gap apart, a key held into its repeats repeats at least twice, and no   *)
(* one presses again within a "repeat" gap.                                *)
(***************************************************************************)
EXTENDS Trigger

CONSTANTS MaxPresses,  \* bound: presses in a run
          MaxRepeats   \* bound: repeats of one press

VARIABLES down,     \* the key is held
          repeats,  \* repeats of the last press so far
          presses,  \* presses so far
          edges,    \* edges delivered so far
          dropped   \* the backlog dropped a poke at some time
keyVars == <<down, repeats, presses>>
vars == <<triggerVars, keyVars, edges, dropped>>

Init == /\ TriggerInit
        /\ down = FALSE /\ repeats = 0 /\ presses = 0 /\ edges = 0 /\ dropped = FALSE

Poked == poke /\ dropped' = (dropped \/ missed') /\ UNCHANGED edges

PressKey ==
  /\ ~down /\ presses < MaxPresses /\ since # "repeat"
  /\ Poked
  /\ down' = TRUE /\ repeats' = 0 /\ presses' = presses + 1

RepeatKey ==
  /\ down /\ repeats < MaxRepeats
  /\ since = IF repeats = 0 THEN "near" ELSE "repeat"
  /\ Poked
  /\ repeats' = repeats + 1 /\ UNCHANGED <<down, presses>>

LiftKey ==
  /\ down /\ repeats # 1
  /\ down' = FALSE /\ UNCHANGED <<triggerVars, repeats, presses, edges, dropped>>

\* A key in its repeats leaves no longer gap while it is held.
Wait == TimePasses /\ ~(down /\ repeats > 0) /\ UNCHANGED <<keyVars, edges, dropped>>

ReadEdge == EdgeRead /\ edges' = edges + 1 /\ UNCHANGED <<keyVars, dropped>>
Filter == NoEdgeYet /\ UNCHANGED <<keyVars, edges, dropped>>

Next == PressKey \/ RepeatKey \/ LiftKey \/ Wait \/ ReadEdge \/ Filter

-----------------------------------------------------------------------------
\* Types, with the bound of the backlog.
TypeOK ==
  /\ TriggerTypeOK
  /\ down \in BOOLEAN /\ dropped \in BOOLEAN
  /\ repeats \in 0..MaxRepeats /\ presses \in 0..MaxPresses /\ edges \in Nat

\* A repeat is never taken for a press, however late the controller reads the
\* pokes and however they were interleaved with other presses.
NoGhostEdge == ~dropped => edges <= presses

\* Every poke is decided: none waits for another one to come.
Decided == Waiting = <<>> /\ ~candidate

\* No press is taken for a repeat: when nothing is left to decide, there has
\* been one edge for each press.
OneEdgePerPress == ~dropped /\ Decided => edges = presses
=============================================================================
