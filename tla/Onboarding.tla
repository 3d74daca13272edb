----------------------------- MODULE Onboarding -----------------------------
(***************************************************************************)
(* The setup wizard (client/myna-config/src: onboarding.rs, its rules, and *)
(* onboarding_ui.rs, their callbacks on the GTK thread): what is missing   *)
(* is read, installed by one run under one prompt, followed where somebody *)
(* else installs it, and then set up (what ensure_backend_active does to   *)
(* the connections is Settings).                                           *)
(*                                                                         *)
(* A read is of one moment between its start and its being taken.  A snap  *)
(* can be seen before the change that installs it is done.  Of the two     *)
(* pieces that are the desktop's, the input method is left out (the wizard *)
(* only waits for it).  Closing the wizard is Settings' too.               *)
(***************************************************************************)
EXTENDS Integers, Sequences, FiniteSets

CONSTANTS Snaps,     \* the snaps that are needed: the model, or Myna too
          MaxOdd     \* bound: installs and removals by others, questions not answered

VARIABLES
  mach,     \* the machine: what a reader finds, changes of snapd, bounds used up
  comp,     \* components: what the last read found
  ui,       \* step, busy, running, beat
  installs, \* of each snap: "none", "Running" or "Confirming"
  follower, \* of each snap: of the change that is followed "none", "doing", "Done", "Error"
  reading,  \* refresh_assessment: where it is, whether the epoch moved, what it found
  tail,     \* a read that was taken and now asks for the changes in progress
  run,      \* install_all: where it is, its steps, done
  root,     \* the privileged set-up: none, prompt, doing, installing, Ok, Error
  setup,    \* finish_setup: where it is, what was discovered, whether to pause
  known     \* history: what is there since a step put it there, and no read missed it;
            \* whether this setup and the last were of a whole model (or of one that
            \* was removed meanwhile)

Required == {"UserDaemons"} \cup Snaps
Ids == Required \cup {"StatusSurface"}  \* one out of reach is as good as one that is there

NotReading == [at |-> "none", got |-> {}]
NoTail == [on |-> FALSE, needed |-> FALSE, missing |-> {}]
NoRun == [at |-> "none", steps |-> {}, done |-> {}, got |-> {}]
NoSetup == [at |-> "none", seen |-> {}, waited |-> FALSE, pause |-> FALSE]

OnboardingInit ==
  /\ \E has \in SUBSET Ids :
       /\ has \cap Snaps # {} => "UserDaemons" \in has
       /\ "StatusSurface" \notin has => Snaps \subseteq has  \* bound: it is missing alone
       /\ mach = [has |-> has, changes |-> {}, odd |-> 0]
       /\ comp = has
  /\ ui = [step |-> "Welcome", busy |-> FALSE, running |-> FALSE, beat |-> FALSE]
  /\ installs = [s \in Snaps |-> "none"] /\ follower = [s \in Snaps |-> "none"]
  /\ reading = NotReading /\ tail = NoTail /\ run = NoRun /\ root = "none" /\ setup = NoSetup
  /\ known = [there |-> {}, whole |-> FALSE, setup |-> FALSE]

-----------------------------------------------------------------------------
\* onboarding.rs.  A component is satisfied or missing.

while_installing(found, inst) == found \ {s \in Snaps : inst[s] # "none"}
shown == while_installing(comp, installs)

needs_onboarding(found) == ~(Required \subseteq found)
install_plan(found) == Ids \ found
settled(found) == ~needs_onboarding(found) /\ install_plan(found) = {}
set_up_steps(found, done) == (install_plan(found) \ done) \ {"StatusSurface"}
completes(needed, after) == needed /\ settled(after)
can_advance(step, found) == step = "Components" => ~needs_onboarding(found)
polls(step, found) == step = "Components" /\ needs_onboarding(found)

-----------------------------------------------------------------------------
\* What several callbacks do.

\* Installs that a read confirms are settled by it.
take_reading(found) ==
  /\ comp' = found
  /\ installs' = [s \in Snaps |-> IF installs[s] = "Confirming" THEN "none" ELSE installs[s]]

Reading == [NotReading EXCEPT !.at = "asking"]

\* The epoch moves: what a read under way found is not taken, it is made again.
Outdated == reading' = IF reading.at = "none" THEN reading ELSE Reading

finish_setup(pause) ==
  /\ ui' = [ui EXCEPT !.busy = TRUE, !.running = FALSE]
  /\ setup' = [NoSetup EXCEPT !.at = "check", !.pause = pause]

-----------------------------------------------------------------------------
\* The machine, and others who use it.

StartsElsewhere(s) ==
  /\ mach.odd < MaxOdd /\ "UserDaemons" \in mach.has
  /\ s \notin mach.has \cup mach.changes
  /\ mach' = [mach EXCEPT !.changes = @ \cup {s}, !.odd = @ + 1]
  /\ UNCHANGED <<comp, ui, installs, follower, reading, tail, run, root, setup, known>>

Removed(s) ==
  /\ mach.odd < MaxOdd /\ s \in mach.has \ mach.changes
  /\ mach' = [mach EXCEPT !.has = @ \ {s}, !.odd = @ + 1]
  /\ known' = [known EXCEPT !.there = @ \ {s},
                            !.setup = @ \/ (s = "Model" /\ setup.at = "wait")]
  /\ UNCHANGED <<comp, ui, installs, follower, reading, tail, run, root, setup>>

\* A change makes the snap visible, and ends; a failed one is undone.
Published(s) ==
  /\ s \in mach.changes \ mach.has
  /\ mach' = [mach EXCEPT !.has = @ \cup {s}]
  /\ UNCHANGED <<comp, ui, installs, follower, reading, tail, run, root, setup, known>>

ChangeEnds(s, status) ==
  /\ s \in mach.changes
  /\ mach' = [mach EXCEPT !.changes = @ \ {s},
                          !.has = IF status = "Done" THEN @ \cup {s} ELSE @ \ {s}]
  /\ follower' = [follower EXCEPT ![s] = IF @ = "doing" THEN status ELSE @]
  /\ root' = IF root # "installing" \/ s \notin run.steps THEN root
              ELSE IF status = "Done" THEN "doing" ELSE "Error"
  /\ known' = IF s \in mach.has /\ status = "Error"
              THEN [known EXCEPT !.there = @ \ {s},
                                 !.setup = @ \/ (s = "Model" /\ setup.at = "wait")]
              ELSE known
  /\ UNCHANGED <<comp, ui, installs, reading, tail, run, setup>>

\* The set-up as root: dismissed, or the flag and then one snap after the other,
\* which fails on a snap that another change holds, and in its connect.
Prompted ==
  /\ root = "prompt"
  /\ \/ root' = "Error" /\ UNCHANGED mach
     \/ root' = "doing" /\ mach' = [mach EXCEPT !.has = @ \cup (run.steps \cap {"UserDaemons"})]
  /\ UNCHANGED <<comp, ui, installs, follower, reading, tail, run, setup, known>>

RootStep ==
  LET left == {s \in Snaps \cap run.steps : s \notin mach.has} IN
  /\ root = "doing"
  /\ IF mach.changes \cap run.steps # {} THEN root' = "Error" /\ UNCHANGED mach
     ELSE IF left = {} THEN root' \in {"Ok", "Error"} /\ UNCHANGED mach
     ELSE /\ \E s \in left : mach' = [mach EXCEPT !.changes = @ \cup {s}]
          /\ root' = "installing"
  /\ UNCHANGED <<comp, ui, installs, follower, reading, tail, run, setup, known>>

-----------------------------------------------------------------------------
\* Reads.

Refresh(wanted) ==
  /\ wanted /\ ui.step = "Components" /\ ~ui.busy /\ ~ui.running
  /\ reading.at = "none" /\ reading' = Reading
  /\ UNCHANGED <<mach, comp, ui, installs, follower, tail, run, root, setup, known>>

Poll == Refresh(polls(ui.step, shown))
Focus == Refresh(TRUE)

\* What a read finds, of one moment: a question that is not answered finds nothing.
\* The status surface is this process's to see.
Answers == {mach.has} \cup
  (IF mach.odd < MaxOdd THEN {mach.has \ {id} : id \in Required \cap mach.has} ELSE {})
Finding(found) ==
  /\ mach' = IF found = mach.has THEN mach ELSE [mach EXCEPT !.odd = @ + 1]
  /\ known' = [known EXCEPT !.there = @ \ (mach.has \ found)]

read_machine ==
  /\ reading.at = "asking"
  /\ \E found \in Answers :
       Finding(found) /\ reading' = [at |-> "read", got |-> found]
  /\ UNCHANGED <<comp, ui, installs, follower, tail, run, root, setup>>

\* The read is taken.  The next may begin while this one still asks for the changes
\* in progress (and takes longer: it asks more).
ReadTaken ==
  /\ reading.at = "read" /\ reading' = NotReading /\ take_reading(reading.got)
  /\ ~tail.on
  /\ tail' = [on |-> TRUE, needed |-> needs_onboarding(shown),
              missing |-> IF ~ui.running /\ "UserDaemons" \in comp'
                          THEN Snaps \ while_installing(comp', installs') ELSE {}]
  /\ UNCHANGED <<mach, ui, follower, run, root, setup, known>>

follow_elsewhere(s) == s \in mach.changes \cap tail.missing /\ installs[s] = "none"

\* Installs that others run are followed, if snapd says, and the last piece found
\* begins the setup.
ReadEnds ==
  /\ tail.on /\ tail' = NoTail
  /\ \/ /\ installs' = [s \in Snaps |->
                          IF follow_elsewhere(s) THEN "Running" ELSE installs[s]]
        /\ follower' = [s \in Snaps |->
                          IF follow_elsewhere(s) THEN "doing" ELSE follower[s]]
     \/ UNCHANGED <<installs, follower>>
  /\ IF /\ ui.step = "Components" /\ ~ui.busy /\ ~ui.running
        /\ completes(tail.needed, while_installing(comp, installs'))
     THEN finish_setup(TRUE) ELSE UNCHANGED <<ui, setup>>
  /\ UNCHANGED <<mach, comp, reading, run, root, known>>

\* follow_change: it reports, it ends, or snapd cannot be read for long.
FollowReports(s) ==
  /\ follower[s] = "doing" /\ installs' = [installs EXCEPT ![s] = "Running"]
  /\ UNCHANGED <<mach, comp, ui, follower, reading, tail, run, root, setup, known>>

FollowEnds(s) ==
  /\ follower[s] # "none" /\ follower' = [follower EXCEPT ![s] = "none"]
  /\ \/ /\ follower[s] = "Done"
        /\ installs' = [installs EXCEPT ![s] = "Confirming"]
        /\ reading' = Reading
        /\ known' = [known EXCEPT !.there = @ \cup IF run.at = "reread_done" THEN {}
                                                  ELSE {s} \cap mach.has]
     \/ /\ follower[s] # "Done"
        /\ installs' = [installs EXCEPT ![s] = "none"]
        /\ Outdated /\ UNCHANGED known
  /\ UNCHANGED <<mach, comp, ui, tail, run, root, setup>>

-----------------------------------------------------------------------------
\* install_all.

install_all ==
  /\ ui.step = "Components" /\ ~ui.running /\ ~ui.busy
  /\ \A s \in Snaps : installs[s] = "none"
  /\ install_plan(shown) # {}
  /\ ui' = [ui EXCEPT !.running = TRUE]
  /\ run' = [NoRun EXCEPT !.at = "next"]
  /\ UNCHANGED <<mach, comp, installs, follower, reading, tail, root, setup, known>>

\* One privileged set-up for the flag and the snaps, then the desktop's piece.
RunNext ==
  LET steps == set_up_steps(shown, run.done) IN
  /\ run.at = "next" /\ install_plan(shown) \ run.done # {}
  /\ IF steps # {}
     THEN run' = [run EXCEPT !.at = "set_up", !.steps = steps] /\ root' = "prompt"
     ELSE run' = [run EXCEPT !.at = "desktop", !.steps = {"StatusSurface"}] /\ UNCHANGED root
  /\ Outdated
  /\ UNCHANGED <<mach, comp, ui, installs, follower, tail, setup, known>>

\* set_up_step reads snapd's changes while it waits.
SetUpPolls ==
  /\ run.at = "set_up"
  /\ installs' = [s \in Snaps |-> IF s \in run.steps \cap mach.changes
                                    THEN "Running" ELSE installs[s]]
  /\ UNCHANGED <<mach, comp, ui, follower, reading, tail, run, root, setup, known>>

Stepped(ok) ==
  /\ run' = IF ok THEN [NoRun EXCEPT !.at = "reread", !.done = run.done \cup run.steps]
            ELSE NoRun
  /\ ui' = IF ok THEN ui ELSE [ui EXCEPT !.running = FALSE]
  /\ known' = IF ok THEN [known EXCEPT !.there = @ \cup (run.steps \cap mach'.has)] ELSE known
  /\ Outdated

SetUpEnds ==
  /\ run.at = "set_up" /\ root \in {"Ok", "Error"} /\ root' = "none"
  /\ installs' = [s \in Snaps |-> IF s \notin run.steps THEN installs[s]
                                    ELSE IF root = "Ok" THEN "Confirming" ELSE "none"]
  /\ UNCHANGED mach /\ Stepped(root = "Ok")
  /\ UNCHANGED <<comp, follower, tail, setup>>

DesktopEnds ==
  /\ run.at = "desktop"
  /\ \/ mach' = [mach EXCEPT !.has = @ \cup run.steps] /\ Stepped(TRUE)
     \/ UNCHANGED mach /\ Stepped(FALSE)
  /\ UNCHANGED <<comp, installs, follower, tail, root, setup>>

\* reread, which takes what it finds whatever the epoch.
RereadAnswers ==
  /\ run.at = "reread"
  /\ \E found \in Answers :
       Finding(found) /\ run' = [run EXCEPT !.at = "reread_done", !.got = found]
  /\ UNCHANGED <<comp, ui, installs, follower, reading, tail, root, setup>>

RereadTaken ==
  /\ run.at = "reread_done"
  /\ take_reading(run.got)
  /\ run' = [NoRun EXCEPT !.at = "next", !.done = run.done]
  /\ UNCHANGED <<mach, ui, follower, reading, tail, root, setup, known>>

RunEnds ==
  /\ run.at = "next" /\ install_plan(shown) \subseteq run.done
  /\ run' = NoRun
  /\ IF ui.step = "Components" /\ ~ui.busy /\ settled(shown)
     THEN finish_setup(TRUE)
     ELSE ui' = [ui EXCEPT !.running = FALSE] /\ UNCHANGED setup
  /\ UNCHANGED <<mach, comp, installs, follower, reading, tail, root, known>>

-----------------------------------------------------------------------------
\* Steps, and finish_setup.

advance ==
  /\ ui.step # "Shortcut" /\ can_advance(ui.step, shown)
  /\ ui.step = "Components" => ~ui.busy /\ ~ui.running
  /\ IF ui.beat THEN ui' = [ui EXCEPT !.beat = FALSE, !.step = "Shortcut"] /\ UNCHANGED setup
     ELSE IF ui.step = "Components" THEN finish_setup(FALSE)
     ELSE ui' = [ui EXCEPT !.step = "Components"] /\ UNCHANGED setup
  /\ UNCHANGED <<mach, comp, installs, follower, reading, tail, run, root, known>>

\* Back, which the first second of a setup still allows.
Back ==
  /\ ui.step # "Welcome"
  /\ ui' = IF ui.step = "Components" THEN [ui EXCEPT !.step = "Welcome", !.beat = FALSE]
           ELSE [ui EXCEPT !.step = "Components"]
  /\ known' = [known EXCEPT !.whole = @ /\ ui.step # "Shortcut"]
  /\ UNCHANGED <<mach, comp, installs, follower, reading, tail, run, root, setup>>

\* ensure_backend_active: the models are read, the changes of Myna and of those are
\* waited for, and after a wait the models are read again.
SetupChecks ==
  /\ setup.at = "check"
  /\ setup' = [setup EXCEPT !.at = "wait", !.seen = mach.has \cap Snaps]
  /\ UNCHANGED <<mach, comp, ui, installs, follower, reading, tail, run, root, known>>

SetupWaits ==
  /\ setup.at = "wait" /\ mach.changes \cap (setup.seen \cup {"Myna"}) # {}
  /\ setup' = [setup EXCEPT !.waited = TRUE]
  /\ UNCHANGED <<mach, comp, ui, installs, follower, reading, tail, run, root, known>>

SetupWaited ==
  LET seen == IF setup.waited THEN mach.has ELSE setup.seen IN
  /\ setup.at = "wait" /\ mach.changes \cap (setup.seen \cup {"Myna"}) = {}
  /\ setup' = [NoSetup EXCEPT !.at = IF "Model" \in seen THEN "act" ELSE "fail",
                             !.pause = setup.pause]
  /\ known' = [known EXCEPT !.setup = @ \/ "Model" \in mach.has \ mach.changes]
  /\ UNCHANGED <<mach, comp, ui, installs, follower, reading, tail, run, root>>

\* It is refused, is dismissed, fails or waits too long; or the daemon is back.
SetupEnds(ok) ==
  /\ setup.at \in {"act"} \cup (IF ok THEN {} ELSE {"check", "wait", "fail"})
  /\ setup' = NoSetup
  /\ ui' = [ui EXCEPT !.busy = FALSE,
              !.beat = @ \/ (ok /\ ui.step = "Components" /\ setup.pause),
              !.step = IF ok /\ @ = "Components" /\ ~setup.pause THEN "Shortcut" ELSE @]
  /\ known' = [known EXCEPT !.setup = FALSE, !.whole = IF ok THEN known.setup ELSE @]
  /\ UNCHANGED <<mach, comp, installs, follower, reading, tail, run, root>>

BeatEnds ==
  /\ ui.beat /\ ui' = [ui EXCEPT !.beat = FALSE, !.step = "Shortcut"]
  /\ UNCHANGED <<mach, comp, installs, follower, reading, tail, run, root, setup, known>>

OnboardingNext ==
  \/ \E s \in Snaps :
       \/ StartsElsewhere(s) \/ Published(s) \/ FollowReports(s) \/ FollowEnds(s)
       \/ ChangeEnds(s, "Done") \/ ChangeEnds(s, "Error") \/ Removed(s)
  \/ Prompted \/ RootStep
  \/ Poll \/ Focus \/ read_machine \/ ReadTaken \/ ReadEnds
  \/ install_all \/ RunNext \/ SetUpPolls \/ SetUpEnds \/ DesktopEnds
  \/ RereadAnswers \/ RereadTaken \/ RunEnds
  \/ advance \/ Back
  \/ SetupChecks \/ SetupWaits \/ SetupWaited \/ SetupEnds(TRUE) \/ SetupEnds(FALSE) \/ BeatEnds

-----------------------------------------------------------------------------
\* Types.
TypeOK ==
  /\ ui.step \in {"Welcome", "Components", "Shortcut"}
  /\ comp \subseteq Ids /\ mach.has \subseteq Ids /\ mach.changes \subseteq Snaps
  /\ \A s \in Snaps : installs[s] \in {"none", "Running", "Confirming"}
  /\ run.at = "none" <=> ~ui.running

\* A run and a setup exclude each other, whichever of the reads, the button and Next
\* started them, and no prompt is left behind.
OneAtATime ==
  /\ ~(ui.busy /\ ui.running) /\ (ui.busy <=> setup.at # "none")
  /\ root # "none" => run.at = "set_up"

\* What a run or a followed change put there, and no read failed to find, is not
\* offered again, whenever the reads before, during and after it started, but for
\* a read under way.
NotOfferedTwice ==
  \A id \in known.there :
    (/\ reading.at = "none" /\ run.at \notin {"reread", "reread_done"}
     /\ id \in Snaps => installs[id] = "none") => id \in comp

\* The last step is reached by a setup that began once no change of the model was
\* running, although a read finds the model before its install is done (unless it
\* was removed under the setup); and a pause moves nobody on who went back.
SetUpWhole ==
  /\ ui.step = "Shortcut" => known.whole
  /\ ui.beat => ui.step = "Components"
=============================================================================
