-------------------------------- MODULE Sweep --------------------------------
(***************************************************************************)
(* The benchmark of a packed snap (server/src/myna/benchmarker: cmd_run,   *)
(* SnapTarget and _sweep_one of _run.py, run_clips of _bench.py): it is    *)
(* installed, each engine selected, each model, emission mode and config   *)
(* point applied and measured in turn, and all of it purged.  Every step   *)
(* may fail, some without a word, and what comes after still has to name   *)
(* what it measured.                                                       *)
(*                                                                         *)
(* snapd and modelctl are external: a setting stays what it was set to     *)
(* unless the engine is changed, and then may stay or not.  Of the config  *)
(* points' keys there is one, the precision.  The pace is not modelled.    *)
(***************************************************************************)
EXTENDS Naturals, Sequences

CONSTANTS Engines,  \* engines_to_sweep, in order
          Weights,  \* the models that an engine offers, in order
          Points    \* configs: label (also the precision it sets), modes, engines

VARIABLES
  box,  \* the machine: the engine, model and settings on record, and the ones the
        \* server runs with
  tgt,  \* SnapTarget: engine, model, streaming (mode), config_suffix, applied, _baseline
  swp,  \* cmd_run and _sweep_one: where it is, what is left, the sampler; whether the
        \* server of this cell is the restarted one, and the target was given up (history)
  out   \* the results file: the cells that have a status, and those planned (history)

sweepVars == <<box, tgt, swp, out>>

None == "none"
Range(seq) == {seq[i] : i \in DOMAIN seq}
Modes == <<"batch", "streaming">>
Shipped == [engine |-> None, model |-> None, mode |-> "streaming", prec |-> "shipped"]
Dead == [engine |-> None, model |-> None, mode |-> None, prec |-> None]
Purged == [installed |-> FALSE, stored |-> Shipped, serves |-> Dead]

SweepInit ==
  /\ box = Purged
  /\ tgt = [engine |-> None, model |-> None, mode |-> "batch", suffix |-> None,
            applied |-> [mode |-> None, prec |-> None], baseline |-> None]
  /\ swp = [at |-> "start", engines |-> Engines, models |-> <<>>, cells |-> <<>>,
            plan |-> <<>>, togglable |-> FALSE, sampler |-> FALSE, unsure |-> FALSE,
            gave_up |-> FALSE]
  /\ out = [told |-> {}, planned |-> {}]

-----------------------------------------------------------------------------
\* The axes.

\* _variants_here and variants_for: a mode that no point claims is measured as shipped.
VariantsHere == SelectSeq(Points, LAMBDA v : v.engines = {} \/ tgt.engine \in v.engines)
variants_for(mode) ==
  LET claimed == SelectSeq(VariantsHere, LAMBDA v : mode \in v.modes)
  IN  IF claimed = <<>> THEN <<None>> ELSE [i \in DOMAIN claimed |-> claimed[i].label]
cells(togglable) ==
  LET Paired(mode) == [i \in DOMAIN variants_for(mode) |-> <<mode, variants_for(mode)[i]>>]
  IN  Paired(Modes[1]) \o (IF togglable THEN Paired(Modes[2]) ELSE <<>>)

\* _label_for, and label, which names the cell applied last.
cell_label(cell) ==
  [engine |-> tgt.engine, model |-> tgt.model, mode |-> cell[1], suffix |-> cell[2]]
label == cell_label(<<tgt.mode, tgt.suffix>>)

\* What is raised outside of a cell is recorded against the target's label, and the
\* target is given up.
Fail ==
  /\ out' = [out EXCEPT !.told = @ \cup {label'}]
  /\ swp' = [swp EXCEPT !.at = "stop", !.gave_up = TRUE]

-----------------------------------------------------------------------------
\* The target.

\* start: purge and install.
start ==
  /\ swp.at = "start" /\ UNCHANGED tgt
  /\ \/ /\ box' = [Purged EXCEPT !.installed = TRUE]
        /\ swp' = [swp EXCEPT !.at = "engine"] /\ UNCHANGED out
     \/ box' = Purged /\ Fail

\* _read_baseline: the value found for each key of the points that apply.
_read_baseline(stored) == IF VariantsHere' = <<>> THEN None ELSE stored.prec

\* select_engine with _select_engine, wait_for_socket, _describe and _read_baseline.  The
\* model is forgotten first; the settings of the engine before may stay; an engine
\* that the snap will not name is None.
select_engine ==
  /\ swp.at = "engine" /\ swp.engines # <<>>
  /\ \/ \E from \in {box.stored, Shipped}, named \in {swp.engines[1], None} :
          LET s == [from EXCEPT !.engine = swp.engines[1], !.model = Weights[1]] IN
          /\ box' = [box EXCEPT !.stored = s, !.serves = s]
          /\ \E b \in {None, s.prec} :
               tgt' = [tgt EXCEPT !.model = None, !.engine = named, !.baseline = b]
          /\ \/ /\ tgt'.baseline = _read_baseline(s)
                /\ swp' = [swp EXCEPT !.at = "axes", !.engines = Tail(@)]
                /\ UNCHANGED out
             \/ tgt'.baseline = None /\ VariantsHere' # <<>> /\ Fail  \* no such key
     \/ /\ box' = [box EXCEPT !.serves = Dead]
        /\ tgt' = [tgt EXCEPT !.model = None]
        /\ Fail

\* models and supports_streaming: a question that goes unanswered is a no.
axes ==
  /\ swp.at = "axes"
  /\ \E models \in {Weights, <<None>>}, togglable \in BOOLEAN :
       swp' = [swp EXCEPT !.at = "model", !.models = models, !.togglable = togglable,
                          !.plan = cells(togglable)]
  /\ UNCHANGED <<box, tgt, out>>

EnginesDone ==
  /\ swp.at = "engine" /\ swp.engines = <<>>
  /\ swp' = [swp EXCEPT !.at = "stop"]
  /\ UNCHANGED <<box, tgt, out>>

ModelsDone ==
  /\ swp.at = "model" /\ swp.models = <<>>
  /\ swp' = [swp EXCEPT !.at = "engine"]
  /\ UNCHANGED <<box, tgt, out>>

\* use_model, where the engine names its models: modelctl restarts the snap; it may
\* refuse, or the socket not return.
use_model ==
  LET m == swp.models[1]
      switched == [box.stored EXCEPT !.model = m]
      Sweeps == /\ swp' = [swp EXCEPT !.at = "cell", !.models = Tail(@), !.cells = swp.plan]
                /\ out' = [out EXCEPT !.planned = @ \cup {cell_label(c)' : c \in Range(swp.plan)}]
  IN  /\ swp.at = "model" /\ swp.models # <<>>
      /\ \/ m = None /\ UNCHANGED <<box, tgt>> /\ Sweeps
         \/ /\ m # None /\ tgt' = [tgt EXCEPT !.model = m]
            /\ \/ box' = [box EXCEPT !.stored = switched, !.serves = switched] /\ Sweeps
               \/ box' = [box EXCEPT !.stored = switched, !.serves = Dead] /\ Fail
         \/ m # None /\ UNCHANGED <<box, tgt>> /\ Fail

CellsDone ==
  /\ swp.at = "cell" /\ swp.cells = <<>>
  /\ swp' = [swp EXCEPT !.at = "model"]
  /\ UNCHANGED <<box, tgt, out>>

-----------------------------------------------------------------------------
\* _sweep_one.

\* The end of a cell, well or not: its status, the sampler stopped, the next cell.
EndCell ==
  /\ out' = [out EXCEPT !.told = @ \cup {cell_label(swp.cells[1])}]
  /\ swp' = [swp EXCEPT !.at = "cell", !.cells = Tail(@), !.sampler = FALSE, !.unsure = FALSE]

\* apply: the mode and each key of the baseline are set in one call, which may be
\* refused; the restart may fail without a word, so that the old server goes on or
\* none comes up, whose socket is found or not.
Settings(cell) ==
  [mode |-> IF swp.togglable THEN cell[1] ELSE None,
   prec |-> IF cell[2] # None THEN cell[2] ELSE tgt.baseline]
Set(stored, s) ==
  [stored EXCEPT !.mode = IF s.mode = None THEN @ ELSE s.mode,
                 !.prec = IF s.prec = None THEN @ ELSE s.prec]
apply ==
  LET cell == swp.cells[1]
      s == Settings(cell)
      stored == Set(box.stored, s)
  IN  /\ swp.at = "cell" /\ swp.cells # <<>>
      /\ \/ UNCHANGED <<box, tgt>> /\ EndCell
         \/ /\ tgt' = [tgt EXCEPT !.mode = cell[1], !.suffix = cell[2], !.applied = s]
            /\ \/ \E serves \in {stored, box.serves, Dead}, sampled \in BOOLEAN :
                    /\ box' = [box EXCEPT !.stored = stored, !.serves = serves]
                    /\ swp' = [swp EXCEPT !.at = "cold", !.sampler = sampled,
                                          !.unsure = serves # stored]
                    /\ UNCHANGED out
               \/ box' = [box EXCEPT !.stored = stored, !.serves = Dead] /\ EndCell

\* run_clips, cold and then warm: its rows are written together, once the clips are
\* through or the budget is spent.  A sample that raises, every clip failed or not,
\* ends the cell.
ColdSample ==
  /\ swp.at = "cold" /\ UNCHANGED <<box, tgt>>
  /\ \/ box.serves # Dead /\ swp' = [swp EXCEPT !.at = "warm"] /\ UNCHANGED out
     \/ EndCell

WarmSweep == swp.at = "warm" /\ EndCell /\ UNCHANGED <<box, tgt>>

\* The target's finally: purge.
stop ==
  /\ swp.at = "stop"
  /\ box' = Purged
  /\ swp' = [swp EXCEPT !.at = "over"]
  /\ UNCHANGED <<tgt, out>>

\* The tester's Ctrl-C: no clause takes it but the two finally.
Interrupt ==
  /\ swp.at \notin {"stop", "over"}
  /\ swp' = [swp EXCEPT !.at = "stop", !.sampler = FALSE, !.cells = <<>>, !.gave_up = TRUE]
  /\ UNCHANGED <<box, tgt>>
  /\ out' = [out EXCEPT !.planned = out.told]  \* the rest are no longer

SweepStep ==
  \/ start \/ select_engine \/ axes \/ EnginesDone \/ ModelsDone \/ use_model
  \/ CellsDone \/ apply \/ ColdSample \/ WarmSweep \/ stop

SweepNext == SweepStep \/ Interrupt

-----------------------------------------------------------------------------
\* Types.
TypeOK ==
  /\ box.installed \in BOOLEAN /\ tgt.engine \in {None} \cup Range(Engines)
  /\ swp.at \in {"start", "engine", "axes", "model", "cell", "cold", "warm", "stop", "over"}
  /\ swp.sampler => swp.at \in {"cold", "warm"}

\* A row names what was measured: the engine and the model, where it names one, the
\* mode, where the snap has two, and the precision, of its config point or else the
\* one its engine was found with, whatever earlier cells set or failed to set; unless
\* the server there is not the restarted one.
RowIsTrue ==
  swp.at = "warm" /\ ~swp.unsure =>
    LET l == cell_label(swp.cells[1])  ran == box.serves IN
    /\ l.engine \in {None, ran.engine} /\ l.model \in {None, ran.model}
    /\ swp.togglable => l.mode = ran.mode
    /\ l.suffix \in {None, ran.prec}
    /\ l.suffix = None => tgt.baseline \in {None, ran.prec}
    /\ tgt.applied.mode \in {None, ran.mode} /\ tgt.applied.prec \in {None, ran.prec}

\* Each cell that was planned has its verdict when the sweep is over, the failed ones
\* and those after them too, and a target that was not given up planned some for each
\* engine; and nothing of it is left on the machine.
Accounted ==
  swp.at = "over" =>
    /\ out.planned \subseteq out.told /\ box = Purged
    /\ ~swp.gave_up => \A e \in Range(Engines) : \E l \in out.planned : l.engine \in {e, None}
=============================================================================
