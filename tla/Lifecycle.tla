------------------------------ MODULE Lifecycle ------------------------------
(***************************************************************************)
(* The life of the model in the server process: LifecycleService and       *)
(* idle_monitor (server/lifecycle.py), the adapters' _load_model, unload   *)
(* and load heartbeat (testbed/parakeet.py; nemotron.py, funasr.py and     *)
(* whisper.py have the same), serve (server/cli.py), and whisper's way off *)
(* a GPU that fails in the middle of a decode.                             *)
(*                                                                         *)
(* A session is cancelled wherever it is, but the load it started is a     *)
(* task of its own and a decode runs on a thread: both outlive it.  The    *)
(* model lock is a queue of tasks, its head the holder; asyncio.Lock is    *)
(* fair.  A loaded model is the number of its load.  The event loop and a  *)
(* thread each assign the model and the device it serves on in one step.   *)
(***************************************************************************)
EXTENDS Integers, Sequences, FiniteSets

CONSTANTS Sessions,   \* connections that may run a session
          MaxLoads    \* bound: sessions started over the server's life

VARIABLES
  idle_action,  \* "unload" or "exit", the server's option
  gpu,          \* the adapter is whisper's, asked to serve on a GPU
  proc,         \* "serving", "stopping" once stop is set, "down"
  active,       \* LifecycleService._active
  released,     \* LifecycleService._released
  idle,         \* idle_seconds() has reached the timeout
  monitor,      \* "tick", or "unload" inside maybe_release
  lock,         \* the tasks at the model lock: a session's load, or the unload
  model,        \* self._model, None when there is none
  loads,        \* loads so far, which numbers them
  started,      \* sessions started so far
  ses,          \* [Sessions -> "off", "load", "run"]
  uses,         \* [Sessions -> model]: what a session or its thread decodes with
  device,       \* _serving_device
  on,           \* [Sessions -> where its decode is: "none", "cuda", "cpu", and after a
                \* failure on the GPU "failed" and "building", with _device_lock]
  leftover      \* history: a model that the decode of a cancelled session built

lifecycleVars ==
  <<idle_action, gpu, proc, active, released, idle, monitor, lock, model, loads,
    started, ses, uses, device, on, leftover>>
gpuVars == <<gpu, device, on, leftover>>

None == 0
Unload == "unload"
busy == active > 0

\* With --preload the model is there before the server is.
LifecycleInit ==
  /\ idle_action \in {"unload", "exit"} /\ proc = "serving"
  /\ lock = <<>> /\ \E preload \in {0, 1} : model = preload /\ loads = preload
  /\ gpu \in BOOLEAN
  /\ gpu => idle_action = "unload" /\ model = None  \* bound: an exit frees all there is
  /\ device = (IF gpu THEN "cuda" ELSE "cpu") /\ leftover = FALSE
  /\ on = [s \in Sessions |-> "none"]
  /\ active = 0 /\ released = FALSE /\ idle = FALSE /\ monitor = "tick"
  /\ started = 0
  /\ ses = [s \in Sessions |-> "off"] /\ uses = [s \in Sessions |-> None]

-----------------------------------------------------------------------------
\* Mutant: a model that is there is used without the lock.
run_session_NoLock(s) ==
  /\ proc # "down" /\ ses[s] = "off" /\ uses[s] = None /\ on[s] = "none"
  /\ started < MaxLoads
  /\ s \notin {lock[i] : i \in DOMAIN lock}
  /\ active' = active + 1 /\ released' = FALSE /\ idle' = FALSE
  /\ started' = started + 1
  /\ IF model = None
     THEN ses' = [ses EXCEPT ![s] = "load"] /\ lock' = Append(lock, s) /\ UNCHANGED uses
     ELSE /\ ses' = [ses EXCEPT ![s] = "run"] /\ uses' = [uses EXCEPT ![s] = model]
          /\ UNCHANGED lock
  /\ UNCHANGED <<idle_action, proc, monitor, model, loads, gpuVars>>

\* run_session of the service and of the adapter: counted, re-armed, and the
\* load queued as a task of its own.
run_session(s) ==
  /\ proc # "down" /\ ses[s] = "off" /\ uses[s] = None /\ on[s] = "none"
  /\ started < MaxLoads
  /\ s \notin {lock[i] : i \in DOMAIN lock}
  /\ active' = active + 1 /\ released' = FALSE /\ idle' = FALSE
  /\ started' = started + 1
  /\ ses' = [ses EXCEPT ![s] = "load"]
  /\ lock' = Append(lock, s)
  /\ UNCHANGED <<idle_action, proc, monitor, model, loads, uses, gpuVars>>

\* The end of run_session, however it ends: the finally block.
Ended(s) ==
  /\ ses' = [ses EXCEPT ![s] = "off"]
  /\ active' = active - 1 /\ idle' = FALSE

\* _load_model with the lock: a model that is there is returned, else it is
\* loaded on a thread, on the device asked for or on the CPU when that cannot be
\* started; the session, if it still waits, goes on with it.  The load has the lock
\* from its start and assigns model and device at its end only, which is this step:
\* while it runs the session is the head of lock, and others come, leave and queue.
_load_model ==
  /\ lock # <<>> /\ Head(lock) # Unload
  /\ LET s == Head(lock)
         m == IF model = None THEN loads + 1 ELSE model IN
     /\ model' = m /\ loads' = IF model = None THEN loads + 1 ELSE loads
     /\ IF ses[s] = "load"
        THEN ses' = [ses EXCEPT ![s] = "run"] /\ uses' = [uses EXCEPT ![s] = m]
        ELSE UNCHANGED <<ses, uses>>
  /\ device' \in IF model = None /\ gpu THEN {"cuda", "cpu"} ELSE {device}
  /\ lock' = Tail(lock)
  /\ UNCHANGED <<idle_action, gpu, proc, active, released, idle, monitor, started, on, leftover>>

\* The load raises: the session reports inference_failed and returns.
LoadFails ==
  /\ lock # <<>> /\ Head(lock) # Unload /\ model = None
  /\ lock' = Tail(lock)
  /\ IF ses[Head(lock)] = "load" THEN Ended(Head(lock)) ELSE UNCHANGED <<ses, active, idle>>
  /\ UNCHANGED <<idle_action, proc, released, monitor, model, loads, started, uses, gpuVars>>

\* The utterance is answered.
SessionEnds(s) ==
  /\ ses[s] = "run" /\ Ended(s) /\ on[s] = "none"
  /\ uses' = [uses EXCEPT ![s] = None]
  /\ UNCHANGED <<idle_action, proc, released, monitor, lock, model, loads, started, gpuVars>>

\* The client left: the load goes on, and so does a decode on its thread.
SessionCancelled(s) ==
  /\ ses[s] # "off" /\ Ended(s)
  /\ UNCHANGED <<idle_action, proc, released, monitor, lock, model, loads, started, uses,
                 gpuVars>>

\* The thread of a cancelled session comes to its end.
ThreadEnds(s) ==
  /\ ses[s] = "off" /\ uses[s] # None /\ on[s] = "none"
  /\ uses' = [uses EXCEPT ![s] = None]
  /\ UNCHANGED <<idle_action, proc, active, released, idle, monitor, lock, model, loads,
                 started, ses, gpuVars>>

-----------------------------------------------------------------------------
\* A decode of whisper's on its thread (its re-decodes of the same audio included):
\* _drain takes the model that is served now.

Thread == <<idle_action, gpu, proc, active, released, idle, monitor, lock, started, ses>>

_drain(s) ==
  /\ gpu /\ ses[s] = "run" /\ on[s] = "none"
  /\ uses' = [uses EXCEPT ![s] = IF model # None THEN model ELSE @]
  /\ on' = [on EXCEPT ![s] = device]
  /\ UNCHANGED <<Thread, model, loads, device, leftover>>

\* It has its segments, or failed where the session reports it.
Drained(s) ==
  /\ on[s] \in {"cuda", "cpu"} /\ on' = [on EXCEPT ![s] = "none"]
  /\ UNCHANGED <<Thread, model, loads, uses, device, leftover>>

\* It failed on the GPU.
DrainFails(s) ==
  /\ on[s] = "cuda" /\ on' = [on EXCEPT ![s] = "failed"]
  /\ UNCHANGED <<Thread, model, loads, uses, device, leftover>>

\* _serve_on_cpu with _device_lock: who finds the CPU serving decodes there.
_serve_on_cpu(s) ==
  /\ on[s] = "failed" /\ \A t \in Sessions : on[t] # "building"
  /\ IF device = "cpu"
     THEN on' = [on EXCEPT ![s] = "cpu"] /\ uses' = [uses EXCEPT ![s] = model]
     ELSE on' = [on EXCEPT ![s] = "building"] /\ UNCHANGED uses
  /\ UNCHANGED <<Thread, model, loads, device, leftover>>

\* The model is built again, or cannot be; the model lock is not asked for.
Built(s) ==
  /\ on[s] = "building"
  /\ \/ /\ loads' = loads + 1 /\ model' = loads' /\ device' = "cpu"
        /\ on' = [on EXCEPT ![s] = "cpu"] /\ uses' = [uses EXCEPT ![s] = model']
        /\ leftover' = (leftover \/ ses[s] = "off")
     \/ /\ on' = [on EXCEPT ![s] = "none"]
        /\ UNCHANGED <<loads, model, device, uses, leftover>>
  /\ UNCHANGED Thread

-----------------------------------------------------------------------------
\* Time: idle_seconds grows past the timeout only while nothing is busy.
Idles ==
  /\ proc = "serving" /\ ~busy /\ ~idle /\ idle' = TRUE
  /\ UNCHANGED <<idle_action, proc, active, released, monitor, lock, model, loads,
                 started, ses, uses, gpuVars>>

\* A tick of idle_monitor that finds the server idle, with maybe_release: one
\* release in an idle period, the unload waiting for the model lock.
maybe_release ==
  /\ proc = "serving" /\ monitor = "tick"
  /\ ~busy /\ idle /\ ~released
  /\ released' = TRUE
  /\ IF idle_action = "exit"
     THEN proc' = "stopping" /\ UNCHANGED <<monitor, lock>>
     ELSE /\ monitor' = "unload" /\ lock' = Append(lock, Unload)
          /\ UNCHANGED proc
  /\ UNCHANGED <<idle_action, active, idle, model, loads, started, ses, uses, gpuVars>>

\* unload with the lock, and the trim after it.
unload ==
  /\ lock # <<>> /\ Head(lock) = Unload
  /\ model' = None /\ lock' = Tail(lock) /\ monitor' = "tick"
  /\ leftover' = FALSE
  /\ UNCHANGED <<idle_action, gpu, proc, active, released, idle, loads, started, ses, uses,
                 device, on>>

\* SIGTERM or SIGINT.
Signalled ==
  /\ proc = "serving" /\ proc' = "stopping"
  /\ UNCHANGED <<idle_action, active, released, idle, monitor, lock, model, loads,
                 started, ses, uses, gpuVars>>

\* serve after stop.wait(): every session is aborted, the monitor cancelled,
\* the process and its model are gone.
Shutdown ==
  /\ proc = "stopping" /\ proc' = "down"
  /\ ses' = [s \in Sessions |-> "off"] /\ active' = 0
  /\ uses' = [s \in Sessions |-> None] /\ on' = [s \in Sessions |-> "none"]
  /\ monitor' = "tick" /\ lock' = <<>> /\ model' = None
  /\ UNCHANGED <<idle_action, gpu, released, idle, loads, started, device, leftover>>

LifecycleNext ==
  \/ \E s \in Sessions :
       \/ run_session(s) \/ SessionEnds(s) \/ SessionCancelled(s) \/ ThreadEnds(s)
       \/ _drain(s) \/ Drained(s) \/ DrainFails(s) \/ _serve_on_cpu(s) \/ Built(s)
  \/ _load_model \/ LoadFails \/ Idles \/ maybe_release \/ unload \/ Signalled \/ Shutdown

-----------------------------------------------------------------------------
\* Types; the lock's queue holds one load of a session and one unload at most.
TypeOK ==
  /\ idle_action \in {"unload", "exit"} /\ proc \in {"serving", "stopping", "down"}
  /\ active \in 0..Cardinality(Sessions) /\ released \in BOOLEAN /\ idle \in BOOLEAN
  /\ monitor \in {"tick", "unload"} /\ lock \in Seq(Sessions \cup {Unload})
  /\ \A i, j \in DOMAIN lock : lock[i] = lock[j] => i = j
  /\ gpu \in BOOLEAN /\ device \in {"cuda", "cpu"} /\ leftover \in BOOLEAN
  /\ on \in [Sessions -> {"none", "cuda", "cpu", "failed", "building"}]
  /\ model \in Nat /\ loads \in Nat /\ started \in 0..MaxLoads
  /\ ses \in [Sessions -> {"off", "load", "run"}] /\ uses \in [Sessions -> Nat]

\* The model a session decodes with is the one the adapter holds: no release
\* decided while nothing was busy takes it away from a session that started
\* meanwhile, and no second copy is loaded beside it.  With a GPU that fails, the
\* model on the CPU is built once however many sessions meet the failure, and only
\* a decode that began before goes on with the one on the GPU; but the decode of a
\* cancelled session that fails may build one more.
OneModel ==
  \A s \in Sessions : ses[s] = "run" =>
    IF gpu THEN /\ model # None
                /\ on[s] = "cpu" => uses[s] = model \/ leftover
                /\ on[s] = "cuda" => uses[s] = model \/ device = "cpu"
    ELSE uses[s] = model

\* A release that is done stays done until the next session: no load left
\* behind by a cancelled session brings the model back, except when the GPU fails
\* the decode that such a session left behind.
ReleaseHolds ==
  released /\ monitor = "tick" /\ idle_action = "unload" /\ proc = "serving" =>
    model = None \/ leftover
=============================================================================
