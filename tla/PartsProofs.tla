------------------------------ MODULE PartsProofs ------------------------------
(***************************************************************************)
(* Proofs about the parts that are checked alone.  A behaviour of Parts is *)
(* of one part: what that part keeps, the composition does.                *)
(***************************************************************************)
EXTENDS Parts, SequenceTheorems, FiniteSetTheorems, TLAPS

-----------------------------------------------------------------------------
(***************************************************************************)
(* Queues.                                                                 *)
(***************************************************************************)

\* What is in a queue to which something was added.
LEMMA Added ==
  ASSUME NEW S, NEW q \in Seq(S), NEW e \in S
  PROVE  /\ Append(q, e) \in Seq(S) /\ Len(Append(q, e)) = Len(q) + 1
         /\ DOMAIN q = 1..Len(q) /\ Len(q) \in Nat
         /\ DOMAIN Append(q, e) = 1..(Len(q) + 1)
         /\ \A i \in 1..Len(q) : Append(q, e)[i] = q[i]
         /\ Append(q, e)[Len(q) + 1] = e
  BY AppendProperties

\* What is left of a queue whose head is taken.
LEMMA Taken ==
  ASSUME NEW S, NEW q \in Seq(S), q # <<>>
  PROVE  /\ Head(q) \in S /\ Head(q) = q[1] /\ 1 \in DOMAIN q
         /\ Tail(q) \in Seq(S) /\ Len(Tail(q)) = Len(q) - 1
         /\ DOMAIN q = 1..Len(q) /\ Len(q) \in Nat \ {0}
         /\ DOMAIN Tail(q) = 1..(Len(q) - 1)
         /\ \A i \in 1..(Len(q) - 1) : Tail(q)[i] = q[i + 1]
  BY HeadTailProperties, EmptySeq, LenProperties

-----------------------------------------------------------------------------
(***************************************************************************)
(* The model's life.                                                       *)
(***************************************************************************)

\* The sessions that are counted.
Counted(f) == {s \in Sessions : f[s] # "off"}

\* The model lock: the monitor waits for it exactly while its unload is queued; whoever
\* waits for the model is queued; a load before the unload is of a session that left,
\* and nobody decodes until the unload is done.
LockSound ==
  /\ monitor = "unload" <=> \E i \in DOMAIN lock : lock[i] = Lif!Unload
  /\ \A s \in Sessions : ses[s] = "load" => \E i \in DOMAIN lock : lock[i] = s
  /\ \A s \in Sessions, i \in DOMAIN lock : lock[i] = s => ses[s] # "run"
  /\ \A i, j \in DOMAIN lock : (i < j /\ lock[j] = Lif!Unload) => ses[lock[i]] = "off"
  /\ monitor = "unload" => \A s \in Sessions : ses[s] # "run"

\* While released is set nobody came: nothing is behind the unload in the queue, and
\* nothing is left there once it is done.
ReleaseSound ==
  /\ released => \A s \in Sessions : ses[s] = "off"
  /\ released /\ monitor = "unload" => lock[Len(lock)] = Lif!Unload
  /\ (released /\ monitor = "tick" /\ idle_action = "unload" /\ proc = "serving") =>
       lock = <<>> /\ (model = Lif!None \/ leftover)

\* A session that decodes has a model, on the device that serves or on the one before;
\* one builds at a time, and for a session that is there only while the GPU serves.
DeviceSound ==
  /\ \A s \in Sessions :
       /\ ses[s] = "run" => model # Lif!None
       /\ ses[s] = "load" => on[s] = "none"
       /\ ses[s] = "run" /\ on[s] = "building" => device = "cuda"
       /\ ses[s] = "run" /\ on[s] = "cpu" => device = "cpu"
  /\ \A s, u \in Sessions : on[s] = "building" /\ on[u] = "building" => s = u
  /\ ~gpu => device = "cpu" /\ ~leftover /\ \A s \in Sessions : on[s] = "none"

LifeInv == /\ Lif!TypeOK /\ active = Cardinality(Counted(ses))
           /\ LockSound /\ ReleaseSound /\ DeviceSound /\ Lif!OneModel

\* What is assumed of this part.
LEMMA LifeAssumed ==
  /\ IsFiniteSet(Sessions) /\ "unload" \notin Sessions /\ MaxLoads \in Nat
  /\ Lif!Cardinality(Sessions) = Cardinality(Sessions)
<1>1. Lif!Cardinality(Sessions) = Cardinality(Sessions)
  BY DEF Lif!Cardinality, Cardinality
<1> QED BY <1>1, PartsAssumption

\* One more session is counted.
LEMMA CountsOne ==
  ASSUME NEW f \in [Sessions -> {"off", "load", "run"}], NEW s \in Sessions,
         NEW v \in {"load", "run"}, f[s] = "off"
  PROVE  Cardinality(Counted([f EXCEPT ![s] = v])) = Cardinality(Counted(f)) + 1
<1>1. IsFiniteSet(Counted(f)) /\ s \notin Counted(f)
  BY LifeAssumed, FS_Subset DEF Counted
<1>2. Counted([f EXCEPT ![s] = v]) = Counted(f) \cup {s}
  BY DEF Counted
<1> QED BY <1>1, <1>2, FS_AddElement

\* One less is.
LEMMA CountsLess ==
  ASSUME NEW f \in [Sessions -> {"off", "load", "run"}], NEW s \in Sessions, f[s] # "off"
  PROVE  Cardinality(Counted([f EXCEPT ![s] = "off"])) = Cardinality(Counted(f)) - 1
<1>1. IsFiniteSet(Counted(f)) /\ s \in Counted(f)
  BY LifeAssumed, FS_Subset DEF Counted
<1>2. Counted([f EXCEPT ![s] = "off"]) = Counted(f) \ {s}
  BY DEF Counted
<1> QED BY <1>1, <1>2, FS_RemoveElement

\* The count is at most the sessions there are, and zero only if none is counted.
LEMMA CountBounds ==
  ASSUME NEW f
  PROVE  /\ Cardinality(Counted(f)) \in 0..Cardinality(Sessions)
         /\ Cardinality(Counted(f)) = 0 <=> \A s \in Sessions : f[s] = "off"
<1>1. /\ IsFiniteSet(Counted(f)) /\ Cardinality(Counted(f)) <= Cardinality(Sessions)
      /\ IsFiniteSet(Sessions)
  BY LifeAssumed, FS_Subset DEF Counted
<1>2. Cardinality(Counted(f)) = 0 <=> Counted(f) = {}
  BY <1>1, FS_EmptySet
<1> QED BY <1>1, <1>2, FS_CardinalityType DEF Counted

\* A session comes: it is counted and its load is queued behind what there is.
LEMMA SessionComes ==
  ASSUME LifeInv, NEW s \in Sessions, Lif!run_session(s)
  PROVE  LifeInv'
<1> USE DEF Lif!None, Lif!Unload
<1>1. /\ lock \in Seq(Sessions \cup {"unload"}) /\ lock' = Append(lock, s)
      /\ ses \in [Sessions -> {"off", "load", "run"}] /\ ses[s] = "off"
      /\ ses' = [ses EXCEPT ![s] = "load"]
      /\ UNCHANGED <<idle_action, proc, monitor, model, loads, uses, gpu, device, on, leftover>>
      /\ ~released' /\ s # "unload"
  BY LifeAssumed DEF LifeInv, Lif!TypeOK, Lif!run_session, Lif!gpuVars
<1>2. /\ lock' \in Seq(Sessions \cup {"unload"}) /\ DOMAIN lock = 1..Len(lock) /\ Len(lock) \in Nat
      /\ DOMAIN lock' = 1..(Len(lock) + 1) /\ \A i \in 1..Len(lock) : lock'[i] = lock[i]
      /\ lock'[Len(lock) + 1] = s
  BY <1>1, Added, s \in Sessions \cup {"unload"}
<1>3. active' = Cardinality(Counted(ses'))
  BY <1>1, CountsOne DEF LifeInv, Lif!run_session
<1>4. Lif!TypeOK'
  <2>1. active' \in 0..Cardinality(Sessions)
    BY <1>3, CountBounds
  <2>2. started' \in 0..MaxLoads
    BY LifeAssumed DEF LifeInv, Lif!TypeOK, Lif!run_session
  <2>3. \A i, j \in DOMAIN lock' : lock'[i] = lock'[j] => i = j
    BY <1>1, <1>2 DEF LifeInv, Lif!TypeOK, Lif!run_session
  <2> QED BY <1>1, <1>2, <2>1, <2>2, <2>3, LifeAssumed DEF LifeInv, Lif!TypeOK, Lif!run_session
<1>5. LockSound'
  <2>1. monitor' = "unload" <=> \E i \in DOMAIN lock' : lock'[i] = "unload"
    BY <1>1, <1>2 DEF LifeInv, LockSound
  <2>2. \A u \in Sessions : ses'[u] = "load" => \E i \in DOMAIN lock' : lock'[i] = u
    BY <1>1, <1>2 DEF LifeInv, LockSound
  <2>3. \A u \in Sessions, i \in DOMAIN lock' : lock'[i] = u => ses'[u] # "run"
    BY <1>1, <1>2 DEF LifeInv, LockSound
  <2>4. \A i, j \in DOMAIN lock' : (i < j /\ lock'[j] = "unload") => ses'[lock'[i]] = "off"
    <3> SUFFICES ASSUME NEW i \in DOMAIN lock', NEW j \in DOMAIN lock', i < j, lock'[j] = "unload"
                 PROVE  ses'[lock'[i]] = "off"
      OBVIOUS
    <3>1. i \in DOMAIN lock /\ j \in DOMAIN lock /\ lock'[i] = lock[i] /\ lock'[j] = lock[j]
      BY <1>1, <1>2
    <3>2. lock[i] # s
      BY <1>1, <3>1 DEF Lif!run_session
    <3> QED BY <1>1, <3>1, <3>2 DEF LifeInv, LockSound
  <2>5. monitor' = "unload" => \A u \in Sessions : ses'[u] # "run"
    BY <1>1 DEF LifeInv, LockSound
  <2> QED BY <2>1, <2>2, <2>3, <2>4, <2>5 DEF LockSound
<1>6. ReleaseSound'
  BY <1>1 DEF ReleaseSound
<1>7. DeviceSound' /\ Lif!OneModel'
  BY <1>1 DEF LifeInv, DeviceSound, Lif!OneModel, Lif!run_session
<1> QED BY <1>3, <1>4, <1>5, <1>6, <1>7 DEF LifeInv

\* A session that ends is counted no more, and the rest is as it was.
LEMMA EndIs ==
  ASSUME LifeInv, NEW s \in Sessions, ses[s] # "off", Lif!Ended(s)
  PROVE  /\ ses \in [Sessions -> {"off", "load", "run"}]
         /\ ses' = [ses EXCEPT ![s] = "off"] /\ ses' \in [Sessions -> {"off", "load", "run"}]
         /\ active' = Cardinality(Counted(ses')) /\ active' \in 0..Cardinality(Sessions)
         /\ idle' = FALSE
<1>1. ses \in [Sessions -> {"off", "load", "run"}] /\ active = Cardinality(Counted(ses))
      /\ ses' = [ses EXCEPT ![s] = "off"] /\ active' = active - 1 /\ idle' = FALSE
  BY DEF LifeInv, Lif!TypeOK, Lif!Ended
<1>2. active' = Cardinality(Counted(ses'))
  BY <1>1, CountsLess
<1> QED BY <1>1, <1>2, CountBounds

\* The utterance is answered.
LEMMA SessionDone ==
  ASSUME LifeInv, NEW s \in Sessions, Lif!SessionEnds(s)
  PROVE  LifeInv'
<1> USE DEF Lif!None, Lif!Unload
<1>1. /\ ses \in [Sessions -> {"off", "load", "run"}] /\ ses' = [ses EXCEPT ![s] = "off"]
      /\ ses' \in [Sessions -> {"off", "load", "run"}]
      /\ active' = Cardinality(Counted(ses')) /\ active' \in 0..Cardinality(Sessions)
      /\ idle' = FALSE /\ uses' = [uses EXCEPT ![s] = 0]
      /\ UNCHANGED <<idle_action, proc, released, monitor, lock, model, loads, started,
                     gpu, device, on, leftover>>
  BY EndIs DEF Lif!SessionEnds, Lif!gpuVars
<1>2. Lif!TypeOK'
  BY <1>1, LifeAssumed DEF LifeInv, Lif!TypeOK
<1>3. LockSound' /\ ReleaseSound'
  <2>1. lock \in Seq(Sessions \cup {"unload"})
    BY DEF LifeInv, Lif!TypeOK
  <2>2. \A i \in DOMAIN lock : lock[i] \in Sessions \cup {"unload"}
    BY <2>1, ElementOfSeq, LenProperties
  <2> QED BY <1>1, <2>2 DEF LifeInv, LockSound, ReleaseSound
<1>4. DeviceSound' /\ Lif!OneModel'
  BY <1>1 DEF LifeInv, Lif!TypeOK, DeviceSound, Lif!OneModel
<1> QED BY <1>1, <1>2, <1>3, <1>4 DEF LifeInv

\* What is in the lock's queue, and that it is a queue.
LEMMA LockIs ==
  ASSUME LifeInv
  PROVE  /\ lock \in Seq(Sessions \cup {"unload"})
         /\ DOMAIN lock = 1..Len(lock) /\ Len(lock) \in Nat
         /\ \A i \in DOMAIN lock : lock[i] \in Sessions \cup {"unload"}
<1>1. lock \in Seq(Sessions \cup {"unload"})
  BY DEF LifeInv, Lif!TypeOK, Lif!Unload
<1> QED BY <1>1, ElementOfSeq, LenProperties

\* The client left: the load goes on, and so does a decode on its thread.
LEMMA SessionLeaves ==
  ASSUME LifeInv, NEW s \in Sessions, Lif!SessionCancelled(s)
  PROVE  LifeInv'
<1> USE DEF Lif!None, Lif!Unload
<1>1. /\ ses \in [Sessions -> {"off", "load", "run"}] /\ ses' = [ses EXCEPT ![s] = "off"]
      /\ ses' \in [Sessions -> {"off", "load", "run"}]
      /\ active' = Cardinality(Counted(ses')) /\ active' \in 0..Cardinality(Sessions)
      /\ idle' = FALSE
      /\ UNCHANGED <<idle_action, proc, released, monitor, lock, model, loads, started,
                     uses, gpu, device, on, leftover>>
  BY EndIs DEF Lif!SessionCancelled, Lif!gpuVars
<1>2. Lif!TypeOK'
  BY <1>1, LifeAssumed DEF LifeInv, Lif!TypeOK
<1>3. LockSound' /\ ReleaseSound'
  BY <1>1, LockIs DEF LifeInv, LockSound, ReleaseSound
<1>4. DeviceSound' /\ Lif!OneModel'
  BY <1>1 DEF LifeInv, Lif!TypeOK, DeviceSound, Lif!OneModel
<1> QED BY <1>1, <1>2, <1>3, <1>4 DEF LifeInv

\* Steps of a decode, and the end of a thread, leave the queue and the sessions alone.
LEMMA ThreadKeeps ==
  ASSUME LifeInv, UNCHANGED Lif!Thread
  PROVE  /\ active' = Cardinality(Counted(ses')) /\ LockSound'
         /\ (released => model' = model /\ leftover' = leftover) => ReleaseSound'
<1>1. UNCHANGED <<idle_action, gpu, proc, active, released, idle, monitor, lock, started, ses>>
  BY DEF Lif!Thread
<1>2. LockSound'
  BY <1>1 DEF LifeInv, LockSound
<1> QED BY <1>1, <1>2 DEF LifeInv, ReleaseSound

\* The thread of a cancelled session comes to its end.
LEMMA ThreadIsOver ==
  ASSUME LifeInv, NEW s \in Sessions, Lif!ThreadEnds(s)
  PROVE  LifeInv'
<1> USE DEF Lif!None, Lif!Unload
<1>1. /\ UNCHANGED Lif!Thread /\ UNCHANGED <<model, loads, device, on, leftover>>
      /\ ses[s] = "off" /\ uses' = [uses EXCEPT ![s] = 0]
  BY DEF Lif!ThreadEnds, Lif!Thread, Lif!gpuVars
<1>2. Lif!TypeOK'
  BY <1>1 DEF LifeInv, Lif!TypeOK, Lif!Thread
<1>3. DeviceSound' /\ Lif!OneModel'
  BY <1>1 DEF LifeInv, Lif!TypeOK, DeviceSound, Lif!OneModel, Lif!Thread
<1> QED BY <1>1, <1>2, <1>3, ThreadKeeps DEF LifeInv

\* A decode starts with the model that is served.
LEMMA DecodeStarts ==
  ASSUME LifeInv, NEW s \in Sessions, Lif!_drain(s)
  PROVE  LifeInv'
<1> USE DEF Lif!None, Lif!Unload
<1>1. /\ UNCHANGED Lif!Thread /\ UNCHANGED <<model, loads, device, leftover>>
      /\ gpu /\ ses[s] = "run" /\ on[s] = "none" /\ model # 0
      /\ uses' = [uses EXCEPT ![s] = model] /\ on' = [on EXCEPT ![s] = device]
  BY DEF Lif!_drain, LifeInv, DeviceSound
<1>2. Lif!TypeOK'
  BY <1>1 DEF LifeInv, Lif!TypeOK, Lif!Thread
<1>3. DeviceSound' /\ Lif!OneModel'
  BY <1>1 DEF LifeInv, Lif!TypeOK, DeviceSound, Lif!OneModel, Lif!Thread
<1> QED BY <1>1, <1>2, <1>3, ThreadKeeps DEF LifeInv

\* A decode ends, or fails on the GPU.
LEMMA DecodeEnds ==
  ASSUME LifeInv, NEW s \in Sessions, Lif!Drained(s) \/ Lif!DrainFails(s)
  PROVE  LifeInv'
<1> USE DEF Lif!None, Lif!Unload
<1> PICK v \in {"none", "failed"} :
           /\ UNCHANGED Lif!Thread /\ UNCHANGED <<model, loads, uses, device, leftover>>
           /\ on[s] \in {"cuda", "cpu"} /\ on' = [on EXCEPT ![s] = v]
  BY DEF Lif!Drained, Lif!DrainFails
<1>2. Lif!TypeOK'
  BY DEF LifeInv, Lif!TypeOK, Lif!Thread
<1>3. DeviceSound' /\ Lif!OneModel'
  BY DEF LifeInv, Lif!TypeOK, DeviceSound, Lif!OneModel, Lif!Thread
<1> QED BY <1>2, <1>3, ThreadKeeps DEF LifeInv

\* Who failed on the GPU goes on on the CPU, or builds the model there.
LEMMA MovesToCpu ==
  ASSUME LifeInv, NEW s \in Sessions, Lif!_serve_on_cpu(s)
  PROVE  LifeInv'
<1> USE DEF Lif!None, Lif!Unload
<1>1. /\ UNCHANGED Lif!Thread /\ UNCHANGED <<model, loads, device, leftover>>
      /\ on[s] = "failed" /\ \A u \in Sessions : on[u] # "building"
      /\ \/ device = "cpu" /\ on' = [on EXCEPT ![s] = "cpu"] /\ uses' = [uses EXCEPT ![s] = model]
         \/ device # "cpu" /\ on' = [on EXCEPT ![s] = "building"] /\ uses' = uses
  BY DEF Lif!_serve_on_cpu
<1>2. Lif!TypeOK'
  BY <1>1 DEF LifeInv, Lif!TypeOK, Lif!Thread
<1>3. DeviceSound' /\ Lif!OneModel'
  BY <1>1 DEF LifeInv, Lif!TypeOK, DeviceSound, Lif!OneModel, Lif!Thread
<1> QED BY <1>1, <1>2, <1>3, ThreadKeeps DEF LifeInv

\* The model is built again, or cannot be.
LEMMA BuildEnds ==
  ASSUME LifeInv, NEW s \in Sessions, Lif!Built(s)
  PROVE  LifeInv'
<1> USE DEF Lif!None, Lif!Unload
<1>1. UNCHANGED Lif!Thread /\ on[s] = "building" /\ gpu
  BY DEF Lif!Built, LifeInv, DeviceSound
<1>2. CASE /\ loads' = loads + 1 /\ model' = loads + 1 /\ device' = "cpu"
           /\ on' = [on EXCEPT ![s] = "cpu"] /\ uses' = [uses EXCEPT ![s] = loads + 1]
           /\ leftover' = (leftover \/ ses[s] = "off")
  <2>1. Lif!TypeOK'
    BY <1>1, <1>2 DEF LifeInv, Lif!TypeOK, Lif!Thread
  <2>2. loads + 1 # 0
    BY DEF LifeInv, Lif!TypeOK
  <2>3. DeviceSound'
    BY <1>1, <1>2, <2>2 DEF LifeInv, Lif!TypeOK, DeviceSound, Lif!Thread
  <2>4. Lif!OneModel'
    BY <1>1, <1>2, <2>2 DEF LifeInv, Lif!TypeOK, DeviceSound, Lif!OneModel, Lif!Thread
  <2>5. ReleaseSound'
    <3>1. released => ses[s] = "off"
      BY DEF LifeInv, ReleaseSound
    <3> QED BY <1>1, <1>2, <3>1 DEF LifeInv, ReleaseSound, Lif!Thread
  <2> QED BY <1>1, <2>1, <2>3, <2>4, <2>5, ThreadKeeps DEF LifeInv
<1>3. CASE on' = [on EXCEPT ![s] = "none"] /\ UNCHANGED <<loads, model, device, uses, leftover>>
  <2>1. Lif!TypeOK'
    BY <1>1, <1>3 DEF LifeInv, Lif!TypeOK, Lif!Thread
  <2>2. DeviceSound' /\ Lif!OneModel'
    BY <1>1, <1>3 DEF LifeInv, Lif!TypeOK, DeviceSound, Lif!OneModel, Lif!Thread
  <2> QED BY <1>1, <1>3, <2>1, <2>2, ThreadKeeps DEF LifeInv
<1> QED BY <1>2, <1>3 DEF Lif!Built

\* The head of the queue is served or gives up: what is behind it stays in order.
LEMMA HeadLeaves ==
  ASSUME LifeInv, lock # <<>>, lock' = Tail(lock)
  PROVE  /\ Head(lock) = lock[1] /\ 1 \in DOMAIN lock /\ lock[1] \in Sessions \cup {"unload"}
         /\ lock' \in Seq(Sessions \cup {"unload"})
         /\ DOMAIN lock = 1..Len(lock) /\ Len(lock) \in Nat \ {0} /\ Len(lock') = Len(lock) - 1
         /\ DOMAIN lock' = 1..(Len(lock) - 1)
         /\ \A i \in DOMAIN lock' : i + 1 \in DOMAIN lock /\ lock'[i] = lock[i + 1]
         /\ \A i \in DOMAIN lock : i # 1 => i - 1 \in DOMAIN lock' /\ lock'[i - 1] = lock[i]
         /\ \A i, j \in DOMAIN lock' : lock'[i] = lock'[j] => i = j
         /\ \A i \in DOMAIN lock' : lock'[i] # lock[1]
<1>1. /\ Head(lock) = lock[1] /\ 1 \in DOMAIN lock /\ lock[1] \in Sessions \cup {"unload"}
      /\ lock' \in Seq(Sessions \cup {"unload"})
      /\ DOMAIN lock = 1..Len(lock) /\ Len(lock) \in Nat \ {0} /\ Len(lock') = Len(lock) - 1
      /\ DOMAIN lock' = 1..(Len(lock) - 1)
      /\ \A i \in 1..(Len(lock) - 1) : lock'[i] = lock[i + 1]
  BY LockIs, Taken
<1>2. \A i \in DOMAIN lock' : i + 1 \in DOMAIN lock /\ lock'[i] = lock[i + 1]
  BY <1>1
<1>3. \A i \in DOMAIN lock : i # 1 => i - 1 \in DOMAIN lock' /\ lock'[i - 1] = lock[i]
  <2> SUFFICES ASSUME NEW i \in DOMAIN lock, i # 1
               PROVE  i - 1 \in DOMAIN lock' /\ lock'[i - 1] = lock[i]
    OBVIOUS
  <2>1. i - 1 \in 1..(Len(lock) - 1) /\ (i - 1) + 1 = i
    BY <1>1
  <2> QED BY <1>1, <2>1
<1>4. \A i, j \in DOMAIN lock : lock[i] = lock[j] => i = j
  BY DEF LifeInv, Lif!TypeOK
<1>5. \A i, j \in DOMAIN lock' : lock'[i] = lock'[j] => i = j
  <2> SUFFICES ASSUME NEW i \in DOMAIN lock', NEW j \in DOMAIN lock', lock'[i] = lock'[j]
               PROVE  i = j
    OBVIOUS
  <2>1. i + 1 = j + 1
    BY <1>2, <1>4
  <2> QED BY <1>1, <2>1
<1>6. \A i \in DOMAIN lock' : lock'[i] # lock[1]
  <2> SUFFICES ASSUME NEW i \in DOMAIN lock', lock'[i] = lock[1]
               PROVE  FALSE
    OBVIOUS
  <2>1. i + 1 = 1
    BY <1>1, <1>2, <1>4
  <2> QED BY <1>1, <2>1
<1> QED BY <1>1, <1>2, <1>3, <1>5, <1>6

\* A load at the head of the queue leaves LockSound, whatever it does to its session, but
\* decode behind a release.
LEMMA LoadLeaves ==
  ASSUME LifeInv, lock # <<>>, lock' = Tail(lock), Head(lock) # "unload",
         UNCHANGED monitor, NEW v \in {"off", "run"},
         \/ ses' = ses /\ ses[Head(lock)] # "load"
         \/ ses[Head(lock)] = "load" /\ ses' = [ses EXCEPT ![Head(lock)] = v]
  PROVE  LockSound' /\ Head(lock) \in Sessions
         /\ (ses[Head(lock)] = "load" => monitor # "unload" /\ ~released)
<1> USE DEF Lif!Unload
<1> DEFINE h == lock[1]
<1>1. /\ Head(lock) = h /\ 1 \in DOMAIN lock /\ h \in Sessions
      /\ ses \in [Sessions -> {"off", "load", "run"}]
  BY HeadLeaves DEF LifeInv, Lif!TypeOK
<1>2. ses[h] = "load" => monitor # "unload"
  <2> SUFFICES ASSUME ses[h] = "load", monitor = "unload" PROVE FALSE
    OBVIOUS
  <2>1. PICK i \in DOMAIN lock : lock[i] = "unload"
    BY DEF LifeInv, LockSound
  <2>2. 1 < i
    BY <1>1, <2>1, HeadLeaves
  <2> QED BY <1>1, <2>1, <2>2 DEF LifeInv, LockSound
<1>3. ses[h] = "load" => ~released
  BY <1>1 DEF LifeInv, ReleaseSound
<1>4. \A u \in Sessions : u # h => ses'[u] = ses[u]
  BY <1>1
<1>5. monitor' = "unload" <=> \E i \in DOMAIN lock' : lock'[i] = "unload"
  <2>1. monitor = "unload" <=> \E i \in DOMAIN lock : lock[i] = "unload"
    BY DEF LifeInv, LockSound
  <2>2. ASSUME NEW i \in DOMAIN lock, lock[i] = "unload"
        PROVE  \E j \in DOMAIN lock' : lock'[j] = "unload"
    <3>1. i # 1
      BY <1>1, <2>2
    <3> QED BY <2>2, <3>1, HeadLeaves, ZenonT(30)
  <2>3. ASSUME NEW i \in DOMAIN lock', lock'[i] = "unload"
        PROVE  \E j \in DOMAIN lock : lock[j] = "unload"
    BY <2>3, HeadLeaves
  <2> QED BY <2>1, <2>2, <2>3
<1>6. \A u \in Sessions : ses'[u] = "load" => \E i \in DOMAIN lock' : lock'[i] = u
  <2> SUFFICES ASSUME NEW u \in Sessions, ses'[u] = "load"
               PROVE  \E i \in DOMAIN lock' : lock'[i] = u
    OBVIOUS
  <2>1. u # h /\ ses[u] = "load"
    BY <1>1, <1>4
  <2>2. PICK i \in DOMAIN lock : lock[i] = u
    BY <2>1 DEF LifeInv, LockSound
  <2> QED BY <2>1, <2>2, HeadLeaves
<1>7. \A u \in Sessions, i \in DOMAIN lock' : lock'[i] = u => ses'[u] # "run"
  <2> SUFFICES ASSUME NEW i \in DOMAIN lock', lock'[i] \in Sessions
               PROVE  ses'[lock'[i]] # "run"
    OBVIOUS
  <2>1. lock'[i] # h /\ i + 1 \in DOMAIN lock /\ lock[i + 1] = lock'[i]
    BY HeadLeaves
  <2> QED BY <1>4, <2>1 DEF LifeInv, LockSound
<1>8. \A i, j \in DOMAIN lock' : (i < j /\ lock'[j] = "unload") => ses'[lock'[i]] = "off"
  <2> SUFFICES ASSUME NEW i \in DOMAIN lock', NEW j \in DOMAIN lock', i < j, lock'[j] = "unload"
               PROVE  ses'[lock'[i]] = "off"
    OBVIOUS
  <2>1. /\ i + 1 \in DOMAIN lock /\ j + 1 \in DOMAIN lock /\ i + 1 < j + 1
        /\ lock'[i] = lock[i + 1] /\ lock'[j] = lock[j + 1] /\ lock'[i] # h
    BY HeadLeaves
  <2>2. ses[lock[i + 1]] = "off" /\ lock[i + 1] \in Sessions \cup {"unload"}
    BY <2>1, LockIs DEF LifeInv, LockSound
  <2>3. lock[i + 1] # "unload"
    BY <2>1 DEF LifeInv, Lif!TypeOK
  <2> QED BY <1>4, <2>1, <2>2, <2>3
<1>9. monitor' = "unload" => \A u \in Sessions : ses'[u] # "run"
  BY <1>1, <1>2, <1>4 DEF LifeInv, LockSound
<1> QED BY <1>1, <1>2, <1>3, <1>5, <1>6, <1>7, <1>8, <1>9 DEF LockSound

\* The same for ReleaseSound: what was at the head was not the unload.
LEMMA LoadReleases ==
  ASSUME LifeInv, lock # <<>>, lock' = Tail(lock), Head(lock) # "unload",
         UNCHANGED <<monitor, released, idle_action, proc>>,
         released => ses' = ses
  PROVE  ReleaseSound'
<1> USE DEF Lif!Unload
<1>1. released' => \A s \in Sessions : ses'[s] = "off"
  BY DEF LifeInv, ReleaseSound
<1>2. released' /\ monitor' = "unload" => lock'[Len(lock')] = "unload"
  <2> SUFFICES ASSUME released, monitor = "unload" PROVE lock'[Len(lock')] = "unload"
    OBVIOUS
  <2>1. lock[Len(lock)] = "unload" /\ Len(lock) # 1 /\ Len(lock) \in DOMAIN lock
    BY HeadLeaves DEF LifeInv, ReleaseSound
  <2> QED BY <2>1, HeadLeaves
<1> QED BY <1>1, <1>2 DEF LifeInv, ReleaseSound

\* The model is loaded, or was there.
LEMMA ModelLoads ==
  ASSUME LifeInv, Lif!_load_model
  PROVE  LifeInv'
<1> USE DEF Lif!None, Lif!Unload
<1> DEFINE h == Head(lock)
           m == IF model = 0 THEN loads + 1 ELSE model
<1>1. /\ lock # <<>> /\ lock' = Tail(lock) /\ h # "unload"
      /\ UNCHANGED <<idle_action, gpu, proc, active, released, idle, monitor, started, on, leftover>>
      /\ model' = m /\ loads' = (IF model = 0 THEN loads + 1 ELSE loads)
      /\ device' \in IF model = 0 /\ gpu THEN {"cuda", "cpu"} ELSE {device}
      /\ \/ ses[h] = "load" /\ ses' = [ses EXCEPT ![h] = "run"] /\ uses' = [uses EXCEPT ![h] = m]
         \/ ses[h] # "load" /\ ses' = ses /\ uses' = uses
  BY DEF Lif!_load_model
<1>2. LockSound' /\ h \in Sessions /\ (ses[h] = "load" => monitor # "unload" /\ ~released)
  BY <1>1, LoadLeaves
<1>3. ReleaseSound'
  BY <1>1, <1>2, LoadReleases
<1>4. /\ ses \in [Sessions -> {"off", "load", "run"}] /\ uses \in [Sessions -> Nat]
      /\ on \in [Sessions -> {"none", "cuda", "cpu", "failed", "building"}]
      /\ model \in Nat /\ loads \in Nat /\ device \in {"cuda", "cpu"}
  BY DEF LifeInv, Lif!TypeOK
<1>5. m \in Nat /\ m # 0 /\ (model # 0 => m = model)
  BY <1>4
<1> HIDE DEF m
<1>6. Lif!TypeOK'
  <2>1. ses' \in [Sessions -> {"off", "load", "run"}] /\ uses' \in [Sessions -> Nat]
    BY <1>1, <1>2, <1>4, <1>5
  <2>2. model' \in Nat /\ loads' \in Nat /\ device' \in {"cuda", "cpu"}
    BY <1>1, <1>4, <1>5
  <2>3. lock' \in Seq(Sessions \cup {"unload"}) /\ \A i, j \in DOMAIN lock' : lock'[i] = lock'[j] => i = j
    BY <1>1, HeadLeaves
  <2> QED BY <1>1, <2>1, <2>2, <2>3 DEF LifeInv, Lif!TypeOK
<1>7. active' = Cardinality(Counted(ses'))
  BY <1>1, <1>2, <1>4 DEF LifeInv, Counted
<1>8. model = 0 => \A s \in Sessions : ses[s] # "run"
  BY DEF LifeInv, DeviceSound
<1>9. DeviceSound'
  BY <1>1, <1>2, <1>4, <1>5, <1>8 DEF LifeInv, DeviceSound
<1>10. Lif!OneModel'
  BY <1>1, <1>2, <1>4, <1>5, <1>8 DEF LifeInv, DeviceSound, Lif!OneModel
<1> QED BY <1>2, <1>3, <1>6, <1>7, <1>9, <1>10 DEF LifeInv

\* The load raises.
LEMMA LoadRaises ==
  ASSUME LifeInv, Lif!LoadFails
  PROVE  LifeInv'
<1> USE DEF Lif!None, Lif!Unload
<1> DEFINE h == Head(lock)
<1>1. /\ lock # <<>> /\ lock' = Tail(lock) /\ h # "unload"
      /\ UNCHANGED <<idle_action, gpu, proc, released, monitor, model, loads, started, uses,
                     on, device, leftover>>
      /\ \/ ses[h] = "load" /\ Lif!Ended(h)
         \/ ses[h] # "load" /\ UNCHANGED <<ses, active, idle>>
  BY DEF Lif!LoadFails, Lif!gpuVars
<1>2. h \in Sessions
  BY <1>1, HeadLeaves
<1>3. /\ ses \in [Sessions -> {"off", "load", "run"}] /\ ses' \in [Sessions -> {"off", "load", "run"}]
      /\ active' = Cardinality(Counted(ses')) /\ active' \in 0..Cardinality(Sessions)
      /\ idle' \in BOOLEAN
      /\ \/ ses[h] = "load" /\ ses' = [ses EXCEPT ![h] = "off"]
         \/ ses[h] # "load" /\ ses' = ses
  <2>1. CASE ses[h] = "load" /\ Lif!Ended(h)
    BY <1>2, <2>1, EndIs
  <2>2. CASE ses[h] # "load" /\ UNCHANGED <<ses, active, idle>>
    BY <2>2, LifeAssumed DEF LifeInv, Lif!TypeOK
  <2> QED BY <1>1, <2>1, <2>2
<1>4. LockSound' /\ (ses[h] = "load" => ~released)
  BY <1>1, <1>3, LoadLeaves
<1>5. ReleaseSound'
  BY <1>1, <1>3, <1>4, LoadReleases
<1>6. Lif!TypeOK'
  BY <1>1, <1>3, HeadLeaves, LifeAssumed DEF LifeInv, Lif!TypeOK
<1>7. DeviceSound' /\ Lif!OneModel'
  BY <1>1, <1>2, <1>3 DEF LifeInv, Lif!TypeOK, DeviceSound, Lif!OneModel
<1> QED BY <1>3, <1>4, <1>5, <1>6, <1>7 DEF LifeInv

\* A tick finds the server idle: the unload is queued, or the server told to stop.
LEMMA ReleaseStarts ==
  ASSUME LifeInv, Lif!maybe_release
  PROVE  LifeInv'
<1> USE DEF Lif!None, Lif!Unload
<1>1. /\ proc = "serving" /\ monitor = "tick" /\ ~(active > 0)
      /\ UNCHANGED <<idle_action, active, idle, model, loads, started, ses, uses, gpu, device,
                     on, leftover>>
      /\ released' = TRUE
      /\ \/ idle_action = "exit" /\ proc' = "stopping" /\ UNCHANGED <<monitor, lock>>
         \/ idle_action # "exit" /\ monitor' = "unload" /\ lock' = Append(lock, "unload")
              /\ UNCHANGED proc
  BY DEF Lif!maybe_release, Lif!gpuVars, Lif!busy
<1>2. \A s \in Sessions : ses[s] = "off"
  <2>1. active = 0
    BY <1>1, LifeAssumed, FS_CardinalityType DEF LifeInv, Lif!TypeOK
  <2> QED BY <2>1, CountBounds DEF LifeInv
<1>3. DeviceSound' /\ Lif!OneModel' /\ active' = Cardinality(Counted(ses'))
  BY <1>1 DEF LifeInv, DeviceSound, Lif!OneModel
<1>4. CASE idle_action = "exit" /\ proc' = "stopping" /\ UNCHANGED <<monitor, lock>>
  <2>1. Lif!TypeOK' /\ LockSound'
    BY <1>1, <1>4 DEF LifeInv, Lif!TypeOK, LockSound
  <2>2. ReleaseSound'
    BY <1>1, <1>2, <1>4 DEF ReleaseSound
  <2> QED BY <1>3, <2>1, <2>2 DEF LifeInv
<1>5. CASE monitor' = "unload" /\ lock' = Append(lock, "unload") /\ UNCHANGED proc
  <2>1. /\ lock' \in Seq(Sessions \cup {"unload"}) /\ DOMAIN lock = 1..Len(lock)
        /\ Len(lock) \in Nat /\ Len(lock') = Len(lock) + 1
        /\ DOMAIN lock' = 1..(Len(lock) + 1) /\ \A i \in 1..Len(lock) : lock'[i] = lock[i]
        /\ lock'[Len(lock) + 1] = "unload"
    BY <1>5, LockIs, Added, "unload" \in Sessions \cup {"unload"}
  <2>2. \A i \in DOMAIN lock : lock[i] # "unload" /\ lock[i] \in Sessions
    BY <1>1, LockIs DEF LifeInv, LockSound
  <2>3. \A i, j \in DOMAIN lock' : lock'[i] = lock'[j] => i = j
    BY <2>1, <2>2 DEF LifeInv, Lif!TypeOK
  <2>4. Lif!TypeOK'
    BY <1>1, <1>5, <2>1, <2>3 DEF LifeInv, Lif!TypeOK
  <2>5. LockSound'
    <3>1. \E i \in DOMAIN lock' : lock'[i] = "unload"
      BY <2>1
    <3>2. \A i, j \in DOMAIN lock' : (i < j /\ lock'[j] = "unload") => ses'[lock'[i]] = "off"
      BY <1>1, <1>2, <2>1, <2>2
    <3> QED BY <1>1, <1>2, <1>5, <3>1, <3>2 DEF LockSound
  <2>6. ReleaseSound'
    BY <1>1, <1>2, <1>5, <2>1 DEF ReleaseSound
  <2> QED BY <1>3, <2>4, <2>5, <2>6 DEF LifeInv
<1> QED BY <1>1, <1>4, <1>5

\* The unload has the lock: nobody decodes, and nobody waits unless the release was
\* overtaken by a session.
LEMMA ModelUnloads ==
  ASSUME LifeInv, Lif!unload
  PROVE  LifeInv'
<1> USE DEF Lif!None, Lif!Unload
<1>1. /\ lock # <<>> /\ Head(lock) = "unload" /\ lock' = Tail(lock) /\ model' = 0
      /\ monitor' = "tick" /\ leftover' = FALSE
      /\ UNCHANGED <<idle_action, gpu, proc, active, released, idle, loads, started, ses, uses,
                     device, on>>
  BY DEF Lif!unload
<1>2. lock[1] = "unload" /\ 1 \in DOMAIN lock /\ monitor = "unload"
        /\ \A i \in DOMAIN lock' : lock'[i] # "unload"
  BY <1>1, HeadLeaves DEF LifeInv, LockSound
<1>3. \A s \in Sessions : ses[s] # "run"
  BY <1>2 DEF LifeInv, LockSound
<1>4. Lif!TypeOK'
  BY <1>1, HeadLeaves DEF LifeInv, Lif!TypeOK
<1>5. LockSound'
  <2>1. \A s \in Sessions : ses'[s] = "load" => \E i \in DOMAIN lock' : lock'[i] = s
    <3> SUFFICES ASSUME NEW s \in Sessions, ses[s] = "load"
                 PROVE  \E i \in DOMAIN lock' : lock'[i] = s
      BY <1>1
    <3>1. PICK i \in DOMAIN lock : lock[i] = s
      BY DEF LifeInv, LockSound
    <3>2. i # 1
      BY <1>2, <3>1, LifeAssumed
    <3> QED BY <1>1, <3>1, <3>2, HeadLeaves
  <2> QED BY <1>1, <1>2, <1>3, <2>1 DEF LockSound
<1>6. ReleaseSound'
  <2> SUFFICES ASSUME released PROVE lock' = <<>>
    BY <1>1 DEF LifeInv, ReleaseSound
  <2>1. lock[Len(lock)] = "unload" /\ Len(lock) \in DOMAIN lock
    BY <1>1, <1>2, HeadLeaves DEF LifeInv, ReleaseSound
  <2>2. Len(lock) = 1
    BY <1>2, <2>1 DEF LifeInv, Lif!TypeOK
  <2> QED BY <1>1, <2>2, HeadLeaves, EmptySeq
<1>7. DeviceSound' /\ Lif!OneModel'
  BY <1>1, <1>3 DEF LifeInv, DeviceSound, Lif!OneModel
<1>8. active' = Cardinality(Counted(ses'))
  BY <1>1 DEF LifeInv
<1> QED BY <1>4, <1>5, <1>6, <1>7, <1>8 DEF LifeInv

\* Time passes, a signal comes, and the process goes down with all it has.
LEMMA ServerEnds ==
  ASSUME LifeInv, Lif!Idles \/ Lif!Signalled \/ Lif!Shutdown
  PROVE  LifeInv'
<1> USE DEF Lif!None, Lif!Unload
<1>1. CASE Lif!Idles \/ Lif!Signalled
  <2>1. /\ UNCHANGED <<idle_action, active, released, monitor, lock, model, loads, started, ses,
                       uses, gpu, device, on, leftover>>
        /\ idle' \in BOOLEAN /\ proc' \in {"serving", "stopping", "down"}
        /\ proc' = "serving" => proc = "serving"
    BY <1>1 DEF LifeInv, Lif!TypeOK, Lif!Idles, Lif!Signalled, Lif!gpuVars
  <2>2. Lif!TypeOK' /\ LockSound' /\ active' = Cardinality(Counted(ses'))
    BY <2>1 DEF LifeInv, Lif!TypeOK, LockSound
  <2>3. ReleaseSound' /\ DeviceSound' /\ Lif!OneModel'
    BY <2>1 DEF LifeInv, ReleaseSound, DeviceSound, Lif!OneModel
  <2> QED BY <2>2, <2>3 DEF LifeInv
<1>2. CASE Lif!Shutdown
  <2>1. /\ proc' = "down" /\ ses' = [s \in Sessions |-> "off"] /\ active' = 0
        /\ uses' = [s \in Sessions |-> 0] /\ on' = [s \in Sessions |-> "none"]
        /\ monitor' = "tick" /\ lock' = <<>> /\ model' = 0
        /\ UNCHANGED <<idle_action, gpu, released, idle, loads, started, device, leftover>>
    BY <1>2 DEF Lif!Shutdown
  <2>2. active' = Cardinality(Counted(ses')) /\ active' \in 0..Cardinality(Sessions)
    BY <2>1, CountBounds, FS_CardinalityType, LifeAssumed
  <2>3. Lif!TypeOK'
    BY <2>1, <2>2, LifeAssumed, EmptySeq DEF LifeInv, Lif!TypeOK
  <2>4. LockSound' /\ ReleaseSound' /\ DeviceSound' /\ Lif!OneModel'
    BY <2>1 DEF LifeInv, LockSound, ReleaseSound, DeviceSound, Lif!OneModel
  <2> QED BY <2>2, <2>3, <2>4 DEF LifeInv
<1> QED BY <1>1, <1>2

\* The server starts with its model or without.
LEMMA LifeStarts ==
  ASSUME Lif!LifecycleInit PROVE LifeInv
<1> USE DEF Lif!None, Lif!Unload
<1>1. /\ idle_action \in {"unload", "exit"} /\ proc = "serving" /\ lock = <<>>
      /\ model \in {0, 1} /\ loads = model /\ gpu \in BOOLEAN
      /\ device = (IF gpu THEN "cuda" ELSE "cpu") /\ leftover = FALSE
      /\ on = [s \in Sessions |-> "none"]
      /\ active = 0 /\ released = FALSE /\ idle = FALSE /\ monitor = "tick" /\ started = 0
      /\ ses = [s \in Sessions |-> "off"] /\ uses = [s \in Sessions |-> 0]
  BY DEF Lif!LifecycleInit
<1>2. active = Cardinality(Counted(ses)) /\ active \in 0..Cardinality(Sessions)
  BY <1>1, CountBounds, FS_CardinalityType, LifeAssumed
<1>3. Lif!TypeOK
  <2>1. lock \in Seq(Sessions \cup {"unload"}) /\ \A i, j \in DOMAIN lock : lock[i] = lock[j] => i = j
    <3>1. DOMAIN lock = 1..0
      BY <1>1, EmptySeq, LenProperties
    <3> QED BY <1>1, <3>1, EmptySeq
  <2>2. /\ on \in [Sessions -> {"none", "cuda", "cpu", "failed", "building"}]
        /\ ses \in [Sessions -> {"off", "load", "run"}] /\ uses \in [Sessions -> Nat]
    BY <1>1
  <2>3. model \in Nat /\ loads \in Nat /\ started \in 0..MaxLoads /\ device \in {"cuda", "cpu"}
    BY <1>1, LifeAssumed
  <2> QED BY <1>1, <1>2, <2>1, <2>2, <2>3, LifeAssumed DEF Lif!TypeOK
<1>4. LockSound /\ ReleaseSound /\ DeviceSound /\ Lif!OneModel
  BY <1>1 DEF LockSound, ReleaseSound, DeviceSound, Lif!OneModel
<1> QED BY <1>2, <1>3, <1>4 DEF LifeInv

\* Every step of the model's life keeps it sound.
LEMMA LifeKeeps ==
  ASSUME LifeInv, Lif!LifecycleNext PROVE LifeInv'
<1>1. ASSUME NEW s \in Sessions,
             \/ Lif!run_session(s) \/ Lif!SessionEnds(s) \/ Lif!SessionCancelled(s)
             \/ Lif!ThreadEnds(s) \/ Lif!_drain(s) \/ Lif!Drained(s) \/ Lif!DrainFails(s)
             \/ Lif!_serve_on_cpu(s) \/ Lif!Built(s)
      PROVE  LifeInv'
  BY <1>1, SessionComes, SessionDone, SessionLeaves, ThreadIsOver, DecodeStarts, DecodeEnds,
     MovesToCpu, BuildEnds
<1>2. CASE Lif!_load_model \/ Lif!LoadFails \/ Lif!maybe_release \/ Lif!unload
  BY <1>2, ModelLoads, LoadRaises, ReleaseStarts, ModelUnloads
<1>3. CASE Lif!Idles \/ Lif!Signalled \/ Lif!Shutdown
  BY <1>3, ServerEnds
<1> QED BY <1>1, <1>2, <1>3 DEF Lif!LifecycleNext

-----------------------------------------------------------------------------
(***************************************************************************)
(* The connection.                                                         *)
(***************************************************************************)

\* What ends the owner's reading.
Ends(e) == e = Tra!TransportError \/ Tra!is_terminal_event(e)

WireSound ==
  /\ queued \in Seq(Nat) /\ Len(wire) <= Len(queued)
  /\ writer # "busy" => writing = <<>>
  /\ Tra!WireInOrder /\ Tra!CommitKnown

\* What is decoded is being sent; nothing that ends the reading was handed on while the
\* pump still runs.
EventsSound ==
  /\ heard \in Seq(Tra!EventItems)
  /\ pumping = "running" => decoded = <<>>
  /\ pumping = "sending" => Len(decoded) = 1
  /\ pumping # "gone" => \A i \in DOMAIN (heard \o events) : ~Ends((heard \o events)[i])
  /\ Tra!TerminalLast

TransInv == Tra!TypeOK /\ WireSound /\ EventsSound

\* What is assumed of this part.
LEMMA TransAssumed == OutCap \in Nat \ {0} /\ EventCap \in Nat \ {0} /\ MaxFrames \in Nat
  BY PartsAssumption

\* The first part of a queue is its beginning.
LEMMA BeginsWith ==
  ASSUME NEW S, NEW p \in Seq(S), NEW q \in Seq(S)
  PROVE  p \o q \in Seq(S) /\ Len(p) <= Len(p \o q) /\ SubSeq(p \o q, 1, Len(p)) = p
<1>1. /\ p \o q \in Seq(S) /\ Len(p \o q) = Len(p) + Len(q) /\ Len(p) \in Nat /\ Len(q) \in Nat
      /\ \A i \in 1..Len(p) + Len(q) : (p \o q)[i] = IF i <= Len(p) THEN p[i] ELSE q[i - Len(p)]
  BY ConcatProperties, LenProperties
<1> DEFINE b == SubSeq(p \o q, 1, Len(p))
<1>2. b \in Seq(S) /\ Len(b) = Len(p) /\ \A i \in 1..Len(p) : b[i] = (p \o q)[i]
  BY <1>1
<1> HIDE DEF b
<1>3. \A i \in 1..Len(b) : b[i] = p[i]
  BY <1>1, <1>2
<1>4. b = p
  BY <1>2, <1>3, SeqEqual
<1> QED BY <1>1, <1>4 DEF b

\* What is queued behind does not change how a queue begins.
LEMMA BeginsTheSame ==
  ASSUME NEW S, NEW q \in Seq(S), NEW e \in S, NEW n \in 0..Len(q)
  PROVE  SubSeq(Append(q, e), 1, n) = SubSeq(q, 1, n)
<1>1. /\ Append(q, e) \in Seq(S) /\ Len(q) \in Nat /\ Len(Append(q, e)) = Len(q) + 1
      /\ \A i \in 1..Len(q) : Append(q, e)[i] = q[i]
  BY Added
<1> DEFINE a == SubSeq(Append(q, e), 1, n)
           b == SubSeq(q, 1, n)
<1>2. /\ a \in Seq(S) /\ Len(a) = n /\ \A i \in 1..n : a[i] = Append(q, e)[i]
      /\ b \in Seq(S) /\ Len(b) = n /\ \A i \in 1..n : b[i] = q[i]
  BY <1>1
<1> HIDE DEF a, b
<1>3. \A i \in 1..Len(a) : a[i] = b[i]
  BY <1>1, <1>2
<1>4. a = b
  BY <1>2, <1>3, SeqEqual
<1> QED BY <1>4 DEF a, b

\* What is taken from the head of one queue is at the end of the one before it.
LEMMA Moves ==
  ASSUME NEW S, NEW q \in Seq(S), q # <<>>
  PROVE  Head(q) \in S /\ Tail(q) \in Seq(S) /\ <<Head(q)>> \o Tail(q) = q
<1>1. /\ Head(q) \in S /\ Head(q) = q[1] /\ Tail(q) \in Seq(S) /\ Len(q) \in Nat \ {0}
      /\ Len(Tail(q)) = Len(q) - 1 /\ \A i \in 1..(Len(q) - 1) : Tail(q)[i] = q[i + 1]
  BY Taken
<1> DEFINE h == <<Head(q)>>
           u == h \o Tail(q)
<1>2. h \in Seq(S) /\ Len(h) = 1 /\ h[1] = q[1]
  BY <1>1
<1> HIDE DEF h
<1>3. u \in Seq(S) /\ Len(u) = Len(q)
        /\ \A i \in 1..Len(q) : u[i] = IF i <= 1 THEN h[i] ELSE Tail(q)[i - 1]
  <2>1. u \in Seq(S) /\ Len(u) = Len(h) + Len(Tail(q))
          /\ \A i \in 1..(Len(h) + Len(Tail(q))) :
               u[i] = IF i <= Len(h) THEN h[i] ELSE Tail(q)[i - Len(h)]
    BY <1>1, <1>2, ConcatProperties
  <2> HIDE DEF u
  <2>2. Len(h) + Len(Tail(q)) = Len(q)
    BY <1>1, <1>2
  <2> QED BY <1>2, <2>1, <2>2
<1> HIDE DEF u
<1>4. \A i \in 1..Len(u) : u[i] = q[i]
  BY <1>1, <1>2, <1>3
<1>5. u = q
  BY <1>3, <1>4, SeqEqual
<1> QED BY <1>1, <1>5 DEF u, h

\* A queue that grows behind another makes the whole grow.
LEMMA AppendsBehind ==
  ASSUME NEW S, NEW p \in Seq(S), NEW q \in Seq(S), NEW e \in S
  PROVE  p \o Append(q, e) = Append(p \o q, e)
<1>1. <<e>> \in Seq(S) /\ Append(q, e) = q \o <<e>> /\ p \o q \in Seq(S)
  BY AppendIsConcat, ConcatProperties
<1>2. Append(p \o q, e) = (p \o q) \o <<e>>
  BY <1>1, AppendIsConcat
<1> QED BY <1>1, <1>2, ConcatAssociative

\* What two queues hold together.
LEMMA HeldTogether ==
  ASSUME NEW S, NEW p \in Seq(S), NEW q \in Seq(S), NEW e
  PROVE  e \in Tra!Range(p \o q) <=> e \in Tra!Range(p) \/ e \in Tra!Range(q)
<1>1. /\ p \o q \in Seq(S) /\ Len(p) \in Nat /\ Len(q) \in Nat
      /\ DOMAIN p = 1..Len(p) /\ DOMAIN q = 1..Len(q)
      /\ DOMAIN (p \o q) = 1..Len(p) + Len(q)
      /\ \A i \in 1..Len(p) + Len(q) : (p \o q)[i] = IF i <= Len(p) THEN p[i] ELSE q[i - Len(p)]
  BY ConcatProperties, LenProperties
<1>2. ASSUME NEW i \in DOMAIN q PROVE i + Len(p) \in DOMAIN (p \o q) /\ (p \o q)[i + Len(p)] = q[i]
  BY <1>1
<1>3. ASSUME NEW i \in DOMAIN p PROVE i \in DOMAIN (p \o q) /\ (p \o q)[i] = p[i]
  BY <1>1
<1>4. ASSUME NEW i \in DOMAIN (p \o q)
      PROVE  \/ i \in DOMAIN p /\ (p \o q)[i] = p[i]
             \/ i - Len(p) \in DOMAIN q /\ (p \o q)[i] = q[i - Len(p)]
  BY <1>1
<1>5. e \in Tra!Range(p \o q) <=> \E i \in DOMAIN (p \o q) : e = (p \o q)[i]
  BY DEF Tra!Range
<1>6. e \in Tra!Range(p) <=> \E i \in DOMAIN p : e = p[i]
  BY DEF Tra!Range
<1>7. e \in Tra!Range(q) <=> \E i \in DOMAIN q : e = q[i]
  BY DEF Tra!Range
<1>8. e \in Tra!Range(p \o q) => e \in Tra!Range(p) \/ e \in Tra!Range(q)
  BY <1>4, <1>5, <1>6, <1>7
<1>9. e \in Tra!Range(p) \/ e \in Tra!Range(q) => e \in Tra!Range(p \o q)
  BY <1>2, <1>3, <1>5, <1>6, <1>7
<1> QED BY <1>8, <1>9

\* Queues in a row, seen in either grouping.
LEMMA Regroup ==
  ASSUME NEW p \in Seq(Nat), NEW q \in Seq(Nat), NEW r \in Seq(Nat)
  PROVE  (p \o q) \o r = p \o (q \o r)
  BY ConcatAssociative, SMTT(30)

\* The wire's side, by what becomes of its queues.
LEMMA WireStands ==
  ASSUME WireSound, UNCHANGED <<wire, writing, writer, outbox, queued, after_commit>>
  PROVE  WireSound'
  BY DEF WireSound, Tra!WireInOrder, Tra!CommitKnown

\* A write completes: what was in flight is on the wire, and the dialect is told.
LEMMA WriteCompletes ==
  ASSUME TransInv, Tra!WriteDone, UNCHANGED queued
  PROVE  WireSound' /\ Tra!TypeOK'
<1>1. /\ writer = "busy" /\ wire' = wire \o writing /\ writing' = <<>> /\ writer' = "idle"
      /\ after_commit' = (after_commit \/ (Ie115 /\ writing = <<Tra!End>>))
      /\ UNCHANGED <<outbox, events, pumping, grace, outbound_open, activity, decoded, frames,
                     answered, abort, sink_held, events_held>>
  BY DEF Tra!WriteDone, Tra!readVars, Tra!ownerVars
<1>2. /\ wire \in Seq(Nat) /\ writing \in Seq(Nat) /\ Len(writing) <= 1 /\ outbox \in Seq(Nat)
      /\ after_commit \in BOOLEAN
  BY DEF TransInv, Tra!TypeOK
<1>3. /\ wire' \in Seq(Nat) /\ writing' \in Seq(Nat) /\ Len(writing') = 0
      /\ (wire \o writing) \o outbox \in Seq(Nat) /\ wire' \o <<>> = wire'
  BY <1>1, <1>2, ConcatProperties, ConcatEmptySeq, EmptySeq
<1>4. (wire \o writing) \o outbox = queued /\ queued' = queued
  BY <1>1 DEF TransInv, WireSound, Tra!WireInOrder
<1>5. Len(wire') <= Len(queued') /\ wire' = SubSeq(queued', 1, Len(wire'))
  <2> DEFINE w == wire \o writing
  <2>1. w \in Seq(Nat)
    BY <1>1, <1>3
  <2>2. w \o outbox = queued' /\ wire' = w
    BY <1>1, <1>4
  <2> HIDE DEF w
  <2>3. Len(w) <= Len(w \o outbox) /\ SubSeq(w \o outbox, 1, Len(w)) = w
    BY <1>2, <2>1, BeginsWith, Zenon
  <2> QED BY <2>2, <2>3, Zenon
<1>6. Tra!WireInOrder'
  BY <1>1, <1>3, <1>4, <1>5 DEF Tra!WireInOrder
<1>7. writing = <<>> \/ writing = <<writing[1]>>
  <2>1. Len(writing) \in Nat
    BY <1>2, LenProperties
  <2>2. \A n \in Nat : n <= 1 => n = 0 \/ n = 1
    OBVIOUS
  <2>3. Len(writing) = 0 \/ Len(writing) = 1
    BY <1>2, <2>1, <2>2
  <2> QED BY <1>2, <2>3, EmptySeq
<1>8. Tra!End \in Tra!Range(writing) <=> writing = <<Tra!End>>
  BY <1>2, <1>7 DEF Tra!Range, Tra!End
<1>9. Tra!CommitKnown'
  <2>1. Tra!End \in Tra!Range(wire') <=> Tra!End \in Tra!Range(wire) \/ writing = <<Tra!End>>
    BY <1>1, <1>2, <1>8, HeldTogether
  <2> QED BY <1>1, <1>2, <2>1 DEF TransInv, WireSound, Tra!CommitKnown
<1>10. Tra!TypeOK'
  BY <1>1, <1>2, <1>3 DEF TransInv, Tra!TypeOK
<1> QED BY <1>1, <1>3, <1>4, <1>5, <1>6, <1>9, <1>10 DEF TransInv, WireSound

\* A write fails: what is on the wire stays.
LEMMA WriteBreaks ==
  ASSUME TransInv, Tra!WriteFails, UNCHANGED queued
  PROVE  WireSound' /\ Tra!TypeOK'
<1>1. /\ writing' = <<>> /\ writer' = "failed" /\ grace' = "running"
      /\ UNCHANGED <<outbox, events, pumping, outbound_open, after_commit, wire, activity,
                     decoded, frames, answered, abort, sink_held, events_held>>
  BY DEF Tra!WriteFails, Tra!readVars, Tra!ownerVars
<1>2. writing' \in Seq(Nat) /\ Len(writing') = 0
  BY <1>1, EmptySeq
<1>3. Tra!TypeOK'
  BY <1>1, <1>2 DEF TransInv, Tra!TypeOK
<1>4. WireSound'
  BY <1>1 DEF TransInv, WireSound, Tra!WireInOrder, Tra!CommitKnown
<1> QED BY <1>3, <1>4

\* The next item of the queue is written.
LEMMA WriteStarts ==
  ASSUME TransInv, Tra!TakeOutbound, UNCHANGED queued
  PROVE  WireSound' /\ Tra!TypeOK'
<1>1. /\ writer = "idle" /\ outbox # <<>> /\ writing' = <<Head(outbox)>> /\ writer' = "busy"
      /\ outbox' = Tail(outbox)
      /\ UNCHANGED <<events, pumping, grace, outbound_open, after_commit, wire, activity,
                     decoded, frames, answered, abort, sink_held, events_held>>
  BY DEF Tra!TakeOutbound, Tra!readVars, Tra!ownerVars
<1>2. /\ wire \in Seq(Nat) /\ writing \in Seq(Nat) /\ outbox \in Seq(Nat)
      /\ Len(outbox) <= OutCap
  BY DEF TransInv, Tra!TypeOK
<1>3. /\ Head(outbox) \in Nat /\ outbox' \in Seq(Nat) /\ writing' \o outbox' = outbox
      /\ Len(outbox') = Len(outbox) - 1 /\ Len(outbox) \in Nat \ {0}
  BY <1>1, <1>2, Moves, Taken
<1>4. writing' \in Seq(Nat) /\ Len(writing') = 1
  BY <1>1, <1>3
<1>5. writing = <<>>
  BY <1>1 DEF TransInv, WireSound
<1>6. (wire \o writing') \o outbox' = queued
  <2>1. (wire \o writing) \o outbox = queued
    BY <1>1 DEF TransInv, WireSound, Tra!WireInOrder
  <2>2. wire \o outbox = queued
    BY <1>2, <1>5, <2>1, ConcatEmptySeq
  <2>3. (wire \o writing') \o outbox' = wire \o (writing' \o outbox')
    <3>1. wire \in Seq(Nat) /\ writing' \in Seq(Nat) /\ outbox' \in Seq(Nat)
      BY <1>2, <1>3, <1>4
    <3> QED BY <3>1, Regroup, ZenonT(30)
  <2> QED BY <1>3, <2>2, <2>3
<1>7. Tra!TypeOK'
  BY <1>1, <1>2, <1>3, <1>4, TransAssumed DEF TransInv, Tra!TypeOK
<1>8. WireSound'
  BY <1>1, <1>6 DEF TransInv, WireSound, Tra!WireInOrder, Tra!CommitKnown
<1> QED BY <1>7, <1>8

\* The owner queues an item.
LEMMA OwnerQueues ==
  ASSUME TransInv, NEW item \in Nat, Tra!Queue(item)
  PROVE  WireSound' /\ Tra!TypeOK' /\ UNCHANGED <<heard, events, pumping, decoded>>
<1>1. /\ Len(outbox) < OutCap /\ outbox' = Append(outbox, item) /\ queued' = Append(queued, item)
      /\ UNCHANGED <<events, pumping, writing, writer, grace, outbound_open, after_commit, wire,
                     activity, decoded, frames, answered, abort, sink_held, events_held, heard>>
  BY DEF Tra!Queue, Tra!Permit, Tra!writeVars, Tra!readVars, Tra!ownerVars
<1>2. /\ wire \in Seq(Nat) /\ writing \in Seq(Nat) /\ outbox \in Seq(Nat) /\ queued \in Seq(Nat)
      /\ Len(wire) <= Len(queued)
  BY DEF TransInv, Tra!TypeOK, WireSound
<1>3. /\ outbox' \in Seq(Nat) /\ Len(outbox') = Len(outbox) + 1 /\ Len(outbox) \in Nat
      /\ queued' \in Seq(Nat) /\ Len(queued') = Len(queued) + 1 /\ Len(queued) \in Nat
      /\ Len(wire) \in Nat
  BY <1>1, <1>2, Added, LenProperties
<1>4. wire' = SubSeq(queued', 1, Len(wire'))
  BY <1>1, <1>2, <1>3, BeginsTheSame DEF TransInv, WireSound, Tra!WireInOrder
<1>5. writer # "failed" => (wire \o writing) \o outbox' = queued'
  <2>1. writer # "failed" => (wire \o writing) \o outbox = queued
    BY DEF TransInv, WireSound, Tra!WireInOrder
  <2>2. wire \o writing \in Seq(Nat)
    BY <1>2, ConcatProperties
  <2>3. (wire \o writing) \o Append(outbox, item) = Append((wire \o writing) \o outbox, item)
    BY <1>2, <2>2, AppendsBehind, SMTT(30)
  <2> QED BY <1>1, <2>1, <2>3
<1>6. Tra!TypeOK'
  BY <1>1, <1>2, <1>3, TransAssumed DEF TransInv, Tra!TypeOK
<1>7. WireSound'
  <2>1. Len(wire') <= Len(queued') /\ (writer' # "busy" => writing' = <<>>)
    BY <1>1, <1>2, <1>3 DEF TransInv, WireSound
  <2>2. Tra!WireInOrder' /\ Tra!CommitKnown'
    BY <1>1, <1>4, <1>5 DEF TransInv, WireSound, Tra!WireInOrder, Tra!CommitKnown
  <2> QED BY <1>3, <2>1, <2>2 DEF WireSound
<1> QED BY <1>1, <1>6, <1>7

\* A queue behind which one item is put.
LEMMA HandedOn ==
  ASSUME NEW S, NEW a \in Seq(S), NEW d \in Seq(S), Len(d) = 1, NEW n \in Seq(S), n = a \o d
  PROVE  /\ Len(a) \in Nat /\ DOMAIN a = 1..Len(a) /\ Len(n) = Len(a) + 1
         /\ \A i \in 1..Len(a) : n[i] = a[i]
         /\ n[Len(a) + 1] = d[1]
<1>1. Len(a) \in Nat /\ DOMAIN a = 1..Len(a)
  BY LenProperties
<1>2. /\ Len(n) = Len(a) + Len(d)
      /\ \A i \in 1..Len(a) + Len(d) : n[i] = IF i <= Len(a) THEN a[i] ELSE d[i - Len(a)]
  BY ConcatProperties
<1>3. \A i \in 1..Len(a) : n[i] = a[i]
  BY <1>1, <1>2
<1>4. n[Len(a) + 1] = d[1]
  BY <1>1, <1>2
<1> QED BY <1>1, <1>2, <1>3, <1>4

\* The pump goes on without handing anything on, or ends.
LEMMA EventsStand ==
  ASSUME TransInv, UNCHANGED <<heard, events>>,
         \/ UNCHANGED <<pumping, decoded>>
         \/ /\ pumping # "gone"
            /\ \/ pumping' = "gone"
               \/ pumping' = "running" /\ decoded' = <<>>
               \/ pumping' = "sending" /\ Len(decoded') = 1
  PROVE  EventsSound'
<1>1. (heard \o events)' = heard \o events
  OBVIOUS
<1> QED BY <1>1 DEF TransInv, EventsSound, Tra!TerminalLast, Ends

\* Where the brackets are does not matter to events either.
LEMMA EventsRegroup ==
  ASSUME NEW p \in Seq(Tra!EventItems), NEW q \in Seq(Tra!EventItems), NEW r \in Seq(Tra!EventItems)
  PROVE  p \o (q \o r) = (p \o q) \o r
  BY ConcatAssociative, SMTT(30)

\* Two queues of events are one.
LEMMA EventsJoin ==
  ASSUME NEW p \in Seq(Tra!EventItems), NEW q \in Seq(Tra!EventItems)
  PROVE  p \o q \in Seq(Tra!EventItems)
  BY ConcatProperties

\* What was decoded is handed on, or nobody listens.
LEMMA EventSent ==
  ASSUME TransInv, Tra!SendEvent, UNCHANGED heard
  PROVE  EventsSound' /\ Tra!TypeOK'
<1>1. /\ pumping = "sending" /\ (~events_held \/ Len(events) < EventCap)
      /\ events' = (IF events_held THEN events \o decoded ELSE events)
      /\ pumping' = (IF ~events_held \/ Ends(decoded[1]) THEN "gone" ELSE "running")
      /\ decoded' = <<>>
      /\ UNCHANGED <<outbox, writing, writer, grace, outbound_open, after_commit, wire,
                     activity, frames, answered, abort, sink_held, events_held>>
  BY DEF Tra!SendEvent, Tra!writeVars, Tra!ownerVars, Ends
<1>2. /\ events \in Seq(Tra!EventItems) /\ decoded \in Seq(Tra!EventItems) /\ Len(decoded) = 1
      /\ heard \in Seq(Tra!EventItems) /\ Len(events) \in Nat
  BY <1>1, LenProperties DEF TransInv, Tra!TypeOK, EventsSound
<1>3. decoded' \in Seq(Tra!EventItems) /\ Len(decoded') = 0
  BY <1>1, EmptySeq
<1>4. ~events_held => EventsSound'
  <2> SUFFICES ASSUME ~events_held PROVE EventsSound'
    OBVIOUS
  <2>1. UNCHANGED <<heard, events>> /\ pumping' = "gone"
    BY <1>1
  <2> QED BY <1>1, <2>1, EventsStand
<1>5. ASSUME events_held PROVE EventsSound'
  <2> DEFINE all == heard \o events
             new == heard \o (events \o decoded)
  <2>0. new = all \o decoded /\ all \in Seq(Tra!EventItems) /\ new \in Seq(Tra!EventItems)
    <3>1. all \in Seq(Tra!EventItems) /\ new = all \o decoded
      BY <1>2, EventsRegroup, EventsJoin
    <3> HIDE DEF all, new
    <3>2. all \o decoded \in Seq(Tra!EventItems)
      BY <1>2, <3>1, EventsJoin
    <3> QED BY <3>1, <3>2
  <2>2. (heard \o events)' = new
    BY <1>1, <1>5
  <2>3. \A i \in DOMAIN all : ~Ends(all[i])
    BY <1>1 DEF TransInv, EventsSound
  <2> HIDE DEF all, new
  <2>1. /\ Len(all) \in Nat /\ DOMAIN all = 1..Len(all) /\ Len(new) = Len(all) + 1
        /\ DOMAIN new = 1..(Len(all) + 1) /\ \A i \in 1..Len(all) : new[i] = all[i]
        /\ new[Len(all) + 1] = decoded[1]
    <3>1. Len(all) \in Nat /\ DOMAIN all = 1..Len(all)
      BY <2>0, LenProperties
    <3>4. Len(new) = Len(all) + 1
      <4>1. Len(all \o decoded) = Len(all) + Len(decoded)
        BY <1>2, <2>0, ConcatProperties
      <4> QED BY <1>2, <2>0, <4>1
    <3>5. new[Len(all) + 1] = decoded[1]
      BY <1>2, <2>0, HandedOn
    <3>2. \A i \in 1..Len(all) : new[i] = all[i]
      BY <1>2, <2>0, HandedOn
    <3>3. DOMAIN new = 1..Len(new)
      BY <2>0, LenProperties
    <3> QED BY <3>1, <3>2, <3>3, <3>4, <3>5
  <2>4. \A i \in DOMAIN new : Ends(new[i]) => i = Len(new) /\ Ends(decoded[1])
    <3> SUFFICES ASSUME NEW i \in DOMAIN new, Ends(new[i])
                 PROVE  i = Len(new) /\ Ends(decoded[1])
      OBVIOUS
    <3>1. i \notin 1..Len(all)
      BY <2>1, <2>3
    <3>2. i = Len(all) + 1
      BY <2>1, <3>1
    <3> QED BY <2>1, <3>2
  <2>5. Tra!TerminalLast'
    BY <1>1, <1>5, <2>2, <2>4 DEF Tra!TerminalLast, Ends
  <2>6. pumping' # "gone" => \A i \in DOMAIN new : ~Ends(new[i])
    BY <1>1, <1>5, <2>4
  <2>7. heard' \in Seq(Tra!EventItems) /\ (pumping' = "gone" \/ pumping' = "running")
    BY <1>1, <1>2
  <2> QED BY <1>1, <2>2, <2>5, <2>6, <2>7 DEF EventsSound
<1>6. events' \in Seq(Tra!EventItems) /\ Len(events') <= EventCap
  <2>1. CASE ~events_held
    BY <1>1, <2>1 DEF TransInv, Tra!TypeOK
  <2>2. CASE events_held
    <3>1. /\ events \o decoded \in Seq(Tra!EventItems)
          /\ Len(events \o decoded) = Len(events) + Len(decoded)
      BY <1>2, ConcatProperties
    <3>2. Len(events) + 1 <= EventCap
      BY <1>1, <1>2, <2>2, TransAssumed
    <3> QED BY <1>1, <1>2, <2>2, <3>1, <3>2
  <2> QED BY <2>1, <2>2
<1>7. Tra!TypeOK'
  BY <1>1, <1>3, <1>6 DEF TransInv, Tra!TypeOK
<1> QED BY <1>4, <1>5, <1>7

\* The owner reads an event: it has heard it instead of having it to hear.
LEMMA OwnerHears ==
  ASSUME TransInv, Tra!Hear
  PROVE  TransInv'
<1>1. /\ events # <<>> /\ events' = Tail(events) /\ heard' = Append(heard, Head(events))
      /\ UNCHANGED <<outbox, pumping, writing, writer, grace, outbound_open, after_commit, wire,
                     activity, decoded, frames, answered, abort, sink_held, events_held, queued>>
  BY DEF Tra!Hear, Tra!RecvEvent, Tra!writeVars, Tra!readVars, Tra!ownerVars
<1>2. /\ events \in Seq(Tra!EventItems) /\ heard \in Seq(Tra!EventItems)
      /\ Len(events) <= EventCap
  BY DEF TransInv, Tra!TypeOK, EventsSound
<1>3. /\ Head(events) \in Tra!EventItems /\ events' \in Seq(Tra!EventItems)
      /\ Len(events') = Len(events) - 1 /\ Len(events) \in Nat \ {0}
      /\ <<Head(events)>> \o Tail(events) = events
  BY <1>1, <1>2, Moves, Taken
<1>4. heard' \in Seq(Tra!EventItems) /\ heard' = heard \o <<Head(events)>>
        /\ <<Head(events)>> \in Seq(Tra!EventItems)
  BY <1>1, <1>2, <1>3, AppendIsConcat, Added
<1>5. (heard \o events)' = heard \o events
  <2>1. (heard \o <<Head(events)>>) \o Tail(events) = heard \o (<<Head(events)>> \o Tail(events))
    BY <1>1, <1>2, <1>3, <1>4, ConcatAssociative
  <2> QED BY <1>1, <1>3, <1>4, <2>1
<1>6. EventsSound'
  BY <1>1, <1>4, <1>5 DEF TransInv, EventsSound, Tra!TerminalLast, Ends
<1>7. Tra!TypeOK'
  BY <1>1, <1>2, <1>3, TransAssumed DEF TransInv, Tra!TypeOK
<1> QED BY <1>1, <1>6, <1>7, WireStands DEF TransInv

\* The owner drops the session, and what it has not heard with it.
LEMMA OwnerDrops ==
  ASSUME TransInv, Tra!Drop
  PROVE  TransInv'
<1>1. /\ sink_held' = FALSE /\ events_held' = FALSE /\ events' = <<>>
      /\ UNCHANGED <<outbox, pumping, writing, writer, grace, outbound_open, after_commit, wire,
                     activity, decoded, frames, answered, abort, queued, heard>>
  BY DEF Tra!Drop, Tra!DropSession, Tra!writeVars, Tra!readVars
<1>2. events \in Seq(Tra!EventItems) /\ heard \in Seq(Tra!EventItems)
  BY DEF TransInv, Tra!TypeOK, EventsSound
<1>3. (heard \o events)' = heard /\ events' \in Seq(Tra!EventItems) /\ Len(events') = 0
  BY <1>1, <1>2, ConcatEmptySeq, EmptySeq
<1> DEFINE all == heard \o events
<1>4. /\ DOMAIN heard = 1..Len(heard) /\ Len(heard) \in Nat /\ Len(events) \in Nat
      /\ DOMAIN all = 1..Len(all) /\ Len(all) = Len(heard) + Len(events)
      /\ \A i \in 1..Len(heard) : all[i] = heard[i]
  BY <1>2, ConcatProperties, LenProperties
<1>5. \A i \in DOMAIN heard : i \in DOMAIN all /\ all[i] = heard[i]
  BY <1>4
<1>6. \A i \in DOMAIN all : Ends(all[i]) => i = Len(all) /\ pumping = "gone" /\ decoded = <<>>
  BY DEF TransInv, EventsSound, Tra!TerminalLast, Ends
<1>7. pumping # "gone" => \A i \in DOMAIN all : ~Ends(all[i])
  BY DEF TransInv, EventsSound
<1> HIDE DEF all
<1>8. ASSUME NEW i \in DOMAIN heard, Ends(heard[i])
      PROVE  i = Len(heard) /\ pumping = "gone" /\ decoded = <<>>
  <2>1. i = Len(all) /\ pumping = "gone" /\ decoded = <<>>
    BY <1>5, <1>6, <1>8
  <2>2. i \in 1..Len(heard)
    BY <1>4, <1>8
  <2>3. \A n, k \in Nat : \A j \in 1..n : j = n + k => j = n
    OBVIOUS
  <2> QED BY <1>4, <2>1, <2>2, <2>3
<1>9. Tra!TerminalLast'
  BY <1>1, <1>3, <1>8 DEF Tra!TerminalLast, Ends
<1>10. pumping' # "gone" => \A i \in DOMAIN heard : ~Ends(heard[i])
  BY <1>1, <1>8
<1>11. EventsSound'
  BY <1>1, <1>2, <1>3, <1>9, <1>10 DEF TransInv, EventsSound
<1>12. Tra!TypeOK'
  <2>1. Len(events') <= EventCap
    BY <1>3, TransAssumed
  <2> QED BY <1>1, <1>3, <2>1 DEF TransInv, Tra!TypeOK
<1> QED BY <1>1, <1>11, <1>12, WireStands DEF TransInv

\* A frame stands for one event or for none.
LEMMA FrameIs ==
  ASSUME NEW frame
  PROVE  /\ Tra!decode(frame) \in Seq(Tra!EventItems)
         /\ Tra!decode(frame) = <<>> \/ Len(Tra!decode(frame)) = 1
<1> DEFINE done == [type |-> "done"]
           items == {Tra!Progress("preparing", FALSE, FALSE), Tra!Progress("ready", FALSE, FALSE),
                     Tra!Progress("transcribing", TRUE, FALSE), Tra!Progress("ready", FALSE, TRUE),
                     [type |-> "committed"], [type |-> "unstable"], [type |-> "error"], done,
                     Tra!TransportError}
<1>1. items \subseteq Tra!EventItems
  BY DEF Tra!EventItems, Tra!TranscriptionEvents, Tra!Progress, Tra!Phases
<1>2. Tra!decode(frame) = <<>> \/ \E e \in items : Tra!decode(frame) = <<e>>
  BY DEF Tra!decode
<1> HIDE DEF items
<1>3. ASSUME NEW e \in items PROVE <<e>> \in Seq(Tra!EventItems) /\ Len(<<e>>) = 1
  BY <1>1
<1> QED BY <1>2, <1>3, EmptySeq

\* The frames of the peer, and the pump's other steps.
LEMMA PumpGoesOn ==
  ASSUME TransInv, UNCHANGED <<queued, heard>>,
         \/ Tra!PumpAborted \/ Tra!GraceEnds \/ Tra!OutOfGrace \/ Tra!OutboundCloses
         \/ Tra!PumpCancelled \/ Tra!ReadClose \/ Tra!ReadError
         \/ \E frame \in PeerFrames : Tra!ReadFrame(frame)
  PROVE  TransInv'
<1>1. /\ UNCHANGED <<outbox, events, writing, writer, after_commit, wire, abort, sink_held,
                     events_held>>
      /\ grace' \in {"off", "running", "over"} /\ outbound_open' \in BOOLEAN
      /\ activity' \in BOOLEAN /\ answered' \in {"no", "early", "proper"}
      /\ frames' \in 0..MaxFrames
      /\ decoded' \in Seq(Tra!EventItems)
      /\ \/ UNCHANGED <<pumping, decoded>>
         \/ /\ pumping # "gone"
            /\ \/ pumping' = "gone" /\ decoded' = decoded
               \/ pumping' = "running" /\ decoded' = <<>>
               \/ pumping' = "sending" /\ Len(decoded') = 1
  <2> USE DEF Tra!Running, Tra!writeVars, Tra!readVars, Tra!ownerVars
  <2>1. Tra!TypeOK
    BY DEF TransInv
  <2>2. <<Tra!TransportError>> \in Seq(Tra!EventItems) /\ Len(<<Tra!TransportError>>) = 1
    BY DEF Tra!EventItems
  <2>3. CASE Tra!PumpAborted \/ Tra!PumpCancelled \/ Tra!ReadClose
    BY <2>1, <2>3 DEF Tra!TypeOK, Tra!PumpAborted, Tra!PumpCancelled, Tra!ReadClose
  <2>4. CASE Tra!GraceEnds \/ Tra!OutboundCloses
    BY <2>1, <2>4 DEF Tra!TypeOK, Tra!GraceEnds, Tra!OutboundCloses
  <2>5. CASE Tra!OutOfGrace \/ Tra!ReadError
    BY <2>1, <2>2, <2>5 DEF Tra!TypeOK, Tra!OutOfGrace, Tra!ReadError
  <2>6. ASSUME NEW frame \in PeerFrames, Tra!ReadFrame(frame)
        PROVE  /\ UNCHANGED <<outbox, events, writing, writer, after_commit, wire, abort, sink_held,
                              events_held, grace, outbound_open>>
               /\ activity' \in BOOLEAN /\ answered' \in {"no", "early", "proper"}
               /\ frames' \in 0..MaxFrames /\ decoded' \in Seq(Tra!EventItems)
               /\ pumping = "running"
               /\ \/ pumping' = "running" /\ decoded' = <<>>
                  \/ pumping' = "sending" /\ Len(decoded') = 1
    <3>1. frames' \in 0..MaxFrames /\ answered' \in {"no", "early", "proper"}
      BY <2>1, <2>6, TransAssumed DEF Tra!TypeOK, Tra!ReadFrame
    <3>2. /\ decoded' = Tra!decode(frame) /\ activity' = TRUE /\ pumping = "running"
          /\ pumping' = (IF Tra!decode(frame) = <<>> THEN "running" ELSE "sending")
      BY <2>6 DEF Tra!ReadFrame
    <3> QED BY <2>6, <3>1, <3>2, FrameIs DEF Tra!ReadFrame
  <2>7. CASE \E frame \in PeerFrames : Tra!ReadFrame(frame)
    BY <2>1, <2>6, <2>7 DEF Tra!TypeOK
  <2> QED BY <2>3, <2>4, <2>5, <2>7
<1>2. pumping' \in {"running", "sending", "gone"} /\ Len(decoded') <= 1
  <2>1. pumping \in {"running", "sending", "gone"} /\ Len(decoded) <= 1
    BY DEF TransInv, Tra!TypeOK
  <2>2. decoded' = <<>> => Len(decoded') = 0
    BY EmptySeq
  <2>3. Len(decoded') <= 1
    BY <1>1, <2>1, <2>2, 0 <= 1, 1 <= 1
  <2> QED BY <1>1, <2>1, <2>3
<1>3. Tra!TypeOK'
  BY <1>1, <1>2 DEF TransInv, Tra!TypeOK
<1>4. WireSound'
  BY <1>1, WireStands DEF TransInv
<1>5. EventsSound'
  BY <1>1, EventsStand
<1> QED BY <1>3, <1>4, <1>5 DEF TransInv

\* Every step of the connection and of its owner keeps it sound.
LEMMA TransKeeps ==
  ASSUME TransInv, Tra!Next PROVE TransInv'
<1>1. CASE (Tra!WriteDone \/ Tra!WriteFails \/ Tra!TakeOutbound) /\ Tra!OwnerFrame
  <2>1. WireSound' /\ Tra!TypeOK'
    BY <1>1, WriteCompletes, WriteBreaks, WriteStarts DEF Tra!OwnerFrame
  <2>2. UNCHANGED <<heard, events, pumping, decoded>>
    BY <1>1 DEF Tra!OwnerFrame, Tra!WriteDone, Tra!WriteFails, Tra!TakeOutbound, Tra!readVars
  <2> QED BY <2>1, <2>2, EventsStand DEF TransInv
<1>2. CASE Tra!SendEvent /\ Tra!OwnerFrame
  <2>1. UNCHANGED <<wire, writing, writer, outbox, queued, after_commit>>
    BY <1>2 DEF Tra!OwnerFrame, Tra!SendEvent, Tra!writeVars
  <2> QED BY <1>2, <2>1, EventSent, WireStands DEF TransInv, Tra!OwnerFrame
<1>3. CASE /\ Tra!OwnerFrame
           /\ \/ Tra!PumpAborted \/ Tra!GraceEnds \/ Tra!OutOfGrace \/ Tra!OutboundCloses
              \/ Tra!PumpCancelled \/ Tra!ReadClose \/ Tra!ReadError
              \/ \E frame \in PeerFrames : Tra!ReadFrame(frame)
  BY <1>3, PumpGoesOn DEF Tra!OwnerFrame
<1>4. CASE Tra!QueueNext
  <2>1. PICK item \in Nat : Tra!Queue(item)
    <3>1. Len(queued) + 1 \in Nat /\ Tra!End \in Nat
      BY LenProperties DEF TransInv, WireSound, Tra!End
    <3> QED BY <1>4, <3>1 DEF Tra!QueueNext
  <2> QED BY <2>1, OwnerQueues, EventsStand DEF TransInv
<1>5. CASE Tra!Hear \/ Tra!Drop
  BY <1>5, OwnerHears, OwnerDrops
<1>6. CASE Tra!SendAbort \/ Tra!DropSink
  <2>1. /\ UNCHANGED <<outbox, events, pumping, writing, writer, grace, outbound_open,
                       after_commit, wire, activity, decoded, frames, answered, events_held,
                       queued, heard>>
        /\ abort' \in BOOLEAN /\ sink_held' \in BOOLEAN
    BY <1>6 DEF TransInv, Tra!TypeOK, Tra!SendAbort, Tra!DropSink, Tra!writeVars, Tra!readVars
  <2>2. Tra!TypeOK'
    BY <2>1 DEF TransInv, Tra!TypeOK
  <2> QED BY <2>1, <2>2, WireStands, EventsStand DEF TransInv
<1> QED BY <1>1, <1>2, <1>3, <1>4, <1>5, <1>6 DEF Tra!Next, Tra!PumpStep, Tra!PeerStep

\* A connection starts with nothing on it.
LEMMA TransStarts == ASSUME Tra!Init PROVE TransInv
<1>1. /\ outbox = <<>> /\ abort = FALSE /\ events = <<>> /\ activity = FALSE
      /\ pumping = "running" /\ decoded = <<>> /\ writing = <<>> /\ writer = "idle"
      /\ grace = "off" /\ outbound_open = TRUE /\ after_commit = FALSE /\ wire = <<>> /\ frames = 0
      /\ answered = "no" /\ sink_held = TRUE /\ events_held = TRUE /\ queued = <<>> /\ heard = <<>>
  BY DEF Tra!Init, Tra!TransportInit
<1>2. \A S : <<>> \in Seq(S) /\ Len(<<>>) = 0 /\ <<>> \o <<>> = <<>>
  BY EmptySeq, ConcatEmptySeq
<1>3. DOMAIN <<>> = {} /\ SubSeq(<<>>, 1, 0) = <<>>
  OBVIOUS
<1>4. Tra!TypeOK
  <2>0. 0 <= OutCap /\ 0 <= EventCap /\ 0 <= 1 /\ 0 \in 0..MaxFrames
    BY TransAssumed
  <2>1. /\ outbox \in Seq(Nat) /\ Len(outbox) <= OutCap /\ writing \in Seq(Nat) /\ Len(writing) <= 1
        /\ wire \in Seq(Nat)
    BY <1>1, <1>2, <2>0
  <2>2. /\ events \in Seq(Tra!EventItems) /\ Len(events) <= EventCap
        /\ decoded \in Seq(Tra!EventItems) /\ Len(decoded) <= 1
    BY <1>1, <1>2, <2>0
  <2>3. frames \in 0..MaxFrames /\ abort \in BOOLEAN /\ activity \in BOOLEAN
    BY <1>1, <2>0
  <2> QED BY <1>1, <2>1, <2>2, <2>3 DEF Tra!TypeOK
<1>5. WireSound
  BY <1>1, <1>2, <1>3 DEF WireSound, Tra!WireInOrder, Tra!CommitKnown, Tra!Range
<1>6. EventsSound
  BY <1>1, <1>2, <1>3 DEF EventsSound, Tra!TerminalLast
<1> QED BY <1>4, <1>5, <1>6 DEF TransInv

-----------------------------------------------------------------------------
(***************************************************************************)
(* The HUD's window.                                                       *)
(***************************************************************************)

\* The window is to be hidden exactly in idle, a hidden one fades, and the pill shows what
\* it was told unless that was idle.
PillInv ==
  /\ Pil!TypeOK
  /\ pill \in [shows : Visible \cup {"idle"}, due : BOOLEAN,
               clock : {"none", "never", "running", "ending", "over"}]
  /\ win \in [mapped : BOOLEAN, pending_hidden : BOOLEAN, fade : BOOLEAN,
              late : BOOLEAN, mapping : BOOLEAN, cut : BOOLEAN]
  /\ win.pending_hidden <=> given = "idle"
  /\ win.mapped /\ win.pending_hidden => win.fade
  /\ given # "idle" => pill.shows = given /\ (win.mapped \/ win.mapping \/ win.cut)

\* It holds at first.
LEMMA PillStarts == Pil!PillInit => PillInv
  BY DEF Pil!PillInit, PillInv, Pil!TypeOK

\* Being told a state keeps it.
LEMMA PillTold ==
  ASSUME PillInv, NEW s \in Visible \cup {"idle"}, Pil!apply_descriptor(s)
  PROVE  PillInv'
<1> USE DEF Pil!apply_descriptor, Pil!set_hidden_faded
<1>1. given' = s /\ given' \in Visible \cup {"idle"}
  OBVIOUS
<1>2. /\ pill' \in [shows : Visible \cup {"idle"}, due : BOOLEAN,
                    clock : {"none", "never", "running", "ending", "over"}]
      /\ pill'.due => pill'.clock \in {"running", "ending", "over"}
      /\ s # "idle" => pill'.shows = s
  BY DEF PillInv, Pil!TypeOK, Pil!is_showing, Pil!hold
<1>3. CASE s = "idle"
  <2>1. win' = [win EXCEPT !.pending_hidden = TRUE, !.fade = @ \/ win.mapped]
    BY <1>3
  <2>2. /\ win' \in [mapped : BOOLEAN, pending_hidden : BOOLEAN, fade : BOOLEAN,
                     late : BOOLEAN, mapping : BOOLEAN, cut : BOOLEAN]
        /\ win'.pending_hidden /\ (win'.mapped => win'.fade)
    BY <2>1 DEF PillInv
  <2> QED BY <1>1, <1>2, <1>3, <2>2 DEF PillInv, Pil!TypeOK
<1>4. CASE s # "idle"
  <2>1. win' = [win EXCEPT !.pending_hidden = FALSE, !.mapping = @ \/ ~win.mapped]
    BY <1>4
  <2>2. /\ win' \in [mapped : BOOLEAN, pending_hidden : BOOLEAN, fade : BOOLEAN,
                     late : BOOLEAN, mapping : BOOLEAN, cut : BOOLEAN]
        /\ ~win'.pending_hidden /\ (win'.mapped \/ win'.mapping)
    BY <2>1 DEF PillInv
  <2> QED BY <1>1, <1>2, <1>4, <2>2 DEF PillInv, Pil!TypeOK
<1> QED BY <1>3, <1>4

\* So do the clocks, the fades and the map.
LEMMA PillRuns ==
  ASSUME PillInv,
         \/ Pil!set_hud_style \/ Pil!HoldPasses \/ Pil!HoldDue
         \/ Pil!Faded \/ Pil!FadedLate \/ Pil!map_faded
  PROVE  PillInv'
<1>1. CASE Pil!set_hud_style
  BY <1>1 DEF PillInv, Pil!TypeOK, Pil!set_hud_style, Pil!hold
<1>2. CASE Pil!HoldPasses
  BY <1>2 DEF PillInv, Pil!TypeOK, Pil!HoldPasses
<1>3. CASE Pil!HoldDue
  <2> DEFINE d == Pil!is_showing
  <2>1. /\ d \in BOOLEAN /\ pill.clock \in {"ending", "over"} /\ UNCHANGED given
        /\ pill' = [pill EXCEPT !.due = d] /\ win' = [win EXCEPT !.late = @ \/ d]
    BY <1>3 DEF Pil!HoldDue, Pil!is_showing
  <2> HIDE DEF d
  <2>2. /\ pill' \in [shows : Visible \cup {"idle"}, due : BOOLEAN,
                      clock : {"none", "never", "running", "ending", "over"}]
        /\ pill'.clock = pill.clock /\ pill'.shows = pill.shows
    BY <2>1 DEF PillInv
  <2>3. /\ win' \in [mapped : BOOLEAN, pending_hidden : BOOLEAN, fade : BOOLEAN,
                     late : BOOLEAN, mapping : BOOLEAN, cut : BOOLEAN]
        /\ win'.mapped = win.mapped /\ win'.pending_hidden = win.pending_hidden
        /\ win'.fade = win.fade /\ win'.mapping = win.mapping /\ win'.cut = win.cut
    BY <2>1 DEF PillInv
  <2> QED BY <2>1, <2>2, <2>3 DEF PillInv, Pil!TypeOK
<1>4. CASE Pil!Faded
  BY <1>4 DEF PillInv, Pil!TypeOK, Pil!Faded
<1>5. CASE Pil!FadedLate
  BY <1>5 DEF PillInv, Pil!TypeOK, Pil!FadedLate
<1>6. CASE Pil!map_faded
  BY <1>6 DEF PillInv, Pil!TypeOK, Pil!map_faded
<1> QED BY <1>1, <1>2, <1>3, <1>4, <1>5, <1>6

\* Every step of the window keeps it.
LEMMA PillKeeps == ASSUME PillInv, Pil!PillNext PROVE PillInv'
  BY PillTold, PillRuns DEF Pil!PillNext

-----------------------------------------------------------------------------
(***************************************************************************)
(* How the HUD hears of the daemon.                                        *)
(***************************************************************************)

BusPairs == [state : Showable \cup {"idle", ""}, label : Showable \cup {""}]

BusTypes ==
  /\ pub \in [up : BOOLEAN, served : BusPairs, next : SUBSET (Showable \cup {"idle"}),
              changes : Nat]
  /\ worker \in [at : {"start", "first", "spawned", "watching"}, names : Seq(BOOLEAN),
                 hand : SUBSET BusPairs]
  /\ props \in [on : BOOLEAN, push : BOOLEAN, hand : SUBSET BusPairs]
  /\ cons \in [available : BOOLEAN, last : BusPairs]
  /\ unseen \subseteq {"name", "value"}
  /\ Bus!TypeOK

\* What is so before a thread has subscribed.
BusStart ==
  /\ worker.at = "start" => worker.hand = {} /\ ~cons.available
  /\ worker.at # "watching" => worker.names = <<>>
  /\ worker.at = "spawned" => worker.hand = {}
  /\ worker.at \in {"start", "first"} => ~props.on
  /\ ~props.on => ~props.push /\ props.hand = {}
  /\ ~cons.available => cons.last \in {Bus!Blank, Bus!Pair("idle")}

Subscribed == worker.at \in {"spawned", "watching"}
Caught == worker.names = <<>> /\ worker.hand = {} /\ Subscribed  \* up with the names

\* The newest name is the daemon's, and with all of them read the HUD knows whether
\* there is one.
NamesSound ==
  "name" \notin unseen =>
    /\ worker.names # <<>> => worker.names[Len(worker.names)] = pub.up
    /\ worker.names = <<>> /\ worker.hand # {} => pub.up
    /\ Caught => cons.available = pub.up

\* A snapshot that no push will replace is of what is served, and so is what was applied.
ValuesSound ==
  unseen = {} /\ pub.up =>
    /\ worker.names = <<>> => worker.hand \subseteq {pub.served}
    /\ props.push \/ props.hand \subseteq {pub.served}
    /\ Caught => \/ props.push \/ props.hand = {pub.served}
                 \/ props.hand = {} /\ cons.last = pub.served

BusInv == BusTypes /\ BusStart /\ NamesSound /\ ValuesSound

\* A pair and a blank are pairs.
LEMMA PairIs ==
  /\ Bus!Blank \in BusPairs /\ Bus!Pair("idle") \in BusPairs
  /\ Bus!Pair("idle").state = "idle"
  /\ \A s \in Showable \cup {"idle"} : Bus!Pair(s) \in BusPairs /\ Bus!Pair(s).label \in Showable \cup {""}
  BY DEF Bus!Blank, Bus!Pair, BusPairs

\* It holds at first.
LEMMA BusStarts == Bus!HudBusInit => BusInv
<1> SUFFICES ASSUME Bus!HudBusInit PROVE BusInv
  OBVIOUS
<1>1. PICK b \in BOOLEAN : pub = [up |-> b, served |-> Bus!Pair("idle"), next |-> {}, changes |-> 0]
  BY DEF Bus!HudBusInit
<1>2. /\ worker = [at |-> "start", names |-> <<>>, hand |-> {}]
      /\ props = [on |-> FALSE, push |-> FALSE, hand |-> {}]
      /\ cons = [available |-> FALSE, last |-> Bus!Blank] /\ unseen = {}
  BY DEF Bus!HudBusInit
<1>3. BusTypes
  BY <1>1, <1>2, PairIs, EmptySeq DEF BusTypes, Bus!TypeOK
<1>4. BusStart
  BY <1>2 DEF BusStart
<1>5. NamesSound
  BY <1>2 DEF NamesSound, Caught, Subscribed
<1>6. ValuesSound
  BY <1>2 DEF ValuesSound, Caught, Subscribed
<1> QED BY <1>3, <1>4, <1>5, <1>6 DEF BusInv

\* What a change of what is served that is pushed keeps.
LEMMA PushKeeps ==
  ASSUME BusInv, Bus!push, pub' \in [up : BOOLEAN, served : BusPairs,
              next : SUBSET (Showable \cup {"idle"}), changes : Nat],
         pub'.up = pub.up, pub'.served.state \in Showable \cup {"idle"}
  PROVE  BusInv'
<1>1. /\ UNCHANGED <<worker, cons>> /\ (Caught' <=> Caught)
      /\ props' \in [on : BOOLEAN, push : BOOLEAN, hand : SUBSET BusPairs]
      /\ props'.on = props.on /\ props'.hand = props.hand
      /\ props.on => props'.push
      /\ ~props.on => ~props'.push
  BY DEF Bus!push, BusInv, BusTypes, BusStart, Caught, Subscribed
<1>2. /\ unseen' \subseteq {"name", "value"} /\ ("name" \in unseen' <=> "name" \in unseen)
      /\ unseen' = {} => worker.hand = {} /\ (props.on \/ worker.at = "start")
  BY DEF Bus!push, BusInv, BusTypes
<1>3. BusTypes'
  BY <1>1, <1>2 DEF BusInv, BusTypes, Bus!TypeOK
<1>4. BusStart'
  BY <1>1 DEF BusInv, BusStart
<1>5. NamesSound'
  BY <1>1, <1>2 DEF BusInv, NamesSound
<1>6. ValuesSound'
  BY <1>1, <1>2 DEF BusInv, BusStart, ValuesSound, Caught, Subscribed
<1> QED BY <1>3, <1>4, <1>5, <1>6 DEF BusInv

\* What the daemon sets keeps it.
LEMMA Publishes ==
  ASSUME BusInv,
         \/ \E s \in Showable \cup {"idle"} : Bus!publish(s)
         \/ Bus!PublishState \/ Bus!publish_levels
  PROVE  BusInv'
<1>1. CASE \E s \in Showable \cup {"idle"} : Bus!publish(s)
  <2>1. PICK s \in Showable \cup {"idle"} : Bus!publish(s)
    BY <1>1
  <2>2. pub' = [pub EXCEPT !.served.label = Bus!Pair(s).label, !.next = {s}] /\ Bus!push
    BY <2>1 DEF Bus!publish
  <2>3. pub.served \in BusPairs /\ Bus!Pair(s).label \in Showable \cup {""}
    BY PairIs DEF BusInv, BusTypes
  <2>4. /\ pub'.served = [pub.served EXCEPT !.label = Bus!Pair(s).label]
        /\ pub'.up = pub.up /\ pub'.next = {s} /\ pub'.changes = pub.changes
        /\ pub' \in [up : BOOLEAN, served : BusPairs, next : SUBSET (Showable \cup {"idle"}),
                     changes : Nat]
    BY <2>2, <2>3 DEF BusInv, BusTypes, BusPairs
  <2>5. pub'.served.state = pub.served.state
    BY <2>3, <2>4 DEF BusPairs
  <2> QED BY <2>2, <2>4, <2>5, PushKeeps DEF BusInv, BusTypes, Bus!TypeOK
<1>2. CASE Bus!PublishState
  <2>1. PICK s \in pub.next : pub' = [pub EXCEPT !.served.state = s, !.next = {}]
    BY <1>2 DEF Bus!PublishState
  <2>2. pub.served \in BusPairs /\ s \in Showable \cup {"idle"} /\ Bus!push
    BY <1>2 DEF BusInv, BusTypes, Bus!PublishState
  <2>3. /\ pub'.served = [pub.served EXCEPT !.state = s]
        /\ pub'.up = pub.up /\ pub'.next = {} /\ pub'.changes = pub.changes
        /\ pub' \in [up : BOOLEAN, served : BusPairs, next : SUBSET (Showable \cup {"idle"}),
                     changes : Nat]
    BY <2>1, <2>2 DEF BusInv, BusTypes, BusPairs
  <2>4. pub'.served.state = s
    BY <2>2, <2>3 DEF BusPairs
  <2> QED BY <2>2, <2>3, <2>4, PushKeeps
<1>3. CASE Bus!publish_levels
  BY <1>3, PushKeeps DEF Bus!publish_levels, BusInv, BusTypes, Bus!TypeOK
<1> QED BY <1>1, <1>2, <1>3

\* A daemon that comes or goes keeps it.
LEMMA OwnerComesOrGoes == ASSUME BusInv, Bus!NameChanges PROVE BusInv'
<1>1. /\ pub' = [up |-> ~pub.up, served |-> Bus!Pair("idle"), next |-> {},
                 changes |-> pub.changes + 1]
      /\ UNCHANGED <<props, cons>>
  BY DEF Bus!NameChanges
<1>2. pub' \in [up : BOOLEAN, served : BusPairs, next : SUBSET (Showable \cup {"idle"}),
                changes : Nat]
        /\ pub'.served.state = "idle" /\ pub'.next = {}
  <2> DEFINE b == ~pub.up
             p == Bus!Pair("idle")
  <2>1. b \in BOOLEAN /\ pub.changes + 1 \in Nat /\ p \in BusPairs /\ p.state = "idle"
    <3>1. p \in BusPairs /\ p.state = "idle"
      BY PairIs
    <3>2. pub.changes \in Nat
      BY DEF BusInv, BusTypes
    <3> HIDE DEF p
    <3> QED BY <3>1, <3>2
  <2>2. pub' = [up |-> b, served |-> p, next |-> {}, changes |-> pub.changes + 1]
    BY <1>1
  <2> HIDE DEF b, p
  <2> QED BY <2>1, <2>2
<1>3. /\ worker' \in [at : {"start", "first", "spawned", "watching"}, names : Seq(BOOLEAN),
                      hand : SUBSET BusPairs]
      /\ worker'.at = worker.at /\ worker'.hand = worker.hand
      /\ worker.at # "watching" => worker'.names = worker.names
      /\ worker.at = "watching" => /\ worker'.names = Append(worker.names, ~pub.up)
                                   /\ worker'.names # <<>>
                                   /\ worker'.names[Len(worker'.names)] = ~pub.up
  <2>1. worker.names \in Seq(BOOLEAN) /\ (~pub.up) \in BOOLEAN
    BY DEF BusInv, BusTypes
  <2>2. Append(worker.names, ~pub.up) \in Seq(BOOLEAN) /\ Append(worker.names, ~pub.up) # <<>>
        /\ Append(worker.names, ~pub.up)[Len(Append(worker.names, ~pub.up))] = ~pub.up
    <3> DEFINE e == ~pub.up
    <3>1. e \in BOOLEAN
      OBVIOUS
    <3> HIDE DEF e
    <3>2. Append(worker.names, e) \in Seq(BOOLEAN) /\ Len(Append(worker.names, e)) = Len(worker.names) + 1
          /\ Append(worker.names, e)[Len(worker.names) + 1] = e /\ Len(worker.names) \in Nat
      BY <2>1, <3>1, Added
    <3>3. Append(worker.names, e) # <<>>
      BY <3>2, EmptySeq
    <3> QED BY <3>2, <3>3 DEF e
  <2>3. CASE worker.at = "watching"
    <3>1. worker' = [worker EXCEPT !.names = Append(@, ~pub.up)]
      BY <2>3 DEF Bus!NameChanges
    <3> QED BY <3>1, <2>2, <2>3 DEF BusInv, BusTypes
  <2>4. CASE worker.at # "watching"
    BY <2>4 DEF Bus!NameChanges, BusInv, BusTypes
  <2> QED BY <2>3, <2>4
<1>4. /\ unseen' \subseteq {"name", "value"}
      /\ "name" \notin unseen' => worker.hand = {} /\ props.hand = {} /\ worker.at \in {"start", "watching"}
  BY DEF Bus!NameChanges
<1>5. BusTypes'
  BY <1>1, <1>2, <1>3, <1>4 DEF BusInv, BusTypes, Bus!TypeOK
<1>6. BusStart'
  BY <1>1, <1>3 DEF BusInv, BusStart
<1>7. NamesSound'
  BY <1>1, <1>3, <1>4 DEF BusInv, BusStart, NamesSound, Caught, Subscribed
<1>8. ValuesSound'
  BY <1>1, <1>3, <1>4 DEF BusInv, BusStart, ValuesSound, Caught, Subscribed
<1> QED BY <1>5, <1>6, <1>7, <1>8 DEF BusInv

\* The threads' reading up to their subscriptions keeps it.
LEMMA Subscribes ==
  ASSUME BusInv, Bus!FirstRead \/ Bus!Subscribe \/ Bus!PropsSubscribe
  PROVE  BusInv'
<1>1. CASE Bus!FirstRead
  <2>1. /\ worker.at = "start" /\ UNCHANGED <<pub, props, cons, unseen>>
        /\ worker.names = <<>> /\ worker.hand = {} /\ ~cons.available
    BY <1>1 DEF Bus!FirstRead, BusInv, BusStart
  <2>2. CASE pub.up
    <3>1. worker' = [worker EXCEPT !.at = "first", !.hand = {pub.served}]
      BY <1>1, <2>2 DEF Bus!FirstRead
    <3>2. /\ worker' \in [at : {"start", "first", "spawned", "watching"}, names : Seq(BOOLEAN),
                          hand : SUBSET BusPairs]
          /\ worker'.at = "first" /\ worker'.names = <<>> /\ worker'.hand = {pub.served}
      BY <2>1, <3>1 DEF BusInv, BusTypes
    <3> QED BY <2>1, <2>2, <3>2
            DEF BusInv, BusTypes, BusStart, NamesSound, ValuesSound, Caught, Subscribed, Bus!TypeOK
  <2>3. CASE ~pub.up
    <3>1. worker' = [worker EXCEPT !.at = "spawned"]
      BY <1>1, <2>3 DEF Bus!FirstRead
    <3>2. /\ worker' \in [at : {"start", "first", "spawned", "watching"}, names : Seq(BOOLEAN),
                          hand : SUBSET BusPairs]
          /\ worker'.at = "spawned" /\ worker'.names = <<>> /\ worker'.hand = {}
      BY <2>1, <3>1 DEF BusInv, BusTypes
    <3> QED BY <2>1, <2>3, <3>2
            DEF BusInv, BusTypes, BusStart, NamesSound, ValuesSound, Caught, Subscribed, Bus!TypeOK
  <2> QED BY <2>2, <2>3
<1>2. CASE Bus!Subscribe
  <2>1. /\ worker.at = "spawned" /\ worker' = [worker EXCEPT !.at = "watching"]
        /\ UNCHANGED <<pub, props, cons, unseen>>
    BY <1>2 DEF Bus!Subscribe
  <2>2. /\ worker' \in [at : {"start", "first", "spawned", "watching"}, names : Seq(BOOLEAN),
                        hand : SUBSET BusPairs]
        /\ worker'.at = "watching" /\ worker'.names = worker.names /\ worker'.hand = worker.hand
    BY <2>1 DEF BusInv, BusTypes
  <2> QED BY <2>1, <2>2
          DEF BusInv, BusTypes, BusStart, NamesSound, ValuesSound, Caught, Subscribed, Bus!TypeOK
<1>3. CASE Bus!PropsSubscribe
  <2>1. /\ Subscribed /\ props' = [props EXCEPT !.on = TRUE]
        /\ UNCHANGED <<pub, worker, cons, unseen>>
    BY <1>3 DEF Bus!PropsSubscribe, Subscribed
  <2>2. /\ props' \in [on : BOOLEAN, push : BOOLEAN, hand : SUBSET BusPairs]
        /\ props'.on /\ props'.push = props.push /\ props'.hand = props.hand
    BY <2>1 DEF BusInv, BusTypes
  <2> QED BY <2>1, <2>2
          DEF BusInv, BusTypes, BusStart, NamesSound, ValuesSound, Caught, Subscribed, Bus!TypeOK
<1> QED BY <1>1, <1>2, <1>3

\* So does reading the name's next owner.
LEMMA OwnerRead == ASSUME BusInv, Bus!OwnerChanged PROVE BusInv'
<1> DEFINE h == Head(worker.names)
           n == Tail(worker.names)
<1>1. /\ worker.hand = {} /\ worker.names # <<>> /\ UNCHANGED <<pub, props, unseen>>
      /\ worker.at = "watching"
      /\ h => /\ worker' = [[worker EXCEPT !.names = n] EXCEPT
                                !.hand = {IF pub.up THEN pub.served ELSE Bus!Blank}]
              /\ cons' = cons
      /\ ~h => worker' = [worker EXCEPT !.names = n] /\ Bus!name_vanished
  BY DEF Bus!OwnerChanged, BusInv, BusStart
<1>2. /\ n \in Seq(BOOLEAN) /\ h \in BOOLEAN
      /\ n = <<>> => worker.names[Len(worker.names)] = h
      /\ n # <<>> => n[Len(n)] = worker.names[Len(worker.names)]
  <2> DEFINE w == worker.names
  <2>1. w \in Seq(BOOLEAN) /\ w # <<>>
    BY <1>1 DEF BusInv, BusTypes
  <2> HIDE DEF w
  <2>2. /\ Head(w) \in BOOLEAN /\ Head(w) = w[1] /\ Tail(w) \in Seq(BOOLEAN)
        /\ Len(Tail(w)) = Len(w) - 1 /\ Len(w) \in Nat \ {0}
        /\ \A i \in 1..(Len(w) - 1) : Tail(w)[i] = w[i + 1]
    BY <2>1, Taken
  <2>3. Tail(w) = <<>> => Len(w) = 1
    <3> SUFFICES ASSUME Tail(w) = <<>> PROVE Len(w) = 1
      OBVIOUS
    <3>1. Len(Tail(w)) = 0
      OBVIOUS
    <3> QED BY <2>2, <3>1
  <2>4. Tail(w) # <<>> => Len(w) - 1 \in 1..(Len(w) - 1)
    BY <2>2, EmptySeq
  <2> QED BY <2>2, <2>3, <2>4 DEF w
<1> HIDE DEF h, n
<1>3. CASE h
  <2> DEFINE p == IF pub.up THEN pub.served ELSE Bus!Blank
  <2>1. p \in BusPairs /\ (pub.up => p = pub.served)
    BY PairIs DEF BusInv, BusTypes
  <2> HIDE DEF p
  <2>2. worker' = [[worker EXCEPT !.names = n] EXCEPT !.hand = {p}] /\ cons' = cons
    BY <1>1, <1>3 DEF p
  <2>3. /\ worker' \in [at : {"start", "first", "spawned", "watching"}, names : Seq(BOOLEAN),
                        hand : SUBSET BusPairs]
        /\ worker'.at = "watching" /\ worker'.names = n /\ worker'.hand = {p}
    BY <1>1, <1>2, <2>1, <2>2 DEF BusInv, BusTypes
  <2> QED BY <1>1, <1>2, <1>3, <2>1, <2>2, <2>3
          DEF BusInv, BusTypes, BusStart, NamesSound, ValuesSound, Caught, Subscribed, Bus!TypeOK
<1>4. CASE ~h
  <2>1. worker' = [worker EXCEPT !.names = n] /\ cons' = [available |-> FALSE, last |-> Bus!Pair("idle")]
    BY <1>1, <1>4 DEF Bus!name_vanished
  <2>2. /\ worker' \in [at : {"start", "first", "spawned", "watching"}, names : Seq(BOOLEAN),
                        hand : SUBSET BusPairs]
        /\ worker'.at = "watching" /\ worker'.names = n /\ worker'.hand = {}
        /\ cons' \in [available : BOOLEAN, last : BusPairs]
        /\ ~cons'.available /\ cons'.last = Bus!Pair("idle")
    BY <1>1, <1>2, <2>1, PairIs DEF BusInv, BusTypes
  <2> QED BY <1>1, <1>2, <1>4, <2>2
          DEF BusInv, BusTypes, BusStart, NamesSound, ValuesSound, Caught, Subscribed, Bus!TypeOK
<1> QED BY <1>3, <1>4

\* So does the snapshot of a daemon that appeared.
LEMMA AppearedKeeps == ASSUME BusInv, Bus!SendAppeared PROVE BusInv'
<1>1. PICK p \in worker.hand : cons' = [available |-> TRUE, last |-> p]
  BY DEF Bus!SendAppeared, Bus!name_appeared
<1>2. /\ worker' = [worker EXCEPT !.hand = {}, !.at = IF @ = "first" THEN "spawned" ELSE @]
      /\ UNCHANGED <<pub, props, unseen>>
  BY DEF Bus!SendAppeared
<1>3. /\ worker' \in [at : {"start", "first", "spawned", "watching"}, names : Seq(BOOLEAN),
                      hand : SUBSET BusPairs]
      /\ worker'.at = (IF worker.at = "first" THEN "spawned" ELSE worker.at)
      /\ worker'.names = worker.names /\ worker'.hand = {}
      /\ cons' \in [available : BOOLEAN, last : BusPairs] /\ cons'.available /\ cons'.last = p
      /\ worker.at # "start"
  BY <1>1, <1>2 DEF BusInv, BusTypes, BusStart
<1>4. BusTypes' /\ BusStart'
  BY <1>2, <1>3 DEF BusInv, BusTypes, BusStart, Bus!TypeOK
<1>5. NamesSound'
  BY <1>1, <1>2, <1>3 DEF BusInv, BusTypes, NamesSound, Caught, Subscribed
<1>6. ValuesSound'
  BY <1>1, <1>2, <1>3 DEF BusInv, ValuesSound, Caught, Subscribed
<1> QED BY <1>4, <1>5, <1>6 DEF BusInv

\* So does the other thread's reading and its snapshot.
LEMMA PushedKeeps ==
  ASSUME BusInv, Bus!Pushed \/ Bus!SendProperties PROVE BusInv'
<1>1. CASE Bus!Pushed
  <2> DEFINE h == IF pub.up THEN {pub.served} ELSE {}
  <2>1. h \subseteq BusPairs /\ (pub.up => h = {pub.served})
    BY DEF BusInv, BusTypes
  <2> HIDE DEF h
  <2>2. /\ props.push /\ props' = [props EXCEPT !.push = FALSE, !.hand = h]
        /\ UNCHANGED <<pub, worker, cons, unseen>>
    BY <1>1 DEF Bus!Pushed, h
  <2>3. /\ props' \in [on : BOOLEAN, push : BOOLEAN, hand : SUBSET BusPairs]
        /\ props.on /\ props'.on = props.on /\ ~props'.push /\ props'.hand = h
    BY <2>1, <2>2 DEF BusInv, BusTypes, BusStart
  <2> QED BY <2>1, <2>2, <2>3
          DEF BusInv, BusTypes, BusStart, NamesSound, ValuesSound, Caught, Subscribed, Bus!TypeOK
<1>2. CASE Bus!SendProperties
  <2>1. PICK p \in props.hand :
          cons' = IF cons.available THEN [cons EXCEPT !.last = p] ELSE cons
    BY <1>2 DEF Bus!SendProperties, Bus!properties_changed
  <2>2. props' = [props EXCEPT !.hand = {}] /\ UNCHANGED <<pub, worker, unseen>>
    BY <1>2 DEF Bus!SendProperties
  <2>3. /\ props' \in [on : BOOLEAN, push : BOOLEAN, hand : SUBSET BusPairs]
        /\ props'.on = props.on /\ props'.push = props.push /\ props'.hand = {}
        /\ cons' \in [available : BOOLEAN, last : BusPairs]
        /\ cons'.available = cons.available
        /\ ~cons.available => cons'.last = cons.last
        /\ cons.available => cons'.last = p
    BY <2>1, <2>2 DEF BusInv, BusTypes
  <2>4. BusTypes' /\ BusStart' /\ NamesSound'
    BY <2>2, <2>3 DEF BusInv, BusTypes, BusStart, NamesSound, Caught, Subscribed, Bus!TypeOK
  <2>5. ValuesSound'
    <3> SUFFICES ASSUME unseen = {}, pub.up PROVE ValuesSound'
      BY <2>2 DEF ValuesSound
    <3>1. Caught => cons.available
      BY DEF BusInv, NamesSound
    <3> QED BY <2>1, <2>2, <2>3, <3>1 DEF BusInv, ValuesSound, Caught, Subscribed
  <2> QED BY <2>4, <2>5 DEF BusInv
<1> QED BY <1>1, <1>2

\* Every step of the bus keeps it.
LEMMA BusKeeps == ASSUME BusInv, Bus!HudBusNext PROVE BusInv'
  BY Publishes, OwnerComesOrGoes, Subscribes, OwnerRead, AppearedKeeps, PushedKeeps DEF Bus!HudBusNext

\* It is what the pill's promise asks.
LEMMA BusFollows == BusInv => Bus!TypeOK /\ Bus!PillFollows
<1> SUFFICES ASSUME BusInv, Bus!Quiet, unseen = {} PROVE Bus!TypeOK /\ Bus!PillFollows
  BY DEF Bus!PillFollows, BusInv, BusTypes
<1>1. Caught /\ cons.available = pub.up
  BY DEF BusInv, NamesSound, Caught, Subscribed, Bus!Quiet
<1>2. pub.up => cons.last = pub.served
  BY <1>1 DEF BusInv, ValuesSound, Bus!Quiet
<1>3. ~pub.up /\ cons.last # Bus!Blank => cons.last = Bus!Pair("idle")
  BY <1>1 DEF BusInv, BusStart
<1> QED BY <1>1, <1>2, <1>3 DEF Bus!PillFollows, BusInv, BusTypes

-----------------------------------------------------------------------------
(***************************************************************************)
(* The HUD's supervisor.                                                   *)
(***************************************************************************)

HostMachine ==
  [owned : BOOLEAN, child : {"None", "Running", "Stopping", "Backoff"}, then_start : BOOLEAN,
   failures : 0..RestartBudget + 1, refused : BOOLEAN, dormant : BOOLEAN, registered : BOOLEAN]

HostActions ==
  {"Register", "Unregister", "Spawn", "Kill", "Terminate", "ArmKill", "CancelKill",
   "ArmRestart", "CancelRestart"}

\* A host is registered exactly for a HUD that is there or coming and may be, and one that
\* gave up has used its budget.
Coming(s) == s.child \in {"Running", "Backoff"} \/ (s.child = "Stopping" /\ s.then_start)
MachineSound(s) ==
  /\ s.registered <=> Coming(s)
  /\ s.registered => Hud!startable(s)
  /\ ~s.owned => ~s.dormant
  /\ ~s.dormant => s.failures <= RestartBudget

\* The host learns of the daemon in the end, and until then it can be on the books of one
\* that it has yet to hear of.
BooksSound ==
  host = "running" =>
    /\ news = <<>> => machine.owned = up
    /\ news # <<>> => news[Len(news)] = IF up THEN "owned" ELSE "lost"
    /\ "host" \in clients =>
         /\ up /\ ~machine.refused
         /\ machine.registered \/ (~machine.owned /\ news # <<>>)

HudInv == /\ Hud!TypeOK /\ machine \in HostMachine /\ MachineSound(machine)
          /\ Hud!OneHud /\ BooksSound

\* The actions of a rule.
ActionsOf(q) == {q[i] : i \in DOMAIN q}

\* What they are for the sequences that the rules make.
LEMMA ActionsAre ==
  /\ ActionsOf(<<>>) = {}
  /\ \A a \in HostActions : <<a>> \in Seq(HostActions) /\ ActionsOf(<<a>>) = {a}
  /\ \A a, b \in HostActions : <<a, b>> \in Seq(HostActions) /\ ActionsOf(<<a, b>>) = {a, b}
  /\ <<>> \in Seq(HostActions)
<1>1. \A a \in HostActions : <<a>> \in Seq(HostActions) /\ ActionsOf(<<a>>) = {a}
  BY DEF ActionsOf
<1>2. \A a, b \in HostActions : <<a, b>> \in Seq(HostActions) /\ ActionsOf(<<a, b>>) = {a, b}
  <2> SUFFICES ASSUME NEW a \in HostActions, NEW b \in HostActions
               PROVE  <<a, b>> \in Seq(HostActions) /\ ActionsOf(<<a, b>>) = {a, b}
    OBVIOUS
  <2>1. DOMAIN <<a, b>> = 1..2 /\ <<a, b>>[1] = a /\ <<a, b>>[2] = b
    OBVIOUS
  <2>2. ActionsOf(<<a, b>>) = {a, b}
    BY <2>1 DEF ActionsOf
  <2> QED BY <2>2
<1> QED BY <1>1, <1>2 DEF ActionsOf

\* Those of two rules together.
LEMMA ActionsJoin ==
  ASSUME NEW p \in Seq(HostActions), NEW q \in Seq(HostActions)
  PROVE  /\ p \o q \in Seq(HostActions)
         /\ ActionsOf(p \o q) = ActionsOf(p) \cup ActionsOf(q)
<1>1. /\ p \o q \in Seq(HostActions) /\ Len(p \o q) = Len(p) + Len(q)
      /\ \A i \in 1..Len(p) + Len(q) : (p \o q)[i] = IF i <= Len(p) THEN p[i] ELSE q[i - Len(p)]
  BY ConcatProperties
<1> DEFINE c == p \o q
<1>2. /\ DOMAIN p = 1..Len(p) /\ DOMAIN q = 1..Len(q) /\ Len(p) \in Nat /\ Len(q) \in Nat
  BY LenProperties
<1>3. DOMAIN c = 1..(Len(p) + Len(q))
  BY <1>1, LenProperties
<1>4. \A i \in 1..(Len(p) + Len(q)) : c[i] = IF i <= Len(p) THEN p[i] ELSE q[i - Len(p)]
  BY <1>1
<1> HIDE DEF c
<1>5. ActionsOf(c) \subseteq ActionsOf(p) \cup ActionsOf(q)
  <2> SUFFICES ASSUME NEW i \in 1..(Len(p) + Len(q)) PROVE c[i] \in ActionsOf(p) \cup ActionsOf(q)
    BY <1>3 DEF ActionsOf
  <2>1. CASE i <= Len(p)
    BY <1>2, <1>4, <2>1 DEF ActionsOf
  <2>2. CASE ~(i <= Len(p))
    <3>1. i - Len(p) \in 1..Len(q)
      BY <1>2, <2>2
    <3> QED BY <1>2, <1>4, <2>2, <3>1 DEF ActionsOf
  <2> QED BY <2>1, <2>2
<1>6. ActionsOf(p) \subseteq ActionsOf(c)
  <2> SUFFICES ASSUME NEW i \in 1..Len(p) PROVE p[i] \in ActionsOf(c)
    BY <1>2 DEF ActionsOf
  <2>1. i \in 1..(Len(p) + Len(q)) /\ i <= Len(p)
    BY <1>2
  <2> QED BY <1>3, <1>4, <2>1 DEF ActionsOf
<1>7. ActionsOf(q) \subseteq ActionsOf(c)
  <2> SUFFICES ASSUME NEW i \in 1..Len(q) PROVE q[i] \in ActionsOf(c)
    BY <1>2 DEF ActionsOf
  <2>1. i + Len(p) \in 1..(Len(p) + Len(q)) /\ ~(i + Len(p) <= Len(p)) /\ (i + Len(p)) - Len(p) = i
    BY <1>2
  <2> QED BY <1>3, <1>4, <2>1 DEF ActionsOf
<1> QED BY <1>1, <1>5, <1>6, <1>7 DEF c

\* A rule does what is among its actions.
LEMMA DoesIt == \A r, a : Hud!Does(r, a) <=> a \in ActionsOf(r.actions)
  BY DEF Hud!Does, ActionsOf

\* What may become of a machine by a failure.
LEMMA FailIs ==
  ASSUME NEW s \in HostMachine, s.failures <= RestartBudget
  PROVE  LET f == Hud!fail(s) IN
         /\ f.actions \in Seq(HostActions)
         /\ \/ /\ f.m = [s EXCEPT !.failures = @ + 1, !.child = "Backoff"]
               /\ f.m.failures <= RestartBudget
               /\ ActionsOf(f.actions) = {"ArmRestart"}
            \/ /\ f.m = [s EXCEPT !.failures = @ + 1, !.dormant = TRUE, !.registered = FALSE]
               /\ ActionsOf(f.actions) = IF s.registered THEN {"Unregister"} ELSE {}
         /\ f.m \in HostMachine
<1> DEFINE f == Hud!fail(s)
           n == [s EXCEPT !.failures = @ + 1]
<1>1. RestartBudget \in Nat /\ s.failures \in Nat /\ s.failures + 1 \in 0..RestartBudget + 1
  <2>1. RestartBudget \in Nat
    BY PartsAssumption
  <2>2. s.failures \in 0..RestartBudget + 1
    BY DEF HostMachine
  <2> QED BY <2>1, <2>2
<1>2. n \in HostMachine /\ n.failures = s.failures + 1 /\ (n.registered <=> s.registered)
  BY <1>1 DEF HostMachine
<1>3. CASE n.failures > RestartBudget
  <2> DEFINE k == [n EXCEPT !.dormant = TRUE, !.registered = FALSE]
  <2>0. f = [m |-> k, actions |-> Hud!unregister(s)]
    BY <1>3 DEF Hud!fail, Hud!Then
  <2>1. f.m = k /\ f.actions = Hud!unregister(s)
    BY <2>0
  <2>2. f.m = [s EXCEPT !.failures = @ + 1, !.dormant = TRUE, !.registered = FALSE]
    BY <2>1 DEF HostMachine
  <2>3. f.m \in HostMachine
    BY <1>2, <2>1 DEF HostMachine
  <2>4. /\ f.actions \in Seq(HostActions)
        /\ ActionsOf(f.actions) = IF s.registered THEN {"Unregister"} ELSE {}
    <3> HIDE DEF f, n, k
    <3>1. CASE s.registered
      <4>1. f.actions = <<"Unregister">>
        BY <1>2, <2>1, <3>1 DEF Hud!unregister
      <4> QED BY <3>1, <4>1, ActionsAre DEF HostActions
    <3>2. CASE ~s.registered
      <4>1. f.actions = <<>>
        BY <1>2, <2>1, <3>2 DEF Hud!unregister
      <4> QED BY <3>2, <4>1, ActionsAre
    <3> QED BY <3>1, <3>2
  <2> QED BY <2>2, <2>3, <2>4
<1>4. CASE ~(n.failures > RestartBudget)
  <2>1. /\ f.m = [n EXCEPT !.child = "Backoff"] /\ f.actions = <<"ArmRestart">>
    BY <1>4 DEF Hud!fail, Hud!Then
  <2>2. f.m = [s EXCEPT !.failures = @ + 1, !.child = "Backoff"]
    BY <2>1 DEF HostMachine
  <2>3. f.m \in HostMachine /\ f.m.failures <= RestartBudget
    <3> HIDE DEF f, n
    <3>1. n.failures \in Nat /\ n.failures <= RestartBudget
      BY <1>1, <1>2, <1>4
    <3> QED BY <1>2, <2>1, <3>1 DEF HostMachine
  <2>4. f.actions \in Seq(HostActions) /\ ActionsOf(f.actions) = {"ArmRestart"}
    BY <2>1, ActionsAre DEF HostActions
  <2> QED BY <2>2, <2>3, <2>4
<1> QED BY <1>3, <1>4

\* What a rule may do to a sound machine.
Allowed(s, r) ==
  /\ r.m \in HostMachine /\ MachineSound(r.m)
  /\ Hud!Does(r, "Register") => r.m.registered \/ Hud!Does(r, "Unregister")
  /\ s.registered => r.m.registered \/ Hud!Does(r, "Unregister") \/ ~r.m.owned
  /\ r.m.refused => s.refused \/ Hud!Does(r, "Unregister")

\* A rule that spawns, for a machine that may.
LEMMA SpawnIs ==
  ASSUME NEW s \in HostMachine, NEW x, NEW r \in Hud!Outcomes(x),
         x.m \in HostMachine, x.actions \in Seq(HostActions), "Spawn" \in ActionsOf(x.actions),
         x.m.child = "None", Hud!startable(x.m), x.m.failures <= RestartBudget,
         x.m.registered, "Kill" \notin ActionsOf(x.actions)
  PROVE  /\ Allowed(s, r) /\ ~Hud!Does(r, "Kill") /\ Hud!Does(r, "Spawn")
         /\ r.m.owned /\ (r.m.registered \/ ~x.m.registered \/ Hud!Does(r, "Unregister"))
         /\ r.m.child # "Stopping"
<1> DEFINE f == Hud!fail(x.m)
<1>1. \/ /\ r.m = [x.m EXCEPT !.child = "Running"] /\ r.actions = x.actions
      \/ r.m = f.m /\ r.actions = x.actions \o f.actions
  <2>1. Hud!exited(x.m, "none") = Hud!fail(x.m)
    BY DEF Hud!exited
  <2>2. Hud!Does(x, "Spawn")
    BY DoesIt
  <2> DEFINE y == [x.m EXCEPT !.child = "Running"]
             z == x.actions \o f.actions
  <2>3. r \in {Hud!Then(y, x.actions), Hud!Then(f.m, z)}
    BY <2>1, <2>2 DEF Hud!Outcomes
  <2> HIDE DEF f, y, z
  <2>4. \/ r.m = y /\ r.actions = x.actions
        \/ r.m = f.m /\ r.actions = z
    BY <2>3 DEF Hud!Then
  <2> QED BY <2>4 DEF y, z
<1>2. /\ f.actions \in Seq(HostActions)
      /\ \/ /\ f.m = [x.m EXCEPT !.failures = @ + 1, !.child = "Backoff"]
            /\ f.m.failures <= RestartBudget
            /\ ActionsOf(f.actions) = {"ArmRestart"}
         \/ /\ f.m = [x.m EXCEPT !.failures = @ + 1, !.dormant = TRUE, !.registered = FALSE]
            /\ ActionsOf(f.actions) = IF x.m.registered THEN {"Unregister"} ELSE {}
      /\ f.m \in HostMachine
  BY FailIs
<1>3. ActionsOf(x.actions \o f.actions) = ActionsOf(x.actions) \cup ActionsOf(f.actions)
  BY <1>2, ActionsJoin
<1> HIDE DEF f
<1>4. \A a : Hud!Does(r, a) <=> a \in ActionsOf(r.actions)
  BY DoesIt
<1>5. CASE r.m = [x.m EXCEPT !.child = "Running"] /\ r.actions = x.actions
  <2>1. /\ r.m \in HostMachine /\ r.m.child = "Running" /\ r.m.owned = x.m.owned
        /\ r.m.refused = x.m.refused /\ r.m.dormant = x.m.dormant
        /\ r.m.registered = x.m.registered /\ r.m.failures = x.m.failures
    BY <1>5 DEF HostMachine
  <2> QED BY <1>4, <1>5, <2>1 DEF Allowed, MachineSound, Coming, Hud!startable
<1>6. CASE r.m = f.m /\ r.actions = x.actions \o f.actions
  <2>1. CASE /\ f.m = [x.m EXCEPT !.failures = @ + 1, !.child = "Backoff"]
             /\ f.m.failures <= RestartBudget
             /\ ActionsOf(f.actions) = {"ArmRestart"}
    <3>1. /\ r.m \in HostMachine /\ r.m.child = "Backoff" /\ r.m.owned = x.m.owned
          /\ r.m.refused = x.m.refused /\ r.m.dormant = x.m.dormant
          /\ r.m.registered = x.m.registered /\ r.m.failures <= RestartBudget
      BY <1>2, <1>6, <2>1 DEF HostMachine
    <3>2. "Kill" \notin ActionsOf(r.actions) /\ "Spawn" \in ActionsOf(r.actions)
          /\ ("Register" \in ActionsOf(r.actions) => x.m.registered)
      BY <1>3, <1>6, <2>1
    <3> QED BY <1>4, <3>1, <3>2 DEF Allowed, MachineSound, Coming, Hud!startable
  <2>2. CASE /\ f.m = [x.m EXCEPT !.failures = @ + 1, !.dormant = TRUE, !.registered = FALSE]
             /\ ActionsOf(f.actions) = IF x.m.registered THEN {"Unregister"} ELSE {}
    <3>1. /\ r.m \in HostMachine /\ r.m.child = "None" /\ r.m.owned = x.m.owned
          /\ r.m.refused = x.m.refused /\ r.m.dormant /\ ~r.m.registered
      BY <1>2, <1>6, <2>2 DEF HostMachine
    <3>2. "Kill" \notin ActionsOf(r.actions) /\ "Spawn" \in ActionsOf(r.actions)
          /\ ("Register" \in ActionsOf(r.actions) => x.m.registered)
          /\ (x.m.registered => "Unregister" \in ActionsOf(r.actions))
      BY <1>3, <1>6, <2>2
    <3> QED BY <1>4, <3>1, <3>2 DEF Allowed, MachineSound, Coming, Hud!startable
  <2> QED BY <1>2, <2>1, <2>2
<1> QED BY <1>1, <1>5, <1>6

\* The machine of a sound rule that spawns nothing.
LEMMA NoSpawn ==
  ASSUME NEW x, NEW r \in Hud!Outcomes(x), "Spawn" \notin ActionsOf(x.actions)
  PROVE  r = x
  BY DoesIt DEF Hud!Outcomes

\* The rules one by one.  The host hears that the daemon is there.
LEMMA OwnedIs ==
  ASSUME NEW s \in HostMachine, MachineSound(s), NEW r \in Hud!Outcomes(Hud!name_owned(s))
  PROVE  /\ Allowed(s, r) /\ ~Hud!Does(r, "Kill")
         /\ Hud!Does(r, "Spawn") => s.child = "None" /\ r.m.child # "Stopping"
         /\ ~Hud!Does(r, "Spawn") => r.m.child = s.child
         /\ r.m.owned
         /\ ~s.owned /\ ~s.refused => r.m.registered \/ Hud!Does(r, "Unregister")
<1> DEFINE x == Hud!name_owned(s)
           o == [s EXCEPT !.owned = TRUE]
           p == [o EXCEPT !.registered = TRUE, !.then_start = (s.child = "Stopping")]
           a == IF s.child = "None" THEN <<"Register", "Spawn">> ELSE <<"Register">>
<1>1. o \in HostMachine /\ o.owned /\ o.child = s.child /\ o.refused = s.refused
        /\ o.dormant = s.dormant /\ o.failures = s.failures /\ o.registered = s.registered
        /\ o.then_start = s.then_start
  BY DEF HostMachine
<1>2. CASE s.owned
  <2>1. x.m = s /\ x.actions = <<>>
    BY <1>2 DEF Hud!name_owned, Hud!Then
  <2>2. r = x
    BY <2>1, ActionsAre, NoSpawn
  <2> QED BY <1>2, <2>1, <2>2, DoesIt, ActionsAre DEF Allowed
<1>3. CASE ~s.owned /\ ~Hud!startable(o)
  <2>1. x.m = o /\ x.actions = <<>>
    BY <1>3 DEF Hud!name_owned, Hud!Then
  <2>2. r = x
    BY <2>1, ActionsAre, NoSpawn
  <2>3. MachineSound(o)
    BY <1>1, <1>3 DEF MachineSound, Coming, Hud!startable
  <2> HIDE DEF o
  <2> QED BY <1>1, <1>3, <2>1, <2>2, <2>3, DoesIt, ActionsAre DEF Allowed, MachineSound, Coming, Hud!startable
<1>4. CASE ~s.owned /\ Hud!startable(o)
  <2>1. x.m = p /\ x.actions = a
    BY <1>4 DEF Hud!name_owned, Hud!Then
  <2>2. /\ p \in HostMachine /\ p.owned /\ p.child = s.child /\ p.registered
        /\ (s.child = "Stopping" => p.then_start)
        /\ p.refused = s.refused /\ p.dormant = s.dormant /\ p.failures = s.failures
    BY <1>1 DEF HostMachine
  <2>3. Hud!startable(p) /\ p.failures <= RestartBudget
    BY <1>1, <1>4, <2>2 DEF Hud!startable, MachineSound, Coming
  <2> HIDE DEF o, p, a, x
  <2>4. CASE s.child = "None"
    <3>1. a = <<"Register", "Spawn">>
      BY <2>4 DEF a
    <3>2. x.actions \in Seq(HostActions) /\ ActionsOf(x.actions) = {"Register", "Spawn"}
      BY <2>1, <3>1, ActionsAre DEF HostActions
    <3>3. /\ Allowed(s, r) /\ ~Hud!Does(r, "Kill") /\ Hud!Does(r, "Spawn")
          /\ r.m.owned /\ (r.m.registered \/ ~x.m.registered \/ Hud!Does(r, "Unregister"))
          /\ r.m.child # "Stopping"
      BY <2>1, <2>2, <2>3, <2>4, <3>2, SpawnIs DEF x
    <3> QED BY <2>1, <2>2, <2>4, <3>3
  <2>5. CASE s.child # "None"
    <3>1. a = <<"Register">>
      BY <2>5 DEF a
    <3>2. ActionsOf(x.actions) = {"Register"}
      BY <2>1, <3>1, ActionsAre DEF HostActions
    <3>3. r = x
      BY <3>2, NoSpawn DEF x
    <3>4. MachineSound(p)
      <4>1. s.child \in {"Stopping"}
        BY <1>4, <2>5 DEF MachineSound, Coming, Hud!startable, HostMachine
      <4> QED BY <2>2, <2>3, <4>1 DEF MachineSound, Coming
    <3> QED BY <2>1, <2>2, <3>2, <3>3, <3>4, DoesIt DEF Allowed, MachineSound, Coming, Hud!startable
  <2> QED BY <2>4, <2>5
<1> QED BY <1>2, <1>3, <1>4

\* Nor is it refused by the way.
LEMMA SpawnRefused ==
  ASSUME NEW x, NEW r \in Hud!Outcomes(x),
         x.m \in HostMachine, x.actions \in Seq(HostActions), "Spawn" \in ActionsOf(x.actions),
         x.m.child = "None", Hud!startable(x.m), x.m.failures <= RestartBudget
  PROVE  r.m.refused = x.m.refused
<1> DEFINE f == Hud!fail(x.m)
           y == [x.m EXCEPT !.child = "Running"]
           z == x.actions \o f.actions
<1>1. Hud!exited(x.m, "none") = Hud!fail(x.m)
  BY DEF Hud!exited
<1>2. r \in {Hud!Then(y, x.actions), Hud!Then(f.m, z)}
  BY <1>1, DoesIt DEF Hud!Outcomes
<1>3. f.m.refused = x.m.refused
  <2>1. \/ f.m = [x.m EXCEPT !.failures = @ + 1, !.child = "Backoff"]
        \/ f.m = [x.m EXCEPT !.failures = @ + 1, !.dormant = TRUE, !.registered = FALSE]
    BY FailIs
  <2> HIDE DEF f
  <2> QED BY <2>1 DEF HostMachine
<1>4. y.refused = x.m.refused
  BY DEF HostMachine
<1> HIDE DEF f, y, z
<1> QED BY <1>2, <1>3, <1>4 DEF Hud!Then

\* It hears that the daemon is gone.
LEMMA LostIs ==
  ASSUME NEW s \in HostMachine, MachineSound(s)
  PROVE  LET x == Hud!name_lost(s) IN
         /\ x.actions \in Seq(HostActions)
         /\ ActionsOf(x.actions) \subseteq {"Terminate", "ArmKill", "CancelRestart"}
         /\ x.m \in HostMachine /\ MachineSound(x.m) /\ ~x.m.owned
         /\ x.m.refused = s.refused
         /\ Hud!has_child(x.m) <=> Hud!has_child(s)
<1> DEFINE x == Hud!name_lost(s)
           l == [s EXCEPT !.owned = FALSE, !.registered = FALSE, !.failures = 0,
                          !.dormant = FALSE, !.then_start = FALSE]
<1>0. RestartBudget \in Nat /\ 0 \in 0..RestartBudget + 1
  <2>1. RestartBudget \in Nat
    BY PartsAssumption
  <2> QED BY <2>1
<1>1. l \in HostMachine /\ ~l.owned /\ ~l.dormant /\ ~l.registered /\ l.failures = 0
        /\ l.child = s.child /\ l.refused = s.refused /\ ~l.then_start
  BY <1>0 DEF HostMachine
<1>2. CASE ~s.owned
  <2>1. x.m = s /\ x.actions = <<>>
    BY <1>2 DEF Hud!name_lost, Hud!Then
  <2> QED BY <1>2, <2>1, ActionsAre
<1>3. CASE s.owned /\ s.child = "Running"
  <2> DEFINE k == [l EXCEPT !.child = "Stopping"]
  <2>1. x.m = k /\ x.actions = <<"Terminate", "ArmKill">>
    BY <1>3 DEF Hud!name_lost, Hud!Then
  <2>2. k \in HostMachine /\ ~k.owned /\ ~k.dormant /\ ~k.registered /\ k.failures = 0
          /\ k.child = "Stopping" /\ k.refused = s.refused /\ ~k.then_start
    BY <1>1 DEF HostMachine
  <2> HIDE DEF l, k, x
  <2>3. MachineSound(k)
    BY <1>0, <2>2 DEF MachineSound, Coming
  <2>4. Hud!has_child(k) /\ Hud!has_child(s)
    BY <1>3, <2>2 DEF Hud!has_child
  <2> QED BY <2>1, <2>2, <2>3, <2>4, ActionsAre DEF HostActions, x
<1>4. CASE s.owned /\ s.child = "Backoff"
  <2> DEFINE k == [l EXCEPT !.child = "None"]
  <2>1. x.m = k /\ x.actions = <<"CancelRestart">>
    BY <1>4 DEF Hud!name_lost, Hud!Then
  <2>2. k \in HostMachine /\ ~k.owned /\ ~k.dormant /\ ~k.registered /\ k.failures = 0
          /\ k.child = "None" /\ k.refused = s.refused /\ ~k.then_start
    BY <1>1 DEF HostMachine
  <2> HIDE DEF l, k, x
  <2>3. MachineSound(k)
    BY <1>0, <2>2 DEF MachineSound, Coming
  <2>4. ~Hud!has_child(k) /\ ~Hud!has_child(s)
    BY <1>4, <2>2 DEF Hud!has_child
  <2> QED BY <2>1, <2>2, <2>3, <2>4, ActionsAre DEF HostActions, x
<1>5. CASE s.owned /\ s.child \notin {"Running", "Backoff"}
  <2>1. x.m = l /\ x.actions = <<>>
    BY <1>5 DEF Hud!name_lost, Hud!Then
  <2> HIDE DEF l, x
  <2>2. MachineSound(l)
    BY <1>0, <1>1, <1>5 DEF MachineSound, Coming
  <2>3. Hud!has_child(l) <=> Hud!has_child(s)
    BY <1>1 DEF Hud!has_child
  <2> QED BY <1>1, <2>1, <2>2, <2>3, ActionsAre DEF x
<1> QED BY <1>2, <1>3, <1>4, <1>5

\* It is told to leave.
LEMMA ShutdownIs ==
  ASSUME NEW s \in HostMachine, MachineSound(s)
  PROVE  LET x == Hud!Shutdown(s) IN
         /\ ActionsOf(x.actions) \subseteq {"Unregister", "Terminate", "ArmKill", "CancelRestart"}
         /\ x.m \in HostMachine /\ MachineSound(x.m)
         /\ Hud!has_child(x.m) <=> Hud!has_child(s)
<1> DEFINE x == Hud!Shutdown(s)
           y == Hud!name_lost(s)
           u == Hud!unregister(s)
           k == [y.m EXCEPT !.registered = FALSE]
<1>1. x.m = k /\ x.actions = u \o y.actions
  BY DEF Hud!Shutdown, Hud!Then
<1>2. u \in Seq(HostActions) /\ ActionsOf(u) \subseteq {"Unregister"}
  <2>1. u = <<"Unregister">> \/ u = <<>>
    BY DEF Hud!unregister
  <2>2. <<"Unregister">> \in Seq(HostActions) /\ ActionsOf(<<"Unregister">>) = {"Unregister"}
    BY ActionsAre DEF HostActions
  <2> HIDE DEF u
  <2> QED BY <2>1, <2>2, ActionsAre
<1>3. /\ y.actions \in Seq(HostActions)
      /\ ActionsOf(y.actions) \subseteq {"Terminate", "ArmKill", "CancelRestart"}
      /\ y.m \in HostMachine /\ MachineSound(y.m) /\ ~y.m.owned
      /\ Hud!has_child(y.m) <=> Hud!has_child(s)
  BY LostIs
<1> HIDE DEF u, y
<1>4. ActionsOf(u \o y.actions) = ActionsOf(u) \cup ActionsOf(y.actions)
  BY <1>2, <1>3, ActionsJoin
<1>5. /\ k \in HostMachine /\ ~k.registered /\ k.owned = y.m.owned /\ k.dormant = y.m.dormant
      /\ k.child = y.m.child /\ k.failures = y.m.failures /\ k.refused = y.m.refused
      /\ k.then_start = y.m.then_start
  BY <1>3 DEF HostMachine
<1> HIDE DEF k, x
<1>6. MachineSound(k) /\ (Hud!has_child(k) <=> Hud!has_child(y.m))
  BY <1>3, <1>5 DEF MachineSound, Coming, Hud!has_child, Hud!startable
<1> QED BY <1>1, <1>2, <1>3, <1>4, <1>5, <1>6 DEF x

\* Its child ended.
LEMMA ExitedIs ==
  ASSUME NEW s \in HostMachine, MachineSound(s), Hud!has_child(s), NEW c,
         NEW r \in Hud!Outcomes(Hud!exited(s, c))
  PROVE  /\ Allowed(s, r) /\ ~Hud!Does(r, "Kill") /\ r.m.child # "Stopping"
         /\ r.m.owned = s.owned
         /\ ~Hud!Does(r, "Spawn") => r.m.child # "Running"
         /\ r.m.refused /\ ~s.refused => s.child = "Running"
<1> DEFINE x == Hud!exited(s, c)
           n == [s EXCEPT !.child = "None"]
<1>0. RestartBudget \in Nat /\ 0 \in 0..RestartBudget + 1
  <2>1. RestartBudget \in Nat
    BY PartsAssumption
  <2> QED BY <2>1
<1>1. /\ n \in HostMachine /\ n.child = "None" /\ n.owned = s.owned /\ n.dormant = s.dormant
      /\ n.refused = s.refused /\ n.registered = s.registered /\ n.failures = s.failures
      /\ n.then_start = s.then_start
  BY DEF HostMachine
<1>2. CASE s.child = "Stopping"
  <2> DEFINE k == [n EXCEPT !.failures = 0, !.then_start = FALSE]
             a == IF s.then_start /\ Hud!startable(s) THEN <<"CancelKill", "Spawn">> ELSE <<"CancelKill">>
  <2>1. x = [m |-> k, actions |-> a]
    BY <1>2 DEF Hud!exited, Hud!Then
  <2>2. x.m = k /\ x.actions = a
    BY <2>1
  <2>3. /\ k \in HostMachine /\ k.child = "None" /\ k.owned = s.owned /\ k.dormant = s.dormant
        /\ k.refused = s.refused /\ k.registered = s.registered /\ k.failures = 0
    <3> HIDE DEF n
    <3> QED BY <1>0, <1>1 DEF HostMachine
  <2> HIDE DEF n, k, a, x
  <2>4. CASE s.then_start /\ Hud!startable(s)
    <3>1. x.actions \in Seq(HostActions) /\ ActionsOf(x.actions) = {"CancelKill", "Spawn"}
      BY <2>2, <2>4, ActionsAre DEF HostActions, a
    <3>2. Hud!startable(k) /\ k.failures <= RestartBudget /\ k.registered
      BY <1>0, <1>2, <2>3, <2>4 DEF Hud!startable, MachineSound, Coming
    <3>3. /\ Allowed(s, r) /\ ~Hud!Does(r, "Kill") /\ Hud!Does(r, "Spawn")
          /\ r.m.owned /\ r.m.child # "Stopping"
      BY <2>2, <2>3, <3>1, <3>2, SpawnIs DEF x
    <3>4. s.owned /\ s \in HostMachine /\ r.m \in HostMachine
      BY <2>4, <3>3 DEF Hud!startable, Allowed
    <3>5. r.m.owned = s.owned
      BY <3>3, <3>4 DEF HostMachine
    <3>6. r.m.refused => s.refused \/ Hud!Does(r, "Unregister")
      BY <3>3 DEF Allowed
    <3>7. ~r.m.refused
      <4>1. r.m.refused = k.refused
        BY <2>2, <2>3, <2>4, <3>1, <3>2, SpawnRefused DEF x
      <4> QED BY <2>3, <2>4, <4>1 DEF Hud!startable
    <3> QED BY <3>3, <3>5, <3>7
  <2>5. CASE ~(s.then_start /\ Hud!startable(s))
    <3>1. ActionsOf(x.actions) = {"CancelKill"}
      BY <2>2, <2>5, ActionsAre DEF HostActions, a
    <3>2. r = x
      BY <3>1, NoSpawn DEF x
    <3>3. ~s.registered
      BY <1>2, <2>5 DEF MachineSound, Coming
    <3>4. MachineSound(k)
      BY <1>0, <2>3, <3>3 DEF MachineSound, Coming
    <3> QED BY <2>2, <2>3, <3>1, <3>2, <3>3, <3>4, DoesIt DEF Allowed
  <2> QED BY <2>4, <2>5
<1>3. CASE s.child = "Running" /\ c = "cannot_host"
  <2> DEFINE k == [n EXCEPT !.refused = TRUE, !.registered = FALSE]
             u == Hud!unregister(s)
  <2>1. x = [m |-> k, actions |-> u]
    BY <1>3 DEF Hud!exited, Hud!Then
  <2>2. x.m = k /\ x.actions = u
    BY <2>1
  <2>3. /\ k \in HostMachine /\ k.child = "None" /\ k.owned = s.owned /\ k.dormant = s.dormant
        /\ k.refused /\ ~k.registered /\ k.failures = s.failures
    BY <1>1 DEF HostMachine
  <2> HIDE DEF n, k, u, x
  <2>4. ActionsOf(u) = (IF s.registered THEN {"Unregister"} ELSE {})
    <3>1. u = IF s.registered THEN <<"Unregister">> ELSE <<>>
      BY DEF u, Hud!unregister
    <3> QED BY <3>1, ActionsAre DEF HostActions
  <2>5. r = x
    BY <2>2, <2>4, NoSpawn DEF x
  <2>6. MachineSound(k)
    BY <2>3 DEF MachineSound, Coming
  <2>7. Hud!Does(r, "Unregister") <=> s.registered
    BY <2>2, <2>4, <2>5, DoesIt
  <2>11. s.registered
    BY <1>3 DEF MachineSound, Coming
  <2>8. ~Hud!Does(r, "Register") /\ ~Hud!Does(r, "Kill") /\ ~Hud!Does(r, "Spawn")
    BY <2>2, <2>4, <2>5, DoesIt
  <2>10. r.m = k
    BY <2>2, <2>5
  <2> QED BY <1>3, <2>3, <2>6, <2>7, <2>8, <2>10, <2>11 DEF Allowed
<1>4. CASE s.child = "Running" /\ c # "cannot_host"
  <2> DEFINE b == IF c = "healthy" THEN [n EXCEPT !.failures = 0] ELSE n
             f == Hud!fail(b)
  <2>1. x = f
    BY <1>4 DEF Hud!exited
  <2>2. /\ b \in HostMachine /\ b.child = "None" /\ b.owned = s.owned /\ b.dormant = s.dormant
        /\ b.refused = s.refused /\ b.registered = s.registered /\ b.failures \in {0, s.failures}
    <3> HIDE DEF n
    <3>1. CASE c = "healthy"
      BY <1>0, <1>1, <3>1 DEF HostMachine
    <3>2. CASE c # "healthy"
      BY <1>1, <3>2
    <3> QED BY <3>1, <3>2
  <2> HIDE DEF n, b
  <2>3. Hud!startable(s) /\ s.failures <= RestartBudget /\ s.registered
    BY <1>4 DEF MachineSound, Coming, Hud!startable
  <2>4. b.failures <= RestartBudget
    BY <1>0, <2>2, <2>3
  <2>5. /\ \/ /\ f.m = [b EXCEPT !.failures = @ + 1, !.child = "Backoff"]
              /\ f.m.failures <= RestartBudget
              /\ ActionsOf(f.actions) = {"ArmRestart"}
           \/ /\ f.m = [b EXCEPT !.failures = @ + 1, !.dormant = TRUE, !.registered = FALSE]
              /\ ActionsOf(f.actions) = IF b.registered THEN {"Unregister"} ELSE {}
        /\ f.m \in HostMachine
    BY <2>2, <2>4, FailIs
  <2> HIDE DEF f, x
  <2>6. "Spawn" \notin ActionsOf(f.actions)
    BY <2>5
  <2>7. r = f
    BY <2>1, <2>6, NoSpawn DEF x
  <2>8. CASE /\ f.m = [b EXCEPT !.failures = @ + 1, !.child = "Backoff"]
             /\ f.m.failures <= RestartBudget
             /\ ActionsOf(f.actions) = {"ArmRestart"}
    <3>1. /\ f.m.child = "Backoff" /\ f.m.owned = s.owned /\ f.m.dormant = s.dormant
          /\ f.m.refused = s.refused /\ f.m.registered = s.registered
      BY <2>2, <2>8 DEF HostMachine
    <3>2. MachineSound(f.m)
      BY <2>3, <2>8, <3>1 DEF MachineSound, Coming, Hud!startable
    <3> QED BY <2>3, <2>5, <2>7, <2>8, <3>1, <3>2, DoesIt DEF Allowed
  <2>9. CASE /\ f.m = [b EXCEPT !.failures = @ + 1, !.dormant = TRUE, !.registered = FALSE]
             /\ ActionsOf(f.actions) = IF b.registered THEN {"Unregister"} ELSE {}
    <3>1. /\ f.m.child = "None" /\ f.m.owned = s.owned /\ f.m.dormant
          /\ f.m.refused = s.refused /\ ~f.m.registered
      BY <2>2, <2>9 DEF HostMachine
    <3>2. MachineSound(f.m)
      BY <2>3, <3>1 DEF MachineSound, Coming, Hud!startable
    <3>3. s.registered => "Unregister" \in ActionsOf(f.actions)
      BY <2>2, <2>9
    <3>4. "Register" \notin ActionsOf(f.actions) /\ "Kill" \notin ActionsOf(f.actions)
      BY <2>9
    <3> QED BY <2>5, <2>7, <3>1, <3>2, <3>3, <3>4, DoesIt DEF Allowed
  <2> QED BY <2>5, <2>8, <2>9
<1> QED BY <1>2, <1>3, <1>4 DEF Hud!has_child

\* Its timers.
LEMMA TimersAre ==
  ASSUME NEW s \in HostMachine, MachineSound(s), NEW tm \in {"restart", "kill"},
         NEW r \in Hud!Outcomes(IF tm = "restart" THEN Hud!RestartDue(s) ELSE Hud!KillDue(s))
  PROVE  /\ Allowed(s, r) /\ r.m.owned = s.owned
         /\ Hud!Does(r, "Kill") => Hud!has_child(s)
         /\ Hud!Does(r, "Spawn") => /\ ~Hud!has_child(s) /\ r.m.child # "Stopping"
                                    /\ ~Hud!Does(r, "Kill")
         /\ ~Hud!Does(r, "Spawn") => r.m.child = s.child
         /\ r.m.refused => s.refused
<1>1. CASE tm = "restart" /\ s.child = "Backoff" /\ s.owned
  <2> DEFINE x == Hud!RestartDue(s)
             k == [s EXCEPT !.child = "None"]
  <2>1. x.m = k /\ x.actions = <<"Spawn">>
    BY <1>1 DEF Hud!RestartDue, Hud!Then
  <2>2. /\ k \in HostMachine /\ k.child = "None" /\ k.owned = s.owned /\ k.dormant = s.dormant
        /\ k.refused = s.refused /\ k.registered = s.registered /\ k.failures = s.failures
    BY DEF HostMachine
  <2>3. r \in Hud!Outcomes(x)
    BY <1>1
  <2> HIDE DEF x, k
  <2>4. x.actions \in Seq(HostActions) /\ ActionsOf(x.actions) = {"Spawn"}
    BY <2>1, ActionsAre DEF HostActions
  <2>5. Hud!startable(k) /\ k.failures <= RestartBudget /\ k.registered
    BY <1>1, <2>2 DEF MachineSound, Coming, Hud!startable
  <2>6. /\ Allowed(s, r) /\ ~Hud!Does(r, "Kill") /\ Hud!Does(r, "Spawn")
        /\ r.m.owned /\ r.m.child # "Stopping"
    BY <2>1, <2>2, <2>3, <2>4, <2>5, SpawnIs
  <2>7. r.m.refused = k.refused
    BY <2>1, <2>2, <2>3, <2>4, <2>5, SpawnRefused
  <2>8. r.m.owned = s.owned
    BY <1>1, <2>6 DEF Allowed, HostMachine
  <2> QED BY <1>1, <2>2, <2>6, <2>7, <2>8 DEF Hud!has_child
<1>2. CASE ~(tm = "restart" /\ s.child = "Backoff" /\ s.owned)
  <2> DEFINE x == IF tm = "restart" THEN Hud!RestartDue(s) ELSE Hud!KillDue(s)
  <2>1. x.m = s /\ (x.actions = <<>> \/ (x.actions = <<"Kill">> /\ s.child = "Stopping"))
    <3>1. CASE tm = "restart"
      BY <1>2, <3>1 DEF Hud!RestartDue, Hud!Then
    <3>2. CASE tm # "restart"
      <4>1. x = [m |-> s, actions |-> IF s.child = "Stopping" THEN <<"Kill">> ELSE <<>>]
        BY <3>2 DEF Hud!KillDue, Hud!Then
      <4> HIDE DEF x
      <4> QED BY <4>1
    <3> QED BY <3>1, <3>2
  <2> HIDE DEF x
  <2>2. ActionsOf(x.actions) \subseteq {"Kill"} /\ ("Kill" \in ActionsOf(x.actions) => s.child = "Stopping")
    <3>1. CASE x.actions = <<>>
      BY <3>1, ActionsAre
    <3>2. CASE x.actions = <<"Kill">> /\ s.child = "Stopping"
      <4>1. ActionsOf(<<"Kill">>) = {"Kill"}
        BY ActionsAre DEF HostActions
      <4> QED BY <3>2, <4>1
    <3> QED BY <2>1, <3>1, <3>2
  <2>3. r = x
    BY <2>2, NoSpawn DEF x
  <2> QED BY <2>1, <2>2, <2>3, DoesIt DEF Allowed, Hud!has_child
<1> QED BY <1>1, <1>2

\* It holds at first.
LEMMA HudStarts == Hud!HudHostInit => HudInv
<1> SUFFICES ASSUME Hud!HudHostInit PROVE HudInv
  OBVIOUS
<1>0. RestartBudget \in Nat /\ 0 \in 0..RestartBudget + 1
  <2>1. RestartBudget \in Nat
    BY PartsAssumption
  <2> QED BY <2>1
<1>1. /\ machine \in HostMachine /\ machine.child = "None" /\ ~machine.registered /\ ~machine.dormant
      /\ machine.failures = 0 /\ ~machine.owned /\ ~machine.refused
  BY <1>0 DEF Hud!HudHostInit, HostMachine
<1>2. MachineSound(machine)
  BY <1>0, <1>1 DEF MachineSound, Coming
<1>3. /\ up = FALSE /\ clients = {} /\ news = <<>> /\ host = "running" /\ hud = "none"
      /\ armed = {} /\ doubled = FALSE
  BY DEF Hud!HudHostInit
<1>4. BooksSound
  <2>1. machine.owned = FALSE /\ up = FALSE
    BY <1>1, <1>3 DEF HostMachine
  <2>2. "host" \notin clients
    BY <1>3
  <2> QED BY <1>1, <1>3, <2>1, <2>2 DEF BooksSound
<1>5. Hud!TypeOK /\ Hud!OneHud
  BY <1>0, <1>1, <1>3, EmptySeq DEF Hud!TypeOK, Hud!OneHud, Hud!has_child
<1> QED BY <1>1, <1>2, <1>4, <1>5 DEF HudInv

\* Performing a rule keeps one HUD.
LEMMA FeedKeeps ==
  ASSUME HudInv, host # "ended", NEW x, NEW h \in {"none", "starting", "up", "dead"},
         NEW left \in SUBSET {"restart", "kill"}, NEW leaving \in BOOLEAN,
         NEW r \in Hud!Outcomes(x),
         r.m \in HostMachine, MachineSound(r.m),
         Hud!Does(r, "Kill") => h # "none",
         Hud!Does(r, "Spawn") => h = "none" /\ r.m.child # "Stopping",
         ~Hud!Does(r, "Spawn") => (Hud!has_child(r.m) <=> h # "none"),
         machine' = r.m, Hud!tell_daemon(r), Hud!timers(r, left),
         hud' = (IF Hud!Spawned(r) THEN "starting"
                 ELSE IF Hud!Does(r, "Kill") /\ h # "none" THEN "dead" ELSE h),
         doubled' = (doubled \/ (Hud!Spawned(r) /\ h # "none")),
         host' = (IF ~leaving THEN host
                  ELSE IF Hud!has_child(r.m) THEN "quitting" ELSE "ended")
  PROVE  /\ machine' \in HostMachine /\ MachineSound(machine') /\ Hud!OneHud'
         /\ hud' \in {"none", "starting", "up", "dead"} /\ armed' \in SUBSET {"restart", "kill"}
         /\ host' \in {"running", "quitting", "ended"} /\ clients' \in SUBSET {"host", "hud"}
         /\ machine'.child \in {"None", "Running", "Stopping", "Backoff"}
         /\ machine'.failures \in 0..RestartBudget + 1
<1>1. ~doubled /\ clients \in SUBSET {"host", "hud"} /\ host \in {"running", "quitting", "ended"}
  BY DEF HudInv, Hud!OneHud, Hud!TypeOK
<1>2. clients' \in SUBSET {"host", "hud"}
  BY <1>1 DEF Hud!tell_daemon
<1>3. armed' \in SUBSET {"restart", "kill"}
  BY DEF Hud!timers
<1>4. Hud!Spawned(r) => Hud!Does(r, "Spawn") /\ r.m.child = "Running"
  BY DEF Hud!Spawned
<1>5. ~doubled'
  BY <1>1, <1>4
<1>6. Hud!has_child(r.m) <=> hud' # "none"
  <2>1. CASE Hud!Spawned(r)
    BY <1>4, <2>1 DEF Hud!has_child
  <2>2. CASE ~Hud!Spawned(r) /\ Hud!Does(r, "Spawn")
    BY <2>2 DEF Hud!has_child, Hud!Spawned
  <2>3. CASE ~Hud!Does(r, "Spawn")
    BY <1>4, <2>3
  <2> QED BY <2>1, <2>2, <2>3
<1>7. Hud!OneHud'
  BY <1>5, <1>6 DEF Hud!OneHud, Hud!has_child
<1>8. machine'.child \in {"None", "Running", "Stopping", "Backoff"} /\ machine'.failures \in 0..RestartBudget + 1
  BY DEF HostMachine
<1> QED BY <1>1, <1>2, <1>3, <1>7, <1>8

\* What a rule of a running host that leaves it with the owner it knows does to the books.
LEMMA BooksKept ==
  ASSUME HudInv, NEW r, Allowed(machine, r), r.m.owned = machine.owned,
         machine' = r.m, Hud!tell_daemon(r), UNCHANGED <<up, news>>, host' = "running" => host = "running"
  PROVE  BooksSound'
<1> SUFFICES ASSUME host' = "running" PROVE BooksSound'
  BY DEF BooksSound
<1>1. /\ news = <<>> => machine.owned = up
      /\ news # <<>> => news[Len(news)] = IF up THEN "owned" ELSE "lost"
      /\ "host" \in clients =>
           /\ up /\ ~machine.refused
           /\ machine.registered \/ (~machine.owned /\ news # <<>>)
  BY DEF HudInv, BooksSound
<1>2. machine.registered => machine.owned
  BY DEF HudInv, MachineSound, Hud!startable
<1>3. r.m.registered => ~r.m.refused
  BY DEF Allowed, MachineSound, Hud!startable
<1>4. ASSUME "host" \in clients'
      PROVE  up /\ ~r.m.refused /\ (r.m.registered \/ (~r.m.owned /\ news # <<>>))
  <2>1. ~Hud!Does(r, "Unregister")
    BY <1>4 DEF Hud!tell_daemon
  <2>2. "host" \in clients \/ (up /\ Hud!Does(r, "Register"))
    BY <1>4 DEF Hud!tell_daemon
  <2>3. CASE "host" \in clients
    BY <1>1, <1>2, <2>1, <2>3 DEF Allowed
  <2>4. CASE up /\ Hud!Does(r, "Register")
    BY <1>3, <2>1, <2>4 DEF Allowed
  <2> QED BY <2>2, <2>3, <2>4
<1> QED BY <1>1, <1>4 DEF BooksSound

\* An empty sequence has no length.
LEMMA EmptyLen == ASSUME NEW w, w = <<>> PROVE Len(w) = 0
  OBVIOUS

\* The news but for the first.
LEMMA NewsTail ==
  ASSUME HudInv, news # <<>>
  PROVE  /\ Head(news) \in {"owned", "lost"} /\ Tail(news) \in Seq({"owned", "lost"})
         /\ Tail(news) = <<>> => news[Len(news)] = Head(news)
         /\ Tail(news) # <<>> => Tail(news)[Len(Tail(news))] = news[Len(news)]
<1> DEFINE S == {"owned", "lost"}
<1>1. news \in Seq(S)
  BY DEF HudInv, Hud!TypeOK
<1>2. /\ Head(news) \in S /\ Head(news) = news[1] /\ Tail(news) \in Seq(S)
      /\ Len(Tail(news)) = Len(news) - 1 /\ Len(news) \in Nat \ {0}
      /\ \A i \in 1..(Len(news) - 1) : Tail(news)[i] = news[i + 1]
  BY <1>1, Taken
<1>3. ASSUME Tail(news) = <<>> PROVE Len(news) = 1
  <2>1. Len(Tail(news)) = 0
    BY <1>3, EmptyLen
  <2>2. Len(news) - 1 = 0 /\ Len(news) \in Nat
    BY <1>2, <2>1
  <2> QED BY <2>2
<1>4. ASSUME Tail(news) # <<>> PROVE Len(news) - 1 \in 1..(Len(news) - 1)
  BY <1>2, <1>4, EmptySeq
<1> QED BY <1>2, <1>3, <1>4

\* The news of the daemon keep it.
LEMMA NewsKeep == ASSUME HudInv, Hud!NameChanges PROVE HudInv'
<1>0. /\ machine \in HostMachine /\ MachineSound(machine) /\ hud \in {"none", "starting", "up", "dead"}
      /\ armed \in SUBSET {"restart", "kill"} /\ (Hud!has_child(machine) <=> hud # "none")
      /\ host # "ended" /\ news # <<>> /\ Hud!Leaving \in BOOLEAN
      /\ news' = Tail(news) /\ UNCHANGED <<up, changes, code>> /\ up \in BOOLEAN
  BY DEF HudInv, Hud!TypeOK, Hud!OneHud, Hud!NameChanges, Hud!Leaving
<1>1. news' \in Seq({"owned", "lost"})
  BY <1>0, NewsTail
<1>2. CASE Head(news) = "owned" /\ Hud!Leaving
  <2>1. UNCHANGED <<machine, clients, armed, hud, doubled, host>> /\ host # "running"
    BY <1>2 DEF Hud!NameChanges, Hud!Leaving
  <2> QED BY <1>0, <1>1, <2>1 DEF HudInv, Hud!TypeOK, Hud!OneHud, BooksSound, Hud!has_child
<1>3. CASE Head(news) = "owned" /\ ~Hud!Leaving
  <2>1. PICK r \in Hud!Outcomes(Hud!name_owned(machine)) :
          /\ machine' = r.m /\ Hud!tell_daemon(r) /\ Hud!timers(r, armed)
          /\ hud' = (IF Hud!Spawned(r) THEN "starting"
                     ELSE IF Hud!Does(r, "Kill") /\ hud # "none" THEN "dead" ELSE hud)
          /\ doubled' = (doubled \/ (Hud!Spawned(r) /\ hud # "none"))
          /\ host' = host
    BY <1>3 DEF Hud!NameChanges, Hud!feed
  <2>2. /\ Allowed(machine, r) /\ ~Hud!Does(r, "Kill")
        /\ Hud!Does(r, "Spawn") => machine.child = "None" /\ r.m.child # "Stopping"
        /\ ~Hud!Does(r, "Spawn") => r.m.child = machine.child
        /\ r.m.owned
        /\ ~machine.owned /\ ~machine.refused => r.m.registered \/ Hud!Does(r, "Unregister")
    BY <1>0, OwnedIs
  <2>3. /\ Hud!Does(r, "Spawn") => hud = "none" /\ r.m.child # "Stopping"
        /\ ~Hud!Does(r, "Spawn") => (Hud!has_child(r.m) <=> hud # "none")
    BY <1>0, <2>2 DEF Hud!has_child
  <2>4. /\ machine' \in HostMachine /\ MachineSound(machine') /\ Hud!OneHud'
        /\ hud' \in {"none", "starting", "up", "dead"} /\ armed' \in SUBSET {"restart", "kill"}
        /\ host' \in {"running", "quitting", "ended"} /\ clients' \in SUBSET {"host", "hud"}
        /\ machine'.child \in {"None", "Running", "Stopping", "Backoff"}
        /\ machine'.failures \in 0..RestartBudget + 1
    <3>1. r.m \in HostMachine /\ MachineSound(r.m)
      BY <2>2 DEF Allowed
    <3>2. host' = (IF ~FALSE THEN host ELSE IF Hud!has_child(r.m) THEN "quitting" ELSE "ended")
      BY <2>1
    <3> QED BY <1>0, <2>1, <2>2, <2>3, <3>1, <3>2, FeedKeeps
  <2>5. BooksSound'
    <3> SUFFICES ASSUME host' = "running" PROVE BooksSound'
      BY DEF BooksSound
    <3>1. /\ news[Len(news)] = IF up THEN "owned" ELSE "lost"
          /\ "host" \in clients =>
               /\ up /\ ~machine.refused
               /\ machine.registered \/ (~machine.owned /\ news # <<>>)
      BY <1>0, <2>1 DEF HudInv, BooksSound
    <3>2. news' = <<>> => up = TRUE
      BY <1>0, <1>3, <3>1, NewsTail
    <3>3. news' # <<>> => news'[Len(news')] = IF up THEN "owned" ELSE "lost"
      BY <1>0, <3>1, NewsTail
    <3>4. r.m.registered => ~r.m.refused
      BY <2>2 DEF Allowed, MachineSound, Hud!startable
    <3>5. ASSUME "host" \in clients' PROVE up /\ r.m.registered
      <4>1. ~Hud!Does(r, "Unregister") /\ ("host" \in clients \/ (up /\ Hud!Does(r, "Register")))
        BY <2>1, <3>5 DEF Hud!tell_daemon
      <4> QED BY <2>2, <3>1, <4>1 DEF Allowed
    <3>6. r.m.owned = TRUE
      BY <2>2 DEF Allowed, HostMachine
    <3> QED BY <1>0, <2>1, <3>2, <3>3, <3>4, <3>5, <3>6 DEF BooksSound
  <2> QED BY <1>0, <1>1, <2>4, <2>5 DEF HudInv, Hud!TypeOK
<1>4. CASE Head(news) = "lost"
  <2> DEFINE x == Hud!name_lost(machine)
  <2>1. PICK r \in Hud!Outcomes(x) :
          /\ machine' = r.m /\ Hud!tell_daemon(r) /\ Hud!timers(r, armed)
          /\ hud' = (IF Hud!Spawned(r) THEN "starting"
                     ELSE IF Hud!Does(r, "Kill") /\ hud # "none" THEN "dead" ELSE hud)
          /\ doubled' = (doubled \/ (Hud!Spawned(r) /\ hud # "none"))
          /\ host' = (IF ~Hud!Leaving THEN host
                      ELSE IF Hud!has_child(r.m) THEN "quitting" ELSE "ended")
    BY <1>4 DEF Hud!NameChanges, Hud!feed
  <2>2. /\ x.actions \in Seq(HostActions)
        /\ ActionsOf(x.actions) \subseteq {"Terminate", "ArmKill", "CancelRestart"}
        /\ x.m \in HostMachine /\ MachineSound(x.m) /\ ~x.m.owned
        /\ x.m.refused = machine.refused
        /\ Hud!has_child(x.m) <=> Hud!has_child(machine)
    BY <1>0, LostIs
  <2> HIDE DEF x
  <2>3. r = x
    BY <2>2, NoSpawn
  <2>4. /\ ~Hud!Does(r, "Kill") /\ ~Hud!Does(r, "Spawn")
        /\ ~Hud!Does(r, "Register") /\ ~Hud!Does(r, "Unregister")
    BY <2>2, <2>3, DoesIt
  <2>5. /\ machine' \in HostMachine /\ MachineSound(machine') /\ Hud!OneHud'
        /\ hud' \in {"none", "starting", "up", "dead"} /\ armed' \in SUBSET {"restart", "kill"}
        /\ host' \in {"running", "quitting", "ended"} /\ clients' \in SUBSET {"host", "hud"}
        /\ machine'.child \in {"None", "Running", "Stopping", "Backoff"}
        /\ machine'.failures \in 0..RestartBudget + 1
    <3>1. Hud!has_child(r.m) <=> hud # "none"
      BY <1>0, <2>2, <2>3
    <3> QED BY <1>0, <2>1, <2>2, <2>3, <2>4, <3>1, FeedKeeps
  <2>6. BooksSound'
    <3> SUFFICES ASSUME host' = "running" PROVE BooksSound'
      BY DEF BooksSound
    <3>0. host = "running"
      BY <2>1 DEF Hud!Leaving
    <3>1. /\ news[Len(news)] = IF up THEN "owned" ELSE "lost"
          /\ "host" \in clients => up /\ ~machine.refused
      BY <1>0, <3>0 DEF HudInv, BooksSound
    <3>2. news' = <<>> => ~up
      BY <1>0, <1>4, <3>1, NewsTail
    <3>3. news' # <<>> => news'[Len(news')] = IF up THEN "owned" ELSE "lost"
      BY <1>0, <3>1, NewsTail
    <3>4. clients' = clients
      BY <2>1, <2>4 DEF Hud!tell_daemon
    <3>5. machine'.owned = FALSE /\ machine'.refused = machine.refused
      BY <2>1, <2>2, <2>3 DEF HostMachine
    <3>6. up' = up /\ (~up => up = FALSE)
      BY <1>0
    <3> QED BY <3>1, <3>2, <3>3, <3>4, <3>5, <3>6 DEF BooksSound
  <2> QED BY <1>0, <1>1, <2>5, <2>6 DEF HudInv, Hud!TypeOK
<1> QED BY <1>0, <1>2, <1>3, <1>4, NewsTail

\* The exit of the HUD keeps it.
LEMMA ExitKeeps == ASSUME HudInv, Hud!Exited PROVE HudInv'
<1>0. /\ machine \in HostMachine /\ MachineSound(machine) /\ hud = "dead"
      /\ armed \in SUBSET {"restart", "kill"} /\ Hud!has_child(machine)
      /\ host # "ended" /\ Hud!Leaving \in BOOLEAN
      /\ UNCHANGED <<up, news, changes>> /\ up \in BOOLEAN /\ news \in Seq({"owned", "lost"})
  BY DEF HudInv, Hud!TypeOK, Hud!OneHud, Hud!Exited, Hud!Leaving
<1>1. PICK r \in Hud!Outcomes(Hud!exited(machine, code)) :
        /\ machine' = r.m /\ Hud!tell_daemon(r) /\ Hud!timers(r, armed)
        /\ hud' = (IF Hud!Spawned(r) THEN "starting"
                   ELSE IF Hud!Does(r, "Kill") /\ "none" # "none" THEN "dead" ELSE "none")
        /\ doubled' = (doubled \/ (Hud!Spawned(r) /\ "none" # "none"))
        /\ host' = (IF ~Hud!Leaving THEN host
                    ELSE IF Hud!has_child(r.m) THEN "quitting" ELSE "ended")
  BY DEF Hud!Exited, Hud!feed
<1>2. /\ Allowed(machine, r) /\ ~Hud!Does(r, "Kill") /\ r.m.child # "Stopping"
      /\ r.m.owned = machine.owned
      /\ ~Hud!Does(r, "Spawn") => r.m.child # "Running"
  BY <1>0, ExitedIs
<1>3. /\ machine' \in HostMachine /\ MachineSound(machine') /\ Hud!OneHud'
      /\ hud' \in {"none", "starting", "up", "dead"} /\ armed' \in SUBSET {"restart", "kill"}
      /\ host' \in {"running", "quitting", "ended"} /\ clients' \in SUBSET {"host", "hud"}
      /\ machine'.child \in {"None", "Running", "Stopping", "Backoff"}
      /\ machine'.failures \in 0..RestartBudget + 1
  <2>1. r.m \in HostMachine /\ MachineSound(r.m)
    BY <1>2 DEF Allowed
  <2>2. ~Hud!Does(r, "Spawn") => ~Hud!has_child(r.m)
    BY <1>2 DEF Hud!has_child
  <2> QED BY <1>0, <1>1, <1>2, <2>1, <2>2, FeedKeeps
<1>4. host' = "running" => host = "running"
  BY <1>1
<1>5. BooksSound'
  BY <1>0, <1>1, <1>2, <1>4, BooksKept
<1> QED BY <1>0, <1>3, <1>5 DEF HudInv, Hud!TypeOK

\* A timer keeps it.
LEMMA TimerKeeps == ASSUME HudInv, NEW tm \in {"restart", "kill"}, Hud!Timer(tm) PROVE HudInv'
<1>0. /\ machine \in HostMachine /\ MachineSound(machine) /\ hud \in {"none", "starting", "up", "dead"}
      /\ armed \ {tm} \in SUBSET {"restart", "kill"} /\ (Hud!has_child(machine) <=> hud # "none")
      /\ host # "ended" /\ Hud!Leaving \in BOOLEAN
      /\ UNCHANGED <<up, news, changes>> /\ up \in BOOLEAN /\ news \in Seq({"owned", "lost"})
  BY DEF HudInv, Hud!TypeOK, Hud!OneHud, Hud!Timer, Hud!Leaving
<1>1. PICK r \in Hud!Outcomes(IF tm = "restart" THEN Hud!RestartDue(machine) ELSE Hud!KillDue(machine)) :
        /\ machine' = r.m /\ Hud!tell_daemon(r) /\ Hud!timers(r, armed \ {tm})
        /\ hud' = (IF Hud!Spawned(r) THEN "starting"
                   ELSE IF Hud!Does(r, "Kill") /\ hud # "none" THEN "dead" ELSE hud)
        /\ doubled' = (doubled \/ (Hud!Spawned(r) /\ hud # "none"))
        /\ host' = (IF ~Hud!Leaving THEN host
                    ELSE IF Hud!has_child(r.m) THEN "quitting" ELSE "ended")
  BY DEF Hud!Timer, Hud!feed
<1>2. /\ Allowed(machine, r) /\ r.m.owned = machine.owned
      /\ Hud!Does(r, "Kill") => Hud!has_child(machine)
      /\ Hud!Does(r, "Spawn") => /\ ~Hud!has_child(machine) /\ r.m.child # "Stopping"
                                 /\ ~Hud!Does(r, "Kill")
      /\ ~Hud!Does(r, "Spawn") => r.m.child = machine.child
  BY <1>0, TimersAre
<1>3. /\ machine' \in HostMachine /\ MachineSound(machine') /\ Hud!OneHud'
      /\ hud' \in {"none", "starting", "up", "dead"} /\ armed' \in SUBSET {"restart", "kill"}
      /\ host' \in {"running", "quitting", "ended"} /\ clients' \in SUBSET {"host", "hud"}
      /\ machine'.child \in {"None", "Running", "Stopping", "Backoff"}
      /\ machine'.failures \in 0..RestartBudget + 1
  <2>1. r.m \in HostMachine /\ MachineSound(r.m)
    BY <1>2 DEF Allowed
  <2>2. ~Hud!Does(r, "Spawn") => (Hud!has_child(r.m) <=> hud # "none")
    BY <1>0, <1>2 DEF Hud!has_child
  <2> QED BY <1>0, <1>1, <1>2, <2>1, <2>2, FeedKeeps
<1>4. host' = "running" => host = "running"
  BY <1>1
<1>5. BooksSound'
  BY <1>0, <1>1, <1>2, <1>4, BooksKept
<1> QED BY <1>0, <1>3, <1>5 DEF HudInv, Hud!TypeOK

\* Leaving keeps it.
LEMMA EndKeeps == ASSUME HudInv, Hud!end PROVE HudInv'
<1> DEFINE x == Hud!Shutdown(machine)
<1>0. /\ machine \in HostMachine /\ MachineSound(machine) /\ hud \in {"none", "starting", "up", "dead"}
      /\ armed \in SUBSET {"restart", "kill"} /\ (Hud!has_child(machine) <=> hud # "none")
      /\ host # "ended" /\ UNCHANGED <<up, news, changes>> /\ up \in BOOLEAN
      /\ news \in Seq({"owned", "lost"})
  BY DEF HudInv, Hud!TypeOK, Hud!OneHud, Hud!end
<1>1. PICK r \in Hud!Outcomes(x) :
        /\ machine' = r.m /\ Hud!tell_daemon(r) /\ Hud!timers(r, armed)
        /\ hud' = (IF Hud!Spawned(r) THEN "starting"
                   ELSE IF Hud!Does(r, "Kill") /\ hud # "none" THEN "dead" ELSE hud)
        /\ doubled' = (doubled \/ (Hud!Spawned(r) /\ hud # "none"))
        /\ host' = (IF ~TRUE THEN host
                    ELSE IF Hud!has_child(r.m) THEN "quitting" ELSE "ended")
  BY DEF Hud!end, Hud!feed
<1>2. /\ ActionsOf(x.actions) \subseteq {"Unregister", "Terminate", "ArmKill", "CancelRestart"}
      /\ x.m \in HostMachine /\ MachineSound(x.m)
      /\ Hud!has_child(x.m) <=> Hud!has_child(machine)
  BY <1>0, ShutdownIs
<1> HIDE DEF x
<1>3. r = x
  BY <1>1, <1>2, NoSpawn
<1>4. ~Hud!Does(r, "Kill") /\ ~Hud!Does(r, "Spawn")
  BY <1>2, <1>3, DoesIt
<1>5. /\ machine' \in HostMachine /\ MachineSound(machine') /\ Hud!OneHud'
      /\ hud' \in {"none", "starting", "up", "dead"} /\ armed' \in SUBSET {"restart", "kill"}
      /\ host' \in {"running", "quitting", "ended"} /\ clients' \in SUBSET {"host", "hud"}
      /\ machine'.child \in {"None", "Running", "Stopping", "Backoff"}
      /\ machine'.failures \in 0..RestartBudget + 1
  <2>1. Hud!has_child(r.m) <=> hud # "none"
    BY <1>0, <1>2, <1>3
  <2> QED BY <1>0, <1>1, <1>2, <1>3, <1>4, <2>1, FeedKeeps
<1>6. BooksSound'
  <2>1. host' # "running"
    BY <1>1
  <2> QED BY <2>1 DEF BooksSound
<1> QED BY <1>0, <1>5, <1>6 DEF HudInv, Hud!TypeOK

\* A daemon that comes or goes keeps it: its registry is empty.
LEMMA DaemonKeeps == ASSUME HudInv, Hud!DaemonChanges PROVE HudInv'
<1> DEFINE e == IF up THEN "lost" ELSE "owned"
           q == Append(news, e)
<1>0. /\ up' = ~up /\ clients' = {} /\ news' = q /\ up \in BOOLEAN /\ e \in {"owned", "lost"}
      /\ UNCHANGED <<host, machine, hud, code, armed, doubled>> /\ news \in Seq({"owned", "lost"})
  BY DEF HudInv, Hud!TypeOK, Hud!DaemonChanges
<1>1. q \in Seq({"owned", "lost"}) /\ Len(q) = Len(news) + 1 /\ q[Len(news) + 1] = e /\ Len(news) \in Nat
  BY <1>0, Added
<1>2. e = IF up' THEN "owned" ELSE "lost"
  BY <1>0
<1> HIDE DEF e, q
<1>3. q # <<>> /\ q[Len(q)] = e
  BY <1>1, EmptySeq
<1>4. BooksSound'
  BY <1>0, <1>2, <1>3 DEF BooksSound
<1> QED BY <1>0, <1>1, <1>4 DEF HudInv, Hud!TypeOK, Hud!OneHud, Hud!has_child

\* What the HUD does by itself, and what the daemon strikes off, keep it.
LEMMA OthersKeep ==
  ASSUME HudInv,
         \/ Hud!register_client
         \/ \E status \in {"cannot_host", "healthy", "other"} : Hud!HudExits(status)
         \/ \E c \in {"host", "hud"} : Hud!remove_if_present(c)
  PROVE  HudInv'
<1>1. /\ UNCHANGED <<up, news, host, machine, armed, doubled>>
      /\ hud' # "none" <=> hud # "none"
      /\ hud' \in {"none", "starting", "up", "dead"} /\ clients' \in SUBSET {"host", "hud"}
      /\ "host" \in clients' => "host" \in clients
  <2>1. /\ hud \in {"none", "starting", "up", "dead"} /\ clients \in SUBSET {"host", "hud"}
    BY DEF HudInv, Hud!TypeOK
  <2>2. CASE Hud!register_client
    BY <2>1, <2>2 DEF Hud!register_client
  <2>3. CASE \E status \in {"cannot_host", "healthy", "other"} : Hud!HudExits(status)
    BY <2>1, <2>3 DEF Hud!HudExits
  <2>4. CASE \E c \in {"host", "hud"} : Hud!remove_if_present(c)
    BY <2>1, <2>4 DEF Hud!remove_if_present
  <2> QED BY <2>2, <2>3, <2>4
<1>2. BooksSound'
  BY <1>1 DEF HudInv, BooksSound
<1>3. Hud!OneHud'
  BY <1>1 DEF HudInv, Hud!OneHud, Hud!has_child
<1> QED BY <1>1, <1>2, <1>3 DEF HudInv, Hud!TypeOK

\* Every step of the supervisor keeps it.
LEMMA HudKeeps == HudInv /\ Hud!HudHostNext => HudInv'
  BY NewsKeep, ExitKeeps, TimerKeeps, EndKeeps, DaemonKeeps, OthersKeep DEF Hud!HudHostNext

\* It is what the supervisor promises: no second HUD, and no registration without one.
LEMMA HudServes == HudInv => Hud!TypeOK /\ Hud!OneHud /\ Hud!NoEmptyPromise
<1> SUFFICES ASSUME HudInv, "host" \in clients, news = <<>>, host = "running"
             PROVE  \/ machine.child \in {"Running", "Backoff"}
                    \/ machine.child = "Stopping" /\ machine.then_start
  BY DEF HudInv, Hud!NoEmptyPromise
<1> QED BY DEF HudInv, BooksSound, MachineSound, Coming

-----------------------------------------------------------------------------
(***************************************************************************)
(* The Shell extension.                                                    *)
(***************************************************************************)

ShellCalls == {"RegisterClient", "UnregisterClient"}

ShellHost ==
  [on : BOOLEAN, starting : BOOLEAN, proxy : {"none", "making", "live"}, present : BOOLEAN,
   registered : BOOLEAN, dormant : BOOLEAN, failures : 0..Budget + 1, timer : BOOLEAN,
   child : SUBSET Renderers, window : SUBSET Renderers]

\* A host with a renderer, or about to restart one, is attached to a daemon it sees and
\* has not used its budget; only such a host is registered.
Single(c) == c = {} \/ \E r \in Renderers : c = {r}
HostSound(h) ==
  /\ Single(h.child) /\ h.window \subseteq h.child
  /\ h.child # {} \/ h.timer => She!Attached(h) /\ h.present /\ h.failures <= Budget
  /\ ~(h.child # {} /\ h.timer)
  /\ h.registered => h.child # {} \/ h.timer

\* The processes and the windows are those the host knows of.
RenderersSound ==
  /\ procs \in [Renderers -> {"none", "running", "killed", "exited"}]
  /\ wins \in [Renderers -> {"none", "created", "docked", "overlay", "stray"}]
  /\ waits = ext.child
  /\ \A r \in Renderers : procs[r] = "running" => ext.child = {r}
  /\ She!WindowKept

\* The owner's changes that a host has yet to hear take turns, from what it saw to what is.
Turns(p, q, u) ==
  /\ q = <<>> => p = u
  /\ q # <<>> => q[1] = ~p /\ q[Len(q)] = u
  /\ \A i \in 1..(Len(q) - 1) : q[i + 1] = ~q[i]

\* The last word of the host to the daemon, said or on its way, is whether it is registered.
Says(q, told, r) ==
  IF q = <<>> THEN told <=> r ELSE q[Len(q)] = "RegisterClient" <=> r

ShellBus ==
  [up : BOOLEAN, news : Seq(BOOLEAN), calls : Seq(ShellCalls), pill : BOOLEAN, changes : Nat]

BusSound(h, b) ==
  /\ b \in ShellBus
  /\ IF h.proxy = "live" THEN Turns(h.present, b.news, b.up) ELSE b.news = <<>>
  /\ She!Attached(h) /\ b.up /\ b.news = <<>> => Says(b.calls, b.pill, h.registered)

Enabled(h) == h.proxy # "none" => h.on

ShellInv == /\ ext \in ShellHost /\ HostSound(ext) /\ Enabled(ext)
            /\ RenderersSound /\ BusSound(ext, bus)

\* The turns but for the first, and one turn more.
LEMMA TurnsTail ==
  ASSUME NEW p \in BOOLEAN, NEW u \in BOOLEAN, NEW q \in Seq(BOOLEAN), q # <<>>, Turns(p, q, u)
  PROVE  Tail(q) \in Seq(BOOLEAN) /\ Head(q) = ~p /\ Turns(Head(q), Tail(q), u)
<1> DEFINE w == Tail(q)
<1>1. /\ Head(q) = q[1] /\ w \in Seq(BOOLEAN) /\ Len(w) = Len(q) - 1
      /\ Len(q) \in Nat \ {0} /\ \A i \in 1..(Len(q) - 1) : w[i] = q[i + 1]
  BY Taken
<1>2. q[1] = ~p /\ q[Len(q)] = u /\ \A i \in 1..(Len(q) - 1) : q[i + 1] = ~q[i]
  BY DEF Turns
<1> HIDE DEF w
<1>3. ASSUME w = <<>> PROVE Head(q) = u
  <2>1. Len(w) = 0
    BY <1>3
  <2>2. Len(q) = 1
    BY <1>1, <2>1
  <2> QED BY <1>1, <1>2, <2>2
<1>4. ASSUME w # <<>> PROVE w[1] = ~Head(q) /\ w[Len(w)] = u
  <2>1. Len(w) # 0
    BY <1>1, <1>4, EmptySeq
  <2>2. 1 \in 1..(Len(q) - 1) /\ Len(w) \in 1..(Len(q) - 1) /\ Len(w) + 1 = Len(q)
    BY <1>1, <2>1
  <2> QED BY <1>1, <1>2, <2>2
<1>5. ASSUME NEW i \in 1..(Len(w) - 1) PROVE w[i + 1] = ~w[i]
  <2>1. i \in 1..(Len(q) - 1) /\ i + 1 \in 1..(Len(q) - 1)
    BY <1>1
  <2> QED BY <1>1, <1>2, <2>1
<1>6. Turns(Head(q), w, u)
  BY <1>3, <1>4, <1>5 DEF Turns
<1> QED BY <1>1, <1>2, <1>6 DEF w

LEMMA TurnsMore ==
  ASSUME NEW p \in BOOLEAN, NEW u \in BOOLEAN, NEW q \in Seq(BOOLEAN), Turns(p, q, u)
  PROVE  Append(q, ~u) \in Seq(BOOLEAN) /\ Append(q, ~u) # <<>> /\ Turns(p, Append(q, ~u), ~u)
<1> DEFINE w == Append(q, ~u)
<1>1. /\ w \in Seq(BOOLEAN) /\ Len(w) = Len(q) + 1 /\ Len(q) \in Nat
      /\ \A i \in 1..Len(q) : w[i] = q[i]
      /\ w[Len(q) + 1] = ~u
  BY Added
<1>2. /\ q = <<>> => p = u
      /\ q # <<>> => q[1] = ~p /\ q[Len(q)] = u
      /\ \A i \in 1..(Len(q) - 1) : q[i + 1] = ~q[i]
  BY DEF Turns
<1> HIDE DEF w
<1>3. w # <<>>
  BY <1>1, EmptySeq
<1>4. w[1] = ~p
  <2>1. CASE q = <<>>
    <3>1. Len(q) = 0
      BY <2>1
    <3>2. w[0 + 1] = ~u
      BY <1>1, <3>1
    <3> QED BY <1>2, <2>1, <3>2
  <2>2. CASE q # <<>>
    <3>1. 1 \in 1..Len(q)
      BY <1>1, <2>2, EmptySeq
    <3> QED BY <1>1, <1>2, <2>2, <3>1
  <2> QED BY <2>1, <2>2
<1>5. ASSUME NEW i \in 1..(Len(w) - 1) PROVE w[i + 1] = ~w[i]
  <2>1. CASE i = Len(q)
    <3>1. q # <<>> /\ w[i] = q[i] /\ i \in 1..Len(q)
      BY <1>1, <2>1, EmptySeq
    <3> QED BY <1>1, <1>2, <2>1, <3>1
  <2>2. CASE i # Len(q)
    <3>1. i \in 1..(Len(q) - 1) /\ i \in 1..Len(q) /\ i + 1 \in 1..Len(q)
      BY <1>1, <2>2
    <3> QED BY <1>1, <1>2, <3>1
  <2> QED BY <2>1, <2>2
<1>6. w[Len(w)] = ~u
  BY <1>1
<1>7. Turns(p, w, ~u)
  BY <1>3, <1>4, <1>5, <1>6 DEF Turns
<1> QED BY <1>1, <1>3, <1>7 DEF w

\* A call more is the last word; a call that arrives leaves it as it is.
LEMMA SaysMore ==
  ASSUME NEW q \in Seq(ShellCalls), NEW c \in Seq(ShellCalls)
  PROVE  /\ q \o c \in Seq(ShellCalls)
         /\ c = <<>> => q \o c = q
         /\ \A told, r : c # <<>> => (Says(q \o c, told, r) <=> (c[Len(c)] = "RegisterClient" <=> r))
<1> DEFINE w == q \o c
<1>1. /\ w \in Seq(ShellCalls) /\ Len(w) = Len(q) + Len(c) /\ Len(q) \in Nat /\ Len(c) \in Nat
      /\ \A i \in 1..Len(q) + Len(c) : w[i] = IF i <= Len(q) THEN q[i] ELSE c[i - Len(q)]
  BY ConcatProperties
<1>2. c = <<>> => q \o c = q
  BY ConcatEmptySeq
<1> HIDE DEF w
<1>3. ASSUME c # <<>> PROVE w # <<>> /\ w[Len(w)] = c[Len(c)]
  <2>1. Len(c) # 0
    BY <1>3, EmptySeq
  <2>2. Len(w) \in 1..Len(q) + Len(c) /\ ~(Len(w) <= Len(q)) /\ Len(w) - Len(q) = Len(c)
    BY <1>1, <2>1
  <2>3. w # <<>>
    BY <1>1, <2>1, EmptySeq
  <2> QED BY <1>1, <2>2, <2>3
<1>4. \A told, r : c # <<>> => (Says(w, told, r) <=> (c[Len(c)] = "RegisterClient" <=> r))
  BY <1>3 DEF Says
<1> QED BY <1>1, <1>2, <1>4 DEF w

LEMMA SaysLess ==
  ASSUME NEW q \in Seq(ShellCalls), q # <<>>, NEW told, NEW r, Says(q, told, r)
  PROVE  /\ Head(q) \in ShellCalls /\ Tail(q) \in Seq(ShellCalls)
         /\ Says(Tail(q), Head(q) = "RegisterClient", r)
<1> DEFINE w == Tail(q)
<1>1. /\ Head(q) = q[1] /\ Head(q) \in ShellCalls /\ w \in Seq(ShellCalls) /\ Len(w) = Len(q) - 1
      /\ Len(q) \in Nat \ {0} /\ \A i \in 1..(Len(q) - 1) : w[i] = q[i + 1]
  BY Taken
<1>2. q[Len(q)] = "RegisterClient" <=> r
  BY DEF Says
<1> HIDE DEF w
<1>3. ASSUME w = <<>> PROVE Head(q) = "RegisterClient" <=> r
  <2>1. Len(w) = 0
    BY <1>3
  <2>2. Len(q) = 1
    BY <1>1, <2>1
  <2> QED BY <1>1, <1>2, <2>2
<1>4. ASSUME w # <<>> PROVE w[Len(w)] = q[Len(q)]
  <2>1. Len(w) # 0
    BY <1>1, <1>4, EmptySeq
  <2>2. Len(w) \in 1..(Len(q) - 1) /\ Len(w) + 1 = Len(q)
    BY <1>1, <2>1
  <2> QED BY <1>1, <2>2
<1>5. Says(w, Head(q) = "RegisterClient", r)
  BY <1>2, <1>3, <1>4 DEF Says
<1> QED BY <1>1, <1>5 DEF w

\* What a callback may come to, for a host whose renderer and window were c and w: it leaves
\* them alone, kills them, or launches one where there was none.
Landing(c, w, d) ==
  /\ d.h \in ShellHost /\ d.calls \in Seq(ShellCalls)
  /\ \/ d.renderer = "keep" /\ d.h.child = c /\ d.h.window = w /\ HostSound(d.h)
     \/ d.renderer = "kill" /\ d.h.child = {} /\ d.h.window = {} /\ HostSound(d.h)
     \/ /\ d.renderer = "launch" /\ c = {} /\ d.h.child = {} /\ d.h.window = {} /\ ~d.h.timer
        /\ She!Attached(d.h) /\ d.h.present /\ d.h.failures <= Budget

SameProxy(h, g) ==
  g.on = h.on /\ g.starting = h.starting /\ g.proxy = h.proxy /\ g.present = h.present

\* What it says of its registration: nothing when that stays, else that it ends.
Retracts(h, d) ==
  \/ d.calls = <<>> /\ (d.h.registered <=> h.registered)
  \/ d.calls = <<"UnregisterClient">> /\ ~d.h.registered

Idle(h) == h.child = {} /\ h.window = {} /\ ~h.timer

\* A call is a sequence of one.
LEMMA OneCall ==
  /\ <<>> \in Seq(ShellCalls)
  /\ \A c \in ShellCalls : <<c>> \in Seq(ShellCalls) /\ Len(<<c>>) = 1 /\ <<c>>[1] = c /\ <<c>> # <<>>
<1>1. \A c \in ShellCalls : Len(<<c>>) = 1 /\ <<c>>[1] = c
  OBVIOUS
<1>2. <<>> \in Seq(ShellCalls)
  OBVIOUS
<1>3. \A c \in ShellCalls : <<c>> \in Seq(ShellCalls)
  OBVIOUS
<1>4. \A c \in ShellCalls : <<c>> # <<>>
  OBVIOUS
<1> QED BY <1>1, <1>2, <1>3, <1>4

\* Giving up.
LEMMA GiveUpIs ==
  ASSUME NEW h \in ShellHost, Idle(h)
  PROVE  LET d == She!giveUp(h) IN
         Landing({}, {}, d) /\ SameProxy(h, d.h) /\ Retracts(h, d) /\ d.renderer = "keep"
<1> DEFINE d == She!giveUp(h)
           g == [h EXCEPT !.dormant = TRUE, !.registered = FALSE]
           u == She!unregister(h)
<1>1. d = [h |-> g, calls |-> u, renderer |-> "keep"]
  BY DEF She!giveUp, She!Did
<1>2. d.h = g /\ d.calls = u /\ d.renderer = "keep"
  BY <1>1
<1>3. /\ g \in ShellHost /\ g.child = {} /\ g.window = {} /\ ~g.timer /\ ~g.registered /\ SameProxy(h, g)
  BY DEF ShellHost, Idle, SameProxy
<1>4. u \in Seq(ShellCalls) /\ (u = <<>> \/ u = <<"UnregisterClient">>) /\ (u = <<>> => ~h.registered)
  BY OneCall DEF She!unregister, ShellCalls
<1> HIDE DEF d, g, u
<1>5. HostSound(g)
  BY <1>3 DEF HostSound, Single
<1> QED BY <1>2, <1>3, <1>4, <1>5 DEF Landing, Retracts, d

\* An incident: a restart, or giving up.
LEMMA IncidentIs ==
  ASSUME NEW h \in ShellHost, Idle(h), NEW healthy \in BOOLEAN,
         She!Attached(h), h.present, h.failures <= Budget
  PROVE  LET d == She!scheduleRestart(h, healthy) IN
         Landing({}, {}, d) /\ SameProxy(h, d.h) /\ Retracts(h, d) /\ d.renderer = "keep"
<1> DEFINE d == She!scheduleRestart(h, healthy)
           n == (IF healthy THEN 0 ELSE h.failures) + 1
           g == [h EXCEPT !.failures = n]
           k == [g EXCEPT !.timer = TRUE]
<1>0. Budget \in Nat
  BY PartsAssumption
<1>1. n \in 0..Budget + 1
  <2>1. h.failures \in 0..Budget + 1
    BY DEF ShellHost
  <2> QED BY <1>0, <2>1
<1>2. d = IF n > Budget THEN She!giveUp(g) ELSE [h |-> k, calls |-> <<>>, renderer |-> "keep"]
  BY DEF She!scheduleRestart, She!Did
<1> HIDE DEF n, d
<1>3. /\ g \in ShellHost /\ Idle(g) /\ SameProxy(h, g) /\ (g.registered <=> h.registered)
      /\ g.failures = n
  BY <1>1 DEF ShellHost, Idle, SameProxy
<1> HIDE DEF g
<1>4. CASE n > Budget
  <2>1. Landing({}, {}, d) /\ SameProxy(g, d.h) /\ Retracts(g, d) /\ d.renderer = "keep"
    BY <1>2, <1>3, <1>4, GiveUpIs
  <2> QED BY <1>3, <2>1 DEF SameProxy, Retracts, d
<1>5. CASE ~(n > Budget)
  <2>1. d.h = k /\ d.calls = <<>> /\ d.renderer = "keep"
    BY <1>2, <1>5
  <2>2. /\ k \in ShellHost /\ k.child = {} /\ k.window = {} /\ k.timer /\ SameProxy(g, k)
        /\ (k.registered <=> h.registered) /\ k.failures = n
    BY <1>3 DEF ShellHost, Idle, SameProxy
  <2> HIDE DEF k
  <2>3. n <= Budget
    BY <1>0, <1>1, <1>5
  <2>4. SameProxy(h, k)
    BY <1>3, <2>2 DEF SameProxy
  <2>5. HostSound(k)
    BY <2>2, <2>3, <2>4 DEF HostSound, Single, SameProxy, She!Attached
  <2> QED BY <2>1, <2>2, <2>4, <2>5, OneCall DEF Landing, Retracts, d
<1> QED BY <1>4, <1>5

\* A launch, or what comes of one that fails.
LEMMA LaunchIs ==
  ASSUME NEW h \in ShellHost, Idle(h), NEW how \in She!Launches,
         She!Attached(h), h.present, h.failures <= Budget
  PROVE  LET d == She!spawn(h, how) IN Landing({}, {}, d) /\ SameProxy(h, d.h) /\ Retracts(h, d)
<1> DEFINE d == She!spawn(h, how)
<1>1. CASE how = "missing"
  <2>1. d = She!giveUp(h)
    BY <1>1 DEF She!spawn
  <2> QED BY <2>1, GiveUpIs
<1>2. CASE how = "throws"
  <2>1. d = She!scheduleRestart(h, FALSE)
    BY <1>2 DEF She!spawn
  <2> QED BY <2>1, IncidentIs
<1>3. CASE how = "launched"
  <2>1. d = [h |-> h, calls |-> <<>>, renderer |-> "launch"]
    BY <1>3 DEF She!spawn, She!Did
  <2>2. d.h = h /\ d.calls = <<>> /\ d.renderer = "launch"
    BY <2>1
  <2> HIDE DEF d
  <2> QED BY <2>2, OneCall DEF Landing, SameProxy, Retracts, Idle, d
<1> QED BY <1>1, <1>2, <1>3 DEF She!Launches

\* It is a record of three.
LEMMA AnswerIs ==
  ASSUME NEW h, NEW how \in She!Launches
  PROVE  \E a, b, c : She!spawn(h, how) = [h |-> a, calls |-> b, renderer |-> c]
<1>1. \A x : \E a, b, c : She!giveUp(x) = [h |-> a, calls |-> b, renderer |-> c]
  BY DEF She!giveUp, She!Did
<1>2. \E a, b, c : She!scheduleRestart(h, FALSE) = [h |-> a, calls |-> b, renderer |-> c]
  <2> DEFINE g == [h EXCEPT !.failures = (IF FALSE THEN 0 ELSE h.failures) + 1]
  <2>1. \/ She!scheduleRestart(h, FALSE) = She!giveUp(g)
        \/ She!scheduleRestart(h, FALSE) = [h |-> [g EXCEPT !.timer = TRUE], calls |-> <<>>, renderer |-> "keep"]
    BY DEF She!scheduleRestart, She!Did
  <2> HIDE DEF g
  <2> QED BY <1>1, <2>1
<1>3. \/ She!spawn(h, how) = She!giveUp(h)
      \/ She!spawn(h, how) = She!scheduleRestart(h, FALSE)
      \/ She!spawn(h, how) = [h |-> h, calls |-> <<>>, renderer |-> "launch"]
  BY DEF She!spawn, She!Did, She!Launches
<1> QED BY <1>1, <1>2, <1>3

\* The daemon appeared: the host says that it registers.
LEMMA AppearIs ==
  ASSUME NEW h \in ShellHost, Idle(h), NEW how \in She!Launches,
         She!Attached(h), h.present, ~h.registered
  PROVE  LET d == She!onDaemonAppeared(h, how) IN
         /\ Landing({}, {}, d) /\ SameProxy(h, d.h) /\ d.calls # <<>>
         /\ d.calls[Len(d.calls)] = "RegisterClient" <=> d.h.registered
<1> DEFINE g == [h EXCEPT !.dormant = FALSE, !.failures = 0, !.registered = TRUE]
           e == She!spawn(g, how)
           d == She!onDaemonAppeared(h, how)
           u == <<"RegisterClient">>
<1>0. Budget \in Nat /\ 0 <= Budget /\ 0 \in 0..Budget + 1
  <2>1. Budget \in Nat
    BY PartsAssumption
  <2> QED BY <2>1
<1>1. d = [e EXCEPT !.calls = u \o @]
  BY DEF She!onDaemonAppeared, She!register, Idle
<1>2. /\ g \in ShellHost /\ Idle(g) /\ SameProxy(h, g) /\ g.registered /\ g.failures = 0
  BY <1>0 DEF ShellHost, Idle, SameProxy
<1> HIDE DEF g
<1>3. She!Attached(g) /\ g.present /\ g.failures <= Budget
  BY <1>0, <1>2 DEF SameProxy, She!Attached
<1>4. Landing({}, {}, e) /\ SameProxy(g, e.h) /\ Retracts(g, e)
  BY <1>2, <1>3, LaunchIs
<1>5. d.h = e.h /\ d.calls = u \o e.calls /\ d.renderer = e.renderer
  <2>1. \E a, b, c : e = [h |-> a, calls |-> b, renderer |-> c]
    BY AnswerIs
  <2> HIDE DEF e, u, d
  <2> QED BY <1>1, <2>1
<1> HIDE DEF e, d
<1>6. u \in Seq(ShellCalls) /\ Len(u) = 1 /\ u[1] = "RegisterClient" /\ u # <<>>
  BY OneCall DEF ShellCalls
<1> HIDE DEF u
<1>7. e.calls \in Seq(ShellCalls)
  BY <1>4 DEF Landing
<1>8. d.calls \in Seq(ShellCalls)
  BY <1>5, <1>6, <1>7, SaysMore
<1>9. Landing({}, {}, d) /\ SameProxy(h, d.h)
  BY <1>2, <1>4, <1>5, <1>8 DEF Landing, SameProxy
<1>10. d.calls # <<>> /\ (d.calls[Len(d.calls)] = "RegisterClient" <=> d.h.registered)
  <2>1. CASE e.calls = <<>> /\ (e.h.registered <=> g.registered)
    <3>1. d.calls = u
      BY <1>5, <1>6, <1>7, <2>1, SaysMore
    <3> QED BY <1>2, <1>5, <1>6, <2>1, <3>1
  <2>2. CASE e.calls = <<"UnregisterClient">> /\ ~e.h.registered
    <3> DEFINE v == <<"UnregisterClient">>
    <3>1. v \in Seq(ShellCalls) /\ Len(v) = 1 /\ v[1] = "UnregisterClient" /\ v # <<>>
      BY OneCall DEF ShellCalls
    <3>2. d.calls = u \o v
      BY <1>5, <2>2
    <3> HIDE DEF v
    <3>3. /\ Len(u \o v) = 2 /\ (u \o v)[2] = "UnregisterClient"
      <4>1. /\ Len(u \o v) = Len(u) + Len(v)
            /\ \A i \in 1..Len(u) + Len(v) : (u \o v)[i] = IF i <= Len(u) THEN u[i] ELSE v[i - Len(u)]
        BY <1>6, <3>1, ConcatProperties
      <4>2. 2 \in 1..1 + 1 /\ ~(2 <= 1) /\ 2 - 1 = 1
        OBVIOUS
      <4> QED BY <1>6, <3>1, <4>1, <4>2
    <3>4. d.calls # <<>>
      BY <1>8, <3>2, <3>3, EmptySeq
    <3> QED BY <1>5, <2>2, <3>2, <3>3, <3>4
  <2> QED BY <1>4, <2>1, <2>2 DEF Retracts
<1> QED BY <1>9, <1>10 DEF d

\* It vanished.
LEMMA VanishIs ==
  ASSUME NEW h \in ShellHost, Single(h.child), h.window \subseteq h.child
  PROVE  LET d == She!onDaemonVanished(h) IN
         Landing(h.child, h.window, d) /\ SameProxy(h, d.h)
<1> DEFINE d == She!onDaemonVanished(h)
           g == [h EXCEPT !.registered = FALSE]
           k == [g EXCEPT !.timer = FALSE, !.child = {}, !.window = {}]
<1>1. CASE h.child = {} /\ ~h.timer
  <2>1. d = [h |-> g, calls |-> <<>>, renderer |-> "keep"]
    BY <1>1 DEF She!onDaemonVanished, She!Did
  <2>2. d.h = g /\ d.calls = <<>> /\ d.renderer = "keep"
    BY <2>1
  <2>3. /\ g \in ShellHost /\ g.child = {} /\ g.window = h.window /\ ~g.timer /\ ~g.registered
        /\ SameProxy(h, g)
    BY <1>1 DEF ShellHost, SameProxy
  <2> HIDE DEF d, g
  <2>4. HostSound(g)
    BY <1>1, <2>3 DEF HostSound, Single
  <2> QED BY <1>1, <2>2, <2>3, <2>4, OneCall DEF Landing, d
<1>2. CASE ~(h.child = {} /\ ~h.timer)
  <2>1. d = [h |-> k, calls |-> <<>>, renderer |-> "kill"]
    BY <1>2 DEF She!onDaemonVanished, She!stopRenderer, She!Did
  <2>2. d.h = k /\ d.calls = <<>> /\ d.renderer = "kill"
    BY <2>1
  <2>3. /\ k \in ShellHost /\ k.child = {} /\ k.window = {} /\ ~k.timer /\ ~k.registered
        /\ SameProxy(h, k)
    BY DEF ShellHost, SameProxy
  <2> HIDE DEF d, k
  <2>4. HostSound(k)
    BY <2>3 DEF HostSound, Single
  <2> QED BY <2>2, <2>3, <2>4, OneCall DEF Landing, d
<1> QED BY <1>1, <1>2

\* What a host that hears of its daemon does.
LEMMA FollowIs ==
  ASSUME NEW h \in ShellHost, Single(h.child), h.window \subseteq h.child, NEW how \in She!Launches,
         ~She!Attached(h) \/ h.present => Idle(h) /\ ~h.registered
  PROVE  LET d == She!Follow(h, how) IN
         /\ Landing(h.child, h.window, d) /\ SameProxy(h, d.h)
         /\ She!Attached(h) /\ h.present =>
              d.calls # <<>> /\ (d.calls[Len(d.calls)] = "RegisterClient" <=> d.h.registered)
<1> DEFINE d == She!Follow(h, how)
<1>1. CASE ~She!Attached(h)
  <2>1. d = [h |-> h, calls |-> <<>>, renderer |-> "keep"]
    BY <1>1 DEF She!Follow, She!Did
  <2>2. d.h = h /\ d.calls = <<>> /\ d.renderer = "keep"
    BY <2>1
  <2> HIDE DEF d
  <2>3. HostSound(h)
    BY <1>1 DEF HostSound, Single, Idle
  <2> QED BY <1>1, <2>2, <2>3, OneCall DEF Landing, SameProxy, d
<1>2. CASE She!Attached(h) /\ h.present
  <2>1. d = She!onDaemonAppeared(h, how)
    BY <1>2 DEF She!Follow, She!onDaemonOwnerChanged
  <2>2. h.child = {} /\ h.window = {}
    BY <1>2 DEF Idle
  <2> HIDE DEF d
  <2>3. /\ Landing({}, {}, d) /\ SameProxy(h, d.h) /\ d.calls # <<>>
        /\ d.calls[Len(d.calls)] = "RegisterClient" <=> d.h.registered
    BY <1>2, <2>1, AppearIs
  <2> QED BY <2>2, <2>3 DEF d
<1>3. CASE She!Attached(h) /\ ~h.present
  <2>1. d = She!onDaemonVanished(h)
    BY <1>3 DEF She!Follow, She!onDaemonOwnerChanged
  <2> QED BY <1>3, <2>1, VanishIs
<1> QED BY <1>1, <1>2, <1>3

\* Doing it keeps the host and its renderers sound.
LEMMA DoKeeps ==
  ASSUME ext \in ShellHost, HostSound(ext), RenderersSound, NEW d,
         Landing(ext.child, ext.window, d), She!Do(d)
  PROVE  /\ ext' \in ShellHost /\ HostSound(ext') /\ RenderersSound'
         /\ SameProxy(d.h, ext') /\ (ext'.registered <=> d.h.registered)
<1>1. /\ wins' = wins /\ waits = ext.child /\ Single(ext.child)
      /\ procs \in [Renderers -> {"none", "running", "killed", "exited"}]
      /\ wins \in [Renderers -> {"none", "created", "docked", "overlay", "stray"}]
      /\ \A r \in Renderers : procs[r] = "running" => ext.child = {r}
      /\ \A r \in ext.child : /\ wins[r] # "stray" /\ (wins[r] = "overlay" <=> ext.window = {r})
                              /\ wins[r] # "created"
  BY DEF RenderersSound, HostSound, She!WindowKept, She!Do
<1>2. CASE d.renderer = "keep" /\ d.h.child = ext.child /\ d.h.window = ext.window /\ HostSound(d.h)
  <2>1. ext' = d.h /\ UNCHANGED <<procs, waits>>
    BY <1>2 DEF She!Do
  <2> QED BY <1>1, <1>2, <2>1 DEF RenderersSound, She!WindowKept, Landing, SameProxy
<1>3. CASE d.renderer = "kill" /\ d.h.child = {} /\ d.h.window = {} /\ HostSound(d.h)
  <2>1. /\ ext' = d.h /\ waits' = waits \ ext.child
        /\ procs' = [r \in Renderers |->
             IF r \notin ext.child THEN procs[r]
             ELSE IF procs[r] = "running" THEN "killed" ELSE "none"]
    BY <1>3 DEF She!Do
  <2>2. procs' \in [Renderers -> {"none", "running", "killed", "exited"}]
    BY <1>1, <2>1
  <2>3. \A r \in Renderers : procs'[r] # "running"
    <3> SUFFICES ASSUME NEW r \in Renderers PROVE procs'[r] # "running"
      OBVIOUS
    <3>1. CASE r \in ext.child
      BY <2>1, <3>1
    <3>2. CASE r \notin ext.child
      <4>1. procs[r] # "running"
        BY <1>1, <3>2
      <4> QED BY <2>1, <3>2, <4>1
    <3> QED BY <3>1, <3>2
  <2>4. waits' = ext'.child /\ ext'.child = {}
    BY <1>1, <1>3, <2>1
  <2> QED BY <1>1, <1>3, <2>1, <2>2, <2>3, <2>4 DEF RenderersSound, She!WindowKept, Landing, SameProxy
<1>4. CASE /\ d.renderer = "launch" /\ ext.child = {} /\ d.h.child = {} /\ d.h.window = {} /\ ~d.h.timer
           /\ She!Attached(d.h) /\ d.h.present /\ d.h.failures <= Budget
  <2>1. PICK r \in She!Free :
          /\ ext' = [d.h EXCEPT !.child = {r}] /\ procs' = [procs EXCEPT ![r] = "running"]
          /\ waits' = waits \cup {r}
    <3> DEFINE r == CHOOSE r \in She!Free : TRUE
    <3>1. /\ She!Free # {}
          /\ ext' = [d.h EXCEPT !.child = {r}] /\ procs' = [procs EXCEPT ![r] = "running"]
          /\ waits' = waits \cup {r}
      BY <1>4 DEF She!Do
    <3>2. r \in She!Free
      BY <3>1
    <3> QED BY <3>1, <3>2
  <2>2. r \in Renderers /\ wins[r] = "none"
    BY <2>1 DEF She!Free
  <2>3. d.h \in ShellHost
    BY DEF Landing
  <2>4. /\ ext' \in ShellHost /\ ext'.child = {r} /\ ext'.window = {} /\ ~ext'.timer
        /\ SameProxy(d.h, ext') /\ (ext'.registered <=> d.h.registered) /\ ext'.failures = d.h.failures
    BY <1>4, <2>1, <2>2, <2>3 DEF ShellHost, SameProxy
  <2>5. HostSound(ext')
    <3>1. She!Attached(ext') /\ ext'.present /\ ext'.failures <= Budget
      BY <1>4, <2>4 DEF SameProxy, She!Attached
    <3> QED BY <2>2, <2>4, <3>1 DEF HostSound, Single
  <2>6. procs' \in [Renderers -> {"none", "running", "killed", "exited"}]
    BY <1>1, <2>1, <2>2
  <2>7. \A q \in Renderers : procs'[q] = "running" => q = r
    BY <1>1, <1>4, <2>1, <2>2
  <2>8. waits' = {r}
    BY <1>1, <1>4, <2>1
  <2>9. She!WindowKept'
    BY <1>1, <2>2, <2>4 DEF She!WindowKept
  <2> QED BY <1>1, <2>4, <2>5, <2>6, <2>7, <2>8, <2>9 DEF RenderersSound
<1> QED BY <1>2, <1>3, <1>4 DEF Landing

\* What it says, and what it has yet to hear, keep the bus sound.
LEMMA HeardKeeps ==
  ASSUME bus \in ShellBus, NEW d, d.calls \in Seq(ShellCalls), NEW q \in Seq(BOOLEAN),
         She!Send(d, q),
         IF ext'.proxy = "live" THEN Turns(ext'.present, q, bus.up) ELSE q = <<>>,
         She!Attached(ext') /\ bus.up /\ q = <<>> =>
           /\ d.calls # <<>> => (d.calls[Len(d.calls)] = "RegisterClient" <=> ext'.registered)
           /\ d.calls = <<>> => Says(bus.calls, bus.pill, ext'.registered)
  PROVE  BusSound(ext', bus')
<1>1. bus' = [bus EXCEPT !.calls = @ \o d.calls, !.news = q]
  BY DEF She!Send
<1>2. bus.calls \in Seq(ShellCalls)
  BY DEF ShellBus
<1>3. /\ bus.calls \o d.calls \in Seq(ShellCalls)
      /\ d.calls = <<>> => bus.calls \o d.calls = bus.calls
      /\ \A told, r : d.calls # <<>> =>
           (Says(bus.calls \o d.calls, told, r) <=> (d.calls[Len(d.calls)] = "RegisterClient" <=> r))
  BY <1>2, SaysMore
<1> DEFINE c == bus.calls \o d.calls
<1>4. bus' = [bus EXCEPT !.calls = c, !.news = q]
  BY <1>1
<1>5. c \in Seq(ShellCalls)
  BY <1>3
<1>6. She!Attached(ext') /\ bus.up /\ q = <<>> => Says(c, bus.pill, ext'.registered)
  BY <1>3
<1> HIDE DEF c
<1>7. bus' \in ShellBus /\ bus'.up = bus.up /\ bus'.news = q /\ bus'.calls = c /\ bus'.pill = bus.pill
  BY <1>4, <1>5 DEF ShellBus
<1> QED BY <1>6, <1>7 DEF BusSound

\* It holds at first.
LEMMA ShellStarts == She!ShellInit => ShellInv
<1> SUFFICES ASSUME She!ShellInit PROVE ShellInv
  OBVIOUS
<1>0. Budget \in Nat /\ 0 \in 0..Budget + 1
  <2>1. Budget \in Nat
    BY PartsAssumption
  <2> QED BY <2>1
<1>1. /\ ext \in ShellHost /\ ext.child = {} /\ ext.window = {} /\ ~ext.timer /\ ~ext.registered
      /\ ext.proxy = "none" /\ ~ext.on
  BY <1>0 DEF She!ShellInit, She!Disabled, ShellHost
<1>2. bus = [up |-> FALSE, news |-> <<>>, calls |-> <<>>, pill |-> FALSE, changes |-> 0]
  BY DEF She!ShellInit
<1>3. <<>> \in Seq(BOOLEAN) /\ <<>> \in Seq(ShellCalls)
  OBVIOUS
<1>4. bus \in ShellBus /\ bus.news = <<>>
  BY <1>2, <1>3 DEF ShellBus
<1>5. HostSound(ext)
  BY <1>1 DEF HostSound, Single
<1>6. RenderersSound
  BY <1>1 DEF She!ShellInit, RenderersSound, She!WindowKept
<1>7. BusSound(ext, bus)
  BY <1>1, <1>4 DEF BusSound, She!Attached
<1> QED BY <1>1, <1>5, <1>6, <1>7 DEF ShellInv, Enabled

\* What it spells out.
LEMMA ShellIs ==
  ASSUME ShellInv
  PROVE  /\ ext \in ShellHost /\ HostSound(ext) /\ RenderersSound /\ Single(ext.child)
         /\ Enabled(ext) /\ (ext.proxy = "live" => ext.on)
         /\ ext.window \subseteq ext.child
         /\ ~She!Attached(ext) \/ ~ext.present => Idle(ext) /\ ~ext.registered
         /\ bus \in ShellBus /\ bus.news \in Seq(BOOLEAN) /\ bus.up \in BOOLEAN
         /\ bus.calls \in Seq(ShellCalls) /\ bus.pill \in BOOLEAN
         /\ IF ext.proxy = "live" THEN Turns(ext.present, bus.news, bus.up) ELSE bus.news = <<>>
         /\ She!Attached(ext) /\ bus.up /\ bus.news = <<>> =>
              Says(bus.calls, bus.pill, ext.registered)
<1>1. /\ ext \in ShellHost /\ HostSound(ext) /\ RenderersSound /\ BusSound(ext, bus) /\ Enabled(ext)
      /\ ext.proxy = "live" => ext.on
  BY DEF ShellInv, Enabled
<1>2. ~She!Attached(ext) \/ ~ext.present => Idle(ext) /\ ~ext.registered
  BY <1>1 DEF HostSound, Idle
<1>3. bus \in ShellBus
  BY <1>1 DEF BusSound
<1>4. bus.news \in Seq(BOOLEAN) /\ bus.up \in BOOLEAN /\ bus.calls \in Seq(ShellCalls) /\ bus.pill \in BOOLEAN
  BY <1>3 DEF ShellBus
<1> QED BY <1>1, <1>2, <1>3, <1>4 DEF HostSound, BusSound

\* A host that hears of its daemon, having yet to hear q.
LEMMA FollowKeeps ==
  ASSUME ShellInv, NEW h \in ShellHost, h.child = ext.child, h.window = ext.window,
         NEW how \in She!Launches, NEW q \in Seq(BOOLEAN), h.on,
         ~She!Attached(h) \/ h.present => Idle(h) /\ ~h.registered,
         IF h.proxy = "live" THEN Turns(h.present, q, bus.up) ELSE q = <<>>,
         She!Do(She!Follow(h, how)), She!Send(She!Follow(h, how), q)
  PROVE  ShellInv'
<1> DEFINE d == She!Follow(h, how)
<1>1. /\ Landing(h.child, h.window, d) /\ SameProxy(h, d.h)
      /\ She!Attached(h) /\ h.present =>
           d.calls # <<>> /\ (d.calls[Len(d.calls)] = "RegisterClient" <=> d.h.registered)
  BY ShellIs, FollowIs
<1>2. She!Do(d) /\ She!Send(d, q)
  OBVIOUS
<1> HIDE DEF d
<1>3. /\ ext' \in ShellHost /\ HostSound(ext') /\ RenderersSound'
      /\ SameProxy(d.h, ext') /\ (ext'.registered <=> d.h.registered)
  BY <1>1, <1>2, ShellIs, DoKeeps
<1>4. SameProxy(h, ext')
  BY <1>1, <1>3 DEF SameProxy
<1>5. IF ext'.proxy = "live" THEN Turns(ext'.present, q, bus.up) ELSE q = <<>>
  BY <1>4 DEF SameProxy
<1>6. ASSUME She!Attached(ext'), bus.up, q = <<>>
      PROVE  d.calls # <<>> /\ (d.calls[Len(d.calls)] = "RegisterClient" <=> ext'.registered)
  <2>1. She!Attached(h) /\ h.proxy = "live"
    BY <1>4, <1>6 DEF SameProxy, She!Attached
  <2>2. h.present = bus.up
    BY <1>6, <2>1 DEF Turns
  <2> QED BY <1>1, <1>3, <1>6, <2>1, <2>2
<1>7. d.calls \in Seq(ShellCalls)
  BY <1>1 DEF Landing
<1>8. BusSound(ext', bus')
  BY <1>2, <1>5, <1>6, <1>7, ShellIs, HeardKeeps
<1>9. Enabled(ext')
  BY <1>4 DEF Enabled, SameProxy
<1> QED BY <1>3, <1>8, <1>9 DEF ShellInv, BusSound, Enabled

\* It hears.
LEMMA StartKeeps == ASSUME ShellInv, NEW how \in She!Launches, She!startupComplete(how) PROVE ShellInv'
<1> DEFINE h == [ext EXCEPT !.starting = FALSE]
<1>1. /\ ext.on /\ ext.starting /\ She!Do(She!Follow(h, how)) /\ She!Send(She!Follow(h, how), bus.news)
  BY DEF She!startupComplete
<1>2. /\ h \in ShellHost /\ h.child = ext.child /\ h.window = ext.window /\ h.timer = ext.timer
      /\ h.registered = ext.registered /\ h.proxy = ext.proxy /\ h.present = ext.present
      /\ h.on = ext.on
  BY ShellIs DEF ShellHost
<1>3. Idle(ext) /\ ~ext.registered
  BY <1>1, ShellIs DEF She!Attached
<1> HIDE DEF h
<1>4. Idle(h) /\ ~h.registered
  BY <1>2, <1>3 DEF Idle
<1> QED BY <1>1, <1>2, <1>4, ShellIs, FollowKeeps

LEMMA ProxyKeeps == ASSUME ShellInv, NEW how \in She!Launches, She!ProxyMade(how) PROVE ShellInv'
<1> DEFINE h == [ext EXCEPT !.proxy = "live", !.present = bus.up]
<1>1. ext.proxy = "making" /\ ext.on
  BY ShellIs DEF She!ProxyMade, Enabled
<1>2. Idle(ext) /\ ~ext.registered
  BY <1>1, ShellIs DEF She!Attached
<1>3. CASE She!Do(She!Follow(h, how)) /\ She!Send(She!Follow(h, how), <<>>)
  <2>1. /\ h \in ShellHost /\ h.child = ext.child /\ h.window = ext.window /\ h.timer = ext.timer
        /\ h.registered = ext.registered /\ h.proxy = "live" /\ h.present = bus.up
        /\ h.on = ext.on
    BY ShellIs DEF ShellHost
  <2> HIDE DEF h
  <2>2. Idle(h) /\ ~h.registered
    BY <1>2, <2>1 DEF Idle
  <2>3. <<>> \in Seq(BOOLEAN) /\ Turns(h.present, <<>>, bus.up)
    <3>1. <<>> \in Seq(BOOLEAN) /\ Len(<<>>) = 0
      OBVIOUS
    <3>2. 1..(0 - 1) = {}
      OBVIOUS
    <3> QED BY <2>1, <3>1, <3>2 DEF Turns
  <2> QED BY <1>1, <1>3, <2>1, <2>2, <2>3, ShellIs, FollowKeeps
<1>4. CASE ext' = [ext EXCEPT !.proxy = "none"] /\ UNCHANGED <<bus, procs, waits, wins>>
  <2>1. /\ ext' \in ShellHost /\ ext'.child = ext.child /\ ext'.window = ext.window
        /\ ext'.timer = ext.timer /\ ext'.registered = ext.registered /\ ext'.proxy = "none"
    BY <1>4, ShellIs DEF ShellHost
  <2>2. HostSound(ext')
    BY <1>2, <2>1 DEF HostSound, Single, Idle
  <2>3. RenderersSound'
    BY <1>4, <2>1, ShellIs DEF RenderersSound, She!WindowKept
  <2>4. BusSound(ext', bus')
    BY <1>1, <1>4, <2>1, ShellIs DEF BusSound, She!Attached
  <2> QED BY <2>1, <2>2, <2>3, <2>4 DEF ShellInv, BusSound, Enabled
<1> QED BY <1>3, <1>4 DEF She!ProxyMade

LEMMA OwnerKeeps == ASSUME ShellInv, NEW how \in She!Launches, She!OwnerNotified(how) PROVE ShellInv'
<1> DEFINE h == [ext EXCEPT !.present = Head(bus.news)]
<1>1. /\ bus.news # <<>> /\ She!Do(She!Follow(h, how)) /\ She!Send(She!Follow(h, how), Tail(bus.news))
  BY DEF She!OwnerNotified
<1>2. ext.proxy = "live" /\ Turns(ext.present, bus.news, bus.up) /\ ext.present \in BOOLEAN
  BY <1>1, ShellIs DEF ShellHost
<1>3. /\ Tail(bus.news) \in Seq(BOOLEAN) /\ Head(bus.news) = ~ext.present
      /\ Turns(Head(bus.news), Tail(bus.news), bus.up)
  BY <1>1, <1>2, ShellIs, TurnsTail
<1>4. Head(bus.news) \in BOOLEAN
  BY <1>2, <1>3
<1>5. /\ h \in ShellHost /\ h.child = ext.child /\ h.window = ext.window /\ h.timer = ext.timer
      /\ h.registered = ext.registered /\ h.proxy = ext.proxy /\ h.present = Head(bus.news)
      /\ h.on = ext.on /\ h.starting = ext.starting
  BY <1>4, ShellIs DEF ShellHost
<1> HIDE DEF h
<1>6. ~She!Attached(h) \/ h.present => ~She!Attached(ext) \/ ~ext.present
  BY <1>3, <1>5 DEF She!Attached
<1>7. ~She!Attached(h) \/ h.present => Idle(h) /\ ~h.registered
  BY <1>5, <1>6, ShellIs DEF Idle
<1> QED BY <1>1, <1>2, <1>3, <1>5, <1>7, ShellIs, FollowKeeps

\* Its timer.
LEMMA RestartKeeps == ASSUME ShellInv, NEW how \in She!Launches, She!RestartTimer(how) PROVE ShellInv'
<1> DEFINE h == [ext EXCEPT !.timer = FALSE]
           d == She!spawn(h, how)
<1>1. ext.timer
  BY DEF She!RestartTimer
<1>2. /\ She!Attached(ext) /\ ext.present /\ ext.failures <= Budget /\ ext.child = {} /\ ext.window = {}
  BY <1>1, ShellIs DEF HostSound
<1>3. /\ h \in ShellHost /\ h.child = {} /\ h.window = {} /\ ~h.timer /\ h.failures = ext.failures
      /\ h.registered = ext.registered /\ SameProxy(ext, h)
  BY <1>2, ShellIs DEF ShellHost, SameProxy
<1>4. h.present
  BY <1>2, <1>3 DEF SameProxy
<1>5. She!Do(d) /\ She!Send(d, bus.news)
  BY <1>4 DEF She!RestartTimer
<1> HIDE DEF h
<1>6. Idle(h) /\ She!Attached(h) /\ h.failures <= Budget
  BY <1>2, <1>3 DEF Idle, SameProxy, She!Attached
<1>7. Landing({}, {}, d) /\ SameProxy(h, d.h) /\ Retracts(h, d)
  BY <1>3, <1>4, <1>6, LaunchIs
<1> HIDE DEF d
<1>8. Landing(ext.child, ext.window, d)
  BY <1>2, <1>7
<1>9. /\ ext' \in ShellHost /\ HostSound(ext') /\ RenderersSound'
      /\ SameProxy(d.h, ext') /\ (ext'.registered <=> d.h.registered)
  BY <1>5, <1>8, ShellIs, DoKeeps
<1>10. SameProxy(ext, ext')
  BY <1>3, <1>7, <1>9 DEF SameProxy
<1>11. IF ext'.proxy = "live" THEN Turns(ext'.present, bus.news, bus.up) ELSE bus.news = <<>>
  BY <1>10, ShellIs DEF SameProxy
<1>12. ASSUME bus.up, bus.news = <<>>
       PROVE  /\ d.calls # <<>> => (d.calls[Len(d.calls)] = "RegisterClient" <=> ext'.registered)
              /\ d.calls = <<>> => Says(bus.calls, bus.pill, ext'.registered)
  <2>1. CASE d.calls = <<>> /\ (d.h.registered <=> h.registered)
    <3>1. Says(bus.calls, bus.pill, ext.registered)
      BY <1>2, <1>12, ShellIs
    <3>2. ext'.registered <=> ext.registered
      BY <1>3, <1>9, <2>1
    <3> QED BY <2>1, <3>1, <3>2 DEF Says
  <2>2. CASE d.calls = <<"UnregisterClient">> /\ ~d.h.registered
    BY <1>9, <2>2, OneCall DEF ShellCalls
  <2> QED BY <1>7, <2>1, <2>2 DEF Retracts
<1>13. d.calls \in Seq(ShellCalls)
  BY <1>7 DEF Landing
<1>14. BusSound(ext', bus')
  BY <1>5, <1>11, <1>12, <1>13, ShellIs, HeardKeeps
<1> QED BY <1>9, <1>10, <1>14, ShellIs DEF ShellInv, BusSound, Enabled, SameProxy

\* The Shell enables and disables it.
LEMMA EnableKeeps == ASSUME ShellInv, NEW starting \in BOOLEAN, She!enable(starting) PROVE ShellInv'
<1>0. Budget \in Nat /\ 0 \in 0..Budget + 1
  <2>1. Budget \in Nat
    BY PartsAssumption
  <2> QED BY <2>1
<1>1. ~ext.on /\ UNCHANGED <<bus, procs, waits, wins>>
  BY DEF She!enable
<1>2. ext' = [She!Disabled EXCEPT !.on = TRUE, !.starting = starting, !.proxy = "making"]
  BY DEF She!enable
<1>3. /\ ext' \in ShellHost /\ ext'.child = {} /\ ext'.window = {} /\ ~ext'.timer
      /\ ~ext'.registered /\ ext'.proxy = "making"
  BY <1>0, <1>2 DEF She!Disabled, ShellHost
<1>4. ext.child = {}
  BY <1>1, ShellIs DEF She!Attached, Idle
<1>5. HostSound(ext')
  BY <1>3 DEF HostSound, Single
<1>6. RenderersSound'
  BY <1>1, <1>3, <1>4, ShellIs DEF RenderersSound, She!WindowKept
<1>7. bus.news = <<>>
  <2>1. ASSUME ext.proxy = "live" PROVE FALSE
    BY <1>1, <2>1, ShellIs
  <2> QED BY <2>1, ShellIs
<1>8. BusSound(ext', bus')
  BY <1>1, <1>3, <1>7, ShellIs DEF BusSound, She!Attached
<1>9. Enabled(ext')
  BY <1>2 DEF She!Disabled, Enabled
<1> QED BY <1>3, <1>5, <1>6, <1>8, <1>9 DEF ShellInv, BusSound, Enabled

LEMMA DisableKeeps == ASSUME ShellInv, She!disable PROVE ShellInv'
<1> DEFINE u == She!unregister(ext)
           d == [She!stopRenderer(ext) EXCEPT !.h = She!Disabled, !.calls = u]
<1>0. Budget \in Nat /\ 0 \in 0..Budget + 1
  <2>1. Budget \in Nat
    BY PartsAssumption
  <2> QED BY <2>1
<1>1. She!Do(d) /\ She!Send(d, <<>>)
  BY DEF She!disable
<1>2. d = [h |-> She!Disabled, calls |-> u, renderer |-> "kill"]
  <2> DEFINE z == [ext EXCEPT !.timer = FALSE, !.child = {}, !.window = {}]
             g == She!Disabled
  <2>1. She!stopRenderer(ext) = [h |-> z, calls |-> <<>>, renderer |-> "kill"]
    BY DEF She!stopRenderer, She!Did
  <2>2. d = [[h |-> z, calls |-> <<>>, renderer |-> "kill"] EXCEPT !.h = g, !.calls = u]
    BY <2>1
  <2> HIDE DEF z, g, u, d
  <2>3. d = [h |-> g, calls |-> u, renderer |-> "kill"]
    BY <2>2
  <2> QED BY <2>3 DEF g
<1>3. u \in Seq(ShellCalls)
  BY OneCall DEF She!unregister, ShellCalls
<1> HIDE DEF u, d
<1>4. d.h = She!Disabled /\ d.calls = u /\ d.renderer = "kill"
  BY <1>2
<1> DEFINE g == She!Disabled
<1>5. /\ g \in ShellHost /\ g.child = {} /\ g.window = {} /\ ~g.timer /\ ~g.registered /\ g.proxy = "none"
  BY <1>0 DEF She!Disabled, ShellHost
<1>6. d.h = g
  BY <1>4
<1> HIDE DEF g
<1>7. HostSound(g)
  BY <1>5 DEF HostSound, Single
<1>8. Landing(ext.child, ext.window, d)
  BY <1>3, <1>4, <1>5, <1>6, <1>7 DEF Landing
<1>9. /\ ext' \in ShellHost /\ HostSound(ext') /\ RenderersSound' /\ SameProxy(d.h, ext')
  BY <1>1, <1>8, ShellIs, DoKeeps
<1>10. ext'.proxy = "none"
  BY <1>5, <1>6, <1>9 DEF SameProxy
<1>11. BusSound(ext', bus')
  <2>1. <<>> \in Seq(BOOLEAN)
    OBVIOUS
  <2>2. ~She!Attached(ext')
    BY <1>10 DEF She!Attached
  <2> QED BY <1>1, <1>3, <1>4, <1>10, <2>1, <2>2, ShellIs, HeardKeeps
<1> QED BY <1>9, <1>10, <1>11 DEF ShellInv, BusSound, Enabled

\* A renderer that it watches exited.
LEMMA RendererKeeps ==
  ASSUME ShellInv, NEW r \in Renderers, NEW healthy \in BOOLEAN, She!onRendererExited(r, healthy)
  PROVE  ShellInv'
<1> DEFINE h == [ext EXCEPT !.child = {}, !.window = {}]
           d == She!scheduleRestart(h, healthy)
<1>1. /\ r \in waits /\ procs[r] = "exited" /\ ext' = d.h /\ She!Send(d, bus.news)
      /\ waits' = waits \ {r} /\ procs' = [procs EXCEPT ![r] = "none"] /\ wins' = wins
  BY DEF She!onRendererExited
<1>2. /\ procs \in [Renderers -> {"none", "running", "killed", "exited"}]
      /\ wins \in [Renderers -> {"none", "created", "docked", "overlay", "stray"}]
      /\ \A q \in Renderers : procs[q] = "running" => ext.child = {q}
      /\ waits = ext.child
  BY ShellIs DEF RenderersSound
<1>3. ext.child = {r}
  BY <1>1, <1>2, ShellIs DEF Single
<1>4. She!Attached(ext) /\ ext.present /\ ext.failures <= Budget /\ ~ext.timer
  BY <1>3, ShellIs DEF HostSound
<1>5. /\ h \in ShellHost /\ Idle(h) /\ SameProxy(ext, h) /\ h.registered = ext.registered
      /\ h.failures = ext.failures
  BY <1>4, ShellIs DEF ShellHost, Idle, SameProxy
<1> HIDE DEF h
<1>6. She!Attached(h) /\ h.present
  BY <1>4, <1>5 DEF SameProxy, She!Attached
<1>7. Landing({}, {}, d) /\ SameProxy(h, d.h) /\ Retracts(h, d) /\ d.renderer = "keep"
  BY <1>4, <1>5, <1>6, IncidentIs
<1> HIDE DEF d
<1>8. ext' \in ShellHost /\ HostSound(ext') /\ ext'.child = {} /\ ext'.window = {} /\ SameProxy(ext, ext')
  BY <1>1, <1>5, <1>7 DEF Landing, SameProxy
<1>9. RenderersSound'
  <2>1. waits' = {}
    BY <1>1, <1>2, <1>3
  <2>2. procs' \in [Renderers -> {"none", "running", "killed", "exited"}]
    BY <1>1, <1>2
  <2>3. \A q \in Renderers : procs'[q] # "running"
    <3> SUFFICES ASSUME NEW q \in Renderers, procs'[q] = "running" PROVE FALSE
      OBVIOUS
    <3>1. q # r /\ procs[q] = "running"
      BY <1>1, <1>2
    <3> QED BY <1>2, <1>3, <3>1
  <2> QED BY <1>1, <1>2, <1>8, <2>1, <2>2, <2>3 DEF RenderersSound, She!WindowKept
<1>10. IF ext'.proxy = "live" THEN Turns(ext'.present, bus.news, bus.up) ELSE bus.news = <<>>
  BY <1>8, ShellIs DEF SameProxy
<1>11. ASSUME bus.up, bus.news = <<>>
       PROVE  /\ d.calls # <<>> => (d.calls[Len(d.calls)] = "RegisterClient" <=> ext'.registered)
              /\ d.calls = <<>> => Says(bus.calls, bus.pill, ext'.registered)
  <2>1. CASE d.calls = <<>> /\ (d.h.registered <=> h.registered)
    <3>1. Says(bus.calls, bus.pill, ext.registered)
      BY <1>4, <1>11, ShellIs
    <3>2. ext'.registered <=> ext.registered
      BY <1>1, <1>5, <2>1
    <3> QED BY <2>1, <3>1, <3>2 DEF Says
  <2>2. CASE d.calls = <<"UnregisterClient">> /\ ~d.h.registered
    BY <1>1, <2>2, OneCall DEF ShellCalls
  <2> QED BY <1>7, <2>1, <2>2 DEF Retracts
<1>12. d.calls \in Seq(ShellCalls)
  BY <1>7 DEF Landing
<1>13. BusSound(ext', bus')
  BY <1>1, <1>10, <1>11, <1>12, ShellIs, HeardKeeps
<1> QED BY <1>8, <1>9, <1>13, ShellIs DEF ShellInv, BusSound, Enabled, SameProxy

\* The windows come and go, and the processes.
LEMMA WindowsKeep ==
  ASSUME ShellInv, NEW r \in Renderers,
         She!onWindowCreated(r) \/ She!onWindowMapped(r) \/ She!onWindowUnmanaged(r)
  PROVE  ShellInv'
<1>1. UNCHANGED <<bus, procs, waits>>
  BY DEF She!onWindowCreated, She!onWindowMapped, She!onWindowUnmanaged
<1>2. /\ procs \in [Renderers -> {"none", "running", "killed", "exited"}]
      /\ wins \in [Renderers -> {"none", "created", "docked", "overlay", "stray"}]
      /\ \A q \in Renderers : procs[q] = "running" => ext.child = {q}
      /\ waits = ext.child
      /\ \A q \in ext.child : /\ wins[q] # "stray" /\ (wins[q] = "overlay" <=> ext.window = {q})
                              /\ wins[q] # "created"
      /\ Single(ext.child) /\ ext.window \subseteq ext.child /\ ext \in ShellHost
  BY ShellIs DEF RenderersSound, She!WindowKept
<1>3. /\ ext' \in ShellHost /\ SameProxy(ext, ext') /\ (ext'.registered <=> ext.registered)
      /\ ext'.child = ext.child /\ ext'.timer = ext.timer /\ ext'.failures = ext.failures
      /\ ext'.window \subseteq ext'.child
      /\ wins' \in [Renderers -> {"none", "created", "docked", "overlay", "stray"}]
      /\ She!WindowKept'
  <2>1. CASE She!onWindowCreated(r)
    <3>1. /\ procs[r] = "running" /\ wins[r] = "none" /\ ext' = ext
          /\ wins' = [wins EXCEPT ![r] = IF She!Ours(r) THEN "docked" ELSE "created"]
      BY <2>1 DEF She!onWindowCreated
    <3>2. ext.child = {r} /\ ext.window = {}
      BY <1>2, <3>1
    <3>3. wins' = [wins EXCEPT ![r] = "docked"]
      BY <3>1, <3>2 DEF She!Ours
    <3> QED BY <1>2, <3>1, <3>2, <3>3 DEF She!WindowKept, SameProxy
  <2>2. CASE She!onWindowMapped(r) /\ She!Ours(r)
    <3>1. /\ ext' = [ext EXCEPT !.window = {r}]
          /\ wins' = [wins EXCEPT ![r] = IF @ = "docked" THEN "overlay" ELSE "stray"]
          /\ wins[r] \in {"created", "docked"}
      BY <2>2 DEF She!onWindowMapped
    <3>2. ext.child = {r} /\ wins[r] = "docked"
      BY <1>2, <2>2, <3>1 DEF She!Ours, Single
    <3>3. wins' = [wins EXCEPT ![r] = "overlay"]
      BY <3>1, <3>2
    <3>4. /\ ext' \in ShellHost /\ SameProxy(ext, ext') /\ (ext'.registered <=> ext.registered)
          /\ ext'.child = ext.child /\ ext'.timer = ext.timer /\ ext'.failures = ext.failures
          /\ ext'.window = {r}
      BY <1>2, <3>1 DEF ShellHost, SameProxy
    <3> QED BY <1>2, <3>2, <3>3, <3>4 DEF She!WindowKept
  <2>3. CASE She!onWindowMapped(r) /\ ~She!Ours(r)
    <3>1. ext' = ext /\ wins' = [wins EXCEPT ![r] = "stray"] /\ wins[r] \in {"created", "docked"}
      BY <2>3 DEF She!onWindowMapped
    <3>2. r \notin ext.child
      BY <1>2, <2>3, <3>1 DEF She!Ours, Single
    <3> QED BY <1>2, <3>1, <3>2 DEF She!WindowKept, SameProxy
  <2>4. CASE She!onWindowUnmanaged(r)
    <3>1. /\ ext' = [ext EXCEPT !.window = @ \ {r}] /\ wins' = [wins EXCEPT ![r] = "none"]
      BY <2>4 DEF She!onWindowUnmanaged
    <3> DEFINE w == ext.window \ {r}
    <3>2. ext' = [ext EXCEPT !.window = w] /\ w \in SUBSET Renderers
      BY <1>2, <3>1 DEF ShellHost
    <3> HIDE DEF w
    <3>3. /\ ext' \in ShellHost /\ SameProxy(ext, ext') /\ (ext'.registered <=> ext.registered)
          /\ ext'.child = ext.child /\ ext'.timer = ext.timer /\ ext'.failures = ext.failures
          /\ ext'.window = w
      BY <1>2, <3>2 DEF ShellHost, SameProxy
    <3>4. /\ wins' \in [Renderers -> {"none", "created", "docked", "overlay", "stray"}]
          /\ ext'.window \subseteq ext'.child
      BY <1>2, <3>1, <3>3 DEF w
    <3>5. ASSUME NEW q \in ext.child
          PROVE  wins'[q] # "stray" /\ (wins'[q] = "overlay" <=> w = {q}) /\ wins'[q] # "created"
      <4>1. q \in Renderers
        BY <1>2 DEF ShellHost
      <4>2. CASE q = r
        <5>1. wins'[q] = "none" /\ q \notin w
          BY <1>2, <3>1, <4>2 DEF w
        <5> QED BY <5>1
      <4>3. CASE q # r
        <5>1. wins'[q] = wins[q]
          BY <1>2, <3>1, <4>1, <4>3
        <5>2. r \notin ext.window
          BY <1>2, <4>3 DEF Single
        <5>3. w = ext.window
          BY <5>2 DEF w
        <5> QED BY <1>2, <5>1, <5>3
      <4> QED BY <4>2, <4>3
    <3>6. She!WindowKept'
      BY <3>3, <3>5 DEF She!WindowKept
    <3> QED BY <3>3, <3>4, <3>6
  <2> QED BY <2>1, <2>2, <2>3, <2>4
<1>4. HostSound(ext')
  BY <1>3, ShellIs DEF HostSound, SameProxy, She!Attached
<1>5. RenderersSound'
  BY <1>1, <1>2, <1>3 DEF RenderersSound
<1>6. BusSound(ext', bus')
  BY <1>1, <1>3, ShellIs DEF BusSound, SameProxy, She!Attached, Says
<1> QED BY <1>3, <1>4, <1>5, <1>6, ShellIs DEF ShellInv, BusSound, Enabled, SameProxy

LEMMA ProcessesKeep ==
  ASSUME ShellInv, NEW r \in Renderers, She!RendererExits(r) \/ She!RendererDies(r)
  PROVE  ShellInv'
<1>1. UNCHANGED <<ext, bus, waits, wins>> /\ \E s \in {"exited", "none"} : procs' = [procs EXCEPT ![r] = s]
  BY DEF She!RendererExits, She!RendererDies
<1>2. /\ procs \in [Renderers -> {"none", "running", "killed", "exited"}]
      /\ \A q \in Renderers : procs[q] = "running" => ext.child = {q}
  BY ShellIs DEF RenderersSound
<1>3. procs' \in [Renderers -> {"none", "running", "killed", "exited"}]
  BY <1>1, <1>2
<1>4. \A q \in Renderers : procs'[q] = "running" => ext.child = {q}
  BY <1>1, <1>2
<1>5. RenderersSound'
  BY <1>1, <1>3, <1>4, ShellIs DEF RenderersSound, She!WindowKept
<1> QED BY <1>1, <1>5 DEF ShellInv, HostSound, BusSound, She!Attached, Enabled

\* The daemon comes and goes, and the calls arrive.
LEMMA NamesKeep == ASSUME ShellInv, She!DaemonChanges PROVE ShellInv'
<1> DEFINE q == IF ext.proxy = "live" THEN Append(bus.news, ~bus.up) ELSE bus.news
           n == bus.changes + 1
           v == ~bus.up
<1>1. /\ bus' = [bus EXCEPT !.up = v, !.pill = FALSE, !.changes = n, !.news = q]
      /\ UNCHANGED <<ext, procs, waits, wins>>
  BY DEF She!DaemonChanges
<1>2. q \in Seq(BOOLEAN) /\ (IF ext.proxy = "live" THEN Turns(ext.present, q, v) /\ q # <<>> ELSE q = <<>>)
  <2>1. CASE ext.proxy = "live"
    <3>1. ext.present \in BOOLEAN
      BY ShellIs DEF ShellHost
    <3> QED BY <2>1, <3>1, ShellIs, TurnsMore
  <2>2. CASE ext.proxy # "live"
    BY <2>2, ShellIs
  <2> QED BY <2>1, <2>2
<1>3. n \in Nat /\ v \in BOOLEAN
  BY ShellIs DEF ShellBus
<1> HIDE DEF q, n, v
<1>4. bus' \in ShellBus /\ bus'.news = q /\ bus'.up = v
  BY <1>1, <1>2, <1>3, ShellIs DEF ShellBus
<1>5. BusSound(ext', bus')
  BY <1>1, <1>2, <1>4 DEF BusSound, She!Attached
<1> QED BY <1>1, <1>5, ShellIs DEF ShellInv, HostSound, RenderersSound, She!WindowKept, BusSound, She!Attached, Enabled

LEMMA CallKeeps == ASSUME ShellInv, She!CallArrives PROVE ShellInv'
<1> DEFINE q == Tail(bus.calls)
           v == bus.up /\ Head(bus.calls) = "RegisterClient"
<1>1. /\ bus.calls # <<>> /\ bus' = [bus EXCEPT !.calls = q, !.pill = v]
      /\ UNCHANGED <<ext, procs, waits, wins>>
  BY DEF She!CallArrives
<1>2. q \in Seq(ShellCalls)
  BY <1>1, ShellIs, Taken
<1>3. v \in BOOLEAN
  OBVIOUS
<1>4. ASSUME She!Attached(ext), bus.up, bus.news = <<>> PROVE Says(q, v, ext.registered)
  <2>1. Says(bus.calls, bus.pill, ext.registered)
    BY <1>4, ShellIs
  <2>2. Says(q, Head(bus.calls) = "RegisterClient", ext.registered)
    BY <1>1, <2>1, ShellIs, SaysLess
  <2> QED BY <1>4, <2>2 DEF Says
<1> HIDE DEF q, v
<1>5. bus' \in ShellBus /\ bus'.news = bus.news /\ bus'.up = bus.up /\ bus'.calls = q /\ bus'.pill = v
  BY <1>1, <1>2, <1>3, ShellIs DEF ShellBus
<1>6. BusSound(ext', bus')
  BY <1>1, <1>4, <1>5, ShellIs DEF BusSound, She!Attached
<1> QED BY <1>1, <1>6, ShellIs DEF ShellInv, HostSound, RenderersSound, She!WindowKept, BusSound, She!Attached, Enabled

\* Every step of the extension keeps it.
LEMMA ShellKeeps == ShellInv /\ She!ShellNext => ShellInv'
  BY EnableKeeps, DisableKeeps, StartKeeps, ProxyKeeps, OwnerKeeps, RestartKeeps, RendererKeeps,
     WindowsKeep, ProcessesKeep, NamesKeep, CallKeeps
  DEF She!ShellNext, She!Hears, She!Told, She!Reaped

\* It is what the extension promises.
LEMMA ShellServes ==
  ShellInv => She!TypeOK /\ She!OneRenderer /\ She!WindowKept /\ She!PillPromised
<1> SUFFICES ASSUME ShellInv
             PROVE  She!TypeOK /\ She!OneRenderer /\ She!WindowKept /\ She!PillPromised
  OBVIOUS
<1>1. Cardinality(ext.child) <= 1
  <2>1. CASE ext.child = {}
    BY <2>1, FS_EmptySet
  <2>2. CASE \E r \in Renderers : ext.child = {r}
    <3>1. PICK r \in Renderers : ext.child = {r}
      BY <2>2
    <3>2. Cardinality({r}) = 1
      BY FS_Singleton
    <3> QED BY <3>1, <3>2
  <2> QED BY <2>1, <2>2, ShellIs DEF Single
<1>2. She!TypeOK
  <2>1. She!Cardinality(ext.child) <= 1
    BY <1>1 DEF She!Cardinality, Cardinality
  <2>2. ext.failures \in 0..Budget + 1
    BY ShellIs DEF ShellHost
  <2> QED BY <2>1, <2>2, ShellIs DEF She!TypeOK, RenderersSound
<1>3. She!OneRenderer /\ She!WindowKept
  BY ShellIs DEF She!OneRenderer, RenderersSound, HostSound
<1>4. She!PillPromised
  BY ShellIs DEF She!PillPromised, HostSound, Says
<1> QED BY <1>2, <1>3, <1>4

-----------------------------------------------------------------------------
(***************************************************************************)
(* The daemon's process.                                                   *)
(***************************************************************************)

\* What is in force is what the choice and the backend's last answer make of it, and
\* nothing is asked of a backend before the daemon runs.
InForce ==
  /\ cells = Dae!Resolved(cells.choice, answer)
  /\ stage \notin {"running", "leaving"} => asked = {} /\ answer = "None"

\* The settings thread is due again when what it holds is not what is stored.
ThreadSound ==
  /\ stage \in {"down", "loaded"} => watcher = Dae!Resting
  /\ watcher.holds = {} \/ watcher.holds = {store} \/ watcher.due

\* What the process keeps.
DaemonInv ==
  /\ store \in Dae!Modes /\ store \in Choices /\ cells.choice \in Dae!Modes /\ answer \in Dae!Modes
  /\ read \in Dae!Modes /\ overtaken \in BOOLEAN
  /\ watcher \in [due : BOOLEAN, holds : SUBSET Choices]
  /\ Dae!TypeOK /\ InForce /\ ThreadSound /\ Dae!SettingsFollow

\* The records and the operators of this part, opened.
LEMMA DaemonFacts ==
  /\ \A c, s : Dae!Resolved(c, s).choice = c /\ Dae!Resolved(c, s).streams = s
                 /\ Dae!Resolved(c, s).preedit = Dae!resolve_preedit(c, s)
  /\ Dae!Resting \in [due : BOOLEAN, holds : SUBSET Choices]
  /\ Dae!Resting.due = FALSE /\ Dae!Resting.holds = {}
  /\ "None" \in Dae!Modes /\ Choices \subseteq Dae!Modes
  BY PartsAssumption DEF Dae!Resolved, Dae!Resting, Dae!Modes

\* At the start.
LEMMA DaemonStarts == Dae!DaemonInit => DaemonInv
<1> SUFFICES ASSUME Dae!DaemonInit PROVE DaemonInv
  OBVIOUS
<1>1. /\ store \in Choices /\ cells = Dae!Resolved("None", "None") /\ stage = "down"
      /\ read = "None" /\ watcher = Dae!Resting /\ visible = {} /\ asked = {}
      /\ overtaken = FALSE /\ answer = "None"
  BY DEF Dae!DaemonInit
<1>2. cells.choice = "None" /\ cells.streams = "None"
  BY <1>1, DaemonFacts
<1> QED BY <1>1, <1>2, DaemonFacts
        DEF DaemonInv, Dae!TypeOK, InForce, ThreadSound, Dae!SettingsFollow

\* What is resolved anew agrees with the choice and the answer it is made of.
LEMMA Resolves ==
  ASSUME NEW c \in Dae!Modes, NEW s \in Dae!Modes, cells' = Dae!Resolved(c, s)
  PROVE  cells'.choice = c /\ cells'.streams = s /\ cells' = Dae!Resolved(cells'.choice, s)
  BY DaemonFacts

\* The settings are edited.
LEMMA Edited ==
  ASSUME DaemonInv, NEW choice \in Choices, Dae!Edit(choice) PROVE DaemonInv'
<1> DEFINE d == stage \notin {"down", "loaded"}
<1>1. /\ store' = choice /\ watcher' = [watcher EXCEPT !.due = d]
      /\ UNCHANGED <<cells, stage, read, shares, visible, asked, overtaken, answer>>
  BY DEF Dae!Edit
<1>2. /\ watcher' \in [due : BOOLEAN, holds : SUBSET Choices]
      /\ watcher'.due = d /\ watcher'.holds = watcher.holds
  BY <1>1 DEF DaemonInv
<1>3. ThreadSound'
  <2>1. CASE stage \in {"down", "loaded"}
    <3>1. watcher = Dae!Resting /\ watcher' = watcher
      BY <1>1, <2>1 DEF DaemonInv, ThreadSound, Dae!Resting
    <3> QED BY <1>1, <3>1, <2>1, DaemonFacts DEF ThreadSound, DaemonInv
  <2>2. CASE ~(stage \in {"down", "loaded"})
    BY <1>1, <1>2, <2>2 DEF ThreadSound
  <2> QED BY <2>1, <2>2
<1>4. Dae!SettingsFollow'
  <2>1. stage \in {"running", "leaving"} => watcher'.due = TRUE
    BY <1>2
  <2> QED BY <1>1, <2>1, DaemonFacts DEF Dae!SettingsFollow
<1>5. Dae!TypeOK' /\ InForce'
  BY <1>1, <1>2 DEF DaemonInv, Dae!TypeOK, InForce
<1> QED BY <1>1, <1>2, <1>3, <1>4, <1>5, DaemonFacts DEF DaemonInv

\* The process starts, or watches, or reads a second time.
LEMMA Begins ==
  ASSUME DaemonInv, Dae!Start \/ Dae!Watch \/ Dae!Reread PROVE DaemonInv'
<1>1. CASE Dae!Start
  <2>1. /\ stage = "down" /\ stage' = "loaded" /\ cells' = Dae!Resolved(store, "None")
        /\ visible' = {m \in Models : shares[m] # "none"}
        /\ UNCHANGED <<store, read, watcher, shares, asked, overtaken, answer>>
    BY <1>1 DEF Dae!Start
  <2>2. cells'.choice = store /\ cells'.streams = "None" /\ cells' = Dae!Resolved(cells'.choice, "None")
    BY <2>1, Resolves, DaemonFacts DEF DaemonInv
  <2> QED BY <2>1, <2>2, DaemonFacts
          DEF DaemonInv, Dae!TypeOK, InForce, ThreadSound, Dae!SettingsFollow
<1>2. CASE Dae!Watch \/ Dae!Reread
  <2>1. /\ stage \in {"loaded", "watching"} /\ stage' \in {"watching", "reread"}
        /\ read' \in {read, store}
        /\ UNCHANGED <<store, cells, watcher, shares, visible, asked, overtaken, answer>>
    BY <1>2 DEF Dae!Watch, Dae!Reread
  <2> QED BY <2>1 DEF DaemonInv, Dae!TypeOK, InForce, ThreadSound, Dae!SettingsFollow
<1> QED BY <1>1, <1>2

\* A change is applied, the second read's or the settings thread's.
LEMMA Applies ==
  ASSUME DaemonInv, Dae!RereadApplied \/ Dae!HeardApplied PROVE DaemonInv'
<1>1. CASE Dae!RereadApplied
  <2>1. /\ stage = "reread" /\ stage' = "running" /\ cells' = Dae!Resolved(read, cells.streams)
        /\ read' = "None" /\ overtaken' = (read # store /\ watcher = Dae!Resting)
        /\ UNCHANGED <<store, watcher, shares, visible, asked, answer>>
    BY <1>1 DEF Dae!RereadApplied, Dae!settings_changed
  <2>2. cells.streams = answer /\ read \in Dae!Modes /\ answer \in Dae!Modes
    BY DaemonFacts DEF DaemonInv, InForce
  <2>3. cells'.choice = read /\ cells'.streams = answer /\ cells' = Dae!Resolved(cells'.choice, answer)
    BY <2>1, <2>2, Resolves
  <2>4. Dae!SettingsFollow'
    BY <2>1, <2>3 DEF Dae!SettingsFollow, Dae!Resting
  <2> QED BY <2>1, <2>2, <2>3, <2>4, DaemonFacts DEF DaemonInv, Dae!TypeOK, InForce, ThreadSound
<1>2. CASE Dae!HeardApplied
  <2>1. /\ \E choice \in watcher.holds : cells' = Dae!Resolved(choice, cells.streams)
        /\ watcher' = [watcher EXCEPT !.holds = {}] /\ overtaken' = FALSE
        /\ UNCHANGED <<store, stage, read, shares, visible, asked, answer>>
    BY <1>2 DEF Dae!HeardApplied, Dae!settings_changed
  <2>2. PICK choice \in watcher.holds : cells' = Dae!Resolved(choice, cells.streams)
    BY <2>1
  <2>3. cells.streams = answer /\ choice \in Dae!Modes /\ answer \in Dae!Modes
    BY <2>2, DaemonFacts DEF DaemonInv, InForce
  <2>4. cells'.choice = choice /\ cells'.streams = answer /\ cells' = Dae!Resolved(cells'.choice, answer)
    BY <2>2, <2>3, Resolves
  <2>5. /\ watcher' \in [due : BOOLEAN, holds : SUBSET Choices]
        /\ watcher'.due = watcher.due /\ watcher'.holds = {}
    BY <2>1 DEF DaemonInv
  <2>6. watcher # Dae!Resting
    BY <2>2, DaemonFacts
  <2>7. stage \notin {"down", "loaded"}
    BY <2>6 DEF DaemonInv, ThreadSound
  <2>8. Dae!SettingsFollow'
    <3>1. watcher' = Dae!Resting => watcher.due = FALSE
      BY <2>5, DaemonFacts
    <3>2. watcher.due = FALSE => choice = store
      BY <2>2 DEF DaemonInv, ThreadSound
    <3> QED BY <2>1, <2>4, <3>1, <3>2 DEF Dae!SettingsFollow
  <2> QED BY <2>1, <2>3, <2>4, <2>5, <2>7, <2>8, DaemonFacts
          DEF DaemonInv, Dae!TypeOK, InForce, ThreadSound
<1> QED BY <1>1, <1>2

\* The settings thread reads the store.
LEMMA Hears ==
  ASSUME DaemonInv, Dae!Hear PROVE DaemonInv'
<1>1. /\ watcher.due /\ watcher' = [due |-> FALSE, holds |-> {store}]
      /\ UNCHANGED <<store, cells, stage, read, shares, visible, asked, overtaken, answer>>
  BY DEF Dae!Hear
<1>2. /\ watcher' \in [due : BOOLEAN, holds : SUBSET Choices] /\ watcher'.holds = {store}
      /\ watcher' # Dae!Resting /\ watcher # Dae!Resting
  BY <1>1, DaemonFacts DEF DaemonInv
<1> QED BY <1>1, <1>2 DEF DaemonInv, Dae!TypeOK, InForce, ThreadSound, Dae!SettingsFollow

\* Shares come and go, and the key is pressed.
LEMMA PressedOrShared ==
  ASSUME DaemonInv,
         \/ Dae!Press
         \/ \E m \in Models, state \in {"none", "silent", "serving"} : Dae!ShareChanges(m, state)
  PROVE  DaemonInv'
<1>1. CASE Dae!Press
  <2>1. /\ stage \in {"running", "leaving"} /\ stage' \in {stage, "leaving"}
        /\ asked' \in {asked, asked \cup Dae!Found}
        /\ UNCHANGED <<store, cells, read, watcher, shares, visible, overtaken, answer>>
    BY <1>1 DEF Dae!Press
  <2>2. Dae!Found \subseteq Models
    BY DEF Dae!Found, DaemonInv, Dae!TypeOK
  <2>3. stage' \in {"running", "leaving"} /\ asked' \subseteq Models
    BY <2>1, <2>2 DEF DaemonInv, Dae!TypeOK
  <2> QED BY <2>1, <2>3 DEF DaemonInv, Dae!TypeOK, InForce, ThreadSound, Dae!SettingsFollow
<1>2. CASE \E m \in Models, state \in {"none", "silent", "serving"} : Dae!ShareChanges(m, state)
  <2>1. /\ visible' \subseteq visible
        /\ UNCHANGED <<store, cells, stage, read, watcher, asked, overtaken, answer>>
    BY <1>2 DEF Dae!ShareChanges
  <2> QED BY <2>1 DEF DaemonInv, Dae!TypeOK, InForce, ThreadSound, Dae!SettingsFollow
<1> QED BY <1>1, <1>2

\* A backend answers.
LEMMA Learns ==
  ASSUME DaemonInv, NEW m \in Models, Dae!backend_learned(m) PROVE DaemonInv'
<1> DEFINE s == Dae!backend_streams(m)
<1>1. s \in Dae!Modes
  BY DEF Dae!backend_streams, Dae!Modes
<1>2. /\ m \in asked /\ asked' = asked \ {m} /\ answer' = s
      /\ cells' = (IF cells.streams = s THEN cells
                   ELSE [cells EXCEPT !.streams = s,
                                      !.preedit = Dae!resolve_preedit(cells.choice, s)])
      /\ UNCHANGED <<store, stage, read, watcher, shares, visible, overtaken>>
  BY DEF Dae!backend_learned
<1> HIDE DEF s
<1>3. cells = Dae!Resolved(cells.choice, answer) /\ cells.streams = answer
  BY DaemonFacts DEF DaemonInv, InForce
<1>4. cells' = Dae!Resolved(cells.choice, s)
  <2>1. CASE cells.streams = s
    BY <1>2, <1>3, <2>1
  <2>2. CASE cells.streams # s
    <3>1. cells' = [cells EXCEPT !.streams = s, !.preedit = Dae!resolve_preedit(cells.choice, s)]
      BY <1>2, <2>2
    <3> DEFINE c == cells.choice
               r == Dae!resolve_preedit(c, s)
               q == Dae!resolve_preedit(c, answer)
    <3>2. cells = [choice |-> c, streams |-> answer, preedit |-> q]
      BY <1>3 DEF Dae!Resolved
    <3>3. cells' = [cells EXCEPT !.streams = s, !.preedit = r]
      BY <3>1
    <3>4. Dae!Resolved(c, s) = [choice |-> c, streams |-> s, preedit |-> r]
      BY DEF Dae!Resolved
    <3> HIDE DEF c, r, q
    <3>5. cells' = [choice |-> c, streams |-> s, preedit |-> r]
      BY <3>2, <3>3
    <3> QED BY <3>4, <3>5 DEF c
  <2> QED BY <2>1, <2>2
<1>5. cells'.choice = cells.choice /\ cells'.streams = s /\ cells' = Dae!Resolved(cells'.choice, s)
  BY <1>1, <1>4, Resolves DEF DaemonInv
<1>6. stage \in {"running", "leaving"}
  BY <1>2 DEF DaemonInv, InForce
<1> QED BY <1>1, <1>2, <1>5, <1>6
        DEF DaemonInv, Dae!TypeOK, InForce, ThreadSound, Dae!SettingsFollow

\* The process ends.
LEMMA Exits ==
  ASSUME DaemonInv, Dae!Exit PROVE DaemonInv'
<1>1. /\ stage' = "down" /\ cells' = Dae!Resolved("None", "None") /\ watcher' = Dae!Resting
      /\ visible' = {} /\ asked' = {} /\ overtaken' = FALSE /\ answer' = "None"
      /\ UNCHANGED <<store, read, shares>>
  BY DEF Dae!Exit
<1>2. cells'.choice = "None" /\ cells'.streams = "None" /\ cells' = Dae!Resolved(cells'.choice, "None")
  BY <1>1, DaemonFacts, Resolves
<1> QED BY <1>1, <1>2, DaemonFacts
        DEF DaemonInv, Dae!TypeOK, InForce, ThreadSound, Dae!SettingsFollow

\* Every step of the process keeps it sound.
LEMMA ProcessKeeps ==
  ASSUME DaemonInv, Dae!DaemonNext PROVE DaemonInv'
<1>1. CASE \E choice \in Choices : Dae!Edit(choice)
  BY <1>1, Edited
<1>2. CASE Dae!Start \/ Dae!Watch \/ Dae!Reread
  BY <1>2, Begins
<1>3. CASE Dae!RereadApplied \/ Dae!HeardApplied
  BY <1>3, Applies
<1>4. CASE Dae!Hear
  BY <1>4, Hears
<1>5. CASE \/ Dae!Press
           \/ \E m \in Models, state \in {"none", "silent", "serving"} : Dae!ShareChanges(m, state)
  BY <1>5, PressedOrShared
<1>6. CASE \E m \in Models : Dae!backend_learned(m)
  BY <1>6, Learns
<1>7. CASE Dae!GraceEnds \/ Dae!BusLost
  BY <1>7, Exits DEF Dae!GraceEnds, Dae!BusLost
<1> QED BY <1>1, <1>2, <1>3, <1>4, <1>5, <1>6, <1>7 DEF Dae!DaemonNext

\* What is promised follows.
LEMMA DaemonServes ==
  DaemonInv => Dae!TypeOK /\ Dae!PreeditAgrees /\ Dae!SettingsFollow
<1> SUFFICES ASSUME DaemonInv PROVE Dae!PreeditAgrees
  BY DEF DaemonInv
<1>1. cells = Dae!Resolved(cells.choice, answer)
  BY DEF DaemonInv, InForce
<1>2. cells.preedit = Dae!resolve_preedit(cells.choice, answer)
  BY <1>1, DaemonFacts
<1> QED BY <1>2 DEF Dae!PreeditAgrees, Dae!resolve_preedit

-----------------------------------------------------------------------------
(***************************************************************************)
(* The daemon's indicator.                                                 *)
(***************************************************************************)

\* The states the bus knows.
Wires == {"idle", "recording", "loading", "notice", "error"}

\* What the records of this part hold.
Wanteds == [state : Ind!States, at : {"label", "state", "published", "done"}, wire : Wires]
LastPairs == {Ind!Pair(w) : w \in Wires \cup {Ind!None}}
Pairs == [state : Wires, label : Wires \cup {""}]
Hides == [at : {Ind!None, "sleeping", "label", "state", "last"}, label : Wires \cup {""}]
Strays == [at : {Ind!None, "label", "state", "last"}, label : Wires \cup {""}]
Toasts ==
  [live : Ind!States \cup {Ind!None}, open : Ind!States \cup {Ind!None},
   hide : {Ind!None, "sleeping", "closing", "closed", "stray"}]

\* The types of this part.
IndTypes ==
  /\ wanted \in Wanteds
  /\ last \in LastPairs
  /\ served \in Pairs
  /\ hide \in Hides
  /\ stray \in Strays
  /\ toast \in Toasts
  /\ torn \in BOOLEAN

\* How far the publishing of the state set last has come, or else its dismissal.
OnTheBus ==
  LET p == Ind!Pair(wanted.wire) IN
  /\ wanted.at # "done" => last = p
  /\ wanted.at = "state" => served.label = p.label
  /\ wanted.at = "published" => served = p
  /\ hide.at \in {"label", "state", "last"} => last = p /\ wanted.wire \in Ind!Transient
  /\ hide.at = "label" => served = p
  /\ hide.at = "state" => served.label = ""
  /\ hide.at = "last" => served = Ind!Pair("idle")

\* What the indicator keeps.
IndInv ==
  /\ IndTypes
  /\ wanted.at # "done" => hide = Ind!Asleep
  /\ stray.at # Ind!None => torn
  /\ torn \/ OnTheBus
  /\ Ind!Published /\ Ind!NoToastLeft

\* What a state shows: two that differ show different pairs.
LEMMA PairFacts ==
  /\ \A w \in Wires \cup {Ind!None} : /\ Ind!Pair(w).state = w
                                      /\ Ind!Pair(w).label \in Wires \cup {""}
  /\ \A w \in Wires : Ind!Pair(w) \in Pairs
  /\ \A v, w \in Wires \cup {Ind!None} : Ind!Pair(v) = Ind!Pair(w) => v = w
  /\ Ind!None \notin Wires /\ Ind!Pair("idle").label = "" /\ Ind!Transient \subseteq Wires
  /\ "idle" \in Wires /\ "idle" \notin Ind!Transient
<1>1. \A w : Ind!Pair(w).state = w
  BY DEF Ind!Pair
<1>2. \A w \in Wires \cup {Ind!None} : Ind!Pair(w).label \in Wires \cup {""}
  BY DEF Ind!Pair, Wires, Ind!None
<1>3. \A w \in Wires : Ind!Pair(w) \in Pairs
  BY DEF Ind!Pair, Wires, Ind!None, Pairs
<1>4. Ind!None \notin Wires /\ Ind!Pair("idle").label = ""
  BY DEF Ind!Pair, Wires, Ind!None
<1>5. Ind!Transient \subseteq Wires /\ "idle" \in Wires /\ "idle" \notin Ind!Transient
  BY DEF Ind!Transient, Wires
<1>6. ASSUME NEW v \in Wires \cup {Ind!None}, NEW w \in Wires \cup {Ind!None},
             Ind!Pair(v) = Ind!Pair(w)
      PROVE  v = w
  <2>1. Ind!Pair(v).state = v /\ Ind!Pair(w).state = w
    BY <1>1
  <2> QED BY <1>6, <2>1
<1> QED BY <1>1, <1>2, <1>3, <1>4, <1>5, <1>6

\* A task that is not there.
LEMMA AsleepFacts ==
  /\ Ind!Asleep \in Hides /\ Ind!Asleep \in Strays /\ Ind!Asleep.at = Ind!None
  /\ Ind!None \notin {"sleeping", "label", "state", "last", "closing", "stray", "published", "done"}
  BY DEF Ind!Asleep, Ind!None, Hides, Strays

\* What is promised of the bus, by what has been published.
LEMMA QuietBus ==
  ASSUME IndTypes, Ind!Published, Ind!Settled, ~torn
  PROVE  /\ last.state = Ind!None => served = Ind!Pair("idle")
         /\ last.state # Ind!None => served = last
         /\ \/ served = Ind!Pair(wanted.wire)
            \/ wanted.wire \in Ind!Transient /\ hide = Ind!Asleep /\ served = Ind!Pair("idle")
  BY DEF Ind!Published

\* The last pair is that of some state.
LEMMA LastState ==
  ASSUME IndTypes
  PROVE  last.state \in Wires \cup {Ind!None} /\ last = Ind!Pair(last.state)
<1>1. PICK w \in Wires \cup {Ind!None} : last = Ind!Pair(w)
  BY DEF IndTypes, LastPairs
<1>2. last.state = w
  BY <1>1, PairFacts
<1> QED BY <1>1, <1>2

\* A pair on the bus is its state and its label.
LEMMA SamePair ==
  ASSUME NEW p \in Pairs,
         NEW q \in Pairs,
         p.state = q.state, p.label = q.label
  PROVE  p = q
<1>1. p = [state |-> p.state, label |-> p.label]
  BY DEF Pairs
<1>2. q = [state |-> q.state, label |-> q.label]
  BY DEF Pairs
<1> QED BY <1>1, <1>2

\* At the start.
LEMMA IndStarts == Ind!IndicatorInit => IndInv
<1> SUFFICES ASSUME Ind!IndicatorInit PROVE IndInv
  OBVIOUS
<1>1. /\ wanted = [state |-> "Hidden", at |-> "done", wire |-> "idle"]
      /\ last = Ind!Pair(Ind!None) /\ served = Ind!Pair("idle")
      /\ hide = Ind!Asleep /\ stray = Ind!Asleep
      /\ toast = [live |-> Ind!None, open |-> Ind!None, hide |-> Ind!None] /\ torn = FALSE
  BY DEF Ind!IndicatorInit
<1>2. IndTypes
  <2>1. wanted \in Wanteds
    BY <1>1 DEF Ind!States, Wires, Wanteds
  <2>2. last \in LastPairs
    BY <1>1 DEF LastPairs
  <2>3. toast \in Toasts
    BY <1>1 DEF Toasts
  <2>4. served \in Pairs
    BY <1>1, PairFacts
  <2>5. /\ hide \in Hides
        /\ stray \in Strays
    BY <1>1, AsleepFacts
  <2> QED BY <1>1, <2>1, <2>2, <2>3, <2>4, <2>5 DEF IndTypes
<1>3. wanted.at = "done" /\ wanted.wire = "idle" /\ hide.at = Ind!None /\ stray.at = Ind!None
      /\ toast.open = Ind!None
  BY <1>1, AsleepFacts
<1>4. Ind!Published
  <2>1. last.state = Ind!None
    BY <1>1, PairFacts
  <2> QED BY <1>1, <1>3, <2>1 DEF Ind!Published
<1> QED BY <1>1, <1>2, <1>3, <1>4, AsleepFacts DEF IndInv, OnTheBus, Ind!NoToastLeft

\* A step that leaves the bus and its tasks alone.
LEMMA BusStands ==
  ASSUME IndInv, UNCHANGED <<wanted, last, served, locked, hide, stray, torn>>,
         toast' \in Toasts,
         toast'.open # Ind!None => toast'.live # Ind!None
  PROVE  IndInv'
<1>1. IndTypes'
  BY DEF IndInv, IndTypes
<1>2. (torn \/ OnTheBus) => (torn' \/ OnTheBus')
  BY DEF OnTheBus
<1>3. Ind!Published'
  BY DEF IndInv, Ind!Published, Ind!Settled
<1> QED BY <1>1, <1>2, <1>3 DEF IndInv, Ind!NoToastLeft

\* A state is set.
LEMMA StateSet ==
  ASSUME IndInv, NEW s \in Ind!States, NEW ready \in BOOLEAN, Ind!set_state(s, ready)
  PROVE  IndInv'
<1> DEFINE w == Ind!map_state(s, ready)
           p == Ind!Pair(w)
           quiet == hide.at \in {Ind!None, "sleeping"}
<1>1. w \in Wires
  BY DEF Ind!map_state, Ind!States, Wires
<1>2. /\ wanted.at = "done" /\ (quiet \/ stray.at = Ind!None)
      /\ wanted' = [state |-> s, wire |-> w, at |-> IF last = p THEN "published" ELSE "label"]
      /\ stray' = (IF quiet THEN stray ELSE hide)
      /\ torn' = (~quiet \/ stray.at # Ind!None \/ (torn /\ last = p))
      /\ hide' = Ind!Asleep /\ last' = p
      /\ UNCHANGED <<served, toast>>
  BY DEF Ind!set_state
<1>3. p \in LastPairs /\ p.state = w /\ p.state # Ind!None
  BY <1>1, PairFacts DEF LastPairs
<1> HIDE DEF w, p
<1>4. /\ wanted' \in Wanteds
      /\ wanted'.wire = w /\ wanted'.at \in {"published", "label"}
      /\ wanted'.at = "published" => last = p
  BY <1>1, <1>2 DEF Wanteds
<1>5. stray' \in Strays
  <2>1. CASE quiet
    BY <1>2, <2>1 DEF IndInv, IndTypes
  <2>2. CASE ~quiet
    BY <1>2, <2>2 DEF IndInv, IndTypes, Strays, Hides
  <2> QED BY <2>1, <2>2
<1>6. torn' \in BOOLEAN
  BY <1>2
<1>7. IndTypes'
  <2>1. hide' \in Hides
    BY <1>2, AsleepFacts
  <2> QED BY <1>2, <1>3, <1>4, <1>5, <1>6, <2>1 DEF IndTypes, IndInv
<1>8. stray'.at # Ind!None => torn'
  <2>1. CASE quiet
    BY <1>2, <2>1
  <2>2. CASE ~quiet
    BY <1>2, <2>2
  <2> QED BY <2>1, <2>2
<1>9. torn' \/ OnTheBus'
  <2> SUFFICES ASSUME ~torn' PROVE OnTheBus'
    OBVIOUS
  <2>1. quiet /\ stray.at = Ind!None /\ (last = p => ~torn)
    BY <1>2
  <2>2. last = p => served = p
    <3> SUFFICES ASSUME last = p PROVE served = p
      OBVIOUS
    <3>1. Ind!Settled /\ ~torn
      BY <1>2, <2>1 DEF Ind!Settled
    <3> QED BY <1>3, <3>1, QuietBus DEF IndInv
  <2>3. hide'.at = Ind!None /\ p = Ind!Pair(w)
    BY <1>2, AsleepFacts DEF p
  <2> QED BY <1>2, <1>4, <2>2, <2>3, AsleepFacts DEF OnTheBus
<1>10. Ind!Published'
  BY <1>4 DEF Ind!Published, Ind!Settled
<1>11. Ind!NoToastLeft'
  BY <1>2 DEF IndInv, Ind!NoToastLeft
<1> QED BY <1>2, <1>7, <1>8, <1>9, <1>10, <1>11 DEF IndInv

\* Its label and then its state are published.
LEMMA StatePublished ==
  ASSUME IndInv, Ind!PublishLabel \/ Ind!PublishState PROVE IndInv'
<1> DEFINE p == Ind!Pair(wanted.wire)
<1>1. /\ wanted.wire \in Wires /\ p \in Pairs /\ p.state = wanted.wire
      /\ p.label \in Wires \cup {""}
  BY PairFacts DEF IndInv, IndTypes, Wanteds
<1>2. /\ UNCHANGED <<last, hide, stray, toast, torn>>
      /\ \/ /\ wanted.at = "label" /\ served' = [served EXCEPT !.label = p.label]
            /\ wanted' = [wanted EXCEPT !.at = "state"]
         \/ /\ wanted.at = "state" /\ served' = [served EXCEPT !.state = wanted.wire]
            /\ wanted' = [wanted EXCEPT !.at = "published"]
  BY DEF Ind!PublishLabel, Ind!PublishState
<1> HIDE DEF p
<1>3. /\ wanted' \in Wanteds
      /\ wanted'.wire = wanted.wire /\ wanted'.at \in {"state", "published"}
      /\ served' \in Pairs
  BY <1>1, <1>2 DEF IndInv, IndTypes, Wanteds, Pairs
<1>4. IndTypes'
  <2>1. UNCHANGED <<last, hide, stray, toast, torn>>
    BY <1>2
  <2> QED BY <1>3, <2>1 DEF IndInv, IndTypes
<1>5. hide = Ind!Asleep /\ hide.at = Ind!None
  BY <1>2, AsleepFacts DEF IndInv
<1>6. ~torn => OnTheBus'
  <2> SUFFICES ASSUME ~torn PROVE OnTheBus'
    OBVIOUS
  <2>1. last = p
    BY <1>2 DEF IndInv, OnTheBus, p
  <2>2. p = Ind!Pair(wanted'.wire)
    BY <1>3 DEF p
  <2>3. CASE wanted.at = "label"
    <3>1. served' = [served EXCEPT !.label = p.label] /\ wanted' = [wanted EXCEPT !.at = "state"]
      BY <1>2, <2>3
    <3>2. served'.label = p.label /\ wanted'.at = "state"
      BY <3>1 DEF IndInv, IndTypes
    <3> QED BY <1>2, <1>5, <2>1, <2>2, <3>2, AsleepFacts DEF OnTheBus
  <2>4. CASE wanted.at = "state"
    <3>1. served' = [served EXCEPT !.state = wanted.wire] /\ wanted' = [wanted EXCEPT !.at = "published"]
      BY <1>2, <2>4
    <3>2. served.label = p.label
      BY <2>4 DEF IndInv, OnTheBus, p
    <3>3. wanted'.at = "published" /\ served'.state = wanted.wire /\ served'.label = p.label
      BY <3>1, <3>2 DEF IndInv, IndTypes
    <3>4. served' = p
      BY <1>1, <1>3, <3>3, SamePair
    <3> QED BY <1>2, <1>5, <2>1, <2>2, <3>3, <3>4, AsleepFacts DEF OnTheBus
  <2> QED BY <1>2, <2>3, <2>4
<1>7. Ind!Published'
  BY <1>3 DEF Ind!Published, Ind!Settled
<1>8. Ind!NoToastLeft'
  BY <1>2 DEF IndInv, Ind!NoToastLeft
<1> QED BY <1>2, <1>4, <1>5, <1>6, <1>7, <1>8 DEF IndInv


\* The indicator is done: the toast is shown, and the dismissal of a problem scheduled.
LEMMA ToastSet ==
  ASSUME IndInv, NEW c \in BOOLEAN, Ind!set_toast(c) PROVE IndInv'
<1> DEFINE s == IF c THEN "Hidden" ELSE wanted.state
           p == Ind!Pair(wanted.wire)
<1>1. /\ wanted.at = "published" /\ wanted' = [wanted EXCEPT !.at = "done"]
      /\ hide' = Ind!schedule_auto_hide
      /\ \/ toast' = toast
         \/ toast' = [toast EXCEPT !.live = Ind!None, !.open = Ind!None]
         \/ \E accepted \in BOOLEAN : toast' = Ind!Replaced(s, accepted)
      /\ UNCHANGED <<last, served, locked, stray, torn>>
  BY DEF Ind!set_toast
<1>2. s \in Ind!States /\ s # Ind!None /\ wanted.wire \in Wires
  BY DEF IndInv, IndTypes, Ind!States, Ind!None, Wanteds
<1> HIDE DEF s
<1>3. toast' \in Toasts /\ (toast'.open # Ind!None => toast'.live # Ind!None)
  <2>0. toast \in Toasts /\ (toast.open # Ind!None => toast.live # Ind!None)
    BY DEF IndInv, IndTypes, Ind!NoToastLeft
  <2>1. CASE toast' = toast
    BY <2>0, <2>1
  <2>2. CASE toast' = [toast EXCEPT !.live = Ind!None, !.open = Ind!None]
    <3>1. toast' \in Toasts /\ toast'.open = Ind!None
      BY <2>0, <2>2 DEF Toasts
    <3> QED BY <3>1
  <2>3. ASSUME NEW a \in BOOLEAN, toast' = Ind!Replaced(s, a)
        PROVE  toast' \in Toasts /\ (toast'.open # Ind!None => toast'.live # Ind!None)
    <3> DEFINE u == IF a THEN [toast EXCEPT !.live = s, !.open = s] ELSE toast
               h == IF s = "notice" /\ u.live # Ind!None THEN "sleeping" ELSE Ind!abort_pending(toast)
    <3>1. u \in Toasts /\ (u.open # Ind!None => u.live # Ind!None)
      <4>1. CASE a
        <5>1. u = [toast EXCEPT !.live = s, !.open = s]
          BY <4>1
        <5> HIDE DEF u
        <5>2. u \in Toasts /\ u.live = s
          BY <1>2, <2>0, <5>1 DEF Toasts
        <5> QED BY <1>2, <5>2
      <4>2. CASE ~a
        <5>1. u = toast
          BY <4>2
        <5> QED BY <2>0, <5>1
      <4> QED BY <4>1, <4>2
    <3>2. toast' = [u EXCEPT !.hide = h]
      BY <2>3 DEF Ind!Replaced
    <3>3. h \in {Ind!None, "sleeping", "stray"}
      BY DEF Ind!abort_pending
    <3> HIDE DEF u, h
    <3>4. toast' \in Toasts /\ toast'.open = u.open /\ toast'.live = u.live
      BY <3>1, <3>2, <3>3 DEF Toasts
    <3> QED BY <3>1, <3>4
  <2> QED BY <1>1, <2>1, <2>2, <2>3
<1>4. /\ wanted' \in Wanteds
      /\ wanted'.wire = wanted.wire /\ wanted'.at = "done"
  BY <1>1 DEF IndInv, IndTypes, Wanteds
<1>5. hide = Ind!Asleep /\ hide.at = Ind!None
  BY <1>1, AsleepFacts DEF IndInv
<1>6. /\ hide' \in Hides
      /\ hide'.at \in {Ind!None, "sleeping"}
  <2>1. CASE wanted.wire \in Ind!Transient
    <3>1. hide' = [at |-> "sleeping", label |-> p.label]
      BY <1>1, <2>1 DEF Ind!schedule_auto_hide
    <3>2. p.label \in Wires \cup {""}
      BY <1>2, PairFacts
    <3> HIDE DEF p
    <3> QED BY <3>1, <3>2 DEF Hides
  <2>2. CASE ~(wanted.wire \in Ind!Transient)
    <3>1. hide' = Ind!Asleep
      BY <1>1, <1>5, <2>2 DEF Ind!schedule_auto_hide
    <3> QED BY <3>1, AsleepFacts
  <2> QED BY <2>1, <2>2
<1>7. IndTypes'
  BY <1>1, <1>3, <1>4, <1>6 DEF IndInv, IndTypes
<1>8. ~torn => last = p /\ served = p
  BY <1>1, AsleepFacts DEF IndInv, OnTheBus
<1>9. torn' \/ OnTheBus'
  <2> SUFFICES ASSUME ~torn PROVE OnTheBus'
    BY <1>1
  <2> QED BY <1>4, <1>6, AsleepFacts DEF OnTheBus
<1>10. Ind!Published'
  <2> SUFFICES ASSUME ~torn PROVE Ind!Published'
    BY <1>1 DEF Ind!Published
  <2>1. last = p /\ served = p /\ p = Ind!Pair(wanted'.wire) /\ p.state # Ind!None
    BY <1>2, <1>4, <1>8, PairFacts
  <2> HIDE DEF p
  <2> QED BY <1>1, <2>1 DEF Ind!Published
<1> QED BY <1>1, <1>3, <1>4, <1>7, <1>9, <1>10 DEF IndInv, Ind!NoToastLeft

\* A toast's hold ends, it is closed, or the user closes it.
LEMMA ToastMoves ==
  ASSUME IndInv, Ind!ToastHeld \/ Ind!ToastClosed \/ Ind!UserCloses PROVE IndInv'
<1>1. UNCHANGED <<wanted, last, served, locked, hide, stray, torn>>
  BY DEF Ind!ToastHeld, Ind!ToastClosed, Ind!UserCloses
<1>2. toast \in Toasts /\ (toast.open # Ind!None => toast.live # Ind!None)
  BY DEF IndInv, IndTypes, Ind!NoToastLeft
<1>3. \/ toast' = [toast EXCEPT !.hide = "closing"]
      \/ toast' = [toast EXCEPT !.open = Ind!None, !.hide = "closed"]
      \/ toast' = [toast EXCEPT !.open = Ind!None, !.hide = Ind!None]
      \/ toast' = [toast EXCEPT !.open = Ind!None]
  BY DEF Ind!ToastHeld, Ind!ToastClosed, Ind!UserCloses
<1>4. toast' \in Toasts /\ toast'.open \in {toast.open, Ind!None} /\ toast'.live = toast.live
  BY <1>2, <1>3 DEF Toasts
<1> QED BY <1>1, <1>2, <1>4, BusStands

\* The dismissal of the state now shown takes its next step.
LEMMA AutoHides ==
  ASSUME IndInv, Ind!AutoHide PROVE IndInv'
<1> DEFINE p == Ind!Pair(wanted.wire)
           i == Ind!Pair("idle")
<1>1. UNCHANGED <<wanted, stray, toast, torn>>
  BY DEF Ind!AutoHide
<1>2. \/ /\ hide.at = "sleeping" /\ UNCHANGED <<served, last>>
         /\ \/ /\ last.state \in Ind!Transient /\ last.label = hide.label
               /\ hide' = [hide EXCEPT !.at = "label"]
            \/ /\ hide' = Ind!Asleep
      \/ /\ hide.at = "label" /\ hide' = [hide EXCEPT !.at = "state"]
         /\ served' = [served EXCEPT !.label = ""] /\ last' = last
      \/ /\ hide.at = "state" /\ hide' = [hide EXCEPT !.at = "last"]
         /\ served' = [served EXCEPT !.state = "idle"] /\ last' = last
      \/ /\ hide.at = "last" /\ hide' = Ind!Asleep /\ last' = i /\ served' = served
  BY DEF Ind!AutoHide, Ind!Woken, Ind!HideLabel, Ind!HideState, Ind!HideLast, Ind!After
<1>3. wanted.at = "done"
  BY <1>2, AsleepFacts DEF IndInv
<1>4. IndTypes
  BY DEF IndInv
<1>5. /\ wanted.wire \in Wires /\ p \in Pairs /\ p.state = wanted.wire
      /\ i \in Pairs /\ i.state = "idle" /\ i.label = ""
      /\ i \in LastPairs /\ i.state # Ind!None
  <2>1. wanted.wire \in Wires
    BY <1>4 DEF IndTypes, Wanteds
  <2>2. "idle" \in Wires /\ "idle" # Ind!None
    BY PairFacts
  <2>3. p \in Pairs /\ p.state = wanted.wire
    BY <2>1, PairFacts
  <2>4. i \in Pairs /\ i.state = "idle" /\ i.label = "" /\ i \in LastPairs
    BY <2>2, PairFacts DEF LastPairs
  <2> QED BY <2>1, <2>2, <2>3, <2>4
<1> HIDE DEF i
<1>6. CASE hide.at = "sleeping"
  <2>1. UNCHANGED <<served, last>>
    BY <1>2, <1>6
  <2>2. stray.at # Ind!None => torn
    BY DEF IndInv
  <2>3. ~torn => /\ served = p
                 /\ last.state = Ind!None => served = i
                 /\ last.state # Ind!None => served = last
    <3> SUFFICES ASSUME ~torn
                 PROVE  /\ served = p
                        /\ last.state = Ind!None => served = i
                        /\ last.state # Ind!None => served = last
      OBVIOUS
    <3>1. hide # Ind!Asleep
      BY <1>6, AsleepFacts
    <3>2. Ind!Settled
      BY <1>3, <1>6, <2>2 DEF Ind!Settled
    <3> QED BY <1>4, <3>1, <3>2, QuietBus DEF IndInv, i
  <2>4. CASE /\ last.state \in Ind!Transient /\ last.label = hide.label
             /\ hide' = [hide EXCEPT !.at = "label"]
    <3>1. /\ hide' \in Hides
          /\ hide'.at = "label"
      BY <1>4, <2>4 DEF IndTypes, Hides
    <3>2. IndTypes'
      BY <1>1, <1>4, <2>1, <3>1 DEF IndTypes
    <3>3. ~torn => served = p /\ last = p /\ wanted.wire \in Ind!Transient
      <4> SUFFICES ASSUME ~torn PROVE served = p /\ last = p /\ wanted.wire \in Ind!Transient
        OBVIOUS
      <4>1. last.state # Ind!None
        BY <2>4, PairFacts
      <4>2. served = p /\ last = p
        BY <2>3, <4>1
      <4> QED BY <1>5, <2>4, <4>2
    <3>4. ~torn => OnTheBus'
      BY <1>1, <1>3, <2>1, <3>1, <3>3 DEF OnTheBus
    <3>5. Ind!Published'
      BY <3>1, AsleepFacts DEF Ind!Published, Ind!Settled
    <3> QED BY <1>1, <1>3, <3>2, <3>4, <3>5 DEF IndInv, Ind!NoToastLeft
  <2>5. CASE hide' = Ind!Asleep
    <3>1. /\ hide' \in Hides
          /\ hide'.at = Ind!None
      BY <2>5, AsleepFacts
    <3>2. IndTypes'
      BY <1>1, <1>4, <2>1, <3>1 DEF IndTypes
    <3>3. ~torn => OnTheBus'
      BY <1>1, <1>3, <2>1, <3>1, AsleepFacts DEF OnTheBus
    <3>4. Ind!Published'
      <4> SUFFICES ASSUME ~torn PROVE Ind!Published'
        BY <1>1 DEF Ind!Published
      <4> QED BY <1>1, <2>1, <2>3 DEF Ind!Published, i
    <3> QED BY <1>1, <1>3, <3>2, <3>3, <3>4 DEF IndInv, Ind!NoToastLeft
  <2> QED BY <1>2, <1>6, <2>4, <2>5
<1>7. CASE hide.at = "label"
  <2>1. /\ hide' = [hide EXCEPT !.at = "state"]
        /\ served' = [served EXCEPT !.label = ""] /\ last' = last
    BY <1>2, <1>7
  <2>2. /\ hide' \in Hides
        /\ hide'.at = "state"
        /\ served' \in Pairs /\ served'.label = ""
    BY <1>4, <2>1 DEF IndTypes, Hides, Pairs
  <2>3. IndTypes'
    BY <1>1, <1>4, <2>1, <2>2 DEF IndTypes
  <2>4. ~torn => OnTheBus'
    <3>1. ~torn => last = p /\ wanted.wire \in Ind!Transient
      BY <1>7 DEF IndInv, OnTheBus
    <3> QED BY <1>1, <1>3, <2>1, <2>2, <3>1 DEF OnTheBus
  <2>5. Ind!Published'
    BY <2>2, AsleepFacts DEF Ind!Published, Ind!Settled
  <2> QED BY <1>1, <1>3, <2>3, <2>4, <2>5 DEF IndInv, Ind!NoToastLeft
<1>8. CASE hide.at = "state"
  <2>1. /\ hide' = [hide EXCEPT !.at = "last"]
        /\ served' = [served EXCEPT !.state = "idle"] /\ last' = last
    BY <1>2, <1>8
  <2>2. /\ hide' \in Hides
        /\ hide'.at = "last"
        /\ served' \in Pairs
        /\ served'.label = served.label /\ served'.state = "idle"
    BY <1>4, <1>5, <2>1 DEF IndTypes, Hides, Pairs
  <2>3. IndTypes'
    BY <1>1, <1>4, <2>1, <2>2 DEF IndTypes
  <2>4. ~torn => OnTheBus'
    <3>1. ~torn => last = p /\ wanted.wire \in Ind!Transient /\ served.label = ""
      BY <1>8 DEF IndInv, OnTheBus
    <3>2. served.label = "" => served' = i
      BY <1>5, <2>2, SamePair
    <3> QED BY <1>1, <1>3, <2>1, <2>2, <3>1, <3>2 DEF OnTheBus, i
  <2>5. Ind!Published'
    BY <2>2, AsleepFacts DEF Ind!Published, Ind!Settled
  <2> QED BY <1>1, <1>3, <2>3, <2>4, <2>5 DEF IndInv, Ind!NoToastLeft
<1>9. CASE hide.at = "last"
  <2>1. hide' = Ind!Asleep /\ last' = i /\ served' = served
    BY <1>2, <1>9
  <2>2. /\ hide' \in Hides
        /\ hide'.at = Ind!None
    BY <2>1, AsleepFacts
  <2>3. IndTypes'
    BY <1>1, <1>4, <1>5, <2>1, <2>2 DEF IndTypes
  <2>4. ~torn => OnTheBus'
    BY <1>1, <1>3, <2>2, AsleepFacts DEF OnTheBus
  <2>5. Ind!Published'
    <3> SUFFICES ASSUME ~torn PROVE Ind!Published'
      BY <1>1 DEF Ind!Published
    <3>1. served = i /\ wanted.wire \in Ind!Transient
      BY <1>9 DEF IndInv, OnTheBus, i
    <3> QED BY <1>1, <1>5, <2>1, <3>1 DEF Ind!Published, i
  <2> QED BY <1>1, <1>3, <2>3, <2>4, <2>5 DEF IndInv, Ind!NoToastLeft
<1> QED BY <1>2, <1>6, <1>7, <1>8, <1>9

\* An aborted one does, or ends: what it leaves is of a state set in its middle.
LEMMA StrayMoves ==
  ASSUME IndInv, Ind!StrayHide \/ Ind!StrayEnds PROVE IndInv'
<1> DEFINE i == Ind!Pair("idle")
<1>1. /\ UNCHANGED <<wanted, hide, toast, torn>> /\ stray.at # Ind!None
      /\ \/ stray' = Ind!Asleep
         \/ stray' = [stray EXCEPT !.at = "state"]
         \/ stray' = [stray EXCEPT !.at = "last"]
      /\ \/ served' = served
         \/ served' = [served EXCEPT !.label = ""]
         \/ served' = [served EXCEPT !.state = "idle"]
      /\ last' \in {last, i}
  BY AsleepFacts
     DEF Ind!StrayHide, Ind!StrayEnds, Ind!HideLabel, Ind!HideState, Ind!HideLast, Ind!After
<1>2. torn /\ IndTypes
  BY <1>1 DEF IndInv
<1>3. stray' \in Strays
  BY <1>1, <1>2, AsleepFacts DEF IndTypes, Strays, Hides
<1>4. served' \in Pairs
  <2>1. served \in Pairs /\ "idle" \in Wires
    BY <1>2, PairFacts DEF IndTypes
  <2>2. CASE served' = served
    BY <2>1, <2>2
  <2>3. CASE served' = [served EXCEPT !.label = ""]
    BY <2>1, <2>3 DEF Pairs
  <2>4. CASE served' = [served EXCEPT !.state = "idle"]
    BY <2>1, <2>4 DEF Pairs
  <2> QED BY <1>1, <2>2, <2>3, <2>4
<1>5. last' \in LastPairs
  BY <1>1, <1>2, PairFacts DEF IndTypes, LastPairs
<1>6. IndTypes'
  BY <1>1, <1>2, <1>3, <1>4, <1>5 DEF IndTypes
<1>7. Ind!Published'
  BY <1>1, <1>2 DEF Ind!Published
<1> QED BY <1>1, <1>2, <1>6, <1>7 DEF IndInv, Ind!NoToastLeft

\* Every step of the indicator keeps it sound.
LEMMA IndKeeps ==
  ASSUME IndInv, Ind!IndicatorNext PROVE IndInv'
<1>1. CASE \E s \in Ind!States, ready \in BOOLEAN : Ind!set_state(s, ready)
  BY <1>1, StateSet
<1>2. CASE Ind!PublishLabel \/ Ind!PublishState
  BY <1>2, StatePublished
<1>3. CASE \E c \in BOOLEAN : Ind!set_toast(c)
  BY <1>3, ToastSet
<1>4. CASE Ind!ToastHeld \/ Ind!ToastClosed \/ Ind!UserCloses
  BY <1>4, ToastMoves
<1>5. CASE Ind!AutoHide
  BY <1>5, AutoHides
<1>6. CASE Ind!StrayHide \/ Ind!StrayEnds
  BY <1>6, StrayMoves
<1> QED BY <1>1, <1>2, <1>3, <1>4, <1>5, <1>6 DEF Ind!IndicatorNext

\* What is promised follows.
LEMMA IndServes ==
  IndInv => Ind!TypeOK /\ Ind!Published /\ Ind!NoToastLeft
<1> SUFFICES ASSUME IndInv PROVE Ind!TypeOK
  BY DEF IndInv
<1>1. IndTypes
  BY DEF IndInv
<1> QED BY <1>1 DEF IndTypes, Ind!TypeOK, Wanteds, LastPairs, Pairs, Hides, Strays, Toasts


-----------------------------------------------------------------------------
(***************************************************************************)
(* The hotkey's trigger.                                                   *)
(***************************************************************************)

\* The pokes of u that begin a press, as far as u shows: no repeats, and not the first
\* repeat of a held key, which another follows closely.
Presses(u) == {i \in DOMAIN u : u[i] # "repeat" /\ (i < Len(u) => u[i + 1] # "repeat")}

\* The candidate looks like a press.
Stands == candidate /\ (Tri!Waiting # <<>> => Tri!Waiting[1] # "repeat")

\* The newest poke, as long as it is not decided.
Tip ==
  IF Tri!Waiting # <<>> THEN Tri!Waiting[Len(Tri!Waiting)]
  ELSE IF candidate THEN "near" ELSE "none"

\* The key's side: in its repeats, and what they left.
KeyHeld ==
  /\ repeats = 1 => down /\ Tip = "near"
  /\ down /\ repeats > 0 => since = "repeat"
  /\ down /\ repeats > 1 => Tip = "repeat" \/ (Tip = "none" /\ streaming)

\* The filter's side: what it takes for a repeat is one.
Filtered ==
  /\ ~candidate /\ Tri!Waiting # <<>> /\ Tri!Waiting[1] = "repeat" => streaming
  /\ \A i \in 1..Len(Tri!Waiting) - 1 : Tri!Waiting[i + 1] = "repeat" => Tri!Waiting[i] # "far"

\* Each press has had its edge, or is still to have it; the first repeat of a key looks
\* like a press until the second comes.
Accounted ==
  edges + Cardinality(Presses(Tri!Waiting)) + (IF Stands THEN 1 ELSE 0)
    = presses + (IF repeats = 1 THEN 1 ELSE 0)

\* What the trigger keeps: until a poke is dropped every press is accounted for.
TriInv == Tri!TypeOK /\ (~dropped => ~missed /\ KeyHeld /\ Filtered /\ Accounted)

\* The presses in view are finitely many.
LEMMA PressesCount ==
  ASSUME NEW u \in Seq(Tri!Gaps)
  PROVE  IsFiniteSet(Presses(u)) /\ Cardinality(Presses(u)) \in Nat /\ DOMAIN u = 1..Len(u)
<1>1. DOMAIN u = 1..Len(u) /\ Len(u) \in Nat /\ Presses(u) \subseteq 1..Len(u)
  BY LenProperties DEF Presses
<1>2. IsFiniteSet(1..Len(u))
  BY <1>1, FS_Interval
<1> QED BY <1>1, <1>2, FS_Subset, FS_CardinalityType

\* A poke that is no repeat may begin a press; one that is tells that the poke before it
\* does not.
LEMMA PressesGrow ==
  ASSUME NEW u \in Seq(Tri!Gaps), NEW e \in Tri!Gaps
  PROVE  Cardinality(Presses(Append(u, e))) =
           IF e # "repeat" THEN Cardinality(Presses(u)) + 1
           ELSE IF u # <<>> /\ u[Len(u)] # "repeat" THEN Cardinality(Presses(u)) - 1
           ELSE Cardinality(Presses(u))
<1> DEFINE v == Append(u, e)
           n == Len(u)
<1>1. /\ v \in Seq(Tri!Gaps) /\ Len(v) = n + 1 /\ DOMAIN u = 1..n /\ n \in Nat
      /\ DOMAIN v = 1..(n + 1) /\ (\A i \in 1..n : v[i] = u[i]) /\ v[n + 1] = e
  BY Added
<1>2. u = <<>> <=> n = 0
  BY EmptySeq
<1>3. n + 1 \notin Presses(u) /\ (n \in Presses(u) <=> u # <<>> /\ u[n] # "repeat")
  BY <1>1, <1>2 DEF Presses
<1>4. IsFiniteSet(Presses(u)) /\ Cardinality(Presses(u)) \in Nat
  BY PressesCount
<1>5. CASE e # "repeat"
  <2>1. Presses(v) = Presses(u) \cup {n + 1}
    <3>1. ASSUME NEW i \in 1..(n + 1) PROVE i \in Presses(v) <=> i \in Presses(u) \cup {n + 1}
      <4> HIDE DEF v, n
      <4>1. CASE i = n + 1
        BY <1>1, <1>5, <4>1 DEF Presses
      <4>2. CASE i = n
        BY <1>1, <1>5, <4>2 DEF Presses
      <4>3. CASE i \in 1..(n - 1)
        BY <1>1, <4>3 DEF Presses
      <4> QED BY <1>1, <4>1, <4>2, <4>3
    <3>2. Presses(v) \subseteq 1..(n + 1) /\ Presses(u) \subseteq 1..(n + 1)
      BY <1>1 DEF Presses
    <3> QED BY <1>1, <3>1, <3>2
  <2>2. Cardinality(Presses(v)) = Cardinality(Presses(u)) + 1
    <3> HIDE DEF v, n
    <3>1. Cardinality(Presses(u) \cup {n + 1}) = Cardinality(Presses(u)) + 1
      BY <1>3, <1>4, FS_AddElement
    <3> QED BY <2>1, <3>1
  <2> QED BY <1>5, <2>2
<1>6. CASE e = "repeat"
  <2>1. Presses(v) = Presses(u) \ {n}
    <3>1. ASSUME NEW i \in 1..(n + 1) PROVE i \in Presses(v) <=> i \in Presses(u) \ {n}
      <4> HIDE DEF v, n
      <4>1. CASE i = n + 1
        BY <1>1, <1>6, <4>1 DEF Presses
      <4>2. CASE i = n
        BY <1>1, <1>6, <4>2 DEF Presses
      <4>3. CASE i \in 1..(n - 1)
        BY <1>1, <4>3 DEF Presses
      <4> QED BY <1>1, <4>1, <4>2, <4>3
    <3>2. Presses(v) \subseteq 1..(n + 1) /\ Presses(u) \subseteq 1..(n + 1)
      BY <1>1 DEF Presses
    <3> QED BY <1>1, <3>1, <3>2
  <2> HIDE DEF v
  <2> QED BY <1>3, <1>4, <1>6, <2>1, FS_RemoveElement DEF v
<1> QED BY <1>5, <1>6

\* The oldest poke is decided: those behind it begin the presses they did.
LEMMA PressesLeave ==
  ASSUME NEW u \in Seq(Tri!Gaps), u # <<>>
  PROVE  Cardinality(Presses(u)) = Cardinality(Presses(Tail(u)))
           + (IF u[1] # "repeat" /\ (Tail(u) # <<>> => Tail(u)[1] # "repeat") THEN 1 ELSE 0)
<1> DEFINE v == Tail(u)
           n == Len(u)
           A == Presses(v)
           C == Presses(u) \ {1}
           f == [i \in A |-> i + 1]
<1>1. /\ v \in Seq(Tri!Gaps) /\ Len(v) = n - 1 /\ DOMAIN u = 1..n /\ n \in Nat \ {0}
      /\ DOMAIN v = 1..(n - 1) /\ (\A i \in 1..(n - 1) : v[i] = u[i + 1])
  BY Taken
<1>2. v = <<>> <=> n = 1
  <2> HIDE DEF v, n
  <2>1. v = <<>> <=> Len(v) = 0
    BY <1>1, EmptySeq
  <2> QED BY <1>1, <2>1
<1>3. /\ IsFiniteSet(A) /\ Cardinality(A) \in Nat
      /\ IsFiniteSet(Presses(u)) /\ Cardinality(Presses(u)) \in Nat
  BY <1>1, PressesCount
<1>4. 1 \in Presses(u) <=> u[1] # "repeat" /\ (v # <<>> => v[1] # "repeat")
  <2> HIDE DEF v, n
  <2> QED BY <1>1, <1>2 DEF Presses
<1>5. ASSUME NEW i \in 1..(n - 1) PROVE i \in A <=> i + 1 \in C
  <2> HIDE DEF v, n
  <2>1. i \in A <=> v[i] # "repeat" /\ (i < n - 1 => v[i + 1] # "repeat")
    BY <1>1 DEF Presses
  <2>2. i + 1 \in C <=> u[i + 1] # "repeat" /\ (i + 1 < n => u[(i + 1) + 1] # "repeat")
    BY <1>1 DEF Presses
  <2>3. i < n - 1 => v[i + 1] = u[(i + 1) + 1]
    BY <1>1
  <2> QED BY <1>1, <2>1, <2>2, <2>3
<1>6. A \subseteq 1..(n - 1) /\ C \subseteq 2..n
  BY <1>1 DEF Presses
<1> HIDE DEF v, A, C
<1>7. f \in [A -> C]
  BY <1>1, <1>5, <1>6
<1>8. IsInjective(f)
  BY <1>1, <1>6 DEF IsInjective
<1>9. ASSUME NEW j \in C PROVE \E i \in A : f[i] = j
  <2>1. j - 1 \in 1..(n - 1) /\ (j - 1) + 1 = j
    BY <1>1, <1>6
  <2>2. j - 1 \in A
    BY <1>5, <2>1
  <2> QED BY <2>1, <2>2
<1>10. ExistsBijection(A, C)
  <2> HIDE DEF f
  <2> QED BY <1>7, <1>8, <1>9 DEF ExistsBijection, Bijection, Injection, Surjection
<1>11. Cardinality(C) = Cardinality(A)
  BY <1>3, <1>10, FS_Bijection
<1>12. Cardinality(C) = IF 1 \in Presses(u) THEN Cardinality(Presses(u)) - 1 ELSE Cardinality(Presses(u))
  BY <1>3, FS_RemoveElement DEF C
<1> QED BY <1>3, <1>4, <1>11, <1>12 DEF v, A

\* What of this part is always of its type.
LEMMA TriFacts ==
  ASSUME Tri!TypeOK
  PROVE  /\ rx \in Seq(Tri!Gaps) /\ later \in Seq(Tri!Gaps) /\ Tri!Waiting \in Seq(Tri!Gaps)
         /\ Len(rx) \in Nat /\ (later = <<>> \/ Len(later) = 1) /\ since \in Tri!Gaps
         /\ edges \in Nat /\ presses \in Nat /\ repeats \in Nat
         /\ candidate \in BOOLEAN /\ streaming \in BOOLEAN /\ down \in BOOLEAN
<1>1. /\ rx \in Seq(Tri!Gaps) /\ later \in Seq(Tri!Gaps) /\ Len(later) <= 1
      /\ since \in Tri!Gaps /\ edges \in Nat /\ presses \in Nat /\ repeats \in Nat
  <2>1. MaxPresses \in Nat /\ MaxRepeats \in Nat
    BY PartsAssumption
  <2>2. edges \in Nat /\ presses \in 0..MaxPresses /\ repeats \in 0..MaxRepeats
    BY DEF Tri!TypeOK
  <2>3. /\ rx \in Seq(Tri!Gaps) /\ later \in Seq(Tri!Gaps) /\ Len(later) <= 1
        /\ since \in Tri!Gaps
    BY DEF Tri!TypeOK, Tri!TriggerTypeOK
  <2> QED BY <2>1, <2>2, <2>3
<1>0. candidate \in BOOLEAN /\ streaming \in BOOLEAN /\ down \in BOOLEAN
  BY DEF Tri!TypeOK, Tri!TriggerTypeOK
<1>2. Tri!Waiting \in Seq(Tri!Gaps)
  BY <1>1, ConcatProperties DEF Tri!Waiting
<1>3. Len(rx) \in Nat /\ Len(later) \in Nat
  BY <1>1, LenProperties
<1>4. later = <<>> \/ Len(later) = 1
  <2>1. later # <<>> => Len(later) # 0
    BY <1>1, EmptySeq
  <2>2. \A n \in Nat : n <= 1 => n = 0 \/ n = 1
    OBVIOUS
  <2>3. Len(later) = 0 \/ Len(later) = 1
    BY <1>1, <1>3, <2>2
  <2> QED BY <2>1, <2>3
<1> QED BY <1>0, <1>1, <1>2, <1>3, <1>4

\* A poke joins the ones that wait.
LEMMA WaitingGrows ==
  ASSUME Tri!TypeOK, rx' = Append(rx, since), later' = later
  PROVE  Tri!Waiting' = Append(Tri!Waiting, since)
<1>1. rx \in Seq(Tri!Gaps) /\ later \in Seq(Tri!Gaps) /\ since \in Tri!Gaps
  BY TriFacts
<1> QED BY <1>1, AppendsBehind DEF Tri!Waiting

\* The oldest poke, read ahead or not, is taken.
LEMMA WaitingLeaves ==
  ASSUME Tri!TypeOK, Tri!TakeArrival
  PROVE  Tri!Waiting # <<>> /\ Tri!Waiting' = Tail(Tri!Waiting)
<1> DEFINE u == later \o rx
<1>1. /\ u # <<>> /\ u = Tri!Waiting /\ later' = <<>>
      /\ rx' = (IF later = <<>> THEN Tail(rx) ELSE rx)
  BY DEF Tri!TakeArrival, Tri!Waiting
<1>2. /\ rx \in Seq(Tri!Gaps) /\ later \in Seq(Tri!Gaps) /\ u \in Seq(Tri!Gaps)
      /\ (later = <<>> \/ Len(later) = 1)
  BY <1>1, TriFacts
<1>3. CASE later = <<>>
  <2>1. u = rx
    BY <1>2, <1>3, ConcatEmptySeq
  <2>2. Tail(rx) \in Seq(Tri!Gaps)
    BY <1>1, <1>2, <2>1, Taken
  <2>3. Tri!Waiting' = Tail(rx)
    BY <1>1, <1>3, <2>2, ConcatEmptySeq DEF Tri!Waiting
  <2> QED BY <1>1, <2>1, <2>3
<1>4. CASE Len(later) = 1
  <2>1. later # <<>>
    BY <1>4, EmptyLen
  <2>2. Tri!Waiting' = rx
    BY <1>1, <1>2, <2>1, ConcatEmptySeq DEF Tri!Waiting
  <2>3. /\ Len(u) = 1 + Len(rx) /\ Len(rx) \in Nat
        /\ \A i \in 1..(1 + Len(rx)) : u[i] = IF i <= 1 THEN later[i] ELSE rx[i - 1]
    <3>1. Len(rx) \in Nat
      BY <1>2, LenProperties
    <3>2. /\ Len(later \o rx) = Len(later) + Len(rx)
          /\ \A i \in 1..(Len(later) + Len(rx)) :
               (later \o rx)[i] = IF i <= Len(later) THEN later[i] ELSE rx[i - Len(later)]
      BY <1>2, ConcatProperties
    <3> HIDE DEF u
    <3>3. u = later \o rx
      BY DEF u
    <3> QED BY <1>4, <3>1, <3>2, <3>3
  <2>4. /\ Tail(u) \in Seq(Tri!Gaps) /\ Len(Tail(u)) = Len(u) - 1
        /\ \A i \in 1..(Len(u) - 1) : Tail(u)[i] = u[i + 1]
    BY <1>1, <1>2, Taken
  <2> HIDE DEF u
  <2>5. Len(Tail(u)) = Len(rx) /\ \A i \in 1..Len(Tail(u)) : Tail(u)[i] = rx[i]
    BY <2>3, <2>4
  <2>6. Tail(u) = rx
    BY <1>2, <2>4, <2>5, SeqEqual
  <2> QED BY <1>1, <2>2, <2>6
<1> QED BY <1>2, <1>3, <1>4

\* The oldest poke is read ahead, and waits on.
LEMMA WaitingStays ==
  ASSUME Tri!TypeOK, Tri!Waiting # <<>>, later' = <<Head(Tri!Waiting)>>,
         rx' = IF later = <<>> THEN Tail(rx) ELSE rx
  PROVE  Tri!Waiting' = Tri!Waiting
<1>1. /\ rx \in Seq(Tri!Gaps) /\ later \in Seq(Tri!Gaps) /\ (later = <<>> \/ Len(later) = 1)
      /\ Tri!Waiting = later \o rx /\ Tri!Waiting' = later' \o rx'
  BY TriFacts DEF Tri!Waiting
<1>2. CASE later = <<>>
  <2>1. Tri!Waiting = rx
    BY <1>1, <1>2, ConcatEmptySeq
  <2>2. <<Head(rx)>> \o Tail(rx) = rx
    BY <1>1, <2>1, Moves
  <2> QED BY <1>1, <1>2, <2>1, <2>2
<1>3. CASE Len(later) = 1
  <2>1. later # <<>>
    BY <1>3, EmptyLen
  <2>2. Head(Tri!Waiting) = Tri!Waiting[1]
    BY <1>1, Taken, TriFacts
  <2>3. (later \o rx)[1] = later[1]
    <3>1. Len(rx) \in Nat
      BY <1>1, LenProperties
    <3> QED BY <1>1, <1>3, <3>1, ConcatProperties
  <2>4. later = <<later[1]>>
    BY <1>1, <1>3
  <2>5. later' = later
    BY <1>1, <2>2, <2>3, <2>4
  <2> QED BY <1>1, <2>1, <2>5
<1> QED BY <1>1, <1>2, <1>3

\* What of the pokes is right: each press is accounted for.
TriSound == ~missed /\ KeyHeld /\ Filtered /\ Accounted

\* A poke that is not dropped joins the queue.
LEMMA PokeJoins ==
  ASSUME Tri!TypeOK, Tri!poke
  PROVE  /\ Tri!TriggerTypeOK' /\ since' = "repeat"
         /\ UNCHANGED <<pressed, candidate, later, streaming>>
         /\ ~missed' => Tri!Waiting' = Append(Tri!Waiting, since)
<1>1. /\ rx' = (IF Len(rx) < Backlog THEN Append(rx, since) ELSE rx)
      /\ missed' = (Len(rx) >= Backlog) /\ since' = "repeat"
      /\ UNCHANGED <<pressed, candidate, later, streaming>>
  BY DEF Tri!poke
<1>2. /\ rx \in Seq(Tri!Gaps) /\ Len(rx) \in Nat /\ Len(rx) <= Backlog /\ Backlog \in Nat
      /\ Append(rx, since) \in Seq(Tri!Gaps) /\ Len(Append(rx, since)) = Len(rx) + 1
  <2>1. rx \in Seq(Tri!Gaps) /\ Len(rx) \in Nat /\ since \in Tri!Gaps
    BY TriFacts
  <2>2. Len(rx) <= Backlog /\ Backlog \in Nat
    BY PartsAssumption DEF Tri!TypeOK, Tri!TriggerTypeOK
  <2> QED BY <2>1, <2>2, Added
<1>3. rx' \in Seq(Tri!Gaps) /\ Len(rx') <= Backlog
  <2>1. CASE Len(rx) < Backlog
    BY <1>1, <1>2, <2>1
  <2>2. CASE ~(Len(rx) < Backlog)
    BY <1>1, <1>2, <2>2
  <2> QED BY <2>1, <2>2
<1>4. Tri!TriggerTypeOK'
  BY <1>1, <1>3 DEF Tri!TypeOK, Tri!TriggerTypeOK, Tri!Gaps
<1>5. ~missed' => Tri!Waiting' = Append(Tri!Waiting, since)
  <2>1. ~missed' => Len(rx) < Backlog
    <3>1. CASE Len(rx) < Backlog
      BY <3>1
    <3>2. CASE Len(rx) >= Backlog
      BY <1>1, <3>2
    <3> QED BY <1>2, <3>1, <3>2
  <2>2. ~missed' => rx' = Append(rx, since)
    BY <1>1, <2>1
  <2> QED BY <1>1, <2>2, WaitingGrows
<1> QED BY <1>1, <1>4, <1>5

\* What joins is behind what waits.
LEMMA Joined ==
  ASSUME Tri!TypeOK, Tri!Waiting' = Append(Tri!Waiting, since)
  PROVE  LET n == Len(Tri!Waiting) IN
         /\ n \in Nat /\ (Tri!Waiting = <<>> <=> n = 0) /\ Tri!Waiting' # <<>>
         /\ Len(Tri!Waiting') = n + 1 /\ Tri!Waiting'[n + 1] = since
         /\ \A i \in 1..n : Tri!Waiting'[i] = Tri!Waiting[i]
         /\ n = 0 => Tri!Waiting'[1] = since
         /\ n # 0 => Tri!Waiting'[1] = Tri!Waiting[1] /\ n \in 1..n
<1>1. Tri!Waiting \in Seq(Tri!Gaps) /\ since \in Tri!Gaps
  BY TriFacts
<1>2. /\ Len(Tri!Waiting') = Len(Tri!Waiting) + 1 /\ Len(Tri!Waiting) \in Nat
      /\ \A i \in 1..Len(Tri!Waiting) : Tri!Waiting'[i] = Tri!Waiting[i]
      /\ Tri!Waiting'[Len(Tri!Waiting) + 1] = since
  BY <1>1, Added
<1>3. Tri!Waiting = <<>> <=> Len(Tri!Waiting) = 0
  BY <1>1, EmptySeq
<1>4. Tri!Waiting' # <<>>
  BY <1>2, EmptyLen
<1> QED BY <1>2, <1>3, <1>4

\* The key is pressed, or repeats for the first time.
LEMMA LooksLikePress ==
  ASSUME TriInv, TriSound, ~missed', since # "repeat", repeats # 1, Tri!poke,
         \/ presses' = presses + 1 /\ repeats' = 0
         \/ presses' = presses /\ repeats' = 1 /\ since = "near",
         down' = TRUE, UNCHANGED edges
  PROVE  TriSound'
<1> DEFINE n == Len(Tri!Waiting)
<1>1. /\ Tri!Waiting' = Append(Tri!Waiting, since) /\ since' = "repeat"
      /\ UNCHANGED <<candidate, streaming>> /\ Tri!TypeOK
  BY PokeJoins DEF TriInv
<1>2. /\ n \in Nat /\ (Tri!Waiting = <<>> <=> n = 0) /\ Tri!Waiting' # <<>>
      /\ Len(Tri!Waiting') = n + 1 /\ Tri!Waiting'[n + 1] = since
      /\ \A i \in 1..n : Tri!Waiting'[i] = Tri!Waiting[i]
      /\ n = 0 => Tri!Waiting'[1] = since
      /\ n # 0 => Tri!Waiting'[1] = Tri!Waiting[1] /\ n \in 1..n
  BY <1>1, Joined
<1>3. Cardinality(Presses(Tri!Waiting')) = Cardinality(Presses(Tri!Waiting)) + 1
      /\ Cardinality(Presses(Tri!Waiting)) \in Nat
  BY <1>1, TriFacts, PressesGrow, PressesCount
<1>4. KeyHeld'
  BY <1>1, <1>2 DEF KeyHeld, Tip
<1>5. Filtered'
  <2> SUFFICES ASSUME NEW i \in 1..n, Tri!Waiting'[i + 1] = "repeat" PROVE Tri!Waiting'[i] # "far"
    BY <1>1, <1>2 DEF Filtered, TriSound
  <2>1. i # n
    BY <1>2
  <2>2. i \in 1..n - 1 /\ i + 1 \in 1..n
    BY <1>2, <2>1
  <2> QED BY <1>2, <2>2 DEF Filtered, TriSound
<1>6. Stands' <=> Stands
  BY <1>1, <1>2 DEF Stands
<1>7. Accounted'
  <2>1. edges \in Nat /\ presses \in Nat /\ repeats' \in {0, 1}
    BY <1>1, TriFacts
  <2>2. edges + Cardinality(Presses(Tri!Waiting)) + (IF Stands THEN 1 ELSE 0) = presses
    BY <2>1 DEF TriSound, Accounted
  <2> QED BY <1>3, <1>6, <2>1, <2>2 DEF Accounted
<1> QED BY <1>4, <1>5, <1>7 DEF TriSound

\* It repeats on: the poke before was a repeat of it too.
LEMMA Repeats ==
  ASSUME TriInv, TriSound, ~missed', since = "repeat", repeats > 0, down, Tri!poke,
         repeats' = repeats + 1, UNCHANGED <<down, presses, edges>>
  PROVE  TriSound'
<1> DEFINE n == Len(Tri!Waiting)
           c == Cardinality(Presses(Tri!Waiting))
<1>1. /\ Tri!Waiting' = Append(Tri!Waiting, since) /\ since' = "repeat"
      /\ UNCHANGED <<candidate, streaming>> /\ Tri!TypeOK /\ repeats \in Nat
  BY PokeJoins, TriFacts DEF TriInv
<1>2. /\ n \in Nat /\ (Tri!Waiting = <<>> <=> n = 0) /\ Tri!Waiting' # <<>>
      /\ Len(Tri!Waiting') = n + 1 /\ Tri!Waiting'[n + 1] = since
      /\ \A i \in 1..n : Tri!Waiting'[i] = Tri!Waiting[i]
      /\ n = 0 => Tri!Waiting'[1] = since
      /\ n # 0 => Tri!Waiting'[1] = Tri!Waiting[1] /\ n \in 1..n
  BY <1>1, Joined
<1>3. /\ Cardinality(Presses(Tri!Waiting')) =
           IF Tri!Waiting # <<>> /\ Tri!Waiting[n] # "repeat" THEN c - 1 ELSE c
      /\ c \in Nat
  BY <1>1, TriFacts, PressesGrow, PressesCount
<1> HIDE DEF c
<1>4. KeyHeld'
  BY <1>1, <1>2 DEF KeyHeld, Tip
<1>5. \/ repeats = 1 /\ Tip = "near"
      \/ repeats > 1 /\ (Tip = "repeat" \/ (Tip = "none" /\ streaming))
  BY <1>1 DEF TriSound, KeyHeld
<1>6. Filtered'
  <2>1. ASSUME NEW i \in 1..n, Tri!Waiting'[i + 1] = "repeat" PROVE Tri!Waiting'[i] # "far"
    <3>1. CASE i = n
      BY <1>2, <1>5, <3>1 DEF Tip
    <3>2. CASE i # n
      <4>1. i \in 1..n - 1 /\ i + 1 \in 1..n
        BY <1>2, <3>2
      <4> QED BY <1>2, <2>1, <4>1 DEF Filtered, TriSound
    <3> QED BY <3>1, <3>2
  <2>2. ~candidate /\ Tri!Waiting'[1] = "repeat" => streaming
    <3>1. n = 0 => candidate \/ streaming
      BY <1>2, <1>5 DEF Tip
    <3> QED BY <1>2, <3>1 DEF Filtered, TriSound
  <2> QED BY <1>1, <1>2, <2>1, <2>2 DEF Filtered
<1>7. Accounted'
  <2>1. /\ edges \in Nat /\ presses \in Nat /\ repeats' # 1
        /\ edges + c + (IF Stands THEN 1 ELSE 0) = presses + (IF repeats = 1 THEN 1 ELSE 0)
    BY <1>1, TriFacts DEF TriSound, Accounted, c
  <2>2. CASE n = 0
    <3>1. Stands <=> candidate
      BY <1>2, <2>2 DEF Stands
    <3>2. ~Stands'
      BY <1>1, <1>2, <2>2 DEF Stands
    <3>3. candidate <=> repeats = 1
      BY <1>2, <1>5, <2>2 DEF Tip
    <3>4. Cardinality(Presses(Tri!Waiting')) = c
      BY <1>2, <1>3, <2>2
    <3> QED BY <1>1, <1>3, <2>1, <3>1, <3>2, <3>3, <3>4 DEF Accounted
  <2>3. CASE n # 0
    <3>1. Stands' <=> Stands
      BY <1>1, <1>2, <2>3 DEF Stands
    <3>2. Tri!Waiting[n] = Tip
      BY <1>2, <2>3 DEF Tip
    <3>3. Cardinality(Presses(Tri!Waiting')) = IF repeats = 1 THEN c - 1 ELSE c
      <4>1. repeats = 1 <=> Tri!Waiting[n] # "repeat"
        <5>1. Tri!Waiting \in Seq(Tri!Gaps) /\ n \in 1..Len(Tri!Waiting)
          BY <1>1, <1>2, <2>3, TriFacts
        <5>2. Tri!Waiting[n] \in Tri!Gaps
          BY <5>1, ElementOfSeq
        <5> HIDE DEF n
        <5>3. Tri!Waiting[n] # "none"
          BY <5>2 DEF Tri!Gaps
        <5> QED BY <1>5, <3>2, <5>3
      <4> QED BY <1>2, <1>3, <2>3, <4>1
    <3> QED BY <1>1, <1>3, <2>1, <3>1, <3>3 DEF Accounted
  <2> QED BY <2>2, <2>3
<1> QED BY <1>4, <1>6, <1>7 DEF TriSound

\* What is left when the oldest poke is taken.
LEMMA Left ==
  ASSUME Tri!TypeOK, Tri!TakeArrival
  PROVE  LET n == Len(Tri!Waiting) IN
         /\ n \in Nat \ {0} /\ Tri!Waiting # <<>> /\ Head(Tri!Waiting) = Tri!Waiting[1]
         /\ Tri!Waiting[1] \in Tri!Gaps
         /\ (Tri!Waiting' = <<>> <=> n = 1) /\ Len(Tri!Waiting') = n - 1
         /\ \A i \in 1..n - 1 : Tri!Waiting'[i] = Tri!Waiting[i + 1]
         /\ Cardinality(Presses(Tri!Waiting)) = Cardinality(Presses(Tri!Waiting'))
              + (IF Tri!Waiting[1] # "repeat" /\ (Tri!Waiting' # <<>> => Tri!Waiting'[1] # "repeat")
                 THEN 1 ELSE 0)
         /\ Cardinality(Presses(Tri!Waiting')) \in Nat
<1>1. Tri!Waiting \in Seq(Tri!Gaps) /\ Tri!Waiting # <<>> /\ Tri!Waiting' = Tail(Tri!Waiting)
  BY TriFacts, WaitingLeaves
<1>2. /\ Head(Tri!Waiting) \in Tri!Gaps /\ Head(Tri!Waiting) = Tri!Waiting[1]
      /\ Tri!Waiting' \in Seq(Tri!Gaps) /\ Len(Tri!Waiting') = Len(Tri!Waiting) - 1
      /\ Len(Tri!Waiting) \in Nat \ {0}
      /\ \A i \in 1..(Len(Tri!Waiting) - 1) : Tri!Waiting'[i] = Tri!Waiting[i + 1]
  BY <1>1, Taken
<1>3. Tri!Waiting' = <<>> <=> Len(Tri!Waiting') = 0
  BY <1>2, EmptySeq
<1>4. Tri!Waiting' = <<>> <=> Len(Tri!Waiting) = 1
  BY <1>2, <1>3
<1>5. Cardinality(Presses(Tri!Waiting')) \in Nat
  BY <1>2, PressesCount
<1>6. Cardinality(Presses(Tri!Waiting)) = Cardinality(Presses(Tri!Waiting'))
        + (IF Tri!Waiting[1] # "repeat" /\ (Tri!Waiting' # <<>> => Tri!Waiting'[1] # "repeat")
           THEN 1 ELSE 0)
  BY <1>1, PressesLeave
<1> QED BY <1>1, <1>2, <1>4, <1>5, <1>6

\* A decision takes the oldest poke or leaves it, and keeps the types.
LEMMA DecisionTypes ==
  ASSUME Tri!TypeOK, Tri!EdgeRead \/ Tri!NoEdgeYet, edges' \in Nat,
         UNCHANGED <<down, repeats, presses, dropped>>
  PROVE  Tri!TypeOK' /\ UNCHANGED <<missed, since>>
<1>1. UNCHANGED <<missed, since>>
  BY DEF Tri!EdgeRead, Tri!NoEdgeYet, Tri!FreshPress, Tri!CandidateStands, Tri!CandidateTimesOut,
         Tri!SkipRepeat, Tri!Consider, Tri!CandidateRepeats, Tri!arrivalVars
<1>2. pressed' \in BOOLEAN /\ candidate' \in BOOLEAN /\ streaming' \in BOOLEAN
  BY DEF Tri!EdgeRead, Tri!NoEdgeYet, Tri!FreshPress, Tri!CandidateStands, Tri!CandidateTimesOut,
         Tri!SkipRepeat, Tri!Consider, Tri!CandidateRepeats, Tri!toggle, Tri!TypeOK, Tri!TriggerTypeOK
<1>3. \/ rx' = rx /\ later' = later
      \/ /\ Tri!Waiting # <<>> /\ later' \in {<<>>, <<Head(Tri!Waiting)>>}
         /\ rx' = IF later = <<>> THEN Tail(rx) ELSE rx
  BY DEF Tri!EdgeRead, Tri!NoEdgeYet, Tri!FreshPress, Tri!CandidateStands, Tri!CandidateTimesOut,
         Tri!SkipRepeat, Tri!Consider, Tri!CandidateRepeats, Tri!TakeArrival
<1>4. /\ rx \in Seq(Tri!Gaps) /\ later \in Seq(Tri!Gaps) /\ Len(rx) \in Nat /\ Len(rx) <= Backlog
      /\ Backlog \in Nat /\ Len(later) <= 1 /\ Tri!Waiting \in Seq(Tri!Gaps)
  <2>1. rx \in Seq(Tri!Gaps) /\ later \in Seq(Tri!Gaps) /\ Len(rx) \in Nat /\ Tri!Waiting \in Seq(Tri!Gaps)
    BY TriFacts
  <2>2. Len(rx) <= Backlog /\ Backlog \in Nat /\ Len(later) <= 1
    BY PartsAssumption DEF Tri!TypeOK, Tri!TriggerTypeOK
  <2> QED BY <2>1, <2>2
<1>5. /\ rx' \in Seq(Tri!Gaps) /\ Len(rx') <= Backlog
      /\ later' \in Seq(Tri!Gaps) /\ Len(later') <= 1
  <2>1. CASE rx' = rx /\ later' = later
    BY <1>4, <2>1
  <2>2. CASE /\ Tri!Waiting # <<>> /\ later' \in {<<>>, <<Head(Tri!Waiting)>>}
             /\ rx' = IF later = <<>> THEN Tail(rx) ELSE rx
    <3>1. Head(Tri!Waiting) \in Tri!Gaps
      BY <1>4, <2>2, Taken
    <3>2. later' \in Seq(Tri!Gaps) /\ Len(later') <= 1
      <4>1. CASE later' = <<>>
        BY <4>1, EmptySeq
      <4>2. CASE later' = <<Head(Tri!Waiting)>>
        BY <3>1, <4>2
      <4> QED BY <2>2, <4>1, <4>2
    <3>3. rx' \in Seq(Tri!Gaps) /\ Len(rx') <= Backlog
      <4>1. CASE later = <<>>
        <5>1. rx # <<>> /\ rx' = Tail(rx)
          BY <1>4, <2>2, <4>1, ConcatEmptySeq DEF Tri!Waiting
        <5>2. Tail(rx) \in Seq(Tri!Gaps) /\ Len(Tail(rx)) = Len(rx) - 1
          BY <1>4, <5>1, Taken
        <5> QED BY <1>4, <5>1, <5>2
      <4>2. CASE later # <<>>
        BY <1>4, <2>2, <4>2
      <4> QED BY <4>1, <4>2
    <3> QED BY <3>2, <3>3
  <2> QED BY <1>3, <2>1, <2>2
<1>6. missed' \in BOOLEAN /\ since' \in Tri!Gaps
  BY <1>1 DEF Tri!TypeOK, Tri!TriggerTypeOK
<1>7. Tri!TriggerTypeOK'
  BY <1>2, <1>5, <1>6 DEF Tri!TriggerTypeOK
<1> QED BY <1>1, <1>7 DEF Tri!TypeOK

\* What is decided of the oldest poke leaves the newer ones as they were.
LEMMA OthersStay ==
  ASSUME Tri!TypeOK, Filtered, Tri!TakeArrival
  PROVE  /\ Tri!Waiting # <<>> /\ Head(Tri!Waiting) = Tri!Waiting[1] /\ Tri!Waiting[1] \in Tri!Gaps
         /\ Tri!Waiting' # <<>> => Tip' = Tip /\ Tip # "none"
         /\ Tri!Waiting' = <<>> => Tip = Tri!Waiting[1] /\ Tip' = IF candidate' THEN "near" ELSE "none"
         /\ \A i \in 1..Len(Tri!Waiting') - 1 :
              Tri!Waiting'[i + 1] = "repeat" => Tri!Waiting'[i] # "far"
         /\ Tri!Waiting' # <<>> /\ Tri!Waiting'[1] = "repeat" => Tri!Waiting[1] # "far"
<1> DEFINE n == Len(Tri!Waiting)
<1>1. /\ n \in Nat \ {0} /\ Tri!Waiting # <<>> /\ Head(Tri!Waiting) = Tri!Waiting[1]
      /\ Tri!Waiting[1] \in Tri!Gaps
      /\ (Tri!Waiting' = <<>> <=> n = 1) /\ Len(Tri!Waiting') = n - 1
      /\ \A i \in 1..n - 1 : Tri!Waiting'[i] = Tri!Waiting[i + 1]
  BY Left
<1>2. Tri!Waiting[n] \in Tri!Gaps
  BY <1>1, TriFacts, ElementOfSeq
<1>3. \A i \in 1..n - 1 : Tri!Waiting[i + 1] = "repeat" => Tri!Waiting[i] # "far"
  BY DEF Filtered
<1> HIDE DEF n
<1>4. Tip = Tri!Waiting[n]
  BY <1>1 DEF Tip, n
<1>5. Tri!Waiting' # <<>> => Tip' = Tri!Waiting[n]
  <2> SUFFICES ASSUME Tri!Waiting' # <<>> PROVE Tip' = Tri!Waiting[n]
    OBVIOUS
  <2>1. Tip' = Tri!Waiting'[n - 1]
    BY <1>1 DEF Tip
  <2>2. n - 1 \in 1..n - 1 /\ (n - 1) + 1 = n
    BY <1>1
  <2> QED BY <1>1, <2>1, <2>2
<1>6. \A i \in 1..(n - 1) - 1 : Tri!Waiting'[i + 1] = "repeat" => Tri!Waiting'[i] # "far"
  <2> SUFFICES ASSUME NEW i \in 1..(n - 1) - 1, Tri!Waiting'[i + 1] = "repeat"
               PROVE  Tri!Waiting'[i] # "far"
    OBVIOUS
  <2>1. i \in 1..n - 1 /\ i + 1 \in 1..n - 1
    BY <1>1
  <2> QED BY <1>1, <1>3, <2>1
<1>7. Tri!Waiting' # <<>> /\ Tri!Waiting'[1] = "repeat" => Tri!Waiting[1] # "far"
  <2> SUFFICES ASSUME Tri!Waiting' # <<>> PROVE Tri!Waiting'[1] = "repeat" => Tri!Waiting[1] # "far"
    OBVIOUS
  <2>1. 1 \in 1..n - 1
    BY <1>1
  <2> QED BY <1>1, <1>3, <2>1
<1>8. Tri!Waiting' = <<>> => Tip' = IF candidate' THEN "near" ELSE "none"
  BY DEF Tip
<1>9. Tri!Waiting[n] # "none"
  BY <1>2 DEF Tri!Gaps
<1> QED BY <1>1, <1>4, <1>5, <1>6, <1>7, <1>8, <1>9

\* An edge is read: its press is accounted for.
LEMMA EdgeSound ==
  ASSUME TriInv, TriSound, Tri!EdgeRead, edges' = edges + 1,
         UNCHANGED <<down, repeats, presses>>
  PROVE  TriSound'
<1> DEFINE c == Cardinality(Presses(Tri!Waiting))
<1>1. Tri!TypeOK /\ KeyHeld /\ Filtered /\ Accounted
  BY DEF TriInv, TriSound
<1>2. UNCHANGED <<missed, since>>
  BY DEF Tri!EdgeRead, Tri!FreshPress, Tri!CandidateStands, Tri!CandidateTimesOut, Tri!arrivalVars
<1>3. edges \in Nat /\ presses \in Nat /\ repeats \in Nat /\ Tri!Waiting \in Seq(Tri!Gaps)
  BY <1>1, TriFacts
<1>4. c \in Nat
  BY <1>3, PressesCount
<1>5. CASE Tri!FreshPress
  <2>1. /\ Tri!TakeArrival /\ ~candidate /\ Head(Tri!Waiting) = "far"
        /\ candidate' = candidate /\ streaming' = FALSE
    BY <1>5 DEF Tri!FreshPress
  <2>2. /\ Tri!Waiting # <<>> /\ Tri!Waiting[1] = "far"
        /\ Tri!Waiting' # <<>> => Tip' = Tip /\ Tip # "none"
        /\ Tri!Waiting' = <<>> => Tip = "far"
        /\ \A i \in 1..Len(Tri!Waiting') - 1 :
             Tri!Waiting'[i + 1] = "repeat" => Tri!Waiting'[i] # "far"
        /\ Tri!Waiting' # <<>> => Tri!Waiting'[1] # "repeat"
    BY <1>1, <2>1, OthersStay
  <2>3. /\ Cardinality(Presses(Tri!Waiting')) \in Nat
        /\ c = Cardinality(Presses(Tri!Waiting')) + 1
    BY <1>1, <2>1, <2>2, Left
  <2>4. KeyHeld'
    BY <1>1, <1>2, <2>1, <2>2 DEF KeyHeld
  <2>5. Filtered'
    BY <2>2 DEF Filtered
  <2>6. ~Stands /\ ~Stands'
    BY <2>1 DEF Stands
  <2>7. edges + c = presses + (IF repeats = 1 THEN 1 ELSE 0)
    BY <1>1, <1>3, <1>4, <2>6 DEF Accounted
  <2>8. Accounted'
    BY <1>3, <1>4, <2>3, <2>6, <2>7 DEF Accounted
  <2> QED BY <1>2, <2>4, <2>5, <2>8 DEF TriSound
<1>6. CASE Tri!CandidateStands \/ Tri!CandidateTimesOut
  <2>1. /\ candidate /\ candidate' = FALSE /\ Tri!Waiting' = Tri!Waiting
        /\ UNCHANGED streaming
        /\ \/ Tri!Waiting # <<>> /\ Tri!Waiting[1] # "repeat"
           \/ Tri!Waiting = <<>> /\ since # "repeat"
    <3>1. CASE Tri!CandidateStands
      <4>1. /\ candidate /\ Tri!Waiting # <<>> /\ Head(Tri!Waiting) # "repeat"
            /\ later' = <<Head(Tri!Waiting)>> /\ candidate' = FALSE /\ UNCHANGED streaming
            /\ rx' = IF later = <<>> THEN Tail(rx) ELSE rx
        BY <3>1 DEF Tri!CandidateStands
      <4>2. Tri!Waiting' = Tri!Waiting
        BY <1>1, <4>1, WaitingStays
      <4>3. Head(Tri!Waiting) = Tri!Waiting[1]
        BY <1>3, <4>1, Taken
      <4> QED BY <4>1, <4>2, <4>3
    <3>2. CASE Tri!CandidateTimesOut
      BY <3>2 DEF Tri!CandidateTimesOut, Tri!Waiting, TriSound
    <3> QED BY <1>6, <3>1, <3>2
  <2>2. KeyHeld'
    <3>1. CASE Tri!Waiting # <<>>
      BY <1>1, <1>2, <2>1, <3>1 DEF KeyHeld, Tip
    <3>2. CASE Tri!Waiting = <<>>
      BY <1>1, <1>2, <1>3, <2>1, <3>2 DEF KeyHeld
    <3> QED BY <3>1, <3>2
  <2>3. Filtered'
    BY <1>1, <2>1 DEF Filtered
  <2>4. Stands /\ ~Stands'
    BY <2>1 DEF Stands
  <2>5. edges + c + 1 = presses + (IF repeats = 1 THEN 1 ELSE 0)
    BY <1>1, <1>3, <1>4, <2>4 DEF Accounted
  <2>6. Accounted'
    BY <1>3, <1>4, <2>1, <2>4, <2>5 DEF Accounted
  <2> QED BY <1>2, <2>2, <2>3, <2>6 DEF TriSound
<1> QED BY <1>5, <1>6 DEF Tri!EdgeRead

\* A poke is skipped, considered, or taken back as a repeat: no press is lost.
LEMMA FilterSound ==
  ASSUME TriInv, TriSound, Tri!NoEdgeYet, UNCHANGED <<edges, down, repeats, presses>>
  PROVE  TriSound'
<1> DEFINE c == Cardinality(Presses(Tri!Waiting'))
<1>1. Tri!TypeOK /\ KeyHeld /\ Filtered /\ Accounted
  BY DEF TriInv, TriSound
<1>2. UNCHANGED <<missed, since>> /\ Tri!TakeArrival
  BY DEF Tri!NoEdgeYet, Tri!SkipRepeat, Tri!Consider, Tri!CandidateRepeats, Tri!arrivalVars
<1>3. /\ Tri!Waiting # <<>> /\ Head(Tri!Waiting) = Tri!Waiting[1] /\ Tri!Waiting[1] \in Tri!Gaps
      /\ Tri!Waiting' # <<>> => Tip' = Tip /\ Tip # "none"
      /\ Tri!Waiting' = <<>> => Tip = Tri!Waiting[1] /\ Tip' = IF candidate' THEN "near" ELSE "none"
      /\ \A i \in 1..Len(Tri!Waiting') - 1 :
           Tri!Waiting'[i + 1] = "repeat" => Tri!Waiting'[i] # "far"
  BY <1>1, <1>2, OthersStay
<1>4. edges \in Nat /\ presses \in Nat /\ repeats \in Nat
  BY <1>1, TriFacts
<1>5. /\ c \in Nat
      /\ Cardinality(Presses(Tri!Waiting)) = c +
           (IF Tri!Waiting[1] # "repeat" /\ (Tri!Waiting' # <<>> => Tri!Waiting'[1] # "repeat")
            THEN 1 ELSE 0)
  BY <1>1, <1>2, Left
<1>6. CASE Tri!SkipRepeat \/ Tri!CandidateRepeats
  <2>1. /\ Tri!Waiting[1] = "repeat" /\ candidate' = FALSE /\ streaming' = TRUE
    <3>1. CASE Tri!SkipRepeat
      BY <1>1, <1>3, <3>1, TriFacts DEF Tri!SkipRepeat
    <3>2. CASE Tri!CandidateRepeats
      BY <1>3, <3>2 DEF Tri!CandidateRepeats
    <3> QED BY <1>6, <3>1, <3>2
  <2>2. KeyHeld'
    <3>1. CASE Tri!Waiting' # <<>>
      BY <1>1, <1>2, <1>3, <2>1, <3>1 DEF KeyHeld
    <3>2. CASE Tri!Waiting' = <<>>
      BY <1>1, <1>2, <1>3, <2>1, <3>2 DEF KeyHeld
    <3> QED BY <3>1, <3>2
  <2>3. Filtered'
    BY <1>3, <2>1 DEF Filtered
  <2>4. ~Stands /\ ~Stands'
    BY <1>3, <1>6, <2>1 DEF Stands, Tri!SkipRepeat
  <2>5. edges + c = presses + (IF repeats = 1 THEN 1 ELSE 0)
    BY <1>1, <1>4, <1>5, <2>1, <2>4 DEF Accounted
  <2>6. Accounted'
    BY <1>4, <1>5, <2>4, <2>5 DEF Accounted
  <2> QED BY <1>1, <1>2, <2>2, <2>3, <2>6 DEF TriSound
<1>7. CASE Tri!Consider
  <2>1. /\ ~candidate /\ candidate' = TRUE /\ streaming' = FALSE
        /\ Head(Tri!Waiting) # "far" /\ ~(streaming /\ Head(Tri!Waiting) = "repeat")
    BY <1>7 DEF Tri!Consider
  <2>2. Tri!Waiting[1] = "near"
    BY <1>1, <1>3, <2>1 DEF Filtered, Tri!Gaps
  <2>3. Tip' = Tip /\ Tip # "none"
    BY <1>3, <2>1, <2>2
  <2>4. KeyHeld'
    BY <1>1, <1>2, <2>3 DEF KeyHeld
  <2>5. Filtered'
    BY <1>3, <2>1 DEF Filtered
  <2>6. ~Stands /\ (Stands' <=> (Tri!Waiting' # <<>> => Tri!Waiting'[1] # "repeat"))
    BY <2>1 DEF Stands
  <2>7. edges + Cardinality(Presses(Tri!Waiting)) = presses + (IF repeats = 1 THEN 1 ELSE 0)
    BY <1>1, <1>4, <1>5, <2>6 DEF Accounted
  <2>8. edges + c + (IF Stands' THEN 1 ELSE 0) = presses + (IF repeats = 1 THEN 1 ELSE 0)
    BY <1>4, <1>5, <2>2, <2>6, <2>7
  <2>9. Accounted'
    BY <2>8 DEF Accounted
  <2> QED BY <1>1, <1>2, <2>4, <2>5, <2>9 DEF TriSound
<1> QED BY <1>6, <1>7 DEF Tri!NoEdgeYet

\* The trigger starts with nothing to account for.
LEMMA TriStarts == Tri!Init => TriInv
<1> SUFFICES ASSUME Tri!Init PROVE TriInv
  OBVIOUS
<1>1. /\ rx = <<>> /\ later = <<>> /\ missed = FALSE /\ since = "far" /\ candidate = FALSE
      /\ pressed = FALSE /\ streaming = FALSE /\ down = FALSE /\ repeats = 0 /\ presses = 0
      /\ edges = 0 /\ dropped = FALSE
  BY DEF Tri!Init, Tri!TriggerInit
<1>2. Len(rx) = 0 /\ Len(later) = 0 /\ rx \in Seq(Tri!Gaps) /\ later \in Seq(Tri!Gaps)
  BY <1>1, EmptyLen
<1>3. Tri!TypeOK
  <2>1. Backlog \in Nat /\ MaxPresses \in Nat /\ MaxRepeats \in Nat
    BY PartsAssumption
  <2>2. Tri!TriggerTypeOK
    <3>1. Len(rx) <= Backlog /\ Len(later) <= 1
      BY <1>2, <2>1
    <3>2. since \in Tri!Gaps /\ {missed, pressed, candidate, streaming} \subseteq BOOLEAN
      BY <1>1 DEF Tri!Gaps
    <3> QED BY <1>2, <3>1, <3>2 DEF Tri!TriggerTypeOK
  <2>3. 0 \in 0..MaxRepeats /\ 0 \in 0..MaxPresses
    BY <2>1
  <2> QED BY <1>1, <2>2, <2>3 DEF Tri!TypeOK
<1>4. Tri!Waiting = <<>>
  BY <1>1, <1>2, ConcatEmptySeq DEF Tri!Waiting
<1>5. Presses(Tri!Waiting) = {}
  BY <1>4 DEF Presses
<1>6. Cardinality(Presses(Tri!Waiting)) = 0
  BY <1>5, FS_EmptySet
<1>7. Accounted
  BY <1>1, <1>6 DEF Accounted, Stands
<1>8. Filtered
  BY <1>2, <1>4, EmptyLen DEF Filtered
<1>9. KeyHeld
  BY <1>1 DEF KeyHeld
<1> QED BY <1>1, <1>3, <1>7, <1>8, <1>9 DEF TriInv

\* Every step of the user and of the trigger keeps the account.
LEMMA TriKeeps ==
  ASSUME TriInv, Tri!Next PROVE TriInv'
<1>1. Tri!TypeOK /\ dropped \in BOOLEAN /\ (~dropped => TriSound)
  BY DEF TriInv, Tri!TypeOK, TriSound
<1>2. /\ MaxPresses \in Nat /\ MaxRepeats \in Nat /\ repeats \in 0..MaxRepeats
      /\ presses \in 0..MaxPresses /\ edges \in Nat
  BY <1>1, PartsAssumption DEF Tri!TypeOK
<1>3. CASE Tri!PressKey \/ Tri!RepeatKey
  <2>1. Tri!poke /\ dropped' = (dropped \/ missed') /\ UNCHANGED edges
    BY <1>3 DEF Tri!PressKey, Tri!RepeatKey, Tri!Poked
  <2>2. Tri!TriggerTypeOK' /\ missed' \in BOOLEAN
    BY <1>1, <2>1, PokeJoins DEF Tri!TriggerTypeOK
  <2>3. Tri!TypeOK'
    <3>1. dropped' \in BOOLEAN
      BY <1>1, <2>1, <2>2
    <3>2. down' \in BOOLEAN /\ repeats' \in 0..MaxRepeats /\ presses' \in 0..MaxPresses
      <4>1. CASE Tri!PressKey
        BY <1>2, <4>1 DEF Tri!PressKey
      <4>2. CASE Tri!RepeatKey
        BY <1>1, <1>2, <4>2 DEF Tri!RepeatKey, Tri!TypeOK
      <4> QED BY <1>3, <4>1, <4>2
    <3> QED BY <1>2, <2>1, <2>2, <3>1, <3>2 DEF Tri!TypeOK
  <2>4. ASSUME ~dropped' PROVE TriSound'
    <3>1. TriSound /\ ~missed'
      BY <1>1, <2>1, <2>2, <2>4
    <3>2. CASE Tri!PressKey
      <4>1. /\ since # "repeat" /\ down' = TRUE /\ presses' = presses + 1 /\ repeats' = 0 /\ ~down
        BY <3>2 DEF Tri!PressKey
      <4>2. repeats # 1
        BY <3>1, <4>1 DEF TriSound, KeyHeld
      <4> QED BY <2>1, <3>1, <4>1, <4>2, LooksLikePress
    <3>3. CASE Tri!RepeatKey
      <4>1. /\ down /\ since = (IF repeats = 0 THEN "near" ELSE "repeat")
            /\ repeats' = repeats + 1 /\ UNCHANGED <<down, presses>>
        BY <3>3 DEF Tri!RepeatKey
      <4>2. CASE repeats = 0
        BY <2>1, <3>1, <4>1, <4>2, LooksLikePress
      <4>3. CASE repeats # 0
        BY <1>2, <2>1, <3>1, <4>1, <4>3, Repeats
      <4> QED BY <4>2, <4>3
    <3> QED BY <1>3, <3>2, <3>3
  <2> QED BY <2>3, <2>4 DEF TriInv, TriSound
<1>4. CASE Tri!LiftKey
  <2>1. /\ UNCHANGED <<rx, missed, since, pressed, candidate, later, streaming>>
        /\ down' = FALSE /\ UNCHANGED <<repeats, presses, edges, dropped>> /\ repeats # 1
    BY <1>4 DEF Tri!LiftKey, Tri!triggerVars, Tri!arrivalVars
  <2>2. Tri!Waiting' = Tri!Waiting
    BY <2>1 DEF Tri!Waiting
  <2>3. Tri!TypeOK'
    BY <1>1, <2>1 DEF Tri!TypeOK, Tri!TriggerTypeOK
  <2>4. ~dropped => Filtered' /\ Accounted' /\ KeyHeld'
    BY <1>1, <2>1, <2>2 DEF TriSound, Filtered, Accounted, Stands, KeyHeld
  <2> QED BY <1>1, <2>1, <2>3, <2>4 DEF TriInv, TriSound
<1>5. CASE Tri!Wait
  <2>1. /\ UNCHANGED <<rx, missed, pressed, candidate, later, streaming>>
        /\ UNCHANGED <<down, repeats, presses, edges, dropped>> /\ ~(down /\ repeats > 0)
        /\ since' \in {"near", "far"}
    BY <1>5 DEF Tri!Wait, Tri!TimePasses, Tri!keyVars
  <2>2. Tri!Waiting' = Tri!Waiting
    BY <2>1 DEF Tri!Waiting
  <2>3. Tri!TypeOK'
    BY <1>1, <2>1 DEF Tri!TypeOK, Tri!TriggerTypeOK, Tri!Gaps
  <2>4. KeyHeld => KeyHeld'
    BY <1>2, <2>1, <2>2 DEF KeyHeld, Tip
  <2>5. ~dropped => Filtered' /\ Accounted'
    BY <1>1, <2>1, <2>2 DEF TriSound, Filtered, Accounted, Stands
  <2> QED BY <1>1, <2>1, <2>3, <2>4, <2>5 DEF TriInv, TriSound
<1>6. CASE Tri!ReadEdge
  <2>1. Tri!EdgeRead /\ edges' = edges + 1 /\ UNCHANGED <<down, repeats, presses, dropped>>
    BY <1>6 DEF Tri!ReadEdge, Tri!keyVars
  <2>2. Tri!TypeOK'
    BY <1>1, <1>2, <2>1, DecisionTypes
  <2> QED BY <1>1, <2>1, <2>2, EdgeSound DEF TriInv, TriSound
<1>7. CASE Tri!Filter
  <2>1. Tri!NoEdgeYet /\ UNCHANGED <<edges, down, repeats, presses, dropped>>
    BY <1>7 DEF Tri!Filter, Tri!keyVars
  <2>2. Tri!TypeOK'
    BY <1>1, <1>2, <2>1, DecisionTypes
  <2> QED BY <1>1, <2>1, <2>2, FilterSound DEF TriInv, TriSound
<1> QED BY <1>3, <1>4, <1>5, <1>6, <1>7 DEF Tri!Next

\* What is promised follows.
LEMMA TriServes ==
  TriInv => Tri!TypeOK /\ Tri!NoGhostEdge /\ Tri!OneEdgePerPress
<1> SUFFICES ASSUME TriInv, ~dropped
             PROVE  edges <= presses /\ (Tri!Decided => edges = presses)
  BY DEF TriInv, Tri!NoGhostEdge, Tri!OneEdgePerPress
<1> DEFINE c == Cardinality(Presses(Tri!Waiting))
<1>1. Tri!TypeOK /\ KeyHeld /\ Accounted
  BY DEF TriInv
<1>2. edges \in Nat /\ presses \in Nat /\ repeats \in Nat /\ Tri!Waiting \in Seq(Tri!Gaps)
  BY <1>1, TriFacts
<1>3. IsFiniteSet(Presses(Tri!Waiting)) /\ c \in Nat /\ Len(Tri!Waiting) \in Nat
      /\ DOMAIN Tri!Waiting = 1..Len(Tri!Waiting)
  BY <1>2, PressesCount, LenProperties
<1>4. edges + c + (IF Stands THEN 1 ELSE 0) = presses + (IF repeats = 1 THEN 1 ELSE 0)
  BY <1>1 DEF Accounted
<1>5. ASSUME repeats = 1 PROVE c # 0 \/ Stands
  <2>1. Tip = "near"
    BY <1>1, <1>5 DEF KeyHeld
  <2>2. CASE Tri!Waiting = <<>>
    BY <2>1, <2>2 DEF Tip, Stands
  <2>3. CASE Tri!Waiting # <<>>
    <3>1. Len(Tri!Waiting) # 0
      BY <1>2, <2>3, EmptySeq
    <3>2. Tri!Waiting[Len(Tri!Waiting)] = "near"
      BY <2>1, <2>3 DEF Tip
    <3>3. Len(Tri!Waiting) \in Presses(Tri!Waiting)
      BY <1>3, <3>1, <3>2 DEF Presses
    <3>4. c # 0
      BY <1>3, <3>3, FS_EmptySet
    <3> QED BY <3>4
  <2> QED BY <2>2, <2>3
<1>6. edges <= presses
  <2> HIDE DEF c
  <2> QED BY <1>2, <1>3, <1>4, <1>5
<1>7. ASSUME Tri!Decided PROVE edges = presses
  <2>1. Tri!Waiting = <<>> /\ ~Stands /\ Tip = "none"
    BY <1>7 DEF Tri!Decided, Stands, Tip
  <2>2. repeats # 1
    BY <1>1, <2>1 DEF KeyHeld
  <2>3. Presses(Tri!Waiting) = {}
    BY <2>1 DEF Presses
  <2>4. c = 0
    BY <2>3, FS_EmptySet
  <2> HIDE DEF c
  <2> QED BY <1>2, <1>4, <2>1, <2>2, <2>4
<1> QED BY <1>6, <1>7

-----------------------------------------------------------------------------
(***************************************************************************)
(* The parts together.                                                     *)
(***************************************************************************)

\* A step of the composition is one of its part, and the others stand still.
LEMMA LifePart ==
  ASSUME part = "lifecycle" => LifeInv, [Next]_vars
  PROVE  (part = "lifecycle" => LifeInv)'
<1>1. CASE UNCHANGED vars
  BY <1>1 DEF vars, lifecycleVars, LifeInv, Lif!TypeOK, LockSound, ReleaseSound, DeviceSound, Lif!OneModel
<1>2. CASE Next
  BY <1>2, LifeKeeps DEF Next, Only
<1> QED BY <1>1, <1>2

\* The model a session decodes with is the adapter's only one, and a release that is
\* done stays done, for any number of sessions, cancellations, failures and releases.
THEOREM OneModelKept == Spec => []OneModel
<1>1. Init => (part = "lifecycle" => LifeInv)
  BY LifeStarts DEF Init
<1>2. (part = "lifecycle" => LifeInv) /\ [Next]_vars => (part = "lifecycle" => LifeInv)'
  BY LifePart
<1>3. (part = "lifecycle" => LifeInv) => OneModel
  BY DEF OneModel, LifeInv, ReleaseSound, Lif!ReleaseHolds
<1> QED BY <1>1, <1>2, <1>3, PTL DEF Spec

\* The same for the connection.
LEMMA TransPart ==
  ASSUME part = "transport" => TransInv, [Next]_vars
  PROVE  (part = "transport" => TransInv)'
<1>1. CASE UNCHANGED vars
  BY <1>1 DEF vars, transportVars, TransInv, Tra!TypeOK, WireSound, EventsSound, Tra!WireInOrder,
              Tra!CommitKnown, Tra!TerminalLast
<1>2. CASE Next
  BY <1>2, TransKeeps DEF Next, Only
<1> QED BY <1>1, <1>2

\* The wire carries what was queued, in order, the dialect knows of the commit when the
\* server does, and a terminal event is the last the owner hears, whatever the server
\* sends, however writes fail and whenever the owner leaves.
THEOREM WireContractKept == Spec => []WireContract
<1>1. Init => (part = "transport" => TransInv)
  BY TransStarts DEF Init
<1>2. (part = "transport" => TransInv) /\ [Next]_vars => (part = "transport" => TransInv)'
  BY TransPart
<1>3. (part = "transport" => TransInv) => WireContract
  BY DEF WireContract, TransInv, WireSound, EventsSound
<1> QED BY <1>1, <1>2, <1>3, PTL DEF Spec

\* What the supervisor keeps, the composition does.
LEMMA HudPart ==
  ASSUME part = "hud" => HudInv, [Next]_vars
  PROVE  (part = "hud" => HudInv)'
<1>1. CASE UNCHANGED vars
  BY <1>1 DEF vars, hudVars, HudInv, Hud!TypeOK, Hud!OneHud, Hud!has_child, BooksSound, MachineSound,
              Coming, Hud!startable
<1>2. CASE Next
  BY <1>2, HudKeeps DEF Next, Only
<1> QED BY <1>1, <1>2

\* The same for the HUD's reader of the daemon.
LEMMA BusPart ==
  ASSUME part = "hudbus" => BusInv, [Next]_vars
  PROVE  (part = "hudbus" => BusInv)'
<1>1. CASE UNCHANGED vars
  BY <1>1 DEF vars, hudBusVars, BusInv, BusTypes, BusStart, NamesSound, ValuesSound,
              Subscribed, Caught, Bus!TypeOK
<1>2. CASE Next
  BY <1>2, BusKeeps DEF Next, Only
<1> QED BY <1>1, <1>2

\* The same for its window.
LEMMA PillPart ==
  ASSUME part = "pill" => PillInv, [Next]_vars
  PROVE  (part = "pill" => PillInv)'
<1>1. CASE UNCHANGED vars
  BY <1>1 DEF vars, pillVars, PillInv, Pil!TypeOK
<1>2. CASE Next
  BY <1>2, PillKeeps DEF Next, Only
<1> QED BY <1>1, <1>2

\* The same for the Shell extension.
LEMMA ShellPart ==
  ASSUME part = "shell" => ShellInv, [Next]_vars
  PROVE  (part = "shell" => ShellInv)'
<1>1. CASE UNCHANGED vars
  BY <1>1 DEF vars, shellVars, ShellInv, RenderersSound, She!WindowKept, HostSound, Enabled, BusSound,
              She!Attached
<1>2. CASE Next
  BY <1>2, ShellKeeps DEF Next, Only
<1> QED BY <1>1, <1>2

\* One HUD at most, its host's or the Shell extension's, and one renderer whose window is
\* adopted each time it is mapped; the daemon's books name it only while a pill is there or
\* coming; it follows what the daemon serves, and shows nothing that it was not told to:
\* for any budget of restarts, any renderers, and however often the daemon, the extension
\* and the HUD come and go.
THEOREM HudPromisedKept == Spec => []HudPromised
<1> DEFINE I == /\ part = "hud" => HudInv
                /\ part = "hudbus" => BusInv
                /\ part = "pill" => PillInv
                /\ part = "shell" => ShellInv
<1>1. Init => I
  BY HudStarts, BusStarts, PillStarts, ShellStarts DEF Init
<1>2. I /\ [Next]_vars => I'
  <2> SUFFICES ASSUME I, [Next]_vars PROVE I'
    OBVIOUS
  <2>1. (part = "hud" => HudInv)'
    BY HudPart
  <2>2. (part = "hudbus" => BusInv)'
    BY BusPart
  <2>3. (part = "pill" => PillInv)'
    BY PillPart
  <2>4. (part = "shell" => ShellInv)'
    BY ShellPart
  <2> QED BY <2>1, <2>2, <2>3, <2>4
<1>3. I => HudPromised
  <2>1. PillInv => Pil!TypeOK /\ Pil!NoStrayPill
    BY DEF PillInv, Pil!NoStrayPill
  <2> QED BY <2>1, HudServes, BusFollows, ShellServes DEF HudPromised
<1> HIDE DEF I
<1> QED BY <1>1, <1>2, <1>3, PTL DEF Spec

\* What the trigger keeps, the composition does.
LEMMA TriPart ==
  ASSUME part = "trigger" => TriInv, [Next]_vars
  PROVE  (part = "trigger" => TriInv)'
<1>1. CASE UNCHANGED vars
  <2>1. /\ UNCHANGED <<rx, missed, since, pressed, candidate, later, streaming>>
        /\ UNCHANGED <<part, down, repeats, presses, edges, dropped>>
    BY <1>1 DEF vars, triggerVars
  <2>2. Tri!TypeOK => Tri!TypeOK'
    BY <2>1 DEF Tri!TypeOK, Tri!TriggerTypeOK
  <2>3. Tri!Waiting' = Tri!Waiting /\ Tip' = Tip
    BY <2>1 DEF Tri!Waiting, Tip
  <2>4. ~dropped => UNCHANGED missed /\ (KeyHeld => KeyHeld') /\ (Filtered => Filtered')
    BY <2>1, <2>3 DEF KeyHeld, Filtered
  <2>5. Accounted => Accounted'
    BY <2>1, <2>3 DEF Accounted, Stands
  <2> QED BY <2>1, <2>2, <2>4, <2>5 DEF TriInv
<1>2. CASE Next
  BY <1>2, TriKeeps DEF Next, Only
<1> QED BY <1>1, <1>2

\* The same for the daemon's process.
LEMMA DaemonPart ==
  ASSUME part = "daemon" => DaemonInv, [Next]_vars
  PROVE  (part = "daemon" => DaemonInv)'
<1>1. CASE UNCHANGED vars
  BY <1>1 DEF vars, daemonVars, DaemonInv, Dae!TypeOK, InForce, ThreadSound, Dae!SettingsFollow
<1>2. CASE Next
  BY <1>2, ProcessKeeps DEF Next, Only
<1> QED BY <1>1, <1>2

\* The same for its indicator.
LEMMA IndPart ==
  ASSUME part = "indicator" => IndInv, [Next]_vars
  PROVE  (part = "indicator" => IndInv)'
<1>1. CASE UNCHANGED vars
  <2>1. /\ UNCHANGED part
        /\ UNCHANGED <<wanted, last, served, locked, hide, stray, toast, torn>>
    BY <1>1 DEF vars, indicatorVars
  <2>2. IndInv => IndInv'
    <3> SUFFICES ASSUME IndInv PROVE IndInv'
      OBVIOUS
    <3>1. toast \in Toasts /\ (toast.open # Ind!None => toast.live # Ind!None)
      BY DEF IndInv, IndTypes, Ind!NoToastLeft
    <3> QED BY <2>1, <3>1, BusStands
  <2> QED BY <2>1, <2>2
<1>2. CASE Next
  BY <1>2, IndKeeps DEF Next, Only
<1> QED BY <1>1, <1>2

\* One edge for each press of the key and none for its repeats, as long as no poke was
\* dropped; the settings in force are the stored ones and hypotheses are shown in the
\* mode they resolve to; the bus shows the state set last and no toast is left: for any
\* backlog, presses and models, and however late any of them acts.
THEOREM UserHeardKept == Spec => []UserHeard
<1> DEFINE I == /\ part = "trigger" => TriInv
                /\ part = "daemon" => DaemonInv
                /\ part = "indicator" => IndInv
<1>1. Init => I
  BY TriStarts, DaemonStarts, IndStarts DEF Init
<1>2. I /\ [Next]_vars => I'
  <2> SUFFICES ASSUME I, [Next]_vars PROVE I'
    OBVIOUS
  <2>1. (part = "trigger" => TriInv)'
    BY TriPart
  <2>2. (part = "daemon" => DaemonInv)'
    BY DaemonPart
  <2>3. (part = "indicator" => IndInv)'
    BY IndPart
  <2> QED BY <2>1, <2>2, <2>3
<1>3. I => UserHeard
  BY TriServes, DaemonServes, IndServes DEF UserHeard
<1> HIDE DEF I
<1> QED BY <1>1, <1>2, <1>3, PTL DEF Spec
==============================================================================
