----------------------------- MODULE Utterance ------------------------------
(***************************************************************************)
(* What one dictation promises, whatever tasks, channels and timers carry  *)
(* it: the service hears the utterance in order and complete before it is  *)
(* told that it is over, and the caller gets one verdict, which is never a *)
(* success after the caller was told that audio had been lost.             *)
(*                                                                         *)
(* spoken   chunks captured so far                                         *)
(* heard    what the service has received, in order                        *)
(* lost     the caller was told that the end of the utterance is missing   *)
(* verdict  the outcome returned, Pending until then                       *)
(***************************************************************************)
EXTENDS Integers, Sequences

VARIABLES spoken, heard, lost, verdict
uvars == <<spoken, heard, lost, verdict>>

EndMark == 0
Waiting == "pending"
Verdicts == {"completed", "failed", "aborted", "handshake_error"}
Whole(n) == [i \in 1..n |-> i]
Committed == \E i \in DOMAIN heard : heard[i] = EndMark

UInit == spoken = 0 /\ heard = <<>> /\ lost = FALSE /\ verdict = Waiting

Speak == /\ ~Committed
         /\ spoken' = spoken + 1 /\ UNCHANGED <<heard, lost, verdict>>

Hear == /\ ~Committed /\ Len(heard) < spoken
        /\ heard' = Append(heard, Len(heard) + 1)
        /\ UNCHANGED <<spoken, lost, verdict>>

Commit == /\ heard = Whole(spoken)
          /\ heard' = Append(heard, EndMark) /\ UNCHANGED <<spoken, lost, verdict>>

Lose == /\ ~lost /\ verdict = Waiting
        /\ lost' = TRUE /\ UNCHANGED <<spoken, heard, verdict>>

Conclude(v) == /\ verdict = Waiting
               /\ lost => v # "completed"
               /\ verdict' = v /\ UNCHANGED <<spoken, heard, lost>>

UNext == Speak \/ Hear \/ Commit \/ Lose \/ (\E v \in Verdicts : Conclude(v))

USpec == UInit /\ [][UNext]_uvars
=============================================================================
