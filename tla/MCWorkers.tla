------------------------------ MODULE MCWorkers -------------------------------
(***************************************************************************)
(* The threads of the frontend with small queues.  A behaviour is about    *)
(* pictures and the shutdown, with the sound off, or about pause and mute  *)
(* of a program that goes on, where SoundChanges bounds the pictures and   *)
(* the changes together.                                                   *)
(***************************************************************************)
EXTENDS Workers

CONSTANT SoundChanges

VARIABLE about

MCInit == Init /\ about \in {"pictures", "sound"} /\ (about = "pictures" => ~gate)

MCNext ==
    /\ Next
    /\ about' = about
    /\ IF about = "pictures" THEN gates' = 0
       ELSE sequence' + gates' <= SoundChanges /\ ui' = "run" /\ ~UiEnqueues

MCSpec == MCInit /\ [][MCNext]_<<vars, about>> /\ Fairness
=============================================================================
