---------------------------- MODULE NetplayPromise ----------------------------
(***************************************************************************)
(* What netplay promises, without a network, predictions or rollbacks:     *)
(* each end applies one local mask per frame, in order, and once a frame   *)
(* is settled at an end it was played with the union of the two masks the  *)
(* ends applied, for good.  Netplay implements it.                         *)
(***************************************************************************)
EXTENDS Naturals

CONSTANTS Peers, Buttons

VARIABLES applied,  \* the local mask of each frame each end has begun
          played    \* the combined mask of each frame each end has settled

Extends(new, old) ==
    DOMAIN old \subseteq DOMAIN new /\ \A f \in DOMAIN old : new[f] = old[f]

Empty == [f \in {} |-> {}]

Init == applied = [p \in Peers |-> Empty] /\ played = [p \in Peers |-> Empty]

(* An end begins the next frame and applies a mask to it.                  *)
Apply(p) ==
    \E n \in DOMAIN applied'[p], mask \in SUBSET Buttons :
        /\ DOMAIN applied[p] = 0..(n - 1)
        /\ applied' = [applied EXCEPT
                         ![p] = [f \in 0..n |-> IF f = n THEN mask ELSE @[f]]]
        /\ UNCHANGED played

(* Some more frames settle at an end.                                      *)
Settle(p) ==
    /\ Extends(played'[p], played[p])
    /\ \A q \in Peers \ {p} : played'[q] = played[q]
    /\ DOMAIN played' = Peers
    /\ \A f \in DOMAIN played'[p] :
          /\ \A q \in Peers : f \in DOMAIN applied[q]
          /\ played'[p][f] = UNION {applied[q][f] : q \in Peers}
    /\ UNCHANGED applied

Next == \E p \in Peers : Apply(p) \/ Settle(p)

Spec == Init /\ [][Next]_<<applied, played>>
=============================================================================
