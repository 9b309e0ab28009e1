--------------------------- MODULE TimelinePromise ----------------------------
(***************************************************************************)
(* What a frame timeline promises: an undo history of a bounded number of  *)
(* states.  What is behind the present one is its past, nearest last; what *)
(* is ahead of it is the future, nearest first.                            *)
(***************************************************************************)
EXTENDS Integers, Sequences

CONSTANTS States, MaxHistory

VARIABLES past, present, future

vars == <<past, present, future>>

(* The last n elements of a sequence, or all of it.                        *)
LastOf(s, n) == SubSeq(s, IF Len(s) > n THEN Len(s) - n + 1 ELSE 1, Len(s))

Reset ==
    /\ past' = <<>> /\ future' = <<>>
    /\ present' \in States

Back ==
    /\ past # <<>>
    /\ past' = SubSeq(past, 1, Len(past) - 1)
    /\ present' = past[Len(past)]
    /\ future' = <<present>> \o future

Forward ==
    /\ future # <<>>
    /\ past' = Append(past, present)
    /\ present' = Head(future)
    /\ future' = Tail(future)

(* A new state forgets the future, and the oldest of a full past.          *)
Capture ==
    /\ past' = LastOf(Append(past, present), MaxHistory - 1)
    /\ present' \in States
    /\ future' = <<>>

Init == past = <<>> /\ future = <<>> /\ present \in States

Next == Reset \/ Back \/ Forward \/ Capture

Spec == Init /\ [][Next]_vars
=============================================================================
