---------------------------- MODULE MCRunLabControl ----------------------------
(* Values for RunLabControl.cfg and its siblings: small sets of lines.     *)
EXTENDS RunLabControl

CONSTANTS A, Left

Tap    == Line("tap", {A}, 2)
Pause  == Line("pause", {}, 1)
Resume == Line("resume", {}, 1)
Step   == Line("step_frame", {}, 1)
Note   == Line("annotation", {}, 2)

PauseLines == {Pause, Resume, Step}
QueueLines == {Tap, Pause, Note, Line("hold", {}, 1)}
=============================================================================
