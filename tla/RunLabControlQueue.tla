-------------------------- MODULE RunLabControlQueue ---------------------------
(***************************************************************************)
(* gb::frontend::RunLabControlQueue (realtime/runlab_control_queue.cpp):   *)
(* the commands an MCP client appends, one JSON line each, to a file that  *)
(* the emulation worker polls.  A queue is a record                        *)
(*   on, ready   enabled_ and initialized_                                 *)
(*   offset      offset_, counted in lines instead of bytes                *)
(*   pending     pending_                                                  *)
(*   mask, left  activeMask_ and remainingFrames_                          *)
(*   notes       annotations_: the frames each one still has               *)
(* The heartbeat counter and lastMessage_, which are only shown, are left  *)
(* out: a heartbeat line is one of the lines that parse to no command.     *)
(***************************************************************************)
EXTENDS Integers, Sequences

CONSTANTS Buttons,     \* the buttons of the joypad
          MaxPending,  \* kMaxPendingCommands (256)
          MaxFrames,   \* kMaxControlFrames (600)
          MaxNotes     \* kMaxAnnotations (32)

ASSUME QueueLimitsAssumption ==
    MaxPending \in Nat \ {0} /\ MaxFrames \in Nat \ {0} /\ MaxNotes \in Nat \ {0}

Mask == SUBSET Buttons

InputTypes   == {"hold", "tap"}
CommandTypes == InputTypes \cup {"advance_frames", "pause", "resume", "step_frame",
                                 "release_all", "annotation"}

(* A line of the file: what its "command", "buttons" and "frames" say.     *)
Line(type, mask, frames) == [type |-> type, mask |-> mask, frames |-> frames]

(* parseRunLabControlCommandLine: the frames are clamped, and only hold    *)
(* and tap keep their buttons, of which they need at least one.            *)
IsCommand(line) ==
    /\ line.type \in CommandTypes
    /\ line.type \in InputTypes => line.mask # {}

Clamp(n, low, high) == IF n < low THEN low ELSE IF n > high THEN high ELSE n

Parsed(line) ==
    Line(line.type,
         IF line.type \in InputTypes THEN line.mask ELSE {},
         IF line.type \in {"pause", "resume", "release_all"} THEN 1
         ELSE Clamp(line.frames, 1, MaxFrames))

-----------------------------------------------------------------------------
(* configure(path, on), and clear().                                       *)
Configured(on) ==
    [on |-> on, ready |-> FALSE, offset |-> 0, pending |-> <<>>,
     mask |-> {}, left |-> 0, notes |-> <<>>]

Cleared(q) ==
    [q EXCEPT !.pending = <<>>, !.mask = {}, !.left = 0, !.notes = <<>>]

(* poll(), first part: an uninitialised queue seeks to the end of the file *)
(* and is done; otherwise the size of the file is taken, and a file that   *)
(* has shrunk is read again from its start.                                *)
(* Mutant: the first poll does not seek.                                   *)
SizeTakenAnyway(q, size) ==
    IF ~q.on THEN q
    ELSE [q EXCEPT !.ready = TRUE, !.offset = IF size < @ THEN 0 ELSE @]

SizeTaken(q, size) ==
    IF ~q.on THEN q
    ELSE IF ~q.ready THEN [q EXCEPT !.ready = TRUE, !.offset = size]
    ELSE IF size < q.offset THEN [q EXCEPT !.offset = 0]
    ELSE q

(* enqueue(): a full queue drops the command.                              *)
Enqueued(pending, commands) ==
    LET all == pending \o commands
    IN  SubSeq(all, 1, IF Len(all) > MaxPending THEN MaxPending ELSE Len(all))

(* Mutant: the first line behind the offset is skipped.                    *)
UnreadButOne(q, file) == SubSeq(file, q.offset + 2, Len(file))

(* poll(), second part: every line from the offset to the end of the file  *)
(* as it is by now is parsed and queued; the offset becomes the size taken *)
(* before, because getline has failed at the end and tellg() answers -1.   *)
(* A file that is gone by now (it is never empty) is not read at all.      *)
Unread(q, file) == SubSeq(file, q.offset + 1, Len(file))

Reads(q, file, size) == q.on /\ q.ready /\ size # q.offset /\ file # <<>>

LinesRead(q, file, size) ==
    IF Reads(q, file, size)
    THEN LET commands == SelectSeq(Unread(q, file), IsCommand)
         IN  [q EXCEPT !.pending = Enqueued(@, [i \in DOMAIN commands |-> Parsed(commands[i])]),
                       !.offset = size]
    ELSE q

-----------------------------------------------------------------------------
(* tick(), as the queue it leaves and the RunLabControlTick it returns.    *)
(* A command is started when the one before it has no frames left; an      *)
(* input or advance_frames command then lasts its frames, one per tick.    *)
Starts(q) == q.left = 0 /\ q.pending # <<>>
Lasts(c)  == c.type \in InputTypes \cup {"advance_frames"}

Aged(notes) ==
    SelectSeq([i \in DOMAIN notes |-> notes[i] - 1], LAMBDA n : n > 0)

Noted(notes, frames) ==
    Append(IF Len(notes) >= MaxNotes THEN Tail(notes) ELSE notes, frames)

Started(q) ==
    IF ~Starts(q) THEN q
    ELSE LET c == Head(q.pending)
         IN  [q EXCEPT !.pending = Tail(@),
                       !.mask = c.mask,
                       !.left = IF Lasts(c) THEN c.frames ELSE 0,
                       !.notes = IF c.type = "annotation" THEN Noted(@, c.frames) ELSE @]

Ticked(q) ==
    IF ~q.on THEN q
    ELSE LET s == Started([q EXCEPT !.notes = Aged(@)])
         IN  IF s.left = 0 THEN s
             ELSE [s EXCEPT !.left = @ - 1, !.mask = IF s.left = 1 THEN {} ELSE @]

Tick(q) ==
    LET s == Started(q)
    IN  [started |-> IF q.on /\ Starts(q) THEN Head(q.pending)
                     ELSE Line("none", {}, 0),
         active  |-> q.on /\ s.left > 0,
         mask    |-> IF q.on /\ s.left > 0 THEN s.mask ELSE {}]

NoTick == [started |-> Line("none", {}, 0), active |-> FALSE, mask |-> {}]
=============================================================================
