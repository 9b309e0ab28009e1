----------------------------- MODULE RunLabControl -----------------------------
(***************************************************************************)
(* Who decides whether the Game Boy runs: the emulation worker and the UI  *)
(* thread of src/app/frontend/realtime.cpp, and the MCP client that writes *)
(* to the RunLab command file.  The worker obeys the commands, stops at    *)
(* breakpoints and runs the frames; the UI thread keeps its own copy of    *)
(* `paused', which it loads from pausedAtomic and stores back to it        *)
(* (syncThreadState) at other moments of its loop.  Every atomic load,     *)
(* store or exchange is a step, and so is each region under a mutex.       *)
(*                                                                         *)
(* Left out: fast forward, which only changes the time budget of a frame   *)
(* (emulationFramesPerTick is 1), the message texts, and                   *)
(* pendingMcpPauseAction, which is stored and never loaded.                *)
(***************************************************************************)
EXTENDS RunLabControlQueue

CONSTANTS Lines,      \* the lines the MCP client may write
          StepKeys,   \* the buttons on the Left and Right keys
          MaxLines,   \* bound: lines in the file
          MaxEvents,  \* bound: events of the user
          MaxHits,    \* bound: watchpoint and breakpoint hits
          MayDelete   \* whether the user may delete the command file

ASSUME ControlAssumption ==
    /\ StepKeys \subseteq Buttons
    /\ MaxLines \in Nat /\ MaxEvents \in Nat /\ MaxHits \in Nat
    /\ MayDelete \in BOOLEAN

VARIABLES
    file,          \* the lines of the command file
    queue,         \* runLabControlQueue
    size,          \* the size poll() took, while it reads the file
    emu,           \* what the worker does next
    tick,          \* controlTick
    stepping,      \* the worker took the frame from the step budget
    pausedAtomic,
    steps,         \* pendingMcpStepFrames
    reason,        \* pendingPauseReason # 0
    ui,            \* what the UI thread does next
    paused,        \* the UI thread's copy
    pad,           \* the joypad of the GameBoy
    held,          \* history variable: the keys the user holds
    events, hits,  \* counters for the bounds
    taken,         \* history variable: how often each line was read
    stale,         \* history variable: lines written before the bridge listened
    overrun,       \* history variable: frames run since the user paused, or -1
    granted,       \* history variable: steps the budget had then or got since
    mcpPaused      \* history variable: a pause command is in force

shared == <<pausedAtomic, steps, reason>>
uiVars == <<ui, paused, held, events>>
ghosts == <<taken, stale, overrun, granted, mcpPaused>>
vars == <<file, queue, size, emu, tick, stepping, shared, uiVars, pad, hits, ghosts>>

Init ==
    /\ file = <<>>
    /\ \E on \in BOOLEAN : queue = Configured(on)
    /\ size = 0
    /\ emu = "poll"
    /\ tick = NoTick
    /\ stepping = FALSE
    /\ pausedAtomic = FALSE /\ steps = 0 /\ reason = FALSE
    /\ ui = "load" /\ paused = FALSE
    /\ pad = {} /\ held = {}
    /\ events = 0 /\ hits = 0
    /\ taken = [i \in 1..MaxLines |-> 0]
    /\ stale = {}
    /\ overrun = -1 /\ granted = 0
    /\ mcpPaused = FALSE

-----------------------------------------------------------------------------
(* The MCP client appends a line; it holds no lock of the emulator.        *)
WriteLine(line) ==
    /\ Len(file) < MaxLines
    /\ file' = Append(file, line)
    /\ UNCHANGED <<queue, size, emu, tick, stepping, shared, uiVars, pad, hits,
                   ghosts>>

(* No line has been read yet, nor been there to ignore.                    *)
Unheard == taken' = [i \in 1..MaxLines |-> 0] /\ stale' = {}

(* The user deletes the command file.                                      *)
DeleteFile ==
    /\ MayDelete /\ events < MaxEvents
    /\ file' = <<>>
    /\ events' = events + 1
    /\ Unheard
    /\ UNCHANGED <<queue, size, emu, tick, stepping, shared, ui, paused, held, pad,
                   hits, overrun, granted, mcpPaused>>

-----------------------------------------------------------------------------
(* Mutant: the queue is only polled while the game runs.                   *)
PollWhenRunning ==
    /\ emu = "poll"
    /\ queue' = IF pausedAtomic THEN queue ELSE SizeTaken(queue, Len(file))
    /\ size' = IF queue.on THEN Len(file) ELSE 0
    /\ emu' = IF pausedAtomic THEN "check" ELSE "read"
    /\ UNCHANGED <<file, tick, stepping, shared, uiVars, pad, hits, ghosts>>

(* The worker.  consumeRunLabControlTick: poll and tick under the control  *)
(* mutex, paused or not.  The client may write between the two halves.     *)
Poll ==
    /\ emu = "poll"
    /\ queue' = SizeTaken(queue, Len(file))
    /\ size' = IF queue.on THEN Len(file) ELSE 0
    /\ emu' = "read"
    /\ stale' = IF queue.on /\ ~queue.ready THEN DOMAIN file ELSE stale
    /\ UNCHANGED <<file, tick, stepping, shared, uiVars, pad, hits, taken, overrun,
                   granted, mcpPaused>>

ReadAndTick ==
    /\ emu = "read"
    /\ LET read == LinesRead(queue, file, size)
           next == Tick(read)
           news == IF Reads(queue, file, size)
                   THEN (Len(file) - Len(Unread(queue, file)) + 1)..Len(file)
                   ELSE {}
       IN  /\ queue' = Ticked(read)
           /\ tick' = next
           /\ taken' = [i \in DOMAIN taken |-> taken[i] + IF i \in news THEN 1 ELSE 0]
    /\ emu' = "apply"
    /\ UNCHANGED <<file, size, stepping, shared, uiVars, pad, hits, stale, overrun,
                   granted, mcpPaused>>

(* applyRunLabControlTick.  The budget of steps grows whether the game is  *)
(* paused or not, and no resume empties it.                                *)
Asked(c) == c.type = "step_frame" /\ c.frames \in Nat \ {0}

Apply ==
    /\ emu = "apply"
    /\ pausedAtomic' = IF tick.started.type \in {"pause", "resume"}
                       THEN tick.started.type = "pause" ELSE pausedAtomic
    /\ steps' = IF Asked(tick.started) THEN steps + tick.started.frames ELSE steps
    /\ emu' = "check"
    /\ mcpPaused' = IF tick.started.type \in {"pause", "resume"}
                    THEN tick.started.type = "pause" ELSE mcpPaused
    /\ overrun' = IF tick.started.type = "resume" THEN -1 ELSE overrun
    /\ granted' = IF overrun' = -1 THEN 0
                  ELSE IF Asked(tick.started) THEN granted + tick.started.frames
                  ELSE granted
    /\ UNCHANGED <<file, queue, size, tick, stepping, reason, uiVars, pad, hits,
                   taken, stale>>

(* The load of pausedAtomic: a paused worker runs a frame only out of the  *)
(* step budget.                                                            *)
Check ==
    /\ emu = "check"
    /\ stepping' = (pausedAtomic /\ steps > 0)
    /\ steps' = IF stepping' THEN steps - 1 ELSE steps
    /\ emu' = IF pausedAtomic /\ ~stepping' THEN "poll" ELSE "run"
    /\ UNCHANGED <<file, queue, size, tick, pausedAtomic, reason, uiVars, pad, hits,
                   ghosts>>

(* A frame under gbMutex.  The buttons of the tick are added to the joypad *)
(* and written back to it; the frame may hit a watchpoint or a breakpoint. *)
RunFrame ==
    /\ emu = "run"
    /\ pad' = pad \cup tick.mask
    /\ \E hit \in BOOLEAN :
         /\ hit => hits < MaxHits
         /\ hits' = IF hit THEN hits + 1 ELSE hits
         /\ emu' = IF hit THEN "hit" ELSE "poll"
    /\ overrun' = IF overrun = -1 THEN -1 ELSE overrun + 1
    /\ UNCHANGED <<file, queue, size, tick, stepping, shared, uiVars, taken, stale,
                   granted, mcpPaused>>

(* A hit pauses first and gives its reason afterwards.                     *)
HitPauses ==
    /\ emu = "hit"
    /\ pausedAtomic' = TRUE
    /\ emu' = "announce"
    /\ UNCHANGED <<file, queue, size, tick, stepping, steps, reason, uiVars, pad,
                   hits, taken, stale, overrun, granted, mcpPaused>>

HitAnnounces ==
    /\ emu = "announce"
    /\ reason' = TRUE
    /\ emu' = "poll"
    /\ UNCHANGED <<file, queue, size, tick, stepping, pausedAtomic, steps, uiVars,
                   pad, hits, ghosts>>

-----------------------------------------------------------------------------
(* The UI thread: load, take the reason of a hit, store, handle the        *)
(* events, store again.                                                    *)
LoadPaused ==
    /\ ui = "load"
    /\ paused' = pausedAtomic
    /\ ui' = "reason"
    /\ UNCHANGED <<file, queue, size, emu, tick, stepping, shared, held, events, pad,
                   hits, ghosts>>

(* Mutant: the reason is shown, without pausing again.                     *)
ShowReason ==
    /\ ui = "reason"
    /\ reason' = FALSE
    /\ paused' = paused
    /\ ui' = IF reason THEN "early" ELSE "sync"
    /\ UNCHANGED <<file, queue, size, emu, tick, stepping, pausedAtomic, steps, held,
                   events, pad, hits, ghosts>>

TakeReason ==
    /\ ui = "reason"
    /\ reason' = FALSE
    /\ paused' = (paused \/ reason)
    /\ ui' = IF reason THEN "early" ELSE "sync"
    /\ UNCHANGED <<file, queue, size, emu, tick, stepping, pausedAtomic, steps, held,
                   events, pad, hits, ghosts>>

AfterStore == [early |-> "sync", sync |-> "events", late |-> "load"]

SyncThreadState ==
    /\ ui \in DOMAIN AfterStore
    /\ pausedAtomic' = paused
    /\ ui' = AfterStore[ui]
    /\ UNCHANGED <<file, queue, size, emu, tick, stepping, steps, reason, paused,
                   held, events, pad, hits, taken, stale, overrun, granted, mcpPaused>>

(* One event of the user.                                                  *)
Event == ui = "events" /\ events < MaxEvents /\ events' = events + 1

(* Mutant: the toggle leaves pausedAtomic as it is.                        *)
ToggleCopy ==
    /\ Event
    /\ paused' = ~paused
    /\ overrun' = IF paused THEN -1 ELSE 0
    /\ granted' = IF paused THEN 0 ELSE steps
    /\ mcpPaused' = FALSE
    /\ UNCHANGED <<file, queue, size, emu, tick, stepping, shared, ui, held,
                   pad, hits, taken, stale>>

TogglePause ==
    /\ Event
    /\ paused' = ~paused
    /\ pausedAtomic' = ~paused
    /\ overrun' = IF paused THEN -1 ELSE 0
    /\ granted' = IF paused THEN 0 ELSE steps
    /\ mcpPaused' = FALSE
    /\ UNCHANGED <<file, queue, size, emu, tick, stepping, steps, reason, ui, held,
                   pad, hits, taken, stale>>

(* A key goes down or up.  While the game is paused Left and Right step    *)
(* the timeline instead, and their release is dropped.                     *)
Key(b) ==
    /\ Event
    /\ held' = IF b \in held THEN held \ {b} ELSE held \cup {b}
    /\ pad' = IF paused /\ b \in StepKeys THEN pad
              ELSE IF b \in held THEN pad \ {b} ELSE pad \cup {b}
    /\ UNCHANGED <<file, queue, size, emu, tick, stepping, shared, ui, paused, hits,
                   ghosts>>

(* The entry RUNLAB MCP ON/OFF, and Q in the panel; both take the mutex.   *)
ToggleBridge ==
    /\ Event /\ emu # "read"
    /\ queue' = Configured(~queue.on)
    /\ Unheard
    /\ UNCHANGED <<file, size, emu, tick, stepping, shared, ui, paused, held, pad,
                   hits, overrun, granted, mcpPaused>>

ClearQueue ==
    /\ Event /\ emu # "read"
    /\ queue' = Cleared(queue)
    /\ UNCHANGED <<file, size, emu, tick, stepping, shared, ui, paused, held, pad,
                   hits, taken, stale, overrun, granted, mcpPaused>>

EventsDone ==
    /\ ui = "events"
    /\ ui' = "late"
    /\ UNCHANGED <<file, queue, size, emu, tick, stepping, shared, paused, held,
                   events, pad, hits, ghosts>>

-----------------------------------------------------------------------------
Worker == \/ Poll \/ ReadAndTick \/ Apply \/ Check
          \/ RunFrame \/ HitPauses \/ HitAnnounces
UiLoop == LoadPaused \/ TakeReason \/ SyncThreadState \/ EventsDone
User   == \/ TogglePause \/ ToggleBridge \/ ClearQueue
          \/ \E b \in Buttons : Key(b)
Others == (\E line \in Lines : WriteLine(line)) \/ DeleteFile

Next == Worker \/ UiLoop \/ User \/ Others

Spec == Init /\ [][Next]_vars

(* Both threads loop until the program ends: neither waits for the other.  *)
FairSpec == Spec /\ WF_vars(Worker) /\ WF_vars(UiLoop)
-----------------------------------------------------------------------------
(* Every variable has its type; in particular the queue keeps its limits.  *)
TypeOK ==
    /\ file \in Seq(Lines) /\ Len(file) <= MaxLines
    /\ queue.on \in BOOLEAN /\ queue.ready \in BOOLEAN
    /\ queue.offset \in 0..MaxLines
    /\ \A i \in DOMAIN queue.pending : IsCommand(queue.pending[i])
    /\ Len(queue.pending) <= MaxPending /\ Len(queue.notes) <= MaxNotes
    /\ queue.left \in 0..MaxFrames
    /\ queue.mask \in Mask /\ (queue.left = 0 => queue.mask = {})
    /\ emu \in {"poll", "read", "apply", "check", "run", "hit", "announce"}
    /\ ui \in {"load", "reason", "early", "sync", "events", "late"}
    /\ pausedAtomic \in BOOLEAN /\ paused \in BOOLEAN /\ reason \in BOOLEAN
    /\ steps \in Nat
    /\ pad \in Mask /\ held \in Mask

(* A pause of the user holds: until the user or an MCP resume ends it, the *)
(* worker runs the frame that was under way and the steps of the budget,   *)
(* those banked by step_frame lines from before the pause included, and    *)
(* not one frame more, whatever the stores of the UI thread do meanwhile   *)
(* (realtime.cpp:1016, 1616, 1626-1648, 2643).                             *)
UserPauseHolds == overrun <= granted + 1

(* Every line written while the bridge listens is looked at: the two       *)
(* halves of poll() skip none, though the client writes between them       *)
(* (runlab_control_queue.cpp:306-343).                                     *)
NoLineIsSkipped ==
    queue.on /\ queue.ready =>
        \A i \in 1..queue.offset : i \in DOMAIN file \ stale => taken[i] > 0

(* Lines that were there when the bridge began to listen are never obeyed, *)
(* also when it is switched off and on, or the file is deleted             *)
(* (runlab_control_queue.cpp:235-246, 289-317).                            *)
StaleLinesAreIgnored == \A i \in stale : taken[i] = 0

(* A hit is never lost: though the UI thread may store its stale copy over *)
(* the worker's pause, the game ends up paused in both copies              *)
(* (realtime.cpp:1886-1907, 2654-2671).                                    *)
HitPausesTheGame == emu = "hit" ~> paused /\ pausedAtomic

(* The queue drains, also while the game is paused: an MCP resume or a     *)
(* step_frame behind a pause is always reached (realtime.cpp:1624).        *)
QueueDrains == queue.pending # <<>> ~> queue.pending = <<>>

-----------------------------------------------------------------------------
(* What the documentation says of the commands and the code does not keep. *)

(* "pause: pause the emulator" (docs/runlab-mcp-cpp.md:107): after it only *)
(* steps run, until a resume or the user.                                  *)
PauseCommandPauses == emu = "run" /\ mcpPaused => stepping

(* One append is one command (tests/frontend_feature_tests.cpp:523).       *)
EachLineIsReadOnce == \A i \in DOMAIN taken : taken[i] <= 1
=============================================================================
