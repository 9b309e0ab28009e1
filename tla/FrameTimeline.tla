---------------------------- MODULE FrameTimeline -----------------------------
(***************************************************************************)
(* gb::frontend::FrameTimeline (realtime/frame_timeline.cpp) and what the  *)
(* emulation worker and the UI thread of realtime.cpp do with it, each     *)
(* under gbMutex: capture the frames that are run, step back and forward,  *)
(* write memory, save and load a state, and, in netplay, roll back frames  *)
(* that ran with a wrong input.  A state of the machine is its number, and *)
(* ancestors[s] are the states it was computed from.  Back and Forward are *)
(* not limited to a paused game: the UI thread tests its own copy of       *)
(* `paused', which may be old.  Nor are they, loads and writes refused in  *)
(* netplay, whose window knows nothing of them.                            *)
(***************************************************************************)
EXTENDS Integers, Sequences

CONSTANTS MaxHistory,  \* MaxHistory (900)
          RollbackWindow, \* historyLimit_ of the NetplaySession
          MaxStates    \* bound: states computed

ASSUME TimelineAssumption ==
    MaxHistory \in Nat \ {0} /\ RollbackWindow \in Nat \ {0} /\ MaxStates \in Nat \ {0}

VARIABLES
    history,   \* history_
    cursor,    \* cursor_, from 0
    machine,   \* the state of the GameBoy
    saved,     \* the state in the save slot; 0 if there is none
    frames,    \* emulatedFrameCounter
    netplay,   \* netplayEnabled, from the command line
    starts,    \* the state before each frame of the NetplaySession's history_
    made,      \* states computed so far
    ancestors, \* history variable
    undone     \* history variable: states of the machine that a rollback took back

session == <<netplay, starts, undone>>
vars == <<history, cursor, machine, saved, frames, session, made, ancestors>>

States == 1..MaxStates

Init ==
    /\ machine = 1 /\ made = 1
    /\ history = <<1>> /\ cursor = 0
    /\ saved = 0
    /\ frames = 0
    /\ netplay \in BOOLEAN /\ starts = <<>> /\ undone = {}
    /\ ancestors = [s \in States |-> {}]

(* The machine goes from its state to one that was never there before.     *)
Compute ==
    /\ made < MaxStates
    /\ made' = made + 1
    /\ machine' = made + 1
    /\ ancestors' = [ancestors EXCEPT ![made + 1] = ancestors[machine] \cup {machine}]

-----------------------------------------------------------------------------
(* captureCurrent of state s: truncateFuture, push_back, pop_front.        *)
Truncated == SubSeq(history, 1, cursor + 1)

(* Mutant: the future is kept.                                             *)
CaptureAtEnd(s) ==
    LET all == Append(history, s)
        new == IF Len(all) > MaxHistory THEN Tail(all) ELSE all
    IN  history' = new /\ cursor' = Len(new) - 1

(* Mutant: nothing is popped.                                              *)
CaptureAll(s) ==
    /\ history' = Append(Truncated, s)
    /\ cursor' = cursor + 1

CaptureCurrent(s) ==
    LET all == Append(Truncated, s)
        new == IF Len(all) > MaxHistory THEN Tail(all) ELSE all
    IN  history' = new /\ cursor' = Len(new) - 1

(* A frame leaves state s; in fast forward every other one is captured.    *)
FrameEnds(fastForward, s) ==
    /\ frames' = (frames + 1) % 2
    /\ IF ~fastForward \/ frames' = 0 THEN CaptureCurrent(s)
       ELSE UNCHANGED <<history, cursor>>

(* A frame of the worker.  Netplay records the state it starts from        *)
(* (recordFrame, trimHistory).                                             *)
Recorded ==
    LET all == Append(starts, machine)
    IN  IF Len(all) > RollbackWindow THEN Tail(all) ELSE all

RunFrame(fastForward) ==
    /\ Compute
    /\ FrameEnds(fastForward, made + 1)
    /\ starts' = IF netplay THEN Recorded ELSE starts
    /\ UNCHANGED <<saved, netplay, undone>>

(* A frame of netplay after which the frames from the k-th of the window   *)
(* on, this one included, are run again with the inputs that have come     *)
(* (resimulateFrom).  The state this one first led to is never seen; those *)
(* of the earlier ones stay in the timeline, which is not told.            *)
Past(s) == ancestors[s] \cup {s}

RollBack(k, fastForward) ==
    LET again == Len(Recorded) - k + 1
        first == Recorded[k]
    IN  /\ netplay
        /\ made + again <= MaxStates
        /\ made' = made + again
        /\ machine' = made + again
        /\ ancestors' = [s \in States |->
                           IF s \in (made + 1)..(made + again)
                           THEN Past(first) \cup ((made + 1)..(s - 1))
                           ELSE ancestors[s]]
        /\ starts' = [i \in DOMAIN Recorded |->
                        IF i <= k THEN Recorded[i] ELSE made + i - k]
        /\ undone' = undone \cup (Past(machine) \ Past(first))
        /\ FrameEnds(fastForward, made + again)
        /\ UNCHANGED <<saved, netplay>>

StepBack ==
    /\ cursor > 0
    /\ cursor' = cursor - 1
    /\ machine' = history[cursor]
    /\ UNCHANGED <<history, saved, frames, session, made, ancestors>>

(* The Right key: the next entry, or a new frame at the end of them.       *)
StepForward ==
    /\ cursor + 1 < Len(history)
    /\ cursor' = cursor + 1
    /\ machine' = history[cursor + 2]
    /\ UNCHANGED <<history, saved, frames, session, made, ancestors>>

ForwardByFrame ==
    /\ cursor + 1 >= Len(history)
    /\ Compute
    /\ CaptureCurrent(made + 1)
    /\ UNCHANGED <<saved, frames, session>>

(* A write of the memory editor, a cheat or a lock between two frames.     *)
WriteMemory ==
    /\ Compute
    /\ UNCHANGED <<history, cursor, saved, frames, session>>

SaveState ==
    /\ saved' = machine
    /\ UNCHANGED <<history, cursor, machine, frames, session, made, ancestors>>

(* Mutant: the timeline goes on after a load.                              *)
LoadOnly ==
    /\ saved # 0
    /\ machine' = saved
    /\ UNCHANGED <<history, cursor, saved, frames, session, made, ancestors>>

(* Loading a state resets the timeline.                                    *)
LoadState ==
    /\ saved # 0
    /\ machine' = saved
    /\ history' = <<saved>> /\ cursor' = 0
    /\ UNCHANGED <<saved, frames, session, made, ancestors>>

Next ==
    \/ \E fastForward \in BOOLEAN :
          \/ RunFrame(fastForward)
          \/ \E k \in DOMAIN Recorded : RollBack(k, fastForward)
    \/ StepBack \/ StepForward \/ ForwardByFrame
    \/ WriteMemory \/ SaveState \/ LoadState

Spec == Init /\ [][Next]_vars

-----------------------------------------------------------------------------
(* Every variable has its type, the history its limit, and the cursor is   *)
(* on an entry of it.                                                      *)
TypeOK ==
    /\ history \in Seq(States) /\ Len(history) \in 1..MaxHistory
    /\ cursor \in 0..(Len(history) - 1)
    /\ machine \in States
    /\ saved \in States \cup {0}
    /\ frames \in {0, 1}
    /\ netplay \in BOOLEAN /\ undone \subseteq States
    /\ starts \in Seq(States) /\ Len(starts) <= RollbackWindow
    /\ made \in States
    /\ ancestors \in [States -> SUBSET States]

(* Stepping back goes back in time: every entry up to the cursor is the    *)
(* machine's state or one it was computed from, on this branch of its past *)
(* and not on one left by a step back, a load or a write.  The only other  *)
(* entries are states that were the machine's until netplay rolled them    *)
(* back: the code leaves these in the timeline                             *)
(* (frame_timeline.cpp:57-78, realtime.cpp:992, 1822-1866).                *)
PastIsTheMachines ==
    \A i \in 1..(cursor + 1) : history[i] \in Past(machine) \cup undone

(* The entries themselves are in the order they were computed, each from   *)
(* the one before, also those ahead of the cursor, but for what netplay    *)
(* has rolled back.                                                        *)
HistoryIsOneLine ==
    \A i, j \in DOMAIN history :
        i < j => history[i] \in ancestors[history[j]] \cup undone

(* The deque and its cursor are an undo history.                           *)
Promise == INSTANCE TimelinePromise WITH
               past    <- SubSeq(history, 1, cursor),
               present <- history[cursor + 1],
               future  <- SubSeq(history, cursor + 2, Len(history))

KeepsPromise == Promise!Spec
=============================================================================
