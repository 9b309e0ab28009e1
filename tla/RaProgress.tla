------------------------------- MODULE RaProgress -------------------------------
(***************************************************************************)
(* The achievements' progress beside the machine's states: the deferred    *)
(* restore (realtime/retroachievements_lifecycle.cpp), the timeline's      *)
(* progress (frame_timeline.cpp), the file beside a save state             *)
(* (retroachievements_progress.cpp) and the worker that uses them          *)
(* (realtime.cpp), one action per command or frame, under gbMutex.         *)
(*                                                                         *)
(* A state of the machine is its number; a progress is [at, rom], the last *)
(* state that the library processed and the version of the game it has.    *)
(* The fingerprint of a state file is its contents.  The user may log out  *)
(* or the game be unknown at any time; the program may be killed between   *)
(* the writes of a save and come back with another version of the game.    *)
(***************************************************************************)
EXTENDS Integers, Sequences

CONSTANTS ProgressHistory,   \* MaxHistory (900)
          ProgressStates,    \* bound: states computed
          Roms, MaxKills     \* bound: times the program is killed

VARIABLES game,    \* [at, loaded, progress, rom]: the machine and the library's game
          line,    \* timeline: [entries, cursor, known]; known is raTimelineRomHash
          deferred,\* raDeferredProgress and raDeferredTimelineReset
          files,   \* the slot's state, the file beside it, a state of the old layout
          save,    \* what a save has still to write
          computed, kills

progressVars == <<game, line, deferred, files, save, computed, kills>>

NoProgress == [at |-> 0, rom |-> 0]
Absent == 0
Torn == -1
NothingDeferred == [waits |-> FALSE, stored |-> NoProgress, since |-> FALSE, resets |-> FALSE]

(* serializeProgress and resetProgress, each for a loaded game only.       *)
Serialized(g) == IF g.loaded THEN g.progress ELSE NoProgress
Fresh(g) == IF g.loaded THEN [g EXCEPT !.progress = [at |-> g.at, rom |-> g.rom]] ELSE g

(* deserializeProgress, or a reset where it fails or there is nothing.     *)
RestoredTo(g, stored) ==
    IF g.loaded /\ stored # NoProgress /\ stored.rom = g.rom THEN [g EXCEPT !.progress = stored]
    ELSE Fresh(g)

-----------------------------------------------------------------------------
(* The timeline.                                                           *)
Entry(g) == [at |-> g.at, progress |-> Serialized(g)]
LineReset(g, known) == [entries |-> <<Entry(g)>>, cursor |-> 1, known |-> known]
Captured(l, g) ==
    LET all == Append(SubSeq(l.entries, 1, l.cursor), Entry(g))
        new == IF Len(all) > ProgressHistory THEN Tail(all) ELSE all
    IN  [l EXCEPT !.entries = new, !.cursor = Len(new)]

(* publishRaState: a game that was identified starts a new timeline.       *)
PublishedLine(l, g) ==
    IF g.loaded /\ ~l.known THEN LineReset(g, TRUE) ELSE [l EXCEPT !.known = g.loaded]

-----------------------------------------------------------------------------
(* RaDeferredProgressRestore: applyIfReady.  s is [game, deferred, line].  *)
Applied(s) ==
    IF ~s.deferred.waits \/ ~s.game.loaded THEN s
    ELSE LET g == RestoredTo(s.game, s.deferred.stored)
         IN  [game |-> g, deferred |-> NothingDeferred,
              line |-> IF s.deferred.resets THEN LineReset(g, s.line.known) ELSE s.line]

(* prepareCommittedFrame: it waits for the game, but not for ever.         *)
MayWait(s) == s.deferred.waits /\ ~s.game.loaded
Waited(s) == [s EXCEPT !.deferred.since = TRUE]
TimedOut(s) ==
    [s EXCEPT !.deferred = NothingDeferred,
              !.line = IF s.deferred.resets THEN LineReset(s.game, s.line.known) ELSE @]

(* processPending: the game is identified, or the user has logged out.     *)
Processed(s, loaded) ==
    CASE loaded = s.game.loaded -> s
      [] loaded /\ ~s.game.loaded -> [s EXCEPT !.game = Fresh([@ EXCEPT !.loaded = TRUE])]
      [] OTHER -> [s EXCEPT !.game.loaded = FALSE, !.game.progress = NoProgress]

Current == [game |-> game, deferred |-> deferred, line |-> line]
(* Further commands may run before the publication.                        *)
Becomes(s) ==
    /\ game' = s.game
    /\ deferred' = s.deferred
    /\ line' \in {PublishedLine(s.line, s.game), s.line}

Ready == save = "nothing"

(* pausedPoll and publishRaState; with idle, every 100 ms, what is deferred*)
(* is applied.                                                             *)
PausedPoll ==
    /\ Ready
    /\ \E loaded, idle \in BOOLEAN :
           LET s == Processed(Current, loaded)
           IN  Becomes(IF idle THEN Applied(s) ELSE s)
    /\ UNCHANGED <<files, save, computed, kills>>

(* A frame: what is deferred first, then the machine, then committedFrames.*)
FrameRun(s, loaded, captures) ==
    LET run == [s EXCEPT !.game.at = computed + 1]
        g   == Applied(Processed(run, loaded))
        did == IF g.game.loaded THEN [g EXCEPT !.game.progress.at = computed + 1] ELSE g
    IN  IF captures THEN [did EXCEPT !.line = Captured(@, did.game)] ELSE did

Frame ==
    /\ Ready /\ computed < ProgressStates
    /\ ~MayWait(Current)
    /\ \E loaded, captures \in BOOLEAN : Becomes(FrameRun(Applied(Current), loaded, captures))
    /\ computed' = computed + 1
    /\ UNCHANGED <<files, save, kills>>

(* The frame waits for the game; the wait ends and the frame is run.       *)
FrameWaits ==
    /\ Ready /\ MayWait(Current)
    /\ \E loaded, idle \in BOOLEAN :
           LET s == Processed(Waited(Current), loaded)
           IN  Becomes(IF idle THEN Applied(s) ELSE s)
    /\ UNCHANGED <<files, save, computed, kills>>
FrameGivesUp ==
    /\ Ready /\ MayWait(Current) /\ deferred.since
    /\ computed < ProgressStates
    /\ \E loaded, captures \in BOOLEAN : Becomes(FrameRun(TimedOut(Current), loaded, captures))
    /\ computed' = computed + 1
    /\ UNCHANGED <<files, save, kills>>

(* The commands TimelineBack and TimelineForward; at the end of the entries*)
(* Forward is a frame.                                                     *)
StepTo(cursor) ==
    /\ Ready /\ cursor \in DOMAIN line.entries
    /\ LET e == line.entries[cursor]
       IN  game' = RestoredTo([game EXCEPT !.at = e.at], e.progress)
    /\ line' = [line EXCEPT !.cursor = cursor]
    /\ UNCHANGED <<deferred, files, save, computed, kills>>
TimelineBack == StepTo(line.cursor - 1)
TimelineForward == StepTo(line.cursor + 1)

-----------------------------------------------------------------------------
(* sha256Hex: different files, different fingerprints.                     *)
Fingerprint(state) == state

(* SaveState: the state file is truncated and written, then the file beside*)
(* it is replaced (private_file_io.cpp: whole, or not at all), or removed. *)
SaveBegins ==
    /\ Ready
    /\ files' = [files EXCEPT !.state = Torn]
    /\ save' = "state"
    /\ UNCHANGED <<game, line, deferred, computed, kills>>
SaveStateFile ==
    /\ save = "state"
    /\ \/ files' = [files EXCEPT !.state = game.at] /\ save' = "progress"
       \/ UNCHANGED files /\ save' = "nothing"              \* SAVE FAIL
    /\ UNCHANGED <<game, line, deferred, computed, kills>>
SaveProgress ==
    /\ save = "progress"
    /\ \/ /\ Serialized(game) # NoProgress
          /\ files' = [files EXCEPT !.beside = [fingerprint |-> Fingerprint(game.at), progress |-> game.progress]]
          /\ save' \in {"nothing", "invalidate"}            \* its directory was synced, or not
       \/ UNCHANGED files /\ save' = "invalidate"
    /\ UNCHANGED <<game, line, deferred, computed, kills>>
InvalidateProgress ==
    /\ save = "invalidate"
    /\ files' \in {files, [files EXCEPT !.beside.fingerprint = Absent, !.beside.progress = NoProgress]}
    /\ save' = "nothing"
    /\ UNCHANGED <<game, line, deferred, computed, kills>>

(* loadRetroAchievementsProgressV2.  Mutant: whatever lies beside a state  *)
(* is taken for its progress.                                              *)
BesideAny(state, isSlot) == IF isSlot THEN files.beside.progress ELSE NoProgress
Beside(state, isSlot) ==
    IF isSlot /\ files.beside.fingerprint = Fingerprint(state) THEN files.beside.progress ELSE NoProgress

(* LoadState: the slot, or for slot 0 the state of the old layout.         *)
Loads(state, isSlot) ==
    LET stored == Beside(state, isSlot)
        g == [game EXCEPT !.at = state]
        s == Applied([game |-> g, line |-> line,
                      deferred |-> [waits |-> TRUE, stored |-> stored, since |-> FALSE, resets |-> TRUE]])
    IN  /\ game' = s.game
        /\ deferred' = s.deferred
        /\ line' = LineReset(s.game, line.known)
LoadSlot ==
    /\ Ready
    /\ \/ files.state > Absent /\ Loads(files.state, TRUE)
       \/ files.state <= Absent /\ files.old /\ Loads(1, FALSE)
    /\ UNCHANGED <<files, save, computed, kills>>

(* The program ends at any point, and starts again, maybe with another rom.*)
Restarted ==
    /\ kills < MaxKills /\ kills' = kills + 1
    /\ computed < ProgressStates /\ computed' = computed + 1
    /\ \E rom \in Roms :
           LET g == [at |-> computed + 1, loaded |-> FALSE, progress |-> NoProgress, rom |-> rom]
           IN  game' = g /\ line' = LineReset(g, FALSE)
    /\ deferred' = NothingDeferred
    /\ save' = "nothing"
    /\ UNCHANGED files

ProgressInit ==
    /\ \E rom \in Roms : game = [at |-> 1, loaded |-> FALSE, progress |-> NoProgress, rom |-> rom]
    /\ line = LineReset(game, FALSE)
    /\ deferred = NothingDeferred
    /\ \E old \in BOOLEAN :
           files = [state |-> Absent, old |-> old, beside |-> [fingerprint |-> Absent, progress |-> NoProgress]]
    /\ save = "nothing"
    /\ computed = 1 /\ kills = 0

ProgressNext ==
    \/ PausedPoll \/ Frame \/ FrameWaits \/ FrameGivesUp
    \/ TimelineBack \/ TimelineForward
    \/ SaveBegins \/ SaveStateFile \/ SaveProgress \/ InvalidateProgress
    \/ LoadSlot \/ Restarted

ProgressSpec == ProgressInit /\ [][ProgressNext]_progressVars

-----------------------------------------------------------------------------
(* The progress of the game is that of the machine's state: after steps,   *)
(* loads, late identification, failed or cut short saves and another rom,  *)
(* the achievements never see frames that this run of the game did not     *)
(* have.  While a restore is deferred no frame runs.                       *)
ProgressFollowsState ==
    game.loaded /\ ~deferred.waits => game.progress = [at |-> game.at, rom |-> game.rom]
=============================================================================
