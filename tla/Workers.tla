------------------------------- MODULE Workers --------------------------------
(***************************************************************************)
(* The threads of the real-time frontend and what they hand to each other  *)
(* (src/app/frontend/realtime.cpp): the emulation worker pushes pictures   *)
(* and samples, the render worker converts pictures, the audio worker      *)
(* feeds the sound device, the UI thread shows the newest picture, opens   *)
(* and closes the audio gate, and at the end closes the queues and joins   *)
(* the workers (EmulationWorker::stop).                                    *)
(*                                                                         *)
(* A picture is its sequence number, a sample the number of its place in   *)
(* the sound.  The frame and the two pushes at its end run under gbMutex;  *)
(* the queues have mutexes of their own, so the pushes are steps.          *)
(***************************************************************************)
EXTENDS WorkerQueues

CONSTANTS MaxChunk,    \* samples of a frame; the audio worker pops as many
          DeviceLimit, \* samples the device may hold (one second of sound)
          MaxFrames,   \* bound: pictures
          MaxGates     \* bound: times the user changes pause or mute

ASSUME WorkersAssumption ==
    MaxChunk \in Nat /\ DeviceLimit \in Nat /\ MaxFrames \in Nat /\ MaxGates \in Nat

VARIABLES
    mtRunning,
    gate,      \* audioGateAtomic
    sequence,  \* frameSequence
    raw, rgb,  \* rawFrameQueue and rgbFrameQueue
    ring,      \* audioRing
    emu,       \* what the emulation worker does next
    render,    \* what the render worker does next
    latest,    \* the picture the render worker converts
    audio,     \* what the audio worker does next
    chunk,     \* the samples it popped
    device,    \* the samples queued at the sound device
    ui,        \* the UI thread runs, or which step of the shutdown it is at
    shown,     \* history variable: the picture on the screen
    sound,     \* history variable: samples generated so far
    played,    \* history variable: the last sample queued at the device
    gates      \* bounded by MaxGates

video == <<raw, rgb, render, latest, shown>>
audioVars == <<ring, audio, chunk, device, played>>
vars == <<mtRunning, gate, sequence, emu, ui, sound, gates, video, audioVars>>

(* The first picture is pushed and the gate set before the workers start.  *)
Init ==
    /\ mtRunning = TRUE /\ gate \in BOOLEAN
    /\ sequence = 1 /\ raw = Pushed(Opened, 1) /\ rgb = Opened
    /\ ring = EmptyRing
    /\ emu = "check" /\ render = "wait" /\ audio = "check" /\ ui = "run"
    /\ latest = 0 /\ shown = 0
    /\ chunk = <<>> /\ device = <<>>
    /\ sound = 0 /\ played = 0 /\ gates = 0

-----------------------------------------------------------------------------
(* The emulation worker.  A paused one just does not get to its frame.     *)
EmuCheck ==
    /\ emu = "check"
    /\ emu' = IF mtRunning THEN "frame" ELSE "ended"
    /\ UNCHANGED <<mtRunning, gate, sequence, ui, sound, gates, video, audioVars>>

EmuIdles ==
    /\ emu = "frame"
    /\ emu' = "check"
    /\ UNCHANGED <<mtRunning, gate, sequence, ui, sound, gates, video, audioVars>>

(* enqueueRawFrameLocked                                                   *)
EnqueueRaw ==
    /\ sequence < MaxFrames
    /\ sequence' = sequence + 1
    /\ raw' = Pushed(raw, sequence + 1)
    /\ UNCHANGED <<rgb, render, latest, shown>>

EmuFrame ==
    /\ emu = "frame"
    /\ EnqueueRaw
    /\ emu' = "sound"
    /\ UNCHANGED <<mtRunning, gate, ui, sound, gates, audioVars>>

(* A frame after which netplay rolls back (realtime.cpp:1822-1848), all of *)
(* it under gbMutex: the samples of the frames run again are thrown away,  *)
(* the ring is cleared, then the device; the picture is pushed, and no     *)
(* sound is left to push.                                                  *)
EmuRollsBack ==
    /\ emu = "frame" /\ sequence < MaxFrames
    /\ sound' = sound + MaxChunk
    /\ ring' = ClearedRing(ring)
    /\ emu' = "unqueue"
    /\ UNCHANGED <<mtRunning, gate, sequence, ui, gates, video, audio, chunk, device,
                   played>>

EmuUnqueues ==
    /\ emu = "unqueue"
    /\ device' = <<>>
    /\ emu' = "quiet"
    /\ UNCHANGED <<mtRunning, gate, sequence, ui, sound, gates, video, ring, audio,
                   chunk, played>>

EmuQuietFrame ==
    /\ emu = "quiet"
    /\ EnqueueRaw
    /\ emu' = "check"
    /\ UNCHANGED <<mtRunning, gate, ui, sound, gates, audioVars>>

EmuSound ==
    /\ emu = "sound"
    /\ ring' = IF gate THEN PushedSamples(ring, [i \in 1..MaxChunk |-> sound + i])
               ELSE ring
    /\ sound' = sound + MaxChunk
    /\ emu' = "check"
    /\ UNCHANGED <<mtRunning, gate, sequence, ui, gates, video, audio, chunk, device,
                   played>>

-----------------------------------------------------------------------------
(* The render worker.                                                      *)
RenderWait ==
    /\ render = "wait" /\ CanPop(raw)
    /\ IF PopFails(raw)
       THEN render' = "ended" /\ UNCHANGED <<raw, latest>>
       ELSE render' = "newest" /\ latest' = Oldest(raw) /\ raw' = Popped(raw)
    /\ UNCHANGED <<mtRunning, gate, sequence, emu, ui, sound, gates, rgb, shown,
                   audioVars>>

RenderNewest ==
    /\ render = "newest"
    /\ IF raw.items = <<>>
       THEN render' = "push" /\ UNCHANGED <<raw, latest>>
       ELSE latest' = Latest(raw) /\ raw' = Emptied(raw) /\ UNCHANGED render
    /\ UNCHANGED <<mtRunning, gate, sequence, emu, ui, sound, gates, rgb, shown,
                   audioVars>>

RenderPush ==
    /\ render = "push"
    /\ rgb' = Pushed(rgb, latest)
    /\ render' = "wait"
    /\ UNCHANGED <<mtRunning, gate, sequence, emu, ui, sound, gates, raw, latest,
                   shown, audioVars>>

-----------------------------------------------------------------------------
(* The audio worker.  While the gate is closed it clears the ring and the  *)
(* device; otherwise it moves what pop returns, after emptying a device    *)
(* that has fallen more than its limit behind.                             *)
AudioStep(from, to) ==
    /\ audio = from /\ audio' = to
    /\ UNCHANGED <<mtRunning, gate, sequence, emu, ui, sound, gates, video>>

AudioCheck ==
    /\ AudioStep("check", IF mtRunning THEN "gate" ELSE "final")
    /\ UNCHANGED <<ring, chunk, device, played>>

AudioGate ==
    /\ AudioStep("gate", IF gate THEN "pop" ELSE "clear")
    /\ UNCHANGED <<ring, chunk, device, played>>

AudioClear ==
    /\ AudioStep("clear", "silence")
    /\ ring' = ClearedRing(ring)
    /\ UNCHANGED <<chunk, device, played>>

(* Mutant: the device keeps what was queued.                               *)
AudioKeeps ==
    /\ AudioStep("silence", "check")
    /\ UNCHANGED <<ring, chunk, device, played>>

AudioSilence ==
    /\ AudioStep("silence", "check")
    /\ device' = <<>>
    /\ UNCHANGED <<ring, chunk, played>>

AudioPop ==
    /\ AudioStep("pop", IF Count(ring, MaxChunk) = 0 THEN "check" ELSE "queue")
    /\ chunk' = Samples(ring, Count(ring, MaxChunk))
    /\ ring' = PoppedSamples(ring, MaxChunk)
    /\ UNCHANGED <<device, played>>

AudioQueue ==
    /\ AudioStep("queue", "check")
    /\ device' = (IF Len(device) > DeviceLimit THEN <<>> ELSE device) \o chunk
    /\ played' = chunk[Len(chunk)]
    /\ chunk' = <<>>
    /\ UNCHANGED ring

AudioFinal ==
    /\ AudioStep("final", "ended")
    /\ device' = <<>>
    /\ UNCHANGED <<ring, chunk, played>>

(* The sound card plays a sample.                                          *)
DevicePlays ==
    /\ device # <<>>
    /\ device' = Tail(device)
    /\ UNCHANGED <<mtRunning, gate, sequence, emu, ui, sound, gates, video, ring,
                   audio, chunk, played>>
-----------------------------------------------------------------------------
(* The UI thread shows the newest picture...                               *)
UiShows ==
    /\ ui = "run" /\ rgb.items # <<>>
    /\ shown' = Latest(rgb)
    /\ rgb' = Emptied(rgb)
    /\ UNCHANGED <<mtRunning, gate, sequence, emu, ui, sound, gates, raw, render,
                   latest, audioVars>>

(* ...steps the timeline or loads a state, under gbMutex...                *)
UiEnqueues ==
    /\ ui = "run" /\ emu \notin {"sound", "unqueue", "quiet"}
    /\ EnqueueRaw
    /\ UNCHANGED <<mtRunning, gate, emu, ui, sound, gates, audioVars>>

(* ...and pauses or mutes: first the ring and the device are cleared, the  *)
(* gate follows at the next syncThreadState.                               *)
UiSilences ==
    /\ ui = "run" /\ gate /\ gates < MaxGates
    /\ gates' = gates + 1
    /\ ring' = ClearedRing(ring)
    /\ device' = <<>>
    /\ UNCHANGED <<mtRunning, gate, sequence, emu, ui, sound, video, audio, chunk,
                   played>>

UiGate ==
    /\ ui = "run" /\ gates < MaxGates
    /\ gates' = gates + 1
    /\ gate' = ~gate
    /\ UNCHANGED <<mtRunning, sequence, emu, ui, sound, video, audioVars>>

(* The shutdown: close the gate, then workers.stop(): the flag, the        *)
(* queues, the joins in the order the workers were started.                *)
Shutdown == <<"run", "gate", "flag", "raw", "rgb", "ring",
              "render", "audio", "emu", "ended">>

UiSteps == {Shutdown[i] : i \in 1..10}

Follows(step) == Shutdown[1 + CHOOSE i \in 1..9 : Shutdown[i] = step]

Joins == [render |-> render, audio |-> audio, emu |-> emu]

UiStops ==
    /\ ui # "ended"
    /\ ui \in DOMAIN Joins => Joins[ui] = "ended"
    /\ ui' = Follows(ui)
    /\ gate' = (gate /\ ui # "gate")
    /\ mtRunning' = (mtRunning /\ ui # "flag")
    /\ raw' = IF ui = "raw" THEN Closed(raw) ELSE raw
    /\ rgb' = IF ui = "rgb" THEN Closed(rgb) ELSE rgb
    /\ ring' = IF ui = "ring" THEN ClosedRing(ring) ELSE ring
    /\ UNCHANGED <<sequence, emu, sound, gates, render, latest, shown, audio, chunk,
                   device, played>>

-----------------------------------------------------------------------------
Emu    == \/ EmuCheck \/ EmuIdles \/ EmuFrame \/ EmuSound
          \/ EmuRollsBack \/ EmuUnqueues \/ EmuQuietFrame
Render == RenderWait \/ RenderNewest \/ RenderPush
Audio  == \/ AudioCheck \/ AudioGate \/ AudioClear \/ AudioSilence
          \/ AudioPop \/ AudioQueue \/ AudioFinal
Ui     == UiShows \/ UiEnqueues \/ UiSilences \/ UiGate \/ UiStops

Next == Emu \/ Render \/ Audio \/ DevicePlays \/ Ui

Spec == Init /\ [][Next]_vars

(* The workers are scheduled; the UI thread shows what there is at every   *)
(* turn of its loop, and once it has begun to stop it goes on.             *)
Fairness ==
    /\ WF_vars(EmuCheck) /\ WF_vars(EmuIdles \/ EmuFrame \/ EmuRollsBack)
    /\ WF_vars(EmuSound) /\ WF_vars(EmuUnqueues) /\ WF_vars(EmuQuietFrame)
    /\ WF_vars(Render) /\ WF_vars(Audio)
    /\ WF_vars(UiShows) /\ WF_vars(ui # "run" /\ UiStops)

FairSpec == Spec /\ Fairness

-----------------------------------------------------------------------------
(* Every variable has its type; the queues and the ring keep their limits, *)
(* and what is between the two positions of the ring is its size.          *)
IsQueue(q) ==
    /\ q \in [items : Seq(Nat), closed : BOOLEAN]
    /\ Len(q.items) <= MaxDepth

IsRing(r) ==
    /\ r \in [data : [0..(Capacity - 1) -> Nat],
              read : 0..(Capacity - 1), write : 0..(Capacity - 1),
              size : 0..Capacity, closed : BOOLEAN]
    /\ r.write = (r.read + r.size) % Capacity

TypeOK ==
    /\ mtRunning \in BOOLEAN /\ gate \in BOOLEAN
    /\ sequence \in Nat /\ latest \in Nat /\ shown \in Nat
    /\ sound \in Nat /\ played \in Nat /\ gates \in Nat
    /\ IsQueue(raw) /\ IsQueue(rgb) /\ IsRing(ring)
    /\ chunk \in Seq(Nat) /\ device \in Seq(Nat)
    /\ emu \in {"check", "frame", "sound", "unqueue", "quiet", "ended"}
    /\ render \in {"wait", "newest", "push", "ended"}
    /\ audio \in {"check", "gate", "clear", "silence", "pop", "queue", "final", "ended"}
    /\ ui \in UiSteps

(* The picture never goes back: two queues that drop, a worker that skips  *)
(* ahead and two threads that push keep the pictures in the order of the   *)
(* frames (realtime.cpp:427-433, 1149-1182, 3803).                         *)
PictureNeverGoesBack == [][shown' >= shown]_vars

(* The newest picture is never lost: whatever was dropped on the way, the  *)
(* screen ends up at the last frame that was run, so a paused game shows   *)
(* where it really is.                                                     *)
LastPictureIsShown == []<>(shown = sequence \/ ui # "run")

(* Samples reach the device in the order they were made and never twice:   *)
(* when the audio worker queues its chunk, each sample of it was made      *)
(* after the one before it and after all that were queued earlier, with    *)
(* clears from three threads and drops at a full ring                      *)
(* (audio_ring_buffer.cpp:11-59, realtime.cpp:1019, 1202, 1841).           *)
InOrderAfter(s, last) ==
    \A i \in DOMAIN s : last < s[i] /\ \A j \in DOMAIN s : i < j => s[i] < s[j]

SoundNeverRepeats ==
    [][audio = "queue" /\ audio' # "queue" => InOrderAfter(chunk, played)]_vars

(* A closed gate silences the device (realtime.cpp:1201-1206): whatever    *)
(* was popped or pushed while the user paused does not stay queued.        *)
GateSilences == ~gate ~> (device = <<>> \/ gate)

(* The shutdown ends: no worker waits for an item that never comes, and    *)
(* every join returns (realtime.cpp:1136-1141, emulation_worker.cpp:14-27).*)
ShutdownEnds == ui = "flag" ~> ui = "ended"
=============================================================================
