-------------------------------- MODULE GbaApu --------------------------------
(***************************************************************************)
(* The sound unit of the Game Boy Advance (src/core/gba/apu.cpp) and its   *)
(* work in batches.  While the processor runs, the memory only notes, with *)
(* their cycle, the sound registers that are written and the samples the   *)
(* timers take out of the FIFOs; later, when enough cycles have come       *)
(* together or a frame ends, the unit goes through the notes and makes the *)
(* samples of all these cycles.  The four old channels are those of GbApu. *)
(* The wave forms and the filter are left out.                             *)
(***************************************************************************)
EXTENDS GbaMemory

CONSTANTS CyclesPerSample,   \* kCyclesPerSample (512)
          OldCyclesPerSample, \* PsgCyclesPerSample (128)
          OldPeriod,         \* kPsgFrameSequencerPeriod (8192)
          OldLengths,        \* of the old channels' counters
          FlushThreshold,    \* cycles that make a batch (2048)
          MixerTop           \* the largest level of the mixer (1023)

ASSUME GbaApuAssumption ==
    /\ CyclesPerSample \in Nat \ {0} /\ OldPeriod \in Nat \ {0} /\ FlushThreshold \in Nat /\ MixerTop \in Nat
    /\ OldCyclesPerSample \in 1..OldPeriod

VARIABLE audio

Old == INSTANCE GbApu WITH FrameSequencerPeriod <- OldPeriod, FullLength <- OldLengths,
                           SoundWrites <- {}, SoundCycles <- {}, apu <- audio

(* SOUNDCNT_L, _H and _X and SOUNDBIAS: the old channels of each side; the *)
(* FIFOs at full volume, those of each side and their timers; the master   *)
(* switch; the bias.                                                       *)
NewMixer ==
    [l |-> [left |-> {}, right |-> {}], x |-> [on |-> FALSE],
     bias |-> [level |-> (MixerTop + 1) \div 2],
     h |-> [full |-> {}, left |-> {}, right |-> {}, timer |-> [f \in Fifos |-> 0]]]
Mixers == DOMAIN NewMixer
Quiet == [f \in Fifos |-> 0]

(* Apu::reset                                                              *)
NewUnit == [old |-> Old!PoweredOn(Old!ApuReset), now |-> Quiet, mixer |-> NewMixer, phase |-> 0, made |-> <<>>]

(* applyAudioRegisterWrite: five registers for each old channel.           *)
OldWritten(old, w) == Old!RegisterSet(old, w.channel, w.register, w.value.byte)

(* stepPsg, of k samples                                                   *)
OldStepped(old, k) ==
    LET after[i \in 0..k] == IF i = 0 THEN old ELSE Old!ApuTicked(after[i - 1], OldCyclesPerSample)
    IN  after[k]

(* The two sides of a sample: the FIFOs that play there, within what the   *)
(* bias leaves; and the old channels that are mixed in.                    *)
Biased(level, bias) ==
    IF level + bias < 0 THEN -bias ELSE IF level + bias > MixerTop THEN MixerTop - bias ELSE level

Mixed(now, mixer) ==
    LET volume(f) == IF f \in mixer.h.full THEN 2 ELSE 1
        part(who, f) == IF f \in who THEN volume(f) * now[f] ELSE 0
        side(who) == Biased(part(who, 0) + part(who, 1), mixer.bias.level)
    IN  IF mixer.x.on THEN <<side(mixer.h.left), side(mixer.h.right)>> ELSE <<0, 0>>

OldHeard(old, mixer) ==
    IF mixer.x.on THEN <<Old!Sounding(old) \cap mixer.l.left, Old!Sounding(old) \cap mixer.l.right>> ELSE <<{}, {}>>

(* flushSegment: the samples of some cycles.  The old channels move on     *)
(* while one of them sounds.                                               *)
Flushed(u, cycles) ==
    LET k == (u.phase + cycles) \div CyclesPerSample
        moves == u.mixer.x.on /\ Old!Sounding(u.old) # {}
        old(i) == IF moves THEN OldStepped(u.old, i) ELSE u.old
        sample(i) == [fifos |-> Mixed(u.now, u.mixer), old |-> OldHeard(old(i), u.mixer)]
    IN  [u EXCEPT !.phase = (u.phase + cycles) % CyclesPerSample, !.old = old(k),
                  !.made = @ \o [i \in 1..k |-> sample(i)]]

(* A register that was written, and a sample that left its FIFO.           *)
WriteApplied(u, w) ==
    IF w.to \in Mixers THEN [u EXCEPT !.mixer[w.to] = w.value] ELSE [u EXCEPT !.old = OldWritten(@, w)]
SampleApplied(u, e) == [u EXCEPT !.now[e.fifo] = e.sample]

(* Mutant: all the samples first, and then the registers.                  *)
WritesLast(i, j, writes, events) == j = Len(events) /\ i < Len(writes)

(* Which of the notes is next: the writes of a cycle go before its samples.*)
WriteIsNext(i, j, writes, events) ==
    i < Len(writes) /\ (j = Len(events) \/ writes[i + 1].cycle <= events[j + 1].cycle)

(* Apu::tick: the notes in turn, with the samples up to each; in the end   *)
(* the registers and the FIFOs are looked at again.                        *)
Reaching(r, cycle) ==
    IF cycle > r.elapsed THEN [r EXCEPT !.u = Flushed(r.u, cycle - r.elapsed), !.elapsed = cycle] ELSE r

AudioTicked(u, a) ==
    LET after[n \in 0 .. Len(a.writes) + Len(a.events)] ==
            IF n = 0 THEN [u |-> [u EXCEPT !.made = <<>>], i |-> 0, j |-> 0, elapsed |-> 0]
            ELSE LET r == after[n - 1]
                 IN  IF WriteIsNext(r.i, r.j, a.writes, a.events)
                     THEN LET w == a.writes[r.i + 1] IN  [Reaching(r, w.cycle) EXCEPT !.u = WriteApplied(@, w.w), !.i = @ + 1]
                     ELSE LET e == a.events[r.j + 1] IN  [Reaching(r, e.cycle) EXCEPT !.u = SampleApplied(@, e), !.j = @ + 1]
        all == Reaching(after[Len(a.writes) + Len(a.events)], a.base).u
    IN  [all EXCEPT !.mixer = a.registers, !.now = a.last]

-----------------------------------------------------------------------------
(* The unit with the memory before it: what a program writes, the timers   *)
(* that overflow at some cycles of a step, and the end of a batch.  The    *)
(* samples of a FIFO follow each other round 1..SampleKinds.               *)
CONSTANTS AudioSetups,   \* what programs have written when the model begins
          AudioWrites,   \* and what they write: to a register of the mixer or of a channel, with the FIFOs that empties
          AudioSteps,    \* pairs of the cycles of a step and those at which timer 0 and timer 1 overflow
          SampleKinds,
          AudioCycles,   \* bound: cycles that pass
          MaxNotes       \* bound: writes that wait before another

(* The memory's part: audioFifoEvents_, audioRegisterWriteEvents_,         *)
(* audioFifoEventBaseCycles_, the registers and each FIFO's lastSample.    *)
NewNotes == [events |-> <<>>, writes |-> <<>>, base |-> 0, registers |-> NewMixer, last |-> Quiet]

(* recordAudioRegisterWrite, and resetAudioFifo of SOUNDCNT_H              *)
WriteNoted(a, w) ==
    [a EXCEPT !.writes = Append(@, [cycle |-> a.base, w |-> w]),
              !.registers = IF w.to \in Mixers THEN [@ EXCEPT ![w.to] = w.value] ELSE @,
              !.last = [f \in Fifos |-> IF f \in w.empties THEN 0 ELSE @[f]]]

(* tickAudioFifosForTimer at a cycle of the step                           *)
NextSample(s) == (s % SampleKinds) + 1
PlaysOn(a, f, i) == f \in a.registers.h.left \cup a.registers.h.right /\ a.registers.h.timer[f] = i

SampleNoted(a, f, i, cycle) ==
    IF ~PlaysOn(a, f, i) THEN a
    ELSE [a EXCEPT !.last[f] = NextSample(@),
                   !.events = Append(@, [cycle |-> a.base + cycle, fifo |-> f, sample |-> NextSample(a.last[f])])]

(* Memory::step: timer 0 through all of the cycles, then timer 1.          *)
NotesStepped(a, n, overflows) ==
    LET ticked(b, i, cycle) == IF cycle \in overflows[i] THEN SampleNoted(SampleNoted(b, 0, i, cycle), 1, i, cycle) ELSE b
        run[k \in 0 .. 2 * n] == IF k = 0 THEN a ELSE ticked(run[k - 1], (k - 1) \div n, ((k - 1) % n) + 1)
    IN  [run[2 * n] EXCEPT !.base = @ + n]

(* The listener's account of a step, made as the cycles pass: at each slot *)
(* the registers as they are, and each FIFO's newest sample.               *)
Newest(tone, events, f, cycle) ==
    LET before == {n \in DOMAIN events : events[n].fifo = f /\ events[n].cycle < cycle}
    IN  IF before = {} THEN tone ELSE events[CHOOSE n \in before : \A m \in before : m <= n].sample

Owed(s, after, n) ==
    LET slots == {k \in 1..n : (s.total + k) % CyclesPerSample = 0}
        sound(k) == Mixed([f \in Fifos |-> Newest(s.tone[f], after.events, f, s.memory.base + k)], after.registers)
        due[k \in 0..n] == IF k = 0 THEN <<>> ELSE IF k \in slots THEN Append(due[k - 1], sound(k)) ELSE due[k - 1]
    IN  due[n]

InOrder(events) == \A m, n \in DOMAIN events : m < n => events[m].cycle <= events[n].cycle

(* due: the samples the listener is owed for a batch; tone: each FIFO's    *)
(* newest sample before it; inOrder: its notes were in the order of their  *)
(* cycles.                                                                 *)
AudioInit ==
    \E setup \in AudioSetups :
        LET noted[k \in 0 .. Len(setup)] == IF k = 0 THEN NewNotes ELSE WriteNoted(noted[k - 1], setup[k])
        IN  audio = [unit |-> NewUnit, memory |-> noted[Len(setup)], total |-> 0, due |-> <<>>, tone |-> Quiet,
                     inOrder |-> TRUE]

(* An instruction, or a transfer at the start of an HBlank, writes.        *)
AudioWrite(w) ==
    /\ Len(audio.memory.writes) < MaxNotes
    /\ audio' = [audio EXCEPT !.memory = WriteNoted(@, w)]

(* The memory is stepped; a batch that is due is not put off.              *)
AudioStep(n, overflows) ==
    /\ audio.memory.base < FlushThreshold /\ audio.total + n <= AudioCycles
    /\ \E after \in {NotesStepped(audio.memory, n, overflows)} :
        audio' = [audio EXCEPT !.memory = after, !.total = @ + n,
                               !.due = (IF audio.memory.base = 0 THEN <<>> ELSE @) \o Owed(audio, after, n)]

(* flushPendingApuCycles: enough cycles, or the end of a frame.            *)
AudioFlush ==
    /\ audio.memory.base > 0
    /\ \E unit \in {AudioTicked(audio.unit, audio.memory)} :
        audio' = [audio EXCEPT !.unit = unit, !.tone = audio.memory.last, !.inOrder = InOrder(audio.memory.events),
                               !.memory = [@ EXCEPT !.events = <<>>, !.writes = <<>>, !.base = 0]]

AudioNext ==
    \/ \E w \in AudioWrites : AudioWrite(w)
    \/ \E step \in AudioSteps : AudioStep(step[1], step[2])
    \/ AudioFlush

-----------------------------------------------------------------------------
(* However the cycles are gathered into batches, each sample is what the   *)
(* registers and the FIFOs' newest samples were in its own cycle (tick).   *)
(* Two exceptions: a FIFO that is emptied falls silent with the next batch *)
(* only, and a step in which timer 1 overflows before timer 0 does notes   *)
(* the samples out of order.                                               *)
SamplesOnTime ==
    audio.memory.base = 0 /\ audio.inOrder => [n \in DOMAIN audio.unit.made |-> audio.unit.made[n].fifos] = audio.due
=============================================================================
