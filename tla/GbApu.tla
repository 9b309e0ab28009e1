-------------------------------- MODULE GbApu ---------------------------------
(***************************************************************************)
(* The sound unit of the Game Boy (src/core/apu.cpp): four channels with a *)
(* length counter and a DAC each, three of them with an envelope, the      *)
(* first with a frequency sweep, and the sequencer that clocks all of      *)
(* these.  The wave forms, the mixing and the filter are left out.         *)
(***************************************************************************)
EXTENDS Integers

CONSTANTS FrameSequencerPeriod, \* cycles per step of the sequencer (8192)
          FullLength            \* of each channel's counter (64, 64, 256, 64)

Channels == 1..4

ASSUME ApuAssumption ==
    /\ FrameSequencerPeriod \in Nat \ {0} /\ FullLength \in [Channels -> 1..256]

MaxVolume    == 15
MaxFrequency == 2047

SilentChannel ==
    [enabled |-> FALSE, dac |-> FALSE, length |-> 0, counts |-> FALSE,
     start |-> 0, up |-> FALSE, pace |-> 0,                   \* NRx2
     volume |-> 0, rises |-> FALSE, period |-> 0, timer |-> 0]

NoSweep == [on |-> FALSE, period |-> 0, timer |-> 0, negate |-> FALSE,
            shift |-> 0, shadow |-> 0]

(* Registers that the unit only keeps, the wave memory among them.         *)
WaveMemory == \hFF30..\hFF3F
KeptRegisters == {\hFF11, \hFF16, \hFF1C, \hFF22, \hFF24, \hFF25} \cup WaveMemory

ApuReset == [on |-> FALSE, ch |-> [c \in Channels |-> SilentChannel],
             sweep |-> NoSweep, frequency |-> 0, cycles |-> 0, step |-> 0,
             kept |-> [r \in KeptRegisters |-> 0]]

(* A new unit.                                                             *)
ApuStart == [ApuReset EXCEPT !.on = TRUE,
                             !.kept = [@ EXCEPT ![\hFF24] = 119, ![\hFF25] = 243]]

WithChannel(a, c, ch) == [a EXCEPT !.ch = [@ EXCEPT ![c] = ch]]
WithSweep(a, sweep)   == [a EXCEPT !.sweep = sweep]
WithFrequency(a, f)   == [a EXCEPT !.frequency = f]
WithKept(a, kept)     == [a EXCEPT !.kept = kept]
PoweredOn(a)          == [a EXCEPT !.on = TRUE]

(* resetAll: all but the wave memory.                                      *)
PoweredOff(a) ==
    WithKept(ApuReset, [r \in KeptRegisters |-> IF r \in WaveMemory THEN a.kept[r] ELSE 0])

(* envPeriodOr8                                                            *)
OrEight(p) == IF p = 0 THEN 8 ELSE p

(* applySweep: the next frequency, and whether it can be played.           *)
SweepNext(s) ==
    IF s.negate THEN s.shadow - (s.shadow \div 2^s.shift)
    ELSE s.shadow + (s.shadow \div 2^s.shift)

SweepFits(s) == s.shift = 0 \/ SweepNext(s) <= MaxFrequency

SweepTaken(a) ==
    IF a.sweep.shift = 0 THEN a
    ELSE WithSweep(WithFrequency(a, SweepNext(a.sweep)),
                   [a.sweep EXCEPT !.shadow = SweepNext(a.sweep)])

(* Mutant: a trigger leaves a length of 0.                                 *)
TriggeredKeepingLength(a, c) ==
    WithChannel(a, c, [a.ch[c] EXCEPT !.enabled = a.ch[c].dac, !.volume = a.ch[c].start])

(* triggerSquare, triggerWave, triggerNoise: a channel without a DAC stays *)
(* off, a length that has run out starts afresh, the envelope is reloaded, *)
(* and the first channel takes its sweep.  Whether the first step of the   *)
(* sweep fits is worked out and forgotten.                                 *)
Started(ch, full) ==
    [ch EXCEPT !.enabled = ch.dac, !.length = IF @ = 0 THEN full ELSE @]
EnvelopeReloaded(ch) ==
    [ch EXCEPT !.volume = ch.start, !.rises = ch.up,
               !.period = ch.pace, !.timer = OrEight(ch.pace)]

Triggered(a, c) ==
    LET s == a.sweep
        started == Started(a.ch[c], FullLength[c])
        b == WithChannel(a, c, IF c = 3 THEN started ELSE EnvelopeReloaded(started))
    IN  IF c # 1 THEN b
        ELSE WithSweep(b, [s EXCEPT !.shadow = a.frequency, !.timer = OrEight(s.period),
                                    !.on = (s.period # 0 \/ s.shift # 0)])

(* APU::write: five registers a channel from FF10 on.  While the unit is   *)
(* off only NR52 and the wave memory count.                                *)
NR10 == \hFF10
NR52 == \hFF26
ApuRegisters == NR10..\hFF3F
ChannelOf(address) == ((address - NR10) \div 5) + 1
RegisterOf(address) == (address - NR10) % 5

DacSet(a, c, on) ==
    WithChannel(a, c, [a.ch[c] EXCEPT !.dac = on, !.enabled = (@ /\ on)])

LengthSet(a, c, value) ==
    WithChannel(a, c, [a.ch[c] EXCEPT !.length = FullLength[c] - (value % FullLength[c])])

EnvelopeSet(a, c, value) ==
    LET b == DacSet(a, c, value \div 8 # 0)
    IN  WithChannel(b, c, [b.ch[c] EXCEPT !.start = value \div 16,
                                          !.up = ((value \div 8) % 2 = 1),
                                          !.pace = value % 8])

ControlSet(a, c, value) ==
    LET b == WithChannel(a, c, [a.ch[c] EXCEPT !.counts = ((value \div 64) % 2 = 1)])
        d == IF c # 1 THEN b
             ELSE WithFrequency(b, (value % 8) * 256 + (a.frequency % 256))
    IN  IF value >= 128 THEN Triggered(d, c) ELSE d

SweepSet(a, value) ==
    WithSweep(a, [a.sweep EXCEPT !.period = (value \div 16) % 8,
                                 !.negate = ((value \div 8) % 2 = 1), !.shift = value % 8])

RegisterSet(a, c, r, value) ==
    CASE c = 1 /\ r = 0 -> SweepSet(a, value)
      [] c = 3 /\ r = 0 -> DacSet(a, c, value >= 128)
      [] r = 1 -> LengthSet(a, c, value)
      [] c # 3 /\ r = 2 -> EnvelopeSet(a, c, value)
      [] c = 1 /\ r = 3 -> WithFrequency(a, a.frequency - (a.frequency % 256) + value)
      [] r = 4 -> ControlSet(a, c, value)
      [] OTHER -> a

Keeping(a, address, value) ==
    IF address \in KeptRegisters THEN WithKept(a, [a.kept EXCEPT ![address] = value]) ELSE a

ApuWritten(a, address, value) ==
    LET c == ChannelOf(address)
        b == Keeping(a, address, value)
    IN  IF address = NR52 THEN IF value >= 128 THEN PoweredOn(a) ELSE PoweredOff(a)
        ELSE IF a.on /\ c \in Channels THEN RegisterSet(b, c, RegisterOf(address), value)
        ELSE IF a.on \/ address \in WaveMemory THEN b
        ELSE a

(* NR52 as it is read: which channels sound.                               *)
Sounding(a) == {c \in Channels : a.ch[c].enabled}
ApuStatus(a) ==
    (IF a.on THEN 240 ELSE 112)
    + LET w[c \in 0..4] == IF c = 0 THEN 0
                           ELSE w[c - 1] + IF c \in Sounding(a) THEN 2^(c - 1) ELSE 0
      IN  w[4]

(* APU::read: the bits that can only be written read as 1.                 *)
ApuRead(a, address) ==
    LET r == RegisterOf(address)
        ch == a.ch[ChannelOf(address)]
        kept == a.kept[address]
        Bit(set, b) == IF set THEN b ELSE 0
    IN  CASE address = NR52 -> ApuStatus(a)
          [] address = NR10 -> 128 + 16 * a.sweep.period + Bit(a.sweep.negate, 8) + a.sweep.shift
          [] address \in {\hFF11, \hFF16} -> kept - (kept % 64) + 63
          [] address = \hFF1C -> 159 + 32 * ((kept \div 32) % 4)
          [] address \in KeptRegisters \ {\hFF11, \hFF16, \hFF1C} -> kept
          [] address \in {\hFF12, \hFF17, \hFF21} -> 16 * ch.start + Bit(ch.up, 8) + ch.pace
          [] address = \hFF1A -> 127 + Bit(ch.dac, 128)
          [] address \in NR10..\hFF23 /\ r = 4 -> 191 + Bit(ch.counts, 64)
          [] OTHER -> 255

(* clockLength, clockEnvelope, clockSweep                                  *)
LengthClocked(ch) ==
    IF ~ch.counts \/ ch.length = 0 THEN ch
    ELSE [ch EXCEPT !.length = @ - 1, !.enabled = (@ /\ ch.length > 1)]

EnvelopeClocked(ch) ==
    IF ~ch.enabled \/ ch.period = 0 THEN ch
    ELSE IF ch.timer > 1 THEN [ch EXCEPT !.timer = @ - 1]
    ELSE [ch EXCEPT !.timer = OrEight(ch.period),
                    !.volume = IF ch.rises THEN (IF @ < MaxVolume THEN @ + 1 ELSE @)
                               ELSE (IF @ > 0 THEN @ - 1 ELSE @)]

LengthsClocked(a) == [a EXCEPT !.ch = [c \in Channels |-> LengthClocked(a.ch[c])]]
EnvelopesClocked(a) ==
    [a EXCEPT !.ch = [c \in Channels |-> IF c = 3 THEN a.ch[c] ELSE EnvelopeClocked(a.ch[c])]]

Muted(a, plays) == WithChannel(a, 1, [a.ch[1] EXCEPT !.enabled = (@ /\ plays)])

(* The frequency is written back, and the one after it must fit too.       *)
SweepClocked(a) ==
    LET s == a.sweep
        due == WithSweep(a, [s EXCEPT !.timer = OrEight(s.period)])
        new == SweepTaken(due)
    IN  CASE ~s.on -> a
          [] s.on /\ s.timer > 1 -> WithSweep(a, [s EXCEPT !.timer = @ - 1])
          [] s.on /\ s.timer <= 1 /\ s.period = 0 -> due
          [] s.on /\ s.timer <= 1 /\ s.period # 0 /\ ~SweepFits(s) -> Muted(due, FALSE)
          [] OTHER -> Muted(new, SweepFits(new.sweep))

(* frameSequencerStep: lengths at the even steps, the sweep at 2 and 6,    *)
(* the envelopes at 7.                                                     *)
SequencerStepped(a) ==
    LET step == (a.step + 1) % 8
        b == [a EXCEPT !.step = step]
        lengths == LengthsClocked(b)
    IN  CASE step \in {2, 6} -> SweepClocked(lengths)
          [] step \in {0, 4} -> lengths
          [] step = 7 -> EnvelopesClocked(b)
          [] OTHER -> b

(* APU::tick, of fewer cycles than a period of the sequencer.              *)
ApuTicked(a, cycles) ==
    IF ~a.on THEN a
    ELSE IF a.cycles + cycles < FrameSequencerPeriod
    THEN [a EXCEPT !.cycles = @ + cycles]
    ELSE SequencerStepped([a EXCEPT !.cycles = @ + cycles - FrameSequencerPeriod])

(* A channel that sounds has its DAC on and, if its length counts, will    *)
(* fall silent; a unit that is switched off is silent.                     *)
Sound(a) ==
    /\ \A c \in Channels : a.ch[c].enabled => a.ch[c].dac /\ a.ch[c].length > 0
    /\ ~a.on => Sounding(a) = {}

-----------------------------------------------------------------------------
(* The unit alone: a program that writes any of its registers at any time, *)
(* and time that passes.  Frequency is the frequency the sweep may reach.  *)
CONSTANTS SoundWrites,  \* pairs <<address, value>> that are written
          SoundCycles   \* the lengths of a tick

ASSUME SoundAssumption == SoundWrites \subseteq Nat \X (0..255)

VARIABLE apu

SoundInit == apu = PoweredOn(ApuReset)
WriteSound(w) == apu' = ApuWritten(apu, w[1], w[2])
TickSound(n) == apu' = ApuTicked(apu, n)

SoundNext == \/ \E w \in SoundWrites : WriteSound(w)
             \/ \E n \in SoundCycles : TickSound(n)

SoundSpec == SoundInit /\ [][SoundNext]_apu

(* A note ends: a channel that sounds has its DAC on and a length that is  *)
(* not used up, whatever is written to the registers and whenever.         *)
SoundEnds == Sound(apu)
=============================================================================
