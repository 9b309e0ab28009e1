------------------------------ MODULE GbaMemory -------------------------------
(***************************************************************************)
(* The registers and the memory of the Game Boy Advance                    *)
(* (src/core/gba/memory.cpp) as a record: timers, interrupts, keypad, the  *)
(* two sound FIFOs and the four DMA channels.  A word of memory is a tuple *)
(* of the WordSamples bytes in it; an address is its index, or the port of *)
(* a FIFO.                                                                 *)
(***************************************************************************)
EXTENDS Integers, Sequences, FiniteSets

LOCAL INSTANCE SequencesExt

CONSTANTS TopCount,      \* largest value of a timer's counter (65535)
          Prescalers,    \* cycles per count, by the two bits of the control (1, 64, 256, 1024)
          FifoSize,      \* samples in a FIFO (32)
          FifoLow,       \* samples at which its DMA is asked for more (16)
          FifoUnits,     \* words such a request moves (4)
          WordSamples,   \* samples in a word (4)
          FullCounts,    \* words a count of zero means, by channel (16384, the last 65536)
          RamWords,       \* words of memory, which repeats (the 256 KiB of EWRAM)
          StackSize      \* words of the other memory, where the stacks are (32 KiB)

ASSUME GbaMemoryAssumption ==
    /\ TopCount \in Nat \ {0} /\ FifoUnits \in Nat \ {0} /\ WordSamples \in Nat \ {0}
    /\ RamWords \in Nat \ {0} /\ StackSize \in Nat /\ Prescalers \in [0..3 -> Nat \ {0}] /\ FullCounts \in [0..3 -> Nat \ {0}]
    /\ FifoLow \in Nat /\ FifoLow + FifoUnits * WordSamples <= FifoSize

TimerIds == 0..3
DmaChannels == 0..3
Fifos == {0, 1}
FifoPort(f) == -1 - f

(* The bits of IE and IF.                                                  *)
VBlankIrq == 0
HBlankIrq == 1
VCountIrq == 2
TimerInterrupt(i) == 3 + i
DmaIrq(ch) == 8 + ch
KeypadIrq == 12

(* When a channel starts: at once, at VBlank, at HBlank, when a FIFO asks. *)
Immediate == 0
AtVBlank == 1
AtHBlank == 2
Special == 3

StoppedTimer == [reload |-> 0, counter |-> 0, on |-> FALSE, cascade |-> FALSE, irq |-> FALSE, scale |-> 0, sub |-> 0]
IdleChannel == [src |-> 0, dst |-> 0, count |-> 0, on |-> FALSE, timing |-> Immediate, irq |-> FALSE, repeat |-> FALSE,
                wide |-> TRUE, srcStep |-> 1, dstStep |-> 1, reload |-> FALSE]
EmptyFifo == [data |-> <<>>, last |-> 0]

NewStack == [a \in 0 .. StackSize |-> 0]
ZeroWord == [i \in 1..WordSamples |-> 0]

(* Memory::reset, with the memory the program brings.                      *)
NewMemory(ram) ==
    [ram |-> ram,
     timer |-> [i \in TimerIds |-> StoppedTimer],
     ie |-> {}, flags |-> {}, ime |-> FALSE,
     pressed |-> {}, keycnt |-> [mask |-> {}, irq |-> FALSE, all |-> FALSE],
     fifo |-> [f \in Fifos |-> EmptyFifo],
     route |-> [f \in Fifos |-> [on |-> FALSE, timer |-> 0]],   \* SOUNDCNT_H
     events |-> [f \in Fifos |-> <<>>],                         \* audioFifoEvents_
     dma |-> [ch \in DmaChannels |-> IdleChannel],
     stack |-> NewStack,
     biosFlags |-> {}, boot |-> FALSE, handler |-> 0,            \* 0x03007FF8, bit 0 of 0x03007FFA, 0x03007FFC
     dispstat |-> [v |-> FALSE, h |-> FALSE, match |-> FALSE, irqs |-> {}, lyc |-> 0],
     vcount |-> 0, scroll |-> 0, video |-> 0,                    \* what a line and the whole picture depend on
     timed |-> FALSE, access |-> 0, deferred |-> 0]             \* accessTimingActive_, accessCycles_

Requested(g, irq) == [g EXCEPT !.flags = @ \cup {irq}]
Acknowledged(g, irqs) == [g EXCEPT !.flags = @ \ irqs]
PendingInterrupts(g) == g.ie \cap g.flags

-----------------------------------------------------------------------------
(* updateKeypadInterrupt                                                   *)
KeysMatch(g) ==
    /\ g.keycnt.irq /\ g.keycnt.mask # {}
    /\ IF g.keycnt.all THEN g.keycnt.mask \subseteq g.pressed ELSE g.keycnt.mask \cap g.pressed # {}

KeysChecked(g) == IF KeysMatch(g) THEN Requested(g, KeypadIrq) ELSE g

KeysSet(g, keys) == KeysChecked([g EXCEPT !.pressed = keys])
KeyControlWritten(g, control) == KeysChecked([g EXCEPT !.keycnt = control])

-----------------------------------------------------------------------------
(* writeAudioFifo: a full FIFO loses its oldest sample.                    *)
SamplePushed(data, sample) == Append(IF Len(data) < FifoSize THEN data ELSE Tail(data), sample)

FifoWritten(g, f, word) == [g EXCEPT !.fifo[f].data = FoldLeft(SamplePushed, @, word)]

SoundControlWritten(g, route, resets) ==
    [g EXCEPT !.route = route, !.fifo = [f \in Fifos |-> IF f \in resets THEN EmptyFifo ELSE @[f]]]

(* executeDmaTransfer.  The time of the transfer is the instruction's that *)
(* runs, or is kept until the machine asks for it.                         *)
IsSoundDma(d, ch) == d.timing = Special /\ ch \in {1, 2} /\ d.wide /\ \E f \in Fifos : d.dst = FifoPort(f)

WordMoved(g, src, dst) ==
    LET word == g.ram[src % RamWords]
    IN  IF dst < 0 THEN FifoWritten(g, -1 - dst, word) ELSE [g EXCEPT !.ram[dst % RamWords] = word]

DmaUnits(d, ch) ==
    IF IsSoundDma(d, ch) THEN FifoUnits ELSE IF d.count = 0 THEN FullCounts[ch] ELSE d.count

(* Mutant: the next transfer begins again at the first word.               *)
DmaWrittenBackShort(d, ch) == [d EXCEPT !.on = (d.repeat \/ IsSoundDma(d, ch)) /\ d.timing # Immediate]

DmaWrittenBack(d, ch) ==
    LET units == DmaUnits(d, ch)
        sound == IsSoundDma(d, ch)
    IN  [d EXCEPT !.src = @ + units * d.srcStep,
                  !.dst = IF sound \/ d.reload THEN @ ELSE @ + units * d.dstStep,
                  !.on = (d.repeat \/ sound) /\ d.timing # Immediate]

DmaExecuted(g, ch, timing) ==
    LET d     == g.dma[ch]
        units == DmaUnits(d, ch)
        step  == IF IsSoundDma(d, ch) THEN 0 ELSE d.dstStep
        moved[i \in 0..units] ==
            IF i = 0 THEN g ELSE WordMoved(moved[i - 1], d.src + (i - 1) * d.srcStep, d.dst + (i - 1) * step)
        after == [moved[units] EXCEPT
                    !.dma[ch] = DmaWrittenBack(d, ch),
                    !.access = IF g.timed THEN @ + 2 * units ELSE @,
                    !.deferred = IF g.timed THEN @ ELSE @ + 2 * units]
    IN  IF d.timing # timing THEN g ELSE IF d.irq THEN Requested(after, DmaIrq(ch)) ELSE after

(* triggerDmaStart and triggerSoundFifoDma, channel after channel.         *)
DmaStarted(g, timing) ==
    LET run[ch \in 0..4] ==
            IF ch = 0 THEN g
            ELSE IF run[ch - 1].dma[ch - 1].on THEN DmaExecuted(run[ch - 1], ch - 1, timing) ELSE run[ch - 1]
    IN  run[4]

FifoDmaStarted(g, f) ==
    LET asks(m, ch) == m.dma[ch].on /\ m.dma[ch].timing = Special /\ m.dma[ch].dst = FifoPort(f)
        run[ch \in 0..2] ==
            IF ch = 0 THEN g
            ELSE IF asks(run[ch - 1], ch) THEN DmaExecuted(run[ch - 1], ch, Special) ELSE run[ch - 1]
    IN  run[2]

DmaControlWritten(g, ch, d) ==
    LET set == [g EXCEPT !.dma[ch] = d]
    IN  IF d.on /\ d.timing = Immediate THEN DmaExecuted(set, ch, Immediate) ELSE set

(* tickAudioFifosForTimer, for one overflow                                *)
SamplePlayed(g, f) ==
    LET q   == g.fifo[f]
        one == IF q.data = <<>> THEN q ELSE [data |-> Tail(q.data), last |-> Head(q.data)]
        out == [g EXCEPT !.fifo[f] = one, !.events[f] = Append(@, one.last)]
    IN  IF Len(one.data) <= FifoLow THEN FifoDmaStarted(out, f) ELSE out

FifosTicked(g, i) ==
    LET plays(f) == i <= 1 /\ g.route[f].on /\ g.route[f].timer = i
        run[f \in -1..1] ==
            IF f = -1 THEN g ELSE IF plays(f) THEN SamplePlayed(run[f - 1], f) ELSE run[f - 1]
    IN  run[1]

-----------------------------------------------------------------------------
(* tickTimer: n counts, with an overflow each time the top is passed.      *)
Overflowed(g, i) == IF g.timer[i].irq THEN Requested(g, TimerInterrupt(i)) ELSE g

Counted(g, i) ==
    IF g.timer[i].counter < TopCount THEN [g EXCEPT !.timer[i].counter = @ + 1]
    ELSE Overflowed(FifosTicked([g EXCEPT !.timer[i].counter = g.timer[i].reload], i), i)

OverflowsOf(t, n) ==
    IF n <= TopCount - t.counter THEN 0
    ELSE 1 + ((n - (TopCount - t.counter) - 1) \div (TopCount + 1 - t.reload))

SubCycles(t, cycles) == (t.sub + cycles) % Prescalers[t.scale]

Cascades(t, i) == i > 0 /\ t.cascade

(* The memory after the timer's counts, and its overflows.                 *)
TimerRun(done, i, cycles) ==
    LET g == done.g
        t == g.timer[i]
        n == IF Cascades(t, i) THEN done.carry ELSE (t.sub + cycles) \div Prescalers[t.scale]
        set == IF Cascades(t, i) THEN g ELSE [g EXCEPT !.timer[i].sub = SubCycles(t, cycles)]
        count[k \in 0..n] == IF k = 0 THEN set ELSE Counted(count[k - 1], i)
    IN  IF ~t.on THEN [g |-> g, carry |-> 0] ELSE [g |-> count[n], carry |-> OverflowsOf(t, n)]

(* Memory::step                                                            *)
MemoryStepped(g, cycles) ==
    LET run[i \in 0..4] ==
            IF i = 0 THEN [g |-> g, carry |-> 0] ELSE TimerRun(run[i - 1], i - 1, cycles)
    IN  run[4].g

TimerReloadWritten(g, i, v) == [g EXCEPT !.timer[i].reload = v, !.timer[i].counter = v]

TimerControlWritten(g, i, c) ==
    LET t == g.timer[i]
        set == [t EXCEPT !.on = c.on, !.cascade = c.cascade, !.irq = c.irq, !.scale = c.scale]
    IN  [g EXCEPT !.timer[i] = IF ~c.on THEN [set EXCEPT !.sub = 0]
                               ELSE IF ~t.on THEN [set EXCEPT !.counter = t.reload, !.sub = 0]
                               ELSE set]

(* consumeDeferredBusCycles                                                *)
DeferredConsumed(g) == [g EXCEPT !.deferred = 0]

-----------------------------------------------------------------------------
(* writeIo16: what a program writes to the register i.to.  The flags of IF *)
(* that are written are the ones acknowledged.                             *)
IoWritten(g, i) ==
    CASE i.to = "ie" -> [g EXCEPT !.ie = i.value]
      [] i.to = "if" -> Acknowledged(g, i.value)
      [] i.to = "ime" -> [g EXCEPT !.ime = i.value]
      [] i.to = "keycnt" -> KeyControlWritten(g, i.value)
      [] i.to = "dispstat" -> [g EXCEPT !.dispstat.irqs = i.value.irqs, !.dispstat.lyc = i.value.lyc]
      [] i.to = "reload" -> TimerReloadWritten(g, i.timer, i.value)
      [] i.to = "timer" -> TimerControlWritten(g, i.timer, i.value)
      [] i.to = "sound" -> SoundControlWritten(g, i.value, i.resets)
      [] i.to = "fifo" -> FifoWritten(g, i.fifo, i.value)
      [] i.to = "dma" -> DmaControlWritten(g, i.channel, i.value)
      [] i.to = "scroll" -> [g EXCEPT !.scroll = i.value]
      [] i.to = "video" -> [g EXCEPT !.video = i.value]
      [] i.to = "boot" -> [g EXCEPT !.boot = i.value]
=============================================================================
