-------------------------------- MODULE GbProofs --------------------------------
(***************************************************************************)
(* Two parts of the Game Boy, each for every value of the constants.       *)
(*                                                                         *)
(* A note ends: whatever is written to the registers of the sound unit and *)
(* whenever, a channel that sounds has its DAC on and a length that is not *)
(* used up, for every length of the counters and every period of the       *)
(* sequencer.                                                              *)
(*                                                                         *)
(* A state holds the whole cartridge, because a register that is not saved *)
(* for a mapper is one that nothing the game writes can change, and the    *)
(* clock is brought up to date only once at a moment.                      *)
(***************************************************************************)
EXTENDS GbApu, GbCart, TLAPS

Channel == [enabled : BOOLEAN, dac : BOOLEAN, length : Nat, counts : BOOLEAN,
            start : Int, up : BOOLEAN, pace : Int,
            volume : Int, rises : BOOLEAN, period : Int, timer : Int]

(* The sweep and the frequency may hold anything: no channel is switched   *)
(* on because of them.                                                     *)
IsUnit(a) ==
    /\ a = [on |-> a.on, ch |-> a.ch, sweep |-> a.sweep, frequency |-> a.frequency,
            cycles |-> a.cycles, step |-> a.step, kept |-> a.kept]
    /\ a.on \in BOOLEAN
    /\ a.ch \in [Channels -> Channel]

Audible(ch) == ch.enabled => ch.dac /\ ch.length > 0

SoundInv(a) ==
    /\ IsUnit(a)
    /\ \A c \in Channels : Audible(a.ch[c])
    /\ ~a.on => \A c \in Channels : ~a.ch[c].enabled

-----------------------------------------------------------------------------
(* One part of the unit changes.                                           *)
LEMMA WithChannelKeeps ==
    ASSUME NEW a, SoundInv(a), NEW c \in Channels, NEW ch \in Channel, Audible(ch),
           a.on \/ ~ch.enabled
    PROVE  /\ SoundInv(WithChannel(a, c, ch))
           /\ WithChannel(a, c, ch).ch[c] = ch
           /\ WithChannel(a, c, ch).on = a.on
           /\ WithChannel(a, c, ch).sweep = a.sweep
<1> DEFINE b == WithChannel(a, c, ch)
           all == [a.ch EXCEPT ![c] = ch]
<1>1. all \in [Channels -> Channel] /\ all[c] = ch
      /\ \A k \in Channels \ {c} : all[k] = a.ch[k]
  BY DEF SoundInv, IsUnit
<1>2. b = [a EXCEPT !.ch = all]
  BY DEF WithChannel
<1> HIDE DEF all, b
<1>3. b.on = a.on /\ b.ch = all /\ b.sweep = a.sweep /\ IsUnit(b)
  BY <1>1, <1>2 DEF SoundInv, IsUnit
<1>4. SoundInv(b)
  BY <1>1, <1>3 DEF SoundInv
<1> QED BY <1>1, <1>3, <1>4 DEF b

LEMMA OtherPartKeeps ==
    ASSUME NEW a, SoundInv(a), NEW x
    PROVE  /\ SoundInv(WithSweep(a, x)) /\ WithSweep(a, x).on = a.on
           /\ SoundInv(WithFrequency(a, x)) /\ WithFrequency(a, x).on = a.on
           /\ SoundInv(WithKept(a, x)) /\ WithKept(a, x).on = a.on
BY DEF SoundInv, IsUnit, WithSweep, WithFrequency, WithKept

-----------------------------------------------------------------------------
(* The registers.                                                          *)
LEMMA TriggeredKeeps ==
    ASSUME NEW a, SoundInv(a), a.on, NEW c \in Channels
    PROVE  SoundInv(Triggered(a, c))
<1> DEFINE ch == a.ch[c]
           started == Started(ch, FullLength[c])
           reloaded == EnvelopeReloaded(started)
           new == IF c = 3 THEN started ELSE reloaded
           b == WithChannel(a, c, new)
<1>1. ch \in Channel /\ FullLength[c] \in 1..256
  BY ApuAssumption DEF SoundInv, IsUnit
<1>2. started \in Channel /\ started.length > 0 /\ started.enabled = started.dac
  <2> DEFINE length == IF ch.length = 0 THEN FullLength[c] ELSE ch.length
  <2>1. length \in Nat /\ length > 0 /\ ch.dac \in BOOLEAN
    BY <1>1 DEF Channel
  <2>2. started = [ch EXCEPT !.enabled = ch.dac, !.length = length]
    BY DEF Started
  <2> HIDE DEF length, ch, started
  <2> QED BY <1>1, <2>1, <2>2 DEF Channel
<1> HIDE DEF started
<1>3. reloaded \in Channel /\ reloaded.length = started.length
      /\ reloaded.enabled = started.enabled /\ reloaded.dac = started.dac
  <2>1. OrEight(started.pace) \in Int /\ started.start \in Int /\ started.up \in BOOLEAN
        /\ started.pace \in Int
    BY <1>2 DEF Channel, OrEight
  <2>2. reloaded = [started EXCEPT !.volume = started.start, !.rises = started.up,
                                   !.period = started.pace, !.timer = OrEight(started.pace)]
    BY DEF EnvelopeReloaded
  <2> HIDE DEF reloaded
  <2> QED BY <1>2, <2>1, <2>2 DEF Channel
<1>4. new \in Channel /\ Audible(new)
  BY <1>2, <1>3 DEF Audible
<1> HIDE DEF new
<1>5. SoundInv(b)
  BY <1>4, WithChannelKeeps
<1>6. \A sweep : SoundInv(WithSweep(b, sweep))
  BY <1>5, OtherPartKeeps
<1> QED BY <1>5, <1>6 DEF Triggered, new, started

LEMMA DacSetKeeps ==
    ASSUME NEW a, SoundInv(a), a.on, NEW c \in Channels, NEW on \in BOOLEAN
    PROVE  SoundInv(DacSet(a, c, on)) /\ DacSet(a, c, on).on
<1> DEFINE ch == [a.ch[c] EXCEPT !.dac = on, !.enabled = (@ /\ on)]
<1>1. a.ch[c] \in Channel /\ Audible(a.ch[c])
  BY DEF SoundInv, IsUnit
<1>2. ch \in Channel /\ Audible(ch)
  BY <1>1 DEF Channel, Audible
<1> HIDE DEF ch
<1>3. SoundInv(WithChannel(a, c, ch)) /\ WithChannel(a, c, ch).on
  BY <1>2, WithChannelKeeps
<1> QED BY <1>3 DEF DacSet, ch

LEMMA LengthSetKeeps ==
    ASSUME NEW a, SoundInv(a), a.on, NEW c \in Channels, NEW value \in 0..255
    PROVE  SoundInv(LengthSet(a, c, value))
<1> DEFINE length == FullLength[c] - (value % FullLength[c])
           ch == [a.ch[c] EXCEPT !.length = length]
<1>1. a.ch[c] \in Channel /\ Audible(a.ch[c])
  BY DEF SoundInv, IsUnit
<1>2. length \in Nat /\ length > 0
  BY ApuAssumption
<1> HIDE DEF length
<1>3. ch \in Channel /\ Audible(ch)
  BY <1>1, <1>2 DEF Channel, Audible
<1> HIDE DEF ch
<1>4. SoundInv(WithChannel(a, c, ch))
  BY <1>3, WithChannelKeeps
<1> QED BY <1>4 DEF LengthSet, ch, length

LEMMA EnvelopeSetKeeps ==
    ASSUME NEW a, SoundInv(a), a.on, NEW c \in Channels, NEW value \in 0..255
    PROVE  SoundInv(EnvelopeSet(a, c, value))
<1> DEFINE b == DacSet(a, c, value \div 8 # 0)
           ch == [b.ch[c] EXCEPT !.start = value \div 16, !.up = ((value \div 8) % 2 = 1),
                                 !.pace = value % 8]
<1>1. SoundInv(b) /\ b.on
  BY DacSetKeeps
<1> HIDE DEF b
<1>2. b.ch[c] \in Channel /\ Audible(b.ch[c])
  BY <1>1 DEF SoundInv, IsUnit
<1>3. value \div 16 \in Int /\ value % 8 \in Int
  OBVIOUS
<1>4. ch \in Channel /\ Audible(ch)
  BY <1>2, <1>3 DEF Channel, Audible
<1> HIDE DEF ch
<1>5. SoundInv(WithChannel(b, c, ch))
  BY <1>1, <1>4, WithChannelKeeps
<1> QED BY <1>5 DEF EnvelopeSet, b, ch

LEMMA ControlSetKeeps ==
    ASSUME NEW a, SoundInv(a), a.on, NEW c \in Channels, NEW value \in 0..255
    PROVE  SoundInv(ControlSet(a, c, value))
<1> DEFINE ch == [a.ch[c] EXCEPT !.counts = ((value \div 64) % 2 = 1)]
           b == WithChannel(a, c, ch)
           d == IF c # 1 THEN b
                ELSE WithFrequency(b, (value % 8) * 256 + (a.frequency % 256))
<1>1. a.ch[c] \in Channel /\ Audible(a.ch[c])
  BY DEF SoundInv, IsUnit
<1>2. ch \in Channel /\ Audible(ch)
  BY <1>1 DEF Channel, Audible
<1> HIDE DEF ch
<1>3. SoundInv(b) /\ b.on
  BY <1>2, WithChannelKeeps
<1> HIDE DEF b
<1>4. SoundInv(d) /\ d.on
  BY <1>3, OtherPartKeeps
<1> HIDE DEF d
<1>5. SoundInv(Triggered(d, c))
  BY <1>4, TriggeredKeeps
<1> QED BY <1>4, <1>5 DEF ControlSet, ch, b, d

LEMMA ResetKeeps == SoundInv(ApuReset)
<1>1. SilentChannel \in Channel /\ Audible(SilentChannel) /\ ~SilentChannel.enabled
  BY DEF SilentChannel, Channel, Audible
<1> DEFINE all == [c \in Channels |-> SilentChannel]
<1>2. all \in [Channels -> Channel] /\ \A c \in Channels : all[c] = SilentChannel
  BY <1>1
<1>3. ApuReset = [on |-> FALSE, ch |-> all, sweep |-> NoSweep, frequency |-> 0,
                  cycles |-> 0, step |-> 0, kept |-> [r \in KeptRegisters |-> 0]]
  BY DEF ApuReset
<1> HIDE DEF all
<1> QED BY <1>1, <1>2, <1>3 DEF SoundInv, IsUnit

LEMMA RegisterSetKeeps ==
    ASSUME NEW a, SoundInv(a), a.on, NEW c \in Channels, NEW r, NEW value \in 0..255
    PROVE  SoundInv(RegisterSet(a, c, r, value))
<1>1. SoundInv(SweepSet(a, value))
  BY OtherPartKeeps DEF SweepSet
<1>2. SoundInv(DacSet(a, c, value >= 128))
  <2>1. (value >= 128) \in BOOLEAN
    OBVIOUS
  <2> QED BY <2>1, DacSetKeeps
<1>3. SoundInv(WithFrequency(a, a.frequency - (a.frequency % 256) + value))
  BY OtherPartKeeps
<1>4. /\ SoundInv(LengthSet(a, c, value)) /\ SoundInv(EnvelopeSet(a, c, value))
      /\ SoundInv(ControlSet(a, c, value))
  BY LengthSetKeeps, EnvelopeSetKeeps, ControlSetKeeps
<1> QED BY <1>1, <1>2, <1>3, <1>4 DEF RegisterSet

LEMMA PoweredOnKeeps ==
    ASSUME NEW a, SoundInv(a)
    PROVE  SoundInv(PoweredOn(a))
<1> DEFINE b == PoweredOn(a)
           on == TRUE
<1>1. b = [a EXCEPT !.on = on] /\ on \in BOOLEAN /\ on
  BY DEF PoweredOn
<1> HIDE DEF b, on
<1>2. b.on = on /\ b.ch = a.ch /\ IsUnit(b)
  BY <1>1 DEF SoundInv, IsUnit
<1>3. SoundInv(b)
  BY <1>1, <1>2 DEF SoundInv
<1> QED BY <1>3 DEF b

LEMMA WrittenKeeps ==
    ASSUME NEW a, SoundInv(a), NEW address, NEW value \in 0..255
    PROVE  SoundInv(ApuWritten(a, address, value))
<1>1. SoundInv(PoweredOn(a))
  BY PoweredOnKeeps
<1> DEFINE b == Keeping(a, address, value)
<1>2. SoundInv(b) /\ b.on = a.on
  BY OtherPartKeeps DEF Keeping
<1> HIDE DEF b
<1>3. ASSUME a.on, NEW c \in Channels, NEW r PROVE SoundInv(RegisterSet(b, c, r, value))
  BY <1>2, <1>3, RegisterSetKeeps
<1>4. a.on /\ ChannelOf(address) \in Channels
      => SoundInv(RegisterSet(b, ChannelOf(address), RegisterOf(address), value))
  BY <1>3
<1>5. SoundInv(PoweredOff(a))
  BY ResetKeeps, OtherPartKeeps DEF PoweredOff
<1> QED BY <1>1, <1>2, <1>4, <1>5 DEF ApuWritten, b

-----------------------------------------------------------------------------
(* The sequencer.                                                          *)
LEMMA ClockedChannel ==
    ASSUME NEW ch \in Channel, Audible(ch)
    PROVE  /\ LengthClocked(ch) \in Channel /\ Audible(LengthClocked(ch))
           /\ LengthClocked(ch).enabled => ch.enabled
           /\ EnvelopeClocked(ch) \in Channel /\ Audible(EnvelopeClocked(ch))
           /\ EnvelopeClocked(ch).enabled => ch.enabled
<1>0. EnvelopeClocked(ch) \in Channel /\ Audible(EnvelopeClocked(ch))
      /\ EnvelopeClocked(ch).enabled = ch.enabled
  <2>1. CASE ~ch.enabled \/ ch.period = 0
    <3>1. EnvelopeClocked(ch) = ch
      BY <2>1 DEF EnvelopeClocked
    <3> QED BY <3>1
  <2>2. CASE ch.enabled /\ ch.period # 0 /\ ch.timer > 1
    <3>1. EnvelopeClocked(ch) = [ch EXCEPT !.timer = ch.timer - 1]
      BY <2>2 DEF EnvelopeClocked
    <3> QED BY <3>1 DEF Channel, Audible
  <2>3. CASE ch.enabled /\ ch.period # 0 /\ ~(ch.timer > 1)
    <3> DEFINE volume == IF ch.rises
                         THEN (IF ch.volume < MaxVolume THEN ch.volume + 1 ELSE ch.volume)
                         ELSE (IF ch.volume > 0 THEN ch.volume - 1 ELSE ch.volume)
    <3>1. volume \in Int /\ OrEight(ch.period) \in Int
      BY DEF Channel, OrEight
    <3>2. EnvelopeClocked(ch) = [ch EXCEPT !.timer = OrEight(ch.period), !.volume = volume]
      BY <2>3 DEF EnvelopeClocked
    <3> HIDE DEF volume
    <3> QED BY <3>1, <3>2 DEF Channel, Audible
  <2> QED BY <2>1, <2>2, <2>3
<1>1. CASE ~ch.counts \/ ch.length = 0
  <2>1. LengthClocked(ch) = ch
    BY <1>1 DEF LengthClocked
  <2> QED BY <1>0, <2>1
<1>2. CASE ch.counts /\ ch.length # 0
  <2> DEFINE sounds == ch.enabled /\ ch.length > 1
  <2>1. LengthClocked(ch) = [ch EXCEPT !.length = ch.length - 1, !.enabled = sounds]
    BY <1>2 DEF LengthClocked
  <2>2. ch.length - 1 \in Nat /\ sounds \in BOOLEAN
    BY <1>2 DEF Channel
  <2>3. sounds => ch.enabled /\ ch.dac /\ ch.length - 1 > 0
    BY <1>2 DEF Audible, Channel
  <2> HIDE DEF sounds
  <2>4. /\ LengthClocked(ch) \in Channel /\ LengthClocked(ch).enabled = sounds
        /\ LengthClocked(ch).length = ch.length - 1 /\ LengthClocked(ch).dac = ch.dac
    BY <2>1, <2>2 DEF Channel
  <2> QED BY <1>0, <2>3, <2>4 DEF Audible
<1> QED BY <1>1, <1>2 DEF Channel

(* All the channels change at once.                                        *)
LEMMA AllChannelsKeep ==
    ASSUME NEW a, SoundInv(a), a.on, NEW all \in [Channels -> Channel],
           \A c \in Channels : Audible(all[c])
    PROVE  SoundInv([a EXCEPT !.ch = all]) /\ [a EXCEPT !.ch = all].on
<1> DEFINE b == [a EXCEPT !.ch = all]
<1>1. b = [a EXCEPT !.ch = all]
  OBVIOUS
<1> HIDE DEF b
<1>2. b.on = a.on /\ b.ch = all /\ IsUnit(b)
  BY <1>1 DEF SoundInv, IsUnit
<1>3. SoundInv(b) /\ b.on
  BY <1>2 DEF SoundInv
<1> QED BY <1>3 DEF b

LEMMA SequencedKeeps ==
    ASSUME NEW a, SoundInv(a), a.on
    PROVE  /\ SoundInv(LengthsClocked(a)) /\ LengthsClocked(a).on
           /\ SoundInv(EnvelopesClocked(a))
<1> DEFINE lengths == [c \in Channels |-> LengthClocked(a.ch[c])]
           envelopes == [c \in Channels |->
                             IF c = 3 THEN a.ch[c] ELSE EnvelopeClocked(a.ch[c])]
<1>1. \A c \in Channels : a.ch[c] \in Channel /\ Audible(a.ch[c])
  BY DEF SoundInv, IsUnit
<1>2. \A c \in Channels :
          /\ LengthClocked(a.ch[c]) \in Channel /\ Audible(LengthClocked(a.ch[c]))
          /\ EnvelopeClocked(a.ch[c]) \in Channel /\ Audible(EnvelopeClocked(a.ch[c]))
  BY <1>1, ClockedChannel
<1>3. lengths \in [Channels -> Channel] /\ \A c \in Channels : Audible(lengths[c])
  BY <1>2
<1>4. envelopes \in [Channels -> Channel] /\ \A c \in Channels : Audible(envelopes[c])
  BY <1>1, <1>2
<1> HIDE DEF lengths, envelopes
<1>5. SoundInv([a EXCEPT !.ch = lengths]) /\ [a EXCEPT !.ch = lengths].on
  BY <1>3, AllChannelsKeep
<1>6. SoundInv([a EXCEPT !.ch = envelopes])
  BY <1>4, AllChannelsKeep
<1> QED BY <1>5, <1>6 DEF LengthsClocked, EnvelopesClocked, lengths, envelopes

LEMMA MutedKeeps ==
    ASSUME NEW a, SoundInv(a), a.on, NEW plays \in BOOLEAN
    PROVE  SoundInv(Muted(a, plays))
<1> DEFINE ch == [a.ch[1] EXCEPT !.enabled = (@ /\ plays)]
<1>1. 1 \in Channels /\ a.ch[1] \in Channel /\ Audible(a.ch[1])
  BY DEF SoundInv, IsUnit, Channels
<1>2. ch \in Channel /\ Audible(ch)
  BY <1>1 DEF Channel, Audible
<1> HIDE DEF ch
<1>3. SoundInv(WithChannel(a, 1, ch))
  BY <1>1, <1>2, WithChannelKeeps
<1> QED BY <1>3 DEF Muted, ch

LEMMA SweepKeeps ==
    ASSUME NEW a, SoundInv(a), a.on
    PROVE  SoundInv(SweepClocked(a))
<1> DEFINE reset == WithSweep(a, [a.sweep EXCEPT !.timer = OrEight(a.sweep.period)])
           new == SweepTaken(reset)
<1>1. SoundInv(reset) /\ reset.on
  BY OtherPartKeeps
<1> HIDE DEF reset
<1>2. SoundInv(new) /\ new.on
  <2>1. \A f : SoundInv(WithFrequency(reset, f)) /\ WithFrequency(reset, f).on
    BY <1>1, OtherPartKeeps
  <2>2. \A f, x : /\ SoundInv(WithSweep(WithFrequency(reset, f), x))
                  /\ WithSweep(WithFrequency(reset, f), x).on
    BY <2>1, OtherPartKeeps
  <2> QED BY <1>1, <2>2 DEF SweepTaken
<1> HIDE DEF new
<1>3. SoundInv(Muted(reset, FALSE))
  BY <1>1, MutedKeeps
<1>4. SoundInv(Muted(new, SweepFits(new.sweep)))
  <2>1. SweepFits(new.sweep) \in BOOLEAN
    BY DEF SweepFits
  <2> QED BY <1>2, <2>1, MutedKeeps
<1>5. \A x : SoundInv(WithSweep(a, x))
  BY OtherPartKeeps
<1> QED BY <1>1, <1>3, <1>4, <1>5 DEF SweepClocked, reset, new

LEMMA SteppedKeeps ==
    ASSUME NEW a, SoundInv(a), a.on
    PROVE  SoundInv(SequencerStepped(a))
<1> DEFINE step == (a.step + 1) % 8
           b == [a EXCEPT !.step = step]
<1>1. b = [a EXCEPT !.step = step]
  OBVIOUS
<1> HIDE DEF step, b
<1>2. b.on = a.on /\ b.ch = a.ch /\ IsUnit(b)
  BY <1>1 DEF SoundInv, IsUnit
<1>3. SoundInv(b) /\ b.on
  BY <1>2 DEF SoundInv
<1>4. /\ SoundInv(LengthsClocked(b)) /\ LengthsClocked(b).on
      /\ SoundInv(EnvelopesClocked(b))
  BY <1>3, SequencedKeeps
<1>5. SoundInv(SweepClocked(LengthsClocked(b)))
  BY <1>4, SweepKeeps
<1> QED BY <1>3, <1>4, <1>5 DEF SequencerStepped, b, step

LEMMA TickedKeeps ==
    ASSUME NEW a, SoundInv(a), NEW cycles
    PROVE  SoundInv(ApuTicked(a, cycles))
<1> DEFINE later(n) == [a EXCEPT !.cycles = n]
<1>1. ASSUME NEW n PROVE SoundInv(later(n)) /\ later(n).on = a.on
  <2> DEFINE b == later(n)
  <2>1. b = [a EXCEPT !.cycles = n]
    OBVIOUS
  <2> HIDE DEF b
  <2>2. b.on = a.on /\ b.ch = a.ch /\ IsUnit(b)
    BY <2>1 DEF SoundInv, IsUnit
  <2>3. SoundInv(b) /\ b.on = a.on
    BY <2>2 DEF SoundInv
  <2> QED BY <2>3 DEF b
<1> HIDE DEF later
<1>2. ASSUME NEW n, a.on PROVE SoundInv(SequencerStepped(later(n)))
  BY <1>1, <1>2, SteppedKeeps
<1>3. CASE ~a.on
  BY <1>3 DEF ApuTicked
<1>4. CASE a.on
  BY <1>1, <1>2, <1>4 DEF ApuTicked, later
<1> QED BY <1>3, <1>4

-----------------------------------------------------------------------------
LEMMA BytesAreWritten == \A w \in SoundWrites : w[2] \in 0..255
BY SoundAssumption

LEMMA SoundInvHolds == SoundSpec => []SoundInv(apu)
<1>1. SoundInit => SoundInv(apu)
  BY ResetKeeps, PoweredOnKeeps DEF SoundInit
<1>2. SoundInv(apu) /\ [SoundNext]_apu => SoundInv(apu)'
  <2> SUFFICES ASSUME SoundInv(apu), [SoundNext]_apu PROVE SoundInv(apu')
    OBVIOUS
  <2>1. ASSUME NEW w \in SoundWrites, WriteSound(w) PROVE SoundInv(apu')
    <3>1. w[2] \in 0..255
      BY BytesAreWritten
    <3>2. SoundInv(ApuWritten(apu, w[1], w[2]))
      BY <3>1, WrittenKeeps
    <3> QED BY <2>1, <3>2 DEF WriteSound
  <2>2. ASSUME NEW n \in SoundCycles, TickSound(n) PROVE SoundInv(apu')
    BY <2>2, TickedKeeps DEF TickSound
  <2>3. CASE UNCHANGED apu
    BY <2>3
  <2> QED BY <2>1, <2>2, <2>3 DEF SoundNext
<1> QED BY <1>1, <1>2, PTL DEF SoundSpec

(* A note ends (apu.cpp:431, triggerSquare): in every state the sound unit *)
(* can reach by writes of bytes to its registers and by time that passes,  *)
(* a channel that sounds has its DAC on and some of its length left, and a *)
(* unit that is switched off is silent.                                    *)
THEOREM NotesEnd == SoundSpec => []SoundEnds
<1>1. SoundInv(apu) => SoundEnds
  BY DEF SoundInv, Audible, SoundEnds, Sound, Sounding
<1> QED BY <1>1, SoundInvHolds, PTL

-----------------------------------------------------------------------------
(* The cartridge and what is saved of it are whole records.                *)
IsCart(c) ==
    c = [kind |-> c.kind, type |-> c.type, banks |-> c.banks, size |-> c.size, ram |-> c.ram,
         on |-> c.on, low |-> c.low, high |-> c.high, sel |-> c.sel, mode |-> c.mode,
         base |-> c.base, locked |-> c.locked, camera |-> c.camera,
         arm |-> c.arm, latched |-> c.latched, rtc |-> c.rtc, shadow |-> c.shadow,
         last |-> c.last, huc |-> c.huc, command |-> c.command, value |-> c.value]
IsSaved(s) ==
    s = [type |-> s.type, ram |-> s.ram, size |-> s.size,
         on |-> s.on, low |-> s.low, high |-> s.high, sel |-> s.sel, mode |-> s.mode,
         base |-> s.base, locked |-> s.locked, camera |-> s.camera,
         arm |-> s.arm, latched |-> s.latched, rtc |-> s.rtc, shadow |-> s.shadow,
         last |-> s.last, huc |-> s.huc, command |-> s.command, value |-> s.value]

(* A register that a mapper does not have keeps its first value.           *)
Mappers == {"mbc1", "mbc2", "mbc3", "huc3", "mbc5", "mbc7", "mmm01", "camera"}
Spare(kind, r) ==
    /\ kind \notin Mappers => r.on = FALSE /\ r.low = 1
    /\ kind \notin {"mbc1", "mmm01", "mbc5", "mbc7", "camera"} => r.high = 0
    /\ kind \notin {"mbc3", "huc3", "mbc5", "mbc7", "camera"} => r.sel = 0
    /\ kind \notin {"mbc1", "mmm01"} => r.mode = 0
    /\ kind \notin {"mmm01"} => r.base = 0 /\ r.locked = FALSE
    /\ kind = "mmm01" => r.base \in 0..31
    /\ kind \notin {"camera"} => r.camera = FALSE
    /\ kind \notin {"mbc3", "huc3"} =>
           r.arm = 0 /\ r.latched = FALSE /\ r.rtc = NewRtc /\ r.shadow = NewRtc
    /\ kind \notin {"huc3"} => r.huc = FALSE /\ r.command = 0 /\ r.value = 0

(* The cartridge of the game that is played, and a state of it.            *)
TheKind == MapperOf(played.type)
TheSize == RamSize(played.type, played.ram)
IsPlayed(c) ==
    /\ IsCart(c) /\ Spare(TheKind, c)
    /\ c.kind = TheKind /\ c.type = played.type /\ c.banks = played.banks /\ c.size = TheSize
IsStateOf(s) ==
    /\ IsSaved(s) /\ Spare(TheKind, s)
    /\ s.type = played.type /\ s.size = TheSize

CartInv ==
    /\ clock \in Nat
    /\ played \in Paks
    /\ IsPlayed(pak)
    /\ kept # None => IsStateOf(kept.cart)
    /\ files # None => IsStateOf(files.cart)

(* What a write leaves alone.                                              *)
SameCart(d, c) ==
    IsCart(d) /\ d.kind = c.kind /\ d.type = c.type /\ d.banks = c.banks /\ d.size = c.size

-----------------------------------------------------------------------------
LEMMA KindIsKnown == \A type : MapperOf(type) \in Mappers \cup {"none"}
BY DEF MapperOf, Mappers

(* Registers that are set one at a time.                                   *)
LEMMA SetOne ==
  ASSUME NEW c, IsCart(c), NEW x
  PROVE  /\ SameCart([c EXCEPT !.on = x], c) /\ SameCart([c EXCEPT !.low = x], c)
         /\ SameCart([c EXCEPT !.high = x], c) /\ SameCart([c EXCEPT !.sel = x], c)
         /\ SameCart([c EXCEPT !.mode = x], c) /\ SameCart([c EXCEPT !.base = x], c)
         /\ SameCart([c EXCEPT !.rtc = x], c) /\ SameCart([c EXCEPT !.ram = x], c)
         /\ SameCart([c EXCEPT !.value = x], c)
<1>1. SameCart([c EXCEPT !.on = x], c) /\ SameCart([c EXCEPT !.low = x], c)
  BY DEF IsCart, SameCart
<1>2. SameCart([c EXCEPT !.high = x], c) /\ SameCart([c EXCEPT !.sel = x], c)
  BY DEF IsCart, SameCart
<1>3. SameCart([c EXCEPT !.mode = x], c) /\ SameCart([c EXCEPT !.base = x], c)
  BY DEF IsCart, SameCart
<1>4. SameCart([c EXCEPT !.rtc = x], c) /\ SameCart([c EXCEPT !.ram = x], c)
  BY DEF IsCart, SameCart
<1>5. SameCart([c EXCEPT !.value = x], c)
  BY DEF IsCart, SameCart
<1> QED
  BY <1>1, <1>2, <1>3, <1>4, <1>5

LEMMA SetTwo ==
  ASSUME NEW c, IsCart(c), NEW x, NEW y
  PROVE  /\ SameCart([c EXCEPT !.last = x, !.rtc = y], c)
         /\ SameCart([c EXCEPT !.huc = x, !.command = y], c)
         /\ SameCart([c EXCEPT !.sel = x, !.camera = y], c)
<1>1. SameCart([c EXCEPT !.last = x, !.rtc = y], c)
  <2> DEFINE a == [c EXCEPT !.last = x]
  <2>1. SameCart(a, c)
    BY DEF SameCart, IsCart
  <2> HIDE DEF a
  <2>2. SameCart([a EXCEPT !.rtc = y], c)
    BY <2>1 DEF SameCart, IsCart
  <2> QED BY <2>2 DEF a
<1>2. SameCart([c EXCEPT !.huc = x, !.command = y], c)
  <2> DEFINE a == [c EXCEPT !.huc = x]
  <2>1. SameCart(a, c)
    BY DEF SameCart, IsCart
  <2> HIDE DEF a
  <2>2. SameCart([a EXCEPT !.command = y], c)
    BY <2>1 DEF SameCart, IsCart
  <2> QED BY <2>2 DEF a
<1>3. SameCart([c EXCEPT !.sel = x, !.camera = y], c)
  <2> DEFINE a == [c EXCEPT !.sel = x]
  <2>1. SameCart(a, c)
    BY DEF SameCart, IsCart
  <2> HIDE DEF a
  <2>2. SameCart([a EXCEPT !.camera = y], c)
    BY <2>1 DEF SameCart, IsCart
  <2> QED BY <2>2 DEF a
<1> QED BY <1>1, <1>2, <1>3

LEMMA SetMore ==
  ASSUME NEW c, IsCart(c), NEW w, NEW x, NEW y, NEW z
  PROVE  /\ SameCart([c EXCEPT !.arm = x, !.latched = y, !.shadow = z], c)
         /\ SameCart([c EXCEPT !.on = w, !.locked = x, !.huc = y, !.command = z], c)
<1>1. SameCart([c EXCEPT !.arm = x, !.latched = y, !.shadow = z], c)
  <2> DEFINE a == [c EXCEPT !.arm = x]
             b == [a EXCEPT !.latched = y]
  <2>1. SameCart(a, c)
    BY DEF SameCart, IsCart
  <2> HIDE DEF a
  <2>2. SameCart(b, c)
    BY <2>1 DEF SameCart, IsCart
  <2> HIDE DEF b
  <2>3. SameCart([b EXCEPT !.shadow = z], c)
    BY <2>2 DEF SameCart, IsCart
  <2> QED BY <2>3 DEF a, b
<1>2. SameCart([c EXCEPT !.on = w, !.locked = x, !.huc = y, !.command = z], c)
  <2> DEFINE a == [c EXCEPT !.on = w]
             b == [a EXCEPT !.locked = x]
  <2>1. SameCart(a, c)
    BY DEF SameCart, IsCart
  <2> HIDE DEF a
  <2>2. SameCart(b, c)
    BY <2>1 DEF SameCart, IsCart
  <2> HIDE DEF b
  <2>3. SameCart([b EXCEPT !.huc = y, !.command = z], c)
    <3>1. IsCart(b)
      BY <2>2 DEF SameCart
    <3>2. SameCart([b EXCEPT !.huc = y, !.command = z], b)
      BY <3>1, SetTwo
    <3> QED
      BY <2>2, <3>2 DEF SameCart
  <2> QED BY <2>3 DEF a, b
<1> QED BY <1>1, <1>2

-----------------------------------------------------------------------------
(* The clock is brought up to date, once.                                  *)
LEMMA UpdatedIsPlayed ==
  ASSUME NEW c, IsPlayed(c), NEW now
  PROVE  IsPlayed(RtcUpdated(c, now)) /\ RtcUpdated(c, now).ram = c.ram
<1>1. CASE c.kind \notin {"mbc3", "huc3"}
  BY <1>1 DEF RtcUpdated
<1>2. CASE c.kind \in {"mbc3", "huc3"}
  <2> DEFINE r == IF now <= c.last \/ c.rtc.halted THEN c.rtc ELSE Passed(c.rtc, now - c.last)
             d == [c EXCEPT !.last = now, !.rtc = r]
  <2>1. RtcUpdated(c, now) = d
    BY <1>2 DEF RtcUpdated
  <2> HIDE DEF r
  <2>2. SameCart(d, c)
    BY SetTwo DEF IsPlayed
  <2>3. Spare(TheKind, d) /\ d.ram = c.ram
    BY <1>2 DEF IsPlayed, IsCart, Spare
  <2> QED
    BY <2>1, <2>2, <2>3 DEF IsPlayed, SameCart
<1> QED
  BY <1>1, <1>2

LEMMA SameRegisters ==
  ASSUME NEW c, IsCart(c), NEW d, SameCart(d, c), d.ram = c.ram,
         d.on = c.on, d.low = c.low, d.high = c.high, d.sel = c.sel, d.mode = c.mode,
         d.base = c.base, d.locked = c.locked, d.camera = c.camera,
         d.arm = c.arm, d.latched = c.latched, d.rtc = c.rtc, d.shadow = c.shadow,
         d.last = c.last, d.huc = c.huc, d.command = c.command, d.value = c.value
  PROVE  d = c
BY DEF IsCart, SameCart

LEMMA UpdatedOnce ==
  ASSUME NEW c, IsCart(c), NEW now \in Nat
  PROVE  RtcUpdated(RtcUpdated(c, now), now) = RtcUpdated(c, now)
<1>1. CASE c.kind \notin {"mbc3", "huc3"}
  BY <1>1 DEF RtcUpdated
<1>2. CASE c.kind \in {"mbc3", "huc3"}
  <2> DEFINE r == IF now <= c.last \/ c.rtc.halted THEN c.rtc ELSE Passed(c.rtc, now - c.last)
             d == [c EXCEPT !.last = now, !.rtc = r]
             t == IF now <= d.last \/ d.rtc.halted THEN d.rtc ELSE Passed(d.rtc, now - d.last)
             e == [d EXCEPT !.last = now, !.rtc = t]
  <2>1. RtcUpdated(c, now) = d
    BY <1>2 DEF RtcUpdated
  <2> HIDE DEF r
  <2>2. SameCart(d, c) /\ d.last = now
    BY SetTwo DEF IsCart
  <2> HIDE DEF d
  <2>3. RtcUpdated(d, now) = e
    BY <1>2, <2>2 DEF RtcUpdated, SameCart
  <2>4. t = d.rtc
    BY <2>2
  <2> HIDE DEF t
  <2>5. SameCart(e, d)
    <3>1. IsCart(d)
      BY <2>2 DEF SameCart
    <3> QED
      BY <3>1, SetTwo
  <2>6. e = d
    BY <2>2, <2>4, <2>5, SameRegisters DEF SameCart, IsCart
  <2> QED
    BY <2>1, <2>3, <2>6
<1> QED
  BY <1>1, <1>2

LEMMA ReadIsUpdated ==
  ASSUME NEW c, IsCart(c), NEW a, NEW now \in Nat
  PROVE  CartRead(RtcUpdated(c, now), a, now) = CartRead(c, a, now)
BY UpdatedOnce DEF CartRead

-----------------------------------------------------------------------------
(* A state holds every register of the cartridge that is taken from it.    *)
LEMMA SavedHoldsAll ==
  ASSUME NEW c, IsPlayed(c)
  PROVE  /\ IsStateOf(CartSaved(c))
         /\ CartSaved(c) = [type |-> c.type, ram |-> c.ram, size |-> c.size,
                on |-> c.on, low |-> c.low, high |-> c.high, sel |-> c.sel, mode |-> c.mode,
                base |-> c.base, locked |-> c.locked, camera |-> c.camera,
                arm |-> c.arm, latched |-> c.latched, rtc |-> c.rtc, shadow |-> c.shadow,
                last |-> c.last, huc |-> c.huc, command |-> c.command, value |-> c.value]
<1>1. TheKind \in Mappers \cup {"none"} /\ c.kind = TheKind /\ Spare(TheKind, c)
  BY KindIsKnown DEF TheKind, IsPlayed
<1>2. c.kind = "mmm01" => c.base % 32 = c.base
  BY <1>1 DEF Spare
<1>3. CartSaved(c) = [type |-> c.type, ram |-> c.ram, size |-> c.size,
          on |-> c.on, low |-> c.low, high |-> c.high, sel |-> c.sel, mode |-> c.mode,
          base |-> c.base, locked |-> c.locked, camera |-> c.camera,
          arm |-> c.arm, latched |-> c.latched, rtc |-> c.rtc, shadow |-> c.shadow,
          last |-> c.last, huc |-> c.huc, command |-> c.command, value |-> c.value]
  BY <1>1, <1>2 DEF CartSaved, Spare, Mappers
<1> DEFINE s == CartSaved(c)
<1>4. IsSaved(s) /\ Spare(TheKind, s) /\ s.type = c.type /\ s.size = c.size
  BY <1>1, <1>3 DEF IsSaved, Spare
<1> QED
  BY <1>3, <1>4 DEF IsStateOf, IsPlayed

LEMMA LoadedIsPlayed ==
  ASSUME NEW c, IsPlayed(c), NEW s, IsStateOf(s), NEW now
  PROVE  IsPlayed(CartLoaded(c, s, now))
<1> DEFINE d == [kind |-> c.kind, type |-> c.type, banks |-> c.banks, size |-> c.size,
                 ram |-> IF s.size = c.size THEN s.ram ELSE c.ram,
                 on |-> s.on, low |-> s.low, high |-> s.high, sel |-> s.sel, mode |-> s.mode,
                 base |-> s.base, locked |-> s.locked, camera |-> s.camera, arm |-> s.arm,
                 latched |-> s.latched, rtc |-> s.rtc, shadow |-> s.shadow, last |-> s.last,
                 huc |-> s.huc, command |-> s.command, value |-> s.value]
<1>1. CartLoaded(c, s, now) = RtcUpdated(d, now)
  BY DEF CartLoaded, IsPlayed, IsStateOf
<1>2. IsCart(d) /\ Spare(TheKind, d)
  BY DEF IsCart, IsStateOf, Spare
<1>3. IsPlayed(d)
  BY <1>2 DEF IsPlayed
<1> HIDE DEF d
<1> QED
  BY <1>1, <1>3, UpdatedIsPlayed

LEMMA NewIsPlayed == ASSUME NEW now PROVE IsPlayed(NewCart(played.type, played.banks, played.ram, now))
<1>1. TheKind \in Mappers \cup {"none"}
  BY KindIsKnown DEF TheKind
<1> QED
  BY <1>1 DEF NewCart, IsPlayed, IsCart, Spare, TheKind, TheSize

(* A state loaded into a fresh cartridge makes the one it was taken from.  *)
LEMMA LoadedIsSaved ==
  ASSUME NEW c, IsPlayed(c), NEW now
  PROVE  CartLoaded(Fresh, CartSaved(c), now) = RtcUpdated(c, now)
<1> DEFINE s == CartSaved(c)
<1>1. IsPlayed(Fresh)
  BY NewIsPlayed DEF Fresh
<1>2. s = [type |-> c.type, ram |-> c.ram, size |-> c.size,
           on |-> c.on, low |-> c.low, high |-> c.high, sel |-> c.sel, mode |-> c.mode,
           base |-> c.base, locked |-> c.locked, camera |-> c.camera,
           arm |-> c.arm, latched |-> c.latched, rtc |-> c.rtc, shadow |-> c.shadow,
           last |-> c.last, huc |-> c.huc, command |-> c.command, value |-> c.value]
  BY SavedHoldsAll
<1> HIDE DEF s
<1> DEFINE d == [kind |-> Fresh.kind, type |-> Fresh.type, banks |-> Fresh.banks,
                 size |-> Fresh.size, ram |-> IF s.size = Fresh.size THEN s.ram ELSE Fresh.ram,
                 on |-> s.on, low |-> s.low, high |-> s.high, sel |-> s.sel, mode |-> s.mode,
                 base |-> s.base, locked |-> s.locked, camera |-> s.camera, arm |-> s.arm,
                 latched |-> s.latched, rtc |-> s.rtc, shadow |-> s.shadow, last |-> s.last,
                 huc |-> s.huc, command |-> s.command, value |-> s.value]
<1>3. Fresh.kind = c.kind /\ Fresh.type = c.type /\ Fresh.banks = c.banks /\ Fresh.size = c.size
  BY <1>1 DEF IsPlayed
<1>4. CartLoaded(Fresh, s, now) = RtcUpdated(d, now)
  BY <1>2, <1>3 DEF CartLoaded
<1>5. d = c
  <2>1. IsCart(d)
    BY DEF IsCart
  <2>2. IsCart(c)
    BY DEF IsPlayed
  <2> QED
    BY <1>2, <1>3, <2>1, <2>2 DEF IsCart
<1> QED
  BY <1>4, <1>5 DEF s

-----------------------------------------------------------------------------
(* Writes.                                                                 *)
LEMMA RamPutIsPlayed ==
  ASSUME NEW c, IsPlayed(c), NEW i, NEW value
  PROVE  IsPlayed(RamPut(c, i, value))
<1> DEFINE ram == (i :> value) @@ c.ram
           d == [c EXCEPT !.ram = ram]
<1>1. RamPut(c, i, value) \in {c, d}
  BY DEF RamPut
<1> HIDE DEF ram
<1>2. SameCart(d, c)
  BY SetOne DEF IsPlayed
<1>3. Spare(TheKind, d)
  BY DEF IsPlayed, IsCart, Spare
<1>4. IsPlayed(d)
  BY <1>2, <1>3 DEF IsPlayed, SameCart
<1> QED
  BY <1>1, <1>4

LEMMA ExtWrittenIsPlayed ==
  ASSUME NEW c, IsPlayed(c), NEW offset, NEW value
  PROVE  IsPlayed(ExtWritten(c, offset, value))
<1> DEFINE held == [c EXCEPT !.value = value % 16]
           set  == [c EXCEPT !.rtc = RtcWritten(c.rtc, c.sel, value)]
<1>1. c.kind = "huc3" => IsPlayed(held)
  <2> DEFINE v == value % 16
             d == [c EXCEPT !.value = v]
  <2> HIDE DEF v
  <2>1. SameCart(d, c)
    BY SetOne DEF IsPlayed
  <2>2. c.kind = "huc3" => Spare(TheKind, d)
    BY DEF IsPlayed, IsCart, Spare
  <2> QED
    BY <2>1, <2>2 DEF IsPlayed, SameCart, v
<1>2. c.kind \in {"mbc3", "huc3"} => IsPlayed(set)
  <2> DEFINE v == RtcWritten(c.rtc, c.sel, value)
             d == [c EXCEPT !.rtc = v]
  <2> HIDE DEF v
  <2>1. SameCart(d, c)
    BY SetOne DEF IsPlayed
  <2>2. c.kind \in {"mbc3", "huc3"} => Spare(TheKind, d)
    BY DEF IsPlayed, IsCart, Spare
  <2> QED
    BY <2>1, <2>2 DEF IsPlayed, SameCart, v
<1>3. \/ c.kind = "huc3" /\ ExtWritten(c, offset, value) = held
      \/ c.kind \in {"mbc3", "huc3"} /\ ExtWritten(c, offset, value) = set
      \/ ExtWritten(c, offset, value) = c
      \/ \E i, v : ExtWritten(c, offset, value) = RamPut(c, i, v)
  BY DEF ExtWritten, InHuC3
<1> QED
  BY <1>1, <1>2, <1>3, RamPutIsPlayed

(* A change of the registers that the mapper has.                          *)
LEMMA Changed ==
  ASSUME NEW c, IsPlayed(c), NEW d, SameCart(d, c), Spare(TheKind, d)
  PROVE  IsPlayed(d)
BY DEF IsPlayed, SameCart

LEMMA EnabledIsPlayed ==
  ASSUME NEW c, IsPlayed(c), c.kind \in Mappers, NEW value
  PROVE  IsPlayed(Enabled(c, value))
<1>1. CASE c.kind = "huc3" /\ (value \div 16) = 1
  <2> DEFINE v == value % 16
             d == [c EXCEPT !.huc = TRUE, !.command = v]
  <2>1. Enabled(c, value) = d
    BY <1>1 DEF Enabled
  <2> HIDE DEF v
  <2>2. SameCart(d, c)
    BY SetTwo DEF IsPlayed
  <2>3. Spare(TheKind, d)
    BY <1>1 DEF IsPlayed, IsCart, Spare
  <2> QED
    BY <2>1, <2>2, <2>3, Changed
<1>2. CASE ~(c.kind = "huc3" /\ (value \div 16) = 1)
  <2> DEFINE w == Enabling(value)
             x == (c.locked \/ (c.kind = "mmm01" /\ Enabling(value)))
             y == (c.huc /\ value # 0)
             z == IF value = 0 THEN 0 ELSE c.command
             d == [c EXCEPT !.on = w, !.locked = x, !.huc = y, !.command = z]
  <2>1. Enabled(c, value) = d
    BY <1>2 DEF Enabled
  <2>2. /\ c.kind # "mmm01" => x = FALSE
        /\ c.kind # "huc3" => y = FALSE /\ z = 0
    BY DEF IsPlayed, Spare
  <2> HIDE DEF w, x, y, z
  <2>3. SameCart(d, c)
    BY SetMore DEF IsPlayed
  <2>4. Spare(TheKind, d)
    BY <2>2 DEF IsPlayed, IsCart, Spare
  <2> QED
    BY <2>1, <2>3, <2>4, Changed
<1> QED
  BY <1>1, <1>2

LEMMA LowIsPlayed ==
  ASSUME NEW c, IsPlayed(c), c.kind \in Mappers, NEW x
  PROVE  IsPlayed([c EXCEPT !.low = x])
<1>1. SameCart([c EXCEPT !.low = x], c)
  BY SetOne DEF IsPlayed
<1>2. Spare(TheKind, [c EXCEPT !.low = x])
  BY DEF IsPlayed, IsCart, Spare
<1> QED
  BY <1>1, <1>2, Changed

LEMMA HighIsPlayed ==
  ASSUME NEW c, IsPlayed(c), c.kind \in {"mbc1", "mmm01", "mbc5", "mbc7", "camera"}, NEW x
  PROVE  IsPlayed([c EXCEPT !.high = x])
<1>1. SameCart([c EXCEPT !.high = x], c)
  BY SetOne DEF IsPlayed
<1>2. Spare(TheKind, [c EXCEPT !.high = x])
  BY DEF IsPlayed, IsCart, Spare, Mappers
<1> QED
  BY <1>1, <1>2, Changed

LEMMA BankIsPlayed ==
  ASSUME NEW c, IsPlayed(c), c.kind \in Mappers, NEW address, NEW value \in Nat,
         c.banks \in Nat \ {0}
  PROVE  IsPlayed(BankWritten(c, address, value))
<1> DEFINE x == (value % 32) % c.banks
           d == [c EXCEPT !.base = x]
<1>1. x \in 0..31
  <2> DEFINE v == value % 32
  <2>1. v \in 0..31
    OBVIOUS
  <2> HIDE DEF v
  <2>2. v % c.banks \in 0..v
    <3>1. CASE v < c.banks
      BY <2>1, <3>1
    <3>2. CASE c.banks <= v
      BY <2>1, <3>2
    <3> QED
      BY <2>1, <3>1, <3>2
  <2> QED
    BY <2>1, <2>2 DEF v
<1> HIDE DEF x
<1>2. c.kind = "mmm01" => IsPlayed(d)
  <2>1. SameCart(d, c)
    BY SetOne DEF IsPlayed
  <2>2. c.kind = "mmm01" => Spare(TheKind, d)
    BY <1>1 DEF IsPlayed, IsCart, Spare, Mappers
  <2> QED
    BY <2>1, <2>2, Changed
<1>3. \/ \E v : BankWritten(c, address, value) = [c EXCEPT !.low = v]
      \/ c.kind = "mmm01" /\ BankWritten(c, address, value) = d
      \/ /\ c.kind \in {"mbc5", "mbc7", "camera"}
         /\ BankWritten(c, address, value) = [c EXCEPT !.high = value % 2]
      \/ BankWritten(c, address, value) = c
  BY DEF BankWritten, x
<1> QED
  BY <1>2, <1>3, LowIsPlayed, HighIsPlayed

LEMMA SelectIsPlayed ==
  ASSUME NEW c, IsPlayed(c), NEW value
  PROVE  IsPlayed(SelectWritten(c, value))
<1> DEFINE x == value % 16
           y == ((value \div 16) % 2 = 1)
           d == [c EXCEPT !.sel = x]
           e == [c EXCEPT !.sel = x, !.camera = y]
<1>1. \/ c.kind \in {"mbc1", "mmm01"} /\ SelectWritten(c, value) = [c EXCEPT !.high = value % 4]
      \/ c.kind \in {"mbc3", "huc3", "mbc5", "mbc7"} /\ SelectWritten(c, value) = d
      \/ c.kind = "camera" /\ SelectWritten(c, value) = e
      \/ SelectWritten(c, value) = c
  BY DEF SelectWritten
<1> HIDE DEF x, y
<1>2. SameCart(d, c) /\ SameCart(e, c)
  BY SetOne, SetTwo DEF IsPlayed
<1>3. c.kind \in {"mbc3", "huc3", "mbc5", "mbc7"} => Spare(TheKind, d)
  BY DEF IsPlayed, IsCart, Spare, Mappers
<1>4. c.kind = "camera" => Spare(TheKind, e)
  BY DEF IsPlayed, IsCart, Spare, Mappers
<1> QED
  BY <1>1, <1>2, <1>3, <1>4, HighIsPlayed, Changed

LEMMA ModeIsPlayed ==
  ASSUME NEW c, IsPlayed(c), NEW value
  PROVE  IsPlayed(ModeWritten(c, value))
<1> DEFINE edge == c.arm = 0 /\ value % 2 = 1
           x == value % 2
           y == (c.latched \/ edge)
           z == IF edge THEN c.rtc ELSE c.shadow
           d == [c EXCEPT !.mode = x]
           e == [c EXCEPT !.arm = x, !.latched = y, !.shadow = z]
<1>1. \/ c.kind \in {"mbc1", "mmm01"} /\ ModeWritten(c, value) = d
      \/ c.kind \in {"mbc3", "huc3"} /\ ModeWritten(c, value) = e
      \/ ModeWritten(c, value) = c
  BY DEF ModeWritten
<1> HIDE DEF x, y, z
<1>2. SameCart(d, c) /\ SameCart(e, c)
  BY SetOne, SetMore DEF IsPlayed
<1>3. c.kind \in {"mbc1", "mmm01"} => Spare(TheKind, d)
  BY DEF IsPlayed, IsCart, Spare, Mappers
<1>4. c.kind \in {"mbc3", "huc3"} => Spare(TheKind, e)
  BY DEF IsPlayed, IsCart, Spare, Mappers
<1> QED
  BY <1>1, <1>2, <1>3, <1>4, Changed

LEMMA Mbc2IsPlayed ==
  ASSUME NEW c, IsPlayed(c), c.kind = "mbc2", NEW address, NEW value
  PROVE  IsPlayed(Mbc2Written(c, address, value))
<1> DEFINE x == Enabling(value)
           d == [c EXCEPT !.on = x]
<1>1. \/ Mbc2Written(c, address, value) = d
      \/ \E v : Mbc2Written(c, address, value) = [c EXCEPT !.low = v]
  BY DEF Mbc2Written
<1> HIDE DEF x
<1>2. SameCart(d, c)
  BY SetOne DEF IsPlayed
<1>3. c.kind \in Mappers /\ Spare(TheKind, d)
  BY DEF IsPlayed, IsCart, Spare, Mappers
<1> QED
  BY <1>1, <1>2, <1>3, LowIsPlayed, Changed

LEMMA WrittenIsPlayed ==
  ASSUME CartInv, NEW address, NEW value \in Nat
  PROVE  IsPlayed(CartWritten(pak, address, value, clock))
<1> DEFINE c == RtcUpdated(pak, clock)
<1>1. IsPlayed(c)
  BY UpdatedIsPlayed DEF CartInv
<1> HIDE DEF c
<1>2. c.banks \in Nat \ {0} /\ c.kind \in Mappers \cup {"none"}
  BY <1>1, CartAssumption, KindIsKnown DEF CartInv, IsPlayed, TheKind
<1>3. IsPlayed(RegisterWritten(c, address, value))
  <2>1. \/ RegisterWritten(c, address, value) = c
        \/ c.kind = "mbc2" /\ RegisterWritten(c, address, value) = Mbc2Written(c, address, value)
        \/ /\ c.kind \in Mappers
           /\ RegisterWritten(c, address, value) \in
                  {Enabled(c, value), BankWritten(c, address, value),
                   SelectWritten(c, value), ModeWritten(c, value)}
    BY <1>2 DEF RegisterWritten
  <2> QED
    BY <1>1, <1>2, <2>1, Mbc2IsPlayed, EnabledIsPlayed, BankIsPlayed, SelectIsPlayed, ModeIsPlayed
<1>4. \A offset : IsPlayed(ExtWritten(c, offset, value))
  BY <1>1, ExtWrittenIsPlayed
<1> QED
  BY <1>3, <1>4 DEF CartWritten, c

-----------------------------------------------------------------------------
LEMMA CartInitially == ASSUME CartInit PROVE CartInv
<1>1. IsPlayed(pak)
  BY NewIsPlayed DEF CartInit, Fresh
<1> QED
  BY <1>1 DEF CartInit, CartInv

LEMMA WriteKeeps ==
  ASSUME CartInv, NEW w \in played.writes, WriteCart(w[1], w[2])
  PROVE  CartInv'
<1>1. w[2] \in Nat
  BY CartAssumption DEF CartInv
<1>2. IsPlayed(pak')
  BY <1>1, WrittenIsPlayed DEF WriteCart
<1>3. UNCHANGED <<played, clock, kept, files>>
  BY DEF WriteCart
<1> QED
  BY <1>2, <1>3 DEF CartInv, IsPlayed, IsStateOf, TheKind, TheSize

LEMMA LoadKeepsCart == ASSUME CartInv, TakeState PROVE CartInv'
<1>1. IsPlayed(pak') /\ clock' = clock
  BY LoadedIsPlayed DEF CartInv, TakeState
<1> QED
  BY <1>1 DEF TakeState, CartInv, IsPlayed, IsStateOf, TheKind, TheSize

LEMMA SaveKeepsCart == ASSUME CartInv, KeepState \/ SaveFiles PROVE CartInv'
<1>1. IsStateOf(CartSaved(pak))
  BY SavedHoldsAll DEF CartInv
<1>2. CASE KeepState
  BY <1>1, <1>2 DEF KeepState, CartInv, IsPlayed, IsStateOf, TheKind, TheSize
<1>3. CASE SaveFiles
  BY <1>1, <1>3 DEF SaveFiles, CartInv, IsPlayed, IsStateOf, TheKind, TheSize
<1> QED
  BY <1>2, <1>3

LEMMA PowerKeepsCart == ASSUME CartInv, PowerOn PROVE CartInv'
<1> DEFINE clocked == files # None /\ HasRtc(played.type)
           s == [files.cart EXCEPT !.ram = <<>>]
           c == IF clocked THEN CartLoaded(Fresh, s, clock) ELSE Fresh
           d == [c EXCEPT !.ram = files.cart.ram]
<1>1. IsPlayed(Fresh)
  BY NewIsPlayed DEF Fresh
<1>2. files # None => IsStateOf(s)
  BY DEF CartInv, IsStateOf, IsSaved, Spare
<1>3. IsPlayed(c)
  BY <1>1, <1>2, LoadedIsPlayed
<1>4. pak' = IF files # None THEN WithRam(c, files.cart) ELSE c
  BY DEF PowerOn
<1> HIDE DEF c
<1>5. IsPlayed(d)
  <2>1. SameCart(d, c)
    BY <1>3, SetOne DEF IsPlayed
  <2>2. Spare(TheKind, d)
    BY <1>3 DEF IsPlayed, IsCart, Spare
  <2> QED
    BY <1>3, <2>1, <2>2, Changed
<1>6. IsPlayed(pak')
  BY <1>3, <1>4, <1>5 DEF WithRam
<1>7. UNCHANGED <<played, clock, files>> /\ kept' = None
  BY DEF PowerOn
<1> QED
  BY <1>6, <1>7 DEF CartInv, IsPlayed, IsStateOf, TheKind, TheSize

(* A state taken of the cartridge and loaded into a fresh one answers every*)
(* address as the cartridge does, for every mapper, every size of its ROM  *)
(* and RAM, any writes of the game and any saving, loading and power off.  *)
THEOREM CartSurvives == CartSpec => []CartStateSurvives
<1>1. CartInit => CartInv
  BY CartInitially
<1>2. CartInv /\ [CartNext]_cartVars => CartInv'
  <2> SUFFICES ASSUME CartInv, [CartNext]_cartVars
               PROVE  CartInv'
    OBVIOUS
  <2>1. ASSUME NEW w \in played.writes, WriteCart(w[1], w[2])
        PROVE  CartInv'
    BY <2>1, WriteKeeps
  <2>2. CASE TimePasses
    <3>1. UNCHANGED <<played, pak, kept, files>> /\ clock' \in Nat
      BY <2>2, CartAssumption DEF TimePasses, CartInv
    <3> QED
      BY <3>1 DEF CartInv, IsPlayed, IsStateOf, TheKind, TheSize
  <2>3. CASE TakeState
    BY <2>3, LoadKeepsCart
  <2>4. CASE KeepState \/ SaveFiles
    BY <2>4, SaveKeepsCart
  <2>5. CASE PowerOn
    BY <2>5, PowerKeepsCart
  <2>6. CASE UNCHANGED cartVars
    BY <2>6 DEF cartVars, CartInv, IsPlayed, IsStateOf, TheKind, TheSize
  <2> QED
    BY <2>1, <2>2, <2>3, <2>4, <2>5, <2>6 DEF CartNext
<1>3. CartInv => CartStateSurvives
  <2> SUFFICES ASSUME CartInv, NEW a \in played.probes
               PROVE  CartRead(CartLoaded(Fresh, CartSaved(pak), clock), a, clock)
                          = CartRead(pak, a, clock)
    BY DEF CartStateSurvives
  <2>1. CartLoaded(Fresh, CartSaved(pak), clock) = RtcUpdated(pak, clock)
    BY LoadedIsSaved DEF CartInv
  <2>2. CartRead(RtcUpdated(pak, clock), a, clock) = CartRead(pak, a, clock)
    BY ReadIsUpdated DEF CartInv, IsPlayed
  <2> QED
    BY <2>1, <2>2
<1> QED
  BY <1>1, <1>2, <1>3, PTL DEF CartSpec
=============================================================================
