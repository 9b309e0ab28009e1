------------------------------ MODULE MCAdvance -------------------------------
(***************************************************************************)
(* The parts of the Game Boy Advance, each with what it is given: a        *)
(* program with a handler that interrupts may interrupt, the memories of   *)
(* cartridges, pictures and numbers.  One of them runs in a behaviour.     *)
(***************************************************************************)
EXTENDS GbaMachine, GbaApu, GbaBackup, GbaPicture, FiniteSetsExt

VARIABLES gbaPart,   \* "program", "sound", "save", "picture" or "words"
          scene,     \* a picture to draw
          word       \* an operand

mcVars == <<gbaPart, scene, word>>

Data(fn, value) == [op |-> "data", fn |-> fn, value |-> value]

TheCode ==
    4 :> Data("mov", 3) @@ 5 :> [op |-> "high"] @@ 6 :> [op |-> "push"] @@ 7 :> Data("sub", 1)
    @@ 8 :> [op |-> "b", cond |-> "ne", to |-> 7, link |-> FALSE] @@ 9 :> [op |-> "pop"]
    @@ 10 :> [op |-> "swi", call |-> "VBlankIntrWait"]
    @@ 11 :> [op |-> "b", cond |-> "al", to |-> 4, link |-> FALSE]
    (* the handler *)
    @@ 20 :> [op |-> "store", to |-> "if", value |-> {VBlankIrq, HBlankIrq, TimerInterrupt(0), DmaIrq(1)}]
    @@ 21 :> [op |-> "push"] @@ 22 :> [op |-> "msr", mode |-> "sys", off |-> FALSE]
    @@ 23 :> Data("mov", 7) @@ 24 :> [op |-> "high"]
    @@ 25 :> [op |-> "msr", mode |-> "irq", off |-> TRUE] @@ 26 :> [op |-> "pop"] @@ 27 :> [op |-> "bx"]

TheStackTops == "user" :> 8 @@ "irq" :> 24 @@ "svc" :> 24
ThePrescalers == [s \in 0..3 |-> s + 1]
TheFullCounts == [ch \in 0..3 |-> 4]

(* Samples 1 to 8, in words of two.                                        *)
Samples == [a \in 0..3 |-> <<2 * a + 1, 2 * a + 2>>]

SoundDma == [IdleChannel EXCEPT !.on = TRUE, !.timing = Special, !.repeat = TRUE, !.dst = FifoPort(0), !.irq = TRUE]

To(register, value) == [to |-> register, value |-> value]

ASetup(irqs, reload, scale) ==
    [ram |-> Samples, handler |-> 20,
     writes |-> <<To("ie", irqs), To("ime", TRUE), To("dispstat", [irqs |-> irqs \cap {VBlankIrq, HBlankIrq}, lyc |-> 1]),
                  [to |-> "sound", value |-> [f \in Fifos |-> [on |-> f = 0, timer |-> 0]], resets |-> Fifos],
                  [to |-> "dma", channel |-> 1, value |-> SoundDma],
                  [to |-> "reload", timer |-> 0, value |-> reload],
                  [to |-> "timer", timer |-> 0,
                   value |-> [on |-> TRUE, cascade |-> FALSE, irq |-> TRUE, scale |-> scale]]>>]

TheSetups ==
    {ASetup(irqs, r, sc) : irqs \in {s \in SUBSET {VBlankIrq, HBlankIrq, TimerInterrupt(0), DmaIrq(1)} : VBlankIrq \in s},
                           r \in 0..3, sc \in 0..3}
TheKeySets == {{}}

-----------------------------------------------------------------------------
AChip(kind, address, forced, strict) == [kind |-> kind, address |-> address, forced |-> forced, strict |-> strict]
TheChips ==
    {AChip("sram", 0, 0, FALSE), AChip("flash64", 0, 0, TRUE), AChip("flash128", 0, 0, FALSE)}
    \cup {AChip("eeprom", a, 0, FALSE) : a \in {ShortAddress, LongAddress}}
    \cup {AChip("eeprom", LongAddress, LongAddress, TRUE)}

(* FIFO A on timer 0 and FIFO B on either, before or after the switch is   *)
(* thrown; the second old channel with a note of one clock.               *)
ToMixer(register, value, empties) == [to |-> register, channel |-> 0, register |-> 0, value |-> value, empties |-> empties]
ToOld(channel, register, value) ==
    [to |-> "old", channel |-> channel, register |-> register, value |-> [byte |-> value], empties |-> {}]

AControl(second, full) ==
    ToMixer("h", [full |-> full, left |-> Fifos, right |-> {1}, timer |-> [f \in Fifos |-> IF f = 0 THEN 0 ELSE second]],
            IF full = {} THEN {0} ELSE {})

TheAudioSetups ==
    {<<AControl(second, {0}), ToMixer("l", [left |-> {2}, right |-> {}], {}), ToMixer("x", [on |-> x], {}),
       ToOld(2, 2, 240), ToOld(2, 1, 0), ToOld(2, 4, 192)>> : second \in 0..1, x \in BOOLEAN}
TheAudioWrites == {AControl(0, {}), ToMixer("x", [on |-> TRUE], {}), ToOld(2, 4, 192)}
TheAudioSteps ==
    {<<3, [i \in 0..1 |-> IF i = 0 THEN first ELSE second]>> : first \in {{}, {1}, {2, 3}}, second \in {{}, {2}}}
    \cup {<<1, [i \in 0..1 |-> IF i = 0 THEN first ELSE {}]>> : first \in {{}, {1}}}
TheOldLengths == [c \in 1..4 |-> 1]

(* Pictures of three lines: the modes, the priorities of the backgrounds,  *)
(* two objects and the windows differ.                                     *)
Scenes ==
    [mode : {0, 1, 2, 4}, behind : [{0, 1, 2} -> {0, 1}], front : [{1, 2} -> {0, 1}],
     kinds : [{1, 2} -> {"plain", "semi", "window"}], windows : {{}, {0, ObjWindow}}]
PlainScene == [mode |-> 0, behind |-> [n \in {0, 1, 2} |-> 0], front |-> [i \in {1, 2} |-> 0],
               kinds |-> [i \in {1, 2} |-> "plain"], windows |-> {}]

TheTexels == [wide \in BOOLEAN |-> [slot \in 0..11 |-> [ty \in 0..1 |-> [tx \in 0..1 |-> (slot + ty + 2 * tx) % 3]]]]
AMapEntry(cell) == [tile |-> cell, hflip |-> cell = 1, vflip |-> cell = 2, bank |-> cell % 2]
ThePalette == [i \in 0..31 |-> <<i, 31 - i, 7>>]

AnObject(sc, i) ==
    [x |-> IF i = 1 THEN 1 ELSE 511, y |-> IF i = 1 THEN 255 ELSE 1, shape |-> i - 1, size |-> 1, affine |-> i = 2,
     double |-> FALSE, wide |-> i = 2, mosaic |-> FALSE, hflip |-> i = 1, vflip |-> FALSE, tile |-> 4 + i,
     bank |-> 1, pa |-> 2, pb |-> 1, pc |-> 0, pd |-> 2, priority |-> sc.front[i], kind |-> sc.kinds[i]]

TheVideo(sc) ==
    [map |-> [block \in 0..3 |-> [cell \in 0..3 |-> AMapEntry(cell)]],
     affineMap |-> [block \in 0..3 |-> [cell \in 0..3 |-> 3 - cell]],
     texel |-> TheTexels, objTexel |-> TheTexels, objects |-> <<AnObject(sc, 1), AnObject(sc, 2)>>,
     bitmap |-> [page \in 0..1 |-> [y \in 0..2 |-> [x \in 0..3 |-> <<page, y, x>>]]],
     backdrop |-> <<0, 0, 31>>, palette |-> ThePalette, objPalette |-> ThePalette]

ABackground(sc, n) ==
    [priority |-> IF n = 3 THEN 1 ELSE sc.behind[n], wide |-> n = 1, mosaic |-> n = 0, char |-> n % 2,
     screen |-> 0, size |-> IF n = 1 THEN 3 ELSE 0, hofs |-> n, vofs |-> 1, wrap |-> n = 2]

ALine(sc, y) ==
    [mode |-> sc.mode, on |-> 0..4, forcedBlank |-> FALSE, page |-> 1, oneDimension |-> TRUE,
     windows |-> sc.windows, rect |-> [w \in 0..1 |-> [left |-> 3, right |-> 1, top |-> 0, bottom |-> 2]],
     inside |-> [w \in 0..1 |-> {0, 1, 2, 4, 5}], inObjects |-> {1, 3, 5}, outside |-> 0..4,
     bg |-> [n \in 0..3 |-> ABackground(sc, n)], mosaicX |-> 2, mosaicY |-> 2, objMosaicX |-> 1, objMosaicY |-> 1,
     affine |-> [n \in 2..3 |-> [pa |-> 2, pb |-> 1, pc |-> 1, pd |-> 2, x |-> n - 2, y |-> IF y < 2 THEN 0 ELSE 5]],
     first |-> {0, 4}, second |-> {1, 5}, effect |-> "blend", eva |-> 10, evb |-> 8, evy |-> 4]

TheLines(sc) == [y \in 0 .. ScreenHeight - 1 |-> ALine(sc, y)]

-----------------------------------------------------------------------------
AdvanceInit ==
    /\ gbaPart \in {"program", "sound", "save", "picture", "words"}
    /\ GbaInit /\ (gbaPart # "program" => machine = Prepared(ASetup({VBlankIrq}, 0, 0)))
    /\ AudioInit /\ (gbaPart # "sound" => audio.memory.registers.h.timer[1] = 0 /\ audio.memory.registers.x.on)
    /\ SaveInit /\ (gbaPart # "save" => chip = AChip("sram", 0, 0, FALSE))
    /\ scene \in IF gbaPart = "picture" THEN Scenes ELSE {PlainScene}
    /\ word \in IF gbaPart = "words" THEN Words ELSE {0}

AdvanceNext ==
    \/ gbaPart = "program" /\ GbaNext /\ UNCHANGED <<mcVars, saveVars, audio>>
    \/ gbaPart = "sound" /\ AudioNext /\ UNCHANGED <<mcVars, gbaVars, saveVars>>
    \/ gbaPart = "save" /\ SaveNext /\ UNCHANGED <<mcVars, gbaVars, audio>>

-----------------------------------------------------------------------------
(* The samples are played in the order they lie in memory; a FIFO that ran *)
(* dry repeats its last one.                                               *)
SamplesInOrder ==
    LET played == machine.mem.events[0]
    IN  \A n \in 1 .. Len(played) - 1 : played[n + 1] \in {played[n], (played[n] % 8) + 1}
(* At every dot, the two layers that are kept are the two highest of those *)
(* that show there: by priority, then objects before backgrounds, then the *)
(* first of them (composeLayer is given them in no such order).            *)
PixelIsTopLayer ==
    gbaPart = "picture" =>
        \A x \in 0 .. ScreenWidth - 1, y \in 0 .. ScreenHeight - 1, v \in {TheVideo(scene)}, lines \in {TheLines(scene)} :
        \A dots \in {DotsAt(v, lines, x, y, MaskAt(v, lines, x, y)) \o <<BackdropDot(v)>>}, px \in {PixelAt(v, lines, x, y)} :
            LET rank(i) == 100 * dots[i].priority + (IF dots[i].layer = ObjLayer THEN 0 ELSE 50) + i
                ranks == {rank(i) : i \in DOMAIN dots}
                at(r) == dots[CHOOSE i \in DOMAIN dots : rank(i) = r]
            IN  /\ px.top = at(Min(ranks))
                /\ Len(dots) > 1 => px.second = <<at(Min(ranks \ {Min(ranks)}))>>

(* Numbers of two words: what ADDS and ADC make of them is their sum, what *)
(* SUBS and SBC make their difference, and the conditions read after it    *)
(* compare them, as signed numbers and as unsigned ones; ASR and RRX halve *)
(* a number of two words; and two shifts by registers are the shift by the *)
(* sum, carry and all.                                                     *)
Wide(high, low) == high * WordBase + low
WideSigned(high, low) == SignedOf(high) * WordBase + low

WideArithmetic ==
    gbaPart = "words" =>
        \A low \in Words, high2 \in Words, low2 \in Words :
            LET add  == Processed("add", low, Shifted(low2, FALSE), ClearFlags)
                adc  == Processed("adc", word, Shifted(high2, FALSE), add.flags)
                cmp  == Processed("sub", low, Shifted(low2, FALSE), ClearFlags)
                sbc  == Processed("sbc", word, Shifted(high2, FALSE), cmp.flags)
                asr  == ShiftedByImmediate("asr", word, 1, FALSE)
                rrx  == ShiftedByImmediate("ror", low, 0, asr.carry)
                a    == Wide(word, low)
                b    == Wide(high2, low2)
            IN  /\ Wide(adc.result, add.result) = (a + b) % (WordBase * WordBase)
                /\ Wide(sbc.result, cmp.result) = (a - b) % (WordBase * WordBase)
                /\ ConditionPassed("cs", sbc.flags) <=> a >= b
                /\ ConditionPassed("lt", sbc.flags) <=> WideSigned(word, low) < WideSigned(high2, low2)
                /\ WideSigned(asr.value, rrx.value) = WideSigned(word, low) \div 2
                /\ \A kind \in {"lsl", "lsr", "asr", "ror"} :
                        low2 > 0 => ThumbProcessed(kind, ThumbProcessed(kind, word, low, ClearFlags).result, low2, ClearFlags)
                                    = ThumbProcessed(kind, word, low + low2, ClearFlags)
=============================================================================
