-------------------------------- MODULE GbBus ---------------------------------
(***************************************************************************)
(* The bus of the Game Boy (src/core/bus.cpp, joypad.cpp): the devices and *)
(* the memories it owns as one record, the address map, and what a tick    *)
(* does to the devices, in the order of Bus::tick.                         *)
(*                                                                         *)
(* A memory cell is <<memory, offset>>; mem holds the cells that were      *)
(* written, the others are 0.  Rom holds the program's bytes by bank and   *)
(* offset.                                                                 *)
(***************************************************************************)
EXTENDS GbTimer, GbPpu, GbApu, GbCart

CONSTANTS SerialCycles, SerialCyclesFast, \* of a transfer (4096, 128)
          HdmaBlock,                      \* bytes of a block (16)
          OamBytes,                       \* bytes that OAM DMA copies (160)
          Columns                         \* the columns of a line that are drawn

ASSUME BusAssumption ==
    /\ {SerialCycles, SerialCyclesFast, HdmaBlock, OamBytes} \subseteq Nat \ {0}
    /\ Columns \subseteq Nat

VBlank    == 0
LcdStat   == 1
TimerIrq  == 2
SerialIrq == 3
JoypadIrq == 4
Irqs == 0..4

Directions == {"Right", "Left", "Up", "Down"}
Actions    == {"A", "B", "Select", "Start"}

NewCgb == [double |-> FALSE, armed |-> FALSE, vbk |-> 0, svbk |-> 1, bgpi |-> 0, obpi |-> 0]
NoHdma == [active |-> FALSE, left |-> 255, from |-> 0, to |-> 0]

(* The constructor and setHardwareMode.                                    *)
NewBus(cart, rom, colour, boot) ==
    [timer |-> NewTimer, ppu |-> NewPpu, apu |-> ApuStart,
     pad |-> [pressed |-> {}, select |-> 48, request |-> FALSE],
     serial |-> [data |-> 0, control |-> 126, busy |-> FALSE, left |-> 0, request |-> FALSE],
     cgb |-> colour, x |-> NewCgb, hdma |-> NoHdma,
     cart |-> cart, rom |-> rom, now |-> 0,
     bootRom |-> boot, boot |-> DOMAIN boot # {},
     mem |-> <<>>, line |-> [c \in Columns |-> [shade |-> 0, colour |-> "black"]], ie |-> 0, if |-> {VBlank}]

-----------------------------------------------------------------------------
(* Joypad::setButton: the edge of a press asks for the interrupt.          *)
ButtonSet(b, button, down) ==
    [b EXCEPT !.pad.pressed = IF down THEN @ \cup {button} ELSE @ \ {button},
              !.pad.request = (@ \/ (down /\ button \notin b.pad.pressed))]

(* Joypad::read: a row is shown while its select line is low.              *)
PadBit(button) ==
    CASE button \in {"Right", "A"} -> 1 [] button \in {"Left", "B"} -> 2
      [] button \in {"Up", "Select"} -> 4 [] button \in {"Down", "Start"} -> 8

PadRead(pad) ==
    LET shown == (IF On(pad.select, 16) THEN {} ELSE Directions)
                 \cup (IF On(pad.select, 32) THEN {} ELSE Actions)
        low == {PadBit(x) : x \in pad.pressed \cap shown}
        bit(w) == IF w \in low THEN 0 ELSE w
    IN  192 + pad.select + bit(1) + bit(2) + bit(4) + bit(8)

-----------------------------------------------------------------------------
(* readInternal's memories: banks of video memory and of work memory, the  *)
(* echo of the latter, OAM and the last page.                              *)
WorkBank(b) == IF b.cgb THEN OneIfZero(b.x.svbk) ELSE 1

WorkCell(b, a) ==
    LET off == a - \hC000
    IN  IF off < \h1000 \/ WorkBank(b) = 1 THEN <<"wram", off>>
        ELSE <<"wramExt", (WorkBank(b) - 2) * \h1000 + off - \h1000>>

VideoCell(bank, off) == <<IF bank = 1 THEN "vram1" ELSE "vram0", off>>

InCart(a) == a < RomEnd \/ a \in \hA000..\hBFFF

IsMemory(a) ==
    a \in \h8000..\h9FFF \/ a \in \hC000..\hFE9F \/ a \in \hFF80..\hFFFE

CellOf(b, a) ==
    CASE a \in \h8000..\h9FFF -> VideoCell(IF b.cgb THEN b.x.vbk ELSE 0, a - \h8000)
      [] a \in \hC000..\hDFFF -> WorkCell(b, a)
      [] a \in \hE000..\hFDFF -> WorkCell(b, a - \h2000)
      [] a \in \hFE00..\hFE9F -> <<"oam", a - \hFE00>>
      [] a \in \hFF80..\hFFFE -> <<"hram", a - \hFF80>>

Held(b, cell) == IF cell \in DOMAIN b.mem THEN b.mem[cell] ELSE 0
Put(b, cell, value) == [b EXCEPT !.mem = (cell :> value) @@ @]

(* What the cartridge answers: a byte of the program, a byte of its RAM.   *)
CartAnswer(b, a, r) ==
    CASE r = None -> 255
      [] r # None /\ a < RomEnd -> LET at == <<r[2], r[3]>>
                                   IN  IF at \in DOMAIN b.rom THEN b.rom[at] ELSE 0
      [] OTHER -> r

CartByte(b, a) == CartAnswer(b, a, CartRead(b.cart, a, b.now))

IrqByte(irqs) ==
    LET w[i \in 0..5] == IF i = 0 THEN 0 ELSE w[i - 1] + IF i - 1 \in irqs THEN 2^(i - 1) ELSE 0
    IN  w[5]
IrqSet(byte) == {i \in Irqs : On(byte, 2^i)}

KEY1 == \hFF4D
VBK  == \hFF4F
HDMA == \hFF51..\hFF55
PAL  == \hFF68..\hFF6B
SVBK == \hFF70

PaletteCell(b, a) ==
    IF a = \hFF69 THEN <<"bgPalette", b.x.bgpi % 64>> ELSE <<"objPalette", b.x.obpi % 64>>

(* The registers of the colour console read 255 on the other.              *)
ColourRead(b, a) ==
    CASE a = KEY1 -> 126 + (IF b.x.double THEN 128 ELSE 0) + IF b.x.armed THEN 1 ELSE 0
      [] a = VBK  -> 254 + b.x.vbk
      [] a = \hFF51 -> b.hdma.from \div 256
      [] a = \hFF52 -> (b.hdma.from % 256) + 15
      [] a = \hFF53 -> 224 + (b.hdma.to \div 256)
      [] a = \hFF54 -> (b.hdma.to % 256) + 15
      [] a = \hFF55 -> IF b.hdma.active THEN b.hdma.left ELSE 255
      [] a = \hFF68 -> 64 + (b.x.bgpi % 64) + IF On(b.x.bgpi, 128) THEN 128 ELSE 0
      [] a = \hFF6A -> 64 + (b.x.obpi % 64) + IF On(b.x.obpi, 128) THEN 128 ELSE 0
      [] a \in {\hFF69, \hFF6B} -> Held(b, PaletteCell(b, a))
      [] a = SVBK -> 248 + b.x.svbk

ColourRegisters == {KEY1, VBK, SVBK} \cup HDMA \cup PAL

(* Bus::readInternal                                                       *)
BusRead(b, a) ==
    CASE b.boot /\ a \in DOMAIN b.bootRom -> b.bootRom[a]
      [] ~(b.boot /\ a \in DOMAIN b.bootRom) /\ InCart(a) -> CartByte(b, a)
      [] IsMemory(a) -> Held(b, CellOf(b, a))
      [] a \in ApuRegisters -> ApuRead(b.apu, a)
      [] a \in PpuRegisters -> PpuRead(b.ppu, a)
      [] a = \hFF00 -> PadRead(b.pad)
      [] a = \hFF01 -> b.serial.data
      [] a = \hFF02 -> b.serial.control
      [] a \in TimerRegisters -> TimerRead(b.timer, a)
      [] a = \hFF0F -> 224 + IrqByte(b.if)
      [] a = \hFFFF -> b.ie
      [] a \in ColourRegisters /\ b.cgb -> ColourRead(b, a)
      [] OTHER -> 255

-----------------------------------------------------------------------------
(* A write to SC starts a transfer, or gives one up.                       *)
SerialWritten(b, value) ==
    LET start == value >= 128
        fast  == On(value, 1) /\ On(value, 2) /\ b.cgb
    IN  [b EXCEPT !.serial =
            [@ EXCEPT !.control = 124 + (value % 4) + IF start THEN 128 ELSE 0,
                      !.busy = start, !.request = FALSE,
                      !.left = IF ~start THEN 0
                               ELSE IF fast THEN SerialCyclesFast ELSE SerialCycles]]

(* doHdmaTransfer: bytes into the bank that VBK names; what would go past  *)
(* the video memory is dropped, the pointers go on.                        *)
HdmaMoved(b, bytes) ==
    LET to(i) == \h8000 + b.hdma.to + i
        moved == {i \in 0..(bytes - 1) : to(i) <= \h9FFF}
        cells == [c \in {VideoCell(b.x.vbk, b.hdma.to + i) : i \in moved} |->
                     BusRead(b, (b.hdma.from + c[2] - b.hdma.to) % 65536)]
    IN  [b EXCEPT !.mem = cells @@ @,
                  !.hdma.from = (@ + bytes) % 65536, !.hdma.to = (@ + bytes) % \h2000]

HdmaStopped(b) == [b EXCEPT !.hdma.active = FALSE, !.hdma.left = 255]

(* A write to HDMA5: stop one that waits for HBlanks, start one, or move   *)
(* everything at once.                                                     *)
HdmaWritten(b, value) ==
    IF b.hdma.active /\ value < 128 THEN HdmaStopped(b)
    ELSE IF value >= 128 THEN [b EXCEPT !.hdma.active = TRUE, !.hdma.left = value % 128]
    ELSE HdmaStopped(HdmaMoved(b, (value + 1) * HdmaBlock))

(* The index of a palette steps on with every byte when its top bit is set.*)
PaletteWritten(b, a, value) ==
    LET next(i) == IF On(i, 128) THEN 128 + ((i + 1) % 64) ELSE i
        put == Put(b, PaletteCell(b, a), value)
    IN  IF a = \hFF69 THEN [put EXCEPT !.x.bgpi = next(@)] ELSE [put EXCEPT !.x.obpi = next(@)]

ColourWritten(b, a, value) ==
    CASE a = KEY1 -> [b EXCEPT !.x.armed = On(value, 1)]
      [] a = VBK  -> [b EXCEPT !.x.vbk = value % 2]
      [] a = \hFF51 -> [b EXCEPT !.hdma.from = (@ % 256) + 256 * value]
      [] a = \hFF52 -> [b EXCEPT !.hdma.from = @ - (@ % 256) + value - (value % 16)]
      [] a = \hFF53 -> [b EXCEPT !.hdma.to = (@ % 256) + 256 * (value % 32)]
      [] a = \hFF54 -> [b EXCEPT !.hdma.to = @ - (@ % 256) + value - (value % 16)]
      [] a = \hFF55 -> HdmaWritten(b, value)
      [] a = \hFF68 -> [b EXCEPT !.x.bgpi = value]
      [] a = \hFF6A -> [b EXCEPT !.x.obpi = value]
      [] a \in {\hFF69, \hFF6B} -> PaletteWritten(b, a, value)
      [] a = SVBK -> [b EXCEPT !.x.svbk = value % 8]

(* doOamDma copies a page at once.                                         *)
OamCopied(b, page) ==
    [b EXCEPT !.mem = [c \in {<<"oam", i>> : i \in 0..(OamBytes - 1)} |->
                          BusRead(b, 256 * page + c[2])] @@ @]

(* Bus::write                                                              *)
BusWritten(b, a, value) ==
    CASE InCart(a) -> [b EXCEPT !.cart = CartWritten(@, a, value, b.now)]
      [] IsMemory(a) -> Put(b, CellOf(b, a), value)
      [] a \in ApuRegisters -> [b EXCEPT !.apu = ApuWritten(@, a, value)]
      [] a = OAMDMA -> [OamCopied(b, value) EXCEPT !.ppu = PpuWritten(@, a, value)]
      [] a \in PpuRegisters \ {OAMDMA} -> [b EXCEPT !.ppu = PpuWritten(@, a, value)]
      [] a = \hFF00 -> [b EXCEPT !.pad.select = (value % 64) - (value % 16)]
      [] a = \hFF01 -> [b EXCEPT !.serial.data = value]
      [] a = \hFF02 -> SerialWritten(b, value)
      [] a \in TimerRegisters -> [b EXCEPT !.timer = TimerWritten(@, a, value)]
      [] a = \hFF0F -> [b EXCEPT !.if = IrqSet(value)]
      [] a = \hFFFF -> [b EXCEPT !.ie = value]
      [] a \in ColourRegisters /\ b.cgb -> ColourWritten(b, a, value)
      [] a = \hFF50 -> [b EXCEPT !.boot = (@ /\ value = 0)]
      [] OTHER -> b

-----------------------------------------------------------------------------
(* trySpeedSwitch                                                          *)
Switches(b) == b.cgb /\ b.x.armed
SpeedSwitched(b) == [b EXCEPT !.x.double = ~@, !.x.armed = FALSE]

PeripheralCycles(b, cycles) == IF b.x.double THEN cycles \div 2 ELSE cycles

(* The line is drawn when its transfer ends.                               *)
Sprites(b) ==
    [i \in 1..(OamBytes \div 4) |->
        LET at(k) == Held(b, <<"oam", 4 * (i - 1) + k>>)
        IN  [y |-> at(0), x |-> at(1), tile |-> at(2), attr |-> at(3)]]

LineDrawn(b) ==
    LET vram == [bank \in 0 .. 1, off \in 0 .. \h1FFF |-> Held(b, VideoCell(bank, off))]
    IN  [b EXCEPT !.line = [x \in Columns |->
            LineDot(b.ppu, b.cgb, LinePixel(b.ppu, vram, b.cgb, Sprites(b), x))]]

Draws(p, q) == p.mode = 3 /\ q.mode = 0 /\ ScreenOn(p)

PictureTicked(b, ppu) == [(IF Draws(b.ppu, ppu) THEN LineDrawn(b) ELSE b) EXCEPT !.ppu = ppu]

(* tickHdmaHBlank: a block for an HBlank that was entered and not used.    *)
MovesBlock(b) == b.cgb /\ b.hdma.active /\ ScreenOn(b.ppu) /\ b.ppu.hblank

BlockDone(b) == IF b.hdma.left = 0 THEN HdmaStopped(b) ELSE [b EXCEPT !.hdma.left = @ - 1]

HdmaTicked(b) ==
    IF ~MovesBlock(b) THEN b
    ELSE BlockDone([HdmaMoved(b, HdmaBlock) EXCEPT !.ppu = HBlankConsumed(@)])

SerialTicked(b, cycles) ==
    IF ~b.serial.busy THEN b
    ELSE IF cycles >= b.serial.left
    THEN [b EXCEPT !.serial.left = 0, !.serial.busy = FALSE, !.serial.request = TRUE]
    ELSE [b EXCEPT !.serial.left = @ - cycles]

(* The requests of the devices become interrupt flags.                     *)
Requests(b) ==
    {i \in Irqs : \/ i = TimerIrq /\ b.timer.request
                  \/ i = LcdStat /\ b.ppu.lcdRequest
                  \/ i = VBlank /\ b.ppu.vblank
                  \/ i = JoypadIrq /\ b.pad.request}

RequestsTaken(b) ==
    [b EXCEPT !.if = @ \cup Requests(b), !.timer = TimerConsumed(@),
              !.ppu = PpuConsumed(@), !.pad.request = FALSE]

BusTicked(b, cycles) ==
    LET timed == [PictureTicked(b, PpuTicked(b.ppu, cycles)) EXCEPT !.timer = TimerTicked(@, cycles)]
    IN  RequestsTaken([SerialTicked(HdmaTicked(timed), cycles) EXCEPT !.apu = ApuTicked(@, cycles)])

(* consumeSerialTransfer and completeSerialTransfer, which the frontend    *)
(* calls between two instructions.                                         *)
SerialCompleted(b, data) ==
    [b EXCEPT !.serial = [data |-> data, control |-> @.control % 128, busy |-> FALSE,
                          left |-> 0, request |-> FALSE],
              !.if = @ \cup {SerialIrq}]

(* Bus::state and Bus::loadState.                                          *)
BusLoaded(b, s) ==
    [s EXCEPT !.ppu = PpuLoaded(@), !.line = Grayed(@), !.cart = CartLoaded(b.cart, s.cart, b.now), !.now = b.now,
              !.bootRom = b.bootRom, !.boot = (@ /\ DOMAIN b.bootRom # {})]

(* The state file leaves out the fourth channel and the transfer that is   *)
(* under way (writeApuState, writeBusState).                               *)
BusInFile(b) ==
    [b EXCEPT !.apu.ch[4] = SilentChannel, !.serial.busy = FALSE, !.serial.left = 0]

=============================================================================
