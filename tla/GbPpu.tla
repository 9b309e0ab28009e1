-------------------------------- MODULE GbPpu ---------------------------------
(***************************************************************************)
(* The picture unit of the Game Boy (src/core/ppu.cpp): the modes of a     *)
(* line, LY, the LYC comparison and the interrupts they request, and what  *)
(* a pixel of a line is made of: background, window and sprites.           *)
(***************************************************************************)
EXTENDS Integers, SequencesExt

CONSTANTS OAMCycles, TransferCycles, HBlankCycles,  \* 80, 172, 204
          VisibleLines, TotalLines                  \* 144, 154

ASSUME PpuAssumption ==
    /\ {OAMCycles, TransferCycles, HBlankCycles} \subseteq Nat \ {0}
    /\ VisibleLines \in Nat \ {0} /\ TotalLines \in Nat /\ TotalLines > VisibleLines

FullLineCycles == OAMCycles + TransferCycles + HBlankCycles

(* The bit of a byte with the weight w.                                    *)
On(byte, w) == (byte \div w) % 2 = 1

LCDC == \hFF40
STAT == \hFF41
SCY  == \hFF42
SCX  == \hFF43
LY   == \hFF44
LYC  == \hFF45
OAMDMA == \hFF46
BGP  == \hFF47
OBP0 == \hFF48
OBP1 == \hFF49
WY   == \hFF4A
WX   == \hFF4B
PpuRegisters == LCDC..WX
Plain == PpuRegisters \ {STAT, LY}   \* written and read back as they are

(* mode is the PPU's own; the low bits of STAT lag behind it.              *)
NewPpu ==
    [mode |-> 2, clock |-> 0, ly |-> 0,
     select |-> 0, shown |-> 1, equal |-> TRUE,              \* STAT
     reg |-> [a \in Plain |-> CASE a = LCDC -> \h91
                                [] a = BGP -> \hFC
                                [] a \in {OBP0, OBP1, OAMDMA} -> \hFF
                                [] OTHER -> 0],
     vblank |-> FALSE, lcdRequest |-> FALSE, hblank |-> FALSE]

ScreenOn(p) == On(p.reg[LCDC], 128)

(* One turn of the switch in PPU::tick: one change of mode at most,        *)
(* whatever the cycles.                                                    *)
Advanced(p) ==
    CASE p.mode = 2 /\ p.clock >= OAMCycles ->
           [p EXCEPT !.clock = @ - OAMCycles, !.mode = 3]
      [] p.mode = 3 /\ p.clock >= TransferCycles ->
           [p EXCEPT !.clock = @ - TransferCycles, !.mode = 0, !.hblank = TRUE]
      [] p.mode = 0 /\ p.clock >= HBlankCycles ->
           [p EXCEPT !.clock = @ - HBlankCycles, !.ly = @ + 1,
                     !.mode = IF p.ly + 1 = VisibleLines THEN 1 ELSE 2,
                     !.vblank = (@ \/ p.ly + 1 = VisibleLines)]
      [] p.mode = 1 /\ p.clock >= FullLineCycles ->
           [p EXCEPT !.clock = @ - FullLineCycles,
                     !.ly = IF p.ly + 1 >= TotalLines THEN 0 ELSE p.ly + 1,
                     !.mode = IF p.ly + 1 >= TotalLines THEN 2 ELSE 1]
      [] OTHER -> p

(* The comparison asks for the interrupt at every tick of its line.        *)
Asked(p) ==
    [p EXCEPT !.lcdRequest = (@ \/ (p.ly = p.reg[LYC] /\ On(p.select, 64)))]

Compared(p) == Asked([p EXCEPT !.shown = p.mode, !.equal = (p.ly = p.reg[LYC])])

PpuTicked(p, cycles) ==
    IF ~ScreenOn(p) THEN [p EXCEPT !.ly = 0, !.mode = 0, !.clock = 0, !.hblank = FALSE]
    ELSE Compared(Advanced([p EXCEPT !.clock = @ + cycles]))

(* PPU::read and PPU::write.                                               *)
PpuRead(p, address) ==
    CASE address = STAT -> 128 + p.select + p.shown + IF p.equal THEN 4 ELSE 0
      [] address = LY   -> p.ly
      [] OTHER          -> p.reg[address]

PpuWritten(p, address, value) ==
    CASE address = STAT -> Asked([p EXCEPT !.select = (value % 128) - (value % 8)])
      [] address = LY   -> Asked([p EXCEPT !.ly = 0])
      [] address = LYC  -> Asked([p EXCEPT !.reg[LYC] = value])
      [] OTHER          -> [p EXCEPT !.reg[address] = value]

(* consumeVBlankInterrupt, consumeLcdInterrupt, consumeHBlankEntered       *)
PpuConsumed(p) == [p EXCEPT !.vblank = FALSE, !.lcdRequest = FALSE]
HBlankConsumed(p) == [p EXCEPT !.hblank = FALSE]


(* loadState: the registers, but not the HBlank that was entered...        *)
PpuLoaded(s) == [s EXCEPT !.hblank = FALSE]

(* ...and the shades of the picture: its colours become the grays of them. *)
Grayed(line) == [x \in DOMAIN line |-> [line[x] EXCEPT !.colour = "gray"]]

-----------------------------------------------------------------------------
(* renderScanline.  A memory is a function of the bank of video memory and *)
(* an offset into it.                                                      *)
Signed8(v) == IF v > 127 THEN v - 256 ELSE v

(* The colour 0..3 of column col in the row of the tile at an address.     *)
TileColor(vram, bank, tile, row, col) ==
    LET at == (tile + 2 * row) % \h2000
        bit(v) == (v \div 2^(7 - col)) % 2
    IN  2 * bit(vram[bank, (at + 1) % \h2000]) + bit(vram[bank, at])

(* The tile that a map names, in either addressing of the tile data.       *)
TileAddress(p, number) ==
    IF On(p.reg[LCDC], 16) THEN number * 16 ELSE \h1000 + Signed8(number) * 16

(* What a map shows at x, y: its colour, its palette and whether it is     *)
(* drawn over the sprites.  The console of the colour kind has a second    *)
(* map of attributes: bank, flips, palette, priority.                      *)
MapPixel(p, vram, colour, map, x, y) ==
    LET cell == (map + (y \div 8) * 32 + x \div 8) % \h2000
        attr == IF colour THEN vram[1, cell] ELSE 0
        row  == IF On(attr, 64) THEN 7 - (y % 8) ELSE y % 8
        col  == IF On(attr, 32) THEN 7 - (x % 8) ELSE x % 8
    IN  [from |-> "map",
         color |-> TileColor(vram, IF On(attr, 8) THEN 1 ELSE 0,
                             TileAddress(p, vram[0, cell]), row, col),
         palette |-> attr % 8, over |-> On(attr, 128)]

NoPixel == [from |-> "blank", color |-> 0, palette |-> 0, over |-> FALSE]

MapBase(p, w) == IF On(p.reg[LCDC], w) THEN \h1C00 ELSE \h1800

(* The window hides the background where it is shown.                      *)
InWindow(p, x) ==
    On(p.reg[LCDC], 32) /\ p.ly >= p.reg[WY] /\ x >= p.reg[WX] - 7

BackPixel(p, vram, colour, x) ==
    CASE InWindow(p, x) ->
           MapPixel(p, vram, colour, MapBase(p, 64), x - (p.reg[WX] - 7), p.ly - p.reg[WY])
      [] ~InWindow(p, x) /\ On(p.reg[LCDC], 1) ->
           MapPixel(p, vram, colour, MapBase(p, 8),
                    (x + p.reg[SCX]) % 256, (p.ly + p.reg[SCY]) % 256)
      [] OTHER -> NoPixel

(* The sprites of a line: the first ten, in the order of OAM.  A sprite is *)
(* a record of its four bytes.                                             *)
SpriteHeight(p) == IF On(p.reg[LCDC], 4) THEN 16 ELSE 8
OnLine(p, s) == s.y - 16 <= p.ly /\ p.ly < s.y - 16 + SpriteHeight(p)

LineSprites(p, oam) ==
    LET all == SelectSeq(oam, LAMBDA s : OnLine(p, s))
    IN  SubSeq(all, 1, IF Len(all) < 10 THEN Len(all) ELSE 10)

(* What a sprite shows at x: no colour where it does not reach.            *)
SpriteColor(p, vram, colour, s, x) ==
    LET col  == x - (s.x - 8)
        row  == LET r == p.ly - (s.y - 16)
                IN  IF On(s.attr, 64) THEN SpriteHeight(p) - 1 - r ELSE r
        tile == (IF SpriteHeight(p) = 16 THEN s.tile - (s.tile % 2) ELSE s.tile) + (row \div 8)
    IN  IF col \notin 0..7 THEN 0
        ELSE TileColor(vram, IF colour /\ On(s.attr, 8) THEN 1 ELSE 0, tile * 16, row % 8,
                       IF On(s.attr, 32) THEN 7 - col ELSE col)

Hidden(colour, s, back) ==
    back.color # 0 /\ (On(s.attr, 128) \/ (colour /\ back.over))

(* Each sprite that shows is drawn over the ones before it.                *)
LinePixel(p, vram, colour, oam, x) ==
    LET back == BackPixel(p, vram, colour, x)
        shows(s) == SpriteColor(p, vram, colour, s, x) # 0 /\ ~Hidden(colour, s, back)
        over == IF On(p.reg[LCDC], 2)
                THEN SelectSeq(LineSprites(p, oam), LAMBDA s : shows(s)) ELSE <<>>
    IN  IF over = <<>>
        THEN [from |-> back.from, color |-> back.color, palette |-> back.palette, shades |-> BGP]
        ELSE [from |-> "sprite", color |-> SpriteColor(p, vram, colour, Last(over), x),
              palette |-> Last(over).attr % 8,
              shades |-> IF On(Last(over).attr, 16) THEN OBP1 ELSE OBP0]

(* A dot of the picture, as shade and as colour; without a pixel, white.   *)
Shade(p, pixel) ==
    IF pixel.from = "blank" THEN 0 ELSE (p.reg[pixel.shades] \div 4^pixel.color) % 4

LineDot(p, colour, pixel) ==
    [shade  |-> Shade(p, pixel),
     colour |-> IF colour /\ pixel.from # "blank" THEN <<pixel.from, pixel.palette, pixel.color>>
                ELSE "gray"]
=============================================================================
