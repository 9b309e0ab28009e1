-------------------------------- MODULE GbaPpu --------------------------------
(***************************************************************************)
(* The timing of the Game Boy Advance's picture (src/core/gba/ppu.cpp):    *)
(* the lines and their blanks, the interrupts and transfers they begin,    *)
(* and the registers kept for each line until the picture is drawn.  It    *)
(* works on a machine s, a record with the memory s.mem and the picture    *)
(* s.ppu; the registers a line depends on are mem.scroll, and what the     *)
(* three video memories hold is mem.video.                                 *)
(***************************************************************************)
EXTENDS GbaMemory

CONSTANTS HblankStartCycle, CyclesPerLine,   \* 1006 and 1232
          PictureLines, AllLines           \* 160 and 228

ASSUME GbaPpuAssumption ==
    /\ HblankStartCycle \in 1 .. CyclesPerLine - 1
    /\ PictureLines \in 1 .. AllLines - 1

NoLine == -1   \* a line whose registers were not kept, a memory that was not

NoLines == [l \in 0 .. PictureLines - 1 |-> NoLine]

InVblank(p) == p.line >= PictureLines
InHblank(p) == p.cycles >= HblankStartCycle

(* captureRasterLineSnapshot and captureAffineLineSnapshot                 *)
Captured(s) ==
    IF InVblank(s.ppu) THEN s ELSE [s EXCEPT !.ppu.lines[s.ppu.line] = s.mem.scroll]

(* updateIoRegisters: the interrupts and the transfers are those of the    *)
(* moment a blank or a match begins.                                       *)
IoUpdated(s) ==
    LET p     == s.ppu
        v     == InVblank(p)
        h     == InHblank(p)
        match == s.mem.dispstat.lyc = p.line
        enabled == s.mem.dispstat.irqs
        begun == {irq \in enabled : \/ irq = VBlankIrq /\ v /\ ~p.prevV
                                    \/ irq = HBlankIrq /\ h /\ ~p.prevH
                                    \/ irq = VCountIrq /\ match /\ ~p.prevMatch}
        told  == [s.mem EXCEPT !.vcount = p.line, !.flags = @ \cup begun,
                               !.dispstat.v = v, !.dispstat.h = h, !.dispstat.match = match]
        starts == {t \in {AtVBlank, AtHBlank} : IF t = AtVBlank THEN v /\ ~p.prevV ELSE ~v /\ h /\ ~p.prevH}
    IN  [s EXCEPT !.mem = IF starts = {} THEN told ELSE DmaStarted(told, CHOOSE t \in starts : TRUE),
                  !.ppu.prevV = v, !.ppu.prevH = h, !.ppu.prevMatch = match]

(* reset                                                                   *)
NewPicture == [line |-> 0, cycles |-> 0, prevV |-> FALSE, prevH |-> FALSE, prevMatch |-> FALSE,
           lines |-> NoLines, completed |-> NoLines, shown |-> NoLine]

PpuReset(s) == IoUpdated(Captured([s EXCEPT !.ppu = NewPicture]))

(* The frame is complete when the first line begins again.                 *)
FrameCompleted(s) ==
    IF s.ppu.line # 0 THEN s
    ELSE [s EXCEPT !.ppu.completed = s.ppu.lines, !.ppu.lines = NoLines, !.ppu.shown = s.mem.video]

LineBegun(s) ==
    Captured(FrameCompleted([s EXCEPT !.ppu.line = (@ + 1) % AllLines, !.ppu.cycles = 0]))

(* step, a cycle at a time                                                 *)
PpuCycle(s) ==
    LET on == [s EXCEPT !.ppu.cycles = @ + 1]
    IN  CASE on.ppu.cycles = HblankStartCycle -> IoUpdated(on)
          [] on.ppu.cycles = CyclesPerLine -> IoUpdated(LineBegun(s))
          [] OTHER -> on

PpuStepped(s, cycles) ==
    LET after[n \in 0..cycles] == IF n = 0 THEN s ELSE PpuCycle(after[n - 1])
    IN  after[cycles]

(* rasterSnapshotForLine, affineSnapshotForLine and activeVram: before the *)
(* first frame is complete, what there is is drawn.                        *)
LineShown(s, l) ==
    IF s.ppu.completed[l] # NoLine THEN s.ppu.completed[l]
    ELSE IF s.ppu.lines[l] # NoLine THEN s.ppu.lines[l]
    ELSE s.mem.scroll

MemoryDrawn(s) == IF s.ppu.shown # NoLine THEN s.ppu.shown ELSE s.mem.video

(* render: the mode and the rest of what line 0 says holds for the frame.  *)
Picture(s) == [lines |-> [l \in 0 .. PictureLines - 1 |-> LineShown(s, l)], memory |-> MemoryDrawn(s)]
=============================================================================
