------------------------------ MODULE GbMachine -------------------------------
(***************************************************************************)
(* The Game Boy as the frontend runs it (src/core/gameboy.cpp, the state   *)
(* file of gameboy_state_io.cpp, and processSerialTransferLocked and       *)
(* runOneFrameLocked of src/app/frontend/realtime.cpp): one action per     *)
(* instruction, and between two frames the buttons and the states that are *)
(* saved and loaded.  A machine runs one of Programs.                      *)
(***************************************************************************)
EXTENDS GbCpu

CONSTANTS Programs,    \* records [rom, boot, banks, type, ram, colour, precise, cable,
                       \* buttons, versions, frames]: the last three are the buttons that
                       \* are used, the ways states are saved (0 in memory, 2 to 4 in a
                       \* file) and the bound on the frames that are run
          NoiseBytes   \* what the Noise cable and a remote Game Boy answer

FrameCycles == TotalLines * FullLineCycles       \* 70224
GuardCycles == 3 * FrameCycles

VARIABLES program,  \* what runs, a member of Programs
          gb,       \* [cpu, bus]
          frame,    \* [on, n, elapsed, seen, pad]: the frame under way
          slot,     \* the state that was saved, None before
          told      \* what the properties remember of the past

machineVars == <<program, gb, frame, slot, told>>

MachineInit ==
    /\ program \in Programs
    /\ gb = [cpu |-> NewCpu(program.colour),
             bus |-> NewBus(NewCart(program.type, program.banks, program.ram, 0),
                            program.rom, program.colour, program.boot)]
    /\ frame = [on |-> FALSE, n |-> 0, elapsed |-> 0, seen |-> FALSE, pad |-> gb.bus.pad]
    /\ slot = None
    /\ told = [overflows |-> 0, calls |-> <<>>, asleep |-> 0,
               first |-> <<>>, again |-> <<>>, loaded |-> FALSE,
               old |-> FALSE, spent |-> FALSE]

-----------------------------------------------------------------------------
(* GameBoy::step                                                           *)
PeripheralsTicked(g, t) == [g EXCEPT !.bus = BusTicked(@, PeripheralCycles(@, t))]

(* What is at the other end of the cable.                                  *)
Answers(out) ==
    CASE program.cable = "off" -> {255} [] program.cable = "loopback" -> {out}
      [] program.cable = "noise" -> NoiseBytes [] program.cable = "socket" -> NoiseBytes \cup {255}

(* processSerialTransferLocked                                             *)
SerialProcessed(g) ==
    IF ~g.bus.serial.request THEN {g}
    ELSE {[g EXCEPT !.bus = SerialCompleted(@, data)] : data \in Answers(g.bus.serial.data)}

(* The frame is over: by the cycles of the CPU or, with precise timing,    *)
(* when LY is back from the blanking; a screen that is off ends it too.    *)
FrameIsOver(elapsed, seen, ly) ==
    IF program.precise THEN elapsed >= GuardCycles \/ (seen /\ ly < VisibleLines)
    ELSE elapsed >= FrameCycles

-----------------------------------------------------------------------------
(* What is remembered: the overflows of TIMA, the addresses that interrupts*)
(* have to return to, the cycles in a halt; the frames since the state was *)
(* saved and since it was loaded, each with the pad it began with; whether *)
(* the HBlank entered last is one from before the state was saved (old),   *)
(* and whether a block of an HDMA was moved for it (spent).                *)
Overflows(t, cycles) ==
    LET over(s) == LET r == Reloaded(DivCounted(s)) IN TimaSteps(r) /\ TimaOverflows(r)
        walk[n \in 0..cycles] ==
            IF n = 0 THEN [t |-> t, n |-> 0]
            ELSE LET w == walk[n - 1]
                 IN  [t |-> TimerCycle(w.t), n |-> w.n + IF over(w.t) THEN 1 ELSE 0]
    IN  walk[cycles].n

Interrupted(g) == Serves([g EXCEPT !.cpu.ime = (@ \/ g.cpu.soon)])
Returns(g) == ~Interrupted(g) /\ ~g.cpu.halted /\ Byte1(g) = \hD9

Remembered(g, bus, h, t) ==
    [told EXCEPT
        !.overflows = @ + Overflows(bus.timer, PeripheralCycles(bus, t)),
        !.calls = IF Interrupted(g) THEN <<g.cpu.pc>> \o @
                  ELSE IF Returns(g) /\ @ # <<>> THEN Tail(@) ELSE @,
        !.asleep = IF h.cpu.halted THEN @ + t ELSE 0,
        !.old = @ /\ ~Draws(bus.ppu, h.bus.ppu),
        !.spent = (@ \/ (told.old /\ ~Draws(bus.ppu, h.bus.ppu)
                        /\ bus.ppu.hblank /\ ~h.bus.ppu.hblank /\ ScreenOn(bus.ppu)))]

FrameRemembered(memory, h) ==
    LET now == <<[pad |-> frame.pad, gb |-> h]>>
    IN  IF slot = None THEN memory
        ELSE IF memory.loaded THEN [memory EXCEPT !.again = @ \o now]
        ELSE [memory EXCEPT !.first = @ \o now]

-----------------------------------------------------------------------------
StartFrame ==
    /\ ~frame.on /\ frame.n < program.frames
    /\ frame' = [on |-> TRUE, n |-> frame.n + 1, elapsed |-> 0, seen |-> FALSE,
                 pad |-> gb.bus.pad]
    /\ UNCHANGED <<program, gb, slot, told>>

(* One turn of the loop of runOneFrameLocked.                              *)
RunInstruction ==
    /\ frame.on
    /\ \E done \in {CpuStepped(gb)} : \E ticked \in {PeripheralsTicked(done.g, done.t)} :
       \E memory \in {Remembered(gb, done.g.bus, ticked, done.t)}, h \in SerialProcessed(ticked) :
           LET elapsed == frame.elapsed + done.t
               over    == FrameIsOver(elapsed, frame.seen, ticked.bus.ppu.ly)
           IN  /\ gb' = h
               /\ frame' = [frame EXCEPT !.on = ~over, !.elapsed = elapsed,
                                !.seen = (@ \/ ticked.bus.ppu.ly >= VisibleLines)]
               /\ told' = IF over THEN FrameRemembered(memory, h) ELSE memory
    /\ UNCHANGED <<program, slot>>

SetButton(button, down) ==
    /\ ~frame.on
    /\ down <=> button \notin gb.bus.pad.pressed
    /\ gb' = [gb EXCEPT !.bus = ButtonSet(@, button, down)]
    /\ UNCHANGED <<program, frame, slot, told>>

(* saveState in memory (version 0), or the state file with what it leaves  *)
(* out; a file of an older version has no serial port, no boot flag.       *)
Saved(version) ==
    [version |-> version, cpu |-> gb.cpu, overflows |-> told.overflows, calls |-> told.calls,
     bus |-> LET b == IF version = 0 THEN gb.bus ELSE BusInFile(gb.bus)
             IN  [b EXCEPT !.cart = CartSaved(@),
                           !.boot = (@ /\ version \notin {2, 3}),
                           !.serial = IF version = 2
                                      THEN [@ EXCEPT !.data = 0, !.control = 126, !.request = FALSE]
                                      ELSE @]]

SaveState(version) ==
    /\ ~frame.on /\ slot = None
    /\ slot' = Saved(version)
    /\ told' = [told EXCEPT !.old = TRUE]
    /\ UNCHANGED <<program, gb, frame>>

(* GameBoy::loadState: the cartridge, the bus and the CPU.                 *)
LoadState ==
    /\ ~frame.on /\ slot # None
    /\ gb' = [cpu |-> CpuLoaded(slot.cpu), bus |-> BusLoaded(gb.bus, slot.bus)]
    /\ told' = [told EXCEPT !.loaded = TRUE, !.again = <<>>, !.asleep = 0, !.old = FALSE,
                            !.overflows = slot.overflows, !.calls = slot.calls]
    /\ UNCHANGED <<program, frame, slot>>

MachineNext ==
    \/ StartFrame \/ RunInstruction
    \/ \E button \in program.buttons, down \in BOOLEAN : SetButton(button, down)
    \/ \E version \in program.versions : SaveState(version)
    \/ LoadState

MachineSpec == MachineInit /\ [][MachineNext]_machineVars

-----------------------------------------------------------------------------
(* The program's handler of the timer has run once for every overflow of   *)
(* TIMA, but for the one that is being reloaded and the one that waits in  *)
(* IF: Timer::tick, Bus::tick and CPU::serviceInterrupts lose none and     *)
(* repeat none, with states saved and loaded in between.  The handler      *)
(* counts in the byte at FF80.                                             *)
HandlerRunsOncePerOverflow ==
    told.calls = <<>> /\ gb.bus.ie = 4 =>
        told.overflows = Held(gb.bus, <<"hram", 0>>)
                         + (IF TimerIrq \in gb.bus.if THEN 1 ELSE 0)
                         + (IF gb.bus.timer.pending THEN 1 ELSE 0)

(* RETI comes back to the instruction that an interrupt kept from running. *)
ReturnsWhereInterrupted ==
    [][frame.on /\ Returns(gb) /\ told.calls # <<>> => gb'.cpu.pc = Head(told.calls)]_machineVars

(* A CPU that halted with the VBlank interrupt enabled sleeps for a frame  *)
(* at most while the screen is on.                                         *)
HaltEnds ==
    gb.cpu.halted /\ VBlank \in IrqSet(gb.bus.ie) /\ ScreenOn(gb.bus.ppu) =>
        told.asleep <= FrameCycles

(* Frames that are run again from a saved state, with the same buttons,    *)
(* end in the same machines: what the rewind and the rollback of Netplay   *)
(* rest on.  Not so for an old file, one that was saved in a transfer or   *)
(* with a cable that answers at random; nor where a flag that no state     *)
(* holds matters: the state was saved between a HALT that does not halt    *)
(* and the byte it repeats (haltBug_, cpu.cpp:846), or an HDMA started     *)
(* after it moved its first block for an HBlank from before it             *)
(* (hblankEntered_, ppu.cpp:209).  The colours of a line that has not been *)
(* drawn again are grays (ppu.cpp:211-215).                                *)
Exact(s) == s.version = 0 \/ (s.version = 4 /\ s.bus.serial.control < 128)
FlagsMatter == slot.cpu.bug \/ told.spent

SameLine(new, old) ==
    \A x \in Columns : new[x].shade = old[x].shade /\ new[x].colour \in {old[x].colour, "gray"}

(* hblankEntered_ of an HBlank before the state was saved is lost.         *)
SameMachine(new, old) ==
    /\ SameLine(new.bus.line, old.bus.line)
    /\ new.bus.ppu.hblank => old.bus.ppu.hblank
    /\ [new EXCEPT !.bus.line = {}, !.bus.ppu.hblank = FALSE]
         = [old EXCEPT !.bus.line = {}, !.bus.ppu.hblank = FALSE]

=============================================================================
