------------------------------ MODULE GbaMachine ------------------------------
(***************************************************************************)
(* The Game Boy Advance as System::runFrame drives it                      *)
(* (src/core/gba/system.cpp): an instruction, the time it took given to    *)
(* the timers and the picture with that of the transfers it began, until   *)
(* the picture has come round and the cycles of a frame have passed.       *)
(***************************************************************************)
EXTENDS GbaCpu, GbaPpu

CONSTANTS InstructionLimit,  \* instructions of a frame (90000, or 300000 in step with the lines)
          RecoveryLimit,     \* and those it may add to reach the picture's end (20000)
          KeySets,           \* what the player may hold
          Setups,            \* what programs have prepared when the model begins
          MaxFrames          \* bound: frames run

VARIABLES machine,   \* [cpu, mem, ppu]
          progress,     \* runUntilFrameBoundary's counts
          frames,    \* frameCounter_
          pictures,  \* what renderExecutionFrame drew, frame by frame
          alone      \* the processor of a run of the same program that is never interrupted

gbaVars == <<machine, progress, frames, pictures, alone>>

CyclesPerFrame == CyclesPerLine * AllLines
AtRest == [spent |-> 0, wrapped |-> FALSE, count |-> 0]
FrameRuns == progress # AtRest

(* consumeDeferredBusCycles, until a step of the memory adds no more.      *)
RECURSIVE TransfersDone(_, _), Drained(_, _)

TransfersDone(s, total) ==
    IF s.mem.deferred = 0 THEN [s |-> s, cycles |-> total]
    ELSE TransfersDone([s EXCEPT !.mem = MemoryStepped(DeferredConsumed(@), s.mem.deferred)], total + s.mem.deferred)

(* drainDeferredBusCycles: what the picture's own transfers took.          *)
Drained(s, total) ==
    IF s.mem.deferred = 0 THEN [s |-> s, cycles |-> total]
    ELSE Drained(PpuStepped([s EXCEPT !.mem = MemoryStepped(DeferredConsumed(@), s.mem.deferred)], s.mem.deferred),
                 total + s.mem.deferred)

(* The body of the loop, and of runInstructions                            *)
MemoryRun(cpu)     == TransfersDone([cpu.m EXCEPT !.mem = MemoryStepped(@, cpu.cycles)], cpu.cycles)
PictureRun(memory) == Drained(PpuStepped(memory.s, memory.cycles), memory.cycles)

SystemStepped(s) == PictureRun(MemoryRun(ArmStepped(s)))

(* The processor executed an instruction of the program, not of a handler. *)
ProgramAdvanced(before, after) ==
    /\ before.cpu.contexts = <<>> /\ after.cpu.contexts = <<>>
    /\ after.cpu.halted => after.cpu.pc # before.cpu.pc

-----------------------------------------------------------------------------
(* The machine of a reset after what the program prepared.                 *)
Prepared(setup) ==
    LET write[n \in 0 .. Len(setup.writes)] ==
            IF n = 0 THEN [NewMemory(setup.ram) EXCEPT !.handler = setup.handler]
            ELSE IoWritten(write[n - 1], setup.writes[n])
    IN  PpuReset([cpu |-> NewArm, mem |-> write[Len(setup.writes)], ppu |-> NewPicture])

GbaInit ==
    /\ \E setup \in Setups : machine = Prepared(setup)
    /\ progress = AtRest /\ frames = 0 /\ pictures = <<>>
    /\ alone = NewArm

(* setInputState and the first instruction of runFrame, or the next one.   *)
(* Past the limit the frame ends with the picture, or gives up.            *)
Instruction ==
    /\ FrameRuns \/ frames < MaxFrames
    /\ \E keys \in KeySets :
       \E s \in {IF FrameRuns THEN machine ELSE [machine EXCEPT !.mem = KeysSet(@, keys)]} :
       \E run \in {SystemStepped(s)} :
        LET wraps == run.s.ppu.line < s.ppu.line
            next  == [spent |-> progress.spent + run.cycles, wrapped |-> progress.wrapped \/ wraps, count |-> progress.count + 1]
            ends  == IF next.count <= InstructionLimit THEN next.wrapped /\ next.spent >= CyclesPerFrame
                     ELSE wraps \/ next.count = InstructionLimit + RecoveryLimit
        IN  /\ FrameRuns => keys = machine.mem.pressed
            /\ machine' = run.s
            /\ progress' = IF ends THEN AtRest ELSE next
            /\ frames' = IF FrameRuns THEN frames ELSE frames + 1
            /\ pictures' = IF ends THEN Append(pictures, Picture(run.s)) ELSE pictures
            /\ alone' = IF ProgramAdvanced(s, run.s) THEN InstructionDone([run.s EXCEPT !.cpu = alone]).cpu ELSE alone

GbaNext == Instruction

-----------------------------------------------------------------------------
(* Whenever no handler runs, the program finds every register, its mode    *)
(* and the stack of the interrupts as a run that was never interrupted     *)
(* leaves them, however the handlers were nested (handlePendingInterrupt,  *)
(* tryReturnFromIrqTrampoline).                                            *)
Visible(c) == [r0 |-> c.r0, hi |-> c.hi, sp |-> c.sp, lr |-> c.lr, pc |-> c.pc, psr |-> c.psr]

InterruptsAreInvisible ==
    machine.cpu.contexts = <<>> =>
        /\ Visible(machine.cpu) = Visible(alone)
        /\ machine.cpu.bank["irq"].sp = StackTops["irq"]

(* A program that waits for the VBlank does nothing else until it comes,   *)
(* whatever other interrupts are handled meanwhile (VBlankIntrWait).       *)
WaitsForVBlank ==
    [][machine.cpu.waiting /\ machine'.cpu.waiting /\ machine.cpu.contexts = <<>> /\ machine'.cpu.contexts = <<>>
        => machine'.cpu.pc = machine.cpu.pc]_gbaVars
=============================================================================
