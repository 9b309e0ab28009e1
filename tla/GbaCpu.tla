-------------------------------- MODULE GbaCpu --------------------------------
(***************************************************************************)
(* The processor of the Game Boy Advance (src/core/gba/cpu.cpp): the modes *)
(* and their banked registers, the entry to and the return from interrupts *)
(* that stand in for the BIOS, the calls a program halts with and those    *)
(* that reset.  r0 and hi (r8 to r12) stand for the registers; a machine   *)
(* is [cpu, mem].  Instructions are records of what they do, one at each   *)
(* address of Code; addresses count instructions, not bytes.               *)
(***************************************************************************)
EXTENDS GbaMemory, GbaAlu

CONSTANTS MaxContexts,  \* interrupts that may be nested (8)
          Code,         \* the program: address -> instruction
          ResetPc,      \* where it begins; lower addresses are the BIOS, which holds no code
          RamPc,        \* where a reset begins that the boot flag sends to RAM (0x02000000)
          StackTops     \* the stack pointers of a reset, by bank

Trampoline == -1        \* kIrqReturnTrampoline, where no code lies
IoBase == 1             \* 0x04000000, which a handler finds in r0
NoHandler == 3          \* 0x18, the BIOS vector
PrefetchVector == 2     \* 0x0C
UndefinedVector == 1    \* 0x04
InstructionCycles == 2  \* of an ARM instruction, without its accesses
IdleCycles == 4         \* of a step of a halted processor

Modes == {"usr", "sys", "irq", "svc", "abt", "und", "fiq"}
BankOf(mode) == IF mode \in {"usr", "sys"} THEN "user" ELSE mode
Banks == {BankOf(mode) : mode \in Modes}
ClearFlags == [n |-> FALSE, z |-> FALSE, c |-> FALSE, v |-> FALSE]

Psr(mode, off) == [mode |-> mode, off |-> off, flags |-> ClearFlags]   \* off: bit I, interrupts masked
EmptyBank == [sp |-> 0, lr |-> 0, spsr |-> Psr("usr", FALSE)]
ResetBanks == [b \in Banks |-> [EmptyBank EXCEPT !.sp = IF b \in DOMAIN StackTops THEN StackTops[b] ELSE 0]]

(* reset                                                                   *)
NewArm ==
    [r0 |-> 0, hi |-> 0, sp |-> StackTops["user"], lr |-> 0, pc |-> ResetPc, psr |-> Psr("sys", FALSE),
     bank |-> ResetBanks, sharedHi |-> 0, fiqHi |-> 0,
     contexts |-> <<>>, halted |-> FALSE, waiting |-> FALSE, mask |-> {}]

(* isValidExecuteAddress                                                   *)
Executable(pc) == pc \in DOMAIN Code \/ pc \in 0 .. ResetPc - 1

-----------------------------------------------------------------------------
(* saveModeBank and loadModeBank                                           *)
BankSaved(c) ==
    LET b == BankOf(c.psr.mode)
    IN  [c EXCEPT !.bank[b].sp = c.sp, !.bank[b].lr = c.lr,
                  !.fiqHi = IF b = "fiq" THEN c.hi ELSE @,
                  !.sharedHi = IF b = "fiq" THEN @ ELSE c.hi]

BankLoaded(c) ==
    LET b == BankOf(c.psr.mode)
    IN  [c EXCEPT !.sp = c.bank[b].sp, !.lr = c.bank[b].lr, !.hi = IF b = "fiq" THEN c.fiqHi ELSE c.sharedHi]

(* writeCpsr and switchMode                                                *)
CpsrWritten(c, psr) ==
    IF psr.mode = c.psr.mode THEN [c EXCEPT !.psr = psr]
    ELSE BankLoaded([BankSaved(c) EXCEPT !.psr = psr])

(* readSpsr and writeSpsr                                                  *)
HasSpsr(c) == c.psr.mode \notin {"usr", "sys"}
Spsr(c) == IF HasSpsr(c) THEN c.bank[c.psr.mode].spsr ELSE c.psr
SpsrWritten(c, psr) == IF HasSpsr(c) THEN [c EXCEPT !.bank[c.psr.mode].spsr = psr] ELSE c

(* enterException                                                          *)
ExceptionEntered(c, mode, vector, lr) ==
    [SpsrWritten(CpsrWritten(c, [c.psr EXCEPT !.mode = mode]), c.psr)
        EXCEPT !.lr = lr, !.psr.off = TRUE, !.pc = vector, !.halted = FALSE]

-----------------------------------------------------------------------------
(* handlePendingInterrupt: the flags of the BIOS are set even when the     *)
(* handler is not entered.                                                 *)
InterruptTaken(m) == m.mem.ime /\ ~m.cpu.psr.off /\ PendingInterrupts(m.mem) # {}

HandlerOf(g) == IF g.handler = 0 THEN NoHandler ELSE g.handler

InterruptEntered(m) ==
    LET c       == m.cpu
        irq     == SpsrWritten(CpsrWritten(c, [c.psr EXCEPT !.mode = "irq"]), c.psr)
        context == [r0 |-> c.r0, hi |-> c.hi, sp |-> c.sp, lr |-> c.lr, psr |-> c.psr, pc |-> c.pc, entrySp |-> irq.sp]
        entered == [irq EXCEPT !.contexts = Append(@, context), !.sp = @ - 1, !.lr = Trampoline, !.r0 = IoBase,
                               !.psr.off = TRUE, !.pc = HandlerOf(m.mem), !.halted = FALSE]
    IN  [m EXCEPT !.cpu = entered, !.mem.stack[irq.sp - 1] = Trampoline]

PendingHandled(m) ==
    LET told == [m EXCEPT !.mem.biosFlags = @ \cup PendingInterrupts(m.mem)]
    IN  IF ~InterruptTaken(m) THEN m
        ELSE IF Len(m.cpu.contexts) >= MaxContexts \/ ~Executable(m.cpu.pc) \/ ~Executable(HandlerOf(m.mem)) THEN told
        ELSE InterruptEntered(told)

(* tryReturnFromIrqTrampoline: every register is what it was, and the      *)
(* stack of the interrupts where it was.                                   *)
(* Mutant: the marker pushed for the handler stays on its stack.           *)
ReturnedWithMarker(c) ==
    LET x == c.contexts[Len(c.contexts)]
    IN  [CpsrWritten(c, x.psr)
            EXCEPT !.contexts = SubSeq(@, 1, Len(@) - 1), !.bank["irq"].lr = 0,
                   !.r0 = x.r0, !.hi = x.hi, !.sp = x.sp, !.lr = x.lr, !.pc = x.pc]

Returned(c) ==
    LET x == c.contexts[Len(c.contexts)]
    IN  [CpsrWritten(c, x.psr)
            EXCEPT !.contexts = SubSeq(@, 1, Len(@) - 1),
                   !.bank["irq"].sp = IF x.entrySp # 0 THEN x.entrySp ELSE @, !.bank["irq"].lr = 0,
                   !.r0 = x.r0, !.hi = x.hi, !.sp = x.sp, !.lr = x.lr, !.pc = x.pc]

-----------------------------------------------------------------------------
(* The instructions.  Each is given the machine with pc already at the     *)
(* next one.                                                               *)
DataProcessed(m, i) ==
    LET a == Processed(i.fn, m.cpu.r0, Shifted(i.value, m.cpu.psr.flags.c), m.cpu.psr.flags)
    IN  [m EXCEPT !.cpu.r0 = IF i.fn \in {"cmp", "cmn", "tst", "teq"} THEN @ ELSE a.result,
                  !.cpu.psr.flags = a.flags]

(* MOVS pc, lr                                                             *)
ReturnedFromException(m) == [m EXCEPT !.cpu = CpsrWritten([m.cpu EXCEPT !.pc = m.cpu.lr], Spsr(m.cpu))]

PsrTransferred(m, i) == [m EXCEPT !.cpu = CpsrWritten(@, [@.psr EXCEPT !.mode = i.mode, !.off = i.off])]

HighRegisterSet(m) == [m EXCEPT !.cpu.hi = m.cpu.r0]

(* STMDB sp!, {r0, lr} and LDMIA sp!, {r0, lr}                             *)
BlockStored(m) ==
    [m EXCEPT !.mem.stack[m.cpu.sp - 2] = m.cpu.r0, !.mem.stack[m.cpu.sp - 1] = m.cpu.lr, !.cpu.sp = @ - 2]

BlockLoaded(m) ==
    [m EXCEPT !.cpu.r0 = m.mem.stack[m.cpu.sp], !.cpu.lr = m.mem.stack[m.cpu.sp + 1], !.cpu.sp = @ + 2]

Branched(m, i) ==
    IF ~ConditionPassed(i.cond, m.cpu.psr.flags) THEN m
    ELSE [m EXCEPT !.cpu.lr = IF i.link THEN m.cpu.pc ELSE @, !.cpu.pc = i.to]

BranchExchanged(m) ==
    IF m.cpu.lr = Trampoline /\ m.cpu.contexts # <<>> THEN [m EXCEPT !.cpu = Returned(m.cpu)]
    ELSE [m EXCEPT !.cpu.pc = m.cpu.lr]

(* The calls of handleSwi that a program waits or starts again with.       *)
Waited(m, mask, discard) ==
    LET flags == IF discard THEN m.mem.biosFlags \ mask ELSE m.mem.biosFlags
        ready == flags \cap mask # {}
    IN  [m EXCEPT !.mem.biosFlags = IF ready THEN flags \ mask ELSE flags, !.mem.ime = TRUE,
                  !.cpu.r0 = 0, !.cpu.waiting = ~ready, !.cpu.halted = ~ready,
                  !.cpu.mask = IF ready THEN {} ELSE mask]

Halted(m) == [m EXCEPT !.cpu.halted = TRUE, !.cpu.waiting = FALSE, !.cpu.mask = {}]

SoftReset(m) ==
    LET cleared == [m.cpu EXCEPT !.r0 = 0, !.hi = 0, !.sp = 0, !.lr = 0, !.bank = ResetBanks,
                                 !.sharedHi = 0, !.fiqHi = 0, !.contexts = <<>>]
    IN  [m EXCEPT !.cpu = [CpsrWritten(cleared, Psr("svc", TRUE)) EXCEPT
                            !.pc = IF m.mem.boot THEN RamPc ELSE ResetPc]]

RegistersReset(m, parts) ==
    LET sound == IF "sound" \in parts
                 THEN SoundControlWritten(m.mem, [f \in Fifos |-> [on |-> FALSE, timer |-> 0]], Fifos) ELSE m.mem
        zero[i \in 0..4] ==
            IF i = 0 THEN [sound EXCEPT !.dma = [ch \in DmaChannels |-> IdleChannel], !.scroll = 0,
                                        !.dispstat.irqs = {}, !.dispstat.lyc = 0]
            ELSE TimerControlWritten(TimerReloadWritten(zero[i - 1], i - 1, 0), i - 1, StoppedTimer)
        other == IF "other" \notin parts THEN sound
                 ELSE [KeyControlWritten(zero[4], [mask |-> {}, irq |-> FALSE, all |-> FALSE])
                        EXCEPT !.ie = {}, !.flags = {}, !.ime = FALSE]
        ewram == IF "ewram" \notin parts THEN other ELSE [other EXCEPT !.ram = [i \in DOMAIN @ |-> ZeroWord]]
    IN  [m EXCEPT !.mem = ewram]

SwiHandled(m, i) ==
    CASE i.call = "SoftReset" -> SoftReset(m)
      [] i.call = "RegisterRamReset" -> RegistersReset(m, i.parts)
      [] i.call = "Halt" -> Halted(m)
      [] i.call = "IntrWait" -> Waited(m, IF i.mask = {} THEN {VBlankIrq} ELSE i.mask, i.discard)
      [] i.call = "VBlankIntrWait" -> Waited(m, {VBlankIrq}, TRUE)

InstructionExecuted(m, i) ==
    CASE i.op = "data" -> DataProcessed(m, i)
      [] i.op = "movs" -> ReturnedFromException(m)
      [] i.op = "msr" -> PsrTransferred(m, i)
      [] i.op = "high" -> HighRegisterSet(m)
      [] i.op = "push" -> BlockStored(m)
      [] i.op = "pop" -> BlockLoaded(m)
      [] i.op = "b" -> Branched(m, i)
      [] i.op = "bx" -> BranchExchanged(m)
      [] i.op = "swi" -> SwiHandled(m, i)
      [] i.op = "store" -> [m EXCEPT !.mem = IoWritten(@, i)]
      [] i.op = "undefined" -> [m EXCEPT !.cpu = ExceptionEntered(@, "und", UndefinedVector, @.pc)]

-----------------------------------------------------------------------------
(* step.  A halted processor leaves the time of its accesses open; the     *)
(* interrupt that is taken in the same step wakes it before the wait is    *)
(* looked at.                                                              *)
WaitFinished(m) ==
    IF m.cpu.waiting /\ m.mem.biosFlags \cap m.cpu.mask # {}
    THEN [m EXCEPT !.mem.biosFlags = @ \ m.cpu.mask, !.cpu.r0 = 0, !.cpu.waiting = FALSE, !.cpu.halted = FALSE]
    ELSE m

StaysHalted(m) == m.cpu.halted /\ (m.cpu.waiting \/ PendingInterrupts(m.mem) = {})

AtNext(m) == [m EXCEPT !.cpu.halted = FALSE, !.cpu.pc = @ + 1]

InstructionDone(m) ==
    IF m.cpu.pc \in DOMAIN Code THEN InstructionExecuted(AtNext(m), Code[m.cpu.pc]) ELSE AtNext(m)

Aborted(m) ==
    [m EXCEPT !.cpu = [ExceptionEntered(@, "abt", PrefetchVector, @.pc + 1) EXCEPT !.waiting = FALSE, !.mask = {}]]

Idle(m) == [m |-> m, cycles |-> IdleCycles]
Accounted(m) == [m |-> [m EXCEPT !.mem.timed = FALSE, !.mem.access = 0], cycles |-> InstructionCycles + m.mem.access]

ArmRun(m) == IF StaysHalted(m) THEN Idle(m) ELSE Accounted(InstructionDone(m))

ArmStepped(m) ==
    LET begun == [m EXCEPT !.mem.timed = TRUE, !.mem.access = 0]
    IN  IF ~Executable(m.cpu.pc) THEN Idle(Aborted(begun)) ELSE ArmRun(WaitFinished(PendingHandled(begun)))
=============================================================================
