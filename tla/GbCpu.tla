-------------------------------- MODULE GbCpu ---------------------------------
(***************************************************************************)
(* The CPU of the Game Boy (cpu.cpp, cpu_alu.cpp): a machine is a record   *)
(* [cpu, bus], an instruction a function of it that is told by the fields  *)
(* of its opcode xx yyy zzz.  The result of an instruction is [g, t]: the  *)
(* machine afterwards, and the cycles it took.                             *)
(*                                                                         *)
(* No instruction reads what it has written: one lists its writes in puts, *)
(* and WritesDone does them in their order.                                *)
(***************************************************************************)
EXTENDS GbBus, Sequences

-----------------------------------------------------------------------------
(* The arithmetic of cpu_alu.cpp and the rotations: what an instruction    *)
(* does to the accumulator or another 8-bit value and to the four flags.   *)
(* A result is a record [v, f]: the value and the flags.                   *)
Byte  == 0..255
Flags == [z : BOOLEAN, n : BOOLEAN, h : BOOLEAN, c : BOOLEAN]

LOCAL Bit(b) == IF b THEN 1 ELSE 0
LOCAL Low(v) == v % 16
LOCAL Result(v, n, h, c) == [v |-> v % 256, f |-> [z |-> v % 256 = 0, n |-> n, h |-> h, c |-> c]]

(* A bit by bit operation on two bytes.                                    *)
LOCAL BitOf(v, i) == (v \div 2^i) % 2
LOCAL Bitwise8(op(_, _), a, b) ==
    LET sum[i \in 0..8] ==
            IF i = 0 THEN 0
            ELSE sum[i - 1] + Bit(op(BitOf(a, i - 1) = 1, BitOf(b, i - 1) = 1)) * 2^(i - 1)
    IN  sum[8]

And8(a, b) == Bitwise8(LAMBDA x, y : x /\ y, a, b)
Or8(a, b)  == Bitwise8(LAMBDA x, y : x \/ y, a, b)
Xor8(a, b) == Bitwise8(LAMBDA x, y : x # y, a, b)

(* aluAdd, aluSub, aluAnd, aluXor, aluOr, aluCp: the eight rows of the     *)
(* opcodes 80-BF and of their immediate forms.                             *)
AluAdd(a, v, c) == Result(a + v + c, FALSE, Low(a) + Low(v) + c > 15, a + v + c > 255)
AluSub(a, v, c) == Result(a - v - c, TRUE, Low(a) < Low(v) + c, a < v + c)

AluOps == <<"add", "adc", "sub", "sbc", "and", "xor", "or", "cp">>

Alu(op, a, v, f) ==
    CASE op = "add" -> AluAdd(a, v, 0)
      [] op = "adc" -> AluAdd(a, v, Bit(f.c))
      [] op = "sub" -> AluSub(a, v, 0)
      [] op = "sbc" -> AluSub(a, v, Bit(f.c))
      [] op = "and" -> Result(And8(a, v), FALSE, TRUE, FALSE)
      [] op = "xor" -> Result(Xor8(a, v), FALSE, FALSE, FALSE)
      [] op = "or"  -> Result(Or8(a, v), FALSE, FALSE, FALSE)
      [] op = "cp"  -> [AluSub(a, v, 0) EXCEPT !.v = a]

(* inc8, dec8: the carry stays.                                            *)
AluInc(v, f) == [Result(v + 1, FALSE, Low(v) = 15, f.c) EXCEPT !.f.c = f.c]
AluDec(v, f) == [Result(v - 1, TRUE, Low(v) = 0, f.c) EXCEPT !.f.c = f.c]

(* aluDaa                                                                  *)
AluDaa(a, f) ==
    LET low  == IF f.h \/ (~f.n /\ Low(a) > 9) THEN 6 ELSE 0
        high == IF f.c \/ (~f.n /\ a > 153) THEN 96 ELSE 0
        v    == IF f.n THEN a - low - high ELSE a + low + high
    IN  [v |-> v % 256,
         f |-> [z |-> v % 256 = 0, n |-> f.n, h |-> FALSE, c |-> high = 96]]

(* executeCb, group 0, and RLCA, RRCA, RLA, RRA, which clear Z.            *)
Shifts == <<"rlc", "rrc", "rl", "rr", "sla", "sra", "swap", "srl">>

Shift(op, v, f) ==
    LET top  == v \div 128
        low  == v % 2
        left == (v * 2) % 256
        half == v \div 2
    IN  CASE op = "rlc"  -> Result(left + top, FALSE, FALSE, top = 1)
          [] op = "rrc"  -> Result(half + low * 128, FALSE, FALSE, low = 1)
          [] op = "rl"   -> Result(left + Bit(f.c), FALSE, FALSE, top = 1)
          [] op = "rr"   -> Result(half + Bit(f.c) * 128, FALSE, FALSE, low = 1)
          [] op = "sla"  -> Result(left, FALSE, FALSE, top = 1)
          [] op = "sra"  -> Result(half + top * 128, FALSE, FALSE, low = 1)
          [] op = "swap" -> Result(Low(v) * 16 + v \div 16, FALSE, FALSE, FALSE)
          [] op = "srl"  -> Result(half, FALSE, FALSE, low = 1)

ShiftA(op, a, f) == [Shift(op, a, f) EXCEPT !.f.z = FALSE]

(* executeCb, groups 1 to 3.                                               *)
HasBit(v, y) == (v \div 2^y) % 2 = 1
TestBit(y, v, f)  == [v |-> v, f |-> [f EXCEPT !.z = ~HasBit(v, y), !.n = FALSE, !.h = TRUE]]
ResetBit(y, v, f) == [v |-> v - IF HasBit(v, y) THEN 2^y ELSE 0, f |-> f]
SetBit(y, v, f)   == [v |-> v + IF HasBit(v, y) THEN 0 ELSE 2^y, f |-> f]

(* CPL, SCF, CCF                                                           *)
Complement(a, f) == [v |-> 255 - a, f |-> [f EXCEPT !.n = TRUE, !.h = TRUE]]
CarrySet(a, f)   == [v |-> a, f |-> [f EXCEPT !.n = FALSE, !.h = FALSE, !.c = TRUE]]
CarryFlip(a, f)  == [v |-> a, f |-> [f EXCEPT !.n = FALSE, !.h = FALSE, !.c = ~f.c]]

(* aluAddHl, aluAddSpSigned: 16 bits, the half carry from bit 11 or bit 3. *)
AluAddHl(hl, v, f) ==
    [v |-> (hl + v) % 65536,
     f |-> [f EXCEPT !.n = FALSE, !.h = ((hl % 4096) + (v % 4096) > 4095), !.c = (hl + v > 65535)]]

AluAddSp(sp, raw) ==
    [v |-> (sp + IF raw > 127 THEN raw - 256 ELSE raw) % 65536,
     f |-> [z |-> FALSE, n |-> FALSE, h |-> Low(sp) + Low(raw) > 15,
            c |-> (sp % 256) + raw > 255]]

(* cond: NZ, Z, NC, C.                                                     *)
Cond(k, f) == CASE k = 0 -> ~f.z [] k = 1 -> f.z [] k = 2 -> ~f.c [] k = 3 -> f.c

-----------------------------------------------------------------------------
R8 == <<"b", "c", "d", "e", "h", "l", "hl", "a">>

NewCpu(colour) ==
    [r |-> [x \in {"a", "b", "c", "d", "e", "h", "l"} |->
               CASE x = "a" -> IF colour THEN 17 ELSE 1
                 [] x = "c" -> \h13 [] x = "e" -> \hD8 [] x = "h" -> 1 [] x = "l" -> \h4D
                 [] OTHER -> 0],
     f |-> [z |-> TRUE, n |-> FALSE, h |-> TRUE, c |-> TRUE],
     sp |-> \hFFFE, pc |-> \h100,
     ime |-> FALSE, soon |-> FALSE, halted |-> FALSE, bug |-> FALSE]

Word(v) == v % 65536
Mem(g, a) == BusRead(g.bus, Word(a))
Writing(g) == [cpu |-> g.cpu, bus |-> g.bus, puts |-> <<>>]
PutMem(g, a, v) == [g EXCEPT !.puts = Append(@, <<Word(a), v>>)]
Done(g, t) == [g |-> g, t |-> t]

WritesDone(done) ==
    LET puts == done.g.puts
        after[n \in 0..Len(puts)] ==
            IF n = 0 THEN done.g.bus ELSE BusWritten(after[n - 1], puts[n][1], puts[n][2])
    IN  Done([cpu |-> done.g.cpu, bus |-> after[Len(puts)]], done.t)

(* Registers by the three bits, or pairs by the two bits, of an opcode.    *)
Pair(g, p) ==
    LET r == g.cpu.r
    IN  CASE p = 0 -> 256 * r["b"] + r["c"] [] p = 1 -> 256 * r["d"] + r["e"]
          [] p = 2 -> 256 * r["h"] + r["l"] [] p = 3 -> g.cpu.sp

SetPair(g, p, v) ==
    LET hi == Word(v) \div 256
        lo == v % 256
    IN  CASE p = 0 -> [g EXCEPT !.cpu.r["b"] = hi, !.cpu.r["c"] = lo]
          [] p = 1 -> [g EXCEPT !.cpu.r["d"] = hi, !.cpu.r["e"] = lo]
          [] p = 2 -> [g EXCEPT !.cpu.r["h"] = hi, !.cpu.r["l"] = lo]
          [] p = 3 -> [g EXCEPT !.cpu.sp = Word(v)]

HL(g) == Pair(g, 2)

Reg(g, k) == IF k = 6 THEN Mem(g, HL(g)) ELSE g.cpu.r[R8[k + 1]]
SetReg(g, k, v) ==
    IF k = 6 THEN PutMem(g, HL(g), v) ELSE [g EXCEPT !.cpu.r[R8[k + 1]] = v]

A(g) == g.cpu.r["a"]

(* The accumulator, or another register, with the flags of a result.       *)
Takes(g, k, res) == SetReg([g EXCEPT !.cpu.f = res.f], k, res.v)

(* fetch8 and fetch16: the operand after the opcode.                       *)
Byte1(g) == Mem(g, g.cpu.pc)
Word1(g) == Byte1(g) + 256 * Mem(g, g.cpu.pc + 1)
Past(g, n) == [g EXCEPT !.cpu.pc = Word(@ + n)]
Jump(g, a) == [g EXCEPT !.cpu.pc = Word(a)]

(* push16 writes the high byte first; pop16 reads the low byte first.      *)
Push(g, v) ==
    LET sp == g.cpu.sp
    IN  [PutMem(PutMem(g, sp - 1, v \div 256), sp - 2, v % 256) EXCEPT !.cpu.sp = Word(sp - 2)]

(* Mutant: the bytes come back in the order they went.                     *)
PopSwapped(g) == 256 * Mem(g, g.cpu.sp) + Mem(g, g.cpu.sp + 1)

Pop(g) == Mem(g, g.cpu.sp) + 256 * Mem(g, g.cpu.sp + 1)
Popped(g) == [g EXCEPT !.cpu.sp = Word(@ + 2)]

FlagByte(f) ==
    (IF f.z THEN 128 ELSE 0) + (IF f.n THEN 64 ELSE 0) + (IF f.h THEN 32 ELSE 0)
    + (IF f.c THEN 16 ELSE 0)
FlagsOf(v) == [z |-> On(v, 128), n |-> On(v, 64), h |-> On(v, 32), c |-> On(v, 16)]

-----------------------------------------------------------------------------
(* x = 1: register to register, and HALT in the place of (HL) to (HL).  A  *)
(* HALT with the interrupts off and one pending does not halt: the byte    *)
(* after it is read twice.                                                 *)
Pending(b) == IrqSet(b.ie) \cap b.if

Halt(g) ==
    IF ~g.cpu.ime /\ Pending(g.bus) # {} THEN [g EXCEPT !.cpu.bug = TRUE]
    ELSE [g EXCEPT !.cpu.halted = TRUE]

Move(g, y, z) ==
    IF y = 6 /\ z = 6 THEN Done(Halt(g), 4)
    ELSE Done(SetReg(g, y, Reg(g, z)), IF 6 \in {y, z} THEN 8 ELSE 4)

(* x = 2: the accumulator and a register, or the byte after the opcode.    *)
Arithmetic(g, y, v, t) ==
    LET res == Alu(AluOps[y + 1], A(g), v, g.cpu.f)
    IN  Done([g EXCEPT !.cpu.r["a"] = res.v, !.cpu.f = res.f], t)

(* x = 0.  z = 0: NOP, the stack pointer to memory, STOP and JR.           *)
Relative(g) == Past(g, 1 + Signed8(Byte1(g)))

Stop(g) ==
    IF Switches(g.bus) THEN [g EXCEPT !.bus = SpeedSwitched(@)]
    ELSE [g EXCEPT !.cpu.halted = TRUE]

StoreSp(g) ==
    LET a == Word1(g)
    IN  PutMem(PutMem(Past(g, 2), a, g.cpu.sp % 256), a + 1, g.cpu.sp \div 256)

Row0(g, y) ==
    CASE y = 0 -> Done(g, 4)
      [] y = 1 -> Done(StoreSp(g), 20)
      [] y = 2 -> Done(Stop(Past(g, 1)), 4)
      [] y = 3 \/ (y > 3 /\ Cond(y - 4, g.cpu.f)) -> Done(Relative(g), 12)
      [] OTHER -> Done(Past(g, 1), 8)

(* z = 1, 2, 3: pairs.  (HL) moves up or down after it is used.            *)
Row1(g, p, q) ==
    IF q = 0 THEN Done(SetPair(Past(g, 2), p, Word1(g)), 12)
    ELSE LET res == AluAddHl(HL(g), Pair(g, p), g.cpu.f)
         IN  Done([SetPair(g, 2, res.v) EXCEPT !.cpu.f = res.f], 8)

Row2(g, p, q) ==
    LET at == IF p < 2 THEN Pair(g, p) ELSE HL(g)
        h  == IF q = 0 THEN PutMem(g, at, A(g)) ELSE [g EXCEPT !.cpu.r["a"] = Mem(g, at)]
    IN  Done(CASE p < 2 -> h [] p = 2 -> SetPair(h, 2, at + 1) [] p = 3 -> SetPair(h, 2, at - 1),
             8)

Row3(g, p, q) == Done(SetPair(g, p, IF q = 0 THEN Pair(g, p) + 1 ELSE Pair(g, p) - 1), 8)

(* z = 4, 5: one more, one less.  z = 6: the byte after the opcode.        *)
Row45(g, y, z) ==
    Done(Takes(g, y, IF z = 4 THEN AluInc(Reg(g, y), g.cpu.f) ELSE AluDec(Reg(g, y), g.cpu.f)),
         IF y = 6 THEN 12 ELSE 4)

Row6(g, y) == Done(SetReg(Past(g, 1), y, Byte1(g)), IF y = 6 THEN 12 ELSE 8)

(* z = 7: the rotations of the accumulator, DAA, CPL, SCF, CCF.            *)
Row7(g, y) ==
    LET res == CASE y < 4 -> ShiftA(Shifts[y + 1], A(g), g.cpu.f)
                 [] y = 4 -> AluDaa(A(g), g.cpu.f)
                 [] y = 5 -> Complement(A(g), g.cpu.f)
                 [] y = 6 -> CarrySet(A(g), g.cpu.f)
                 [] y = 7 -> CarryFlip(A(g), g.cpu.f)
    IN  Done(Takes(g, 7, res), 4)

Block0(g, y, z) ==
    CASE z = 0 -> Row0(g, y)
      [] z = 1 -> Row1(g, y \div 2, y % 2)
      [] z = 2 -> Row2(g, y \div 2, y % 2)
      [] z = 3 -> Row3(g, y \div 2, y % 2)
      [] z \in {4, 5} -> Row45(g, y, z)
      [] z = 6 -> Row6(g, y)
      [] z = 7 -> Row7(g, y)

-----------------------------------------------------------------------------
(* x = 3: calls, returns, jumps, the stack, the high page, CB.             *)
Return(g) == Jump(Popped(g), Pop(g))
Call(g, a) == Jump(Push(g, g.cpu.pc), a)

Conditional(g, y, z) ==
    LET yes == Cond(y, g.cpu.f)
        a   == Word1(g)
    IN  CASE z = 0 -> IF yes THEN Done(Return(g), 20) ELSE Done(g, 8)
          [] z = 2 -> IF yes THEN Done(Jump(g, a), 16) ELSE Done(Past(g, 2), 12)
          [] z = 4 -> IF yes THEN Done(Call(Past(g, 2), a), 24) ELSE Done(Past(g, 2), 12)

PopInto(g, p) ==
    IF p = 3 THEN [Popped(g) EXCEPT !.cpu.r["a"] = Pop(g) \div 256, !.cpu.f = FlagsOf(Pop(g) % 256)]
    ELSE SetPair(Popped(g), p, Pop(g))

PushFrom(g, p) ==
    Push(g, IF p = 3 THEN 256 * A(g) + FlagByte(g.cpu.f) ELSE Pair(g, p))

(* The loads of the high page and of an address, in either direction.      *)
High(g, op) ==
    CASE op = \hE0 -> Done(PutMem(Past(g, 1), \hFF00 + Byte1(g), A(g)), 12)
      [] op = \hE2 -> Done(PutMem(g, \hFF00 + g.cpu.r["c"], A(g)), 8)
      [] op = \hEA -> Done(PutMem(Past(g, 2), Word1(g), A(g)), 16)
      [] op = \hF0 -> Done([Past(g, 1) EXCEPT !.cpu.r["a"] = Mem(g, \hFF00 + Byte1(g))], 12)
      [] op = \hF2 -> Done([g EXCEPT !.cpu.r["a"] = Mem(g, \hFF00 + g.cpu.r["c"])], 8)
      [] op = \hFA -> Done([Past(g, 2) EXCEPT !.cpu.r["a"] = Mem(g, Word1(g))], 16)

StackMoves(g, op) ==
    LET res == AluAddSp(g.cpu.sp, Byte1(g))
        with == [Past(g, 1) EXCEPT !.cpu.f = res.f]
    IN  CASE op = \hE8 -> Done(SetPair(with, 3, res.v), 16)
          [] op = \hF8 -> Done(SetPair(with, 2, res.v), 12)
          [] op = \hF9 -> Done(SetPair(g, 3, HL(g)), 8)

(* executeCb                                                               *)
CbResult(x, y, v, f) ==
    CASE x = 0 -> Shift(Shifts[y + 1], v, f) [] x = 1 -> TestBit(y, v, f)
      [] x = 2 -> ResetBit(y, v, f) [] x = 3 -> SetBit(y, v, f)

CbTaken(g, x, z, res) ==
    IF x = 1 THEN Done([g EXCEPT !.cpu.f = res.f], IF z = 6 THEN 12 ELSE 8)
    ELSE Done(Takes(g, z, res), IF z = 6 THEN 16 ELSE 8)

Prefixed(g, op) ==
    LET x == op \div 64
        z == op % 8
    IN  CbTaken(Past(g, 1), x, z, CbResult(x, (op \div 8) % 8, Reg(g, z), g.cpu.f))

(* The opcodes that the code does not know do nothing.                     *)
Block3(g, op, y, z) ==
    CASE z \in {0, 2, 4} /\ y < 4 -> Conditional(g, y, z)
      [] op = \hC3 -> Done(Jump(g, Word1(g)), 16)
      [] op = \hC9 -> Done(Return(g), 16)
      [] op = \hD9 -> Done([Return(g) EXCEPT !.cpu.ime = TRUE], 16)
      [] op = \hE9 -> Done(Jump(g, HL(g)), 4)
      [] op = \hCD -> Done(Call(Past(g, 2), Word1(g)), 24)
      [] op = \hCB -> Prefixed(g, Byte1(g))
      [] z = 1 /\ y % 2 = 0 -> Done(PopInto(g, y \div 2), 12)
      [] z = 5 /\ y % 2 = 0 -> Done(PushFrom(g, y \div 2), 16)
      [] z = 6 -> Arithmetic(Past(g, 1), y, Byte1(g), 8)
      [] z = 7 -> Done(Call(g, 8 * y), 16)
      [] op \in {\hE0, \hE2, \hEA, \hF0, \hF2, \hFA} -> High(g, op)
      [] op \in {\hE8, \hF8, \hF9} -> StackMoves(g, op)
      [] op = \hF3 -> Done([g EXCEPT !.cpu.ime = FALSE], 4)
      [] op = \hFB -> Done([g EXCEPT !.cpu.soon = TRUE], 4)
      [] OTHER -> Done(g, 4)

Executed(g, op) ==
    LET x == op \div 64
        y == (op \div 8) % 8
        z == op % 8
    IN  CASE x = 0 -> Block0(g, y, z)
          [] x = 1 -> Move(g, y, z)
          [] x = 2 -> Arithmetic(g, y, Reg(g, z), IF z = 6 THEN 8 ELSE 4)
          [] x = 3 -> Block3(g, op, y, z)

-----------------------------------------------------------------------------
(* serviceInterrupts: a pending interrupt wakes the CPU whether or not it  *)
(* is served; the lowest bit is served first, at 0x40 + 8 * bit.           *)
Lowest(irqs) == CHOOSE i \in irqs : \A j \in irqs : i <= j

Woken(g) == [g EXCEPT !.cpu.halted = (@ /\ Pending(g.bus) = {})]
Serves(g) == g.cpu.ime /\ Pending(g.bus) # {}

Served(g) ==
    LET i == Lowest(Pending(g.bus))
        acknowledged == [g EXCEPT !.bus.if = @ \ {i}, !.cpu.ime = FALSE]
    IN  Call(acknowledged, 64 + 8 * i)

(* The first fetch after the halt bug leaves the program counter.          *)
Fetched(g) == IF g.cpu.bug THEN [g EXCEPT !.cpu.bug = FALSE] ELSE Past(g, 1)

(* EI enables the interrupts as the next step begins.                      *)
Begun(g) == [Writing(g) EXCEPT !.cpu.ime = (@ \/ g.cpu.soon), !.cpu.soon = FALSE]

(* Mutant: a halted CPU does not look at the interrupts.                   *)
CpuSteppedAsleep(g) ==
    LET h == Begun(g)
    IN  WritesDone(CASE h.cpu.halted -> Done(h, 4)
                     [] ~h.cpu.halted /\ Serves(h) -> Done(Served(h), 20)
                     [] OTHER -> Executed(Fetched(h), Byte1(h)))

(* CPU::step                                                               *)
CpuStepped(g) ==
    LET h == Woken(Begun(g))
    IN  WritesDone(CASE Serves(h) -> Done(Served(h), 20)
                     [] ~Serves(h) /\ h.cpu.halted -> Done(h, 4)
                     [] OTHER -> Executed(Fetched(h), Byte1(h)))

(* state and loadState: the halt bug is forgotten.                         *)
CpuLoaded(s) == [s EXCEPT !.bug = FALSE]

=============================================================================
