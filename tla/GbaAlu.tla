-------------------------------- MODULE GbaAlu --------------------------------
(***************************************************************************)
(* The arithmetic of the Game Boy Advance's processor                      *)
(* (src/core/gba/cpu.cpp): the barrel shifter, the data-processing and the *)
(* multiply instructions of both instruction sets, their flags and the     *)
(* conditions that read them, on words of WordBits bits (32).              *)
(***************************************************************************)
EXTENDS Integers, Bitwise

CONSTANT WordBits

ASSUME GbaAluAssumption == WordBits \in Nat \ {0, 1}

WordBase == 2 ^ WordBits
Words == 0 .. WordBase - 1
Truncated(n) == n % WordBase
SignBit(a) == a \div (WordBase \div 2) = 1
SignedOf(a) == IF SignBit(a) THEN a - WordBase ELSE a
BitAt(a, i) == ((a \div 2 ^ i) % 2) = 1
Inverted(a) == WordBase - 1 - a
One(b) == IF b THEN 1 ELSE 0

-----------------------------------------------------------------------------
(* rotateRight, arithmeticShiftRight and the shifts by less than a word.   *)
RotatedRight(a, n) == LET s == n % WordBits IN (a \div 2 ^ s) + Truncated(a * 2 ^ (WordBits - s)) * One(s # 0)
ShiftedRight(a, n) == (a \div 2 ^ n)
ArithmeticRight(a, n) == IF n >= WordBits THEN (IF SignBit(a) THEN WordBase - 1 ELSE 0) ELSE Truncated(SignedOf(a) \div 2 ^ n)

Shifted(value, carry) == [value |-> value, carry |-> carry]

(* readOperand2, and the THUMB shifts, by an amount a register holds.      *)
ShiftedByRegister(kind, a, n, c) ==
    CASE n = 0 -> Shifted(a, c)
      [] n > 0 /\ kind = "lsl" -> IF n < WordBits THEN Shifted(Truncated(a * 2 ^ n), BitAt(a, WordBits - n))
                                  ELSE Shifted(0, n = WordBits /\ BitAt(a, 0))
      [] n > 0 /\ kind = "lsr" -> IF n < WordBits THEN Shifted(ShiftedRight(a, n), BitAt(a, n - 1))
                                  ELSE Shifted(0, n = WordBits /\ SignBit(a))
      [] n > 0 /\ kind = "asr" -> Shifted(ArithmeticRight(a, n), IF n < WordBits THEN BitAt(a, n - 1) ELSE SignBit(a))
      [] n > 0 /\ kind = "ror" -> LET r == RotatedRight(a, n) IN Shifted(r, SignBit(r))

(* An amount of zero in the instruction means a whole word, or RRX.        *)
ShiftedByImmediate(kind, a, n, c) ==
    CASE n = 0 /\ kind \in {"lsr", "asr"} -> ShiftedByRegister(kind, a, WordBits, c)
      [] n = 0 /\ kind = "ror" -> Shifted(ShiftedRight(a, 1) + One(c) * (WordBase \div 2), BitAt(a, 0))
      [] OTHER -> ShiftedByRegister(kind, a, n, c)

-----------------------------------------------------------------------------
(* updateNz, updateAddFlags, updateAdcFlags, updateSubFlags, updateSbcFlags: *)
(* the overflow of three terms is that of the two steps.                   *)
Differ(a, b) == SignBit(a) # SignBit(b)

LogicFlags(r, f, carry) == [f EXCEPT !.n = SignBit(r), !.z = (r = 0), !.c = carry]

AddFlags(a, b, carry) ==
    LET t == Truncated(a + b)
        r == Truncated(t + carry)
    IN  [n |-> SignBit(r), z |-> r = 0, c |-> a + b + carry >= WordBase,
         v |-> (~Differ(a, b) /\ Differ(a, t)) # (~Differ(t, carry) /\ Differ(t, r))]

(* Mutant: the borrow does not take part in the carry.                     *)
SubFlagsWithoutBorrow(a, b, borrow) ==
    LET t == Truncated(a - b)
        r == Truncated(t - borrow)
    IN  [n |-> SignBit(r), z |-> r = 0, c |-> a >= b,
         v |-> (Differ(a, b) /\ Differ(a, t)) # (Differ(t, borrow) /\ Differ(t, r))]

SubFlags(a, b, borrow) ==
    LET t == Truncated(a - b)
        r == Truncated(t - borrow)
    IN  [n |-> SignBit(r), z |-> r = 0, c |-> a >= b + borrow,
         v |-> (Differ(a, b) /\ Differ(a, t)) # (Differ(t, borrow) /\ Differ(t, r))]

Answer(result, flags) == [result |-> Truncated(result), flags |-> flags]

(* executeDataProcessing, for the shifted operand s and the flags f.  TST, *)
(* TEQ, CMP and CMN are AND, EOR, SUB and ADD whose result is not kept.    *)
Processed(op, a, s, f) ==
    LET b == s.value
        logic(r) == Answer(r, LogicFlags(r, f, s.carry))
    IN  CASE op \in {"and", "tst"} -> logic(a & b)
          [] op \in {"eor", "teq"} -> logic(a ^^ b)
          [] op = "orr" -> logic(a | b)
          [] op = "bic" -> logic(a & Inverted(b))
          [] op = "mov" -> logic(b)
          [] op = "mvn" -> logic(Inverted(b))
          [] op \in {"add", "cmn"} -> Answer(a + b, AddFlags(a, b, 0))
          [] op = "adc" -> Answer(a + b + One(f.c), AddFlags(a, b, One(f.c)))
          [] op \in {"sub", "cmp"} -> Answer(a - b, SubFlags(a, b, 0))
          [] op = "rsb" -> Answer(b - a, SubFlags(b, a, 0))
          [] op = "sbc" -> Answer(a - b - One(~f.c), SubFlags(a, b, One(~f.c)))
          [] op = "rsc" -> Answer(b - a - One(~f.c), SubFlags(b, a, One(~f.c)))

(* executeMultiply: MUL and MLA, and the long forms with their two words.  *)
Multiplied(a, b, addend, f) ==
    LET r == Truncated(a * b + addend) IN Answer(r, [f EXCEPT !.n = SignBit(r), !.z = (r = 0)])

LongMultiplied(signed, a, b, high, low) ==
    LET r == ((IF signed THEN SignedOf(a) * SignedOf(b) ELSE a * b) + high * WordBase + low) % (WordBase * WordBase)
    IN  [high |-> r \div WordBase, low |-> Truncated(r)]

(* The register operations of executeThumbInstruction, which set the flags *)
(* always; a shift takes the low byte of its second register.              *)
ThumbProcessed(op, a, b, f) ==
    CASE op \in {"lsl", "lsr", "asr", "ror"} ->
             LET s == ShiftedByRegister(op, a, b % 256, f.c) IN Answer(s.value, LogicFlags(s.value, f, s.carry))
      [] op = "neg" -> Answer(-b, SubFlags(0, b, 0))
      [] op = "mul" -> Multiplied(a, b, 0, f)
      [] OTHER -> Processed(op, a, Shifted(b, f.c), f)

(* conditionPassed                                                         *)
ConditionPassed(cond, f) ==
    CASE cond = "eq" -> f.z         [] cond = "ne" -> ~f.z
      [] cond = "cs" -> f.c         [] cond = "cc" -> ~f.c
      [] cond = "mi" -> f.n         [] cond = "pl" -> ~f.n
      [] cond = "vs" -> f.v         [] cond = "vc" -> ~f.v
      [] cond = "hi" -> f.c /\ ~f.z [] cond = "ls" -> ~f.c \/ f.z
      [] cond = "ge" -> f.n = f.v   [] cond = "lt" -> f.n # f.v
      [] cond = "gt" -> ~f.z /\ f.n = f.v
      [] cond = "le" -> f.z \/ f.n # f.v
      [] cond = "al" -> TRUE
      [] cond = "nv" -> FALSE
=============================================================================
