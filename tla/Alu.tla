-------------------------------- MODULE Alu --------------------------------
(***************************************************************************)
(* The arithmetic of class CPU (src/src/cpu.cpp, from 1164 on): pure        *)
(* functions from operands and flags to a result and flags.  Bytes are      *)
(* 0 .. 255, words 0 .. 65535; a flag register is a record of four bits.    *)
(***************************************************************************)
EXTENDS Integers

Flags == [z : BOOLEAN, n : BOOLEAN, h : BOOLEAN, c : BOOLEAN]

Bit(carry) == IF carry THEN 1 ELSE 0

\* A result with its flags; Z says whether the result is 0.
Result(value, n, h, c) == [value |-> value, f |-> [z |-> value = 0, n |-> n, h |-> h, c |-> c]]

HalfCarry(lhs, rhs, carry) == (lhs % 16) + (rhs % 16) + Bit(carry) > 15

Carry(lhs, rhs, carry) == lhs + rhs + Bit(carry) > 255

Add8(lhs, rhs, carry) ==
  Result((lhs + rhs + Bit(carry)) % 256, FALSE,
         HalfCarry(lhs, rhs, carry), Carry(lhs, rhs, carry))

HalfBorrow(lhs, rhs, carry) == lhs % 16 < (rhs % 16) + Bit(carry)

Borrow(lhs, rhs, carry) == lhs < rhs + Bit(carry)

Sub8(lhs, rhs, carry) ==
  Result((lhs - rhs - Bit(carry)) % 256, TRUE,
         HalfBorrow(lhs, rhs, carry), Borrow(lhs, rhs, carry))

\* INC and DEC leave the carry alone.
Inc8(value, f) == Result((value + 1) % 256, FALSE, value % 16 = 15, f.c)

Dec8(value, f) == Result((value - 1) % 256, TRUE, value % 16 = 0, f.c)

AddHl(hl, value, f) ==
  [ value |-> (hl + value) % 65536,
    f |-> [z |-> f.z, n |-> FALSE, h |-> (hl % 4096) + (value % 4096) > 4095,
           c |-> hl + value > 65535] ]

\* The offset is signed; the flags are those of the addition of the low bytes.
AddSpOffset(sp, offset) ==
  [ value |-> (sp + IF offset < 128 THEN offset ELSE offset - 256) % 65536,
    f |-> [z |-> FALSE, n |-> FALSE, h |-> (sp % 16) + (offset % 16) > 15,
           c |-> (sp % 256) + offset > 255] ]

\* Whether DAA corrects the high and the low digit.
AdjustsHigh(a, f) == f.c \/ (~f.n /\ a > 153)

AdjustsLow(a, f) == f.h \/ (~f.n /\ a % 16 > 9)

Adjustment(high, low) == 96 * Bit(high) + 6 * Bit(low)

DecimalAdjustAccumulator(a, f) ==
  LET adjustment == Adjustment(AdjustsHigh(a, f), AdjustsLow(a, f)) IN
  Result((IF f.n THEN a - adjustment ELSE a + adjustment) % 256, f.n, FALSE,
         AdjustsHigh(a, f))

-----------------------------------------------------------------------------
(* Operations on single bits. *)

BitOf(value, i) == (value \div 2^i) % 2 = 1

ByteOf(bits) ==
  Bit(bits[0]) + 2 * Bit(bits[1]) + 4 * Bit(bits[2]) + 8 * Bit(bits[3])
    + 16 * Bit(bits[4]) + 32 * Bit(bits[5]) + 64 * Bit(bits[6]) + 128 * Bit(bits[7])

\* An operation on bits, applied to each of two bytes.
Bitwise8(onBits, lhs, rhs) ==
  ByteOf([i \in 0 .. 7 |-> onBits[BitOf(lhs, i), BitOf(rhs, i)]])

\* execute_alu_operation; CP keeps the accumulator.
ExecuteAluOperation(operation, a, value, f) ==
  LET And == [x, y \in BOOLEAN |-> x /\ y]
      Xor == [x, y \in BOOLEAN |-> x # y]
      Or == [x, y \in BOOLEAN |-> x \/ y]
  IN
  CASE operation = "ADD" -> Add8(a, value, FALSE)
    [] operation = "ADC" -> Add8(a, value, f.c)
    [] operation = "SUB" -> Sub8(a, value, FALSE)
    [] operation = "SBC" -> Sub8(a, value, f.c)
    [] operation = "AND" -> Result(Bitwise8(And, a, value), FALSE, TRUE, FALSE)
    [] operation = "XOR" -> Result(Bitwise8(Xor, a, value), FALSE, FALSE, FALSE)
    [] operation = "OR" -> Result(Bitwise8(Or, a, value), FALSE, FALSE, FALSE)
    [] OTHER -> [Sub8(a, value, FALSE) EXCEPT !.value = a]

\* The rotations and shifts of execute_cb_operation.
Rotated(operation, value, f) ==
  LET low == value % 2  high == value \div 128
      left == (2 * value) % 256  right == value \div 2
      Out(result, bit) == Result(result, FALSE, FALSE, bit = 1)
  IN
  CASE operation = "RLC" -> Out(left + high, high)
    [] operation = "RRC" -> Out(right + 128 * low, low)
    [] operation = "RL" -> Out(left + Bit(f.c), high)
    [] operation = "RR" -> Out(right + 128 * Bit(f.c), low)
    [] operation = "SLA" -> Out(left, high)
    [] operation = "SRA" -> Out(right + 128 * high, low)
    [] operation = "SWAP" -> Out(16 * (value % 16) + (value \div 16), 0)
    [] OTHER -> Out(right, low)

\* BIT, RES and SET of the same leave the value, or the flags, alone.
ExecuteCbOperation(group, operation, i, value, f) ==
  CASE group = "shift" -> Rotated(operation, value, f)
    [] group = "BIT" -> [value |-> value, f |-> [f EXCEPT !.z = ~BitOf(value, i),
                                                         !.n = FALSE, !.h = TRUE]]
    [] group = "RES" -> [value |-> IF BitOf(value, i) THEN value - 2^i ELSE value, f |-> f]
    [] OTHER -> [value |-> IF BitOf(value, i) THEN value ELSE value + 2^i, f |-> f]

\* The operations on the accumulator that take no operand.
ExecuteAccumulatorOperation(operation, a, f) ==
  LET rotated == Rotated(operation, a, f) IN
  CASE operation \in {"RLC", "RRC", "RL", "RR"} -> [rotated EXCEPT !.f.z = FALSE]
    [] operation = "DAA" -> DecimalAdjustAccumulator(a, f)
    [] operation = "CPL" -> [value |-> 255 - a, f |-> [f EXCEPT !.n = TRUE, !.h = TRUE]]
    [] operation = "SCF" -> [value |-> a, f |-> [f EXCEPT !.n = FALSE, !.h = FALSE, !.c = TRUE]]
    [] OTHER -> [value |-> a, f |-> [f EXCEPT !.n = FALSE, !.h = FALSE, !.c = ~f.c]]

\* Whether a conditional jump, call or return is taken: NZ, Z, NC, C.
Condition(index, f) == (IF index < 2 THEN f.z ELSE f.c) = (index \in {1, 3})
=============================================================================
