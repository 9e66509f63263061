------------------------------- MODULE MCAlu -------------------------------
(***************************************************************************)
(* The operators of Alu against integer arithmetic, for every byte and both *)
(* values of every flag.  TLC evaluates the assumptions in every run of a   *)
(* module that extends this one; MCCpuControl does.                         *)
(***************************************************************************)
EXTENDS Alu

Bytes == 0 .. 255

NoFlags == [z |-> FALSE, n |-> FALSE, h |-> FALSE, c |-> FALSE]

Carrying(c) == [NoFlags EXCEPT !.c = c]

\* Words whose addition carries at no, one or both of the places that matter.
EdgeWords == {0, 1, 255, 256, 2048, 4095, 4096, 32768, 61440, 65279, 65535}

\* The byte that shows the decimal number `number`, and back.
Decimal(number) == 16 * (number \div 10) + (number % 10)

\* A subtraction takes an addition back, with the same carries.
ASSUME SubtractionUndoesAddition ==
  \A a \in Bytes, value \in Bytes, c \in BOOLEAN :
    LET sum == ExecuteAluOperation("ADC", a, value, Carrying(c))
        back == ExecuteAluOperation("SBC", sum.value, value, Carrying(c))
    IN  back.value = a /\ back.f.c = sum.f.c /\ back.f.h = sum.f.h

\* CP sets the flags of SUB and keeps the accumulator; its zero is equality.
ASSUME ComparisonKeepsTheAccumulator ==
  \A a \in Bytes, value \in Bytes :
    LET compared == ExecuteAluOperation("CP", a, value, NoFlags)
    IN  /\ compared.value = a
        /\ compared.f = ExecuteAluOperation("SUB", a, value, NoFlags).f
        /\ compared.f.z <=> a = value
        /\ compared.f.c <=> a < value

\* Addition is the exclusive or and twice the conjunction.
ASSUME BitwiseOperationsAddUp ==
  \A a \in {0, 1, 15, 16, 85, 127, 128, 170, 254, 255}, value \in Bytes :
    LET Value(operation) == ExecuteAluOperation(operation, a, value, NoFlags).value
    IN  /\ a + value = Value("XOR") + 2 * Value("AND")
        /\ Value("OR") = Value("XOR") + Value("AND")

\* DAA makes decimal bytes of sums and differences of decimal bytes.
ASSUME DecimalAdjustmentIsDecimal ==
  \A m \in 0 .. 99, n \in 0 .. 99, c \in BOOLEAN :
    LET sum == Add8(Decimal(m), Decimal(n), c)
        difference == Sub8(Decimal(m), Decimal(n), c)
        Adjusted(result) == DecimalAdjustAccumulator(result.value, result.f)
    IN  /\ Adjusted(sum).value = Decimal((m + n + Bit(c)) % 100)
        /\ Adjusted(sum).f.c <=> m + n + Bit(c) > 99
        /\ Adjusted(difference).value = Decimal((m - n - Bit(c)) % 100)
        /\ Adjusted(difference).f.c <=> m - n - Bit(c) < 0

\* INC and DEC are an addition and a subtraction of 1 that keep the carry.
ASSUME StepsKeepTheCarry ==
  \A value \in Bytes, c \in BOOLEAN :
    /\ Inc8(value, Carrying(c)).value = Add8(value, 1, FALSE).value
    /\ Inc8(value, Carrying(c)).f = [Add8(value, 1, FALSE).f EXCEPT !.c = c]
    /\ Dec8(value, Carrying(c)).value = Sub8(value, 1, FALSE).value
    /\ Dec8(value, Carrying(c)).f = [Sub8(value, 1, FALSE).f EXCEPT !.c = c]

\* ADD HL is two additions of bytes, and ADD SP has the flags of the first.
ASSUME WideAdditionsAreTwoNarrowOnes ==
  \A wide \in EdgeWords, value \in EdgeWords, z \in BOOLEAN :
    LET low == Add8(wide % 256, value % 256, FALSE)
        high == Add8(wide \div 256, value \div 256, low.f.c)
        signed == Add8(wide \div 256, IF value % 256 < 128 THEN 0 ELSE 255, low.f.c)
        sum == AddHl(wide, value, [NoFlags EXCEPT !.z = z])
        moved == AddSpOffset(wide, value % 256)
    IN  /\ sum.value = 256 * high.value + low.value
        /\ sum.f = [high.f EXCEPT !.z = z]
        /\ moved.value = 256 * signed.value + low.value
        /\ moved.f = [low.f EXCEPT !.z = FALSE]

\* The rotations are undone by those in the other direction, with the bit
\* that left the byte in the carry; shifts double and halve.
ASSUME RotationsAreUndone ==
  \A value \in Bytes, c \in BOOLEAN :
    LET After(operation, operand, carry) ==
          ExecuteCbOperation("shift", operation, 0, operand, Carrying(carry))
        Undone(there, back) ==
          LET moved == After(there, value, c)
              again == After(back, moved.value, moved.f.c)
          IN  again.value = value
        Doubled == After("SLA", value, c)
        Halved == After("SRL", value, c)
    IN  /\ Undone("RL", "RR") /\ Undone("RR", "RL")
        /\ Undone("RLC", "RRC") /\ Undone("RRC", "RLC") /\ Undone("SWAP", "SWAP")
        /\ 2 * value = Doubled.value + 256 * Bit(Doubled.f.c)
        /\ value = 2 * Halved.value + Bit(Halved.f.c)
        /\ After("SRA", value, c).value % 128 = Halved.value % 128
        /\ After("SRA", value, c).value >= 128 <=> value >= 128

\* BIT sees what SET and RES did, to the one bit and to no other.
ASSUME SingleBitsAreSeparate ==
  \A value \in Bytes, i \in 0 .. 7, j \in 0 .. 7 :
    LET Sees(operand, bit) == ~ExecuteCbOperation("BIT", "", bit, operand, NoFlags).f.z
        Put(group) == ExecuteCbOperation(group, "", i, value, NoFlags).value
    IN  /\ Sees(Put("SET"), j) <=> (i = j \/ Sees(value, j))
        /\ Sees(Put("RES"), j) <=> (i # j /\ Sees(value, j))

\* After CP of unsigned bytes the conditions say whether they are equal and
\* which is the smaller; CPL and CCF undo themselves; RLCA never sets Z.
ASSUME ConditionsFollowTheFlags ==
  \A a \in Bytes, value \in Bytes :
    LET compared == ExecuteAluOperation("CP", a, value, NoFlags).f
        Twice(operation) ==
          LET once == ExecuteAccumulatorOperation(operation, a, compared)
          IN  ExecuteAccumulatorOperation(operation, once.value, once.f)
    IN  /\ {i \in 0 .. 3 : Condition(i, compared)}
             = {IF a = value THEN 1 ELSE 0, IF a < value THEN 3 ELSE 2}
        /\ Twice("CPL").value = a
        /\ Twice("CCF").f.c = compared.c
        /\ ~ExecuteAccumulatorOperation("RLC", a, compared).f.z
=============================================================================
