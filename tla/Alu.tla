-------------------------------- MODULE Alu --------------------------------
(***************************************************************************)
(* The arithmetic unit, W bits wide (8 in the machine): the gates of       *)
(* model/alu.v and model/adder.v on one side, exec_alu of the emulator on  *)
(* the other.  The state is what the unit works on: register A, the second *)
(* operand B, and the flags it left behind, whose carry feeds the next     *)
(* operation.                                                              *)
(***************************************************************************)
EXTENDS Integers, Sequences

CONSTANT W
ASSUME WidthAssumption == W \in Nat /\ W > 1

Bits == 0 .. W - 1
Weight[i \in 0 .. W] == IF i = 0 THEN 1 ELSE 2 * Weight[i - 1]
Size == Weight[W]
Half == Weight[W - 1]
Word == 0 .. Size - 1

EXP == 0
AND == 1
OR == 2
SHL == 3
NOT == 4
XOR == 5
SHR == 6
SAR == 7
MOV == 8
ADD == 9
ADC == 10
INC == 11
NEG == 12
SUB == 13
SBB == 14
DEC == 15
Arithmetic == {ADD, SUB, ADC, SBB, INC, DEC, NEG}

VARIABLES a, b, flags
vars == <<a, b, flags>>

---------------------------------------------------------------------------
(* Gates.  A bus is a function from bit numbers to BOOLEAN; Low is what    *)
(* its wires below i are worth.  ValueShifted is a mutant: the outputs     *)
(* wired one bit too high.                                                 *)

Bus(x) == [i \in Bits |-> (x \div Weight[i]) % 2 = 1]
Low(bus) ==
  LET low[i \in 0 .. W] ==
        IF i = 0 THEN 0 ELSE low[i - 1] + IF bus[i - 1] THEN Weight[i - 1] ELSE 0
  IN  low
ValueShifted(bus) == 2 * Low(bus)[W]
Value(bus) == Low(bus)[W]
Wire(op, i) == (op \div << 1, 2, 4, 8 >>[i + 1]) % 2 = 1

(* Mutants: a borrow that does not invert the first operand, a right shift *)
(* that never keeps the sign, an adder whose carry input is always live.   *)
RippleNoBorrow(x, y, cIn, sub) ==
  LET c[i \in 0 .. W] ==
        IF i = 0 THEN cIn
        ELSE \/ c[i - 1] /\ (x[i - 1] # y[i - 1])
             \/ y[i - 1] /\ x[i - 1]
  IN  c
CarryInAlways(op, cIn) == cIn

(* The carries of adder.v; with sub they are borrows. *)
Ripple(x, y, cIn, sub) ==
  LET c[i \in 0 .. W] ==
        IF i = 0 THEN cIn
        ELSE \/ c[i - 1] /\ ((x[i - 1] # y[i - 1]) # sub)
             \/ y[i - 1] /\ (x[i - 1] # sub)
  IN  c

(* Only ADC and SBB let the carry flag into the adder. *)
CarryIn(op, cIn) == cIn /\ Wire(op, 1) /\ ~Wire(op, 0)

(* The operand multiplexers: each may be disabled, and they swap for the   *)
(* inverted operand order and for the operations on the second operand.    *)
FirstOperand(op, x, y, invert) ==
  LET enabled == Wire(op, 0) \/ Wire(op, 1)
      swap == (Wire(op, 2) /\ ~enabled) # invert
  IN  [i \in Bits |-> enabled /\ IF swap THEN y[i] ELSE x[i]]

SecondOperand(op, x, y, invert) ==
  LET enabled == ~(Wire(op, 0) /\ Wire(op, 1) /\ Wire(op, 3))
      swap == (Wire(op, 2) /\ ~(Wire(op, 0) \/ Wire(op, 1))) # invert
  IN  [i \in Bits |-> enabled /\ IF swap THEN x[i] ELSE y[i]]

(* The 1 that INC adds and DEC subtracts. *)
WithOne(op, y) == [y EXCEPT ![0] = @ \/ (Wire(op, 0) /\ Wire(op, 1))]

(* alu.v: result and flags from the inputs of the unit. *)
HwAlu(op, left, right, cIn, invert) ==
  LET sa == FirstOperand(op, Bus(left), Bus(right), invert)
      sb == SecondOperand(op, Bus(left), Bus(right), invert)
      addend == WithOne(op, sb)
      c == Ripple(sa, addend, CarryIn(op, cIn), Wire(op, 2))
      shr7 == op = SAR /\ sa[W - 1]
      result ==
        CASE Wire(op, 3) -> [i \in Bits |-> (sa[i] # addend[i]) # c[i]]
          [] op = EXP -> [i \in Bits |-> cIn]
          [] op = AND -> [i \in Bits |-> sa[i] /\ sb[i]]
          [] op = OR  -> [i \in Bits |-> sa[i] \/ sb[i]]
          [] op = SHL -> [i \in Bits |-> i > 0 /\ sa[i - 1]]
          [] op = NOT -> [i \in Bits |-> ~sb[i]]
          [] op = XOR -> [i \in Bits |-> sa[i] # addend[i]]
          [] op \in {SHR, SAR} ->
               [i \in Bits |-> IF i = W - 1 THEN shr7 ELSE sa[i + 1]]
  IN  [r |-> Value(result),
       z |-> \A i \in Bits : ~result[i],
       c |-> \/ c[W] /\ Wire(op, 3)
             \/ op = SHL /\ sa[W - 1]
             \/ op \in {SHR, SAR} /\ sa[0],
       s |-> result[W - 1],
       o |-> c[W - 1] # c[W]]

---------------------------------------------------------------------------
(* The emulator (machine.rs, exec_alu and gen_ovf). *)

Carry(c) == IF c THEN 1 ELSE 0
Negative(x) == x >= Half

Bitwise(op, x, y) ==
  Value([i \in Bits |->
    CASE op = AND -> Bus(x)[i] /\ Bus(y)[i]
      [] op = OR  -> Bus(x)[i] \/ Bus(y)[i]
      [] op = XOR -> Bus(x)[i] # Bus(y)[i]])

ExecResult(op, x, y, c) ==
  CASE op = MOV -> y
    [] op = ADD -> (x + y) % Size
    [] op = ADC -> (x + y + Carry(c)) % Size
    [] op = SUB -> (x - y) % Size
    [] op = SBB -> (x - y - Carry(c)) % Size
    [] op = INC -> (x + 1) % Size
    [] op = DEC -> (x - 1) % Size
    [] op = NEG -> (-x) % Size
    [] op = NOT -> Size - 1 - x
    [] op = SHL -> (2 * x) % Size
    [] op = SHR -> x \div 2
    [] op = SAR -> x \div 2 + (IF Negative(x) THEN Half ELSE 0)
    [] op = EXP -> IF c THEN Size - 1 ELSE 0
    [] OTHER    -> Bitwise(op, x, y)

ExecCarry(op, x, y, c) ==
  CASE op = ADD -> x + y >= Size
    [] op = ADC -> x + y + Carry(c) >= Size
    [] op = SUB -> x < y
    [] op = SBB -> x < y + Carry(c)
    [] op = INC -> x = Size - 1
    [] op = DEC -> x = 0
    [] op = NEG -> x # 0
    [] op = SHL -> Negative(x)
    [] op \in {SHR, SAR} -> x % 2 = 1
    [] OTHER -> FALSE

(* gen_ovf: the sign the result should have, from those of the operands.   *)
Overflow(x, y, r, isSum) ==
  Negative(x) = (Negative(y) = isSum) /\ Negative(r) # Negative(x)

ExecOverflow(op, x, y, r) ==
  CASE op \in {ADD, ADC} -> Overflow(x, y, r, TRUE)
    [] op \in {SUB, SBB} -> Overflow(x, y, r, FALSE)
    [] op = INC -> Overflow(x, 1, r, TRUE)
    [] op = DEC -> Overflow(x, 1, r, FALSE)
    [] op = NEG -> Overflow(0, x, r, FALSE)
    [] OTHER -> FALSE

Exec(op, x, y, c) ==
  LET r == ExecResult(op, x, y, c)
  IN  [r |-> r, z |-> r = 0, c |-> ExecCarry(op, x, y, c), s |-> Negative(r),
       o |-> ExecOverflow(op, x, y, r)]

---------------------------------------------------------------------------
(* The unit at work: the result goes to A, or with the inverted operand    *)
(* order to B; MOV leaves the flags alone.                                 *)

Flags == [z : BOOLEAN, c : BOOLEAN, s : BOOLEAN, o : BOOLEAN]

TypeOK == a \in Word /\ b \in Word /\ flags \in Flags

Init ==
  /\ a = 0 /\ b = 0
  /\ flags = [z |-> FALSE, c |-> FALSE, s |-> FALSE, o |-> FALSE]

Operate(op, invert) ==
  LET out == HwAlu(op, a, b, flags.c, invert)
  IN  /\ a' = IF invert THEN a ELSE out.r
      /\ b' = IF invert THEN out.r ELSE b
      /\ flags' = IF op = MOV THEN flags
                  ELSE [z |-> out.z, c |-> out.c, s |-> out.s, o |-> out.o]

Next == \E op \in 0 .. 15, invert \in BOOLEAN : Operate(op, invert)

Spec == Init /\ [][Next]_vars

---------------------------------------------------------------------------
(* Properties. *)

(* The gates compute what the emulator computes, for every operation and   *)
(* operand order: the result and the flags Z, C and S, and O for the       *)
(* arithmetic operations (the emulator clears O for the others, the gates  *)
(* leave the adder's).                                                     *)
AgreesWithEmulator ==
  \A op \in 0 .. 15, invert \in BOOLEAN :
    LET hw == HwAlu(op, a, b, flags.c, invert)
        emu == IF invert THEN Exec(op, b, a, flags.c) ELSE Exec(op, a, b, flags.c)
    IN  /\ hw.r = emu.r /\ hw.z = emu.z /\ hw.s = emu.s
        /\ op # MOV => hw.c = emu.c
        /\ op \in Arithmetic => hw.o = emu.o

(* What the compiler's comparisons rely on: a subtraction of two-word      *)
(* numbers by SUB then SBB leaves C exactly when the first is the smaller  *)
(* unsigned number and S # O exactly when it is the smaller signed one.    *)
(* The low words are A and B, the high words any.                          *)
Signed(x) == IF Negative(x) THEN x - Size ELSE x
ComparesWide ==
  \A x \in Word, y \in Word :
    LET low == HwAlu(SUB, a, b, flags.c, FALSE)
        high == HwAlu(SBB, x, y, low.c, FALSE)
    IN  /\ high.c <=> x * Size + a < y * Size + b
        /\ (high.s # high.o) <=> Signed(x) * Size + a < Signed(y) * Size + b

=============================================================================
