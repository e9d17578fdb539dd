------------------------------- MODULE Target -------------------------------
(***************************************************************************)
(* What the back end of Natrix compiles to: sequences of instructions, the *)
(* machine that runs them, the instructions the assembler accepts, and the *)
(* routines of the runtime library.                                        *)
(*                                                                         *)
(* An instruction is a tuple of its mnemonic and operands.  A label is the *)
(* instruction <<"label", x>>, x standing for its address.  The machine is *)
(* a record of the registers, the flags and the memory; a store outside    *)
(* the memory is noted in wild and lost.                                   *)
(***************************************************************************)
EXTENDS Wide, SequencesExt

Unit == INSTANCE Alu WITH W <- 8, a <- 0, b <- 0, flags <- 0

Lo(x) == x % ByteSize
Hi(x) == (x \div ByteSize) % ByteSize
Registers == {"a", "b", "pl", "ph"}
OpCode == [exp |-> 0, and |-> 1, or |-> 2, shl |-> 3, not |-> 4, xor |-> 5,
           shr |-> 6, sar |-> 7, mov |-> 8, add |-> 9, adc |-> 10, inc |-> 11,
           neg |-> 12, sub |-> 13, sbb |-> 14, dec |-> 15]
SingleArg == {"ld", "st", "inc", "dec", "shl", "neg", "not", "exp", "shr", "sar"}
Jumps == {"jmp", "jz", "jnz", "jc", "jnc", "js", "jns", "jo", "jno"}

(* encode: register A is the one operand or the other, never both or none; *)
(* only A and B are stored.                                                *)
Encodable(i) ==
  CASE i[1] \in Jumps \cup {"label"} -> TRUE
    [] i[1] = "ldi" -> i[2] \in Registers
    [] i[1] = "ld"  -> i[2] \in Registers
    [] i[1] = "st"  -> i[2] \in {"a", "b"}
    [] i[1] \in SingleArg -> i[2] \in Registers
    [] OTHER -> (i[2] = "a") # (i[3] = "a")

---------------------------------------------------------------------------
(* One instruction. *)

Operand(m, r) == IF r = "0" THEN 0 ELSE m[r]
Pointer(m) == ByteSize * m.ph + m.pl
Alu(m, i) ==
  LET x == Operand(m, i[2])
      y == IF i[1] \in SingleArg THEN 0 ELSE Operand(m, i[3])
      out == Unit!Exec(OpCode[i[1]], x, y, m.c)
  IN  IF i[1] = "mov" THEN [m EXCEPT ![i[2]] = y]
      ELSE [m EXCEPT ![i[2]] = out.r, !.z = out.z, !.c = out.c,
                     !.s = out.s, !.o = out.o]
Load(m, r) ==
  [m EXCEPT ![r] = IF Pointer(m) \in DOMAIN m.mem THEN m.mem[Pointer(m)] ELSE 255]
Store(m, r) ==
  IF Pointer(m) \in DOMAIN m.mem THEN [m EXCEPT !.mem[Pointer(m)] = m[r]]
  ELSE [m EXCEPT !.wild = TRUE]
Taken(op, m) ==
  CASE op = "jmp" -> TRUE
    [] op = "jz" -> m.z   [] op = "jnz" -> ~m.z
    [] op = "jc" -> m.c   [] op = "jnc" -> ~m.c
    [] op = "js" -> m.s   [] op = "jns" -> ~m.s
    [] op = "jo" -> m.o   [] op = "jno" -> ~m.o

---------------------------------------------------------------------------
(* The runtime library (natrix_runtime.asm): its cells and what a call     *)
(* leaves in them.  Registers and flags are not preserved.                 *)

RShVal == 4352      RShCount == 4356
RA == 4360          RB == 4364          RR == 4368
RQuotient == 4372   RRemainder == 4374
RuntimeCells == RShVal .. RRemainder + 1

AslWord == 61440    LsrWord == 61441    AsrWord == 61442
AslDword == 61443   LsrDword == 61444
MulByte == 61445    MulWord == 61446    MulDword == 61447
DivByte == 61448    UdivByte == 61449   DivWord == 61450   UdivWord == 61451

ShiftRoutine(mem, size, Shifted(_, _)) ==
  LET count == IF size = 2 THEN Unsigned(At(mem, RShCount, 2)) ELSE mem[RShCount]
  IN  Put(mem, RShVal, Shifted(At(mem, RShVal, size), count))
(* WideMulRoutine is a mutant: the product of two bytes is not cut off.    *)
WideMulRoutine(mem, size) ==
  IF size = 1 THEN Put(mem, RR, << mem[RA] * mem[RB] >>) ELSE mem
MulRoutine(mem, size) ==
  LET product == WideProduct(At(mem, RA, size), At(mem, RB, size))
  IN  Put(Put(Put(mem, RR, product), RA, Zero(size)), RB, Zero(size))
DivRoutine(mem, size, Value(_)) ==
  LET n == Value(At(mem, RA, size))
      d == Value(At(mem, RB, size))
  IN  Put(Put(mem, RQuotient, OfInt(Quotient(n, d), size)),
          RRemainder, OfInt(Remainder(n, d), size))

Asl(x, n) == ShiftedLeft(x, n)
Lsr(x, n) == ShiftedRight(x, n, 0)
Asr(x, n) == ShiftedRight(x, n, BitOf(x, BitCount(x) - 1))

Routine(mem, x) ==
  CASE x = AslWord  -> ShiftRoutine(mem, 2, Asl)
    [] x = LsrWord  -> ShiftRoutine(mem, 2, Lsr)
    [] x = AsrWord  -> ShiftRoutine(mem, 2, Asr)
    [] x = AslDword -> ShiftRoutine(mem, 4, Asl)
    [] x = LsrDword -> ShiftRoutine(mem, 4, Lsr)
    [] x = MulByte  -> MulRoutine(mem, 1)
    [] x = MulWord  -> MulRoutine(mem, 2)
    [] x = MulDword -> MulRoutine(mem, 4)
    [] x = DivByte  -> DivRoutine(mem, 1, Signed)
    [] x = UdivByte -> DivRoutine(mem, 1, Unsigned)
    [] x = DivWord  -> DivRoutine(mem, 2, Signed)
    [] x = UdivWord -> DivRoutine(mem, 2, Unsigned)

Called(m, x) ==
  [m EXCEPT !.mem = Routine(m.mem, x), !.a = 170, !.b = 170, !.pl = 170, !.ph = 170,
            !.c = TRUE, !.z = TRUE, !.s = TRUE, !.o = TRUE]

---------------------------------------------------------------------------
(* The machine m runs code from instruction pc to its end.  A jump swaps P *)
(* with the next address, which nothing generated here looks at.           *)

RECURSIVE Run(_, _, _)
Run(code, pc, m) ==
  IF pc > Len(code) THEN m
  ELSE LET i == code[pc]
           x == Pointer(m)
           isHere == \E k \in DOMAIN code : code[k] = <<"label", x>>
       IN  CASE i[1] = "label" -> Run(code, pc + 1, m)
             [] i[1] = "ldi" -> Run(code, pc + 1, [m EXCEPT ![i[2]] = i[3]])
             [] i[1] = "ld" -> Run(code, pc + 1, Load(m, i[2]))
             [] i[1] = "st" -> Run(code, pc + 1, Store(m, i[2]))
             [] i[1] \in Jumps ->
                  IF ~Taken(i[1], m) THEN Run(code, pc + 1, m)
                  ELSE IF isHere
                    THEN Run(code, CHOOSE k \in DOMAIN code : code[k] = <<"label", x>>,
                             [m EXCEPT !.pl = 170, !.ph = 170])
                    ELSE Run(code, pc + 1, Called(m, x))
             [] OTHER -> Run(code, pc + 1, Alu(m, i))

(* A machine with the memory mem and nothing useful in its registers. *)
Machine(mem, carry) ==
  [a |-> 85, b |-> 85, pl |-> 85, ph |-> 85, c |-> carry, z |-> carry, s |-> carry,
   o |-> carry, wild |-> FALSE, mem |-> mem]
=============================================================================
