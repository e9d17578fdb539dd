---------------------------- MODULE NatrixShift ----------------------------
(***************************************************************************)
(* Shifts (ccpu/shift.py): by a constant in line, by a variable of a byte  *)
(* in a loop, of a word or of four bytes by a call of the runtime.  The    *)
(* count is unsigned; at most one operand is a constant, a number.         *)
(*                                                                         *)
(* Only the shifts of four bytes by a constant and the loads of operands   *)
(* honour a place that may cross a page; the others reach the high byte of *)
(* the result by INC PL alone.                                             *)
(***************************************************************************)
EXTENDS NatrixEmit

SmallNat(m, n) == IF m < n THEN m ELSE n

(* _adjustP: P to the byte at off of x, given the access before.           *)
(* AdjustForgets is a mutant: the neighbouring byte is taken for granted   *)
(* to be in the same page.                                                 *)
Access(x, off, code) == [at |-> x, off |-> off, code |-> code]
AdjustForgets(x, off, p) ==
  CASE Same(p.at, x) /\ off - p.off = 1 -> IncPl
    [] Same(p.at, x) /\ p.off - off = 1 -> DecPl
    [] Same(p.at, x) /\ p.off = off -> << >>
    [] OTHER -> LdiP(x.src + off)
AdjustP(x, off, p) ==
  CASE Same(p.at, x) /\ p.off = off -> << >>
    [] ~Same(p.at, x) \/ (~x.al /\ p.off # off) -> LdiP(x.src + off)
    [] Same(p.at, x) /\ x.al /\ off - p.off = 1 -> IncPl
    [] Same(p.at, x) /\ x.al /\ p.off - off = 1 -> DecPl
    [] OTHER -> Ldi("pl", x.src + off)

(* The code of a sequence of accesses, each at the place it names. *)
Walk(accesses) ==
  For(1, Len(accesses), LAMBDA i :
    LET x == accesses[i]
    IN  (IF i = 1 THEN LdiP(x.at.src + x.off) ELSE AdjustP(x.at, x.off, accesses[i - 1]))
        \o x.code)

BitFromB == Op1("shl", "b") \o CarryToA            \* the top bit of B into A
ShlAB == Op1("shl", "a") \o BitFromB
Sign == Op1("shl", "a") \o Op1("exp", "a")
AlignedWord(r, low, high) == LdiP(r.src) \o St(low) \o IncPl \o St(high)
ZeroWord(r) == ZeroA \o AlignedWord(r, "a", "a")

---------------------------------------------------------------------------
(* Left by n. *)

(* Four bytes into another place: byte by byte, the bits shifted out of    *)
(* one left in the next, to be merged with.                                *)
GenSHLVarByConstLarge(r, x, n) ==
  LET bytes == SmallNat(n, 8 * x.t.size) \div 8
      bits == SmallNat(n, 8 * x.t.size) % 8
      last == x.t.size - 1
      split == For(1, bits, LAMBDA b : If(b # 1, Op1("shl", "a")) \o BitFromB)
      merge == Ld("a") \o Op("or", "a", "b") \o St("a")
  IN  ZeroA
      \o If(bytes > 0, LdiP(r.src)
            \o Times(bytes - 1, St("a") \o IncPl \o If(~r.al, CarryToPh)) \o St("a"))
      \o For(bytes, last, LAMBDA k :
           LdiP(x.src + k - bytes) \o Ld("b") \o split
           \o (IF k # last
               THEN LdiP(r.src + k + 1) \o St("a")
                    \o (IF r.al THEN DecPl ELSE ZeroA \o DecPl \o Op("sbb", "ph", "a"))
               ELSE LdiP(r.src + k))
           \o (IF k = bytes THEN St("b") ELSE merge)
           \o If(k # last, ZeroA))

(* In place: from the last byte down. *)
GenSHLVarByConstLargeInplace(r, n) ==
  LET bytes == SmallNat(n, 8 * r.t.size) \div 8
      bits == SmallNat(n, 8 * r.t.size) % 8
      last == r.t.size - 1
  IN  If(bytes > last, ZeroA)
      \o Walk(ForDown(last, bytes + 1, LAMBDA k :
                << Access(r, k - bytes - 1, Ld("b")),
                   Access(r, k - bytes, Ld("a") \o Times(bits, ShlAB)),
                   Access(r, k, St("a")) >>)
              \o If(bytes = last, << Access(r, 0, Ld("b") \o Times(bits, Op1("shl", "b"))) >>)
              \o If(bytes <= last, << Access(r, bytes, St("b") \o If(bytes > 0, ZeroA)) >>)
              \o ForDown(bytes - 1, 0, LAMBDA k : << Access(r, k, St("a")) >>))

(* A byte; into a word where pointers are indexed. *)
GenSHLByte(r, x, n) ==
  LET wide == r.t.size = 2
      widen == IF x.t.sign THEN Op1("shl", "b") \o Op1("exp", "a") ELSE ZeroA \o BitFromB
      carry == If(~r.al, CarryToPh)
  IN  CASE ~wide -> Emitted(Register(r.t),
                      IF n >= 8 THEN ZeroA
                      ELSE LoadByte("b", x, 0) \o Times(n, Op1("shl", "b"))
                           \o Op("mov", "a", "b"))
        [] wide /\ n >= 16 ->
             Emitted(r, ZeroA \o LdiP(r.src) \o St("a") \o IncPl \o carry \o St("a"))
        [] wide /\ n \in 8 .. 15 ->
             Emitted(r, LoadByte("b", x, 0) \o Times(n - 8, Op1("shl", "b"))
                        \o ZeroA \o LdiP(r.src) \o St("a") \o IncPl \o carry \o St("b"))
        [] wide /\ n < 8 ->
             Emitted(r, LoadByte("b", x, 0) \o widen \o Times(n - 1, ShlAB) \o StoreAB(r))

GenSHLWord(r, x, n) ==
  CASE n >= 16 -> ZeroWord(r)
    [] n \in 8 .. 15 ->
         LdiP(x.src) \o Ld("a") \o Times(n - 8, Op1("shl", "a"))
         \o LdiP(r.src + 1) \o St("a") \o ZeroA \o DecPl \o St("a")
    [] OTHER ->
         LdiP(x.src) \o Ld("b") \o LdiP(x.src + 1) \o Ld("a") \o Times(n, ShlAB)
         \o AlignedWord(r, "b", "a")

GenSHLVarByConst(r, x, n) ==
  CASE n = 0 -> Emitted(x, << >>)
    [] n > 0 /\ x.t.size = 1 -> GenSHLByte(r, x, n)
    [] n > 0 /\ x.t.size = 2 -> Emitted(r, GenSHLWord(r, x, n))
    [] OTHER -> Emitted(r, IF Same(r, x) THEN GenSHLVarByConstLargeInplace(r, n)
                           ELSE GenSHLVarByConstLarge(r, x, n))

---------------------------------------------------------------------------
(* Right by n: sar repeats the sign.                                       *)

(* Two neighbouring bytes make one; the last stands alone. *)
Merged(bits) ==
  Times(bits, Op1("shr", "b")) \o Times(8 - bits, Op1("shl", "a")) \o Op("or", "b", "a")
GenShrBytes(r, x, n, sar) ==
  LET bytes == n \div 8
      bits == n % 8
      last == x.t.size - 1
      alone == Times(bits, Op1(IF sar THEN "sar" ELSE "shr", "b"))
      fill == IF sar THEN Op1("shl", "b") \o Op1("exp", "a") ELSE ZeroA
      step(k) ==
        LET isLast == k + bytes = last
        IN  << Access(x, k + bytes, Ld("b") \o If(isLast, alone)) >>
            \o If(bits # 0 /\ ~isLast, << Access(x, k + bytes + 1, Ld("a") \o Merged(bits)) >>)
            \o << Access(r, k, St("b") \o If(isLast /\ bytes > 0, fill)) >>
  IN  Walk(For(0, last - bytes, step)
           \o For(x.t.size - bytes, last, LAMBDA k : << Access(r, k, St("a")) >>))

GenSHRVarByConstLarge(r, x, n) ==
  IF n >= 8 * x.t.size THEN Emitted(Number(0, r.t), << >>)
  ELSE Emitted(r, GenShrBytes(r, x, n, FALSE))
GenSARVarByConstLarge(r, x, n) ==
  Emitted(r,
    IF n >= 8 * x.t.size
    THEN Walk(<< Access(x, x.t.size - 1, Ld("a") \o Sign) >>
              \o ForDown(x.t.size - 1, 0, LAMBDA k : << Access(r, k, St("a")) >>))
    ELSE GenShrBytes(r, x, n, TRUE))

(* A word by 1 to 7 bits: PL holds the bits that go from the high byte to  *)
(* the low one, PH and PL what A cannot.                                   *)
ShrWord(r, x, n, op) ==
  LdiP(x.src) \o Ld("b") \o LdiP(x.src + 1) \o Ld("a") \o Op("mov", "pl", "a")
  \o Times(n, Op1(op, "a") \o Op1("shr", "b")) \o Times(8 - n, Op1("shl", "pl"))
  \o Op("mov", "ph", "a") \o Op("mov", "a", "pl") \o Op("or", "b", "a")
  \o Op("mov", "a", "ph") \o AlignedWord(r, "b", "a")

SignFill == Op1("shl", "a") \o ZeroA \o Op("sbb", "a", "0")

GenSHRVarByConst(r, x, n) ==
  CASE n = 0 -> Emitted(x, << >>)
    [] n > 0 /\ x.t.size = 1 ->
         Emitted(Register(r.t), IF n >= 8 THEN ZeroA
                                ELSE LoadByte("a", x, 0) \o Times(n, Op1("shr", "a")))
    [] n > 0 /\ x.t.size = 2 ->
         Emitted(r, CASE n >= 16 -> ZeroWord(r)
                      [] n \in 8 .. 15 ->
                           LdiP(x.src + 1) \o Ld("a") \o Times(n - 8, Op1("shr", "a"))
                           \o LdiP(r.src) \o St("a") \o ZeroA \o IncPl \o St("a")
                      [] OTHER -> ShrWord(r, x, n, "shr"))
    [] OTHER -> GenSHRVarByConstLarge(r, x, n)

GenSARVarByConst(r, x, n) ==
  CASE n = 0 -> Emitted(x, << >>)
    [] n > 0 /\ x.t.size = 1 ->
         Emitted(Register(r.t), LoadByte("a", x, 0)
                 \o (IF n >= 8 THEN SignFill ELSE Times(n, Op1("sar", "a"))))
    [] n > 0 /\ x.t.size = 2 ->
         Emitted(r, CASE n >= 16 ->
                           LdiP(x.src + 1) \o Ld("a") \o SignFill \o AlignedWord(r, "a", "a")
                      [] n \in 8 .. 15 ->
                           LdiP(x.src + 1) \o Ld("a") \o Ld("b") \o SignFill
                           \o Times(n - 8, Op1("sar", "b")) \o AlignedWord(r, "b", "a")
                      [] OTHER -> ShrWord(r, x, n, "sar"))
    [] OTHER -> GenSARVarByConstLarge(r, x, n)

---------------------------------------------------------------------------
(* By a variable. *)

(* A byte, a bit at a time.  The byte may not be in the register: the      *)
(* caller moves it first and comes again.                                  *)
GenShByteByVar(r, x, y, op, node) ==
  LET begin == AllocLabel(node, 0)
      loop == AllocLabel(node, 1)
      end == AllocLabel(node, 2)
  IN  Emitted(Register(r.t),
        LoadByte("a", y, 0) \o Ldi("b", 7) \o Op("sub", "b", "a") \o Jump("jnc", begin)
        \o (IF x.t.sign /\ op # "shl"
            THEN LoadByte("b", x, 0) \o Op1("shl", "b") \o Op1("exp", "b")
            ELSE Ldi("b", 0))
        \o Jump("jmp", end) \o AtLabel(begin)
        \o LoadByte("b", x, 0) \o LdiP(end) \o Op("add", "a", "0") \o << <<"jz">> >>
        \o AtLabel(loop) \o Op1(op, "b") \o Op1("dec", "a") \o Jump("jnz", loop)
        \o AtLabel(end) \o Op("mov", "a", "b"))

(* The count steps from its low byte to its high byte as x, the value,     *)
(* may.                                                                    *)
GenShiftWordCall(r, x, y, routine) ==
  (IF y.t.size = 2 THEN LdiP(y.src) \o Ld("b") \o IncP(x.al) \o Ld("a")
   ELSE LoadByte("b", y, 0) \o ZeroA)
  \o LdiP(RShCount) \o St("b") \o IncPl \o St("a")
  \o (IF IsConst(x) THEN LoadByte("a", x, 1) \o LoadByte("b", x, 0)
      ELSE LdiP(x.src) \o Ld("b") \o IncP(x.al) \o Ld("a"))
  \o LdiP(RShVal) \o St("b") \o IncPl \o St("a") \o Jump("jmp", routine)
  \o LdiP(RShVal) \o Ld("b") \o IncPl \o Ld("a") \o AlignedWord(r, "b", "a")

(* The value is loaded from a place even when it is a constant. *)
GenShiftLargeCall(r, x, y, routine) ==
  LET pairs(F(_)) == For(0, (x.t.size - 1) \div 2, LAMBDA k : F(2 * k))
      into(k) ==
        Walk(<< Access(x, k, Ld("a")), Access(x, k + 1, Ld("b")) >>)
        \o LdiP(RShVal + k) \o St("a") \o IncPl \o St("b")
      back(k) ==
        LdiP(RShVal + k) \o Ld("a") \o IncPl \o Ld("b")
        \o Walk(<< Access(r, k, St("a")), Access(r, k + 1, St("b")) >>)
  IN  LoadByte("a", y, 0) \o LdiP(RShCount) \o St("a")
      \o pairs(into) \o Jump("jmp", routine) \o pairs(back)

(* A signed value of four bytes is not shifted right by a variable: the    *)
(* compiler stops.                                                         *)
GenShiftByVar(r, x, y, op, node) ==
  LET sar == op = "shr" /\ x.t.sign
  IN  CASE x.t.size = 1 -> GenShByteByVar(r, x, y, IF sar THEN "sar" ELSE op, node)
        [] x.t.size = 2 ->
             Emitted(r, GenShiftWordCall(r, x, y,
                          IF op = "shl" THEN AslWord ELSE IF sar THEN AsrWord ELSE LsrWord))
        [] OTHER ->
             Emitted(r, GenShiftLargeCall(r, x, y, IF op = "shl" THEN AslDword ELSE LsrDword))

GenShift(result, x, y, op, node) ==
  LET r == WithType(result, x.t)
  IN  CASE ~IsConst(y) -> GenShiftByVar(r, x, y, op, node)
        [] IsConst(y) /\ op = "shl" -> GenSHLVarByConst(r, x, y.src)
        [] OTHER -> IF x.t.sign THEN GenSARVarByConst(r, x, y.src)
                    ELSE GenSHRVarByConst(r, x, y.src)
=============================================================================
