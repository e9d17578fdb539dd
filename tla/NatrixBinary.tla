---------------------------- MODULE NatrixBinary ----------------------------
(***************************************************************************)
(* Binary operations (ccpu/binary.py, mul.py, div.py).  At most one        *)
(* operand is in the register and, but for Boolean operations and          *)
(* pointers, at most one is a constant: the front end folds the others.    *)
(***************************************************************************)
EXTENDS NatrixCompare, NatrixShift

CarryStore(r, low, high) == LdiP(r.src) \o St(low) \o IncP(r.al) \o St(high)

(* _genIntBinary: lo on the lowest bytes, hi on the others. *)
IntWord(r, x, y, lo, hi) ==
  (CASE IsConst(y) ->
          LdiP(x.src) \o Ld("b") \o IncP(x.al) \o LoadByte("a", y, 0) \o Op(lo, "b", "a")
          \o Ld("a") \o LoadByte("pl", y, 1)
     [] ~IsConst(y) /\ IsConst(x) ->
          LdiP(y.src) \o Ld("a") \o NextP(y.al, y.src + 1) \o LoadByte("b", x, 0)
          \o Op(lo, "b", "a") \o Ld("pl") \o LoadByte("a", x, 1)
     [] OTHER ->
          LdiP(x.src) \o Ld("b") \o LdiP(y.src) \o Ld("a") \o Op(lo, "b", "a")
          \o LdiP(x.src + 1) \o Ld("a") \o LdiP(y.src + 1) \o Ld("pl"))
  \o Op(hi, "a", "pl") \o StoreAB(r)

(* IncPl clobbers the carry: from the second pair on it is used only where *)
(* no carry runs.  IntPairForgets is a mutant: it is always used.          *)
IntPairOf(r, x, y, lo, hi, k, mayInc) ==
  LoadByte("a", x, k)
  \o (CASE IsConst(x) \/ ~x.al -> LoadByte("b", x, k + 1)
        [] ~IsConst(x) /\ x.al /\ mayInc -> IncPl \o Ld("b")
        [] OTHER -> Ldi("pl", x.src + k + 1) \o Ld("b"))
  \o LoadByte("pl", y, k) \o Op(IF k = 0 THEN lo ELSE hi, "a", "pl")
  \o LdiP(r.src + k) \o St("a") \o LoadByte("a", y, k + 1) \o Op(hi, "b", "a")
  \o LdiP(r.src + k + 1) \o St("b")
IntPairForgets(r, x, y, lo, hi, k) == IntPairOf(r, x, y, lo, hi, k, TRUE)
IntPair(r, x, y, lo, hi, k) ==
  IntPairOf(r, x, y, lo, hi, k, k = 0 \/ lo \in {"and", "or", "xor"})

GenIntBinary(result, x, y, lo, hi) ==
  LET r == Resolved(result, x.t)
  IN  CASE r.t.size = 1 ->
             Emitted(Register(r.t), LoadByte("b", x, 0) \o LoadByte("a", y, 0)
                                    \o Op(lo, "b", "a") \o Op("mov", "a", "b"))
        [] r.t.size = 2 -> Emitted(r, IntWord(r, x, y, lo, hi))
        [] OTHER -> Emitted(r, For(0, (r.t.size - 1) \div 2,
                                   LAMBDA k : IntPair(r, x, y, lo, hi, 2 * k)))

(* A := whether A # 0. *)
Truth == Op1("dec", "a") \o NotCarryFlag

(* A variable and a constant give the variable as it is, not its truth. *)
GenBoolBinary(x, y, op) ==
  LET v == IF IsConst(x) THEN y ELSE x
      c == IF IsConst(x) THEN x ELSE y
      first == IF y.reg THEN y ELSE x
      second == IF y.reg THEN x ELSE y
      zero == Emitted(Number(0, BoolType), << >>)
      one == Emitted(Number(1, BoolType), << >>)
  IN  CASE BothConst(x, y) ->
             IF op = "or" THEN Decided(x.src # 0 \/ y.src # 0)
             ELSE Decided(x.src # 0 /\ y.src # 0)
        [] ~BothConst(x, y) /\ (IsConst(x) \/ IsConst(y)) ->
             (IF op = "or" THEN IF c.src = 0 THEN Emitted(v, << >>) ELSE one
              ELSE IF c.src = 0 THEN zero ELSE Emitted(v, << >>))
        [] OTHER -> Answer(LoadByte("a", first, 0) \o Truth \o Op("mov", "b", "a")
                           \o LoadByte("a", second, 0) \o Truth \o Op(op, "a", "b"))

---------------------------------------------------------------------------
(* Pointers: the index, times the size of the member, is added to or       *)
(* subtracted from an address.                                             *)

IsPowerOfTwo(n) == \E k \in 0 .. 15 : n = 2 ^ k
Log(n) == CHOOSE k \in 0 .. 15 : n = 2 ^ k

(* _genIncDecPtr: a pointer to a member of more than two bytes moves in    *)
(* place.  Of a shift by eight bits or more nothing comes.                 *)
IndexAB(x, shift) ==
  LET word == x.t.size = 2
      signed == ~word /\ x.t.sign
  IN  LoadByte("b", x, 0)
      \o If(word, IncPl \o If(~x.al, ZeroA \o Op("adc", "ph", "0")) \o Ld("a"))
      \o If(~word /\ ~signed, ZeroA)
      \o For(0, shift - 1, LAMBDA k :
           IF k = 0 /\ signed THEN Op1("shl", "b") \o Op1("exp", "a")
           ELSE If(k > 0 \/ word, Op1("shl", "a")) \o BitFromB)

AddToPtr(r) ==
  LoadByte("pl", r, 1) \o Op("add", "a", "pl") \o Ldi("pl", r.src + 1) \o St("a")
  \o (IF r.al
      THEN DecPl \o Ld("a") \o IncPl \o Op("add", "b", "a") \o Ld("a") \o CarryToA
           \o St("a") \o DecPl \o St("b")
      ELSE DecPl \o ZeroA \o Op("sbb", "ph", "a") \o Ld("a") \o Op("add", "b", "a")
           \o St("a") \o LdiP(r.src) \o Ld("a") \o CarryToA \o St("a"))
SubFromPtr(r) ==
  LoadByte("pl", r, 1) \o Op("sub", "pl", "a") \o Op("mov", "a", "pl")
  \o Ldi("pl", r.src + 1) \o St("a")
  \o (IF r.al THEN DecPl ELSE LdiP(r.src)) \o Ld("a") \o Op("sub", "a", "b") \o St("a")
  \o ZeroA \o CarryToA
  \o NextP(r.al, r.src + 1) \o Ld("b") \o Op("sub", "b", "a") \o St("b")

GenIncDecPtr(r, x, shift, lo) ==
  Emitted(r, If(shift < 8, IndexAB(x, shift) \o (IF lo = "add" THEN AddToPtr(r)
                                                 ELSE SubFromPtr(r))))

SwapAB == Op("xor", "a", "b") \o Op("xor", "b", "a") \o Op("xor", "a", "b")
Low(x) == Ldi("a", ByteAt(x.src, 0))
High(x) == Ldi("a", ByteAt(x.src, 1))

(* Twice a word. *)
AddWordTwice(r, x, y) ==
  LdiP(y.src) \o Ld("b") \o IncP(y.al) \o Ld("a") \o ShlAB
  \o (IF IsConst(x)
      THEN Op("mov", "ph", "a") \o Low(x) \o Op("add", "b", "a") \o High(x)
           \o Op("adc", "a", "ph") \o StoreAB(r)
      ELSE SwapAB \o LdiP(x.src) \o Ld("pl") \o Op("add", "a", "pl") \o LdiP(x.src + 1)
           \o Ld("pl") \o Op("mov", "ph", "a") \o Op("mov", "a", "pl")
           \o Op("adc", "b", "a") \o Op("mov", "a", "ph")
           \o CarryStore(r, "a", "b"))

(* From a constant pointer the code subtracts the pointer from the index,  *)
(* and stores the low byte where the high one belongs.                     *)
SubWordTwice(r, x, y) ==
  LdiP(y.src) \o Ld("b") \o NextP(y.al, y.src + 1) \o Ld("a") \o ShlAB
  \o (IF IsConst(x)
      THEN Op("mov", "ph", "a") \o Low(x) \o Op("sub", "b", "a") \o High(x)
           \o Op("sbb", "ph", "a") \o Op("mov", "a", "ph")
      ELSE SwapAB \o LdiP(x.src) \o Ld("pl") \o Op("sub", "pl", "a") \o Op("mov", "a", "pl")
           \o LdiP(x.src + 1) \o Ld("pl") \o Op("mov", "ph", "a") \o Op("mov", "a", "pl")
           \o Op("sbb", "a", "b") \o Op("mov", "b", "a") \o Op("mov", "a", "ph"))
  \o CarryStore(r, "a", "b")

(* A byte, and twice a byte. *)
PlusByte(x) ==
  IF IsConst(x) THEN Low(x) \o Op("add", "b", "a") \o High(x) \o CarryToA
  ELSE LdiP(x.src) \o Ld("a") \o Op("add", "b", "a") \o LdiP(x.src + 1) \o Ld("a")
       \o CarryToA
MinusByte(x) ==
  IF IsConst(x)
  THEN Low(x) \o Op("sub", "a", "b") \o Op("mov", "b", "a") \o High(x) \o Op("sbb", "a", "0")
  ELSE LdiP(x.src) \o Ld("a") \o Op("sub", "a", "b") \o Op("mov", "b", "a")
       \o LdiP(x.src + 1) \o Ld("a") \o Op("sbb", "a", "0")

TwiceConst == ZeroA \o Op("mov", "pl", "a") \o Op1("shl", "b") \o Op("adc", "pl", "a")
TwiceVar(x) ==
  LdiP(x.src) \o Ld("pl") \o ZeroA \o BitFromB \o Op("mov", "ph", "a") \o Op("mov", "a", "pl")
CarryAndHigh(x) ==
  ZeroA \o CarryToA \o Op("add", "a", "ph") \o LdiP(x.src + 1) \o Ld("pl")
PlusTwice(x) ==
  IF IsConst(x)
  THEN TwiceConst \o Low(x) \o Op("add", "b", "a") \o High(x) \o Op("adc", "a", "pl")
  ELSE TwiceVar(x) \o Op("add", "b", "a") \o CarryAndHigh(x) \o Op("add", "a", "pl")
MinusTwice(x) ==
  IF IsConst(x)
  THEN TwiceConst \o Low(x) \o Op("sub", "a", "b") \o Op("mov", "b", "a") \o High(x)
       \o Op("sbb", "a", "pl")
  ELSE TwiceVar(x) \o Op("sub", "a", "b") \o Op("mov", "b", "a") \o CarryAndHigh(x)
       \o Op("sub", "pl", "a") \o Op("mov", "a", "pl")

(* _genAddPtr and _genSubPtr.  The index is a word or a byte, a byte only  *)
(* unsigned where the member has one byte or two; a constant is widened    *)
(* where it is a byte.                                                     *)
Indexed(x, y, t) ==
  Number((IF y.t.size = 1 /\ x.t.to <= 2 /\ y.t.sign THEN Widened(y) ELSE y.src) * x.t.to, t)

GenAddPtr(r, x, y) ==
  LET m == x.t.to
      shifted == GenSHLVarByConst(r, y, Log(m))
      sum == GenIntBinary(r, shifted.loc, x, "add", "adc")
  IN  CASE m = 1 /\ y.t.size = 2 -> GenIntBinary(r, x, WithType(y, r.t), "add", "adc")
        [] IsConst(y) /\ ~(m = 1 /\ y.t.size = 2) ->
             GenIntBinary(r, x, Indexed(x, y, r.t), "add", "adc")
        [] ~IsConst(y) /\ m > 2 ->
             (IF Same(x, r) THEN GenIncDecPtr(r, y, Log(m), "add")
              ELSE Emitted(sum.loc, shifted.code \o sum.code))
        [] ~IsConst(y) /\ m = 2 /\ y.t.size = 2 -> Emitted(r, AddWordTwice(r, x, y))
        [] OTHER -> Emitted(r, LoadByte("b", y, 0)
                               \o (IF m = 1 THEN PlusByte(x) ELSE PlusTwice(x)) \o StoreAB(r))

GenSubPtr(r, x, y) ==
  LET m == x.t.to
      shifted == GenSHLVarByConst(r, y, Log(m))
      rest == GenIntBinary(r, x, shifted.loc, "sub", "sbb")
  IN  CASE m = 1 /\ y.t.size = 2 -> GenIntBinary(r, x, WithType(y, r.t), "sub", "sbb")
        [] IsConst(y) /\ ~(m = 1 /\ y.t.size = 2) ->
             GenIntBinary(r, x, Indexed(x, y, r.t), "sub", "sbb")
        [] ~IsConst(y) /\ m > 2 ->
             (IF Same(x, r) THEN GenIncDecPtr(r, y, Log(m), "sub")
              ELSE Emitted(rest.loc, shifted.code \o rest.code))
        [] ~IsConst(y) /\ m = 2 /\ y.t.size = 2 -> Emitted(r, SubWordTwice(r, x, y))
        [] OTHER -> Emitted(r, LoadByte("b", y, 0)
                               \o (IF m = 1 THEN MinusByte(x) ELSE MinusTwice(x)) \o StoreAB(r))

GenAddPointerOffset(result, x, offset) ==
  GenIntBinary(result, x, Number(offset, x.t), "add", "adc")
GenAdd(result, x, y) ==
  LET r == Resolved(result, x.t)
  IN  IF x.t.to # 0 THEN GenAddPtr(r, x, y) ELSE GenIntBinary(r, x, y, "add", "adc")
GenSub(result, x, y) ==
  LET r == Resolved(result, x.t)
  IN  IF x.t.to # 0 THEN GenSubPtr(r, x, y) ELSE GenIntBinary(r, x, y, "sub", "sbb")

---------------------------------------------------------------------------
(* Products and quotients. *)

(* A byte times a constant: a shift for every bit, an addition where it is *)
(* set; the last addition or the first makes the answer.                   *)
GenMulVCByte(v, c) ==
  LET top == CHOOSE k \in 0 .. 7 : c \div 2 ^ k = 1
      low == CHOOSE k \in 0 .. top : (c \div 2 ^ k) % 2 = 1
                                     /\ \A j \in 0 .. k - 1 : (c \div 2 ^ j) % 2 = 0
      bit(k) == If((c \div 2 ^ k) % 2 = 1 /\ top # low,
                   IF k = low THEN Op("mov", "b", "a") ELSE Op("add", "b", "a"))
                \o If(k # top, Op1("shl", "a"))
  IN  LoadByte("a", v, 0) \o For(0, top, bit) \o If(top # low, Op("mov", "a", "b"))

(* CopyDword: the second word of a place may be unaligned as its first.    *)
CopyDword(f, t, fAligned, tAligned) ==
  CopyW(f, t, fAligned, tAligned, 0) \o CopyW(f, t, fAligned, tAligned, 2)

GenMulVC(r, v, c) ==
  CASE c = 0 -> Emitted(Number(0, v.t), << >>)
    [] c = 1 -> Emitted(v, << >>)
    [] c > 1 /\ v.t.size = 1 -> Emitted(Register(r.t), GenMulVCByte(v, c))
    [] c > 1 /\ v.t.size = 2 ->
         Emitted(r, CopyW(v.src, RA, v.al, TRUE, 0) \o StoreConstW(c, RB, TRUE)
                    \o Jump("jmp", MulWord) \o CopyW(RR, r.src, TRUE, r.al, 0))
    [] OTHER ->
         Emitted(r, CopyDword(v.src, RA, v.al, TRUE) \o StoreConstD(c, RB)
                    \o Jump("jmp", MulDword) \o CopyDword(RR, r.src, TRUE, r.al))

(* Two bytes into the operands of a routine. *)
ByteOperands(x, y) ==
  LoadByte("b", x, 0) \o LoadByte("a", y, 0)
  \o LdiP(RA) \o St("b") \o Ldi("pl", RB) \o St("a")

(* The second factor of four bytes is copied as the first one is aligned.  *)
GenMul(result, x, y) ==
  LET r == WithType(result, x.t)
  IN  CASE IsConst(x) -> GenMulVC(r, y, x.src)
        [] ~IsConst(x) /\ IsConst(y) -> GenMulVC(r, x, y.src)
        [] ~(IsConst(x) \/ IsConst(y)) /\ x.t.size = 1 ->
             Emitted(Register(x.t), ByteOperands(x, y) \o Jump("jmp", MulByte)
                                    \o LdiP(RR) \o Ld("a"))
        [] ~(IsConst(x) \/ IsConst(y)) /\ x.t.size = 2 ->
             Emitted(r, CopyW(x.src, RA, x.al, TRUE, 0) \o CopyW(y.src, RB, y.al, TRUE, 0)
                        \o Jump("jmp", MulWord) \o CopyW(RR, r.src, TRUE, r.al, 0))
        [] OTHER ->
             Emitted(r, CopyDword(x.src, RA, x.al, TRUE) \o CopyDword(y.src, RB, x.al, TRUE)
                        \o Jump("jmp", MulDword) \o CopyDword(RR, r.src, TRUE, r.al))

(* genDiv and genMod differ in the cell that holds the answer. *)
GenDivMod(result, x, y, answer) ==
  LET r == WithType(result, x.t)
      operand(z, cell) == IF IsConst(z) THEN StoreConstW(z.src, cell, FALSE)
                          ELSE CopyW(z.src, cell, FALSE, TRUE, 0)
  IN  IF x.t.size = 2
      THEN Emitted(r, operand(x, RA) \o operand(y, RB)
                      \o Jump("jmp", IF x.t.sign THEN DivWord ELSE UdivWord)
                      \o CopyW(answer, r.src, TRUE, FALSE, 0))
      ELSE Emitted(Register(x.t), ByteOperands(x, y)
                      \o Jump("jmp", IF x.t.sign THEN DivByte ELSE UdivByte)
                      \o LdiP(answer) \o Ld("a"))

(* genBinary. *)
GenBinary(op, result, x, y, node) ==
  CASE op = "add"  -> GenAdd(result, x, y)
    [] op = "sub"  -> GenSub(result, x, y)
    [] op = "band" -> GenIntBinary(result, x, y, "and", "and")
    [] op = "bor"  -> GenIntBinary(result, x, y, "or", "or")
    [] op = "bxor" -> GenIntBinary(result, x, y, "xor", "xor")
    [] op = "lor"  -> GenBoolBinary(x, y, "or")
    [] op = "land" -> GenBoolBinary(x, y, "and")
    [] op = "eq"   -> GenEq(x, y)
    [] op = "ne"   -> GenNe(x, y)
    [] op \in {"lt", "le", "gt", "ge"} -> GenCmp(x, y, op, node)
    [] op \in {"shl", "shr"} -> GenShift(result, x, y, op, node)
    [] op = "mul"  -> GenMul(result, x, y)
    [] op = "div"  -> GenDivMod(result, x, y, RQuotient)
    [] op = "mod"  -> GenDivMod(result, x, y, RRemainder)
=============================================================================
