--------------------------- MODULE NatrixCompare ---------------------------
(***************************************************************************)
(* Comparisons (ccpu/compare.py).  op is "lt", "le", "gt" or "ge"; the     *)
(* result is 0 or 1 in register A.  Operands: one of them at most is in    *)
(* the register, and both are not constants unless they are unsigned (the  *)
(* front end folds the others).  A number has as many bytes as its type.   *)
(***************************************************************************)
EXTENDS NatrixEmit

Answer(code) == Emitted(Register(BoolType), code)
Decided(b) == Emitted(Number(IF b THEN 1 ELSE 0, BoolType), << >>)
BothConst(x, y) == IsConst(x) /\ IsConst(y)

CarryFlag == ZeroA \o CarryToA                   \* A := C
NotCarryFlag == Ldi("a", 1) \o Op("sbb", "a", "0")   \* A := 1 - C

(* B := 0 iff the values are equal.  The operands are swapped to have the  *)
(* constant second.                                                        *)
GenEqNeCmp(x, y) ==
  LET v == IF IsConst(x) THEN y ELSE x
      c == IF IsConst(x) THEN x ELSE y
      merge == Op("sub", "a", "pl") \o Op("or", "b", "a")
  IN  IF IsConst(x) \/ IsConst(y)
      THEN LoadByte("b", v, 0) \o LoadByte("a", c, 0) \o Op("sub", "b", "a")
           \o For(1, x.t.size - 1, LAMBDA k :
                (IF k = 1 THEN IncP(v.al) ELSE LdiP(v.src + k))
                \o Ld("pl") \o LoadByte("a", c, k) \o merge)
      ELSE LoadByte("b", y, 0) \o LoadByte("a", x, 0) \o Op("sub", "b", "a")
           \o For(1, x.t.size - 1, LAMBDA k :
                LoadByte("a", x, k) \o LoadByte("pl", y, k) \o merge)

GenEq(x, y) ==
  IF BothConst(x, y) THEN Decided(x.src = y.src)
  ELSE Answer(GenEqNeCmp(x, y) \o Op1("dec", "b") \o CarryFlag)
GenNe(x, y) ==
  IF BothConst(x, y) THEN Decided(x.src # y.src)
  ELSE Answer(GenEqNeCmp(x, y) \o Op1("dec", "b") \o NotCarryFlag)

---------------------------------------------------------------------------
(* Unsigned: the borrow of the subtraction says which is below.            *)
(* CmpSubFlagsForgets is a mutant: no borrow from the byte below.          *)

CmpSubFlagsForgets(x, y) ==
  For(0, x.t.size - 1, LAMBDA k :
    LoadByte("b", y, k) \o LoadByte("a", x, k) \o Op("sub", "a", "b"))
GenCmpSubFlags(x, y) ==
  For(0, x.t.size - 1, LAMBDA k :
    LoadByte("b", y, k) \o LoadByte("a", x, k)
    \o Op(IF k = 0 THEN "sub" ELSE "sbb", "a", "b"))

(* Also (B or PL) := 0 iff equal, for one byte or two. *)
GenCmpSub(x, y) ==
  LET low == IF IsConst(x) THEN LoadByte("a", y, 0) \o LoadByte("b", x, 0)
             ELSE LoadByte("b", x, 0) \o LoadByte("a", y, 0)
      sub == Op("sub", "b", "a")
      high == CASE IsConst(x) -> sub \o LoadByte("a", y, 1) \o LoadByte("pl", x, 1)
                [] ~IsConst(x) /\ IsConst(y) ->
                     sub \o LoadByte("pl", x, 1) \o LoadByte("a", y, 1)
                [] OTHER -> NextP(y.al, y.src + 1) \o sub \o Ld("a")
                            \o LdiP(x.src + 1) \o Ld("pl")
  IN  low \o (IF x.t.size = 2 THEN high \o Op("sbb", "pl", "a")
              ELSE sub \o Ldi("pl", 0))

(* A := 1 iff C or Z, and its inverse. *)
BelowOrEqual(op) ==
  Op1("exp", "ph") \o Op("mov", "a", "pl") \o Op("or", "a", "b") \o Op1("dec", "a")
  \o Op1("exp", "a") \o Op("or", "a", "ph") \o If(op = "gt", Op1("not", "a"))
  \o Ldi("b", 1) \o Op("and", "a", "b")

(* Four bytes: x < y by the borrow; x <= y is also true of equal bytes. *)
GenCmpLarge(x, y, orEqual, node) ==
  LET end == AllocLabel(node, 0)
  IN  GenCmpSubFlags(x, y)
      \o (IF ~orEqual THEN CarryFlag
          ELSE Ldi("b", 1) \o Jump("jc", end) \o Op1("dec", "b")
               \o For(0, x.t.size - 1, LAMBDA k :
                    LoadByte("a", x, k) \o LoadByte("pl", y, k)
                    \o Op("sub", "a", "pl") \o Jump("jnz", end))
               \o Op1("inc", "b") \o AtLabel(end) \o Op("mov", "a", "b"))

Ordered(op, x, y) ==
  CASE op = "lt" -> x < y  [] op = "le" -> x <= y
    [] op = "gt" -> x > y  [] op = "ge" -> x >= y

GenCmpUnsigned(x, y, op, node) ==
  IF BothConst(x, y) THEN Decided(Ordered(op, x.src, y.src))
  ELSE Answer(
    CASE x.t.size > 2 /\ op \in {"lt", "le"} -> GenCmpLarge(x, y, op = "le", node)
      [] x.t.size > 2 /\ op \in {"gt", "ge"} -> GenCmpLarge(y, x, op = "ge", node)
      [] x.t.size <= 2 /\ op = "lt" -> GenCmpSubFlags(x, y) \o CarryFlag
      [] x.t.size <= 2 /\ op = "ge" -> GenCmpSubFlags(x, y) \o NotCarryFlag
      [] OTHER -> GenCmpSub(x, y) \o BelowOrEqual(op))

---------------------------------------------------------------------------
(* Signed: the sign of the difference decides, inverted after an overflow. *)
(* SignAnswerForgets is a mutant: the sign as it is.                       *)

IsLess(op) == op \in {"lt", "le"}
OrEqual(op) == op \in {"le", "ge"}
EqualAnswer(op) == IF OrEqual(op) THEN Ldi("a", 1) ELSE ZeroA
CarryAnswer(op) == IF IsLess(op) THEN CarryFlag ELSE NotCarryFlag

SignAnswerForgets(r, op, node, end) == Op1("shl", r) \o CarryAnswer(op) \o Jump("jmp", end)
SignAnswer(r, op, node, end) ==
  Jump("jno", AllocLabel(node, 2))
  \o Op1("shl", r) \o (IF IsLess(op) THEN NotCarryFlag ELSE CarryFlag) \o Jump("jmp", end)
  \o AtLabel(AllocLabel(node, 2)) \o Op1("shl", r) \o CarryAnswer(op) \o Jump("jmp", end)

(* A byte leaves the answer for equal values in A before it branches, and  *)
(* loads A again only where the answer starts from another value.          *)
GenCmpSignedByte(x, y, op, node) ==
  LET end == AllocLabel(node, 0)
      no == AllocLabel(node, 2)
      onSign(less) == IF less THEN If(~OrEqual(op), Ldi("a", 1)) \o Op("sbb", "a", "0")
                      ELSE If(OrEqual(op), ZeroA) \o CarryToA
  IN  LoadByte("b", x, 0) \o LoadByte("a", y, 0) \o Op("sub", "b", "a")
      \o EqualAnswer(op) \o Jump("jz", end) \o Jump("jno", no)
      \o Op1("shl", "b") \o onSign(IsLess(op)) \o Jump("jmp", end)
      \o AtLabel(no) \o Op1("shl", "b") \o onSign(~IsLess(op)) \o AtLabel(end)

LoadWordByte(r, x, k) ==
  IF IsConst(x) THEN Ldi(r, ByteAt(x.src, k)) ELSE LdiP(x.src + k) \o Ld(r)
GenCmpSignedWord(x, y, op, node) ==
  LET end == AllocLabel(node, 0)
      low == AllocLabel(node, 1)
      load(k) == LoadWordByte("b", x, k) \o LoadWordByte("a", y, k)
  IN  load(1) \o Op("sub", "b", "a") \o Jump("jz", low)
      \o SignAnswer("b", op, node, end)
      \o AtLabel(low) \o load(0) \o Op("sub", "b", "a") \o EqualAnswer(op) \o Jump("jz", end)
      \o (IF IsLess(op) THEN If(OrEqual(op), ZeroA) \o CarryToA
          ELSE If(~OrEqual(op), Ldi("a", 1)) \o Op("sbb", "a", "0"))
      \o AtLabel(end)

GenCmpSignedLong(x, y, op, node) ==
  LET end == AllocLabel(node, 0)
      low == AllocLabel(node, 1)
      top == x.t.size - 1
      load(k) == LoadByte("a", x, k) \o LoadByte("b", y, k) \o Op("sub", "a", "b")
      next(k) == AllocLabel(node, 3 + k)
  IN  load(top) \o Jump("jz", low) \o SignAnswer("a", op, node, end) \o AtLabel(low)
      \o ForDown(top - 1, 0, LAMBDA k :
           load(k) \o Jump("jz", next(k)) \o CarryAnswer(op) \o Jump("jmp", end)
           \o AtLabel(next(k)))
      \o EqualAnswer(op) \o AtLabel(end)

GenCmpSigned(x, y, op, node) ==
  Answer(CASE x.t.size = 1 -> GenCmpSignedByte(x, y, op, node)
           [] x.t.size = 2 -> GenCmpSignedWord(x, y, op, node)
           [] OTHER -> GenCmpSignedLong(x, y, op, node))

GenCmp(x, y, op, node) ==
  IF x.t.sign THEN GenCmpSigned(x, y, op, node) ELSE GenCmpUnsigned(x, y, op, node)
=============================================================================
