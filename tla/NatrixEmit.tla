----------------------------- MODULE NatrixEmit -----------------------------
(***************************************************************************)
(* The pieces of code that the back end of Natrix is put together from     *)
(* (ccpu/common.py), moves, casts, stores through pointers and jumps       *)
(* (ccpu/code.py) and the unary operations (ccpu/unary.py).                *)
(*                                                                         *)
(* A generator returns the place of its result and the code that puts it   *)
(* there.  The operands are of the types that the generator accepts: the   *)
(* compiler stops at others with an error.                                 *)
(***************************************************************************)
EXTENDS Target, NatrixValues

Emitted(loc, code) == [loc |-> loc, code |-> code]

(* The code of F(lo), ..., F(hi) in that order; of F(hi), ..., F(lo). *)
For(lo, hi, F(_)) ==
  LET f[i \in Int] == IF i < lo THEN << >> ELSE f[i - 1] \o F(i) IN f[hi]
ForDown(hi, lo, F(_)) ==
  LET f[i \in Int] == IF i > hi THEN << >> ELSE f[i + 1] \o F(i) IN f[lo]
Times(n, code) == For(1, n, LAMBDA i : code)
If(condition, code) == IF condition THEN code ELSE << >>

(* Instructions in common use. *)
LdiP(x) == << <<"ldi", "pl", Lo(x)>>, <<"ldi", "ph", Hi(x)>> >>
Ld(r) == << <<"ld", r>> >>
St(r) == << <<"st", r>> >>
Ldi(r, x) == << <<"ldi", r, Lo(x)>> >>
IncPl == << <<"inc", "pl">> >>
DecPl == << <<"dec", "pl">> >>
ZeroA == << <<"mov", "a", "0">> >>
CarryToA == << <<"adc", "a", "0">> >>
(* CarryToPhOfZero is a mutant: no operand is A. *)
CarryToPhOfZero == << <<"adc", "ph", "0">> >>
CarryToPh == << <<"adc", "ph", "a">> >>
Op(op, d, s) == << <<op, d, s>> >>
Op1(op, d) == << <<op, d>> >>
Jump(op, label) == LdiP(label) \o << <<op>> >>
AtLabel(label) == << <<"label", label>> >>

(* allocLabel: the k-th label of the node of the expression tree. *)
AllocLabel(node, k) == 8192 + 8 * node + k

---------------------------------------------------------------------------
(* common.py.  IncPForgets is a mutant: no carry into the high byte. *)

ByteAt(n, k) == (n \div ByteSize ^ k) % ByteSize

LoadByte(r, x, k) ==
  CASE IsConst(x) /\ x.num /\ ByteAt(x.src, k) = 0 /\ r = "a" -> ZeroA
    [] IsConst(x) /\ ~(x.num /\ ByteAt(x.src, k) = 0 /\ r = "a") -> Ldi(r, ByteAt(x.src, k))
    [] x.reg -> If(r # "a", Op("mov", r, "a"))
    [] OTHER -> LdiP(x.src + k) \o Ld(r)

IncPForgets(aligned) == IncPl
IncP(aligned) == IncPl \o If(~aligned, ZeroA \o CarryToPh)

(* The pointer x plus offset into P; the pointer's low byte goes through A. *)
LoadP(x, offset) ==
  IF IsConst(x) THEN LdiP(x.src + offset)
  ELSE LdiP(x.src) \o Ld("a") \o (IF x.al THEN IncPl ELSE LdiP(x.src + 1))
       \o Ld("ph") \o Op("mov", "pl", "a")
       \o If(offset # 0,
             (CASE Lo(offset) = 0 -> << >>
                [] Lo(offset) = 1 -> IncPl
                [] OTHER -> Ldi("a", offset) \o Op("add", "pl", "a"))
             \o (IF Hi(offset) = 0 THEN ZeroA ELSE Ldi("a", Hi(offset)))
             \o Op(IF Lo(offset) = 0 THEN "add" ELSE "adc", "ph", "a"))

(* P to the next byte of a place at x: one byte on, or its address anew. *)
NextP(aligned, x) == IF aligned THEN IncPl ELSE LdiP(x)

CopyW(f, t, fAligned, tAligned, offset) ==
  LdiP(f + offset) \o Ld("b") \o IncP(fAligned) \o Ld("a")
  \o LdiP(t + offset) \o St("b") \o NextP(tAligned, t + offset + 1) \o St("a")

StoreConstW(c, x, aligned) ==
  LdiP(x) \o Ldi("b", Lo(c)) \o St("b") \o IncP(aligned) \o Ldi("b", Hi(c)) \o St("b")

(* storeConstD at an aligned place: a byte equal to the one before is      *)
(* still in A.                                                             *)
StoreConstD(c, x) ==
  LdiP(x) \o For(0, 3, LAMBDA k :
    If(k = 0 \/ ByteAt(c, k) # ByteAt(c, k - 1),
       IF ByteAt(c, k) = 0 THEN ZeroA ELSE Ldi("a", ByteAt(c, k)))
    \o St("a") \o If(k # 3, IncPl))

(* A word in A:B to a place. *)
StoreAB(x) == LdiP(x.src) \o St("b") \o NextP(x.al, x.src + 1) \o St("a")

---------------------------------------------------------------------------
(* code.py: moves and casts. *)

LoadConst(size, x, offset) ==
  Ldi("b", ByteAt(x.src, offset))
  \o If(size > 1, IF x.num /\ ByteAt(x.src, offset + 1) = 0 THEN ZeroA
                  ELSE Ldi("a", ByteAt(x.src, offset + 1)))

MoveLarge(r, x) ==
  For(0, (x.t.size - 1) \div 2, LAMBDA k :
    LET offset == 2 * k
        pair == x.t.size - offset > 1
    IN  IF IsConst(x)
        THEN LoadConst(IF pair THEN 2 ELSE 1, x, offset) \o LdiP(r.src + offset) \o St("b")
             \o If(pair, NextP(r.al, r.src + offset + 1) \o St("a"))
        ELSE LdiP(x.src + offset) \o Ld("a")
             \o (IF pair
                 THEN NextP(x.al, x.src + offset + 1) \o Ld("b")
                      \o LdiP(r.src + offset + 1) \o St("b")
                      \o (IF r.al THEN DecPl ELSE LdiP(r.src + offset))
                 ELSE LdiP(r.src + offset))
             \o St("a"))

MoveCode(r, x) ==
  CASE x.reg -> LdiP(r.src) \o St("a")
    [] ~x.reg /\ x.t.size <= 2 ->
         (IF IsConst(x) THEN LoadConst(x.t.size, x, 0)
          ELSE LdiP(x.src) \o Ld("b") \o If(x.t.size > 1, IncP(x.al) \o Ld("a")))
         \o (IF x.t.size > 1 THEN StoreAB(r) ELSE LdiP(r.src) \o St("b"))
    [] OTHER -> MoveLarge(r, x)

GenMove(result, x, avoidCopy) ==
  LET r == Resolved(result, x.t)
  IN  CASE Same(x, r) -> Emitted(r, << >>)
        [] ~Same(x, r) /\ avoidCopy -> Emitted(x, << >>)
        [] OTHER -> Emitted(r, MoveCode(r, x))

(* The bytes of r from first on, all from A.  For a zero A the carry of    *)
(* the address is added from it.                                           *)
ExtendFrom(r, first, sign) ==
  For(first, r.t.size - 1, LAMBDA k :
    (CASE r.al -> IncPl
       [] ~r.al /\ sign -> LdiP(r.src + k)
       [] OTHER -> IncPl \o CarryToPh) \o St("a"))

(* Widening a value that stays in its place. *)
CastInPlace(r, x) ==
  IF x.t.sign
  THEN LdiP(x.src + x.t.size - 1) \o Ld("a") \o Op1("shl", "a") \o Op1("exp", "a")
       \o ExtendFrom(r, x.t.size, TRUE)
  ELSE LdiP(x.src + x.t.size) \o ZeroA \o St("a")
       \o For(x.t.size + 1, r.t.size - 1, LAMBDA k : NextP(r.al, r.src + k) \o St("a"))

CastWiden(r, x) ==
  (IF x.t.size = 1 THEN LoadByte("a", x, 0) \o LdiP(r.src) \o St("a")
   ELSE For(0, x.t.size - 1, LAMBDA k :
          LdiP(x.src + k) \o Ld("a") \o LdiP(r.src + k) \o St("a")))
  \o (IF x.t.sign THEN Op1("shl", "a") \o Op1("exp", "a") ELSE ZeroA)
  \o ExtendFrom(r, x.t.size, x.t.sign)

(* widen: a signed byte becomes a word. *)
Widened(x) == IF x.src % ByteSize >= 128 THEN 65280 + (x.src % ByteSize) ELSE x.src

GenCast(result, t, x) ==
  LET r == WithType(result, t)
      inPlace == x.lev = 1 /\ x.src = r.src /\ x.reg = r.reg
  IN  CASE Same(r, x) -> Emitted(r, << >>)
        [] ~Same(r, x) /\ inPlace ->
             Emitted(r, If(t.size > x.t.size, CastInPlace(r, x)))
        [] ~inPlace /\ IsConst(x) ->
             GenMove(r, IF x.num /\ x.t = S8 THEN Number(Widened(x), t) ELSE WithType(x, t),
                     TRUE)
        [] ~inPlace /\ x.lev = 1 /\ t.size > x.t.size -> Emitted(r, CastWiden(r, x))
        [] OTHER -> Emitted(WithType(x, t), << >>)

(* *(x + offset) = y, from the last byte to the first when it is large. *)
GenPutIndirect(x, y, offset) ==
  LET byte(k) == LoadByte("b", y, k) \o LoadP(x, offset + k) \o St("b")
  IN  IF y.t.size <= 2 THEN For(0, y.t.size - 1, byte) ELSE ForDown(y.t.size - 1, 0, byte)

(* Jump to the label if the condition is 0. *)
GenInvCondJump(x, label) ==
  CASE IsConst(x) /\ x.num -> If(x.src = 0, Jump("jmp", label))
    [] IsConst(x) /\ ~x.num ->
         Ldi("a", x.src) \o Op("add", "a", "0") \o Jump("jz", label)
    [] OTHER -> If(~x.reg, LdiP(x.src) \o Ld("a")) \o LdiP(label)
                \o Op("add", "a", "0") \o << <<"jz">> >>

---------------------------------------------------------------------------
(* unary.py.  DerefUp is a mutant: the low bytes first. *)

DerefPair(r, x, offset, k) ==
  LET pair == r.t.size - k > 1
  IN  LoadP(x, k + offset) \o Ld("b")
      \o If(pair, ZeroA \o IncPl \o CarryToPh \o Ld("a"))
      \o LdiP(r.src + k) \o St("b")
      \o If(pair, NextP(r.al, r.src + k + 1) \o St("a"))

DerefUp(r, x, offset) ==
  For(0, (r.t.size - 1) \div 2, LAMBDA k : DerefPair(r, x, offset, 2 * k))
DerefPairs(r, x, offset) ==
  ForDown((r.t.size - 1) \div 2, 0, LAMBDA k : DerefPair(r, x, offset, 2 * k))

GenDeref(result, x, offset) ==
  LET r == Resolved(result, Deref(x.t))
  IN  CASE IsConst(x) -> Emitted(Variable(x.src + offset, r.t), << >>)
        [] x.lev = 1 /\ r.t.size = 1 -> Emitted(Register(r.t), LoadP(x, offset) \o Ld("a"))
        [] OTHER -> Emitted(r, DerefPairs(r, x, offset))

(* The code tests the method isAligned and not its result, so a place is   *)
(* always taken to be aligned.                                             *)
GenBNot(result, x) ==
  LET r == Resolved(result, x.t)
  IN  CASE IsConst(x) -> Emitted(Number(-x.src - 1, x.t), << >>)
        [] x.lev = 1 /\ x.t.size = 1 ->
             Emitted(Register(x.t), LoadByte("a", x, 0) \o Op1("not", "a"))
        [] OTHER ->
             Emitted(r, For(0, (x.t.size - 1) \div 2, LAMBDA k :
               LdiP(x.src + 2 * k) \o Ld("b") \o IncP(x.al) \o Ld("a")
               \o LdiP(r.src + 2 * k) \o Op1("not", "b") \o St("b")
               \o IncPl \o Op1("not", "a") \o St("a")))

GenLNot(result, x) ==
  IF IsConst(x) THEN Emitted(Number(IF x.src = 0 THEN 1 ELSE 0, BoolType), << >>)
  ELSE Emitted(Register(BoolType),
               LoadByte("a", x, 0) \o Op1("dec", "a") \o ZeroA \o CarryToA)

GenNeg(result, x) ==
  LET r == Resolved(result, x.t)
  IN  CASE IsConst(x) -> Emitted(Number((-x.src) % ByteSize ^ x.t.size, x.t), << >>)
        [] x.lev = 1 /\ x.t.size = 1 ->
             Emitted(Register(x.t), LoadByte("a", x, 0) \o Op1("neg", "a"))
        [] OTHER ->
             Emitted(r, LdiP(x.src) \o Ld("b") \o IncP(x.al) \o Ld("a")
               \o Op1("not", "a") \o Op1("not", "b") \o Op1("inc", "b") \o CarryToA
               \o LdiP(r.src) \o St("b") \o IncP(r.al) \o St("a"))
=============================================================================
