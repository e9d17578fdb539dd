----------------------------- MODULE NatrixFold -----------------------------
(***************************************************************************)
(* The transformers between the parser and the generator of Natrix: what   *)
(* the compiler computes itself (const.py, type.py), subscripts (sugar.py),*)
(* members of structures (structure.py) and addresses (value.py).          *)
(*                                                                         *)
(* Python's integers have no width: a number is taken as the integer that  *)
(* its type says it is, and the result is cut down to its type.  A number  *)
(* of four bytes is kept as an integer, of which TLC has half the range.   *)
(***************************************************************************)
EXTENDS NatrixValues

Modulus(t) == 256 ^ t.size

(* SignForgotten is a mutant: the number as it is stored. *)
SignForgotten(t, n) == n
SignExpand(t, n) ==
  IF t.sign /\ t.size <= 2 /\ 2 * n >= Modulus(t) THEN n - Modulus(t) ELSE n
Const(t, n) == Leaf(Number(IF t.size <= 2 THEN n % Modulus(t) ELSE n, t))

IsNumber(e) == IsLeaf(e) /\ IsConst(e.v) /\ e.v.num
IntOf(e) == SignExpand(e.v.t, e.v.src)

(* Python's operators on integers. *)
BitwiseInt(F(_, _), a, b) == Unsigned(F(OfInt(a, 2), OfInt(b, 2)))
FloorDiv(a, b) == IF b > 0 THEN a \div b ELSE (-a) \div (-b)
Flag(b) == IF b THEN 1 ELSE 0

ComparisonOps == {"eq", "ne", "lt", "le", "gt", "ge"}
FoldedOps == {"add", "sub", "mul", "div", "shl", "shr", "band", "bor", "bxor"} \cup ComparisonOps
PyBinary(op, a, b) ==
  CASE op = "add"  -> a + b
    [] op = "sub"  -> a - b
    [] op = "mul"  -> a * b
    [] op = "div"  -> FloorDiv(a, b)
    [] op = "shl"  -> a * 2 ^ b
    [] op = "shr"  -> a \div 2 ^ b
    [] op = "band" -> BitwiseInt(WideAnd, a, b)
    [] op = "bor"  -> BitwiseInt(WideOr, a, b)
    [] op = "bxor" -> BitwiseInt(WideXor, a, b)
    [] op = "eq"   -> Flag(a = b)
    [] op = "ne"   -> Flag(a # b)
    [] op = "lt"   -> Flag(a < b)
    [] op = "le"   -> Flag(a <= b)
    [] op = "gt"   -> Flag(a > b)
    [] op = "ge"   -> Flag(a >= b)

(* addsub: a pointer moves by whole members; an address keeps its label.   *)
(* The tree stays if one side is a variable.                               *)
FoldPointer(e) ==
  LET sign == IF e.op = "add" THEN 1 ELSE -1
  IN  Leaf([e.l.v EXCEPT !.src = @ + sign * IntOf(e.r) * e.l.v.t.to, !.al = TRUE])

(* land, lor: only a number on the left decides. *)
FoldBool(e) ==
  LET isTrue == e.l.v.src # 0
  IN  CASE (e.op = "land") = isTrue -> e.r
        [] e.op = "lor" /\ isTrue -> Const(BoolType, 1)
        [] e.op = "land" /\ ~isTrue -> Const(BoolType, 0)

FoldBinary(e) ==
  CASE e.op \in {"land", "lor"} -> IF IsNumber(e.l) /\ IsLeaf(e.r) THEN FoldBool(e) ELSE e
    [] e.op \in {"add", "sub"} /\ IsLeaf(e.l) /\ IsNumber(e.r)
         /\ IsConst(e.l.v) /\ e.l.v.t.to # 0 -> FoldPointer(e)
    [] e.op \in FoldedOps /\ IsNumber(e.l) /\ IsNumber(e.r) /\ e.l.v.t.to = 0 ->
         Const(IF e.op \in ComparisonOps THEN BoolType ELSE e.l.v.t,
               PyBinary(e.op, IntOf(e.l), IntOf(e.r)))
    [] OTHER -> e

FoldUnary(e) ==
  IF ~IsNumber(e.e) THEN e
  ELSE CASE e.op = "neg"  -> Const(e.e.v.t, -IntOf(e.e))
         [] e.op = "bnot" -> Const(e.e.v.t, -IntOf(e.e) - 1)
         [] e.op = "lnot" -> Const(BoolType, Flag(e.e.v.src = 0))
         [] OTHER -> e

(* cast: widening repeats the sign of the old type. *)
FoldCast(e) == IF IsNumber(e.e) THEN Const(e.t, IntOf(e.e)) ELSE e

---------------------------------------------------------------------------
(* Members and addresses.  A member of a variable is a place that may      *)
(* cross a page; an address is a constant whose label is the place.        *)

IsAddress(e) == IsLeaf(e) /\ IsConst(e.v) /\ e.v.t.to # 0
MemberOf(x, e) ==
  IF IsLeaf(x) THEN Leaf(Unaligned(x.v.src + e.offset, e.t))
  ELSE Member("arrow", x.e, e.offset, e.t)
MemberBehind(x, e) ==
  IF IsAddress(x) THEN Leaf(Unaligned(x.v.src + e.offset, e.t))
  ELSE Member("arrow", x, e.offset, e.t)
AddressOf(x) ==
  CASE IsLeaf(x) -> Leaf(LabelConst(x.v.src, Ptr(x.v.t.size)))
    [] x.op = "arrow" -> Member("p_arrow", x.e, x.offset, x.t)

---------------------------------------------------------------------------
(* The transformers work from the leaves up.  A subscript is a read behind *)
(* the sum of its operands.                                                *)
RECURSIVE Folded(_)
Folded(e) ==
  CASE IsLeaf(e) -> e
    [] e.op = "subscript" -> Folded(Unary("deref", Binary("add", e.l, e.r)))
    [] e.op \in UnaryOps -> FoldUnary([e EXCEPT !.e = Folded(e.e)])
    [] e.op = "type_cast" -> FoldCast([e EXCEPT !.e = Folded(e.e)])
    [] e.op = "member" -> MemberOf(Folded(e.e), e)
    [] e.op = "arrow" -> MemberBehind(Folded(e.e), e)
    [] e.op = "addr" ->
         IF e.e.op = "arrow" THEN Folded(Member("p_arrow", e.e.e, e.e.offset, e.e.t))
         ELSE AddressOf(Folded(e.e))
    [] e.op = "p_arrow" -> [e EXCEPT !.e = Folded(e.e)]
    [] OTHER -> FoldBinary([e EXCEPT !.l = Folded(e.l), !.r = Folded(e.r)])

(* CompoundTransformer: l op= r. *)
Compound(op, l, r) == Assignment(l, Binary(op, l, r))

(* Every expression of a statement. *)
RECURSIVE FoldedStatement(_)
FoldedStatement(s) ==
  LET all(body) == [i \in DOMAIN body |-> FoldedStatement(body[i])]
  IN  CASE s.op = "assignment" -> Assignment(Folded(s.l), Folded(s.r))
        [] s.op = "block" -> Block(all(s.body))
        [] s.op = "conditional" -> Conditional(Folded(s.cond), all(s.yes), all(s.no))
        [] s.op = "while_loop" -> While(Folded(s.cond), FoldedStatement(s.body))
        [] s.op = "for_loop" ->
             ForLoop(all(s.prolog), Folded(s.cond), all(s.iteration), FoldedStatement(s.body))
        [] OTHER -> s
=============================================================================
