---------------------------- MODULE NatrixValues ----------------------------
(***************************************************************************)
(* The types and values that the Natrix compiler works on (type.py,        *)
(* value.py, location.py) and the trees that its parser hands over.        *)
(***************************************************************************)
EXTENDS Wide

(* Types: size in bytes, sign, and for pointers the size of the member. *)
U8  == [size |-> 1, sign |-> FALSE, to |-> 0]
S8  == [size |-> 1, sign |-> TRUE,  to |-> 0]
U16 == [size |-> 2, sign |-> FALSE, to |-> 0]
S16 == [size |-> 2, sign |-> TRUE,  to |-> 0]
U32 == [size |-> 4, sign |-> FALSE, to |-> 0]
S32 == [size |-> 4, sign |-> TRUE,  to |-> 0]
Ptr(size) == [size |-> 2, sign |-> FALSE, to |-> size]
Deref(t) == [size |-> t.to, sign |-> FALSE, to |-> 0]
BoolType == U8
UnknownType == [size |-> 0, sign |-> FALSE, to |-> 0]

(* Values: level of indirection, whether in register A, whether a number,  *)
(* the number or the address, the type, whether known not to cross a page. *)
Value(lev, reg, num, src, t, al) ==
  [lev |-> lev, reg |-> reg, num |-> num, src |-> src, t |-> t, al |-> al]
Variable(x, t)   == Value(1, FALSE, FALSE, x, t, TRUE)
Unaligned(x, t)  == Value(1, FALSE, FALSE, x, t, FALSE)
Register(t)      == Value(1, TRUE, FALSE, 0, t, TRUE)
Number(n, t)     == Value(0, FALSE, TRUE, n, t, TRUE)
LabelConst(x, t) == Value(0, FALSE, FALSE, x, t, TRUE)
WithType(x, t) == [x EXCEPT !.t = t]
Resolved(x, t) == IF x.t = UnknownType THEN WithType(x, t) ELSE x
Same(x, y) == [x EXCEPT !.al = y.al] = y
IsConst(x) == x.lev = 0

(* Trees: a leaf is a value; member is the part of t bytes at an offset of *)
(* a place, arrow the one behind a pointer and p_arrow its address.        *)
Leaf(x) == [op |-> "value", v |-> x]
Unary(op, e) == [op |-> op, e |-> e]
CastTo(t, e) == [op |-> "type_cast", e |-> e, t |-> t]
Member(op, e, offset, t) == [op |-> op, e |-> e, offset |-> offset, t |-> t]
AddrOf(e) == [op |-> "addr", e |-> e]
Binary(op, e1, e2) == [op |-> op, l |-> e1, r |-> e2]
UnaryOps == {"deref", "bnot", "lnot", "neg"}
IsLeaf(e) == e.op = "value"

(* Statements. *)
Assignment(l, r) == [op |-> "assignment", l |-> l, r |-> r]
Block(body) == [op |-> "block", body |-> body]
Conditional(cond, yes, no) == [op |-> "conditional", cond |-> cond, yes |-> yes, no |-> no]
While(cond, body) == [op |-> "while_loop", cond |-> cond, body |-> body]
ForLoop(prolog, cond, iteration, body) ==
  [op |-> "for_loop", prolog |-> prolog, cond |-> cond, iteration |-> iteration,
   body |-> body]
Break == [op |-> "break_statement"]
Continue == [op |-> "continue_statement"]
=============================================================================
