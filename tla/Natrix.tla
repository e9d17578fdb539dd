------------------------------- MODULE Natrix -------------------------------
(***************************************************************************)
(* What a program in Natrix means: statements that change the bytes of its *)
(* variables one after the other, with integers that wrap at their width.  *)
(* It knows nothing of instructions, registers, temporary variables or     *)
(* runtime cells.                                                          *)
(***************************************************************************)
EXTENDS NatrixValues

Typed(t, bytes) == [t |-> t, bytes |-> bytes]
Truth(b) == Typed(BoolType, OfBool(b))

Amount(x) == IF x.t.sign THEN Signed(x.bytes) ELSE Unsigned(x.bytes)

(* Pointers count in members. *)
Sum(x, y) ==
  IF x.t.to # 0 THEN OfInt(Unsigned(x.bytes) + Amount(y) * x.t.to, 2)
  ELSE WideSum(x.bytes, y.bytes)
Minus(x, y) ==
  IF x.t.to # 0 THEN OfInt(Unsigned(x.bytes) - Amount(y) * x.t.to, 2)
  ELSE Difference(x.bytes, y.bytes)

ShiftRight(x, n) ==
  ShiftedRight(x.bytes, n, IF x.t.sign /\ Negative(x.bytes) THEN 1 ELSE 0)

UnaryMeaning(op, x, store) ==
  CASE op = "deref" -> Typed(Deref(x.t), At(store, Unsigned(x.bytes), x.t.to))
    [] op = "bnot"  -> Typed(x.t, Inverted(x.bytes))
    [] op = "neg"   -> Typed(x.t, Negated(x.bytes))
    [] op = "lnot"  -> Truth(IsZero(x.bytes))

BinaryMeaning(op, x, y) ==
  CASE op = "add"  -> Typed(x.t, Sum(x, y))
    [] op = "sub"  -> Typed(x.t, Minus(x, y))
    [] op = "band" -> Typed(x.t, WideAnd(x.bytes, y.bytes))
    [] op = "bor"  -> Typed(x.t, WideOr(x.bytes, y.bytes))
    [] op = "bxor" -> Typed(x.t, WideXor(x.bytes, y.bytes))
    [] op = "land" -> Truth(~IsZero(x.bytes) /\ ~IsZero(y.bytes))
    [] op = "lor"  -> Truth(~IsZero(x.bytes) \/ ~IsZero(y.bytes))
    [] op = "eq"   -> Truth(x.bytes = y.bytes)
    [] op = "ne"   -> Truth(x.bytes # y.bytes)
    [] op = "lt"   -> Truth(Less(x.bytes, y.bytes, x.t.sign))
    [] op = "ge"   -> Truth(~Less(x.bytes, y.bytes, x.t.sign))
    [] op = "gt"   -> Truth(Less(y.bytes, x.bytes, x.t.sign))
    [] op = "le"   -> Truth(~Less(y.bytes, x.bytes, x.t.sign))
    [] op = "shl"  -> Typed(x.t, ShiftedLeft(x.bytes, Unsigned(y.bytes)))
    [] op = "shr"  -> Typed(x.t, ShiftRight(x, Unsigned(y.bytes)))
    [] op = "mul"  -> Typed(x.t, WideProduct(x.bytes, y.bytes))
    [] op = "div"  -> Typed(x.t, OfInt(Quotient(Amount(x), Amount(y)), x.t.size))
    [] op = "mod"  -> Typed(x.t, OfInt(Remainder(Amount(x), Amount(y)), x.t.size))

(* What an expression is, and where one lives that names a place.          *)
RECURSIVE Meaning(_, _), Place(_, _)
Place(e, store) ==
  CASE e.op = "value" -> e.v.src
    [] e.op = "deref" -> Unsigned(Meaning(e.e, store).bytes)
    [] e.op = "subscript" ->
         Unsigned(Sum(Meaning(e.l, store), Meaning(e.r, store)))
    [] e.op = "arrow" -> Unsigned(Meaning(e.e, store).bytes) + e.offset
    [] e.op = "member" -> Place(e.e, store) + e.offset

Meaning(e, store) ==
  CASE e.op = "value" ->
         Typed(e.v.t, IF IsConst(e.v) THEN OfInt(e.v.src, e.v.t.size)
                      ELSE At(store, e.v.src, e.v.t.size))
    [] e.op \in UnaryOps -> UnaryMeaning(e.op, Meaning(e.e, store), store)
    [] e.op = "type_cast" ->
         LET x == Meaning(e.e, store) IN Typed(e.t, Resized(x.bytes, e.t.size, x.t.sign))
    [] e.op = "subscript" ->
         LET t == Deref(Meaning(e.l, store).t) IN Typed(t, At(store, Place(e, store), t.size))
    [] e.op \in {"arrow", "member"} -> Typed(e.t, At(store, Place(e, store), e.t.size))
    [] e.op = "p_arrow" ->
         Typed(Ptr(e.t.size), OfInt(Unsigned(Meaning(e.e, store).bytes) + e.offset, 2))
    [] e.op = "addr" ->
         Typed(Ptr(Meaning(e.e, store).t.size), OfInt(Place(e.e, store), 2))
    [] OTHER -> BinaryMeaning(e.op, Meaning(e.l, store), Meaning(e.r, store))

---------------------------------------------------------------------------
(* A statement leaves a store and the way it was left: at its end, by      *)
(* break or by continue.                                                   *)

Outcome(store, how) == [store |-> store, how |-> how]

RECURSIVE Effect(_, _), Rounds(_, _, _, _), InOrder(_, _)
InOrder(body, store) ==
  IF body = << >> THEN Outcome(store, "end")
  ELSE LET first == Effect(Head(body), store)
       IN  IF first.how = "end" THEN InOrder(Tail(body), first.store) ELSE first

Holds(cond, store) == ~IsZero(Meaning(cond, store).bytes)

Rounds(cond, iteration, body, store) ==
  IF ~Holds(cond, store) THEN Outcome(store, "end")
  ELSE LET round == Effect(body, store)
       IN  IF round.how = "break" THEN Outcome(round.store, "end")
           ELSE Rounds(cond, iteration, body, InOrder(iteration, round.store).store)

Effect(s, store) ==
  CASE s.op = "assignment" ->
         Outcome(Put(store, Place(s.l, store), Meaning(s.r, store).bytes), "end")
    [] s.op = "block" -> InOrder(s.body, store)
    [] s.op = "conditional" -> InOrder(IF Holds(s.cond, store) THEN s.yes ELSE s.no, store)
    [] s.op = "while_loop" -> Rounds(s.cond, << >>, s.body, store)
    [] s.op = "for_loop" ->
         Rounds(s.cond, s.iteration, s.body, InOrder(s.prolog, store).store)
    [] s.op = "break_statement" -> Outcome(store, "break")
    [] s.op = "continue_statement" -> Outcome(store, "continue")

---------------------------------------------------------------------------
(* A run of a program: what is left of it, and its variables. *)

VARIABLES rest, store
vars == << rest, store >>

Init == rest # << >>
Step ==
  /\ rest # << >>
  /\ store' = Effect(Head(rest), store).store
  /\ rest' = Tail(rest)
Next == Step
Spec == Init /\ [][Next]_vars
=============================================================================
