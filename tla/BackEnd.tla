------------------------------- MODULE BackEnd -------------------------------
(***************************************************************************)
(* The generator of Natrix (gen.py) over its back end: it walks the trees  *)
(* of expressions and statements, hands out temporary variables, and puts  *)
(* together the code of the operations.  A program is run statement by     *)
(* statement: the code of each is run by the machine to its end.           *)
(*                                                                         *)
(* Programs are numbered; each has its statements and the contents that    *)
(* its variables may start from, a set of sequences of << address, bytes >>*)
(* to be put into the memory.                                              *)
(***************************************************************************)
EXTENDS NatrixBinary, NatrixFold

CONSTANTS Programs,      \* a sequence of [do, loads]
          Variables      \* the addresses of the variables of the programs

(* Temporary variables of four bytes each, reserved by reserveTempVars. *)
TempBase == 4864
TempSize == 4
TempVar(i, t) == Variable(TempBase + TempSize * i, t)
Temp(i) == TempVar(i, UnknownType)

(* F of every element.  To be joined to another, a sequence is computed    *)
(* element by element, so TLC computes the elements once.                  *)
Each(s, F(_)) == << >> \o [i \in DOMAIN s |-> F(s[i])]

Child(node, i) == 5 * node + i

---------------------------------------------------------------------------
(* generateExpression. *)

GenUnary(op, result, x) ==
  CASE op = "deref" -> GenDeref(result, x, 0)
    [] op = "bnot"  -> GenBNot(result, x)
    [] op = "lnot"  -> GenLNot(result, x)
    [] op = "neg"   -> GenNeg(result, x)

Then(first, second) == Emitted(second.loc, first.code \o second.code)

(* RegisterNotSupportedError: a byte in the register is not shifted by a   *)
(* variable; the generator moves it to memory and comes again.             *)
NotInRegister(op, x, y) == op \in {"shl", "shr"} /\ x.t.size = 1 /\ ~IsConst(y)

(* The first operand is moved out of the register before the second is     *)
(* computed.  KeepsRegister is a mutant: it stays there.                   *)
KeepsRegister(op, first, y, isLeaf) == NotInRegister(op, first, y)
MustMove(op, first, y, isLeaf) == ~isLeaf \/ NotInRegister(op, first, y)

(* The temporary variable of the second operand: not the first's.          *)
(* SharedTemp is a mutant.                                                 *)
SharedTemp(e, tmp) == tmp
SecondTemp(e, tmp) == IF IsLeaf(e.l) THEN tmp ELSE tmp + 1

RECURSIVE GenExpr(_, _, _, _)
GenExpr(e, tmp, result, node) ==
  CASE IsLeaf(e) -> GenMove(result, e.v, TRUE)
    [] e.op \in UnaryOps ->
         LET x == GenExpr(e.e, tmp, Temp(tmp), Child(node, 0))
         IN  Then(x, GenUnary(e.op, result, x.loc))
    [] e.op = "type_cast" ->
         LET x == GenExpr(e.e, tmp, Temp(tmp), Child(node, 0))
         IN  Then(x, GenCast(result, e.t, x.loc))
    [] e.op = "arrow" ->
         LET x == GenExpr(e.e, tmp, Temp(tmp), Child(node, 0))
         IN  Then(x, GenDeref(WithType(result, e.t), x.loc, e.offset))
    [] e.op = "p_arrow" ->
         LET x == GenExpr(e.e, tmp, WithType(result, UnknownType), Child(node, 0))
             t == Ptr(e.t.size)
         IN  Then(x, GenAddPointerOffset(WithType(result, t), WithType(x.loc, t), e.offset))
    [] OTHER ->
         LET first == GenExpr(e.l, tmp, Temp(tmp), Child(node, 0))
             next == SecondTemp(e, tmp)
             y == GenExpr(e.r, next, Temp(next), Child(node, 1))
             x == IF first.loc.reg /\ MustMove(e.op, first.loc, y.loc, IsLeaf(e.r))
                  THEN Then(first, GenMove(Temp(tmp), first.loc, FALSE)) ELSE first
         IN  Then(Then(x, y), GenBinary(e.op, result, x.loc, y.loc, node))

(* maxTempVarIndex of an expression whose temporaries start at tmp. *)
LargerOf(m, n) == IF m > n THEN m ELSE n
RECURSIVE MaxTemp(_, _)
MaxTemp(e, tmp) ==
  CASE IsLeaf(e) -> -1
    [] e.op \in UnaryOps \cup {"type_cast"} ->
         IF IsLeaf(e.e) THEN -1 ELSE LargerOf(tmp, MaxTemp(e.e, tmp))
    [] e.op \in {"arrow", "p_arrow"} -> LargerOf(tmp, MaxTemp(e.e, tmp))
    [] OTHER ->
         LargerOf(IF IsLeaf(e.l) THEN -1 ELSE LargerOf(tmp, MaxTemp(e.l, tmp)),
                  IF IsLeaf(e.r) THEN -1
                  ELSE LargerOf(SecondTemp(e, tmp), MaxTemp(e.r, SecondTemp(e, tmp))))

---------------------------------------------------------------------------
(* Statements. *)

(* generateAssignment: into a variable, or through a pointer. *)
MovedTo(v, x) == x.code \o If(~Same(x.loc, v), GenMove(v, x.loc, FALSE).code)
PutThrough(l, ptr, x) ==
  ptr.code \o x.code
  \o (IF l.op = "arrow"
      THEN GenPutIndirect(WithType(ptr.loc, Ptr(l.t.size)), x.loc, l.offset)
      ELSE GenPutIndirect(ptr.loc, x.loc, 0))
GenAssignment(l, r, node) ==
  IF IsLeaf(l) THEN MovedTo(l.v, GenExpr(r, 0, l.v, node))
  ELSE PutThrough(l, GenExpr(l.e, 0, Temp(0), Child(node, 0)),
                     GenExpr(r, 1, Temp(1), Child(node, 1)))

(* The code of a condition, and a jump to the label where it fails. *)
Tested(x, label) == x.code \o GenInvCondJump(x.loc, label)
GenCondition(cond, label, node) ==
  Tested(GenExpr(cond, 0, TempVar(0, BoolType), node), label)

RECURSIVE GenStatement(_, _, _), GenBody(_, _, _)
GenBody(body, node, loop) ==
  For(1, Len(body), LAMBDA i : GenStatement(body[i], Child(node, i - 1), loop))

(* loop: the labels that break and continue jump to. *)
GenStatement(s, node, loop) ==
  LET end == AllocLabel(node, 0)
      begin == AllocLabel(node, 1)
      again == AllocLabel(node, 2)
      toNext == IF s.op = "for_loop" /\ s.iteration # << >> THEN again ELSE begin
      inner == [break |-> end, continue |-> toNext]
  IN  CASE s.op = "assignment" -> GenAssignment(s.l, s.r, node)
        [] s.op = "block" -> GenBody(s.body, node, loop)
        [] s.op = "conditional" ->
             GenCondition(s.cond, IF s.no = << >> THEN end ELSE again, Child(node, 0))
             \o GenBody(s.yes, Child(node, 1), loop)
             \o If(s.no # << >>, Jump("jmp", end) \o AtLabel(again)
                                 \o GenBody(s.no, Child(node, 2), loop))
             \o AtLabel(end)
        [] s.op = "while_loop" ->
             AtLabel(begin) \o GenCondition(s.cond, end, Child(node, 0))
             \o GenStatement(s.body, Child(node, 1), inner)
             \o Jump("jmp", begin) \o AtLabel(end)
        [] s.op = "for_loop" ->
             GenBody(s.prolog, Child(node, 3), loop)
             \o AtLabel(begin) \o GenCondition(s.cond, end, Child(node, 0))
             \o GenStatement(s.body, Child(node, 1), inner)
             \o If(s.iteration # << >>,
                   AtLabel(again) \o GenBody(s.iteration, Child(node, 2), loop))
             \o Jump("jmp", begin) \o AtLabel(end)
        [] s.op = "break_statement" -> Jump("jmp", loop.break)
        [] s.op = "continue_statement" -> Jump("jmp", loop.continue)

NoLoop == [break |-> 0, continue |-> 0]
Generated(s) == GenStatement(s, 1, NoLoop)

RECURSIVE TempsOf(_), TempsOfAll(_)
TempsOfAll(body) == FoldSeq(LargerOf, -1, [i \in DOMAIN body |-> TempsOf(body[i])])
TempsOf(s) ==
  CASE s.op = "assignment" ->
         IF IsLeaf(s.l) THEN MaxTemp(s.r, 0)
         ELSE LargerOf(1, LargerOf(MaxTemp(s.l.e, 0), MaxTemp(s.r, 1)))
    [] s.op = "block" -> TempsOfAll(s.body)
    [] s.op = "conditional" ->
         LargerOf(0, LargerOf(MaxTemp(s.cond, 0), TempsOfAll(s.yes \o s.no)))
    [] s.op = "while_loop" -> LargerOf(0, LargerOf(MaxTemp(s.cond, 0), TempsOf(s.body)))
    [] s.op = "for_loop" ->
         LargerOf(0, LargerOf(MaxTemp(s.cond, 0),
                              TempsOfAll(s.prolog \o s.iteration \o << s.body >>)))
    [] OTHER -> -1

---------------------------------------------------------------------------
(* The programs, transformed and compiled. *)

Filler(c) == (7 * c + 3) % ByteSize

(* TooFewTemps is a mutant: the largest index for their number. *)
TooFewTemps(do) == TempBase .. TempBase + TempSize * TempsOfAll(do) - 1
TempCells(do) == TempBase .. TempBase + TempSize * (TempsOfAll(do) + 1) - 1

(* The code of a program, statement by statement, and whether the          *)
(* assembler accepts it; and the memory before its variables are set.      *)
Transformed(do) == Each(do, FoldedStatement)
Assembled(code) ==
  [code |-> code, accepted |-> Each(code, LAMBDA c : \A x \in Range(c) : Encodable(x))]
Compiled(do) == Assembled(Each(Transformed(do), Generated))
Memory(do) == [c \in Variables \cup TempCells(do) \cup RuntimeCells |-> Filler(c)]

Objects == Each(Programs, LAMBDA program : Compiled(program.do))
Memories == Each(Programs, LAMBDA program : Memory(Transformed(program.do)))

Loaded(p, load) == FoldSeq(LAMBDA x, mem : Put(mem, x[1], x[2]), Memories[p], load)

VARIABLES p,        \* the program that runs
          at,       \* the number of its next statement
          machine   \* the machine, as the last statement left it
vars == << p, at, machine >>

TypeOK ==
  /\ p \in DOMAIN Programs
  /\ at \in 1 .. Len(Programs[p].do) + 1
  /\ machine.mem \in [DOMAIN Memories[p] -> Bytes]

Init ==
  /\ p \in DOMAIN Programs
  /\ at = 1
  /\ \E load \in Programs[p].loads, carry \in BOOLEAN :
       machine = Machine(Loaded(p, load), carry)

Step ==
  /\ at \in DOMAIN Programs[p].do
  /\ machine' = Run(Objects[p].code[at], 1, machine)
  /\ at' = at + 1
  /\ UNCHANGED p

Next == Step
Spec == Init /\ [][Next]_vars

---------------------------------------------------------------------------
(* The compiled program does what the language says: from the same         *)
(* variables, every statement leaves the variables that its meaning does,  *)
(* whatever temporaries, runtime cells, registers and flags it uses.       *)
Source == INSTANCE Natrix WITH
  rest <- SubSeq(Programs[p].do, at, Len(Programs[p].do)),
  store <- [c \in Variables |-> machine.mem[c]]
Implements == Source!Spec

(* Every instruction that is emitted is one that the assembler accepts:    *)
(* of the two operands of the ALU exactly one is A.                        *)
Assembles == at \in DOMAIN Programs[p].do => Objects[p].accepted[at]

(* Nothing is stored outside the variables, the runtime cells and the      *)
(* temporaries that maxTempVarIndex reserves, of which a temporary that is *)
(* used without being counted would be a case.                             *)
StoresInside == ~machine.wild
=============================================================================
