----------------------------- MODULE MCBackEnd -----------------------------
(***************************************************************************)
(* Programs for the back end of Natrix: every operation on every type it   *)
(* accepts, with operands and results in one place or in several, aligned  *)
(* or across the border of two pages, from values at the borders of their  *)
(* ranges.                                                                 *)
(***************************************************************************)
EXTENDS BackEnd

(* Three places of four bytes that are aligned, and two that cross a page, *)
(* after their first and after their third byte.                           *)
X == 4096    Y == 4100    Z == 4104
EarlyCross == 4607
LateCross == 5117
Array == 4112
MCVariables == (4096 .. 4127) \cup (4604 .. 4612) \cup (5117 .. 5122)

Cross(s, u) ==
  [i \in 1 .. Len(s) * Len(u) |->
     << s[((i - 1) \div Len(u)) + 1], u[((i - 1) % Len(u)) + 1] >>]
Program(do, loads) == [do |-> do, loads |-> loads]

(* Values of a size at the borders. *)
Samples(size) ==
  CASE size = 1 -> { << n >> : n \in {0, 1, 127, 128, 255} }
    [] size = 2 -> { << 0, 0 >>, << 255, 127 >>, << 0, 128 >>, << 255, 255 >>, << 129, 1 >> }
    [] size = 4 -> { << 0, 0, 0, 0 >>, << 255, 255, 255, 127 >>, << 0, 0, 0, 128 >>,
                     << 129, 0, 255, 254 >> }
    [] OTHER -> { [i \in 1 .. size |-> 16 * i] }
Few(size) ==
  CASE size = 1 -> { << 1 >>, << 127 >>, << 254 >> }
    [] size = 2 -> { << 1, 0 >>, << 255, 127 >>, << 129, 255 >> }
    [] size = 4 -> { << 1, 0, 255, 0 >>, << 129, 0, 255, 254 >> }
    [] OTHER -> Samples(size)
NonZero(size) == { u \in Samples(size) : ~IsZero(u) }
OneLoad(x, size) == { << << x, u >> >> : u \in Samples(size) }
Loads(x, us, y, ws) == { << << x, u >>, << y, w >> >> : u \in us, w \in ws }

IntTypes == << U8, S8, U16, S16, U32, S32 >>
Arithmetic == << "add", "sub", "band", "bor", "bxor", "mul" >>
Comparisons == << "eq", "ne", "lt", "le", "gt", "ge" >>

(* Where the result and the operands are.  Only the first operand of a     *)
(* product says how both are copied, so the second is not unaligned alone. *)
Spot(r, x, y) == [r |-> r, x |-> x, y |-> y]
In(x, t) == IF x \in {EarlyCross, LateCross} THEN Unaligned(x, t) ELSE Variable(x, t)
V(x, t) == Leaf(In(x, t))
N(n, t) == Leaf(Number(n, t))
Spots == << Spot(Z, X, Y), Spot(X, X, Y), Spot(Y, X, Y), Spot(EarlyCross, X, Y),
            Spot(EarlyCross, LateCross, EarlyCross) >>
OneSpots == << Spot(Z, X, X), Spot(X, X, X), Spot(LateCross, EarlyCross, EarlyCross) >>

BinaryProgram(op, t, rt, s) ==
  Program(<< Assignment(V(s.r, rt), Binary(op, V(s.x, t), V(s.y, t))) >>,
          Loads(s.x, Samples(t.size), s.y, Samples(t.size)))

VarVar == Each(Cross(Cross(Arithmetic, IntTypes), Spots),
               LAMBDA k : BinaryProgram(k[1][1], k[1][2], k[1][2], k[2]))
Compared == Each(Cross(Cross(Comparisons, IntTypes), Spots),
                 LAMBDA k : BinaryProgram(k[1][1], k[1][2], BoolType, k[2]))
Booleans == Each(Cross(<< "land", "lor" >>, << Spot(Z, X, Y), Spot(Y, X, Y) >>),
                 LAMBDA k : BinaryProgram(k[1], U8, U8, k[2]))

(* Quotients; nothing is divided by zero. *)
Divided == Each(Cross(Cross(<< "div", "mod" >>, << U8, S8, U16, S16 >>), Spots),
  LAMBDA k : LET op == k[1][1]  t == k[1][2]  s == k[2]
             IN  Program(<< Assignment(V(s.r, t), Binary(op, V(s.x, t), V(s.y, t))) >>,
                         Loads(s.x, Samples(t.size), s.y, NonZero(t.size))))

(* A variable and a constant, on either side. *)
Constants(size) ==
  CASE size = 1 -> << 0, 1, 128, 255 >>
    [] size = 2 -> << 0, 1, 256, 32768, 33153 >>
    [] size = 4 -> << 0, 256, 16909060, 2147483647 >>
ConstProgram(op, t, rt, n, s, left) ==
  Program(<< Assignment(V(s.r, rt), IF left THEN Binary(op, N(n, t), V(s.x, t))
                                    ELSE Binary(op, V(s.x, t), N(n, t))) >>,
          OneLoad(s.x, t.size))
WithConst(ops, types, R(_)) ==
  LET perType(t) ==
        Each(Cross(Cross(ops, Constants(t.size)), Cross(OneSpots, << TRUE, FALSE >>)),
             LAMBDA k : ConstProgram(k[1][1], t, R(t), k[1][2], k[2][1], k[2][2]))
  IN  For(1, Len(types), LAMBDA i : perType(types[i]))
VarConst == WithConst(Arithmetic, IntTypes, LAMBDA t : t)
            \o WithConst(Comparisons, IntTypes, LAMBDA t : BoolType)

(* Shifts.  Of the shifts of a word only the operand may be unaligned.     *)
Counts == << 0, 1, 7, 8, 9, 15, 16, 20, 31, 255 >>
ShiftProgram(op, t, s, y, ys) ==
  Program(<< Assignment(V(s.r, t), Binary(op, V(s.x, t), y)) >>,
          IF ys = {} THEN OneLoad(s.x, t.size) ELSE Loads(s.x, Samples(t.size), s.y, ys))
ShiftSpots(t) ==
  << Spot(Z, X, Y), Spot(X, X, Y), Spot(Z, LateCross, Y) >>
  \o If(t.size # 2, << Spot(EarlyCross, LateCross, Y), Spot(LateCross, LateCross, Y),
                       Spot(EarlyCross, X, Y) >>)
ShiftedBy(t) ==
  Each(Cross(Cross(<< "shl", "shr" >>, Counts), ShiftSpots(t)),
       LAMBDA k : ShiftProgram(k[1][1], t, k[2], N(k[1][2], U8), {}))
ShiftedByVar(t) ==
  LET ops == IF t.size = 4 /\ t.sign THEN << "shl" >> ELSE << "shl", "shr" >>
  IN  Each(Cross(ops, ShiftSpots(t)),
           LAMBDA k : ShiftProgram(k[1], t, k[2], V(Y, U8), { << n >> : n \in Range(Counts) }))
      \o If(t.size = 2,
            Each(ops, LAMBDA op : ShiftProgram(op, t, Spot(Z, X, Y), V(Y, U16),
                                               { << 3, 0 >>, << 15, 0 >>, << 0, 1 >> })))
Shifted == For(1, Len(IntTypes), LAMBDA i : ShiftedBy(IntTypes[i]) \o ShiftedByVar(IntTypes[i]))

(* Moves, casts and unary operations.                                      *)
Struct(size) == [size |-> size, sign |-> FALSE, to |-> 0]
UnaryProgram(rt, e, s, size) == Program(<< Assignment(V(s.r, rt), e) >>, OneLoad(s.x, size))
Moved ==
  Each(Cross(IntTypes \o << Struct(3), Struct(6) >>,
             << Spot(Z, X, X), Spot(EarlyCross, X, X), Spot(Array, LateCross, X) >>),
       LAMBDA k : UnaryProgram(k[1], V(k[2].x, k[1]), k[2], k[1].size))
SetTo == For(1, Len(IntTypes), LAMBDA i :
  LET t == IntTypes[i]
  IN  Each(Cross(Constants(t.size), << Z, LateCross >>), LAMBDA k :
           Program(<< Assignment(V(k[2], t), N(k[1], t)) >>, { << >> })))
Casts == Each(Cross(Cross(IntTypes, IntTypes), OneSpots \o << Spot(EarlyCross, X, X) >>),
  LAMBDA k : UnaryProgram(k[1][1], CastTo(k[1][1], V(k[2].x, k[1][2])), k[2], k[1][2].size))
Unaries ==
  Each(Cross(IntTypes, << Spot(Z, X, X), Spot(X, X, X), Spot(Z, LateCross, X) >>), LAMBDA k :
    UnaryProgram(k[1], Unary("bnot", V(k[2].x, k[1])), k[2], k[1].size))
  \o Each(Cross(<< S8, S16 >>, << Spot(Z, X, X), Spot(X, X, X), Spot(Z, LateCross, X) >>),
          LAMBDA k : UnaryProgram(k[1], Unary("neg", V(k[2].x, k[1])), k[2], k[1].size))
  \o Each(OneSpots, LAMBDA s : UnaryProgram(U8, Unary("lnot", V(s.x, U8)), s, 1))

(* Pointers plus and minus an index, in place and into another place.  An  *)
(* unaligned pointer is not added to in place.                             *)
IndexTypes(m) == << U8, U16, S16 >> \o If(m > 2, << S8 >>)
IndexProgram(op, m, t, s) ==
  Program(<< Assignment(V(s.r, Ptr(m)), Binary(op, V(s.x, Ptr(m)), V(s.y, t))) >>,
          Loads(s.x, Few(2), s.y, Samples(t.size)))
IndexSpots(op, m) ==
  << Spot(Z, X, Y), Spot(X, X, Y), Spot(Z, LateCross, Y) >>
  \o If(m <= 2, << Spot(EarlyCross, X, LateCross) >>)
  \o If(op = "sub", << Spot(EarlyCross, EarlyCross, Y) >>)
Members == << 1, 2, 4, 8, 16, 128 >>
Pointers == For(1, Len(Members), LAMBDA i :
  LET m == Members[i]
      moved(op) == Each(Cross(IndexTypes(m), IndexSpots(op, m)),
                        LAMBDA k : IndexProgram(op, m, k[1], k[2]))
      constant(op, t) ==
        Each(Cross(<< 0, 1, 100, 127 >>, OneSpots), LAMBDA k :
             UnaryProgram(Ptr(m), Binary(op, V(k[2].x, Ptr(m)), N(k[1], t)), k[2], 2))
      array(t) == UnaryProgram(Ptr(m), Binary("add", Leaf(LabelConst(Array, Ptr(m))), V(X, t)),
                               Spot(Z, X, X), t.size)
  IN  moved("add") \o moved("sub") \o constant("add", U8) \o constant("sub", U16)
      \o Each(IndexTypes(m), array))

(* Reads and writes behind pointers, whose targets cross pages too, and    *)
(* the members of a structure at offsets with and without carries.         *)
Targets == << Array, Array + 1, EarlyCross, LateCross >>
AtTarget(x, target, offset, size) ==
  { << << x, OfInt(target - offset, 2) >>, << target, u >> >> : u \in Few(size) }
Offsets == << 0, 1, 255, 256, 511 >>
BehindTypes == << U8, U16, U32, Struct(3) >>
Behind == For(1, Len(BehindTypes), LAMBDA i :
  LET t == BehindTypes[i]
      ptr(x) == V(x, Ptr(t.size))
      read(s, target) == Program(<< Assignment(V(s.r, t), Unary("deref", ptr(s.x))) >>,
                                 AtTarget(s.x, target, 0, t.size))
      member(s, offset, target) ==
        Program(<< Assignment(V(s.r, t), Member("arrow", ptr(s.x), offset, t)) >>,
                AtTarget(s.x, target, offset, t.size))
      write(s, target) == Program(<< Assignment(Unary("deref", ptr(s.x)), V(s.y, t)) >>,
                                  Loads(s.x, {OfInt(target, 2)}, s.y, Few(t.size)))
      toMember(s, offset, target) ==
        Program(<< Assignment(Member("arrow", ptr(s.x), offset, t), V(s.y, t)) >>,
                Loads(s.x, {OfInt(target - offset, 2)}, s.y, Few(t.size)))
      address(s, offset) ==
        UnaryProgram(Ptr(t.size), Member("p_arrow", ptr(s.x), offset, t), s, 2)
      spots == << Spot(Z, X, Y), Spot(X, X, Y), Spot(Z, LateCross, EarlyCross) >>
      to(s) == SelectSeq(Targets, LAMBDA x : x \notin {s.x, s.y})
  IN  For(1, Len(spots), LAMBDA j :
        LET s == spots[j]
        IN  Each(to(s), LAMBDA x : read(s, x)) \o Each(to(s), LAMBDA x : write(s, x))
            \o Each(Cross(Offsets, to(s)), LAMBDA k : member(s, k[1], k[2]))
            \o Each(Cross(Offsets, to(s)), LAMBDA k : toMember(s, k[1], k[2]))
            \o Each(Offsets, LAMBDA n : address(s, n)))
      \o << Program(<< Assignment(Unary("deref", Leaf(LabelConst(Array, Ptr(t.size)))),
                                  V(Y, t)) >>, OneLoad(Y, t.size)),
            Program(<< Assignment(V(Y, t), Unary("deref", Leaf(LabelConst(Array, Ptr(t.size))))) >>,
                    OneLoad(Array, t.size)) >>)

(* Expressions that need temporary variables, and bytes that leave the     *)
(* register for them.                                                      *)
Nested == For(1, Len(IntTypes), LAMBDA i :
  LET t == IntTypes[i]
      x == V(X, t)   y == V(Y, t)   z == V(Z, t)
      sum == Binary("add", x, y)
      rest == Binary("sub", x, y)
      loads == Loads(X, Few(t.size), Y, Few(t.size))
      set(e) == Program(<< Assignment(z, e) >>, loads)
      ask(e) == Program(<< Assignment(V(Z, BoolType), e) >>, loads)
  IN  Each(Arithmetic, LAMBDA op : set(Binary(op, sum, rest)))
      \o Each(Arithmetic, LAMBDA op : set(Binary(op, x, Binary("bxor", sum, Unary("bnot", rest)))))
      \o Each(Arithmetic, LAMBDA op :
             set(Binary(op, Binary("mul", sum, Binary("bor", rest, y)), Binary("band", rest, x))))
      \o Each(Comparisons, LAMBDA op : ask(Binary(op, sum, rest)))
      \o Each(Comparisons, LAMBDA op :
             ask(Binary("land", Binary(op, x, rest), Unary("lnot", Binary("eq", sum, y)))))
      \o Each(<< U16, S16, U32, S32 >>, LAMBDA w :
             Program(<< Assignment(V(Z, w), Binary("add", CastTo(w, sum), CastTo(w, y))) >>, loads))
      \o << Program(<< Assignment(Unary("deref", Binary("add", V(4108, Ptr(t.size)), V(Array, U8))),
                                  Binary("add", rest, y)) >>,
                    { << << X, u >>, << Y, w >>, << 4108, OfInt(EarlyCross, 2) >>,
                         << Array, << 0 >> >> >> : u, w \in Few(t.size) }),
            Program(<< Assignment(z, Binary("bxor", Unary("deref",
                                    Binary("sub", V(4108, Ptr(t.size)), V(Array, U8))), rest)) >>,
                    { << << X, u >>, << Y, w >>, << 4108, OfInt(EarlyCross + 2 * t.size, 2) >>,
                         << Array, << 2 >> >> >> : u, w \in Few(t.size) }) >>)
Registered == Each(Cross(<< "shl", "shr" >>, << U8, S8 >>), LAMBDA k :
  Program(<< Assignment(V(Z, k[2]), Binary(k[1], Binary("add", V(X, k[2]), V(Y, k[2])),
                                           V(Array, U8))) >>,
          { << << X, u >>, << Y, w >>, << Array, n >> >> :
            u, w \in Few(1), n \in { << 0 >>, << 3 >>, << 7 >>, << 9 >> } }))

(* Statements: conditions and the four ways out of a loop's body. *)
Plus(x, y) == Binary("add", x, y)
Set(x, e) == Assignment(x, e)
Flow ==
  LET x == V(X, U8)   y == V(Y, U8)   z == V(Z, U8)   w == V(Array, U16)
      less == Binary("lt", x, y)
      next == Set(x, Plus(x, N(1, U8)))
      count == Set(w, Plus(w, CastTo(U16, x)))
      if(e, s) == Conditional(e, << s >>, << >>)
      is(n) == Binary("eq", x, N(n, U8))
      do ==
        << << Conditional(less, << Set(z, x) >>, << Set(z, y) >>), Set(x, z) >>,
           << Conditional(Binary("land", x, y), << Set(z, N(7, U8)) >>,
                          << if(Unary("lnot", x), Set(z, y)), Set(y, N(9, U8)) >>) >>,
           << Conditional(N(1, U8), << Set(z, x) >>, << Set(z, y) >>),
              Conditional(N(0, U8), << Set(y, x) >>, << Set(x, y) >>) >>,
           << While(less, Block(<< next, count >>)), Set(z, x) >>,
           << While(N(1, U8), Block(<< if(Binary("ge", x, y), Break), next >>)) >>,
           << ForLoop(<< Set(w, N(0, U16)) >>, less, << next >>,
                      Block(<< if(is(2), Continue), if(is(4), Break), count >>)) >>,
           << ForLoop(<< >>, less, << >>,
                      Block(<< next, if(is(3), Continue), count >>)),
              While(Binary("ne", y, N(0, U8)),
                    Block(<< Set(y, Binary("sub", y, N(1, U8))), Set(x, N(0, U8)),
                             While(less, Block(<< next, if(is(3), Break), count >>)) >>)) >>,
           << ForLoop(<< Set(x, N(0, U8)) >>, less, << next >>,
                      ForLoop(<< Set(z, N(0, U8)) >>, Binary("lt", z, x),
                              << Set(z, Plus(z, N(1, U8))) >>,
                              Block(<< if(Binary("eq", z, N(2, U8)), Break), count >>))) >> >>
  IN  Each(do, LAMBDA body : Program(body, Loads(X, { << n >> : n \in {0, 1, 3} },
                                                 Y, { << n >> : n \in {0, 3, 5} })))

(* Expressions that the compiler folds.  The divisor is positive, the      *)
(* count of a shift small, and a truth on the right is 0 or 1.             *)
ConstantPairs(ops, R(_)) == For(1, 4, LAMBDA i :
  LET t == IntTypes[i]
      n == Constants(t.size)
  IN  Each(Cross(ops, Cross(n, n)), LAMBDA k :
           Program(<< Assignment(V(Z, R(t)), Binary(k[1], N(k[2][1], t), N(k[2][2], t))) >>,
                   { << >> })))
Folding ==
  ConstantPairs(Arithmetic, LAMBDA t : t) \o ConstantPairs(Comparisons, LAMBDA t : BoolType)
  \o For(1, 4, LAMBDA i :
       LET t == IntTypes[i]
           set(rt, e) == Program(<< Assignment(V(Z, rt), e) >>, { << >> })
       IN  For(1, Len(Constants(t.size)), LAMBDA j :
             LET n == N(Constants(t.size)[j], t)
             IN  Each(Cross(<< "shl", "shr" >>, << 0, 1, 7, 8, 15 >>), LAMBDA k :
                      set(t, Binary(k[1], n, N(k[2], U8))))
                 \o Each(<< 1, 2, 7, 100 >>, LAMBDA d : set(t, Binary("div", n, N(d, t))))
                 \o Each(IntTypes, LAMBDA w : set(w, CastTo(w, n)))
                 \o Each(<< "neg", "bnot" >>, LAMBDA op : set(t, Unary(op, n)))
                 \o << set(U8, Unary("lnot", n)) >>))
  \o Each(Cross(<< "land", "lor" >>, << 0, 1, 128 >>), LAMBDA k :
       Program(<< Assignment(V(Z, U8), Binary(k[1], N(k[2], U8), V(X, U8))) >>,
               { << << X, << n >> >> >> : n \in {0, 1} }))
  \o Each(Cross(IntTypes, << Z, LateCross >>), LAMBDA k :
       LET t == k[1]
           sum == Binary("mul", N(3, t), Binary("sub", N(5, t), N(1, t)))
       IN  Program(<< Compound("add", V(k[2], t), sum),
                      Compound("bxor", V(k[2], t), Unary("neg", sum)) >>,
                   OneLoad(k[2], t.size)))

(* Members of structures and elements of arrays, of addresses that are     *)
(* known and of addresses that are not.  The size of an element is a power *)
(* of two, for the compiler refuses others, and a known one does not cross *)
(* a page.  The compiler stops at &(p->x) where p is a constant.           *)
Places == For(1, Len(BehindTypes), LAMBDA i :
  LET t == BehindTypes[i]
      s == Struct(8)
      of(x, n) == Member("member", Leaf(Unaligned(x, s)), n, t)
      pointer == V(Z, Ptr(t.size))
      toStruct == V(4108, Ptr(8))
      address(x, size) == Leaf(LabelConst(x, Ptr(size)))
      set(l, e, x) == Program(<< Assignment(l, e) >>, OneLoad(x, t.size))
      element(n) == Binary("subscript", address(Array, t.size), N(n, S16))
      indexed(x) == Binary("subscript", address(Array, t.size), V(x, U8))
  IN  For(1, 3, LAMBDA j :
        LET x == EarlyCross - 3
            n == << 0, 1, 3 >>[j]
        IN  << set(of(x, n), V(Y, t), Y), set(V(Y, t), of(x, n), x + n),
               set(V(Y, t), Member("arrow", address(x, 8), n, t), x + n),
               set(pointer, AddrOf(of(x, n)), X),
               set(Unary("deref", AddrOf(V(Array, t))), V(Y, t), Y) >>
            \o Each(<< of(x, n), Member("arrow", toStruct, n, t) >>, LAMBDA e :
                 Program(<< Assignment(toStruct, AddrOf(Leaf(Unaligned(x, s)))),
                            Assignment(pointer, AddrOf(e)),
                            Assignment(Unary("deref", pointer), V(Y, t)),
                            Assignment(V(X, t), e) >>, OneLoad(Y, t.size))))
      \o If(t # Struct(3),
            Each(<< 0, 2 >>, LAMBDA n : set(element(n), V(Y, t), Y))
            \o << Program(<< Assignment(indexed(X), V(Y, t)), Assignment(V(Z, t), indexed(X)) >>,
                          { << << X, << n >> >>, << Y, u >> >> :
                            n \in 0 .. 2, u \in Few(t.size) }),
                  Program(<< Assignment(Member("member",
                               Binary("subscript", address(Array, 8), V(X, U8)), 3, t),
                               V(Y, t)) >>,
                          { << << X, << n >> >>, << Y, u >> >> :
                            n \in 0 .. 1, u \in Few(t.size) }) >>))

MCPrograms == Folding \o Places \o VarVar \o Compared \o Booleans \o Divided \o VarConst
              \o Shifted \o Moved \o SetTo \o Casts \o Unaries \o Pointers \o Behind
              \o Nested \o Registered \o Flow
=============================================================================
