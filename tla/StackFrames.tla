---------------------------- MODULE StackFrames ----------------------------
(***************************************************************************)
(* Calls as the compiler makes them with a stack board (HW_STACK).  The    *)
(* board maps two of its pages into memory: the one that SP0 counts, the   *)
(* window where a function finds its return address, its arguments, its    *)
(* answer and its locals; and the one that SP1 counts, where it puts the   *)
(* arguments of the function that it calls and finds that one's answer.    *)
(* A write to the board's control register counts either pointer up or     *)
(* down: a bit that is 0 asks for it (stack_control.v).  The prologue of   *)
(* every function and its return make one such write (ccpu/code.py).       *)
(***************************************************************************)
EXTENDS Routines, FiniteSetsExt

CONSTANTS
  Arity,    \* the number of each function's arguments
  Pages     \* bound: the pages of the board, 256 in the machine

(* The bits of the control register, and what the compiler writes there in *)
(* a prologue and in a return: STACK_INCDEC_INC0 | STACK_INCDEC_INC1 and   *)
(* STACK_INCDEC_DEC0 | STACK_INCDEC_DEC1, the other bits 0.                *)
Bits == {"inc0", "inc1", "dec0", "dec1"}
PrologueWrites == {"inc0", "inc1"}
ReturnWrites == {"dec0", "dec1"}

(* The windows have one layout: the return address, the arguments, the     *)
(* answer, and within only the locals.                                     *)
RetCell(f) == Arity[f] + 1
Cell(f, x) == IF x <= Arity[f] THEN x ELSE x + 1
Cells == 1 .. 1 + Max(UNION { Vars[f] : f \in Functions })

---------------------------------------------------------------------------

VARIABLES
  pages,    \* the board's memory: of each page [ra, c]
  sp0, sp1,
  fn,       \* the function that runs, or NoSite before and after
  call,     \* the call site it works on
  phase,    \* "args" before the callee runs, "back" after it; or "run"
  next,     \* the argument to be assigned next
  depth     \* history: the functions that have been entered and not left
vars == << pages, sp0, sp1, fn, call, phase, next, depth >>

(* up_0, up_1, down_0, down_1 of the board, for the bits that are written  *)
(* as 1.  The counters wrap.                                               *)
Counted(n, up, down) ==
  (n + (IF up THEN 1 ELSE 0) + (IF down THEN Pages - 1 ELSE 0)) % Pages
IncDec(ones) ==
  /\ sp0' = Counted(sp0, "inc0" \notin ones, "dec0" \notin ones)
  /\ sp1' = Counted(sp1, "inc1" \notin ones, "dec1" \notin ones)

Inner(f) == [x \in Vars[f] |-> pages[sp0].c[Cell(f, x)]]

(* The start-up code sets SP1 to 1 and SP0 to 0 and calls main. *)
Boot == [from |-> NoSite, to |-> Main, args |-> << >>, dest |-> NoVar]
Init ==
  /\ \E value \in Values :
       pages = [p \in 0 .. Pages - 1 |-> [ra |-> NoSite, c |-> [o \in Cells |-> value]]]
  /\ sp0 = 0 /\ sp1 = 1 % Pages
  /\ fn = NoSite /\ call = Boot /\ phase = "args" /\ next = 1
  /\ depth = 0

Set ==
  /\ phase = "run" /\ fn # NoSite
  /\ \E x \in Vars[fn], value \in Values :
       pages' = [pages EXCEPT ![sp0].c[Cell(fn, x)] = value]
  /\ UNCHANGED << sp0, sp1, fn, call, phase, next, depth >>

Begin(s) ==
  /\ phase = "run" /\ fn = s.from
  /\ depth < MaxDepth
  /\ call' = s /\ phase' = "args" /\ next' = 1
  /\ UNCHANGED << pages, sp0, sp1, fn, depth >>

AssignArg ==
  /\ phase = "args" /\ next <= Len(call.args)
  /\ pages' = [pages EXCEPT ![sp1].c[Cell(call.to, next)] =
                               Eval(call.args[next], Inner(fn))]
  /\ next' = next + 1
  /\ UNCHANGED << sp0, sp1, fn, call, phase, depth >>

(* genCall and genFunctionPrologue: the return address goes into the       *)
(* caller's window.                                                        *)
Enter ==
  /\ phase = "args" /\ next > Len(call.args)
  /\ pages' = [pages EXCEPT ![sp0].ra = call]
  /\ IncDec(PrologueWrites)
  /\ fn' = call.to /\ call' = NoSite /\ phase' = "run" /\ next' = 1
  /\ depth' = depth + 1

(* return_statement and genReturn: the answer into the function's own      *)
(* window, and the return address out of the caller's.                     *)
Return ==
  /\ phase = "run" /\ fn # NoSite
  /\ pages' = [pages EXCEPT ![sp0].c[RetCell(fn)] = Eval(Answer[fn], Inner(fn))]
  /\ IncDec(ReturnWrites)
  /\ LET to == pages'[sp0'].ra
     IN  fn' = to.from /\ call' = to /\ phase' = "back"
  /\ depth' = depth - 1
  /\ UNCHANGED next

(* generateFunctionAssignment: the answer out of the callee's window. *)
Back ==
  /\ phase = "back" /\ fn # NoSite
  /\ LET v == Answered(Inner(fn), call, pages[sp1].c[RetCell(call.to)])
     IN  pages' = [pages EXCEPT ![sp0].c =
                    [o \in Cells |-> IF \E x \in Vars[fn] : Cell(fn, x) = o
                                     THEN v[CHOOSE x \in Vars[fn] : Cell(fn, x) = o]
                                     ELSE @[o]]]
  /\ call' = NoSite /\ phase' = "run"
  /\ UNCHANGED << sp0, sp1, fn, next, depth >>

Next == Set \/ (\E s \in Sites : Begin(s)) \/ AssignArg \/ Enter \/ Return \/ Back
Spec == Init /\ [][Next]_vars

---------------------------------------------------------------------------

(* The start-up code's comment: "set SP1 to 1, SP0 to 0", "stack grows     *)
(* upwards".  A function then works in the page that its caller had put    *)
(* the arguments into, and in which nobody who waits has anything.         *)
StackGrowsUpwards == sp0 = depth % Pages /\ sp1 = (depth + 1) % Pages
=============================================================================
