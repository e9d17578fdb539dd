------------------------------- MODULE Calls -------------------------------
(***************************************************************************)
(* Calls as the compiler makes them without a stack board (NO_STACK): every*)
(* function has one frame at a fixed address, with its return address, its *)
(* arguments and its locals, and beside it a cell for its answer.  A caller*)
(* that may be entered again before the callee returns first pushes its    *)
(* frame onto the run-time stack and pops it afterwards; the call graph    *)
(* tells which calls those are (callgraph.py, gen.py, ccpu/code.py,        *)
(* ccpu/stack.py).                                                         *)
(*                                                                         *)
(* callers is a history variable: the sites of the outstanding calls, each *)
(* with the height of the run-time stack.  No action depends on it but for *)
(* the bound on the depth.                                                 *)
(***************************************************************************)
EXTENDS Routines

CONSTANTS
  ModuleOf,   \* the source file of each function: each is compiled alone
  Traitors,   \* of each file: the functions it declares `traitor`
  Letters     \* the functions whose name is a letter of the function's name

(* In a module's call graph, a set of functions that leads nowhere else.   *)
(* visited starts as the set of the letters of the caller's name: those    *)
(* are not followed.                                                       *)
Known(caller) == { s \in Sites : ModuleOf[s.from] = ModuleOf[caller] }
Closed(S, caller) ==
  \A s \in Known(caller) : s.from \in S \ Letters[caller] => s.to \in S

(* Whether the search of the graph from the callee meets the caller, or a  *)
(* traitor.  DirectOnly and TraitorsTrusted are mutants.                   *)
DirectOnly(caller, callee) == caller = callee
TraitorsTrusted(caller, callee) ==
  \A S \in SUBSET Functions : callee \in S /\ Closed(S, caller) => caller \in S
IsRecursive(caller, callee) ==
  \A S \in SUBSET Functions :
    callee \in S /\ Closed(S, caller)
    => caller \in S \/ S \cap Traitors[ModuleOf[caller]] # {}
PushingSites == { s \in Sites : IsRecursive(s.from, s.to) }
Pushes(s) == s \in PushingSites

---------------------------------------------------------------------------

NoFunction == "none"
ASSUME NoFunctionAssumption == NoFunction \notin Functions

VARIABLES
  mem,      \* the frames of the functions: [ra, v]
  ret,      \* their answers
  saved,    \* the run-time stack, a sequence of frames
  fn,       \* the function that runs, or NoFunction once Main has returned
  call,     \* the call site it works on, or NoSite
  phase,    \* of that call: "args" before, "back" after the callee has run
  next,     \* the argument to be assigned next
  callers
vars == << mem, ret, saved, fn, call, phase, next, callers >>

Frame(f) == [ra : Sites \cup {NoSite}, v : Contents(f)]
Caller(s, sp) == [site |-> s, sp |-> sp]

Init ==
  /\ \E v \in [Functions -> UNION { Contents(f) : f \in Functions }] :
       /\ \A f \in Functions : v[f] \in Contents(f)
       /\ mem = [f \in Functions |-> [ra |-> NoSite, v |-> v[f]]]
  /\ ret \in [Functions -> Values]
  /\ saved = << >> /\ callers = << >>
  /\ fn = Main
  /\ call = NoSite /\ phase = "run" /\ next = 1

(* The function's own work. *)
Set ==
  /\ phase = "run" /\ fn # NoFunction
  /\ \E x \in Vars[fn], value \in Values : mem' = [mem EXCEPT ![fn].v[x] = value]
  /\ UNCHANGED << ret, saved, fn, call, phase, next, callers >>

(* generateFunctionCall: the frame is pushed before the arguments are put, *)
(* one after the other, straight into the callee's frame, which may be the *)
(* same one.  CalleePushed is a mutant.                                    *)
CalleePushed(s) == mem[s.to]
FrameToPush(s) == mem[s.from]
Begin(s) ==
  /\ phase = "run" /\ fn = s.from
  /\ Len(callers) < MaxDepth
  /\ call' = s /\ phase' = "args" /\ next' = 1
  /\ saved' = IF Pushes(s) THEN Append(saved, FrameToPush(s)) ELSE saved
  /\ UNCHANGED << mem, ret, fn, callers >>

AssignArg ==
  /\ phase = "args" /\ next <= Len(call.args)
  /\ mem' = [mem EXCEPT ![call.to].v[next] = Eval(call.args[next], mem[fn].v)]
  /\ next' = next + 1
  /\ UNCHANGED << ret, saved, fn, call, phase, callers >>

(* genCall and the callee's prologue, which stores the return address.     *)
Enter ==
  /\ phase = "args" /\ next > Len(call.args)
  /\ mem' = [mem EXCEPT ![call.to].ra = call]
  /\ callers' = Append(callers, Caller(call, Len(saved)))
  /\ fn' = call.to
  /\ call' = NoSite /\ phase' = "run" /\ next' = 1
  /\ UNCHANGED << ret, saved >>

(* return_statement and genReturn: to where the frame says. *)
Return ==
  /\ phase = "run" /\ fn # NoFunction
  /\ ret' = [ret EXCEPT ![fn] = Eval(Answer[fn], mem[fn].v)]
  /\ IF mem[fn].ra = NoSite
     THEN fn' = NoFunction /\ UNCHANGED << call, phase, callers >>
     ELSE /\ fn' = mem[fn].ra.from
          /\ call' = mem[fn].ra /\ phase' = "back"
          /\ callers' = SubSeq(callers, 1, Len(callers) - 1)
  /\ UNCHANGED << mem, saved, next >>

(* genPopLocals and generateFunctionAssignment.  AnswerBeforePop is a      *)
(* mutant: what the answer was put into is popped over.                    *)
Popped(f) == IF Pushes(call) THEN saved[Len(saved)] ELSE mem[f]
AnswerBeforePop(f) ==
  IF Pushes(call) THEN Popped(f)
  ELSE [mem[f] EXCEPT !.v = Answered(@, call, ret[call.to])]
Resumed(f) == [Popped(f) EXCEPT !.v = Answered(@, call, ret[call.to])]
Back ==
  /\ phase = "back"
  /\ mem' = [mem EXCEPT ![fn] = Resumed(fn)]
  /\ saved' = IF Pushes(call) THEN SubSeq(saved, 1, Len(saved) - 1) ELSE saved
  /\ call' = NoSite /\ phase' = "run"
  /\ UNCHANGED << ret, fn, next, callers >>

Next == Set \/ (\E s \in Sites : Begin(s)) \/ AssignArg \/ Enter \/ Return \/ Back
Spec == Init /\ [][Next]_vars

---------------------------------------------------------------------------
(* Assumptions under which the convention is right: no function has the    *)
(* name of a letter of another's; a function that is called in another     *)
(* module and leads back to the caller is declared traitor; and in a call  *)
(* of a function by itself no expression reads an argument that has        *)
(* already been assigned.                                                  *)
Leads(S) == \A s \in Sites : s.from \in S => s.to \in S
Reaches(f, g) == \A S \in SUBSET Functions : f \in S /\ Leads(S) => g \in S

ASSUME LettersAssumption == \A f \in Functions : Letters[f] \subseteq {f}
ASSUME TraitorsAssumption ==
  \A s \in Sites : ModuleOf[s.to] # ModuleOf[s.from] /\ Reaches(s.to, s.from)
                   => s.to \in Traitors[ModuleOf[s.from]]
ASSUME ArgsAssumption ==
  \A s \in Sites : s.from = s.to =>
    \A n \in 1 .. Len(s.args), v, w \in Contents(s.from) :
      (\A x \in Vars[s.from] \ (1 .. n - 1) : v[x] = w[x])
      => Eval(s.args[n], v) = Eval(s.args[n], w)

---------------------------------------------------------------------------

TypeOK ==
  /\ mem \in [Functions -> UNION { Frame(f) : f \in Functions }]
  /\ \A f \in Functions : mem[f] \in Frame(f)
  /\ ret \in [Functions -> Values]
  /\ saved \in Seq(UNION { Frame(f) : f \in Functions })
  /\ fn \in Functions \cup {NoFunction}
  /\ call \in Sites \cup {NoSite}
  /\ phase \in {"run", "args", "back"} /\ (phase = "run" <=> call = NoSite)
  /\ phase # "run" => fn # NoFunction
  /\ next \in Nat
  /\ callers \in Seq([site : Sites, sp : Nat])

(* The function of the activation k, counted from the first.               *)
Running == Len(callers) + 1
FnOf(k) == IF k = Running THEN fn ELSE callers[k].site.from

(* Where the variables of the activation k are now. *)
FrameOf(k) ==
  IF k < Running
  THEN IF Pushes(callers[k].site) THEN saved[callers[k].sp] ELSE mem[FnOf(k)]
  ELSE CASE phase = "run" -> mem[fn]
         [] phase = "args" -> IF Pushes(call) THEN saved[Len(saved)] ELSE mem[fn]
         [] phase = "back" -> Resumed(fn)

(* The activations that share a static frame: all but one of them have     *)
(* their own copy on the run-time stack.                                   *)
FramesApart ==
  fn # NoFunction =>
    \A i \in DOMAIN callers :
      (\E j \in i + 1 .. Running : FnOf(j) = FnOf(i)) => Pushes(callers[i].site)

(* Every activation will return to the site that it was called from,       *)
(* however often its function was called since.                            *)
ReturnsToCaller ==
  fn # NoFunction =>
    \A k \in 1 .. Running :
      FrameOf(k).ra = IF k = 1 THEN NoSite ELSE callers[k - 1].site

(* The activations, as the promise knows them. *)
Acts ==
  IF fn = NoFunction THEN << >>
  ELSE [k \in 1 .. Running |->
         [fn |-> FnOf(k), v |-> FrameOf(k).v,
          at |-> IF k = Running THEN NoSite ELSE callers[k].site]]

(* The convention keeps the promise of Activations, for every program.     *)
Promise == INSTANCE Activations WITH acts <- Acts
Implements == Promise!Spec
=============================================================================
