---------------------------- MODULE CallsProofs ----------------------------
(***************************************************************************)
(* Proofs about module Calls, for every program: that the search of the    *)
(* call graph finds every call that can come back to its caller, that no   *)
(* two outstanding activations then share a frame, that each returns where *)
(* it was called from, and that the convention implements Activations.     *)
(***************************************************************************)
EXTENDS Calls, TLAPS

---------------------------------------------------------------------------
(* The call graph. *)

LEMMA ReachesSelf == ASSUME NEW f \in Functions PROVE Reaches(f, f)
BY DEF Reaches

LEMMA ReachesStep ==
  ASSUME NEW f, NEW s \in Sites, Reaches(f, s.from)
  PROVE  Reaches(f, s.to)
BY DEF Reaches, Leads

LEMMA ReachesOn ==
  ASSUME NEW f, NEW g, NEW h, Reaches(f, g), Reaches(g, h)
  PROVE  Reaches(f, h)
BY DEF Reaches

(* The functions that the search from s.to meets while it has met neither  *)
(* the caller nor a traitor.                                               *)
Met(s) == { f \in Functions :
              \A S \in SUBSET Functions : s.to \in S /\ Closed(S, s.from) => f \in S }

LEMMA MetClosed ==
  ASSUME NEW s \in Sites
  PROVE  Met(s) \in SUBSET Functions /\ s.to \in Met(s) /\ Closed(Met(s), s.from)
BY RoutinesAssumption DEF Met, Closed, Known

(* Each was met over an edge of the caller's own file. *)
LEMMA MetOver ==
  ASSUME NEW s \in Sites, NEW f \in Met(s), f # s.to
  PROVE  \E t \in Known(s.from) : t.from \in Met(s) /\ t.to = f
<1> SUFFICES ASSUME \A t \in Known(s.from) : t.from \in Met(s) => t.to # f
             PROVE  FALSE
  OBVIOUS
<1> DEFINE S == Met(s) \ {f}
<1>1. S \in SUBSET Functions /\ s.to \in S
  BY MetClosed
<1>2. Closed(S, s.from)
  BY MetClosed DEF Closed
<1> QED
  BY <1>1, <1>2 DEF Met

LEMMA MetReached ==
  ASSUME NEW s \in Sites, NEW f \in Met(s)
  PROVE  Reaches(s.to, f)
BY DEF Met, Reaches, Leads, Closed, Known

(* isRecursive finds every callee from which the caller is reached, in its *)
(* own file or through others.                                             *)
LEMMA RecursionFound ==
  ASSUME NEW s \in Sites, Reaches(s.to, s.from)
  PROVE  Pushes(s)
<1> DEFINE c == s.from
           R == Met(s)
           Foreign == { f \in R : ModuleOf[f] # ModuleOf[c] }
           Beyond == UNION { { g \in Functions : Reaches(f, g) } : f \in Foreign }
           U == R \cup Beyond
<1>1. c \in Functions /\ s.to \in Functions
  BY RoutinesAssumption
<1> SUFFICES ASSUME c \notin R, R \cap Traitors[ModuleOf[c]] = {} PROVE FALSE
  <2> SUFFICES ASSUME NEW S \in SUBSET Functions, s.to \in S, Closed(S, c)
               PROVE  c \in S \/ S \cap Traitors[ModuleOf[c]] # {}
    BY DEF Pushes, PushingSites, IsRecursive
  <2>1. R \subseteq S
    BY DEF Met
  <2> QED
    BY <2>1
<1>2. ASSUME NEW f \in Foreign, Reaches(f, c) PROVE FALSE
  <2>1. CASE f = s.to
    BY <2>1, TraitorsAssumption
  <2>2. CASE f # s.to
    <3>1. PICK t \in Known(c) : t.from \in R /\ t.to = f
      BY <2>2, MetOver
    <3>2. t \in Sites /\ ModuleOf[t.from] = ModuleOf[c]
      BY DEF Known
    <3>3. Reaches(f, t.from)
      <4>1. Reaches(f, s.to)
        BY <1>2, ReachesStep
      <4>2. Reaches(s.to, t.from)
        BY <3>1, MetReached
      <4> QED
        BY <4>1, <4>2, ReachesOn
    <3> QED
      BY <3>1, <3>2, <3>3, TraitorsAssumption
  <2> QED
    BY <2>1, <2>2
<1>3. c \notin U
  BY <1>2
<1>4. Leads(U)
  <2> SUFFICES ASSUME NEW t \in Sites, t.from \in U PROVE t.to \in U
    BY DEF Leads
  <2>0. t.to \in Functions /\ t.from \in Functions
    BY RoutinesAssumption
  <2>1. CASE t.from \in R /\ ModuleOf[t.from] = ModuleOf[c]
    <3>1. t.from \notin Letters[c]
      BY <1>1, <2>1, LettersAssumption
    <3> QED
      BY <2>1, <3>1, MetClosed DEF Closed, Known
  <2>2. CASE t.from \in Foreign
    <3>1. Reaches(t.from, t.to)
      BY <2>0, ReachesSelf, ReachesStep
    <3> QED
      BY <2>0, <2>2, <3>1
  <2>3. CASE t.from \in Beyond
    <3>1. PICK f \in Foreign : Reaches(f, t.from)
      BY <2>3
    <3>2. Reaches(f, t.to)
      BY <3>1, ReachesStep
    <3> QED
      BY <2>0, <3>2
  <2> QED
    BY <2>1, <2>2, <2>3
<1>5. s.to \in U /\ U \in SUBSET Functions
  BY MetClosed
<1> QED
  BY <1>3, <1>4, <1>5 DEF Reaches

---------------------------------------------------------------------------
(* The inductive invariant. *)

AllFrames == UNION { Frame(f) : f \in Functions }
Pending == IF call # NoSite /\ Pushes(call) THEN 1 ELSE 0
Below(k) == IF k = 1 THEN 0 ELSE callers[k - 1].sp

(* Each outstanding call was made by the function that the one before it   *)
(* called.                                                                 *)
Linked ==
  /\ FnOf(1) = Main
  /\ \A k \in DOMAIN callers : callers[k].site.to = FnOf(k + 1)
  /\ call # NoSite => call.from = fn

(* From each, every later one was reached. *)
Chained ==
  \A k \in DOMAIN callers, j \in 2 .. Running :
    k < j => Reaches(callers[k].site.to, FnOf(j))

(* The heights of the run-time stack that the calls were made at. *)
Heights ==
  /\ \A k \in DOMAIN callers :
       callers[k].sp = Below(k) + (IF Pushes(callers[k].site) THEN 1 ELSE 0)
  /\ \A i, k \in DOMAIN callers : i <= k => callers[i].sp <= callers[k].sp
  /\ Len(saved) = Below(Running) + Pending

FramesTyped == \A k \in 1 .. Running : FrameOf(k) \in Frame(FnOf(k))

(* While arguments are assigned, a frame that is not the callee's is as it *)
(* was, and of the callee's own the arguments that are still to come.      *)
Assigned ==
  phase = "args" =>
    /\ next \in 1 .. Len(call.args) + 1
    /\ \A n \in 1 .. next - 1 :
         mem[call.to].v[n] = Eval(call.args[n], FrameOf(Running).v)
    /\ call.to # fn => mem[fn] = FrameOf(Running)
    /\ \A x \in Vars[fn] \ (1 .. next - 1) : mem[fn].v[x] = FrameOf(Running).v[x]

IInv ==
  /\ TypeOK
  /\ fn # NoFunction =>
       Linked /\ Chained /\ Heights /\ FramesTyped /\ ReturnsToCaller /\ Assigned

LEMMA FrontTyped ==
  ASSUME NEW S, NEW s \in Seq(S), Len(s) \in DOMAIN s
  PROVE  SubSeq(s, 1, Len(s) - 1) \in Seq(S)
OBVIOUS

LEMMA ElementInRange ==
  ASSUME NEW S, NEW s \in Seq(S), NEW k \in DOMAIN s
  PROVE  s[k] \in S
OBVIOUS

(* Elements of the state. *)
LEMMA StateTypes ==
  ASSUME TypeOK
  PROVE  /\ Len(callers) \in Nat /\ DOMAIN callers = 1 .. Len(callers)
         /\ Running \in Nat /\ Running = Len(callers) + 1
         /\ \A k \in DOMAIN callers :
              /\ callers[k].site \in Sites /\ callers[k].sp \in Nat
              /\ callers[k].site.from \in Functions /\ callers[k].site.to \in Functions
         /\ Len(saved) \in Nat /\ DOMAIN saved = 1 .. Len(saved)
         /\ call # NoSite => /\ call \in Sites /\ call.from \in Functions
                             /\ call.to \in Functions
                             /\ Len(call.args) \in Nat
                             /\ 1 .. Len(call.args) \subseteq Vars[call.to]
<1>0. callers \in Seq([site : Sites, sp : Nat])
  BY DEF TypeOK
<1>1. Len(callers) \in Nat /\ DOMAIN callers = 1 .. Len(callers)
  BY <1>0
<1>2. ASSUME NEW k \in DOMAIN callers
      PROVE  /\ callers[k].site \in Sites /\ callers[k].sp \in Nat
             /\ callers[k].site.from \in Functions /\ callers[k].site.to \in Functions
  <2>1. callers[k] \in [site : Sites, sp : Nat]
    BY <1>0, ElementInRange
  <2> QED
    BY <2>1, RoutinesAssumption
<1>3. Len(saved) \in Nat /\ DOMAIN saved = 1 .. Len(saved)
  BY DEF TypeOK
<1>4. call # NoSite => /\ call \in Sites /\ call.from \in Functions
                       /\ call.to \in Functions
                       /\ Len(call.args) \in Nat
                       /\ 1 .. Len(call.args) \subseteq Vars[call.to]
  <2>1. ASSUME call \in Sites PROVE call.args \in Seq(Exprs)
    BY <2>1, RoutinesAssumption
  <2>2. ASSUME call \in Sites PROVE Len(call.args) \in Nat
    BY <2>2, <2>1
  <2> QED
    BY <2>2, RoutinesAssumption DEF TypeOK
<1> QED
  BY <1>1, <1>2, <1>3, <1>4 DEF Running

(* What depends on the outstanding calls alone. *)
LEMMA SameCalls ==
  ASSUME callers' = callers, fn' = fn
  PROVE  /\ Running' = Running
         /\ \A k : FnOf(k)' = FnOf(k) /\ Below(k)' = Below(k)
         /\ Chained => Chained'
BY DEF Running, FnOf, Below, Chained

(* Two activations of one function: the earlier has pushed its frame. *)
LEMMA SharedPushed ==
  ASSUME TypeOK, Chained,
         NEW i \in DOMAIN callers, NEW j \in 2 .. Running, i < j, FnOf(j) = FnOf(i)
  PROVE  Pushes(callers[i].site)
<1>1. FnOf(i) = callers[i].site.from
  BY StateTypes DEF FnOf
<1>2. Reaches(callers[i].site.to, callers[i].site.from)
  BY <1>1 DEF Chained
<1> QED
  BY <1>2, StateTypes, RecursionFound

(* Nobody who waits has left variables in the callee's static frame. *)
LEMMA CalleeFree ==
  ASSUME TypeOK, Linked, Chained, fn # NoFunction, call # NoSite
  PROVE  /\ \A k \in DOMAIN callers : FnOf(k) = call.to => Pushes(callers[k].site)
         /\ fn = call.to => Pushes(call)
<1>1. call \in Sites /\ call.from = fn /\ call.to \in Functions
  BY StateTypes DEF Linked
<1>2. ASSUME NEW k \in DOMAIN callers, FnOf(k) = call.to PROVE Pushes(callers[k].site)
  <2>1. k < Running /\ Running \in 2 .. Running /\ FnOf(Running) = fn
    BY StateTypes DEF FnOf
  <2>2. Reaches(callers[k].site.to, fn)
    BY <2>1 DEF Chained
  <2>3. Reaches(callers[k].site.to, call.to)
    BY <1>1, <2>2, ReachesStep
  <2>4. call.to = callers[k].site.from
    BY <1>2, <2>1 DEF FnOf
  <2> QED
    BY <2>3, <2>4, StateTypes, RecursionFound
<1>3. fn = call.to => Pushes(call)
  BY <1>1, ReachesSelf, RecursionFound
<1> QED
  BY <1>2, <1>3

---------------------------------------------------------------------------
(* The function's own work. *)

LEMMA SetFrames ==
  ASSUME IInv, NEW x \in Vars[fn], NEW value \in Values, Set,
         mem' = [mem EXCEPT ![fn].v[x] = value]
  PROVE  /\ fn # NoFunction /\ fn \in Functions /\ call = NoSite
         /\ callers' = callers /\ fn' = fn
         /\ mem'[fn] \in Frame(fn) /\ mem'[fn].ra = mem[fn].ra
         /\ mem'[fn].v = [mem[fn].v EXCEPT ![x] = value]
         /\ \A f \in Functions \ {fn} : mem'[f] = mem[f]
         /\ \A k \in DOMAIN callers : FrameOf(k)' = FrameOf(k)
         /\ \A k : k = Running =>
              FrameOf(k)' = mem'[fn] /\ FrameOf(k) = mem[fn] /\ FnOf(k) = fn
<1> USE DEF IInv
<1>1. fn # NoFunction /\ fn \in Functions /\ call = NoSite
  BY DEF Set, TypeOK
<1>3. mem[fn] \in Frame(fn) /\ mem[fn].v \in Contents(fn)
  BY <1>1 DEF TypeOK, Frame
<1>4. /\ mem'[fn] \in Frame(fn) /\ mem'[fn].ra = mem[fn].ra
      /\ mem'[fn].v = [mem[fn].v EXCEPT ![x] = value]
      /\ \A f \in Functions \ {fn} : mem'[f] = mem[f]
  BY <1>1, <1>3 DEF TypeOK, Frame, Contents
<1>6. Running' = Running /\ \A k \in 1 .. Running : FnOf(k)' = FnOf(k)
  BY DEF Set, Running, FnOf
<1>7. \A k \in DOMAIN callers : FrameOf(k)' = FrameOf(k)
  <2> SUFFICES ASSUME NEW k \in DOMAIN callers, ~Pushes(callers[k].site)
               PROVE  mem'[FnOf(k)] = mem[FnOf(k)]
    BY <1>6, StateTypes DEF Set, FrameOf
  <2>1. k < Running /\ Running \in 2 .. Running /\ FnOf(Running) = fn
    BY StateTypes DEF FnOf
  <2>2. FnOf(k) # fn
    BY <1>1, <2>1, SharedPushed
  <2>3. FnOf(k) \in Functions
    BY <2>1, StateTypes DEF FnOf
  <2> QED
    BY <1>4, <2>2, <2>3
<1>8. \A k : k = Running => FrameOf(k)' = mem'[fn] /\ FrameOf(k) = mem[fn] /\ FnOf(k) = fn
  BY <1>6, StateTypes DEF Set, FrameOf, FnOf
<1> QED
  BY <1>1, <1>4, <1>7, <1>8 DEF Set

LEMMA SetInv == IInv /\ Set => IInv'
<1> SUFFICES ASSUME IInv, Set PROVE IInv'
  OBVIOUS
<1> USE DEF IInv
<1>2. PICK x \in Vars[fn], value \in Values : mem' = [mem EXCEPT ![fn].v[x] = value]
  BY DEF Set
<1>1. fn # NoFunction /\ fn \in Functions /\ call = NoSite
  BY <1>2, SetFrames
<1>4. /\ mem'[fn] \in Frame(fn) /\ mem'[fn].ra = mem[fn].ra
      /\ \A f \in Functions \ {fn} : mem'[f] = mem[f]
  BY <1>2, SetFrames
<1>5. TypeOK'
  <2>1. mem' \in [Functions -> AllFrames] /\ \A f \in Functions : mem'[f] \in Frame(f)
    BY <1>1, <1>2, <1>4 DEF TypeOK, AllFrames
  <2> QED
    BY <2>1 DEF Set, TypeOK, AllFrames
<1>7. \A k \in DOMAIN callers : FrameOf(k)' = FrameOf(k)
  BY <1>2, SetFrames
<1>8. \A k : k = Running => FrameOf(k)' = mem'[fn] /\ FrameOf(k) = mem[fn] /\ FnOf(k) = fn
  BY <1>2, SetFrames
<1>9. Linked' /\ Chained' /\ Heights'
  <2>1. callers' = callers /\ fn' = fn /\ call' = call /\ saved' = saved
    BY DEF Set
  <2> QED
    BY <1>1, <2>1, SameCalls DEF Linked, Heights, Pending
<1>10. FramesTyped' /\ ReturnsToCaller'
  <2>1. callers' = callers /\ fn' = fn
    BY DEF Set
  <2>2. ASSUME NEW k \in 1 .. Running
        PROVE  FrameOf(k)' \in Frame(FnOf(k)) /\ FrameOf(k)'.ra = FrameOf(k).ra
    <3>1. CASE k = Running
      BY <1>4, <1>8, <3>1
    <3>2. CASE k # Running
      BY <1>1, <1>7, <3>2, StateTypes DEF FramesTyped
    <3> QED
      BY <3>1, <3>2
  <2>3. FramesTyped'
    BY <2>1, <2>2, SameCalls DEF FramesTyped, Frame
  <2>4. ReturnsToCaller'
    BY <1>1, <2>1, <2>2, SameCalls DEF ReturnsToCaller
  <2> QED
    BY <2>3, <2>4
<1>11. Assigned'
  BY <1>1 DEF Set, Assigned
<1> QED
  BY <1>1, <1>5, <1>9, <1>10, <1>11

(* The frames on the run-time stack are below its top. *)
LEMMA SavedBelow ==
  ASSUME TypeOK, Heights
  PROVE  /\ Below(Running) \in Nat /\ Below(Running) <= Len(saved)
         /\ call # NoSite /\ Pushes(call) => Len(saved) = Below(Running) + 1
         /\ call = NoSite \/ ~Pushes(call) => Len(saved) = Below(Running)
         /\ \A k \in DOMAIN callers : Pushes(callers[k].site) =>
              callers[k].sp \in 1 .. Below(Running)
<1>1. \A k \in 1 .. Running : Below(k) \in Nat
  BY StateTypes DEF Below
<1>2. ASSUME NEW k \in DOMAIN callers, Pushes(callers[k].site)
      PROVE  callers[k].sp \in 1 .. Below(Running)
  <2>1. callers[k].sp = Below(k) + 1
    BY <1>2 DEF Heights
  <2>2. Below(Running) = callers[Len(callers)].sp
    BY StateTypes DEF Below
  <2>3. callers[k].sp <= callers[Len(callers)].sp
    BY StateTypes DEF Heights
  <2> QED
    BY <1>1, <2>1, <2>2, <2>3, StateTypes
<1>3. Len(saved) = Below(Running) + Pending /\ Running \in 1 .. Running
  BY StateTypes DEF Heights
<1> QED
  BY <1>1, <1>2, <1>3 DEF Pending

---------------------------------------------------------------------------
(* The call of a site begins: frames stay as they are. *)

LEMMA BeginFrames ==
  ASSUME IInv, NEW s \in Sites, Begin(s)
  PROVE  /\ fn # NoFunction /\ call = NoSite /\ callers' = callers /\ fn' = fn
         /\ \A k \in 1 .. Running : FrameOf(k)' = FrameOf(k)
<1> USE DEF IInv
<1>1. fn \in Functions /\ fn # NoFunction /\ call = NoSite
  BY RoutinesAssumption, NoFunctionAssumption DEF Begin, TypeOK
<1>2. callers' = callers /\ fn' = fn /\ mem' = mem
  BY DEF Begin
<1>3. saved \in Seq(AllFrames) /\ mem[fn] \in AllFrames
  BY <1>1 DEF TypeOK, AllFrames
<1>4. Pushes(s) => /\ Len(saved') = Len(saved) + 1 /\ saved'[Len(saved) + 1] = mem[fn]
                   /\ \A n \in 1 .. Len(saved) : saved'[n] = saved[n]
  BY <1>1, <1>3 DEF Begin, FrameToPush
<1>5. ~Pushes(s) => saved' = saved
  BY DEF Begin
<1>6. ASSUME NEW k \in 1 .. Running PROVE FrameOf(k)' = FrameOf(k)
  <2>1. CASE k = Running
    BY <1>1, <1>2, <1>4, <1>5, <2>1, SameCalls DEF Begin, FrameOf
  <2>2. CASE k # Running
    <3>1. k \in DOMAIN callers /\ k < Running
      BY <2>2, StateTypes
    <3>2. Pushes(callers[k].site) => callers[k].sp \in 1 .. Len(saved)
      BY <1>1, <3>1, SavedBelow, StateTypes
    <3>3. Pushes(callers[k].site) => saved'[callers[k].sp] = saved[callers[k].sp]
      BY <1>4, <1>5, <3>2
    <3> QED
      BY <1>2, <3>1, <3>3, SameCalls DEF FrameOf
  <2> QED
    BY <2>1, <2>2
<1> QED
  BY <1>1, <1>2, <1>6

LEMMA BeginInv ==
  ASSUME IInv, NEW s \in Sites, Begin(s)
  PROVE  IInv'
<1> USE DEF IInv
<1>1. /\ fn # NoFunction /\ call = NoSite /\ callers' = callers /\ fn' = fn
      /\ \A k \in 1 .. Running : FrameOf(k)' = FrameOf(k)
  BY BeginFrames
<1>2. /\ mem' = mem /\ ret' = ret /\ call' = s /\ phase' = "args" /\ next' = 1
      /\ s.from = fn /\ fn \in Functions /\ call' # NoSite
  BY RoutinesAssumption DEF Begin
<1>3. saved' = (IF Pushes(s) THEN Append(saved, mem[fn]) ELSE saved)
  BY <1>2 DEF Begin, FrameToPush
<1>4. saved \in Seq(AllFrames) /\ mem[fn] \in AllFrames
  BY <1>2 DEF TypeOK, AllFrames
<1>5. TypeOK'
  <2>1. saved' \in Seq(AllFrames)
    BY <1>3, <1>4
  <2> QED
    BY <1>1, <1>2, <2>1 DEF TypeOK, AllFrames
<1>6. Linked' /\ Chained'
  BY <1>1, <1>2, SameCalls DEF Linked
<1>7. Heights'
  <2>1. Len(saved') = Len(saved) + (IF Pushes(s) THEN 1 ELSE 0)
    BY <1>3, <1>4, StateTypes
  <2>2. Len(saved) = Below(Running)
    BY <1>1, SavedBelow
  <2>3. Pending' = IF Pushes(s) THEN 1 ELSE 0
    BY <1>2 DEF Pending
  <2>4. Below(Running)' = Below(Running)
    BY <1>1 DEF Running, Below
  <2> QED
    BY <1>1, <2>1, <2>2, <2>3, <2>4, SameCalls DEF Heights
<1>8. FramesTyped' /\ ReturnsToCaller'
  BY <1>1, SameCalls DEF FramesTyped, ReturnsToCaller, Frame
<1>9. Assigned'
  <2>1. FrameOf(Running)' = mem[fn]
    <3>1. Running \in 1 .. Running
      BY StateTypes
    <3>2. FrameOf(Running) = mem[fn]
      BY StateTypes DEF Begin, FrameOf
    <3>3. \A k : k = Running => FrameOf(k)' = mem[fn]
      BY <1>1, <3>1, <3>2
    <3> QED
      BY <1>1, <3>3, SameCalls
  <2>2. s.args \in Seq(Exprs)
    BY RoutinesAssumption
  <2> QED
    BY <1>1, <1>2, <2>1, <2>2 DEF Assigned
<1> QED
  BY <1>1, <1>5, <1>6, <1>7, <1>8, <1>9

---------------------------------------------------------------------------
(* An argument is put into the callee's frame: no activation has its       *)
(* variables there.                                                        *)

LEMMA AssignArgFrames ==
  ASSUME IInv, AssignArg
  PROVE  /\ fn # NoFunction /\ callers' = callers /\ fn' = fn
         /\ \A k \in 1 .. Running : FrameOf(k)' = FrameOf(k)
<1> USE DEF IInv
<1>1. /\ callers' = callers /\ fn' = fn /\ saved' = saved /\ call' = call
      /\ phase = "args" /\ phase' = phase
  BY DEF AssignArg
<1>2. call # NoSite /\ fn # NoFunction
  <2>1. call # NoSite
    BY <1>1 DEF TypeOK
  <2>2. fn # NoFunction
    BY <1>1 DEF TypeOK
  <2> QED
    BY <2>1, <2>2
<1>3. \A f \in Functions \ {call.to} : mem'[f] = mem[f]
  BY DEF AssignArg, TypeOK
<1>4. ASSUME NEW k \in 1 .. Running PROVE FrameOf(k)' = FrameOf(k)
  <2>1. CASE k = Running
    <3>1. FrameOf(k) = IF Pushes(call) THEN saved[Len(saved)] ELSE mem[fn]
      BY <1>1, <2>1, StateTypes DEF FrameOf
    <3>2. FrameOf(k)' = IF Pushes(call) THEN saved[Len(saved)] ELSE mem'[fn]
      BY <1>1, <2>1, SameCalls, StateTypes DEF FrameOf
    <3>3. ~Pushes(call) => mem'[fn] = mem[fn]
      BY <1>2, <1>3, CalleeFree DEF TypeOK
    <3> QED
      BY <3>1, <3>2, <3>3
  <2>2. CASE k # Running
    <3>1. k \in DOMAIN callers /\ k < Running /\ FnOf(k) \in Functions
      BY <2>2, StateTypes DEF FnOf
    <3>2. ~Pushes(callers[k].site) => mem'[FnOf(k)] = mem[FnOf(k)]
      BY <1>2, <1>3, <3>1, CalleeFree
    <3> QED
      BY <1>1, <3>1, <3>2, SameCalls DEF FrameOf
  <2> QED
    BY <2>1, <2>2
<1> QED
  BY <1>1, <1>2, <1>4

LEMMA AssignArgInv == ASSUME IInv, AssignArg PROVE IInv'
<1> USE DEF IInv
<1> DEFINE value == Eval(call.args[next], mem[fn].v)
<1>1. /\ fn # NoFunction /\ callers' = callers /\ fn' = fn
      /\ \A k \in 1 .. Running : FrameOf(k)' = FrameOf(k)
  BY AssignArgFrames
<1>2. /\ saved' = saved /\ call' = call /\ ret' = ret
      /\ phase = "args" /\ phase' = phase /\ next' = next + 1
      /\ next <= Len(call.args)
      /\ mem' = [mem EXCEPT ![call.to].v[next] = value]
  BY DEF AssignArg
<1>3. call # NoSite /\ next \in Nat /\ fn \in Functions
  BY <1>1, <1>2 DEF TypeOK
<1>4. /\ call \in Sites /\ call.from = fn /\ call.to \in Functions
      /\ next \in 1 .. Len(call.args) /\ Len(call.args) \in Nat
      /\ next \in Vars[call.to]
  <2>1. next \in 1 .. Len(call.args)
    BY <1>1, <1>2, <1>3, StateTypes DEF Assigned
  <2> QED
    BY <1>1, <1>3, <2>1, StateTypes DEF Linked
<1>5. /\ mem[fn] \in Frame(fn) /\ mem[fn].v \in Contents(fn)
      /\ mem[call.to] \in Frame(call.to) /\ mem[call.to].v \in Contents(call.to)
  BY <1>3, <1>4 DEF TypeOK, Frame
<1>6. value \in Values
  BY <1>4, <1>5, RoutinesAssumption
<1>7. /\ mem'[call.to] \in Frame(call.to)
      /\ mem'[call.to].v[next] = value
      /\ \A x \in Vars[call.to] \ {next} : mem'[call.to].v[x] = mem[call.to].v[x]
      /\ \A f \in Functions \ {call.to} : mem'[f] = mem[f]
  BY <1>2, <1>4, <1>5, <1>6 DEF TypeOK, Frame, Contents
<1>8. TypeOK'
  <2>1. mem' \in [Functions -> AllFrames] /\ \A f \in Functions : mem'[f] \in Frame(f)
    <3>1. \A f \in Functions : mem'[f] \in Frame(f)
      BY <1>7 DEF TypeOK
    <3>2. DOMAIN mem' = Functions /\ mem' = [f \in Functions |-> mem'[f]]
      BY <1>2 DEF TypeOK
    <3> QED
      BY <3>1, <3>2 DEF AllFrames
  <2>2. next' \in Nat
    BY <1>2, <1>3
  <2> QED
    BY <1>1, <1>2, <2>1, <2>2 DEF TypeOK, AllFrames
<1>9. Linked' /\ Chained' /\ Heights'
  BY <1>1, <1>2, SameCalls DEF Linked, Heights, Pending
<1>10. FramesTyped' /\ ReturnsToCaller'
  BY <1>1, SameCalls DEF FramesTyped, ReturnsToCaller, Frame
<1>11. Assigned'
  <2> DEFINE w == FrameOf(Running)
  <2>1. FrameOf(Running)' = w /\ w \in Frame(fn) /\ w.v \in Contents(fn)
    <3>1. Running \in 1 .. Running /\ FnOf(Running) = fn
      BY StateTypes DEF FnOf
    <3>2. \A k : k = Running => FrameOf(k)' = w
      BY <1>1, <3>1
    <3> QED
      BY <1>1, <3>1, <3>2, SameCalls DEF FramesTyped, Frame
  <2>2. value = Eval(call.args[next], w.v)
    <3>1. CASE call.to # fn
      BY <1>1, <1>2, <3>1 DEF Assigned
    <3>2. CASE call.to = fn
      <4>1. \A x \in Vars[fn] \ (1 .. next - 1) : mem[fn].v[x] = w.v[x]
        BY <1>1, <1>2 DEF Assigned
      <4> QED
        BY <1>4, <1>5, <2>1, <3>2, <4>1, ArgsAssumption
    <3> QED
      BY <3>1, <3>2
  <2>3. next' \in 1 .. Len(call.args) + 1
    BY <1>2, <1>4
  <2>4. ASSUME NEW n \in 1 .. next' - 1
        PROVE  mem'[call.to].v[n] = Eval(call.args[n], w.v)
    <3>1. CASE n = next
      BY <1>7, <2>2, <3>1
    <3>2. CASE n # next
      <4>1. n \in 1 .. next - 1 /\ n \in Vars[call.to] \ {next}
        BY <1>2, <1>3, <1>4, <3>2, StateTypes
      <4> QED
        BY <1>1, <1>2, <1>7, <4>1 DEF Assigned
    <3> QED
      BY <3>1, <3>2
  <2>5. call.to # fn => mem'[fn] = w
    BY <1>1, <1>2, <1>3, <1>7 DEF Assigned
  <2>6. ASSUME NEW x \in Vars[fn] \ (1 .. next' - 1)
        PROVE  mem'[fn].v[x] = w.v[x]
    <3>1. x \in Vars[fn] \ (1 .. next - 1) /\ x # next
      BY <1>2, <1>3, <1>4
    <3>2. mem[fn].v[x] = w.v[x]
      BY <1>1, <1>2, <3>1 DEF Assigned
    <3> QED
      BY <1>3, <1>7, <3>1, <3>2
  <2> QED
    BY <1>1, <1>2, <2>1, <2>3, <2>4, <2>5, <2>6 DEF Assigned
<1> QED
  BY <1>1, <1>8, <1>9, <1>10, <1>11

---------------------------------------------------------------------------
(* The callee is entered: its return address goes into its static frame,   *)
(* and the caller waits.                                                   *)

LEMMA EnterFrames ==
  ASSUME IInv, Enter
  PROVE  /\ fn # NoFunction /\ fn' # NoFunction /\ call \in Sites /\ call.from = fn
         /\ Running' = Running + 1
         /\ callers' = Append(callers, Caller(call, Len(saved)))
         /\ \A k \in DOMAIN callers : callers'[k] = callers[k]
         /\ callers'[Running] = Caller(call, Len(saved))
         /\ \A k \in 1 .. Running : FnOf(k)' = FnOf(k) /\ FrameOf(k)' = FrameOf(k)
         /\ \A k : k = Running' =>
              /\ FnOf(k)' = call.to /\ FrameOf(k)' = mem'[call.to]
              /\ mem'[call.to] = [mem[call.to] EXCEPT !.ra = call]
         /\ \A f \in Functions \ {call.to} : mem'[f] = mem[f]
<1> USE DEF IInv
<1>1. /\ phase = "args" /\ saved' = saved /\ fn' = call.to /\ phase' = "run"
      /\ callers' = Append(callers, Caller(call, Len(saved)))
      /\ mem' = [mem EXCEPT ![call.to].ra = call]
  BY DEF Enter
<1>2. call # NoSite /\ fn # NoFunction
  BY <1>1 DEF TypeOK
<1>3. call \in Sites /\ call.from = fn /\ call.to \in Functions /\ fn \in Functions
  BY <1>2, StateTypes DEF Linked, TypeOK
<1>4. fn' # NoFunction
  BY <1>1, <1>3, NoFunctionAssumption
<1>5. /\ Len(callers') = Running /\ Running' = Running + 1
      /\ \A k \in DOMAIN callers : callers'[k] = callers[k]
      /\ callers'[Running] = Caller(call, Len(saved))
  <2>1. callers \in Seq([site : Sites, sp : Nat])
    BY DEF TypeOK
  <2> QED
    BY <1>1, <2>1, StateTypes DEF Running
<1>6. /\ mem'[call.to] = [mem[call.to] EXCEPT !.ra = call]
      /\ \A f \in Functions \ {call.to} : mem'[f] = mem[f]
  BY <1>1, <1>3 DEF TypeOK
<1>7. ASSUME NEW k \in 1 .. Running PROVE FnOf(k)' = FnOf(k)
  BY <1>3, <1>5, StateTypes DEF FnOf, Caller
<1>8. ASSUME NEW k \in 1 .. Running PROVE FrameOf(k)' = FrameOf(k)
  <2>1. FrameOf(k)' = IF Pushes(callers'[k].site) THEN saved[callers'[k].sp]
                      ELSE mem'[FnOf(k)]
    BY <1>1, <1>5, <1>7, StateTypes DEF FrameOf
  <2>2. CASE k = Running
    <3>1. FrameOf(k) = IF Pushes(call) THEN saved[Len(saved)] ELSE mem[fn]
      BY <1>1, <2>2, StateTypes DEF FrameOf
    <3>2. callers'[k].site = call /\ callers'[k].sp = Len(saved) /\ FnOf(k) = fn
      BY <1>5, <2>2 DEF FnOf, Caller
    <3>3. ~Pushes(call) => mem'[fn] = mem[fn]
      BY <1>2, <1>3, <1>6, CalleeFree
    <3> QED
      BY <2>1, <3>1, <3>2, <3>3
  <2>3. CASE k # Running
    <3>1. k \in DOMAIN callers /\ k < Running /\ FnOf(k) \in Functions
      BY <2>3, StateTypes DEF FnOf
    <3>2. ~Pushes(callers[k].site) => mem'[FnOf(k)] = mem[FnOf(k)]
      BY <1>2, <1>6, <3>1, CalleeFree
    <3> QED
      BY <1>5, <2>1, <3>1, <3>2 DEF FrameOf
  <2> QED
    BY <2>2, <2>3
<1>9. \A k : k = Running' => FnOf(k)' = call.to /\ FrameOf(k)' = mem'[call.to]
  BY <1>1, StateTypes, <1>5 DEF FnOf, FrameOf
<1> QED
  BY <1>1, <1>2, <1>3, <1>4, <1>5, <1>6, <1>7, <1>8, <1>9

LEMMA EnterInv == ASSUME IInv, Enter PROVE IInv'
<1> USE DEF IInv
<1>1. /\ fn # NoFunction /\ fn' # NoFunction /\ call \in Sites /\ call.from = fn
      /\ Running' = Running + 1
      /\ callers' = Append(callers, Caller(call, Len(saved)))
      /\ \A k \in DOMAIN callers : callers'[k] = callers[k]
      /\ callers'[Running] = Caller(call, Len(saved))
      /\ \A k \in 1 .. Running : FnOf(k)' = FnOf(k) /\ FrameOf(k)' = FrameOf(k)
      /\ \A k : k = Running' =>
           /\ FnOf(k)' = call.to /\ FrameOf(k)' = mem'[call.to]
           /\ mem'[call.to] = [mem[call.to] EXCEPT !.ra = call]
      /\ \A f \in Functions \ {call.to} : mem'[f] = mem[f]
  BY EnterFrames
<1>2. /\ saved' = saved /\ ret' = ret /\ fn' = call.to /\ call.to \in Functions
      /\ call' = NoSite /\ phase' = "run" /\ next' = 1
      /\ mem' = [mem EXCEPT ![call.to].ra = call]
      /\ call # NoSite
  BY <1>1, RoutinesAssumption DEF Enter
<1>3. DOMAIN callers' = 1 .. Running /\ DOMAIN callers = 1 .. Running - 1 /\ Running \in Nat
  <2>1. callers \in Seq([site : Sites, sp : Nat])
    BY DEF TypeOK
  <2> QED
    BY <1>1, <2>1, StateTypes
<1>4. mem'[call.to] \in Frame(call.to) /\ mem'[call.to].ra = call
  <2>1. mem[call.to] \in Frame(call.to)
    BY <1>2 DEF TypeOK
  <2> QED
    BY <1>1, <2>1 DEF Frame
<1>5. TypeOK'
  <2>1. mem' \in [Functions -> AllFrames] /\ \A f \in Functions : mem'[f] \in Frame(f)
    <3>1. \A f \in Functions : mem'[f] \in Frame(f)
      BY <1>1, <1>4 DEF TypeOK
    <3>2. DOMAIN mem' = Functions /\ mem' = [f \in Functions |-> mem'[f]]
      BY <1>2 DEF TypeOK
    <3> QED
      BY <3>1, <3>2 DEF AllFrames
  <2>2. callers' \in Seq([site : Sites, sp : Nat])
    <3>1. callers \in Seq([site : Sites, sp : Nat])
      BY DEF TypeOK
    <3>2. Caller(call, Len(saved)) \in [site : Sites, sp : Nat]
      BY <1>1, StateTypes DEF Caller
    <3> QED
      BY <1>1, <3>1, <3>2
  <2> QED
    BY <1>1, <1>2, <2>1, <2>2 DEF TypeOK, AllFrames
<1>6. Linked'
  <2>1. FnOf(1)' = Main
    BY <1>1, <1>3, StateTypes DEF Linked
  <2>2. ASSUME NEW k \in DOMAIN callers' PROVE callers'[k].site.to = FnOf(k + 1)'
    <3>1. CASE k = Running
      BY <1>1, <1>3, <3>1 DEF Caller
    <3>2. CASE k # Running
      BY <1>1, <1>3, <2>2, <3>2 DEF Linked
    <3> QED
      BY <3>1, <3>2
  <2> QED
    BY <1>2, <2>1, <2>2 DEF Linked
<1>7. Chained'
  <2> SUFFICES ASSUME NEW k \in DOMAIN callers', NEW j \in 2 .. Running', k < j
               PROVE  Reaches(callers'[k].site.to, FnOf(j)')
    BY DEF Chained
  <2>1. CASE k = Running
    <3>1. j = Running' /\ callers'[k].site.to = call.to /\ FnOf(j)' = call.to
      BY <1>1, <1>3, <2>1 DEF Caller
    <3> QED
      BY <1>2, <3>1, ReachesSelf
  <2>2. CASE k # Running /\ j # Running'
    BY <1>1, <1>3, <2>2 DEF Chained
  <2>3. CASE k # Running /\ j = Running'
    <3>1. k \in DOMAIN callers /\ Running \in 2 .. Running /\ k < Running
      BY <1>3, <2>3
    <3>2. Reaches(callers[k].site.to, FnOf(Running)) /\ FnOf(Running) = call.from
      BY <1>1, <3>1 DEF Chained, FnOf
    <3>3. Reaches(callers[k].site.to, call.to)
      BY <1>1, <3>2, ReachesStep
    <3> QED
      BY <1>1, <2>3, <3>1, <3>3
  <2> QED
    BY <2>1, <2>2, <2>3
<1>8. Heights'
  <2>1. \A k \in 1 .. Running : Below(k)' = Below(k)
    BY <1>1, <1>3 DEF Below
  <2>2. Len(saved) = Below(Running) + (IF Pushes(call) THEN 1 ELSE 0)
    BY <1>1, <1>2 DEF Heights, Pending
  <2>3. \A k \in DOMAIN callers' :
          callers'[k].sp = Below(k)' + (IF Pushes(callers'[k].site) THEN 1 ELSE 0)
    BY <1>1, <1>3, <2>1, <2>2 DEF Heights, Caller
  <2>4. ASSUME NEW i \in DOMAIN callers', NEW k \in DOMAIN callers', i <= k
        PROVE  callers'[i].sp <= callers'[k].sp
    <3>1. CASE k # Running
      BY <1>1, <1>3, <2>4, <3>1 DEF Heights
    <3>2. CASE k = Running /\ i # Running
      <4>1. Below(Running) = callers[Len(callers)].sp /\ i <= Len(callers)
        BY <1>3, <2>4, <3>2, StateTypes DEF Below
      <4>2. callers[i].sp <= Below(Running)
        <5>1. i \in DOMAIN callers /\ Len(callers) \in DOMAIN callers
          BY <1>3, <2>4, <3>2, <4>1, StateTypes
        <5>2. callers[i].sp <= callers[Len(callers)].sp
          BY <1>1, <4>1, <5>1 DEF Heights
        <5> QED
          BY <4>1, <5>2
      <4>3. Below(Running) <= Len(saved) /\ Below(Running) \in Nat
        BY <1>1, SavedBelow
      <4> QED
        BY <1>1, <1>3, <2>4, <3>2, <4>2, <4>3, StateTypes DEF Caller
    <3>3. CASE k = Running /\ i = Running
      BY <1>1, <3>3, StateTypes DEF Caller
    <3> QED
      BY <3>1, <3>2, <3>3
  <2>5. Len(saved)' = Below(Running)' + Pending'
    <3>1. Below(Running)' = callers'[Running].sp
      BY <1>1, <1>3 DEF Below
    <3> QED
      BY <1>1, <1>2, <3>1, StateTypes DEF Pending, Caller
  <2> QED
    BY <2>3, <2>4, <2>5 DEF Heights
<1>9. ASSUME NEW k \in 1 .. Running'
      PROVE  /\ FrameOf(k)' \in Frame(FnOf(k)')
             /\ FrameOf(k)'.ra = IF k = 1 THEN NoSite ELSE callers'[k - 1].site
  <2>1. CASE k = Running'
    BY <1>1, <1>3, <1>4, <2>1 DEF Caller
  <2>2. CASE k # Running'
    <3>1. k \in 1 .. Running /\ (k # 1 => callers'[k - 1] = callers[k - 1])
      BY <1>1, <1>3, <2>2
    <3> QED
      BY <1>1, <3>1 DEF FramesTyped, ReturnsToCaller
  <2> QED
    BY <2>1, <2>2
<1>10. FramesTyped' /\ ReturnsToCaller'
  BY <1>9 DEF FramesTyped, ReturnsToCaller, Frame
<1>11. Assigned'
  BY <1>2 DEF Assigned
<1> QED
  BY <1>1, <1>5, <1>6, <1>7, <1>8, <1>10, <1>11

---------------------------------------------------------------------------
(* The callee returns to where its frame says: to its caller. *)

LEMMA ReturnFrames ==
  ASSUME IInv, Return
  PROVE  /\ fn # NoFunction /\ fn \in Functions
         /\ FnOf(Running) = fn /\ FrameOf(Running) = mem[fn]
         /\ fn' = NoFunction => callers = << >>
         /\ fn' # NoFunction =>
              /\ Len(callers) \in DOMAIN callers
              /\ callers' = SubSeq(callers, 1, Len(callers) - 1)
              /\ Running' = Len(callers)
              /\ call' = callers[Len(callers)].site /\ call' \in Sites
              /\ phase' = "back" /\ fn' = call'.from /\ call'.to = fn
              /\ \A k \in 1 .. Running' : FnOf(k)' = FnOf(k)
              /\ \A k \in DOMAIN callers' : callers'[k] = callers[k]
              /\ DOMAIN callers' = 1 .. Len(callers) - 1
              /\ \A k \in DOMAIN callers' : FrameOf(k)' = FrameOf(k)
              /\ \A k : k = Running' =>
                   FrameOf(k)' = [FrameOf(k) EXCEPT !.v =
                                    Answered(@, call', Eval(Answer[fn], mem[fn].v))]
<1> USE DEF IInv
<1>1. fn # NoFunction /\ phase = "run" /\ fn \in Functions /\ call = NoSite
  BY DEF Return, TypeOK
<1>2. FnOf(Running) = fn /\ FrameOf(Running) = mem[fn]
  BY <1>1, StateTypes DEF FnOf, FrameOf
<1>3. mem' = mem /\ saved' = saved /\ ret' = [ret EXCEPT ![fn] = Eval(Answer[fn], mem[fn].v)]
  BY DEF Return
<1>4. mem[fn].ra = IF Running = 1 THEN NoSite ELSE callers[Running - 1].site
  BY <1>1, <1>2, StateTypes DEF ReturnsToCaller
<1>5. Running = 1 <=> mem[fn].ra = NoSite
  BY <1>4, StateTypes, RoutinesAssumption
<1>6. fn' = NoFunction => Running = 1
  <2> SUFFICES ASSUME Running # 1 PROVE fn' # NoFunction
    OBVIOUS
  <2>1. fn' = mem[fn].ra.from /\ mem[fn].ra \in Sites
    BY <1>4, <1>5, StateTypes DEF Return
  <2> QED
    BY <2>1, RoutinesAssumption, NoFunctionAssumption
<1>7. fn' = NoFunction => callers = << >>
  <2>1. callers \in Seq([site : Sites, sp : Nat])
    BY DEF TypeOK
  <2> QED
    BY <1>6, <2>1, StateTypes
<1>8. ASSUME fn' # NoFunction
      PROVE  /\ Len(callers) \in DOMAIN callers
             /\ callers' = SubSeq(callers, 1, Len(callers) - 1)
             /\ Running' = Len(callers)
             /\ call' = callers[Len(callers)].site /\ call' \in Sites
             /\ phase' = "back" /\ fn' = call'.from /\ call'.to = fn
             /\ \A k \in 1 .. Running' : FnOf(k)' = FnOf(k)
             /\ \A k \in DOMAIN callers' : callers'[k] = callers[k]
             /\ DOMAIN callers' = 1 .. Len(callers) - 1
             /\ \A k \in DOMAIN callers' : FrameOf(k)' = FrameOf(k)
             /\ \A k : k = Running' =>
                  FrameOf(k)' = [FrameOf(k) EXCEPT !.v =
                                   Answered(@, call', Eval(Answer[fn], mem[fn].v))]
  <2>1. mem[fn].ra # NoSite /\ Running # 1
    BY <1>5, <1>8 DEF Return
  <2>2. /\ callers' = SubSeq(callers, 1, Len(callers) - 1)
        /\ call' = mem[fn].ra /\ phase' = "back" /\ fn' = mem[fn].ra.from
    BY <2>1 DEF Return
  <2>3. Len(callers) \in DOMAIN callers /\ Running - 1 = Len(callers)
    BY <2>1, StateTypes
  <2>4. call' = callers[Len(callers)].site /\ call' \in Sites
    BY <1>4, <2>1, <2>2, <2>3, StateTypes
  <2>5. call'.to = fn
    BY <1>1, <1>2, <2>3, <2>4, StateTypes DEF Linked
  <2>6. /\ DOMAIN callers' = 1 .. Len(callers) - 1
        /\ Len(callers') = Len(callers) - 1
        /\ \A k \in DOMAIN callers' : callers'[k] = callers[k]
    <3>1. callers \in Seq([site : Sites, sp : Nat])
      BY DEF TypeOK
    <3> QED
      BY <2>2, <2>3, <3>1, StateTypes
  <2>7. Running' = Len(callers)
    BY <2>3, <2>6, StateTypes DEF Running
  <2>8. ASSUME NEW k \in 1 .. Running' PROVE FnOf(k)' = FnOf(k)
    <3>1. k # Running /\ FnOf(k) = callers[k].site.from
      BY <2>3, <2>7, StateTypes DEF FnOf
    <3>2. CASE k = Running'
      BY <2>2, <2>4, <2>7, <3>1, <3>2 DEF FnOf
    <3>3. CASE k # Running'
      <4>1. k \in 1 .. Len(callers) /\ k # Len(callers)
        BY <2>7, <3>3
      <4>2. k \in DOMAIN callers'
        BY <2>6, <4>1, StateTypes
      <4> QED
        BY <2>6, <3>1, <3>3, <4>2 DEF FnOf
    <3> QED
      BY <3>2, <3>3
  <2>9. ASSUME NEW k \in DOMAIN callers' PROVE FrameOf(k)' = FrameOf(k)
    <3>1. k < Running' /\ k < Running /\ k \in 1 .. Running'
      BY <2>3, <2>6, <2>7, StateTypes
    <3> QED
      BY <1>3, <2>6, <2>8, <3>1 DEF FrameOf
  <2>10. ASSUME NEW k, k = Running'
         PROVE  FrameOf(k)' = [FrameOf(k) EXCEPT !.v =
                                 Answered(@, call', Eval(Answer[fn], mem[fn].v))]
    <3>1. k = Len(callers) /\ k < Running /\ k \in 1 .. Running'
      BY <2>3, <2>7, <2>10, StateTypes
    <3>2. FnOf(k) = fn'
      BY <2>2, <2>4, <3>1 DEF FnOf
    <3>3. ret'[call'.to] = Eval(Answer[fn], mem[fn].v)
      BY <1>1, <1>3, <2>5 DEF TypeOK
    <3>4. FrameOf(k)' = Resumed(fn)'
      BY <2>2, <2>7, <2>10, <3>1, StateTypes DEF FrameOf
    <3>5. Popped(fn)' = FrameOf(k)
      <4>1. Popped(fn)' = IF Pushes(call') THEN saved[Len(saved)] ELSE mem[fn']
        BY <1>3 DEF Popped
      <4>2. callers[k].sp = Len(saved)
        <5>1. Below(Running) = callers[k].sp
          BY <2>3, <3>1, StateTypes DEF Below
        <5> QED
          BY <1>1, <5>1, SavedBelow
      <4> QED
        BY <2>4, <3>1, <3>2, <4>1, <4>2 DEF FrameOf
    <3> QED
      BY <3>3, <3>4, <3>5 DEF Resumed
  <2> QED
    BY <2>2, <2>3, <2>4, <2>5, <2>6, <2>7, <2>8, <2>9, <2>10
<1> QED
  BY <1>1, <1>2, <1>7, <1>8

LEMMA AnsweredTyped ==
  ASSUME NEW s \in Sites, NEW w \in Frame(s.from), NEW value \in Values
  PROVE  /\ [w EXCEPT !.v = Answered(@, s, value)] \in Frame(s.from)
         /\ [w EXCEPT !.v = Answered(@, s, value)].ra = w.ra
<1>1. s.dest \in Vars[s.from] \cup {NoVar}
  BY RoutinesAssumption
<1>2. Answered(w.v, s, value) \in Contents(s.from)
  <2>1. w.v \in Contents(s.from)
    BY DEF Frame
  <2> QED
    BY <1>1, <2>1 DEF Answered, Contents
<1> QED
  BY <1>2 DEF Frame

LEMMA ReturnInv == ASSUME IInv, Return PROVE IInv'
<1> USE DEF IInv
<1>1. /\ fn # NoFunction /\ fn \in Functions
      /\ fn' # NoFunction =>
           /\ Len(callers) \in DOMAIN callers
           /\ callers' = SubSeq(callers, 1, Len(callers) - 1)
           /\ Running' = Len(callers)
           /\ call' = callers[Len(callers)].site /\ call' \in Sites
           /\ phase' = "back" /\ fn' = call'.from /\ call'.to = fn
           /\ \A k \in 1 .. Running' : FnOf(k)' = FnOf(k)
           /\ \A k \in DOMAIN callers' : callers'[k] = callers[k]
           /\ DOMAIN callers' = 1 .. Len(callers) - 1
           /\ \A k \in DOMAIN callers' : FrameOf(k)' = FrameOf(k)
           /\ \A k : k = Running' =>
                FrameOf(k)' = [FrameOf(k) EXCEPT !.v =
                                 Answered(@, call', Eval(Answer[fn], mem[fn].v))]
  BY ReturnFrames
<1>2. mem' = mem /\ saved' = saved /\ next' = next
  BY DEF Return
<1>3. Eval(Answer[fn], mem[fn].v) \in Values
  <2>1. mem[fn].v \in Contents(fn)
    BY <1>1 DEF TypeOK, Frame
  <2> QED
    BY <1>1, <2>1, RoutinesAssumption
<1>4. ret' \in [Functions -> Values]
  BY <1>1, <1>3 DEF Return, TypeOK
<1>5. call = NoSite /\ phase = "run"
  BY DEF Return, TypeOK
<1>5a. Linked
  BY <1>1
<1>6. CASE fn' = NoFunction
  <2>1. call' = call /\ phase' = phase /\ callers' = callers
    BY <1>1, <1>6, RoutinesAssumption, NoFunctionAssumption, StateTypes
       DEF Return, TypeOK, Frame
  <2>2. TypeOK'
    BY <1>2, <1>4, <1>5, <1>6, <2>1 DEF TypeOK
  <2> QED
    BY <1>6, <2>2
<1>7. CASE fn' # NoFunction
  <2>1. callers' \in Seq([site : Sites, sp : Nat])
    <3>1. callers \in Seq([site : Sites, sp : Nat])
      BY DEF TypeOK
    <3> QED
      BY <1>1, <1>7, <3>1, FrontTyped
  <2>2. TypeOK'
    <3>1. fn' \in Functions /\ call' # NoSite
      BY <1>1, <1>7, RoutinesAssumption
    <3> QED
      BY <1>1, <1>2, <1>4, <1>7, <2>1, <3>1 DEF TypeOK
  <2>3. Linked'
    <3> HIDE DEF IInv
    <3>0. TypeOK
      BY DEF IInv
    <3>0a. Len(callers) \in Nat /\ DOMAIN callers = 1 .. Len(callers)
      BY <3>0, StateTypes
    <3>1. 1 \in 1 .. Running' /\ FnOf(1)' = Main
      <4>1. Running' = Len(callers) /\ Len(callers) \in DOMAIN callers
        BY <1>1, <1>7
      <4>2. 1 \in 1 .. Running'
        BY <3>0a, <4>1
      <4> QED
        BY <1>1, <1>5a, <1>7, <4>2 DEF Linked
    <3>2. ASSUME NEW k \in DOMAIN callers'
          PROVE  callers'[k].site.to = FnOf(k + 1)'
      <4>1. k \in DOMAIN callers /\ k + 1 \in 1 .. Running'
        <5>1. k \in 1 .. Len(callers) - 1 /\ Running' = Len(callers)
          BY <1>1, <1>7
        <5> QED
          BY <3>0a, <5>1
      <4>2. callers[k].site.to = FnOf(k + 1)
        BY <1>5a, <4>1 DEF Linked
      <4> QED
        BY <1>1, <1>7, <4>1, <4>2
    <3> QED
      BY <1>1, <1>7, <3>1, <3>2 DEF Linked
  <2>4. Chained'
    <3> SUFFICES ASSUME NEW k \in DOMAIN callers', NEW j \in 2 .. Running', k < j
                 PROVE  Reaches(callers'[k].site.to, FnOf(j)')
      BY DEF Chained
    <3>1. k \in DOMAIN callers /\ j \in 2 .. Running /\ j \in 1 .. Running'
      BY <1>1, <1>7, StateTypes
    <3> QED
      BY <1>1, <1>7, <3>1 DEF Chained
  <2>5. Heights'
    <3>1. \A k \in 1 .. Running' : Below(k)' = Below(k)
      BY <1>1, <1>7, StateTypes DEF Below
    <3>2. Pending' = IF Pushes(callers[Len(callers)].site) THEN 1 ELSE 0
      BY <1>1, <1>7, RoutinesAssumption DEF Pending
    <3>3. Len(saved) = callers[Len(callers)].sp
      <4>1. Below(Running) = callers[Len(callers)].sp
        BY <1>1, <1>7, StateTypes DEF Below
      <4> QED
        BY <1>1, <1>5, <4>1, SavedBelow
    <3>4. Len(saved)' = Below(Running)' + Pending'
      <4>1. callers[Len(callers)].sp = Below(Len(callers))
                                      + (IF Pushes(callers[Len(callers)].site) THEN 1 ELSE 0)
        BY <1>1, <1>7 DEF Heights
      <4>2. Running' \in 1 .. Running'
        BY <1>1, <1>7, StateTypes
      <4>3. Below(Running)' = Below(Len(callers))
        BY <1>1, <1>7, <4>2 DEF Below
      <4> QED
        BY <1>2, <3>2, <3>3, <4>1, <4>3
    <3>5. \A k \in DOMAIN callers' : k \in DOMAIN callers /\ k \in 1 .. Running'
      BY <1>1, <1>7, StateTypes
    <3>6. \A k \in DOMAIN callers' :
            callers'[k].sp = Below(k)' + (IF Pushes(callers'[k].site) THEN 1 ELSE 0)
      BY <1>1, <1>7, <3>1, <3>5 DEF Heights
    <3>7. \A i, k \in DOMAIN callers' : i <= k => callers'[i].sp <= callers'[k].sp
      BY <1>1, <1>7, <3>5 DEF Heights
    <3> QED
      BY <3>4, <3>6, <3>7 DEF Heights
  <2>6. ASSUME NEW k \in 1 .. Running'
        PROVE  /\ FrameOf(k)' \in Frame(FnOf(k)')
               /\ FrameOf(k)'.ra = IF k = 1 THEN NoSite ELSE callers'[k - 1].site
    <3>1. /\ k \in 1 .. Running /\ FnOf(k)' = FnOf(k)
          /\ k # 1 => callers'[k - 1] = callers[k - 1]
      BY <1>1, <1>7, StateTypes
    <3>2. /\ FrameOf(k) \in Frame(FnOf(k))
          /\ FrameOf(k).ra = IF k = 1 THEN NoSite ELSE callers'[k - 1].site
      BY <1>1, <3>1 DEF FramesTyped, ReturnsToCaller
    <3>3. CASE k = Running'
      <4>1. FnOf(k) = call'.from
        BY <1>1, <1>7, <3>1, <3>3, StateTypes DEF FnOf
      <4>2. FrameOf(k) \in Frame(call'.from) /\ call' \in Sites
        BY <1>1, <1>7, <3>2, <4>1
      <4> DEFINE w == [FrameOf(k) EXCEPT !.v =
                         Answered(@, call', Eval(Answer[fn], mem[fn].v))]
      <4>3. w \in Frame(call'.from) /\ w.ra = FrameOf(k).ra
        BY <1>3, <4>2, AnsweredTyped
      <4>4. FrameOf(k)' = w
        BY <1>1, <1>7, <3>3
      <4> QED
        BY <3>1, <3>2, <4>1, <4>3, <4>4
    <3>4. CASE k # Running'
      <4>1. k \in DOMAIN callers'
        BY <1>1, <1>7, <3>4, StateTypes
      <4> QED
        BY <1>1, <1>7, <3>1, <3>2, <4>1
    <3> QED
      BY <3>3, <3>4
  <2>7. FramesTyped' /\ ReturnsToCaller'
    BY <2>6 DEF FramesTyped, ReturnsToCaller, Frame
  <2>8. Assigned'
    BY <1>1, <1>7 DEF Assigned
  <2> QED
    BY <1>7, <2>2, <2>3, <2>4, <2>5, <2>7, <2>8
<1> QED
  BY <1>6, <1>7

---------------------------------------------------------------------------
(* The caller has its frame back, and the answer in it. *)

LEMMA BackFrames ==
  ASSUME IInv, Back
  PROVE  /\ fn # NoFunction /\ callers' = callers /\ fn' = fn
         /\ \A k \in 1 .. Running : FrameOf(k)' = FrameOf(k)
<1> USE DEF IInv
<1>1. /\ callers' = callers /\ fn' = fn /\ phase = "back" /\ phase' = "run"
      /\ mem' = [mem EXCEPT ![fn] = Resumed(fn)]
  BY DEF Back
<1>2. fn # NoFunction /\ fn \in Functions /\ call # NoSite
  BY <1>1 DEF TypeOK
<1>3. mem'[fn] = Resumed(fn) /\ \A f \in Functions \ {fn} : mem'[f] = mem[f]
  BY <1>1, <1>2 DEF TypeOK
<1>4. \A n \in 1 .. Below(Running) : saved'[n] = saved[n]
  <2>1. saved \in Seq(AllFrames)
    BY DEF TypeOK, AllFrames
  <2>2. Below(Running) \in Nat /\ (Pushes(call) => Len(saved) = Below(Running) + 1)
    BY <1>2, SavedBelow
  <2> QED
    BY <2>1, <2>2 DEF Back
<1>5. ASSUME NEW k \in 1 .. Running PROVE FrameOf(k)' = FrameOf(k)
  <2>1. CASE k = Running
    BY <1>1, <1>3, <2>1, SameCalls, StateTypes DEF FrameOf
  <2>2. CASE k # Running
    <3>1. k \in DOMAIN callers /\ k < Running /\ FnOf(k) \in Functions
      BY <2>2, StateTypes DEF FnOf
    <3>2. ASSUME ~Pushes(callers[k].site) PROVE mem'[FnOf(k)] = mem[FnOf(k)]
      <4>1. Running \in 2 .. Running /\ FnOf(Running) = fn
        BY <3>1, StateTypes DEF FnOf
      <4>2. FnOf(k) # fn
        BY <1>2, <3>1, <3>2, <4>1, SharedPushed
      <4> QED
        BY <1>3, <3>1, <4>2
    <3>3. Pushes(callers[k].site) => saved'[callers[k].sp] = saved[callers[k].sp]
      BY <1>2, <1>4, <3>1, SavedBelow
    <3> QED
      BY <1>1, <3>1, <3>2, <3>3, SameCalls DEF FrameOf
  <2> QED
    BY <2>1, <2>2
<1> QED
  BY <1>1, <1>2, <1>5

LEMMA BackInv == ASSUME IInv, Back PROVE IInv'
<1> USE DEF IInv
<1>1. /\ fn # NoFunction /\ callers' = callers /\ fn' = fn
      /\ \A k \in 1 .. Running : FrameOf(k)' = FrameOf(k)
  BY BackFrames
<1>2. /\ ret' = ret /\ next' = next /\ call' = NoSite /\ phase' = "run" /\ phase = "back"
      /\ mem' = [mem EXCEPT ![fn] = Resumed(fn)]
      /\ saved' = IF Pushes(call) THEN SubSeq(saved, 1, Len(saved) - 1) ELSE saved
  BY DEF Back
<1>3. fn \in Functions /\ call # NoSite
  BY <1>1, <1>2 DEF TypeOK
<1>4. saved \in Seq(AllFrames)
  BY DEF TypeOK, AllFrames
<1>5. /\ Below(Running) \in Nat
      /\ Pushes(call) => Len(saved) = Below(Running) + 1
      /\ ~Pushes(call) => Len(saved) = Below(Running)
  BY <1>1, <1>3, SavedBelow
<1>6. saved' \in Seq(AllFrames) /\ Len(saved') = Below(Running)
  <2>1. CASE Pushes(call)
    <3>1. Len(saved) \in DOMAIN saved
      BY <1>5, <2>1, StateTypes
    <3>2. SubSeq(saved, 1, Len(saved) - 1) \in Seq(AllFrames)
      BY <1>4, <3>1, FrontTyped
    <3>3. Len(SubSeq(saved, 1, Len(saved) - 1)) = Len(saved) - 1
      BY <1>4, <3>1, StateTypes
    <3> QED
      BY <1>2, <1>5, <2>1, <3>2, <3>3
  <2>2. CASE ~Pushes(call)
    BY <1>2, <1>4, <1>5, <2>2
  <2> QED
    BY <2>1, <2>2
<1>7. mem'[fn] \in Frame(fn)
  <2>1. Running \in 1 .. Running /\ FnOf(Running) = fn /\ FrameOf(Running) = Resumed(fn)
    BY <1>2, StateTypes DEF FnOf, FrameOf
  <2>2. mem'[fn] = Resumed(fn)
    BY <1>2, <1>3 DEF TypeOK
  <2> QED
    BY <1>1, <2>1, <2>2 DEF FramesTyped
<1>8. TypeOK'
  <2>1. mem' \in [Functions -> AllFrames] /\ \A f \in Functions : mem'[f] \in Frame(f)
    <3>1. \A f \in Functions : mem'[f] \in Frame(f)
      BY <1>2, <1>3, <1>7 DEF TypeOK
    <3>2. DOMAIN mem' = Functions /\ mem' = [f \in Functions |-> mem'[f]]
      BY <1>2 DEF TypeOK
    <3> QED
      BY <3>1, <3>2 DEF AllFrames
  <2> QED
    BY <1>1, <1>2, <1>6, <2>1 DEF TypeOK, AllFrames
<1>9. Linked' /\ Chained'
  BY <1>1, <1>2, SameCalls DEF Linked
<1>10. Heights'
  <2>1. Pending' = 0
    BY <1>2 DEF Pending
  <2>2. Below(Running)' = Below(Running)
    BY <1>1 DEF Running, Below
  <2> QED
    BY <1>1, <1>5, <1>6, <2>1, <2>2, SameCalls DEF Heights
<1>11. FramesTyped' /\ ReturnsToCaller'
  BY <1>1, SameCalls DEF FramesTyped, ReturnsToCaller, Frame
<1>12. Assigned'
  BY <1>2 DEF Assigned
<1> QED
  BY <1>1, <1>8, <1>9, <1>10, <1>11, <1>12

---------------------------------------------------------------------------
(* The theorems. *)

LEMMA InitInv == Init => IInv
<1> SUFFICES ASSUME Init PROVE IInv
  OBVIOUS
<1>1. /\ ret \in [Functions -> Values] /\ saved = << >> /\ callers = << >>
      /\ fn = Main /\ call = NoSite /\ phase = "run" /\ next = 1
  BY DEF Init
<1>2. PICK v \in [Functions -> UNION { Contents(f) : f \in Functions }] :
        /\ \A f \in Functions : v[f] \in Contents(f)
        /\ mem = [f \in Functions |-> [ra |-> NoSite, v |-> v[f]]]
  BY DEF Init
<1>3. \A f \in Functions : mem[f] \in Frame(f) /\ mem[f].ra = NoSite
  BY <1>2 DEF Frame
<1>4. Main \in Functions /\ fn # NoFunction
  BY <1>1, RoutinesAssumption, NoFunctionAssumption
<1>5. Running = 1 /\ FnOf(1) = fn /\ FrameOf(1) = mem[fn] /\ DOMAIN callers = {}
  BY <1>1 DEF Running, FnOf, FrameOf
<1>6. TypeOK
  <2>1. mem \in [Functions -> AllFrames]
    <3>1. DOMAIN mem = Functions /\ mem = [f \in Functions |-> mem[f]]
      BY <1>2
    <3> QED
      BY <1>3, <3>1 DEF AllFrames
  <2>2. saved \in Seq(AllFrames) /\ callers \in Seq([site : Sites, sp : Nat])
    BY <1>1
  <2>3. /\ ret \in [Functions -> Values]
        /\ fn \in Functions \cup {NoFunction}
        /\ call \in Sites \cup {NoSite}
        /\ phase \in {"run", "args", "back"} /\ (phase = "run" <=> call = NoSite)
        /\ phase # "run" => fn # NoFunction
        /\ next \in Nat
    BY <1>1, <1>4
  <2> QED
    BY <1>3, <2>1, <2>2, <2>3 DEF TypeOK, AllFrames
<1>7. Linked /\ Chained
  BY <1>1, <1>5 DEF Linked, Chained
<1>8. Heights
  BY <1>1, <1>5 DEF Heights, Below, Pending
<1>9. FramesTyped /\ ReturnsToCaller
  BY <1>1, <1>3, <1>4, <1>5 DEF FramesTyped, ReturnsToCaller
<1> QED
  BY <1>1, <1>6, <1>7, <1>8, <1>9 DEF IInv, Assigned

LEMMA NextInv == IInv /\ [Next]_vars => IInv'
<1> SUFFICES ASSUME IInv, [Next]_vars PROVE IInv'
  OBVIOUS
<1>1. CASE Set
  BY <1>1, SetInv
<1>2. CASE \E s \in Sites : Begin(s)
  BY <1>2, BeginInv
<1>3. CASE AssignArg
  BY <1>3, AssignArgInv
<1>4. CASE Enter
  BY <1>4, EnterInv
<1>5. CASE Return
  BY <1>5, ReturnInv
<1>6. CASE Back
  BY <1>6, BackInv
<1>7. CASE UNCHANGED vars
  <2>1. callers' = callers /\ fn' = fn /\ mem' = mem /\ saved' = saved
        /\ call' = call /\ phase' = phase /\ next' = next /\ ret' = ret
    BY <1>7 DEF vars
  <2>2. \A k : FrameOf(k)' = FrameOf(k)
    BY <2>1 DEF FrameOf, FnOf, Running, Resumed, Popped
  <2>3. TypeOK'
    BY <2>1 DEF IInv, TypeOK
  <2>4. fn # NoFunction => Linked' /\ Chained' /\ Heights'
    BY <2>1, SameCalls DEF IInv, Linked, Heights, Pending
  <2>5. fn # NoFunction => FramesTyped' /\ ReturnsToCaller'
    BY <2>1, <2>2, SameCalls DEF IInv, FramesTyped, ReturnsToCaller, Frame
  <2>6. fn # NoFunction => Assigned'
    <3>1. FrameOf(Running)' = FrameOf(Running)
      BY <2>1 DEF FrameOf, FnOf, Running, Resumed, Popped
    <3> QED
      BY <2>1, <3>1 DEF IInv, Assigned
  <2> QED
    BY <2>1, <2>3, <2>4, <2>5, <2>6 DEF IInv
<1> QED
  BY <1>1, <1>2, <1>3, <1>4, <1>5, <1>6, <1>7 DEF Next

THEOREM Invariance == Spec => []IInv
  BY InitInv, NextInv, PTL DEF Spec

(* Frames, answers, the run-time stack and the return addresses keep their *)
(* types (gen.py, ccpu/code.py, ccpu/stack.py).                            *)
THEOREM Types == Spec => []TypeOK
<1>1. IInv => TypeOK
  BY DEF IInv
<1> QED
  BY <1>1, Invariance, PTL

(* Of the activations of one function, all but the latest have pushed      *)
(* their frame: the call graph found every call that came back             *)
(* (isRecursive).                                                          *)
THEOREM OwnFrames == Spec => []FramesApart
<1>1. IInv => FramesApart
  <2> SUFFICES ASSUME IInv, fn # NoFunction, NEW i \in DOMAIN callers,
                      NEW j \in i + 1 .. Running, FnOf(j) = FnOf(i)
               PROVE  Pushes(callers[i].site)
    BY DEF FramesApart
  <2>1. TypeOK /\ Chained
    BY DEF IInv
  <2>2. j \in 2 .. Running /\ i < j
    BY <2>1, StateTypes
  <2> QED
    BY <2>1, <2>2, SharedPushed
<1> QED
  BY <1>1, Invariance, PTL

(* Every call returns to its caller, whatever was called in between: a     *)
(* return address is never lost to a later call of the same function       *)
(* (genFunctionPrologue, genReturn, genPushLocals, genPopLocals).          *)
THEOREM RightReturns == Spec => []ReturnsToCaller
<1>1. IInv => ReturnsToCaller
  BY DEF IInv, ReturnsToCaller
<1> QED
  BY <1>1, Invariance, PTL

---------------------------------------------------------------------------
(* The convention implements Activations. *)

LEMMA LengthOf ==
  ASSUME NEW n \in Nat, NEW S, NEW s \in [1 .. n -> S]
  PROVE  s \in Seq(S) /\ Len(s) = n
OBVIOUS

ActOf(k) ==
  [fn |-> FnOf(k), v |-> FrameOf(k).v,
   at |-> IF k = Running THEN NoSite ELSE callers[k].site]

LEMMA ActsAre ==
  ASSUME IInv, fn # NoFunction
  PROVE  /\ Acts = [k \in 1 .. Running |-> ActOf(k)]
         /\ Running \in Nat /\ Running = Len(callers) + 1
         /\ DOMAIN callers = 1 .. Len(callers)
         /\ Len(Acts) = Running /\ Acts # << >>
         /\ Acts[Running] = [fn |-> fn, v |-> FrameOf(Running).v, at |-> NoSite]
<1>1. Acts = [k \in 1 .. Running |-> ActOf(k)]
  BY DEF Acts, ActOf
<1>2. Running \in Nat \ {0} /\ Running = Len(callers) + 1 /\ DOMAIN callers = 1 .. Len(callers)
  BY StateTypes DEF IInv
<1>3. Len(Acts) = Running
  <2> DEFINE S == { ActOf(k) : k \in 1 .. Running }
  <2>1. Acts \in [1 .. Running -> S]
    BY <1>1
  <2> QED
    BY <1>2, <2>1, LengthOf
<1>4. Acts # << >>
  BY <1>2, <1>3
<1>5. Acts[Running] = [fn |-> fn, v |-> FrameOf(Running).v, at |-> NoSite]
  BY <1>1, <1>2 DEF ActOf, FnOf
<1> QED
  BY <1>1, <1>2, <1>3, <1>4, <1>5

LEMMA ActsNext ==
  ASSUME fn' # NoFunction
  PROVE  Acts' = [k \in 1 .. Running' |-> ActOf(k)']
BY DEF Acts, ActOf

(* Where only the work on a call goes on, the activations stay. *)
LEMMA ActsSame ==
  ASSUME IInv, IInv', fn # NoFunction, callers' = callers, fn' = fn,
         \A k \in 1 .. Running : FrameOf(k)' = FrameOf(k)
  PROVE  Acts' = Acts
<1>1. Running' = Running /\ \A k : FnOf(k)' = FnOf(k)
  BY SameCalls
<1>2. \A k \in 1 .. Running : ActOf(k)' = ActOf(k)
  BY <1>1 DEF ActOf
<1>3. Acts' = [k \in 1 .. Running |-> ActOf(k)']
  BY <1>1, ActsNext
<1> QED
  BY <1>2, <1>3, ActsAre

LEMMA SetImplements == ASSUME IInv, IInv', Set PROVE Promise!Set
<1>1. PICK x \in Vars[fn], value \in Values : mem' = [mem EXCEPT ![fn].v[x] = value]
  BY DEF Set
<1>2. /\ fn # NoFunction /\ callers' = callers /\ fn' = fn
      /\ \A k \in DOMAIN callers : FrameOf(k)' = FrameOf(k)
      /\ \A k : k = Running => FrameOf(k)'.v = [FrameOf(k).v EXCEPT ![x] = value]
  <2>1. /\ fn # NoFunction /\ callers' = callers /\ fn' = fn
        /\ mem'[fn].v = [mem[fn].v EXCEPT ![x] = value]
        /\ \A k \in DOMAIN callers : FrameOf(k)' = FrameOf(k)
        /\ \A k : k = Running => FrameOf(k)' = mem'[fn] /\ FrameOf(k) = mem[fn]
    BY <1>1, SetFrames
  <2> QED
    BY <2>1
<1>3. Running' = Running /\ \A k : FnOf(k)' = FnOf(k)
  BY <1>2, SameCalls
<1>4. Acts' = [Acts EXCEPT ![Running].v[x] = value]
  <2>1. \A k \in 1 .. Running : k # Running => ActOf(k)' = ActOf(k)
    <3>1. \A k \in 1 .. Running : k # Running => k \in DOMAIN callers
      BY <1>2, ActsAre
    <3> QED
      BY <1>2, <1>3, <3>1 DEF ActOf
  <2>2. \A k : k = Running => ActOf(k)' = [ActOf(k) EXCEPT !.v[x] = value]
    BY <1>2, <1>3 DEF ActOf
  <2>3. Acts' = [k \in 1 .. Running |-> ActOf(k)']
    BY <1>2, <1>3, ActsNext
  <2>4. Acts = [k \in 1 .. Running |-> ActOf(k)] /\ Running \in 1 .. Running
    BY <1>2, ActsAre
  <2>5. [Acts EXCEPT ![Running].v[x] = value]
        = [k \in 1 .. Running |->
             IF k = Running THEN [ActOf(k) EXCEPT !.v[x] = value] ELSE ActOf(k)]
    BY <2>4
  <2> QED
    BY <2>1, <2>2, <2>3, <2>5
<1>5. Promise!Top.fn = fn /\ Len(Acts) = Running /\ Acts # << >>
  BY <1>2, ActsAre DEF Promise!Top
<1> QED
  BY <1>4, <1>5 DEF Promise!Set

LEMMA EnterImplements == ASSUME IInv, IInv', Enter PROVE Promise!Call
<1> DEFINE s == call
           v == mem'[s.to].v
<1>1. /\ fn # NoFunction /\ fn' # NoFunction /\ s \in Sites /\ s.from = fn
      /\ Running' = Running + 1
      /\ \A k \in DOMAIN callers : callers'[k] = callers[k]
      /\ callers'[Running] = Caller(s, Len(saved))
      /\ \A k \in 1 .. Running : FnOf(k)' = FnOf(k) /\ FrameOf(k)' = FrameOf(k)
      /\ \A k : k = Running' => FnOf(k)' = s.to /\ FrameOf(k)' = mem'[s.to]
      /\ mem'[s.to] = [mem[s.to] EXCEPT !.ra = s]
  BY EnterFrames
<1>2. mem[s.to] \in Frame(s.to)
  BY <1>1, RoutinesAssumption DEF IInv, TypeOK
<1>3. v = mem[s.to].v /\ v \in Contents(s.to)
  BY <1>1, <1>2 DEF Frame
<1>4. \A n \in 1 .. Len(s.args) : v[n] = Eval(s.args[n], FrameOf(Running).v)
  <2>1. TypeOK /\ Assigned /\ phase = "args" /\ next > Len(s.args)
    BY <1>1 DEF Enter, IInv
  <2>2. Len(s.args) \in Nat /\ next \in Nat
    BY <1>1, <2>1, StateTypes DEF TypeOK
  <2>3. \A n \in 1 .. Len(s.args) : n \in 1 .. next - 1
    BY <2>1, <2>2
  <2> QED
    BY <1>1, <1>3, <2>1, <2>3 DEF Assigned
<1>5. Acts' = Append([Acts EXCEPT ![Running].at = s],
                     [fn |-> s.to, v |-> v, at |-> NoSite])
  <2>1. ASSUME NEW k \in 1 .. Running, k # Running
        PROVE  ActOf(k)' = ActOf(k)
    <3>1. k \in DOMAIN callers /\ k # Running'
      BY <1>1, <2>1, ActsAre
    <3> QED
      BY <1>1, <2>1, <3>1 DEF ActOf
  <2>2. \A k : k = Running => ActOf(k)' = [ActOf(k) EXCEPT !.at = s]
    BY <1>1, ActsAre DEF ActOf, Caller
  <2>3. \A k : k = Running' => ActOf(k)' = [fn |-> s.to, v |-> v, at |-> NoSite]
    BY <1>1 DEF ActOf
  <2>4. Acts' = [k \in 1 .. Running + 1 |-> ActOf(k)']
    BY <1>1, ActsNext
  <2> DEFINE A == [Acts EXCEPT ![Running].at = s]
             e == [fn |-> s.to, v |-> v, at |-> NoSite]
  <2>5. Len(A) = Running /\ A = [k \in 1 .. Running |-> ActOf(k)']
    <3>1. A = [k \in 1 .. Running |-> ActOf(k)']
      <4>1. Acts = [k \in 1 .. Running |-> ActOf(k)] /\ Running \in Nat
        BY <1>1, ActsAre
      <4>2. A = [k \in 1 .. Running |->
                   IF k = Running THEN [ActOf(k) EXCEPT !.at = s] ELSE ActOf(k)]
        BY <4>1
      <4> QED
        BY <2>1, <2>2, <4>2
    <3>2. A \in [1 .. Running -> { ActOf(k)' : k \in 1 .. Running }]
      BY <3>1
    <3> QED
      BY <1>1, <3>1, <3>2, ActsAre, LengthOf
  <2>6. Append(A, e) = [k \in 1 .. Running + 1 |-> IF k = Running + 1 THEN e ELSE A[k]]
    BY <1>1, <2>5, ActsAre
  <2>7. Running \in Nat /\ \A k : k = Running + 1 => ActOf(k)' = e
    BY <1>1, <2>3, ActsAre
  <2> HIDE DEF e, A
  <2>8. Append(A, e) = [k \in 1 .. Running + 1 |-> ActOf(k)']
    BY <2>5, <2>6, <2>7
  <2> QED
    BY <2>4, <2>8 DEF A, e
<1>6. Promise!Top = [fn |-> fn, v |-> FrameOf(Running).v, at |-> NoSite]
  BY <1>1, ActsAre DEF Promise!Top
<1>7. v \in Promise!Contents(s.to)
  BY <1>3 DEF Contents, Promise!Contents
<1>8. Promise!Activation(s.to, v, NoSite) = [fn |-> s.to, v |-> v, at |-> NoSite]
  BY DEF Promise!Activation
<1>9. Len(Acts) = Running /\ Acts # << >>
  BY <1>1, ActsAre
<1> HIDE DEF v, s
<1>10. /\ s.from = Promise!Top.fn
       /\ \A n \in 1 .. Len(s.args) : v[n] = Eval(s.args[n], Promise!Top.v)
       /\ Acts' = Append([Acts EXCEPT ![Len(Acts)].at = s],
                         Promise!Activation(s.to, v, NoSite))
  BY <1>1, <1>4, <1>5, <1>6, <1>8, <1>9
<1> QED
  BY <1>1, <1>7, <1>9, <1>10 DEF Promise!Call

LEMMA ReturnImplements == ASSUME IInv, IInv', Return PROVE Promise!Return
<1> DEFINE answer == Eval(Answer[fn], mem[fn].v)
<1>1. /\ fn # NoFunction
      /\ Promise!Top.fn = fn /\ Promise!Top.v = mem[fn].v
      /\ Len(Acts) = Running /\ Acts # << >>
      /\ Acts = [k \in 1 .. Running |-> ActOf(k)]
      /\ Running \in Nat /\ Running = Len(callers) + 1
  BY ReturnFrames, ActsAre DEF Promise!Top
<1>2. Acts' = [k \in 1 .. Running - 1 |->
                IF k < Running - 1 THEN Acts[k]
                ELSE [fn |-> Acts[k].fn,
                      v |-> Promise!Answered(Acts[k].v, Acts[k].at, answer),
                      at |-> NoSite]]
  <2>1. CASE fn' = NoFunction
    <3>1. Running = 1
      BY <1>1, <2>1, ReturnFrames
    <3>2. Acts' = << >>
      BY <2>1 DEF Acts
    <3> QED
      BY <3>1, <3>2
  <2>2. CASE fn' # NoFunction
    <3> DEFINE r == Len(callers)
    <3>1. /\ r \in DOMAIN callers /\ Running' = r
          /\ call' = callers[r].site
          /\ \A k \in 1 .. r : FnOf(k)' = FnOf(k)
          /\ \A k \in DOMAIN callers' : callers'[k] = callers[k]
          /\ DOMAIN callers' = 1 .. r - 1
          /\ \A k \in 1 .. r - 1 : FrameOf(k)' = FrameOf(k)
          /\ \A k : k = r =>
               FrameOf(k)' = [FrameOf(k) EXCEPT !.v = Answered(@, callers[k].site, answer)]
      BY <1>1, <2>2, ReturnFrames
    <3>2. \A k \in 1 .. r - 1 : ActOf(k)' = ActOf(k)
      BY <1>1, <3>1 DEF ActOf
    <3>3. ASSUME NEW k, k = r
          PROVE  ActOf(k)' = [fn |-> ActOf(k).fn,
                              v |-> Answered(ActOf(k).v, ActOf(k).at, answer),
                              at |-> NoSite]
      <4>1. FrameOf(k) \in Frame(FnOf(k))
        BY <1>1, <3>1, <3>3 DEF IInv, FramesTyped
      <4>2. FrameOf(k)'.v = Answered(FrameOf(k).v, callers[k].site, answer)
        BY <3>1, <3>3, <4>1 DEF Frame
      <4> QED
        BY <1>1, <3>1, <3>3, <4>2 DEF ActOf
    <3>4. Acts' = [k \in 1 .. r |-> ActOf(k)']
      BY <2>2, <3>1, ActsNext
    <3>5. \A u, w, x : Promise!Answered(u, w, x) = Answered(u, w, x)
      BY DEF Answered, Promise!Answered
    <3> QED
      BY <1>1, <3>1, <3>2, <3>3, <3>4, <3>5
  <2> QED
    BY <2>1, <2>2
<1> QED
  BY <1>1, <1>2 DEF Promise!Return, Promise!Activation

LEMMA InitImplements == ASSUME Init, IInv PROVE Promise!Init
<1>1. callers = << >> /\ fn = Main /\ phase = "run"
  BY DEF Init
<1>2. fn # NoFunction /\ Running = 1
  BY <1>1, RoutinesAssumption, NoFunctionAssumption DEF Running
<1>3. FrameOf(1) = mem[Main] /\ mem[Main].v \in Contents(Main)
  BY <1>1, <1>2, RoutinesAssumption DEF FrameOf, IInv, TypeOK, Frame
<1>4. Acts = [k \in 1 .. 1 |-> [fn |-> Main, v |-> mem[Main].v, at |-> NoSite]]
  BY <1>1, <1>2, <1>3, ActsAre DEF ActOf, FnOf
<1>5. Acts = << [fn |-> Main, v |-> mem[Main].v, at |-> NoSite] >>
  BY <1>4
<1> QED
  BY <1>3, <1>5 DEF Promise!Init, Promise!Activation, Promise!Contents, Contents

LEMMA NextImplements == IInv /\ IInv' /\ [Next]_vars => [Promise!Next]_Acts
<1> SUFFICES ASSUME IInv, IInv', [Next]_vars PROVE [Promise!Next]_Acts
  OBVIOUS
<1>1. CASE Set
  BY <1>1, SetImplements DEF Promise!Next
<1>2. CASE \E s \in Sites : Begin(s)
  BY <1>2, BeginFrames, ActsSame
<1>3. CASE AssignArg
  BY <1>3, AssignArgFrames, ActsSame
<1>4. CASE Enter
  BY <1>4, EnterImplements DEF Promise!Next
<1>5. CASE Return
  BY <1>5, ReturnImplements DEF Promise!Next
<1>6. CASE Back
  BY <1>6, BackFrames, ActsSame
<1>7. CASE UNCHANGED vars
  BY <1>7 DEF vars, Acts, FrameOf, FnOf, Running, Resumed, Popped
<1> QED
  BY <1>1, <1>2, <1>3, <1>4, <1>5, <1>6, <1>7 DEF Next

(* Every program whose functions share static frames runs as if each call  *)
(* had variables of its own: the arguments are what they were worth when   *)
(* the call was made, although they are assigned one by one into the       *)
(* callee's frame, and the answer is put into the caller's variables.      *)
THEOREM Refinement == Spec => Implements
<1>1. Init /\ IInv => Promise!Init
  BY InitImplements
<1>2. IInv /\ IInv' /\ [Next]_vars => [Promise!Next]_Acts
  BY NextImplements
<1> QED
  BY <1>1, <1>2, Invariance, PTL DEF Spec, Implements, Promise!Spec
=============================================================================
