------------------------------ MODULE Routines ------------------------------
(***************************************************************************)
(* The functions of a program in Natrix and the places where they call     *)
(* each other.  Of a function's body only its call sites are kept: between *)
(* two calls it may put anything into its variables, and at any time it    *)
(* may go to any of its sites or return.  What holds here holds for every  *)
(* program that has these call sites.                                      *)
(***************************************************************************)
EXTENDS Naturals, Sequences

CONSTANTS
  Functions, Main,   \* the functions, and the one the start-up code calls
  Vars,              \* the variables of each: its arguments 1, 2, ..., its locals
  Values,
  Exprs, Eval(_, _), \* expressions, and their value over a function's variables
  Answer,            \* the expression that each function returns
  Sites,             \* call sites: [from, to, args, dest]
  NoVar, NoSite,
  MaxDepth           \* bound: the calls that are outstanding at once

Contents(f) == [Vars[f] -> Values]

ASSUME RoutinesAssumption ==
  /\ Main \in Functions
  /\ NoSite \notin Sites
  /\ MaxDepth \in Nat
  /\ \A f \in Functions :
       /\ NoVar \notin Vars[f]
       /\ \A v \in Contents(f) : Eval(Answer[f], v) \in Values
  /\ \A s \in Sites :
       /\ s.from \in Functions /\ s.to \in Functions
       /\ s.args \in Seq(Exprs)
       /\ 1 .. Len(s.args) \subseteq Vars[s.to]
       /\ s.dest \in Vars[s.from] \cup {NoVar}
       /\ \A n \in 1 .. Len(s.args), v \in Contents(s.from) : Eval(s.args[n], v) \in Values

(* The answer goes into a variable, or nowhere. *)
Answered(v, s, value) == IF s.dest = NoVar THEN v ELSE [v EXCEPT ![s.dest] = value]
=============================================================================
