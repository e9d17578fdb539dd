--------------------------- MODULE MCStackFrames ---------------------------
(* main calls f with one argument, and f calls itself. *)
EXTENDS StackFrames

MCFunctions == {"main", "f"}
MCVars == [main |-> {1}, f |-> {1, 2}]
MCArity == [main |-> 0, f |-> 1]
MCValues == {0, 1}
MCExprs == {1, 2}
MCEval(e, v) == v[e]
MCAnswer == [main |-> 1, f |-> 2]
Site(from, to, args, dest) == [from |-> from, to |-> to, args |-> args, dest |-> dest]
MCSites == { Site("main", "f", << 1 >>, 1), Site("f", "f", << 2 >>, 2) }
=============================================================================
