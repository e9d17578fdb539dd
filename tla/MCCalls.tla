------------------------------ MODULE MCCalls ------------------------------
(***************************************************************************)
(* Two modules.  main calls odd, odd calls itself and even and leaf; even, *)
(* in the other module and declared traitor, calls odd back.               *)
(***************************************************************************)
EXTENDS Calls

MCFunctions == {"main", "odd", "even", "leaf"}
MCVars == [main |-> {1}, odd |-> {1, 2}, even |-> {1}, leaf |-> {1}]
MCValues == {0, 1}
MCExprs == {1, 2}
MCEval(e, v) == v[e]
MCAnswer == [f \in MCFunctions |-> 1]
Site(from, to, args, dest) == [from |-> from, to |-> to, args |-> args, dest |-> dest]
MCSites ==
  { Site("main", "odd",  << 1, 1 >>, 1),
    Site("odd",  "odd",  << 2, 2 >>, 2),
    Site("odd",  "leaf", << 2 >>,    1),
    Site("odd",  "even", << 1 >>,    2),
    Site("even", "odd",  << 1 >>,    0) }
MCModuleOf == [main |-> 1, odd |-> 1, even |-> 2, leaf |-> 1]
MCTraitors == << {"even"}, {"odd"} >>
MCLetters == [f \in MCFunctions |-> {}]
=============================================================================
