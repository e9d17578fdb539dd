---------------------------- MODULE Activations ----------------------------
(***************************************************************************)
(* What a call promises: the callee gets variables of its own, with the    *)
(* arguments as they were worth when it was called, and nothing that it    *)
(* or its callees do touches the variables of those that wait, until the   *)
(* answer is put where the call site says.  Variables that are not         *)
(* arguments start with any value.                                         *)
(***************************************************************************)
EXTENDS Routines

VARIABLE acts     \* the functions that were called and have not returned

Activation(f, v, at) == [fn |-> f, v |-> v, at |-> at]
Top == acts[Len(acts)]

Init == \E v \in Contents(Main) : acts = << Activation(Main, v, NoSite) >>

Set == /\ acts # << >>
       /\ \E x \in Vars[Top.fn], value \in Values :
            acts' = [acts EXCEPT ![Len(acts)].v[x] = value]

Call ==
  /\ acts # << >>
  /\ \E s \in Sites : \E v \in Contents(s.to) :
       /\ s.from = Top.fn
       /\ \A n \in 1 .. Len(s.args) : v[n] = Eval(s.args[n], Top.v)
       /\ acts' = Append([acts EXCEPT ![Len(acts)].at = s], Activation(s.to, v, NoSite))

Return ==
  /\ acts # << >>
  /\ acts' = LET answer == Eval(Answer[Top.fn], Top.v)
             IN  [k \in 1 .. Len(acts) - 1 |->
                    IF k < Len(acts) - 1 THEN acts[k]
                    ELSE Activation(acts[k].fn, Answered(acts[k].v, acts[k].at, answer), NoSite)]

Next == Set \/ Call \/ Return
Spec == Init /\ [][Next]_acts
=============================================================================
