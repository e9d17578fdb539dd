----------------------------- MODULE KeyEvents -----------------------------
(***************************************************************************)
(* What a program is promised of the keyboard: every key that is pressed   *)
(* or let go is one event, the events come in order and once, none comes   *)
(* that was not a key's, and a modifier is held if the last event of the   *)
(* keys that have it was that one was pressed.                             *)
(***************************************************************************)
EXTENDS Sequences, Naturals

CONSTANT Actions      \* [key, up]: what the user can do
VARIABLES pressed,    \* what the user did
          events,     \* what the program was told
          modifiers

Held(es) ==
  UNION { { m \in es[n].key.mask : \A later \in n + 1 .. Len(es) : m \notin es[later].key.mask } :
          n \in { n \in DOMAIN es : ~es[n].up } }

Init == pressed = << >> /\ events = << >> /\ modifiers = {}
Press == \E a \in Actions : pressed' = Append(pressed, a) /\ UNCHANGED << events, modifiers >>
Tell == /\ Len(events) < Len(pressed)
        /\ events' = Append(events, pressed[Len(events) + 1])
        /\ modifiers' = Held(events')
        /\ UNCHANGED pressed

Next == Press \/ Tell
Spec == Init /\ [][Next]_<< pressed, events, modifiers >>
=============================================================================
