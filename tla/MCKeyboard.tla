----------------------------- MODULE MCKeyboard -----------------------------
(***************************************************************************)
(* Keyboard with the two keys of a modifier, which share a code.           *)
(***************************************************************************)
EXTENDS Keyboard

MCKeys == { [ext |-> FALSE, code |-> 17, mask |-> {"alt"}],
            [ext |-> TRUE,  code |-> 17, mask |-> {"alt"}] }
MCCommands == { << 237, 4 >> }

=============================================================================
