------------------------------- MODULE MCCpu -------------------------------
(***************************************************************************)
(* Cpu on every program of four bytes drawn from Pool, with one cell of    *)
(* RAM and one slow device behind the program.  The bytes are opcodes and  *)
(* operands alike: 6 is the address of the RAM cell and EXP PL, 7 that of  *)
(* the slow device and EXP PH.                                             *)
(***************************************************************************)
EXTENDS Cpu

LDI_PL == 194
LD_A == 128
LD_B == 129
ST_A == 160
ADD_A_B == 73
INC_PL == 94
INC_PH == 95
JMP == 232
JNC == 229

Pool == {LDI_PL, LD_A, LD_B, ST_A, ADD_A_B, INC_PL, INC_PH, JMP, JNC, 7}

Image(prog) == [x \in 0 .. 7 |-> IF x < 4 THEN prog[x] ELSE IF x = 7 THEN LD_A ELSE 255]

MCCells == 0 .. 7
MCImages == {Image(prog) : prog \in [0 .. 3 -> Pool]}
MCSlow == {7}
MCNoise == {0, 255}
MCCode == 0 .. 7

(* The operations of Pool, as rsim's exec_alu; module Alu has all sixteen. *)
Out(r, carry, overflow) ==
  [r |-> r, flags |-> [f \in 0 .. 3 |-> <<r = 0, carry, r > 127, overflow>>[f + 1]]]
MCAluOut(op, x, y, c) ==
  CASE op = 9  -> LET r == (x + y) % 256
                  IN  Out(r, x + y > 255, (x < 128) = (y < 128) /\ (x < 128) # (r < 128))
    [] op = 11 -> Out((x + 1) % 256, x = 255, x = 127)
    [] OTHER   -> Out(IF c THEN 255 ELSE 0, FALSE, FALSE)

=============================================================================
