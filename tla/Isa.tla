-------------------------------- MODULE Isa --------------------------------
(***************************************************************************)
(* The instruction set of the ccpu, one instruction per step, as the       *)
(* emulator tools/rsim executes it (instruction.rs decodes, machine.rs     *)
(* executes).  It is the abstract specification of the processor: module   *)
(* Cpu implements it one clock edge at a time.                             *)
(*                                                                         *)
(* Memory is populated at the addresses Cells; a read elsewhere sees       *)
(* OpenBus and a write elsewhere is lost, as on the machine's bus; the     *)
(* emulator stops there with an error instead.  The ALU is the operator    *)
(* AluOut(op, x, y, carry), which module Alu gives; here only its type     *)
(* matters.                                                                *)
(***************************************************************************)
EXTENDS Integers

CONSTANTS
  Cells,             (* the populated addresses                        *)
  OpenBus,           (* the byte read from an address nothing drives   *)
  AluOut(_, _, _, _) (* op, first and second operand, carry flag       *)

Byte == 0 .. 255
AddrSpace == 256 * 256
Addr == 0 .. AddrSpace - 1
Flags == [0 .. 3 -> BOOLEAN]   (* Z, C, S, O: the order of jc_flag *)

VARIABLES
  state,  (* the programmer's registers: ip, a, b, p and the flags *)
  mem     (* the contents of the populated addresses               *)

vars == <<state, mem>>

Regs == [ip : Addr, a : Byte, b : Byte, p : Addr, flags : Flags]

TypeOK ==
  /\ state \in Regs
  /\ mem \in [Cells -> Byte]

---------------------------------------------------------------------------
(* Decoding (instruction.rs). *)

BitAt(op, weight) == (op \div weight) % 2
IsAlu(op) == op \div 128 = 0
IsLd(op)  == op \div 32 = 4
IsSt(op)  == op \div 32 = 5
IsLdi(op) == op \div 32 = 6
IsJc(op)  == op \div 32 = 7 /\ BitAt(op, 8) = 0
IsJmp(op) == op \div 32 = 7 /\ BitAt(op, 8) = 1 /\ BitAt(op, 4) = 0
IsNop(op) == op \div 32 = 7 /\ BitAt(op, 8) = 1 /\ BitAt(op, 4) = 1
AluOp(op) == (op \div 8) % 16
Operand(op) == op % 4            (* A, B, PL, PH *)
Inverse(op) == BitAt(op, 4) = 1

MOV == 8

---------------------------------------------------------------------------
(* Registers and memory. *)

Succ(x) == (x + 1) % AddrSpace
Lo(x) == x % 256
Hi(x) == x \div 256
WithLo(x, v) == 256 * Hi(x) + v
WithHi(x, v) == 256 * v + Lo(x)

ReadMem(m, x) == IF x \in Cells THEN m[x] ELSE OpenBus
WriteMem(m, x, v) == IF x \in Cells THEN [m EXCEPT ![x] = v] ELSE m

(* set_reg *)
WithReg(s, r, v) ==
  CASE r = 0 -> [s EXCEPT !.a = v]
    [] r = 1 -> [s EXCEPT !.b = v]
    [] r = 2 -> [s EXCEPT !.p = WithLo(@, v)]
    [] OTHER -> [s EXCEPT !.p = WithHi(@, v)]

(* get_alu_b: register A as the second operand stands for zero *)
AluB(s, r) ==
  CASE r = 0 -> 0
    [] r = 1 -> s.b
    [] r = 2 -> Lo(s.p)
    [] OTHER -> Hi(s.p)

Opcode == ReadMem(mem, state.ip)
Immediate == ReadMem(mem, Succ(state.ip))

(* An instruction that falls through leaves s with the next address in ip. *)
FallThrough(s) == [s EXCEPT !.ip = Succ(state.ip)]

---------------------------------------------------------------------------
(* One action per instruction class (machine.rs, State::step). *)

Init ==
  /\ state = [ip |-> 0, a |-> 0, b |-> 0, p |-> 0,
              flags |-> [f \in 0 .. 3 |-> FALSE]]
  /\ mem \in [Cells -> Byte]

StepAlu ==
  /\ IsAlu(Opcode)
  /\ LET arg == AluB(state, Operand(Opcode))
         out == IF Inverse(Opcode)
                  THEN AluOut(AluOp(Opcode), arg, state.a, state.flags[1])
                  ELSE AluOut(AluOp(Opcode), state.a, arg, state.flags[1])
         dest == IF Inverse(Opcode) THEN Operand(Opcode) ELSE 0
         flags == IF AluOp(Opcode) = MOV THEN state.flags ELSE out.flags
     IN  state' = [FallThrough(WithReg(state, dest, out.r))
                     EXCEPT !.flags = flags]
  /\ UNCHANGED mem

StepLd ==
  /\ IsLd(Opcode)
  /\ state' = FallThrough(WithReg(state, Operand(Opcode),
                                  ReadMem(mem, state.p)))
  /\ UNCHANGED mem

StepLdi ==
  /\ IsLdi(Opcode)
  /\ state' = [WithReg(state, Operand(Opcode), Immediate)
                 EXCEPT !.ip = Succ(Succ(state.ip))]
  /\ UNCHANGED mem

StepSt ==
  /\ IsSt(Opcode)
  /\ mem' = WriteMem(mem, state.p,
                     IF Opcode % 2 = 0 THEN state.a ELSE state.b)
  /\ state' = FallThrough(state)

SwapPointers == [state EXCEPT !.ip = state.p, !.p = Succ(state.ip)]

StepJmp ==
  /\ IsJmp(Opcode)
  /\ state' = SwapPointers
  /\ UNCHANGED mem

StepJc ==
  /\ IsJc(Opcode)
  /\ state' = IF state.flags[Operand(Opcode)] # Inverse(Opcode)
                THEN SwapPointers
                ELSE FallThrough(state)
  /\ UNCHANGED mem

StepNop ==
  /\ IsNop(Opcode)
  /\ state' = FallThrough(state)
  /\ UNCHANGED mem

Next == StepAlu \/ StepLd \/ StepLdi \/ StepSt \/ StepJmp \/ StepJc \/ StepNop

Spec == Init /\ [][Next]_vars

=============================================================================
