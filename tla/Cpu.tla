-------------------------------- MODULE Cpu --------------------------------
(***************************************************************************)
(* The processor as model/cpu.v wires it: control_unit.v, the pointer pair *)
(* (pointer_pair.v), the registers A, B, IR and the flags.  A step is one  *)
(* edge of the clock.  Registers latch on the falling edge, the cycle      *)
(* counter moves on the rising edge; an instruction takes two clock        *)
(* periods, LDI four.                                                      *)
(*                                                                         *)
(* RDY is an input.  The latch ff_rdy follows it while the clock is high   *)
(* and only remembers its loss while the clock is low; "waiting" is its    *)
(* output n_cycle_flip_ena as the next edge sees it.  Which accesses may   *)
(* see RDY withheld is the environment: a data access to an address of     *)
(* Slow, and a load of PL or PH among them only if PointerWaits.  A device *)
(* withholds RDY from the start of an access; none withdraws it in the low *)
(* half of a clock period whose high half ended with it present.           *)
(***************************************************************************)
EXTENDS Integers

CONSTANTS
  Cells, OpenBus, AluOut(_, _, _, _),  (* as in Isa                         *)
  Images,        (* what the memory may hold at reset                     *)
  Slow,          (* addresses whose device may withhold RDY               *)
  Noise,         (* what the data bus may carry while RDY is withheld     *)
  PointerWaits,  (* a load of PL or PH may be made to wait                *)
  Code           (* the clock is followed while instructions come from it *)

VARIABLES
  clk,         (* level of the clock                                      *)
  cycle,       (* ff_cycle                                                *)
  supercycle,  (* ff_supercycle                                           *)
  weCycle,     (* ff_we_cycle                                             *)
  waiting,     (* n_cycle_flip_ena                                        *)
  pSelector,   (* which pointer register is IP                            *)
  ptr,         (* the two pointer registers                               *)
  ir, regA, regB, flags,
  mem,         (* contents of the populated addresses                     *)
  arch         (* history: the registers when the last instruction ended  *)

vars == <<clk, cycle, supercycle, weCycle, waiting, pSelector, ptr,
          ir, regA, regB, flags, mem, arch>>

(* The instruction set this processor implements: its registers are those  *)
(* the program sees between two instructions.                              *)
I == INSTANCE Isa WITH state <- arch, mem <- mem

ASSUME MemoryAssumption ==
  /\ Cells \subseteq I!Addr
  /\ OpenBus \in I!Byte
  /\ Images \subseteq [Cells -> I!Byte]
ASSUME AluAssumption ==
  \A op \in 0 .. 15, x \in I!Byte, y \in I!Byte, c \in BOOLEAN :
    AluOut(op, x, y, c) \in [r : I!Byte, flags : I!Flags]
ASSUME SlowAssumption == Slow \subseteq I!Addr
ASSUME NoiseAssumption == Noise \subseteq I!Byte
ASSUME PointerWaitsAssumption == PointerWaits \in BOOLEAN

TypeOK ==
  /\ clk \in {"high", "low"}
  /\ cycle \in 0 .. 1 /\ supercycle \in 0 .. 1 /\ pSelector \in 0 .. 1
  /\ weCycle \in BOOLEAN /\ waiting \in BOOLEAN
  /\ ptr \in [0 .. 1 -> I!Addr]
  /\ ir \in I!Byte /\ regA \in I!Byte /\ regB \in I!Byte
  /\ flags \in I!Flags
  /\ mem \in [Cells -> I!Byte]
  /\ arch \in I!Regs

---------------------------------------------------------------------------
(* Signals of the control unit. *)

Bit(weight) == (ir \div weight) % 2
Index == ir % 4
OpAlu == Bit(128) = 0
Group == (ir \div 32) % 4            (* decoder dec_op *)
OpLd  == ~OpAlu /\ Group = 0
OpSt  == ~OpAlu /\ Group = 1
OpLdi == ~OpAlu /\ Group = 2
OpJmp == ~OpAlu /\ Group = 3

(* dec_flag selects a flag only while IR bit 3 is 0; otherwise all its     *)
(* outputs are high and flag_set is true.                                  *)
FlagSet == Bit(8) = 0 => flags[Index]
ConditionResult == FlagSet # (Bit(4) = 1)
SwapP == OpJmp /\ ConditionResult /\ cycle = 1

WeIr == cycle = 0 /\ supercycle = 0
AddrDp == cycle = 1 /\ (OpLd \/ OpSt)
AluDrivesDi == OpAlu /\ cycle = 1
BusDrivesDi == (OpLd /\ cycle = 1) \/ (OpLdi /\ supercycle = 1 /\ cycle = 0)
WeFlags == AluDrivesDi /\ (ir \div 8) % 16 # I!MOV

(* Mutants: inc_ip and ff_we_cycle that ignore RDY, an n_we_mem without    *)
(* ff_we_cycle, an ff_supercycle that counts.                              *)
IncIpUngated(rdy) == cycle = 1
WeCycleDUngated(rdy) == ~weCycle
WriteStrobeAllCycle == OpSt /\ cycle = 1
SupercycleDCounts(rising) == IF rising THEN supercycle + 1 ELSE supercycle

(* inc_ip, and the input of ff_we_cycle: both wait for RDY.                *)
IncIp(rdy) == cycle = 1 /\ rdy
WeCycleD(rdy) == weCycle # rdy

(* ff_supercycle toggles when the cycle rises; it is held clear unless IR  *)
(* holds LDI.                                                              *)
SupercycleD(rising) ==
  CASE ~OpLdi             -> 0
    [] OpLdi /\ rising    -> 1 - supercycle
    [] OpLdi /\ ~rising   -> supercycle

(* n_we_mem: ff_we_cycle is ff_cycle half a period later, so that the      *)
(* strobe ends before the address does.                                    *)
WriteStrobe == OpSt /\ cycle = 1 /\ weCycle

---------------------------------------------------------------------------
(* The pointer pair, the ALU and the buses. *)

Ip == ptr[pSelector]
Dp == ptr[1 - pSelector]
AddressBus == IF AddrDp THEN Dp ELSE Ip
StoredByte == IF ir % 2 = 0 THEN regA ELSE regB

AluInB ==
  CASE Index = 0 -> 0
    [] Index = 1 -> regB
    [] Index = 2 -> I!Lo(Dp)
    [] OTHER     -> I!Hi(Dp)

Alu ==
  IF Bit(4) = 1 THEN AluOut((ir \div 8) % 16, AluInB, regA, flags[1])
                ELSE AluOut((ir \div 8) % 16, regA, AluInB, flags[1])

(* The register that latches DI on the falling edge; 4 stands for none.    *)
Dest == IF AluDrivesDi THEN (IF Bit(4) = 1 THEN Index ELSE 0)
        ELSE IF BusDrivesDi THEN Index ELSE 4

(* Mutant: the halves are swapped.                                         *)
LoadedDpSwapped(v) ==
  CASE Dest = 2 -> I!WithHi(Dp, v)
    [] Dest = 3 -> I!WithLo(Dp, v)
    [] OTHER    -> Dp

LoadedDp(v) ==
  CASE Dest = 2 -> I!WithLo(Dp, v)
    [] Dest = 3 -> I!WithHi(Dp, v)
    [] OTHER    -> Dp

---------------------------------------------------------------------------
(* The environment's RDY: withheld only while a slow device is addressed.  *)

MayWait ==
  /\ AddrDp
  /\ Dp \in Slow
  /\ OpLd /\ Index \in 2 .. 3 => PointerWaits

(* Reading the bus: a device that is not ready may drive anything.         *)
BusValue(rdy) == IF rdy THEN {I!ReadMem(mem, AddressBus)} ELSE Noise

Registers == [ip |-> Ip, a |-> regA, b |-> regB, p |-> Dp, flags |-> flags]

(* An instruction retires on the falling edge of its last cycle 1.         *)
Retiring(rdy) == rdy /\ cycle = 1 /\ supercycle = 0

AtBoundary == clk = "high" /\ cycle = 0 /\ supercycle = 0

---------------------------------------------------------------------------
(* Reset leaves every register zero.  The clock is high when reset ends,   *)
(* as in test_cpu.v, so that the first edge fetches.                       *)
Init ==
  /\ clk = "high"
  /\ cycle = 0 /\ supercycle = 0 /\ pSelector = 0
  /\ weCycle = FALSE /\ waiting = FALSE
  /\ ptr = [i \in 0 .. 1 |-> 0]
  /\ ir = 0 /\ regA = 0 /\ regB = 0
  /\ flags = [f \in 0 .. 3 |-> FALSE]
  /\ mem \in Images
  /\ arch = Registers

(* What ends the write strobe stores the byte. *)
EndStrobe ==
  mem' = IF WriteStrobe /\ ~(OpSt /\ cycle' = 1 /\ weCycle')
           THEN I!WriteMem(mem, Dp, StoredByte) ELSE mem

(* Falling edge with RDY as given and v on the data bus: IR, A, B, the     *)
(* flags and DP latch whether or not RDY is there; only the counting of IP *)
(* and ff_we_cycle wait for it.                                            *)
FallWith(rdy, v) ==
  LET di == IF AluDrivesDi THEN Alu.r ELSE v
  IN  /\ UNCHANGED <<cycle, supercycle>>
      /\ clk' = "low"
      /\ waiting' = ~rdy
      /\ weCycle' = WeCycleD(rdy)
      /\ ir' = IF WeIr THEN v ELSE ir
      /\ regA' = IF Dest = 0 THEN di ELSE regA
      /\ regB' = IF Dest = 1 THEN di ELSE regB
      /\ flags' = IF WeFlags THEN Alu.flags ELSE flags
      /\ ptr' = [i \in 0 .. 1 |->
                   IF i = pSelector
                     THEN IF IncIp(rdy) THEN I!Succ(Ip) ELSE Ip
                     ELSE LoadedDp(di)]
      /\ pSelector' = IF SwapP THEN 1 - pSelector ELSE pSelector
      /\ EndStrobe
      /\ arch' = IF Retiring(rdy) THEN Registers' ELSE arch

Fall(rdy) ==
  /\ clk = "high"
  /\ AtBoundary => Ip \in Code
  /\ rdy \/ MayWait
  /\ \E v \in BusValue(rdy) : FallWith(rdy, v)

FallReady == Fall(TRUE)
FallWait  == Fall(FALSE)

Rising ==
  /\ clk' = "high"
  /\ cycle' = IF waiting THEN cycle ELSE 1 - cycle
  /\ supercycle' = SupercycleD(cycle = 0 /\ ~waiting)
  /\ waiting' = FALSE
  /\ UNCHANGED <<weCycle, pSelector, ptr, ir, regA, regB, flags, arch>>
  /\ EndStrobe

(* Rising edge: the cycle flips unless waiting.  Mutant: a clock that RDY  *)
(* gates.                                                                  *)
RiseGated == clk = "low" /\ ~waiting /\ Rising
Rise == clk = "low" /\ Rising

Next == FallReady \/ FallWait \/ Rise

Spec == Init /\ [][Next]_vars

(* The clock never stops, and a device that withholds RDY gives it back.   *)
FairSpec == Spec /\ WF_vars(Rise) /\ WF_vars(FallReady \/ FallWait)
                 /\ SF_vars(FallReady)

---------------------------------------------------------------------------
(* Where an instruction stands in each phase of its two or four clock      *)
(* periods, relative to the registers arch it began with.                  *)

Fetched == ir = I!Opcode
Loaded(v) == I!WithReg(arch, Index, v)

FetchPhase ==
  cycle = 0 /\ supercycle = 0 =>
    /\ Registers = arch
    /\ clk = "low" => Fetched /\ ~waiting

(* Cycle 1 until it has ended with RDY present.  A load that waits has     *)
(* already overwritten its register with whatever the bus carried.         *)
ExecutePhase ==
  cycle = 1 /\ supercycle = 0 /\ (clk = "high" \/ waiting) =>
    /\ Fetched
    /\ OpLdi => Registers = I!FallThrough(Loaded(I!Immediate))
    /\ OpLd => \/ Registers = arch
               \/ Index \in 0 .. 1 /\ \E v \in I!Byte : Registers = Loaded(v)
    /\ ~OpLd /\ ~OpLdi => Registers = arch

RetiredPhase ==
  cycle = 1 /\ supercycle = 0 /\ clk = "low" /\ ~waiting => Registers = arch

(* The two middle periods of LDI: IP moves past the opcode, then the       *)
(* operand is loaded.                                                      *)
ImmediatePhase ==
  supercycle = 1 =>
    /\ OpLdi /\ Fetched /\ ~waiting
    /\ cycle = 1 /\ clk = "high" => Registers = arch
    /\ cycle = 1 /\ clk = "low" => Registers = I!FallThrough(arch)
    /\ cycle = 0 /\ clk = "high" => Registers = I!FallThrough(arch)
    /\ cycle = 0 /\ clk = "low" =>
         Registers = I!FallThrough(Loaded(I!Immediate))

(* ff_we_cycle runs half a period behind ff_cycle.                         *)
StrobePhase ==
  /\ clk = "high" \/ waiting => (weCycle <=> cycle = 1)
  /\ clk = "low" /\ ~waiting => (weCycle <=> cycle = 0)

WaitPhase ==
  waiting => /\ clk = "low" /\ cycle = 1 /\ supercycle = 0
             /\ OpLd \/ OpSt
             /\ OpLd => Index \in 0 .. 1

(* The phases together: what holds of the machine inside an instruction.   *)
PipelineInv ==
  /\ FetchPhase
  /\ ExecutePhase
  /\ RetiredPhase
  /\ ImmediatePhase
  /\ StrobePhase
  /\ WaitPhase

---------------------------------------------------------------------------
(* Properties. *)

(* The processor executes its program as the instruction set says: between *)
(* two instructions its registers and the memory are those of the          *)
(* emulator's State::step, whatever waits the slow devices insert.         *)
ImplementsIsa == I!Spec

(* The write strobe is on only in the high half of cycle 1 of ST, or while *)
(* RDY is withheld there (control_unit.v line 172): ff_we_cycle never gets *)
(* out of step with ff_cycle.                                              *)
StrobeInPhase == WriteStrobe => clk = "high" \/ waiting

(* While the strobe is on, neither the address nor the byte on the bus     *)
(* changes, up to and including the edge that ends the strobe.             *)
StrobeHoldsBus ==
  [][WriteStrobe => AddressBus' = AddressBus /\ StoredByte' = StoredByte]_vars

(* An instruction that has begun ends, the four-period LDI and the store   *)
(* to a slow device included.                                              *)
InstructionEnds == (cycle = 1 \/ supercycle = 1) ~> AtBoundary

=============================================================================
