----------------------------- MODULE CpuProofs -----------------------------
(***************************************************************************)
(* Proofs about module Cpu: its types, the phases of an instruction, and   *)
(* that it implements the instruction set of module Isa.                   *)
(***************************************************************************)
EXTENDS Cpu, TLAPS

(* Membership in the two number ranges, spelled out.                       *)
LEMMA AddrSpaceSize == I!AddrSpace \in Int /\ I!AddrSpace > 0
BY DEF I!AddrSpace

LEMMA AddrRange == \A x : x \in I!Addr <=> x \in Int /\ 0 <= x /\ x < I!AddrSpace
BY AddrSpaceSize DEF I!Addr

LEMMA ByteRange == \A x : x \in I!Byte <=> x \in Int /\ 0 <= x /\ x < 256
BY DEF I!Byte

(* Pointer arithmetic stays within the address space and splitting a       *)
(* pointer gives bytes (Succ, Lo, Hi, WithLo, WithHi of Isa).              *)
LEMMA PointerTypes ==
  ASSUME NEW x \in I!Addr, NEW v \in I!Byte
  PROVE  /\ I!Succ(x) \in I!Addr
         /\ I!Lo(x) \in I!Byte
         /\ I!Hi(x) \in I!Byte
         /\ I!WithLo(x, v) \in I!Addr
         /\ I!WithHi(x, v) \in I!Addr
<1>1. x \in Int /\ 0 <= x /\ x < I!AddrSpace
  BY AddrRange
<1>2. v \in Int /\ 0 <= v /\ v < 256
  BY ByteRange
<1>3. I!Succ(x) \in Int /\ 0 <= I!Succ(x) /\ I!Succ(x) < I!AddrSpace
  BY <1>1, AddrSpaceSize DEF I!Succ
<1>4. I!Lo(x) \in Int /\ 0 <= I!Lo(x) /\ I!Lo(x) < 256
  BY <1>1 DEF I!Lo
<1>5. I!Hi(x) \in Int /\ 0 <= I!Hi(x) /\ I!Hi(x) < 256
  BY <1>1 DEF I!Hi, I!AddrSpace
<1>6. I!WithLo(x, v) \in Int /\ 0 <= I!WithLo(x, v) /\ I!WithLo(x, v) < I!AddrSpace
  BY <1>2, <1>5 DEF I!WithLo, I!AddrSpace
<1>7. I!WithHi(x, v) \in Int /\ 0 <= I!WithHi(x, v) /\ I!WithHi(x, v) < I!AddrSpace
  BY <1>2, <1>4 DEF I!WithHi, I!AddrSpace
<1>8. QED
  BY <1>3, <1>4, <1>5, <1>6, <1>7, AddrRange, ByteRange

LEMMA ByteInhabited == 0 \in I!Byte
BY DEF I!Byte

(* A read sees a byte, a write leaves a memory (ReadMem, WriteMem).        *)
LEMMA MemoryTypes ==
  ASSUME NEW m \in [Cells -> I!Byte], NEW x \in I!Addr, NEW v \in I!Byte
  PROVE  /\ I!ReadMem(m, x) \in I!Byte
         /\ I!WriteMem(m, x, v) \in [Cells -> I!Byte]
BY MemoryAssumption DEF I!ReadMem, I!WriteMem

(* The fields of an opcode are within their ranges.                        *)
LEMMA FieldTypes ==
  ASSUME ir \in I!Byte
  PROVE  /\ Index \in 0 .. 3
         /\ (ir \div 8) % 16 \in 0 .. 15
         /\ Bit(4) \in 0 .. 1 /\ Bit(8) \in 0 .. 1 /\ Bit(128) \in 0 .. 1
         /\ Group \in 0 .. 3
BY DEF Index, Bit, Group, I!Byte

(* The control unit's decoders and the emulator's masks agree on the class *)
(* of every opcode.                                                        *)
LEMMA DecodersAgree ==
  ASSUME ir \in I!Byte
  PROVE  /\ OpAlu <=> I!IsAlu(ir)
         /\ OpLd <=> I!IsLd(ir)
         /\ OpSt <=> I!IsSt(ir)
         /\ OpLdi <=> I!IsLdi(ir)
         /\ OpJmp <=> I!IsJc(ir) \/ I!IsJmp(ir) \/ I!IsNop(ir)
         /\ I!Operand(ir) = Index
         /\ I!AluOp(ir) = (ir \div 8) % 16
         /\ I!Inverse(ir) <=> Bit(4) = 1
BY DEF OpAlu, OpLd, OpSt, OpLdi, OpJmp, Group, Bit, Index, I!Byte, I!IsAlu, I!IsLd,
       I!IsSt, I!IsLdi, I!IsJc, I!IsJmp, I!IsNop, I!BitAt, I!Operand, I!AluOp, I!Inverse

LEMMA AluTypes ==
  ASSUME TypeOK
  PROVE  Alu \in [r : I!Byte, flags : I!Flags]
<1>1. AluInB \in I!Byte
  <2>1. Dp \in I!Addr
    BY DEF TypeOK, Dp
  <2>2. I!Lo(Dp) \in I!Byte /\ I!Hi(Dp) \in I!Byte
    BY <2>1, PointerTypes, ByteInhabited
  <2>3. 0 \in I!Byte /\ regB \in I!Byte
    BY DEF I!Byte, TypeOK
  <2>4. QED
    BY <2>2, <2>3 DEF AluInB
<1>2. flags[1] \in BOOLEAN
  BY DEF TypeOK, I!Flags
<1>3. (ir \div 8) % 16 \in 0 .. 15 /\ regA \in I!Byte
  BY FieldTypes DEF TypeOK
<1>4. QED
  BY <1>1, <1>2, <1>3, AluAssumption DEF Alu

---------------------------------------------------------------------------
(* Types. *)

(* The registers the program sees are typed when the machine's are.        *)
LEMMA RegistersTypes ==
  ASSUME ptr \in [0 .. 1 -> I!Addr], pSelector \in 0 .. 1,
         regA \in I!Byte, regB \in I!Byte, flags \in I!Flags
  PROVE  Registers \in I!Regs
<1>1. Ip \in I!Addr /\ Dp \in I!Addr
  BY DEF Ip, Dp
<1>2. QED
  BY <1>1 DEF Registers, I!Regs

LEMMA BusTypes ==
  ASSUME TypeOK
  PROVE  /\ Ip \in I!Addr /\ Dp \in I!Addr /\ AddressBus \in I!Addr
         /\ StoredByte \in I!Byte
         /\ \A rdy \in BOOLEAN : BusValue(rdy) \subseteq I!Byte
<1>1. Ip \in I!Addr /\ Dp \in I!Addr
  BY DEF TypeOK, Ip, Dp
<1>2. AddressBus \in I!Addr
  BY <1>1 DEF AddressBus
<1>3. StoredByte \in I!Byte
  BY DEF TypeOK, StoredByte
<1>4. I!ReadMem(mem, AddressBus) \in I!Byte
  BY <1>2, MemoryTypes, ByteInhabited DEF TypeOK
<1>5. QED
  BY <1>1, <1>2, <1>3, <1>4, NoiseAssumption DEF BusValue

(* The end of a write strobe leaves a memory.                              *)
LEMMA EndStrobeTypes ==
  ASSUME TypeOK, EndStrobe
  PROVE  mem' \in [Cells -> I!Byte]
<1>1. I!WriteMem(mem, Dp, StoredByte) \in [Cells -> I!Byte]
  BY BusTypes, MemoryTypes DEF TypeOK
<1>2. QED
  BY <1>1 DEF EndStrobe, TypeOK

(* A falling edge preserves the types.                                     *)
LEMMA FallTypes ==
  ASSUME TypeOK, NEW rdy \in BOOLEAN, NEW v \in I!Byte, FallWith(rdy, v)
  PROVE  TypeOK'
<1> DEFINE di == IF AluDrivesDi THEN Alu.r ELSE v
<1>1. Alu.r \in I!Byte /\ Alu.flags \in I!Flags
  BY AluTypes
<1>2. di \in I!Byte
  BY <1>1
<1>3. /\ regA' \in I!Byte /\ regB' \in I!Byte /\ ir' \in I!Byte
      /\ flags' \in I!Flags
  BY <1>1, <1>2 DEF TypeOK, FallWith
<1>4. ptr' \in [0 .. 1 -> I!Addr]
  <2>1. Ip \in I!Addr /\ Dp \in I!Addr
    BY BusTypes
  <2>2. I!Succ(Ip) \in I!Addr
    BY <2>1, PointerTypes, ByteInhabited
  <2>3. I!WithLo(Dp, di) \in I!Addr /\ I!WithHi(Dp, di) \in I!Addr
    BY <2>1, <1>2, PointerTypes
  <2>4. LoadedDp(di) \in I!Addr
    BY <2>1, <2>3 DEF LoadedDp
  <2>5. QED
    BY <2>1, <2>2, <2>4 DEF FallWith
<1>5. pSelector' \in 0 .. 1
  BY DEF TypeOK, FallWith
<1>6. Registers' \in I!Regs
  <2>1. Ip' \in I!Addr /\ Dp' \in I!Addr
    <3>0. pSelector' = 0 \/ pSelector' = 1
      BY <1>5
    <3>1. 1 - pSelector' \in 0 .. 1
      BY <3>0
    <3>2. ptr'[pSelector'] \in I!Addr /\ ptr'[1 - pSelector'] \in I!Addr
      BY <1>4, <1>5, <3>1
    <3>3. QED
      BY <3>2 DEF Ip, Dp
  <2>2. Registers' = [ip |-> Ip', a |-> regA', b |-> regB', p |-> Dp', flags |-> flags']
    BY DEF Registers
  <2>3. QED
    BY <1>3, <2>1, <2>2 DEF I!Regs
<1>7. arch' \in I!Regs
  BY <1>6 DEF TypeOK, FallWith
<1>8. mem' \in [Cells -> I!Byte]
  BY EndStrobeTypes DEF FallWith
<1>9. /\ clk' \in {"high", "low"} /\ waiting' \in BOOLEAN
      /\ weCycle' \in BOOLEAN /\ cycle' \in 0 .. 1 /\ supercycle' \in 0 .. 1
  BY DEF TypeOK, FallWith, WeCycleD
<1>10. QED
  BY <1>3, <1>4, <1>5, <1>7, <1>8, <1>9 DEF TypeOK

(* A rising edge preserves the types.                                      *)
LEMMA RiseTypes ==
  ASSUME TypeOK, Rise
  PROVE  TypeOK'
<1>1. mem' \in [Cells -> I!Byte]
  BY EndStrobeTypes DEF Rise, Rising
<1>2. cycle' \in 0 .. 1
  BY DEF Rise, Rising, TypeOK
<1>3. supercycle' \in 0 .. 1
  BY DEF Rise, Rising, TypeOK, SupercycleD
<1>4. QED
  BY <1>1, <1>2, <1>3 DEF Rise, Rising, TypeOK

LEMMA InitTypes == Init => TypeOK
<1> SUFFICES ASSUME Init PROVE TypeOK
  OBVIOUS
<1>1. 0 \in I!Addr /\ 0 \in I!Byte
  BY AddrRange, AddrSpaceSize, ByteInhabited
<1>2. ptr \in [0 .. 1 -> I!Addr] /\ regA \in I!Byte /\ regB \in I!Byte /\ ir \in I!Byte
  BY <1>1 DEF Init
<1>3. flags \in I!Flags
  BY DEF Init, I!Flags
<1>4. pSelector \in 0 .. 1 /\ arch = Registers
  BY DEF Init
<1>5. arch \in I!Regs
  BY <1>2, <1>3, <1>4, RegistersTypes
<1>6. mem \in [Cells -> I!Byte]
  BY MemoryAssumption DEF Init
<1>7. QED
  BY <1>2, <1>3, <1>4, <1>5, <1>6 DEF Init, TypeOK

(* Every step of the processor, each an edge of the clock, preserves the   *)
(* types.                                                                  *)
LEMMA NextTypes == TypeOK /\ [Next]_vars => TypeOK'
<1> SUFFICES ASSUME TypeOK, [Next]_vars PROVE TypeOK'
  OBVIOUS
<1>1. CASE FallReady
  <2>1. PICK v \in BusValue(TRUE) : FallWith(TRUE, v)
    BY <1>1 DEF FallReady, Fall
  <2>2. v \in I!Byte
    BY BusTypes
  <2>3. QED
    BY <2>1, <2>2, FallTypes
<1>2. CASE FallWait
  <2>1. PICK v \in BusValue(FALSE) : FallWith(FALSE, v)
    BY <1>2 DEF FallWait, Fall
  <2>2. v \in I!Byte
    BY BusTypes
  <2>3. QED
    BY <2>1, <2>2, FallTypes
<1>3. CASE Rise
  BY <1>3, RiseTypes
<1>4. CASE UNCHANGED vars
  BY <1>4 DEF vars, TypeOK
<1>5. QED
  BY <1>1, <1>2, <1>3, <1>4 DEF Next

(* The registers, the counters and the memory keep their widths: the       *)
(* incrementer of IP wraps, a half loaded into DP leaves the other half.   *)
THEOREM TypeCorrect == Spec => []TypeOK
<1>1. Init => TypeOK
  BY InitTypes
<1>2. TypeOK /\ [Next]_vars => TypeOK'
  BY NextTypes
<1>3. QED
  BY <1>1, <1>2, PTL DEF Spec

---------------------------------------------------------------------------
(* The registers on a falling edge.                                        *)

(* An opcode belongs to one class.                                         *)
LEMMA OneClass ==
  ASSUME ir \in I!Byte
  PROVE  /\ OpAlu \/ OpLd \/ OpSt \/ OpLdi \/ OpJmp
         /\ OpAlu => ~OpLd /\ ~OpSt /\ ~OpLdi /\ ~OpJmp
         /\ OpLd => ~OpSt /\ ~OpLdi /\ ~OpJmp
         /\ OpSt => ~OpLdi /\ ~OpJmp
         /\ OpLdi => ~OpJmp
<1>1. Group = 0 \/ Group = 1 \/ Group = 2 \/ Group = 3
  BY FieldTypes
<1>2. QED
  BY <1>1 DEF OpAlu, OpLd, OpSt, OpLdi, OpJmp

(* set_reg, field by field.                                                *)
LEMMA WithRegFields ==
  ASSUME NEW s \in I!Regs, NEW r \in 0 .. 3, NEW v
  PROVE  I!WithReg(s, r, v) =
           [ip |-> s.ip,
            a |-> IF r = 0 THEN v ELSE s.a,
            b |-> IF r = 1 THEN v ELSE s.b,
            p |-> IF r = 2 THEN I!WithLo(s.p, v)
                  ELSE IF r = 3 THEN I!WithHi(s.p, v) ELSE s.p,
            flags |-> s.flags]
<1>0. s = [ip |-> s.ip, a |-> s.a, b |-> s.b, p |-> s.p, flags |-> s.flags]
  BY DEF I!Regs
<1>1. CASE r = 0
  <2>1. I!WithReg(s, r, v) = [s EXCEPT !.a = v]
    BY <1>1 DEF I!WithReg
  <2>2. QED
    BY <1>0, <1>1, <2>1
<1>2. CASE r = 1
  <2>1. I!WithReg(s, r, v) = [s EXCEPT !.b = v]
    BY <1>2 DEF I!WithReg
  <2>2. QED
    BY <1>0, <1>2, <2>1
<1>3. CASE r = 2
  <2>1. I!WithReg(s, r, v) = [s EXCEPT !.p = I!WithLo(s.p, v)]
    BY <1>3 DEF I!WithReg
  <2>2. QED
    BY <1>0, <1>3, <2>1
<1>4. CASE r = 3
  <2>1. I!WithReg(s, r, v) = [s EXCEPT !.p = I!WithHi(s.p, v)]
    BY <1>4 DEF I!WithReg
  <2>2. QED
    BY <1>0, <1>4, <2>1
<1>5. QED
  BY <1>1, <1>2, <1>3, <1>4

(* The data pointer after a load, without CASE.                            *)
LEMMA LoadedDpCases ==
  ASSUME NEW v
  PROVE  LoadedDp(v) = IF Dest = 2 THEN I!WithLo(Dp, v)
                       ELSE IF Dest = 3 THEN I!WithHi(Dp, v) ELSE Dp
<1>1. CASE Dest = 2
  <2>1. LoadedDp(v) = I!WithLo(Dp, v)
    BY <1>1 DEF LoadedDp
  <2>2. QED
    BY <1>1, <2>1
<1>2. CASE Dest = 3
  <2>1. LoadedDp(v) = I!WithHi(Dp, v)
    BY <1>2 DEF LoadedDp
  <2>2. QED
    BY <1>2, <2>1
<1>3. CASE Dest # 2 /\ Dest # 3
  <2>1. LoadedDp(v) = Dp
    BY <1>3 DEF LoadedDp
  <2>2. QED
    BY <1>3, <2>1
<1>4. QED
  BY <1>1, <1>2, <1>3

(* Both pointers after a falling edge: IP counts and DP loads, and the     *)
(* pair may swap at the same time.                                         *)
LEMMA FallPointers ==
  ASSUME TypeOK, NEW rdy \in BOOLEAN, NEW v, FallWith(rdy, v),
         NEW d, d = IF AluDrivesDi THEN Alu.r ELSE v,
         NEW next, next = IF IncIp(rdy) THEN I!Succ(Ip) ELSE Ip
  PROVE  /\ ~SwapP => Ip' = next /\ Dp' = LoadedDp(d)
         /\ SwapP => Ip' = LoadedDp(d) /\ Dp' = next
<1>1. ptr' = [i \in 0 .. 1 |-> IF i = pSelector THEN next ELSE LoadedDp(d)]
  BY DEF FallWith
<1>2. pSelector = 0 \/ pSelector = 1
  BY DEF TypeOK
<1>3. pSelector' = IF SwapP THEN 1 - pSelector ELSE pSelector
  BY DEF FallWith
<1>4. CASE pSelector = 0
  <2>1. ptr'[0] = next /\ ptr'[1] = LoadedDp(d)
    BY <1>1, <1>4
  <2>2. CASE SwapP
    <3>1. pSelector' = 1 /\ 1 - pSelector' = 0
      BY <1>3, <1>4, <2>2
    <3>2. QED
      BY <2>1, <2>2, <3>1 DEF Ip, Dp
  <2>3. CASE ~SwapP
    <3>1. pSelector' = 0 /\ 1 - pSelector' = 1
      BY <1>3, <1>4, <2>3
    <3>2. QED
      BY <2>1, <2>3, <3>1 DEF Ip, Dp
  <2>4. QED
    BY <2>2, <2>3
<1>5. CASE pSelector = 1
  <2>1. ptr'[1] = next /\ ptr'[0] = LoadedDp(d)
    BY <1>1, <1>5
  <2>2. CASE SwapP
    <3>1. pSelector' = 0 /\ 1 - pSelector' = 1
      BY <1>3, <1>5, <2>2
    <3>2. QED
      BY <2>1, <2>2, <3>1 DEF Ip, Dp
  <2>3. CASE ~SwapP
    <3>1. pSelector' = 1 /\ 1 - pSelector' = 0
      BY <1>3, <1>5, <2>3
    <3>2. QED
      BY <2>1, <2>3, <3>1 DEF Ip, Dp
  <2>4. QED
    BY <2>2, <2>3
<1>6. QED
  BY <1>2, <1>4, <1>5

(* A falling edge without swap that loads a register.                      *)
LEMMA FallLoads ==
  ASSUME TypeOK, NEW rdy \in BOOLEAN, NEW v, FallWith(rdy, v),
         NEW d, d = IF AluDrivesDi THEN Alu.r ELSE v,
         NEW next, next = IF IncIp(rdy) THEN I!Succ(Ip) ELSE Ip,
         ~SwapP, Dest \in 0 .. 3,
         NEW w, w = I!WithReg(Registers, Dest, d)
  PROVE  Registers' = [ip |-> next, a |-> w.a, b |-> w.b, p |-> w.p,
                       flags |-> IF WeFlags THEN Alu.flags ELSE flags]
<1>1. Ip' = next /\ Dp' = LoadedDp(d)
  BY FallPointers
<1>2. regA' = (IF Dest = 0 THEN d ELSE regA) /\ regB' = (IF Dest = 1 THEN d ELSE regB)
  BY DEF FallWith
<1>3. flags' = IF WeFlags THEN Alu.flags ELSE flags
  BY DEF FallWith
<1>4. Registers' = [ip |-> next, a |-> regA', b |-> regB', p |-> LoadedDp(d),
                    flags |-> flags']
  BY <1>1 DEF Registers
<1>5. Registers \in I!Regs
  BY RegistersTypes DEF TypeOK
<1>6. I!WithReg(Registers, Dest, d) =
        [ip |-> Ip,
         a |-> IF Dest = 0 THEN d ELSE regA,
         b |-> IF Dest = 1 THEN d ELSE regB,
         p |-> IF Dest = 2 THEN I!WithLo(Dp, d)
               ELSE IF Dest = 3 THEN I!WithHi(Dp, d) ELSE Dp,
         flags |-> flags]
  BY <1>5, WithRegFields DEF Registers
<1>7. LoadedDp(d) = IF Dest = 2 THEN I!WithLo(Dp, d)
                    ELSE IF Dest = 3 THEN I!WithHi(Dp, d) ELSE Dp
  BY LoadedDpCases
<1>8. w = [ip |-> Ip, a |-> regA', b |-> regB', p |-> LoadedDp(d), flags |-> flags]
  BY <1>2, <1>6, <1>7
<1>9. w.a = regA' /\ w.b = regB' /\ w.p = LoadedDp(d)
  BY <1>8
<1>10. QED
  BY <1>3, <1>4, <1>9

(* A falling edge without swap that loads none.                            *)
LEMMA FallKeeps ==
  ASSUME TypeOK, NEW rdy \in BOOLEAN, NEW v, FallWith(rdy, v),
         NEW next, next = IF IncIp(rdy) THEN I!Succ(Ip) ELSE Ip,
         ~SwapP, Dest = 4, ~AluDrivesDi
  PROVE  Registers' = [Registers EXCEPT !.ip = next]
<1> DEFINE d == IF AluDrivesDi THEN Alu.r ELSE v
<1>1. Ip' = next /\ Dp' = LoadedDp(d)
  BY FallPointers
<1>2. LoadedDp(d) = Dp
  BY LoadedDpCases
<1>3. regA' = regA /\ regB' = regB
  BY DEF FallWith
<1>4. flags' = flags
  BY DEF FallWith, WeFlags
<1>5. QED
  BY <1>1, <1>2, <1>3, <1>4 DEF Registers

---------------------------------------------------------------------------
(* The phases on a rising edge.                                            *)

(* What the control unit derives from IR alone follows IR.                 *)
LEMMA SameOpcode ==
  ASSUME ir' = ir
  PROVE  /\ OpAlu' = OpAlu /\ OpLd' = OpLd /\ OpSt' = OpSt
         /\ OpLdi' = OpLdi /\ OpJmp' = OpJmp /\ Index' = Index
BY DEF OpAlu, OpLd, OpSt, OpLdi, OpJmp, Index, Group, Bit

(* What an instruction is to do follows arch, mem and IR.                  *)
LEMMA SameWork ==
  ASSUME ir' = ir, arch' = arch, mem' = mem
  PROVE  /\ Fetched' = Fetched
         /\ (I!FallThrough(arch))' = I!FallThrough(arch)
         /\ (I!FallThrough(Loaded(I!Immediate)))' = I!FallThrough(Loaded(I!Immediate))
         /\ \A v : Loaded(v)' = Loaded(v)
<1>1. I!Opcode' = I!Opcode /\ I!Immediate' = I!Immediate
  BY DEF I!Opcode, I!Immediate
<1>2. Index' = Index
  BY SameOpcode
<1>3. \A v : Loaded(v)' = Loaded(v)
  BY <1>2 DEF Loaded
<1>4. \A s : (I!FallThrough(s))' = I!FallThrough(s)
  BY DEF I!FallThrough
<1>5. Loaded(I!Immediate)' = Loaded(I!Immediate)
  BY <1>1, <1>2 DEF Loaded
<1>6. (I!FallThrough(arch))' = I!FallThrough(arch)
  BY DEF I!FallThrough
<1>7. (I!FallThrough(Loaded(I!Immediate)))' = I!FallThrough(Loaded(I!Immediate))
  BY <1>5 DEF I!FallThrough
<1>8. Fetched' = Fetched
  BY <1>1 DEF Fetched
<1>9. QED
  BY <1>3, <1>6, <1>7, <1>8

(* A rising edge changes no register the program sees; ff_we_cycle being   *)
(* in step, it ends no write either.                                       *)
LEMMA RiseKeeps ==
  ASSUME TypeOK, PipelineInv, Rise
  PROVE  Registers' = Registers /\ arch' = arch /\ mem' = mem /\ ir' = ir
<1>1. Registers' = Registers
  BY DEF Rise, Rising, Registers, Ip, Dp
<1>2. mem' = mem
  <2>1. CASE WriteStrobe
    <3>1. weCycle /\ cycle = 1 /\ clk = "low"
      BY <2>1 DEF WriteStrobe, Rise, Rising
    <3>2. waiting
      BY <3>1 DEF PipelineInv, StrobePhase
    <3>3. OpSt /\ cycle' = 1 /\ weCycle'
      BY <2>1, <3>1, <3>2 DEF Rise, Rising, WriteStrobe
    <3>4. QED
      BY <3>3 DEF Rise, Rising, EndStrobe
  <2>2. CASE ~WriteStrobe
    BY <2>2 DEF Rise, Rising, EndStrobe
  <2>3. QED
    BY <2>1, <2>2
<1>3. QED
  BY <1>1, <1>2 DEF Rise, Rising

LEMMA RisePhases ==
  ASSUME TypeOK, PipelineInv, Rise
  PROVE  PipelineInv'
<1> USE DEF PipelineInv
<1>1. /\ Registers' = Registers /\ arch' = arch /\ mem' = mem /\ ir' = ir
      /\ weCycle' = weCycle
  BY RiseKeeps DEF Rise, Rising
<1>2. /\ OpLd' = OpLd /\ OpSt' = OpSt /\ OpLdi' = OpLdi /\ Index' = Index
  BY <1>1, SameOpcode
<1>3. /\ Fetched' = Fetched
      /\ (I!FallThrough(arch))' = I!FallThrough(arch)
      /\ (I!FallThrough(Loaded(I!Immediate)))' = I!FallThrough(Loaded(I!Immediate))
      /\ \A v : Loaded(v)' = Loaded(v)
  BY <1>1, SameWork
<1>4. /\ clk = "low" /\ clk' = "high" /\ ~waiting' /\ cycle \in 0 .. 1
      /\ supercycle \in 0 .. 1
      /\ cycle' = IF waiting THEN cycle ELSE 1 - cycle
      /\ supercycle' = SupercycleD(cycle = 0 /\ ~waiting)
  BY DEF Rise, Rising, TypeOK
<1>5. CASE cycle = 0 /\ supercycle = 0
  <2>1. ~waiting /\ Registers = arch /\ Fetched /\ weCycle
    BY <1>4, <1>5 DEF FetchPhase, StrobePhase
  <2>2. cycle' = 1
    BY <1>4, <1>5, <2>1
  <2>3. CASE OpLdi
    <3>1. SupercycleD(cycle = 0 /\ ~waiting) = 1 - supercycle
      BY <1>5, <2>1, <2>3 DEF SupercycleD
    <3>2. supercycle' = 1
      BY <1>4, <1>5, <3>1
    <3>3. ImmediatePhase'
      BY <1>1, <1>2, <1>3, <1>4, <2>1, <2>2, <2>3 DEF ImmediatePhase
    <3>4. StrobePhase' /\ FetchPhase' /\ ExecutePhase' /\ RetiredPhase' /\ WaitPhase'
      BY <1>1, <1>4, <2>1, <2>2, <3>2
      DEF StrobePhase, FetchPhase, ExecutePhase, RetiredPhase, WaitPhase
    <3>5. QED
      BY <3>3, <3>4
  <2>4. CASE ~OpLdi
    <3>1. SupercycleD(cycle = 0 /\ ~waiting) = 0
      BY <2>4 DEF SupercycleD
    <3>2. supercycle' = 0
      BY <1>4, <3>1
    <3>3. ExecutePhase'
      BY <1>1, <1>2, <1>3, <2>1, <2>4 DEF ExecutePhase
    <3>4. StrobePhase' /\ FetchPhase' /\ ImmediatePhase' /\ RetiredPhase' /\ WaitPhase'
      BY <1>1, <1>4, <2>1, <2>2, <3>2
      DEF StrobePhase, FetchPhase, ImmediatePhase, RetiredPhase, WaitPhase
    <3>5. QED
      BY <3>3, <3>4
  <2>5. QED
    BY <2>3, <2>4
<1>6. CASE cycle = 0 /\ supercycle = 1
  <2>1. /\ OpLdi /\ Fetched /\ ~waiting /\ weCycle
        /\ Registers = I!FallThrough(Loaded(I!Immediate))
    BY <1>4, <1>6 DEF ImmediatePhase, StrobePhase
  <2>2. SupercycleD(cycle = 0 /\ ~waiting) = 1 - supercycle
    BY <1>6, <2>1 DEF SupercycleD
  <2>3. cycle' = 1 /\ supercycle' = 0
    BY <1>4, <1>6, <2>1, <2>2
  <2>4. ~OpLd
    BY <2>1, OneClass DEF TypeOK
  <2>5. ExecutePhase'
    BY <1>1, <1>2, <1>3, <2>1, <2>4 DEF ExecutePhase
  <2>6. StrobePhase' /\ FetchPhase' /\ ImmediatePhase' /\ RetiredPhase' /\ WaitPhase'
    BY <1>1, <1>4, <2>1, <2>3
    DEF StrobePhase, FetchPhase, ImmediatePhase, RetiredPhase, WaitPhase
  <2>7. QED
    BY <2>5, <2>6
<1>7. CASE cycle = 1 /\ supercycle = 1
  <2>1. /\ OpLdi /\ Fetched /\ ~waiting /\ ~weCycle
        /\ Registers = I!FallThrough(arch)
    BY <1>4, <1>7 DEF ImmediatePhase, StrobePhase
  <2>2. SupercycleD(cycle = 0 /\ ~waiting) = supercycle
    BY <1>7, <2>1 DEF SupercycleD
  <2>3. cycle' = 0 /\ supercycle' = 1
    BY <1>4, <1>7, <2>1, <2>2
  <2>4. ImmediatePhase'
    BY <1>1, <1>2, <1>3, <1>4, <2>1, <2>3 DEF ImmediatePhase
  <2>5. StrobePhase' /\ FetchPhase' /\ ExecutePhase' /\ RetiredPhase' /\ WaitPhase'
    BY <1>1, <1>4, <2>1, <2>3
    DEF StrobePhase, FetchPhase, ExecutePhase, RetiredPhase, WaitPhase
  <2>6. QED
    BY <2>4, <2>5
<1>8. CASE cycle = 1 /\ supercycle = 0 /\ waiting
  <2>1. ExecutePhase /\ weCycle /\ (OpLd \/ OpSt)
    BY <1>4, <1>8 DEF StrobePhase, WaitPhase
  <2>2. ~OpLdi
    BY <2>1, OneClass DEF TypeOK
  <2>3. SupercycleD(cycle = 0 /\ ~waiting) = 0
    BY <2>2 DEF SupercycleD
  <2>4. cycle' = 1 /\ supercycle' = 0
    BY <1>4, <1>8, <2>3
  <2>5. ExecutePhase'
    <3>1. /\ Fetched
          /\ OpLd => \/ Registers = arch
                     \/ Index \in 0 .. 1 /\ \E v \in I!Byte : Registers = Loaded(v)
          /\ ~OpLd /\ ~OpLdi => Registers = arch
      BY <1>8, <2>1 DEF ExecutePhase
    <3>2. OpLd' => \/ Registers' = arch'
                   \/ Index' \in 0 .. 1 /\ \E v \in I!Byte : Registers' = Loaded(v)'
      BY <1>1, <1>2, <1>3, <3>1
    <3>3. Fetched' /\ ~OpLdi' /\ (~OpLd' /\ ~OpLdi' => Registers' = arch')
      BY <1>1, <1>2, <1>3, <2>2, <3>1
    <3>4. QED
      BY <3>2, <3>3 DEF ExecutePhase
  <2>6. StrobePhase' /\ FetchPhase' /\ ImmediatePhase' /\ RetiredPhase' /\ WaitPhase'
    BY <1>1, <1>4, <2>1, <2>4
    DEF StrobePhase, FetchPhase, ImmediatePhase, RetiredPhase, WaitPhase
  <2>7. QED
    BY <2>5, <2>6
<1>9. CASE cycle = 1 /\ supercycle = 0 /\ ~waiting
  <2>1. Registers = arch /\ ~weCycle
    BY <1>4, <1>9 DEF RetiredPhase, StrobePhase
  <2>2. SupercycleD(cycle = 0 /\ ~waiting) = 0
    <3>1. CASE OpLdi
      <4>1. SupercycleD(cycle = 0 /\ ~waiting) = supercycle
        BY <1>9, <3>1 DEF SupercycleD
      <4>2. QED
        BY <1>9, <4>1
    <3>2. CASE ~OpLdi
      BY <3>2 DEF SupercycleD
    <3>3. QED
      BY <3>1, <3>2
  <2>3. cycle' = 0 /\ supercycle' = 0
    BY <1>4, <1>9, <2>2
  <2>4. QED
    BY <1>1, <1>4, <2>1, <2>3
    DEF StrobePhase, FetchPhase, ExecutePhase, ImmediatePhase, RetiredPhase, WaitPhase
<1>10. QED
  BY <1>4, <1>5, <1>6, <1>7, <1>8, <1>9

---------------------------------------------------------------------------
(* The phases on a falling edge.                                           *)

LEMMA FallThroughFields ==
  ASSUME NEW i, NEW a, NEW b, NEW p, NEW f
  PROVE  I!FallThrough([ip |-> i, a |-> a, b |-> b, p |-> p, flags |-> f]) =
           [ip |-> I!Succ(arch.ip), a |-> a, b |-> b, p |-> p, flags |-> f]
BY DEF I!FallThrough

(* RDY is only withheld in cycle 1 of LD and ST.                           *)
LEMMA NoWait ==
  ASSUME NEW rdy \in BOOLEAN, Fall(rdy), cycle = 0 \/ ~(OpLd \/ OpSt)
  PROVE  rdy = TRUE
BY DEF Fall, MayWait, AddrDp

(* No write ends on a falling edge outside cycle 1 of ST.                  *)
LEMMA NoStore ==
  ASSUME EndStrobe, cycle = 0 \/ ~OpSt
  PROVE  mem' = mem
BY DEF EndStrobe, WriteStrobe

(* The fetch: IR receives the opcode at IP, nothing else changes.          *)
LEMMA FallFetch ==
  ASSUME TypeOK, PipelineInv, NEW rdy \in BOOLEAN, Fall(rdy),
         cycle = 0, supercycle = 0
  PROVE  PipelineInv' /\ arch' = arch /\ mem' = mem
<1>1. clk = "high" /\ rdy = TRUE
  BY NoWait DEF Fall
<1>2. PICK v \in BusValue(rdy) : FallWith(rdy, v)
  BY DEF Fall
<1>3. v = I!ReadMem(mem, Ip)
  BY <1>1, <1>2 DEF BusValue, AddressBus, AddrDp
<1>4. Registers = arch /\ ~weCycle
  BY <1>1 DEF PipelineInv, FetchPhase, StrobePhase
<1>5. v = I!Opcode
  BY <1>3, <1>4 DEF I!Opcode, Registers
<1>6. ir' = v /\ arch' = arch /\ mem' = mem
  BY <1>2, NoStore DEF FallWith, WeIr, Retiring
<1>7. I!Opcode' = I!Opcode
  BY <1>6 DEF I!Opcode
<1>8. Fetched'
  BY <1>5, <1>6, <1>7 DEF Fetched
<1>9. ~SwapP /\ Dest = 4 /\ ~AluDrivesDi /\ ~IncIp(rdy)
  BY DEF SwapP, Dest, AluDrivesDi, BusDrivesDi, IncIp
<1>10. Registers' = Registers
  <2>1. Registers' = [Registers EXCEPT !.ip = Ip]
    BY <1>2, <1>9, FallKeeps
  <2>2. QED
    BY <2>1 DEF Registers
<1>11. /\ clk' = "low" /\ waiting' = FALSE /\ weCycle' = TRUE
       /\ cycle' = 0 /\ supercycle' = 0
  BY <1>1, <1>2, <1>4 DEF FallWith, WeCycleD, TypeOK
<1>12. QED
  BY <1>4, <1>6, <1>8, <1>10, <1>11
  DEF PipelineInv, FetchPhase, ExecutePhase, RetiredPhase, ImmediatePhase,
      StrobePhase, WaitPhase

(* The end of the first period of LDI: IP moves to the operand.            *)
LEMMA FallSkip ==
  ASSUME TypeOK, PipelineInv, NEW rdy \in BOOLEAN, Fall(rdy),
         cycle = 1, supercycle = 1
  PROVE  PipelineInv' /\ arch' = arch /\ mem' = mem
<1>1. clk = "high" /\ OpLdi /\ Fetched /\ Registers = arch /\ weCycle
  BY DEF Fall, PipelineInv, ImmediatePhase, StrobePhase
<1>2. ~OpLd /\ ~OpSt /\ ~OpAlu /\ ~OpJmp
  BY <1>1, OneClass DEF TypeOK
<1>3. rdy = TRUE
  BY <1>2, NoWait
<1>4. PICK v \in BusValue(rdy) : FallWith(rdy, v)
  BY DEF Fall
<1>5. ir' = ir /\ arch' = arch /\ mem' = mem
  BY <1>2, <1>4, NoStore DEF FallWith, WeIr, Retiring
<1>6. ~SwapP /\ Dest = 4 /\ ~AluDrivesDi /\ IncIp(rdy)
  BY <1>2, <1>3 DEF SwapP, Dest, AluDrivesDi, BusDrivesDi, IncIp
<1>7. Registers' = I!FallThrough(arch)
  <2>1. Registers' = [Registers EXCEPT !.ip = I!Succ(Ip)]
    BY <1>4, <1>6, FallKeeps
  <2>2. Ip = arch.ip
    BY <1>1 DEF Registers
  <2>3. QED
    BY <1>1, <2>1, <2>2 DEF I!FallThrough
<1>8. /\ clk' = "low" /\ waiting' = FALSE /\ weCycle' = FALSE
      /\ cycle' = 1 /\ supercycle' = 1
  BY <1>1, <1>3, <1>4 DEF FallWith, WeCycleD, TypeOK
<1>9. OpLdi' /\ Fetched' /\ (I!FallThrough(arch))' = I!FallThrough(arch)
  BY <1>1, <1>5, SameOpcode, SameWork
<1>10. ImmediatePhase'
  BY <1>7, <1>8, <1>9 DEF ImmediatePhase
<1>11. FetchPhase' /\ ExecutePhase' /\ RetiredPhase' /\ StrobePhase' /\ WaitPhase'
  BY <1>8 DEF FetchPhase, ExecutePhase, RetiredPhase, StrobePhase, WaitPhase
<1>12. QED
  BY <1>5, <1>10, <1>11 DEF PipelineInv

(* The third period of LDI: the operand is loaded.                         *)
LEMMA FallOperand ==
  ASSUME TypeOK, PipelineInv, NEW rdy \in BOOLEAN, Fall(rdy),
         cycle = 0, supercycle = 1
  PROVE  PipelineInv' /\ arch' = arch /\ mem' = mem
<1>0. clk = "high" /\ rdy = TRUE
  BY NoWait DEF Fall
<1>1. /\ clk = "high" /\ OpLdi /\ Fetched /\ ~weCycle /\ rdy = TRUE
      /\ Registers = I!FallThrough(arch)
  BY <1>0 DEF PipelineInv, ImmediatePhase, StrobePhase
<1>2. PICK v \in BusValue(rdy) : FallWith(rdy, v)
  BY DEF Fall
<1>3. ir' = ir /\ arch' = arch /\ mem' = mem
  BY <1>2, NoStore DEF FallWith, WeIr, Retiring
<1>4. ~SwapP /\ Dest = Index /\ ~AluDrivesDi /\ ~IncIp(rdy) /\ ~WeFlags
  BY <1>1 DEF SwapP, Dest, AluDrivesDi, BusDrivesDi, IncIp, WeFlags
<1>5. arch \in I!Regs /\ Index \in 0 .. 3
  BY FieldTypes DEF TypeOK
<1>7. I!FallThrough(arch) = [ip |-> I!Succ(arch.ip), a |-> arch.a, b |-> arch.b,
                             p |-> arch.p, flags |-> arch.flags]
  BY <1>5 DEF I!FallThrough, I!Regs
<1>8. /\ Ip = I!Succ(arch.ip) /\ regA = arch.a /\ regB = arch.b
      /\ Dp = arch.p /\ flags = arch.flags
  BY <1>1, <1>7 DEF Registers
<1>9. v = I!Immediate
  BY <1>1, <1>2, <1>8 DEF BusValue, AddressBus, AddrDp, I!Immediate
<1>10. Registers' = I!FallThrough(Loaded(I!Immediate))
  <2> DEFINE w == I!WithReg(Registers, Dest, v)
             u == I!WithReg(arch, Index, v)
  <2>1. Registers' = [ip |-> Ip, a |-> w.a, b |-> w.b, p |-> w.p, flags |-> flags]
    BY <1>2, <1>4, <1>5, FallLoads
  <2>2. Registers \in I!Regs
    BY RegistersTypes DEF TypeOK
  <2>3. w = [ip |-> Ip,
             a |-> IF Index = 0 THEN v ELSE regA,
             b |-> IF Index = 1 THEN v ELSE regB,
             p |-> IF Index = 2 THEN I!WithLo(Dp, v)
                   ELSE IF Index = 3 THEN I!WithHi(Dp, v) ELSE Dp,
             flags |-> flags]
    BY <1>4, <1>5, <2>2, WithRegFields DEF Registers
  <2>4. u = [ip |-> arch.ip,
             a |-> IF Index = 0 THEN v ELSE arch.a,
             b |-> IF Index = 1 THEN v ELSE arch.b,
             p |-> IF Index = 2 THEN I!WithLo(arch.p, v)
                   ELSE IF Index = 3 THEN I!WithHi(arch.p, v) ELSE arch.p,
             flags |-> arch.flags]
    BY <1>5, WithRegFields
  <2>5. u = [ip |-> arch.ip, a |-> w.a, b |-> w.b, p |-> w.p, flags |-> arch.flags]
    BY <1>8, <2>3, <2>4
  <2>6. I!FallThrough(u) = [ip |-> I!Succ(arch.ip), a |-> w.a, b |-> w.b,
                            p |-> w.p, flags |-> arch.flags]
    BY <2>5, FallThroughFields
  <2>7. u = Loaded(I!Immediate)
    BY <1>9 DEF Loaded
  <2>8. QED
    BY <1>8, <2>1, <2>6, <2>7
<1>11. /\ clk' = "low" /\ waiting' = FALSE /\ weCycle' = TRUE
       /\ cycle' = 0 /\ supercycle' = 1
  BY <1>1, <1>2 DEF FallWith, WeCycleD, TypeOK
<1>12. /\ OpLdi' /\ Fetched'
       /\ (I!FallThrough(Loaded(I!Immediate)))' = I!FallThrough(Loaded(I!Immediate))
  BY <1>1, <1>3, SameOpcode, SameWork
<1>13. ImmediatePhase'
  BY <1>10, <1>11, <1>12 DEF ImmediatePhase
<1>14. FetchPhase' /\ ExecutePhase' /\ RetiredPhase' /\ StrobePhase' /\ WaitPhase'
  BY <1>11 DEF FetchPhase, ExecutePhase, RetiredPhase, StrobePhase, WaitPhase
<1>15. QED
  BY <1>3, <1>13, <1>14 DEF PipelineInv

(* A falling edge of cycle 1 without RDY: a load has overwritten its       *)
(* register with noise, but neither IP nor ff_we_cycle has moved.          *)
LEMMA FallWaiting ==
  ASSUME TypeOK, PipelineInv, Fall(FALSE), PointerWaits = FALSE,
         cycle = 1, supercycle = 0
  PROVE  PipelineInv' /\ arch' = arch /\ mem' = mem
<1>1. /\ clk = "high" /\ Fetched /\ weCycle
      /\ OpLd => \/ Registers = arch
                 \/ Index \in 0 .. 1 /\ \E v \in I!Byte : Registers = Loaded(v)
      /\ ~OpLd /\ ~OpLdi => Registers = arch
  BY DEF Fall, PipelineInv, ExecutePhase, StrobePhase
<1>2. MayWait
  BY DEF Fall
<1>3. (OpLd \/ OpSt) /\ (OpLd => Index \in 0 .. 1)
  <2>1. Index \in 0 .. 3
    BY FieldTypes DEF TypeOK
  <2>2. QED
    BY <1>2, <2>1 DEF MayWait, AddrDp
<1>4. ~OpLdi /\ ~OpJmp /\ ~OpAlu /\ (OpLd => ~OpSt)
  BY <1>3, OneClass DEF TypeOK
<1>5. PICK v \in BusValue(FALSE) : FallWith(FALSE, v)
  BY DEF Fall
<1>6. v \in I!Byte
  BY <1>5, BusTypes
<1>7. /\ clk' = "low" /\ waiting' = TRUE /\ weCycle' = TRUE /\ ir' = ir
      /\ cycle' = 1 /\ supercycle' = 0 /\ arch' = arch
  <2>1. clk' = "low" /\ cycle' = 1 /\ supercycle' = 0
    BY <1>5 DEF FallWith
  <2>2. waiting' = TRUE /\ weCycle' = TRUE
    BY <1>1, <1>5 DEF FallWith, WeCycleD, TypeOK
  <2>3. ir' = ir /\ arch' = arch
    BY <1>5 DEF FallWith, WeIr, Retiring
  <2>4. QED
    BY <2>1, <2>2, <2>3
<1>8. OpLd' = OpLd /\ OpSt' = OpSt /\ OpLdi' = OpLdi /\ Index' = Index
  BY <1>7, SameOpcode
<1>9. mem' = mem
  <2>1. CASE OpSt
    <3>1. OpSt /\ cycle' = 1 /\ weCycle'
      BY <1>7, <2>1
    <3>2. EndStrobe
      BY <1>5 DEF FallWith
    <3>3. QED
      BY <3>1, <3>2 DEF EndStrobe
  <2>2. CASE ~OpSt
    BY <1>5, <2>2, NoStore DEF FallWith
  <2>3. QED
    BY <2>1, <2>2
<1>10. /\ Fetched' = Fetched
       /\ \A x : Loaded(x)' = Loaded(x)
  BY <1>7, <1>9, SameWork
<1>11. ~SwapP /\ ~AluDrivesDi /\ ~IncIp(FALSE) /\ ~WeFlags
  BY <1>4 DEF SwapP, AluDrivesDi, IncIp, WeFlags
<1>12. ExecutePhase'
  <2>1. CASE OpSt
    <3>1. Dest = 4
      BY <1>4, <1>11, <2>1 DEF Dest, BusDrivesDi
    <3>2. Registers' = [Registers EXCEPT !.ip = Ip]
      BY <1>5, <1>11, <3>1, FallKeeps
    <3>3. Registers' = Registers
      BY <3>2 DEF Registers
    <3>4. Registers' = arch' /\ ~OpLd' /\ ~OpLdi' /\ Fetched'
      BY <1>1, <1>4, <1>7, <1>8, <1>10, <2>1, <3>3
    <3>5. QED
      BY <3>4 DEF ExecutePhase
  <2>2. CASE OpLd
    <3> DEFINE w == I!WithReg(Registers, Dest, v)
    <3>1. Dest = Index /\ Index \in 0 .. 1
      BY <1>3, <1>11, <2>2 DEF Dest, BusDrivesDi
    <3>2. Registers \in I!Regs /\ arch \in I!Regs
      BY RegistersTypes DEF TypeOK
    <3>3. Registers' = [ip |-> Ip, a |-> w.a, b |-> w.b, p |-> w.p, flags |-> flags]
      <4>1. Dest \in 0 .. 3
        BY <3>1
      <4>2. QED
        BY <1>5, <1>11, <4>1, FallLoads
    <3>4. \A s \in I!Regs :
            I!WithReg(s, Index, v) =
              [ip |-> s.ip, a |-> IF Index = 0 THEN v ELSE s.a,
               b |-> IF Index = 1 THEN v ELSE s.b, p |-> s.p, flags |-> s.flags]
      <4>1. Index \in 0 .. 3 /\ Index # 2 /\ Index # 3
        BY <3>1
      <4>2. QED
        BY <4>1, WithRegFields
    <3>5. \A u \in I!Byte :
            Loaded(u) =
              [ip |-> arch.ip, a |-> IF Index = 0 THEN u ELSE arch.a,
               b |-> IF Index = 1 THEN u ELSE arch.b, p |-> arch.p,
               flags |-> arch.flags]
      <4>1. Index \in 0 .. 3 /\ Index # 2 /\ Index # 3
        BY <3>1
      <4>2. QED
        BY <3>2, <4>1, WithRegFields DEF Loaded
    <3>6. Registers' = [ip |-> Ip, a |-> IF Index = 0 THEN v ELSE regA,
                        b |-> IF Index = 1 THEN v ELSE regB, p |-> Dp,
                        flags |-> flags]
      BY <3>1, <3>2, <3>3, <3>4 DEF Registers
    <3>7. /\ Ip = arch.ip /\ Dp = arch.p /\ flags = arch.flags
          /\ Index # 0 => regA = arch.a
          /\ Index # 1 => regB = arch.b
      <4>1. CASE Registers = arch
        BY <4>1 DEF Registers
      <4>2. CASE \E u \in I!Byte : Registers = Loaded(u)
        BY <4>2, <3>5 DEF Registers
      <4>3. QED
        BY <1>1, <2>2, <4>1, <4>2
    <3>8. Registers' = Loaded(v)
      BY <1>6, <3>1, <3>5, <3>6, <3>7
    <3>9. /\ Index' \in 0 .. 1 /\ \E x \in I!Byte : Registers' = Loaded(x)'
          /\ OpLd' /\ ~OpLdi' /\ Fetched'
      BY <1>1, <1>4, <1>6, <1>8, <1>10, <2>2, <3>1, <3>8
    <3>10. QED
      BY <3>9 DEF ExecutePhase
  <2>3. QED
    BY <1>3, <2>1, <2>2
<1>13. FetchPhase' /\ RetiredPhase' /\ ImmediatePhase' /\ StrobePhase'
  BY <1>7 DEF FetchPhase, RetiredPhase, ImmediatePhase, StrobePhase
<1>14. WaitPhase'
  BY <1>3, <1>7, <1>8 DEF WaitPhase
<1>15. QED
  BY <1>7, <1>9, <1>12, <1>13, <1>14 DEF PipelineInv

(* A falling edge of cycle 1 with RDY ends the instruction.                *)
LEMMA FallRetirePhases ==
  ASSUME TypeOK, PipelineInv, Fall(TRUE), cycle = 1, supercycle = 0
  PROVE  PipelineInv' /\ arch' = Registers'
<1>1. clk = "high" /\ weCycle
  BY DEF Fall, PipelineInv, StrobePhase
<1>2. PICK v \in BusValue(TRUE) : FallWith(TRUE, v)
  BY DEF Fall
<1>3. /\ clk' = "low" /\ waiting' = FALSE /\ weCycle' = FALSE
      /\ cycle' = 1 /\ supercycle' = 0 /\ arch' = Registers'
  BY <1>1, <1>2 DEF FallWith, WeCycleD, Retiring, TypeOK
<1>4. FetchPhase' /\ ExecutePhase' /\ RetiredPhase' /\ ImmediatePhase'
      /\ StrobePhase' /\ WaitPhase'
  BY <1>3 DEF FetchPhase, ExecutePhase, RetiredPhase, ImmediatePhase, StrobePhase, WaitPhase
<1>5. QED
  BY <1>3, <1>4 DEF PipelineInv

---------------------------------------------------------------------------
(* What an instruction has done when it retires, class by class, is the    *)
(* step of the instruction set.                                            *)

LEMMA SameAluOperand ==
  ASSUME TypeOK, Registers = arch
  PROVE  I!AluB(arch, Index) = AluInB
<1>1. arch.b = regB /\ arch.p = Dp
  BY DEF Registers
<1>2. CASE Index = 0
  BY <1>2 DEF I!AluB, AluInB
<1>3. CASE Index = 1
  BY <1>1, <1>3 DEF I!AluB, AluInB
<1>4. CASE Index = 2
  BY <1>1, <1>4 DEF I!AluB, AluInB
<1>5. CASE Index = 3
  <2>1. I!AluB(arch, Index) = I!Hi(arch.p) /\ AluInB = I!Hi(Dp)
    BY <1>5 DEF I!AluB, AluInB
  <2>2. QED
    BY <1>1, <2>1
<1>6. Index = 0 \/ Index = 1 \/ Index = 2 \/ Index = 3
  BY FieldTypes DEF TypeOK
<1>7. QED
  BY <1>2, <1>3, <1>4, <1>5, <1>6

(* Setting a register and falling through, field by field.                 *)
LEMMA FallThroughWith ==
  ASSUME TypeOK, NEW r \in 0 .. 3, NEW v, NEW w, w = I!WithReg(arch, r, v)
  PROVE  /\ I!FallThrough(w) = [ip |-> I!Succ(arch.ip), a |-> w.a, b |-> w.b,
                                p |-> w.p, flags |-> arch.flags]
         /\ w = [ip |-> arch.ip, a |-> w.a, b |-> w.b, p |-> w.p,
                 flags |-> arch.flags]
<1>1. arch \in I!Regs
  BY DEF TypeOK
<1>2. PICK a, b, p : w = [ip |-> arch.ip, a |-> a, b |-> b, p |-> p,
                          flags |-> arch.flags]
  BY <1>1, WithRegFields
<1>3. QED
  BY <1>2 DEF I!FallThrough

LEMMA RetireAlu ==
  ASSUME TypeOK, PipelineInv, NEW v \in BusValue(TRUE), FallWith(TRUE, v),
         clk = "high", cycle = 1, supercycle = 0, OpAlu
  PROVE  I!StepAlu
<1>1. Registers = arch /\ ir = I!Opcode /\ ~OpLd /\ ~OpLdi /\ ~OpSt /\ ~OpJmp
  BY OneClass DEF TypeOK, PipelineInv, ExecutePhase, Fetched
<1>2. arch' = Registers' /\ mem' = mem
  BY <1>1, NoStore DEF FallWith, Retiring
<1>3. ~SwapP /\ AluDrivesDi /\ IncIp(TRUE)
  BY <1>1 DEF SwapP, AluDrivesDi, IncIp
<1>4. Dest = (IF Bit(4) = 1 THEN Index ELSE 0) /\ Index \in 0 .. 3
  BY <1>3, FieldTypes DEF Dest, TypeOK
<1>5. Dest \in 0 .. 3
  BY <1>4
<1> DEFINE w == I!WithReg(arch, Dest, Alu.r)
           newFlags == IF WeFlags THEN Alu.flags ELSE flags
           op == I!Opcode
           arg == I!AluB(arch, I!Operand(op))
           out == IF I!Inverse(op)
                    THEN AluOut(I!AluOp(op), arg, arch.a, arch.flags[1])
                    ELSE AluOut(I!AluOp(op), arch.a, arg, arch.flags[1])
           dest == IF I!Inverse(op) THEN I!Operand(op) ELSE 0
           stepFlags == IF I!AluOp(op) = I!MOV THEN arch.flags ELSE out.flags
<1>6. arch' = [ip |-> I!Succ(arch.ip), a |-> w.a, b |-> w.b, p |-> w.p,
               flags |-> newFlags]
  <2>1. Ip = arch.ip
    BY <1>1 DEF Registers
  <2>2. Registers' = [ip |-> I!Succ(Ip), a |-> w.a, b |-> w.b, p |-> w.p,
                      flags |-> newFlags]
    BY <1>1, <1>3, <1>5, FallLoads
  <2>3. QED
    BY <1>2, <2>1, <2>2
<1>7. /\ I!IsAlu(op) /\ I!Operand(op) = Index
      /\ I!AluOp(op) = (ir \div 8) % 16
      /\ (I!Inverse(op) <=> Bit(4) = 1)
  BY <1>1, DecodersAgree DEF TypeOK
<1>8. arch.a = regA /\ arch.flags = flags
  BY <1>1 DEF Registers
<1>9. arg = AluInB
  BY <1>1, <1>7, SameAluOperand
<1>10. out = Alu
  BY <1>7, <1>8, <1>9 DEF Alu
<1>11. dest = Dest
  BY <1>4, <1>7
<1>12. stepFlags = newFlags
  BY <1>3, <1>7, <1>8, <1>10 DEF WeFlags
<1>13. [I!FallThrough(w) EXCEPT !.flags = newFlags] = arch'
  <2>1. I!FallThrough(w) = [ip |-> I!Succ(arch.ip), a |-> w.a, b |-> w.b,
                            p |-> w.p, flags |-> arch.flags]
    BY <1>5, FallThroughWith
  <2> HIDE DEF w, newFlags
  <2>2. QED
    BY <1>6, <2>1
<1>14. [I!FallThrough(I!WithReg(arch, dest, out.r)) EXCEPT !.flags = stepFlags] = arch'
  BY <1>10, <1>11, <1>12, <1>13
<1>15. QED
  BY <1>2, <1>7, <1>14 DEF I!StepAlu

(* A load reads the cell DP addressed when it began, even if noise went    *)
(* through its register while it waited.                                   *)
LEMMA RetireLd ==
  ASSUME TypeOK, PipelineInv, NEW v \in BusValue(TRUE), FallWith(TRUE, v),
         clk = "high", cycle = 1, supercycle = 0, OpLd
  PROVE  I!StepLd
<1>1. /\ ir = I!Opcode /\ ~OpAlu /\ ~OpLdi /\ ~OpSt /\ ~OpJmp
      /\ \/ Registers = arch
         \/ Index \in 0 .. 1 /\ \E u \in I!Byte : Registers = Loaded(u)
  BY OneClass DEF TypeOK, PipelineInv, ExecutePhase, Fetched
<1>2. arch' = Registers' /\ mem' = mem
  BY <1>1, NoStore DEF FallWith, Retiring
<1>3. ~SwapP /\ ~AluDrivesDi /\ ~WeFlags /\ IncIp(TRUE)
  BY <1>1 DEF SwapP, AluDrivesDi, WeFlags, IncIp
<1>4. Dest = Index /\ Index \in 0 .. 3
  BY <1>3, FieldTypes DEF Dest, BusDrivesDi, TypeOK
<1>5. arch \in I!Regs /\ Registers \in I!Regs
  BY RegistersTypes DEF TypeOK
<1> DEFINE w == I!WithReg(Registers, Index, v)
           u == I!WithReg(arch, Index, v)
<1>6. /\ Ip = arch.ip /\ Dp = arch.p /\ flags = arch.flags
      /\ Index # 0 => regA = arch.a
      /\ Index # 1 => regB = arch.b
  <2>1. CASE Registers = arch
    BY <2>1 DEF Registers
  <2>2. CASE Index \in 0 .. 1 /\ \E x \in I!Byte : Registers = Loaded(x)
    <3>1. Index # 2 /\ Index # 3
      BY <2>2
    <3>2. PICK x \in I!Byte : Registers = Loaded(x)
      BY <2>2
    <3>3. Loaded(x) =
            [ip |-> arch.ip, a |-> IF Index = 0 THEN x ELSE arch.a,
             b |-> IF Index = 1 THEN x ELSE arch.b, p |-> arch.p,
             flags |-> arch.flags]
      BY <1>4, <1>5, <3>1, WithRegFields DEF Loaded
    <3>4. QED
      BY <3>2, <3>3 DEF Registers
  <2>3. QED
    BY <1>1, <2>1, <2>2
<1>7. v = I!ReadMem(mem, arch.p)
  <2>1. AddressBus = Dp
    BY DEF AddressBus, AddrDp
  <2>2. v = I!ReadMem(mem, AddressBus)
    BY DEF BusValue
  <2>3. QED
    BY <1>6, <2>1, <2>2
<1>8. w.a = u.a /\ w.b = u.b /\ w.p = u.p
  <2>1. w = [ip |-> Ip,
             a |-> IF Index = 0 THEN v ELSE regA,
             b |-> IF Index = 1 THEN v ELSE regB,
             p |-> IF Index = 2 THEN I!WithLo(Dp, v)
                   ELSE IF Index = 3 THEN I!WithHi(Dp, v) ELSE Dp,
             flags |-> flags]
    BY <1>4, <1>5, WithRegFields DEF Registers
  <2>2. u = [ip |-> arch.ip,
             a |-> IF Index = 0 THEN v ELSE arch.a,
             b |-> IF Index = 1 THEN v ELSE arch.b,
             p |-> IF Index = 2 THEN I!WithLo(arch.p, v)
                   ELSE IF Index = 3 THEN I!WithHi(arch.p, v) ELSE arch.p,
             flags |-> arch.flags]
    BY <1>4, <1>5, WithRegFields
  <2>3. QED
    BY <1>6, <2>1, <2>2
<1>9. Registers' = [ip |-> I!Succ(Ip), a |-> w.a, b |-> w.b, p |-> w.p,
                    flags |-> flags]
  <2>1. Dest \in 0 .. 3
    BY <1>4
  <2>2. QED
    BY <1>3, <1>4, <2>1, FallLoads
<1>10. I!FallThrough(u) = [ip |-> I!Succ(arch.ip), a |-> u.a, b |-> u.b,
                           p |-> u.p, flags |-> arch.flags]
  BY <1>4, FallThroughWith
<1>11. arch' = I!FallThrough(u)
  BY <1>2, <1>6, <1>8, <1>9, <1>10
<1>12. I!IsLd(I!Opcode) /\ I!Operand(I!Opcode) = Index
  BY <1>1, DecodersAgree DEF TypeOK
<1>13. arch' = I!FallThrough(I!WithReg(arch, I!Operand(I!Opcode), I!ReadMem(mem, arch.p)))
  BY <1>7, <1>11, <1>12
<1>14. QED
  BY <1>2, <1>12, <1>13 DEF I!StepLd

LEMMA RetireSt ==
  ASSUME TypeOK, PipelineInv, NEW v \in BusValue(TRUE), FallWith(TRUE, v),
         clk = "high", cycle = 1, supercycle = 0, OpSt
  PROVE  I!StepSt
<1>1. Registers = arch /\ ir = I!Opcode /\ ~OpAlu /\ ~OpLdi /\ ~OpLd /\ ~OpJmp
  BY OneClass DEF TypeOK, PipelineInv, ExecutePhase, Fetched
<1>2. arch' = Registers' /\ weCycle
  BY DEF FallWith, Retiring, PipelineInv, StrobePhase
<1>3. ~SwapP /\ ~AluDrivesDi /\ IncIp(TRUE) /\ Dest = 4
  BY <1>1 DEF SwapP, AluDrivesDi, IncIp, Dest, BusDrivesDi
<1>4. arch.ip = Ip /\ arch.p = Dp /\ arch.a = regA /\ arch.b = regB
  BY <1>1 DEF Registers
<1>5. mem' = I!WriteMem(mem, arch.p, IF I!Opcode % 2 = 0 THEN arch.a ELSE arch.b)
  <2>1. WriteStrobe
    BY <1>2 DEF WriteStrobe
  <2>2. weCycle' = FALSE
    BY <1>2 DEF FallWith, WeCycleD, TypeOK
  <2>3. mem' = I!WriteMem(mem, Dp, StoredByte)
    BY <2>1, <2>2 DEF FallWith, EndStrobe
  <2>4. StoredByte = IF I!Opcode % 2 = 0 THEN arch.a ELSE arch.b
    BY <1>1, <1>4 DEF StoredByte
  <2>5. QED
    BY <1>4, <2>3, <2>4
<1>6. arch' = I!FallThrough(arch)
  <2>1. Registers' = [Registers EXCEPT !.ip = I!Succ(Ip)]
    BY <1>3, FallKeeps
  <2>2. QED
    BY <1>1, <1>2, <1>4, <2>1 DEF I!FallThrough
<1>7. I!IsSt(I!Opcode)
  BY <1>1, DecodersAgree DEF TypeOK
<1>8. QED
  BY <1>5, <1>6, <1>7 DEF I!StepSt

LEMMA RetireLdi ==
  ASSUME TypeOK, PipelineInv, NEW v \in BusValue(TRUE), FallWith(TRUE, v),
         clk = "high", cycle = 1, supercycle = 0, OpLdi
  PROVE  I!StepLdi
<1> DEFINE w == I!WithReg(arch, Index, I!Immediate)
<1>1. /\ Registers = I!FallThrough(w) /\ ir = I!Opcode
      /\ ~OpAlu /\ ~OpSt /\ ~OpLd /\ ~OpJmp
  BY OneClass DEF TypeOK, PipelineInv, ExecutePhase, Fetched, Loaded
<1>2. arch' = Registers' /\ mem' = mem
  BY <1>1, NoStore DEF FallWith, Retiring
<1>3. ~SwapP /\ ~AluDrivesDi /\ IncIp(TRUE) /\ Dest = 4 /\ Index \in 0 .. 3
  BY <1>1, FieldTypes DEF SwapP, AluDrivesDi, IncIp, Dest, BusDrivesDi, TypeOK
<1>4. Registers' = [Registers EXCEPT !.ip = I!Succ(Ip)]
  BY <1>3, FallKeeps
<1>5. /\ Registers = [ip |-> I!Succ(arch.ip), a |-> w.a, b |-> w.b, p |-> w.p,
                      flags |-> arch.flags]
      /\ w = [ip |-> arch.ip, a |-> w.a, b |-> w.b, p |-> w.p,
              flags |-> arch.flags]
  BY <1>1, <1>3, FallThroughWith
<1> HIDE DEF w
<1>6. Ip = I!Succ(arch.ip)
  BY <1>5 DEF Registers
<1>7. Registers' = [ip |-> I!Succ(I!Succ(arch.ip)), a |-> w.a, b |-> w.b, p |-> w.p,
                    flags |-> arch.flags]
  BY <1>4, <1>5, <1>6
<1>8. arch' = [w EXCEPT !.ip = I!Succ(I!Succ(arch.ip))]
  <2>1. PICK a, b, p : /\ w = [ip |-> arch.ip, a |-> a, b |-> b, p |-> p,
                               flags |-> arch.flags]
                       /\ a = w.a /\ b = w.b /\ p = w.p
    BY <1>5
  <2>2. QED
    BY <1>2, <1>7, <2>1
<1>9. I!IsLdi(I!Opcode) /\ I!Operand(I!Opcode) = Index
  BY <1>1, DecodersAgree DEF TypeOK
<1>10. QED
  BY <1>2, <1>8, <1>9 DEF I!StepLdi, w

(* Jumps: the pair swaps while the old IP counts, so that the return       *)
(* address ends up in P.                                                   *)
LEMMA RetireJmp ==
  ASSUME TypeOK, PipelineInv, NEW v \in BusValue(TRUE), FallWith(TRUE, v),
         clk = "high", cycle = 1, supercycle = 0, OpJmp
  PROVE  I!StepJmp \/ I!StepJc \/ I!StepNop
<1>1. Registers = arch /\ ir = I!Opcode /\ ~OpAlu /\ ~OpLdi /\ ~OpLd /\ ~OpSt
  BY OneClass DEF TypeOK, PipelineInv, ExecutePhase, Fetched
<1>2. arch' = Registers' /\ mem' = mem
  BY <1>1, NoStore DEF FallWith, Retiring
<1>3. ~AluDrivesDi /\ IncIp(TRUE) /\ Dest = 4 /\ ~WeFlags
  BY <1>1 DEF AluDrivesDi, IncIp, Dest, BusDrivesDi, WeFlags
<1>4. arch.ip = Ip /\ arch.p = Dp /\ arch.a = regA /\ arch.b = regB /\ arch.flags = flags
  BY <1>1 DEF Registers
<1>5. SwapP <=> ConditionResult
  BY DEF SwapP
<1>6. CASE SwapP
  <2> DEFINE d == IF AluDrivesDi THEN Alu.r ELSE v
  <2>1. Ip' = LoadedDp(d) /\ Dp' = I!Succ(Ip)
    BY <1>3, <1>6, FallPointers
  <2>2. LoadedDp(d) = Dp
    BY <1>3, LoadedDpCases
  <2>3. regA' = regA /\ regB' = regB /\ flags' = flags
    BY <1>3 DEF FallWith
  <2>4. Registers' = [ip |-> Dp, a |-> regA, b |-> regB, p |-> I!Succ(Ip), flags |-> flags]
    BY <2>1, <2>2, <2>3 DEF Registers
  <2>5. arch = [ip |-> Ip, a |-> regA, b |-> regB, p |-> Dp, flags |-> flags]
    BY <1>1 DEF Registers
  <2>6. I!SwapPointers = [ip |-> Dp, a |-> regA, b |-> regB, p |-> I!Succ(Ip),
                          flags |-> flags]
    <3>1. PICK r : r = [arch EXCEPT !.ip = Dp]
      OBVIOUS
    <3>2. r = [ip |-> Dp, a |-> regA, b |-> regB, p |-> Dp, flags |-> flags]
      BY <2>5, <3>1
    <3>3. [r EXCEPT !.p = I!Succ(Ip)] = [ip |-> Dp, a |-> regA, b |-> regB,
                                         p |-> I!Succ(Ip), flags |-> flags]
      BY <3>2
    <3>4. I!SwapPointers = [arch EXCEPT !.ip = Dp, !.p = I!Succ(Ip)]
      BY <1>4, Zenon DEF I!SwapPointers
    <3>5. QED
      BY <3>1, <3>3, <3>4, Zenon
  <2>7. arch' = I!SwapPointers
    BY <1>2, <2>4, <2>6
  <2>8. I!IsJmp(ir) \/ (I!IsJc(ir) /\ arch.flags[I!Operand(ir)] # I!Inverse(ir))
    <3>1. CASE I!IsNop(ir)
      BY <1>5, <1>6, <3>1 DEF I!IsNop, I!BitAt, ConditionResult, FlagSet, Bit
    <3>2. CASE I!IsJc(ir)
      <4>1. FlagSet <=> arch.flags[I!Operand(ir)]
        BY <1>4, <3>2, DecodersAgree DEF TypeOK, I!IsJc, I!BitAt, FlagSet, Bit
      <4>2. I!Inverse(ir) <=> Bit(4) = 1
        BY DecodersAgree DEF TypeOK
      <4>3. FlagSet # (Bit(4) = 1)
        BY <1>5, <1>6 DEF ConditionResult
      <4>4. arch.flags[I!Operand(ir)] \in BOOLEAN
        BY FieldTypes, DecodersAgree DEF TypeOK, I!Regs, I!Flags
      <4>5. QED
        BY <3>2, <4>1, <4>2, <4>3, <4>4
    <3>3. QED
      BY <3>1, <3>2, DecodersAgree DEF TypeOK
  <2>9. QED
    BY <1>1, <1>2, <2>7, <2>8 DEF I!StepJmp, I!StepJc
<1>7. CASE ~SwapP
  <2>1. Registers' = [Registers EXCEPT !.ip = I!Succ(Ip)]
    BY <1>3, <1>7, FallKeeps
  <2>2. arch' = I!FallThrough(arch)
    BY <1>1, <1>2, <1>4, <2>1 DEF I!FallThrough
  <2>3. I!IsNop(ir) \/ (I!IsJc(ir) /\ ~(arch.flags[I!Operand(ir)] # I!Inverse(ir)))
    <3>1. CASE I!IsJmp(ir)
      BY <1>5, <1>7, <3>1 DEF I!IsJmp, I!BitAt, ConditionResult, FlagSet, Bit
    <3>2. CASE I!IsJc(ir)
      <4>1. FlagSet <=> arch.flags[I!Operand(ir)]
        BY <1>4, <3>2, DecodersAgree DEF TypeOK, I!IsJc, I!BitAt, FlagSet, Bit
      <4>2. I!Inverse(ir) <=> Bit(4) = 1
        BY DecodersAgree DEF TypeOK
      <4>3. ~(FlagSet # (Bit(4) = 1))
        BY <1>5, <1>7 DEF ConditionResult
      <4>4. arch.flags[I!Operand(ir)] \in BOOLEAN
        BY FieldTypes, DecodersAgree DEF TypeOK, I!Regs, I!Flags
      <4>5. FlagSet \in BOOLEAN /\ I!Inverse(ir) \in BOOLEAN
        BY Zenon DEF FlagSet, I!Inverse
      <4>6. arch.flags[I!Operand(ir)] = I!Inverse(ir)
        BY <4>1, <4>2, <4>3, <4>4, <4>5
      <4>7. QED
        BY <3>2, <4>6
    <3>3. QED
      BY <3>1, <3>2, DecodersAgree DEF TypeOK
  <2>4. QED
    BY <1>1, <1>2, <2>2, <2>3 DEF I!StepNop, I!StepJc
<1>8. QED
  BY <1>6, <1>7

---------------------------------------------------------------------------
(* The theorems.  PointerWaits is FALSE in those about PipelineInv: a load *)
(* of half of P that is made to wait latches what it addresses with, and   *)
(* reads from another address in the next period.                          *)

LEMMA FallRetire ==
  ASSUME TypeOK, PipelineInv, Fall(TRUE), cycle = 1, supercycle = 0
  PROVE  I!Next
<1>1. clk = "high"
  BY DEF Fall
<1>2. PICK v \in BusValue(TRUE) : FallWith(TRUE, v)
  BY DEF Fall
<1>3. CASE OpAlu
  BY <1>1, <1>2, <1>3, RetireAlu DEF I!Next
<1>4. CASE OpLd
  BY <1>1, <1>2, <1>4, RetireLd DEF I!Next
<1>5. CASE OpSt
  BY <1>1, <1>2, <1>5, RetireSt DEF I!Next
<1>6. CASE OpLdi
  BY <1>1, <1>2, <1>6, RetireLdi DEF I!Next
<1>7. CASE OpJmp
  BY <1>1, <1>2, <1>7, RetireJmp DEF I!Next
<1>8. QED
  BY <1>3, <1>4, <1>5, <1>6, <1>7, OneClass DEF TypeOK

(* A falling edge preserves the phases and maps to a step of the           *)
(* instruction set or to a stutter.                                        *)
LEMMA FallPhases ==
  ASSUME PointerWaits = FALSE, TypeOK, PipelineInv, NEW rdy \in BOOLEAN, Fall(rdy)
  PROVE  PipelineInv' /\ [I!Next]_(I!vars)
<1>1. /\ cycle = 0 \/ cycle = 1
      /\ supercycle = 0 \/ supercycle = 1
      /\ rdy = TRUE \/ rdy = FALSE
  BY DEF TypeOK
<1>2. CASE cycle = 0 /\ supercycle = 0
  BY <1>2, FallFetch DEF I!vars
<1>3. CASE cycle = 0 /\ supercycle = 1
  BY <1>3, FallOperand DEF I!vars
<1>4. CASE cycle = 1 /\ supercycle = 1
  BY <1>4, FallSkip DEF I!vars
<1>5. CASE cycle = 1 /\ supercycle = 0 /\ rdy = TRUE
  <2>1. Fall(TRUE)
    BY <1>5
  <2>2. QED
    BY <1>5, <2>1, FallRetire, FallRetirePhases
<1>6. CASE cycle = 1 /\ supercycle = 0 /\ rdy = FALSE
  <2>1. Fall(FALSE)
    BY <1>6
  <2>2. QED
    BY <1>6, <2>1, FallWaiting DEF I!vars
<1>7. QED
  BY <1>1, <1>2, <1>3, <1>4, <1>5, <1>6

LEMMA NextPhases ==
  ASSUME PointerWaits = FALSE, TypeOK, PipelineInv, [Next]_vars
  PROVE  PipelineInv' /\ [I!Next]_(I!vars)
<1>1. CASE FallReady
  BY <1>1, FallPhases DEF FallReady
<1>2. CASE FallWait
  BY <1>2, FallPhases DEF FallWait
<1>3. CASE Rise
  <2>1. PipelineInv'
    BY <1>3, RisePhases
  <2>2. arch' = arch /\ mem' = mem
    BY <1>3, RiseKeeps
  <2>3. QED
    BY <2>1, <2>2 DEF I!vars
<1>4. CASE UNCHANGED vars
  <2>1. /\ ir' = ir /\ arch' = arch /\ mem' = mem /\ cycle' = cycle
        /\ supercycle' = supercycle /\ clk' = clk /\ waiting' = waiting
        /\ weCycle' = weCycle /\ Registers' = Registers
    BY <1>4 DEF vars, Registers, Ip, Dp
  <2>2. PipelineInv'
    <3>1. /\ Fetched' = Fetched
          /\ (I!FallThrough(arch))' = I!FallThrough(arch)
          /\ (I!FallThrough(Loaded(I!Immediate)))' = I!FallThrough(Loaded(I!Immediate))
          /\ \A v : Loaded(v)' = Loaded(v)
      BY <2>1, SameWork
    <3>2. /\ OpLd' = OpLd /\ OpSt' = OpSt /\ OpLdi' = OpLdi /\ Index' = Index
      BY <2>1, SameOpcode
    <3>3. FetchPhase' /\ RetiredPhase' /\ StrobePhase' /\ WaitPhase'
      BY <2>1, <3>1, <3>2
      DEF PipelineInv, FetchPhase, RetiredPhase, StrobePhase, WaitPhase
    <3>4. ImmediatePhase'
      BY <2>1, <3>1, <3>2 DEF PipelineInv, ImmediatePhase
    <3>5. ExecutePhase'
      BY <2>1, <3>1, <3>2 DEF PipelineInv, ExecutePhase
    <3>6. QED
      BY <3>3, <3>4, <3>5 DEF PipelineInv
  <2>3. QED
    BY <2>1, <2>2 DEF I!vars
<1>5. QED
  BY <1>1, <1>2, <1>3, <1>4 DEF Next

LEMMA InitPhases == Init => PipelineInv /\ I!Init
<1> SUFFICES ASSUME Init PROVE PipelineInv /\ I!Init
  OBVIOUS
<1>1. /\ clk = "high" /\ cycle = 0 /\ supercycle = 0 /\ weCycle = FALSE
      /\ waiting = FALSE /\ arch = Registers
  BY DEF Init
<1>2. FetchPhase /\ ExecutePhase /\ RetiredPhase /\ ImmediatePhase /\ StrobePhase /\ WaitPhase
  BY <1>1 DEF FetchPhase, ExecutePhase, RetiredPhase, ImmediatePhase, StrobePhase, WaitPhase
<1>3. Ip = 0 /\ Dp = 0
  BY DEF Init, Ip, Dp
<1>4. arch = [ip |-> 0, a |-> 0, b |-> 0, p |-> 0, flags |-> [f \in 0 .. 3 |-> FALSE]]
  BY <1>1, <1>3 DEF Init, Registers
<1>5. mem \in [Cells -> I!Byte]
  BY MemoryAssumption DEF Init
<1>6. QED
  BY <1>2, <1>4, <1>5 DEF PipelineInv, I!Init

(* Between and inside instructions the machine stands where its phase says *)
(* (PipelineInv), whatever waits the devices insert.                       *)
THEOREM PhasesCorrect ==
  ASSUME PointerWaits = FALSE
  PROVE  Spec => []PipelineInv
<1>1. Init => TypeOK /\ PipelineInv
  BY InitTypes, InitPhases
<1>2. TypeOK /\ PipelineInv /\ [Next]_vars => (TypeOK /\ PipelineInv)'
  BY NextTypes, NextPhases
<1>3. QED
  BY <1>1, <1>2, PTL DEF Spec

(* The write strobe is never on in the low half of a clock period that is  *)
(* not waiting (control_unit.v line 172).                                  *)
THEOREM StrobeCorrect ==
  ASSUME PointerWaits = FALSE
  PROVE  Spec => []StrobeInPhase
<1>1. TypeOK /\ PipelineInv => StrobeInPhase
  <2>1. ASSUME TypeOK, PipelineInv, WriteStrobe, ~(clk = "high" \/ waiting)
        PROVE  FALSE
    BY <2>1 DEF TypeOK, PipelineInv, StrobePhase, WriteStrobe
  <2>2. QED
    BY <2>1 DEF StrobeInPhase
<1>2. QED
  BY <1>1, TypeCorrect, PhasesCorrect, PTL

(* Neither the address nor the byte changes under the write strobe.        *)
LEMMA StrobeStep ==
  ASSUME TypeOK, PipelineInv, [Next]_vars, WriteStrobe
  PROVE  AddressBus' = AddressBus /\ StoredByte' = StoredByte
<1>1. OpSt /\ cycle = 1 /\ weCycle /\ ~OpAlu /\ ~OpLd /\ ~OpLdi /\ ~OpJmp
  BY OneClass DEF TypeOK, WriteStrobe
<1>2. ASSUME NEW rdy \in BOOLEAN, Fall(rdy)
      PROVE  AddressBus' = AddressBus /\ StoredByte' = StoredByte
  <2>1. PICK v \in BusValue(rdy) : FallWith(rdy, v)
    BY <1>2 DEF Fall
  <2>2. ~SwapP /\ ~AluDrivesDi /\ Dest = 4
    BY <1>1 DEF SwapP, AluDrivesDi, Dest, BusDrivesDi
  <2>3. Dp' = LoadedDp(v) /\ LoadedDp(v) = Dp
    BY <2>1, <2>2, FallPointers, LoadedDpCases
  <2>4. ir' = ir /\ cycle' = cycle /\ regA' = regA /\ regB' = regB
    BY <1>1, <2>1, <2>2 DEF FallWith, WeIr
  <2>5. OpSt' = OpSt /\ OpLd' = OpLd
    BY <2>4, SameOpcode
  <2>6. AddressBus = Dp /\ AddressBus' = Dp'
    BY <1>1, <2>4, <2>5 DEF AddressBus, AddrDp
  <2>7. QED
    BY <2>3, <2>4, <2>6 DEF StoredByte
<1>3. ASSUME Rise
      PROVE  AddressBus' = AddressBus /\ StoredByte' = StoredByte
  <2>1. waiting
    BY <1>1, <1>3 DEF PipelineInv, StrobePhase, Rise, Rising
  <2>2. /\ ir' = ir /\ cycle' = cycle /\ regA' = regA /\ regB' = regB
        /\ ptr' = ptr /\ pSelector' = pSelector
    BY <1>3, <2>1 DEF Rise, Rising
  <2>3. OpSt' = OpSt /\ OpLd' = OpLd
    BY <2>2, SameOpcode
  <2>4. QED
    BY <2>2, <2>3 DEF AddressBus, AddrDp, StoredByte, Ip, Dp
<1>4. ASSUME UNCHANGED vars
      PROVE  AddressBus' = AddressBus /\ StoredByte' = StoredByte
  <2>1. /\ ir' = ir /\ cycle' = cycle /\ regA' = regA /\ regB' = regB
        /\ ptr' = ptr /\ pSelector' = pSelector
    BY <1>4 DEF vars
  <2>2. OpSt' = OpSt /\ OpLd' = OpLd
    BY <2>1, SameOpcode
  <2>3. QED
    BY <2>1, <2>2 DEF AddressBus, AddrDp, StoredByte, Ip, Dp
<1>5. QED
  BY <1>2, <1>3, <1>4 DEF Next, FallReady, FallWait

(* The device being written sees a stable address and a stable byte from   *)
(* the first to the last moment of the strobe.                             *)
THEOREM StrobeBusCorrect ==
  ASSUME PointerWaits = FALSE
  PROVE  Spec => StrobeHoldsBus
<1>1. TypeOK /\ PipelineInv /\ [Next]_vars =>
        [WriteStrobe => AddressBus' = AddressBus /\ StoredByte' = StoredByte]_vars
  BY StrobeStep
<1>2. QED
  BY <1>1, TypeCorrect, PhasesCorrect, PTL DEF Spec, StrobeHoldsBus

(* The processor of model/ executes the instruction set of tools/rsim: its *)
(* initial states are the emulator's, and every edge of its clock either   *)
(* executes one instruction or changes nothing a program can see.          *)
THEOREM Refinement ==
  ASSUME PointerWaits = FALSE
  PROVE  Spec => ImplementsIsa
<1>1. Init => I!Init
  BY InitPhases
<1>2. TypeOK /\ PipelineInv /\ [Next]_vars => [I!Next]_(I!vars)
  BY NextPhases
<1>3. QED
  BY <1>1, <1>2, TypeCorrect, PhasesCorrect, PTL DEF Spec, ImplementsIsa, I!Spec

=============================================================================
