# CCPU: formal models

CCPU is an 8-bit computer built from 74xx logic. This repository holds its
Verilog model (`model/`), its toolchain (`tools/`: assembler, linker, the Natrix
compiler, the emulator `rsim`), and its software (`app/`: a FAT file system, a
shell, games, a Z80 emulator). This directory holds TLA+ models of the parts where
a mistake is hard to find by running a program, the TLC configurations that
check them, and proofs checked by TLAPS.

## 1. The system

| Component | State it keeps | Operations | Talks to | What makes it correct |
|---|---|---|---|---|
| Processor (`model/cpu.v`, `control_unit.v`, `pointer_pair.v`) | two pointer registers with a selector, A, B, IR, flags, cycle counters, the RDY latch | one edge of the clock | memory and devices over the bus, with RDY and the write strobe | executes the instruction set; the strobe never meets a changing address; every instruction ends |
| Instruction set (`rsim/src/machine.rs`) | A, B, P, IP, flags | `State::step` | memory | the meaning of programs: the processor is measured against it |
| ALU (`model/alu.v`, `adder.v`) | none (A and the flags feed it) | sixteen operations, normal and inverse | processor | gates and emulator agree; carries chain into wide arithmetic |
| Linker (`tools/link.py`, `object.py`, `layout.py`) | section offsets, holes, segment bounds, the bisection's limits, the image | fit, bisect, place origins, resolve symbols, copy | object files | sections are disjoint and inside their segments; the image holds every initialised byte; it ends |
| Assembler (`tools/asm.py`) | the object being built | one statement | linker | encodings and references |
| Natrix front end (`tools/natrix/*.py`) | names, types, the tree | folding, casts, subscripts, members | back end | a folded expression means what the unfolded one does |
| Natrix back end (`gen.py`, `ccpu/*.py`) | temporary variables, where the last value is, what is known of alignment | lowering of every operator and statement to instructions | runtime, assembler | wide arithmetic out of 8-bit steps; the carry and the register survive between them; nothing is stored elsewhere |
| Natrix calls (`callgraph.py`, `gen.py`, `ccpu/stack.py`) | the call graph, static frames, the run-time stack | call, return, push, pop | stack board | each call has variables of its own and returns to its caller |
| Stack board (`model/stack_control.v`, `rsim/src/stack.rs`) | SP0, SP1, enable | increment, decrement, load; bank switching of 0xC000-0xCFFF | processor, compiled calls | inner and outer frames meet: the callee's outer is the caller's inner |
| PS/2 controller and driver (`model/ps2.v`, `app/lib/ps2*.na`) | shift registers, bit counters, has_data, send_ena, send_req | keyboard clock edges, data and status access | keyboard, processor (RDY) | every byte is read once, whole; send and receive exclude each other |
| SPI and SD card (`model/spi.v`, `app/lib/card.*`) | card selection, block address unit | init, read, write block | file system | an error is reported, and the next command starts afresh |
| FAT (`app/lib/fat/fat.na`) | one cached block, descriptors, the two tables on disk | mount, open, read, write, truncate, seek, close | card, shell | chains are disjoint, both tables agree, a failed write is not forgotten |
| Ethernet (`model/eth`) | the receive buffer, byte counter, filter, transmit counter | frame bits, rearm, start, halt | network, processor | a frame is whole or dropped; nothing is overwritten while it is read |
| Emulator shell (`rsim/src/main.rs`, `system.rs`, `server.rs`) | break points, devices behind mutexes | commands, HTTP requests | user | threads end when told to |
| Applications | their own | | libraries | single-threaded; out of scope |

**How they interact.** The processor shares one bus with the memory and every
device; a device answers with RDY or makes the processor wait. The compiler
emits code for the instruction set; the linker decides where it goes; the shell
loads it from the file system over the card over SPI.

**What is hard.** In the hardware: flip-flops on different edges and with
asynchronous resets, RDY changing while an access runs. In the toolchain: a
bisection whose tries leave state behind, gaps that are reused, the carry that
must survive from one emitted instruction to the next. In the software: write
failures and power loss between two blocks, descriptors that outlive what they
describe. `PROJECT.json` lists the hazards at their lines.

## 2. Modules

| Module | Models | Role |
|---|---|---|
| `Isa` | `rsim/src/machine.rs`, `instruction.rs` | abstract specification: one step per instruction |
| `Cpu` | `model/cpu.v`, `control_unit.v`, `pointer_pair.v`, `pointer_reg.v` | one step per clock edge; implements `Isa` |
| `MCCpu` | | `Cpu` on every program of four bytes of a pool |
| `CpuProofs` | | theorems about `Cpu` |
| `Alu` | `model/alu.v`, `adder.v`, `exec_alu` of `machine.rs` | both, on the same operands, in any reachable state |
| `AluProofs` | | theorems about `Alu` |
| `Linker` | `tools/link.py` from `tryFitSections` to `createRom` | one step per section, segment, try |
| `MCLinker` | | `Linker` on small layouts shaped like those of the repository |
| `LinkerProofs` | | theorems about `Linker`: types and tiling; segments and the image |
| `Fat` | `app/lib/fat/fat.na` | one step per block that a call fetches or flushes |
| `MCFat` | | `Fat` on cards of three or four clusters |
| `FatProofs`, `ChainProofs`, `FileProofs` | | theorems about `Fat`: cache and copies; chains; files and types |
| `Wide` | | integers of several bytes: what the arithmetic of Natrix promises |
| `NatrixValues` | `type.py`, `value.py`, `location.py` | types, values and trees |
| `Natrix` | the language, by `typeof.py` and `const.py` | abstract specification: what statements do to variables |
| `NatrixFold` | `const.py`, `sugar.py`, `structure.py`, casts of `type.py` | the transformers before the generator |
| `Target` | `asm.py` (what is accepted), `natrix_runtime.asm`, `Alu!Exec` | instructions, the machine that runs them, the runtime's routines |
| `NatrixEmit` | `ccpu/common.py`, `code.py`, `unary.py` | moves, casts, pointers, unary operations |
| `NatrixCompare`, `NatrixShift`, `NatrixBinary` | `ccpu/compare.py`, `signed.py`; `shift.py`; `binary.py`, `mul.py`, `div.py` | binary operations |
| `BackEnd` | `gen.py` | expressions and statements, temporaries; implements `Natrix` |
| `Ps2` | `model/ps2.v` | the controller, edge by edge |
| `KeyEvents` | | abstract specification: what a program is promised of the keyboard |
| `Keyboard` | `model/test/test_ps2.v`, `app/lib/ps2.na`, `ps2keyboard.na` | keyboard, driver and controller; implements `KeyEvents` |
| `MCKeyboard`, `KeyboardProofs` | | an instance with two keys; theorems |
| `MCBackEnd` | | `BackEnd` on some 1,900 programs |
| `Routines` | `function.py` | functions and call sites, shared by the next three |
| `Activations` | | abstract specification: every call has its own variables |
| `Calls` | `callgraph.py`, `gen.py`, `ccpu/code.py`, `stack.py` without a stack board | static frames, pushed around recursive calls; implements `Activations` |
| `MCCalls`, `CallsProofs` | | an instance of two modules of source; theorems |
| `StackFrames`, `MCStackFrames` | the same with a stack board: `stack_control.v`, `rsim/src/stack.rs`, `runtime/stack_rom_startup.asm` | frames in banked windows |

### Processor: `Isa` and `Cpu`

`Isa` is the emulator's `State::step`: `Opcode` is the byte at IP, one action per
class of instruction (`StepAlu`, `StepLd`, `StepLdi`, `StepSt`, `StepJmp`,
`StepJc`, `StepNop`). What the ALU computes is the constant `AluOut`: the
processor must pass operands and flags to it and store its answer, whatever it
computes. An address without a cell reads as the constant `OpenBus`.

`Cpu` follows the clock. The falling edge (`FallReady`, `FallWait`) latches IR,
A, B, the flags and the pointer that is DP, and increments IP; the rising edge
(`Rise`) moves `ff_cycle` and `ff_supercycle`. The signals keep the names of
the Verilog (`WeIr`, `AddrDp`, `IncIp`, `SwapP`, ...). RDY is the
environment: a device at an address of `Slow` may withhold it from the start of
an access, for any number of periods, and while it does the bus carries any
byte of `Noise`. `ff_rdy` follows RDY while the clock is high and only
remembers its loss while the clock is low; its state after the edge is
`waiting`. That a device does not withdraw RDY in the low half is assumed (see
section 4). Gate delays are not modelled.

`arch` is a history variable, the registers when the last instruction ended,
and the refinement mapping: `ImplementsIsa` is `Isa!Spec` with `state <- arch`.
All steps of an instruction but the last are stutters of `Isa`, and so is an
instruction that changes nothing.

`PipelineInv` says where an instruction stands in each phase, relative to `arch`:
it is what makes the refinement provable. It needs `PointerWaits = FALSE`: a load
of PL or PH is made to wait by no device (see section 4).

### ALU: `Alu`

The gates (`HwAlu`: ripple carry, operand multiplexers, the carry input, the
four flags) and `exec_alu` (`Exec`) are both evaluated on A, B and the
flags. `Operate` runs any operation in either direction and feeds the flags
back, so the carry each operation receives is one some operation left.

### Linker: `Linker`

| Action | Code |
|---|---|
| `SegmentOverflow`, `BeginSegment` | the head of the loop in `tryFitSections` |
| `PlaceInHole`, `PlaceAtEnd` | one section in `fitSectionsFill` or `fitSectionsSimple` |
| `EndOverflow`, `EndSegment` | the tail of the loop |
| `EndTry` | `tryFitSections` returns; `Bisect` is the loop of `fitSections` around it |
| `LinkFails`, `LinkSegment` | one segment of the origin loop of `link` |
| `StartRom`, `CopySection`, `Finish` | `createRom` |

`offset` survives from try to try, as `s.offset` does. `placed` is history. A
section is its segment, size and alignment; `sections` are those the sections
filter keeps. Phase `crashed` is a Python exception that is no `LinkerError`:
`NameError` on an overflow of the address space, where the message is built from
a name the function does not have, and `IndexError` past the image.

### File system: `Fat`

A call of `fat.h` is a sequence of steps, one per block it fetches or flushes; `job`
is where the call stands, and the calls of the program are the actions of `Call`.
`Fetch` is `cache`, `Flush` is `flush_cache`, `Update` the one after the other.

| Action | Code |
|---|---|
| `OpenFile`, `CreateFile`, `CloseFile`, `Mount` | `fat_open_file` (an entry that exists, one that `O_CREAT` makes), `fat_close`, `fat_mount` |
| `StartTransfer`, `TransferChunk`, `CrossCluster`, `EndOfFile` | `fat_action` and `seek_advance` |
| `TakeCluster`, `TakeMirror`, `LinkCluster`, `LinkMirror`, `DiskFull` | `alloc_cluster`: four writes |
| `TruncateWhole`, `TruncateBetween`, `TruncateInside` | `fat_truncate`, by where the pointer stands |
| `FindParent`, `CutChain`, `CutMirror`, `FreeCluster`, `FreeMirror` | `find_parent_cluster`, `write_fat_entry`, `free_cluster_chain` |
| `StartSeek`, `SeekOn`, `EndSeek` | `fat_seek_end` |
| `Crash` | the power fails, `fat_init` follows |

At every step the card may fail. `set_fat_error` then switches it off, and it stays
off until `Mount`, which makes every open descriptor stale; a hit in the cache
still answers. A write that fails may have reached the card or not. The one error
that leaves the card on, an address past its end, is left out: the tables of the
model have no entry past the last cluster.
Data blocks have addresses and no contents: `TransferInPlace` says of every
chunk that the block it reads or writes is the one the file's chain holds there,
which with disjoint chains is what contents would show.

What programs do is the environment: they open a file once at a time, leave
alone a file whose truncation never reached the directory (`cut`), and do not go
on with a file truncated to nothing unless `ReuseTruncated`: finding 2 is why. They
mount when the card is off. `torn` is the history of files that a failure caught
in a change; the properties promise nothing of these but `ChainsApart`.

### The compiler: `Natrix`, `NatrixFold` and `BackEnd`

`Natrix` says what a program means: a statement changes the bytes of variables, with
integers that wrap (`Wide`), and nothing in it knows of registers or
temporaries. `BackEnd` compiles the same trees as the generator does. First
`FoldedStatement`: the transformers' constant folding, subscripts, members and
addresses. Then `GenStatement` and `GenExpr`, as in `gen.py`, hand out temporaries
and labels and call the operations, `GenAdd`, `GenCmp`, `GenShift`, ...,
each in the module of its Python file and under the function's name (`_genAddPtr`
is `GenAddPtr`). An operation returns where its result is (a
variable, a constant or register A) and the instructions. Text is left out: an instruction
is a tuple, and an address is a number with `lo` and `hi`.

The state is the program, the next statement, and the machine: registers, flags and
a memory of the variables, the temporaries that the compiler reserved and the
cells of the runtime. A step runs the code of one statement (`Run`), with the
emulator's ALU (`Alu!Exec`); a call of a runtime routine does to its cells what the
routine does and leaves garbage in registers and flags. `Implements` is
`Natrix!Spec` with the rest of the program and the bytes of the variables in
memory. Between two statements the machine keeps whatever registers and flags
the last one left.

### Calls: `Calls` and `StackFrames`

`Routines` keeps of a program its functions and call sites; between calls a function
may do anything to its variables, so what holds of the model holds of every program with
these sites.

| Action | Code |
|---|---|
| `Begin` | `generateFunctionCall`: `genPushLocals` if the call graph says so |
| `AssignArg` | one argument, straight into the callee's frame |
| `Enter` | `genCall`, the prologue that stores the return address |
| `Return` | `return_statement` and `genReturn` |
| `Back` | `genPopLocals`, then the answer is assigned |
| `Set` | any assignment in between |

`IsRecursive` is the search of `callgraph.py`: it meets a function if every set
closed under the file's calls contains it. Each file is compiled
alone, so a call that leads back through another file is seen only if that one is
declared `traitor`. `callers` is history. `Acts` collects for every outstanding call
where its variables are now, in the static frame or in a copy on the
stack, and is the refinement mapping to `Activations`.

`StackFrames` is the convention with a stack board: every function's frame is in a window
that two counters of eight bits move. `Counted` is the Verilog, `IncDec` the
emulator, `PrologueWrites` and `ReturnWrites` what the compiler stores.

### Keyboard: `Ps2` and `Keyboard`

`Ps2` is the controller, a record of its registers, counters and flip-flops, and an
operator for what an edge or a strobe does to all of them. `PullsClk` and `PullsData`
are its ends of the two open-drain lines, `Rdy` is RDY.

| Action | Code |
|---|---|
| `SendBegins`, `SendFalls`, `SendRises` | `transmit_to_host` of `model/test/test_ps2.v`: a frame is given up where the clock is held, and begun again |
| `ReceiveBegins`, `ReceiveFalls`, `ReceiveRises` | the reception of the same test bench |
| `Timer` | the RC circuit at `send_req` |
| `PollStatus`, `PollData`, `PollRepeat` | one access each of `ps2_read` |
| `SendCheck`, `SendStart`, `SendAwait`, `SendAnswer`, `SendAgain` | one access each of `send_byte` |
| `Clear` | `PS2_STATUS = 0`, and what is done with the byte: `Decoded` is `ps2_get_key_event` |
| `Press`, `SendCommand` | the user and the program |

Every access waits for RDY, edges come between any two, and noise may turn a bit
over in either direction. That the keyboard acknowledges, and repeats its last byte, is
external: it is what the driver waits for. `calm` says, from the beginning, whether
keys are left alone while a command is out, since `send_byte` drops what it does not
expect. `KeyEvents` is the promise: every key is one event, in order, and a modifier is
held (`Held`) if the last event of the keys that have it was that one was pressed.

One register is cleared later than in the hardware. A store that waits for RDY holds
`n_we` low from its first period on (`control_unit.v:173`), so after `PS2_DATA = RESEND` the
store to `PS2_STATUS` resets `has_data` (`ps2.v:80`, `:90`) when it begins to wait, while
the byte goes out; `Clear` (`WriteStatus`) resets it when RDY has come. During the send
`send_ena` alone decides about the clock line, so that only the receiver's register, which
the next frame overwrites, can tell the two apart. After it the hardware has let go of the
clock, and the model holds it until `Clear`: this stands for the assumption that the store
ends before the keyboard's next edge. Otherwise RDY would fall in the middle of the strobe,
and a frame that ended under it would find `has_data` held in reset. After a poll nothing
waits: `has_data` holds the clock, and RDY is there.

## 3. Runs

| Run | Expect | What it asks |
|---|---|---|
| `cpu` | pass | refinement of `Isa`, strobe, phases, progress |
| `alu` | pass | gates against emulator, two-word subtraction |
| `linker` | pass | placement, image, order, termination |
| `linker_bloat` | violation | the bounds and addresses after a bisection |
| `fat` | pass | two open files, no failures: chains, sizes, tables, transfers |
| `fat_faults` | pass | one failure of the card or the power at any block; every call returns |
| `fat_truncate` | violation | the length of the last cluster after truncation to nothing |
| `fat_single` | violation | the second table of a card that has one |
| `backend` | pass | compiled statements against their meaning, but for the branches of section 4; stores; encodings |
| `calls` | pass | static frames against calls with variables of their own |
| `calls_stack` | violation | which way the prologue moves the stack |
| `keyboard` | pass | edges between accesses, noise, commands: no byte mixed, commands end; if keys are left alone during a command, every key told, once and in order |

**Bounds.** `cpu`: 10^4 programs of four bytes from ten (every class of
instruction, normal and inverse ALU operations, conditional and unconditional
jumps, and bytes that serve as operands), a RAM cell, a slow device; each program is
followed while IP stays in the eight cells, so that every pair of neighbouring
instructions, each with and without waits, is reached. The memory outside the
cells reads as `OpenBus`. `alu`: four bits; the carry chain, the sign bit and the
zero test are uniform in the width (`AluProofs` proves what is checked here for every
width), and four bits have inner and outer bits of both sign and carry. `linker`: 16 addresses instead of 65536; four sections of
nine kinds in five or six segments, three layouts, both strategies. That is enough
for two gaps, a gap split in front and behind, an origin that grows into
its successor, an overflow of each kind, and a bisection of up to four tries.
`fat`: blocks of two bytes, clusters of two blocks, three clusters, two files of up
to five bytes, transfers of one byte and of a cluster: a file has none, one or two
clusters, ends inside a block, at the end of one, or at the end of a cluster, and
two files fill the card. `fat_faults`: clusters of one block, so that a file of
three bytes has two of the four, in a table of two sectors: the cache must change
sector between the copies and along a chain; a failure is a card error or a loss of
power, there is one, and one descriptor at a time.
`backend`: one program per operator, pair of types and arrangement of operands: result
and operands in three places or in one, aligned or across a page after the
first or the third byte; values at the borders (0, 1, the sign, all ones, a
carry between bytes and none); constants on either side; shift counts below,
at and past the width; structures, indices and offsets with and without carry;
expressions three deep over all pairs of types; ten control flows with loops in loops.
The registers and flags that a statement starts from are either of two; the code
is straight or branches on data, so the border values take both sides of
every branch. `calls`: four functions in two files, direct and mutual recursion
through a `traitor`, calls that are not recursive, outstanding calls up
to four, so that three activations of one function wait at once; two values.
`calls_stack`: a depth of three.
`keyboard`: two actions on two keys (the left and the right ALT: they share the code 0x11, told
apart by E0, and the modifier), a command of two bytes at any time, one bit of noise at any
bit of any byte.
That is a resend in either direction, an answer between the codes of a key, a key
between a command and its answer.

**Fairness.** `Cpu!FairSpec`: the clock runs (WF on both edges) and a device
that withholds RDY gives it back in the end (SF on `FallReady`); the devices
of the repository that use RDY release it when their transfer ends.
`Linker!FairSpec`: the program runs (WF on `Next`).
`Fat!FairSpec`: a call that runs goes on (WF on its steps); nothing is assumed of
the program, the card or the power.
`Keyboard!FairSpec`: the keyboard, the timer and the driver's polling go on (WF each);
nothing is assumed of the user, the program or the noise. The timer is longer than
a bit of the keyboard's, so that a frame has been given up when it ends.
`BackEnd`, `Calls` and `StackFrames` state no fairness: nothing says that a program goes
on.
Deadlock is not checked where the system may stop: the clock is followed only while
IP is in `Code`, the linker ends, programs need not call the file system, and a
compiled program ends.

**Assumptions on programs.** `Calls` names three, and the proofs rest on them.
`LettersAssumption`: no function has the name of a letter of another's
(`visited = set(caller)` in `callgraph.py:14` takes the name apart).
`TraitorsAssumption`: a function of another file that leads back is declared `traitor`,
as the language asks. `ArgsAssumption`: in a call of a function by itself no
expression reads an argument that was already assigned; `f(y, x)` in `f(x, y)`
passes `y` twice (`gen.py:276`), and nothing tells the programmer so. A pointer to a
local of a function that recurs points to the one static frame and is left out too.

## 4. Findings

1. *Bisection* (`link.py:209`). The addresses of the last try, usually one that
   failed, are linked with the bounds of the last try that succeeded.
2. *Truncation to nothing* (`fat.na:686`). `last_cluster_len` keeps its old value.
   A write after it that is no longer than that takes a cluster and leaves the size
   zero; a read returns what the file held.
3. *A card with one table* (`fat.na:397`). `fat_mount` accepts it and leaves
   `fat1_offset` alone; with zero there, every write to the table is repeated over
   the first blocks of the card.
4. *The prologue on a stack board* (`code.py:210`). It writes 3 to the register that
   moves the pointers, where a zero moves and a one does not: bits 0 and 1 are "do
   not increment", and the zeros in bits 2 and 3 count down. The board's Verilog, the
   emulator, `doc/io.md` and `app/stacktest` agree with each other and not with the
   compiler. With the masks the other way round, the run finds nothing.

Branches of the back end that the model has only where programs avoid them:

- `binary.py:325`: `_genIncDecPtr` promises `result + src << shift` and asserts a shift
  below 16 (318), but emits code only for one below 8, and nothing otherwise. An
  unaligned index of a word is followed by `adc ph, 0`, which the assembler refuses.
- `shift.py`: a word shifted by a variable is stored by `inc pl` whatever the result's
  alignment, and the count's alignment is taken from the operand; a constant
  shifted by a variable is loaded as if it were an address; four signed bytes
  shifted right by a variable raise an exception.
- `binary.py:699`: a constant pointer minus an index of two-byte members.
- `unary.py`: `genBNot` tests the method `isAligned` and not its result; `genNeg` stores
  an unaligned word by `inc pl`. Both are right for aligned results.
- `mul.py:115`: a dword's second factor is copied by the first one's alignment.
- `code.py`, `genDeref`: a constant pointer gives a place that counts as aligned
  (and `takeAddress`, `value.py:92`, makes every address aligned); an array element
  at an odd known address may cross a page.
- `const.py:180`: constants are divided by Python's floor, variables by the runtime, whose
  remainder is never negative: they differ for negative divisors.
- `&&` and `||` with one constant give the variable, not its truth; `&(p->x)` with a
  constant `p` stops the compiler with an exception (`binary.py:61`).

Of the keyboard driver, where the model keeps to what is promised:

- `send_byte` drops a scan code that comes while it waits and sends its byte again. It
  then gets two answers, and if noise turned a bit of the second byte, the first ACK
  passes for its own: it returns 1 for a byte that the keyboard never
  took. No driver reads `send_ack`. `Taken` is stated for `calm` with at most one bit of
  noise, or for no noise: two bits turned over in one byte leave its parity right.
- With two bits of noise, the RESEND itself may be corrupted: the keyboard answers with a
  RESEND of its own, which `ps2_get_key_event` takes for a scan code, and a key is lost.
- `extended` and `release` are cleared only by a code that is in the tables
  (`ps2keyboard.na:683`): after E0 12 or E0 F0 12 the next key is misread.
- The two shift keys share one bit of `ps2_modifiers_mask`, and so do CTRL, ALT and WIN
  (`ps2keyboard.na:685`): letting one go clears it while the other is down, as `Held` says.
  Where no two keys share one, what is held are the masks of the keys that are down
  (the lemma `HeldApart`).
- `ps2_set_led_mask` and `ps2_set_rate` send the second byte whatever became of the first.

Related, without a run: a load of PL or PH from a device that waits latches the bus
into half of its own address in every waiting period (`control_unit.v:208`) and
ends elsewhere; `doc/errata.md` has the remedy, RDY at the clock generator.
`control_unit.v:166` looks at RDY at both edges, so a device
that withdrew it in the low half would bring the strobe into the wrong half
(`ps2.v:249` derives RDY from a counter the keyboard clocks); `link.py:41` and
`:71` name an `o` that does not exist, so an overflow of 64k ends the linker with a `NameError` the bisection does not
catch (phase `crashed`); `natrix/callgraph.py:14` seeds the set of visited
functions with the letters of a name; `fat_mount` returns an error code that is
not zero, so success, for a card that is not FAT16 (`fat.na:87`); `fat_close`
reports success whatever the card answered.

## 5. Proofs

Everything is proved for all values of the constants that satisfy the
assumptions named in the modules.

`CpuProofs`: `TypeCorrect` (types); `PhasesCorrect` (`PipelineInv`, assuming
`~PointerWaits`), by one lemma per edge and phase: `FallFetch`, `FallSkip`,
`FallOperand`, `FallWaiting`, `FallRetire`, `RisePhases`; `StrobeCorrect` and
`StrobeBusCorrect` (the strobe and what it stores), from `StrobePhase` and
`WaitPhase`; `Refinement` (`ImplementsIsa`), from the same invariant: `RetireAlu`,
`RetireLd`, `RetireSt`, `RetireLdi`, `RetireJmp` show that the last falling edge
of an instruction is one step of `Isa`, and that every other step is a stutter.

`LinkerProofs`: `TypeCorrect`; `SectionsApart` and `HolesCorrect`. Neither
invariant is inductive alone: a section placed in a gap stays apart from the others
because the gap did, the pieces of a gap stay apart from the other gaps because
the gap did, and both lie below `ip` so that what is placed at the end is
apart from them. The three together are `Tiling`. The lemma
`LeftoverProperties` says what the pieces of a gap are; `RemoveAtProperties` says
what popping a gap from the list leaves.

Its second half goes on from there. `SectionsInside`
(`SectionsInSegments`) and `OrderKept` (`SimpleKeepsOrder`) follow from `Placed`: which
sections have been placed in each phase and inside which bounds (`Placing`: a
gap, too, begins inside the segment at hand), that what is placed comes before what is left
(`Ordering`), and that link changes the bounds of a segment only if no section that has
bytes lies in it (`Linking`). `ImageComplete` (`RomComplete`) needs in addition that link
leaves the segments one behind the other, origin segments as large as their targets
(`InARow`). Then a byte goes to its own address, in a segment that is no origin, or to its
place in the origin segment that is the shadow of its own (`CopyPlace`), and two bytes
that are written to one address are one (`CopiesApart`). This theorem assumes that
shadows and targets name each other (`ShadowsMatch`), as they do in `tools/layouts`; nothing in
`layout.py` checks it. The last two are about layouts that do not bloat: `linker_bloat` shows
what happens to the others.

`CallsProofs`, for every program, depth and set of values: `Types`; `OwnFrames`: of the
activations of one function all but the latest have their frame on the stack;
`RightReturns`; and `Refinement`, that `Calls` implements `Activations`. First the call
graph: `RecursionFound` says that if the callee leads back to the caller at all, the
search of the caller's file, with its traitors, says so: either the path stays
in the file, or it enters it again through a function of another file, which is a
traitor. Then the invariant `IInv`: types, and

- `Linked`: the call in progress and the function that runs belong together;
- `Chained`: each outstanding call was made by the function that the one before it called;
- `Heights`: each pushed call has its frame at the height of the stack that it noted,
  and the heights grow;
- `FramesTyped`: what is taken for an activation's variables has their type;
- `ReturnsToCaller`, which needs the others to know that a push keeps the return
  address and that a static frame is written only for its own activation;
- `Assigned`: the arguments already put are worth what the expressions are worth
  over the caller's variables, though the callee's frame may be the caller's: this is where
  `ArgsAssumption` is used.

`FramesApart` follows from `Chained` and `RecursionFound`. Each action has two lemmas, one
on what it does to the variables of every activation (`SetFrames`, ...,
`BackFrames`) and one on `IInv`; the refinement then needs only the first.

`KeyboardProofs`, for every set of keys and commands, under invariants each of which
needs the ones before.

- `CountersInStep` (`InStep`), whatever the noise. `FrameInv` adds to `InStep` what an idle
  line means for both counters, that a frame cut off by `hasData` is a whole one, and that
  the sender's counter stands at zero whenever the start bit is put.
- `TypeCorrect` (`TypeOK`). `TypeInv` says in addition what the driver's place says of the
  command and of the byte that waits (`DriverInv`), and that a frame under way from the
  keyboard is the first byte of its queue (`LineInv`).
- `CommandsTaken` (`Taken`). `TurnInv`: if keys are left alone, a command is a conversation
  in which one side speaks at a time: a byte to the keyboard, or its answer on the way, or the
  answer received. `HeardInv`: the keyboard has heard the bits of the byte that is sent, but
  for one if noise turned one over, which the parity then shows (the lemma `OneFlip`).
  `TakenInv`: as long as the keyboard has not taken the byte at the head of `todo`, that byte
  is on its way; or it was heard wrong, which needs the one bit of noise, and RESEND is about
  to be answered, comes back whole, or has come back. An ACK is in none of these cases.

- `Refinement` (`Implements`), if `MaxFlips` is at most one (`OneBit`; section 4 says what two
  bits do). The promise is not inductive: an event may be told long after the key, and nothing in
  it says where the codes are. `StreamInv` says that the bytes that are unread, read in turn from
  where `extended` and `release` stand (`Here`), lead from the events told to the actions
  done (`ToldInv`; `Follows` is such a reading, and the lemmas on it are those of paths: two
  in a row are one, the first step can be taken off, a longer goal changes nothing). Which bytes are
  unread (`Unread`) depends on the step: the one in the register, unless its repeat has
  been asked for and has not come, and those the keyboard has not sent. `SentInv`: the
  register holds the bits of the byte at the head of the queue, but for the one that noise turned over;
  `RegisterInv`: so what the driver reads as valid is the byte that was sent;
  `AskingInv`: if it is not valid the noise is spent, and the RESEND is heard as it was sent.
  The step that tells is `Clear`, by `DecodesNext`; all others leave the unread bytes as
  they are or, with a key, add its codes (`FollowsCodes`).

`CommandsAssumption` says that commands are bytes and that none is empty. `KeysAssumption` says of
`Keys` what the driver's two tables are: one key for a code and E0 or none, and no key for
00, AA, E0, E1 and F0, whose entries are zero.

`AluProofs`, for every width: `TypeCorrect`; `GatesAgree` (`AgreesWithEmulator`): the worth of a
bus is the sum of its wires, the ripple carry adds the worths of two buses (by induction over
the wires: a bus that is right up to wire i is right up to wire i + 1), and complemented wires
are worth the complement; then the sixteen operations are cases, and the inverse operand order
is the other one with the operands exchanged (`Inversion`). `ComparesCorrect` (`ComparesWide`):
two-word numbers compare by their high words, then by their low ones (`Lexical`), and the sign
of a difference is S unless O says that it overflowed (`SignedDifference`). For these proofs
`Alu` writes the worth of the wires as recursive functions.

`FatProofs`, for every geometry of the card, number of files and of failures:
`CacheCoherent` (`CacheFresh`), `CopiesAgree` (`TablesAgree`) and, for a card with two
copies of the table, `BootStays` (`BootIntact`: what `fat_single` refutes is the fault of
the single table alone). Neither of the first two is inductive. A step stores into one copy of the table
what it finds in the cache from the step before, so the invariant `IInv` says which sector
that is (`Jobs`); it says how far one copy is ahead of the other between the two writes of
a change (`Copied`: by one entry, or by one sector); and, since a step changes one entry
of one sector, that every cluster that the directory, the table, a descriptor or a call
names is on the card (`DiskOK`, `Descs`, `Jobs`). `FetchEffect`, `FlushEffect` and
`UpdateEffect` say once what every step does to card and cache, failing or not;
`FirstChanged`, `SecondChanged` and `SectorCopied` what it does to the copies;
then there is one lemma per action. `NoneAssumption` says that the address that marks the
cache as empty is the address of no block.

`ChainProofs`: `FilesApart` (`ChainsApart`), whatever fails and however often. After a failure
the two copies of the table may differ, and a later write of a sector carries an old entry of
one copy into the other, so the invariant is about the links of both copies together. It says
that the clusters can be labelled, each with the file it belongs to (`own`) and its distance
from that file's first cluster (`rank`), so that a link stays in the file and leads one
further, no cluster is led to from two others, and what the directory, a descriptor or a call
names carries the right label (`Entered`, `Settled`, `Task`). Labels that differ are clusters
that differ, which is all the apartness the code relies on: what `free_cluster_chain` frees
belongs to the file that is truncated, behind the cluster where it ends. Only `alloc_cluster`
changes a label. Two hypotheses: `Narrow`, that the table has at most 0xffff entries (of a
table of 256 sectors `alloc_cluster` would take the last entry, whose number is 0xffff, as a
cluster); and `ReuseTruncated = FALSE`, because of finding 2.

`FileProofs` adds lengths to the labels: `FilesStayWhole` (`FilesWhole`), `LastLenKept`
(`LastClusterLen`) and `ChunksInPlace` (`TransferInPlace`), under one invariant, `WholeInv`. A
file that no failure has torn has one cluster of each rank up to its number of clusters, the
copies of the table agree on them, and its size fills all but the last (`FileOK`); a
descriptor points to a cluster of its file, its position is the rank of that cluster times
the cluster size plus its offset (`Ready`). That is the state between calls. A call goes
through states that fall short of it, each in its own way, and `Doing` says how far, for each
step: a cluster that is linked in one copy only (`Extending`) or in both but not yet written to
(`Attaching`), a chain about to be cut (`Halving`) or cut in one copy (`Parted`), the clusters
behind the cut that are still to be freed (`Losing`, `Lost`). An abandoned call leaves its file in one of these
states, and then the file is in `torn`. What descriptors say matters as long as the card
answers, and for as long after as a block of data is in the cache (`Active`): a call goes on
reading from a cached block when the card is off. Each action has its lemma, named after it
(`LinkClusterSound`, ...); that a step leaves the other files alone is proved once (`Alike`).
`LastClusterLen` is not only about that state: it holds in every step of every call but the
truncation of the file itself, also of a call on another file. `InCall` gets it from `Doing`: in
the steps that move a pointer (`Moving`) the chain of the copy that is read ends where
`last` says (`Stops`), before the new cluster while it is being linked (`Extending`), after it
with `last` at 0 when it is linked and empty (`Attaching`).
The chain that the properties speak of is recursive over its length, so `ChainRanks` finds the
ranks in it by `SetInduction`, and its number of clusters is a bijection (`ChainSize`). The
hypotheses are `ReuseTruncated = FALSE` and `Small`: a cluster is shorter than 65536 bytes, as
`cluster_mask + 1` is a word, and no cluster has a number that stands for an end (0xfff8
and above); with the 256 entries of a sector, `Small` leaves out the same tables as `Narrow`. Only
`ChunksInPlace` needs in addition that `INVALID_BLOCK_ADDR` is the address of no block of data.

The types of `Fat` are the last thing proved about it, because they need the rest: that
`index` stays inside a block (`TypeOK`) rests on the subtractions of `fat_action` not going
below zero, and so on `last_cluster_len` and the position agreeing with the chain. The
invariant is `StateTyped`, tighter than `TypeOK` (no entry leads to cluster 1, `last` is at
most the cluster size), with `WholeInv` where a chunk is transferred. `TypeCorrect` proves
`TypeOK` for a card that never fails, `TypesUntorn` for one that fails any number of
times, as long as no failure tears a file (`torn = {}`), again if `INVALID_BLOCK_ADDR` is the
address of no block of data. More is not true. With two
copies of the table, two files whose entries share a sector of it, and three failures on
one mounted card, the program can leave `TypeOK`; TLC, led along the calls, confirms it. The
first failure comes between the two copies of a link, and a link of the other file, in the
same sector, copies the one over the other and brings the old entry back. The second comes
in the next link of the first file. The walk of `fat_truncate` (`find_parent_cluster`) now
misses the cluster it looks for, a seek to the end makes position and offset disagree, and
a third failure, in a write, leaves a block of data cached and its descriptor past
`last_cluster_len`: the next read wraps around 16 bits. A complete search with two failures, one descriptor and one
name finds no such case.

**Only model-checked:** the compiler (`BackEnd`), whose generator and meaning are
RECURSIVE operators over trees, which no module with a theorem may reach; liveness
(`InstructionEnds`, `LinkerEnds`, `CallReturns`, `EveryKeyTold`, `CommandsEnd`), since fairness
and ENABLED are out of the prover's reach. Induction over numbers is possible, though the
library's theorems for it cannot be used: `SetInduction` derives it from the pigeonhole
theorem.

## 6. Plan

In this order:

1. `StackFrames` with the masks repaired against `Activations`, with `Refinement` up to
   the depth where the counters wrap.
2. `DivRoutine` and the shift routines of the runtime as the loops they are.
3. `Fat`: an abstract specification, a map from names to sizes, and `Fat` shown to
   implement it; `Card` under it, whose errors it makes; `path.na` and subdirectories.
4. `Linker`: the sections filter; symbols and references (`link` of `link.py`).
5. `Keyboard`: `ps2_get_ascii` and `rsim/src/ps2.rs`.
6. `Ethernet`: receiver, filter, rearm.
7. The emulator's server thread.

**Not modelled, and why:** the boards (artwork), VGA (free-running
counters), the assembler's text and the compiler's grammar, name resolution and
error messages (functions from text to text, covered by the repository's own
tests), the runtime's strings and decimal floats, the applications (single-threaded
programs).
