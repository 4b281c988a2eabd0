# Formal model of the V60/V70 processor

TLA+ specifications of the SystemVerilog processor in `rtl/` and of the memory
of its test bench in `tb/`, with TLC configurations that check them on small
instances and TLAPS proofs of what matters most for every size.

## The system

The design is synchronous: one clock, every register updated at its edge. A step
of a module is one clock edge of the components it models, so that the
interleavings are those of the components' states, not of their steps.

| Component | Source | State | Operations | What makes it correct |
|---|---|---|---|---|
| Bus interface | `v60_bus_if.sv` | transfer FSM, latched request, bytes read | take a request, one or two bus cycles, answer | each request acts on exactly its bytes, as a whole, and is answered once |
| Memory | `tb_memory.sv` | bytes, ready flag | combinational read, write with byte enables | (environment) |
| Prefetch unit | `v60_fetch_unit.sv` | circular buffer, pointers, fill level, fetch address, FSM | flush, consume, request, fill | the window holds memory's bytes from the program counter on |
| Arbiter | `v60_cpu.sv` | `response_to_data` | choose a request, route a response | a response reaches the one who asked |
| Main FSM | `v60_control.sv` | 20 states, latches of the instruction in execution | reset, fetch, decode, execute, access memory, write back, enter handlers | sequences accesses, consumes or jumps once per instruction |
| Decoder | `v60_decode.sv` | none | bytes to operation, operands, length | valid only when all bytes are there |
| Interrupt unit | `v60_interrupt.sv` | NMI edge detector and latch | latch, prioritise, acknowledge | no NMI is lost, the vector is the source's |
| Register file | `v60_regfile.sv` | registers, program counter, status word, five stack pointers | read, write | the stack pointer is the one the status word selects |
| ALU, conditions, FPU | `v60_alu.sv`, `v60_flags.sv`, `v60_fpu.sv` | none | arithmetic | results and flags |
| Strings | `sim/v60_string.cpp` | shadow memory, pending writes | one call per instruction | every write reaches the core's memory, once and in order |
| Driver | `sim/sim_main.cpp`, `tb/tb_v60_top.sv` | pending writes it takes over | load, clock, apply deferred writes, print | the two memories agree when they must |
| Reference | `mame/`, `sim/v60_fp.cpp` | registers, memory | vendored emulator the traces are compared with; C arithmetic of floats | what the instruction set is |

The main FSM drives the data port, the prefetch unit its own port; the arbiter
lets one of the two requests through to the bus interface, which drives the
external bus. The main FSM tells the prefetch unit to flush to an address or to
drop the bytes of an instruction; the decoder looks at the prefetch unit's
window all the time. The interrupt unit's `int_pending` is looked at in `ST_HALT`,
its vector one clock later. String instructions are one call to C++ from
`ST_EXECUTE`; its writes come back through a buffer that the driver empties after
the clock edge.

Hard to test, and what the properties aim at (every one is listed with its line
under `hazards` in `PROJECT.json`): responses of a stream that was left arriving
in the next one; the two masters of the bus on the same clock; `bus_ready` of the
first bus cycle taken for the second; consuming and filling on one edge;
pointer sums that wrap at 32 and at 24; instructions longer than the window;
starvation; an NMI on the clock of an acknowledge; interrupt lines withdrawn
between two looks; frames of nested handlers on three stacks; an instruction
decoded while part of it, and so perhaps its length, is still a stale byte;
carries and borrows that go from instruction to instruction across sizes; shift
counts beyond the vector; flags an instruction must keep for a later branch; bits
of a float that are shifted out before it is normalized; operands that pass
through five or six states and as many latches; a pointer that is stepped and
used by the same instruction; register lists; two copies of memory of which only
one is kept up to date.

## Modules

| Module | Models | State and actions |
|---|---|---|
| `BusTypes` | widths, requests | constants only |
| `TbMemory` | `tb_memory.sv` | `mem`, `bus_ready`; `MemClock` |
| `BusIf` | `v60_bus_if.sv` | the registers by their names; one action per state of the FSM (`BifAccept`, `BifIdle`, `BifAddress`, `BifWait`, `BifFirstDone`, `BifSecondDone`, `BifDone`); `BusCycle` is the pins |
| `AtomicMemory` | what the two promise together | `Submit`, `Perform`, `Respond` |
| `MemorySystem` | bus interface and memory under any requests | `Clock(req)`; refines `AtomicMemory` |
| `Windowed` | the size of the window, which the prefetch unit and the decoder share | constant only |
| `FetchUnit` | `v60_fetch_unit.sv` | the registers by their names; `Flush`, `FetchIdle`, `FetchRequest`, `FetchWait`, `FetchFill` |
| `InstructionStream` | what the unit promises the decoder | `Jump`, `Advance`, `Store` |
| `FetchSystem` | the unit, a core that jumps and consumes, and a bus it shares | refines `InstructionStream` |
| `CpuBus` | main FSM, arbiter, prefetch unit, bus interface, memory | one action per state of the main FSM; refines `FetchSystem` |
| `Interrupt` | interrupt unit, handler entry and return, stack pointers | one action per state |
| `Decode` | `v60_decode.sv` | no state: `decoded` and `decode_valid` of a window and a count |
| `ReferenceDecode` | tables and operand routines of `mame/src/` | no state: `RefDecode` of memory |
| `DecodeWindow` | decoder, window and `ST_DECODE` | `window`, `count`, `inst_r`; `Arrive`, `Latch`, `Wait`, `FlushWindow` |
| `FrontEndProofs` | proofs about `FetchSystem`, that it implements `InstructionStream`, and about `DecodeWindow` | |
| `Powers` | powers of two, the values of bits and fields | no state: `Two`, a recursive function |
| `Alu` | `v60_alu.sv`, `v60_flags.sv` | no state: `AluOutcome` and `CondMet`, one operator per group of operations |
| `ReferenceAlu` | arithmetic routines and flag macros of `mame/src/` | no state: `RefExecute`, `RefCond` |
| `FloatUnit` | `v60_fpu.sv` | no state: `FpuOutcome`, one operator per block of the unit |
| `ReferenceFloat` | `sim/v60_fp.cpp` | no state: `RefFloat`, the nearest float to the true value |
| `AluProgram` | what `ST_EXECUTE` does with the two units, the destination register and the condition codes | `reg`, `flags`, `taken`; `ExecuteAlu`, `Count1`, `TestAndSet`, `CrossMove`, `Truncate`, `SetFlag`, `UpdatePsw`, `ExecuteFloat`, `Branch`; `chain` is a history variable |
| `AluProofs` | proofs about `AluProgram`: types, exactness, order | |
| `AluReferenceProofs` | proofs about `AluProgram`: what the emulator does | |
| `Machine` | memory, registers, status word of a program | no state: reads, writes, stacks |
| `ReferenceOperands` | `am1.hxx`, `am2.hxx`, `am3.hxx` | no state: what an operand is, and what finding it does to registers |
| `ReferenceExecute` | `op2.hxx` to `op6.hxx`, `op12.hxx`, `v60.cpp` | no state: `RefInstruction` of a machine and an instruction |
| `Execute` | main FSM and register file, from `ST_DECODE` to `ST_DECODE` | `m` (registers and memory), `t` (the latches); one action per state, and in `ST_EXECUTE`, `ST_EXECUTE2` and `ST_WRITEBACK` one per kind of instruction |
| `ExecuteProofs` | proofs about `Execute` | |
| `StringInstructions` | what string instructions and their operands are | no state |
| `StringDpi` | `sim/v60_string.cpp` | no state: the decoders of operands (`Taken`: what they take an instruction for), and the routine of each operation, on the shadow memory and the buffer of writes |
| `ReferenceStrings` | `op7a.hxx` | no state: `Effect`, all of an instruction but the step to the next one, and `InstLength`, that step |
| `StringMemory` | string instructions in the main FSM, the two memories, the driver's application of the writes | `Decode`, `Execute`, `StringLoop`, `Writeback`, `StoreInstruction`, and the driver's `Apply` |
| `StringReference` | `StringMemory` beside `ReferenceStrings` | no state: the comparison with the reference, apart because it is recursive |
| `StringProofs` | proofs about `StringMemory` | |
| `InterruptProofs` | proofs about `Interrupt` | |
| `MemoryProofs` | proofs about `MemorySystem`, and that it implements `AtomicMemory` | |
| `CpuBusProofs` | proofs about `CpuBus`, and that it implements `FetchSystem` | |
| `MC...` | instances for TLC | |

Names are the code's wherever TLA+ allows it. Words of the core are functions
from byte numbers to bytes. Operators called a "faulty variant" are not part of
the model: each is a plausible error, and the property it is paired with under
`mutants` in `PROJECT.json` fails when it takes the place of the right one.

The two levels of the memory system and of the prefetch unit are related by
refinement mappings: a write happens in `AtomicMemory` when its first bus cycle
takes effect, a read when its response is on the wires (`SettledMem`,
`Performed`); the stream's window is the part of `ibuf_data` that is valid and no
longer than an instruction. `FetchSystem` replaces the bus by what the unit can
observe of it; `CpuBus` shows that the real arbiter, bus interface and main FSM
are such a bus and such a core (`ImplementsPrefetch`), so that what is proved of
`FetchSystem` holds in the composition.

In `CpuBus` an instruction is what the wires show of it: its length, the list of
its data accesses, where it jumps and in which state. In `Interrupt` the bus is
left out: a push or a pop takes one step, and an address is a stack and a depth.
In `Execute` a transfer on the bus is one step, and the instruction is given
decoded: the parts meet in the operation, the operand modes and the length,
which `DecodeWindow` shows to be the reference's, and in the accesses, which
`CpuBus` and `MemorySystem` show to be performed one after the other. The unit of
floating point is a parameter of `Execute`, `Fpu`, since how operands travel does
not depend on what is computed; `AluProgram` has the unit itself.

## Runs

| Run | Instance | What it shows |
|---|---|---|
| `memsys_v60` | 16-bit bus, 6 bytes of memory, one address beyond it, all sizes, aligned requests, a device that stalls at will | `AtomicAccess`, `WriteExact`, `ReadExact` |
| `memsys_unaligned` | the same with every alignment | `WriteExact` fails: stores to odd addresses |
| `fetch_scaled` | buffer of 6, window of 4, pointers modulo 8, instructions of 1 and 2 bytes, jumps to an even and an odd address, a store | `ImplementsStream`, `InstructionBytes`, `OwnAnswer`, `Accounting` |
| `fetch_wrap` | buffer of 24, window of 16, pointers modulo 32, instructions of 3 and 10 bytes | `InstructionBytes` fails: the sum wraps at 32 |
| `cpubus_v60` | buffer of 6, window of 3, 6 bytes of memory, twelve instructions, one of every path through the main FSM | routing, holding, refinement, `Executes`, `FetchServed` |
| `cpubus_longest` | the sizes of the code, an instruction of 20 bytes | `Executes` fails: the window is too small |
| `interrupt_nested` | two nested handlers of any type, three stacks, one maskable line | `FramesInMemory`, `ReturnRestores`, `NmiKept`, `NmiAnswered` |
| `decode_formats` | window of 16, bytes arriving one or two at a time, all 256 opcodes, every addressing mode in each format, stale bytes equal to the mod byte of an immediate | `LikeReference`, `WholeLikeReference`, `DecodedHeld`, `Decodes` |
| `alu_program` | bytes, half words and words of 2, 4 and 8 bits, counts of 6 bits; every operation and size on every byte and on the boundary values of the others; chains of two digits; floats of 4 bits of exponent and 3 of fraction | `LikeReference`, `WideSum`, `WideCompare`, `IntegersExact`, `Ordered`, `Close` |
| `alu_divide` | `DIV` alone | `SignedDivision` fails: negative operands are divided as unsigned words |
| `execute_pairs` | bytes of 2 bits, 32 of them, 7 registers and the stack pointer; every instruction of formats I to VI on operands of every mode, from four status words, and what saves followed by what restores | `LikeReference`, `RoundTrip`, `InstructionEnds` |
| `strings` | bytes of 4 bits, 32 of them, two digits in a byte, a buffer of 8 writes; every operation on every mode its decoder handles without a message, alone or after another one with an ordinary store between | `LikeReference`, `MemoryKept` |

Bounds. The bus interface and the prefetch unit compare addresses with the bus
width and with the ends of the buffer only, so that a memory of a few bus words
and a buffer of a few reaches every case: both alignments, wrap of the buffer and
of the address space, full and empty, consume and fill on one edge. Sizes are
scaled so that they stand to each other as in the code (a window smaller than the
buffer, pointers with room above the buffer); the two places where the real
sizes stand to each other badly have runs of their own. Two levels of handlers
are enough to interrupt a handler on another stack and on the same one.

The decoder dispatches on the opcode, on three bits of byte 1 and on a mod byte,
each by itself, so that every opcode with one mode and every mode with one opcode
of each format is enough. Of floating point, `SCLF` is taken because its operands
differ in size; each operand goes through every mode beside a short and a long
other one. What the decoder and the reference are compared on leaves out, in
`MCHeads`: two double displacements of nine bytes (`cpubus_longest`); indexed
modes, which the decoder has as `AM_ERROR` of length one; Format II encodings of
two-operand instructions, for which `decode_valid` stays low for ever; unknown
sub-operations of floating point, the same; immediates on `INC`, `DEC`, `TASI`,
`JMP` and `JSR`, where only the address of the operand is asked for. Opcodes that
MAME implements and this hardware skips as one byte (`TEST`, `CALL`, `XCH`, `IN`,
`OUT`, `MOVD`, task and privileged operations) are not `defined` in
`ReferenceDecode`. `UPDPSW.H` with an immediate mask is left out too: the decoder
takes the mask to be a half word (`v60_decode.sv:250`), the reference a word
(`op12.hxx:2182`), so that the instruction is two bytes shorter.

The arithmetic unit is written for any width. At 2, 4 and 8 bits a size is still
the lowest part of the next one, the sign bit of one is a plain bit of another,
and a word is four bytes (`RVBYT`); a shift count is as many times wider than it
needs to be as in the code, so that counts are below, at and above every width
and beyond what `shift_count[5:0]` holds. A register of a narrow operation has
other bits above, so that the merge shows. In `AluProgram` an instruction carries
the value of its source operand: how operands are fetched is not part of it. A
bit selected beyond a vector is either value.

`LikeReference` leaves out what the reference itself leaves undefined
(`RefDefined`: shifts of C by more than the vector) and the cases in which core
and reference are known to differ, each with the part that differs (`Unlike`):
byte and half-word results written to R31; `DIV` and `REM` of negative operands;
the carry after `AND`, `OR`, `XOR` and `NOT`, which the reference keeps; carry or
overflow of `ADDC` and `SUBC` when the operand plus carry leaves its size, where
the reference is wrong (`WideSum` shows the core right); the flags of `SHA.W` to
the left and the overflow of `SHA` by exactly the width; `ROTC` by -128.

`chain` records the two numbers a program has been adding or subtracting, digit by
digit, since the last operation without a carry; `Forget` starts over. Two
digits reach every interaction of a first, a next and a highest digit; for more
there is the proof.

A float of 4 and 3 bits has every kind of number the code's has: the unit
compares exponents, shifts by their difference and looks at the highest bits of a
sum, product or quotient, all of which happen in every combination within sixteen
exponents. The operands are zero, all whole numbers that are exact, denormal,
least, largest, infinite ones and no numbers, powers of two and their neighbours,
of both signs, 76 floats in the destination against 27 in the source.
`FloatAssumption` says that no word is beyond the largest float, as in the code.
The unit and the C arithmetic differ (`UnlikeFloat`) in denormal operands and
results, which the unit takes for normal and makes zero; in -0; when a sum
overflows or the exponent of a product or quotient has bit 8 (zero in place of
infinity); when bits of the smaller operand of a sum are shifted out; in a product
below two that is rounded up to two (half the value); in the rounding of quotients;
in CMPF of numbers that differ by less than the least normal one; in the carry of
NEGF of zero; in CVT.SW, which rounds ties to even and never sees the mode in TKCW
(`fpu_rounding` is tied to 0, `v60_control.sv:1176`), and makes a number beyond a
word the largest word. `v60_fpu.sv:2` says "Matches MAME op2.hxx float arithmetic
behavior". What a program can rely on in spite of them is said by
`IntegersExact` (whole numbers of one bit more than the fraction are computed
exactly), `Ordered` (branches after CMPF order the numbers) and `Close` (how far
off a sum or a quotient is). `sim/v60_fp.cpp` clears the carry in CVT.SW, MAME
leaves it; conversions of floats beyond 64 bits are undefined in C.

`Execute` is checked at words of 8 bits and bytes of 2, so that a register list of
one byte of the code's four names seven registers and the status word. One operand
goes through every mode beside a register or a constant, and the pairs of modes
that share a register are there; each status word selects another stack. Longer
programs add nothing to a single instruction, which starts from any of these
states; what one instruction leaves for another one is on the stack, and the pairs
are those of an instruction that saves with one that restores. Core and reference
are known to differ (`Departs`, with the reason beside each case) when

- an address operand (`MOVEA`) is indirect or is stepped down; an operand is
  stepped up into the destination register; `CMP` and `UPDPSW` step down the
  register they also read; a register result goes to a stepped or indirect
  operand;
- a shift count or a narrow source of a cross-size instruction is stepped by the
  size of the other operand;
- a system operation has its destination in memory (`SETF`, `STPR`, `MOVEA`,
  `UPDPSW`, `LDPR` write the source or what was read last, `MOVT` sets no overflow),
  or `LDPR` its source; `LDPR` and `STPR` name the stack pointer in use;
- `MOVSH`, `MOVZH` or `MOVT` has a quick constant, for which register 0 is read;
- a byte or half word goes to R31;
- a floating-point instruction has its second operand in memory and not its
  first, converts from memory to memory, has a pointer, steps the half word of
  `SCLF`, or steps two registers;
- a jump steps a register; a push, pop, frame or return instruction has its
  operand in memory; `PREPARE` has it in a register; `POP` pops the stack pointer;
  `RETIU` finds more than a half word in a register; `GETPSW` goes to memory.

`StringMemory` is checked with 32 bytes of 4 bits, strings of up to nine
characters against a buffer of eight writes, fields of bits within and across
bytes, and numbers of binary digits where the code has decimal ones (`RADIX`). Two
instructions and one ordinary store between reach what the two memories can do to
each other.

`v60_string.cpp:4` says "Matches MAME op7a.hxx behavior exactly". `LikeReference` of
`StringReference` compares all registers, PC (so the lengths the decoders compute),
codes and memory, and says where it does not match:

- no automatic mode steps its register (`Unstepped`);
- the displacement of an operand of bits counts bytes, not bits; of two displacements
  `EXTBF` reads one (`v60_string.cpp:420`) and leaves out the other, in the address
  (`OfBits`) and in the length, 2, 3 or 5 for the reference's 3, 5 or 9 (`Uncounted`):
  what it then takes for the length of the field, the other operand and the next
  instruction are bytes of the displacement, which the model leaves open (`Tails`);
- with an index, `[R16]` to `[R19]` and the words that displacements from them point
  at are taken for PC-relative and direct addresses (`v60_string.cpp:188`, `:345`):
  where the lengths differ, too, what follows is any of `Tails` (`Misread`, `Taken`);
- `SCHBS` leaves R28 where the search began and puts its result away by the R28 from
  before; `MOVBSU` and `MOVBSD` leave R28 and R27 at the byte of the bit behind the last
  one moved (`Left`);
- where the reference stops, at an operand of bits that is a register or an
  immediate, it goes on (`Refused`);
- digits that are none have sums and differences that it cuts to a byte
  (`InvalidDigits`).

In the first four cases the routine does exactly what the definitions named say; of the
last two nothing is said. `Understood` leaves out what has no meaning to compare: the modes
the decoders have no case for, of which they make the value 0 and a length of 1, or of 2
if indexed, with a message; and fields of 0 or of 32 bits and more, whose shifts are undefined.
`Taken` leaves out what only follows from those: an operation misread in such a way that
what is read as its other operand, or its length, is not understood either.

Known and not run: on the 32-bit bus a byte or half word that is not in lane 0 is
read from lane 0 (`v60_bus_if.sv:133`); a maskable line withdrawn between
`ST_HALT` and `ST_INT_CHECK` enters the handler of vector 0 (`v60_control.sv:621`);
`ST_HALT` is the only state that looks at interrupts, a running program is never
interrupted, as it is in the reference.

Fairness. The clock runs: weak fairness of the next-state relation. A device
that stalls answers in the end: the fair step is one in which a strobe is
answered. In `DecodeWindow` bytes keep arriving while there is room, which is what
`FetchServed` of `cpubus_v60` shows of the bus. Nothing is assumed of the interrupt lines, of the program, or of who
gets the bus: that is decided by the code. In `Execute` the clock runs while an
instruction is in execution; nothing makes the program decode another one.

## Proofs

### The prefetch unit

`FrontEndProofs` proves, for every buffer, window and pointer size, address space,
bus width, memory contents and sequence of jumps and consumed lengths:

- `TypeCorrect`: `Spec => []TypeOK`
- `NeverLosesCount`: `Spec => []Accounting`
- `AnswersAreOwn`: `Spec => []OwnAnswer`
- `DeliversInstructions`: `Spec => []InstructionBytes`
- `RefinesStream`: `Spec => ImplementsStream`

under two assumptions the code does not meet everywhere: `SafeLength`, that
buffer size plus longest instruction fits the pointer (24 + 8 = 32: instructions
of at most eight bytes), and `AlignedJumps`, that a 32-bit bus is entered at a
multiple of four. Run `fetch_wrap` shows that the first is needed. The properties
are not inductive: that the window holds the right bytes needs that the *whole*
buffer does (`Contents`), that the write pointer is `fill_level` slots ahead of
the read pointer (`Pointers`), and for a fill that the response read the address
that is stored from (`OwnAnswer`) and finds room (`Accounting`). `IInv` is their
conjunction. Each action has a lemma; the arithmetic of two moduli is in
`WrapOnce`, `Shift` and `SlotDistance`.

For `RefinesStream` the invariant is not enough, since a window with the right
bytes might still have been replaced by other right bytes: memory changes under a
prefetched byte. `Kept(n)` says what an edge that consumes `n` bytes leaves where
it was; every step of the prefetch unit concludes it. With it a flush maps to
`Jump`, a store to `Store` and every other edge to an `Advance` of the bytes
consumed; the bytes that come into sight are memory's (`Contents`), or were stored
to after they had been fetched.

### Arithmetic

`AluProofs` and, for the last of them, `AluReferenceProofs` prove, for every width, any number of
digits and any operand values:

- `WideSumHolds`: `Spec => []WideSum`
- `WideCompareHolds`: `Spec => []WideCompare`
- `TypeCorrect`: `Spec => []TypeOK`
- `OrderedHolds`: `Spec => []Ordered`
- `IntegersExactHolds`: `Spec => []IntegersExact`
- `CloseHolds`: `Spec => []Close`
- `LikeReferenceHolds`: `Spec => []LikeReference`

from the assumptions its modules name. `SizeAssumption`: a vector has at least two bits
and no more than a word. `HalfAssumption`: the weight of a sign bit is a power of two
(32, 16 and 8 bits in the code). `ProgramAssumption`: instructions and registers
hold words, and a floating-point register is the destination of floating-point
instructions only. `FloatAssumption`: a float is as wide as a word, and no word is
beyond the largest float (8 bits of exponent and 23 of fraction). `UnitAssumption`:
a word is four bytes, a half word lies between them, and `shift_count[5:0]` can hold
the width of a word. `DecodedAssumption`: an instruction has the sizes `v60_decode.sv`
gives it. All are theorems of the code's widths and tables; none bounds a value.

A *digit* is what one operation computes: a result, and flags that say of the sum or
difference how it leaves the range of its size (`Digit`). A lemma per operation shows that
it computes a digit (`AddDigit` to `NegateDigit`); `ExtendExact` shows that a digit
keeps a chain exact, from `HighestDigit`: how a number compares with a multiple of
its weight is decided by its highest digit. The invariant `IInv` is that the
chain is exact (`Exact`, which adds to `WideSum` what Z says of a single digit and
that the numbers are in range) and that a branch was taken on the flags that are
still there; comparisons follow from the difference being exact.

Powers of two and the values of sets of bits are recursive functions. The theorems
about recursion in the library take an operator, so `Recursion` constructs such a function
from its finite prefixes, by induction with least elements of sets (`Least`,
`Induct`), and `TwoIs`, `TwoSum` and `TwoGrows` follow. For the types each operation
of the two units has a lemma that bounds its result (`SumsFit` to `BitFits`, `AluFits`,
`FloatFits`): a rotation is shown bit by bit to stay in its vector, a float put together
from fields to be a word.

For floats the invariant is `FloatDone`: an instruction of the unit leaves what the
unit makes of its operands. `Ordered` needs that the bits shifted out in aligning never
decide (`Alignment`: the aligned significands are equal only when the numbers are, and
their difference is no smaller than that of the numbers) and that normalizing makes zero
of nothing above the least normal number (`NormalizedSum`); `SumSigned` says it of the
whole addition. `IntegersExact` needs the length of a whole number in bits (`Long`), its
significand (`Spread`) and its float (`Written`). `IntegerReads` shows that the operands
are such floats. Then nothing is ever rounded: a smaller number aligned is whole
(`WholeAligned`), the highest bit of a sum is moved where it belongs
(`NormalizedExact`), a product of significands is a significand times the power of two
that is dropped (`ProductSpread`), a quotient without a remainder is a significand or
twice one (`QuotientSpread`), and nothing is behind the point in a conversion
(`PartsExact`).

`Close` compares with the nearest float, which the reference finds by a choice among all
powers of two. `NearestAt` resolves the choice: a number has one place, and its nearest
float is counted on from the pattern of that place. So a nearest float that is finite or
is a normal number bounds the number itself (`NearestBound`, `NearestSmall`). For a sum,
`SumParts` takes an addition apart by its larger operand; aligning loses less than a
place of that one (`AlignmentClose`) and normalizing moves what is left by at most one
more (`NormalizedClose`). For a quotient, `QuotientRounded` compares what the unit rounds
with what the reference rounds: the unit rounds up only where the reference does, and
never to a significand of one bit more.

`LikeReferenceHolds` compares with the emulator's routines operation by operation, the
integer ones first (`IntegersLikeReference`, of what `Agrees` says). Both sides are
brought to the value of a number modulo the vector: `ModWithin` and `SignIs` say what a
carry, a sign and an overflow are of a sum that leaves the vector by less than its size;
`BitSplit`, `SameBits` and `FromBitsBits` say that a vector is its bits, by which logic,
the bit operations, reversals and the masks of the arithmetic shift are what they are in
the other form; `RingAt` is what a number of turns makes of a ring, and one turn of the
unit's loop is one turn of it (`TurnRing`), so that the counts of a rotation need not be
bounded. The cases of `Unlike` are the hypotheses the lemmas need: the proof says that
there are no other differences, at any width. `Like` is what an instruction leaves, and
the invariant `IntegersLike` that the last one left it.

For floats `FloatDone` reduces the comparison to one of two functions of the operands
(`FloatAgrees`). The reference's result is the nearest float, found by `NearestAt`; so each
operation of the unit is brought to a whole number of units (a sum of multiples of the
smaller operand's place, a product of significands, a scaled significand, a word) of which
the place is known, and is shown to round there: `NearestPacked` and `NearestLarge` give the
float of a significand that does or does not round up to the next power of two,
`NearestDenormal` one below the least normal number, where the unit makes zero. A sum is what
`SumNearest` says: as long as no bit is shifted out (`Drops`), aligning is exact
(`AlignmentExact`), a carry loses one bit that is rounded as the reference does
(`CarriedNearest`), and a difference is moved up without rounding (`ShiftedNearest`).
`ProductNearest` needs `Wraps`, `ScaleNearest` nothing. For quotients, which are not rounded
alike, `QuotientFlags` shows that sign and zero agree, and `Close` how far off the number is.
`WordNearest` and `WordRounded` compare the conversions; the latter through the one number
`HalfUp` that both roundings give when there is no tie. `UnlikeWhen` turns the list of
differences into the hypotheses of these lemmas.

### The bus interface and memory

`MemoryProofs` proves, for every address space, data and sequence of requests that
are `Aligned` (the 16-bit bus, half words and words at even addresses but for
half-word reads, which run `memsys_unaligned` shows to be needed for writes):

- `TypesKept`: `Spec => []TypeOK`
- `WritesLand`: `Spec => []WriteExact /\ [][WritesOnly]_vars`, where `WritesOnly` says that
  a clock edge changes no location but those of the write being served, to its bytes
- `ReadsReturn`: `Spec => []ReadExact`
- `AccessesAtomic`: the safety part of `AtomicAccess`: initial states and steps of
  the bus are those of `AtomicMemory`.

A location is known by its offset from the requested address, so that wrap and
lanes show in `Reduced`, `Cycles` and `Lanes` only. The invariant says which bytes
of a request are in memory (`Writing`) or in the accumulator (`Reading`) in each
state of the transfer, and that the latched request is one (`Serving`).

### The composition

`CpuBusProofs` proves, for every size of buffer, window and
pointer, both bus widths and any instructions that are `Handlers` (a handler is
entered by pushes and then its vector is read; `HALT` waits for one):

- `TypesKept`, `DataAnswered`, `FetchAnswered`, `HeldUntilConsumed`:
  `Spec => []TypeOK`, `[]DataRouted`, `[]FetchRouted`, `[]InstructionHeld`
- `Implements`: `Spec => ImplementsPrefetch`

The invariant adds what makes them inductive: the access at the data port is one
the instruction has (`Accessing`); what the prefetch unit has under way, though it
may have been flushed, is an aligned read of one cycle answered with memory as it
is (`FetchOwned`); a read that was asked for has room (`RoomKept`); the bytes of an
instruction are in the window in all states after it is decoded (`Held`).
`BusEdge` is all an edge can do to the transaction, whatever the core does; a
lemma per state of the main FSM says what it asks of the bus. For the refinement an
edge that consumes is `Advance` or `Store`, one that jumps is `Jump`. Together with
`RefinesStream` it says of the whole composition that the decoder sees the
instruction stream, at all sizes for which `SafeLength` holds; at the code's own
sizes that is for instructions of up to eight bytes only.

### Interrupts

`InterruptProofs` proves, for any interrupt lines and any bounds on handlers, from
`InterruptAssumption` alone:

- `Typing`: `Spec => []TypeOK`
- `EdgeKept`: `Spec => []NmiKept`
- `FramesKept`: `Spec => []FramesInMemory`
- `ReturnsRestored`: `Spec => ReturnRestores`

A frame stays because the stack pointers of all that was interrupted later lie
above it (`Above`), and leaving a handler goes back to the last context because
each was interrupted with the pointers its predecessor's handler had (`Chain`).
`Enter` and `Leave` say what the latches hold between the steps of an entry and a
return.

### The decoder

`FrontEndProofs` proves, for every instruction, every order in which its bytes arrive
and every content of the rest of the window:

- `WindowTypeCorrect`: `WindowSpec => []WindowOK`, by which an instruction is only latched when it
  is no longer than what has arrived
- `StaysDecoded`: `WindowSpec => DecodedHeld`
- `LatchedLikeReference`: `WindowSpec => ([]WholeLikeReference => []LikeReference)`

The argument is locality. `DecodedLocal` says that two windows with the same first
`len` bytes decode to the same instruction, of which `len` is the length the decoder
gives it; every operator of `Decode` has such a lemma, for a field, an operand, a
format. `decode_valid` says that so many have arrived, and the invariant that what has
arrived is the program's. So whether core and reference agree is a question about full
windows only. `WholeLikeReference` is that question; it speaks of 256 opcodes and
tables, and run `decode_formats` answers it.

### Instructions on the stack

`ExecuteProofs` proves, for every number of registers, size of byte and memory, any
instructions and any content of registers and memory to begin with:

- `RoundTrips`: `Spec => []RoundTrip`

from `MachineAssumption` and `ExecuteAssumption`: a list has a bit for each register
below the stack pointer and one for the PSW, memory has room for all of them (4 * 32
bytes in the code), and an instruction that jumps or uses the stack is not of the
formats I and II, as `v60_decode.sv` has it. `RoundTrip` speaks of the end of the second
instruction only. The invariant `IInv` says what has been saved in each state of the
first (`Saving`: the word under way in the latches, then in memory, then under the
stack pointer; for `PUSHM` that the registers pushed are the highest ones of the list and
lie where the number of those above tells), what is left when it has ended
(`Saved`), and in each state of the second what has been taken back (`Restoring`: for
`POPM` that the registers popped are the lowest ones, and that the machine is still what
it was, since each word is what its register holds).

What it rests on is arithmetic of two moduli: a word stored is the one loaded
(`LoadStored`, from `Bytes`), one that lies four bytes away or more stays (`LoadKept`),
and places on the stack are that far apart even if the stack pointer wraps in a word and
the address in memory (`SlotsApart`). A list is counted: `RankOfNext` for the highest
register left, `RankOfLowest` for the lowest.

`POP` of the stack pointer is not among the pairs: what it pops is overwritten, which is
one of the differences from the reference above.

### Strings

`StringProofs` proves, for every size of byte, memory and buffer, any operands and
lengths the routine understands or takes for others, any `Tails`, and any program of
such instructions and ordinary stores:

- `TypeCorrect`: `Spec => []TypeOK`
- `MemoryIsKept`: `Spec => []MemoryKept`

The work is in the routine, which is sequential and loops over characters, bits and
digits. `Runs(mem)` is the set of its states in which the buffer tells what became of
the memory it began with: a byte that was not touched is what it was and is not in the
buffer; one that was, but for those written when it was full, is what the last write to
it in the buffer says. A written byte stays in the set (`ByteRuns`), so does every loop
whose round does, and every operation has a lemma, which `ExecRuns` collects. Loops are
functions of the number of rounds; induction over it is done with sets (`Stays`,
`Recursion`), since the theorems of the library that take an operator cannot be
instantiated. What `Taken` makes of an instruction is an instruction again
(`TakenInstruction`).

`MemoryKept` is only true between instructions, when the buffer is empty, and not
inductive. `Kept` says the same at every moment of the memory that the driver is going
to make (`AppliedOf`).

### Only model-checked

Comparisons with the reference: `WholeLikeReference` of the decoder and `LikeReference`
of `Execute` and `StringReference`. Those of the decoder and the strings use recursive
operators, which no module with a theorem may reach, and all compare two long computations
case by case. The types of `Execute`: they go through every mode and kind of
instruction; what `RoundTrip` needs of them is part of its invariant. All liveness:
fairness and `ENABLED` are out of the prover's reach.

## Not modelled

The addressing-mode skeleton `v60_addr_mode.sv` (not instantiated) and the tables
of the disassembler and the assembler for the tests (no part of the machine); the
comparison of traces (it prints); privileged and task instructions that the
hardware skips; exceptions of instructions other than `BRKV` and traps (`BRK`,
illegal operands) as far as the reference has them and the core does not;
`CAXI`, `CHKAR` and their like; operands of bits in formats I and II, which the decoder
does not give; the bytes of a string instruction that `v60_string.cpp` reads again
from its shadow memory: the decoded form is given, with the sizes of its displacements,
the length is the routine's own, and bytes it reads from a wrong place are any of
`Tails`. Privileged registers are plain
storage. The 32-bit bus with unaligned lanes is described above.

## What is left

A proof of the types of `Execute` and of its comparison with the reference; and, should the
hardware come to take interrupts while a program runs or to use TKCW in conversions, the
comparison with the reference there.
