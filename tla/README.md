# GPUemu: verification project

GPUemu is a small GPU emulated inside QEMU, with the UEFI option ROM that
drives it and an assembler for its shaders. This directory holds TLA+ models of
the parts whose correctness depends on order, state and arithmetic, the TLC
configurations that check them on small instances, and proofs, checked by TLAPS,
that hold for every value of the constants.

## 1. The system

| part | source | state | operations |
|---|---|---|---|
| command processor | `gpu/gpu.c:66-162` | ring registers, mode, pipeline configuration, VRAM | `process_ring_buffer`, `execute_command` |
| MMIO register file | `gpu/gpu.c:56-64, 164-287` | twelve 32-bit registers | `gpu_mmio_write`, `gpu_mmio_read` |
| ring buffer driver | `UEFI/OptionRom/ringbuffer.c` | `ringHead`, cached `ringTail`, staging batch and its cursor | `Init`, `AddCmd`, `Flush`, `WaitSpace`, `ClearCmdBuffer`, `IsIdle` |
| GOP3D protocol | `UEFI/OptionRom/gop3d.c` | none of its own | submission (`CmdBegin`, `Bind*`, `Draw`, `ClearFrame`, `SubmitCmd`, `Present`, `SetMode`, `GpuDestroy`) and buffers (`TransferBuffer`, `UpdateBuffer`, `FreeBuffer`) |
| VRAM allocator | `UEFI/OptionRom/gpu_memory.c:1-165` | `pageStatus`, `pageAllocationSizes` | `GpuAllocateMem`, `GpuAllocateMemAt`, `GpuFreeMem` |
| VRAM and MMIO access | `UEFI/OptionRom/gpu_memory.c:168-422` | none | `GpuVramWrite/Read/Set`, `GpuMmioRead/Write` of three widths |
| renderer | `gpu/renderer.c` | framebuffer, z-buffer | `draw_line`, `draw_triangle`, the 3D modes |
| shader interpreter | `gpu/renderer.c:117-780` | scalar and matrix registers, comparison flag | `exec_shader` |
| shader assembler | `compiler/compiler.c` | label table, output | `assemble`, `process_instruction` |
| display refresh | `gpu/gpu.c:326-336` | QEMU's surface | `vga_update_display`, from QEMU's console or from a draw |
| GOP driver | `UEFI/OptionRom/gop.c` | mode information | `SetMode`, `Blt`, `QueryMode`, `GopSetup` |
| driver binding | `UEFI/OptionRom/rom.c` | who has the PCI device open, published protocols | `Supported`, `Start`, `Stop` |
| applications | `DemoApp`, `FrameBenchmark` | scene data | clients of GOP3D |

**How they interact.** A client records commands through GOP3D into a *batch* in
system memory (`GpuRingBufferAddCmd`). `GpuRingBufferFlush` waits for space,
pads and wraps when the batch does not fit before the ring's end, copies the
batch into the ring in VRAM, and writes the new head into a register. The
emulated device serves that write inside the MMIO handler: unless the mode is
GOP it executes commands from its tail until the tail *equals* the head, and
only then does the driver's CPU go on. Ring, buffers, framebuffer and z-buffer
are blocks of one allocator. `Start` allocates the first three, writes their
addresses into registers and publishes GOP and GOP3D. GOP's fills are plain stores
of the guest's CPU into the framebuffer; QEMU's main loop copies the framebuffer
to the screen whenever it likes, except inside a register access. Driver and device share nothing but registers and
VRAM, and both keep copies: the driver its head and the tail it last read.

**What is hard.** Two pointers on each side, in steps of 36 bytes round a ring of
65536 bytes, which is no multiple of 36; a tail that is read rarely; a wrap that
changes the driver's head long before the device hears of it; flushes that give
up halfway; memory that runs out between two steps; modes in which the device
does not read; a guest that restarts while the device keeps its registers; an
allocator that skips by recorded sizes; an assembler that counts the same
instructions twice by two pieces of code; a line loop that stops only on exact
equality; a screen that is copied while it is painted; a start any of whose calls
may fail and that undoes nothing; registers and a comparison flag that
outlive every execution and are addressed by unchecked numbers. Nearly everything
else is sequential.

**What makes each part correct.**

* Submission: the commands of a flush run whole, in order and once; nothing
  overwrites a command that waits; the device's loop ends; calls return.
* Allocator: blocks never overlap, no page is lost, the first place that fits is
  taken, an allocation is refused only when there is none, a grant is large enough.
* Buffers: handles own their blocks and no two share one; no upload and no picture
  on the screen overwrites an upload; every draw reads whole live buffers; a failed
  call changes nothing.
* Registers: a store changes the bytes it names and no others; what is stored is
  what is loaded (but for two registers, section 4).
* Copies: at every moment exactly the first bytes asked for are copied.
* Start: clients that find the protocols find a driver and a device that agree
  about the blocks of depths and ring, and keep what they were given.
* Drawing: lines lie where they should and end; of triangles the nearest shows;
  colours go to the frame and depths to the depths, but for what a draw of lines
  stores elsewhere (section 4).
* Screen: what a submission drew is visible when it returns, and whatever else is
  painted becomes visible.
* Assembler: its two passes, which count on their own, agree on where every label
  is; every statement becomes one instruction and nothing else does.
* Interpreter: an assembled program does, statement by statement, what its source
  says, through gated statements and jumps; it comes to an end.

## 2. Modules

| module | what it is |
|---|---|
| `CommandQueue` | what submission promises: a queue of commands, no addresses |
| `GpuDevice` | ring registers, VRAM words and the command processor |
| `RingBuffer` | the driver and its client against `GpuDevice`; properties; the refinement of `CommandQueue` |
| `SeqFilter` | a filter on sequences in a form that can be proved about |
| `RingBuffer_proofs` | type correctness, pointers, stalls, pending commands and the absence of timeouts, proved |
| `RingQueue_proofs` | the ring implements `CommandQueue`, proved |
| `VramHeap` | a first-fit heap of disjoint blocks: what each allocation and free does to it |
| `HeapCalls` | what the allocator promises: `VramHeap` with the calls, what they ask for and their answers visible |
| `GpuMemory` | the allocator's arrays and its scan; the refinement of `HeapCalls` |
| `Gop3d` | the client's handles, the protocol's buffers, the commands that name them, and the pages the device reads and writes; composes `VramHeap` and `CommandQueue` |
| `MCBuffers` | `Gop3d` with its handles interchangeable |
| `Gop3d_proofs` | every property of `Gop3d` that a passing run checks, proved |
| `ShaderIsa` | opcodes, registers, tokens and comparisons that assembler and interpreter share |
| `Assembler` | the two passes of the assembler over one source |
| `Shader` | the interpreter and its callers, for one program |
| `ShaderSource` | what a shader's author means: statements in order, no passes, encodings or addresses |
| `Program` | from the source to the execution: composes `Assembler` and `Shader` and implements `ShaderSource` |
| `MCProgram` | the sources with which `Program` is checked |
| `Program_proofs` | types, the agreement of the passes and every jump's number, proved for every source; the execution as written, for sources executed as written |
| `RegisterBytes` | what the register window promises: bytes |
| `Registers` | the register handlers and the driver's accessors; the refinement of `RegisterBytes` |
| `Display` | framebuffer, refresh and GOP's fills, pixel by pixel; extends `Registers` |
| `Raster` | the device's commands on pixels and depths: clears, lines, triangles; extends `Display` |
| `DriverStart` | the driver's start, call by call, over `VramHeap`; extends `Display` |
| `VramAccess` | a copy to or from VRAM or a fill of it, cut into accesses |
| `Adapter` | the machine: composes `Raster`, `DriverStart` and `VramAccess` with a guest, its resets, the device and QEMU's main loop |
| `MCAdapter` | the pictures and accesses with which `Adapter` is checked |
| `Registers_proofs` | the arithmetic of the registers, proved for every base of a byte |
| `Adapter_proofs` | the loop of `draw_line` and every safety property of `Adapter`, proved |
| `Sequence_proofs` | induction on numbers and sequences, and what filters, sums and pieces of sequences are |
| `GpuMemory_proofs` | type correctness, disjoint blocks, no page lost, first fit, large enough grants, the refinement of `HeapCalls`, proved |

**`GpuDevice`.** Addresses count 32-bit words, because every address and size on
this path is a multiple of four bytes; a command is nine words. A command's first
word in VRAM is the command (a model value) and the others are `Payload`, so a
processor that lost the command boundaries would execute `Payload` and be seen.
`Noop` is the word 0. `MmioWrite` is the MMIO handler with
`process_ring_buffer` up to its loop; `ProcessCommand` is one iteration;
`processing` holds the virtual CPU. What a command does to the pipeline is
reduced to its being recorded in `executed`.

**`RingBuffer`.** The driver is one thread, and `pc` says where it is. A step
ends where something else can happen: at each register or VRAM access after
which the guest may reset, at each turn of a polling loop, at the trap into the
device. `InitWrite` is one register write of `GpuRingBufferInit`, and the ring's
VRAM is assumed to have been allocated. `Flush`, `WaitSpace`, `Stall`, `WrapHead`,
`WriteBatch`, `Kick` and `KickReturns` are `GpuRingBufferFlush` and its waits in
the order of the code; `caller` says whether `SubmitCmd`, `Present` or an
`AddCmd` with a full batch called it. `AppendCmd` behind the end of the batch
buffer is undefined behaviour and ends in `fault`, from which only a reset
leads. `GuestReset` zeroes the driver's variables and none of the device's: the
device class registers no reset handler.

**`GpuMemory`.** One turn of the scan is one step, so that what the scan has
established can be stated; the other functions are one step. UINT32 arithmetic
is `% UIntMod`. `call` is the call that runs or ran last with its parameters. In
`HeapCalls` a call and what it asks for can be seen, and its answer is a function of
them and of the blocks: `Ask` makes an allocation pending while the scan runs, `Reply`
answers it with the lowest place that fits or, only when there is none, a refusal;
`AskAt` and `GiveBack` are answered at once and refused only when the place is not
free or starts no block. `PageNamed` is what the code makes of an address: a page, or,
when it is misaligned or behind the end, no page.

**`Gop3d`.** Addresses count pages, and of the contents of VRAM a page keeps only
whose upload it is. The allocator is `VramHeap` and submission `CommandQueue`,
the two abstractions that `GpuMemory` and `RingBuffer` are checked to implement;
`Slots` are the state IDs that `Bind*` set. `AllocateAndUpload` is
`GpuTransferBuffer` with its test for 0 and its failing copy,
`UpdateInPlace`/`UpdateGrows`/`FreeOld` are the branches of `GpuUpdateBuffer`,
`SubmitFails` is a flush that times out (what `RingBuffer` shows can happen), and
`ExecuteCommand` is `execute_command` with its branches, one command a step.
A draw is carried out only in the 3D mode; in the idle mode, which the renderer
itself sets for the length of a draw and a client can set too, it is dropped
without a sign. A draw of triangles writes into frame and z-buffer (`PagesDrawn`); it is
cut to the screen. A draw of lines is cut by nothing: besides the frame, its pixels may
be stored in any set of pages outside the system's blocks (`StrayPages`; that they miss
the ring is a bound, and in the z-buffer no property of this module looks), which then hold
`Stray`. It also writes the shaded colours back into the vertex buffer, whose pages join
`shaded` until the next upload.
With `Careful` the client calls as `DemoApp` and `FrameBenchmark` do: it
transfers into handles that hold nothing, updates those that hold something,
does so between frames, begins each frame with `CmdBegin` and binds every slot
before it draws. Without it, it calls anything at any time.

**`ShaderIsa`, `Assembler`, `Shader`.** A source is a sequence of lines of tokens,
and a token is the record that the assembler's tests on its characters tell
apart: a label's definition, an opcode with its operand type and perhaps `!`, a
condition, a number, a register, another word. `parse_reg` looks at a first
letter and takes the rest for a number, so that `LooksLike` lets a mnemonic with
that letter pass for register 0. One step of `Assembler` is one call of
`process_instruction`; `Skippable` and `Emittable` are the checks of its two
branches, which differ, and `Skipped` and `Width` the tokens each consumes.
`report_error` exits: `asm = "failed"`. One step of `Shader` is one turn of
`exec_shader`'s loop. The arithmetic is `Compute`, any function of the opcode, its type
and what it reads; a register holds a member of `Val`; literals have two
encodings, `IntBits` and `FloatBits`, because the assembler chooses one and the
interpreter uses the one it likes. `Reading` and `Target` say for each opcode which
operands `exec_shader` takes as values, which as register numbers whatever they
were in the source, and where it writes. The model stops in `"lost"` where the
code goes on with memory that is none of the program's, a register that does not
exist, or an integer division by zero.

**`Program`.** `Assemble`, then `Load` (the application's upload), then any number
of executions for vertices and pixels over one register file, which starts with
anything earlier shaders left. Vertex and fragment programs alternate in the
renderer; here one program runs in both ways. `Source` maps the interpreter's byte
address to the statement it stands at. `AsWritten` delimits the statements about
which `RunsAsWritten` speaks in the run `program`. `ShaderSource` itself types literals after the
shader specification and not after the code: angles, translations and weights are
fractions (`Fraction`), whatever type the assembler reads them with. The assembler accepts more, and of those the
interpreter does something else than is written: `and`, `or`, `xor` and `not` have no
case; `rotx` and `roty`, and `blendi` and `lerpi` for the weight, use the integer bits of a
literal as a float; `trans` uses the integer part of a literal and the bits of a register's
float; `dotv3`,
`lenv3` and `signv3` write the scalar register of a matrix register's number,
and the form with a scalar destination that `compilerSpec.md` shows is refused; `col`
ignores its operands; `cast` converts its source in place; a literal where a
register's number is expected becomes one; `ldum` and `lduv` with
a matrix register read the scalar register of its number; and jumps to labels.

**`Registers`.** A register is a number below `LaneBase`^4, and the shifts and masks of
`update_32bit_register` and `gpu_mmio_read` are products, quotients and remainders of
`LaneBase`'s powers. `Store` and `Load` are an access of one, two or four bytes at any
address: `Accepts` is what the write handler lets through, `MmioRead` leaves the two
registers out that the read handler has no case for. `RegisterBytes` knows no
registers: it has 48 bytes, of which the time's cannot be written. `Silent` are the bytes
of which a load promises nothing. `Bytes` has none, as the specification has it, and is
not what the code implements (`ring_reads`); `Readable` has the ring's start and end.
The device changes its mode and its tail between accesses (`DeviceStores`).

**`Display`.** Addresses count words, and a pixel is one. `RefreshPixel` is one turn of
`vga_update_display`, between which the guest's CPU may store; `ShowFrame` is the same
function called by a draw, when nothing else runs. `Fill` is `MyGpuBlt` with
`EfiBltVideoFill` (and the fill of `MyGpuSetMode`), which `FrameBufferBlt`, a library,
turns into the stores `FillWord`. Colours are model values; a cleared pixel is `Black`,
while GOP's black is 0, `Blank`: the code has two as well.

**`Raster`.** `todo` is what lies between tail and head; `NextSlot` moves the tail as
`process_ring_buffer` does, with commands one word long. One pixel of `draw_line` is one
step (`LinePixel`), with the loop's own variables in `line`. The ends of a line are any
coordinates, as nothing in the code clips them, and its pixels are stored wherever they
fall in VRAM: in the frame's next row, the z-buffer, a client's buffer. `ShadeVertices` is
the loop before the lines, which stores shaded colours back into the vertex buffer. A word of
the z-buffer that a line has coloured is read as the depth `AsDepth` gives it. Pixels outside
VRAM, and the `int` overflow of coordinates near its limits, are not followed. A triangle is one step,
because it holds the CPU and nothing observes it halfway; frame and z-buffer are then apart
(`Apart`), or its fragments would meet. A clear is one step as well, and where the
selected frame overlaps the z-buffer `ClearedWord` says which of the loop's stores was the later. Which pixels a triangle
covers, and their depths, come with it (`Shapes`), and so does one colour for a
primitive: this is the floating-point part and the shaders'. `PixelAt` and `DepthAt`
have the code's two strides. `scene` is history and no state of the program.

**`DriverStart`.** `stage` names the call of `GpuVideoControllerDriverStart` that comes
next. Calls that may fail end in `"failed"` with everything left as it is: no path of
the code closes `PciIo`, frees a block or takes a protocol back. Two errors are followed
by the use of a NULL or of freed memory, and end in `"lost"`: the ignored status of the allocator's
initialisation, and a failure to publish GOP, which frees the context and goes on. Two allocations
whose results nobody looks at leave a start that goes on: GOP without the buffer of
`FrameBufferBlt` (`GopSetupWithoutBuffer`, `configured`), whose failing fill a debug build's assertion
stops and another passes over, and GOP3D without a batch (`BatchFails`, `batched`), whose ring is given back.
`BeginStart` can happen again and again; that a second start never gets to the allocator is
`OpenPciIo`, which succeeds once.

**`VramAccess`.** `AccessChunk` is one access through `PciIo`, a word while one is left and
then bytes. `PciServes`, what firmware refuses, is external: accesses that leave the BAR or
are not aligned to their width. The three functions have the same loops and differ in which
way they copy.

**`Adapter`.** The guest has one CPU: a client's call, a store of a fill and a stage of
`Start` are its steps, and it stands still while `Trapped`. QEMU runs register accesses and
refreshes under its global lock (`Unlocked`); stores into VRAM need no lock. `Submit` is
`GpuRingBufferFlush` from its padding to the head write, with the mode on; waiting, batches and
modes in which commands stay in the ring are `RingBuffer`'s. Without a batch buffer, whose size
is then 0, each command is flushed on its own through address 0, where the machine has
memory there, or faults (`SubmitFaults`). A machine whose driver has started can be taken over by
software that accesses the registers at will, or that copies (`TakesOver`). `GuestReset` keeps registers,
VRAM and the surface, also those that such software has programmed: the next start finds a
frame, a width and a height that it does not rewrite, and `reprogrammed` remembers it.

**Operators named in a "Fault:" comment** are plausible slips in the code (a wrap
that waits for exact equality, a missing `continue`, an unreserved word). They
are used by no specification: each stands beside the definition it distorts, and
putting it in that definition's place makes TLC find the corresponding property
violated. `PROJECT.json` pairs them, one for every property.

## 3. Runs

| run | bounds | checks | shows |
|---|---|---|---|
| `ring_any_client` | 4 slots and 4 words, batches up to 5 commands, all modes, memory may run out, resets | `TypeOK`, `PointersOnSlots`, `PointersInOrder`, `StallIsFutile` | pointers stay whole and in order whatever the client does |
| `ring_implements_queue` | the same ring, 2 commands, batches up to 3, modes GOP and 3D | `PendingUntouched`, `ImplementsQueue` | submission is a FIFO queue |
| `ring_half_batches` | 5 slots and 4 words, batches up to 2, modes 3D and idle, fair | `NoTimeout`, `HeadWriteReturns`, `CallsReturn` | with batches of at most half a ring every call returns and no flush gives up |
| `ring_wrap_stuck` | 3 slots and 4 words, batches up to 4 | `NoTimeout`, violated | a large batch that wraps times out on an empty ring |
| `ring_batch_full` | 3 slots and 4 words, one command more than the batch holds | `BatchInBounds`, violated | a failed flush inside `AddCmd` is ignored |
| `alloc` | 5 pages of 4 bytes, requests of 0 to 6 pages, 7 addresses, fair | `TypeOK`, `BlocksDisjoint`, `StatusMatchesBlocks`, `ScanSound`, `GrantCoversRequest`, `AllocationReturns`, `ImplementsHeap` | the allocator answers every call as a first-fit heap does |
| `buffers` | 6 pages, of which 3 are the system's, 2 handles, 1 slot, sizes 1 and 2, batches and ring of 2 commands, a careful client | `TypeOK`, `SystemBlocksStay`, `HandlesOwnBlocks`, `NoBlockLost`, `UploadsIntact`, `DrawsReadUploads`, `FailureChangesNothing` | buffers survive moves, failures, mode changes and resets |
| `buffers_update_unset` | the same with any client | `FrameHoldsNoUpload`, violated | an update of an empty handle draws over the screen |
| `program` | every opcode with two destinations per file and four kinds of operands, alone and behind a comparison; every source of up to 4 of 9 control lines; up to 4 of 6 lines with 2 labels and jumps to them, behind an exit; sources cut in the middle of a statement; 7 values, fair | `TypeOK`, `LabelsNameTheirInstruction`, `JumpsResolved`, `RunsAsWritten`, `ExecutionEnds` | assembled programs do what their sources say, and labels are resolved in any place and order |
| `adapter` | 3 x 2 pixels, 24 words of VRAM, a ring of 6, bytes of 3 values, 5 frames of clears, lines, one of them off the screen, and overlapping triangles, 1 fill, 3 acts of clients, other software and resets, of which 2 may be raw accesses out of 16 addresses and 3 widths, or 1 copy of up to 6 bytes in a BAR of 9; fair | `TypeOK`, `BootAgrees`, `CopyIsExact`, `ReadableAsBytes`, `LineOnCourse`, `NearestShows`, `PresentedIsShown`, `ClientsKeepBlocks`, `WritesStayInPlace`, `ScreenCatchesUp`, `SubmissionReturns` | from a start with any failure to the picture on the screen, also after other software has used the registers or VRAM, in frames that may lie elsewhere and be narrower |
| `ring_reads` | the machine of `adapter`, one raw access | `ImplementsBytes`, violated | two registers cannot be read back |
| `program_jump` | the forward jump of `compilerSpec.md` | `JumpsReachLabels`, violated | a label's address counts instructions, the interpreter's bytes |

**Why the bounds are enough.** The real ring is 1820 whole commands and 16 bytes;
the small rings keep what matters of that: several whole slots and a remainder
that holds no command, in which a command's first word can still stand
(`RingWords % 9 = 4`, as 65536 mod 36 = 16 bytes). Batches can fill the ring,
fit exactly, wrap, and be refused. The driver can stand in every slot with every
older tail. The pointer properties and `PendingUntouched` are also proved for all
sizes. `MaxBatch` bounds what is recorded before a submission and `MaxAttempts`
the turns of the stall loop (100000 in the code; that the number does not matter
is `StallIsFutile`, proved). For the allocator, five pages hold two blocks with
gaps of every size; its invariants are proved for all sizes. For the buffers,
three free pages let one update move a buffer, two buffers fill them and an
allocation fail; a batch of two is one bind and one draw; everything the run
checks is also proved for all sizes and any number of handles and slots.
For the shaders, an opcode's treatment does not depend on what stands around
it except through the flag, the registers and its address, so each is tried with every
kind of operand alone and behind a comparison, and the control lines in every
order: jumps to a label and to literal addresses, into the program and out of
it, gated exits and jumps, labels defined twice or not at all. A label whose
jump is executed is at the start, the only place where a jump arrives; behind an exit
(`LabelledSources`) labels and jumps are anywhere, so that jumps name instructions 1 to 5
and are resolved with widths of every kind before them. `Compute` is a
function that tells operands and their order apart. One set of left-over
registers has a different value at neighbouring numbers, so that a wrong number is seen.
For the machine, three acts are a reset between two submissions, a mode change before a
submission, two submissions with a fill, or a store to a register, a reset and a submission
of the guest that starts then; starting again after a reset takes none. Bytes
of three values have carries between lanes; three by two pixels have a flat line and a
diagonal one that runs the other way, and triangles that overlap, tie in depth and leave the
screen on both sides. A frame has fewer commands than the ring has slots and may wrap. In
24 words a frame that has been moved can overlap the z-buffer, the ring or neither. All
the safety properties of the passing runs are also proved for every screen, ring, frame, byte and number of acts.
Some things are restrictions of the model and not of the code: a refresh that would change
nothing while no fill is under way is left out (`Refresh`); a reset leaves one act to the next
guest and follows no copy; other software takes over before any client has acted, and its
stores keep the frame inside VRAM and no wider or higher than the surface, and do not launch
the command processor; commands are submitted only while the selected frame is apart from
z-buffer and ring (`FrameKeepsClear`); a stray line that falls into the ring does not change
the commands there, and what falls outside VRAM is not followed.
Deadlock is checked in every run but those of `MCProgram`, which really stops:
an assembler that has reported an error has exited, and an execution that is
lost is not followed further; and those of `MCAdapter`, whose guest may have no more to do and whose
start may have left the machine unusable.

**Fairness.** `FairSpec` of `RingBuffer` lets the driver's code run on once it is
called and the device's loop run on once it is entered: both are straight code on
a CPU. Nothing makes the client call or the guest reset. `FairSpec` of
`GpuMemory` lets a scan that has begun go on. That of `Program` lets the assembler
and an execution that has begun go on, both loops without waits; nothing makes the
renderer start one. That of `Adapter` is for the device inside a head write, straight code
again, and for QEMU's console, whose timer refreshes the display for ever: without it the
screen stays as it is. Fills have none, and `ScreenCatchesUp` assumes only that painting has
stopped. `ExecutionEnds` is about sources whose jumps go forward: the
interpreter has no limit, and a backward jump can keep the device for ever.

## 4. Disagreements between the code and what it says

Five have a run of their own, in which TLC shows the behaviour:

* **A wrapped batch can wait for itself** (`ring_wrap_stuck`,
  `ringbuffer.c:133`). The head is moved to the ring's start before there is
  space, and the device, which moves its tail only inside a head write, is not
  told. With the ring empty and the batch more than half of it the wait times out
  after 100000 turns; the batch stays, and so does the situation. The header
  (`ringbuffer.h:61`) says the call blocks until space is available.
* **A full batch is appended to** (`ring_batch_full`, `ringbuffer.c:159-163`):
  the status of the flush that was to empty it is dropped.
* **Two registers cannot be read** (`ring_reads`, `gpu.c:246-281`): loads of the ring's start
  and end return 0; `gpuSpec.md:39-40` has them RW.
* **An update can overwrite the framebuffer** (`buffers_update_unset`,
  `gop3d.c:214`): a handle without a buffer is 0, the framebuffer starts at 0,
  and its length is what `GpuUpdateBuffer` compares the new size with. The
  specification (`gpuSpec.md:253`) has the old buffer freed "if applicable" and a
  new one allocated.
* **Jumps to labels miss them** (`program_jump`, `renderer.c:767`). A label's
  address is the number of instructions before it (`compiler.c:262`), and the
  interpreter adds it to the program's address in bytes. The forward jump of
  `compilerSpec.md:192-196` continues at byte 2; `shaderSpec.md:589` has the operand
  be a byte offset.

The others follow from the definitions that translate the lines, and the properties of the
passing runs say where they stop short of them:

* **The padding can be left out** (`ringbuffer.c:122-126`): the comment says the dead
  space is filled with no-ops; without memory for them it is not, the wrap goes on, and
  the device runs what was in the ring before. `WrapHead` has it; `ImplementsQueue` is about
  a pool that has room.
* **A missing batch is appended to** (`gop3d.c:317`): the status of `GpuRingBufferInit`,
  which "allocates system memory for the batch" (`ringbuffer.h:27`), is dropped and GOP3D
  published without it. `InitBatch`, `AppendCmd` and `SubmitFaults` have it.
* **`GpuDestroy` may never return** (`gop3d.c:38`): its wait for idle has no bound, and
  commands submitted in GOP mode stay in the ring until another head write, which it does
  not make. `gpuSpec.md:731` has it return. `CallsReturn` is checked without GOP mode.
* **A huge request is granted nothing** (`gpu_memory.c:86`): the sum that rounds up wraps
  in 32 bits, and 0 pages fit anywhere. `gpuSpec.md:127` has the pages "fit the request".
  `GrantCoversRequest` says both: a request that does not wrap is covered, one that does is
  given no page.
* **Lines change vertices** (`renderer.c:946`): the shaded colour is stored in the vertex
  buffer, which a draw only "reads" (`gpuSpec.md:328`) and which is uploaded "once"
  (`gpuSpec.md:1047`). `shaded` in `Gop3d` and the vertices of a draw in `Raster` have it.
* **Lines leave the framebuffer** (`renderer.c:27, 954-970`): nothing clips them, and an
  edge that projects outside the screen, or onto its right or lower border, is drawn into
  whatever memory follows or precedes. `gpuSpec.md:474`: "Written to framebuffer by
  rasterizer". `UploadsIntact` allows for it in what it says of a page's contents, and `WritesStayInPlace`
  names the stores.
* **A clear misses part of a narrow frame** (`gpu.c:72-76`): it counts width * height
  words, and pixels stand in rows of 640. `gpuSpec.md:43` lets software change the width.
  `ClearedWord` has it, and `NearestShows` is about the pixels that it reaches.
* **A start leaves the frame where it was** (`rom.c:162-172`): it allocates the framebuffer
  at address 0 (`gpuSpec.md:84`) and does not write the frame's register, which no reset of
  the guest clears. `BootAgrees` promises the frame where nobody has `reprogrammed` it.
* **Fractions are assembled as integers** (`compiler.c:225`): the angle of `rotx m0 1.57`
  (`compilerSpec.md:54`) is "Immediate F32" (`shaderSpec.md:377`) and is assembled with
  `strtol`, and so is the weight of `blendi` and `lerpi`; the interpreter uses the bits as a
  float (`renderer.c:148, 156, 246, 262`). The translation of `trans` is "F32" too
  (`shaderSpec.md:412`) and loses its fraction. `ShaderSource` has all of them be fractions
  (`Fraction`), as the documents do, and `AsWritten` leaves them out.

Smaller ones: `Present`'s wait "for idle" asks
for zero bytes and returns at once (`gop3d.c:305`), harmless only because head
writes are synchronous; failure of the allocator is `0xFFFFFFFF` and its callers
test for 0 (`ringbuffer.c:15`, `gop3d.c:183`), which the failing copy makes
harmless in the buffers; a draw in the idle mode is dropped silently; the
specification has misaligned accesses rejected (`gpuSpec.md:68-69`), and the
handlers refuse only stores that cross a word's end (QEMU itself rejects unaligned accesses
before they reach the handlers, which are modelled for every address); GOP's black has no
alpha and the device's has, and `put_pixel` drops it; `lerpi` multiplies the sum `a + (b - a)` with the weight
(`renderer.c:246`; arithmetic is `Compute`, so that no run sees it); a start that
fails leaves the task priority raised, `PciIo` open and its context allocated, and
`Stop` reports success and undoes nothing (`rom.c:287-296`), so that no later start
succeeds before a reset; the allocator is described as a buddy allocator and is
first fit over pages; the statements listed with `Program` above that do not do what
they say; `!` before a comparison is dropped by the assembler (`compiler.c:292`), as
`shaderSpec.md:97-98` has it; `test_shaders/jmp_test.asm` uses a `movi` that
the assembler does not know.

## 5. Proofs

All theorems are for every value of the constants, from the assumptions the
modules name (`DeviceAssumption`, `RingAssumption`, `MemoryAssumption`,
`Gop3dAssumption`, `ShaderIsaAssumption`,
`ProgramAssumption`, `RegistersAssumption`, `DisplayAssumption`, `RasterAssumption`, `StartAssumption`,
`VramAccessAssumption`, `AdapterAssumption`), which TLC evaluates in the runs of their
modules.

* **`RingBuffer_proofs`.** `PointersInOrder` is not inductive: that the
  driver's head can wrap rests on what the wait before it established, that the
  head write starts from the old tail rests on the ring registers being set, and
  both on the order of initialisation. The invariant `IInv` adds `InitProgress`
  (which registers have been written so far), `RingRegsSet`, `ProcessorRuns` (the
  device processes only while the driver is in a head write, and then has
  something to read), `FlushProgress` (the space each step of a flush has) and
  `AppendHasCommand`. The arithmetic is in lemmas on four pointers in order: they
  stay so when the driver rereads the tail, wraps, writes, or kicks, and when the
  device advances. From `IInv` follow the type invariant, `PointersStayOnSlots`,
  `PointersStayInOrder`, and the action properties `StallingNeverHelps` and
  `PendingStaysUntouched`. They need no assumption on batch sizes, and hold also
  when the padding fails.
  Under `HalfBatches` (no GOP mode, twice a batch is at most the ring) a second
  invariant says that the ring is empty whenever the driver is not inside a head
  write, and that a wrap leaves the batch's size free before the head it came from;
  then no wait ever stalls (`HalfBatchesNeverTimeOut`).
* **`RingQueue_proofs`.** `RingImplementsQueue` is the refinement of `CommandQueue`: the
  queue is what the slots from the device's tail to its head hold, without the no-ops. The
  invariant `QInv` adds to `IInv` what lies in the ring behind the device's head: the
  driver's own stretch, from that head to the driver's, holds nothing but padding until the
  batch is written, and then the batch (`UntoldSlots`); and that a head write returns with
  the ring drained, unless the mode is GOP. The head write then appends the batch to the queue,
  because the slots from the tail to the new head are those to the old head followed by
  the driver's stretch (`SlotWordsConcat`), and a filter of a concatenation is the
  concatenation of the filters (`WaitsConcat`). A step of the tail takes the first slot
  off, which is a command or is passed over (`WaitsFirst`). The theorem assumes that the pool has
  room for the padding (`~PoolMayFail`), and has to (section 4).
* **`GpuMemory_proofs`.** `BlocksDisjoint` is not inductive alone, because a claim
  looks at `pageStatus` only: it needs `StatusMatchesBlocks`. `ScanSound` rests on
  both. `GrantIsLargeEnough` adds the arithmetic of rounding up; a request for which it wraps is
  granted no page (`WrappedRequest`). `ArraysImplementHeap` is
  the refinement of `HeapCalls`, in which every answer is judged by the call it answers: a place fits in the heap exactly when the scan would take
  it (`UnusedIsFree`, `FitsIsCanAlloc`), so `ScanSound` makes the page the scan claims the
  lowest one and a scan that has come to the end has passed every place, and no page's address is the value `GPU_NO_MEM` (`AddressIsNoFailure`), so a
  grant is never taken for a failure.
* **`Gop3d_proofs`.** `BuffersOK` says that blocks are apart and inside VRAM, that
  the system's are there, that handles own theirs, that the buffer an update has
  moved away from is no handle's, and that pages of a buffer hold its upload or pixels of a line that left the
  screen, which nothing in the code keeps out of it.
  It is inductive for any client: a grant is free of every block
  (`GrantIsFree`) and is not page 0, because the framebuffer is there
  (`GrantIsNotZero`). `FrameOK` adds, for a careful client, what a frame under
  way guarantees: every bind in the batch names a live block, and before each
  draw every slot is bound or, on the device, configured; `DrawsReadLiveUploads`
  follows from the two.
* **`Program_proofs`.** *The passes.* That the count of the second pass matches the label
  table says something about the whole first pass, of which the state keeps only the
  table. `FirstPassStops` states it with the set of stops, each a cursor with its
  count: the set holds the start and the present stop, every other stop's successor
  is in it, and its label is filed. `SecondPassFollows` keeps that set through
  the second pass and has the second pass at one of its members. A step of either
  pass goes from a stop to its successor: `SkippedIsWidth` says that both move over
  the same tokens, and that a first pass that runs into the end of the source
  (`Consumed`) stops where the second never gets to. *The types.* What the second pass
  writes are `WrittenInstrs`: a mnemonic of the table with its number of operands, literals
  of the source except where a jump has an address. With that the interpreter's reads are
  values (`OperandsType`, by the shape of `Reading` for every mnemonic) and so is what it
  writes. *The jumps.* `JumpsAreResolved` is about sources of whole statements (`Lined`):
  a line that is cut short can swallow the head of the next, since `parse_reg` takes some
  mnemonics for registers, and then a line is no statement. Its invariant `ReadingInv`
  places a pass behind a line (`StandsBehind`), has the label table list the labels of the
  lines read, as an increasing sequence of lines (`TableOf`), and has the instructions
  written be the translations of the statements behind the second pass. The first
  entry of a name in the table then is the first line that defines it (`AddressIsPlace`).
  *The execution.* `ProgramRunsSource` is the refinement of `ShaderSource`, for sources
  that are `WellWritten`: whole statements, each of them `AsWritten`. Its invariant `RunInv`
  adds to the former two that what is uploaded is the whole output. From it, the instruction
  at every address is the translation of the statement there (`CurrentIsProper`), and the
  operands that the interpreter reads are the values that the source names
  (`ValuesAreOperands`). A statement of such a source is always one the interpreter can
  execute, so that it goes astray only at the end of the program, on a jump into an
  instruction, or on a division of integers by zero, as the source does (`AstrayStrays`).
  `StepRefines` then takes the instructions one by one: each leaves the registers, the
  flags, the outputs and the place that the statement does.
* **`Sequence_proofs`.** What a recursive definition computes is proved by induction, for
  which the library's theorems cannot be used: they take a predicate as a parameter. Here
  the predicate is a set: a set of numbers that holds 0 and with every member its
  successor holds all (`Induction`, from the well-foundedness of the naturals), and a set
  of sequences that holds the empty one and is closed under `Append` holds all
  (`SeqInduction`). `Recursion` says that a recursive function on 0..n obeys its
  definition. From these: what `Sift`, and in `Program_proofs` `FlattenSeq`, do with an
  element more and with two sequences in a row.
* **`Registers_proofs`.** A word is the sum of its bytes with their weights, in one way
  (`BytesOfWord`, `WordHasBytes`, from the uniqueness of division), an update changes the
  bytes of its mask and no others (`UpdatedBytes`), and a load shifts bytes down
  (`ShiftedBytes`): `StoreImplements`, `LoadImplements` and `DeviceImplements` are the
  steps of the refinement.
* **`Adapter_proofs`.** First the loop of `draw_line`: the rectangle and the nearness to the line are not inductive
  without the meaning of the error term: `err = dx + dy + i*dy + j*dx` after `i` steps
  across and `j` down (`LineInv`). From it, the two tests of the loop keep `i` and `j` below
  their ends (`StepsInRange`) and the deviation below half a pixel (`StepsStayNear`). The invariant
  of the machine is built in parts, each resting on those before
  it. `FileOK` (registers hold words) and `BootInv` say for every stage of `Start` which
  blocks are allocated and what the registers hold, whatever an earlier boot or other software
  left in them: `BootAgrees` alone is not inductive,
  since the depth register is written long before anything is published, and since a second start
  must be known to be stopped by `opened`. With it `Store` and `Load` refine
  `RegisterBytes`, but for the loads of the two registers that the code drops (`ReadableAsBytes`). `DrawInv` types the draw in progress and carries `LineInv`. `ScreenInv`
  keeps the frame in bounds, from which it follows that pixels on the screen and depths fall into
  their places (`DrawingStaysInPlace`, which names the two stores that need not). `SceneInv` strengthens `NearestShows`: a pixel shows the nearest triangle *and* the
  depth buffer holds its depth; one more triangle keeps that (`OneTriangleMore`). `AccessInv` adds that a
  copy is at a multiple of four until its last bytes. `Kinds` completes the types.
  Refreshes and fills are shown not to reach a picture that `PresentedIsShown` speaks of.

Assumptions about data are few: `ProgramAssumption` has sources be lines of tokens, the
registers' leftovers and inputs be values, and the arithmetic return values;
all of them hold of the 32-bit words of the code.

A `CASE` whose conditions overlap denotes any of the arms that apply; TLC takes the first
and does not complain, a proof gets stuck. Where the code's conditions are tried in order,
the models therefore use `IF`s (`Target`, `InstrAt`, `ExecuteDraw`).

Only model-checked: the refinement of `ShaderSource` by sources that are not of whole
statements (the cut sources of `program`), where jumps arrive (`JumpsReachLabels`, which
is false), and liveness (`HeadWriteReturns`, `CallsReturn`,
`AllocationReturns`, `ExecutionEnds`, `ScreenCatchesUp`, `SubmissionReturns`), which is
out of the provers' reach.

## 6. Not modelled, and the plan

What could still be added, in this order:

1. Whether a pixel's colour can depend on the pixel drawn before it through left-over
   registers: `Shader` with the pixels of `Raster`.
2. A head write of a single byte, which launches the processor on a head of which the
   other bytes are old.

Left out for good: the floating-point part of rasterisation (projection, coverage, depth,
interpolated colours) and the matrix library, for which there is no arithmetic that TLC
can check; the other kinds of Blt, which a library performs, and `QueryMode`, which
copies a record; the contents of UEFI's handles and device paths, and task priorities;
the debug dumps; `GpuRingBufferDestroy`, which nothing calls; the reference shader, which nothing
compiles; and the applications' scenes: the order of their calls is `Gop3d`'s careful
client, and any order is `RingBuffer`'s.
