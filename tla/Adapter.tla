------------------------------- MODULE Adapter -------------------------------
(***************************************************************************)
(* The machine: a guest with one CPU, which starts the driver, and then    *)
(* fills rectangles through GOP, draws through GOP3D, or programs the      *)
(* device itself; the device, which draws inside the guest's store to the  *)
(* head; and QEMU's main loop, which refreshes the display.  The guest may *)
(* be reset, which the device does not notice: its registers and its       *)
(* memory stay as the guest before left them.  What stands in the ring is  *)
(* todo, which stores of the drawing that fall into the ring leave alone.  *)
(***************************************************************************)
EXTENDS Raster, DriverStart, VramAccess, Sequences

CONSTANTS
  Fills,      \* the rectangles that are filled, each with its colour
  Frames,     \* the sequences of commands that are submitted
  RawAddrs,   \* the addresses of accesses that bypass the driver
  RawData,    \* the bytes of such accesses
  MaxActs,    \* bound: the clients' calls and resets since the machine was on
  MaxRaw      \* bound: the accesses that bypass the driver

ASSUME AdapterAssumption ==
  /\ Frames \subseteq Seq(Commands)
  /\ \A f \in Frames : Len(f) \in 1 .. RingWords - 1
  /\ \A f \in Fills : f.colour \in Colours /\ InFrame(f.rect)
  /\ RawAddrs \subseteq Nat
  /\ \A d \in RawData : d \in Seq(0 .. LaneBase - 1) /\ Len(d) \in {1, 2, 4}
  /\ MaxActs \in Nat /\ MaxRaw \in Nat

VARIABLES
  phase,         \* who uses the device: "clients" of the driver, or software
                 \* that accesses its "registers", or its memory in "copies"
  acts,          \* the calls and resets since the machine was switched on
  reprogrammed   \* history: other software has stored to the registers

adapterVars == <<phase, acts, reprogrammed>>

vars == <<registerVars, displayVars, rasterVars, startVars, accessVars, adapterVars>>

\* The CPU is not inside Start, a fill, a copy or the store to the head.
CpuFree ==
  /\ Resting /\ stage # "lost"
  /\ ~Trapped /\ blt.words = <<>> /\ call.status # "busy"

\* QEMU's global lock: no refresh is under way.
Unlocked == refresh = NoRefresh

Act(max) == acts < max /\ acts' = acts + 1

\* One call of GOP, GOP3D or a reset, which all belong to the first phase.
ClientAct ==
  /\ phase = "clients"
  /\ Act(MaxActs)
  /\ UNCHANGED <<phase, reprogrammed, accessVars>>

ConsoleFill(rect, colour) ==
  /\ CpuFree /\ "gop" \in published /\ configured
  /\ Fill(rect, colour)
  /\ scene' = NoScene
  /\ ClientAct
  /\ UNCHANGED <<registerVars, vram, surface, refresh, todo, draw, line, startVars>>

GpuSetMode(mode) ==
  /\ CpuFree /\ Unlocked /\ "gop3d" \in published
  /\ GpuMmioWrite32("mode", mode)
  /\ ClientAct
  /\ UNCHANGED <<displayVars, rasterVars, startVars>>

\* A client's buffer, of one word.
TransferBuffer ==
  /\ CpuFree /\ "gop3d" \in published
  /\ Heap!Allocate(1)
  /\ ClientAct
  /\ UNCHANGED <<registerVars, displayVars, rasterVars, stage, kept>>

\* Placed behind the head, or at the ring's start when it does not fit there.
Fits(n) == file["head"] + n <= file["end"]

Padding(n) ==
  IF Fits(n) THEN <<>>
  ELSE [k \in 1 .. file["end"] - file["head"] |-> Noop]

HeadBehind(n) ==
  LET first == IF Fits(n) THEN file["head"] ELSE file["start"]
  IN  IF first + n = file["end"] THEN file["start"] ELSE first + n

\* The commands that stand in the ring keep clear of the frame, and so does the
\* z-buffer; the fragments of a triangle may then be drawn in one step.
FrameKeepsClear ==
  /\ Apart
  /\ file["fb"] + FrameWords <= file["start"] \/ file["end"] <= file["fb"]

\* GpuSubmitCmd with the device switched on; the store to the head holds the
\* CPU until the device is done.  Without a batch buffer, whose size is then 0,
\* GpuRingBufferAddCmd flushes before every command, so that each is submitted
\* on its own, and is copied to address 0 and from there, where the machine has
\* memory there.  Bound: the frame that is selected keeps clear of the rest.
Submit(frame) ==
  /\ CpuFree /\ Unlocked /\ "gop3d" \in published
  /\ batched \/ Len(frame) = 1
  /\ FrameKeepsClear
  /\ file["mode"] # ModeGop
  /\ GpuMmioWrite32("head", HeadBehind(Len(frame)))
  /\ todo' = Padding(Len(frame)) \o frame
  /\ ClientAct
  /\ UNCHANGED <<displayVars, draw, line, scene, startVars>>

\* Where there is no memory at address 0, the copy faults.
SubmitFaults ==
  /\ CpuFree /\ "gop3d" \in published /\ ~batched
  /\ stage' = "lost"
  /\ ClientAct
  /\ UNCHANGED <<registerVars, displayVars, rasterVars, kept, blocks, answer>>

\* The device has no reset handler: it keeps its registers and its memory,
\* also those that other software has programmed.  Bound: the guest that starts
\* then has an act left, and nobody has copied bytes.
GuestReset ==
  /\ phase # "copies"
  /\ ~Trapped /\ Unlocked
  /\ acts + 1 < MaxActs /\ acts' = acts + 1
  /\ stage' = "stopped" /\ opened' = FALSE /\ published' = {}
  /\ configured' = FALSE /\ batched' = FALSE
  /\ blocks' = {} /\ answer' = Heap!Refused
  /\ blt' = NoBlt
  /\ scene' = NoScene
  /\ phase' = "clients"
  /\ UNCHANGED <<registerVars, vram, surface, refresh, todo, draw, line,
                 reprogrammed, accessVars>>

Client ==
  \/ \E fill \in Fills : ConsoleFill(fill.rect, fill.colour)
  \/ \E mode \in {ModeGop, Mode3d, ModeIdle} : GpuSetMode(mode)
  \/ TransferBuffer
  \/ \E frame \in Frames : Submit(frame)
  \/ SubmitFaults
  \/ GuestReset

Boot ==
  /\ phase = "clients"
  /\ stage \in {"zregister"} \cup {RingStages[k] : k \in 1 .. 6} => Unlocked
  /\ StartStep
  /\ UNCHANGED <<rasterVars, accessVars, adapterVars>>

StoreFillWord ==
  /\ FillWord
  /\ UNCHANGED <<registerVars, rasterVars, startVars, accessVars, adapterVars>>

Device ==
  /\ DeviceStep
  /\ UNCHANGED <<request, loaded, startVars, accessVars, adapterVars>>

\* The surface holds the pixels that FB() and the size registers select.
Shown == \A i \in 0 .. Visible - 1 : surface[i] = vram[file["fb"] + i]

\* Refreshes that would copy what is there already, with no fill under way, are
\* left out: they change nothing, and a fill finds none it would not find so.
Refresh ==
  /\ (BeginRefresh /\ (~Shown \/ blt.words # <<>>)) \/ RefreshPixel
  /\ ~Trapped
  /\ UNCHANGED <<registerVars, rasterVars, startVars, accessVars, adapterVars>>

\* Bound: other software takes over a machine whose start has succeeded and
\* that no client has used, once its screen is up to date, and keeps it.
TakesOver(who) ==
  /\ \/ phase = who
     \/ phase = "clients" /\ acts = 0 /\ stage = "done" /\ "gop3d" \in published /\ Shown
  /\ CpuFree /\ Unlocked
  /\ phase' = who
  /\ Act(MaxRaw)

\* Accesses that bypass the driver.  Bound: stores that launch the command
\* processor are GpuDevice's, and the frame stays in VRAM.
RawAccess(addr, data) ==
  /\ TakesOver("registers")
  /\ \/ /\ Store(addr, data)
        /\ FrameInBounds(file')
        /\ addr \in 4 .. 7 => file["mode"] = ModeGop
        /\ reprogrammed' = TRUE
     \/ Load(addr, data) /\ UNCHANGED reprogrammed
  /\ UNCHANGED <<displayVars, rasterVars, startVars, accessVars>>

VramCall(op, at, size) ==
  /\ TakesOver("copies") /\ acts = 0
  /\ CallVram(op, at, size)
  /\ UNCHANGED <<registerVars, displayVars, rasterVars, startVars, reprogrammed>>

VramStep ==
  /\ AccessStep
  /\ UNCHANGED <<registerVars, displayVars, rasterVars, startVars, adapterVars>>

Others ==
  \/ \E addr \in RawAddrs, data \in RawData : RawAccess(addr, data)
  \/ \E op \in {"write", "read", "set"}, at \in 0 .. MemBytes, size \in 0 .. HostBytes :
       VramCall(op, at, size)
  \/ VramStep

Init ==
  /\ RegistersInit(FbWidth, FbHeight)
  /\ DisplayInit
  /\ RasterInit
  /\ StartInit
  /\ AccessInit
  /\ phase = "clients" /\ acts = 0 /\ reprogrammed = FALSE

Next == Boot \/ StoreFillWord \/ Client \/ Device \/ Refresh \/ Others

Spec == Init /\ [][Next]_vars

\* QEMU's main loop refreshes the display again and again, and the device runs
\* until the store returns.  Nothing makes the guest do anything.
Fairness == WF_vars(Device) /\ WF_vars(Refresh)

FairSpec == Spec /\ Fairness
-----------------------------------------------------------------------------
TypeOK ==
  /\ RegistersTypeOK
  /\ vram \in [0 .. VramWords - 1 -> Colours \cup Nat]
  /\ surface \in [ScreenPixels -> Colours \cup Nat]
  /\ refresh \in ScreenPixels \cup {NoRefresh}
  /\ blt.colour \in Colours \cup {Blank} /\ blt.words \in Seq(0 .. VramWords - 1)
  /\ todo \in Seq(Commands) /\ (Trapped => phase = "clients")
  /\ draw.on => Trapped /\ file["mode"] = ModeIdle
  /\ line.drawing => draw.on
  /\ scene.cleared \in BOOLEAN
  /\ stage \in Stages /\ {opened, configured, batched, reprogrammed} \subseteq BOOLEAN
  /\ published \subseteq {"gop", "gop3d"}
  /\ call.i \in 0 .. call.size
  /\ phase \in {"clients", "registers", "copies"} /\ acts \in Nat

FrameBlock == [page |-> 0, pages |-> FrameWords]
DepthBlock == [page |-> file["z"], pages |-> FrameWords]
RingBlock  == [page |-> file["start"], pages |-> file["end"] - file["start"]]

\* Whichever of its calls fail, and whatever an earlier boot or other software
\* has left in the registers, a driver whose GOP3D clients can find has told the
\* device of the depth buffer and of the ring it allocated, and those and the
\* framebuffer's block do not overlap; without a batch buffer the ring's block
\* has been given back.  Nobody but other software selects a frame elsewhere
\* (UEFI/OptionRom/rom.c, GpuVideoControllerDriverStart; ringbuffer.c,
\* GpuRingBufferInit).
BootAgrees ==
  ("gop3d" \in published /\ phase = "clients") =>
    /\ {FrameBlock, DepthBlock} \subseteq blocks
    /\ batched => RingBlock \in blocks
    /\ FrameWords <= file["z"] /\ file["z"] + FrameWords <= file["start"]
    /\ file["head"] \in file["start"] .. file["end"] - 1
    /\ ~reprogrammed => file["fb"] = 0

\* What GOP3D has handed out stays allocated until the guest is reset, however
\* often the firmware starts the driver: only the first start initialises the
\* allocator (UEFI/OptionRom/rom.c, EFI_OPEN_PROTOCOL_BY_DRIVER).
ClientsKeepBlocks ==
  [][(published # {} /\ published' # {}) => blocks \subseteq blocks']_vars

OnTheScreen(x, y) == x \in 0 .. FbWidth - 1 /\ y \in 0 .. FbHeight - 1

\* One of the line's two ends, of which x1 and y1 are the second, is off the screen.
LeavesScreen(l) ==
  ~(OnTheScreen(l.x1, l.y1) /\ OnTheScreen(l.x1 - l.dx * l.sx, l.y1 + l.dy * l.sy))

\* The stores of a draw of lines that may fall anywhere: the colours of its
\* vertices, and the pixels of a line that leaves the screen.
StraysTo(a) ==
  \/ Trapped /\ ~draw.on /\ Head(todo).op = "lines" /\ a \in Head(todo).vertices
  \/ line.drawing /\ LeavesScreen(line) /\ a = PixelAt(line.x, line.y)

\* A store to VRAM is a colour in the block that GOP fills or in the frame that
\* is selected, or a depth in the z-buffer, or one of the two stores of a draw
\* of lines that may fall anywhere: no triangle is so placed, no line between
\* ends on the screen so steep, no frame so narrow and no fill so timed that
\* another store does (gpu/renderer.c, put_pixel, draw_line and draw_triangle;
\* gpu/gpu.c, execute_command).
WritesStayInPlace ==
  [][\A a \in DOMAIN vram :
       \/ vram'[a] = vram[a]
       \/ vram'[a] \in Colours \cup {Blank} /\ a \in 0 .. FrameWords - 1
       \/ vram'[a] \in Colours /\ a - file["fb"] \in ScreenPixels
       \/ vram'[a] \in Nat /\ a - file["z"] \in ScreenPixels
       \/ vram'[a] \in Colours /\ StraysTo(a)]_vars

\* What a submission has drawn is on the screen when the submission returns,
\* and until something else is painted, although no refresh need have run since
\* and one may be under way (gpu/gpu.c, wireframe_3d_mode, triangles_3d_mode).
PresentedIsShown == (scene.parts # <<>> /\ ~Trapped) => Shown

\* When nothing more is painted, the screen comes to show the frame, and shows
\* it from then on, although fills do not wait for refreshes (gpu/gpu.c,
\* vga_update_display; UEFI/OptionRom/gop.c, MyGpuBlt).
ScreenCatchesUp == <>[][FALSE]_<<vram, file>> => <>[]Shown

\* Every store to the head returns: lines meet their last pixel, and each
\* command, also one that is dropped, moves the tail (gpu/renderer.c,
\* draw_line; gpu/gpu.c, process_ring_buffer).
SubmissionReturns == Trapped ~> ~Trapped
=============================================================================
