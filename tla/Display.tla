------------------------------- MODULE Display -------------------------------
(***************************************************************************)
(* What is on the screen.  The framebuffer lies in VRAM; QEMU's console    *)
(* calls vga_update_display (gpu/gpu.c) now and then, which copies it to   *)
(* the surface pixel by pixel; the guest fills rectangles of it through    *)
(* GOP (UEFI/OptionRom/gop.c), which are plain stores into VRAM and wait   *)
(* for nobody.  Addresses count words, of which a pixel takes one.         *)
(* Register accesses and refreshes exclude each other: QEMU runs both      *)
(* under its global lock.                                                  *)
(***************************************************************************)
EXTENDS Registers

CONSTANTS
  FbWidth, FbHeight,   \* GPU_FB_WIDTH and GPU_FB_HEIGHT
  VramWords,           \* the words of VRAM
  Colours,             \* the colours of pixels
  Black                \* the colour of a frame that the device has cleared

ASSUME DisplayAssumption ==
  /\ {FbWidth, FbHeight, VramWords} \subseteq Nat \ {0}
  /\ 2 * FbWidth * FbHeight <= VramWords
  /\ VramWords \in Word
  /\ Black \in Colours /\ Colours \cap Nat = {}

VARIABLES
  vram,      \* the words of VRAM
  surface,   \* the pixels of QEMU's display surface
  refresh,   \* the next pixel of the refresh in progress, or NoRefresh
  blt        \* the words a fill has still to write, in order, and its colour

displayVars == <<vram, surface, refresh, blt>>

NoRefresh == -1

ScreenPixels == 0 .. FbWidth * FbHeight - 1

\* width * height in vga_update_display and in the clearing of a frame.
Visible == file["width"] * file["height"]

\* A word of zeros, as all are at first: GOP's black pixel, a depth of 0.
Blank == 0

\* The pixels that FB() and the size registers select.
Frame == [i \in ScreenPixels |-> vram[file["fb"] + i]]

\* Bound: the frame that is selected lies in VRAM and is no wider or higher
\* than the surface, also when software reprograms it.
FrameInBounds(f) ==
  /\ f["width"] \in 1 .. FbWidth /\ f["height"] \in 1 .. FbHeight
  /\ f["fb"] + FbWidth * FbHeight <= VramWords

BeginRefresh ==
  /\ refresh = NoRefresh
  /\ refresh' = 0
  /\ UNCHANGED <<vram, surface, blt>>

\* Fault: the refresh goes over the columns where it should go over the pixels.
RefreshPixelColumns ==
  /\ refresh # NoRefresh
  /\ surface' = [surface EXCEPT ![refresh] = vram[file["fb"] + refresh]]
  /\ refresh' = IF refresh + 1 < file["width"] THEN refresh + 1 ELSE NoRefresh
  /\ UNCHANGED <<vram, blt>>

\* One turn of the loop of vga_update_display.
RefreshPixel ==
  /\ refresh # NoRefresh
  /\ surface' = [surface EXCEPT ![refresh] = vram[file["fb"] + refresh]]
  /\ refresh' = IF refresh + 1 < Visible THEN refresh + 1 ELSE NoRefresh
  /\ UNCHANGED <<vram, blt>>

\* vga_update_display as the device calls it itself, inside a register access.
ShowFrame ==
  surface' = [i \in ScreenPixels |-> IF i < Visible THEN Frame[i] ELSE surface[i]]

\* The words of a rectangle row by row.  FrameBufferBase is the start of VRAM,
\* PixelsPerScanLine the width that Start was compiled with.
WordsOf(rect) ==
  [k \in 1 .. rect.w * rect.h |->
     (rect.y + (k - 1) \div rect.w) * FbWidth + rect.x + ((k - 1) % rect.w)]

\* FrameBufferBlt refuses rectangles that leave the frame.
InFrame(rect) ==
  /\ rect.x \in Nat /\ rect.y \in Nat /\ rect.w \in Nat \ {0} /\ rect.h \in Nat \ {0}
  /\ rect.x + rect.w <= FbWidth /\ rect.y + rect.h <= FbHeight

Whole == [x |-> 0, y |-> 0, w |-> FbWidth, h |-> FbHeight]

NoBlt == [words |-> <<>>, colour |-> Blank]

\* FrameBufferBlt with EfiBltVideoFill, as MyGpuBlt and MyGpuSetMode call it.
Fill(rect, colour) == blt' = [words |-> WordsOf(rect), colour |-> colour]

FillWord ==
  /\ blt.words # <<>>
  /\ vram' = [vram EXCEPT ![Head(blt.words)] = blt.colour]
  /\ blt' = [blt EXCEPT !.words = Tail(@)]
  /\ UNCHANGED <<surface, refresh>>

DisplayInit ==
  /\ vram = [a \in 0 .. VramWords - 1 |-> Blank]
  /\ surface = [i \in ScreenPixels |-> Blank]
  /\ refresh = NoRefresh
  /\ blt = NoBlt
=============================================================================
