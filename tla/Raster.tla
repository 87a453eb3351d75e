------------------------------- MODULE Raster -------------------------------
(***************************************************************************)
(* The device's drawing: execute_command (gpu/gpu.c) with the loops of     *)
(* gpu/renderer.c that write pixels and depths.  All of it runs inside the *)
(* store to the head register.  Lines are drawn by draw_line with integers *)
(* only and one pixel is one step; which pixels a triangle covers and how  *)
(* deep they lie is floating point and part of the primitive here, as are  *)
(* the ends of a line and the colour that the shaders give a primitive.    *)
(* Nothing clips a line: its pixels are stored wherever they fall in VRAM. *)
(* Those outside VRAM change nothing that is modelled.                     *)
(***************************************************************************)
EXTENDS Display

CONSTANTS
  Far,     \* FLT_MAX, deeper than every fragment
  AsDepth, \* the depths that colours stand for when they are read as such
  Shapes   \* triangles: the pixels each covers with their depths, and a colour

ASSUME RasterAssumption ==
  /\ Far \in Nat
  /\ AsDepth \in [Colours -> Int]
  /\ \A t \in Shapes :
       /\ t.colour \in Colours
       /\ DOMAIN t.depth \subseteq Int \X Int
       /\ \A p \in DOMAIN t.depth : t.depth[p] \in 0 .. Far - 1

VARIABLES
  todo,    \* the commands between the ring's tail and its head
  draw,    \* whether a draw is in progress, and its primitives still to draw
  line,    \* the variables of draw_line
  scene    \* history: whether the frame was cleared and no line drawn since,
           \* and the primitives since it was cleared

rasterVars == <<todo, draw, line, scene>>

\* The edges of a wireframe, wherever its vertices lie.
Edges == [x0 : Int, y0 : Int, x1 : Int, y1 : Int, colour : Colours]

Noop == [op |-> "noop"]

\* A draw of lines names the words of its vertex buffer that hold colours, and
\* the colour that the vertex shader leaves there.
Commands ==
  {Noop, [op |-> "clear"]}
    \cup [op : {"lines"}, parts : Seq(Edges),
          vertices : SUBSET (0 .. VramWords - 1), shade : Colours]
    \cup [op : {"triangles"}, parts : Seq(Shapes)]

\* The loop of process_ring_buffer holds the virtual CPU.
Trapped == todo # <<>>

\* The tail behind one more command; a slot of the ring is one word here.
NextSlot(f, slot) == IF slot + 1 >= f["end"] THEN f["start"] ELSE slot + 1

Done(f) == [f EXCEPT !["tail"] = NextSlot(f, @)]

NoDraw  == [on |-> FALSE, parts |-> <<>>]
NoScene == [cleared |-> FALSE, parts |-> <<>>]

\* Pixel <<x, y>> in the framebuffer, whose rows are GPU_FB_WIDTH long whatever
\* the width register says, and in the z-buffer, whose rows follow the register.
PixelAt(x, y) == file["fb"] + y * FbWidth + x

\* Fault: the rows of the z-buffer are as long as those of the framebuffer.
DepthAtConstant(x, y) == file["z"] + y * FbWidth + x

DepthAt(x, y) == file["z"] + y * file["width"] + x

\* The frame and the z-buffer have no word in common.
Apart ==
  \/ file["fb"] + FbWidth * FbHeight <= file["z"]
  \/ file["z"] + FbWidth * FbHeight <= file["fb"]

\* The loop that clears both buffers stores a word of the frame and then one of
\* the z-buffer; of two stores to one word the later stands.
ClearedWord(a, n) ==
  LET i == a - file["fb"]
      j == a - file["z"]
  IN  IF i \in 0 .. n - 1 /\ (j \in 0 .. n - 1 => j < i) THEN Black
      ELSE IF j \in 0 .. n - 1 THEN Far ELSE vram[a]

\* Fault: the loop makes one turn too many.
ExecuteClearMore ==
  /\ Trapped /\ ~draw.on /\ Head(todo).op = "clear"
  /\ vram' = [a \in DOMAIN vram |-> ClearedWord(a, Visible + 1)]
  /\ scene' = [cleared |-> TRUE, parts |-> <<>>]
  /\ file' = Done(file) /\ todo' = Tail(todo)
  /\ UNCHANGED <<surface, refresh, blt, draw, line>>

\* CMD_CLEAR_FRAMEBUFFER.
ExecuteClear ==
  /\ Trapped /\ ~draw.on /\ Head(todo).op = "clear"
  /\ vram' = [a \in DOMAIN vram |-> ClearedWord(a, Visible)]
  /\ scene' = [cleared |-> TRUE, parts |-> <<>>]
  /\ file' = Done(file) /\ todo' = Tail(todo)
  /\ UNCHANGED <<surface, refresh, blt, draw, line>>

\* CMD_NOOP, with which the driver pads the end of the ring.
ExecuteNoop ==
  /\ Trapped /\ Head(todo).op = "noop"
  /\ file' = Done(file) /\ todo' = Tail(todo)
  /\ UNCHANGED <<displayVars, draw, line, scene>>

IsDraw(cmd) == cmd.op \in {"lines", "triangles"}

\* Before the lines, each vertex is shaded and its colour stored back.
ShadeVertices(cmd) ==
  IF cmd.op = "lines"
    THEN /\ vram' = [a \in DOMAIN vram |-> IF a \in cmd.vertices THEN cmd.shade ELSE vram[a]]
         /\ scene' = [scene EXCEPT !.cleared = FALSE]
    ELSE UNCHANGED <<vram, scene>>

\* Fault: the renderer draws without taking the device out of the 3D mode.
BeginDrawIn3d ==
  /\ Trapped /\ ~draw.on /\ IsDraw(Head(todo))
  /\ file["mode"] = Mode3d
  /\ draw' = [on |-> TRUE, parts |-> Head(todo).parts]
  /\ ShadeVertices(Head(todo))
  /\ UNCHANGED <<file, surface, refresh, blt, todo, line>>

\* wireframe_3d_mode and triangles_3d_mode test the mode; the renderer sets it.
BeginDraw ==
  /\ Trapped /\ ~draw.on /\ IsDraw(Head(todo))
  /\ file["mode"] = Mode3d
  /\ file' = [file EXCEPT !["mode"] = ModeIdle]
  /\ draw' = [on |-> TRUE, parts |-> Head(todo).parts]
  /\ ShadeVertices(Head(todo))
  /\ UNCHANGED <<surface, refresh, blt, todo, line>>

\* Fault: the loop goes round before it has moved the tail.
DropDrawStands ==
  /\ Trapped /\ ~draw.on /\ IsDraw(Head(todo))
  /\ file["mode"] # Mode3d
  /\ UNCHANGED <<file, todo, vram, surface, refresh, blt, draw, line, scene>>

DropDraw ==
  /\ Trapped /\ ~draw.on /\ IsDraw(Head(todo))
  /\ file["mode"] # Mode3d
  /\ file' = Done(file) /\ todo' = Tail(todo)
  /\ UNCHANGED <<vram, surface, refresh, blt, draw, line, scene>>

Magnitude(n) == IF n < 0 THEN -n ELSE n

NoLine == [drawing |-> FALSE, x |-> 0, y |-> 0, x1 |-> 0, y1 |-> 0, dx |-> 0,
           dy |-> 0, sx |-> 1, sy |-> 1, err |-> 0, colour |-> Black]

\* draw_line before its loop.
LineOf(e) ==
  LET dx == Magnitude(e.x1 - e.x0)
      dy == -Magnitude(e.y1 - e.y0)
  IN [drawing |-> TRUE, x |-> e.x0, y |-> e.y0, x1 |-> e.x1, y1 |-> e.y1,
      dx |-> dx, dy |-> dy, sx |-> IF e.x0 < e.x1 THEN 1 ELSE -1,
      sy |-> IF e.y0 < e.y1 THEN 1 ELSE -1, err |-> dx + dy, colour |-> e.colour]

\* Fault: the second test looks at the error that the first has changed.
AdvanceFresh(l) ==
  LET byX == 2 * l.err >= l.dy
      err == l.err + (IF byX THEN l.dy ELSE 0)
      byY == 2 * err <= l.dx
  IN [l EXCEPT !.x = IF byX THEN @ + l.sx ELSE @,
               !.y = IF byY THEN @ + l.sy ELSE @,
               !.err = err + (IF byY THEN l.dx ELSE 0)]

\* The end of draw_line's loop: a step along x, along y or along both.
Advance(l) ==
  LET byX == 2 * l.err >= l.dy
      byY == 2 * l.err <= l.dx
  IN [l EXCEPT !.x = IF byX THEN @ + l.sx ELSE @,
               !.y = IF byY THEN @ + l.sy ELSE @,
               !.err = @ + (IF byX THEN l.dy ELSE 0) + (IF byY THEN l.dx ELSE 0)]

BeginLine ==
  /\ draw.on /\ Head(todo).op = "lines"
  /\ ~line.drawing /\ draw.parts # <<>>
  /\ line' = LineOf(Head(draw.parts))
  /\ draw' = [draw EXCEPT !.parts = Tail(@)]
  /\ scene' = [scene EXCEPT !.parts = Append(@, Head(draw.parts))]
  /\ UNCHANGED <<file, vram, surface, refresh, blt, todo>>

\* One turn of draw_line's loop: put_pixel, then the end or an advance.
LinePixel ==
  /\ line.drawing
  /\ vram' = [a \in DOMAIN vram |->
                IF a = PixelAt(line.x, line.y) THEN line.colour ELSE vram[a]]
  /\ line' = IF line.x = line.x1 /\ line.y = line.y1 THEN NoLine ELSE Advance(line)
  /\ UNCHANGED <<file, surface, refresh, blt, todo, draw, scene>>

\* The fragments of a triangle that lie on the screen.
OnScreen(p) == p[1] \in 0 .. file["width"] - 1 /\ p[2] \in 0 .. file["height"] - 1

\* A word of the z-buffer, in which a stray line may have left its colour.
DepthOf(word) == IF word \in Colours THEN AsDepth[word] ELSE word

\* Fault: a fragment as deep as the pixel takes its place.
NearerOrEqual(t, p) == t.depth[p] <= DepthOf(vram[DepthAt(p[1], p[2])])

Nearer(t, p) == t.depth[p] < DepthOf(vram[DepthAt(p[1], p[2])])

\* draw_triangle: fragments that pass the depth test write depth and colour.
DrawTriangle ==
  /\ draw.on /\ Head(todo).op = "triangles" /\ draw.parts # <<>>
  /\ LET t    == Head(draw.parts)
         pass == {p \in DOMAIN t.depth : OnScreen(p) /\ Nearer(t, p)}
     IN  /\ vram' = [a \in DOMAIN vram |->
              IF \E p \in pass : a = PixelAt(p[1], p[2]) THEN t.colour
              ELSE IF \E p \in pass : a = DepthAt(p[1], p[2])
                THEN t.depth[CHOOSE p \in pass : a = DepthAt(p[1], p[2])]
              ELSE vram[a]]
         /\ scene' = [scene EXCEPT !.parts = Append(@, t)]
  /\ draw' = [draw EXCEPT !.parts = Tail(@)]
  /\ UNCHANGED <<file, surface, refresh, blt, todo, line>>

\* Fault: the display is not updated behind a draw.
EndDrawUnshown ==
  /\ draw.on /\ draw.parts = <<>> /\ ~line.drawing
  /\ draw' = NoDraw
  /\ file' = [Done(file) EXCEPT !["mode"] = Mode3d]
  /\ todo' = Tail(todo)
  /\ UNCHANGED <<vram, surface, refresh, blt, line, scene>>

\* The renderer restores the mode, and the display is updated at once.
EndDraw ==
  /\ draw.on /\ draw.parts = <<>> /\ ~line.drawing
  /\ draw' = NoDraw
  /\ file' = [Done(file) EXCEPT !["mode"] = Mode3d]
  /\ todo' = Tail(todo)
  /\ ShowFrame
  /\ UNCHANGED <<vram, refresh, blt, line, scene>>

DeviceStep ==
  \/ ExecuteClear \/ ExecuteNoop \/ BeginDraw \/ DropDraw \/ BeginLine
  \/ LinePixel \/ DrawTriangle \/ EndDraw

RasterInit == todo = <<>> /\ draw = NoDraw /\ line = NoLine /\ scene = NoScene
-----------------------------------------------------------------------------
\* The steps a line has made in either direction.
Across(l) == l.dx - (l.x1 - l.x) * l.sx
Down(l)   == -l.dy - (l.y1 - l.y) * l.sy

\* Every pixel of a line is the one nearest to the straight line on its longer
\* axis, and none lies outside the rectangle of its ends, although the loop
\* carries along only the difference of two products and stops only when it
\* meets the last pixel exactly (gpu/renderer.c, draw_line).
LineOnCourse ==
  line.drawing =>
    /\ Across(line) \in 0 .. line.dx
    /\ Down(line) \in 0 .. (-line.dy)
    /\ LET off == -2 * (Across(line) * line.dy + Down(line) * line.dx) IN
         \/ off \in (-line.dx) .. line.dx
         \/ off \in line.dy .. (-line.dy)

\* The primitives of the scene that cover pixel <<x, y>>, by their places.
Covering(x, y) == {k \in DOMAIN scene.parts : <<x, y>> \in DOMAIN scene.parts[k].depth}

\* Of the triangles drawn since the frame was cleared, with no lines among them,
\* each pixel of the frame shows the nearest, and the first of those that are
\* equally near, in whatever commands, frames and order they came and however
\* wide the frame is, although the rows of the framebuffer are as long as the
\* screen's and those of the z-buffer as the frame's; a pixel that none covers
\* is black where the clearing, which counts words, has come to it
\* (gpu/renderer.c, put_pixel and draw_triangle; gpuSpec.md 10.2).
NearestShows ==
  (scene.cleared /\ Apart) =>
    \A x \in 0 .. file["width"] - 1, y \in 0 .. file["height"] - 1 :
      LET by(k) == scene.parts[k].depth[<<x, y>>] IN
      IF Covering(x, y) = {}
        THEN y * FbWidth + x < Visible => vram[PixelAt(x, y)] = Black
        ELSE \E k \in Covering(x, y) :
               /\ vram[PixelAt(x, y)] = scene.parts[k].colour
               /\ \A j \in Covering(x, y) :
                    by(k) <= by(j) /\ (j < k => by(k) < by(j))

=============================================================================
