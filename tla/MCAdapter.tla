------------------------------ MODULE MCAdapter ------------------------------
(***************************************************************************)
(* A small machine for Adapter: a screen of three by two pixels.           *)
(***************************************************************************)
EXTENDS Adapter

CONSTANTS Red, Green

Square(xs, ys) == xs \X ys

\* Triangles that lie on each other, cross each other and leave the screen.
Slope == [depth |-> [p \in Square(0 .. 2, 0 .. 1) |-> 1 + p[1]], colour |-> Red]
Flat  == [depth |-> [p \in Square(1 .. 3, 0 .. 2) |-> 2], colour |-> Green]

MCShapes == {Slope, Flat}

Clear == [op |-> "clear"]
Triangles(parts) == [op |-> "triangles", parts |-> parts]
Lines(vertices, parts) ==
  [op |-> "lines", parts |-> parts, vertices |-> vertices, shade |-> Green]

Edge(x0, y0, x1, y1, colour) ==
  [x0 |-> x0, y0 |-> y0, x1 |-> x1, y1 |-> y1, colour |-> colour]

\* The third frame's vertices lie behind the ring, and the line of the fourth
\* leaves the screen for the z-buffer.
MCFrames ==
  { <<Clear, Triangles(<<Slope, Flat>>)>>,
    <<Triangles(<<Flat>>), Triangles(<<Slope>>)>>,
    <<Clear, Lines({19}, <<Edge(0, 0, 2, 1, Red), Edge(2, 1, 1, 0, Green)>>), Triangles(<<Flat>>)>>,
    <<Lines({}, <<Edge(2, 1, 3, 2, Red)>>)>>,
    <<Clear>> }

\* A colour is nearer than every fragment when it is read as a depth.
MCAsDepth == [c \in Colours |-> 0]

MCFills == {[rect |-> [x |-> 1, y |-> 0, w |-> 2, h |-> 2], colour |-> Green]}

\* Whole registers, halves and single bytes, some across the end of a word.
MCRawData == {<<1>>, <<2>>, <<2, 1>>, <<1, 0, 0, 0>>}
MCRawAddrs == {0, 4, 5, 7, 8, 12, 17, 24, 26, 28, 32, 36, 38, 40, 46, 48}
=============================================================================
