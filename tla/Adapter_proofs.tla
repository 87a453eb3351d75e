---------------------------- MODULE Adapter_proofs ----------------------------
(***************************************************************************)
(* What holds of the machine for every size of the screen, of the ring, of *)
(* VRAM and of a byte, for all frames, fills and accesses.  The registers  *)
(* hold words, and every step touches them in one of three ways; Start     *)
(* leaves the blocks and the registers of the depth buffer and the ring as *)
(* its stage says, whatever they held before; the device has a well-formed *)
(* draw in progress; and a cut copy has come as far as its counter says.   *)
(***************************************************************************)
EXTENDS Adapter, Registers_proofs

-----------------------------------------------------------------------------
(***************************************************************************)
(* That draw_line stays on its course, for all edges.  The loop keeps no   *)
(* count of its steps.  With i steps made across and j down, err is a      *)
(* linear function of i * dy + j * dx, which the tests keep within half of *)
(* the longer side; at the end of one axis that leaves no room for steps   *)
(* that are still missing on the other, so the loop does not run past it.  *)
(***************************************************************************)
LineRecords ==
  [drawing : BOOLEAN, x : Int, y : Int, x1 : Int, y1 : Int, dx : Int, dy : Int,
   sx : {-1, 1}, sy : {-1, 1}, err : Int, colour : Colours]

\* Twice how far the line is off the straight one, times its longer side.
Off(l) == -2 * (Across(l) * l.dy + Down(l) * l.dx)

OnCourse(l) ==
  /\ Across(l) \in 0 .. l.dx
  /\ Down(l) \in 0 .. (-l.dy)
  /\ \/ Off(l) \in (-l.dx) .. l.dx
     \/ Off(l) \in l.dy .. (-l.dy)

\* What the loop relies on.
LineInv(l) ==
  /\ OnCourse(l)
  /\ l.dx >= 0 /\ l.dy <= 0
  /\ l.err = l.dx + l.dy + Across(l) * l.dy + Down(l) * l.dx

\* A product grows by one factor when the other grows by one.
LEMMA OneMore ==
  ASSUME NEW a \in Int, NEW b \in Int
  PROVE  (a + 1) * b = a * b + b
BY SMT

\* The tests of draw_line in numbers: i of dx steps are made across and j of n
\* down, and p and q are i * n and j * dx (gpu/renderer.c, draw_line).
LEMMA StepsInRange ==
  ASSUME NEW dx \in Nat, NEW n \in Nat, NEW i \in 0 .. dx, NEW j \in 0 .. n,
         NEW err \in Int, ~(i = dx /\ j = n),
         err = dx - n - i * n + j * dx,
         \/ 2 * (i * n - j * dx) \in (-dx) .. dx
         \/ 2 * (i * n - j * dx) \in (-n) .. n
  PROVE  /\ 2 * err >= -n => i < dx
         /\ 2 * err <= dx => j < n
<1>. DEFINE p == i * n
            q == j * dx
<1>0. p \in Int /\ q \in Int
  BY SMT
<1>1. ASSUME 2 * err >= -n, i = dx
      PROVE  FALSE
  <2>1. n - j \in Nat /\ n - j >= 1
    BY <1>1, SMT
  <2>2. dx * (n - j) >= dx
    BY <2>1, AtLeastOne
  <2>3. p - q = dx * (n - j)
    BY <1>1, SMT
  <2>4. 2 * (p - q) <= 2 * dx - n
    BY <1>0, <1>1, SMT
  <2>. HIDE DEF p, q
  <2>5. dx * (n - j) \in Int
    BY <2>1, SMT
  <2>6. n = 0
    BY <1>0, <2>2, <2>3, <2>4, <2>5, SMT
  <2>. QED BY <2>1, <2>6, SMT
<1>2. ASSUME 2 * err <= dx, j = n
      PROVE  FALSE
  <2>1. dx - i \in Nat /\ dx - i >= 1
    BY <1>2, SMT
  <2>2. n * (dx - i) >= n
    BY <2>1, AtLeastOne
  <2>3. q - p = n * (dx - i)
    BY <1>2, SMT
  <2>4. 2 * (p - q) >= dx - 2 * n
    BY <1>0, <1>2, SMT
  <2>. HIDE DEF p, q
  <2>5. n * (dx - i) \in Int
    BY <2>1, SMT
  <2>6. dx = 0
    BY <1>0, <2>2, <2>3, <2>4, <2>5, SMT
  <2>. QED BY <2>1, <2>6, SMT
<1>. QED BY <1>1, <1>2, SMT

\* The tests keep the line within half of its longer side of the straight one.
LEMMA StepsStayNear ==
  ASSUME NEW dx \in Nat, NEW n \in Nat, NEW off \in Int, NEW err \in Int,
         err = dx - n - off,
         2 * off \in (-dx) .. dx \/ 2 * off \in (-n) .. n,
         NEW new \in Int,
         new = off + (IF 2 * err >= -n THEN n ELSE 0) - (IF 2 * err <= dx THEN dx ELSE 0)
  PROVE  2 * new \in (-dx) .. dx \/ 2 * new \in (-n) .. n
BY SMT

\* Before its loop draw_line is on its course.
LEMMA LineBegins ==
  ASSUME NEW e \in Edges
  PROVE  LineOf(e) \in LineRecords /\ LineInv(LineOf(e))
<1>. DEFINE l == LineOf(e)
<1>1. /\ e.x0 \in Int /\ e.x1 \in Int /\ e.y0 \in Int /\ e.y1 \in Int
      /\ e.colour \in Colours
  BY DEF Edges
<1>2. l \in LineRecords
  BY <1>1, SMT DEF LineOf, LineRecords, Magnitude
<1>3. l.dx >= 0 /\ l.dy <= 0
  BY <1>1, SMT DEF LineOf, Magnitude
<1>4. Across(l) = 0
  BY <1>1, SMT DEF LineOf, Across, Magnitude
<1>5. Down(l) = 0
  BY <1>1, SMT DEF LineOf, Down, Magnitude
<1>6. l.err = l.dx + l.dy
  BY <1>1, SMT DEF LineOf, Magnitude
<1>7. l.dx \in Int /\ l.dy \in Int /\ l.err \in Int
  BY <1>2, SMT DEF LineRecords
<1>8. Off(l) = 0
  BY <1>4, <1>5, <1>7, SMT DEF Off
<1>. HIDE DEF l
<1>9. LineInv(l)
  BY <1>3, <1>4, <1>5, <1>6, <1>7, <1>8, SMT DEF LineInv, OnCourse
<1>. QED BY <1>2, <1>9 DEF l

\* A turn of the loop that is not the last keeps it there.
LEMMA LineAdvances ==
  ASSUME NEW l \in LineRecords, LineInv(l), ~(l.x = l.x1 /\ l.y = l.y1)
  PROVE  Advance(l) \in LineRecords /\ LineInv(Advance(l))
<1>. DEFINE m == Advance(l)
            byX == 2 * l.err >= l.dy
            byY == 2 * l.err <= l.dx
            i == Across(l)
            j == Down(l)
            n == -l.dy
            off == i * n - j * l.dx
<1>1. /\ l.x \in Int /\ l.y \in Int /\ l.x1 \in Int /\ l.y1 \in Int
      /\ l.dx \in Int /\ l.dy \in Int /\ l.err \in Int
      /\ l.sx \in {-1, 1} /\ l.sy \in {-1, 1}
  BY DEF LineRecords
<1>2. /\ l.dx \in Nat /\ n \in Nat /\ i \in 0 .. l.dx /\ j \in 0 .. n
  BY <1>1, SMT DEF LineInv, OnCourse
<1>3. m = [l EXCEPT !.x = IF byX THEN l.x + l.sx ELSE l.x,
                    !.y = IF byY THEN l.y + l.sy ELSE l.y,
                    !.err = l.err + (IF byX THEN l.dy ELSE 0) + (IF byY THEN l.dx ELSE 0)]
  BY DEF Advance
<1>4. m \in LineRecords
  <2>. DEFINE x == IF byX THEN l.x + l.sx ELSE l.x
              y == IF byY THEN l.y + l.sy ELSE l.y
              e == l.err + (IF byX THEN l.dy ELSE 0) + (IF byY THEN l.dx ELSE 0)
  <2>1. x \in Int /\ y \in Int /\ e \in Int
    BY <1>1, SMT
  <2>2. m = [l EXCEPT !.x = x, !.y = y, !.err = e]
    BY <1>3
  <2>. HIDE DEF m, x, y, e
  <2>. QED BY <2>1, <2>2 DEF LineRecords
<1>5. /\ m.dx = l.dx /\ m.dy = l.dy
      /\ m.err = l.err + (IF byX THEN l.dy ELSE 0) + (IF byY THEN l.dx ELSE 0)
      /\ m.x1 = l.x1 /\ m.y1 = l.y1 /\ m.sx = l.sx /\ m.sy = l.sy
      /\ m.x = IF byX THEN l.x + l.sx ELSE l.x
      /\ m.y = IF byY THEN l.y + l.sy ELSE l.y
  BY <1>3 DEF LineRecords
<1>6. Across(m) = IF byX THEN i + 1 ELSE i
  BY <1>1, <1>5, SMT DEF Across
<1>7. Down(m) = IF byY THEN j + 1 ELSE j
  BY <1>1, <1>5, SMT DEF Down
<1>8. ~(i = l.dx /\ j = n)
  BY <1>1, SMT DEF Across, Down
<1>9. i * l.dy = -(i * n) /\ i * n \in Int /\ j * l.dx \in Int
  BY <1>1, <1>2, SMT
<1>10. l.err = l.dx - n - i * n + j * l.dx
  BY <1>1, <1>9, SMT DEF LineInv
<1>11. Off(l) = 2 * off
  BY <1>1, <1>9, SMT DEF Off
<1>12. 2 * off \in (-l.dx) .. l.dx \/ 2 * off \in (-n) .. n
  BY <1>1, <1>11, SMT DEF LineInv, OnCourse
<1>13. (byX => i < l.dx) /\ (byY => j < n)
  <2>1. (2 * l.err >= -n => i < l.dx) /\ (2 * l.err <= l.dx => j < n)
    BY <1>1, <1>2, <1>8, <1>10, <1>12, StepsInRange
  <2>. QED BY <1>1, <2>1, SMT
<1>14. Across(m) \in 0 .. m.dx /\ Down(m) \in 0 .. (-m.dy)
  BY <1>1, <1>2, <1>5, <1>6, <1>7, <1>13, SMT
<1>15. Across(m) * m.dy = i * l.dy + (IF byX THEN l.dy ELSE 0)
  BY <1>1, <1>2, <1>5, <1>6, OneMore, SMT
<1>16. Down(m) * m.dx = j * l.dx + (IF byY THEN l.dx ELSE 0)
  BY <1>1, <1>2, <1>5, <1>7, OneMore, SMT
<1>17. m.err = m.dx + m.dy + Across(m) * m.dy + Down(m) * m.dx
  BY <1>1, <1>5, <1>9, <1>15, <1>16, SMT DEF LineInv
<1>18. Off(m) \in (-m.dx) .. m.dx \/ Off(m) \in m.dy .. (-m.dy)
  <2>. DEFINE new == off + (IF 2 * l.err >= -n THEN n ELSE 0)
                         - (IF 2 * l.err <= l.dx THEN l.dx ELSE 0)
  <2>1. off \in Int /\ new \in Int /\ l.err = l.dx - n - off
    BY <1>1, <1>2, <1>9, <1>10, SMT
  <2>2. 2 * new \in (-l.dx) .. l.dx \/ 2 * new \in (-n) .. n
    BY <1>1, <1>2, <1>12, <2>1, StepsStayNear
  <2>3. Off(m) = 2 * new
    <3>. DEFINE p == Across(m) * m.dy
                q == Down(m) * m.dx
                a == i * n
                b == j * l.dx
                dX == IF byX THEN l.dy ELSE 0
                dY == IF byY THEN l.dx ELSE 0
    <3>1. p = -a + dX /\ q = b + dY
      BY <1>9, <1>15, <1>16
    <3>2. Off(m) = -2 * (p + q)
      BY DEF Off
    <3>3. a \in Int /\ b \in Int /\ dX \in Int /\ dY \in Int
      BY <1>1, <1>9
    <3>4. new = a - b - dX - dY
      <4>1. (IF 2 * l.err >= -n THEN n ELSE 0) = -dX
        BY <1>1, SMT
      <4>. QED BY <1>1, <3>3, <4>1, SMT
    <3>. HIDE DEF p, q, a, b, dX, dY, new, m
    <3>. QED BY <3>1, <3>2, <3>3, <3>4, SMT
  <2>. QED BY <1>1, <1>5, <2>1, <2>2, <2>3, SMT
<1>. HIDE DEF m
<1>19. LineInv(m)
  BY <1>1, <1>2, <1>5, <1>14, <1>17, <1>18, SMT DEF LineInv, OnCourse
<1>. QED BY <1>4, <1>19 DEF m

\* A line between ends on the screen draws no pixel off it.
LEMMA LineOnScreen ==
  ASSUME NEW l \in LineRecords, LineInv(l), ~LeavesScreen(l)
  PROVE  l.x \in 0 .. FbWidth - 1 /\ l.y \in 0 .. FbHeight - 1
<1>1. /\ l.x \in Int /\ l.y \in Int /\ l.x1 \in Int /\ l.y1 \in Int
      /\ l.dx \in Int /\ l.dy \in Int
      /\ l.sx \in {-1, 1} /\ l.sy \in {-1, 1}
      /\ FbWidth \in Nat /\ FbHeight \in Nat
  BY DisplayAssumption, SMT DEF LineRecords
<1>2. (l.x1 - l.x) * l.sx \in 0 .. l.dx
  BY <1>1, SMT DEF LineInv, OnCourse, Across
<1>3. (l.y1 - l.y) * l.sy \in 0 .. (-l.dy)
  BY <1>1, SMT DEF LineInv, OnCourse, Down
<1>4. l.x \in 0 .. FbWidth - 1
  BY <1>1, <1>2, SMT DEF LeavesScreen, OnTheScreen
<1>5. l.y \in 0 .. FbHeight - 1
  BY <1>1, <1>3, SMT DEF LeavesScreen, OnTheScreen
<1>. QED BY <1>4, <1>5

-----------------------------------------------------------------------------
(***************************************************************************)
(* Sizes.                                                                  *)
(***************************************************************************)
LEMMA Sizes ==
  /\ FbWidth \in Nat /\ FbHeight \in Nat /\ FbWidth >= 1 /\ FbHeight >= 1
  /\ FrameWords \in Nat /\ FrameWords >= 1
  /\ RingWords \in Nat /\ RingWords >= 1
  /\ VramWords \in Nat /\ VramWords \in Word /\ 2 * FrameWords + RingWords < VramWords
<1>1. /\ FbWidth \in Nat /\ FbHeight \in Nat /\ FbWidth >= 1 /\ FbHeight >= 1
      /\ RingWords \in Nat /\ RingWords >= 1 /\ VramWords \in Nat /\ VramWords \in Word
      /\ (2 * FbWidth) * FbHeight + RingWords < VramWords
  BY DisplayAssumption, StartAssumption, SMT
<1>2. FbWidth * FbHeight \in Nat /\ FbWidth * FbHeight >= 1
  BY <1>1, AtLeastOne, SMT
<1>3. (2 * FbWidth) * FbHeight = 2 * (FbWidth * FbHeight)
  BY <1>1, SMT
<1>. QED BY <1>1, <1>2, <1>3 DEF FrameWords

\* Numbers below a register's value are values of registers.
LEMMA WordsBelow ==
  ASSUME NEW w \in Word, NEW v \in Nat, v <= w
  PROVE  v \in Word
<1>1. Weight(4) \in Nat
  BY WeightSteps, SMT
<1>. QED BY <1>1, SMT DEF Word

\* The numbers below the size of VRAM, and the modes, are values of registers.
LEMMA Words ==
  /\ \A v \in Nat : v <= VramWords => v \in Word
  /\ ModeGop \in Word /\ Mode3d \in Word /\ ModeIdle \in Word
  /\ Word \subseteq Nat
<1>1. VramWords \in Nat /\ VramWords \in Word
  BY Sizes
<1>2. Weight(4) \in Nat /\ Weight(4) >= 3
  <2>1. /\ LaneBase \in Nat /\ LaneBase >= 2 /\ Weight(3) \in Nat /\ Weight(2) \in Nat
        /\ Weight(1) = LaneBase
        /\ Weight(2) = LaneBase * Weight(1) /\ Weight(3) = LaneBase * Weight(2)
        /\ Weight(4) = LaneBase * Weight(3) /\ Weight(3) >= 1 /\ Weight(4) \in Nat
    BY Weights, WeightSteps, SMT
  <2>2. Weight(3) >= 2
    <3>1. Weight(2) >= 1
      BY WeightSteps, SMT
    <3>. QED BY <2>1, <3>1, AtLeastOne
  <2>3. PICK w \in Nat : Weight(3) = 2 + w
    BY <2>1, <2>2, SMT
  <2>. QED BY <2>1, <2>3, SMT
<1>. QED BY <1>1, <1>2, SMT DEF Word, ModeGop, Mode3d, ModeIdle

-----------------------------------------------------------------------------
(***************************************************************************)
(* Blocks of VRAM.                                                         *)
(***************************************************************************)
FirstBlock  == [page |-> 0, pages |-> FrameWords]
SecondBlock == [page |-> FrameWords, pages |-> FrameWords]
ThirdBlock   == [page |-> 2 * FrameWords, pages |-> RingWords]

BlocksInVram ==
  \A b \in blocks : b.page \in Nat /\ b.pages \in Nat /\ b.page + b.pages <= VramWords

\* An allocation takes the first place that fits.
LEMMA TakesFirstFit ==
  ASSUME NEW p \in Nat, p < VramWords, NEW n \in Nat, n >= 1,
         \A q \in 0 .. p - 1 : ~Heap!Unused(q), Heap!Fits(p, n), Heap!Allocate(n)
  PROVE  answer' = p /\ blocks' = blocks \cup {[page |-> p, pages |-> n]}
<1>1. p \in Heap!Pages
  BY Sizes, SMT DEF Heap!Pages
<1>2. PICK q \in Heap!Pages :
        /\ Heap!Fits(q, n)
        /\ \A r \in 0 .. q - 1 : ~Heap!Fits(r, n)
        /\ Heap!Grant(q, n)
  BY <1>1 DEF Heap!Allocate
<1>3. q = p
  <2>1. q \in Nat
    BY <1>2, Sizes, SMT DEF Heap!Pages
  <2>2. ~(p < q)
    BY <1>2, <2>1, SMT
  <2>3. ~(q < p)
    <3>1. Heap!Unused(q)
      BY <1>2 DEF Heap!Fits
    <3>. QED BY <2>1, <3>1, SMT
  <2>. QED BY <2>1, <2>2, <2>3, SMT
<1>. QED BY <1>2, <1>3 DEF Heap!Grant

\* Allocations add blocks inside VRAM and drop none.
LEMMA AllocateAdds ==
  ASSUME BlocksInVram, NEW n \in Nat, Heap!Allocate(n)
  PROVE  BlocksInVram' /\ blocks \subseteq blocks'
<1>1. CASE \E p \in Heap!Pages : Heap!Fits(p, n) /\ Heap!Grant(p, n)
  <2>1. PICK p \in Heap!Pages : Heap!Fits(p, n) /\ Heap!Grant(p, n)
    BY <1>1
  <2>2. p \in Nat /\ p + n <= VramWords
    BY <2>1, Sizes, SMT DEF Heap!Pages, Heap!Fits
  <2>. QED BY <2>1, <2>2 DEF Heap!Grant, BlocksInVram
<1>2. CASE Heap!Refuse
  BY <1>2 DEF Heap!Refuse, BlocksInVram
<1>. QED BY <1>1, <1>2 DEF Heap!Allocate

\* The three allocations of Start find their places: they are the first.
LEMMA FirstPlaces ==
  /\ blocks = {} /\ Heap!AllocateAt(0, FrameWords) =>
       answer' = 0 /\ blocks' = {FirstBlock}
  /\ blocks = {FirstBlock} /\ Heap!Allocate(FrameWords) =>
       answer' = FrameWords /\ blocks' = {FirstBlock, SecondBlock}
  /\ blocks = {FirstBlock, SecondBlock} /\ Heap!Allocate(RingWords) =>
       answer' = 2 * FrameWords /\ blocks' = {FirstBlock, SecondBlock, ThirdBlock}
<1>. DEFINE F == FrameWords
<1>0. F \in Nat /\ F >= 1 /\ RingWords \in Nat /\ RingWords >= 1 /\ VramWords \in Nat
      /\ 2 * F + RingWords < VramWords
  BY Sizes
<1>1. ASSUME blocks = {}, Heap!AllocateAt(0, FrameWords)
      PROVE  answer' = 0 /\ blocks' = {FirstBlock}
  <2>1. Heap!Fits(0, F)
    <3>. HIDE DEF F
    <3>. QED BY <1>0, <1>1, SMT DEF Heap!Fits, Heap!Unused, Heap!Pages
  <2>. QED BY <1>0, <1>1, <2>1 DEF Heap!AllocateAt, Heap!Grant, FirstBlock
<1>2. ASSUME blocks = {FirstBlock}, Heap!Allocate(FrameWords)
      PROVE  answer' = FrameWords /\ blocks' = {FirstBlock, SecondBlock}
  <2>0. \A q : Heap!Unused(q) <=> q \notin 0 .. 0 + F - 1
    BY <1>2 DEF Heap!Unused, FirstBlock
  <2>1. Heap!Fits(F, F) /\ \A q \in 0 .. F - 1 : ~Heap!Unused(q)
    <3>. HIDE DEF F
    <3>. QED BY <1>0, <2>0, SMT DEF Heap!Fits, Heap!Pages
  <2>2. F < VramWords
    <3>. HIDE DEF F
    <3>. QED BY <1>0, SMT
  <2>3. answer' = F /\ blocks' = {FirstBlock} \cup {[page |-> F, pages |-> F]}
    BY <1>0, <1>2, <2>1, <2>2, TakesFirstFit
  <2>. QED BY <2>3 DEF SecondBlock
<1>3. ASSUME blocks = {FirstBlock, SecondBlock}, Heap!Allocate(RingWords)
      PROVE  answer' = 2 * FrameWords /\ blocks' = {FirstBlock, SecondBlock, ThirdBlock}
  <2>0. \A q : Heap!Unused(q) <=> q \notin 0 .. 0 + F - 1 /\ q \notin F .. F + F - 1
    BY <1>3 DEF Heap!Unused, FirstBlock, SecondBlock
  <2>1. Heap!Fits(2 * F, RingWords) /\ \A q \in 0 .. 2 * F - 1 : ~Heap!Unused(q)
    <3>. HIDE DEF F
    <3>. QED BY <1>0, <2>0, SMT DEF Heap!Fits, Heap!Pages
  <2>2. 2 * F \in Nat /\ 2 * F < VramWords
    <3>. HIDE DEF F
    <3>. QED BY <1>0, SMT
  <2>3. /\ answer' = 2 * F
        /\ blocks' = {FirstBlock, SecondBlock} \cup {[page |-> 2 * F, pages |-> RingWords]}
    BY <1>0, <1>3, <2>1, <2>2, TakesFirstFit
  <2>. QED BY <2>3 DEF ThirdBlock
<1>. QED BY <1>1, <1>2, <1>3

-----------------------------------------------------------------------------
(***************************************************************************)
(* The start of the driver.                                                *)
(***************************************************************************)

\* The ways in which a step touches the registers.
RegisterStep ==
  \/ UNCHANGED registerVars
  \/ \E addr \in Nat : \E data : Stored(data) /\ (Store(addr, data) \/ Load(addr, data))
  \/ /\ UNCHANGED <<request, loaded>>
     /\ \E m \in Word, t \in Word : file' = [file EXCEPT !["mode"] = m, !["tail"] = t]

RingSteps == {"modeOff", "start", "end", "tail", "head", "modeOn", "batch"}

WithFrames == {"path", "gop", "fill", "ring", "publishGop", "publishGop3d"} \cup RingSteps

\* What the blocks, the registers and the protocols are at each stage.
StageInv ==
  /\ BlocksInVram
  /\ stage \in {"attributes", "allocator", "frame", "depth", "zregister"} \cup WithFrames => opened
  /\ stage = "frame" => blocks = {}
  /\ stage = "depth" => blocks = {FirstBlock}
  /\ stage = "zregister" => blocks = {FirstBlock, SecondBlock} /\ answer = FrameWords
  /\ stage \in {"path", "gop", "fill", "ring"} => blocks = {FirstBlock, SecondBlock}
  /\ stage \in RingSteps =>
       blocks = {FirstBlock, SecondBlock, ThirdBlock} /\ answer = 2 * FrameWords
  /\ published # {} \/ stage \in WithFrames => {FirstBlock, SecondBlock} \subseteq blocks
  /\ phase = "clients" /\ (published # {} \/ stage \in WithFrames) => file["z"] = FrameWords
  /\ published # {} => opened /\ stage \in {"publishGop3d", "child", "done", "failed", "lost"}
  /\ FrameInBounds(file)
  /\ ~reprogrammed => file["fb"] = 0
  /\ phase # "clients" => stage = "done"

\* The stages at which the device has been told of the ring's start, of its
\* end and of its head.
StartTold == {"end", "tail", "head", "modeOn", "batch", "publishGop", "publishGop3d"}
EndTold   == StartTold \ {"end"}
HeadTold  == EndTold \ {"tail", "head"}

\* The ring behind those stages: its registers, and its block while it has one.
RingInv ==
  /\ phase = "clients" =>
       /\ published # {} \/ stage \in StartTold => file["start"] = 2 * FrameWords
       /\ published # {} \/ stage \in EndTold => file["end"] = 2 * FrameWords + RingWords
       /\ published # {} \/ stage \in HeadTold =>
            file["head"] \in 2 * FrameWords .. 2 * FrameWords + RingWords - 1
  /\ batched =>
       /\ opened /\ ThirdBlock \in blocks
       /\ stage \in {"publishGop", "publishGop3d", "child", "done", "failed", "lost"}

BootInv == StageInv /\ RingInv

\* A register that the driver writes while it starts.
LEMMA DriverWrites ==
  ASSUME FileOK, NEW v \in Word, NEW r \in {"mode", "head", "tail", "start", "end", "z"},
         GpuMmioWrite32(r, v)
  PROVE  RegisterStep /\ file' = [file EXCEPT ![r] = v]
<1>1. PICK k \in 0 .. 11 : k # 10 /\ r = RegisterAt[k + 1]
  <2>1. /\ RegisterAt[0 + 1] = "mode" /\ RegisterAt[1 + 1] = "head" /\ RegisterAt[2 + 1] = "tail"
        /\ RegisterAt[3 + 1] = "start" /\ RegisterAt[4 + 1] = "end" /\ RegisterAt[11 + 1] = "z"
    BY SMT DEF RegisterAt
  <2>2. {0, 1, 2, 3, 4, 11} \subseteq 0 .. 11 /\ \A k \in {0, 1, 2, 3, 4, 11} : k # 10
    BY SMT
  <2>. QED BY <2>1, <2>2
<1>2. /\ file' = [file EXCEPT ![r] = v]
      /\ AddrOf(r) \in Nat /\ Stored(BytesOf(v, 4)) /\ Store(AddrOf(r), BytesOf(v, 4))
  BY <1>1, DriverAssigns DEF GpuMmioWrite32
<1>. QED BY <1>2 DEF RegisterStep

\* The stages of GpuRingBufferInit.
LEMMA RingStageNames ==
  /\ RingStages[1] = "modeOff" /\ RingStages[2] = "start" /\ RingStages[3] = "end"
  /\ RingStages[4] = "tail" /\ RingStages[5] = "head" /\ RingStages[6] = "modeOn"
  /\ \A k \in 1 .. 6 : RingStages[k] \in RingSteps
  /\ \A k \in 1 .. 6 : k # 6 => RingStages[k + 1] \in RingSteps
<1>1. /\ RingStages[1] = "modeOff" /\ RingStages[2] = "start" /\ RingStages[3] = "end"
      /\ RingStages[4] = "tail" /\ RingStages[5] = "head" /\ RingStages[6] = "modeOn"
  BY SMT DEF RingStages
<1>2. \A k \in 1 .. 6 : k = 1 \/ k = 2 \/ k = 3 \/ k = 4 \/ k = 5 \/ k = 6
  BY SMT
<1>3. \A k \in 1 .. 6 : RingStages[k] \in RingSteps
  BY <1>1, <1>2 DEF RingSteps
<1>4. \A k \in 1 .. 6 : k # 6 => k + 1 \in 1 .. 6
  BY SMT
<1>. QED BY <1>1, <1>3, <1>4

\* A store of GpuRingBufferInit.
LEMMA RingStores ==
  ASSUME FileOK, NEW k \in 1 .. 6, RingStore(RingStages[k]), answer = 2 * FrameWords
  PROVE  /\ RegisterStep
         /\ file' = IF k \in {1, 6} THEN [file EXCEPT !["mode"] = file'["mode"]]
                    ELSE IF k = 2 THEN [file EXCEPT !["start"] = 2 * FrameWords]
                    ELSE IF k = 3 THEN [file EXCEPT !["end"] = 2 * FrameWords + RingWords]
                    ELSE IF k = 4 THEN [file EXCEPT !["tail"] = 2 * FrameWords]
                    ELSE [file EXCEPT !["head"] = 2 * FrameWords]
<1>. DEFINE s == RingStages[k]
<1>1. s \in RingSteps
  BY RingStageNames
<1>2. answer \in Word /\ answer + RingWords \in Word
  BY Sizes, Words, SMT
<1>3. k = 1 \/ k = 2 \/ k = 3 \/ k = 4 \/ k = 5 \/ k = 6
  BY SMT
<1>4. CASE k \in {1, 6}
  <2>1. PICK v \in Word : GpuMmioWrite32("mode", v)
    BY <1>4, RingStageNames, Words DEF RingStore
  <2>2. RegisterStep /\ file' = [file EXCEPT !["mode"] = v]
    BY <2>1, DriverWrites
  <2>3. file'["mode"] = v
    BY <2>2 DEF FileOK, Names, RegisterAt
  <2>. QED BY <1>4, <2>2, <2>3
<1>5. CASE k = 2
  <2>1. GpuMmioWrite32("start", answer)
    BY <1>5, RingStageNames DEF RingStore
  <2>2. RegisterStep /\ file' = [file EXCEPT !["start"] = answer]
    BY <1>2, <2>1, DriverWrites
  <2>. QED BY <1>5, <2>2
<1>6. CASE k = 3
  <2>1. GpuMmioWrite32("end", answer + RingWords)
    BY <1>6, RingStageNames DEF RingStore
  <2>2. RegisterStep /\ file' = [file EXCEPT !["end"] = answer + RingWords]
    BY <1>2, <2>1, DriverWrites
  <2>. QED BY <1>6, <2>2
<1>7. CASE k = 4
  <2>1. GpuMmioWrite32("tail", answer)
    BY <1>7, RingStageNames DEF RingStore
  <2>2. RegisterStep /\ file' = [file EXCEPT !["tail"] = answer]
    BY <1>2, <2>1, DriverWrites
  <2>. QED BY <1>7, <2>2
<1>8. CASE k = 5
  <2>1. GpuMmioWrite32("head", answer)
    BY <1>8, RingStageNames DEF RingStore
  <2>2. RegisterStep /\ file' = [file EXCEPT !["head"] = answer]
    BY <1>2, <2>1, DriverWrites
  <2>. QED BY <1>8, <2>2
<1>. QED BY <1>3, <1>4, <1>5, <1>6, <1>7, <1>8

\* No step of Start spoils it.
LEMMA StartKeepsStageInv ==
  ASSUME FileOK, StageInv, phase = "clients", UNCHANGED <<phase, reprogrammed>>, StartStep
  PROVE  StageInv' /\ RegisterStep
<1>. USE DEF StageInv, FrameInBounds
<1>1. CASE BeginStart
  BY <1>1 DEF BeginStart, kept, WithFrames, RingSteps, BlocksInVram, RegisterStep, registerVars
<1>2. CASE CallSucceeds
  <2>1. \/ stage = "pool" /\ stage' = "open"
        \/ stage = "attributes" /\ stage' = "allocator"
        \/ stage = "path" /\ stage' = "gop"
        \/ stage = "child" /\ stage' = "done"
    BY <1>2 DEF CallSucceeds, PlainStages
  <2>2. UNCHANGED <<registerVars, opened, published, blocks, answer>>
    BY <1>2 DEF CallSucceeds, kept
  <2>. QED BY <2>1, <2>2 DEF WithFrames, RingSteps, BlocksInVram, RegisterStep, registerVars
<1>3. CASE CallFails
  BY <1>3 DEF CallFails, kept, FailingStages, PlainStages, WithFrames, RingSteps, BlocksInVram,
              RegisterStep, registerVars
<1>4. CASE OpenPciIo
  BY <1>4 DEF OpenPciIo, kept, WithFrames, RingSteps, BlocksInVram, RegisterStep, registerVars
<1>5. CASE InitAllocator
  BY <1>5 DEF InitAllocator, kept, WithFrames, RingSteps, BlocksInVram, RegisterStep, registerVars
<1>6. CASE InitAllocatorFails
  BY <1>6 DEF InitAllocatorFails, kept, WithFrames, RingSteps, BlocksInVram, RegisterStep,
              registerVars
<1>7. CASE AllocateFrame
  <2>1. blocks' = {FirstBlock} /\ stage = "frame" /\ stage' = "depth"
        /\ UNCHANGED <<registerVars, opened, published>>
    BY <1>7, FirstPlaces DEF AllocateFrame, kept
  <2>2. BlocksInVram'
    BY <2>1, Sizes DEF BlocksInVram, FirstBlock
  <2>. QED BY <2>1, <2>2 DEF WithFrames, RingSteps, RegisterStep, registerVars
<1>8. CASE AllocateDepth
  <2>1. /\ blocks' = {FirstBlock, SecondBlock} /\ answer' = FrameWords
        /\ stage = "depth" /\ stage' = "zregister" /\ UNCHANGED <<registerVars, opened, published>>
    BY <1>8, FirstPlaces DEF AllocateDepth, kept
  <2>2. BlocksInVram'
    BY <2>1, Sizes, SMT DEF BlocksInVram, FirstBlock, SecondBlock
  <2>. QED BY <2>1, <2>2 DEF WithFrames, RingSteps, RegisterStep, registerVars
<1>9. CASE WriteDepthRegister
  <2>1. /\ stage = "zregister" /\ stage' = "path" /\ answer = FrameWords
        /\ GpuMmioWrite32("z", answer) /\ UNCHANGED <<opened, published, blocks, answer>>
    BY <1>9 DEF WriteDepthRegister, kept
  <2>2. answer \in Word
    BY <2>1, Sizes, Words, SMT
  <2>3. RegisterStep /\ file' = [file EXCEPT !["z"] = answer]
    BY <2>1, <2>2, DriverWrites
  <2>4. file'["z"] = FrameWords /\ \A r \in {"fb", "width", "height"} : file'[r] = file[r]
    BY <2>1, <2>3 DEF FileOK, Names, RegisterAt
  <2>. QED BY <2>1, <2>3, <2>4 DEF WithFrames, RingSteps, BlocksInVram
<1>10. CASE BeginGopSetup
  BY <1>10 DEF BeginGopSetup, kept, WithFrames, RingSteps, BlocksInVram, RegisterStep, registerVars
<1>19. CASE GopSetupWithoutBuffer
  BY <1>19 DEF GopSetupWithoutBuffer, WithFrames, RingSteps, BlocksInVram, RegisterStep,
               registerVars
<1>11. CASE EndGopSetup
  BY <1>11 DEF EndGopSetup, kept, WithFrames, RingSteps, BlocksInVram, RegisterStep, registerVars
<1>12. CASE AllocateRing
  <2>1. /\ blocks' = {FirstBlock, SecondBlock, ThirdBlock} /\ answer' = 2 * FrameWords
        /\ stage = "ring" /\ stage' = "modeOff" /\ UNCHANGED <<registerVars, opened, published>>
    BY <1>12, FirstPlaces, RingStageNames DEF AllocateRing, kept
  <2>2. BlocksInVram'
    <3>1. blocks \subseteq blocks' /\ \A b \in blocks' : b \in blocks \/ b = ThirdBlock
      BY <1>12, <2>1 DEF AllocateRing, kept
    <3>2. /\ ThirdBlock.page \in Nat /\ ThirdBlock.pages \in Nat
          /\ ThirdBlock.page + ThirdBlock.pages <= VramWords
      BY Sizes, SMT DEF ThirdBlock
    <3>. QED BY <3>1, <3>2 DEF BlocksInVram
  <2>. QED BY <2>1, <2>2 DEF WithFrames, RingSteps, RegisterStep, registerVars
<1>13. CASE InitRingRegister
  <2>1. PICK k \in 1 .. 6 :
          /\ stage = RingStages[k] /\ RingStore(stage)
          /\ stage' = IF k = 6 THEN "batch" ELSE RingStages[k + 1]
          /\ UNCHANGED <<opened, published, blocks, answer>>
    BY <1>13 DEF InitRingRegister, kept
  <2>2. stage \in RingSteps /\ stage' \in RingSteps
    BY <2>1, RingStageNames DEF RingSteps
  <2>3. /\ RegisterStep
        /\ \E r \in {"mode", "head", "tail", "start", "end"} : \E v :
             file' = [file EXCEPT ![r] = v]
    BY <2>1, <2>2, RingStores, Zenon
  <2>4. \A r \in {"fb", "width", "height", "z"} : file'[r] = file[r]
    BY <2>3 DEF FileOK, Names, RegisterAt
  <2>. QED BY <2>1, <2>2, <2>3, <2>4 DEF WithFrames, RingSteps, BlocksInVram
<1>14. CASE AllocateBatch
  BY <1>14 DEF AllocateBatch, kept, WithFrames, RingSteps, BlocksInVram, RegisterStep, registerVars
<1>15. CASE BatchFails
  <2>1. /\ stage = "batch" /\ stage' = "publishGop" /\ Heap!Free(answer)
        /\ UNCHANGED <<registerVars, opened, published>>
        /\ blocks = {FirstBlock, SecondBlock, ThirdBlock} /\ answer = 2 * FrameWords
    BY <1>15 DEF BatchFails, kept, RingSteps
  <2>2. FirstBlock.page # answer /\ SecondBlock.page # answer
    BY <2>1, Sizes, SMT DEF FirstBlock, SecondBlock
  <2>3. blocks' \subseteq blocks /\ {FirstBlock, SecondBlock} \subseteq blocks'
    BY <2>1, <2>2 DEF Heap!Free, Heap!Refuse
  <2>. QED BY <2>1, <2>3 DEF WithFrames, RingSteps, BlocksInVram, RegisterStep, registerVars
<1>16. CASE PublishGop
  BY <1>16 DEF PublishGop, kept, WithFrames, RingSteps, BlocksInVram, RegisterStep, registerVars
<1>17. CASE PublishGopFails
  BY <1>17 DEF PublishGopFails, kept, WithFrames, RingSteps, BlocksInVram, RegisterStep, registerVars
<1>18. CASE PublishGop3d
  BY <1>18 DEF PublishGop3d, kept, WithFrames, RingSteps, BlocksInVram, RegisterStep, registerVars
<1>. QED BY <1>1, <1>2, <1>3, <1>4, <1>5, <1>6, <1>7, <1>8, <1>9, <1>10, <1>11, <1>12,
            <1>13, <1>14, <1>15, <1>16, <1>17, <1>18, <1>19 DEF StartStep

\* Nor what is said of the ring.
LEMMA StartKeepsRingInv ==
  ASSUME FileOK, StageInv, RingInv, phase = "clients", phase' = phase, StartStep
  PROVE  RingInv'
<1>. DEFINE AfterBatch == {"publishGop", "publishGop3d", "child", "done", "failed", "lost"}
<1>0. /\ batched => stage \in AfterBatch /\ opened
      /\ published # {} => stage \in AfterBatch /\ opened
  BY DEF RingInv, StageInv
<1>1. ASSUME stage \notin AfterBatch \/ ~opened, stage' \notin StartTold,
             UNCHANGED <<published, batched>>
      PROVE  RingInv'
  BY <1>0, <1>1 DEF RingInv, EndTold, HeadTold
<1>2. ASSUME stage' \in {"done", "failed", "lost"}, UNCHANGED <<registerVars, kept, blocks>>,
             stage \in AfterBatch
      PROVE  RingInv'
  BY <1>2 DEF RingInv, EndTold, HeadTold, StartTold, registerVars, kept
<1>3. CASE \/ BeginStart \/ OpenPciIo \/ InitAllocator \/ InitAllocatorFails \/ AllocateFrame
           \/ AllocateDepth \/ WriteDepthRegister \/ BeginGopSetup \/ GopSetupWithoutBuffer
           \/ EndGopSetup \/ AllocateRing
  <2>1. /\ stage \notin AfterBatch \/ ~opened
        /\ stage' \in {"pool", "attributes", "frame", "lost", "depth", "zregister", "path",
                       "fill", "ring", "modeOff"}
        /\ UNCHANGED <<published, batched>>
    BY <1>3, RingStageNames
       DEF BeginStart, OpenPciIo, InitAllocator, InitAllocatorFails, AllocateFrame,
           AllocateDepth, WriteDepthRegister, BeginGopSetup, GopSetupWithoutBuffer,
           EndGopSetup, AllocateRing, kept
  <2>. QED BY <1>1, <2>1 DEF StartTold
<1>4. CASE CallSucceeds \/ CallFails
  <2>1. /\ stage \in {"pool", "attributes", "path", "child", "open", "gop"}
        /\ stage' \in {"open", "allocator", "gop", "done", "failed"}
        /\ stage = "child" => stage' \in {"done", "failed"}
        /\ UNCHANGED <<registerVars, kept, blocks>>
    BY <1>4 DEF CallSucceeds, CallFails, FailingStages, PlainStages
  <2>2. CASE stage = "child"
    BY <1>2, <2>1, <2>2
  <2>3. CASE stage # "child"
    BY <1>1, <2>1, <2>3 DEF StartTold, kept
  <2>. QED BY <2>2, <2>3
<1>5. CASE InitRingRegister
  <2>1. PICK k \in 1 .. 6 :
          /\ stage = RingStages[k] /\ RingStore(stage)
          /\ stage' = IF k = 6 THEN "batch" ELSE RingStages[k + 1]
          /\ UNCHANGED <<published, batched>>
    BY <1>5 DEF InitRingRegister, kept
  <2>2. answer = 2 * FrameWords /\ published = {} /\ ~batched
    <3>1. stage \in RingSteps
      BY <2>1, RingStageNames
    <3>. QED BY <1>0, <3>1 DEF StageInv, RingSteps
  <2>3. file' = IF k \in {1, 6} THEN [file EXCEPT !["mode"] = file'["mode"]]
                ELSE IF k = 2 THEN [file EXCEPT !["start"] = 2 * FrameWords]
                ELSE IF k = 3 THEN [file EXCEPT !["end"] = 2 * FrameWords + RingWords]
                ELSE IF k = 4 THEN [file EXCEPT !["tail"] = 2 * FrameWords]
                ELSE [file EXCEPT !["head"] = 2 * FrameWords]
    BY <2>1, <2>2, RingStores, Zenon
  <2>4. {"start", "end", "head", "mode", "tail"} \subseteq DOMAIN file
    BY DEF FileOK, Names, RegisterAt
  <2>5. 2 * FrameWords \in 2 * FrameWords .. 2 * FrameWords + RingWords - 1
    BY Sizes, SMT
  <2>6. k = 1 \/ k = 2 \/ k = 3 \/ k = 4 \/ k = 5 \/ k = 6
    BY SMT
  <2>7. CASE k = 1
    <3>1. stage' = "start"
      BY <2>1, <2>7, RingStageNames, SMT
    <3>. QED BY <2>1, <2>2, <3>1 DEF RingInv, StartTold, EndTold, HeadTold
  <2>8. CASE k = 2
    <3>1. stage' = "end" /\ file'["start"] = 2 * FrameWords
      BY <2>1, <2>3, <2>4, <2>8, RingStageNames, SMT
    <3>. QED BY <2>1, <2>2, <3>1 DEF RingInv, StartTold, EndTold, HeadTold
  <2>9. CASE k = 3
    <3>1. /\ stage = "end" /\ stage' = "tail" /\ file'["start"] = file["start"]
          /\ file'["end"] = 2 * FrameWords + RingWords
      BY <2>1, <2>3, <2>4, <2>9, RingStageNames, SMT
    <3>. QED BY <2>1, <2>2, <3>1 DEF RingInv, StartTold, EndTold, HeadTold
  <2>10. CASE k = 4
    <3>1. /\ stage = "tail" /\ stage' = "head" /\ file'["start"] = file["start"]
          /\ file'["end"] = file["end"]
      BY <2>1, <2>3, <2>4, <2>10, RingStageNames, SMT
    <3>. QED BY <2>1, <2>2, <3>1 DEF RingInv, StartTold, EndTold, HeadTold
  <2>11. CASE k = 5
    <3>1. /\ stage = "head" /\ stage' = "modeOn" /\ file'["start"] = file["start"]
          /\ file'["end"] = file["end"] /\ file'["head"] = 2 * FrameWords
      BY <2>1, <2>3, <2>4, <2>11, RingStageNames, SMT
    <3>. QED BY <2>1, <2>2, <2>5, <3>1 DEF RingInv, StartTold, EndTold, HeadTold
  <2>12. CASE k = 6
    <3>1. /\ stage = "modeOn" /\ stage' = "batch" /\ file'["start"] = file["start"]
          /\ file'["end"] = file["end"] /\ file'["head"] = file["head"]
      BY <2>1, <2>3, <2>4, <2>12, RingStageNames, SMT
    <3>. QED BY <2>1, <2>2, <3>1 DEF RingInv, StartTold, EndTold, HeadTold
  <2>. QED BY <2>6, <2>7, <2>8, <2>9, <2>10, <2>11, <2>12
<1>6. CASE AllocateBatch \/ BatchFails \/ PublishGop \/ PublishGop3d
  <2>1. /\ stage \in {"batch", "publishGop", "publishGop3d"}
        /\ stage' \in {"publishGop", "publishGop3d", "child"}
        /\ stage' = "child" => stage = "publishGop3d"
        /\ published' # published => stage \in {"publishGop", "publishGop3d"}
        /\ UNCHANGED <<file, opened>>
    BY <1>6 DEF AllocateBatch, BatchFails, PublishGop, PublishGop3d, kept, registerVars
  <2>2. /\ file["start"] = 2 * FrameWords /\ file["end"] = 2 * FrameWords + RingWords
        /\ file["head"] \in 2 * FrameWords .. 2 * FrameWords + RingWords - 1
    BY <2>1 DEF RingInv, StartTold, EndTold, HeadTold
  <2>3. batched' => opened /\ ThirdBlock \in blocks'
    <3>1. CASE AllocateBatch
      BY <3>1 DEF AllocateBatch, StageInv, WithFrames, RingSteps
    <3>2. CASE BatchFails
      BY <1>0, <3>2 DEF BatchFails, kept
    <3>3. CASE PublishGop \/ PublishGop3d
      BY <3>3 DEF PublishGop, PublishGop3d, RingInv
    <3>. QED BY <1>6, <3>1, <3>2, <3>3
  <2>. QED BY <2>1, <2>2, <2>3 DEF RingInv
<1>7. CASE PublishGopFails
  BY <1>2, <1>7 DEF PublishGopFails
<1>. QED BY <1>3, <1>4, <1>5, <1>6, <1>7 DEF StartStep

\* Start keeps both.
LEMMA StartKeepsBootInv ==
  ASSUME FileOK, BootInv, phase = "clients", UNCHANGED <<phase, reprogrammed>>, StartStep
  PROVE  BootInv' /\ RegisterStep
BY StartKeepsStageInv, StartKeepsRingInv DEF BootInv

\* The head goes to a place in the ring (ringbuffer.c:118-143).
LEMMA HeadInRing ==
  ASSUME FileOK, file["start"] = 2 * FrameWords, file["end"] = 2 * FrameWords + RingWords,
         file["head"] \in 2 * FrameWords .. 2 * FrameWords + RingWords - 1,
         NEW n \in 1 .. RingWords - 1
  PROVE  /\ HeadBehind(n) \in Word
         /\ HeadBehind(n) \in 2 * FrameWords .. 2 * FrameWords + RingWords - 1
<1>. DEFINE s == file["start"]
            h == file["head"]
            e == file["end"]
            b == HeadBehind(n)
<1>1. s \in Nat /\ RingWords \in Nat /\ e = s + RingWords /\ h \in s .. e - 1
  BY Sizes, SMT
<1>2. b \in s .. e - 1
  <2>1. b = (LET first == IF h + n <= e THEN h ELSE s
             IN  IF first + n = e THEN s ELSE first + n)
    BY DEF HeadBehind, Fits
  <2>. HIDE DEF s, h, e, b
  <2>. QED BY <1>1, <2>1, SMT
<1>3. b \in Nat /\ b <= VramWords
  <2>1. s + RingWords <= VramWords /\ VramWords \in Nat
    BY Sizes, SMT
  <2>. HIDE DEF s, h, e, b
  <2>. QED BY <1>1, <1>2, <2>1, SMT
<1>4. b \in Word
  <2>. HIDE DEF b
  <2>. QED BY <1>3, Words
<1>5. s = 2 * FrameWords /\ FrameWords \in Nat
  BY Sizes
<1>6. b \in 2 * FrameWords .. 2 * FrameWords + RingWords - 1
  <2>. HIDE DEF s, h, e, b
  <2>. QED BY <1>1, <1>2, <1>5, SMT
<1>. QED BY <1>4, <1>6

\* A step of the device changes no register but the mode and the tail.
LEMMA DeviceTouches ==
  ASSUME FileOK, DeviceStep
  PROVE  \E m \in Word, t \in Word : file' = [file EXCEPT !["mode"] = m, !["tail"] = t]
<1>1. /\ file["mode"] \in Word /\ file["tail"] \in Word /\ file["start"] \in Word
      /\ file["end"] \in Word
  BY DEF FileOK, Names, RegisterAt
<1>2. NextSlot(file, file["tail"]) \in Word
  <2>1. ASSUME ~(file["tail"] + 1 >= file["end"])
        PROVE  file["tail"] + 1 \in Word
    <3>1. file["tail"] \in Nat /\ file["end"] \in Nat
      BY <1>1, Words
    <3>2. file["tail"] + 1 \in Nat /\ file["tail"] + 1 <= file["end"]
      BY <2>1, <3>1, SMT
    <3>. QED BY <1>1, <3>2, WordsBelow
  <2>. QED BY <1>1, <2>1 DEF NextSlot
<1>3. file = [file EXCEPT !["mode"] = file["mode"], !["tail"] = file["tail"]]
  BY DEF FileOK
<1>4. CASE file' = file
  BY <1>1, <1>3, <1>4
<1>5. CASE file' = Done(file)
  <2>1. file' = [file EXCEPT !["mode"] = file["mode"], !["tail"] = NextSlot(file, file["tail"])]
    BY <1>5 DEF FileOK, Done
  <2>. QED BY <1>1, <1>2, <2>1
<1>6. CASE file' = [file EXCEPT !["mode"] = ModeIdle]
  <2>1. file' = [file EXCEPT !["mode"] = ModeIdle, !["tail"] = file["tail"]]
    BY <1>6 DEF FileOK
  <2>. QED BY <1>1, <2>1, Words
<1>7. CASE file' = [Done(file) EXCEPT !["mode"] = Mode3d]
  <2>1. file' = [file EXCEPT !["mode"] = Mode3d, !["tail"] = NextSlot(file, file["tail"])]
    BY <1>7 DEF FileOK, Done
  <2>. QED BY <1>2, <2>1, Words
<1>. QED BY <1>4, <1>5, <1>6, <1>7
     DEF DeviceStep, ExecuteClear, ExecuteNoop, BeginDraw, DropDraw, BeginLine, LinePixel,
         DrawTriangle, EndDraw

\* Steps that leave Start, the blocks and the registers it looks at alone.
LEMMA BootInvStands ==
  ASSUME BootInv, UNCHANGED <<startVars, phase, reprogrammed>>,
         \A r \in {"z", "fb", "width", "height", "start", "end", "head"} : file'[r] = file[r]
  PROVE  BootInv'
<1>1. /\ \A r \in {"z", "fb", "width", "height"} : file'[r] = file[r]
      /\ UNCHANGED <<stage, opened, published, blocks, answer, phase, reprogrammed>>
  BY DEF startVars
<1>2. StageInv'
  BY <1>1 DEF BootInv, StageInv, BlocksInVram, WithFrames, RingSteps, FrameInBounds
<1>3. \A r \in {"start", "end", "head"} : file'[r] = file[r]
  OBVIOUS
<1>4. RingInv'
  BY <1>3 DEF BootInv, RingInv, StartTold, EndTold, HeadTold, startVars
<1>. QED BY <1>2, <1>4 DEF BootInv

\* Every step touches the registers in one of the three ways, and keeps what
\* Start relies on.
LEMMA NextKeepsBootInv ==
  ASSUME FileOK, BootInv, [Next]_vars
  PROVE  BootInv' /\ RegisterStep
<1>1. CASE Boot
  BY <1>1, StartKeepsBootInv DEF Boot, adapterVars
<1>2. CASE StoreFillWord
  BY <1>2, BootInvStands DEF StoreFillWord, RegisterStep, registerVars, adapterVars
<1>3. CASE Client
  <2>0. FrameWords \in Nat
    BY Sizes
  <2>1. ASSUME NEW f \in Fills, ConsoleFill(f.rect, f.colour)
        PROVE  BootInv' /\ RegisterStep
    BY <2>1, BootInvStands
       DEF ConsoleFill, ClientAct, RegisterStep, registerVars
  <2>2. ASSUME NEW mode \in {ModeGop, Mode3d, ModeIdle}, GpuSetMode(mode)
        PROVE  BootInv' /\ RegisterStep
    <3>1. /\ GpuMmioWrite32("mode", mode) /\ mode \in Word
          /\ UNCHANGED <<startVars, phase, reprogrammed>>
      BY <2>2, Words DEF GpuSetMode, ClientAct
    <3>2. RegisterStep /\ file' = [file EXCEPT !["mode"] = mode]
      BY <3>1, DriverWrites
    <3>. QED BY <3>1, <3>2, BootInvStands DEF FileOK
  <2>3. CASE TransferBuffer
    <3>1. /\ Heap!Allocate(1) /\ "gop3d" \in published
          /\ UNCHANGED <<file, request, loaded, stage, opened, published, batched, phase,
                        reprogrammed>>
          /\ Resting
      BY <2>3 DEF TransferBuffer, ClientAct, CpuFree, registerVars, kept
    <3>2. BlocksInVram' /\ blocks \subseteq blocks'
      BY <3>1, AllocateAdds, SMT DEF BootInv, StageInv
    <3>3. StageInv'
      BY <3>1, <3>2
         DEF BootInv, StageInv, WithFrames, RingSteps, Resting, FrameInBounds
    <3>4. RingInv'
      BY <3>1, <3>2 DEF BootInv, RingInv, StartTold, EndTold, HeadTold
    <3>. QED BY <3>1, <3>3, <3>4 DEF BootInv, RegisterStep, registerVars
  <2>4. ASSUME NEW frame \in Frames, Submit(frame)
        PROVE  BootInv' /\ RegisterStep
    <3>1. Len(frame) \in 1 .. RingWords - 1
      BY AdapterAssumption
    <3>2. /\ GpuMmioWrite32("head", HeadBehind(Len(frame)))
          /\ "gop3d" \in published /\ phase = "clients"
          /\ UNCHANGED <<startVars, phase, reprogrammed>>
      BY <2>4 DEF Submit, ClientAct
    <3>3. /\ file["start"] = 2 * FrameWords /\ file["end"] = 2 * FrameWords + RingWords
          /\ file["head"] \in 2 * FrameWords .. 2 * FrameWords + RingWords - 1
      BY <3>2 DEF BootInv, RingInv
    <3>4. /\ HeadBehind(Len(frame)) \in Word
          /\ HeadBehind(Len(frame)) \in 2 * FrameWords .. 2 * FrameWords + RingWords - 1
      BY <3>1, <3>3, HeadInRing
    <3>5. RegisterStep /\ file' = [file EXCEPT !["head"] = HeadBehind(Len(frame))]
      BY <3>2, <3>4, DriverWrites
    <3>6. /\ \A r \in {"z", "fb", "width", "height", "start", "end"} : file'[r] = file[r]
          /\ file'["head"] = HeadBehind(Len(frame))
      BY <3>5 DEF FileOK, Names, RegisterAt
    <3>7. UNCHANGED <<stage, opened, published, batched, blocks, answer>>
      BY <3>2 DEF startVars
    <3>8. StageInv'
      BY <3>2, <3>6, <3>7
         DEF BootInv, StageInv, BlocksInVram, WithFrames, RingSteps, FrameInBounds
    <3>9. RingInv'
      <4>1. /\ file'["start"] = 2 * FrameWords /\ file'["end"] = 2 * FrameWords + RingWords
            /\ file'["head"] \in 2 * FrameWords .. 2 * FrameWords + RingWords - 1
        BY <3>3, <3>4, <3>6
      <4>. QED BY <3>2, <3>7, <4>1 DEF BootInv, RingInv
    <3>. QED BY <3>5, <3>8, <3>9 DEF BootInv
  <2>5. CASE GuestReset
    <3>1. /\ stage' = "stopped" /\ published' = {} /\ blocks' = {} /\ phase' = "clients"
          /\ ~batched' /\ UNCHANGED <<registerVars, reprogrammed>>
      BY <2>5 DEF GuestReset
    <3>2. StageInv'
      BY <3>1 DEF BootInv, StageInv, BlocksInVram, WithFrames, RingSteps, registerVars,
                  FrameInBounds
    <3>3. RingInv'
      BY <3>1 DEF RingInv, StartTold, EndTold, HeadTold
    <3>. QED BY <3>1, <3>2, <3>3 DEF BootInv, RegisterStep
  <2>6. CASE SubmitFaults
    <3>1. /\ stage' = "lost" /\ "gop3d" \in published
          /\ UNCHANGED <<registerVars, opened, published, batched, blocks, answer, phase,
                        reprogrammed>>
          /\ phase = "clients"
      BY <2>6 DEF SubmitFaults, ClientAct, kept
    <3>2. StageInv'
      BY <3>1 DEF BootInv, StageInv, BlocksInVram, WithFrames, RingSteps, registerVars,
                  FrameInBounds
    <3>3. RingInv'
      BY <3>1 DEF BootInv, RingInv, StartTold, EndTold, HeadTold, registerVars
    <3>. QED BY <3>1, <3>2, <3>3 DEF BootInv, RegisterStep
  <2>. QED BY <1>3, <2>1, <2>2, <2>3, <2>4, <2>5, <2>6 DEF Client
<1>4. CASE Device
  <2>1. PICK m \in Word, t \in Word : file' = [file EXCEPT !["mode"] = m, !["tail"] = t]
    BY <1>4, DeviceTouches DEF Device
  <2>2. \A r \in {"z", "fb", "width", "height", "start", "end", "head"} : file'[r] = file[r]
    <3>1. {"z", "fb", "width", "height", "start", "end", "head"} \subseteq Names
      BY DEF Names, RegisterAt
    <3>. QED BY <2>1, <3>1 DEF FileOK
  <2>3. UNCHANGED <<request, loaded, startVars, phase, reprogrammed>>
    BY <1>4 DEF Device, adapterVars
  <2>. QED BY <2>1, <2>2, <2>3, BootInvStands DEF RegisterStep
<1>5. CASE Refresh
  BY <1>5, BootInvStands DEF Refresh, RegisterStep, registerVars, adapterVars
<1>6. CASE Others
  <2>1. ASSUME NEW addr \in RawAddrs, NEW data \in RawData, RawAccess(addr, data)
        PROVE  BootInv' /\ RegisterStep
    <3>1. addr \in Nat /\ Stored(data)
      BY AdapterAssumption DEF Stored, Byte
    <3>2. /\ \/ Store(addr, data) /\ FrameInBounds(file') /\ reprogrammed'
             \/ Load(addr, data) /\ UNCHANGED reprogrammed
          /\ UNCHANGED startVars /\ phase' = "registers" /\ stage = "done"
      BY <2>1 DEF RawAccess, TakesOver, BootInv, StageInv
    <3>3. RegisterStep
      BY <3>1, <3>2 DEF RegisterStep
    <3>4. FrameInBounds(file') /\ (~reprogrammed' => file'["fb"] = 0)
      BY <3>2 DEF Load, BootInv, StageInv
    <3>5. StageInv'
      BY <3>2, <3>4 DEF BootInv, StageInv, BlocksInVram, startVars, WithFrames, RingSteps
    <3>6. RingInv'
      BY <3>2 DEF BootInv, RingInv, startVars
    <3>. QED BY <3>3, <3>5, <3>6 DEF BootInv
  <2>2. ASSUME NEW op, NEW at, NEW size, VramCall(op, at, size)
        PROVE  BootInv' /\ RegisterStep
    <3>1. /\ UNCHANGED <<registerVars, startVars, reprogrammed>>
          /\ phase' = "copies" /\ stage = "done"
      BY <2>2 DEF VramCall, TakesOver, BootInv, StageInv
    <3>2. StageInv'
      BY <3>1 DEF BootInv, StageInv, BlocksInVram, startVars, registerVars, WithFrames,
                  RingSteps, FrameInBounds
    <3>3. RingInv'
      BY <3>1 DEF BootInv, RingInv, startVars
    <3>. QED BY <3>1, <3>2, <3>3 DEF BootInv, RegisterStep
  <2>3. CASE VramStep
    BY <2>3, BootInvStands DEF VramStep, RegisterStep, registerVars, adapterVars
  <2>. QED BY <1>6, <2>1, <2>2, <2>3 DEF Others
<1>7. CASE UNCHANGED vars
  BY <1>7, BootInvStands DEF vars, RegisterStep, registerVars, adapterVars
<1>. QED BY <1>1, <1>2, <1>3, <1>4, <1>5, <1>6, <1>7 DEF Next

\* And so the registers stay words, and each step is one of RegisterBytes.
LEMMA RegisterStepImplements ==
  ASSUME FileOK, RegisterStep
  PROVE  FileOK' /\ [Readable!BytesNext]_(Readable!byteVars)
<1>1. CASE UNCHANGED registerVars
  BY <1>1 DEF registerVars, FileOK, Readable!byteVars, LaneAt, Reply
<1>2. ASSUME NEW addr \in Nat, NEW data, Stored(data), Store(addr, data) \/ Load(addr, data)
      PROVE  FileOK' /\ Readable!BytesNext
  BY <1>2, StoreImplements, LoadImplements
<1>3. ASSUME UNCHANGED <<request, loaded>>, NEW m \in Word, NEW t \in Word,
             file' = [file EXCEPT !["mode"] = m, !["tail"] = t]
      PROVE  FileOK' /\ Readable!BytesNext
  BY <1>3, DeviceImplements
<1>. QED BY <1>1, <1>2, <1>3 DEF RegisterStep

\* The machine begins in it.
LEMMA Boots ==
  ASSUME Init
  PROVE  FileOK /\ BootInv /\ Readable!BytesInit
<1>1. FileOK /\ file["fb"] = 0 /\ file["width"] = FbWidth /\ file["height"] = FbHeight
  <2>1. FbWidth \in Word /\ FbHeight \in Word /\ 0 \in Word
    <3>1. FbWidth * FbHeight >= FbWidth
      BY Sizes, AtLeastOne
    <3>2. FbHeight * FbWidth >= FbHeight
      BY Sizes, AtLeastOne
    <3>3. FbWidth * FbHeight = FbHeight * FbWidth /\ FrameWords = FbWidth * FbHeight
      BY Sizes, SMT DEF FrameWords
    <3>4. FbWidth <= VramWords /\ FbHeight <= VramWords /\ 0 <= VramWords
      BY <3>1, <3>2, <3>3, Sizes, SMT
    <3>. QED BY <3>4, Sizes, Words, SMT
  <2>2. file = [r \in Names |-> IF r = "width" THEN FbWidth
                                ELSE IF r = "height" THEN FbHeight ELSE 0]
    BY DEF Init, RegistersInit, PowerOnFile
  <2>3. {"fb", "width", "height"} \subseteq Names
    BY DEF Names, RegisterAt
  <2>. QED BY <2>1, <2>2, <2>3 DEF FileOK
<1>2. BootInv
  <2>1. FrameInBounds(file)
    <3>1. 0 + FbWidth * FbHeight <= VramWords
      BY Sizes, SMT DEF FrameWords
    <3>. QED BY <1>1, <3>1, Sizes, SMT DEF FrameInBounds
  <2>2. StageInv
    BY <1>1, <2>1 DEF Init, StartInit, StageInv, BlocksInVram, WithFrames, RingSteps
  <2>3. RingInv
    BY DEF Init, StartInit, RingInv, StartTold, EndTold, HeadTold
  <2>. QED BY <2>2, <2>3 DEF BootInv
<1>3. Readable!BytesInit
  <2>1. loaded.n = 0 /\ request.op = "none"
    BY DEF Init, RegistersInit, NoRequest
  <2>. QED BY <2>1, SMT DEF Readable!BytesInit, Reply, BytesOf
<1>. QED BY <1>1, <1>2, <1>3

\* The registers are words, and Start keeps what it relies on, in every run.
LEMMA BootAlways == Spec => [](FileOK /\ BootInv)
<1>1. Init => FileOK /\ BootInv
  BY Boots
<1>2. FileOK /\ BootInv /\ [Next]_vars => (FileOK /\ BootInv)'
  BY NextKeepsBootInv, RegisterStepImplements
<1>. QED BY <1>1, <1>2, PTL DEF Spec

\* Whatever fails and whatever the registers held, a published GOP3D has told
\* the device of a depth buffer and a ring of its own, apart from each other and
\* from the block of the framebuffer.  That the device draws into that block
\* follows only where no other software has stored to the registers.
THEOREM BootCorrect == Spec => []BootAgrees
<1>1. BootInv => BootAgrees
  <2>1. ASSUME BootInv, "gop3d" \in published, phase = "clients"
        PROVE  BootAgrees
    <3>1. /\ file["z"] = FrameWords /\ {FirstBlock, SecondBlock} \subseteq blocks
          /\ ~reprogrammed => file["fb"] = 0
      BY <2>1 DEF BootInv, StageInv
    <3>2. /\ file["start"] = 2 * FrameWords /\ file["end"] = 2 * FrameWords + RingWords
          /\ file["head"] \in 2 * FrameWords .. 2 * FrameWords + RingWords - 1
          /\ batched => ThirdBlock \in blocks
      BY <2>1 DEF BootInv, RingInv
    <3>3. FrameWords \in Nat /\ RingWords \in Nat
      BY Sizes
    <3>4. file["end"] - file["start"] = RingWords
      BY <3>2, <3>3, SMT
    <3>5. FrameBlock = FirstBlock /\ DepthBlock = SecondBlock /\ RingBlock = ThirdBlock
      BY <3>1, <3>2, <3>4
         DEF FrameBlock, DepthBlock, RingBlock, FirstBlock, SecondBlock, ThirdBlock
    <3>6. FrameWords <= file["z"] /\ file["z"] + FrameWords <= file["start"]
      BY <3>1, <3>2, <3>3, SMT
    <3>7. file["head"] \in file["start"] .. file["end"] - 1
      BY <3>2, <3>3, SMT
    <3>. QED BY <3>1, <3>2, <3>5, <3>6, <3>7 DEF BootAgrees
  <2>. QED BY <2>1 DEF BootAgrees
<1>. QED BY <1>1, BootAlways, PTL

\* Once protocols are published nothing takes blocks away: Start does not get
\* past opening PciIo a second time.
THEOREM BlocksAreKept == Spec => ClientsKeepBlocks
<1>1. ASSUME BootInv, [Next]_vars, published # {}, published' # {}
      PROVE  blocks \subseteq blocks'
  <2>1. opened /\ stage \in {"publishGop3d", "child", "done", "failed", "lost"}
    BY <1>1 DEF BootInv, StageInv
  <2>2. CASE Boot
    BY <2>1, <2>2
       DEF Boot, StartStep, BeginStart, CallSucceeds, CallFails, OpenPciIo, InitAllocator,
           InitAllocatorFails, AllocateFrame, AllocateDepth, WriteDepthRegister,
           BeginGopSetup, GopSetupWithoutBuffer, EndGopSetup, AllocateRing, InitRingRegister,
           AllocateBatch, BatchFails, PublishGop, PublishGopFails, PublishGop3d, RingStages
  <2>3. CASE TransferBuffer
    BY <1>1, <2>3, AllocateAdds, SMT DEF TransferBuffer, BootInv, StageInv
  <2>4. CASE GuestReset
    BY <1>1, <2>4 DEF GuestReset
  <2>5. CASE \/ StoreFillWord \/ Device \/ Refresh \/ Others \/ UNCHANGED vars
             \/ \E f \in Fills : ConsoleFill(f.rect, f.colour)
             \/ \E mode \in {ModeGop, Mode3d, ModeIdle} : GpuSetMode(mode)
             \/ SubmitFaults \/ \E frame \in Frames : Submit(frame)
    BY <2>5 DEF StoreFillWord, Device, Refresh, Others, vars, ConsoleFill, GpuSetMode, Submit,
                SubmitFaults, RawAccess, VramCall, VramStep, startVars
  <2>. QED BY <1>1, <2>2, <2>3, <2>4, <2>5 DEF Next, Client
<1>. QED BY <1>1, BootAlways, PTL DEF Spec, ClientsKeepBlocks

\* The whole machine, not only the register window by itself, implements a
\* window of bytes, of which all but those of the ring's start and end can be
\* loaded.
THEOREM RegistersAreBytes == Spec => ReadableAsBytes
<1>1. Init => Readable!BytesInit
  BY Boots
<1>2. FileOK /\ BootInv /\ [Next]_vars => [Readable!BytesNext]_(Readable!byteVars)
  BY NextKeepsBootInv, RegisterStepImplements
<1>. QED BY <1>1, <1>2, BootAlways, PTL DEF Spec, ReadableAsBytes, Readable!BytesSpec

-----------------------------------------------------------------------------
(***************************************************************************)
(* The draw in progress.                                                   *)
(***************************************************************************)
DrawInv ==
  /\ todo \in Seq(Commands)
  /\ draw \in [on : BOOLEAN, parts : Seq(Edges) \cup Seq(Shapes)]
  /\ todo # <<>> => phase = "clients" /\ opened /\ stage \in {"done", "failed"}
  /\ draw.on =>
       /\ todo # <<>> /\ file["mode"] = ModeIdle
       /\ \/ Head(todo).op = "lines" /\ draw.parts \in Seq(Edges)
          \/ Head(todo).op = "triangles" /\ draw.parts \in Seq(Shapes)
  /\ line.drawing =>
       draw.on /\ Head(todo).op = "lines" /\ line \in LineRecords /\ LineInv(line)

\* A sequence that is not empty has a head of its kind, and so has its tail.
LEMMA HeadTail ==
  ASSUME NEW S, NEW s \in Seq(S), s # <<>>
  PROVE  Head(s) \in S /\ Tail(s) \in Seq(S)
BY HeadTailProperties

\* The primitives of a command, and the words a draw of lines stores to.
LEMMA CommandParts ==
  ASSUME NEW c \in Commands
  PROVE  /\ c.op = "lines" => c.parts \in Seq(Edges) /\ c.shade \in Colours
         /\ c.op = "triangles" => c.parts \in Seq(Shapes)
BY DEF Commands, Noop

\* What lies between tail and head after a submission is commands.
LEMMA Submitted ==
  ASSUME FileOK, NEW frame \in Frames
  PROVE  Padding(Len(frame)) \o frame \in Seq(Commands)
<1>1. frame \in Seq(Commands) /\ Noop \in Commands
  BY AdapterAssumption DEF Commands
<1>2. Padding(Len(frame)) \in Seq(Commands)
  <2>. DEFINE n == file["end"] - file["head"]
              pad == [k \in 1 .. n |-> Noop]
  <2>1. n \in Int
    <3>1. file["end"] \in Nat /\ file["head"] \in Nat
      <4>1. {"end", "head"} \subseteq Names
        BY DEF Names, RegisterAt
      <4>. QED BY <4>1, Words DEF FileOK
    <3>. QED BY <3>1, SMT
  <2>2. \A k \in 1 .. n : Noop \in Commands
    BY <1>1
  <2>3. CASE n \in Nat
    BY <2>2, <2>3, IsASeq DEF Padding
  <2>4. CASE n \notin Nat
    <3>1. 1 .. n = 1 .. 0
      BY <2>1, <2>4, SMT
    <3>2. pad = [k \in 1 .. 0 |-> Noop]
      <4>. HIDE DEF n
      <4>. QED BY <3>1
    <3>3. \A k \in 1 .. 0 : Noop \in Commands
      BY <1>1
    <3>4. 0 \in Nat
      BY SMT
    <3>5. [k \in 1 .. 0 |-> Noop] \in Seq(Commands)
      BY <3>3, <3>4, IsASeq
    <3>. QED BY <3>2, <3>5, EmptySeq DEF Padding
  <2>. QED BY <2>3, <2>4
<1>. QED BY <1>1, <1>2, ConcatProperties

\* The device's steps; only ends and dropped commands take one off the queue.
LEMMA DeviceKeepsDrawInv ==
  ASSUME FileOK, DrawInv, DeviceStep, UNCHANGED <<phase, opened, stage>>
  PROVE  DrawInv'
<1>. USE DEF DrawInv
<1>0. /\ Trapped => Head(todo) \in Commands /\ Tail(todo) \in Seq(Commands)
      /\ <<>> \in Seq(Edges)
  BY HeadTail, EmptySeq DEF Trapped
<1>1. CASE ExecuteClear
  BY <1>0, <1>1 DEF ExecuteClear, Trapped
<1>2. CASE ExecuteNoop
  BY <1>0, <1>2 DEF ExecuteNoop, Trapped
<1>3. CASE BeginDraw
  <2>1. /\ Head(todo).op = "lines" => Head(todo).parts \in Seq(Edges)
        /\ Head(todo).op = "triangles" => Head(todo).parts \in Seq(Shapes)
    BY <1>0, <1>3, CommandParts DEF BeginDraw
  <2>2. file'["mode"] = ModeIdle
    BY <1>3 DEF BeginDraw, FileOK, Names, RegisterAt
  <2>. QED BY <1>3, <2>1, <2>2 DEF BeginDraw, IsDraw, Trapped
<1>4. CASE DropDraw
  BY <1>0, <1>4 DEF DropDraw, Trapped
<1>5. CASE BeginLine
  <2>1. Head(draw.parts) \in Edges /\ Tail(draw.parts) \in Seq(Edges)
    BY <1>5, HeadTail DEF BeginLine
  <2>2. LineOf(Head(draw.parts)) \in LineRecords /\ LineInv(LineOf(Head(draw.parts)))
    BY <2>1, LineBegins
  <2>3. draw' = [draw EXCEPT !.parts = Tail(draw.parts)] /\ draw.on
    BY <1>5 DEF BeginLine
  <2>. QED BY <1>5, <2>1, <2>2, <2>3 DEF BeginLine
<1>6. CASE LinePixel
  <2>1. line' = NoLine \/ (line' \in LineRecords /\ LineInv(line'))
    BY <1>6, LineAdvances DEF LinePixel
  <2>2. ~NoLine.drawing
    BY DEF NoLine
  <2>. QED BY <1>6, <2>1, <2>2 DEF LinePixel
<1>7. CASE DrawTriangle
  <2>1. Tail(draw.parts) \in Seq(Shapes)
    BY <1>7, HeadTail DEF DrawTriangle
  <2>2. draw' = [draw EXCEPT !.parts = Tail(draw.parts)] /\ draw.on
    BY <1>7 DEF DrawTriangle
  <2>. QED BY <1>7, <2>1, <2>2 DEF DrawTriangle
<1>8. CASE EndDraw
  BY <1>0, <1>8 DEF EndDraw, NoDraw, Trapped
<1>. QED BY <1>1, <1>2, <1>3, <1>4, <1>5, <1>6, <1>7, <1>8 DEF DeviceStep

\* Nobody else touches it, but a submission, which finds no draw.
LEMMA NextKeepsDrawInv ==
  ASSUME FileOK, BootInv, DrawInv, [Next]_vars
  PROVE  DrawInv'
<1>1. CASE Device
  BY <1>1, DeviceKeepsDrawInv DEF Device, startVars, adapterVars
<1>2. CASE UNCHANGED <<todo, draw, line, file, phase, opened, stage>>
  BY <1>2 DEF DrawInv
<1>3. CASE UNCHANGED <<todo, draw, line>> /\ ~Trapped
  BY <1>3 DEF DrawInv, Trapped
<1>4. ASSUME NEW frame \in Frames, Submit(frame)
      PROVE  DrawInv'
  <2>1. /\ ~Trapped /\ UNCHANGED <<draw, line, stage, opened>> /\ phase = "clients" /\ phase' = phase
        /\ todo' = Padding(Len(frame)) \o frame
        /\ Resting /\ published # {}
    BY <1>4 DEF Submit, CpuFree, ClientAct, startVars
  <2>2. ~draw.on /\ ~line.drawing
    BY <2>1 DEF DrawInv, Trapped
  <2>3. opened /\ stage \in {"done", "failed"}
    BY <1>4, <2>1 DEF Submit, CpuFree, BootInv, StageInv, Resting
  <2>. QED BY <2>1, <2>2, <2>3, Submitted DEF DrawInv
<1>5. CASE Boot
  <2>1. UNCHANGED <<todo, draw, line>>
    BY <1>5 DEF Boot, rasterVars
  <2>2. ASSUME StartStep, opened, stage \in {"done", "failed"}
        PROVE  FALSE
    <3>1. ~CallSucceeds /\ ~CallFails
      <4>1. DOMAIN PlainStages = {"pool", "attributes", "path", "child"}
        BY DEF PlainStages
      <4>. QED BY <2>2, <4>1 DEF CallSucceeds, CallFails, FailingStages
    <3>2. ~InitRingRegister
      BY <2>2, RingStageNames DEF InitRingRegister, RingSteps
    <3>. QED BY <2>2, <3>1, <3>2
         DEF StartStep, BeginStart, OpenPciIo, InitAllocator, InitAllocatorFails, AllocateFrame,
             AllocateDepth, WriteDepthRegister, BeginGopSetup, GopSetupWithoutBuffer,
             EndGopSetup, AllocateRing, AllocateBatch, BatchFails, PublishGop,
             PublishGopFails, PublishGop3d
  <2>3. ~Trapped
    BY <1>5, <2>2 DEF Boot, DrawInv, Trapped
  <2>. QED BY <1>3, <2>1, <2>3
<1>6. CASE StoreFillWord \/ Refresh \/ VramStep \/ UNCHANGED vars
  BY <1>2, <1>6 DEF StoreFillWord, Refresh, VramStep, vars, registerVars, rasterVars, startVars,
                    adapterVars
<1>7. CASE GuestReset
  BY <1>3, <1>7 DEF GuestReset
<1>8. ASSUME NEW f \in Fills, ConsoleFill(f.rect, f.colour)
      PROVE  DrawInv'
  BY <1>3, <1>8 DEF ConsoleFill, CpuFree
<1>9. ASSUME NEW mode \in {ModeGop, Mode3d, ModeIdle}, GpuSetMode(mode)
      PROVE  DrawInv'
  BY <1>3, <1>9 DEF GpuSetMode, CpuFree, rasterVars
<1>10. CASE TransferBuffer \/ SubmitFaults
  BY <1>3, <1>10 DEF TransferBuffer, SubmitFaults, CpuFree, rasterVars
<1>11. ASSUME NEW addr, NEW data, RawAccess(addr, data)
       PROVE  DrawInv'
  BY <1>3, <1>11 DEF RawAccess, TakesOver, CpuFree, rasterVars
<1>12. ASSUME NEW op, NEW at, NEW size, VramCall(op, at, size)
       PROVE  DrawInv'
  BY <1>3, <1>12 DEF VramCall, TakesOver, CpuFree, rasterVars
<1>. QED BY <1>1, <1>4, <1>5, <1>6, <1>7, <1>8, <1>9, <1>10, <1>11, <1>12
     DEF Next, Client, Others

-----------------------------------------------------------------------------
(***************************************************************************)
(* Copies.                                                                 *)
(***************************************************************************)
Calls ==
  [op : {"none", "write", "read", "set"}, at : Nat, size : 0 .. HostBytes, i : Nat,
   status : {"none", "busy", "error", "success"},
   mem : [0 .. MemBytes - 1 -> Nat], host : [0 .. HostBytes - 1 -> Nat]]

\* A call that has come to single bytes goes on with them.
AccessInv ==
  /\ mem \in [0 .. MemBytes - 1 -> Nat] /\ host \in [0 .. HostBytes - 1 -> Nat]
  /\ call \in Calls
  /\ call.i <= call.size
  /\ call.i % 4 = 0 \/ call.i + 4 > call.size
  /\ call.status \in {"busy", "error", "success"} => call.op # "none"
  /\ CopyIsExact

\* The bytes of a call up to the next access, and those of that access.
LEMMA CopiedBytes ==
  ASSUME NEW a \in Int, NEW at \in Nat, NEW i \in Nat, NEW n \in {1, 4}
  PROVE  /\ a \in at .. at + (i + n) - 1 <=> a \in at .. at + i - 1 \/ a - at \in i .. i + n - 1
         /\ \A h \in Nat : i + n <= h /\ a - at \in i .. i + n - 1 => a - at \in 0 .. h - 1
BY SMT

\* The bytes of one access lie where the device allows them.
LEMMA AccessedBytes ==
  ASSUME NEW at \in Nat, NEW i \in Nat, NEW n \in Nat, NEW k \in Int, NEW top \in Nat,
         at + i + n <= top, k \in i .. i + n - 1
  PROVE  at + k \in 0 .. top - 1 /\ k < i + n
BY SMT

\* Where a call may end early.
LEMMA RefusedWhere ==
  ASSUME NEW at \in Nat, NEW i \in Nat, NEW size \in Nat, i < size,
         i % 4 = 0 \/ i + 4 > size, NEW top \in Nat,
         LET n == IF i + 4 <= size THEN 4 ELSE 1 IN ~(at + i + n <= top /\ (at + i) % n = 0)
  PROVE  at + size > top \/ at % 4 # 0
<1>1. CASE i + 4 <= size
  BY <1>1, SMT
<1>2. CASE i + 4 > size
  BY <1>2, SMT
<1>. QED BY <1>1, <1>2, SMT

\* An access copies the bytes of its chunk, and leaves the call where it can go on.
LEMMA AccessStepKeepsAccessInv ==
  ASSUME AccessInv, AccessStep
  PROVE  AccessInv'
<1>0. /\ MemBytes \in Nat /\ HostBytes \in Nat
      /\ call.at \in Nat /\ call.size \in 0 .. HostBytes /\ call.i \in Nat
      /\ call.i <= call.size
      /\ call.op \in {"none", "write", "read", "set"}
      /\ call.mem \in [0 .. MemBytes - 1 -> Nat] /\ call.host \in [0 .. HostBytes - 1 -> Nat]
  BY VramAccessAssumption DEF AccessInv, Calls
<1>1. CASE AccessChunk
  <2>. DEFINE n == Chunk
  <2>1. \/ n = 4 /\ call.i + 4 <= call.size
        \/ n = 1 /\ call.i + 4 > call.size
    BY <1>0, SMT DEF Chunk, WordBytes
  <2>2. /\ n \in {1, 4} /\ call.i + n <= call.size /\ call.i < call.size
        /\ call.at + call.i + n <= MemBytes /\ call.op # "none" /\ call.status = "busy"
        /\ call' = [call EXCEPT !.i = call.i + n]
    BY <1>0, <1>1, <2>1, SMT DEF AccessChunk, PciServes, AccessInv
  <2>3. call' \in Calls /\ call'.i = call.i + n /\ call'.i \in Nat
        /\ call'.op = call.op /\ call'.at = call.at /\ call'.size = call.size
        /\ call'.mem = call.mem /\ call'.host = call.host /\ call'.status = "busy"
    <3>1. call.i + n \in Nat
      BY <1>0, <2>2, SMT
    <3>. HIDE DEF n
    <3>. QED BY <2>2, <3>1 DEF AccessInv, Calls
  <2>4. call'.i <= call'.size /\ (call'.i % 4 = 0 \/ call'.i + 4 > call'.size)
    <3>. HIDE DEF n
    <3>. QED BY <1>0, <2>1, <2>2, <2>3, SMT DEF AccessInv
  <2>5. /\ \A a \in DOMAIN mem :
             mem[a] = IF call.op # "read" /\ a \in call.at .. call.at + call.i - 1
                        THEN Written(a - call.at) ELSE call.mem[a]
        /\ \A k \in DOMAIN host :
             host[k] = IF call.op = "read" /\ k < call.i
                         THEN call.mem[call.at + k] ELSE call.host[k]
    BY <2>2 DEF AccessInv, CopyIsExact
  <2>6. /\ DOMAIN mem = 0 .. MemBytes - 1 /\ DOMAIN host = 0 .. HostBytes - 1
    BY DEF AccessInv
  <2>7. /\ mem' = [a \in DOMAIN mem |->
             IF call.op # "read" /\ a - call.at \in call.i .. call.i + n - 1
               THEN IF call.op = "set" THEN SetByte ELSE host[a - call.at] ELSE mem[a]]
        /\ host' = [k \in DOMAIN host |->
             IF call.op = "read" /\ k \in call.i .. call.i + n - 1
               THEN mem[call.at + k] ELSE host[k]]
    BY <1>1 DEF AccessChunk
  <2>8. SetByte \in Nat
    BY <1>0, SMT DEF SetByte
  <2>. HIDE DEF n
  <2>9. ASSUME NEW a \in DOMAIN mem
        PROVE  /\ mem'[a] \in Nat
               /\ mem'[a] = IF call.op # "read" /\ a \in call.at .. call.at + (call.i + n) - 1
                              THEN Written(a - call.at) ELSE call.mem[a]
    <3>0. a \in 0 .. MemBytes - 1
      BY <2>6
    <3>9. /\ a \in call.at .. call.at + (call.i + n) - 1
               <=> a \in call.at .. call.at + call.i - 1 \/ a - call.at \in call.i .. call.i + n - 1
          /\ a - call.at \in call.i .. call.i + n - 1 => a - call.at \in 0 .. HostBytes - 1
      <4>1. a \in Int /\ call.i + n <= HostBytes
        BY <1>0, <2>2, <3>0, SMT
      <4>. QED BY <1>0, <2>2, <4>1, CopiedBytes
    <3>1. CASE call.op # "read" /\ a - call.at \in call.i .. call.i + n - 1
      <4>1. mem'[a] = IF call.op = "set" THEN SetByte ELSE host[a - call.at]
        BY <2>7, <3>1
      <4>2. a - call.at \in DOMAIN host
        BY <2>6, <3>1, <3>9
      <4>3. host[a - call.at] = call.host[a - call.at] /\ host[a - call.at] \in Nat
        BY <2>5, <3>1, <4>2 DEF AccessInv
      <4>4. a \in call.at .. call.at + (call.i + n) - 1
        BY <3>1, <3>9
      <4>. QED BY <2>8, <3>1, <4>1, <4>3, <4>4 DEF Written
    <3>2. CASE ~(call.op # "read" /\ a - call.at \in call.i .. call.i + n - 1)
      <4>1. mem'[a] = mem[a] /\ mem[a] \in Nat
        BY <2>7, <3>2 DEF AccessInv
      <4>2. (call.op # "read" /\ a \in call.at .. call.at + call.i - 1)
              <=> (call.op # "read" /\ a \in call.at .. call.at + (call.i + n) - 1)
        BY <3>2, <3>9
      <4>. QED BY <2>5, <4>1, <4>2
    <3>. QED BY <3>1, <3>2
  <2>10. ASSUME NEW k \in DOMAIN host
         PROVE  /\ host'[k] \in Nat
                /\ host'[k] = IF call.op = "read" /\ k < call.i + n
                                THEN call.mem[call.at + k] ELSE call.host[k]
    <3>1. CASE call.op = "read" /\ k \in call.i .. call.i + n - 1
      <4>1. host'[k] = mem[call.at + k]
        BY <2>7, <3>1
      <4>0. /\ call.at \in Nat /\ call.i \in Nat /\ n \in Nat /\ k \in Int
            /\ MemBytes \in Nat
        BY <1>0, <2>2, <2>6, SMT
      <4>2. call.at + k \in DOMAIN mem
        BY <2>2, <2>6, <3>1, <4>0, AccessedBytes
      <4>3. mem[call.at + k] = call.mem[call.at + k] /\ mem[call.at + k] \in Nat
        BY <2>5, <3>1, <4>2 DEF AccessInv
      <4>4. k < call.i + n
        BY <2>2, <3>1, <4>0, AccessedBytes
      <4>. QED BY <3>1, <4>1, <4>3, <4>4
    <3>2. CASE ~(call.op = "read" /\ k \in call.i .. call.i + n - 1)
      <4>1. host'[k] = host[k] /\ host[k] \in Nat
        BY <2>7, <3>2 DEF AccessInv
      <4>2. (call.op = "read" /\ k < call.i) <=> (call.op = "read" /\ k < call.i + n)
        BY <1>0, <2>2, <2>6, <3>2, SMT
      <4>. QED BY <2>5, <4>1, <4>2
    <3>. QED BY <3>1, <3>2
  <2>11. /\ mem' \in [0 .. MemBytes - 1 -> Nat] /\ host' \in [0 .. HostBytes - 1 -> Nat]
         /\ DOMAIN mem' = DOMAIN mem /\ DOMAIN host' = DOMAIN host
    BY <2>6, <2>7, <2>9, <2>10
  <2>12. CopyIsExact'
    BY <2>3, <2>9, <2>10, <2>11 DEF CopyIsExact, Written
  <2>. QED BY <2>2, <2>3, <2>4, <2>11, <2>12 DEF AccessInv
<1>2. CASE AccessFails
  <2>1. call' = [call EXCEPT !.status = "error"] /\ UNCHANGED <<mem, host>>
        /\ call.op # "none" /\ ~PciServes(call.at + call.i, Chunk) /\ call.i < call.size
    BY <1>2 DEF AccessFails, AccessInv
  <2>2. call.at + call.size > MemBytes \/ call.at % WordBytes # 0
    <3>1. call.i % 4 = 0 \/ call.i + 4 > call.size
      BY DEF AccessInv
    <3>2. call.size \in Nat
      BY <1>0, SMT
    <3>3. LET n == IF call.i + 4 <= call.size THEN 4 ELSE 1 IN
          ~(call.at + call.i + n <= MemBytes /\ (call.at + call.i) % n = 0)
      BY <2>1 DEF PciServes, Chunk, WordBytes
    <3>. QED BY <1>0, <2>1, <3>1, <3>2, <3>3, RefusedWhere DEF WordBytes
  <2>. QED BY <1>0, <2>1, <2>2 DEF AccessInv, CopyIsExact, Calls, Written
<1>3. CASE AccessReturns
  <2>1. call' = [call EXCEPT !.status = "success"] /\ UNCHANGED <<mem, host>>
        /\ call.op # "none" /\ call.i = call.size
    BY <1>0, <1>3, SMT DEF AccessReturns, AccessInv
  <2>. QED BY <1>0, <2>1 DEF AccessInv, CopyIsExact, Calls, Written
<1>. QED BY <1>1, <1>2, <1>3 DEF AccessStep

\* No other step touches VRAM's bytes, the buffer or the call, but the one that begins a call.
LEMMA NextKeepsAccessInv ==
  ASSUME AccessInv, [Next]_vars
  PROVE  AccessInv'
<1>1. CASE VramStep
  BY <1>1, AccessStepKeepsAccessInv DEF VramStep
<1>2. ASSUME NEW op \in {"write", "read", "set"}, NEW at \in 0 .. MemBytes,
             NEW size \in 0 .. HostBytes, VramCall(op, at, size)
      PROVE  AccessInv'
  <2>1. /\ call' = [op |-> op, at |-> at, size |-> size, i |-> 0, status |-> "busy",
                    mem |-> mem, host |-> host]
        /\ UNCHANGED <<mem, host>>
    BY <1>2 DEF VramCall, CallVram
  <2>2. MemBytes \in Nat /\ HostBytes \in Nat /\ at \in Nat /\ 0 <= size /\ 0 % 4 = 0
        /\ \A k \in 0 .. HostBytes - 1 : ~(k < 0)
        /\ \A a : a \notin at .. at + 0 - 1
    BY VramAccessAssumption, SMT
  <2>3. call' \in Calls
    BY <2>1, <2>2 DEF Calls, AccessInv
  <2>4. CopyIsExact'
    BY <2>1, <2>2 DEF CopyIsExact, AccessInv
  <2>. QED BY <2>1, <2>2, <2>3, <2>4 DEF AccessInv
<1>3. CASE UNCHANGED accessVars
  BY <1>3 DEF accessVars, AccessInv, CopyIsExact, Written
<1>. QED BY <1>1, <1>2, <1>3
     DEF Next, Boot, StoreFillWord, Client, ConsoleFill, GpuSetMode, TransferBuffer, Submit,
         SubmitFaults, GuestReset, ClientAct, Device, Refresh, Others, RawAccess, vars

\* The access helpers keep their invariant whatever else the machine does.
LEMMA AccessAlways == Spec => []AccessInv
<1>1. Init => AccessInv
  <2>1. ASSUME Init
        PROVE  AccessInv
    <3>1. MemBytes \in Nat /\ HostBytes \in Nat /\ 0 % 4 = 0
      BY VramAccessAssumption, SMT
    <3>2. /\ mem = [a \in 0 .. MemBytes - 1 |-> a]
          /\ host = [k \in 0 .. HostBytes - 1 |-> MemBytes + k]
          /\ call = NoCall
      BY <2>1 DEF Init, AccessInit
    <3>3. mem \in [0 .. MemBytes - 1 -> Nat] /\ host \in [0 .. HostBytes - 1 -> Nat]
      BY <3>1, <3>2, SMT
    <3>. QED BY <3>1, <3>2, <3>3, SMT DEF AccessInv, NoCall, Calls, CopyIsExact
  <2>. QED BY <2>1
<1>2. AccessInv /\ [Next]_vars => AccessInv'
  BY NextKeepsAccessInv
<1>. QED BY <1>1, <1>2, PTL DEF Spec

\* However it is cut, a copy is what it is at every moment.
THEOREM CopiesAreExact == Spec => []CopyIsExact
<1>1. AccessInv => CopyIsExact
  BY DEF AccessInv
<1>. QED BY <1>1, AccessAlways, PTL

-----------------------------------------------------------------------------
(***************************************************************************)
(* The screen.                                                             *)
(***************************************************************************)
ScreenInv ==
  /\ vram \in [0 .. VramWords - 1 -> Colours \cup Nat]
  /\ surface \in [ScreenPixels -> Colours \cup Nat]
  /\ refresh \in ScreenPixels \cup {NoRefresh}
  /\ FrameInBounds(file)
  /\ blt \in [words : Seq(0 .. FrameWords - 1), colour : Colours \cup {Blank}]

\* Products grow with their factors.
LEMMA ProductBelow ==
  ASSUME NEW w \in Nat, NEW h \in Nat, NEW W \in Nat, NEW H \in Nat,
         w >= 1, h >= 1, w <= W, h <= H
  PROVE  w * h \in Nat /\ w * h >= 1 /\ w * h <= W * H
<1>1. PICK p \in Nat, q \in Nat : W = w + p /\ H = h + q
  <2>1. W - w \in Nat /\ H - h \in Nat /\ W = w + (W - w) /\ H = h + (H - h)
    BY SMT
  <2>. QED BY <2>1
<1>2. /\ w * h \in Nat /\ p * h \in Nat /\ w * q \in Nat /\ p * q \in Nat
      /\ (w + p) * (h + q) = w * h + p * h + w * q + p * q
  BY <1>1, SMT
<1>3. w * h >= 1
  <2>1. w * h >= w
    BY AtLeastOne
  <2>. QED BY <1>2, <2>1, SMT
<1>. DEFINE a == w * h
            b == p * h
            c == w * q
            d == p * q
            e == W * H
<1>4. e = a + b + c + d /\ a \in Nat /\ b \in Nat /\ c \in Nat /\ d \in Nat
  BY <1>1, <1>2
<1>5. a <= e
  <2>. HIDE DEF a, b, c, d, e
  <2>. QED BY <1>4, SMT
<1>. QED BY <1>2, <1>3, <1>5

\* A place in rows of w words, of which there are h.
LEMMA RowsBelow ==
  ASSUME NEW w \in Nat, NEW h \in Nat, NEW x \in 0 .. w - 1, NEW y \in 0 .. h - 1
  PROVE  y * w + x \in 0 .. w * h - 1
<1>1. x \in Nat /\ y \in Nat /\ h - y \in Nat /\ h - y >= 1 /\ x <= w - 1
  BY SMT
<1>2. w * (h - y) >= w
  BY <1>1, AtLeastOne
<1>3. w * (h - y) = w * h - y * w
  BY <1>1, SMT
<1>4. w * h \in Nat /\ y * w \in Nat
  BY <1>1, SMT
<1>. QED BY <1>1, <1>2, <1>3, <1>4, SMT

\* A pixel of the screen lies in the frame.
LEMMA PixelInFrame ==
  ASSUME NEW x \in 0 .. FbWidth - 1, NEW y \in 0 .. FbHeight - 1
  PROVE  y * FbWidth + x \in 0 .. FrameWords - 1
BY Sizes, RowsBelow DEF FrameWords

\* So do the words of a rectangle that FrameBufferBlt accepts.
LEMMA FillInFrame ==
  ASSUME NEW rect, InFrame(rect)
  PROVE  WordsOf(rect) \in Seq(0 .. FrameWords - 1)
<1>. DEFINE w == rect.w
            h == rect.h
<1>1. /\ w \in Nat /\ w >= 1 /\ h \in Nat /\ h >= 1 /\ rect.x \in Nat /\ rect.y \in Nat
      /\ rect.x + w <= FbWidth /\ rect.y + h <= FbHeight
      /\ FbWidth \in Nat /\ FbHeight \in Nat /\ w * h \in Nat
  BY Sizes, SMT DEF InFrame
<1>2. ASSUME NEW k \in 1 .. w * h
      PROVE  (rect.y + (k - 1) \div w) * FbWidth + rect.x + ((k - 1) % w) \in 0 .. FrameWords - 1
  <2>. DEFINE q == (k - 1) \div w
              r == (k - 1) % w
  <2>1. /\ k - 1 \in Nat /\ k - 1 < w * h
        /\ q \in Nat /\ r \in 0 .. w - 1 /\ k - 1 = w * q + r
    BY <1>1, SMT
  <2>2. q < h
    <3>1. ASSUME ~(q < h)
          PROVE  FALSE
      <4>1. PICK m \in Nat : q = h + m
        <5>1. q \in Nat /\ h \in Nat
          BY <1>1, <2>1
        <5>. HIDE DEF q, h
        <5>2. q - h \in Nat /\ q = h + (q - h)
          BY <3>1, <5>1, SMT
        <5>. QED BY <5>2
      <4>2. w * (h + m) = w * h + w * m /\ w * m \in Nat
        BY <1>1, SMT
      <4>. HIDE DEF q, r, w, h
      <4>. QED BY <1>1, <2>1, <4>1, <4>2, SMT
    <3>. QED BY <3>1
  <2>3. rect.x + r \in 0 .. FbWidth - 1 /\ rect.y + q \in 0 .. FbHeight - 1
    <3>. HIDE DEF q, r, w, h
    <3>. QED BY <1>1, <2>1, <2>2, SMT
  <2>4. (rect.y + q) * FbWidth + (rect.x + r) \in 0 .. FrameWords - 1
    BY <2>3, PixelInFrame
  <2>5. (rect.y + q) * FbWidth + (rect.x + r) = (rect.y + q) * FbWidth + rect.x + r
    <3>1. (rect.y + q) * FbWidth \in Int /\ rect.x \in Int /\ r \in Int
      <4>1. rect.y \in Nat /\ q \in Nat /\ r \in Int /\ rect.x \in Int /\ FbWidth \in Nat
        BY <1>1, <2>1, SMT
      <4>. HIDE DEF q, r
      <4>. QED BY <4>1, SMT
    <3>. HIDE DEF q, r
    <3>. QED BY <3>1, SMT
  <2>. QED BY <2>4, <2>5
<1>. DEFINE f == [k \in 1 .. w * h |->
                   (rect.y + (k - 1) \div w) * FbWidth + rect.x + ((k - 1) % w)]
<1>3. f \in Seq(0 .. FrameWords - 1)
  <2>. HIDE DEF w, h
  <2>. QED BY <1>1, <1>2, IsASeq
<1>. QED BY <1>3 DEF WordsOf

\* The selected frame lies in VRAM.
LEMMA FrameAddresses ==
  ASSUME FileOK, FrameInBounds(file)
  PROVE  /\ file["fb"] \in Nat /\ Visible \in Nat /\ Visible >= 1 /\ Visible <= FrameWords
         /\ ScreenPixels = 0 .. FrameWords - 1
         /\ \A i \in ScreenPixels : file["fb"] + i \in 0 .. VramWords - 1
<1>1. file["fb"] \in Nat
  <2>1. "fb" \in Names
    BY DEF Names, RegisterAt
  <2>. QED BY <2>1, Words DEF FileOK
<1>2. FrameWords \in Nat /\ VramWords \in Nat
  BY Sizes
<1>3. Visible \in 1 .. FrameWords /\ file["fb"] + FrameWords <= VramWords
  <2>1. /\ file["width"] \in Nat /\ file["width"] >= 1 /\ file["width"] <= FbWidth
        /\ file["height"] \in Nat /\ file["height"] >= 1 /\ file["height"] <= FbHeight
    BY Sizes, SMT DEF FrameInBounds
  <2>2. Visible \in Nat /\ Visible >= 1 /\ Visible <= FrameWords
    BY <2>1, Sizes, ProductBelow DEF Visible, FrameWords
  <2>3. Visible \in 1 .. FrameWords
    <3>. DEFINE n == Visible
    <3>1. n \in Nat /\ n >= 1 /\ n <= FrameWords /\ FrameWords \in Nat
      BY <1>2, <2>2
    <3>. HIDE DEF n
    <3>2. n \in 1 .. FrameWords
      BY <3>1, SMT
    <3>. QED BY <3>2 DEF n
  <2>. QED BY <2>3 DEF FrameInBounds, FrameWords
<1>4. ScreenPixels = 0 .. FrameWords - 1
  BY DEF ScreenPixels, FrameWords
<1>. QED BY <1>1, <1>2, <1>3, <1>4, SMT

\* What a step may make of a word of VRAM.
Painted(a) ==
  \/ vram'[a] = vram[a]
  \/ vram'[a] \in Colours \cup {Blank} /\ a \in 0 .. FrameWords - 1
  \/ vram'[a] \in Colours /\ a - file["fb"] \in ScreenPixels
  \/ vram'[a] \in Nat /\ a - file["z"] \in ScreenPixels
  \/ vram'[a] \in Colours /\ StraysTo(a)

\* Where a pixel of the screen lies.
LEMMA PixelPlace ==
  ASSUME FileOK, NEW x \in 0 .. FbWidth - 1, NEW y \in 0 .. FbHeight - 1
  PROVE  PixelAt(x, y) - file["fb"] = y * FbWidth + x /\ PixelAt(x, y) - file["fb"] \in ScreenPixels
<1>. DEFINE p == y * FbWidth
<1>1. p + x \in 0 .. FrameWords - 1 /\ ScreenPixels = 0 .. FrameWords - 1
  BY PixelInFrame DEF ScreenPixels, FrameWords
<1>2. file["fb"] \in Nat /\ p \in Int /\ x \in Int
  <2>1. "fb" \in Names
    BY DEF Names, RegisterAt
  <2>2. p \in Int /\ x \in Int
    BY Sizes, SMT
  <2>. QED BY <2>1, <2>2, Words DEF FileOK
<1>3. PixelAt(x, y) = file["fb"] + p + x
  BY DEF PixelAt
<1>. HIDE DEF p
<1>4. PixelAt(x, y) - file["fb"] = p + x
  BY <1>2, <1>3, SMT
<1>. QED BY <1>1, <1>4 DEF p

\* Where a fragment's pixel and depth lie.
LEMMA FragmentPlaces ==
  ASSUME FileOK, FrameInBounds(file), NEW x \in 0 .. file["width"] - 1,
         NEW y \in 0 .. file["height"] - 1
  PROVE  /\ x \in 0 .. FbWidth - 1 /\ y \in 0 .. FbHeight - 1
         /\ PixelAt(x, y) - file["fb"] = y * FbWidth + x
         /\ PixelAt(x, y) - file["fb"] \in ScreenPixels
         /\ DepthAt(x, y) - file["z"] = y * file["width"] + x
         /\ DepthAt(x, y) - file["z"] \in 0 .. Visible - 1
         /\ DepthAt(x, y) - file["z"] \in ScreenPixels
<1>0. file["width"] \in 1 .. FbWidth /\ file["height"] \in 1 .. FbHeight
  BY DEF FrameInBounds
<1>1. /\ x \in 0 .. FbWidth - 1 /\ y \in 0 .. FbHeight - 1
      /\ file["width"] \in Nat /\ file["height"] \in Nat
  BY <1>0, Sizes, SMT
<1>. DEFINE p == y * file["width"]
            n == Visible
<1>2. p + x \in 0 .. n - 1
  BY <1>1, RowsBelow DEF Visible
<1>3. file["z"] \in Nat /\ p \in Int /\ x \in Int
  <2>1. "z" \in Names
    BY DEF Names, RegisterAt
  <2>2. p \in Int /\ x \in Int
    BY <1>1, Sizes, SMT
  <2>. QED BY <2>1, <2>2, Words DEF FileOK
<1>4. DepthAt(x, y) = file["z"] + p + x
  BY DEF DepthAt
<1>5. n \in Nat /\ n <= FrameWords /\ FrameWords \in Nat /\ ScreenPixels = 0 .. FrameWords - 1
  BY FrameAddresses, Sizes
<1>6. DepthAt(x, y) - file["z"] = p + x /\ p + x \in ScreenPixels
  <2>. HIDE DEF p, n
  <2>. QED BY <1>2, <1>3, <1>4, <1>5, SMT
<1>. QED BY <1>1, <1>2, <1>6, PixelPlace

\* Only the commands draw: into the frame and the z-buffer, unless they draw lines.
LEMMA DevicePaints ==
  ASSUME FileOK, BootInv, DrawInv, ScreenInv, DeviceStep
  PROVE  vram' = [a \in DOMAIN vram |-> vram'[a]] /\ \A a \in DOMAIN vram : Painted(a)
<1>0. /\ Visible \in Nat /\ Visible <= FrameWords /\ FrameWords \in Nat
      /\ ScreenPixels = 0 .. FrameWords - 1 /\ FrameInBounds(file)
  BY FrameAddresses, Sizes DEF ScreenInv
<1>1. CASE ExecuteClear
  <2>1. vram' = [a \in DOMAIN vram |-> ClearedWord(a, Visible)]
    BY <1>1 DEF ExecuteClear
  <2>2. \A k \in 0 .. Visible - 1 : k \in ScreenPixels
    <3>. DEFINE n == Visible
    <3>. HIDE DEF n
    <3>1. \A k \in 0 .. n - 1 : k \in ScreenPixels
      BY <1>0, SMT DEF n
    <3>. QED BY <3>1 DEF n
  <2>3. Black \in Colours /\ Far \in Nat
    BY DisplayAssumption, RasterAssumption
  <2>4. ASSUME NEW a \in DOMAIN vram
        PROVE  Painted(a)
    <3>1. vram'[a] = ClearedWord(a, Visible)
      BY <2>1
    <3>2. CASE ClearedWord(a, Visible) = Black /\ a - file["fb"] \in 0 .. Visible - 1
      BY <2>2, <2>3, <3>1, <3>2 DEF Painted
    <3>3. CASE ClearedWord(a, Visible) = Far /\ a - file["z"] \in 0 .. Visible - 1
      BY <2>2, <2>3, <3>1, <3>3 DEF Painted
    <3>4. CASE ClearedWord(a, Visible) = vram[a]
      BY <3>1, <3>4 DEF Painted
    <3>. QED BY <3>2, <3>3, <3>4 DEF ClearedWord
  <2>. QED BY <2>1, <2>4
<1>2. CASE LinePixel
  <2>1. /\ line \in LineRecords /\ LineInv(line) /\ line.drawing
        /\ vram' = [a \in DOMAIN vram |->
                      IF a = PixelAt(line.x, line.y) THEN line.colour ELSE vram[a]]
    BY <1>2 DEF LinePixel, DrawInv
  <2>2. line.colour \in Colours
    BY <2>1 DEF LineRecords
  <2>3. CASE LeavesScreen(line)
    BY <2>1, <2>2, <2>3 DEF Painted, StraysTo
  <2>4. CASE ~LeavesScreen(line)
    <3>1. line.x \in 0 .. FbWidth - 1 /\ line.y \in 0 .. FbHeight - 1
      BY <2>1, <2>4, LineOnScreen
    <3>2. PixelAt(line.x, line.y) - file["fb"] \in ScreenPixels
      BY <3>1, PixelPlace
    <3>. QED BY <2>1, <2>2, <3>2 DEF Painted
  <2>. QED BY <2>3, <2>4
<1>3. CASE DrawTriangle
  <2>. DEFINE t    == Head(draw.parts)
              pass == {p \in DOMAIN t.depth : OnScreen(p) /\ Nearer(t, p)}
  <2>1. vram' = [a \in DOMAIN vram |->
              IF \E p \in pass : a = PixelAt(p[1], p[2]) THEN t.colour
              ELSE IF \E p \in pass : a = DepthAt(p[1], p[2])
                THEN t.depth[CHOOSE p \in pass : a = DepthAt(p[1], p[2])]
              ELSE vram[a]]
    BY <1>3 DEF DrawTriangle
  <2>2. t \in Shapes
    BY <1>3, HeadTail DEF DrawTriangle, DrawInv
  <2>3. /\ t.colour \in Colours /\ DOMAIN t.depth \subseteq Int \X Int
        /\ \A p \in DOMAIN t.depth : t.depth[p] \in 0 .. Far - 1
    BY <2>2, RasterAssumption
  <2>. HIDE DEF t
  <2>4. ASSUME NEW p \in pass
        PROVE  /\ PixelAt(p[1], p[2]) - file["fb"] \in ScreenPixels
               /\ DepthAt(p[1], p[2]) - file["z"] \in ScreenPixels
               /\ t.depth[p] \in Nat
    <3>1. p[1] \in 0 .. file["width"] - 1 /\ p[2] \in 0 .. file["height"] - 1
      BY DEF OnScreen
    <3>2. t.depth[p] \in Nat
      BY <2>3, RasterAssumption, SMT
    <3>. QED BY <1>0, <3>1, <3>2, FragmentPlaces
  <2>. HIDE DEF pass
  <2>5. ASSUME NEW a \in DOMAIN vram
        PROVE  Painted(a)
    <3>1. CASE \E p \in pass : a = PixelAt(p[1], p[2])
      BY <2>1, <2>3, <2>4, <3>1 DEF Painted
    <3>2. CASE /\ ~(\E p \in pass : a = PixelAt(p[1], p[2]))
               /\ \E p \in pass : a = DepthAt(p[1], p[2])
      <4>. DEFINE P(p) == a = DepthAt(p[1], p[2])
                  c == CHOOSE p \in pass : P(p)
      <4>1. c \in pass /\ P(c)
        BY <3>2, Zenon
      <4>2. vram'[a] = t.depth[c]
        BY <2>1, <3>2
      <4>. QED BY <2>4, <4>1, <4>2 DEF Painted
    <3>3. CASE /\ ~(\E p \in pass : a = PixelAt(p[1], p[2]))
               /\ ~(\E p \in pass : a = DepthAt(p[1], p[2]))
      BY <2>1, <3>3 DEF Painted
    <3>. QED BY <3>1, <3>2, <3>3
  <2>. QED BY <2>1, <2>5
<1>4. CASE UNCHANGED vram
  BY <1>4 DEF Painted, ScreenInv
<1>5. CASE BeginDraw
  <2>. DEFINE c == Head(todo)
  <2>1. CASE c.op = "lines"
    <3>1. /\ Trapped /\ ~draw.on
          /\ vram' = [a \in DOMAIN vram |-> IF a \in c.vertices THEN c.shade ELSE vram[a]]
      BY <1>5, <2>1 DEF BeginDraw, ShadeVertices
    <3>2. c.shade \in Colours
      BY <2>1, <3>1, HeadTail, CommandParts DEF DrawInv, Trapped
    <3>. QED BY <2>1, <3>1, <3>2 DEF Painted, StraysTo
  <2>2. CASE c.op # "lines"
    BY <1>4, <1>5, <2>2 DEF BeginDraw, ShadeVertices
  <2>. QED BY <2>1, <2>2
<1>. QED BY <1>1, <1>2, <1>3, <1>4, <1>5
     DEF DeviceStep, ExecuteNoop, DropDraw, BeginLine, EndDraw, displayVars

\* Besides the device only a fill writes to VRAM.
LEMMA NextPaints ==
  ASSUME FileOK, BootInv, DrawInv, ScreenInv, [Next]_vars
  PROVE  vram' = [a \in DOMAIN vram |-> vram'[a]] /\ \A a \in DOMAIN vram : Painted(a)
<1>1. CASE Device
  BY <1>1, DevicePaints DEF Device
<1>2. CASE StoreFillWord
  <2>1. /\ blt.words # <<>> /\ blt.words \in Seq(0 .. FrameWords - 1)
        /\ blt.colour \in Colours \cup {Blank}
        /\ vram' = [vram EXCEPT ![Head(blt.words)] = blt.colour]
    BY <1>2 DEF StoreFillWord, FillWord, ScreenInv
  <2>2. Head(blt.words) \in 0 .. FrameWords - 1
    BY <2>1, HeadTail
  <2>. QED BY <2>1, <2>2 DEF Painted, ScreenInv
<1>3. CASE UNCHANGED vram
  BY <1>3 DEF Painted, ScreenInv
<1>4. Boot => UNCHANGED vram
  BY DEF Boot, StartStep, BeginStart, CallSucceeds, CallFails, OpenPciIo, InitAllocator,
         InitAllocatorFails, AllocateFrame, AllocateDepth, WriteDepthRegister,
         BeginGopSetup, GopSetupWithoutBuffer, EndGopSetup, AllocateRing, InitRingRegister,
         AllocateBatch, BatchFails, PublishGop, PublishGopFails, PublishGop3d, displayVars
<1>5. Client \/ Refresh \/ Others \/ UNCHANGED vars => UNCHANGED vram
  BY DEF Client, ConsoleFill, GpuSetMode, TransferBuffer, Submit, SubmitFaults, GuestReset,
         Refresh, BeginRefresh, RefreshPixel, Others, RawAccess, VramCall, VramStep, vars, displayVars
<1>. QED BY <1>1, <1>2, <1>3, <1>4, <1>5 DEF Next

\* What a refresh copies.
LEMMA RefreshKeepsScreen ==
  ASSUME FileOK, ScreenInv, BeginRefresh \/ RefreshPixel
  PROVE  /\ surface' \in [ScreenPixels -> Colours \cup Nat]
         /\ refresh' \in ScreenPixels \cup {NoRefresh}
<1>1. /\ ScreenPixels = 0 .. FrameWords - 1 /\ Visible <= FrameWords /\ Visible \in Nat
      /\ FrameWords \in Nat /\ FrameWords >= 1
      /\ \A i \in ScreenPixels : file["fb"] + i \in 0 .. VramWords - 1
  BY FrameAddresses, Sizes DEF ScreenInv
<1>2. CASE BeginRefresh
  BY <1>1, <1>2, SMT DEF BeginRefresh, ScreenInv
<1>3. CASE RefreshPixel
  <2>1. /\ refresh \in ScreenPixels
        /\ surface' = [surface EXCEPT ![refresh] = vram[file["fb"] + refresh]]
        /\ refresh' = IF refresh + 1 < Visible THEN refresh + 1 ELSE NoRefresh
    BY <1>3 DEF RefreshPixel, ScreenInv
  <2>2. vram[file["fb"] + refresh] \in Colours \cup Nat
    BY <1>1, <2>1 DEF ScreenInv
  <2>3. refresh + 1 < Visible => refresh + 1 \in ScreenPixels
    BY <1>1, <2>1, SMT
  <2>. QED BY <2>1, <2>2, <2>3 DEF ScreenInv
<1>. QED BY <1>2, <1>3

\* The device shows the whole frame when it ends a draw.
LEMMA DeviceShows ==
  ASSUME FileOK, ScreenInv, DeviceStep
  PROVE  surface' \in [ScreenPixels -> Colours \cup Nat] /\ UNCHANGED <<refresh, blt>>
<1>1. CASE EndDraw
  <2>1. surface' = [i \in ScreenPixels |-> IF i < Visible THEN Frame[i] ELSE surface[i]]
    BY <1>1 DEF EndDraw, ShowFrame
  <2>2. \A i \in ScreenPixels : Frame[i] \in Colours \cup Nat
    BY FrameAddresses DEF Frame, ScreenInv
  <2>. QED BY <1>1, <2>1, <2>2 DEF EndDraw, ScreenInv
<1>2. CASE UNCHANGED <<surface, refresh, blt>>
  BY <1>2 DEF ScreenInv
<1>. QED BY <1>1, <1>2
     DEF DeviceStep, ExecuteClear, ExecuteNoop, BeginDraw, DropDraw, BeginLine, LinePixel,
         DrawTriangle, displayVars

\* GopSetup's fill is one that FrameBufferBlt accepts.
LEMMA WholeInFrame == InFrame(Whole)
BY Sizes, SMT DEF InFrame, Whole

\* Steps of Start and of the guest leave a fill at most.
LEMMA NextKeepsBlt ==
  ASSUME ScreenInv, [Next]_vars
  PROVE  blt' \in [words : Seq(0 .. FrameWords - 1), colour : Colours \cup {Blank}]
<1>0. blt \in [words : Seq(0 .. FrameWords - 1), colour : Colours \cup {Blank}]
  BY DEF ScreenInv
<1>1. ASSUME NEW rect, NEW colour \in Colours \cup {Blank}, InFrame(rect), Fill(rect, colour)
      PROVE  blt' \in [words : Seq(0 .. FrameWords - 1), colour : Colours \cup {Blank}]
  BY <1>1, FillInFrame DEF Fill
<1>2. CASE Boot
  <2>1. CASE BeginGopSetup
    BY <1>1, <2>1, WholeInFrame DEF BeginGopSetup
  <2>2. Boot => BeginGopSetup \/ UNCHANGED blt
    BY DEF Boot, StartStep, BeginStart, CallSucceeds, CallFails, OpenPciIo, InitAllocator,
           InitAllocatorFails, AllocateFrame, AllocateDepth, WriteDepthRegister,
           GopSetupWithoutBuffer, EndGopSetup, AllocateRing, InitRingRegister, AllocateBatch,
           BatchFails, PublishGop, PublishGopFails, PublishGop3d, displayVars
  <2>. QED BY <1>0, <1>2, <2>1, <2>2
<1>3. ASSUME NEW f \in Fills, ConsoleFill(f.rect, f.colour)
      PROVE  blt' \in [words : Seq(0 .. FrameWords - 1), colour : Colours \cup {Blank}]
  BY <1>1, <1>3, AdapterAssumption DEF ConsoleFill
<1>4. CASE StoreFillWord
  <2>1. Tail(blt.words) \in Seq(0 .. FrameWords - 1)
    BY <1>0, <1>4, HeadTail DEF StoreFillWord, FillWord
  <2>2. blt' = [blt EXCEPT !.words = Tail(blt.words)]
    BY <1>4 DEF StoreFillWord, FillWord
  <2>. QED BY <1>0, <2>1, <2>2
<1>5. CASE GuestReset
  <2>1. <<>> \in Seq(0 .. FrameWords - 1)
    BY EmptySeq
  <2>. QED BY <1>5, <2>1 DEF GuestReset, NoBlt
<1>6. CASE UNCHANGED blt
  BY <1>0, <1>6
<1>7. Device => UNCHANGED blt
  BY DEF Device, DeviceStep, ExecuteClear, ExecuteNoop, BeginDraw, DropDraw, BeginLine, LinePixel,
         DrawTriangle, EndDraw, displayVars
<1>8. \/ TransferBuffer \/ SubmitFaults \/ Refresh \/ Others \/ UNCHANGED vars
      \/ \E mode \in {ModeGop, Mode3d, ModeIdle} : GpuSetMode(mode)
      \/ \E frame \in Frames : Submit(frame)
      => UNCHANGED blt
  BY DEF GpuSetMode, TransferBuffer, Submit, SubmitFaults, Refresh,
         BeginRefresh, RefreshPixel, Others, RawAccess, VramCall, VramStep, vars, displayVars
<1>. QED BY <1>2, <1>3, <1>4, <1>5, <1>6, <1>7, <1>8 DEF Next, Client

\* No step takes the frame out of VRAM or a fill out of the frame.
LEMMA NextKeepsScreenInv ==
  ASSUME FileOK, BootInv, DrawInv, ScreenInv, [Next]_vars
  PROVE  ScreenInv'
<1>1. vram' \in [0 .. VramWords - 1 -> Colours \cup Nat]
  <2>1. /\ vram' = [a \in 0 .. VramWords - 1 |-> vram'[a]]
        /\ \A a \in 0 .. VramWords - 1 : Painted(a) /\ vram[a] \in Colours \cup Nat
    BY NextPaints DEF ScreenInv
  <2>2. \A a \in 0 .. VramWords - 1 : vram'[a] \in Colours \cup Nat
    BY <2>1, SMT DEF Painted, Blank
  <2>. QED BY <2>1, <2>2
<1>2. /\ surface' \in [ScreenPixels -> Colours \cup Nat]
      /\ refresh' \in ScreenPixels \cup {NoRefresh}
  <2>1. CASE Device
    BY <2>1, DeviceShows DEF Device, ScreenInv
  <2>2. CASE Refresh
    BY <2>2, RefreshKeepsScreen DEF Refresh
  <2>3. CASE UNCHANGED <<surface, refresh>>
    BY <2>3 DEF ScreenInv
  <2>4. Boot => UNCHANGED <<surface, refresh>>
    BY DEF Boot, StartStep, BeginStart, CallSucceeds, CallFails, OpenPciIo, InitAllocator,
           InitAllocatorFails, AllocateFrame, AllocateDepth, WriteDepthRegister, BeginGopSetup,
           GopSetupWithoutBuffer, EndGopSetup, AllocateRing, InitRingRegister, AllocateBatch,
           BatchFails, PublishGop, PublishGopFails, PublishGop3d, displayVars
  <2>5. StoreFillWord \/ Client \/ Others \/ UNCHANGED vars => UNCHANGED <<surface, refresh>>
    BY DEF StoreFillWord, FillWord, Client, ConsoleFill, GpuSetMode, TransferBuffer, Submit,
           SubmitFaults, GuestReset, Others, RawAccess, VramCall, VramStep, vars, displayVars
  <2>. QED BY <2>1, <2>2, <2>3, <2>4, <2>5 DEF Next
<1>3. FrameInBounds(file')
  BY NextKeepsBootInv DEF BootInv, StageInv
<1>4. blt' \in [words : Seq(0 .. FrameWords - 1), colour : Colours \cup {Blank}]
  BY NextKeepsBlt
<1>. QED BY <1>1, <1>2, <1>3, <1>4 DEF ScreenInv, ScreenPixels

MachineInv == FileOK /\ BootInv /\ DrawInv /\ ScreenInv

\* The four parts hold in every run.
LEMMA MachineAlways == Spec => []MachineInv
<1>1. Init => DrawInv
  <2>1. <<>> \in Seq(Commands) /\ <<>> \in Seq(Edges)
    BY EmptySeq
  <2>. QED BY <2>1 DEF Init, RasterInit, NoDraw, NoLine, DrawInv
<1>2. Init => ScreenInv
  <2>1. ASSUME Init
        PROVE  ScreenInv
    <3>1. FrameInBounds(file)
      BY <2>1, Boots DEF BootInv, StageInv
    <3>2. <<>> \in Seq(0 .. FrameWords - 1)
      BY EmptySeq
    <3>3. Blank \in Nat
      BY DEF Blank
    <3>. QED BY <2>1, <3>1, <3>2, <3>3 DEF Init, DisplayInit, NoBlt, ScreenInv
  <2>. QED BY <2>1
<1>3. MachineInv /\ [Next]_vars => MachineInv'
  BY NextKeepsBootInv, RegisterStepImplements, NextKeepsDrawInv, NextKeepsScreenInv DEF MachineInv
<1>4. Init => MachineInv
  BY <1>1, <1>2, Boots DEF MachineInv
<1>. QED BY <1>3, <1>4, PTL DEF Spec

\* Every line that is being drawn is on its course.
THEOREM LinesStayOnCourse == Spec => []LineOnCourse
<1>1. MachineInv => LineOnCourse
  BY DEF MachineInv, DrawInv, LineInv, OnCourse, Off, LineOnCourse
<1>. QED BY <1>1, MachineAlways, PTL

\* Whatever is stored to VRAM is a colour of the frame that GOP fills or that
\* is selected, a depth of the z-buffer, or what a draw of lines lets stray.
THEOREM DrawingStaysInPlace == Spec => WritesStayInPlace
<1>1. MachineInv /\ [Next]_vars =>
        \A a \in DOMAIN vram :
          \/ vram'[a] = vram[a]
          \/ vram'[a] \in Colours \cup {Blank} /\ a \in 0 .. FrameWords - 1
          \/ vram'[a] \in Colours /\ a - file["fb"] \in ScreenPixels
          \/ vram'[a] \in Nat /\ a - file["z"] \in ScreenPixels
          \/ vram'[a] \in Colours /\ StraysTo(a)
  BY NextPaints DEF MachineInv, Painted
<1>. QED BY <1>1, MachineAlways, PTL DEF Spec, WritesStayInPlace

-----------------------------------------------------------------------------
(***************************************************************************)
(* The picture.                                                            *)
(***************************************************************************)
Cover(parts, p) == {k \in DOMAIN parts : p \in DOMAIN parts[k].depth}

\* The depth buffer knows what the frame shows: of the triangles that cover p
\* the nearest, and the first of those.  Where there is none the frame is black
\* if the clearing has come to p.
NearestAt(parts, p, colour, depth, came) ==
  IF Cover(parts, p) = {}
    THEN (came => colour = Black) /\ depth = Far
    ELSE \E k \in Cover(parts, p) :
           /\ colour = parts[k].colour /\ depth = parts[k].depth[p]
           /\ \A j \in Cover(parts, p) :
                /\ parts[k].depth[p] <= parts[j].depth[p]
                /\ j < k => parts[k].depth[p] < parts[j].depth[p]

\* One more triangle, drawn where it is nearer than what is there.
LEMMA OneTriangleMore ==
  ASSUME NEW parts \in Seq(Shapes), NEW t \in Shapes, NEW p,
         NEW c, NEW d, NEW c2, NEW d2, NEW came, NearestAt(parts, p, c, d, came),
         IF p \in DOMAIN t.depth /\ t.depth[p] < d
           THEN c2 = t.colour /\ d2 = t.depth[p] ELSE c2 = c /\ d2 = d
  PROVE  NearestAt(Append(parts, t), p, c2, d2, came)
<1>. DEFINE n == Len(parts)
            q == Append(parts, t)
            by(k) == parts[k].depth[p]
<1>1. /\ n \in Nat /\ DOMAIN parts = 1 .. n /\ DOMAIN q = 1 .. n + 1
      /\ \A k \in 1 .. n : q[k] = parts[k] /\ parts[k] \in Shapes
      /\ q[n + 1] = t
  BY AppendProperties
<1>2. \A k \in Cover(parts, p) : k \in 1 .. n /\ by(k) \in Nat /\ by(k) < Far
  BY <1>1, RasterAssumption, SMT DEF Cover
<1>3. p \in DOMAIN t.depth => t.depth[p] \in Nat /\ t.depth[p] < Far
  BY RasterAssumption, SMT
<1>4. Cover(q, p) = Cover(parts, p) \cup (IF p \in DOMAIN t.depth THEN {n + 1} ELSE {})
  <2>1. \A k \in 1 .. n + 1 : k \in 1 .. n \/ k = n + 1
    BY <1>1, SMT
  <2>2. \A k \in 1 .. n : k \in 1 .. n + 1 /\ k # n + 1
    BY <1>1, SMT
  <2>3. n + 1 \in 1 .. n + 1
    BY <1>1, SMT
  <2>. HIDE DEF q, n
  <2>. QED BY <1>1, <2>1, <2>2, <2>3 DEF Cover
<1>. SUFFICES NearestAt(q, p, c2, d2, came)
  OBVIOUS
<1>. HIDE DEF q
<1>5. CASE p \in DOMAIN t.depth /\ t.depth[p] < d
  <2>1. \A j \in Cover(parts, p) : t.depth[p] < by(j) /\ j # n + 1 /\ q[j] = parts[j]
    <3>1. ASSUME NEW j \in Cover(parts, p)
          PROVE  t.depth[p] < by(j) /\ j # n + 1 /\ q[j] = parts[j]
      <4>1. PICK k \in Cover(parts, p) : d = by(k) /\ by(k) <= by(j)
        BY <3>1 DEF NearestAt
      <4>2. by(k) \in Nat /\ by(j) \in Nat /\ j \in 1 .. n /\ t.depth[p] \in Nat
        BY <1>2, <1>3, <1>5, <3>1, <4>1
      <4>3. j # n + 1
        BY <1>1, <4>2, SMT
      <4>. HIDE DEF n, by
      <4>. QED BY <1>1, <1>5, <4>1, <4>2, <4>3, SMT
    <3>. QED BY <3>1
  <2>2. Cover(q, p) = Cover(parts, p) \cup {n + 1}
    BY <1>4, <1>5
  <2>3. q[n + 1].colour = c2 /\ q[n + 1].depth[p] = d2 /\ q[n + 1].depth[p] = t.depth[p]
    BY <1>1, <1>5
  <2>4. \A j \in Cover(q, p) :
          /\ q[n + 1].depth[p] <= q[j].depth[p]
          /\ j < n + 1 => q[n + 1].depth[p] < q[j].depth[p]
    <3>1. ASSUME NEW j \in Cover(parts, p)
          PROVE  q[n + 1].depth[p] <= q[j].depth[p] /\ q[n + 1].depth[p] < q[j].depth[p]
      <4>1. by(j) \in Nat /\ t.depth[p] \in Nat /\ t.depth[p] < by(j) /\ q[j].depth[p] = by(j)
        BY <1>2, <1>3, <1>5, <2>1, <3>1
      <4>. HIDE DEF by
      <4>. QED BY <2>3, <4>1, SMT
    <3>2. q[n + 1].depth[p] <= q[n + 1].depth[p] /\ ~(n + 1 < n + 1)
      BY <1>1, <1>3, <1>5, <2>3, SMT
    <3>. QED BY <2>2, <3>1, <3>2
  <2>. QED BY <2>2, <2>3, <2>4 DEF NearestAt
<1>6. CASE ~(p \in DOMAIN t.depth /\ t.depth[p] < d)
  <2>0. c2 = c /\ d2 = d
    BY <1>6
  <2>1. CASE Cover(parts, p) = {}
    <3>1. (came => c = Black) /\ d = Far
      BY <2>1 DEF NearestAt
    <3>2. p \notin DOMAIN t.depth
      BY <1>3, <1>6, <3>1
    <3>. QED BY <1>4, <2>0, <2>1, <3>1, <3>2 DEF NearestAt
  <2>2. CASE Cover(parts, p) # {}
    <3>1. PICK k \in Cover(parts, p) :
            /\ c = parts[k].colour /\ d = by(k)
            /\ \A j \in Cover(parts, p) : by(k) <= by(j) /\ (j < k => by(k) < by(j))
      BY <2>2 DEF NearestAt
    <3>2. q[k] = parts[k] /\ k \in Cover(q, p) /\ by(k) \in Nat /\ k \in 1 .. n
      BY <1>1, <1>2, <1>4, <3>1
    <3>3. ASSUME NEW j \in Cover(q, p)
          PROVE  q[k].depth[p] <= q[j].depth[p] /\ (j < k => q[k].depth[p] < q[j].depth[p])
      <4>1. CASE j \in Cover(parts, p)
        BY <1>1, <1>2, <3>1, <3>2, <4>1
      <4>2. CASE j = n + 1 /\ p \in DOMAIN t.depth
        <5>1. ~(n + 1 < k)
          BY <1>1, <3>2, SMT
        <5>2. by(k) <= t.depth[p]
          <6>1. t.depth[p] \in Nat /\ ~(t.depth[p] < by(k)) /\ by(k) \in Nat
            BY <1>3, <1>6, <3>1, <3>2, <4>2
          <6>. HIDE DEF by
          <6>. QED BY <6>1, SMT
        <5>. QED BY <1>1, <3>2, <4>2, <5>1, <5>2
      <4>. QED BY <1>4, <3>3, <4>1, <4>2
    <3>. QED BY <2>0, <2>2, <3>1, <3>2, <3>3 DEF NearestAt
  <2>. QED BY <2>1, <2>2
<1>. QED BY <1>5, <1>6

\* The depth of a word that holds one, and that a scene of triangles leaves
\* depths in the z-buffer.
LEMMA DepthsAreNumbers ==
  /\ \A d \in Nat : DepthOf(d) = d
  /\ \A parts \in Seq(Shapes) : \A p, c, d, came :
       NearestAt(parts, p, c, d, came) => d \in Nat
<1>1. \A d \in Nat : DepthOf(d) = d
  BY DisplayAssumption DEF DepthOf
<1>2. ASSUME NEW parts \in Seq(Shapes), NEW p, NEW c, NEW d, NEW came,
             NearestAt(parts, p, c, d, came)
      PROVE  d \in Nat
  <2>1. \A k \in Cover(parts, p) : parts[k].depth[p] \in Nat
    <3>1. ASSUME NEW k \in Cover(parts, p)
          PROVE  parts[k].depth[p] \in Nat
      <4>1. Len(parts) \in Nat /\ DOMAIN parts = 1 .. Len(parts)
        BY LenProperties
      <4>2. k \in 1 .. Len(parts) /\ p \in DOMAIN parts[k].depth
        BY <4>1 DEF Cover
      <4>3. parts[k] \in Shapes
        BY <4>2, ElementOfSeq
      <4>4. parts[k].depth[p] \in 0 .. Far - 1
        BY <4>2, <4>3, RasterAssumption
      <4>. QED BY <4>4, RasterAssumption, SMT
    <3>. QED BY <3>1
  <2>. QED BY <1>2, <2>1, RasterAssumption DEF NearestAt
<1>. QED BY <1>1, <1>2

\* The places of two pixels of the frame, and of their depths, differ.
LEMMA PixelsApart ==
  ASSUME FileOK, BootInv, Apart, phase = "clients", published # {},
         NEW x \in 0 .. file["width"] - 1, NEW y \in 0 .. file["height"] - 1,
         NEW u \in 0 .. file["width"] - 1, NEW v \in 0 .. file["height"] - 1
  PROVE  /\ PixelAt(x, y) = PixelAt(u, v) => x = u /\ y = v
         /\ DepthAt(x, y) = DepthAt(u, v) => x = u /\ y = v
         /\ PixelAt(x, y) # DepthAt(u, v)
         /\ PixelAt(x, y) \in 0 .. VramWords - 1 /\ DepthAt(x, y) \in 0 .. VramWords - 1
<1>. DEFINE a == PixelAt(x, y)
            b == PixelAt(u, v)
            c == DepthAt(x, y)
            d == DepthAt(u, v)
            f == file["fb"]
            z == file["z"]
<1>0. FrameInBounds(file) /\ z = FrameWords
  BY DEF BootInv, StageInv
<1>1. /\ a - f = y * FbWidth + x /\ b - f = v * FbWidth + u
      /\ c - z = y * file["width"] + x /\ d - z = v * file["width"] + u
      /\ a - f \in ScreenPixels /\ b - f \in ScreenPixels
      /\ c - z \in ScreenPixels /\ d - z \in ScreenPixels
      /\ x \in 0 .. FbWidth - 1 /\ u \in 0 .. FbWidth - 1
  BY <1>0, FragmentPlaces
<1>2. /\ FrameWords \in Nat /\ VramWords \in Nat /\ 2 * FrameWords < VramWords
      /\ f + FrameWords <= VramWords /\ ScreenPixels = 0 .. FrameWords - 1
      /\ f + FrameWords <= z \/ z + FrameWords <= f
  BY <1>0, Sizes DEF FrameInBounds, Apart, FrameWords, ScreenPixels
<1>3. /\ file["width"] \in Nat /\ FbWidth \in Nat /\ x \in Int /\ y \in Int /\ u \in Int /\ v \in Int
  <2>1. file["width"] \in 1 .. FbWidth /\ file["height"] \in 1 .. FbHeight
    BY <1>0 DEF FrameInBounds
  <2>. QED BY <2>1, Sizes, SMT
<1>4. f \in Nat /\ z \in Nat /\ a \in Int /\ b \in Int /\ c \in Int /\ d \in Int
  <2>1. {"fb", "z"} \subseteq Names
    BY DEF Names, RegisterAt
  <2>2. f \in Nat /\ z \in Nat
    BY <2>1, Words DEF FileOK
  <2>. QED BY <1>3, <2>2, SMT DEF PixelAt, DepthAt
<1>5. a - f = b - f => x = u /\ y = v
  <2>1. (y * FbWidth + x) \div FbWidth = y /\ (y * FbWidth + x) % FbWidth = x
    BY <1>1, <1>3, DivisionUnique
  <2>2. (v * FbWidth + u) \div FbWidth = v /\ (v * FbWidth + u) % FbWidth = u
    BY <1>1, <1>3, DivisionUnique
  <2>. QED BY <1>1, <2>1, <2>2
<1>6. c - z = d - z => x = u /\ y = v
  <2>. DEFINE w == file["width"]
  <2>1. (y * w + x) \div w = y /\ (y * w + x) % w = x
    BY <1>3, DivisionUnique
  <2>2. (v * w + u) \div w = v /\ (v * w + u) % w = u
    BY <1>3, DivisionUnique
  <2>. QED BY <1>1, <2>1, <2>2
<1>7. /\ a - f \in 0 .. FrameWords - 1 /\ d - z \in 0 .. FrameWords - 1
      /\ c - z \in 0 .. FrameWords - 1
  BY <1>1, <1>2
<1>. HIDE DEF a, b, c, d, f, z
<1>8. a # d /\ a \in 0 .. VramWords - 1 /\ c \in 0 .. VramWords - 1
  BY <1>0, <1>2, <1>4, <1>7, SMT
<1>. QED BY <1>5, <1>6, <1>8 DEF a, b, c, d, f, z

\* The fragments that a triangle draws, and what it makes of VRAM.
Passing(t) == {p \in DOMAIN t.depth : OnScreen(p) /\ Nearer(t, p)}

Drawn(t) ==
  [a \in DOMAIN vram |->
     IF \E p \in Passing(t) : a = PixelAt(p[1], p[2]) THEN t.colour
     ELSE IF \E p \in Passing(t) : a = DepthAt(p[1], p[2])
       THEN t.depth[CHOOSE p \in Passing(t) : a = DepthAt(p[1], p[2])]
     ELSE vram[a]]

\* What it makes of one pixel.
LEMMA TrianglePixel ==
  ASSUME FileOK, BootInv, ScreenInv, Apart, phase = "clients", published # {},
         NEW t \in Shapes, vram' = Drawn(t),
         NEW x \in 0 .. file["width"] - 1, NEW y \in 0 .. file["height"] - 1
  PROVE  IF <<x, y>> \in DOMAIN t.depth /\ t.depth[<<x, y>>] < DepthOf(vram[DepthAt(x, y)])
           THEN /\ vram'[PixelAt(x, y)] = t.colour
                /\ vram'[DepthAt(x, y)] = t.depth[<<x, y>>]
           ELSE /\ vram'[PixelAt(x, y)] = vram[PixelAt(x, y)]
                /\ vram'[DepthAt(x, y)] = vram[DepthAt(x, y)]
<1>. DEFINE here == <<x, y>>
            P(p) == DepthAt(x, y) = DepthAt(p[1], p[2])
            pass == Passing(t)
<1>2. PixelAt(x, y) \in DOMAIN vram /\ DepthAt(x, y) \in DOMAIN vram
  BY PixelsApart DEF ScreenInv
<1>3. \A p \in pass : /\ p \in Int \X Int /\ p[1] \in Int /\ p[2] \in Int /\ p = <<p[1], p[2]>>
                      /\ p[1] \in 0 .. file["width"] - 1 /\ p[2] \in 0 .. file["height"] - 1
  BY RasterAssumption DEF OnScreen, Passing
<1>4. here \in pass <=> here \in DOMAIN t.depth /\ t.depth[here] < DepthOf(vram[DepthAt(x, y)])
  BY DEF OnScreen, Nearer, Passing
<1>5. \A p \in pass : /\ PixelAt(x, y) = PixelAt(p[1], p[2]) => p = here
                      /\ DepthAt(x, y) = DepthAt(p[1], p[2]) => p = here
                      /\ PixelAt(x, y) # DepthAt(p[1], p[2])
                      /\ DepthAt(x, y) # PixelAt(p[1], p[2])
  <2>1. ASSUME NEW p \in pass
        PROVE  /\ PixelAt(x, y) = PixelAt(p[1], p[2]) => p = here
               /\ DepthAt(x, y) = DepthAt(p[1], p[2]) => p = here
               /\ PixelAt(x, y) # DepthAt(p[1], p[2])
               /\ DepthAt(x, y) # PixelAt(p[1], p[2])
    <3>1. PICK u \in Int, v \in Int :
            /\ p = <<u, v>> /\ p[1] = u /\ p[2] = v
            /\ u \in 0 .. file["width"] - 1 /\ v \in 0 .. file["height"] - 1
      BY <1>3
    <3>2. /\ PixelAt(x, y) = PixelAt(u, v) => x = u /\ y = v
          /\ DepthAt(x, y) = DepthAt(u, v) => x = u /\ y = v
          /\ PixelAt(x, y) # DepthAt(u, v)
      BY <3>1, PixelsApart
    <3>3. PixelAt(u, v) # DepthAt(x, y)
      BY <3>1, PixelsApart
    <3>. QED BY <3>1, <3>2, <3>3
  <2>. QED BY <2>1
<1>6. here \in pass => P(here)
  OBVIOUS
<1>9. vram' = [a \in DOMAIN vram |->
              IF \E p \in pass : a = PixelAt(p[1], p[2]) THEN t.colour
              ELSE IF \E p \in pass : a = DepthAt(p[1], p[2])
                THEN t.depth[CHOOSE p \in pass : a = DepthAt(p[1], p[2])]
              ELSE vram[a]]
  BY DEF Drawn
<1>. HIDE DEF pass
<1>7. CASE here \in pass
  <2>1. (CHOOSE p \in pass : P(p)) = here
    <3>1. \A p \in pass : P(p) => p = here
      BY <1>5
    <3>. HIDE DEF here, P
    <3>. QED BY <1>6, <1>7, <3>1, Zenon
  <2>2. here[1] = x /\ here[2] = y
    OBVIOUS
  <2>3. vram'[PixelAt(x, y)] = t.colour
    BY <1>2, <1>7, <1>9, <2>2
  <2>4. vram'[DepthAt(x, y)] = t.depth[CHOOSE p \in pass : P(p)]
    BY <1>2, <1>5, <1>6, <1>7, <1>9
  <2>. QED BY <1>4, <1>7, <2>1, <2>3, <2>4
<1>8. CASE here \notin pass
  <2>1. /\ ~(\E p \in pass : PixelAt(x, y) = PixelAt(p[1], p[2]))
        /\ ~(\E p \in pass : PixelAt(x, y) = DepthAt(p[1], p[2]))
        /\ ~(\E p \in pass : DepthAt(x, y) = PixelAt(p[1], p[2]))
        /\ ~(\E p \in pass : DepthAt(x, y) = DepthAt(p[1], p[2]))
    BY <1>5, <1>8
  <2>. QED BY <1>2, <1>4, <1>8, <1>9, <2>1
<1>. QED BY <1>7, <1>8

PixelsNearest ==
  \A x \in 0 .. file["width"] - 1, y \in 0 .. file["height"] - 1 :
    NearestAt(scene.parts, <<x, y>>, vram[PixelAt(x, y)], vram[DepthAt(x, y)],
              y * FbWidth + x < Visible)

\* No scene is there, and none begins.
NoPicture == ~scene.cleared /\ scene.parts = <<>> /\ ~Trapped

SceneInv ==
  /\ scene \in [cleared : BOOLEAN, parts : Seq(Edges \cup Shapes)]
  /\ acts \in Nat
  /\ ~NoPicture => published # {} /\ phase = "clients" /\ blt.words = <<>> /\ acts # 0
  /\ scene.parts # <<>> /\ ~draw.on => Shown
  /\ draw.on /\ Head(todo).op = "lines" => ~scene.cleared
  /\ scene.cleared => scene.parts \in Seq(Shapes)
  /\ scene.cleared /\ Apart => PixelsNearest

\* One more primitive of the scene.
LEMMA OnePartMore ==
  ASSUME NEW S, scene \in [cleared : BOOLEAN, parts : Seq(Edges \cup Shapes)],
         scene.parts \in Seq(S), NEW part \in S,
         scene' = [scene EXCEPT !.parts = Append(@, part)]
  PROVE  /\ scene'.cleared = scene.cleared
         /\ scene'.parts = Append(scene.parts, part) /\ scene'.parts \in Seq(S)
         /\ S = Edges \cup Shapes =>
              scene' \in [cleared : BOOLEAN, parts : Seq(Edges \cup Shapes)]
<1>. DEFINE q == Append(scene.parts, part)
<1>1. q \in Seq(S)
  BY AppendProperties
<1>2. scene' = [scene EXCEPT !.parts = q]
  OBVIOUS
<1>. HIDE DEF q
<1>3. scene'.cleared = scene.cleared /\ scene'.parts = q
  BY <1>2
<1>4. S = Edges \cup Shapes => scene' \in [cleared : BOOLEAN, parts : Seq(Edges \cup Shapes)]
  BY <1>1, <1>2
<1>. QED BY <1>1, <1>3, <1>4 DEF q

\* The registers that place the picture.
Placed == \A r \in {"z", "fb", "width", "height"} : file'[r] = file[r]

\* A step that touches neither the picture nor where it lies.
LEMMA PictureStands ==
  ASSUME Placed, UNCHANGED <<vram, scene>>
  PROVE  /\ PixelsNearest => PixelsNearest'
         /\ UNCHANGED Apart
         /\ UNCHANGED surface /\ Shown => Shown'
<1>1. PixelsNearest => PixelsNearest'
  BY DEF Placed, PixelsNearest, PixelAt, DepthAt, NearestAt, Cover, Visible
<1>2. UNCHANGED Apart
  BY DEF Placed, Apart
<1>3. UNCHANGED surface /\ Shown => Shown'
  BY DEF Placed, Shown, Visible
<1>. QED BY <1>1, <1>2, <1>3

\* A frame that has been cleared shows no triangle.
LEMMA ClearedPicture ==
  ASSUME FileOK, BootInv, ScreenInv, Apart, phase = "clients", published # {}, ExecuteClear, Placed
  PROVE  PixelsNearest'
<1>0. FrameInBounds(file) /\ Visible \in Nat /\ Visible <= FrameWords /\ FrameWords \in Nat
  BY FrameAddresses, Sizes DEF ScreenInv
<1>2. ASSUME NEW x \in 0 .. file["width"] - 1, NEW y \in 0 .. file["height"] - 1
      PROVE  /\ y * FbWidth + x < Visible => vram'[PixelAt(x, y)] = Black
             /\ vram'[DepthAt(x, y)] = Far
  <2>. DEFINE p == PixelAt(x, y)
              d == DepthAt(x, y)
              f == file["fb"]
              z == file["z"]
              k == y * FbWidth + x
              n == Visible
  <2>1. /\ p - f = k /\ p - f \in ScreenPixels
        /\ d - z \in 0 .. n - 1 /\ d - z \in ScreenPixels
        /\ ScreenPixels = 0 .. FrameWords - 1
    BY <1>0, FragmentPlaces, FrameAddresses
  <2>2. p \in DOMAIN vram /\ d \in DOMAIN vram
    BY PixelsApart DEF ScreenInv
  <2>3. vram' = [a \in DOMAIN vram |-> ClearedWord(a, n)]
    BY DEF ExecuteClear
  <2>4. /\ f \in Nat /\ z \in Nat /\ p \in Int /\ d \in Int /\ VramWords \in Nat
        /\ f + FrameWords <= z \/ z + FrameWords <= f
    <3>1. {"fb", "z"} \subseteq Names
      BY DEF Names, RegisterAt
    <3>2. f \in Nat /\ z \in Nat
      BY <3>1, Words DEF FileOK
    <3>3. p \in Int /\ d \in Int
      BY <2>2, Sizes, SMT DEF ScreenInv
    <3>. QED BY <3>2, <3>3, Sizes DEF Apart, FrameWords
  <2>5. /\ d - f \notin 0 .. n - 1 /\ p - z \notin 0 .. n - 1
        /\ k < n => p - f \in 0 .. n - 1
    <3>1. p - f = k /\ n \in Nat /\ n <= FrameWords /\ FrameWords \in Nat
          /\ d - z \in 0 .. FrameWords - 1 /\ p - f \in 0 .. FrameWords - 1
      BY <1>0, <2>1
    <3>. HIDE DEF p, d, f, z, k, n
    <3>2. d - f \notin 0 .. n - 1 /\ p - z \notin 0 .. n - 1
      BY <2>4, <3>1, SMT
    <3>3. k < n => p - f \in 0 .. n - 1
      BY <2>4, <3>1, SMT
    <3>. QED BY <3>2, <3>3
  <2>6. ClearedWord(d, n) = Far /\ (k < n => ClearedWord(p, n) = Black)
    BY <2>1, <2>5 DEF ClearedWord
  <2>. QED BY <2>2, <2>3, <2>6
<1>3. scene'.parts = <<>>
  BY DEF ExecuteClear
<1>4. \A p : Cover(<<>>, p) = {}
  BY DEF Cover
<1>5. /\ \A x, y : PixelAt(x, y)' = PixelAt(x, y) /\ DepthAt(x, y)' = DepthAt(x, y)
      /\ Visible' = Visible /\ file'["width"] = file["width"] /\ file'["height"] = file["height"]
  BY DEF Placed, PixelAt, DepthAt, Visible
<1>6. ASSUME NEW x \in 0 .. file["width"] - 1, NEW y \in 0 .. file["height"] - 1
      PROVE  NearestAt(<<>>, <<x, y>>, vram'[PixelAt(x, y)], vram'[DepthAt(x, y)],
                       y * FbWidth + x < Visible)
  BY <1>2, <1>4 DEF NearestAt
<1>. QED BY <1>3, <1>5, <1>6 DEF PixelsNearest, NearestAt, Cover

\* A triangle changes the picture as the reference says.
LEMMA TrianglePicture ==
  ASSUME FileOK, BootInv, DrawInv, ScreenInv, SceneInv, Apart, DrawTriangle, Placed,
         scene.cleared, phase = "clients", published # {}
  PROVE  PixelsNearest'
<1>. DEFINE t == Head(draw.parts)
<1>1. vram' = Drawn(t)
  BY DEF DrawTriangle, Drawn, Passing
<1>2. t \in Shapes
  BY HeadTail DEF DrawTriangle, DrawInv
<1>4. scene.parts \in Seq(Shapes)
  BY DEF SceneInv
<1>3. scene'.parts = Append(scene.parts, t)
  <2>1. scene' = [scene EXCEPT !.parts = Append(@, t)]
    BY DEF DrawTriangle
  <2>. HIDE DEF t
  <2>. QED BY <1>2, <1>4, <2>1, OnePartMore DEF SceneInv
<1>5. /\ \A x, y : PixelAt(x, y)' = PixelAt(x, y) /\ DepthAt(x, y)' = DepthAt(x, y)
      /\ Visible' = Visible /\ file'["width"] = file["width"] /\ file'["height"] = file["height"]
  BY DEF Placed, PixelAt, DepthAt, Visible
<1>. HIDE DEF t
<1>6. ASSUME NEW x \in 0 .. file["width"] - 1, NEW y \in 0 .. file["height"] - 1
      PROVE  NearestAt(Append(scene.parts, t), <<x, y>>,
                       vram'[PixelAt(x, y)], vram'[DepthAt(x, y)], y * FbWidth + x < Visible)
  <2>1. NearestAt(scene.parts, <<x, y>>, vram[PixelAt(x, y)], vram[DepthAt(x, y)],
                  y * FbWidth + x < Visible)
    BY DEF SceneInv, PixelsNearest
  <2>2. DepthOf(vram[DepthAt(x, y)]) = vram[DepthAt(x, y)]
    BY <1>4, <2>1, DepthsAreNumbers
  <2>3. IF <<x, y>> \in DOMAIN t.depth /\ t.depth[<<x, y>>] < vram[DepthAt(x, y)]
          THEN /\ vram'[PixelAt(x, y)] = t.colour
               /\ vram'[DepthAt(x, y)] = t.depth[<<x, y>>]
          ELSE /\ vram'[PixelAt(x, y)] = vram[PixelAt(x, y)]
               /\ vram'[DepthAt(x, y)] = vram[DepthAt(x, y)]
    BY <1>1, <1>2, <2>2, TrianglePixel
  <2>. QED BY <1>2, <1>4, <2>1, <2>3, OneTriangleMore
<1>7. \A x \in 0 .. file'["width"] - 1, y \in 0 .. file'["height"] - 1 :
        NearestAt(scene'.parts, <<x, y>>, vram'[PixelAt(x, y)'], vram'[DepthAt(x, y)'],
                  y * FbWidth + x < Visible')
  BY <1>3, <1>5, <1>6
<1>. QED BY <1>7 DEF PixelsNearest

\* The device keeps the picture that of its scene.
LEMMA DeviceKeepsSceneInv ==
  ASSUME FileOK, BootInv, DrawInv, ScreenInv, SceneInv, Device
  PROVE  SceneInv'
<1>1. Trapped
  BY DEF Device, DeviceStep, ExecuteClear, ExecuteNoop, BeginDraw, DropDraw, BeginLine,
         LinePixel, DrawTriangle, EndDraw, DrawInv, Trapped
<1>2. /\ published # {} /\ phase = "clients" /\ blt.words = <<>> /\ acts # 0 /\ acts \in Nat
      /\ scene \in [cleared : BOOLEAN, parts : Seq(Edges \cup Shapes)]
  BY <1>1 DEF SceneInv, NoPicture
<1>3. /\ Placed
      /\ DeviceStep /\ UNCHANGED <<published, phase, blt, acts>>
  <2>1. PICK m \in Word, u \in Word : file' = [file EXCEPT !["mode"] = m, !["tail"] = u]
    BY DeviceTouches DEF Device
  <2>2. {"z", "fb", "width", "height"} \subseteq Names
    BY DEF Names, RegisterAt
  <2>3. DeviceStep => UNCHANGED blt
    BY DEF DeviceStep, ExecuteClear, ExecuteNoop, BeginDraw, DropDraw, BeginLine, LinePixel,
           DrawTriangle, EndDraw, displayVars
  <2>. QED BY <2>1, <2>2, <2>3 DEF Device, startVars, adapterVars, Placed, FileOK
<1>4. SUFFICES /\ scene' \in [cleared : BOOLEAN, parts : Seq(Edges \cup Shapes)]
               /\ scene'.parts # <<>> /\ ~draw'.on => Shown'
               /\ draw'.on /\ Head(todo').op = "lines" => ~scene'.cleared
               /\ scene'.cleared => scene'.parts \in Seq(Shapes)
               /\ scene'.cleared /\ Apart' => PixelsNearest'
  BY <1>2, <1>3 DEF SceneInv
<1>a. Apart' = Apart
  BY <1>3 DEF Placed, Apart
<1>5. CASE ExecuteClear
  <2>1. <<>> \in Seq(Edges \cup Shapes) /\ <<>> \in Seq(Shapes)
    BY EmptySeq
  <2>2. ~draw'.on
    BY <1>5 DEF ExecuteClear
  <2>3. Apart => PixelsNearest'
    BY <1>2, <1>3, <1>5, ClearedPicture
  <2>. QED BY <1>5, <1>a, <2>1, <2>2, <2>3 DEF ExecuteClear
<1>6. CASE UNCHANGED <<vram, surface, scene, draw>> /\ (draw.on => todo' = todo)
  BY <1>2, <1>3, <1>6, PictureStands DEF SceneInv
<1>7. CASE DropDraw \/ ExecuteNoop
  <2>1. draw.on => Head(todo).op # "noop"
    BY DEF DrawInv
  <2>. QED BY <1>6, <1>7, <2>1 DEF ExecuteNoop, DropDraw, displayVars
<1>8. CASE BeginDraw
  <2>1. /\ draw'.on /\ todo' = todo /\ UNCHANGED surface
        /\ ~draw.on
    BY <1>8 DEF BeginDraw
  <2>2. CASE Head(todo).op = "lines"
    <3>1. scene' = [scene EXCEPT !.cleared = FALSE]
      BY <1>8, <2>2 DEF BeginDraw, ShadeVertices
    <3>. QED BY <1>2, <2>1, <3>1
  <2>3. CASE Head(todo).op # "lines"
    <3>1. UNCHANGED <<vram, scene>>
      BY <1>8, <2>3 DEF BeginDraw, ShadeVertices
    <3>. QED BY <1>2, <1>3, <2>1, <2>3, <3>1, PictureStands DEF SceneInv
  <2>. QED BY <2>2, <2>3
<1>9. CASE BeginLine
  <2>. DEFINE e == Head(draw.parts)
  <2>1. e \in Edges
    BY <1>9, HeadTail DEF BeginLine, DrawInv
  <2>2. scene' = [scene EXCEPT !.parts = Append(@, e)] /\ ~scene.cleared /\ draw'.on
    BY <1>9 DEF BeginLine, SceneInv
  <2>. HIDE DEF e
  <2>3. scene' \in [cleared : BOOLEAN, parts : Seq(Edges \cup Shapes)] /\ ~scene'.cleared
    <3>1. scene.parts \in Seq(Edges \cup Shapes) /\ e \in Edges \cup Shapes
      BY <1>2, <2>1
    <3>. QED BY <1>2, <2>2, <3>1, OnePartMore
  <2>. QED BY <2>2, <2>3
<1>10. CASE LinePixel
  <2>1. draw.on /\ draw' = draw /\ ~scene.cleared /\ scene' = scene
    BY <1>10 DEF LinePixel, DrawInv, SceneInv
  <2>. QED BY <1>2, <2>1
<1>12. CASE DrawTriangle
  <2>. DEFINE e == Head(draw.parts)
  <2>1. e \in Shapes
    BY <1>12, HeadTail DEF DrawTriangle, DrawInv
  <2>2. /\ scene' = [scene EXCEPT !.parts = Append(@, e)]
        /\ draw'.on /\ Head(todo).op = "triangles" /\ todo' = todo
    BY <1>12 DEF DrawTriangle, DrawInv
  <2>. HIDE DEF e
  <2>3. scene' \in [cleared : BOOLEAN, parts : Seq(Edges \cup Shapes)]
        /\ scene'.cleared = scene.cleared
    <3>1. scene.parts \in Seq(Edges \cup Shapes) /\ e \in Edges \cup Shapes
      BY <1>2, <2>1
    <3>. QED BY <1>2, <2>2, <3>1, OnePartMore
  <2>4. scene.cleared => scene'.parts \in Seq(Shapes)
    BY <1>2, <2>1, <2>2, OnePartMore DEF SceneInv
  <2>5. scene.cleared /\ Apart => PixelsNearest'
    BY <1>2, <1>3, <1>12, TrianglePicture
  <2>. QED BY <1>a, <2>2, <2>3, <2>4, <2>5
<1>11. CASE EndDraw
  <2>1. UNCHANGED <<vram, scene>> /\ ~draw'.on
    BY <1>11 DEF EndDraw, NoDraw
  <2>2. Shown'
    <3>1. /\ surface' = [i \in ScreenPixels |-> IF i < Visible THEN Frame[i] ELSE surface[i]]
          /\ UNCHANGED <<vram, Visible>> /\ file'["fb"] = file["fb"]
      BY <1>3, <1>11 DEF EndDraw, ShowFrame, Placed, Visible
    <3>2. \A i \in 0 .. Visible - 1 : i \in ScreenPixels /\ i < Visible
      <4>. DEFINE n == Visible
      <4>1. n \in Nat /\ n <= FrameWords /\ ScreenPixels = 0 .. FrameWords - 1 /\ FrameWords \in Nat
        BY FrameAddresses, Sizes DEF ScreenInv
      <4>. HIDE DEF n
      <4>2. \A i \in 0 .. n - 1 : i \in ScreenPixels /\ i < n
        BY <4>1, SMT
      <4>. QED BY <4>2 DEF n
    <3>. QED BY <3>1, <3>2 DEF Shown, Frame
  <2>. QED BY <1>2, <1>3, <2>1, <2>2, PictureStands DEF SceneInv
<1>. QED BY <1>3, <1>5, <1>7, <1>8, <1>9, <1>10, <1>11, <1>12 DEF DeviceStep

\* Start neither touches the picture nor its place once one can be there.
LEMMA StartLeavesPicture ==
  ASSUME BootInv, Boot
  PROVE  /\ UNCHANGED <<vram, surface, scene, todo, draw, line, phase, acts>>
         /\ published # {} => UNCHANGED <<file, blt>> /\ published' # {}
<1>1. UNCHANGED <<vram, surface, scene, todo, draw, line, phase, acts>>
  BY DEF Boot, StartStep, BeginStart, CallSucceeds, CallFails, OpenPciIo, InitAllocator,
         InitAllocatorFails, AllocateFrame, AllocateDepth, WriteDepthRegister, BeginGopSetup,
         GopSetupWithoutBuffer, EndGopSetup, AllocateRing, InitRingRegister, AllocateBatch,
         BatchFails, PublishGop, PublishGopFails, PublishGop3d, displayVars, rasterVars,
         adapterVars
<1>2. ASSUME published # {}
      PROVE  UNCHANGED <<file, blt>> /\ published' # {}
  <2>1. opened /\ stage \in {"publishGop3d", "child", "done", "failed", "lost"}
    BY <1>2 DEF BootInv, StageInv
  <2>2. ~InitRingRegister
    BY <2>1, RingStageNames DEF InitRingRegister, RingSteps
  <2>3. ~BeginStart /\ ~WriteDepthRegister /\ ~BeginGopSetup /\ ~GopSetupWithoutBuffer
    BY <2>1 DEF BeginStart, WriteDepthRegister, BeginGopSetup, GopSetupWithoutBuffer
  <2>. QED BY <1>2, <2>2, <2>3
       DEF Boot, StartStep, CallSucceeds, CallFails, OpenPciIo, InitAllocator,
           InitAllocatorFails, AllocateFrame, AllocateDepth, EndGopSetup, AllocateRing,
           AllocateBatch, BatchFails, PublishGop, PublishGopFails, PublishGop3d, displayVars,
           registerVars, kept
<1>. QED BY <1>1, <1>2

\* A refresh puts into the surface what the frame holds.
LEMMA RefreshKeepsShown ==
  ASSUME FileOK, ScreenInv, Shown, BeginRefresh \/ RefreshPixel, UNCHANGED file
  PROVE  Shown'
<1>1. CASE BeginRefresh
  BY <1>1 DEF BeginRefresh, Shown, Visible
<1>2. CASE RefreshPixel
  <2>1. /\ surface' = [surface EXCEPT ![refresh] = vram[file["fb"] + refresh]]
        /\ UNCHANGED vram
    BY <1>2 DEF RefreshPixel
  <2>2. \A i \in 0 .. Visible - 1 : surface'[i] = vram[file["fb"] + i]
    <3>1. ASSUME NEW i \in 0 .. Visible - 1
          PROVE  surface'[i] = vram[file["fb"] + i]
      <4>1. surface[i] = vram[file["fb"] + i]
        BY DEF Shown
      <4>2. i \in DOMAIN surface
        <5>. DEFINE n == Visible
        <5>1. n \in Nat /\ n <= FrameWords /\ FrameWords \in Nat /\ i \in 0 .. n - 1
              /\ DOMAIN surface = 0 .. FrameWords - 1
          BY FrameAddresses, Sizes DEF ScreenInv
        <5>. HIDE DEF n
        <5>. QED BY <5>1, SMT
      <4>. QED BY <2>1, <4>1, <4>2 DEF ScreenInv
    <3>. QED BY <3>1
  <2>. QED BY <2>1, <2>2 DEF Shown, Visible
<1>. QED BY <1>1, <1>2

\* And so does the guest, and QEMU's refresh, in whatever order they come.
LEMMA NextKeepsSceneInv ==
  ASSUME FileOK, BootInv, DrawInv, ScreenInv, SceneInv, [Next]_vars
  PROVE  SceneInv'
<1>0. /\ scene \in [cleared : BOOLEAN, parts : Seq(Edges \cup Shapes)] /\ acts \in Nat
      /\ acts + 1 \in Nat /\ acts + 1 # 0
  BY SMT DEF SceneInv
\* Where no scene is left there is nothing to keep.
<1>1. ASSUME scene' = NoScene \/ (NoPicture /\ scene' = scene), todo' = <<>>, ~draw'.on,
             acts' \in Nat
      PROVE  SceneInv'
  <2>1. /\ scene' \in [cleared : BOOLEAN, parts : Seq(Edges \cup Shapes)]
        /\ ~scene'.cleared /\ scene'.parts = <<>>
    <3>1. <<>> \in Seq(Edges \cup Shapes)
      BY EmptySeq
    <3>2. CASE scene' = NoScene
      BY <3>1, <3>2 DEF NoScene
    <3>3. CASE NoPicture /\ scene' = scene
      BY <1>0, <3>3 DEF NoPicture
    <3>. QED BY <1>1, <3>2, <3>3
  <2>. QED BY <1>1, <2>1 DEF SceneInv, NoPicture, Trapped
\* Where the picture stands and its scene is not left, it stands.
<1>2. ASSUME Placed, UNCHANGED <<vram, scene, draw, todo, phase, blt, published>>,
             Shown => Shown', acts' \in {acts, acts + 1}
      PROVE  SceneInv'
  <2>1. PixelsNearest => PixelsNearest'
    BY <1>2, PictureStands
  <2>2. UNCHANGED Apart
    BY <1>2, PictureStands
  <2>. QED BY <1>0, <1>2, <2>1, <2>2 DEF SceneInv, NoPicture, Trapped
<1>3. ~Trapped => todo = <<>> /\ ~draw.on
  BY DEF Trapped, DrawInv
<1>4. UNCHANGED file => Placed
  BY DEF Placed
<1>5. UNCHANGED <<vram, surface>> /\ Placed => (Shown => Shown')
  BY DEF Placed, Shown, Visible
<1>6. CASE Device
  BY <1>6, DeviceKeepsSceneInv
<1>7. CASE Boot
  <2>1. CASE published # {}
    <3>1. /\ UNCHANGED <<vram, surface, scene, todo, draw, line, phase, acts, file, blt>>
          /\ published' # {}
      BY <1>7, <2>1, StartLeavesPicture
    <3>2. PixelsNearest => PixelsNearest'
      BY <1>4, <3>1, PictureStands
    <3>3. UNCHANGED Apart
      BY <1>4, <3>1, PictureStands
    <3>. QED BY <1>4, <1>5, <2>1, <3>1, <3>2, <3>3 DEF SceneInv, NoPicture, Trapped
  <2>2. CASE published = {}
    <3>1. NoPicture
      BY <2>2 DEF SceneInv
    <3>2. UNCHANGED <<scene, todo, draw, acts>>
      BY <1>7, StartLeavesPicture
    <3>. QED BY <1>0, <1>1, <1>3, <3>1, <3>2 DEF NoPicture
  <2>. QED BY <2>1, <2>2
<1>8. CASE StoreFillWord
  <2>1. NoPicture
    BY <1>8 DEF StoreFillWord, FillWord, SceneInv
  <2>. QED BY <1>0, <1>1, <1>3, <1>8, <2>1 DEF StoreFillWord, NoPicture, rasterVars, adapterVars
<1>9. ASSUME NEW f \in Fills, ConsoleFill(f.rect, f.colour)
      PROVE  SceneInv'
  <2>1. scene' = NoScene /\ ~Trapped /\ todo' = todo /\ draw' = draw /\ acts' = acts + 1
    BY <1>9 DEF ConsoleFill, CpuFree, ClientAct, Act
  <2>. QED BY <1>0, <1>1, <1>3, <2>1
<1>10. ASSUME NEW mode \in {ModeGop, Mode3d, ModeIdle}, GpuSetMode(mode)
       PROVE  SceneInv'
  <2>1. /\ GpuMmioWrite32("mode", mode) /\ UNCHANGED <<displayVars, rasterVars, startVars, phase>>
        /\ acts' = acts + 1
    BY <1>10 DEF GpuSetMode, ClientAct, Act
  <2>2. file' = [file EXCEPT !["mode"] = mode]
    BY <2>1, Words, DriverWrites
  <2>3. Placed
    BY <2>2 DEF Placed, FileOK
  <2>. QED BY <1>2, <1>5, <2>1, <2>3 DEF displayVars, rasterVars, startVars
<1>11. CASE TransferBuffer \/ SubmitFaults
  BY <1>2, <1>4, <1>5, <1>11
     DEF TransferBuffer, SubmitFaults, ClientAct, Act, registerVars, displayVars, rasterVars, kept
<1>12. ASSUME NEW frame \in Frames, Submit(frame)
       PROVE  SceneInv'
  <2>1. /\ GpuMmioWrite32("head", HeadBehind(Len(frame)))
        /\ UNCHANGED <<displayVars, draw, scene, published, phase>>
        /\ acts' = acts + 1 /\ published # {} /\ phase = "clients" /\ blt.words = <<>>
        /\ ~Trapped
    BY <1>12 DEF Submit, CpuFree, ClientAct, Act, startVars
  <2>2. Len(frame) \in 1 .. RingWords - 1
    BY AdapterAssumption
  <2>3. HeadBehind(Len(frame)) \in Word
    BY <2>1, <2>2, HeadInRing DEF BootInv, RingInv
  <2>4. file' = [file EXCEPT !["head"] = HeadBehind(Len(frame))]
    BY <2>1, <2>3, DriverWrites
  <2>5. Placed
    BY <2>4 DEF Placed, FileOK
  <2>6. PixelsNearest => PixelsNearest'
    BY <2>1, <2>5, PictureStands DEF displayVars
  <2>7. UNCHANGED Apart
    BY <2>1, <2>5, PictureStands DEF displayVars
  <2>. QED BY <1>0, <1>3, <1>5, <2>1, <2>5, <2>6, <2>7 DEF SceneInv, NoPicture, displayVars
<1>13. CASE GuestReset
  <2>1. scene' = NoScene /\ ~Trapped /\ todo' = todo /\ draw' = draw /\ acts' = acts + 1
    BY <1>13 DEF GuestReset, ClientAct, Act
  <2>. QED BY <1>0, <1>1, <1>3, <2>1
<1>14. CASE Refresh
  <2>1. /\ UNCHANGED <<file, vram, scene, draw, todo, phase, blt, published, acts>>
        /\ BeginRefresh \/ RefreshPixel
    BY <1>14 DEF Refresh, BeginRefresh, RefreshPixel, registerVars, rasterVars, startVars,
                 adapterVars
  <2>2. Shown => Shown'
    BY <2>1, RefreshKeepsShown
  <2>. QED BY <1>2, <1>4, <2>1, <2>2
<1>15. ASSUME NEW who, TakesOver(who), who # "clients", UNCHANGED rasterVars
       PROVE  SceneInv'
  <2>1. /\ phase = who \/ acts = 0
        /\ acts' = acts + 1 /\ ~Trapped /\ UNCHANGED <<scene, todo, draw>>
    BY <1>15 DEF TakesOver, Act, CpuFree, rasterVars
  <2>2. NoPicture
    BY <1>15, <2>1 DEF SceneInv
  <2>. QED BY <1>0, <1>1, <1>3, <2>1, <2>2 DEF NoPicture
<1>16. CASE \E addr \in RawAddrs, data \in RawData : RawAccess(addr, data)
  BY <1>15, <1>16 DEF RawAccess
<1>17. CASE \E op \in {"write", "read", "set"}, at \in 0 .. MemBytes, size \in 0 .. HostBytes :
              VramCall(op, at, size)
  BY <1>15, <1>17 DEF VramCall
<1>18. CASE VramStep \/ UNCHANGED vars
  BY <1>2, <1>4, <1>5, <1>18
     DEF VramStep, vars, registerVars, displayVars, rasterVars, startVars, adapterVars
<1>. QED BY <1>6, <1>7, <1>8, <1>9, <1>10, <1>11, <1>12, <1>13, <1>14, <1>16, <1>17, <1>18
     DEF Next, Client, Others

\* The picture is that of its scene in every run.
LEMMA SceneAlways == Spec => [](MachineInv /\ SceneInv)
<1>1. Init => SceneInv
  <2>1. <<>> \in Seq(Edges \cup Shapes)
    BY EmptySeq
  <2>2. ASSUME Init
        PROVE  SceneInv
    BY <2>1, <2>2 DEF Init, RasterInit, NoScene, NoDraw, SceneInv, NoPicture, Trapped
  <2>. QED BY <2>2
<1>2. MachineInv /\ SceneInv /\ [Next]_vars => SceneInv'
  BY NextKeepsSceneInv DEF MachineInv
<1>. QED BY <1>1, <1>2, MachineAlways, PTL DEF Spec

\* The frame shows the nearest triangle at each pixel.
THEOREM PictureIsNearest == Spec => []NearestShows
<1>1. SceneInv => NearestShows
  <2>1. ASSUME SceneInv, scene.cleared, Apart,
               NEW x \in 0 .. file["width"] - 1, NEW y \in 0 .. file["height"] - 1
        PROVE  LET by(k) == scene.parts[k].depth[<<x, y>>] IN
               IF Covering(x, y) = {}
                 THEN y * FbWidth + x < Visible => vram[PixelAt(x, y)] = Black
                 ELSE \E k \in Covering(x, y) :
                        /\ vram[PixelAt(x, y)] = scene.parts[k].colour
                        /\ \A j \in Covering(x, y) :
                             by(k) <= by(j) /\ (j < k => by(k) < by(j))
    <3>1. NearestAt(scene.parts, <<x, y>>, vram[PixelAt(x, y)], vram[DepthAt(x, y)],
                    y * FbWidth + x < Visible)
      BY <2>1 DEF SceneInv, PixelsNearest
    <3>2. Covering(x, y) = Cover(scene.parts, <<x, y>>)
      BY DEF Covering, Cover
    <3>. QED BY <3>1, <3>2 DEF NearestAt
  <2>. QED BY <2>1 DEF NearestShows
<1>. QED BY <1>1, SceneAlways, PTL

\* A submission leaves what it has drawn on the screen.
THEOREM SubmissionsShow == Spec => []PresentedIsShown
<1>1. MachineInv /\ SceneInv => PresentedIsShown
  BY DEF MachineInv, DrawInv, SceneInv, PresentedIsShown, Trapped
<1>. QED BY <1>1, SceneAlways, PTL

-----------------------------------------------------------------------------
(***************************************************************************)
(* The types.                                                              *)
(***************************************************************************)

\* The flags of the driver and of the machine.
Flags == {opened, configured, batched, reprogrammed} \subseteq BOOLEAN

\* The types that no other part of the invariant speaks of.
Kinds ==
  /\ request \in [op : {"none", "store", "load"}, addr : Nat, data : Seq(0 .. LaneBase - 1)]
  /\ loaded \in [n : 0 .. 4, value : Word]
  /\ stage \in Stages /\ published \subseteq {"gop", "gop3d"}
  /\ Flags
  /\ phase \in {"clients", "registers", "copies"}

\* An access leaves a request of its kind and an answer of its length.
LEMMA RegisterStepKinds ==
  ASSUME FileOK, RegisterStep,
         request \in [op : {"none", "store", "load"}, addr : Nat, data : Seq(0 .. LaneBase - 1)],
         loaded \in [n : 0 .. 4, value : Word]
  PROVE  /\ request' \in [op : {"none", "store", "load"}, addr : Nat,
                          data : Seq(0 .. LaneBase - 1)]
         /\ loaded' \in [n : 0 .. 4, value : Word]
<1>1. CASE UNCHANGED <<request, loaded>>
  BY <1>1
<1>2. ASSUME NEW addr \in Nat, NEW data, Stored(data), Store(addr, data)
      PROVE  /\ request' \in [op : {"none", "store", "load"}, addr : Nat,
                              data : Seq(0 .. LaneBase - 1)]
             /\ loaded' \in [n : 0 .. 4, value : Word]
  <2>1. 0 \in Word /\ 0 \in 0 .. 4
    <3>1. 0 <= VramWords
      BY Sizes, SMT
    <3>. QED BY <3>1, Words, SMT
  <2>. QED BY <1>2, <2>1 DEF Store, Stored, Byte
<1>3. ASSUME NEW addr \in Nat, NEW data, Stored(data), Load(addr, data)
      PROVE  /\ request' \in [op : {"none", "store", "load"}, addr : Nat,
                              data : Seq(0 .. LaneBase - 1)]
             /\ loaded' \in [n : 0 .. 4, value : Word]
  <2>1. Len(data) \in {1, 2, 4}
    BY <1>3 DEF Stored
  <2>2. Len(data) \in 0 .. 4
    BY <2>1, SMT
  <2>3. MmioRead(addr, Len(data)) \in Word
    BY <2>1, LoadedBytes
  <2>. QED BY <1>3, <2>2, <2>3 DEF Load, Stored, Byte
<1>. QED BY <1>1, <1>2, <1>3 DEF RegisterStep, registerVars

\* Start stays within its stages.
LEMMA StartKeepsKinds ==
  ASSUME stage \in Stages, Flags, published \subseteq {"gop", "gop3d"}, StartStep,
         UNCHANGED reprogrammed
  PROVE  stage' \in Stages /\ Flags' /\ published' \subseteq {"gop", "gop3d"}
<1>0. /\ opened \in BOOLEAN /\ configured \in BOOLEAN /\ batched \in BOOLEAN
      /\ reprogrammed \in BOOLEAN /\ reprogrammed' \in BOOLEAN
  BY DEF Flags
<1>1. CASE CallSucceeds
  <2>1. stage' \in {"open", "allocator", "gop", "done"}
    BY <1>1 DEF CallSucceeds, PlainStages
  <2>. QED BY <1>0, <1>1, <2>1 DEF CallSucceeds, Stages, kept, Flags
<1>2. CASE AllocateRing
  <2>1. RingStages[1] \in Stages
    <3>1. 1 \in 1 .. 6
      BY SMT
    <3>. QED BY <3>1 DEF Stages
  <2>. QED BY <1>0, <1>2, <2>1 DEF AllocateRing, kept, Flags
<1>3. CASE InitRingRegister
  <2>1. PICK k \in 1 .. 6 :
          /\ stage' = IF k = 6 THEN "batch" ELSE RingStages[k + 1]
          /\ UNCHANGED kept
    BY <1>3 DEF InitRingRegister
  <2>2. k # 6 => k + 1 \in 1 .. 6
    BY SMT
  <2>3. stage' \in Stages
    BY <2>1, <2>2 DEF Stages
  <2>. QED BY <1>0, <2>1, <2>3 DEF kept, Flags
<1>4. CASE BeginStart \/ OpenPciIo \/ WriteDepthRegister \/ PublishGop3d
  <2>1. {"pool", "attributes", "path", "child"} \subseteq DOMAIN PlainStages
    BY DEF PlainStages
  <2>2. stage' \in DOMAIN PlainStages
    BY <1>4, <2>1 DEF BeginStart, OpenPciIo, WriteDepthRegister, PublishGop3d
  <2>3. Flags'
    BY <1>0, <1>4 DEF BeginStart, OpenPciIo, WriteDepthRegister, PublishGop3d, kept, Flags
  <2>4. published' \subseteq {"gop", "gop3d"}
    BY <1>4 DEF BeginStart, OpenPciIo, WriteDepthRegister, PublishGop3d, kept
  <2>. QED BY <2>2, <2>3, <2>4 DEF Stages
<1>5. CASE \/ CallFails \/ InitAllocator \/ InitAllocatorFails \/ AllocateFrame \/ AllocateDepth
           \/ EndGopSetup \/ BatchFails \/ PublishGopFails
  <2>1. stage' \in Stages /\ UNCHANGED kept
    BY <1>5 DEF CallFails, InitAllocator, InitAllocatorFails, AllocateFrame, AllocateDepth,
                EndGopSetup, BatchFails, PublishGopFails, Stages
  <2>. QED BY <1>0, <2>1 DEF kept, Flags
<1>6. CASE BeginGopSetup \/ GopSetupWithoutBuffer \/ AllocateBatch \/ PublishGop
  BY <1>0, <1>6
     DEF BeginGopSetup, GopSetupWithoutBuffer, AllocateBatch, PublishGop, Stages, Flags
<1>. QED BY <1>1, <1>2, <1>3, <1>4, <1>5, <1>6 DEF StartStep

\* And so does every other step.
LEMMA NextKeepsKinds ==
  ASSUME FileOK, BootInv, Kinds, [Next]_vars
  PROVE  Kinds'
<1>1. /\ request' \in [op : {"none", "store", "load"}, addr : Nat,
                       data : Seq(0 .. LaneBase - 1)]
      /\ loaded' \in [n : 0 .. 4, value : Word]
  BY NextKeepsBootInv, RegisterStepKinds DEF Kinds
<1>2. /\ stage' \in Stages /\ published' \subseteq {"gop", "gop3d"} /\ Flags'
      /\ phase' \in {"clients", "registers", "copies"}
  <2>1. CASE Boot
    BY <2>1, StartKeepsKinds DEF Boot, adapterVars, Kinds, Flags
  <2>2. CASE GuestReset
    BY <2>2 DEF GuestReset, Stages, Kinds, Flags
  <2>3. CASE \/ StoreFillWord \/ Device \/ Refresh \/ VramStep \/ UNCHANGED vars
             \/ \E f \in Fills : ConsoleFill(f.rect, f.colour)
             \/ \E mode \in {ModeGop, Mode3d, ModeIdle} : GpuSetMode(mode)
             \/ TransferBuffer
             \/ \E frame \in Frames : Submit(frame)
    <3>1. UNCHANGED <<stage, opened, published, configured, batched, phase, reprogrammed>>
      BY <2>3 DEF StoreFillWord, Device, Refresh, VramStep, vars, ConsoleFill, GpuSetMode,
                  TransferBuffer, Submit, ClientAct, startVars, adapterVars, kept
    <3>. QED BY <3>1 DEF Kinds, Flags
  <2>4. CASE \/ \E addr \in RawAddrs, data \in RawData : RawAccess(addr, data)
             \/ \E op \in {"write", "read", "set"}, at \in 0 .. MemBytes,
                   size \in 0 .. HostBytes : VramCall(op, at, size)
    <3>1. /\ UNCHANGED <<stage, opened, published, configured, batched>>
          /\ phase' \in {"registers", "copies"} /\ reprogrammed' \in {TRUE, reprogrammed}
      BY <2>4 DEF RawAccess, VramCall, TakesOver, startVars
    <3>. QED BY <3>1 DEF Kinds, Flags
  <2>5. CASE SubmitFaults
    <3>1. /\ UNCHANGED <<opened, published, configured, batched, phase, reprogrammed>>
          /\ stage' = "lost"
      BY <2>5 DEF SubmitFaults, ClientAct, kept
    <3>. QED BY <3>1 DEF Kinds, Flags, Stages
  <2>. QED BY <2>1, <2>2, <2>3, <2>4, <2>5 DEF Next, Client, Others
<1>. QED BY <1>1, <1>2 DEF Kinds, Flags

\* Every variable has its type; and while the device draws it is out of the 3D
\* mode and holds the CPU.
THEOREM TypeCorrect == Spec => []TypeOK
<1>1. Init => Kinds
  <2>1. ASSUME Init
        PROVE  Kinds
    <3>1. 0 \in Word /\ 0 \in 0 .. 4 /\ 0 \in Nat /\ <<>> \in Seq(0 .. LaneBase - 1)
      <4>1. 0 <= VramWords
        BY Sizes, SMT
      <4>. QED BY <4>1, Words, EmptySeq, SMT
    <3>. QED BY <2>1, <3>1 DEF Init, RegistersInit, NoRequest, StartInit, Stages, Kinds, Flags
  <2>. QED BY <2>1
<1>2. FileOK /\ BootInv /\ Kinds /\ [Next]_vars => Kinds'
  BY NextKeepsKinds
<1>3. ASSUME MachineInv, SceneInv, AccessInv, Kinds
      PROVE  TypeOK
  <2>1. RegistersTypeOK
    BY <1>3 DEF MachineInv, FileOK, Kinds, RegistersTypeOK
  <2>2. blt.colour \in Colours \cup {Blank} /\ blt.words \in Seq(0 .. VramWords - 1)
    <3>1. blt.words \in Seq(0 .. FrameWords - 1) /\ blt.colour \in Colours \cup {Blank}
      BY <1>3 DEF MachineInv, ScreenInv
    <3>2. \A k \in 0 .. FrameWords - 1 : k \in 0 .. VramWords - 1
      BY Sizes, SMT
    <3>. DEFINE w == blt.words
    <3>3. /\ Len(w) \in Nat /\ w = [k \in 1 .. Len(w) |-> w[k]]
          /\ \A k \in 1 .. Len(w) : w[k] \in 0 .. FrameWords - 1
      BY <3>1, LenProperties, ElementOfSeq
    <3>4. w \in Seq(0 .. VramWords - 1)
      <4>. HIDE DEF w
      <4>1. \A k \in 1 .. Len(w) : w[k] \in 0 .. VramWords - 1
        BY <3>2, <3>3
      <4>2. [k \in 1 .. Len(w) |-> w[k]] \in Seq(0 .. VramWords - 1)
        BY <3>3, <4>1, IsASeq
      <4>. QED BY <3>3, <4>2
    <3>. QED BY <3>1, <3>4
  <2>3. call.i \in 0 .. call.size
    <3>1. call.i \in Nat /\ call.size \in Nat /\ call.i <= call.size
      BY <1>3, VramAccessAssumption, SMT DEF AccessInv, Calls
    <3>. QED BY <3>1, SMT
  <2>4. /\ todo \in Seq(Commands) /\ (Trapped => phase = "clients")
        /\ (draw.on => Trapped /\ file["mode"] = ModeIdle)
        /\ (line.drawing => draw.on)
    BY <1>3 DEF MachineInv, DrawInv, Trapped
  <2>5. /\ vram \in [0 .. VramWords - 1 -> Colours \cup Nat]
        /\ surface \in [ScreenPixels -> Colours \cup Nat]
        /\ refresh \in ScreenPixels \cup {NoRefresh}
    BY <1>3 DEF MachineInv, ScreenInv
  <2>6. scene.cleared \in BOOLEAN /\ acts \in Nat
    BY <1>3 DEF SceneInv
  <2>. QED BY <1>3, <2>1, <2>2, <2>3, <2>4, <2>5, <2>6 DEF TypeOK, Kinds, Flags
<1>. QED BY <1>1, <1>2, <1>3, BootAlways, SceneAlways, AccessAlways, PTL DEF Spec
=============================================================================
