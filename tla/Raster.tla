------------------------------- MODULE Raster -------------------------------
(***************************************************************************)
(* Triangles and shapes on a target (llc/gpk_raster_lh.cpp,                *)
(* gpk_bitmap_target.h) and who draws them: the scene of the engine        *)
(* (gpk_engine/gpk_engine_scene.cpp), nodes (gpk_component_scene_draw.cpp) *)
(* and geometries, all with a depth buffer and two lists that they share   *)
(* from one triangle to the next, the pixels and the weights of the        *)
(* corners in each.  Cells are <<x, y>> from 0; corners are whole numbers; *)
(* a depth is in units of 1 / RasterFar; what is put on a pixel is the     *)
(* colour of the triangle and the weights it was shaded with.              *)
(*                                                                         *)
(* And lines of pixels: the three drawLine walk from A to B by the error   *)
(* of the midpoint.  "pixels" sets what it passes on the target, "list"    *)
(* lists it, and "depth" lists what is not behind what the depth buffer    *)
(* holds: it leaves the turn of its loop as soon as the pixel it has moved *)
(* to along x is hidden, before it may move along y.  What is hidden is    *)
(* whatever the buffer and the depths of the ends make it.  Points are     *)
(* <<x, y>>; the 16 bits of a coordinate are enough for all.               *)
(***************************************************************************)
EXTENDS Integers, Sequences, FiniteSets

CONSTANTS
    RasterSize,      \* metrics of the target
    RasterFar,       \* a depth of 1.0
    RasterUnits,     \* 0xFFFFFFF: the units of the depth buffer
    RasterTriangles, \* corners (three <<x, y>>, depths (three) and colour
    RasterLimit,     \* bound: triangles drawn
    RasterCorners,   \* corners of the shapes
    RasterRadii      \* radii of the circles

ASSUME RasterAssumption ==
    /\ RasterSize \in Nat \X Nat /\ {RasterFar, RasterUnits} \subseteq Nat \ {0} /\ RasterLimit \in Nat
    /\ RasterCorners \subseteq Int \X Int /\ RasterRadii \subseteq Nat

VARIABLES
    raster,      \* depth and image of the target, coords and weights: the two lists
    rasterDrawn, \* history: the triangles drawn, and by whom
    rasterShape  \* a shape drawn on an empty target: what is set is RasterShape of it

rasterVars == <<raster, rasterDrawn, rasterShape>>

RasterNothing == [colour |-> 0, weights |-> <<>>]
RasterNoShape == [kind |-> "none", at |-> <<0, 0>>, to |-> <<0, 0>>, size |-> 0]
RasterCells == (0..(RasterSize[1] - 1)) \X (0..(RasterSize[2] - 1))

RasterInit ==
    /\ raster = [depth |-> [p \in RasterCells |-> RasterUnits + 1], image |-> [p \in RasterCells |-> RasterNothing],
                 coords |-> <<>>, weights |-> <<>>]
    /\ rasterDrawn = <<>>
    /\ rasterShape = RasterNoShape

----------------------------------------------------------------------------
\* Triangles

RasterLeast(S) == CHOOSE n \in S : \A m \in S : n <= m
RasterMost(S) == CHOOSE n \in S : \A m \in S : n >= m

RasterOrient(a, b, p) == (b[1] - a[1]) * (p[2] - a[2]) - (b[2] - a[2]) * (p[1] - a[1])
RasterWeights(c, p) == <<RasterOrient(c[2], c[3], p), RasterOrient(c[3], c[1], p), RasterOrient(c[1], c[2], p)>>
RasterInside(c, p) == \A i \in 1..3 : RasterWeights(c, p)[i] >= 0
RasterSum(w) == w[1] + w[2] + w[3]

\* The box of the corners, clipped to the target, row by row.
RasterScan(c) ==
    LET Low(i) == RasterMost({0, RasterLeast({c[k][i] : k \in 1..3})})
        High(i) == RasterLeast({RasterSize[i] - 1, RasterMost({c[k][i] : k \in 1..3})})
        width == High(1) - Low(1) + 1
        height == High(2) - Low(2) + 1
    IN  IF width <= 0 \/ height <= 0 THEN <<>>
        ELSE [k \in 1..(width * height) |-> <<Low(1) + ((k - 1) % width), Low(2) + ((k - 1) \div width)>>]

\* finalZ, in parts of RasterFar * RasterSum, and intZ.
RasterZ(t, p) == LET w == RasterWeights(t.corners, p) IN w[1] * t.depths[1] + w[2] * t.depths[2] + w[3] * t.depths[3]
RasterIntZ(t, p) == (RasterUnits * RasterZ(t, p)) \div (RasterFar * RasterSum(RasterWeights(t.corners, p)))

RasterCovers(t, p) ==
    LET w == RasterWeights(t.corners, p)
    IN  RasterInside(t.corners, p) /\ RasterSum(w) # 0 /\ RasterZ(t, p) > 0 /\ RasterZ(t, p) < RasterFar * RasterSum(w)

\* Pixels are listed after those listed already, and are as deep as the triangle from then on.
RasterListed(r, t, seen) ==
    [r EXCEPT !.depth = [p \in RasterCells |-> IF \E i \in DOMAIN seen : seen[i] = p THEN RasterIntZ(t, p) ELSE @[p]],
              !.coords = @ \o seen,
              !.weights = @ \o [i \in DOMAIN seen |-> RasterWeights(t.corners, seen[i])]]

\* drawTriangle with proportions and a depth buffer.
BugRasterTriangle(r, t) ==
    RasterListed(r, t, SelectSeq(RasterScan(t.corners), LAMBDA p : RasterCovers(t, p)))
RasterTriangle(r, t) ==
    RasterListed(r, t, SelectSeq(RasterScan(t.corners), LAMBDA p : RasterCovers(t, p) /\ r.depth[p] > RasterIntZ(t, p)))

BugRasterCleared(r) == [r EXCEPT !.coords = <<>>]
RasterCleared(r) == [r EXCEPT !.coords = <<>>, !.weights = <<>>]

\* All that is listed is put on the target.
RasterShaded(r, t) ==
    LET Last(p) == RasterMost({i \in DOMAIN r.coords : r.coords[i] = p})
    IN  [r EXCEPT !.image = [p \in RasterCells |->
            IF \E i \in DOMAIN r.coords : r.coords[i] = p THEN [colour |-> t.colour, weights |-> r.weights[Last(p)]] ELSE @[p]]]

\* CulledX, CulledY and CulledZ: all corners on one side of the target.
RasterCulled(t) ==
    \/ \E i \in 1..2 : (\A k \in 1..3 : t.corners[k][i] < 0) \/ (\A k \in 1..3 : t.corners[k][i] >= RasterSize[i])
    \/ \A k \in 1..3 : t.depths[k] < 0
\* The triangles of a geometry must have all their corners between the camera and the end; those that
\* are lit may touch the camera.
RasterClipped(by, t) ==
    \E k \in 1..3 : t.depths[k] < 0 \/ t.depths[k] >= RasterFar \/ (by = "geometry" /\ t.depths[k] = 0)

RasterDraws == {"scene", "node", "geometry", "lit"}
RasterSkips(by, t) == (by = "scene" /\ RasterCulled(t)) \/ (by \in {"geometry", "lit"} /\ RasterClipped(by, t))

\* drawBuffers and drawOrderedVertices clear the lists before each triangle; drawQuadTriangle and
\* drawTriangle of a geometry leave it to their caller, who must.
RasterDraw(by, t) ==
    /\ Len(rasterDrawn) < RasterLimit
    /\ raster' = IF RasterSkips(by, t) THEN raster ELSE RasterShaded(RasterTriangle(RasterCleared(raster), t), t)
    /\ rasterDrawn' = Append(rasterDrawn, [by |-> by, of |-> t])
    /\ UNCHANGED rasterShape

----------------------------------------------------------------------------
\* Shapes

\* drawTriangle of two dimensions.
BugRasterFlat(c) == {p \in RasterCells : \A i \in 1..3 : RasterWeights(c, p)[i] > 0}
RasterFlat(c) == LET scan == RasterScan(c) IN {p \in {scan[k] : k \in DOMAIN scan} : RasterInside(c, p)}

\* The one of gpk_bitmap_target.h turns the other way and leaves out the last row and column of the box.
BitmapTriangle(c) ==
    {p \in RasterFlat(<<c[1], c[3], c[2]>>) : \A i \in 1..2 : p[i] < RasterMost({c[k][i] : k \in 1..3})}

RasterRectangle(at, size) == {p \in RasterCells : \A i \in 1..2 : p[i] - at[i] \in 0..(size - 1)}

\* From -Radius to Radius - 1.
RasterCircle(at, size) ==
    {p \in RasterCells : /\ \A i \in 1..2 : p[i] - at[i] \in (-size)..(size - 1)
                         /\ (p[1] - at[1]) * (p[1] - at[1]) + (p[2] - at[2]) * (p[2] - at[2]) <= size * size}

\* A row of a circle that is whole on its left goes from the first pixel within to before its mirror
\* image; of one that is not, all pixels within are set.
BitmapCircle(at, size) ==
    LET Within(p) == (p[1] - at[1]) * (p[1] - at[1]) + (p[2] - at[2]) * (p[2] - at[2]) < size * size
        held == {p \in RasterCells : Within(p) /\ \A i \in 1..2 : p[i] - at[i] \in (-size)..(size + 1)}
    IN  IF at[1] - size < 0 THEN held
        ELSE {p \in RasterCells : \E q \in held : q[2] = p[2] /\ q[1] <= p[1] /\ p[1] < 2 * at[1] - q[1]}

\* drawLine of gpk_bitmap_target.h: ends are exchanged for the walk to go to the right (down, when the
\* line is steep), and the last pixel is left out. error is kept twice as large for it to be whole.
BitmapWalk(a, b, steep) ==
    LET along == IF steep THEN 2 ELSE 1
        across == 3 - along
        from == IF a[along] > b[along] THEN b ELSE a
        to == IF a[along] > b[along] THEN a ELSE b
        dx == to[along] - from[along]
        dy == IF to[across] < from[across] THEN from[across] - to[across] ELSE to[across] - from[across]
        step == IF from[across] < to[across] THEN 1 ELSE -1
        at[n \in 0..dx] ==
            IF n = 0 THEN [y |-> from[across], error |-> dx]
            ELSE LET error == at[n - 1].error - 2 * dy
                 IN  IF error < 0 THEN [y |-> at[n - 1].y + step, error |-> error + 2 * dx]
                     ELSE [y |-> at[n - 1].y, error |-> error]
    IN  {IF steep THEN <<at[n].y, from[2] + n>> ELSE <<from[1] + n, at[n].y>> : n \in 0..(dx - 1)}
BitmapLine(a, b) ==
    LET Abs(n) == IF n < 0 THEN -n ELSE n
    IN  BitmapWalk(a, b, Abs(b[2] - a[2]) > Abs(b[1] - a[1])) \cap RasterCells

RasterShape(s) ==
    CASE s.kind = "none" -> {}
      [] s.kind = "rectangle" -> RasterRectangle(s.at, s.size)
      [] s.kind = "circle" -> RasterCircle(s.at, s.size)
      [] s.kind = "bitmap circle" -> BitmapCircle(s.at, s.size)
      [] s.kind = "bitmap line" -> BitmapLine(s.at, s.to)
      [] s.kind = "quad" -> RasterFlat(<<s.at, <<s.to[1], s.at[2]>>, s.to>>) \cup RasterFlat(<<s.at, s.to, <<s.at[1], s.to[2]>>>>)
      [] s.kind = "bitmap quad" -> BitmapTriangle(<<s.at, s.to, <<s.to[1], s.at[2]>>>>) \cup BitmapTriangle(<<s.at, <<s.at[1], s.to[2]>>, s.to>>)

RasterDrawShape(kind, at, to, size) ==
    /\ rasterDrawn = <<>> /\ rasterShape = RasterNoShape
    /\ rasterShape' = [kind |-> kind, at |-> at, to |-> to, size |-> size]
    /\ UNCHANGED <<raster, rasterDrawn>>

RasterNext ==
    \/ rasterShape = RasterNoShape /\ \E by \in RasterDraws, t \in RasterTriangles : RasterDraw(by, t)
    \/ \E kind \in {"rectangle", "circle", "bitmap circle"}, at \in RasterCorners, size \in RasterRadii :
          RasterDrawShape(kind, at, at, size)
    \/ \E kind \in {"bitmap line", "quad", "bitmap quad"}, at, to \in RasterCorners : RasterDrawShape(kind, at, to, 0)

----------------------------------------------------------------------------

RasterTypeOK ==
    /\ DOMAIN raster.depth = RasterCells /\ DOMAIN raster.image = RasterCells
    /\ \A i \in DOMAIN raster.coords : raster.coords[i] \in RasterCells
    /\ Len(raster.coords) = Len(raster.weights)
    /\ rasterDrawn \in Seq([by : RasterDraws, of : RasterTriangles])

\* What was drawn and covers a pixel, whatever lies on the sides of the target.
RasterOver(p) ==
    {i \in DOMAIN rasterDrawn : RasterCovers(rasterDrawn[i].of, p)
        /\ (rasterDrawn[i].by \in {"geometry", "lit"} => ~RasterClipped(rasterDrawn[i].by, rasterDrawn[i].of))}

\* Every pixel shows the nearest triangle that covers it, in whatever order they were drawn, shaded with
\* its own weights there; among triangles as near, the first.
RasterShowsTheNearest ==
    \A p \in RasterCells :
        LET over == RasterOver(p)
            Z(i) == RasterIntZ(rasterDrawn[i].of, p)
            nearest == {i \in over : \A j \in over : Z(i) < Z(j) \/ (Z(i) = Z(j) /\ i <= j)}
        IN  raster.image[p] =
                IF over = {} THEN RasterNothing
                ELSE LET i == CHOOSE i \in nearest : TRUE
                     IN  [colour |-> rasterDrawn[i].of.colour, weights |-> RasterWeights(rasterDrawn[i].of.corners, p)]

\* Shapes: two triangles leave no gap in the rectangle they share an edge of, circles are within their
\* radius and lack the last pixel of a row at most, and a line is as close to its ends whichever is given first.
RasterShapesAreWhole ==
    LET shape == RasterShape(rasterShape)
        at == rasterShape.at
        to == rasterShape.to
        size == rasterShape.size
        Square(x, y) == (x - at[1]) * (x - at[1]) + (y - at[2]) * (y - at[2])
        Box(last) == {p \in RasterCells : \A i \in 1..2 : at[i] <= p[i] /\ p[i] <= to[i] - last}
        long == RasterMost({to[1] - at[1], at[1] - to[1], to[2] - at[2], at[2] - to[2]})
        off(p) == RasterOrient(at, to, p)
    IN  CASE rasterShape.kind = "quad" -> (at[1] < to[1] /\ at[2] < to[2]) => shape = Box(0)
          [] rasterShape.kind = "bitmap quad" -> (at[1] < to[1] /\ at[2] < to[2]) => shape = Box(1)
          [] rasterShape.kind \in {"circle", "bitmap circle"} ->
                /\ \A p \in shape : Square(p[1], p[2]) <= size * size
                /\ \A p \in RasterCells \ shape : Square(p[1], p[2]) >= size * size \/ Square(p[1] + 1, p[2]) >= size * size
          [] rasterShape.kind = "bitmap line" ->
                /\ shape = BitmapLine(to, at)
                /\ \A p \in shape : 2 * off(p) <= 2 * long /\ -2 * off(p) <= 2 * long
          [] OTHER -> TRUE

----------------------------------------------------------------------------
\* Lines

CONSTANTS
    LineScreen, \* metrics of the target
    LinePoints  \* where lines start and end

ASSUME LineAssumption == LineScreen \in Nat \X Nat /\ LinePoints \subseteq Int \X Int

VARIABLES
    lineKind,   \* which drawLine
    lineA,      \* where the line starts: line.A as it is given
    lineB,      \* line.B
    lineAt,     \* line.A as the loop changes it
    lineErr,    \* err
    linePixels  \* what is set or listed

lineVars == <<lineKind, lineA, lineB, lineAt, lineErr, linePixels>>

LineKinds == {"pixels", "list", "depth"}

LineAbs(n) == IF n < 0 THEN -n ELSE n
LineDx == LineAbs(lineB[1] - lineA[1])
LineDy == -LineAbs(lineB[2] - lineA[2])
LineSx == IF lineA[1] < lineB[1] THEN 1 ELSE -1
LineSy == IF lineA[2] < lineB[2] THEN 1 ELSE -1
LineOnScreen(p) == p[1] >= 0 /\ p[1] < LineScreen[1] /\ p[2] >= 0 /\ p[2] < LineScreen[2]

\* The list has A whether it is on the screen or not, the target never has.
LineFirst(kind, a, hidden) ==
    CASE kind = "pixels" -> <<>>
      [] kind = "list" -> <<a>>
      [] kind = "depth" -> IF LineOnScreen(a) /\ ~hidden THEN <<a>> ELSE <<>>

LineInit ==
    /\ lineKind \in LineKinds
    /\ lineA \in LinePoints
    /\ lineB \in LinePoints
    /\ lineAt = lineA
    /\ lineErr = LineDx + LineDy
    /\ \E hidden \in BOOLEAN : linePixels = LineFirst(lineKind, lineA, hidden)

----------------------------------------------------------------------------

LineMovesX == 2 * lineErr >= LineDy
LineMovesY == 2 * lineErr <= LineDx
LineAside == <<lineAt[1] + LineSx, lineAt[2]>> \* where a move along x leads

\* continue: only the pixels of the screen are compared with the buffer.
LineLeaves(hidden) == lineKind = "depth" /\ LineMovesX /\ LineOnScreen(LineAside) /\ hidden
LineShown(p, hidden) == IF LineOnScreen(p) /\ ~(lineKind = "depth" /\ hidden) THEN <<p>> ELSE <<>>

BugLineTurn(x, y) ==
    /\ lineAt' = <<lineAt[1] + (IF x THEN LineSx ELSE 0), lineAt[2] + (IF y THEN LineSy ELSE 0)>>
    /\ lineErr' = lineErr + (IF x THEN LineDy ELSE IF y THEN LineDx ELSE 0)
LineTurn(x, y) ==
    /\ lineAt' = <<lineAt[1] + (IF x THEN LineSx ELSE 0), lineAt[2] + (IF y THEN LineSy ELSE 0)>>
    /\ lineErr' = lineErr + (IF x THEN LineDy ELSE 0) + (IF y THEN LineDx ELSE 0)

\* One turn of the loop: e2 is taken before both moves.
LineNext ==
    /\ lineAt # lineB
    /\ \E hiddenX, hiddenY \in BOOLEAN :
          LET y == LineMovesY /\ ~LineLeaves(hiddenX)
          IN  /\ LineTurn(LineMovesX, y)
              /\ linePixels' = linePixels \o (IF LineMovesX THEN LineShown(LineAside, hiddenX) ELSE <<>>)
                                          \o (IF y THEN LineShown(lineAt', hiddenY) ELSE <<>>)
    /\ UNCHANGED <<lineKind, lineA, lineB>>

LineSpec == LineInit /\ [][LineNext]_lineVars

----------------------------------------------------------------------------

LineTypeOK ==
    /\ lineKind \in LineKinds
    /\ lineA \in LinePoints /\ lineB \in LinePoints
    /\ lineAt \in Int \X Int
    /\ lineErr \in Int
    /\ linePixels \in Seq(Int \X Int)

LineBetween(n, a, b) == (a <= n /\ n <= b) \/ (b <= n /\ n <= a)

\* The walk never passes B, on either axis, whatever it leaves out: a loop that tests for B only by
\* being there would not end.
LineStays == LineBetween(lineAt[1], lineA[1], lineB[1]) /\ LineBetween(lineAt[2], lineA[2], lineB[2])

LineLeft(at) == LineAbs(lineB[1] - at[1]) + LineAbs(lineB[2] - at[2])

\* A turn of the loop brings it nearer to B: with LineStays, the loop ends.
LineNears == [][LineLeft(lineAt') < LineLeft(lineAt)]_lineAt

LineOff(p) == LineAbs((lineB[1] - lineA[1]) * (p[2] - lineA[2]) - (lineB[2] - lineA[2]) * (p[1] - lineA[1]))

\* What is drawn is the line: no pixel is more than one and a half away from it, none is drawn twice, those of a
\* line that stays on the screen are next to one another, and the last is B.
LineIsDrawn ==
    LET whole == lineKind # "depth" /\ LineOnScreen(lineA) /\ LineOnScreen(lineB)
        from == IF lineKind = "pixels" THEN <<lineA>> \o linePixels ELSE linePixels
    IN  /\ \A i \in DOMAIN linePixels : 2 * LineOff(linePixels[i]) <= 3 * (IF LineDx > -LineDy THEN LineDx ELSE -LineDy)
        /\ \A i, j \in DOMAIN linePixels : linePixels[i] = linePixels[j] => i = j
        /\ whole => /\ \A i \in 2..Len(from) :
                          LineAbs(from[i][1] - from[i - 1][1]) + LineAbs(from[i][2] - from[i - 1][2]) = 1
                    /\ from[Len(from)] = lineAt
=============================================================================
