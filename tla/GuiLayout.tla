----------------------------- MODULE GuiLayout -----------------------------
(***************************************************************************)
(* Where the controls of a GUI lie on the screen (llc/gpk_gui.cpp,         *)
(* gpk_gui_draw.cpp, gpk_rect_align.h): the areas computed for each        *)
(* control are a cache, and the flag Updated of a control says that its    *)
(* area needs not be computed again.  The program changes placements and   *)
(* texts and clears flags; a turn of input (updateFramework) and the       *)
(* drawing compute the areas of the controls whose flag is clear.          *)
(*                                                                         *)
(* The tables of controls are those the repository builds, with small      *)
(* numbers.  Lengths fit 16 bits; the zoom is an integer, its halves are   *)
(* out of the bound.  The areas of the borders and of the text follow from *)
(* the other two when a control is drawn.                                  *)
(***************************************************************************)
EXTENDS Integers, Sequences, SequencesExt, FiniteSetsExt

CONSTANTS
    LayoutPrograms, \* [controls, moves, texts]: the table each program builds, the [control, axis, field,
                    \* value, told] by which it sets "at" or "size", the controls whose text it sets
    LayoutSizes,    \* of the window
    LayoutChars,    \* lengths of the texts the program sets
    LayoutZooms     \* bound: of gui.Zoom

ASSUME LayoutAssumption ==
    /\ LayoutZooms \subseteq Nat \ {0} /\ 1 \in LayoutZooms
    /\ \A program \in LayoutPrograms :
           \A c \in DOMAIN program.controls : program.controls[c].parent \in 0..c - 1

LayoutNone == 0     \* -1
LayoutMax == 32767  \* SizeMinMax, which no program changes
LayoutCharSize == [x |-> 2, y |-> 3]
LayoutNoSize == [x |-> 0, y |-> 0]

VARIABLES
    layoutProgram,  \* what the program does
    layoutTable,    \* [parent, chars, x, y] of each control: its Parent, the length of its Text, and
                    \* its Placement and Constraints on each axis as LayoutAxis gives them
    layoutAreas,    \* Area
    layoutUpdated,  \* the controls with the flag Updated
    layoutZoom,     \* gui.Zoom
    layoutWindow,   \* the size of the window and of what is drawn on
    layoutLast,     \* LastSize and LastZoom
    layoutUntold,   \* controls an area or a zoom they follow changed for, unknown to them (not in the code)
    layoutDrawn     \* guiDraw was the last call (not in the code)

layoutVars == <<layoutProgram, layoutTable, layoutAreas, layoutUpdated, layoutZoom, layoutWindow, layoutLast, layoutUntold, layoutDrawn>>

LayoutControls == DOMAIN layoutTable
LayoutRoots == SelectSeq([c \in LayoutControls |-> c], LAMBDA c : layoutTable[c].parent = LayoutNone)
LayoutChildren(c) == SelectSeq([d \in LayoutControls |-> d], LAMBDA d : layoutTable[d].parent = c)

----------------------------------------------------------------------------
\* The area of a control on one axis

\* SControlPlacement and SControlConstraints on an axis: border is the width of border and margin on
\* both sides, attach the control the size follows, far the one to the right or below of which and
\* near the one at which it is docked.
LayoutAxis(at, size, border, align, attach, text, far, near) ==
    [at |-> at, size |-> size, border |-> border, align |-> align, attach |-> attach, text |-> text, far |-> far, near |-> near]

LayoutAligned(target, at, size, align) ==
    CASE align = "center" -> at + (target \div 2) - (size \div 2)
      [] align = "far" -> target - (size + at)
      [] OTHER -> at

\* controlUpdateMetrics before the docks.
LayoutMeasured(c, a, areas, zoom, size) ==
    LET spec == layoutTable[c][a]
        parent == layoutTable[c].parent
        chars == IF a = "x" THEN layoutTable[c].chars ELSE 1
        target == IF parent = LayoutNone THEN size[a] ELSE areas[parent][a].clientSize
        origin == IF parent = LayoutNone THEN 0 ELSE areas[parent][a].clientAt
        place == IF spec.attach # LayoutNone /\ spec.near = LayoutNone THEN 0 ELSE spec.at * zoom
        wanted == CASE spec.attach = c -> target
                    [] spec.attach # LayoutNone -> areas[spec.attach][a].size
                    [] spec.text -> (LayoutCharSize[a] * chars + 2 * spec.border) * zoom
                    [] OTHER -> spec.size * zoom
        total == Max({0, Min({LayoutMax * zoom, wanted})})
        local == LayoutAligned(target, place, total, spec.align)
    IN  [local |-> local, at |-> origin + local, size |-> total,
         clientAt |-> origin + local + spec.border * zoom, clientSize |-> wanted - 2 * spec.border * zoom]

LayoutMoved(area, at, border) == [area EXCEPT !.at = at, !.clientAt = at + border]

BugLayoutDockedFar(area, other, align, border, fills, target) ==
    LayoutMoved(area, IF align = "far" THEN other.at - area.size ELSE other.at + other.size, border)
\* DockToControl.Right and .Bottom: a control aligned to the far side has it before it, others after.
LayoutDockedFar(area, other, align, border, fills, target) ==
    LET before == LayoutMoved(area, other.at - area.size, border)
        difference == target - other.local
    IN  CASE align # "far" -> LayoutMoved(area, other.at + other.size, border)
          [] fills -> [before EXCEPT !.size = @ - difference, !.clientSize = @ - difference,
                           !.at = @ + difference, !.clientAt = @ + difference]
          [] OTHER -> before

\* DockToControl.Left: the same side as the other control.
LayoutDockedLeft(area, other, align, border) ==
    LayoutMoved(area, IF align = "far" THEN other.at + other.size - area.size ELSE other.at, border)

\* DockToControl.Top: before the other control, or as far after it as the control was placed.
LayoutDockedTop(area, other, align, border) ==
    LayoutMoved(area, IF align = "far" THEN other.at - area.size ELSE other.at + area.at, border)

\* controlUpdateMetrics: the area, from those of the controls it follows.
LayoutArea(c, areas, zoom, size) ==
    [a \in {"x", "y"} |->
        LET spec == layoutTable[c][a]
            parent == layoutTable[c].parent
            target == IF parent = LayoutNone THEN size[a] ELSE areas[parent][a].clientSize
            measured == LayoutMeasured(c, a, areas, zoom, size)
            align(d) == layoutTable[d][a].align
            far == IF spec.far = LayoutNone THEN measured
                   ELSE LayoutDockedFar(measured, areas[spec.far][a], align(spec.far), spec.border * zoom, a = "x" /\ spec.attach = c, target)
        IN  CASE spec.near = LayoutNone -> far
              [] a = "x" -> LayoutDockedLeft(far, areas[spec.near][a], align(spec.near), spec.border * zoom)
              [] OTHER -> LayoutDockedTop(far, areas[spec.near][a], align(spec.near), spec.border)]

----------------------------------------------------------------------------
\* The updates, on [areas, updated]

\* controlUpdateMetrics and controlUpdateMetricsTopToDown: what a control is docked to on the x axis
\* is computed first, with all that is below it.
RECURSIVE LayoutUpdateBelow(_, _, _, _, _)
LayoutUpdateOne(s, c, zoom, size) ==
    LET docks == SelectSeq(<<layoutTable[c].x.far, layoutTable[c].x.near>>, LAMBDA d : d # LayoutNone)
        docked == FoldLeft(LAMBDA t, d : LayoutUpdateBelow(t, d, zoom, size, TRUE), s, docks)
    IN  [areas |-> [docked.areas EXCEPT ![c] = LayoutArea(c, docked.areas, zoom, size)],
         updated |-> docked.updated \cup {c}]
LayoutUpdateBelow(s, c, zoom, size, force) ==
    FoldLeft(LAMBDA t, child : LayoutUpdateBelow(t, child, zoom, size, force),
        IF force \/ c \notin s.updated THEN LayoutUpdateOne(s, c, zoom, size) ELSE s, LayoutChildren(c))

\* guiUpdateMetrics
LayoutUpdated(areas, updated, zoom, size, force) ==
    FoldLeft(LAMBDA s, c : LayoutUpdateBelow(s, c, zoom, size, force), [areas |-> areas, updated |-> updated], LayoutRoots)

\* The control and those under it, which controlMetricsInvalidate makes outdated.
RECURSIVE LayoutBelow(_)
LayoutBelow(c) == {c} \cup UNION {LayoutBelow(d) : d \in Range(LayoutChildren(c))}

LayoutSources(c) ==
    ({layoutTable[c].parent} \cup UNION {{layoutTable[c][a].attach, layoutTable[c][a].far, layoutTable[c][a].near} : a \in {"x", "y"}})
        \ {LayoutNone, c}
\* The controls whose area depends on that of this one.
RECURSIVE LayoutFollowers(_)
LayoutFollowers(c) == {c} \cup UNION {LayoutFollowers(d) : d \in {d \in LayoutControls : c \in LayoutSources(d)}}
----------------------------------------------------------------------------
\* The operations

\* guiCreateControlList: count controls, each docked to the one before it unless no direction is given.
LayoutListed(direction, parent, first, count, at, size, border, align, chars) ==
    [i \in 1..count |->
        LET before == IF i = 1 THEN LayoutNone ELSE first + i - 2
            across == direction \in {"left", "right"}
            docked(d) == IF direction = d THEN before ELSE LayoutNone
        IN  [parent |-> parent, chars |-> chars,
             x |-> LayoutAxis(IF across THEN at + size * (i - 1) ELSE at, size, border, align,
                       IF direction \in {"up", "down"} THEN parent ELSE LayoutNone, across, docked("right"), docked("left")),
             y |-> LayoutAxis(IF across THEN at ELSE at + size * (i - 1), size, border, align,
                       IF across THEN parent ELSE LayoutNone, FALSE, docked("down"), docked("up"))]]

\* Nothing has been drawn: LastSize is zero.
LayoutInit ==
    /\ layoutProgram \in LayoutPrograms
    /\ layoutTable = layoutProgram.controls
    /\ layoutAreas = [c \in LayoutControls |-> [a \in {"x", "y"} |-> [local |-> 0, at |-> 0, size |-> 0, clientAt |-> 0, clientSize |-> 0]]]
    /\ layoutUpdated = {}
    /\ layoutZoom = 1
    /\ layoutWindow \in LayoutSizes
    /\ layoutLast = [size |-> LayoutNoSize, zoom |-> 1]
    /\ layoutUntold = {} /\ layoutDrawn = FALSE

\* The window is resized, and its back buffer with it.
LayoutResize(size) ==
    /\ size # layoutWindow
    /\ layoutWindow' = size
    /\ layoutDrawn' = FALSE
    /\ UNCHANGED <<layoutProgram, layoutTable, layoutAreas, layoutUpdated, layoutZoom, layoutLast, layoutUntold>>

\* The program changes the table, which concerns some controls: it outdates those told, all of those
\* it means to tell.
LayoutChange(table, concerned, meant, told) ==
    /\ table # layoutTable
    /\ layoutTable' = table
    /\ layoutUpdated' = layoutUpdated \ told
    /\ layoutUntold' = layoutUntold \cup (concerned \ meant)
    /\ layoutDrawn' = FALSE
    /\ UNCHANGED <<layoutProgram, layoutAreas, layoutZoom, layoutWindow, layoutLast>>

BugLayoutInvalidated(c) == {c}
\* controlMetricsInvalidate
LayoutInvalidated(c) == LayoutBelow(c)

\* sliderSetValue, viewportFold and viewportDrag: a control is placed, and the control they name
\* invalidated, which is its parent, or itself when it is dragged or a root.
LayoutPlace(move) ==
    LayoutChange([layoutTable EXCEPT ![move.control][move.axis] = [@ EXCEPT ![move.field] = move.value]],
        LayoutFollowers(move.control), LayoutBelow(move.told), LayoutInvalidated(move.told))

\* controlTextSet: the control alone is outdated, though others follow its size.
LayoutText(c, chars) ==
    LayoutChange([layoutTable EXCEPT ![c].chars = chars], IF layoutTable[c].x.text THEN LayoutFollowers(c) ELSE {c}, {c}, {c})

\* updateFramework: what the wheel makes of the zoom.
LayoutWheel(turns) ==
    CASE turns = 0 -> layoutZoom
      [] layoutZoom > 1 -> layoutZoom + turns
      [] OTHER -> IF turns > 0 THEN layoutZoom * 2 ELSE layoutZoom \div 2

\* updateFramework: guiProcessInput updates for the size last drawn; after the wheel,
\* all is computed again for the window.
LayoutTurn(turns) ==
    LET turned == IF layoutLast.size = LayoutNoSize THEN [areas |-> layoutAreas, updated |-> layoutUpdated]
                  ELSE LayoutUpdated(layoutAreas, layoutUpdated, layoutZoom, layoutLast.size, FALSE)
        zoomed == IF turns = 0 THEN turned
                  ELSE LayoutUpdated(turned.areas, turned.updated, LayoutWheel(turns), layoutWindow, TRUE)
    IN  /\ LayoutWheel(turns) \in LayoutZooms
        /\ layoutZoom' = LayoutWheel(turns)
        /\ layoutAreas' = zoomed.areas /\ layoutUpdated' = zoomed.updated
        /\ layoutUntold' = CASE turns = 0 -> layoutUntold
                             [] layoutWindow = layoutLast.size -> {}
                             [] OTHER -> LayoutControls
        /\ layoutDrawn' = FALSE
        /\ UNCHANGED <<layoutProgram, layoutTable, layoutWindow, layoutLast>>

BugLayoutNoticed == layoutLast.size # layoutWindow
\* guiDraw: the size or the zoom is not that of the last drawing.
LayoutNoticed == layoutLast # [size |-> layoutWindow, zoom |-> layoutZoom]

\* guiDraw
LayoutDraw ==
    LET drawn == LayoutUpdated(layoutAreas, IF LayoutNoticed THEN {} ELSE layoutUpdated, layoutZoom, layoutWindow, FALSE)
    IN  /\ layoutAreas' = drawn.areas /\ layoutUpdated' = drawn.updated
        /\ layoutLast' = [size |-> layoutWindow, zoom |-> layoutZoom]
        /\ layoutUntold' = IF layoutLast' # layoutLast THEN {} ELSE layoutUntold
        /\ layoutDrawn' = TRUE
        /\ UNCHANGED <<layoutProgram, layoutTable, layoutZoom, layoutWindow>>

\* controlDrawHierarchy of the root, as brt and gme call it: a new size outdates the areas it draws,
\* the next turn computes them.
LayoutDrawHierarchy ==
    /\ layoutLast' = [layoutLast EXCEPT !.size = layoutWindow]
    /\ layoutUpdated' = IF layoutLast' # layoutLast THEN {} ELSE layoutUpdated
    /\ layoutUntold' = IF layoutLast' # layoutLast THEN {} ELSE layoutUntold
    /\ layoutDrawn' = FALSE
    /\ UNCHANGED <<layoutProgram, layoutTable, layoutAreas, layoutZoom, layoutWindow>>

LayoutNext ==
    \/ \E size \in LayoutSizes : LayoutResize(size)
    \/ \E move \in layoutProgram.moves : LayoutPlace(move)
    \/ \E c \in layoutProgram.texts, chars \in LayoutChars : LayoutText(c, chars)
    \/ \E turns \in -1..1 : LayoutTurn(turns)
    \/ LayoutDraw \/ LayoutDrawHierarchy

----------------------------------------------------------------------------
\* Properties

LayoutTypeOK ==
    /\ layoutUpdated \cup layoutUntold \subseteq LayoutControls
    /\ layoutZoom \in LayoutZooms /\ layoutWindow \in LayoutSizes
    /\ \A c \in LayoutControls : layoutAreas[c].x.size \in Nat /\ layoutAreas[c].y.size \in Int

RECURSIVE LayoutFresh(_)
LayoutFresh(c) == LayoutArea(c, [d \in LayoutSources(c) |-> LayoutFresh(d)], layoutZoom, layoutLast.size)

\* A control that counts as updated lies where computing all areas anew for the size last drawn would
\* put it, whatever was moved, resized and zoomed before, unless it follows something it was not told
\* of: the text of a control it is docked to or in, or a zoom computed for a window not yet drawn.
\* After guiDraw every control counts as updated.
LayoutIsFresh ==
    /\ \A c \in layoutUpdated \ layoutUntold : layoutAreas[c] = LayoutFresh(c)
    /\ layoutDrawn => layoutUpdated = LayoutControls

\* Docked controls meet: one begins where the other ends, and the title that fills the rest of a
\* line begins where its parent does; and the client area of a control is its area without its
\* border, unless it was moved above another while the GUI is zoomed.
LayoutDocksMeet ==
    \A c \in layoutUpdated \ layoutUntold : \A a \in {"x", "y"} :
        LET spec == layoutTable[c][a]
            area == layoutAreas[c][a]
        IN  /\ spec.far \in layoutUpdated \ layoutUntold =>
                   IF layoutTable[spec.far][a].align = "far"
                   THEN /\ area.at + area.size = layoutAreas[spec.far][a].at
                        /\ spec.attach = c => area.at = layoutAreas[layoutTable[c].parent][a].clientAt
                   ELSE area.at = layoutAreas[spec.far][a].at + layoutAreas[spec.far][a].size
            /\ spec.near = LayoutNone \/ a = "x" \/ layoutZoom = 1 =>
                   area.clientAt = area.at + spec.border * layoutZoom
            /\ area.size > 0 => area.clientSize = area.size - 2 * spec.border * layoutZoom
=============================================================================
