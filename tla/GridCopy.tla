------------------------------ MODULE GridCopy ------------------------------
(***************************************************************************)
(* Copies between grids (llc/gpk_grid_copy.h): a rectangle of a source is  *)
(* copied to a place of a target that it may overlap in part or not at     *)
(* all.  The functions copy, copy what differs from a colour (alpha), mix  *)
(* by the alpha of the source (blend) and list the bits that are set       *)
(* (bits); their overloads give a size, an offset in the source, both or   *)
(* neither.  Cells are <<column, row>> from 0, and what a call does is the *)
(* set of pairs <<target, source>> it copies.                              *)
(***************************************************************************)
EXTENDS Integers

CONSTANTS
    GridTarget,  \* metrics of the target
    GridSource,  \* metrics of the source
    GridOpaque,  \* the cells of the source that alpha, blend and bits do not skip
    GridOffsets, \* where in the target
    GridFrom,    \* where in the source
    GridSizes    \* sizes of rectangles

ASSUME GridAssumption ==
    /\ GridTarget \in Nat \X Nat /\ GridSource \in Nat \X Nat
    /\ GridOffsets \subseteq Int \X Int /\ GridFrom \subseteq Int \X Int /\ GridSizes \subseteq Nat \X Nat

VARIABLE gridCall \* the call: what it does is GridCopied of it

GridCells(metrics) == (0..(metrics[1] - 1)) \X (0..(metrics[2] - 1))
GridMin(a, b) == IF a < b THEN a ELSE b
GridMax(a, b) == IF a > b THEN a ELSE b
GridNone == <<>> \* the size of the overloads without one
GridAstray == {<<>>} \* cells that do not exist are read or written

GridKinds == {"copy", "alpha", "blend", "bits"}
\* What the call gives: a rectangle of the target, with or without an offset in the source, one of the
\* source, or offsets only.
GridForms == {"dstRect", "dstRectFrom", "srcRect", "offset"}

\* What is left of the source from where it meets the target, on axis i: the size is that of the
\* rectangle, wherever it starts.
GridWithin(call, i, length) == IF call.size = GridNone THEN length ELSE GridMin(length, call.size[i])
BugGridLength(call, i) ==
    LET stop == GridSource[i]
    IN  GridWithin(call, i, GridMin(stop - call.from[i], GridTarget[i] - GridMax(0, call.offset[i])))
GridLength(call, i) ==
    LET stop == GridSource[i] + GridMin(0, call.offset[i])
    IN  GridWithin(call, i, GridMin(stop - call.from[i], GridTarget[i] - GridMax(0, call.offset[i])))

\* maxX and maxY: the overloads with only a rectangle of the target keep maxY from being negative,
\* bits keeps both.
GridExtent(call) ==
    LET x == GridLength(call, 1)
        y == GridLength(call, 2)
    IN  IF call.kind = "bits" THEN <<GridMin(GridMax(0, x), GridTarget[1]), GridMin(GridMax(0, y), GridTarget[2])>>
        ELSE IF call.form = "dstRect" THEN <<x, GridMax(0, y)>>
        ELSE <<x, y>>

\* The functions that end in _ex: a negative count of rows is a large one, except for blend, which
\* takes off it what lies before the source and skips that.
GridPairs(call, extent) ==
    LET from == [i \in 1..2 |-> call.from[i] - GridMin(0, call.offset[i])]
        to == [i \in 1..2 |-> GridMax(0, call.offset[i])]
        count == [i \in 1..2 |-> IF call.kind = "blend" THEN extent[i] + GridMin(0, from[i]) ELSE extent[i]]
        all == {<<<<to[1] + x, to[2] + y>>, <<from[1] + x, from[2] + y>>>> :
                   x \in 0..(count[1] - 1), y \in 0..(count[2] - 1)}
        pairs == IF call.kind = "blend" THEN {p \in all : p[2][1] >= 0 /\ p[2][2] >= 0} ELSE all
    IN  IF call.kind \in {"copy", "alpha"} /\ count[2] < 0 THEN GridAstray
        ELSE IF \E p \in pairs : p[1] \notin GridCells(GridTarget) \/ p[2] \notin GridCells(GridSource) THEN GridAstray
        ELSE {p \in pairs : call.kind = "copy" \/ p[2] \in GridOpaque}
GridCopied(call) ==
    LET extent == GridExtent(call) IN IF extent[1] > 0 THEN GridPairs(call, extent) ELSE {}

----------------------------------------------------------------------------

GridCalls ==
    [kind : GridKinds, form : GridForms, offset : GridOffsets, from : GridFrom, size : GridSizes \cup {GridNone}]

GridNothing == [kind |-> "bits", form |-> "offset", offset |-> <<0, 0>>, from |-> <<0, 0>>, size |-> <<0, 0>>]
GridInit == gridCall = GridNothing

\* Only blend is given an offset before the source.
GridNext ==
    /\ gridCall = GridNothing
    /\ \E kind \in GridKinds, form \in GridForms, offset \in GridOffsets, from \in GridFrom, size \in GridSizes \cup {GridNone} :
          /\ (form = "offset") = (size = GridNone)
          /\ form = "dstRect" => from = <<0, 0>>
          /\ kind = "bits" => form = "dstRectFrom"
          /\ kind # "blend" => from[1] >= 0 /\ from[2] >= 0
          /\ gridCall' = [kind |-> kind, form |-> form, offset |-> offset, from |-> from, size |-> size]

GridSpec == GridInit /\ [][GridNext]_gridCall

----------------------------------------------------------------------------

GridTypeOK == gridCall \in GridCalls \cup {GridNothing}

\* The cells of the rectangle of the source that lie on the target, each with its place there.
GridOverlap(call) ==
    LET Place(s) == [i \in 1..2 |-> s[i] - call.from[i] + call.offset[i]]
        Held(s) == \A i \in 1..2 :
                      s[i] >= call.from[i] /\ (call.size = GridNone \/ s[i] < call.from[i] + call.size[i])
    IN  {<<Place(s), s>> : s \in {s \in GridCells(GridSource) :
            Held(s) /\ Place(s) \in GridCells(GridTarget) /\ (call.kind = "copy" \/ s \in GridOpaque)}}

\* A call copies what lies on the target, each cell to its place. A rectangle that starts before the
\* target may have more copied than it holds, a blend from before the source less than it could; rows
\* run astray only where there is nothing to copy, and never of blend and bits.
GridCopiesOverlap ==
    LET copied == GridCopied(gridCall)
        overlap == GridOverlap(gridCall)
        whole == GridOverlap([gridCall EXCEPT !.size = GridNone])
        Inside(v) == v[1] >= 0 /\ v[2] >= 0
    IN  IF copied = GridAstray THEN overlap = {} /\ gridCall.kind \in {"copy", "alpha"} /\ gridCall.form # "dstRect"
        ELSE /\ copied \subseteq whole
             /\ Inside(gridCall.from) => overlap \subseteq copied
             /\ Inside(gridCall.from) /\ (Inside(gridCall.offset) \/ gridCall.form = "offset") => copied = overlap
=============================================================================
