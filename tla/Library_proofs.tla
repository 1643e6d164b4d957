--------------------------- MODULE Library_proofs ----------------------------
(***************************************************************************)
(* Theorems about six components of the library and of its applications    *)
(* that no other module composes:                                          *)
(*   - ArrayCircular implements BoundedQueue.  The refinement rests on one *)
(*     fact, that the k-th element of the two views is in the slot         *)
(*     (Offset + k - 1) % mAx (PairElements): next and push_back are then  *)
(*     a Tail and an Append.                                               *)
(*   - Raster: the walk of a line, for every screen and every two points,  *)
(*     never passes its end, and every turn of its loop brings it nearer.  *)
(*     The error is a function of the moves made on each axis; when all of *)
(*     one axis have been made it forbids another.                         *)
(*   - AppRuntime: the render thread does not draw what main cleans up, if *)
(*     it had counted itself in time.  RenderThreadUsers counts the        *)
(*     threads until main leaves in it the -1 it goes by.                  *)
(*   - DryerProgram: a program dries for its whole time, whatever its      *)
(*     durations, its subcycles and the length of the frames: what the     *)
(*     clock and the counters of the phases disagree on grows by at most a *)
(*     frame where a phase ends, and nowhere else.                         *)
(*   - GridCopy: a copy between grids is of what overlaps.  On each axis   *)
(*     the count that the code computes is the extent of the overlap       *)
(*     (GridExtentIs), and each cell of the overlap is met by one turn.    *)
(*   - PayloadFormat: what is packed is unpacked from it.  The k-th part   *)
(*     of a pack lies between the bytes of the parts before it and its own *)
(*     (FormatPartIs), which is where its sizes say if they can            *)
(*     (FormatEndsAre); a pack that is sent is too short for its count to  *)
(*     wrap.                                                               *)
(***************************************************************************)
EXTENDS ArrayCircular, Raster, AppRuntime, DryerProgram, GridCopy, PayloadFormat, Storage_proofs,
        SequenceTheorems, TLAPS

----------------------------------------------------------------------------
\* ArrayCircular

\* The slot that x wraps to, for any x of the sums that the code makes.
LEMMA WrapOnce ==
    ASSUME NEW x \in Nat, x < 2 * RingSize
    PROVE  x % RingSize = IF x < RingSize THEN x ELSE x - RingSize
  BY RingAssumption, SMT

\* array_circular keeps its type.
THEOREM RingTypeCorrect == RingSpec => []RingTypeOK
<1>1. RingInit => RingTypeOK
  BY RingAssumption DEF RingInit, RingTypeOK, RingSlots
<1>2. RingTypeOK /\ [RingNext]_ringVars => RingTypeOK'
  <2> SUFFICES ASSUME RingTypeOK, [RingNext]_ringVars PROVE RingTypeOK'
    OBVIOUS
  <2> USE RingAssumption DEF RingTypeOK, RingSlots, RingFree
  <2>1. CASE RingNextElement
    <3>1. ringOffset % RingSize \in RingSlots
      BY WrapOnce
    <3> QED BY <2>1, <3>1 DEF RingNextElement
  <2>2. ASSUME NEW value \in RingValues, RingPush(value)
        PROVE  /\ ringStorage' \in [RingSlots -> RingValues] /\ ringOutput' \in RingValues
               /\ ringOffset' \in RingSlots /\ ringCount' = ringCount + 1 /\ ringCount < RingSize
    BY <2>2 DEF RingPush
  <2>3. ASSUME NEW value \in RingValues, RingPushBack(value) PROVE RingTypeOK'
    BY <2>2, <2>3 DEF RingPushBack
  <2>4. ASSUME NEW value \in RingValues, RingReadOne(value) PROVE RingTypeOK'
    BY <2>2, <2>4 DEF RingReadOne
  <2>5. CASE RingReadBegin
    BY <2>5 DEF RingReadBegin
  <2>6. CASE RingReadEnd
    BY <2>6 DEF RingReadEnd
  <2>7. CASE UNCHANGED ringVars
    BY <2>7 DEF ringVars
  <2> QED BY <2>1, <2>3, <2>4, <2>5, <2>6, <2>7 DEF RingNext
<1> QED BY <1>1, <1>2, PTL DEF RingSpec

----------------------------------------------------------------------------
\* What the two views are, element by element.

PairIsInSlots ==
    /\ RingPair \in Seq(RingValues) /\ Len(RingPair) = ringCount
    /\ \A k \in 1..ringCount : RingPair[k] = ringStorage[(ringOffset + k - 1) % RingSize]

LEMMA PairElements == RingTypeOK => PairIsInSlots
<1> SUFFICES ASSUME RingTypeOK PROVE PairIsInSlots
  OBVIOUS
<1> USE RingAssumption DEF RingTypeOK, RingSlots
<1>1. /\ RingLeftCount \in 0..ringCount /\ ringOffset + RingLeftCount <= RingSize
      /\ RingRightCount = ringCount - RingLeftCount /\ RingRightCount <= RingSize
      /\ RingRightCount > 0 => ringOffset + RingLeftCount = RingSize
  BY DEF RingLeftCount, RingRightCount
<1>2. RingLeft \in Seq(RingValues) /\ Len(RingLeft) = RingLeftCount
  <2>1. RingLeft \in [1..RingLeftCount -> RingValues]
    BY <1>1 DEF RingLeft
  <2> QED BY <1>1, <2>1, SeqDef, LenProperties
<1>3. RingRight \in Seq(RingValues) /\ Len(RingRight) = RingRightCount
  <2>1. RingRight \in [1..RingRightCount -> RingValues]
    BY <1>1 DEF RingRight
  <2> QED BY <1>1, <2>1, SeqDef, LenProperties
<1>4. /\ RingPair \in Seq(RingValues) /\ Len(RingPair) = RingLeftCount + RingRightCount
      /\ \A k \in 1..RingLeftCount + RingRightCount :
            RingPair[k] = IF k <= RingLeftCount THEN RingLeft[k] ELSE RingRight[k - RingLeftCount]
  <2>1. ASSUME NEW s \in Seq(RingValues), NEW t \in Seq(RingValues)
        PROVE  /\ s \o t \in Seq(RingValues) /\ Len(s \o t) = Len(s) + Len(t)
               /\ \A k \in 1..Len(s) + Len(t) : (s \o t)[k] = IF k <= Len(s) THEN s[k] ELSE t[k - Len(s)]
    BY ConcatProperties
  <2> QED BY <1>2, <1>3, <2>1, Zenon DEF RingPair
<1>5. ASSUME NEW k \in 1..ringCount
      PROVE  RingPair[k] = ringStorage[(ringOffset + k - 1) % RingSize]
  <2> DEFINE x == ringOffset + k - 1
  <2>1. x \in Nat /\ x < 2 * RingSize
    OBVIOUS
  <2>2. x % RingSize = IF x < RingSize THEN x ELSE x - RingSize
    <3> HIDE DEF x
    <3> QED BY <2>1, WrapOnce
  <2>3. CASE k <= RingLeftCount
    BY <1>1, <1>4, <2>2, <2>3 DEF RingLeft
  <2>4. CASE k > RingLeftCount
    <3>1. ringOffset + RingLeftCount = RingSize
      BY <1>1, <2>4
    <3>2. RingPair[k] = RingRight[k - RingLeftCount]
      <4>1. k \in 1..RingLeftCount + RingRightCount /\ ~(k <= RingLeftCount)
        BY <1>1, <2>4
      <4> QED BY <1>4, <4>1, Zenon
    <3>3. RingRight[k - RingLeftCount] = ringStorage[k - RingLeftCount - 1]
      <4>1. k - RingLeftCount \in 1..RingRightCount
        BY <1>1, <2>4
      <4> QED BY <4>1, Zenon DEF RingRight
    <3>4. k - RingLeftCount - 1 = x - RingSize /\ ~(x < RingSize)
      BY <1>1, <2>4, <3>1
    <3>5. ringStorage[x % RingSize] = ringStorage[k - RingLeftCount - 1]
      <4> HIDE DEF x
      <4> QED BY <2>2, <3>4
    <3> QED BY <3>2, <3>3, <3>5, Zenon
  <2> QED BY <1>1, <2>3, <2>4
<1> QED BY <1>1, <1>4, <1>5 DEF PairIsInSlots

----------------------------------------------------------------------------
\* What next and push_back do to them.

LEMMA NextIsTake ==
    ASSUME RingTypeOK, RingTypeOK', RingNextElement
    PROVE  RingQueue!Take
<1> USE RingAssumption DEF RingTypeOK, RingSlots
<1>1. PairIsInSlots /\ PairIsInSlots'
  BY PairElements, PTL
<1>2. RingPair # <<>> /\ Head(RingPair) = RingPair[1]
  BY <1>1 DEF PairIsInSlots, RingNextElement
<1>3. ringOutput' = RingPair[1]
  BY <1>1 DEF PairIsInSlots, RingNextElement
<1>4. /\ Tail(RingPair) \in Seq(RingValues) /\ Len(Tail(RingPair)) = ringCount - 1
      /\ \A k \in 1..ringCount - 1 : Tail(RingPair)[k] = RingPair[k + 1]
  BY <1>1, <1>2, HeadTailProperties DEF PairIsInSlots
<1>5. ASSUME NEW k \in 1..ringCount - 1 PROVE RingPair'[k] = RingPair[k + 1]
  <2> DEFINE x == ringOffset + k
             y == ringOffset' + k - 1
  <2>1. x \in Nat /\ x < 2 * RingSize /\ y \in Nat /\ y < 2 * RingSize
    BY DEF RingNextElement
  <2>2. x % RingSize = (IF x < RingSize THEN x ELSE x - RingSize)
        /\ y % RingSize = (IF y < RingSize THEN y ELSE y - RingSize)
    <3> HIDE DEF x, y
    <3> QED BY <2>1, WrapOnce
  <2>3. y = x \/ (y = x - RingSize /\ y < RingSize)
    BY DEF RingNextElement
  <2>4. x % RingSize = y % RingSize
    <3> HIDE DEF x, y
    <3> QED BY <2>1, <2>2, <2>3
  <2>5. RingPair[k + 1] = ringStorage[x % RingSize]
    <3>1. k + 1 \in 1..ringCount /\ ringOffset + (k + 1) - 1 = x
      OBVIOUS
    <3> HIDE DEF x
    <3> QED BY <1>1, <3>1 DEF PairIsInSlots
  <2>6. RingPair'[k] = ringStorage'[y % RingSize]
    <3>1. k \in 1..ringCount'
      BY DEF RingNextElement
    <3> QED BY <1>1, <3>1 DEF PairIsInSlots
  <2>7. ringStorage' = ringStorage
    BY DEF RingNextElement
  <2> HIDE DEF x, y
  <2> QED BY <2>4, <2>5, <2>6, <2>7
<1>6. RingPair' = Tail(RingPair)
  <2>1. ringCount' = ringCount - 1
    BY DEF RingNextElement
  <2>2. RingPair' \in Seq(RingValues) /\ Len(RingPair') = ringCount - 1
    BY <1>1, <2>1 DEF PairIsInSlots
  <2>3. \A k \in 1..Len(RingPair') : RingPair'[k] = Tail(RingPair)[k]
    BY <1>4, <1>5, <2>2
  <2> QED BY <1>4, <2>2, <2>3, SeqEqual
<1> QED BY <1>2, <1>3, <1>6 DEF RingQueue!Take

LEMMA PushIsPut ==
    ASSUME RingTypeOK, RingTypeOK', NEW value \in RingValues, RingPush(value)
    PROVE  RingQueue!Put(value)
<1> USE RingAssumption DEF RingTypeOK, RingSlots, RingFree
<1>1. PairIsInSlots /\ PairIsInSlots'
  BY PairElements, PTL
<1>2. /\ ringCount' = ringCount + 1 /\ ringOffset' = ringOffset /\ ringCount < RingSize
      /\ ringOutput' = ringOutput
  BY DEF RingPush
<1>3. /\ Append(RingPair, value) \in Seq(RingValues) /\ Len(Append(RingPair, value)) = ringCount + 1
      /\ \A k \in 1..ringCount : Append(RingPair, value)[k] = RingPair[k]
      /\ Append(RingPair, value)[ringCount + 1] = value
  <2>1. RingPair \in Seq(RingValues) /\ Len(RingPair) = ringCount
    BY <1>1 DEF PairIsInSlots
  <2> HIDE DEF RingTypeOK, RingSlots, RingFree
  <2> QED BY ONLY <2>1, value \in RingValues, AppendProperties
<1> DEFINE slot(k) == (ringOffset + k - 1) % RingSize
<1>4. ASSUME NEW k \in 1..ringCount + 1
      PROVE  /\ RingPair'[k] = ringStorage'[slot(k)]
             /\ slot(k) \in RingSlots
             /\ k # ringCount + 1 => slot(k) # slot(ringCount + 1)
  <2> DEFINE x == ringOffset + k - 1
             y == ringOffset + (ringCount + 1) - 1
  <2>1. x \in Nat /\ x < 2 * RingSize /\ y \in Nat /\ y < 2 * RingSize
    BY <1>2
  <2>2. x % RingSize = (IF x < RingSize THEN x ELSE x - RingSize)
        /\ y % RingSize = (IF y < RingSize THEN y ELSE y - RingSize)
    <3> HIDE DEF x, y
    <3> QED BY <2>1, WrapOnce
  <2>3. x \in y - RingSize + 1..y /\ (k # ringCount + 1 => x # y)
    BY <1>2
  <2>4. /\ x % RingSize \in RingSlots
        /\ x # y => x % RingSize # y % RingSize
    <3> HIDE DEF x, y
    <3> QED BY <2>1, <2>2, <2>3
  <2>5. RingPair'[k] = ringStorage'[slot(k)]
    BY <1>1, <1>2 DEF PairIsInSlots
  <2>6. slot(k) = x % RingSize /\ slot(ringCount + 1) = y % RingSize
    OBVIOUS
  <2> HIDE DEF x, y, slot
  <2> QED BY <2>3, <2>4, <2>5, <2>6
<1>5. slot(ringCount + 1) = (ringOffset + ringCount) % RingSize
  <2>1. ringOffset + (ringCount + 1) - 1 = ringOffset + ringCount
    OBVIOUS
  <2> QED BY <2>1
<1>6. ringStorage' = [ringStorage EXCEPT ![slot(ringCount + 1)] = value]
  BY <1>5 DEF RingPush
<1>7. ASSUME NEW k \in 1..ringCount PROVE RingPair[k] = ringStorage[slot(k)]
  BY <1>1 DEF PairIsInSlots
<1>8. ASSUME NEW k \in 1..ringCount + 1 PROVE RingPair'[k] = Append(RingPair, value)[k]
  <2> HIDE DEF slot
  <2>1. CASE k = ringCount + 1
    BY <1>3, <1>4, <1>6, <2>1
  <2>2. CASE k # ringCount + 1
    <3>1. k \in 1..ringCount
      BY <2>2
    <3> QED BY <1>3, <1>4, <1>6, <1>7, <2>2, <3>1
  <2> QED BY <2>1, <2>2
<1>9. RingPair' = Append(RingPair, value)
  <2>1. RingPair' \in Seq(RingValues) /\ Len(RingPair') = ringCount + 1
    BY <1>1, <1>2 DEF PairIsInSlots
  <2> HIDE DEF slot
  <2> QED BY <1>3, <1>8, <2>1, SeqEqual
<1>10. Len(RingPair) < RingSize
  BY <1>1, <1>2 DEF PairIsInSlots
<1> QED BY <1>2, <1>9, <1>10 DEF RingQueue!Put

\* array_circular implements the bounded queue: what its views show is what was pushed and not
\* yet taken, in order, however often the offset has wrapped.
THEOREM RingImplementsQueue == RingSpec => RingIsQueue
<1>1. RingInit => RingQueue!Init
  <2> SUFFICES ASSUME RingInit PROVE RingQueue!Init
    OBVIOUS
  <2>1. RingTypeOK
    BY RingAssumption DEF RingInit, RingTypeOK, RingSlots
  <2>2. RingPair \in Seq(RingValues) /\ Len(RingPair) = 0
    BY <2>1, PairElements DEF PairIsInSlots, RingInit
  <2> QED BY <2>2, EmptySeq DEF RingQueue!Init, RingInit
<1>2. ASSUME RingTypeOK, RingTypeOK', [RingNext]_ringVars
      PROVE  [RingQueue!Next]_<<RingPair, ringOutput>>
  <2>1. CASE RingNextElement
    BY <1>2, <2>1, NextIsTake DEF RingQueue!Next
  <2>2. ASSUME NEW value \in RingValues, RingPushBack(value) \/ RingReadOne(value)
        PROVE  RingQueue!Next
    <3>1. RingPush(value)
      BY <2>2 DEF RingPushBack, RingReadOne
    <3> QED BY <1>2, <3>1, PushIsPut DEF RingQueue!Next
  <2>3. CASE UNCHANGED <<ringStorage, ringOffset, ringCount, ringOutput>>
    BY <2>3 DEF RingPair, RingLeft, RingRight, RingLeftCount, RingRightCount
  <2> QED BY <1>2, <2>1, <2>2, <2>3 DEF RingNext, RingReadBegin, RingReadEnd, ringVars
<1> QED BY <1>1, <1>2, RingTypeCorrect, PTL DEF RingSpec, RingIsQueue, RingQueue!Spec

----------------------------------------------------------------------------
\* Raster: lines

LineMoved(i) == IF lineA[i] < lineB[i] THEN lineAt[i] - lineA[i] ELSE lineA[i] - lineAt[i]

\* Strengthens LineStays: the moves made on each axis determine the error.
LineInv ==
    /\ LineTypeOK
    /\ 0 <= LineMoved(1) /\ LineMoved(1) <= LineDx
    /\ 0 <= LineMoved(2) /\ LineMoved(2) <= -LineDy
    /\ lineErr = LineDx + LineDy + LineMoved(1) * LineDy + LineMoved(2) * LineDx

\* A product with a factor that is not positive is not positive.
LEMMA ProductSign ==
    ASSUME NEW a \in Nat, NEW b \in Int, b <= 0
    PROVE  a * b \in Int /\ a * b <= 0
<1>1. a = 0 \/ a > 0
  OBVIOUS
<1> QED BY <1>1

\* The differences of the ends are integers, of the sign the names tell.
LEMMA LineDeltas ==
    ASSUME LineTypeOK
    PROVE  /\ lineA[1] \in Int /\ lineA[2] \in Int /\ lineB[1] \in Int /\ lineB[2] \in Int
           /\ lineA = <<lineA[1], lineA[2]>> /\ lineB = <<lineB[1], lineB[2]>> /\ lineAt = <<lineAt[1], lineAt[2]>>
           /\ lineAt[1] \in Int /\ lineAt[2] \in Int
           /\ LineDx \in Nat /\ -LineDy \in Nat /\ LineDy \in Int
           /\ lineErr \in Int /\ LineMoved(1) \in Int /\ LineMoved(2) \in Int
<1>1. lineA \in Int \X Int /\ lineB \in Int \X Int /\ lineAt \in Int \X Int /\ lineErr \in Int
  BY LineAssumption DEF LineTypeOK
<1>2. /\ lineA[1] \in Int /\ lineA[2] \in Int /\ lineB[1] \in Int /\ lineB[2] \in Int
      /\ lineA = <<lineA[1], lineA[2]>> /\ lineB = <<lineB[1], lineB[2]>> /\ lineAt = <<lineAt[1], lineAt[2]>>
      /\ lineAt[1] \in Int /\ lineAt[2] \in Int
  BY <1>1
<1>3. LineDx \in Nat /\ -LineDy \in Nat /\ LineDy \in Int
  BY <1>2 DEF LineDx, LineDy, LineAbs
<1>4. LineMoved(1) \in Int /\ LineMoved(2) \in Int
  BY <1>2 DEF LineMoved
<1> QED BY <1>1, <1>2, <1>3, <1>4

\* When all moves along x have been made, and not all along y, none along x is made.
LEMMA LineKeepsX ==
    ASSUME LineInv, LineMovesX, LineMoved(2) < -LineDy
    PROVE  LineMoved(1) < LineDx
<1>1. LineTypeOK /\ LineMoved(1) <= LineDx
  BY DEF LineInv
<1> USE LineDeltas, <1>1
<1>2. SUFFICES ASSUME LineMoved(1) = LineDx PROVE FALSE
  OBVIOUS
<1> DEFINE dx == LineDx
           dy == LineDy
           j == LineMoved(2)
<1>3. dx \in Nat /\ dy \in Int /\ j \in Int /\ 1 + j + dy \in Int /\ 1 + j + dy <= 0 /\ dy < 0
  BY DEF LineInv
<1>4. dx * (1 + j + dy) <= 0
  BY <1>3, ProductSign
<1>5. lineErr = dx + dy + dx * dy + j * dx
  BY <1>2 DEF LineInv
<1> HIDE DEF dx, dy, j
<1>6. dx * (1 + j + dy) = dx + dx * dy + j * dx
  BY <1>3
<1>7. lineErr <= dy
  BY <1>3, <1>4, <1>5, <1>6
<1>8. 2 * lineErr >= dy
  BY DEF LineMovesX, dy
<1> QED BY <1>3, <1>7, <1>8

\* When all moves along y have been made, and not all along x, none along y is made.
LEMMA LineKeepsY ==
    ASSUME LineInv, LineMovesY, LineMoved(1) < LineDx
    PROVE  LineMoved(2) < -LineDy
<1>1. LineTypeOK /\ LineMoved(2) <= -LineDy
  BY DEF LineInv
<1> USE LineDeltas, <1>1
<1>2. SUFFICES ASSUME LineMoved(2) = -LineDy PROVE FALSE
  OBVIOUS
<1> DEFINE dx == LineDx
           dy == LineDy
           i == LineMoved(1)
<1>3. dx \in Nat /\ dy \in Int /\ i \in Int /\ 1 + i - dx \in Int /\ 1 + i - dx <= 0 /\ -dy \in Nat /\ dx > 0
  BY DEF LineInv
<1>4. (-dy) * (1 + i - dx) <= 0
  BY <1>3, ProductSign
<1>5. lineErr = dx + dy + i * dy + (-dy) * dx
  BY <1>2 DEF LineInv
<1> HIDE DEF dx, dy, i
<1>6. (-dy) * (1 + i - dx) = -dy - (i * dy) - ((-dy) * dx)
  BY <1>3
<1>7. lineErr >= dx
  BY <1>3, <1>4, <1>5, <1>6
<1>8. 2 * lineErr <= dx
  BY DEF LineMovesY, dx
<1> QED BY <1>3, <1>7, <1>8

----------------------------------------------------------------------------

\* A turn moves by at most one on each axis, and towards B; it moves on one of them at least.
LEMMA LineTurns ==
    ASSUME LineInv, LineNext
    PROVE  \E x, y \in BOOLEAN :
              /\ x \/ y
              /\ x => LineMovesX
              /\ y => LineMovesY
              /\ LineTurn(x, y)
              /\ lineAt # lineB
              /\ UNCHANGED <<lineKind, lineA, lineB>>
<1>1. LineTypeOK
  BY DEF LineInv
<1>2. PICK hiddenX, hiddenY \in BOOLEAN : LineTurn(LineMovesX, LineMovesY /\ ~LineLeaves(hiddenX))
  BY DEF LineNext
<1>3. LineMovesX \in BOOLEAN /\ (LineMovesY /\ ~LineLeaves(hiddenX)) \in BOOLEAN
  BY DEF LineMovesX, LineMovesY
<1>4. LineMovesX \/ LineMovesY
  BY <1>1, LineDeltas DEF LineMovesX, LineMovesY
<1>5. LineLeaves(hiddenX) => LineMovesX
  BY DEF LineLeaves
<1> QED BY <1>2, <1>3, <1>4, <1>5 DEF LineNext

\* What a move does to the place and to the error, with the ends as they are.
LEMMA LineMoves ==
    ASSUME LineInv, NEW x \in BOOLEAN, NEW y \in BOOLEAN, x => LineMovesX, y => LineMovesY,
           LineTurn(x, y), lineAt # lineB, UNCHANGED <<lineKind, lineA, lineB>>
    PROVE  /\ lineAt' \in Int \X Int /\ lineErr' \in Int
           /\ LineMoved(1)' = LineMoved(1) + (IF x THEN 1 ELSE 0)
           /\ LineMoved(2)' = LineMoved(2) + (IF y THEN 1 ELSE 0)
           /\ LineMoved(1)' <= LineDx /\ LineMoved(2)' <= -LineDy
<1>1. LineTypeOK
  BY DEF LineInv
<1>2. LineSx \in {1, -1} /\ LineSy \in {1, -1}
  BY DEF LineSx, LineSy
<1>3. lineAt' \in Int \X Int /\ lineErr' \in Int
  BY <1>1, <1>2, LineDeltas DEF LineTurn
<1>4. /\ lineAt'[1] = lineAt[1] + (IF x THEN LineSx ELSE 0)
      /\ lineAt'[2] = lineAt[2] + (IF y THEN LineSy ELSE 0)
  BY <1>1, <1>2, LineDeltas DEF LineTurn
<1>5. LineMoved(1)' = LineMoved(1) + (IF x THEN 1 ELSE 0)
  BY <1>1, <1>4, LineDeltas DEF LineMoved, LineSx
<1>6. LineMoved(2)' = LineMoved(2) + (IF y THEN 1 ELSE 0)
  BY <1>1, <1>4, LineDeltas DEF LineMoved, LineSy
<1>7. LineMoved(1) < LineDx \/ LineMoved(2) < -LineDy
  <2>1. LineMoved(1) <= LineDx /\ LineMoved(2) <= -LineDy
    BY DEF LineInv
  <2>2. CASE lineAt[1] # lineB[1]
    BY <1>1, <2>2, <2>1, LineDeltas DEF LineMoved, LineDx, LineAbs
  <2>3. CASE lineAt[2] # lineB[2]
    BY <1>1, <2>3, <2>1, LineDeltas DEF LineMoved, LineDy, LineAbs
  <2> QED BY <1>1, <2>2, <2>3, LineDeltas
<1>8. x => LineMoved(1) < LineDx
  BY <1>7, LineKeepsX, LineDeltas, <1>1 DEF LineInv
<1>9. y => LineMoved(2) < -LineDy
  BY <1>7, LineKeepsY, LineDeltas, <1>1 DEF LineInv
<1> QED BY <1>1, <1>3, <1>5, <1>6, <1>8, <1>9, LineDeltas DEF LineInv

LEMMA LineInvStep == LineInv /\ [LineNext]_lineVars => LineInv'
<1> SUFFICES ASSUME LineInv, [LineNext]_lineVars PROVE LineInv'
  OBVIOUS
<1>1. CASE UNCHANGED lineVars
  BY <1>1 DEF lineVars, LineInv, LineTypeOK, LineMoved, LineDx, LineDy
<1>2. CASE LineNext
  <2>1. PICK x, y \in BOOLEAN :
           /\ x => LineMovesX
           /\ y => LineMovesY
           /\ LineTurn(x, y) /\ lineAt # lineB /\ UNCHANGED <<lineKind, lineA, lineB>>
    BY <1>2, LineTurns
  <2>2. LineTypeOK
    BY DEF LineInv
  <2>3. LineDx' = LineDx /\ LineDy' = LineDy
    BY <2>1 DEF LineDx, LineDy
  <2>4. /\ lineAt' \in Int \X Int /\ lineErr' \in Int
        /\ LineMoved(1)' = LineMoved(1) + (IF x THEN 1 ELSE 0)
        /\ LineMoved(2)' = LineMoved(2) + (IF y THEN 1 ELSE 0)
        /\ LineMoved(1)' <= LineDx /\ LineMoved(2)' <= -LineDy
    BY <2>1, LineMoves
  <2>5. LineTypeOK'
    <3>1. LineAside \in Int \X Int
      BY <2>2, LineDeltas DEF LineAside, LineSx
    <3>2. \A p \in Int \X Int, hidden \in BOOLEAN : LineShown(p, hidden) \in Seq(Int \X Int)
      BY DEF LineShown
    <3>3. linePixels' \in Seq(Int \X Int)
      BY <1>2, <2>2, <2>4, <3>1, <3>2 DEF LineNext, LineTypeOK
    <3> QED BY <2>1, <2>2, <2>4, <3>3 DEF LineTypeOK
  <2>6. lineErr' = lineErr + (IF x THEN LineDy ELSE 0) + (IF y THEN LineDx ELSE 0)
    BY <2>1 DEF LineTurn
  <2> DEFINE i == LineMoved(1)
             j == LineMoved(2)
             dx == LineDx
             dy == LineDy
  <2>7. i \in Int /\ j \in Int /\ dx \in Int /\ dy \in Int
    BY <2>2, LineDeltas
  <2>8. lineErr = dx + dy + i * dy + j * dx
    BY DEF LineInv
  <2>9. lineErr' = dx + dy + (i + (IF x THEN 1 ELSE 0)) * dy + (j + (IF y THEN 1 ELSE 0)) * dx
    <3> HIDE DEF i, j, dx, dy
    <3>1. (i + 1) * dy = i * dy + dy /\ (j + 1) * dx = j * dx + dx
      BY <2>7
    <3>2. lineErr' = lineErr + (IF x THEN dy ELSE 0) + (IF y THEN dx ELSE 0)
      BY <2>6 DEF dx, dy
    <3>3. i + 0 = i /\ j + 0 = j /\ i * dy \in Int /\ j * dx \in Int
      BY <2>7
    <3> QED BY <2>7, <2>8, <3>1, <3>2, <3>3
  <2>10. 0 <= LineMoved(1)' /\ 0 <= LineMoved(2)'
    BY <2>2, <2>4, LineDeltas DEF LineInv
  <2> QED BY <2>3, <2>4, <2>5, <2>9, <2>10 DEF LineInv
<1> QED BY <1>1, <1>2

LEMMA LineInvInit == LineInit => LineInv
<1> SUFFICES ASSUME LineInit PROVE LineInv
  OBVIOUS
<1>1. linePixels \in Seq(Int \X Int)
  <2>1. lineA \in Int \X Int /\ lineKind \in LineKinds
    BY LineAssumption DEF LineInit
  <2>2. <<lineA>> \in Seq(Int \X Int) /\ <<>> \in Seq(Int \X Int)
    BY <2>1
  <2>3. PICK hidden \in BOOLEAN : linePixels = LineFirst(lineKind, lineA, hidden)
    BY DEF LineInit
  <2>4. linePixels \in {<<>>, <<lineA>>}
    BY <2>1, <2>3 DEF LineFirst, LineKinds
  <2> QED BY <2>2, <2>4
<1>2. lineErr \in Int
  BY LineAssumption DEF LineInit, LineDx, LineDy, LineAbs
<1>3. LineTypeOK
  BY <1>1, <1>2, LineAssumption DEF LineInit, LineTypeOK
<1>4. LineMoved(1) = 0 /\ LineMoved(2) = 0
  BY <1>3, LineDeltas DEF LineInit, LineMoved
<1> QED BY <1>3, <1>4, LineDeltas DEF LineInit, LineInv

\* Whatever the screen, the ends and what the depth buffer hides, the walk of a line stays between its
\* ends and draws points.
THEOREM LineStaysCorrect == LineSpec => [](LineTypeOK /\ LineStays)
<1>1. LineInv => LineTypeOK /\ LineStays
  <2> SUFFICES ASSUME LineInv PROVE LineTypeOK /\ LineStays
    OBVIOUS
  <2>1. LineTypeOK
    BY DEF LineInv
  <2>2. LineBetween(lineAt[1], lineA[1], lineB[1])
    BY <2>1, LineDeltas DEF LineInv, LineMoved, LineDx, LineAbs, LineBetween
  <2>3. LineBetween(lineAt[2], lineA[2], lineB[2])
    BY <2>1, LineDeltas DEF LineInv, LineMoved, LineDy, LineAbs, LineBetween
  <2> QED BY <2>1, <2>2, <2>3 DEF LineStays
<1> QED BY <1>1, LineInvInit, LineInvStep, PTL DEF LineSpec

\* Every turn of the loop of drawLine leaves less of the line: there are as many turns as pixels between
\* the ends at most.
THEOREM LineNearsCorrect == LineSpec => LineNears
<1>1. LineInv /\ [LineNext]_lineVars => [LineLeft(lineAt') < LineLeft(lineAt)]_lineAt
  <2> SUFFICES ASSUME LineInv, LineNext PROVE LineLeft(lineAt') < LineLeft(lineAt)
    BY DEF lineVars
  <2>1. PICK x, y \in BOOLEAN :
           /\ x \/ y
           /\ x => LineMovesX
           /\ y => LineMovesY
           /\ LineTurn(x, y) /\ lineAt # lineB /\ UNCHANGED <<lineKind, lineA, lineB>>
    BY LineTurns
  <2>2. LineTypeOK
    BY DEF LineInv
  <2>3. /\ lineAt' \in Int \X Int
        /\ LineMoved(1)' = LineMoved(1) + (IF x THEN 1 ELSE 0)
        /\ LineMoved(2)' = LineMoved(2) + (IF y THEN 1 ELSE 0)
        /\ LineMoved(1)' <= LineDx /\ LineMoved(2)' <= -LineDy
    BY <2>1, LineMoves
  <2>4. lineA' = lineA /\ lineB' = lineB /\ lineAt'[1] \in Int /\ lineAt'[2] \in Int
    BY <2>1, <2>3
  <2>5. LineMoved(1) <= LineDx /\ LineMoved(2) <= -LineDy
    BY DEF LineInv
  <2>6. LineAbs(lineB[1] - lineAt[1]) = LineDx - LineMoved(1) /\ LineAbs(lineB[2] - lineAt[2]) = -LineDy - LineMoved(2)
    BY <2>2, <2>5, LineDeltas DEF LineAbs, LineDx, LineDy, LineMoved
  <2>7. LineAbs(lineB[1] - lineAt'[1]) = LineDx - LineMoved(1)'
    BY <2>2, <2>3, <2>4, LineDeltas DEF LineAbs, LineDx, LineMoved
  <2>8. LineAbs(lineB[2] - lineAt'[2]) = -LineDy - LineMoved(2)'
    BY <2>2, <2>3, <2>4, LineDeltas DEF LineAbs, LineDy, LineMoved
  <2> QED BY <2>1, <2>2, <2>3, <2>6, <2>7, <2>8, LineDeltas DEF LineLeft
<1> QED BY <1>1, LineInvInit, LineInvStep, PTL DEF LineSpec, LineNears
----------------------------------------------------------------------------
\* AppRuntime

AppAlive == {"begin", "loop", "process"}
AppEnded == {"wait", "sleep", "cleanup", "destroyed", "exited"}
AppDrawing == {"test", "drawing", "drawing GUI"}

\* The threads that have counted themselves and not reported that they are done.
AppCounted == (IF appMain \in AppAlive THEN 1 ELSE 0) + (IF appRender \in AppDrawing THEN 1 ELSE 0)

\* RenderThreadUsers counts the threads, until main has found 0 and left the -1 it goes by.  Finding a
\* 0 that the render thread has not counted itself into is what makes it late: its own count then makes
\* the -1 a 0, which the render thread never takes for the end.
AppCounterTells ==
    /\ appTimely => \/ appUsers = AppCounted /\ appMain \notin {"cleanup", "destroyed"}
                    \/ appUsers = -1 /\ appMain \in AppEnded /\ appRender \in {"none", "done"}
    /\ ~appTimely => /\ appMain \in AppEnded /\ appUsers \in {-1, 0}
                     /\ appRender = "new" => appUsers = -1

AppGuiIsLocked == appShares => ~(appRender = "drawing GUI" /\ appMain = "process")

AppRuntimeInv ==
    /\ AppTypeOK
    /\ appMain \in {"setup", "first", "start", "begin"} => appRender = "none" /\ appTimely
    /\ AppCounterTells
    /\ AppGuiIsLocked

LEMMA AppRuntimeInit == AppInit => AppRuntimeInv
  BY SMT DEF AppInit, AppRuntimeInv, AppTypeOK, AppCounterTells, AppGuiIsLocked, AppCounted, AppAlive,
             AppDrawing

\* What the counter tells, where it is looked at or left.
LEMMA AppCountedIs ==
    /\ AppCounted \in 0..2
    /\ appMain \in AppAlive => AppCounted = IF appRender \in AppDrawing THEN 2 ELSE 1
    /\ appMain \notin AppAlive => AppCounted = IF appRender \in AppDrawing THEN 1 ELSE 0
  BY DEF AppCounted

LEMMA AppLeaveLoopStep == AppRuntimeInv /\ AppLeaveLoop => AppRuntimeInv'
<1> SUFFICES ASSUME AppRuntimeInv, AppLeaveLoop PROVE AppRuntimeInv'
  OBVIOUS
<1>1. /\ appMain = "loop" /\ appMain' = "wait" /\ appUsers' = appUsers - 1
      /\ UNCHANGED <<appRender, appShares, appTimely>>
  BY DEF AppLeaveLoop, AppMainAt
<1>2. appTimely /\ appUsers = AppCounted /\ AppTypeOK
  BY <1>1 DEF AppRuntimeInv, AppCounterTells, AppEnded
<1>3. AppCounted \in 1..2
  BY <1>1, AppCountedIs DEF AppAlive
<1>4. AppCounted' = AppCounted - 1
  BY <1>1 DEF AppCounted, AppAlive
<1>5. AppTypeOK'
  <2>1. appUsers' \in -1..2
    BY <1>1, <1>2, <1>3
  <2>2. {appShares', appTimely'} \subseteq BOOLEAN
    BY <1>1, <1>2 DEF AppTypeOK
  <2> QED BY <1>1, <1>2, <2>1, <2>2 DEF AppTypeOK
<1>6. AppCounterTells' /\ AppGuiIsLocked'
  BY <1>1, <1>2, <1>3, <1>4 DEF AppCounterTells, AppGuiIsLocked
<1> QED BY <1>1, <1>5, <1>6 DEF AppRuntimeInv

LEMMA AppWaitStep == AppRuntimeInv /\ AppWait => AppRuntimeInv'
<1> SUFFICES ASSUME AppRuntimeInv, AppWait PROVE AppRuntimeInv'
  OBVIOUS
<1>1. /\ appMain = "wait" /\ appMain' = IF appUsers = -1 THEN "cleanup" ELSE "sleep"
      /\ appUsers' = IF appUsers = 0 THEN -1 ELSE appUsers
      /\ UNCHANGED <<appRender, appShares>>
  BY DEF AppWait, AppMainAt, AppExchange
<1>2. appTimely' = (appTimely /\ ~(appUsers = 0 /\ appRender = "new"))
  BY DEF AppWait
<1>3. AppTypeOK /\ AppCounterTells
  BY DEF AppRuntimeInv
<1>4. AppTypeOK' /\ AppGuiIsLocked'
  <2>1. appUsers' \in -1..2
    <3>1. appUsers \in -1..2
      BY <1>3 DEF AppTypeOK
    <3> QED BY <1>1, <3>1
  <2>2. {appShares', appTimely'} \subseteq BOOLEAN
    BY Zenon, <1>1, <1>3, <1>2 DEF AppTypeOK
  <2>3. appMain' \in {"cleanup", "sleep"}
    BY <1>1
  <2> QED BY <1>1, <1>3, <2>1, <2>2, <2>3 DEF AppTypeOK, AppGuiIsLocked
<1>5. AppCounted' = AppCounted /\ AppCounted = IF appRender \in AppDrawing THEN 1 ELSE 0
  BY <1>1 DEF AppCounted, AppAlive
<1>6. AppCounterTells'
  <2>1. CASE appUsers = -1
    <3>1. appMain' = "cleanup" /\ appUsers' = -1 /\ appUsers # 0
      BY <1>1, <2>1
    <3>3. appTimely' = appTimely
      BY Zenon, <1>1, <1>3, <1>2, <3>1 DEF AppTypeOK
    <3>2. appTimely => appRender \in {"none", "done"}
      BY <1>3, <1>5, <2>1 DEF AppCounterTells
    <3> QED BY <1>1, <1>3, <3>1, <3>2, <3>3 DEF AppCounterTells, AppEnded
  <2>2. CASE appUsers = 0
    <3>1. appMain' = "sleep" /\ appUsers' = -1
      BY <1>1, <2>2
    <3>2. appTimely => appRender \notin AppDrawing
      BY <1>3, <1>5, <2>2 DEF AppCounterTells
    <3>3. appTimely' => appRender \in {"none", "done"}
      BY <1>1, <1>3, <1>2, <2>2, <3>2 DEF AppTypeOK, AppDrawing
    <3> QED BY <1>1, <3>1, <3>3 DEF AppCounterTells, AppEnded
  <2>3. CASE appUsers \notin {-1, 0}
    <3>1. appMain' = "sleep" /\ appUsers' = appUsers
      BY <1>1, <2>3
    <3>2. appTimely' = appTimely
      BY Zenon, <1>3, <1>2, <2>3 DEF AppTypeOK
    <3> QED BY <1>1, <1>3, <1>5, <2>3, <3>1, <3>2 DEF AppCounterTells, AppEnded
  <2> QED BY <2>1, <2>2, <2>3
<1> QED BY <1>1, <1>4, <1>6 DEF AppRuntimeInv

LEMMA AppRuntimeStep == AppRuntimeInv /\ [AppNext]_appVars => AppRuntimeInv'
<1> SUFFICES ASSUME AppRuntimeInv, [AppNext]_appVars PROVE AppRuntimeInv'
  OBVIOUS
<1> USE DEF AppRuntimeInv, AppTypeOK, AppCounterTells, AppGuiIsLocked, AppCounted, AppAlive, AppEnded,
            AppDrawing, AppMainAt, AppRenderAt, AppExchange
<1>1. CASE AppSetup
  BY <1>1 DEF AppSetup
<1>2. CASE AppFirstUpdate
  BY <1>2 DEF AppFirstUpdate
<1>3. CASE AppStart
  BY <1>3 DEF AppStart
<1>4. CASE AppBeginThread
  BY <1>4 DEF AppBeginThread
<1>5. CASE AppProcessInput
  BY <1>5 DEF AppProcessInput
<1>6. CASE AppInputProcessed
  BY <1>6 DEF AppInputProcessed
<1>7. CASE AppLeaveLoop
  BY <1>7, AppLeaveLoopStep
<1>8. CASE AppWait
  BY <1>8, AppWaitStep
<1>9. CASE AppSlept
  BY <1>9 DEF AppSlept
<1>10. CASE AppDestroy
  BY <1>10 DEF AppDestroy
<1>11. CASE AppCountRender
  BY <1>11 DEF AppCountRender
<1>12. CASE AppTestUsers
  <2>1. CASE appUsers = 1
    BY <1>12, <2>1 DEF AppTestUsers
  <2>2. CASE appUsers # 1
    BY <1>12, <2>2 DEF AppTestUsers
  <2> QED BY <2>1, <2>2
<1>13. CASE AppDrawGUI
  BY <1>13 DEF AppDrawGUI
<1>14. CASE AppDrawn
  BY <1>14 DEF AppDrawn
<1>15. CASE UNCHANGED appVars
  BY <1>15 DEF appVars
<1> QED
  BY <1>1, <1>2, <1>3, <1>4, <1>5, <1>6, <1>7, <1>8, <1>9, <1>10, <1>11, <1>12, <1>13, <1>14, <1>15
  DEF AppNext, AppMainStep, AppRenderStep

\* The threads and the counter between them keep their types, and the counter stays from -1 to 2.
THEOREM AppTypeCorrect == AppSpec => []AppTypeOK
<1>1. AppRuntimeInv => AppTypeOK
  BY DEF AppRuntimeInv
<1> QED BY <1>1, AppRuntimeInit, AppRuntimeStep, PTL DEF AppSpec

\* The application is not drawn while main cleans it up, if the render thread had counted itself when
\* main looked for it; and where draw and update lock the same mutex no GUI is drawn while its input is
\* processed.
THEOREM RenderIsSafeCorrect == AppSpec => []RenderIsSafe
<1>1. AppRuntimeInv => RenderIsSafe
  BY DEF AppRuntimeInv, RenderIsSafe, AppCounterTells, AppGuiIsLocked, AppCounted, AppAlive, AppEnded,
         AppDrawing, AppTypeOK
<1> QED BY <1>1, AppRuntimeInit, AppRuntimeStep, PTL DEF AppSpec

----------------------------------------------------------------------------
\* DryerProgram

\* Where a running program is in its subcycles and phases.
DryerPhasesRun ==
    dryer.running =>
        /\ dryer.cycle = 0 \/ dryer.cycle < dryer.program.subcycles
        /\ dryer.phase = "raising" => dryer.cycle = 0
        /\ dryer.phase = "preheating" =>
               dryer.preheating = 0 \/ dryer.preheating < dryer.program.preheating
        /\ dryer.phase = "drying" => dryer.drying = 0 \/ dryer.drying < dryer.program.drying

\* A stop that was confirmed is taken by the next update: no dialog can ask for another before.
DryerStopsAreTaken ==
    /\ dryer.stopPending => dryerTurn = "update" /\ dryerModal # "stop"
    /\ dryerModal = "stop" => dryer.running

DryerInv == DryerTypeOK /\ DryerPhasesRun /\ DryerStopsAreTaken /\ DryerRunsItsProgram

\* The time of a subcycle, and of the subcycles that come after this one.
DryerSubcycleTime == dryer.program.preheating + dryer.program.drying
DryerOthersTime == (dryer.program.subcycles - dryer.cycle - 1) * DryerSubcycleTime

LEMMA DryerProducts ==
    ASSUME NEW n \in Int, NEW time \in Nat
    PROVE  /\ n * time \in Int
           /\ (n + 1) * time = n * time + time
           /\ (n - 1) * time = n * time - time
           /\ n <= 0 => n * time <= 0
<1>1. n * time \in Int /\ (n + 1) * time = n * time + time /\ (n - 1) * time = n * time - time
  OBVIOUS
<1>2. ASSUME n <= 0 PROVE n * time <= 0
  BY <1>2, ProductSign
<1> QED BY <1>1, <1>2

\* The fields that the arithmetic below is about.
LEMMA DryerNumbers ==
    ASSUME DryerTypeOK
    PROVE  /\ dryer.program.preheating \in Nat /\ dryer.program.drying \in Nat
           /\ dryer.program.subcycles \in Nat /\ dryer.cycle \in Nat
           /\ dryer.preheating \in Nat /\ dryer.drying \in Nat /\ dryer.remaining \in Int
           /\ DryerSubcycleTime \in Nat /\ DryerOthersTime \in Int
           /\ DryerPhasesEnded \in Nat
<1>1. /\ dryer.program.preheating \in Nat /\ dryer.program.drying \in Nat
      /\ dryer.program.subcycles \in Nat /\ dryer.cycle \in Nat
      /\ dryer.preheating \in Nat /\ dryer.drying \in Nat /\ dryer.remaining \in Int
  BY DryerAssumption DEF DryerTypeOK
<1>2. DryerSubcycleTime \in Nat /\ DryerPhasesEnded \in Nat
  BY <1>1 DEF DryerSubcycleTime, DryerPhasesEnded
<1>3. dryer.program.subcycles - dryer.cycle - 1 \in Int
  BY <1>1
<1>4. DryerOthersTime \in Int
  BY <1>2, <1>3, DryerProducts DEF DryerOthersTime
<1> QED BY <1>1, <1>2, <1>4

DryerLeftByPhase ==
    /\ dryer.phase = "raising" => DryerLeft = DryerOthersTime + DryerSubcycleTime
    /\ dryer.phase = "preheating" =>
           DryerLeft = DryerOthersTime + DryerSubcycleTime - dryer.preheating
    /\ dryer.phase = "drying" =>
           DryerLeft = DryerOthersTime + dryer.program.drying - dryer.drying
    /\ DryerLeft \in Int

LEMMA DryerLeftIs == DryerTypeOK => DryerLeftByPhase
<1> SUFFICES ASSUME DryerTypeOK PROVE DryerLeftByPhase
  OBVIOUS
<1> DEFINE others == dryer.program.subcycles - dryer.cycle - 1
<1>1. others \in Int
  BY DryerNumbers
<1>2. (others + 1) * DryerSubcycleTime = DryerOthersTime + DryerSubcycleTime
  BY <1>1, DryerNumbers, DryerProducts DEF DryerOthersTime
<1>3. dryer.phase \in {"raising", "preheating", "drying"}
  BY DEF DryerTypeOK, DryerPhases
<1>4. DryerLeft = CASE dryer.phase = "raising"    -> (others + 1) * DryerSubcycleTime
                    [] dryer.phase = "preheating" -> (others + 1) * DryerSubcycleTime - dryer.preheating
                    [] dryer.phase = "drying"     -> DryerOthersTime + dryer.program.drying - dryer.drying
  BY DEF DryerLeft, DryerSubcycleTime, DryerOthersTime
<1> HIDE DEF others
<1> QED BY <1>2, <1>3, <1>4, DryerNumbers DEF DryerLeftByPhase

LEMMA DryerLeftIsAfter == DryerTypeOK' => DryerLeftByPhase'
  BY DryerLeftIs, PTL

\* A frame more of difference is covered by one more phase that ended.
LEMMA DryerFrameLost ==
    ASSUME NEW ended \in Nat, NEW late \in Int, NEW ms \in DryerFrames, NEW frame \in DryerFrames,
           late <= ended * ms
    PROVE  \E longest \in DryerFrames : late + frame <= (ended + 1) * longest
<1>1. ms \in Nat /\ frame \in Nat
  BY DryerAssumption
<1>2. CASE frame <= ms
  <2>1. (ended + 1) * ms = ended * ms + ms /\ ended * ms \in Int
    BY <1>1, DryerProducts
  <2> QED BY <1>1, <1>2, <2>1
<1>3. CASE ms < frame
  <2>1. (ended + 1) * frame = ended * frame + frame /\ ended * frame \in Int /\ ended * ms \in Int
    BY <1>1, DryerProducts
  <2>2. ended * (ms - frame) <= 0
    BY <1>1, <1>3, ProductSign
  <2>3. ended * (ms - frame) = ended * ms - ended * frame
    BY <1>1
  <2>4. late + frame <= (ended + 1) * frame
    BY <1>1, <2>1, <2>2, <2>3
  <2> QED BY <2>4
<1> QED BY <1>1, <1>2, <1>3

\* The first part of DryerRunsItsProgram.
DryerOnTime ==
    dryer.running =>
        /\ dryer.remaining <= DryerLeft
        /\ \E ms \in DryerFrames : DryerLeft - dryer.remaining <= DryerPhasesEnded * ms
        /\ dryer.pump <=> dryer.phase = "drying"

\* A step that leaves the clock and the counters alone.
DryerClockStands ==
    /\ dryer'.program = dryer.program /\ dryer'.running = dryer.running
    /\ dryer'.phase = dryer.phase /\ dryer'.cycle = dryer.cycle
    /\ dryer'.preheating = dryer.preheating /\ dryer'.drying = dryer.drying
    /\ dryer'.remaining = dryer.remaining /\ dryer'.pump = dryer.pump

LEMMA DryerClockStep ==
    ASSUME DryerPhasesRun, DryerOnTime, DryerClockStands
    PROVE  DryerPhasesRun' /\ DryerOnTime'
<1>1. DryerLeft' = DryerLeft /\ DryerPhasesEnded' = DryerPhasesEnded
  BY DEF DryerClockStands, DryerLeft, DryerPhasesEnded
<1>2. DryerPhasesRun'
  BY DEF DryerClockStands, DryerPhasesRun
<1>3. DryerOnTime'
  BY <1>1 DEF DryerClockStands, DryerOnTime
<1> QED BY <1>2, <1>3

\* What a frame of the preheating or of the drying phase does: the clock loses it, and what the
\* counters have left loses it but for what the phase that ended had run over.
LEMMA DryerFrameStep ==
    ASSUME DryerTypeOK, DryerTypeOK', DryerOnTime, dryer.running, NEW ms \in DryerFrames,
           dryer'.remaining = dryer.remaining - ms,
           \/ DryerLeft' = DryerLeft - ms /\ DryerPhasesEnded' = DryerPhasesEnded
           \/ /\ DryerLeft - ms <= DryerLeft' /\ DryerLeft' <= DryerLeft
              /\ DryerPhasesEnded' = DryerPhasesEnded + 1,
           dryer'.pump <=> dryer'.phase = "drying"
    PROVE  DryerOnTime'
<1>1. /\ DryerLeft \in Int /\ DryerLeft' \in Int /\ dryer.remaining \in Int /\ ms \in Nat
      /\ DryerPhasesEnded \in Nat
  BY DryerLeftIs, DryerLeftIsAfter, DryerNumbers, DryerAssumption DEF DryerLeftByPhase
<1>2. dryer.remaining <= DryerLeft
  BY DEF DryerOnTime
<1>3. PICK longest \in DryerFrames : DryerLeft - dryer.remaining <= DryerPhasesEnded * longest
  BY DEF DryerOnTime
<1>4. dryer'.remaining <= DryerLeft'
  BY <1>1, <1>2
<1>5. \E m \in DryerFrames : DryerLeft' - dryer'.remaining <= DryerPhasesEnded' * m
  <2>1. CASE DryerLeft' = DryerLeft - ms /\ DryerPhasesEnded' = DryerPhasesEnded
    <3>1. DryerLeft' - dryer'.remaining = DryerLeft - dryer.remaining
      BY <1>1, <2>1
    <3> QED BY <1>3, <2>1, <3>1
  <2>2. CASE DryerLeft' <= DryerLeft /\ DryerPhasesEnded' = DryerPhasesEnded + 1
    <3> DEFINE late == DryerLeft - dryer.remaining
    <3>1. late \in Int
      BY <1>1
    <3>2. PICK m \in DryerFrames : late + ms <= (DryerPhasesEnded + 1) * m
      BY <1>1, <1>3, <3>1, DryerFrameLost
    <3>3. m \in Nat /\ (DryerPhasesEnded + 1) * m \in Int
      BY <1>1, DryerAssumption, DryerProducts
    <3>4. DryerLeft' - dryer'.remaining <= (DryerPhasesEnded + 1) * m
      BY <1>1, <2>2, <3>2, <3>3
    <3> QED BY <2>2, <3>4
  <2> QED BY <2>1, <2>2
<1> QED BY <1>4, <1>5 DEF DryerOnTime

LEMMA DryerPreheatStep ==
    ASSUME DryerInv, NEW ms \in DryerFrames, DryerPreheat(ms), dryerTurn' = "gui",
           UNCHANGED <<dryerScanned, dryerLoaded>>
    PROVE  DryerInv'
<1> DEFINE elapsed == dryer.preheating + ms
           done == elapsed >= dryer.program.preheating
<1>1. DryerTypeOK /\ DryerOnTime /\ DryerPhasesRun /\ DryerStopsAreTaken /\ DryerRunsItsProgram
  BY DEF DryerInv, DryerRunsItsProgram, DryerOnTime
<1>2. dryer.running /\ ~dryer.stopPending /\ dryer.phase = "preheating" /\ ~dryer.pump
  BY <1>1 DEF DryerPreheat, DryerAdvances, DryerOnTime, DryerTypeOK
<1>3. ms \in Nat /\ elapsed \in Nat
  BY <1>1, DryerNumbers, DryerAssumption
<1>4. dryerModal' = dryerModal /\ dryerStop' = TRUE
  BY <1>1, <1>2 DEF DryerPreheat, DryerRunsItsProgram
<1>5. CASE done
  <2>1. dryer' = [dryer EXCEPT !.remaining = @ - ms, !.preheating = elapsed, !.phase = "drying",
                               !.drying = 0, !.pump = TRUE]
    BY <1>1, <1>5 DEF DryerPreheat, DryerTypeOK
  <2>2. DryerTypeOK'
    <3>1. dryer.remaining - ms \in Int /\ "drying" \in DryerPhases
      BY <1>1, <1>3, DryerNumbers DEF DryerPhases
    <3> HIDE DEF elapsed
    <3> QED BY <1>1, <1>3, <1>4, <2>1, <3>1 DEF DryerTypeOK
  <2>3. /\ dryer'.program = dryer.program /\ dryer'.running /\ dryer'.phase = "drying"
        /\ dryer'.cycle = dryer.cycle /\ dryer'.drying = 0 /\ dryer'.pump
        /\ dryer'.remaining = dryer.remaining - ms /\ dryer'.stopPending = dryer.stopPending
    BY <1>1, <1>2, <2>1 DEF DryerTypeOK
  <2>4. DryerPhasesEnded' = DryerPhasesEnded + 1
    BY <1>1, <1>2, <2>3, DryerNumbers DEF DryerPhasesEnded
  <2>5. DryerOthersTime' = DryerOthersTime /\ DryerSubcycleTime' = DryerSubcycleTime
    BY <2>3 DEF DryerOthersTime, DryerSubcycleTime
  <2>6. /\ DryerLeft = DryerOthersTime + DryerSubcycleTime - dryer.preheating
        /\ DryerLeft' = DryerOthersTime + dryer.program.drying
    <3>1. DryerLeft' = DryerOthersTime' + dryer'.program.drying - dryer'.drying
      BY <2>2, <2>3, DryerLeftIsAfter DEF DryerLeftByPhase
    <3> QED BY <1>1, <1>2, <2>3, <2>5, <3>1, DryerLeftIs, DryerNumbers DEF DryerLeftByPhase
  <2>7. DryerLeft - ms <= DryerLeft' /\ DryerLeft' <= DryerLeft
    <3>1. dryer.preheating = 0 \/ dryer.preheating < dryer.program.preheating
      BY <1>1, <1>2 DEF DryerPhasesRun
    <3> QED BY <1>1, <1>3, <1>5, <2>6, <3>1, DryerNumbers DEF DryerSubcycleTime
  <2>8. DryerOnTime'
    BY <1>1, <1>2, <2>2, <2>3, <2>4, <2>7, DryerFrameStep
  <2>9. DryerPhasesRun'
    BY <1>1, <1>2, <2>3 DEF DryerPhasesRun
  <2> QED BY <1>1, <1>2, <1>4, <2>2, <2>3, <2>8, <2>9
          DEF DryerInv, DryerRunsItsProgram, DryerOnTime, DryerStopsAreTaken
<1>6. CASE ~done
  <2>1. dryer' = [dryer EXCEPT !.remaining = @ - ms, !.preheating = elapsed]
    BY <1>1, <1>6 DEF DryerPreheat, DryerTypeOK
  <2>2. DryerTypeOK'
    <3>1. dryer.remaining - ms \in Int
      BY <1>1, <1>3, DryerNumbers
    <3> HIDE DEF elapsed
    <3> QED BY <1>1, <1>3, <1>4, <2>1, <3>1 DEF DryerTypeOK
  <2>3. /\ dryer'.program = dryer.program /\ dryer'.running /\ dryer'.phase = "preheating"
        /\ dryer'.cycle = dryer.cycle /\ dryer'.preheating = elapsed /\ ~dryer'.pump
        /\ dryer'.remaining = dryer.remaining - ms /\ dryer'.stopPending = dryer.stopPending
    BY <1>1, <1>2, <2>1 DEF DryerTypeOK
  <2>4. DryerPhasesEnded' = DryerPhasesEnded
    BY <1>2, <2>3 DEF DryerPhasesEnded
  <2>5. DryerOthersTime' = DryerOthersTime /\ DryerSubcycleTime' = DryerSubcycleTime
    BY <2>3 DEF DryerOthersTime, DryerSubcycleTime
  <2>6. DryerLeft' = DryerLeft - ms
    <3>1. DryerLeft' = DryerOthersTime' + DryerSubcycleTime' - dryer'.preheating
      BY <2>2, <2>3, DryerLeftIsAfter DEF DryerLeftByPhase
    <3> QED BY <1>1, <1>2, <1>3, <2>3, <2>5, <3>1, DryerLeftIs, DryerNumbers DEF DryerLeftByPhase
  <2>7. DryerOnTime'
    BY <1>1, <1>2, <2>2, <2>3, <2>4, <2>6, DryerFrameStep
  <2>8. DryerPhasesRun'
    BY <1>1, <1>2, <1>3, <1>6, <2>3, DryerNumbers DEF DryerPhasesRun
  <2> QED BY <1>1, <1>2, <1>4, <2>2, <2>3, <2>7, <2>8
          DEF DryerInv, DryerRunsItsProgram, DryerOnTime, DryerStopsAreTaken
<1> QED BY <1>5, <1>6

LEMMA DryerDryStep ==
    ASSUME DryerInv, NEW ms \in DryerFrames, DryerDry(ms), dryerTurn' = "gui",
           UNCHANGED <<dryerScanned, dryerLoaded>>
    PROVE  DryerInv'
<1> DEFINE d == [dryer EXCEPT !.remaining = @ - ms, !.drying = @ + ms]
           next == [d EXCEPT !.cycle = @ + 1]
<1>1. DryerTypeOK /\ DryerOnTime /\ DryerPhasesRun /\ DryerStopsAreTaken /\ DryerRunsItsProgram
  BY DEF DryerInv, DryerRunsItsProgram, DryerOnTime
<1>2. dryer.running /\ ~dryer.stopPending /\ dryer.phase = "drying" /\ dryer.pump
  BY <1>1 DEF DryerDry, DryerAdvances, DryerOnTime, DryerTypeOK
<1>3. ms \in Nat /\ dryer.drying + ms \in Nat /\ dryer.remaining - ms \in Int /\ dryer.cycle + 1 \in Nat
  BY <1>1, DryerNumbers, DryerAssumption
<1>4. /\ d.drying = dryer.drying + ms /\ d.program = dryer.program
      /\ next.cycle = dryer.cycle + 1 /\ next.program = dryer.program
  BY <1>1 DEF DryerTypeOK
<1>5. DryerLeft = DryerOthersTime + dryer.program.drying - dryer.drying
  BY <1>1, <1>2, DryerLeftIs DEF DryerLeftByPhase
<1>6. dryer.drying = 0 \/ dryer.drying < dryer.program.drying
  BY <1>1, <1>2 DEF DryerPhasesRun
<1>7. ASSUME dryer'.program = dryer.program, dryer'.cycle = dryer.cycle + 1
      PROVE  DryerOthersTime' = DryerOthersTime - DryerSubcycleTime /\ DryerSubcycleTime' = DryerSubcycleTime
  <2> DEFINE others == dryer.program.subcycles - dryer.cycle - 1
  <2>1. DryerSubcycleTime' = DryerSubcycleTime
    BY <1>7 DEF DryerSubcycleTime
  <2>2. dryer'.program.subcycles - dryer'.cycle - 1 = others - 1 /\ others \in Int
    BY <1>1, <1>7, DryerNumbers
  <2>3. (others - 1) * DryerSubcycleTime = others * DryerSubcycleTime - DryerSubcycleTime
    BY <1>1, <2>2, DryerNumbers, DryerProducts
  <2> QED BY <2>1, <2>2, <2>3 DEF DryerOthersTime
<1>8. CASE dryer.drying + ms < dryer.program.drying
  <2>1. dryer' = d /\ UNCHANGED <<dryerStop, dryerModal>>
    BY <1>4, <1>8 DEF DryerDry
  <2>2. DryerTypeOK'
    BY <1>1, <1>3, <2>1 DEF DryerTypeOK
  <2>3. /\ dryer'.program = dryer.program /\ dryer'.running /\ dryer'.phase = "drying"
        /\ dryer'.cycle = dryer.cycle /\ dryer'.drying = dryer.drying + ms /\ dryer'.pump
        /\ dryer'.remaining = dryer.remaining - ms /\ dryer'.stopPending = dryer.stopPending
    BY <1>1, <1>2, <2>1 DEF DryerTypeOK
  <2>4. DryerPhasesEnded' = DryerPhasesEnded
    BY <1>2, <2>3 DEF DryerPhasesEnded
  <2>5. DryerOthersTime' = DryerOthersTime
    BY <2>3 DEF DryerOthersTime, DryerSubcycleTime
  <2>6. DryerLeft' = DryerLeft - ms
    <3>1. DryerLeft' = DryerOthersTime' + dryer'.program.drying - dryer'.drying
      BY <2>2, <2>3, DryerLeftIsAfter DEF DryerLeftByPhase
    <3> QED BY <1>1, <1>3, <1>5, <2>3, <2>5, <3>1, DryerNumbers
  <2>7. DryerOnTime'
    BY <1>1, <1>2, <2>2, <2>3, <2>4, <2>6, DryerFrameStep
  <2>8. DryerPhasesRun'
    BY <1>1, <1>2, <1>8, <2>3 DEF DryerPhasesRun
  <2> QED BY <1>1, <1>2, <2>1, <2>2, <2>3, <2>7, <2>8
          DEF DryerInv, DryerRunsItsProgram, DryerOnTime, DryerStopsAreTaken
<1>9. CASE ~(dryer.drying + ms < dryer.program.drying) /\ dryer.cycle + 1 < dryer.program.subcycles
  <2>1. dryer' = DryerNextSubcycle(next) /\ UNCHANGED <<dryerStop, dryerModal>>
    BY <1>4, <1>9 DEF DryerDry
  <2>2. DryerTypeOK'
    <3>1. "preheating" \in DryerPhases
      BY DEF DryerPhases
    <3> QED BY <1>1, <1>3, <2>1, <3>1 DEF DryerTypeOK, DryerNextSubcycle
  <2>3. /\ dryer'.program = dryer.program /\ dryer'.running /\ dryer'.phase = "preheating"
        /\ dryer'.cycle = dryer.cycle + 1 /\ dryer'.preheating = 0 /\ ~dryer'.pump
        /\ dryer'.remaining = dryer.remaining - ms /\ dryer'.stopPending = dryer.stopPending
    BY <1>1, <1>2, <2>1 DEF DryerTypeOK, DryerNextSubcycle
  <2>4. DryerPhasesEnded' = DryerPhasesEnded + 1
    BY <1>1, <1>2, <2>3, DryerNumbers DEF DryerPhasesEnded
  <2>5. DryerOthersTime' = DryerOthersTime - DryerSubcycleTime /\ DryerSubcycleTime' = DryerSubcycleTime
    BY <1>7, <2>3
  <2>6. DryerLeft' = DryerOthersTime
    <3>1. DryerLeft' = DryerOthersTime' + DryerSubcycleTime' - dryer'.preheating
      BY <2>2, <2>3, DryerLeftIsAfter DEF DryerLeftByPhase
    <3> QED BY <1>1, <2>3, <2>5, <3>1, DryerNumbers
  <2>7. DryerLeft - ms <= DryerLeft' /\ DryerLeft' <= DryerLeft
    BY <1>1, <1>3, <1>5, <1>6, <1>9, <2>6, DryerNumbers
  <2>8. DryerOnTime'
    BY <1>1, <1>2, <2>2, <2>3, <2>4, <2>7, DryerFrameStep
  <2>9. DryerPhasesRun'
    BY <1>1, <1>2, <1>9, <2>3 DEF DryerPhasesRun
  <2> QED BY <1>1, <1>2, <2>1, <2>2, <2>3, <2>8, <2>9
          DEF DryerInv, DryerRunsItsProgram, DryerOnTime, DryerStopsAreTaken
<1>10. CASE ~(dryer.drying + ms < dryer.program.drying) /\ ~(dryer.cycle + 1 < dryer.program.subcycles)
  <2>1. /\ dryer' = [next EXCEPT !.running = FALSE, !.pump = FALSE]
        /\ dryerStop' = FALSE /\ dryerModal' = "complete"
    BY <1>4, <1>10 DEF DryerDry
  <2>2. DryerTypeOK'
    <3>1. "complete" \in DryerModals
      BY DEF DryerModals
    <3> QED BY <1>1, <1>3, <2>1, <3>1 DEF DryerTypeOK
  <2>3. /\ ~dryer'.running /\ ~dryer'.pump /\ dryer'.remaining = dryer.remaining - ms
        /\ ~dryer'.stopPending
    BY <1>1, <1>2, <2>1 DEF DryerTypeOK
  <2>4. DryerOthersTime <= 0
    <3> DEFINE others == dryer.program.subcycles - dryer.cycle - 1
    <3>1. others \in Int /\ others <= 0
      BY <1>1, <1>10, DryerNumbers
    <3> QED BY <1>1, <3>1, DryerNumbers, DryerProducts DEF DryerOthersTime
  <2>5. dryer'.remaining <= 0
    <3>1. dryer.remaining <= DryerLeft
      BY <1>1, <1>2 DEF DryerOnTime
    <3> QED BY <1>1, <1>3, <1>5, <1>10, <2>3, <2>4, <3>1, DryerNumbers
  <2> QED BY <2>1, <2>2, <2>3, <2>5 DEF DryerInv, DryerRunsItsProgram, DryerPhasesRun, DryerStopsAreTaken
<1> QED BY <1>8, <1>9, <1>10

LEMMA DryerRaiseStep ==
    ASSUME DryerInv, DryerRaise, dryerTurn' = "gui", UNCHANGED <<dryerScanned, dryerLoaded>>
    PROVE  DryerInv'
<1>1. DryerTypeOK /\ DryerOnTime /\ DryerPhasesRun /\ DryerStopsAreTaken /\ DryerRunsItsProgram
  BY DEF DryerInv, DryerRunsItsProgram, DryerOnTime
<1>2. dryer.running /\ ~dryer.stopPending /\ dryer.phase = "raising" /\ ~dryer.pump
  BY <1>1 DEF DryerRaise, DryerAdvances, DryerOnTime, DryerTypeOK
<1>3. UNCHANGED <<dryerStop, dryerModal>>
  BY DEF DryerRaise
<1>4. CASE dryer' = dryer
  <2>1. DryerClockStands /\ DryerTypeOK' /\ dryer'.stopPending = dryer.stopPending
    BY <1>1, <1>3, <1>4 DEF DryerClockStands, DryerTypeOK
  <2>2. DryerPhasesRun' /\ DryerOnTime'
    BY <1>1, <2>1, DryerClockStep
  <2> QED BY <1>1, <1>2, <1>3, <1>4, <2>1, <2>2
          DEF DryerInv, DryerRunsItsProgram, DryerOnTime, DryerStopsAreTaken
<1>5. CASE dryer' = [dryer EXCEPT !.phase = "preheating", !.preheating = 0]
  <2>1. DryerTypeOK'
    <3>1. "preheating" \in DryerPhases
      BY DEF DryerPhases
    <3> QED BY <1>1, <1>3, <1>5, <3>1 DEF DryerTypeOK
  <2>2. /\ dryer'.program = dryer.program /\ dryer'.running /\ dryer'.phase = "preheating"
        /\ dryer'.cycle = dryer.cycle /\ dryer'.preheating = 0 /\ ~dryer'.pump
        /\ dryer'.remaining = dryer.remaining /\ dryer'.stopPending = dryer.stopPending
    BY <1>1, <1>2, <1>5 DEF DryerTypeOK
  <2>3. DryerPhasesEnded' = DryerPhasesEnded
    BY <1>2, <2>2 DEF DryerPhasesEnded
  <2>4. DryerLeft' = DryerLeft
    <3>1. DryerOthersTime' = DryerOthersTime /\ DryerSubcycleTime' = DryerSubcycleTime
      BY <2>2 DEF DryerOthersTime, DryerSubcycleTime
    <3>2. DryerLeft' = DryerOthersTime' + DryerSubcycleTime' - dryer'.preheating
      BY <2>1, <2>2, DryerLeftIsAfter DEF DryerLeftByPhase
    <3>3. DryerLeft = DryerOthersTime + DryerSubcycleTime
      BY <1>1, <1>2, DryerLeftIs DEF DryerLeftByPhase
    <3> QED BY <1>1, <2>2, <3>1, <3>2, <3>3, DryerNumbers
  <2>5. DryerPhasesRun'
    BY <1>1, <1>2, <2>2 DEF DryerPhasesRun
  <2>6. DryerOnTime'
    BY <1>1, <1>2, <2>2, <2>3, <2>4 DEF DryerOnTime
  <2> QED BY <1>1, <1>2, <1>3, <2>1, <2>2, <2>5, <2>6
          DEF DryerInv, DryerRunsItsProgram, DryerOnTime, DryerStopsAreTaken
<1> QED BY <1>4, <1>5 DEF DryerRaise

LEMMA DryerStoppedStep ==
    ASSUME DryerInv, DryerStopped, dryerTurn' = "gui", UNCHANGED <<dryerScanned, dryerLoaded>>
    PROVE  DryerInv'
<1>1. DryerTypeOK /\ DryerStopsAreTaken /\ DryerRunsItsProgram
  BY DEF DryerInv
<1>2. /\ dryer' = [dryer EXCEPT !.running = FALSE, !.runPending = FALSE, !.stopPending = FALSE,
                                !.phase = "drying"]
      /\ dryerStop' = FALSE /\ dryerModal' = dryerModal
  BY DEF DryerStopped
<1>3. dryerModal \notin {"stop", "complete"}
  BY <1>1 DEF DryerStopped, DryerStopsAreTaken, DryerRunsItsProgram
<1>4. DryerTypeOK'
  <2>1. "drying" \in DryerPhases
    BY DEF DryerPhases
  <2> QED BY <1>1, <1>2, <2>1 DEF DryerTypeOK
<1>5. ~dryer'.running /\ ~dryer'.stopPending
  BY <1>1, <1>2 DEF DryerTypeOK
<1> QED BY <1>2, <1>3, <1>4, <1>5 DEF DryerInv, DryerRunsItsProgram, DryerPhasesRun, DryerStopsAreTaken

LEMMA DryerStartedStep ==
    ASSUME DryerInv, DryerStarted, dryerTurn' = "gui", UNCHANGED <<dryerScanned, dryerLoaded>>
    PROVE  DryerInv'
<1>1. DryerTypeOK
  BY DEF DryerInv
<1>2. PICK p \in DryerPrograms :
         dryer' = [dryer EXCEPT !.program = p, !.running = TRUE, !.phase = "raising",
                                !.runPending = FALSE, !.stopPending = FALSE, !.cycle = 0,
                                !.preheating = 0, !.drying = 0, !.pump = FALSE,
                                !.remaining = (p.preheating + p.drying) * p.subcycles]
  BY DEF DryerStarted
<1>3. dryerStop' = TRUE /\ dryerModal' = "none"
  BY DEF DryerStarted
<1>4. p.preheating \in Nat /\ p.drying \in Nat /\ p.subcycles \in Nat
  BY DryerAssumption
<1> DEFINE time == (p.preheating + p.drying) * p.subcycles
<1>5. time \in Int
  BY <1>4, DryerProducts
<1>6. DryerTypeOK'
  <2>1. "raising" \in DryerPhases /\ "none" \in DryerModals
    BY DEF DryerPhases, DryerModals
  <2> HIDE DEF time
  <2>2. dryer' = [dryer EXCEPT !.program = p, !.running = TRUE, !.phase = "raising",
                               !.runPending = FALSE, !.stopPending = FALSE, !.cycle = 0,
                               !.preheating = 0, !.drying = 0, !.pump = FALSE,
                               !.remaining = time]
    BY <1>2 DEF time
  <2> QED BY <1>1, <1>3, <1>5, <2>1, <2>2 DEF DryerTypeOK
<1>7. /\ dryer'.program = p /\ dryer'.running /\ dryer'.phase = "raising" /\ dryer'.cycle = 0
      /\ dryer'.preheating = 0 /\ ~dryer'.pump /\ ~dryer'.stopPending /\ dryer'.remaining = time
  BY <1>1, <1>2 DEF DryerTypeOK
<1>8. DryerLeft' = time
  <2> DEFINE subcycle == p.preheating + p.drying
  <2>1. DryerLeft' = (p.subcycles - 0 - 1 + 1) * subcycle
    BY <1>7 DEF DryerLeft
  <2>2. p.subcycles - 0 - 1 + 1 = p.subcycles
    BY <1>4
  <2>3. p.subcycles * subcycle = subcycle * p.subcycles
    BY <1>4
  <2> QED BY <2>1, <2>2, <2>3
<1>9. DryerPhasesEnded' = 0
  BY <1>7 DEF DryerPhasesEnded
<1>10. DryerOnTime'
  <2>1. PICK ms \in DryerFrames : ms \in Nat
    BY DryerAssumption
  <2>2. DryerLeft' - dryer'.remaining <= DryerPhasesEnded' * ms
    <3> HIDE DEF time
    <3>1. DryerLeft' - dryer'.remaining = 0
      BY <1>5, <1>7, <1>8
    <3> QED BY <1>9, <2>1, <3>1
  <2>3. dryer'.remaining <= DryerLeft'
    <3> HIDE DEF time
    <3> QED BY <1>5, <1>7, <1>8
  <2> QED BY <1>7, <2>2, <2>3 DEF DryerOnTime
<1>11. DryerPhasesRun'
  BY <1>7 DEF DryerPhasesRun
<1> QED BY <1>3, <1>6, <1>7, <1>10, <1>11
        DEF DryerInv, DryerRunsItsProgram, DryerOnTime, DryerStopsAreTaken

\* What any control of the GUI leaves: the clock stands, and the dialog that is left open asks for a
\* stop only of a program that runs.
LEMMA DryerGuiControls ==
    ASSUME DryerInv, dryerTurn = "gui", NEW modal \in DryerModals,
           \/ DryerDoorButton(modal) \/ DryerTagButton(modal) \/ DryerModalClosed(modal)
           \/ DryerStopAnswered(modal) \/ DryerScanAnswered(modal)
           \/ DryerStartButton(modal) \/ DryerStopButton(modal) \/ DryerNoButton(modal)
    PROVE  /\ DryerClockStands
           /\ dryerScanned' \in 0..DryerTags /\ dryerLoaded' \in Nat
           /\ dryer' \in [program : DryerPrograms, running : BOOLEAN, runPending : BOOLEAN,
                          stopPending : BOOLEAN, phase : DryerPhases, cycle : Nat, preheating : Nat,
                          drying : Nat, remaining : Int, pump : BOOLEAN, door : BOOLEAN]
           /\ modal = "complete" => dryerModal = "complete"
           /\ modal = "stop" => dryer.running
           /\ dryer'.stopPending => dryer.running /\ modal # "stop"
<1>1. DryerTypeOK /\ ~dryer.stopPending /\ (dryerModal = "stop" => dryer.running)
  BY DEF DryerInv, DryerStopsAreTaken
<1> USE DEF DryerTypeOK, DryerClockStands
<1>2. CASE DryerDoorButton(modal)
  BY <1>1, <1>2 DEF DryerDoorButton
<1>3. CASE DryerTagButton(modal)
  BY <1>1, <1>3, DryerAssumption DEF DryerTagButton
<1>4. CASE DryerModalClosed(modal)
  BY <1>1, <1>4 DEF DryerModalClosed
<1>5. CASE DryerStopAnswered(modal)
  <2>1. PICK yes \in BOOLEAN : dryer' = [dryer EXCEPT !.stopPending = yes \/ @]
    BY <1>5 DEF DryerStopAnswered
  <2>2. (yes \/ dryer.stopPending) \in BOOLEAN
    OBVIOUS
  <2> QED BY <1>1, <1>5, <2>1, <2>2 DEF DryerStopAnswered
<1>6. CASE DryerScanAnswered(modal)
  <2>1. dryerLoaded' \in Nat /\ dryerScanned' \in 0..DryerTags
    BY <1>1, <1>6, DryerAssumption DEF DryerScanAnswered
  <2> QED BY <1>1, <1>6, <2>1 DEF DryerScanAnswered
<1>7. CASE DryerStartButton(modal)
  BY <1>1, <1>7 DEF DryerStartButton
<1>8. CASE DryerStopButton(modal)
  BY <1>1, <1>8 DEF DryerStopButton
<1>9. CASE DryerNoButton(modal)
  BY <1>1, <1>9 DEF DryerNoButton
<1> QED BY <1>2, <1>3, <1>4, <1>5, <1>6, <1>7, <1>8, <1>9

LEMMA DryerGuiStep ==
    ASSUME DryerInv, DryerGui
    PROVE  DryerInv'
<1>1. DryerTypeOK /\ DryerOnTime /\ DryerPhasesRun /\ DryerStopsAreTaken /\ DryerRunsItsProgram
  BY DEF DryerInv, DryerRunsItsProgram, DryerOnTime
<1>2. dryerTurn = "gui" /\ dryerTurn' = "update" /\ dryerStop' = dryerStop
  BY DEF DryerGui
<1>3. PICK modal \in DryerModals :
         /\ \/ DryerDoorButton(modal) \/ DryerTagButton(modal) \/ DryerModalClosed(modal)
            \/ DryerStopAnswered(modal) \/ DryerScanAnswered(modal)
            \/ DryerStartButton(modal) \/ DryerStopButton(modal) \/ DryerNoButton(modal)
         /\ dryerModal' = IF dryerScanned' > 0 THEN "scan" ELSE modal
  BY DEF DryerGui
<1>4. /\ DryerClockStands
      /\ dryerScanned' \in 0..DryerTags /\ dryerLoaded' \in Nat
      /\ dryer' \in [program : DryerPrograms, running : BOOLEAN, runPending : BOOLEAN,
                     stopPending : BOOLEAN, phase : DryerPhases, cycle : Nat, preheating : Nat,
                     drying : Nat, remaining : Int, pump : BOOLEAN, door : BOOLEAN]
      /\ modal = "complete" => dryerModal = "complete"
      /\ modal = "stop" => dryer.running
      /\ dryer'.stopPending => dryer.running /\ modal # "stop"
  BY <1>2, <1>3, DryerGuiControls
<1>5. dryerModal' \in {"scan", modal}
  BY <1>3
<1>6. DryerTypeOK'
  <2>1. dryerModal' \in DryerModals
    BY <1>5 DEF DryerModals
  <2> QED BY <1>1, <1>2, <1>4, <2>1 DEF DryerTypeOK
<1>7. DryerPhasesRun' /\ DryerOnTime'
  BY <1>1, <1>4, DryerClockStep
<1>8. dryer'.running = dryer.running /\ dryer'.pump = dryer.pump /\ dryer'.remaining = dryer.remaining
  BY <1>4 DEF DryerClockStands
<1> QED BY <1>1, <1>2, <1>4, <1>5, <1>6, <1>7, <1>8
        DEF DryerInv, DryerRunsItsProgram, DryerOnTime, DryerStopsAreTaken

LEMMA DryerDoorReportedStep ==
    ASSUME DryerInv, DryerDoorReported
    PROVE  DryerInv'
<1>1. DryerTypeOK /\ DryerOnTime /\ DryerPhasesRun /\ DryerStopsAreTaken /\ DryerRunsItsProgram
  BY DEF DryerInv, DryerRunsItsProgram, DryerOnTime
<1>2. PICK closed \in BOOLEAN : dryer' = [dryer EXCEPT !.door = closed]
  BY DEF DryerDoorReported
<1>3. UNCHANGED <<dryerStop, dryerModal, dryerScanned, dryerLoaded, dryerTurn>>
  BY DEF DryerDoorReported
<1>4. DryerTypeOK' /\ DryerClockStands /\ dryer'.stopPending = dryer.stopPending
  BY <1>1, <1>2, <1>3 DEF DryerTypeOK, DryerClockStands
<1>5. DryerPhasesRun' /\ DryerOnTime'
  BY <1>1, <1>4, DryerClockStep
<1>6. dryer'.running = dryer.running /\ dryer'.pump = dryer.pump /\ dryer'.remaining = dryer.remaining
  BY <1>4 DEF DryerClockStands
<1> QED BY <1>1, <1>3, <1>4, <1>5, <1>6
        DEF DryerInv, DryerRunsItsProgram, DryerOnTime, DryerStopsAreTaken

LEMMA DryerInvInit == DryerInit => DryerInv
<1> SUFFICES ASSUME DryerInit PROVE DryerInv
  OBVIOUS
<1>1. PICK p \in DryerPrograms :
         dryer = [program |-> p, running |-> FALSE, runPending |-> FALSE, stopPending |-> FALSE,
                  phase |-> "drying", cycle |-> 0, preheating |-> 0, drying |-> 0,
                  remaining |-> 0, pump |-> FALSE, door |-> FALSE]
  BY DEF DryerInit
<1>2. ~dryer.running /\ ~dryer.stopPending
  BY <1>1
<1>3. DryerTypeOK
  <2>1. "drying" \in DryerPhases /\ "none" \in DryerModals
    BY DEF DryerPhases, DryerModals
  <2>2. dryer \in [program : DryerPrograms, running : BOOLEAN, runPending : BOOLEAN,
                   stopPending : BOOLEAN, phase : DryerPhases, cycle : Nat, preheating : Nat,
                   drying : Nat, remaining : Int, pump : BOOLEAN, door : BOOLEAN]
    BY <1>1, <2>1
  <2>3. 0 \in 0..DryerTags /\ 0 \in Nat
    BY DryerAssumption
  <2> QED BY <2>1, <2>2, <2>3 DEF DryerInit, DryerTypeOK
<1> QED BY <1>2, <1>3 DEF DryerInit, DryerInv, DryerPhasesRun, DryerStopsAreTaken, DryerRunsItsProgram

LEMMA DryerInvStep == DryerInv /\ [DryerNext]_dryerVars => DryerInv'
<1> SUFFICES ASSUME DryerInv, [DryerNext]_dryerVars PROVE DryerInv'
  OBVIOUS
<1>1. CASE DryerUpdate
  <2>1. dryerTurn' = "gui" /\ UNCHANGED <<dryerScanned, dryerLoaded>>
    BY <1>1 DEF DryerUpdate
  <2>2. CASE DryerWaits
    <3>1. DryerTypeOK /\ ~(dryer.running /\ dryer.stopPending) /\ UNCHANGED <<dryer, dryerStop, dryerModal>>
      BY <2>2 DEF DryerInv, DryerWaits
    <3>2. DryerTypeOK'
      BY <2>1, <3>1 DEF DryerTypeOK
    <3>3. DryerPhasesRun' /\ DryerRunsItsProgram'
      BY <3>1 DEF DryerInv, DryerPhasesRun, DryerRunsItsProgram, DryerLeft, DryerPhasesEnded
    <3>4. DryerStopsAreTaken'
      BY <3>1 DEF DryerInv, DryerStopsAreTaken, DryerRunsItsProgram
    <3> QED BY <3>2, <3>3, <3>4 DEF DryerInv
  <2> QED BY <1>1, <2>1, <2>2, DryerStoppedStep, DryerRaiseStep, DryerStartedStep, DryerPreheatStep,
             DryerDryStep DEF DryerUpdate
<1>2. CASE DryerGui
  BY <1>2, DryerGuiStep
<1>3. CASE DryerDoorReported
  BY <1>3, DryerDoorReportedStep
<1>4. CASE UNCHANGED dryerVars
  BY <1>4 DEF dryerVars, DryerInv, DryerTypeOK, DryerPhasesRun, DryerStopsAreTaken, DryerRunsItsProgram,
              DryerLeft, DryerPhasesEnded
<1> QED BY <1>1, <1>2, <1>3, <1>4 DEF DryerNext

\* The state of the dryer, its dialog, its tags and its records keep their types.
THEOREM DryerTypeCorrect == DryerSpec => []DryerTypeOK
<1>1. DryerInv => DryerTypeOK
  BY DEF DryerInv
<1> QED BY <1>1, DryerInvInit, DryerInvStep, PTL DEF DryerSpec

\* Whatever programs there are and however long frames are, a program dries for its whole time but for a
\* frame for each phase that ended, is told to be complete when no time is left, works the pump in the
\* drying phase and no other, never keeps a stop for a later one, and shows the button that stops it.
THEOREM DryerRunsCorrect == DryerSpec => []DryerRunsItsProgram
<1>1. DryerInv => DryerRunsItsProgram
  BY DEF DryerInv
<1> QED BY <1>1, DryerInvInit, DryerInvStep, PTL DEF DryerSpec

----------------------------------------------------------------------------
\* GridCopy

\* What a call is given: only blend an offset before the source.
GridCallIs(call) ==
    /\ call \in [kind : GridKinds, form : GridForms, offset : Int \X Int, from : Int \X Int, size : (Nat \X Nat) \cup {GridNone}]
    /\ call.kind # "blend" => call.from[1] >= 0 /\ call.from[2] >= 0
    /\ call.form = "offset" => call.size = GridNone \/ call.offset = <<0, 0>>
    /\ call.form = "dstRect" => call.kind # "bits"

GridStart(call, i) == call.from[i] - GridMin(0, call.offset[i])
GridPlace(call, i) == GridMax(0, call.offset[i])
GridHeld(call, i, s) == s >= call.from[i] /\ (call.size = GridNone \/ s < call.from[i] + call.size[i])

LEMMA GridCallTypes ==
    ASSUME NEW call, GridCallIs(call), NEW i \in 1..2
    PROVE  /\ call.kind \in GridKinds /\ call.form \in GridForms
           /\ call.offset[i] \in Int /\ call.from[i] \in Int /\ (call.size # GridNone => call.size[i] \in Nat)
           /\ GridTarget[i] \in Nat /\ GridSource[i] \in Nat
<1>1. i = 1 \/ i = 2
  OBVIOUS
<1>2. call.offset \in Int \X Int /\ call.from \in Int \X Int /\ call.size \in (Nat \X Nat) \cup {GridNone}
      /\ call.kind \in GridKinds /\ call.form \in GridForms
  BY DEF GridCallIs
<1>3. \A p \in Int \X Int : p[i] \in Int
  BY <1>1
<1>4. \A p \in Nat \X Nat : p[i] \in Nat
  BY <1>1
<1> QED BY <1>2, <1>3, <1>4, GridAssumption

\* On one axis: what is copied lies in both grids, each cell at its place; and what lies in both is copied.
LEMMA GridAxis ==
    ASSUME NEW call, GridCallIs(call), NEW i \in 1..2
    PROVE  /\ GridLength(call, i) \in Int /\ GridLength(call, i) <= GridTarget[i] /\ GridStart(call, i) \in Int
           /\ GridPlace(call, i) \in Nat /\ GridStart(call, i) >= call.from[i]
           /\ \A x \in Nat : x < GridLength(call, i) =>
                 /\ GridPlace(call, i) + x \in 0..(GridTarget[i] - 1)
                 /\ GridStart(call, i) + x < GridSource[i]
                 /\ GridPlace(call, i) + x = (GridStart(call, i) + x) - call.from[i] + call.offset[i]
                 /\ call.offset[i] >= 0 \/ call.size = GridNone => GridHeld(call, i, GridStart(call, i) + x)
           /\ \A s \in 0..(GridSource[i] - 1) :
                 s - call.from[i] + call.offset[i] \in 0..(GridTarget[i] - 1) /\ GridHeld(call, i, s) =>
                    s - GridStart(call, i) \in 0..(GridLength(call, i) - 1)
<1> DEFINE o == call.offset[i]
           f == call.from[i]
           n == call.size[i]
           none == call.size = GridNone
           t == GridTarget[i]
           m == GridSource[i]
<1>1. o \in Int /\ f \in Int /\ (~none => n \in Nat) /\ t \in Nat /\ m \in Nat
  BY GridCallTypes
<1> DEFINE e == GridMin((m + GridMin(0, o)) - f, t - GridMax(0, o))
<1>2. (none => GridLength(call, i) = e) /\ (~none => GridLength(call, i) = GridMin(e, n))
  <2>1. GridLength(call, i) = GridWithin(call, i, e)
    BY DEF GridLength
  <2> QED BY <2>1 DEF GridWithin
<1>3. GridStart(call, i) = f - GridMin(0, o) /\ GridPlace(call, i) = GridMax(0, o)
      /\ \A s : GridHeld(call, i, s) <=> s >= f /\ (none \/ s < f + n)
  BY DEF GridStart, GridPlace, GridHeld
<1> HIDE DEF o, f, n, none, t, m
<1>4. CASE o >= 0
  <2>1. GridMin(0, o) = 0 /\ GridMax(0, o) = o
    BY <1>1, <1>4 DEF GridMin, GridMax
  <2> QED BY <1>1, <1>2, <1>3, <1>4, <2>1 DEF GridMin, o, f, n, none, t, m
<1>5. CASE o < 0
  <2>1. GridMin(0, o) = o /\ GridMax(0, o) = 0
    BY <1>1, <1>5 DEF GridMin, GridMax
  <2> QED BY <1>1, <1>2, <1>3, <1>5, <2>1 DEF GridMin, o, f, n, none, t, m
<1> QED BY <1>1, <1>4, <1>5

\* The pairs of cells that lie on both grids, or before the source.
GridNear(call) ==
    {<<<<GridPlace(call, 1) + x, GridPlace(call, 2) + y>>, <<GridStart(call, 1) + x, GridStart(call, 2) + y>>>> :
        x \in 0..(GridLength(call, 1) - 1), y \in 0..(GridLength(call, 2) - 1)}
GridShown(call, p) == call.kind = "copy" \/ p[2] \in GridOpaque
GridWell(p) == p[2][1] >= 0 /\ p[2][2] >= 0

\* Each cell of them has its place.
LEMMA GridNearIs ==
    ASSUME NEW call, GridCallIs(call), NEW p \in GridNear(call)
    PROVE  /\ p[1] \in GridCells(GridTarget) /\ (GridWell(p) => p[2] \in GridCells(GridSource))
           /\ p = <<p[1], p[2]>> /\ p[2] = <<p[2][1], p[2][2]>> /\ p[2] \in Int \X Int
           /\ p[1] = <<p[2][1] - call.from[1] + call.offset[1], p[2][2] - call.from[2] + call.offset[2]>>
           /\ p[2][1] >= call.from[1] /\ p[2][2] >= call.from[2]
           /\ (call.offset[1] >= 0 /\ call.offset[2] >= 0) \/ call.size = GridNone =>
                 GridHeld(call, 1, p[2][1]) /\ GridHeld(call, 2, p[2][2])
<1>1. PICK x \in 0..(GridLength(call, 1) - 1), y \in 0..(GridLength(call, 2) - 1) :
        p = <<<<GridPlace(call, 1) + x, GridPlace(call, 2) + y>>, <<GridStart(call, 1) + x, GridStart(call, 2) + y>>>>
  BY DEF GridNear
<1> DEFINE a == GridPlace(call, 1) + x
           b == GridPlace(call, 2) + y
           c == GridStart(call, 1) + x
           d == GridStart(call, 2) + y
<1>2. /\ a \in 0..(GridTarget[1] - 1) /\ c \in Int /\ c < GridSource[1] /\ c >= call.from[1] /\ a = c - call.from[1] + call.offset[1]
      /\ call.offset[1] >= 0 \/ call.size = GridNone => GridHeld(call, 1, c)
  <2>1. 1 \in 1..2 /\ x \in Nat /\ GridLength(call, 1) \in Int
    BY GridAxis
  <2>2. x < GridLength(call, 1)
    BY <2>1
  <2>3. call.from[1] \in Int /\ GridStart(call, 1) \in Int /\ GridStart(call, 1) >= call.from[1]
    BY <2>1, GridAxis, GridCallTypes
  <2>4. c >= call.from[1] /\ c \in Int
    BY <2>1, <2>3
  <2> QED BY <2>1, <2>2, <2>4, GridAxis
<1>3. /\ b \in 0..(GridTarget[2] - 1) /\ d \in Int /\ d < GridSource[2] /\ d >= call.from[2] /\ b = d - call.from[2] + call.offset[2]
      /\ call.offset[2] >= 0 \/ call.size = GridNone => GridHeld(call, 2, d)
  <2>1. 2 \in 1..2 /\ y \in Nat /\ GridLength(call, 2) \in Int
    BY GridAxis
  <2>2. y < GridLength(call, 2)
    BY <2>1
  <2>3. call.from[2] \in Int /\ GridStart(call, 2) \in Int /\ GridStart(call, 2) >= call.from[2]
    BY <2>1, GridAxis, GridCallTypes
  <2>4. d >= call.from[2] /\ d \in Int
    BY <2>1, <2>3
  <2> QED BY <2>1, <2>2, <2>4, GridAxis
<1>4. GridTarget[1] \in Nat /\ GridTarget[2] \in Nat /\ GridSource[1] \in Nat /\ GridSource[2] \in Nat
  BY GridAssumption
<1> HIDE DEF a, b, c, d
<1>5. p = <<<<a, b>>, <<c, d>>>>
  BY <1>1 DEF a, b, c, d
<1>6. p[1] = <<a, b>> /\ p[2] = <<c, d>> /\ p[2][1] = c /\ p[2][2] = d
  BY <1>5
<1>7. p[1] \in GridCells(GridTarget) /\ (GridWell(p) => p[2] \in GridCells(GridSource))
  BY <1>2, <1>3, <1>4, <1>6 DEF GridCells, GridWell
<1> QED BY <1>2, <1>3, <1>5, <1>6, <1>7

\* The functions that end in _ex get as much of each axis as there is, however they are called.
LEMMA GridExtentIs ==
    ASSUME NEW call, GridCallIs(call)
    PROVE  LET extent == GridExtent(call)
           IN  /\ extent[1] \in Int /\ extent[2] \in Int
               /\ \A x \in Nat : x < extent[1] <=> x < GridLength(call, 1)
               /\ \A y \in Nat : y < extent[2] <=> y < GridLength(call, 2)
               /\ call.form = "dstRect" \/ call.kind = "bits" => extent[2] >= 0
<1> DEFINE x == GridLength(call, 1)
           y == GridLength(call, 2)
<1>1. /\ x \in Int /\ y \in Int /\ GridTarget[1] \in Nat /\ GridTarget[2] \in Nat
      /\ x <= GridTarget[1] /\ y <= GridTarget[2]
  BY GridAxis, GridAssumption
<1> HIDE DEF x, y
<1>2. CASE call.kind = "bits"
  <2>1. GridExtent(call) = <<GridMin(GridMax(0, x), GridTarget[1]), GridMin(GridMax(0, y), GridTarget[2])>>
    BY <1>2 DEF GridExtent, x, y
  <2>2. /\ GridMin(GridMax(0, x), GridTarget[1]) = GridMax(0, x) /\ GridMin(GridMax(0, y), GridTarget[2]) = GridMax(0, y)
        /\ GridMax(0, x) \in Nat /\ GridMax(0, y) \in Nat
    BY <1>1 DEF GridMin, GridMax
  <2>3. GridExtent(call)[1] = GridMax(0, x) /\ GridExtent(call)[2] = GridMax(0, y)
    BY <2>1, <2>2
  <2> QED BY <1>1, <2>2, <2>3 DEF GridMax, x, y
<1>3. CASE call.kind # "bits" /\ call.form = "dstRect"
  <2>1. GridExtent(call) = <<x, GridMax(0, y)>>
    BY <1>3 DEF GridExtent, x, y
  <2> QED BY <1>1, <2>1 DEF GridMax, x, y
<1>4. CASE call.kind # "bits" /\ call.form # "dstRect"
  <2>1. GridExtent(call) = <<x, y>>
    BY <1>4 DEF GridExtent, x, y
  <2> QED BY <1>1, <1>4, <2>1 DEF x, y
<1> QED BY <1>2, <1>3, <1>4

\* What is copied are some of the pairs that are well in the source, and from within it all of them.
LEMMA GridCopiedIs ==
    ASSUME NEW call, GridCallIs(call)
    PROVE  \/ /\ GridCopied(call) = GridAstray /\ GridNear(call) = {}
              /\ call.kind \in {"copy", "alpha"} /\ call.form # "dstRect"
           \/ /\ GridCopied(call) # GridAstray
              /\ \A p \in GridCopied(call) : p \in GridNear(call) /\ GridWell(p) /\ GridShown(call, p)
              /\ call.from[1] >= 0 /\ call.from[2] >= 0 =>
                    \A p \in GridNear(call) : GridShown(call, p) => p \in GridCopied(call)
<1> DEFINE extent == GridExtent(call)
           from == [i \in 1..2 |-> call.from[i] - GridMin(0, call.offset[i])]
           to == [i \in 1..2 |-> GridMax(0, call.offset[i])]
           count == [i \in 1..2 |-> IF call.kind = "blend" THEN extent[i] + GridMin(0, from[i]) ELSE extent[i]]
           all == {<<<<to[1] + x, to[2] + y>>, <<from[1] + x, from[2] + y>>>> :
                      x \in 0..(count[1] - 1), y \in 0..(count[2] - 1)}
           pairs == IF call.kind = "blend" THEN {p \in all : p[2][1] >= 0 /\ p[2][2] >= 0} ELSE all
<1>1. from[1] = GridStart(call, 1) /\ from[2] = GridStart(call, 2) /\ to[1] = GridPlace(call, 1) /\ to[2] = GridPlace(call, 2)
  BY DEF GridStart, GridPlace
<1>2. count[1] = (IF call.kind = "blend" THEN extent[1] + GridMin(0, from[1]) ELSE extent[1])
      /\ count[2] = (IF call.kind = "blend" THEN extent[2] + GridMin(0, from[2]) ELSE extent[2])
  OBVIOUS
<1>3. GridPairs(call, extent) =
        IF call.kind \in {"copy", "alpha"} /\ count[2] < 0 THEN GridAstray
        ELSE IF \E p \in pairs : p[1] \notin GridCells(GridTarget) \/ p[2] \notin GridCells(GridSource) THEN GridAstray
        ELSE {p \in pairs : call.kind = "copy" \/ p[2] \in GridOpaque}
  BY DEF GridPairs
<1>4. GridCopied(call) = IF extent[1] > 0 THEN GridPairs(call, extent) ELSE {}
  BY DEF GridCopied
<1>5. \A p \in all : \E x \in 0..(count[1] - 1), y \in 0..(count[2] - 1) :
         p = <<<<to[1] + x, to[2] + y>>, <<from[1] + x, from[2] + y>>>>
  OBVIOUS
<1>6. \A x \in 0..(count[1] - 1), y \in 0..(count[2] - 1) :
         <<<<to[1] + x, to[2] + y>>, <<from[1] + x, from[2] + y>>>> \in all
  OBVIOUS
<1>7. pairs = IF call.kind = "blend" THEN {p \in all : p[2][1] >= 0 /\ p[2][2] >= 0} ELSE all
  OBVIOUS
<1>8. /\ extent[1] \in Int /\ extent[2] \in Int
      /\ \A x \in Nat : x < extent[1] <=> x < GridLength(call, 1)
      /\ \A y \in Nat : y < extent[2] <=> y < GridLength(call, 2)
      /\ call.form = "dstRect" \/ call.kind = "bits" => extent[2] >= 0
  BY GridExtentIs
<1> HIDE DEF extent, from, to, count, all, pairs
<1>9. /\ from[1] \in Int /\ from[2] \in Int /\ to[1] \in Nat /\ to[2] \in Nat
      /\ from[1] >= call.from[1] /\ from[2] >= call.from[2] /\ call.from[1] \in Int /\ call.from[2] \in Int
      /\ GridLength(call, 1) \in Int /\ GridLength(call, 2) \in Int
  BY <1>1, GridAxis, GridCallTypes
<1>10. count[1] \in Int /\ count[2] \in Int /\ count[1] <= extent[1] /\ count[2] <= extent[2]
  BY <1>2, <1>8, <1>9 DEF GridMin
<1>11. call.kind # "blend" \/ (from[1] >= 0 /\ from[2] >= 0) => count[1] = extent[1] /\ count[2] = extent[2]
  BY <1>2, <1>8, <1>9 DEF GridMin
<1>12. call.kind # "blend" => call.from[1] >= 0 /\ call.from[2] >= 0
  BY DEF GridCallIs
<1>13. \A p \in all : p \in GridNear(call) /\ (from[1] >= 0 /\ from[2] >= 0 => GridWell(p))
  <2> SUFFICES ASSUME NEW p \in all PROVE p \in GridNear(call) /\ (from[1] >= 0 /\ from[2] >= 0 => GridWell(p))
    OBVIOUS
  <2>1. PICK x \in 0..(count[1] - 1), y \in 0..(count[2] - 1) :
           p = <<<<to[1] + x, to[2] + y>>, <<from[1] + x, from[2] + y>>>>
    BY <1>5
  <2>2. x \in Nat /\ y \in Nat /\ x < extent[1] /\ y < extent[2]
    BY <1>8, <1>10
  <2>3. x \in 0..(GridLength(call, 1) - 1) /\ y \in 0..(GridLength(call, 2) - 1)
    BY <1>8, <1>9, <2>2
  <2>4. p \in GridNear(call)
    BY <1>1, <2>1, <2>3 DEF GridNear
  <2>5. p[2][1] = from[1] + x /\ p[2][2] = from[2] + y
    BY <2>1
  <2> QED BY <1>9, <2>2, <2>4, <2>5 DEF GridWell
<1>14. \A p \in pairs : p \in all /\ GridWell(p)
  <2> SUFFICES ASSUME NEW p \in pairs PROVE p \in all /\ GridWell(p)
    OBVIOUS
  <2>1. CASE call.kind = "blend"
    BY <1>7, <2>1 DEF GridWell
  <2>2. CASE call.kind # "blend"
    <3>1. from[1] >= 0 /\ from[2] >= 0
      BY <1>9, <1>12, <2>2
    <3> QED BY <1>7, <1>13, <2>2, <3>1
  <2> QED BY <2>1, <2>2
<1>15. ASSUME call.from[1] >= 0, call.from[2] >= 0, NEW p \in GridNear(call) PROVE p \in pairs
  <2>1. from[1] >= 0 /\ from[2] >= 0
    BY <1>9, <1>15
  <2>2. count[1] = extent[1] /\ count[2] = extent[2]
    BY <1>11, <2>1
  <2>3. PICK x \in 0..(GridLength(call, 1) - 1), y \in 0..(GridLength(call, 2) - 1) :
          p = <<<<GridPlace(call, 1) + x, GridPlace(call, 2) + y>>, <<GridStart(call, 1) + x, GridStart(call, 2) + y>>>>
    BY DEF GridNear
  <2>4. x \in Nat /\ y \in Nat /\ x < GridLength(call, 1) /\ y < GridLength(call, 2)
    BY <1>9
  <2>5. x \in 0..(count[1] - 1) /\ y \in 0..(count[2] - 1)
    BY <1>8, <2>2, <2>4
  <2>6. p = <<<<to[1] + x, to[2] + y>>, <<from[1] + x, from[2] + y>>>>
    BY <1>1, <2>3
  <2>7. p \in all
    BY <1>6, <2>5, <2>6
  <2> QED BY <1>7, <1>13, <2>1, <2>7 DEF GridWell
<1>16. \A p \in pairs : p[1] \in GridCells(GridTarget) /\ p[2] \in GridCells(GridSource) /\ p = <<p[1], p[2]>>
  BY <1>13, <1>14, GridNearIs
<1>17. CASE ~(extent[1] > 0)
  <2>1. GridCopied(call) = {}
    BY <1>4, <1>17
  <2>2. GridNear(call) = {}
    <3>1. ~(0 < GridLength(call, 1))
      BY <1>8, <1>17
    <3>2. 0..(GridLength(call, 1) - 1) = {}
      BY <1>9, <3>1
    <3> QED BY <3>2 DEF GridNear
  <2> QED BY <2>1, <2>2 DEF GridAstray
<1>18. CASE extent[1] > 0 /\ call.kind \in {"copy", "alpha"} /\ count[2] < 0
  <2>1. GridCopied(call) = GridAstray
    BY <1>3, <1>4, <1>18
  <2>2. count[2] = extent[2]
    BY <1>11, <1>18
  <2>3. call.form # "dstRect"
    BY <1>8, <1>18, <2>2
  <2>4. ~(0 < GridLength(call, 2))
    BY <1>8, <1>18, <2>2
  <2>5. 0..(GridLength(call, 2) - 1) = {}
    BY <1>9, <2>4
  <2>6. GridNear(call) = {}
    BY <2>5 DEF GridNear
  <2> QED BY <1>18, <2>1, <2>3, <2>6
<1>19. CASE extent[1] > 0 /\ ~(call.kind \in {"copy", "alpha"} /\ count[2] < 0)
  <2>1. GridCopied(call) = {p \in pairs : GridShown(call, p)}
    BY <1>3, <1>4, <1>16, <1>19 DEF GridShown
  <2>2. <<>> \notin pairs
    <3>1. \A a, b : <<>> # <<a, b>>
      OBVIOUS
    <3> QED BY <1>16, <3>1
  <2>3. GridCopied(call) # GridAstray
    BY <2>1, <2>2 DEF GridAstray
  <2> QED BY <1>13, <1>14, <1>15, <2>1, <2>3
<1> QED BY <1>17, <1>18, <1>19

\* A pair is in the overlap if its cell of the source is asked for and lies on the target.
LEMMA GridOverlapIs ==
    ASSUME NEW call, NEW p
    PROVE  p \in GridOverlap(call) <=>
              \E s \in GridCells(GridSource) :
                 /\ p = <<<<s[1] - call.from[1] + call.offset[1], s[2] - call.from[2] + call.offset[2]>>, s>>
                 /\ GridHeld(call, 1, s[1]) /\ GridHeld(call, 2, s[2])
                 /\ p[1] \in GridCells(GridTarget) /\ (call.kind = "copy" \/ s \in GridOpaque)
<1> DEFINE Place(s) == [i \in 1..2 |-> s[i] - call.from[i] + call.offset[i]]
           Held(s) == \A i \in 1..2 : s[i] >= call.from[i] /\ (call.size = GridNone \/ s[i] < call.from[i] + call.size[i])
           Spot(s) == <<s[1] - call.from[1] + call.offset[1], s[2] - call.from[2] + call.offset[2]>>
<1>1. \A s : Place(s) = Spot(s)
  OBVIOUS
<1>2. \A s : Held(s) <=> GridHeld(call, 1, s[1]) /\ GridHeld(call, 2, s[2])
  BY DEF GridHeld
<1>3. GridOverlap(call) = {<<Place(s), s>> : s \in {s \in GridCells(GridSource) :
            Held(s) /\ Place(s) \in GridCells(GridTarget) /\ (call.kind = "copy" \/ s \in GridOpaque)}}
  BY DEF GridOverlap
<1> HIDE DEF Place, Held, Spot
<1>4. p \in GridOverlap(call) <=> \E s \in GridCells(GridSource) :
            p = <<Place(s), s>> /\ Held(s) /\ Place(s) \in GridCells(GridTarget) /\ (call.kind = "copy" \/ s \in GridOpaque)
  BY <1>3
<1>5. \A s : p = <<Place(s), s>> => p[1] = Place(s)
  OBVIOUS
<1>6. p \in GridOverlap(call) <=> \E s \in GridCells(GridSource) :
            /\ p = <<Spot(s), s>> /\ GridHeld(call, 1, s[1]) /\ GridHeld(call, 2, s[2])
            /\ p[1] \in GridCells(GridTarget) /\ (call.kind = "copy" \/ s \in GridOpaque)
  BY <1>1, <1>2, <1>4, <1>5
<1> QED BY <1>6 DEF Spot

\* What is asked for and lies on the target is one of the pairs.
LEMMA GridOverlapNear ==
    ASSUME NEW call, GridCallIs(call), NEW p \in GridOverlap(call)
    PROVE  p \in GridNear(call) /\ GridShown(call, p)
<1>1. PICK s \in GridCells(GridSource) :
         /\ p = <<<<s[1] - call.from[1] + call.offset[1], s[2] - call.from[2] + call.offset[2]>>, s>>
         /\ GridHeld(call, 1, s[1]) /\ GridHeld(call, 2, s[2])
         /\ p[1] \in GridCells(GridTarget) /\ (call.kind = "copy" \/ s \in GridOpaque)
  BY GridOverlapIs
<1> DEFINE x == s[1] - GridStart(call, 1)
           y == s[2] - GridStart(call, 2)
           a == s[1] - call.from[1] + call.offset[1]
           b == s[2] - call.from[2] + call.offset[2]
<1>2. s[1] \in 0..(GridSource[1] - 1) /\ s[2] \in 0..(GridSource[2] - 1) /\ s = <<s[1], s[2]>>
  BY DEF GridCells
<1>3. a \in 0..(GridTarget[1] - 1) /\ b \in 0..(GridTarget[2] - 1)
  <2> HIDE DEF a, b
  <2>1. p[1] = <<a, b>>
    BY <1>1 DEF a, b
  <2> QED BY <1>1, <2>1 DEF GridCells
<1>4. x \in 0..(GridLength(call, 1) - 1) /\ y \in 0..(GridLength(call, 2) - 1)
  BY <1>1, <1>2, <1>3, GridAxis
<1>5. /\ s[1] = GridStart(call, 1) + x /\ s[2] = GridStart(call, 2) + y
      /\ a = GridPlace(call, 1) + x /\ b = GridPlace(call, 2) + y
  <2>1. GridStart(call, 1) \in Int /\ GridStart(call, 2) \in Int /\ s[1] \in Int /\ s[2] \in Int
    BY <1>2, GridAxis, GridAssumption
  <2>2. s[1] = GridStart(call, 1) + x /\ s[2] = GridStart(call, 2) + y
    BY <2>1
  <2>3. x \in Nat /\ x < GridLength(call, 1) /\ y \in Nat /\ y < GridLength(call, 2)
    <3>1. GridLength(call, 1) \in Int /\ GridLength(call, 2) \in Int
      BY GridAxis
    <3> QED BY <1>4, <3>1
  <2> HIDE DEF x, y
  <2>4. GridPlace(call, 1) + x = (GridStart(call, 1) + x) - call.from[1] + call.offset[1]
    BY <2>3, GridAxis
  <2>5. GridPlace(call, 2) + y = (GridStart(call, 2) + y) - call.from[2] + call.offset[2]
    BY <2>3, GridAxis
  <2> QED BY <2>2, <2>4, <2>5
<1> HIDE DEF x, y, a, b
<1>6. p = <<<<GridPlace(call, 1) + x, GridPlace(call, 2) + y>>, <<GridStart(call, 1) + x, GridStart(call, 2) + y>>>>
  <2>1. p = <<<<a, b>>, s>>
    BY <1>1 DEF a, b
  <2>2. s = <<GridStart(call, 1) + x, GridStart(call, 2) + y>>
    BY <1>2, <1>5
  <2> QED BY <1>5, <2>1, <2>2
<1>7. p[2] = s
  BY <1>1
<1> QED BY <1>1, <1>4, <1>6, <1>7 DEF GridNear, GridShown

\* A pair of cells that are held is in the overlap.
LEMMA GridNearOverlap ==
    ASSUME NEW call, GridCallIs(call), NEW p \in GridNear(call), GridWell(p), GridShown(call, p),
           NEW asked, asked \in {call, [call EXCEPT !.size = GridNone]},
           GridHeld(asked, 1, p[2][1]) /\ GridHeld(asked, 2, p[2][2])
    PROVE  p \in GridOverlap(asked)
<1>1. asked.kind = call.kind /\ asked.from = call.from /\ asked.offset = call.offset
  BY DEF GridCallIs
<1> DEFINE s == p[2]
           a == s[1] - call.from[1] + call.offset[1]
           b == s[2] - call.from[2] + call.offset[2]
<1>2. p[1] \in GridCells(GridTarget) /\ s \in GridCells(GridSource) /\ p = <<p[1], s>> /\ p[1] = <<a, b>>
  BY GridNearIs
<1>3. p = <<<<a, b>>, s>>
  <2> HIDE DEF s, a, b
  <2> QED BY <1>2
<1>4. call.kind = "copy" \/ s \in GridOpaque
  BY DEF GridShown
<1> QED BY <1>1, <1>2, <1>3, <1>4, GridOverlapIs

\* A copy between grids is of what lies on both, each cell to its place.
LEMMA GridCopyIsRight == ASSUME GridCallIs(gridCall) PROVE GridCopiesOverlap
<1> DEFINE call == gridCall
           any == [call EXCEPT !.size = GridNone]
           Inside(v) == v[1] >= 0 /\ v[2] >= 0
<1>1. \A p \in GridOverlap(call) : p \in GridNear(call) /\ GridShown(call, p)
  BY GridOverlapNear
<1>2. CASE GridCopied(call) = GridAstray
  <2>1. GridNear(call) = {} /\ call.kind \in {"copy", "alpha"} /\ call.form # "dstRect"
    BY <1>2, GridCopiedIs
  <2>2. GridOverlap(call) = {}
    BY <1>1, <2>1
  <2> QED BY <1>2, <2>1, <2>2 DEF GridCopiesOverlap
<1>3. CASE GridCopied(call) # GridAstray
  <2>1. \A p \in GridCopied(call) : p \in GridNear(call) /\ GridWell(p) /\ GridShown(call, p)
    BY <1>3, GridCopiedIs
  <2>2. call.from[1] >= 0 /\ call.from[2] >= 0 => \A p \in GridNear(call) : GridShown(call, p) => p \in GridCopied(call)
    BY <1>3, GridCopiedIs
  <2>3. any.size = GridNone /\ any.from = call.from
    BY DEF GridCallIs
  <2>4. GridCopied(call) \subseteq GridOverlap(any)
    <3> SUFFICES ASSUME NEW p \in GridCopied(call) PROVE p \in GridOverlap(any)
      OBVIOUS
    <3>1. p[2][1] >= call.from[1] /\ p[2][2] >= call.from[2]
      BY <2>1, GridNearIs
    <3>2. GridHeld(any, 1, p[2][1]) /\ GridHeld(any, 2, p[2][2])
      BY <2>3, <3>1 DEF GridHeld
    <3> QED BY <2>1, <3>2, GridNearOverlap
  <2>5. Inside(call.from) => GridOverlap(call) \subseteq GridCopied(call)
    BY <1>1, <2>2
  <2>6. ASSUME Inside(call.offset) \/ call.form = "offset" PROVE GridCopied(call) \subseteq GridOverlap(call)
    <3> SUFFICES ASSUME NEW p \in GridCopied(call) PROVE p \in GridOverlap(call)
      OBVIOUS
    <3>1. (call.offset[1] >= 0 /\ call.offset[2] >= 0) \/ call.size = GridNone
      <4>1. CASE Inside(call.offset)
        BY <4>1
      <4>2. CASE call.form = "offset"
        <5>1. <<0, 0>>[1] >= 0 /\ <<0, 0>>[2] >= 0
          OBVIOUS
        <5> QED BY <4>2, <5>1 DEF GridCallIs
      <4> QED BY <2>6, <4>1, <4>2
    <3>2. GridHeld(call, 1, p[2][1]) /\ GridHeld(call, 2, p[2][2])
      BY <2>1, <3>1, GridNearIs
    <3> QED BY <2>1, <3>2, GridNearOverlap
  <2> QED BY <1>3, <2>4, <2>5, <2>6 DEF GridCopiesOverlap
<1> QED BY <1>2, <1>3

\* Whatever the grids, the cells that are not skipped, the offsets and the sizes are: a call copies what
\* lies on the target, each cell to its place, and rows run astray only where there is nothing to copy.
THEOREM GridCopiesCorrect == GridSpec => []GridCopiesOverlap
<1>1. GridInit => GridCallIs(gridCall)
  <2> SUFFICES ASSUME GridInit PROVE GridCallIs(gridCall)
    OBVIOUS
  <2>1. gridCall = [kind |-> "bits", form |-> "offset", offset |-> <<0, 0>>, from |-> <<0, 0>>, size |-> <<0, 0>>]
    BY DEF GridInit, GridNothing
  <2>2. <<0, 0>> \in Int \X Int /\ <<0, 0>> \in Nat \X Nat /\ <<0, 0>>[1] = 0 /\ <<0, 0>>[2] = 0
    OBVIOUS
  <2> QED BY <2>1, <2>2 DEF GridCallIs, GridKinds, GridForms
<1>2. GridCallIs(gridCall) /\ [GridNext]_gridCall => GridCallIs(gridCall)'
  <2> SUFFICES ASSUME GridCallIs(gridCall), GridNext PROVE GridCallIs(gridCall')
    BY DEF GridCallIs
  <2>1. PICK kind \in GridKinds, form \in GridForms, offset \in GridOffsets, from \in GridFrom, size \in GridSizes \cup {GridNone} :
          /\ (form = "offset") = (size = GridNone)
          /\ form = "dstRect" => from = <<0, 0>>
          /\ kind = "bits" => form = "dstRectFrom"
          /\ kind # "blend" => from[1] >= 0 /\ from[2] >= 0
          /\ gridCall' = [kind |-> kind, form |-> form, offset |-> offset, from |-> from, size |-> size]
    BY DEF GridNext
  <2>2. offset \in Int \X Int /\ from \in Int \X Int /\ size \in (Nat \X Nat) \cup {GridNone}
    BY GridAssumption
  <2> QED BY <2>1, <2>2 DEF GridCallIs, GridKinds, GridForms
<1>3. GridCallIs(gridCall) => GridCopiesOverlap
  BY GridCopyIsRight
<1> QED BY <1>1, <1>2, <1>3, PTL DEF GridSpec

----------------------------------------------------------------------------
\* PayloadFormat

\* What is computed turn by turn, from v and by step, exists.
Steps(V, n) == [(1..n) \X V -> V]
Turns(V, v, n, step) == {f \in [0..n -> V] : f[0] = v /\ \A i \in 1..n : f[i] = step[<<i, f[i - 1]>>]}
LEMMA TurnsExist ==
    ASSUME NEW V, NEW v, v \in V, NEW n, n \in Nat, NEW step, step \in Steps(V, n)
    PROVE  \E f : f \in Turns(V, v, n, step)
<1>0. step \in [(1..n) \X V -> V]
  BY DEF Steps
<1> DEFINE Good(f, m) == f[0] = v /\ \A i \in 1..m : f[i] = step[<<i, f[i - 1]>>]
           S == {m \in 0..n : \E f \in [0..m -> V] : Good(f, m)}
<1>1. 0 \in S
  <2> DEFINE f == [i \in 0..0 |-> v]
  <2>1. f \in [0..0 -> V] /\ Good(f, 0) /\ 0 \in 0..n
    OBVIOUS
  <2> HIDE DEF f, Good
  <2> QED BY <2>1
<1>2. ASSUME NEW m \in 1..n, m - 1 \in S PROVE m \in S
  <2> DEFINE l == m - 1
  <2>1. l \in Nat /\ m = l + 1 /\ m \in 0..n
    OBVIOUS
  <2>2. PICK f \in [0..l -> V] : Good(f, l)
    BY <1>2
  <2> HIDE DEF l
  <2>3. l \in 0..l /\ f[l] \in V
    BY <2>1
  <2> DEFINE next == step[<<m, f[l]>>]
             g == [i \in 0..m |-> IF i = m THEN next ELSE f[i]]
  <2>4. next \in V
    <3>1. <<m, f[l]>> \in (1..n) \X V
      BY <2>3
    <3> QED BY <1>0, <3>1
  <2> HIDE DEF next
  <2>5. g \in [0..m -> V]
    <3>1. \A i \in 0..m : i # m => i \in 0..l
      BY <2>1
    <3>2. \A i \in 0..m : (IF i = m THEN next ELSE f[i]) \in V
      BY <2>4, <3>1
    <3> QED BY <3>2
  <2>6. g[m] = next /\ \A i \in 0..l : g[i] = f[i]
    <3>1. m \in 0..m /\ \A i \in 0..l : i \in 0..m /\ i # m
      BY <2>1
    <3> QED BY <3>1
  <2> HIDE DEF g
  <2>7. g[0] = v
    <3>1. 0 \in 0..l
      BY <2>1
    <3> QED BY <2>2, <2>6, <3>1
  <2>8. ASSUME NEW i \in 1..m PROVE g[i] = step[<<i, g[i - 1]>>]
    <3>1. CASE i = m
      <4>1. i - 1 = l /\ g[l] = f[l]
        BY <2>1, <2>3, <2>6, <3>1
      <4> QED BY <2>6, <3>1, <4>1 DEF next
    <3>2. CASE i # m
      <4>1. i \in 1..l /\ i \in 0..l /\ i - 1 \in 0..l
        BY <2>1, <3>2
      <4>2. g[i] = f[i] /\ g[i - 1] = f[i - 1]
        BY <2>6, <4>1
      <4>3. f[i] = step[<<i, f[i - 1]>>]
        BY <2>2, <4>1
      <4> QED BY <4>2, <4>3
    <3> QED BY <3>1, <3>2
  <2>9. Good(g, m)
    BY <2>7, <2>8
  <2> HIDE DEF Good
  <2> QED BY <2>1, <2>5, <2>9
<1>3. 0..n \subseteq S
  <2> HIDE DEF S
  <2> QED BY <1>1, <1>2, UpTo
<1>4. n \in S
  <2> HIDE DEF S
  <2> QED BY <1>3
<1> QED BY <1>4 DEF Turns

\* The messages of a queue, without the pack.
FormatUnits == Nat \X Nat
FormatMessages == [kind : FormatKinds, bytes : Seq(FormatUnits)]

\* Where the parts of a pack end.
LEMMA FormatEndIs ==
    ASSUME NEW sizes \in Seq(Nat)
    PROVE  /\ FormatEnd(sizes) \in [0..Len(sizes) -> Nat] /\ FormatEnd(sizes)[0] = 0
           /\ \A i \in 1..Len(sizes) : FormatEnd(sizes)[i] = FormatEnd(sizes)[i - 1] + sizes[i]
<1> DEFINE n == Len(sizes)
           step == [p \in (1..n) \X Nat |-> p[2] + sizes[p[1]]]
           C == CHOOSE f : f = [i \in 0..n |-> IF i = 0 THEN 0 ELSE f[i - 1] + sizes[i]]
<1>1. n \in Nat /\ \A i \in 1..n : sizes[i] \in Nat
  OBVIOUS
<1>2. FormatEnd(sizes) = C
  BY DEF FormatEnd
<1> HIDE DEF n
<1>3. step \in [(1..n) \X Nat -> Nat]
  <2>1. \A p \in (1..n) \X Nat : p[2] \in Nat /\ sizes[p[1]] \in Nat
    BY <1>1
  <2>2. \A p \in (1..n) \X Nat : p[2] + sizes[p[1]] \in Nat
    BY <2>1
  <2> QED BY <2>2
<1>4. \A i \in 1..n, x \in Nat : step[<<i, x>>] = x + sizes[i]
  <2> SUFFICES ASSUME NEW i \in 1..n, NEW x \in Nat PROVE step[<<i, x>>] = x + sizes[i]
    OBVIOUS
  <2>1. <<i, x>> \in (1..n) \X Nat /\ <<i, x>>[1] = i /\ <<i, x>>[2] = x
    OBVIOUS
  <2> QED BY <2>1
<1> HIDE DEF step
<1>5. PICK f \in [0..n -> Nat] : f[0] = 0 /\ \A i \in 1..n : f[i] = step[<<i, f[i - 1]>>]
  <2>1. 0 \in Nat /\ step \in Steps(Nat, n)
    BY <1>3 DEF Steps
  <2>2. \E f : f \in Turns(Nat, 0, n, step)
    BY <1>1, <2>1, TurnsExist
  <2> QED BY <2>2 DEF Turns
<1>6. \A i \in 1..n : f[i] = f[i - 1] + sizes[i]
  <2> SUFFICES ASSUME NEW i \in 1..n PROVE f[i] = f[i - 1] + sizes[i]
    OBVIOUS
  <2>1. i - 1 \in 0..n
    BY <1>1
  <2>2. f[i - 1] \in Nat
    BY <2>1
  <2> QED BY <1>4, <1>5, <2>2
<1>7. f = [i \in 0..n |-> IF i = 0 THEN 0 ELSE f[i - 1] + sizes[i]]
  <2>1. \A i \in 0..n : i = 0 \/ i \in 1..n
    BY <1>1
  <2>2. \A i \in 0..n : f[i] = IF i = 0 THEN 0 ELSE f[i - 1] + sizes[i]
    BY <1>5, <1>6, <2>1
  <2> QED BY <2>2
<1>8. C = [i \in 0..n |-> IF i = 0 THEN 0 ELSE C[i - 1] + sizes[i]]
  BY <1>7
<1> HIDE DEF C
<1>9. C[0] = 0 /\ \A i \in 1..n : C[i] = C[i - 1] + sizes[i]
  <2>1. 0 \in 0..n /\ \A i \in 1..n : i \in 0..n /\ i # 0
    BY <1>1
  <2> QED BY <1>8, <2>1
<1>10. 0..n \subseteq {i \in 0..n : C[i] \in Nat}
  <2> DEFINE S == {i \in 0..n : C[i] \in Nat}
  <2>1. 0 \in S
    BY <1>1, <1>9
  <2>2. ASSUME NEW k \in 1..n, k - 1 \in S PROVE k \in S
    <3>1. C[k - 1] \in Nat /\ sizes[k] \in Nat /\ k \in 0..n
      BY <1>1, <2>2
    <3>2. C[k] \in Nat
      BY <1>9, <3>1
    <3> QED BY <3>1, <3>2
  <2> HIDE DEF S
  <2>3. 0..n \subseteq S
    BY <1>1, <2>1, <2>2, UpTo
  <2> QED BY <2>3 DEF S
<1>11. C \in [0..n -> Nat]
  BY <1>8, <1>10
<1> QED BY <1>2, <1>9, <1>11 DEF n

\* What satisfies the same equations is the same.
TurnsAlike(V, v, n, step, g) == g[0] = v /\ \A i \in 1..n : g[i - 1] \in V => g[i] = step[<<i, g[i - 1]>>]
LEMMA TurnsAre ==
    ASSUME NEW V, NEW v, NEW n, n \in Nat, NEW step, NEW f, f \in Turns(V, v, n, step),
           NEW g, TurnsAlike(V, v, n, step, g)
    PROVE  \A i \in 0..n : g[i] = f[i] /\ g[i] \in V
<1>0. g[0] = v /\ \A i \in 1..n : g[i - 1] \in V => g[i] = step[<<i, g[i - 1]>>]
  BY DEF TurnsAlike
<1>1. f \in [0..n -> V] /\ f[0] = v /\ \A i \in 1..n : f[i] = step[<<i, f[i - 1]>>]
  BY DEF Turns
<1> DEFINE S == {i \in 0..n : g[i] = f[i] /\ g[i] \in V}
<1>2. 0 \in S
  <2>1. 0 \in 0..n
    OBVIOUS
  <2> QED BY <1>0, <1>1, <2>1
<1>3. ASSUME NEW k \in 1..n, k - 1 \in S PROVE k \in S
  <2>1. g[k - 1] = f[k - 1] /\ g[k - 1] \in V /\ k \in 0..n
    BY <1>3
  <2>2. g[k] = f[k]
    BY <1>0, <1>1, <2>1
  <2>3. f[k] \in V
    BY <1>1, <2>1
  <2> QED BY <2>1, <2>2, <2>3
<1>4. 0..n \subseteq S
  <2> HIDE DEF S
  <2> QED BY <1>2, <1>3, UpTo
<1> QED BY <1>4

\* What payloadQueueOptimize has taken after each message of the queue.
FormatTakes(queue, f) ==
    /\ f \in [0..Len(queue) -> Seq(FormatMessages)] /\ f[0] = <<>>
    /\ \A i \in 1..Len(queue) : f[i] = FormatTake(f[i - 1], queue[i])
LEMMA FormatTakenIs ==
    ASSUME NEW queue \in Seq(FormatMessages)
    PROVE  \E f : FormatTakes(queue, f) /\ FormatTaken(queue) = f[Len(queue)]
<1> DEFINE n == Len(queue)
           V == Seq(FormatMessages)
           step == [p \in (1..n) \X V |-> FormatTake(p[2], queue[p[1]])]
           C == CHOOSE f : f = [i \in 0..n |-> IF i = 0 THEN <<>> ELSE FormatTake(f[i - 1], queue[i])]
<1>1. n \in Nat /\ \A i \in 1..n : queue[i] \in FormatMessages
  OBVIOUS
<1>2. FormatTaken(queue) = C[n]
  BY DEF FormatTaken
<1>3. <<>> \in V /\ \A t \in V, m \in FormatMessages : FormatTake(t, m) \in V
  BY DEF FormatTake
<1> HIDE DEF n, V
<1>4. step \in Steps(V, n)
  <2>1. \A p \in (1..n) \X V : p[1] \in 1..n /\ p[2] \in V
    OBVIOUS
  <2>2. \A p \in (1..n) \X V : FormatTake(p[2], queue[p[1]]) \in V
    BY <1>1, <1>3, <2>1
  <2> QED BY <2>2 DEF Steps
<1>5. \A i \in 1..n, x \in V : step[<<i, x>>] = FormatTake(x, queue[i])
  <2> SUFFICES ASSUME NEW i \in 1..n, NEW x \in V PROVE step[<<i, x>>] = FormatTake(x, queue[i])
    OBVIOUS
  <2>1. <<i, x>> \in (1..n) \X V /\ <<i, x>>[1] = i /\ <<i, x>>[2] = x
    OBVIOUS
  <2> QED BY <2>1
<1> HIDE DEF step
<1>6. PICK f : f \in Turns(V, <<>>, n, step)
  BY <1>1, <1>3, <1>4, TurnsExist
<1>7. f \in [0..n -> V] /\ f[0] = <<>> /\ \A i \in 1..n : f[i] = FormatTake(f[i - 1], queue[i])
  <2>1. f \in [0..n -> V] /\ f[0] = <<>> /\ \A i \in 1..n : f[i] = step[<<i, f[i - 1]>>]
    BY <1>6 DEF Turns
  <2>2. \A i \in 1..n : i - 1 \in 0..n
    BY <1>1
  <2>3. \A i \in 1..n : f[i - 1] \in V
    BY <2>1, <2>2
  <2> QED BY <1>5, <2>1, <2>3
<1>8. f = [i \in 0..n |-> IF i = 0 THEN <<>> ELSE FormatTake(f[i - 1], queue[i])]
  <2>1. \A i \in 0..n : i = 0 \/ i \in 1..n
    BY <1>1
  <2>2. \A i \in 0..n : f[i] = IF i = 0 THEN <<>> ELSE FormatTake(f[i - 1], queue[i])
    BY <1>7, <2>1
  <2> QED BY <1>7, <2>2
<1>9. C = [i \in 0..n |-> IF i = 0 THEN <<>> ELSE FormatTake(C[i - 1], queue[i])]
  BY <1>8
<1> HIDE DEF C
<1>10. C[0] = <<>> /\ \A i \in 1..n : C[i] = FormatTake(C[i - 1], queue[i])
  <2>1. 0 \in 0..n /\ \A i \in 1..n : i \in 0..n /\ i # 0
    BY <1>1
  <2> QED BY <1>9, <2>1
<1>11. \A i \in 1..n : C[i - 1] \in V => C[i] = step[<<i, C[i - 1]>>]
  BY <1>5, <1>10
<1>12. \A i \in 0..n : C[i] = f[i]
  <2>1. TurnsAlike(V, <<>>, n, step, C)
    BY <1>10, <1>11 DEF TurnsAlike
  <2>2. \A i \in 0..n : C[i] = f[i] /\ C[i] \in V
    BY <1>1, <1>6, <2>1, TurnsAre, Zenon
  <2> QED BY <2>2
<1>13. n \in 0..n
  BY <1>1
<1> QED BY <1>2, <1>7, <1>12, <1>13 DEF FormatTakes, n, V

\* Only messages of the queue are taken, and only those that can be packed.
FormatChosen(queue, taken) ==
    /\ taken \in Seq(FormatMessages)
    /\ \A j \in 1..Len(taken) : FormatPackable(taken[j]) /\ \E k \in 1..Len(queue) : taken[j] = queue[k]
LEMMA FormatTakenAre ==
    ASSUME NEW queue \in Seq(FormatMessages)
    PROVE  FormatChosen(queue, FormatTaken(queue))
<1> DEFINE n == Len(queue)
<1>1. PICK f : FormatTakes(queue, f) /\ FormatTaken(queue) = f[n]
  BY FormatTakenIs
<1> DEFINE S == {i \in 0..n : FormatChosen(queue, f[i])}
<1>2. n \in Nat /\ \A i \in 1..n : queue[i] \in FormatMessages
  OBVIOUS
<1>3. f \in [0..n -> Seq(FormatMessages)] /\ f[0] = <<>> /\ \A i \in 1..n : f[i] = FormatTake(f[i - 1], queue[i])
  BY <1>1 DEF FormatTakes
<1>4. 0 \in S
  <2>1. FormatChosen(queue, <<>>)
    BY DEF FormatChosen
  <2> QED BY <1>2, <1>3, <2>1
<1>5. ASSUME NEW k \in 1..n, k - 1 \in S PROVE k \in S
  <2> DEFINE t == f[k - 1]
             m == queue[k]
  <2>1. FormatChosen(queue, t) /\ f[k] = FormatTake(t, m) /\ m \in FormatMessages /\ k \in 0..n
    BY <1>2, <1>3, <1>5
  <2> HIDE DEF t
  <2>2. CASE FormatTake(t, m) = t
    BY <2>1, <2>2
  <2>3. CASE FormatPackable(m) /\ FormatTake(t, m) = Append(t, m)
    <3>1. t \in Seq(FormatMessages)
      BY <2>1 DEF FormatChosen
    <3> DEFINE u == Append(t, m)
    <3>2. u \in Seq(FormatMessages) /\ Len(u) = Len(t) + 1 /\ (\A j \in 1..Len(t) : u[j] = t[j]) /\ u[Len(t) + 1] = m
      BY <2>1, <3>1, AppendProperties
    <3> HIDE DEF u
    <3>3. ASSUME NEW j \in 1..Len(u) PROVE FormatPackable(u[j]) /\ \E i \in 1..n : u[j] = queue[i]
      <4>1. j \in 1..Len(t) \/ j = Len(t) + 1
        BY <3>1, <3>2
      <4> QED BY <2>1, <2>3, <3>2, <4>1 DEF FormatChosen
    <3>4. FormatChosen(queue, u)
      BY <3>2, <3>3 DEF FormatChosen
    <3> QED BY <2>1, <2>3, <3>4 DEF u
  <2> QED BY <2>2, <2>3 DEF FormatTake
<1>6. 0..n \subseteq S
  <2> HIDE DEF S, n
  <2> QED BY <1>2, <1>4, <1>5, UpTo
<1>7. n \in S
  <2> HIDE DEF S
  <2> QED BY <1>2, <1>6
<1> QED BY <1>1, <1>7

\* What lies between two others.
LEMMA MiddleIs ==
    ASSUME NEW S, NEW x \in Seq(S), NEW y \in Seq(S), NEW z \in Seq(S)
    PROVE  SubSeq((x \o y) \o z, Len(x) + 1, Len(x) + Len(y)) = y
<1> DEFINE s == (x \o y) \o z
           a == Len(x)
           b == Len(x) + Len(y)
           d == SubSeq(s, a + 1, b)
<1>1. x \o y \in Seq(S) /\ Len(x \o y) = b /\ s \in Seq(S) /\ Len(s) = b + Len(z) /\ Len(x) \in Nat /\ Len(y) \in Nat /\ Len(z) \in Nat
  OBVIOUS
<1>2. \A i \in 1..Len(y) : s[a + i] = y[i]
  <2> SUFFICES ASSUME NEW i \in 1..Len(y) PROVE s[a + i] = y[i]
    OBVIOUS
  <2>1. (x \o y)[a + i] = y[i]
    OBVIOUS
  <2>2. a + i \in 1..Len(x \o y)
    BY <1>1
  <2> QED BY <1>1, <2>1, <2>2
<1>3. a \in 0..Len(s) /\ b \in a..Len(s) /\ b - a = Len(y)
  BY <1>1
<1> HIDE DEF s, a, b
<1>4. d \in Seq(S) /\ Len(d) = b - a /\ \A i \in 1..(b - a) : d[i] = s[a + i]
  BY <1>1, <1>3, PartIs
<1> HIDE DEF d
<1>5. Len(d) = Len(y) /\ \A i \in 1..Len(d) : d[i] = y[i]
  BY <1>2, <1>3, <1>4
<1>6. d = y
  BY <1>4, <1>5, SeqEqual
<1> QED BY <1>6 DEF d, s, a, b

\* The bytes of the first parts.
FormatFirst(p, i) == FlattenSeq(FirstOf(p, i))
LEMMA FormatFirstIs ==
    ASSUME NEW n \in Nat, NEW p \in [1..n -> Seq(FormatUnits)], NEW i \in 1..n
    PROVE  /\ FormatFirst(p, i - 1) \in Seq(FormatUnits) /\ FormatFirst(p, i) \in Seq(FormatUnits)
           /\ FormatFirst(p, i) = FormatFirst(p, i - 1) \o p[i]
<1> DEFINE l == i - 1
           s == FirstOf(p, l + 1)
           t == FirstOf(p, l)
<1>1. l \in Nat /\ l + 1 = i
  OBVIOUS
<1>2. \A j \in 1..(l + 1) : j \in 1..n
  OBVIOUS
<1> HIDE DEF l
<1>3. s \in [1..(l + 1) -> Seq(FormatUnits)]
  BY <1>2 DEF FirstOf
<1>4. t = [j \in 1..l |-> s[j]]
  <2>1. \A j \in 1..l : j \in 1..(l + 1)
    BY <1>1
  <2>2. \A j \in 1..l : s[j] = t[j]
    BY <2>1 DEF FirstOf
  <2> QED BY <2>2 DEF FirstOf
<1>5. s[l + 1] = p[i]
  <2>1. l + 1 \in 1..(l + 1)
    BY <1>1
  <2> QED BY <1>1, <2>1 DEF FirstOf
<1> HIDE DEF s, t
<1>6. FlattenSeq(t) \in Seq(FormatUnits) /\ FlattenSeq(s) \in Seq(FormatUnits) /\ FlattenSeq(s) = FlattenSeq(t) \o s[l + 1]
  BY <1>1, <1>3, <1>4, FlattenMore
<1> QED BY <1>1, <1>5, <1>6 DEF FormatFirst, s, t, l

LEMMA FormatFirstEnds ==
    ASSUME NEW n \in Nat, NEW p \in [1..n -> Seq(FormatUnits)]
    PROVE  FormatFirst(p, 0) = <<>> /\ FormatFirst(p, n) = FlattenSeq(p)
<1>1. FirstOf(p, 0) = <<>> /\ Len(FirstOf(p, 0)) = 0
  BY DEF FirstOf
<1>2. FlattenSeq(FirstOf(p, 0)) = <<>>
  BY <1>1 DEF FlattenSeq
<1>3. FirstOf(p, n) = p
  BY DEF FirstOf
<1> QED BY <1>2, <1>3 DEF FormatFirst

LEMMA FormatAreBytes ==
    ASSUME NEW n \in Nat, NEW p \in [1..n -> Seq(FormatUnits)]
    PROVE  FlattenSeq(p) \in Seq(FormatUnits)
<1>1. CASE n = 0
  <2>1. FlattenSeq(p) = <<>>
    BY <1>1, FormatFirstEnds
  <2> QED BY <2>1
<1>2. CASE n # 0
  <2>1. n \in 1..n
    BY <1>2
  <2> QED BY <2>1, FormatFirstIs, FormatFirstEnds
<1> QED BY <1>1, <1>2

\* Each part lies between the end of the one before it and its own.
LEMMA FormatPartIs ==
    ASSUME NEW n \in Nat, NEW p \in [1..n -> Seq(FormatUnits)], NEW i \in 1..n
    PROVE  SubSeq(FlattenSeq(p), Len(FormatFirst(p, i - 1)) + 1, Len(FormatFirst(p, i - 1)) + Len(p[i])) = p[i]
<1> DEFINE x == FormatFirst(p, i - 1)
           y == p[i]
           rest == RestOf(p, i, n - i)
           z == FlattenSeq(rest)
<1>1. x \in Seq(FormatUnits) /\ FormatFirst(p, i) = x \o y /\ y \in Seq(FormatUnits)
  BY FormatFirstIs
<1>2. n - i \in Nat /\ rest \in [1..(n - i) -> Seq(FormatUnits)] /\ i \in 0..n
  <2>1. n - i \in Nat /\ i \in 0..n /\ \A j \in 1..(n - i) : i + j \in 1..n
    OBVIOUS
  <2> QED BY <2>1 DEF RestOf
<1>3. z \in Seq(FormatUnits)
  <2> DEFINE m == n - i
  <2>1. m \in Nat /\ rest \in [1..m -> Seq(FormatUnits)]
    BY <1>2
  <2> HIDE DEF m, rest
  <2> QED BY <2>1, FormatAreBytes
<1>4. FlattenSeq(p) = FlattenSeq(FirstOf(p, i)) \o z
  BY <1>2, FlattenJoins
<1>5. FlattenSeq(p) = (x \o y) \o z
  BY <1>1, <1>4 DEF FormatFirst
<1> HIDE DEF x, y, z
<1>6. SubSeq((x \o y) \o z, Len(x) + 1, Len(x) + Len(y)) = y
  BY <1>1, <1>3, MiddleIs
<1> QED BY <1>5, <1>6 DEF x, y

\* The parts of a pack end where its sizes say, or beyond if one of them does not fit in its size.
LEMMA FormatEndsAre ==
    ASSUME NEW n \in Nat, NEW p \in [1..n -> Seq(FormatUnits)],
           NEW sizes, sizes = [i \in 1..n |-> Len(p[i]) % FormatWord], NEW i \in 0..n
    PROVE  /\ FormatEnd(sizes)[i] <= Len(FormatFirst(p, i)) /\ FormatEnd(sizes)[i] \in Nat /\ Len(FormatFirst(p, i)) \in Nat
           /\ (\A j \in 1..n : Len(p[j]) < FormatWord) => FormatEnd(sizes)[i] = Len(FormatFirst(p, i))
           /\ (\A j \in 1..n : p[j] # <<>>) => i <= Len(FormatFirst(p, i))
<1> DEFINE end == FormatEnd(sizes)
           fit == \A j \in 1..n : Len(p[j]) < FormatWord
           full == \A j \in 1..n : p[j] # <<>>
           length(j) == Len(FormatFirst(p, j))
           S == {j \in 0..n : /\ end[j] <= length(j) /\ end[j] \in Nat /\ length(j) \in Nat
                              /\ fit => end[j] = length(j)
                              /\ full => j <= length(j)}
<1>1. FormatWord \in Nat \ {0}
  BY FormatAssumption
<1>2. \A j \in 1..n : Len(p[j]) \in Nat /\ Len(p[j]) % FormatWord \in Nat
  <2>1. \A j \in 1..n : Len(p[j]) \in Nat
    OBVIOUS
  <2> QED BY <1>1, <2>1
<1>3. \A j \in 1..n : Len(p[j]) % FormatWord <= Len(p[j]) /\ (Len(p[j]) < FormatWord => Len(p[j]) % FormatWord = Len(p[j]))
  <2> SUFFICES ASSUME NEW a \in Nat PROVE a % FormatWord <= a /\ (a < FormatWord => a % FormatWord = a)
    BY <1>2
  <2> QED BY <1>1
<1>4. sizes \in Seq(Nat) /\ Len(sizes) = n /\ \A j \in 1..n : sizes[j] = Len(p[j]) % FormatWord
  BY <1>2
<1>5. end[0] = 0 /\ \A j \in 1..n : end[j] = end[j - 1] + sizes[j]
  BY <1>4, FormatEndIs
<1>6. length(0) = 0
  BY FormatFirstEnds
<1>7. \A j \in 1..n : length(j) = length(j - 1) + Len(p[j])
  <2> SUFFICES ASSUME NEW j \in 1..n PROVE length(j) = length(j - 1) + Len(p[j])
    OBVIOUS
  <2>1. FormatFirst(p, j - 1) \in Seq(FormatUnits) /\ FormatFirst(p, j) = FormatFirst(p, j - 1) \o p[j] /\ p[j] \in Seq(FormatUnits)
    BY FormatFirstIs
  <2> QED BY <2>1
<1>8. \A j \in 1..n : full => Len(p[j]) >= 1
  <2> SUFFICES ASSUME NEW j \in 1..n, p[j] # <<>> PROVE Len(p[j]) >= 1
    OBVIOUS
  <2>1. p[j] \in Seq(FormatUnits)
    OBVIOUS
  <2> QED BY <2>1
<1> HIDE DEF end, length, full
<1>9. 0 \in S
  BY <1>5, <1>6
<1>10. ASSUME NEW k \in 1..n, k - 1 \in S PROVE k \in S
  <2>1. end[k] = end[k - 1] + sizes[k] /\ length(k) = length(k - 1) + Len(p[k]) /\ sizes[k] = Len(p[k]) % FormatWord
    BY <1>4, <1>5, <1>7
  <2>2. /\ end[k - 1] <= length(k - 1) /\ end[k - 1] \in Nat /\ length(k - 1) \in Nat
        /\ fit => end[k - 1] = length(k - 1)
        /\ full => k - 1 <= length(k - 1)
    BY <1>10
  <2>3. /\ sizes[k] \in Nat /\ Len(p[k]) \in Nat /\ sizes[k] <= Len(p[k])
        /\ fit => sizes[k] = Len(p[k])
        /\ full => Len(p[k]) >= 1
    BY <1>2, <1>3, <1>8, <2>1
  <2> HIDE DEF fit
  <2>4. /\ end[k] <= length(k) /\ end[k] \in Nat /\ length(k) \in Nat
        /\ fit => end[k] = length(k)
        /\ full => k <= length(k)
    BY <2>1, <2>2, <2>3
  <2> QED BY <2>4
<1>11. 0..n \subseteq S
  <2> HIDE DEF S
  <2> QED BY <1>9, <1>10, UpTo
<1> QED BY <1>11 DEF end, length, full

\* A pack whose parts fit in their sizes is taken apart into them.
FormatBodies(taken) == [i \in 1..Len(taken) |-> taken[i].bytes]
LEMMA FormatBodiesAre ==
    ASSUME NEW taken \in Seq(FormatMessages)
    PROVE  /\ FormatBodies(taken) \in [1..Len(taken) -> Seq(FormatUnits)]
           /\ FormatBytes(taken) = FlattenSeq(FormatBodies(taken))
           /\ FormatPack(taken).sizes = [i \in 1..Len(taken) |-> Len(FormatBodies(taken)[i]) % FormatWord]
           /\ FormatPack(taken).bytes = FormatBytes(taken) /\ FormatPack(taken).kind = "pack"
           /\ FormatPack(taken).count = Len(taken) % FormatWord
<1>1. DOMAIN taken = 1..Len(taken) /\ \A i \in 1..Len(taken) : taken[i] \in FormatMessages
  OBVIOUS
<1>2. \A i \in 1..Len(taken) : taken[i].bytes \in Seq(FormatUnits)
  BY <1>1 DEF FormatMessages
<1>3. FormatBytes(taken) = FlattenSeq(FormatBodies(taken))
  BY <1>1 DEF FormatBytes, FormatBodies
<1>4. FormatBodies(taken) \in [1..Len(taken) -> Seq(FormatUnits)]
  BY <1>2 DEF FormatBodies
<1>5. \A i \in 1..Len(taken) : FormatBodies(taken)[i] = taken[i].bytes
  BY DEF FormatBodies
<1>6. FormatPack(taken).sizes = [i \in 1..Len(taken) |-> Len(FormatBodies(taken)[i]) % FormatWord]
  BY <1>1, <1>5 DEF FormatPack
<1> QED BY <1>3, <1>4, <1>6 DEF FormatPack

\* No part of a pack ends beyond its bytes.
LEMMA FormatPackHolds ==
    ASSUME NEW taken \in Seq(FormatMessages)
    PROVE  /\ FormatEnd(FormatPack(taken).sizes)[Len(FormatPack(taken).sizes)] <= Len(FormatPack(taken).bytes)
           /\ (\A i \in 1..Len(taken) : taken[i].bytes # <<>>) => Len(taken) <= Len(FormatPack(taken).bytes)
<1> DEFINE n == Len(taken)
           p == FormatBodies(taken)
           sizes == FormatPack(taken).sizes
           bytes == FormatPack(taken).bytes
<1>1. n \in Nat /\ n \in 0..n
  OBVIOUS
<1>2. p \in [1..n -> Seq(FormatUnits)] /\ sizes = [i \in 1..n |-> Len(p[i]) % FormatWord] /\ bytes = FlattenSeq(p)
  BY FormatBodiesAre
<1>3. (\A i \in 1..n : taken[i].bytes # <<>>) => \A i \in 1..n : p[i] # <<>>
  BY DEF FormatBodies
<1> DEFINE full == \A i \in 1..n : taken[i].bytes # <<>>
<1> HIDE DEF n, p, sizes, bytes, full
<1>4. /\ FormatEnd(sizes)[n] <= Len(FormatFirst(p, n))
      /\ (\A j \in 1..n : p[j] # <<>>) => n <= Len(FormatFirst(p, n))
  BY <1>1, <1>2, FormatEndsAre
<1>5. FormatFirst(p, n) = bytes
  BY <1>1, <1>2, FormatFirstEnds
<1>6. Len(sizes) = n
  BY <1>1, <1>2
<1>7. FormatEnd(sizes)[Len(sizes)] <= Len(bytes) /\ (full => n <= Len(bytes))
  BY <1>3, <1>4, <1>5, <1>6 DEF full
<1> QED BY <1>7 DEF n, sizes, bytes, full

LEMMA FormatUnpackedIs ==
    ASSUME NEW taken \in Seq(FormatMessages), Len(taken) < FormatWord,
           \A i \in 1..Len(taken) : Len(taken[i].bytes) < FormatWord
    PROVE  FormatUnpacked(FormatPack(taken)) = [i \in 1..Len(taken) |-> FormatArrival(FALSE, taken[i].bytes)]
<1> DEFINE n == Len(taken)
           p == FormatBodies(taken)
           m == FormatPack(taken)
           sizes == m.sizes
           bytes == m.bytes
           end == FormatEnd(sizes)
           part(i) == SubSeq(bytes, end[i - 1] + 1, end[i - 1] + sizes[i])
<1>1. n \in Nat /\ FormatWord \in Nat \ {0}
  BY FormatAssumption
<1>2. m.kind = "pack" /\ m.count = n % FormatWord
  BY FormatBodiesAre
<1>3. n % FormatWord = n
  <2> HIDE DEF n
  <2>1. n < FormatWord
    BY DEF n
  <2>2. ASSUME NEW a \in Nat, NEW w \in Nat \ {0}, a < w PROVE a % w = a
    BY <2>2
  <2> QED BY <1>1, <2>1, <2>2
<1>4. p \in [1..n -> Seq(FormatUnits)] /\ sizes = [i \in 1..n |-> Len(p[i]) % FormatWord] /\ bytes = FlattenSeq(p)
  BY FormatBodiesAre
<1>5. \A i \in 1..n : p[i] = taken[i].bytes /\ Len(p[i]) < FormatWord
  BY DEF FormatBodies
<1>6. FormatUnpacked(m) = [i \in 1..m.count |-> FormatArrival(FALSE, part(i))]
  BY <1>2 DEF FormatUnpacked
<1>7. ASSUME NEW i \in 1..n PROVE part(i) = taken[i].bytes
  <2> HIDE DEF n, p, sizes, bytes, m
  <2>1. i - 1 \in 0..n
    BY <1>1
  <2> DEFINE l == i - 1
  <2>2. l \in 0..n
    BY <2>1
  <2> HIDE DEF l
  <2>3. end[l] = Len(FormatFirst(p, l))
    BY <1>1, <1>4, <1>5, <2>2, FormatEndsAre
  <2>4. sizes[i] = Len(p[i])
    <3>1. p[i] \in Seq(FormatUnits) /\ Len(p[i]) < FormatWord
      BY <1>4, <1>5
    <3>2. Len(p[i]) \in Nat
      BY <3>1
    <3>3. sizes[i] = Len(p[i]) % FormatWord
      BY <1>4
    <3>4. ASSUME NEW a \in Nat, NEW w \in Nat \ {0}, a < w PROVE a % w = a
      BY <3>4
    <3> QED BY <1>1, <3>1, <3>2, <3>3, <3>4
  <2>5. SubSeq(bytes, Len(FormatFirst(p, i - 1)) + 1, Len(FormatFirst(p, i - 1)) + Len(p[i])) = p[i]
    BY <1>1, <1>4, FormatPartIs
  <2>6. end[i - 1] = Len(FormatFirst(p, i - 1))
    BY <2>3 DEF l
  <2> QED BY <1>5, <2>4, <2>5, <2>6
<1>8. FormatUnpacked(m) = [i \in 1..n |-> FormatArrival(FALSE, part(i))]
  BY <1>2, <1>3, <1>6
<1> HIDE DEF part, m, n
<1>9. \A i \in 1..n : FormatArrival(FALSE, part(i)) = FormatArrival(FALSE, taken[i].bytes)
  BY <1>7
<1> QED BY <1>8, <1>9 DEF m, n

\* What is left of the queue is what it held and the pack.
LEMMA FormatRemovedIs ==
    ASSUME NEW V, NEW queue \in Seq(V), NEW m
    PROVE  FormatRemoved(queue, m) \in Seq(V)
<1>1. CASE m \notin Range(queue)
  BY <1>1 DEF FormatRemoved
<1>2. CASE m \in Range(queue)
  <2> DEFINE i == CHOOSE i \in DOMAIN queue : queue[i] = m
             s == IF i < Len(queue) THEN ReplaceAt(queue, i, Last(queue)) ELSE queue
             l == Len(queue) - 1
  <2>1. i \in DOMAIN queue
    BY <1>2 DEF Range
  <2>2. FormatRemoved(queue, m) = SubSeq(s, 1, l)
    BY <1>2 DEF FormatRemoved, FormatRemoveUnordered
  <2>3. Len(queue) \in Nat /\ i \in 1..Len(queue)
    BY <2>1
  <2>4. Last(queue) \in V /\ l \in Nat
    BY <2>3 DEF Last
  <2> HIDE DEF i
  <2>5. s \in Seq(V) /\ Len(s) = Len(queue)
    BY <2>3, <2>4 DEF ReplaceAt
  <2> HIDE DEF s
  <2>6. 0 \in 0..Len(s) /\ l \in 0..Len(s)
    BY <2>3, <2>4, <2>5
  <2>7. SubSeq(s, 0 + 1, l) \in Seq(V)
    BY <2>5, <2>6, PartIs
  <2> QED BY <2>2, <2>7
<1> QED BY <1>1, <1>2

LEMMA FormatOptimizedIs ==
    ASSUME NEW queue \in Seq(FormatMessages)
    PROVE  FormatOptimized(queue) \in Seq(FormatMessages \cup {FormatPack(FormatTaken(queue))})
<1> DEFINE taken == FormatTaken(queue)
           pack == FormatPack(taken)
           V == Seq(FormatMessages \cup {pack})
           n == Len(taken)
           first == Append(queue, pack)
           step == [p \in (1..n) \X V |-> FormatRemoved(p[2], taken[p[1]])]
           C == CHOOSE f : f = [i \in 0..n |-> IF i = 0 THEN first ELSE FormatRemoved(f[i - 1], taken[i])]
<1>1. n \in Nat
  <2>1. taken \in Seq(FormatMessages)
    BY FormatTakenAre DEF FormatChosen
  <2> HIDE DEF taken
  <2> QED BY <2>1
<1>2. FormatOptimized(queue) = IF Len(queue) < 2 \/ taken = <<>> THEN queue ELSE C[n]
  BY DEF FormatOptimized
<1> HIDE DEF n, pack
<1>3. queue \in V /\ first \in V
  <2>1. queue \in V
    OBVIOUS
  <2> QED BY <2>1
<1>4. \A i \in 1..n, x \in V : FormatRemoved(x, taken[i]) \in V
  BY FormatRemovedIs
<1> HIDE DEF V, first, taken
<1>5. step \in Steps(V, n)
  <2>1. \A p \in (1..n) \X V : p[1] \in 1..n /\ p[2] \in V
    OBVIOUS
  <2>2. \A p \in (1..n) \X V : FormatRemoved(p[2], taken[p[1]]) \in V
    BY <1>4, <2>1
  <2> QED BY <2>2 DEF Steps
<1>6. \A i \in 1..n, x \in V : step[<<i, x>>] = FormatRemoved(x, taken[i])
  <2> SUFFICES ASSUME NEW i \in 1..n, NEW x \in V PROVE step[<<i, x>>] = FormatRemoved(x, taken[i])
    OBVIOUS
  <2>1. <<i, x>> \in (1..n) \X V /\ <<i, x>>[1] = i /\ <<i, x>>[2] = x
    OBVIOUS
  <2> QED BY <2>1
<1> HIDE DEF step
<1>7. PICK f : f \in Turns(V, first, n, step)
  BY <1>1, <1>3, <1>5, TurnsExist
<1>8. f \in [0..n -> V] /\ f[0] = first /\ \A i \in 1..n : f[i] = FormatRemoved(f[i - 1], taken[i])
  <2>1. f \in [0..n -> V] /\ f[0] = first /\ \A i \in 1..n : f[i] = step[<<i, f[i - 1]>>]
    BY <1>7 DEF Turns
  <2>2. \A i \in 1..n : i - 1 \in 0..n
    BY <1>1
  <2>3. \A i \in 1..n : f[i - 1] \in V
    BY <2>1, <2>2
  <2> QED BY <1>6, <2>1, <2>3
<1>9. f = [i \in 0..n |-> IF i = 0 THEN first ELSE FormatRemoved(f[i - 1], taken[i])]
  <2>1. \A i \in 0..n : i = 0 \/ i \in 1..n
    BY <1>1
  <2>2. \A i \in 0..n : f[i] = IF i = 0 THEN first ELSE FormatRemoved(f[i - 1], taken[i])
    BY <1>8, <2>1
  <2> QED BY <1>8, <2>2
<1>10. C = [i \in 0..n |-> IF i = 0 THEN first ELSE FormatRemoved(C[i - 1], taken[i])]
  BY <1>9
<1> HIDE DEF C
<1>11. C[0] = first /\ \A i \in 1..n : C[i] = FormatRemoved(C[i - 1], taken[i])
  <2>1. 0 \in 0..n /\ \A i \in 1..n : i \in 0..n /\ i # 0
    BY <1>1
  <2> QED BY <1>10, <2>1
<1>12. \A i \in 1..n : C[i - 1] \in V => C[i] = step[<<i, C[i - 1]>>]
  BY <1>6, <1>11
<1>13. C[n] \in V
  <2>1. TurnsAlike(V, first, n, step, C)
    BY <1>11, <1>12 DEF TurnsAlike
  <2>2. \A i \in 0..n : C[i] = f[i] /\ C[i] \in V
    BY <1>1, <1>7, <2>1, TurnsAre, Zenon
  <2>3. n \in 0..n
    BY <1>1
  <2> QED BY <2>2, <2>3
<1> QED BY <1>2, <1>3, <1>13 DEF V, pack, taken

\* What can be pushed.
LEMMA FormatMessageIs ==
    ASSUME NEW kind \in FormatKinds, NEW size \in FormatSizes, NEW id \in Nat
    PROVE  FormatMessage(kind, size, id) \in FormatMessages
<1> DEFINE n == IF kind = "response" THEN 0 ELSE size
           bytes == [k \in 1..n |-> <<id, k>>]
<1>1. n \in Nat
  BY FormatAssumption
<1> HIDE DEF n
<1>2. \A k \in 1..n : <<id, k>> \in FormatUnits
  BY <1>1 DEF FormatUnits
<1>3. bytes \in [1..n -> FormatUnits]
  BY <1>2
<1>4. bytes \in Seq(FormatUnits)
  BY <1>1, <1>3
<1> HIDE DEF bytes
<1>5. FormatMessage(kind, size, id) = [kind |-> kind, bytes |-> bytes]
  BY DEF FormatMessage, bytes, n
<1> QED BY <1>4, <1>5 DEF FormatMessages

FormatHeld == formatQueue \in Seq(FormatMessages)
LEMMA FormatQueueIs == FormatSpec => []FormatHeld
<1>1. FormatInit => FormatHeld
  BY DEF FormatInit, FormatHeld
<1>2. FormatHeld /\ [FormatNext]_formatQueue => FormatHeld'
  <2> SUFFICES ASSUME formatQueue \in Seq(FormatMessages), FormatNext PROVE formatQueue' \in Seq(FormatMessages)
    BY DEF FormatHeld
  <2> DEFINE id == Len(formatQueue) + 1
  <2>1. id \in Nat
    OBVIOUS
  <2> HIDE DEF id
  <2>2. PICK kind \in FormatKinds, size \in FormatSizes : formatQueue' = Append(formatQueue, FormatMessage(kind, size, id))
    BY DEF FormatNext, id
  <2>3. FormatMessage(kind, size, id) \in FormatMessages
    BY <2>1, FormatMessageIs
  <2> QED BY <2>2, <2>3, AppendProperties
<1> QED BY <1>1, <1>2, PTL DEF FormatSpec

\* Whatever payloads are pushed, and whatever the limit on a message and the width of a count and a
\* size are: payloadQueueOptimize packs only payloads of the queue that can be packed, the pack says
\* of no byte it does not hold, and handlePAYLOADRequest takes a pack that is not refused apart into
\* these payloads, in their order and each whole, if each has no more bytes than its size can say.
THEOREM FormatPacksCorrect == FormatSpec => []FormatPacksUnpack
<1>1. FormatHeld => FormatPacksUnpack
  <2> SUFFICES ASSUME formatQueue \in Seq(FormatMessages) PROVE FormatPacksUnpack
    BY DEF FormatHeld
  <2>0. formatQueue \in Seq(FormatMessages)
    OBVIOUS
  <2> DEFINE queue == formatQueue
             taken == FormatTaken(queue)
             pack == FormatPack(taken)
             n == Len(taken)
             size == Len(pack.bytes)
  <2>1. /\ taken \in Seq(FormatMessages)
        /\ \A j \in 1..n : FormatPackable(taken[j]) /\ \E k \in 1..Len(queue) : taken[j] = queue[k]
    BY <2>0, FormatTakenAre DEF FormatChosen
  <2>2. n \in Nat /\ DOMAIN taken = 1..n
    <3> HIDE DEF taken
    <3> QED BY <2>1
  <2>3. \A j \in 1..n : taken[j] \in Range(queue)
    <3>1. \A k \in 1..Len(queue) : queue[k] \in Range(queue)
      BY <2>0 DEF Range
    <3> QED BY <2>1, <3>1
  <2>4. \A m \in Range(FormatOptimized(queue)) : m.kind = "pack" => m = pack
    <3> HIDE DEF taken
    <3>1. FormatOptimized(queue) \in Seq(FormatMessages \cup {pack})
      BY <2>0, FormatOptimizedIs DEF taken
    <3>2. \A m \in FormatMessages : m.kind # "pack"
      BY DEF FormatMessages, FormatKinds
    <3>3. Range(FormatOptimized(queue)) \subseteq FormatMessages \cup {pack}
      <4> DEFINE s == FormatOptimized(queue)
      <4> HIDE DEF s, pack
      <4>1. s \in Seq(FormatMessages \cup {pack})
        BY <3>1 DEF s
      <4>2. \A i \in DOMAIN s : s[i] \in FormatMessages \cup {pack}
        BY <4>1
      <4> QED BY <4>2 DEF Range, s
    <3> QED BY <3>2, <3>3
  <2>5. FormatEnd(pack.sizes)[Len(pack.sizes)] <= size /\ n <= size
    <3>1. \A j \in 1..n : taken[j].bytes # <<>>
      BY <2>1 DEF FormatPackable
    <3> QED BY <2>1, <3>1, FormatPackHolds
  <2>6. FormatSize(pack) = 2 + 2 * n + size /\ size \in Nat
    <3> HIDE DEF taken
    <3>1. /\ FormatBodies(taken) \in [1..n -> Seq(FormatUnits)] /\ pack.bytes = FlattenSeq(FormatBodies(taken))
          /\ pack.sizes = [i \in 1..n |-> Len(FormatBodies(taken)[i]) % FormatWord] /\ pack.kind = "pack"
      BY <2>1, FormatBodiesAre
    <3> HIDE DEF pack, n
    <3>2. pack.bytes \in Seq(FormatUnits)
      BY <2>2, <3>1, FormatAreBytes
    <3>3. Len(pack.sizes) = n
      BY <2>2, <3>1
    <3>4. size \in Nat
      BY <3>2
    <3>5. FormatSize(pack) = 2 + 2 * Len(pack.sizes) + Len(pack.bytes)
      BY <3>1, Zenon DEF FormatSize
    <3> QED BY <3>3, <3>4, <3>5
  <2>7. ASSUME FormatSize(pack) <= FormatLimit, \A i \in 1..n : Len(taken[i].bytes) < FormatWord
        PROVE  FormatUnpacked(pack) = [i \in 1..n |-> FormatArrival(FALSE, taken[i].bytes)]
    <3>1. n < FormatWord
      <4> HIDE DEF n, size, taken, pack
      <4>1. FormatLimit \in Nat /\ FormatWord \in Nat /\ FormatLimit <= 3 * FormatWord
        BY FormatAssumption
      <4> QED BY <2>2, <2>5, <2>6, <2>7, <4>1
    <3> QED BY <2>1, <2>7, <3>1, FormatUnpackedIs
  <2> HIDE DEF pack, n, taken
  <2> QED BY <2>1, <2>2, <2>3, <2>4, <2>5, <2>7 DEF FormatPacksUnpack, taken, size
<1> QED BY <1>1, FormatQueueIs, PTL
=============================================================================
