--------------------------- MODULE ArrayCircular ---------------------------
(***************************************************************************)
(* array_circular of llc/gpk_array_circular.h: a queue in a static array,  *)
(* with the position of its first element and their count.  A call is a    *)
(* step, except read, which fills the array from a source, one element at  *)
(* a time up to a limit taken when it begins.                              *)
(***************************************************************************)
EXTENDS Naturals, Sequences

CONSTANTS
    RingSize,   \* mAx
    RingValues  \* the elements

ASSUME RingAssumption == RingSize \in Nat \ {0}

RingSlots == 0..RingSize - 1

VARIABLES
    ringStorage, \* Storage
    ringOffset,  \* Offset
    ringCount,   \* Count
    ringOutput,  \* output of the last call of next
    ringToRead   \* elements that the running read may still add; 0 between calls

ringVars == <<ringStorage, ringOffset, ringCount, ringOutput, ringToRead>>

RingInit ==
    /\ ringStorage \in [RingSlots -> RingValues] /\ ringOutput \in RingValues
    /\ ringOffset = 0 /\ ringCount = 0
    /\ ringToRead = 0

RingFree == RingSize - ringCount

BugRingForgetsToWrap ==
    /\ ringToRead = 0 /\ ringCount > 0
    /\ ringOutput' = ringStorage[ringOffset % RingSize]
    /\ ringOffset' = ringOffset + 1
    /\ ringCount' = ringCount - 1
    /\ UNCHANGED <<ringStorage, ringToRead>>
\* next: an empty array has none.
RingNextElement ==
    /\ ringToRead = 0 /\ ringCount > 0
    /\ ringOutput' = ringStorage[ringOffset % RingSize]
    /\ ringOffset' = IF ringOffset + 1 = RingSize THEN 0 ELSE ringOffset + 1
    /\ ringCount' = ringCount - 1
    /\ UNCHANGED <<ringStorage, ringToRead>>

BugRingOverwrites(value) ==
    /\ ringStorage' = [ringStorage EXCEPT ![ringCount % RingSize] = value]
    /\ ringCount' = ringCount + 1
    /\ UNCHANGED <<ringOffset, ringOutput>>
\* push_back: a full array refuses it.
RingPush(value) ==
    /\ RingFree > 0
    /\ ringStorage' = [ringStorage EXCEPT ![(ringOffset + ringCount) % RingSize] = value]
    /\ ringCount' = ringCount + 1
    /\ UNCHANGED <<ringOffset, ringOutput>>

RingPushBack(value) == ringToRead = 0 /\ RingPush(value) /\ UNCHANGED ringToRead

\* read: up to what is free, or to a number asked for; the source may end it before.
RingReadBegin ==
    /\ ringToRead = 0
    /\ ringToRead' \in 1..RingFree
    /\ UNCHANGED <<ringStorage, ringOffset, ringCount, ringOutput>>
RingReadOne(value) ==
    /\ ringToRead > 0
    /\ RingPush(value)
    /\ ringToRead' = ringToRead - 1
RingReadEnd ==
    /\ ringToRead > 0
    /\ ringToRead' = 0
    /\ UNCHANGED <<ringStorage, ringOffset, ringCount, ringOutput>>

RingNext ==
    \/ RingNextElement
    \/ \E value \in RingValues : RingPushBack(value) \/ RingReadOne(value)
    \/ RingReadBegin
    \/ RingReadEnd

RingSpec == RingInit /\ [][RingNext]_ringVars

----------------------------------------------------------------------------
\* pair: the elements to the end of the array, and those from its beginning.
RingLeftCount == IF ringCount < RingSize - ringOffset THEN ringCount ELSE RingSize - ringOffset
RingRightCount == ringCount - RingLeftCount

RingLeft == [k \in 1..RingLeftCount |-> ringStorage[ringOffset + k - 1]]
RingRight == [k \in 1..RingRightCount |-> ringStorage[k - 1]]
RingPair == RingLeft \o RingRight

----------------------------------------------------------------------------
\* Properties

RingTypeOK ==
    /\ ringStorage \in [RingSlots -> RingValues] /\ ringOutput \in RingValues
    /\ ringOffset \in RingSlots /\ ringCount \in 0..RingSize
    /\ ringToRead \in 0..RingSize - ringCount

RingQueue == INSTANCE BoundedQueue WITH
    Capacity <- RingSize, Values <- RingValues, items <- RingPair, output <- ringOutput

\* array_circular implements the bounded queue; its two views are what it holds, in order.
RingIsQueue == RingQueue!Spec
=============================================================================
