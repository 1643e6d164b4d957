------------------------------ MODULE ArrayPod ------------------------------
(***************************************************************************)
(* gpk::array_pod (llc/gpk_array_pod.h over gpk_array_base.h), the array   *)
(* under the strings, views and buffers of the library: a block of memory  *)
(* that moves when it grows, the elements in use at its start and an empty *)
(* one after them.  What is appended, inserted or assigned may be a part   *)
(* of the array itself, which the call then moves under its own feet.      *)
(* Allocation succeeds.                                                    *)
(***************************************************************************)
EXTENDS Integers, Sequences

CONSTANTS
    PodValues, \* elements
    PodChains, \* chains of elements from elsewhere
    PodLength  \* bound: the elements of the array

ASSUME PodAssumption == PodChains \subseteq Seq(PodValues) /\ PodLength \in Nat

\* What memory holds before anything is written to it, and {}.
PodGarbage == "garbage"
PodEmpty == "empty"

VARIABLES
    podData,  \* Data: Size + 1 elements, or <<>> for the null pointer
    podCount, \* Count
    podMeant  \* history: what the calls so far mean

podVars == <<podData, podCount, podMeant>>

PodInit == podData = <<>> /\ podCount = 0 /\ podMeant = <<>>

----------------------------------------------------------------------------
\* Memory.  Offsets are from 0, as in the code.

PodAt(data, offset, n) == SubSeq(data, offset + 1, offset + n)
PodPut(data, offset, chain) ==
    SubSeq(data, 1, offset) \o chain \o SubSeq(data, offset + Len(chain) + 1, Len(data))

PodSize(data) == IF data = <<>> THEN 0 ELSE Len(data) - 1

\* alloc_with_reserve
PodAllocated(n) == [i \in 1..(2 + n + (n \div 4) + 1) |-> PodGarbage]

PodReserved(n) ==
    IF n <= PodSize(podData) THEN podData
    ELSE PodPut(PodAllocated(n), 0, Append(PodAt(podData, 0, podCount), PodEmpty))

\* How every call ends: the count, and the empty element after the last.
PodEnds(data, count) ==
    /\ podData' = IF data = <<>> THEN data ELSE PodPut(data, count, <<PodEmpty>>)
    /\ podCount' = count

\* A chain from elsewhere, or one that source_offset finds in the array.
PodSources ==
    [own : {FALSE}, chain : PodChains]
    \cup [own : {TRUE}, offset : 0..podCount, length : 0..podCount]
PodIsSource(source) == source.own => source.offset + source.length <= podCount
PodRead(source, data) ==
    IF source.own THEN PodAt(data, source.offset, source.length) ELSE source.chain

----------------------------------------------------------------------------
\* Calls

\* push_back(value) copies the value before it resizes.
PodPushBack(value) ==
    /\ podCount < PodLength
    /\ PodEnds(PodPut(PodReserved(podCount + 1), podCount, <<value>>), podCount + 1)
    /\ podMeant' = Append(podMeant, value)

PodPopBack ==
    /\ podCount > 0
    /\ PodEnds(podData, podCount - 1)
    /\ podMeant' = SubSeq(podMeant, 1, podCount - 1)

\* clear, and resize to fewer elements.
PodShrink(n) ==
    /\ n <= podCount
    /\ PodEnds(podData, n)
    /\ podMeant' = SubSeq(podMeant, 1, n)

\* append: nothing happens for an empty chain; one of the array's own is looked up where it moved to.
PodAppend(source) ==
    LET chain == PodRead(source, podData)
        data  == PodReserved(podCount + Len(chain))
    IN  /\ chain # <<>> /\ podCount + Len(chain) <= PodLength
        /\ PodEnds(PodPut(data, podCount, PodRead(source, data)), podCount + Len(chain))
        /\ podMeant' = podMeant \o chain

\* The view assigned may be a part of the array, which then moves to the front.
PodAssign(source) ==
    LET chain == PodRead(source, podData)
        n     == Len(chain)
    IN  /\ n <= PodLength
        /\ IF source.own THEN PodEnds(PodPut(podData, 0, chain), n)
           ELSE PodEnds(PodPut(PodReserved(n), 0, chain), n)
        /\ podMeant' = chain

\* insert without reallocation: the elements from index on move up, then the chain is copied from
\* where it was, from where it moved to, or in two parts when the index splits it.
BugPodShifted(source, data, index) == PodRead(source, data)
PodShifted(source, data, index) ==
    LET n == source.length
        prefix == index - source.offset
    IN  CASE source.offset >= index -> PodAt(data, source.offset + n, n)
          [] prefix > 0 /\ prefix < n ->
               PodAt(data, source.offset, prefix) \o PodAt(data, index + n, n - prefix)
          [] OTHER -> PodAt(data, source.offset, n)

PodInsert(index, source) ==
    LET chain == PodRead(source, podData)
        n     == Len(chain)
        tail  == PodAt(podData, index, podCount - index)
        moved == PodPut(podData, index + n, tail)
    IN  /\ n > 0 /\ podCount + n <= PodLength
        /\ IF PodSize(podData) < podCount + n
           THEN PodEnds(PodPut(PodAllocated(podCount + n), 0, PodAt(podData, 0, index) \o chain \o tail),
                        podCount + n)
           ELSE PodEnds(PodPut(moved, index, IF source.own THEN PodShifted(source, moved, index) ELSE chain),
                        podCount + n)
        /\ podMeant' = SubSeq(podMeant, 1, index) \o chain \o SubSeq(podMeant, index + 1, podCount)

\* remove and erase keep the order, remove_unordered fills the gap with the last element.
PodRemove(index) ==
    /\ PodEnds(PodPut(podData, index, PodAt(podData, index + 1, podCount - 1 - index)), podCount - 1)
    /\ podMeant' = SubSeq(podMeant, 1, index) \o SubSeq(podMeant, index + 2, podCount)
PodRemoveUnordered(index) ==
    /\ PodEnds(PodPut(podData, index, PodAt(podData, podCount - 1, 1)), podCount - 1)
    /\ podMeant' = SubSeq([podMeant EXCEPT ![index + 1] = podMeant[podCount]], 1, podCount - 1)

PodNext ==
    \/ \E value \in PodValues : PodPushBack(value)
    \/ PodPopBack
    \/ \E n \in 0..podCount : PodShrink(n)
    \/ \E source \in PodSources : PodIsSource(source) /\
          \/ PodAppend(source) \/ PodAssign(source)
          \/ \E index \in 0..podCount : PodInsert(index, source)
    \/ \E index \in 0..(podCount - 1) : PodRemove(index) \/ PodRemoveUnordered(index)

PodSpec == PodInit /\ [][PodNext]_podVars

----------------------------------------------------------------------------
\* Properties

PodTypeOK ==
    /\ podCount \in 0..PodLength /\ podCount <= PodSize(podData)
    /\ podMeant \in Seq(PodValues)

\* The array holds what the calls mean whatever part of it they were given, with no element of
\* memory nobody wrote, and an empty one after the last: its text is terminated.
PodHoldsWhatIsMeant ==
    /\ PodAt(podData, 0, podCount) = podMeant
    /\ podData # <<>> => podData[podCount + 1] = PodEmpty
=============================================================================
