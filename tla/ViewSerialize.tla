---------------------------- MODULE ViewSerialize ----------------------------
(***************************************************************************)
(* Arrays in a stream of bytes (llc/gpk_packed_int.h, gpk_apod_serialize.h *)
(* and gpk_view_serialize.h): each is its count, packed in one to four     *)
(* bytes, and its elements, of one byte each here.  The first byte of a    *)
(* packed count tells in its two low bits how many more there are, and     *)
(* holds the highest part of the value; the others are its lower bytes,    *)
(* the lowest first.                                                       *)
(*                                                                         *)
(* A stream is written by saveView and read by loadView, one view at a     *)
(* time; it may be cut anywhere, as a file or a message may be.            *)
(***************************************************************************)
EXTENDS Integers, Sequences

CONSTANTS
    StreamViews, \* the views that are saved
    StreamLength \* bound: the views of a stream

ASSUME StreamAssumption ==
    /\ \A v \in StreamViews : v \in Seq(0..255) /\ Len(v) < 1073741824
    /\ StreamLength \in Nat

VARIABLES
    stream,     \* the bytes
    streamSaved \* history: the views saved in them and not loaded yet

streamVars == <<stream, streamSaved>>

PackedMax == 1073741823     \* u2_t(-1) >> 2: a larger value is not packed, the constructor throws

----------------------------------------------------------------------------
\* packed_uint<u2_t>

\* 256^w
PackedPower(w) == IF w = 0 THEN 1 ELSE IF w = 1 THEN 256 ELSE IF w = 2 THEN 65536 ELSE 16777216

BugPackedTailWidth(value) ==
    IF value > 4194304 THEN 3 ELSE IF value > 16384 THEN 2 ELSE IF value > 64 THEN 1 ELSE 0
PackedTailWidth(value) ==
    IF value > 4194303 THEN 3 ELSE IF value > 16383 THEN 2 ELSE IF value > 63 THEN 1 ELSE 0

\* Multiplier has six bits: what does not fit in them is lost.
PackedBytes(value) ==
    LET w == PackedTailWidth(value)
    IN  [i \in 1..w + 1 |->
            IF i = 1 THEN w + 4 * ((value \div PackedPower(w)) % 64)
            ELSE (value \div PackedPower(i - 2)) % 256]

PackedWidth(first) == 1 + (first % 4)
PackedByteValue(input, i) == IF i < PackedWidth(input[1]) THEN input[i + 1] * PackedPower(i - 1) ELSE 0
PackedValue(input) ==
    ((input[1] \div 4) * PackedPower(input[1] % 4))
        + PackedByteValue(input, 1) + PackedByteValue(input, 2) + PackedByteValue(input, 3)

----------------------------------------------------------------------------
\* saveView and loadView

StreamFrom(input, i) == SubSeq(input, i, Len(input))

ViewSaved(view) == PackedBytes(Len(view)) \o view

\* viewRead fails when the count, or the elements it announces, are not all there.
ViewIsWhole(input) ==
    /\ Len(input) > 0
    /\ PackedWidth(input[1]) <= Len(input)
    /\ PackedValue(input) <= Len(input) - PackedWidth(input[1])
ViewStop(input) == PackedWidth(input[1]) + PackedValue(input)
ViewRead(input) == SubSeq(input, PackedWidth(input[1]) + 1, ViewStop(input))
ViewRest(input) == StreamFrom(input, ViewStop(input) + 1)

StreamInit == stream = <<>> /\ streamSaved = <<>>
StreamSave ==
    /\ Len(streamSaved) < StreamLength
    /\ \E view \in StreamViews :
           /\ stream' = stream \o ViewSaved(view)
           /\ streamSaved' = Append(streamSaved, view)
StreamLoad ==
    /\ ViewIsWhole(stream)
    /\ stream' = ViewRest(stream)
    /\ streamSaved' = Tail(streamSaved)
StreamNext == StreamSave \/ StreamLoad

StreamSpec == StreamInit /\ [][StreamNext]_streamVars

----------------------------------------------------------------------------
\* Properties

StreamTypeOK == stream \in Seq(0..255) /\ streamSaved \in Seq(StreamViews)

\* One view after the other is loaded, until one does not load.
StreamTurn(before) ==
    IF before.whole /\ ViewIsWhole(before.rest)
    THEN [views |-> Append(before.views, ViewRead(before.rest)), rest |-> ViewRest(before.rest), whole |-> TRUE]
    ELSE [before EXCEPT !.whole = FALSE]
StreamLoaded(input, turns) ==
    LET loads[n \in 0..turns] ==
            IF n = 0 THEN [views |-> <<>>, rest |-> input, whole |-> TRUE] ELSE StreamTurn(loads[n - 1])
    IN  loads[turns].views

\* However a stream is cut, the views that load from it, until one does not, are the first ones
\* saved in it; from the whole stream they are all of them.
StreamLoadsInOrder ==
    \A cut \in 0..Len(stream) :
        LET loaded == StreamLoaded(SubSeq(stream, 1, cut), Len(streamSaved) + 1)
        IN  /\ Len(loaded) <= Len(streamSaved)
            /\ loaded = SubSeq(streamSaved, 1, Len(loaded))
            /\ cut = Len(stream) => loaded = streamSaved
=============================================================================
