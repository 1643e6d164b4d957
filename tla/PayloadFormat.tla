---------------------------- MODULE PayloadFormat ----------------------------
(***************************************************************************)
(* The bytes of a packed message: payloadQueueOptimize packs what waits in *)
(* Queue.Send and handlePAYLOADRequest unpacks it (gpk/gpk_connection.cpp; *)
(* UDPConnection has when this happens, and takes the bytes for granted).  *)
(* A packed payload is a count, a size for each payload and the bytes of   *)
(* all of them; count and sizes have 16 bits, payloads up to twice as many *)
(* bytes.  A byte is the payload it belongs to and its place in it.        *)
(*                                                                         *)
(* The one variable is the queue, which grows.                             *)
(***************************************************************************)
EXTENDS Integers, Sequences, SequencesExt, FiniteSets, FiniteSetsExt

CONSTANTS
    FormatSizes,  \* the sizes of the payloads pushed
    FormatLimit,  \* UDP_PAYLOAD_SIZE_LIMIT
    FormatWord,   \* 2^16
    FormatLength  \* bound: the messages of the queue

\* A pack of so many payloads that their count wraps is never small enough to be sent.
ASSUME FormatAssumption ==
    /\ {FormatLimit, FormatWord, FormatLength} \subseteq Nat \ {0}
    /\ FormatLimit <= 3 * FormatWord /\ FormatSizes \subseteq 0..FormatLimit

VARIABLE formatQueue

\* What a queue holds besides payloads: confirmations, and a packed message that is tried again.
FormatKinds == {"payload", "plain", "packed", "response"}
FormatMessage(kind, size, id) ==
    [kind |-> kind, bytes |-> [k \in 1..IF kind = "response" THEN 0 ELSE size |-> <<id, k>>]]

FormatInit == formatQueue = <<>>
FormatNext ==
    /\ Len(formatQueue) < FormatLength
    /\ \E kind \in FormatKinds, size \in FormatSizes :
           formatQueue' = Append(formatQueue, FormatMessage(kind, size, Len(formatQueue) + 1))

FormatSpec == FormatInit /\ [][FormatNext]_formatQueue

----------------------------------------------------------------------------
\* payloadQueueOptimize

BugFormatPackable(m) == m.bytes # <<>>
FormatPackable(m) == m.kind \in {"payload", "plain"} /\ m.bytes # <<>>

\* The sizes before it are not counted.
FormatFits(bytes, m) == Len(bytes) + 2 + Len(m.bytes) < FormatLimit
FormatBytes(messages) == FlattenSeq([i \in DOMAIN messages |-> messages[i].bytes])
FormatTake(taken, m) == IF FormatPackable(m) /\ FormatFits(FormatBytes(taken), m) THEN Append(taken, m) ELSE taken
FormatTaken(queue) ==
    LET taken[n \in 0..Len(queue)] == IF n = 0 THEN <<>> ELSE FormatTake(taken[n - 1], queue[n])
    IN  taken[Len(queue)]

FormatPack(taken) ==
    [kind |-> "pack", count |-> Len(taken) % FormatWord,
     sizes |-> [i \in DOMAIN taken |-> Len(taken[i].bytes) % FormatWord],
     bytes |-> FormatBytes(taken)]
FormatSize(m) == IF m.kind = "pack" THEN 2 + 2 * Len(m.sizes) + Len(m.bytes) ELSE Len(m.bytes)

FormatRemoveUnordered(queue, i) ==
    SubSeq(IF i < Len(queue) THEN ReplaceAt(queue, i, Last(queue)) ELSE queue, 1, Len(queue) - 1)
FormatRemoved(queue, m) ==
    IF m \in Range(queue) THEN FormatRemoveUnordered(queue, CHOOSE i \in DOMAIN queue : queue[i] = m) ELSE queue
FormatOptimized(queue) ==
    LET taken == FormatTaken(queue)
        left[n \in 0..Len(taken)] ==
            IF n = 0 THEN Append(queue, FormatPack(taken)) ELSE FormatRemoved(left[n - 1], taken[n])
    IN  IF Len(queue) < 2 \/ taken = <<>> THEN queue ELSE left[Len(taken)]

----------------------------------------------------------------------------
\* payloadQueueSend and the end of connectionSendQueue

\* The header does not fit in a stream of its own size: an empty payload that is neither compressed
\* nor ciphered ends the turn with an error, before anything leaves Queue.Send.
FormatStops(m) == m.kind = "plain" /\ m.bytes = <<>>
FormatSent(optimized) ==
    LET stops     == {i \in DOMAIN optimized : FormatStops(optimized[i])}
        reached   == SubSeq(optimized, 1, IF stops = {} THEN Len(optimized) ELSE Min(stops) - 1)
    IN  SelectSeq(reached, LAMBDA m : FormatSize(m) <= FormatLimit)
FormatKept(queue) ==
    IF \E i \in DOMAIN queue : FormatStops(queue[i]) THEN queue ELSE <<>>

----------------------------------------------------------------------------
\* handlePAYLOADRequest

\* What comes out of a pack is not unpacked again.
FormatArrival(packed, bytes) == [packed |-> packed, bytes |-> bytes]
FormatEnd(sizes) ==
    LET end[i \in 0..Len(sizes)] == IF i = 0 THEN 0 ELSE end[i - 1] + sizes[i] IN end
FormatUnpacked(m) ==
    LET end == FormatEnd(m.sizes)
    IN  IF m.kind # "pack" THEN <<FormatArrival(m.kind = "packed", m.bytes)>>
        ELSE [i \in 1..m.count |-> FormatArrival(FALSE, SubSeq(m.bytes, end[i - 1] + 1, end[i - 1] + m.sizes[i]))]

----------------------------------------------------------------------------
\* Properties

FormatTypeOK ==
    formatQueue \in Seq({FormatMessage(kind, size, id) : kind \in FormatKinds, size \in FormatSizes, id \in 1..FormatLength})

\* A pack that is not refused, whose payloads have no more bytes than its sizes can say, is unpacked
\* into the payloads that were taken from the queue, in their order and each of them whole; and
\* whatever the sizes say, no more is read of a pack than it holds.
FormatPacksUnpack ==
    LET taken == FormatTaken(formatQueue)
    IN  \A m \in Range(FormatOptimized(formatQueue)) : m.kind = "pack" =>
           /\ FormatEnd(m.sizes)[Len(m.sizes)] <= Len(m.bytes)
           /\ \A i \in DOMAIN taken : FormatPackable(taken[i]) /\ taken[i] \in Range(formatQueue)
           /\ FormatSize(m) <= FormatLimit /\ (\A i \in DOMAIN taken : Len(taken[i].bytes) < FormatWord) =>
                 FormatUnpacked(m) = [i \in DOMAIN taken |-> FormatArrival(FALSE, taken[i].bytes)]

\* Of every queue: what one turn sends is, unpacked, each message that left the queue once and whole,
\* as long as no payload packed has more bytes than its size can say and the pack itself is not
\* refused for the sizes that nobody counted; a turn that ends with an error forgets nothing.
PackedIsUnpacked ==
    LET optimized == FormatOptimized(formatQueue)
        arrived(sent) == FlattenSeq([i \in DOMAIN sent |-> FormatUnpacked(sent[i])])
        pushed  == [i \in DOMAIN formatQueue |->
                       FormatArrival(formatQueue[i].kind = "packed", formatQueue[i].bytes)]
        whole(s) == SelectSeq(s, LAMBDA a : a.bytes # <<>>)
        packs   == {m \in Range(optimized) : m.kind = "pack"}
        refused == \E m \in packs : FormatSize(m) > FormatLimit
        exact   == \A m \in Range(FormatTaken(formatQueue)) : packs # {} => Len(m.bytes) < FormatWord
        same(there, here, all) ==
            /\ Range(there) \subseteq Range(here)
            /\ all => Range(here) \subseteq Range(there) /\ Len(there) = Len(here)
    IN  /\ exact => same(whole(arrived(FormatSent(optimized))), whole(pushed), ~refused /\ FormatKept(formatQueue) = <<>>)
        /\ FormatPacksUnpack
=============================================================================
