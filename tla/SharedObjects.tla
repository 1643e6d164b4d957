--------------------------- MODULE SharedObjects ---------------------------
(***************************************************************************)
(* Objects with a count of the pointers that share them (gpk::gref, pnco   *)
(* and pobj; llc/gpk_ref.h and gpk_ptr_*.h) and the array such pointers    *)
(* are kept in (gpk::array_obj; llc/gpk_array_obj.h).  Elements are        *)
(* constructed in raw memory, copied to where they move and destroyed      *)
(* where they were; each copy counts.                                      *)
(*                                                                         *)
(* Every thread has pointers of its own and all share one array, which     *)
(* they use under a lock.  The counts are not under it: they are atomic    *)
(* where GPK_MTSUPPORT is defined, as it is by default.  Allocation        *)
(* succeeds.  No call is given an element of the array it changes, which   *)
(* the code moves away before it copies it, nor an empty chain to insert,  *)
(* for which it destroys what it should move by nothing.                   *)
(***************************************************************************)
EXTENDS Integers, Sequences, SequencesExt, FiniteSets

CONSTANTS
    SharedThreads,
    SharedObjects, \* what may be allocated at a time
    SharedPointers,\* pointers a thread has
    SharedLength   \* bound: elements of the array

ASSUME SharedAssumption ==
    /\ {SharedPointers, SharedLength} \subseteq Nat /\ IsFiniteSet(SharedThreads)
    /\ {"null", "raw"} \cap SharedObjects = {} /\ "raw" \notin SharedThreads

SharedNull == "null"
SharedRaw == "raw" \* memory with no element in it

VARIABLES
    refStage,    \* of each object: unused, alive, or dying between the last release and the free
    refCount,    \* References
    refPointers, \* the pointers of each thread
    refDying,    \* the objects a thread has yet to destroy, in the order of their release
    refLock,     \* who is in the lock of the array
    sharedData,  \* Data: Size + 1 elements, or <<>>
    sharedCount, \* Count
    sharedMeant  \* history: what the calls so far mean

sharedVars == <<refStage, refCount, refPointers, refDying, refLock, sharedData, sharedCount, sharedMeant>>

RefLinks == SharedObjects \cup {SharedNull}
RefUnlocked == "nobody"

SharedInit ==
    /\ refStage = [o \in SharedObjects |-> "unused"] /\ refCount = [o \in SharedObjects |-> 0]
    /\ refPointers = [t \in SharedThreads |-> [i \in 1..SharedPointers |-> SharedNull]]
    /\ refDying = [t \in SharedThreads |-> <<>>] /\ refLock = RefUnlocked
    /\ sharedData = <<>> /\ sharedCount = 0 /\ sharedMeant = <<>>

----------------------------------------------------------------------------
\* Counts.  A heap is what calls change of the objects: [count, dead], dead being released for good.

RefHeap == [count |-> refCount, dead |-> <<>>]

\* ref_acquire
RefAcquire(heap, link) ==
    IF link = SharedNull THEN heap ELSE [heap EXCEPT !.count[link] = @ + 1]

BugRefRelease(heap, link) ==
    IF link = SharedNull THEN heap
    ELSE [count |-> [heap.count EXCEPT ![link] = @ - 1],
          dead  |-> IF heap.count[link] <= 2 THEN Append(heap.dead, link) ELSE heap.dead]

\* ref_release: who counts to 0 destroys.
RefRelease(heap, link) ==
    IF link = SharedNull THEN heap
    ELSE [count |-> [heap.count EXCEPT ![link] = @ - 1],
          dead  |-> IF heap.count[link] = 1 THEN Append(heap.dead, link) ELSE heap.dead]

\* pnco::operator=: the new reference is acquired before the old one is released.
BugRefAssigned(heap, old, new) ==
    LET released == RefRelease(heap, old) IN RefAcquire(released, new)
RefAssigned(heap, old, new) == RefRelease(RefAcquire(heap, new), old)

\* How a call of thread t ends: what it released for good is still to be destroyed.
RefEnds(t, heap) ==
    /\ refCount' = heap.count
    /\ refDying' = [refDying EXCEPT ![t] = heap.dead]
    /\ refStage' = [o \in SharedObjects |-> IF o \in ToSet(heap.dead) THEN "dying" ELSE refStage[o]]

RefReady(t) == refDying[t] = <<>> /\ refLock # t

----------------------------------------------------------------------------
\* What a thread does with its own pointers

\* ref_create over what the pointer held.
RefCreate(t, i) ==
    /\ RefReady(t)
    /\ \E o \in SharedObjects :
          LET heap == RefRelease([RefHeap EXCEPT !.count[o] = 1], refPointers[t][i])
          IN  /\ refStage[o] = "unused"
              /\ refPointers' = [refPointers EXCEPT ![t][i] = o]
              /\ refCount' = heap.count
              /\ refDying' = [refDying EXCEPT ![t] = heap.dead]
              /\ refStage' = [[p \in SharedObjects |-> IF p \in ToSet(heap.dead) THEN "dying" ELSE refStage[p]]
                                 EXCEPT ![o] = "alive"]
    /\ UNCHANGED <<refLock, sharedData, sharedCount, sharedMeant>>

\* One pointer assigned to another or to itself: copied, or moved, which clears it; clear.
RefAssign(t, i, j) ==
    /\ RefReady(t)
    /\ refPointers' = [refPointers EXCEPT ![t][i] = refPointers[t][j]]
    /\ RefEnds(t, RefAssigned(RefHeap, refPointers[t][i], refPointers[t][j]))
    /\ UNCHANGED <<refLock, sharedData, sharedCount, sharedMeant>>
RefMove(t, i, j) ==
    /\ RefReady(t)
    /\ refPointers' = [refPointers EXCEPT ![t] = [@ EXCEPT ![i] = refPointers[t][j], ![j] = SharedNull]]
    /\ RefEnds(t, RefRelease(RefHeap, refPointers[t][i]))
    /\ UNCHANGED <<refLock, sharedData, sharedCount, sharedMeant>>
RefClear(t, i) ==
    /\ RefReady(t)
    /\ refPointers' = [refPointers EXCEPT ![t][i] = SharedNull]
    /\ RefEnds(t, RefRelease(RefHeap, refPointers[t][i]))
    /\ UNCHANGED <<refLock, sharedData, sharedCount, sharedMeant>>

\* The end of ref_release, after which the memory may be allocated again: the instance is destroyed and both are freed.
RefDestroy(t) ==
    /\ refDying[t] # <<>>
    /\ refStage' = [refStage EXCEPT ![Head(refDying[t])] = "unused"]
    /\ refDying' = [refDying EXCEPT ![t] = Tail(@)]
    /\ refLock' = IF refLock = t /\ Len(refDying[t]) = 1 THEN RefUnlocked ELSE refLock
    /\ UNCHANGED <<refCount, refPointers, sharedData, sharedCount, sharedMeant>>

----------------------------------------------------------------------------
\* The array.  A call is a list of what it does to its elements, by their places from 1: "make" one
\* of a link, "copy" the one at a place, "set" or "end" one.  Where the array grows, the new block
\* follows the old one.

SharedDo(state, step) ==
    LET at(place) == state.data[place]
        put(place, link, heap) == [heap |-> heap, data |-> [state.data EXCEPT ![place] = link]]
    IN  CASE step.do = "make" -> put(step.to, step.link, RefAcquire(state.heap, step.link))
          [] step.do = "copy" -> put(step.to, at(step.from), RefAcquire(state.heap, at(step.from)))
          [] step.do = "set"  -> put(step.to, step.link, RefAssigned(state.heap, at(step.to), step.link))
          [] step.do = "end"  -> put(step.to, SharedRaw, RefRelease(state.heap, at(step.to)))
\* What a call that does steps one after the other makes of where it starts.
SharedRun(start, steps) ==
    LET after[k \in 0..Len(steps)] == IF k = 0 THEN start ELSE SharedDo(after[k - 1], steps[k])
    IN  after[Len(steps)]
SharedMake(place, link) == <<[do |-> "make", to |-> place, link |-> link]>>
SharedCopy(from, place) == <<[do |-> "copy", from |-> from, to |-> place]>>
SharedSet(place, link) == <<[do |-> "set", to |-> place, link |-> link]>>
SharedEnd(place) == <<[do |-> "end", to |-> place]>>
SharedUp(first, last, steps) ==
    IF last < first THEN <<>> ELSE FlattenSeq([k \in 1..(last - first + 1) |-> steps[first + k - 1]])
SharedDown(first, last, steps) ==
    IF last < first THEN <<>> ELSE FlattenSeq([k \in 1..(last - first + 1) |-> steps[last - k + 1]])

SharedSize == IF sharedData = <<>> THEN 0 ELSE Len(sharedData) - 1
\* alloc_with_reserve
SharedBlock(n) == [i \in 1..(2 + n + (n \div 4) + 1) |-> SharedRaw]
\* Where the block of a call for n elements begins: after the old one if that is too small.
SharedBase(n) == IF n <= SharedSize THEN 0 ELSE Len(sharedData)
SharedMoved(from, to) == SharedCopy(from, to) \o SharedEnd(from)

\* A call of thread t in the lock, which leaves n elements for meant; every other thread waits
\* until its objects are destroyed.
SharedCall(t, needs, steps, n, pointers, heap, meant) ==
    LET base == SharedBase(needs)
        memory == IF needs <= SharedSize THEN sharedData ELSE sharedData \o SharedBlock(needs)
        done == SharedRun([heap |-> heap, data |-> memory], steps)
    IN  /\ sharedData' = SubSeq(done.data, base + 1, Len(done.data))
        /\ RefEnds(t, done.heap)
        /\ refLock' = IF done.heap.dead = <<>> THEN RefUnlocked ELSE t
        /\ sharedCount' = n /\ sharedMeant' = meant /\ refPointers' = pointers

SharedReady(t) == RefReady(t) /\ refLock = RefUnlocked

\* reserve: the elements are copied to the new block one by one.
SharedReserve(n) ==
    LET base == SharedBase(n)
        move == [i \in 1..sharedCount |-> SharedMoved(i, base + i)]
    IN  IF base = 0 THEN <<>> ELSE SharedUp(1, sharedCount, move)

\* resize(n, value) and, with null, resize(n); clear destroys from the front.
SharedResize(t, n, link) ==
    LET base == SharedBase(n)
        made == [i \in 1..n |-> SharedMake(base + i, link)]
        ended == [i \in 1..sharedCount |-> SharedEnd(base + i)]
    IN  /\ SharedReady(t) /\ n <= SharedLength /\ n # sharedCount
        /\ n < sharedCount => link = SharedNull \* not used
        /\ SharedCall(t, n, SharedReserve(n) \o SharedUp(sharedCount + 1, n, made) \o SharedDown(n + 1, sharedCount, ended),
                      n, refPointers, RefHeap,
                      [i \in 1..n |-> IF i <= sharedCount THEN sharedMeant[i] ELSE link])
SharedClear(t) ==
    /\ SharedReady(t) /\ sharedCount > 0
    /\ SharedCall(t, 0, SharedUp(1, sharedCount, [i \in 1..sharedCount |-> SharedEnd(i)]), 0, refPointers, RefHeap, <<>>)

\* push_back is resize; append constructs from the chain.
SharedAppend(t, chain) ==
    LET n == sharedCount + Len(chain)
        base == SharedBase(n)
        made == [i \in (sharedCount + 1)..n |-> SharedMake(base + i, chain[i - sharedCount])]
    IN  /\ SharedReady(t) /\ chain # <<>> /\ n <= SharedLength
        /\ SharedCall(t, n, SharedReserve(n) \o SharedUp(sharedCount + 1, n, made), n, refPointers, RefHeap,
                      sharedMeant \o chain)

\* pop_back(value): the pointer i of the thread takes the last element.
SharedPop(t, i) ==
    LET last == sharedData[sharedCount]
    IN  /\ SharedReady(t) /\ sharedCount > 0
        /\ SharedCall(t, 0, SharedEnd(sharedCount), sharedCount - 1, [refPointers EXCEPT ![t][i] = last],
                      RefAssigned(RefHeap, refPointers[t][i], last), SubSeq(sharedMeant, 1, sharedCount - 1))

\* What the array is read for: the pointer i of the thread shares an element.
SharedRead(t, i, k) ==
    /\ SharedReady(t)
    /\ SharedCall(t, 0, <<>>, sharedCount, [refPointers EXCEPT ![t][i] = sharedData[k]],
                  RefAssigned(RefHeap, refPointers[t][i], sharedData[k]), sharedMeant)

\* operator=(other)
SharedAssign(t, chain) ==
    LET n == Len(chain)
        base == SharedBase(n)
        made == [i \in 1..n |-> SharedMake(base + i, SharedNull)]
        ended == [i \in 1..sharedCount |-> SharedEnd(base + i)]
        set == [i \in 1..n |-> SharedSet(base + i, chain[i])]
    IN  /\ SharedReady(t) /\ n <= SharedLength
        /\ SharedCall(t, n, SharedReserve(n) \o SharedUp(sharedCount + 1, n, made) \o SharedDown(n + 1, sharedCount, ended)
                               \o SharedUp(1, n, set),
                      n, refPointers, RefHeap, chain)

\* remove: each element is destroyed and made again from the one after it.
BugSharedRemoved(k) ==
    LET next == [i \in k..(sharedCount - 1) |-> SharedCopy(i + 1, i)] IN SharedUp(k, sharedCount - 1, next) \o SharedEnd(sharedCount)
SharedRemoved(k) ==
    LET next == [i \in k..(sharedCount - 1) |-> SharedEnd(i) \o SharedCopy(i + 1, i)]
    IN  SharedUp(k, sharedCount - 1, next) \o SharedEnd(sharedCount)
SharedRemove(t, k) ==
    /\ SharedReady(t)
    /\ SharedCall(t, 0, SharedRemoved(k), sharedCount - 1, refPointers, RefHeap, RemoveAt(sharedMeant, k))

SharedRemoveUnordered(t, k) ==
    /\ SharedReady(t)
    /\ SharedCall(t, 0, SharedEnd(k) \o (IF k = sharedCount THEN <<>> ELSE SharedMoved(sharedCount, k)),
                  sharedCount - 1, refPointers, RefHeap,
                  SubSeq([sharedMeant EXCEPT ![k] = sharedMeant[sharedCount]], 1, sharedCount - 1))

\* insert: into a new block, or with the elements after it moved up from the last.
BugSharedInserted(k, chain, base) ==
    LET up == [i \in 1..sharedCount |-> SharedMoved(i, base + i + Len(chain))]
        move == [i \in 1..sharedCount |-> SharedMoved(i, base + i)]
        made == [i \in DOMAIN chain |-> SharedMake(base + k + i - 1, chain[i])]
    IN  IF base = 0 THEN SharedUp(k, sharedCount, up) \o SharedUp(1, Len(chain), made)
        ELSE SharedUp(1, k - 1, move) \o SharedUp(1, Len(chain), made) \o SharedUp(k, sharedCount, up)
SharedInserted(k, chain, base) ==
    LET up == [i \in 1..sharedCount |-> SharedMoved(i, base + i + Len(chain))]
        move == [i \in 1..sharedCount |-> SharedMoved(i, base + i)]
        made == [i \in DOMAIN chain |-> SharedMake(base + k + i - 1, chain[i])]
    IN  IF base = 0 THEN SharedDown(k, sharedCount, up) \o SharedUp(1, Len(chain), made)
        ELSE SharedUp(1, k - 1, move) \o SharedUp(1, Len(chain), made) \o SharedUp(k, sharedCount, up)
SharedInsert(t, k, chain) ==
    LET n == sharedCount + Len(chain)
    IN  /\ SharedReady(t) /\ chain # <<>> /\ n <= SharedLength
        /\ SharedCall(t, n, SharedInserted(k, chain, SharedBase(n)), n, refPointers, RefHeap,
                      SubSeq(sharedMeant, 1, k - 1) \o chain \o SubSeq(sharedMeant, k, sharedCount))

\* Chains are lists of up to two of the pointers of the thread and of null ones, each once.
SharedChains(t) == {c \in BoundedSeq(ToSet(refPointers[t]) \cup {SharedNull}, 2) : IsInjective(c)}

SharedNext ==
    \E t \in SharedThreads :
       \/ RefDestroy(t)
       \/ \E i \in 1..SharedPointers : RefCreate(t, i) \/ RefClear(t, i) \/ SharedPop(t, i)
       \/ \E i, j \in 1..SharedPointers : RefAssign(t, i, j) \/ RefMove(t, i, j)
       \/ \E i \in 1..SharedPointers, k \in 1..sharedCount : SharedRead(t, i, k)
       \/ \E n \in 0..SharedLength, link \in ToSet(refPointers[t]) \cup {SharedNull} : SharedResize(t, n, link)
       \/ SharedClear(t)
       \/ \E chain \in SharedChains(t) :
             \/ SharedAppend(t, chain) \/ SharedAssign(t, chain)
             \/ \E k \in 1..(sharedCount + 1) : SharedInsert(t, k, chain)
       \/ \E k \in 1..sharedCount : SharedRemove(t, k) \/ SharedRemoveUnordered(t, k)

SharedSpec == SharedInit /\ [][SharedNext]_sharedVars

----------------------------------------------------------------------------
\* Properties

SharedTypeOK ==
    /\ refStage \in [SharedObjects -> {"unused", "alive", "dying"}] /\ refCount \in [SharedObjects -> Nat]
    /\ \A t \in SharedThreads : refPointers[t] \in [1..SharedPointers -> RefLinks]
    /\ sharedCount \in 0..SharedLength /\ sharedCount <= SharedSize

\* The pointers there are to an object.
RefHolders(o) ==
    {h \in SharedThreads \X (1..SharedPointers) : refPointers[h[1]][h[2]] = o}
    \cup {h \in {SharedRaw} \X (1..sharedCount) : sharedData[h[2]] = o}

\* An object lives as long as a pointer to it, whoever copied it last; when the last is gone one
\* thread has it to destroy, once.
ObjectsLiveWhileShared ==
    \A o \in SharedObjects :
       /\ refCount[o] = Cardinality(RefHolders(o))
       /\ refStage[o] = "alive" <=> RefHolders(o) # {}
       /\ refStage[o] = "dying" <=> \E t \in SharedThreads : \E k \in DOMAIN refDying[t] : refDying[t][k] = o
       /\ \A t, u \in SharedThreads : \A k \in DOMAIN refDying[t], l \in DOMAIN refDying[u] :
             refDying[t][k] = o /\ refDying[u][l] = o => t = u /\ k = l

\* The array holds what the calls mean, and its memory beyond it nothing.
SharedHoldsWhatIsMeant ==
    /\ SubSeq(sharedData, 1, sharedCount) = sharedMeant
    /\ \A k \in (sharedCount + 1)..Len(sharedData) : sharedData[k] = SharedRaw
=============================================================================
