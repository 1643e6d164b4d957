------------------------ MODULE SharedObjects_proofs ------------------------
(***************************************************************************)
(* Theorems about SharedObjects: an object lives as long as there is a     *)
(* pointer to it and is destroyed once, and the array of such pointers     *)
(* holds what its calls mean.  A call is a list of steps on raw memory;    *)
(* each step moves a pointer from one place to another, and as long as a   *)
(* step reads what is there and constructs where nothing is, counts stay   *)
(* the numbers of their holders (SharedDoBalanced).  So of every loop of   *)
(* the code it is enough to show where it leads the memory (SharedLeads),  *)
(* whatever it counts meanwhile.                                           *)
(***************************************************************************)
EXTENDS SharedObjects, FiniteSetTheorems, FunctionTheorems, SequenceTheorems,
        WellFoundedInduction, TLAPS

----------------------------------------------------------------------------
\* Induction over data.  Numbers, then FlattenSeq, by sets: the induction theorems of the library
\* take an operator and cannot be cited, well-foundedness of < can.

\* The natural numbers are well founded by <.
LEMMA NatOrder == IsWellFoundedOn({ss \in Nat \X Nat : ss[1] < ss[2]}, Nat)
  BY NatLessThanWellFounded, Zenon DEF OpToRel

\* Induction, for a set: a set that holds 0 and the successor of each of its numbers holds every number.
LEMMA NatSets ==
    ASSUME NEW S, 0 \in S, \A n \in Nat : n \in S => n + 1 \in S
    PROVE  Nat \subseteq S
<1> DEFINE R == {ss \in Nat \X Nat : ss[1] < ss[2]}
           T == {n \in Nat : n \notin S}
<1> SUFFICES ASSUME T # {} PROVE FALSE
  OBVIOUS
<1>1. IsWellFoundedOn(R, Nat)
  BY NatOrder
<1>2. T \subseteq Nat
  OBVIOUS
<1>3. PICK x \in T : \A y \in T : ~(<<y, x>> \in R)
  <2> HIDE DEF R, T
  <2> QED BY <1>1, <1>2, WFMin
<1>4. x \in Nat /\ x \notin S /\ x # 0
  OBVIOUS
<1>5. x - 1 \in Nat /\ <<x - 1, x>> \in R
  BY <1>4
<1>6. x - 1 \in S
  BY <1>3, <1>5
<1> QED BY <1>4, <1>5, <1>6

\* The same up to n.
LEMMA UpTo ==
    ASSUME NEW n \in Nat, NEW S, 0 \in S, \A k \in 1..n : k - 1 \in S => k \in S
    PROVE  0..n \subseteq S
<1> DEFINE T == {k \in Nat : k <= n => k \in S}
<1>1. 0 \in T
  OBVIOUS
<1>2. \A k \in Nat : k \in T => k + 1 \in T
  <2> SUFFICES ASSUME NEW k \in Nat, k \in T PROVE k + 1 \in T
    OBVIOUS
  <2>1. CASE k + 1 <= n
    <3>1. k + 1 \in 1..n /\ k \in S /\ (k + 1) - 1 = k
      BY <2>1
    <3>2. k + 1 \in S
      BY <3>1
    <3> QED BY <3>2
  <2>2. CASE ~(k + 1 <= n)
    BY <2>2
  <2> QED BY <2>1, <2>2
<1>3. Nat \subseteq T
  <2> HIDE DEF T
  <2> QED BY <1>1, <1>2, NatSets
<1> QED BY <1>3

\* FlattenSeq
FlatParts(A, s, m) ==
    {f \in [1..m -> Seq(A)] : \A i \in 1..m : f[i] = IF i = 1 THEN s[i] ELSE f[i - 1] \o s[i]}

\* The sums of the first m of the sequences of s can be continued.
LEMMA FlatPartsMore ==
    ASSUME NEW A, NEW n \in Nat, NEW s \in [1..n -> Seq(A)], NEW m \in Nat, m + 1 <= n, NEW f \in FlatParts(A, s, m)
    PROVE  \E g : g \in FlatParts(A, s, m + 1)
<1> DEFINE next == IF m = 0 THEN s[1] ELSE f[m] \o s[m + 1]
           g == [i \in 1..(m + 1) |-> IF i = m + 1 THEN next ELSE f[i]]
<1>1. s[m + 1] \in Seq(A)
  OBVIOUS
<1>2. f \in [1..m -> Seq(A)] /\ \A i \in 1..m : f[i] = IF i = 1 THEN s[i] ELSE f[i - 1] \o s[i]
  BY DEF FlatParts
<1>3. next \in Seq(A)
  <2>1. CASE m = 0
    BY <1>1, <2>1
  <2>2. CASE m # 0
    <3>1. m \in 1..m /\ f[m] \in Seq(A)
      BY <1>2, <2>2
    <3>2. f[m] \o s[m + 1] \in Seq(A)
      BY <3>1, <1>1
    <3> QED BY <3>2, <2>2
  <2> QED BY <2>1, <2>2
<1> HIDE DEF next
<1>4. g \in [1..(m + 1) -> Seq(A)]
  BY <1>2, <1>3
<1>5. \A i \in 1..m : g[i] = f[i]
  OBVIOUS
<1>6. g[m + 1] = next
  OBVIOUS
<1> HIDE DEF g
<1>7. ASSUME NEW i \in 1..(m + 1) PROVE g[i] = IF i = 1 THEN s[i] ELSE g[i - 1] \o s[i]
  <2>1. CASE i = m + 1
    <3>1. m # 0 => m \in 1..m
      OBVIOUS
    <3>2. m # 0 => g[m] = f[m]
      BY <1>5, <3>1
    <3> QED BY <2>1, <3>2, <1>6 DEF next
  <2>2. CASE i # m + 1
    <3>1. i \in 1..m /\ (i # 1 => i - 1 \in 1..m)
      BY <2>2
    <3> QED BY <3>1, <1>2, <1>5
  <2> QED BY <2>1, <2>2
<1>8. g \in FlatParts(A, s, m + 1)
  BY <1>4, <1>7 DEF FlatParts
<1> QED BY <1>8

\* The sums of the first m of them exist, for every m.
LEMMA FlatPartsAre ==
    ASSUME NEW A, NEW n \in Nat, NEW s \in [1..n -> Seq(A)]
    PROVE  \E f : f \in FlatParts(A, s, n)
<1> DEFINE S == {m \in 0..n : \E f : f \in FlatParts(A, s, m)}
<1>1. 0 \in S
  <2> DEFINE e == [i \in 1..0 |-> <<>>]
  <2>1. e \in FlatParts(A, s, 0)
    BY DEF FlatParts
  <2> QED BY <2>1
<1>2. \A k \in 1..n : k - 1 \in S => k \in S
  <2> SUFFICES ASSUME NEW k \in 1..n, k - 1 \in S PROVE k \in S
    OBVIOUS
  <2>1. PICK f : f \in FlatParts(A, s, k - 1)
    OBVIOUS
  <2>2. k - 1 \in Nat /\ (k - 1) + 1 <= n /\ (k - 1) + 1 = k
    OBVIOUS
  <2>3. \E g : g \in FlatParts(A, s, (k - 1) + 1)
    BY <2>1, <2>2, FlatPartsMore
  <2> QED BY <2>2, <2>3
<1>3. 0..n \subseteq S
  <2> HIDE DEF S
  <2> QED BY <1>1, <1>2, UpTo
<1> QED BY <1>3

\* FlattenSeq is the last of these sums.
LEMMA FlattenIs ==
    ASSUME NEW A, NEW n \in Nat \ {0}, NEW s \in [1..n -> Seq(A)]
    PROVE  \E f \in FlatParts(A, s, n) : FlattenSeq(s) = f[n]
<1> DEFINE C == CHOOSE f : f = [i \in 1..n |-> IF i = 1 THEN s[i] ELSE f[i - 1] \o s[i]]
<1>1. PICK f : f \in FlatParts(A, s, n)
  BY FlatPartsAre
<1>2. f = [i \in 1..n |-> IF i = 1 THEN s[i] ELSE f[i - 1] \o s[i]]
  BY <1>1 DEF FlatParts
<1>3. C = [i \in 1..n |-> IF i = 1 THEN s[i] ELSE C[i - 1] \o s[i]]
  BY <1>2
<1>4. s \in Seq(Seq(A)) /\ Len(s) = n
  OBVIOUS
<1>5. FlattenSeq(s) = C[n]
  BY <1>4 DEF FlattenSeq
<1> HIDE DEF C
<1>6. \A i \in 1..n : C[i] = f[i]
  <2> DEFINE S == {i \in 0..n : i = 0 \/ C[i] = f[i]}
  <2>1. 0 \in S
    OBVIOUS
  <2>2. ASSUME NEW k \in 1..n, k - 1 \in S PROVE k \in S
    <3>1. C[k] = IF k = 1 THEN s[k] ELSE C[k - 1] \o s[k]
      BY <1>3
    <3>2. f[k] = IF k = 1 THEN s[k] ELSE f[k - 1] \o s[k]
      BY <1>1 DEF FlatParts
    <3>3. k = 1 \/ C[k - 1] = f[k - 1]
      BY <2>2
    <3> QED BY <3>1, <3>2, <3>3
  <2>3. 0..n \subseteq S
    <3> HIDE DEF S
    <3> QED BY <2>1, <2>2, UpTo
  <2> QED BY <2>3
<1> QED BY <1>1, <1>5, <1>6

----------------------------------------------------------------------------
\* SharedObjects: who holds what.  A count is the number of the places that hold its object.

\* How many hold an object once the slot x holds another.
LEMMA HoldersChanged ==
    ASSUME NEW H, IsFiniteSet(H), NEW G, NEW x, G \ {x} = H \ {x}
    PROVE  /\ IsFiniteSet(G) /\ Cardinality(G) \in Nat /\ Cardinality(H) \in Nat
           /\ Cardinality(G) = Cardinality(H) + (IF x \in G THEN 1 ELSE 0) - (IF x \in H THEN 1 ELSE 0)
           /\ x \in H => Cardinality(H) > 0
           /\ x \in G => Cardinality(G) > 0
<1> DEFINE R == H \ {x}
<1>1. IsFiniteSet(R) /\ Cardinality(R) = IF x \in H THEN Cardinality(H) - 1 ELSE Cardinality(H)
  BY FS_RemoveElement
<1>2. Cardinality(R) \in Nat /\ Cardinality(H) \in Nat
  BY <1>1, FS_CardinalityType
<1>3. IsFiniteSet(R \cup {x}) /\ Cardinality(R \cup {x}) = Cardinality(R) + 1
  <2>1. x \notin R
    OBVIOUS
  <2> HIDE DEF R
  <2> QED BY <1>1, <2>1, FS_AddElement
<1>4. G = IF x \in G THEN R \cup {x} ELSE R
  OBVIOUS
<1> HIDE DEF R
<1>5. CASE x \in G
  <2>1. G = R \cup {x}
    BY <1>4, <1>5
  <2>2. IsFiniteSet(G) /\ Cardinality(G) = Cardinality(R) + 1
    BY <1>3, <2>1
  <2> QED BY <1>1, <1>2, <1>5, <2>2
<1>6. CASE x \notin G
  BY <1>1, <1>2, <1>4, <1>6
<1> QED BY <1>5, <1>6

RefIsDead(heap, o) == \E k \in 1..Len(heap.dead) : heap.dead[k] = o

\* A heap agrees with who holds what, and with the stage of each object before the call; but is left out.
RefAlive(stage, heap, o) == stage[o] = "alive" /\ ~RefIsDead(heap, o)
RefBalanced(stage, heap, holders, but) ==
    /\ heap \in [count : [SharedObjects -> Nat], dead : Seq(SharedObjects)]
    /\ \A o \in SharedObjects :
          /\ IsFiniteSet(holders[o]) /\ heap.count[o] = Cardinality(holders[o])
          /\ o # but => (heap.count[o] > 0 <=> RefAlive(stage, heap, o))
          /\ RefIsDead(heap, o) => stage[o] = "alive"
    /\ \A k, l \in 1..Len(heap.dead) : heap.dead[k] = heap.dead[l] => k = l

\* ref_release counts one pointer less, and has an object dead that nobody counts any longer.
LEMMA RefReleaseIs ==
    ASSUME NEW heap \in [count : [SharedObjects -> Nat], dead : Seq(SharedObjects)],
           NEW old \in SharedObjects, heap.count[old] > 0
    PROVE  LET r == RefRelease(heap, old)
           IN  /\ r \in [count : [SharedObjects -> Nat], dead : Seq(SharedObjects)]
               /\ \A o \in SharedObjects : r.count[o] = heap.count[o] - (IF o = old THEN 1 ELSE 0)
               /\ r.count[old] # 0 => r.dead = heap.dead
               /\ r.count[old] = 0 => /\ Len(r.dead) = Len(heap.dead) + 1
                                      /\ r.dead[Len(heap.dead) + 1] = old
                                      /\ \A k \in 1..Len(heap.dead) : r.dead[k] = heap.dead[k]
<1>1. old # SharedNull
  BY SharedAssumption DEF SharedNull
<1> DEFINE c == [heap.count EXCEPT ![old] = @ - 1]
           d == IF heap.count[old] = 1 THEN Append(heap.dead, old) ELSE heap.dead
<1>2. RefRelease(heap, old) = [count |-> c, dead |-> d]
  BY <1>1 DEF RefRelease
<1>3. c \in [SharedObjects -> Nat] /\ \A o \in SharedObjects : c[o] = heap.count[o] - (IF o = old THEN 1 ELSE 0)
  OBVIOUS
<1>4. heap.dead \in Seq(SharedObjects)
  OBVIOUS
<1>5. /\ Append(heap.dead, old) \in Seq(SharedObjects) /\ Len(Append(heap.dead, old)) = Len(heap.dead) + 1
      /\ Append(heap.dead, old)[Len(heap.dead) + 1] = old
      /\ \A k \in 1..Len(heap.dead) : Append(heap.dead, old)[k] = heap.dead[k]
  BY <1>4, AppendProperties
<1>6. d \in Seq(SharedObjects)
  BY <1>4, <1>5
<1>7. c[old] = 0 <=> heap.count[old] = 1
  BY <1>3
<1> HIDE DEF c
<1> QED BY <1>2, <1>3, <1>5, <1>6, <1>7

\* ref_acquire counts one pointer more.
LEMMA RefAcquireIs ==
    ASSUME NEW heap \in [count : [SharedObjects -> Nat], dead : Seq(SharedObjects)], NEW new \in RefLinks
    PROVE  LET a == RefAcquire(heap, new)
           IN  /\ a \in [count : [SharedObjects -> Nat], dead : Seq(SharedObjects)] /\ a.dead = heap.dead
               /\ \A o \in SharedObjects : a.count[o] = heap.count[o] + (IF o = new THEN 1 ELSE 0)
<1>1. CASE new = SharedNull
  BY <1>1, SharedAssumption DEF RefAcquire, SharedNull
<1>2. CASE new # SharedNull
  BY <1>2 DEF RefAcquire, RefLinks
<1> QED BY <1>1, <1>2

\* The slot x, which held old, holds new.
RefSlotSet(holders, after, x, old, new) ==
    \A o \in SharedObjects :
       after[o] \ {x} = holders[o] \ {x} /\ (x \in holders[o] <=> o = old) /\ (x \in after[o] <=> o = new)

\* The slot x held old and holds new: the new one is acquired, then the old one released.
LEMMA RefExchanged ==
    ASSUME NEW stage, NEW heap, NEW old \in RefLinks, NEW new \in RefLinks, NEW holders, NEW after, NEW x,
           RefBalanced(stage, heap, holders, new),
           new # SharedNull => RefAlive(stage, heap, new),
           RefSlotSet(holders, after, x, old, new)
    PROVE  RefBalanced(stage, RefAssigned(heap, old, new), after, SharedNull)
<1> DEFINE a == RefAcquire(heap, new)
           r == RefRelease(a, old)
           Heaps == [count : [SharedObjects -> Nat], dead : Seq(SharedObjects)]
<1>0. SharedNull \notin SharedObjects /\ RefAssigned(heap, old, new) = r
  BY SharedAssumption DEF SharedNull, RefAssigned
<1>1. heap \in Heaps
  BY DEF RefBalanced
<1> USE DEF RefSlotSet
<1>2. ASSUME NEW o \in SharedObjects
      PROVE  /\ IsFiniteSet(after[o]) /\ heap.count[o] \in Nat
             /\ Cardinality(after[o]) = heap.count[o] + (IF o = new THEN 1 ELSE 0) - (IF o = old THEN 1 ELSE 0)
             /\ o = old => heap.count[o] > 0
  <2>1. /\ IsFiniteSet(holders[o]) /\ heap.count[o] = Cardinality(holders[o])
        /\ after[o] \ {x} = holders[o] \ {x}
    BY DEF RefBalanced
  <2>2. /\ IsFiniteSet(after[o]) /\ Cardinality(after[o]) \in Nat /\ Cardinality(holders[o]) \in Nat
        /\ Cardinality(after[o]) = Cardinality(holders[o]) + (IF x \in after[o] THEN 1 ELSE 0) - (IF x \in holders[o] THEN 1 ELSE 0)
        /\ x \in holders[o] => Cardinality(holders[o]) > 0
    BY <2>1, HoldersChanged
  <2> QED BY <2>1, <2>2
<1>3. /\ a \in Heaps /\ a.dead = heap.dead
      /\ \A o \in SharedObjects : a.count[o] = heap.count[o] + (IF o = new THEN 1 ELSE 0)
  BY <1>1, RefAcquireIs
<1> HIDE DEF a
<1>4. CASE old = SharedNull
  <2>1. r = a
    BY <1>4 DEF RefRelease
  <2>2. \A o \in SharedObjects : RefIsDead(r, o) <=> RefIsDead(heap, o)
    BY <2>1, <1>3 DEF RefIsDead
  <2>3. \A o \in SharedObjects : r.count[o] = Cardinality(after[o]) /\ IsFiniteSet(after[o])
    BY <1>0, <1>2, <1>3, <1>4, <2>1
  <2>4. ASSUME NEW o \in SharedObjects
        PROVE  (r.count[o] > 0 <=> RefAlive(stage, r, o)) /\ (RefIsDead(r, o) => stage[o] = "alive")
    <3>1. RefIsDead(heap, o) => stage[o] = "alive"
      BY DEF RefBalanced
    <3>2. CASE o = new
      BY <3>1, <3>2, <2>1, <2>2, <1>0, <1>2, <1>3 DEF RefAlive
    <3>3. CASE o # new
      <4>1. heap.count[o] > 0 <=> RefAlive(stage, heap, o)
        BY <3>3 DEF RefBalanced
      <4>2. r.count[o] = heap.count[o]
        BY <2>1, <1>2, <1>3, <3>3
      <4> QED BY <3>1, <4>1, <4>2, <2>2 DEF RefAlive
    <3> QED BY <3>2, <3>3
  <2>5. \A k, l \in 1..Len(r.dead) : r.dead[k] = r.dead[l] => k = l
    BY <2>1, <1>3 DEF RefBalanced
  <2> QED BY <2>1, <2>3, <2>4, <2>5, <1>0, <1>3 DEF RefBalanced
<1>5. CASE old # SharedNull
  <2>1. old \in SharedObjects /\ a.count[old] > 0
    BY <1>5, <1>2, <1>3 DEF RefLinks
  <2>2. /\ r \in Heaps
        /\ \A o \in SharedObjects : r.count[o] = a.count[o] - (IF o = old THEN 1 ELSE 0)
        /\ r.count[old] # 0 => r.dead = a.dead
        /\ r.count[old] = 0 => /\ Len(r.dead) = Len(a.dead) + 1
                               /\ r.dead[Len(a.dead) + 1] = old
                               /\ \A k \in 1..Len(a.dead) : r.dead[k] = a.dead[k]
    BY <1>3, <2>1, RefReleaseIs
  <2> HIDE DEF r
  <2>3. RefAlive(stage, heap, old)
    <3>1. CASE old = new
      BY <3>1, <1>5
    <3>2. CASE old # new
      BY <3>2, <2>1, <1>2 DEF RefBalanced
    <3> QED BY <3>1, <3>2
  <2>4. Len(heap.dead) \in Nat
    BY <1>1
  <2>5. ASSUME NEW o \in SharedObjects PROVE RefIsDead(r, o) <=> RefIsDead(heap, o) \/ (o = old /\ r.count[old] = 0)
    <3>1. CASE r.count[old] # 0
      BY <3>1, <2>2, <1>3 DEF RefIsDead
    <3>2. CASE r.count[old] = 0
      <4>1. Len(r.dead) = Len(heap.dead) + 1 /\ r.dead[Len(heap.dead) + 1] = old /\ \A k \in 1..Len(heap.dead) : r.dead[k] = heap.dead[k]
        BY <3>2, <2>2, <1>3
      <4> QED BY <3>2, <2>4, <4>1, SMTT(20) DEF RefIsDead
    <3> QED BY <3>1, <3>2
  <2>6. \A o \in SharedObjects : r.count[o] = Cardinality(after[o]) /\ IsFiniteSet(after[o])
    <3> SUFFICES ASSUME NEW o \in SharedObjects PROVE r.count[o] = Cardinality(after[o]) /\ IsFiniteSet(after[o])
      OBVIOUS
    <3>1. a.count[o] = heap.count[o] + (IF o = new THEN 1 ELSE 0) /\ r.count[o] = a.count[o] - (IF o = old THEN 1 ELSE 0)
      BY <1>3, <2>2
    <3> QED BY <3>1, <1>2
  <2>7. ASSUME NEW o \in SharedObjects
        PROVE  (r.count[o] > 0 <=> RefAlive(stage, r, o)) /\ (RefIsDead(r, o) => stage[o] = "alive")
    <3>1. RefIsDead(heap, o) => stage[o] = "alive"
      BY DEF RefBalanced
    <3>2. r.count[o] = heap.count[o] + (IF o = new THEN 1 ELSE 0) - (IF o = old THEN 1 ELSE 0) /\ heap.count[o] \in Nat
      BY <1>2, <1>3, <2>2
    <3>3. CASE o = old
      <4>1. RefIsDead(r, o) <=> r.count[o] = 0
        BY <3>3, <2>3, <2>5 DEF RefAlive
      <4>2. r.count[o] \in Nat
        BY <2>2
      <4> QED BY <4>1, <4>2, <2>3, <3>3 DEF RefAlive
    <3>4. CASE o # old /\ o = new
      <4>1. RefIsDead(r, o) <=> RefIsDead(heap, o)
        BY <3>4, <2>5
      <4>2. RefAlive(stage, heap, o)
        BY <3>4, <1>0
      <4> QED BY <4>1, <4>2, <3>2, <3>4 DEF RefAlive
    <3>5. CASE o # old /\ o # new
      <4>1. RefIsDead(r, o) <=> RefIsDead(heap, o)
        BY <3>5, <2>5
      <4>2. heap.count[o] > 0 <=> RefAlive(stage, heap, o)
        BY <3>5 DEF RefBalanced
      <4> QED BY <3>1, <3>2, <4>1, <4>2, <3>5 DEF RefAlive
    <3> QED BY <3>3, <3>4, <3>5
  <2>8. \A k, l \in 1..Len(r.dead) : r.dead[k] = r.dead[l] => k = l
    <3>1. \A k, l \in 1..Len(heap.dead) : heap.dead[k] = heap.dead[l] => k = l
      BY DEF RefBalanced
    <3>2. CASE r.count[old] # 0
      BY <3>1, <3>2, <2>2, <1>3
    <3>3. CASE r.count[old] = 0
      <4>1. Len(r.dead) = Len(heap.dead) + 1 /\ r.dead[Len(heap.dead) + 1] = old /\ \A k \in 1..Len(heap.dead) : r.dead[k] = heap.dead[k]
        BY <3>3, <2>2, <1>3
      <4>2. \A k \in 1..Len(heap.dead) : heap.dead[k] # old
        BY <2>3 DEF RefAlive, RefIsDead
      <4>3. \A k \in 1..Len(r.dead) : k \in 1..Len(heap.dead) \/ k = Len(heap.dead) + 1
        BY <4>1, <2>4
      <4> QED BY <3>1, <4>1, <4>2, <4>3
    <3> QED BY <3>2, <3>3
  <2> QED BY <2>2, <2>6, <2>7, <2>8, <1>0 DEF RefBalanced, r
<1> QED BY <1>4, <1>5

SharedSlots == RefLinks \cup {SharedRaw}
SharedHeld(pointers, data) ==
    [o \in SharedObjects |->
        {h \in SharedThreads \X (1..SharedPointers) : pointers[h[1]][h[2]] = o}
        \cup {h \in {SharedRaw} \X (1..Len(data)) : data[h[2]] = o}]

\* A step that may be made of data and what it makes of it.
SharedPuts(data, place, link, next) ==
    place \in 1..Len(data) /\ link \in SharedSlots /\ next = [data EXCEPT ![place] = link]
SharedMoves(links, data, step, next) ==
    \/ step.do = "make" /\ step.link \in links /\ data[step.to] = SharedRaw /\ SharedPuts(data, step.to, step.link, next)
    \/ /\ step.do = "copy" /\ step.from \in 1..Len(data) /\ data[step.from] \in RefLinks /\ data[step.to] = SharedRaw
       /\ SharedPuts(data, step.to, data[step.from], next)
    \/ step.do = "set" /\ step.link \in links /\ data[step.to] \in RefLinks /\ SharedPuts(data, step.to, step.link, next)
    \/ step.do = "end" /\ data[step.to] \in RefLinks /\ SharedPuts(data, step.to, SharedRaw, next)

\* Nothing that is a mark is an object.
LEMMA SharedNames ==
    /\ SharedRaw \notin SharedObjects /\ SharedNull \notin SharedObjects /\ SharedRaw # SharedNull /\ SharedRaw \notin SharedThreads
    /\ SharedRaw \notin RefLinks /\ SharedNull \in RefLinks /\ SharedPointers \in Nat /\ SharedLength \in Nat
  BY SharedAssumption DEF SharedRaw, SharedNull, RefLinks

\* The holders, where one place of the memory is changed: the place holds the new link instead of the old one.
LEMMA SharedHeldPut ==
    ASSUME NEW pointers, NEW data \in Seq(SharedSlots), NEW place, NEW link, NEW next, SharedPuts(data, place, link, next)
    PROVE  /\ next \in Seq(SharedSlots)
           /\ \A o \in SharedObjects :
                 /\ SharedHeld(pointers, next)[o] \ {<<SharedRaw, place>>} = SharedHeld(pointers, data)[o] \ {<<SharedRaw, place>>}
                 /\ <<SharedRaw, place>> \in SharedHeld(pointers, data)[o] <=> o = data[place]
                 /\ <<SharedRaw, place>> \in SharedHeld(pointers, next)[o] <=> o = link
<1>1. /\ place \in 1..Len(data) /\ next \in Seq(SharedSlots) /\ Len(next) = Len(data)
      /\ \A i \in 1..Len(data) : next[i] = IF i = place THEN link ELSE data[i]
  BY ExceptSeq DEF SharedPuts
<1>2. ASSUME NEW o \in SharedObjects
      PROVE  /\ SharedHeld(pointers, next)[o] \ {<<SharedRaw, place>>} = SharedHeld(pointers, data)[o] \ {<<SharedRaw, place>>}
             /\ <<SharedRaw, place>> \in SharedHeld(pointers, data)[o] <=> o = data[place]
             /\ <<SharedRaw, place>> \in SharedHeld(pointers, next)[o] <=> o = link
  <2> DEFINE P == {h \in SharedThreads \X (1..SharedPointers) : pointers[h[1]][h[2]] = o}
             A == {h \in {SharedRaw} \X (1..Len(data)) : data[h[2]] = o}
             B == {h \in {SharedRaw} \X (1..Len(data)) : next[h[2]] = o}
             x == <<SharedRaw, place>>
  <2>1. SharedHeld(pointers, data)[o] = P \cup A /\ SharedHeld(pointers, next)[o] = P \cup B
    BY <1>1 DEF SharedHeld
  <2>2. x \notin P
    BY SharedNames
  <2>3. x \in A <=> o = data[place]
    BY <1>1
  <2>4. x \in B <=> o = link
    BY <1>1
  <2>5. B \ {x} = A \ {x}
    <3> SUFFICES ASSUME NEW h \in {SharedRaw} \X (1..Len(data)), h # x PROVE next[h[2]] = data[h[2]]
      OBVIOUS
    <3>1. h[2] \in 1..Len(data) /\ h[2] # place
      OBVIOUS
    <3> QED BY <1>1, <3>1
  <2> HIDE DEF P, A, B
  <2> QED BY <2>1, <2>2, <2>3, <2>4, <2>5
<1> QED BY <1>1, <1>2

RefLive(stage, heap, links) == \A l \in links : l # SharedNull => RefAlive(stage, heap, l)

\* Each thing that a call does keeps the counts.
LEMMA SharedDoBalanced ==
    ASSUME NEW stage, NEW heap, NEW pointers, NEW links \in SUBSET RefLinks, NEW data \in Seq(SharedSlots), NEW step, NEW next,
           RefBalanced(stage, heap, SharedHeld(pointers, data), SharedNull),
           RefLive(stage, heap, links),
           SharedMoves(links, data, step, next)
    PROVE  LET done == SharedDo([heap |-> heap, data |-> data], step)
           IN  /\ done = [heap |-> done.heap, data |-> next] /\ next \in Seq(SharedSlots)
               /\ RefBalanced(stage, done.heap, SharedHeld(pointers, next), SharedNull)
<1> DEFINE old == IF data[step.to] = SharedRaw THEN SharedNull ELSE data[step.to]
           H == SharedHeld(pointers, data)
           G == SharedHeld(pointers, next)
           x == <<SharedRaw, step.to>>
<1> USE DEF RefLive
<1>1. ASSUME NEW link, SharedPuts(data, step.to, link, next), NEW new, new = IF link = SharedRaw THEN SharedNull ELSE link,
             new # SharedNull => RefAlive(stage, heap, new)
      PROVE  next \in Seq(SharedSlots) /\ RefBalanced(stage, RefAssigned(heap, old, new), G, SharedNull)
  <2>1. /\ next \in Seq(SharedSlots)
        /\ \A o \in SharedObjects : G[o] \ {x} = H[o] \ {x} /\ (x \in H[o] <=> o = data[step.to]) /\ (x \in G[o] <=> o = link)
    BY <1>1, SharedHeldPut
  <2>2. step.to \in 1..Len(data) /\ link \in SharedSlots /\ data[step.to] \in SharedSlots
    BY <1>1 DEF SharedPuts
  <2>3. old \in RefLinks /\ new \in RefLinks
    BY <2>2, <1>1, SharedNames DEF SharedSlots
  <2>4. \A o \in SharedObjects : (o = data[step.to] <=> o = old) /\ (o = link <=> o = new)
    BY <1>1, SharedNames
  <2>5. RefBalanced(stage, heap, H, new)
    <3> HIDE DEF H
    <3>1. RefBalanced(stage, heap, H, SharedNull)
      BY DEF H
    <3> QED BY <3>1, SharedNames DEF RefBalanced
  <2> HIDE DEF old, H, G, x
  <2>6. RefSlotSet(H, G, x, old, new)
    BY <2>1, <2>4 DEF RefSlotSet
  <2>7. RefBalanced(stage, RefAssigned(heap, old, new), G, SharedNull)
    <3>1. new # SharedNull => RefAlive(stage, heap, new)
      BY <1>1
    <3> QED BY <2>3, <2>5, <2>6, <3>1, RefExchanged
  <2> QED BY <2>1, <2>7
<1>2. CASE step.do = "make" /\ step.link \in links /\ data[step.to] = SharedRaw /\ SharedPuts(data, step.to, step.link, next)
  <2>1. SharedDo([heap |-> heap, data |-> data], step) = [heap |-> RefAcquire(heap, step.link), data |-> next]
    BY <1>2 DEF SharedDo, SharedPuts
  <2>2. step.link # SharedRaw /\ (step.link # SharedNull => RefAlive(stage, heap, step.link))
    BY <1>2, SharedNames
  <2>3. next \in Seq(SharedSlots) /\ RefBalanced(stage, RefAssigned(heap, old, step.link), G, SharedNull)
    BY <1>1, <1>2, <2>2
  <2>4. RefAssigned(heap, old, step.link) = RefAcquire(heap, step.link)
    BY <1>2 DEF RefAssigned, RefRelease
  <2> QED BY <2>1, <2>3, <2>4
<1>3. CASE /\ step.do = "copy" /\ step.from \in 1..Len(data) /\ data[step.from] \in RefLinks /\ data[step.to] = SharedRaw
           /\ SharedPuts(data, step.to, data[step.from], next)
  <2>1. SharedDo([heap |-> heap, data |-> data], step) = [heap |-> RefAcquire(heap, data[step.from]), data |-> next]
    BY <1>3 DEF SharedDo, SharedPuts
  <2>2. data[step.from] # SharedNull => RefAlive(stage, heap, data[step.from])
    <3> SUFFICES ASSUME data[step.from] # SharedNull PROVE RefAlive(stage, heap, data[step.from])
      OBVIOUS
    <3>1. data[step.from] \in SharedObjects
      BY <1>3 DEF RefLinks
    <3>2. <<SharedRaw, step.from>> \in H[data[step.from]]
      BY <1>3, <3>1 DEF SharedHeld
    <3>3. IsFiniteSet(H[data[step.from]]) /\ heap.count[data[step.from]] = Cardinality(H[data[step.from]])
      BY <3>1 DEF RefBalanced
    <3>4. Cardinality(H[data[step.from]]) > 0
      <4> HIDE DEF H
      <4> QED BY <3>2, <3>3, HoldersChanged
    <3> QED BY <3>1, <3>3, <3>4, SharedNames DEF RefBalanced
  <2>3. data[step.from] # SharedRaw
    BY <1>3, SharedNames
  <2>4. next \in Seq(SharedSlots) /\ RefBalanced(stage, RefAssigned(heap, old, data[step.from]), G, SharedNull)
    BY <1>1, <1>3, <2>2, <2>3
  <2>5. RefAssigned(heap, old, data[step.from]) = RefAcquire(heap, data[step.from])
    BY <1>3 DEF RefAssigned, RefRelease
  <2> QED BY <2>1, <2>4, <2>5
<1>4. CASE step.do = "set" /\ step.link \in links /\ data[step.to] \in RefLinks /\ SharedPuts(data, step.to, step.link, next)
  <2>1. SharedDo([heap |-> heap, data |-> data], step) = [heap |-> RefAssigned(heap, data[step.to], step.link), data |-> next]
    BY <1>4 DEF SharedDo, SharedPuts
  <2>2. step.link # SharedRaw /\ (step.link # SharedNull => RefAlive(stage, heap, step.link)) /\ old = data[step.to]
    BY <1>4, SharedNames
  <2>3. next \in Seq(SharedSlots) /\ RefBalanced(stage, RefAssigned(heap, old, step.link), G, SharedNull)
    BY <1>1, <1>4, <2>2
  <2> QED BY <2>1, <2>2, <2>3
<1>5. CASE step.do = "end" /\ data[step.to] \in RefLinks /\ SharedPuts(data, step.to, SharedRaw, next)
  <2>1. SharedDo([heap |-> heap, data |-> data], step) = [heap |-> RefRelease(heap, data[step.to]), data |-> next]
    BY <1>5 DEF SharedDo, SharedPuts
  <2>2. old = data[step.to]
    BY <1>5, SharedNames
  <2>3. next \in Seq(SharedSlots) /\ RefBalanced(stage, RefAssigned(heap, old, SharedNull), G, SharedNull)
    BY <1>1, <1>5
  <2>4. RefAssigned(heap, old, SharedNull) = RefRelease(heap, data[step.to])
    BY <2>2 DEF RefAssigned, RefAcquire
  <2> QED BY <2>1, <2>3, <2>4
<1> QED BY <1>2, <1>3, <1>4, <1>5 DEF SharedMoves

----------------------------------------------------------------------------
\* A call does its steps one after the other.

SharedSteps ==
    [do : {"make", "set"}, to : Nat, link : RefLinks] \cup [do : {"copy"}, from : Nat, to : Nat] \cup [do : {"end"}, to : Nat]
\* Steps, one after the other, may be made of data and leave there what is left.
SharedTraces(links, steps) ==
    {trace \in [0..Len(steps) -> Seq(SharedSlots)] :
        \A k \in 1..Len(steps) : SharedMoves(links, trace[k - 1], steps[k], trace[k])}
SharedLeads(links, data, steps, left) ==
    /\ steps \in Seq(SharedSteps)
    /\ \E trace \in SharedTraces(links, steps) : trace[0] = data /\ trace[Len(steps)] = left

SharedStates == [heap : [count : [SharedObjects -> Nat], dead : Seq(SharedObjects)], data : Seq(SharedSlots)]
\* The states that the first m of the steps go through, and what is true of each.
SharedRuns(stage, pointers, heap, steps, trace, m) ==
    {f \in [0..m -> SharedStates] :
        /\ f[0] = [heap |-> heap, data |-> trace[0]]
        /\ \A k \in 1..m : f[k] = SharedDo(f[k - 1], steps[k])
        /\ \A k \in 0..m : f[k].data = trace[k] /\ RefBalanced(stage, f[k].heap, SharedHeld(pointers, trace[k]), SharedNull)}

\* What the pointers hold stays alive.
LEMMA PointersHold ==
    ASSUME NEW stage, NEW heap, NEW pointers, NEW data, NEW t \in SharedThreads, NEW i \in 1..SharedPointers,
           pointers[t][i] \in SharedObjects, RefBalanced(stage, heap, SharedHeld(pointers, data), SharedNull)
    PROVE  RefAlive(stage, heap, pointers[t][i]) /\ heap.count[pointers[t][i]] > 0
<1> DEFINE o == pointers[t][i]
           H == SharedHeld(pointers, data)[o]
<1>1. <<t, i>> \in H
  BY DEF SharedHeld
<1>2. IsFiniteSet(H) /\ heap.count[o] = Cardinality(H)
  BY DEF RefBalanced
<1>3. Cardinality(H) > 0
  <2> HIDE DEF H
  <2> QED BY <1>1, <1>2, HoldersChanged
<1> QED BY <1>2, <1>3, SharedNames DEF RefBalanced

SharedOffers(pointers, links) ==
    \A l \in links : l = SharedNull \/ \E t \in SharedThreads, i \in 1..SharedPointers : l = pointers[t][i] /\ l \in SharedObjects

\* A call that did its first m steps, and left balanced counts, does the next one.
LEMMA SharedRunsMore ==
    ASSUME NEW stage, NEW pointers, NEW links \in SUBSET RefLinks, SharedOffers(pointers, links), NEW heap,
           NEW steps \in Seq(SharedSteps), NEW trace \in SharedTraces(links, steps),
           NEW m \in Nat, m + 1 <= Len(steps), NEW f \in SharedRuns(stage, pointers, heap, steps, trace, m)
    PROVE  \E g : g \in SharedRuns(stage, pointers, heap, steps, trace, m + 1)
<1> DEFINE done == SharedDo(f[m], steps[m + 1])
           g == [k \in 0..(m + 1) |-> IF k = m + 1 THEN done ELSE f[k]]
<1>1. /\ f \in [0..m -> SharedStates] /\ f[0] = [heap |-> heap, data |-> trace[0]]
      /\ \A k \in 1..m : f[k] = SharedDo(f[k - 1], steps[k])
      /\ \A k \in 0..m : f[k].data = trace[k] /\ RefBalanced(stage, f[k].heap, SharedHeld(pointers, trace[k]), SharedNull)
  BY DEF SharedRuns
<1>2. /\ trace[m] \in Seq(SharedSlots) /\ trace[m + 1] \in Seq(SharedSlots)
      /\ SharedMoves(links, trace[m], steps[m + 1], trace[m + 1])
  <2>1. m + 1 \in 1..Len(steps) /\ m \in 0..Len(steps) /\ m + 1 \in 0..Len(steps) /\ (m + 1) - 1 = m
    OBVIOUS
  <2> QED BY <2>1 DEF SharedTraces
<1>3. /\ m \in 0..m /\ f[m] = [heap |-> f[m].heap, data |-> trace[m]]
      /\ RefBalanced(stage, f[m].heap, SharedHeld(pointers, trace[m]), SharedNull)
  BY <1>1 DEF SharedStates
<1>4. RefLive(stage, f[m].heap, links)
  <2> SUFFICES ASSUME NEW l \in links, l # SharedNull PROVE RefAlive(stage, f[m].heap, l)
    BY DEF RefLive
  <2>1. PICK t \in SharedThreads, i \in 1..SharedPointers : l = pointers[t][i] /\ pointers[t][i] \in SharedObjects
    BY DEF SharedOffers
  <2> DEFINE h == f[m].heap
             d == trace[m]
  <2>2. RefBalanced(stage, h, SharedHeld(pointers, d), SharedNull)
    BY <1>3
  <2> HIDE DEF h, d
  <2>3. RefAlive(stage, h, pointers[t][i])
    BY <2>1, <2>2, PointersHold
  <2> QED BY <2>1, <2>3 DEF h
<1>5. /\ done = [heap |-> done.heap, data |-> trace[m + 1]]
      /\ RefBalanced(stage, done.heap, SharedHeld(pointers, trace[m + 1]), SharedNull)
  <2> DEFINE h == f[m].heap
             d == trace[m]
             n == trace[m + 1]
             s == steps[m + 1]
  <2>1. done = SharedDo([heap |-> h, data |-> d], s)
    BY <1>3
  <2>2. d \in Seq(SharedSlots) /\ SharedMoves(links, d, s, n) /\ RefBalanced(stage, h, SharedHeld(pointers, d), SharedNull)
    BY <1>2, <1>3
  <2>3. RefLive(stage, h, links)
    BY <1>4
  <2> HIDE DEF h, d, n, s, done
  <2>4. done = [heap |-> done.heap, data |-> n] /\ RefBalanced(stage, done.heap, SharedHeld(pointers, n), SharedNull)
    BY <2>1, <2>2, <2>3, SharedDoBalanced
  <2> QED BY <2>4 DEF n
<1> HIDE DEF done
<1>6. done \in SharedStates
  <2>1. done.heap \in [count : [SharedObjects -> Nat], dead : Seq(SharedObjects)]
    BY <1>5 DEF RefBalanced
  <2> QED BY <1>2, <1>5, <2>1 DEF SharedStates
<1>7. g \in [0..(m + 1) -> SharedStates] /\ g[m + 1] = done /\ \A k \in 0..m : g[k] = f[k]
  BY <1>1, <1>6
<1> HIDE DEF g
<1>8. g[0] = [heap |-> heap, data |-> trace[0]]
  BY <1>1, <1>7
<1>9. ASSUME NEW k \in 1..(m + 1) PROVE g[k] = SharedDo(g[k - 1], steps[k])
  <2>1. CASE k = m + 1
    BY <2>1, <1>3, <1>7 DEF done
  <2>2. CASE k # m + 1
    <3>1. k \in 1..m /\ k - 1 \in 0..m /\ k \in 0..m
      BY <2>2
    <3> QED BY <3>1, <1>1, <1>7
  <2> QED BY <2>1, <2>2
<1>10. ASSUME NEW k \in 0..(m + 1)
       PROVE  g[k].data = trace[k] /\ RefBalanced(stage, g[k].heap, SharedHeld(pointers, trace[k]), SharedNull)
  <2>1. CASE k = m + 1
    <3>1. done.data = trace[m + 1]
      BY <1>5
    <3> QED BY <2>1, <3>1, <1>5, <1>7
  <2>2. CASE k # m + 1
    <3>1. k \in 0..m
      BY <2>2
    <3> QED BY <3>1, <1>1, <1>7
  <2> QED BY <2>1, <2>2
<1>11. g \in SharedRuns(stage, pointers, heap, steps, trace, m + 1)
  BY <1>7, <1>8, <1>9, <1>10 DEF SharedRuns
<1> QED BY <1>11

\* A call leaves what its steps lead to, and the counts agree with it.
LEMMA SharedRunBalanced ==
    ASSUME NEW stage, NEW pointers, NEW links \in SUBSET RefLinks, SharedOffers(pointers, links), NEW heap,
           NEW data \in Seq(SharedSlots), NEW steps, NEW left, SharedLeads(links, data, steps, left),
           RefBalanced(stage, heap, SharedHeld(pointers, data), SharedNull)
    PROVE  LET done == SharedRun([heap |-> heap, data |-> data], steps)
           IN  /\ done.data = left /\ left \in Seq(SharedSlots)
               /\ RefBalanced(stage, done.heap, SharedHeld(pointers, left), SharedNull)
<1>1. PICK trace \in SharedTraces(links, steps) : trace[0] = data /\ trace[Len(steps)] = left
  BY DEF SharedLeads
<1>2. steps \in Seq(SharedSteps) /\ Len(steps) \in Nat
  BY DEF SharedLeads
<1> DEFINE n == Len(steps)
           start == [heap |-> heap, data |-> data]
           S == {m \in 0..n : \E f : f \in SharedRuns(stage, pointers, heap, steps, trace, m)}
<1>3. 0 \in S
  <2> DEFINE e == [k \in 0..0 |-> start]
  <2>1. start \in SharedStates
    BY DEF SharedStates, RefBalanced
  <2>2. e \in [0..0 -> SharedStates] /\ e[0] = start
    BY <2>1
  <2> HIDE DEF e
  <2>3. e[0] = [heap |-> heap, data |-> trace[0]]
    BY <1>1, <2>2
  <2>4. \A k \in 0..0 : e[k].data = trace[k] /\ RefBalanced(stage, e[k].heap, SharedHeld(pointers, trace[k]), SharedNull)
    <3>1. \A k \in 0..0 : k = 0
      OBVIOUS
    <3>2. e[0].data = trace[0] /\ e[0].heap = heap
      BY <2>3
    <3> QED BY <3>1, <3>2, <1>1
  <2>5. e \in SharedRuns(stage, pointers, heap, steps, trace, 0)
    BY <2>2, <2>3, <2>4 DEF SharedRuns
  <2> QED BY <2>5, <1>2
<1>4. \A k \in 1..n : k - 1 \in S => k \in S
  <2> SUFFICES ASSUME NEW k \in 1..n, k - 1 \in S PROVE k \in S
    OBVIOUS
  <2>1. PICK f : f \in SharedRuns(stage, pointers, heap, steps, trace, k - 1)
    OBVIOUS
  <2> DEFINE m == k - 1
  <2>2. m \in Nat /\ m + 1 <= Len(steps) /\ m + 1 = k /\ f \in SharedRuns(stage, pointers, heap, steps, trace, m)
    BY <1>2, <2>1
  <2>3. \E g : g \in SharedRuns(stage, pointers, heap, steps, trace, m + 1)
    <3> HIDE DEF m
    <3> QED BY <1>1, <1>2, <2>2, SharedRunsMore
  <2> QED BY <2>2, <2>3
<1>5. 0..n \subseteq S
  <2> HIDE DEF S
  <2> QED BY <1>2, <1>3, <1>4, UpTo
<1>6. PICK f : f \in SharedRuns(stage, pointers, heap, steps, trace, n)
  BY <1>2, <1>5
<1>7. /\ f \in [0..n -> SharedStates] /\ f[0] = start /\ \A k \in 1..n : f[k] = SharedDo(f[k - 1], steps[k])
      /\ f[n].data = left /\ RefBalanced(stage, f[n].heap, SharedHeld(pointers, left), SharedNull)
  BY <1>1, <1>2, <1>6 DEF SharedRuns
<1> DEFINE C == CHOOSE after : after = [k \in 0..n |-> IF k = 0 THEN start ELSE SharedDo(after[k - 1], steps[k])]
<1>8. f = [k \in 0..n |-> IF k = 0 THEN start ELSE SharedDo(f[k - 1], steps[k])]
  <2>1. \A k \in 0..n : k # 0 => k \in 1..n
    BY <1>2
  <2> HIDE DEF start
  <2> QED BY <1>7, <2>1
<1>9. C = [k \in 0..n |-> IF k = 0 THEN start ELSE SharedDo(C[k - 1], steps[k])]
  <2> HIDE DEF start, n
  <2> QED BY <1>8
<1>10. SharedRun(start, steps) = C[n]
  BY DEF SharedRun
<1> HIDE DEF C, start
<1>11. \A k \in 0..n : C[k] = f[k]
  <2> DEFINE T == {k \in 0..n : C[k] = f[k]}
  <2>1. 0 \in T
    BY <1>2, <1>7, <1>9
  <2>2. ASSUME NEW k \in 1..n, k - 1 \in T PROVE k \in T
    <3>1. k \in 0..n /\ k # 0
      BY <1>2
    <3>2. C[k] = SharedDo(C[k - 1], steps[k]) /\ f[k] = SharedDo(f[k - 1], steps[k])
      BY <3>1, <1>7, <1>9
    <3> QED BY <2>2, <3>1, <3>2
  <2>3. 0..n \subseteq T
    <3> HIDE DEF T
    <3> QED BY <1>2, <2>1, <2>2, UpTo
  <2> QED BY <2>3
<1>12. SharedRun(start, steps) = f[n]
  BY <1>2, <1>10, <1>11
<1>13. left \in Seq(SharedSlots)
  BY <1>1, <1>2 DEF SharedTraces
<1> QED BY <1>7, <1>12, <1>13 DEF start

----------------------------------------------------------------------------
\* Where the steps of a call lead the memory: nothing but these facts is used of the code's loops.

\* No steps lead where they began.
LEMMA LeadsNothing ==
    ASSUME NEW links, NEW data \in Seq(SharedSlots)
    PROVE  SharedLeads(links, data, <<>>, data)
<1> DEFINE trace == [k \in 0..0 |-> data]
<1>1. trace \in SharedTraces(links, <<>>) /\ trace[0] = data
  BY DEF SharedTraces
<1>2. <<>> \in Seq(SharedSteps) /\ Len(<<>>) = 0
  OBVIOUS
<1> HIDE DEF trace
<1> QED BY <1>1, <1>2 DEF SharedLeads

\* A single step.
LEMMA LeadsOne ==
    ASSUME NEW links, NEW data \in Seq(SharedSlots), NEW left \in Seq(SharedSlots), NEW step \in SharedSteps,
           SharedMoves(links, data, step, left)
    PROVE  SharedLeads(links, data, <<step>>, left)
<1> DEFINE steps == <<step>>
           trace == [k \in 0..1 |-> IF k = 0 THEN data ELSE left]
<1>1. steps \in Seq(SharedSteps) /\ Len(steps) = 1 /\ steps[1] = step
  OBVIOUS
<1>2. trace \in [0..1 -> Seq(SharedSlots)] /\ trace[0] = data /\ trace[1] = left
  OBVIOUS
<1> HIDE DEF steps, trace
<1>3. \A k \in 1..Len(steps) : k = 1 /\ k - 1 = 0
  BY <1>1
<1>4. trace \in SharedTraces(links, steps)
  BY <1>1, <1>2, <1>3 DEF SharedTraces
<1>5. SharedLeads(links, data, steps, left)
  BY <1>1, <1>2, <1>4 DEF SharedLeads
<1> QED BY <1>5 DEF steps

\* A list of steps after another.
LEMMA LeadsThen ==
    ASSUME NEW links, NEW data, NEW a, NEW between, NEW b, NEW left,
           SharedLeads(links, data, a, between), SharedLeads(links, between, b, left)
    PROVE  SharedLeads(links, data, a \o b, left)
<1>1. PICK f \in SharedTraces(links, a) : f[0] = data /\ f[Len(a)] = between
  BY DEF SharedLeads
<1>2. PICK g \in SharedTraces(links, b) : g[0] = between /\ g[Len(b)] = left
  BY DEF SharedLeads
<1>3. a \in Seq(SharedSteps) /\ b \in Seq(SharedSteps) /\ Len(a) \in Nat /\ Len(b) \in Nat
  BY DEF SharedLeads
<1> DEFINE m == Len(a)
           n == Len(b)
           c == a \o b
           trace == [k \in 0..(m + n) |-> IF k <= m THEN f[k] ELSE g[k - m]]
<1>4. /\ c \in Seq(SharedSteps) /\ Len(c) = m + n
      /\ \A i \in 1..(m + n) : c[i] = IF i <= m THEN a[i] ELSE b[i - m]
  BY <1>3, ConcatProperties
<1>5. /\ f \in [0..m -> Seq(SharedSlots)] /\ \A k \in 1..m : SharedMoves(links, f[k - 1], a[k], f[k])
      /\ g \in [0..n -> Seq(SharedSlots)] /\ \A k \in 1..n : SharedMoves(links, g[k - 1], b[k], g[k])
  BY DEF SharedTraces
<1>6. m \in Nat /\ n \in Nat
  BY <1>3
<1> HIDE DEF c, m, n
<1>7. trace \in [0..(m + n) -> Seq(SharedSlots)]
  <2> SUFFICES ASSUME NEW k \in 0..(m + n) PROVE trace[k] \in Seq(SharedSlots)
    OBVIOUS
  <2>1. CASE k <= m
    BY <1>5, <1>6, <2>1
  <2>2. CASE ~(k <= m)
    <3>1. k - m \in 0..n
      BY <1>6, <2>2
    <3> QED BY <1>5, <2>2, <3>1
  <2> QED BY <2>1, <2>2
<1>8. \A k \in 0..(m + n) : trace[k] = IF k <= m THEN f[k] ELSE g[k - m]
  OBVIOUS
<1>9. \A k \in 0..(m + n) : k >= m => trace[k] = g[k - m]
  BY <1>1, <1>2, <1>6, <1>8 DEF m
<1> HIDE DEF trace
<1>10. ASSUME NEW k \in 1..(m + n) PROVE SharedMoves(links, trace[k - 1], c[k], trace[k])
  <2>1. CASE k <= m
    <3>1. trace[k - 1] = f[k - 1] /\ trace[k] = f[k] /\ c[k] = a[k] /\ k \in 1..m
      BY <1>4, <1>6, <1>8, <2>1
    <3> QED BY <1>5, <3>1
  <2>2. CASE ~(k <= m)
    <3>1. /\ trace[k - 1] = g[(k - 1) - m] /\ trace[k] = g[k - m] /\ c[k] = b[k - m]
          /\ k - m \in 1..n /\ (k - 1) - m = (k - m) - 1
      BY <1>4, <1>6, <1>9, <2>2
    <3> QED BY <1>5, <3>1
  <2> QED BY <2>1, <2>2
<1>11. trace[0] = data /\ trace[m + n] = left
  BY <1>1, <1>2, <1>6, <1>8, <1>9 DEF m, n
<1>12. trace \in SharedTraces(links, c)
  BY <1>4, <1>7, <1>10 DEF SharedTraces
<1>13. SharedLeads(links, data, c, left)
  BY <1>4, <1>11, <1>12 DEF SharedLeads
<1> QED BY <1>13 DEF c

\* Rounds[i] is where the i-th round of a loop leaves the data.
LEMMA LeadsRounds ==
    ASSUME NEW links, NEW n \in Nat \ {0}, NEW rounds \in [1..n -> Seq(SharedSteps)], NEW datas \in [0..n -> Seq(SharedSlots)],
           \A i \in 1..n : SharedLeads(links, datas[i - 1], rounds[i], datas[i])
    PROVE  SharedLeads(links, datas[0], FlattenSeq(rounds), datas[n])
<1>1. PICK f \in FlatParts(SharedSteps, rounds, n) : FlattenSeq(rounds) = f[n]
  BY FlattenIs
<1>2. f \in [1..n -> Seq(SharedSteps)] /\ \A i \in 1..n : f[i] = IF i = 1 THEN rounds[i] ELSE f[i - 1] \o rounds[i]
  BY DEF FlatParts
<1> DEFINE S == {i \in 0..n : i = 0 \/ SharedLeads(links, datas[0], f[i], datas[i])}
<1>3. 0 \in S
  OBVIOUS
<1>4. ASSUME NEW k \in 1..n, k - 1 \in S PROVE k \in S
  <2>1. CASE k = 1
    <3>1. f[k] = rounds[k] /\ SharedLeads(links, datas[0], rounds[k], datas[k])
      BY <1>2, <2>1
    <3> QED BY <3>1
  <2>2. CASE k # 1
    <3>1. SharedLeads(links, datas[0], f[k - 1], datas[k - 1])
      BY <1>4, <2>2
    <3>2. SharedLeads(links, datas[k - 1], rounds[k], datas[k])
      OBVIOUS
    <3>3. SharedLeads(links, datas[0], f[k - 1] \o rounds[k], datas[k])
      BY <3>1, <3>2, LeadsThen
    <3>4. f[k] = f[k - 1] \o rounds[k]
      BY <1>2, <2>2
    <3>5. SharedLeads(links, datas[0], f[k], datas[k])
      BY <3>3, <3>4
    <3> QED BY <3>5
  <2> QED BY <2>1, <2>2
<1>5. 0..n \subseteq S
  <2> HIDE DEF S
  <2> QED BY <1>3, <1>4, UpTo
<1> QED BY <1>1, <1>5

SharedGoesUp(links, first, last, steps, datas, data, left) ==
    IF last < first THEN left = data
    ELSE /\ datas \in [(first - 1)..last -> Seq(SharedSlots)] /\ data = datas[first - 1] /\ left = datas[last]
         /\ \A i \in first..last : SharedLeads(links, datas[i - 1], steps[i], datas[i])
SharedGoesDown(links, first, last, steps, datas, data, left) ==
    IF last < first THEN left = data
    ELSE /\ datas \in [first..(last + 1) -> Seq(SharedSlots)] /\ data = datas[last + 1] /\ left = datas[first]
         /\ \A i \in first..last : SharedLeads(links, datas[i + 1], steps[i], datas[i])

\* The loops of the code that go from the first element to the last.
LEMMA LeadsUp ==
    ASSUME NEW links, NEW first \in Int, NEW last \in Int, NEW steps, NEW datas, NEW data, NEW left,
           data \in Seq(SharedSlots),
           SharedGoesUp(links, first, last, steps, datas, data, left)
    PROVE  SharedLeads(links, data, SharedUp(first, last, steps), left)
<1> USE DEF SharedGoesUp
<1>1. CASE last < first
  <2>1. SharedUp(first, last, steps) = <<>> /\ left = data
    BY <1>1 DEF SharedUp
  <2> QED BY <2>1, LeadsNothing
<1>2. CASE ~(last < first)
  <2> DEFINE n == last - first + 1
             rounds == [k \in 1..n |-> steps[first + k - 1]]
             ds == [k \in 0..n |-> datas[first + k - 1]]
  <2>1. n \in Nat \ {0} /\ SharedUp(first, last, steps) = FlattenSeq(rounds)
    BY <1>2 DEF SharedUp
  <2>2. ds \in [0..n -> Seq(SharedSlots)] /\ ds[0] = data /\ ds[n] = left
    BY <1>2
  <2>3. ASSUME NEW k \in 1..n PROVE SharedLeads(links, ds[k - 1], rounds[k], ds[k])
    <3>1. first + k - 1 \in first..last /\ ds[k - 1] = datas[(first + k - 1) - 1] /\ ds[k] = datas[first + k - 1] /\ rounds[k] = steps[first + k - 1]
      BY <1>2
    <3> QED BY <1>2, <3>1
  <2>4. rounds \in [1..n -> Seq(SharedSteps)]
    <3> SUFFICES ASSUME NEW k \in 1..n PROVE rounds[k] \in Seq(SharedSteps)
      OBVIOUS
    <3> QED BY <2>3 DEF SharedLeads
  <2> HIDE DEF n, rounds, ds
  <2>5. SharedLeads(links, ds[0], FlattenSeq(rounds), ds[n])
    BY <2>1, <2>2, <2>3, <2>4, LeadsRounds
  <2> QED BY <2>1, <2>2, <2>5
<1> QED BY <1>1, <1>2

\* Those that go from the last to the first.
LEMMA LeadsDown ==
    ASSUME NEW links, NEW first \in Int, NEW last \in Int, NEW steps, NEW datas, NEW data, NEW left,
           data \in Seq(SharedSlots),
           SharedGoesDown(links, first, last, steps, datas, data, left)
    PROVE  SharedLeads(links, data, SharedDown(first, last, steps), left)
<1> USE DEF SharedGoesDown
<1>1. CASE last < first
  <2>1. SharedDown(first, last, steps) = <<>> /\ left = data
    BY <1>1 DEF SharedDown
  <2> QED BY <2>1, LeadsNothing
<1>2. CASE ~(last < first)
  <2> DEFINE n == last - first + 1
             rounds == [k \in 1..n |-> steps[last - k + 1]]
             ds == [k \in 0..n |-> datas[last - k + 1]]
  <2>1. n \in Nat \ {0} /\ SharedDown(first, last, steps) = FlattenSeq(rounds)
    BY <1>2 DEF SharedDown
  <2>2. ds \in [0..n -> Seq(SharedSlots)] /\ ds[0] = data /\ ds[n] = left
    BY <1>2
  <2>3. ASSUME NEW k \in 1..n PROVE SharedLeads(links, ds[k - 1], rounds[k], ds[k])
    <3>1. last - k + 1 \in first..last /\ ds[k - 1] = datas[(last - k + 1) + 1] /\ ds[k] = datas[last - k + 1] /\ rounds[k] = steps[last - k + 1]
      BY <1>2
    <3> QED BY <1>2, <3>1
  <2>4. rounds \in [1..n -> Seq(SharedSteps)]
    <3> SUFFICES ASSUME NEW k \in 1..n PROVE rounds[k] \in Seq(SharedSteps)
      OBVIOUS
    <3> QED BY <2>3 DEF SharedLeads
  <2> HIDE DEF n, rounds, ds
  <2>5. SharedLeads(links, ds[0], FlattenSeq(rounds), ds[n])
    BY <2>1, <2>2, <2>3, <2>4, LeadsRounds
  <2> QED BY <2>1, <2>2, <2>5
<1> QED BY <1>1, <1>2

\* The one place that a step changes.
LEMMA SharedPutsIs ==
    ASSUME NEW data \in Seq(SharedSlots), NEW place \in 1..Len(data), NEW link \in SharedSlots,
           NEW next \in Seq(SharedSlots), Len(next) = Len(data),
           \A p \in 1..Len(data) : next[p] = IF p = place THEN link ELSE data[p]
    PROVE  SharedPuts(data, place, link, next)
<1>1. /\ [data EXCEPT ![place] = link] \in Seq(SharedSlots) /\ Len([data EXCEPT ![place] = link]) = Len(data)
      /\ \A p \in 1..Len(data) : [data EXCEPT ![place] = link][p] = IF p = place THEN link ELSE data[p]
  BY ExceptSeq
<1> DEFINE e == [data EXCEPT ![place] = link]
<1> HIDE DEF e
<1>2. next = e
  <2>1. e \in Seq(SharedSlots) /\ Len(e) = Len(next) /\ \A p \in 1..Len(next) : next[p] = e[p]
    BY <1>1 DEF e
  <2> QED BY <2>1, SeqEqual
<1> QED BY <1>2 DEF SharedPuts, e

\* An element is constructed in raw memory.
LEMMA LeadsMake ==
    ASSUME NEW links \in SUBSET RefLinks, NEW data \in Seq(SharedSlots), NEW place \in 1..Len(data), NEW link \in links,
           NEW next \in Seq(SharedSlots), Len(next) = Len(data), data[place] = SharedRaw,
           \A p \in 1..Len(data) : next[p] = IF p = place THEN link ELSE data[p]
    PROVE  SharedLeads(links, data, SharedMake(place, link), next)
<1> DEFINE step == [do |-> "make", to |-> place, link |-> link]
<1>1. link \in SharedSlots /\ place \in Nat
  BY DEF SharedSlots
<1>2. SharedPuts(data, place, link, next)
  BY <1>1, SharedPutsIs
<1>3. step \in SharedSteps /\ SharedMoves(links, data, step, next)
  BY <1>1, <1>2 DEF SharedSteps, SharedMoves
<1> HIDE DEF step
<1>4. SharedLeads(links, data, <<step>>, next)
  BY <1>3, LeadsOne
<1> QED BY <1>4 DEF SharedMake, step

\* An element is assigned.
LEMMA LeadsSet ==
    ASSUME NEW links \in SUBSET RefLinks, NEW data \in Seq(SharedSlots), NEW place \in 1..Len(data), NEW link \in links,
           NEW next \in Seq(SharedSlots), Len(next) = Len(data), data[place] \in RefLinks,
           \A p \in 1..Len(data) : next[p] = IF p = place THEN link ELSE data[p]
    PROVE  SharedLeads(links, data, SharedSet(place, link), next)
<1> DEFINE step == [do |-> "set", to |-> place, link |-> link]
<1>1. link \in SharedSlots /\ place \in Nat
  BY DEF SharedSlots
<1>2. SharedPuts(data, place, link, next)
  BY <1>1, SharedPutsIs
<1>3. step \in SharedSteps /\ SharedMoves(links, data, step, next)
  BY <1>1, <1>2 DEF SharedSteps, SharedMoves
<1> HIDE DEF step
<1>4. SharedLeads(links, data, <<step>>, next)
  BY <1>3, LeadsOne
<1> QED BY <1>4 DEF SharedSet, step

\* An element is destroyed.
LEMMA LeadsEnd ==
    ASSUME NEW links, NEW data \in Seq(SharedSlots), NEW place \in 1..Len(data),
           NEW next \in Seq(SharedSlots), Len(next) = Len(data), data[place] \in RefLinks,
           \A p \in 1..Len(data) : next[p] = IF p = place THEN SharedRaw ELSE data[p]
    PROVE  SharedLeads(links, data, SharedEnd(place), next)
<1> DEFINE step == [do |-> "end", to |-> place]
<1>1. SharedRaw \in SharedSlots /\ place \in Nat
  BY DEF SharedSlots
<1>2. SharedPuts(data, place, SharedRaw, next)
  BY <1>1, SharedPutsIs
<1>3. step \in SharedSteps /\ SharedMoves(links, data, step, next)
  BY <1>1, <1>2 DEF SharedSteps, SharedMoves
<1> HIDE DEF step
<1>4. SharedLeads(links, data, <<step>>, next)
  BY <1>3, LeadsOne
<1> QED BY <1>4 DEF SharedEnd, step

\* An element is constructed as a copy of another.
LEMMA LeadsCopy ==
    ASSUME NEW links, NEW data \in Seq(SharedSlots), NEW from \in 1..Len(data), NEW place \in 1..Len(data),
           NEW next \in Seq(SharedSlots), Len(next) = Len(data), data[from] \in RefLinks, data[place] = SharedRaw,
           \A p \in 1..Len(data) : next[p] = IF p = place THEN data[from] ELSE data[p]
    PROVE  SharedLeads(links, data, SharedCopy(from, place), next)
<1> DEFINE step == [do |-> "copy", from |-> from, to |-> place]
<1>1. data[from] \in SharedSlots /\ place \in Nat /\ from \in Nat
  BY DEF SharedSlots
<1>2. SharedPuts(data, place, data[from], next)
  BY <1>1, SharedPutsIs
<1>3. step \in SharedSteps /\ SharedMoves(links, data, step, next)
  BY <1>1, <1>2 DEF SharedSteps, SharedMoves
<1> HIDE DEF step
<1>4. SharedLeads(links, data, <<step>>, next)
  BY <1>3, LeadsOne
<1> QED BY <1>4 DEF SharedCopy, step

\* An element is copied to a free place and destroyed where it was.
LEMMA LeadsMoved ==
    ASSUME NEW links, NEW data \in Seq(SharedSlots), NEW from \in 1..Len(data), NEW place \in 1..Len(data), from # place,
           NEW next \in Seq(SharedSlots), Len(next) = Len(data), data[from] \in RefLinks, data[place] = SharedRaw,
           \A p \in 1..Len(data) : next[p] = IF p = place THEN data[from] ELSE IF p = from THEN SharedRaw ELSE data[p]
    PROVE  SharedLeads(links, data, SharedMoved(from, place), next)
<1> DEFINE mid == [data EXCEPT ![place] = data[from]]
<1>1. data[from] \in SharedSlots
  BY DEF SharedSlots
<1>2. /\ mid \in Seq(SharedSlots) /\ Len(mid) = Len(data)
      /\ \A p \in 1..Len(data) : mid[p] = IF p = place THEN data[from] ELSE data[p]
  BY <1>1, ExceptSeq
<1> HIDE DEF mid
<1>3. SharedLeads(links, data, SharedCopy(from, place), mid)
  BY <1>2, LeadsCopy
<1>4. mid[from] \in RefLinks /\ from \in 1..Len(mid) /\ Len(next) = Len(mid) /\ \A p \in 1..Len(mid) : next[p] = IF p = from THEN SharedRaw ELSE mid[p]
  BY <1>2
<1>5. SharedLeads(links, mid, SharedEnd(from), next)
  BY <1>2, <1>4, LeadsEnd
<1>6. SharedLeads(links, data, SharedCopy(from, place) \o SharedEnd(from), next)
  BY <1>3, <1>5, LeadsThen
<1> QED BY <1>6 DEF SharedMoved

\* An element is destroyed and made again from another.
LEMMA LeadsOver ==
    ASSUME NEW links, NEW data \in Seq(SharedSlots), NEW from \in 1..Len(data), NEW place \in 1..Len(data), from # place,
           NEW next \in Seq(SharedSlots), Len(next) = Len(data), data[from] \in RefLinks, data[place] \in RefLinks,
           \A p \in 1..Len(data) : next[p] = IF p = place THEN data[from] ELSE data[p]
    PROVE  SharedLeads(links, data, SharedEnd(place) \o SharedCopy(from, place), next)
<1> DEFINE mid == [data EXCEPT ![place] = SharedRaw]
<1>1. SharedRaw \in SharedSlots
  BY DEF SharedSlots
<1>2. /\ mid \in Seq(SharedSlots) /\ Len(mid) = Len(data)
      /\ \A p \in 1..Len(data) : mid[p] = IF p = place THEN SharedRaw ELSE data[p]
  BY <1>1, ExceptSeq
<1> HIDE DEF mid
<1>3. SharedLeads(links, data, SharedEnd(place), mid)
  BY <1>2, LeadsEnd
<1>4. /\ mid[from] = data[from] /\ from \in 1..Len(mid) /\ place \in 1..Len(mid) /\ Len(next) = Len(mid) /\ mid[place] = SharedRaw
      /\ mid[from] \in RefLinks
      /\ \A p \in 1..Len(mid) : next[p] = IF p = place THEN mid[from] ELSE mid[p]
  BY <1>2
<1>5. SharedLeads(links, mid, SharedCopy(from, place), next)
  BY <1>2, <1>4, LeadsCopy
<1> QED BY <1>3, <1>5, LeadsThen

\* A block of m places with the elements s after the first base ones.
SharedArray(m, base, s) == [p \in 1..m |-> IF p - base \in 1..Len(s) THEN s[p - base] ELSE SharedRaw]

\* The memory of an array, place by place.
LEMMA SharedArrayIs ==
    ASSUME NEW m \in Nat, NEW base \in Nat, NEW s \in Seq(RefLinks)
    PROVE  /\ SharedArray(m, base, s) \in Seq(SharedSlots) /\ Len(SharedArray(m, base, s)) = m
           /\ \A p \in 1..m : SharedArray(m, base, s)[p] = IF p - base \in 1..Len(s) THEN s[p - base] ELSE SharedRaw
<1> DEFINE a == SharedArray(m, base, s)
<1>1. \A p \in 1..m : a[p] = IF p - base \in 1..Len(s) THEN s[p - base] ELSE SharedRaw
  BY DEF SharedArray
<1>2. \A i \in 1..Len(s) : s[i] \in SharedSlots
  BY DEF SharedSlots
<1>3. \A p \in 1..m : a[p] \in SharedSlots
  BY <1>1, <1>2 DEF SharedSlots
<1>4. a = [p \in 1..m |-> a[p]]
  BY DEF SharedArray
<1> HIDE DEF a
<1>5. a \in [1..m -> SharedSlots]
  BY <1>3, <1>4
<1> QED BY <1>1, <1>5 DEF a

\* Memory that is so place by place is the memory of the array.
LEMMA SharedArrayEqual ==
    ASSUME NEW m \in Nat, NEW data \in Seq(SharedSlots), NEW base \in Nat, NEW s \in Seq(RefLinks), Len(data) = m,
           \A p \in 1..m : data[p] = IF p - base \in 1..Len(s) THEN s[p - base] ELSE SharedRaw
    PROVE  data = SharedArray(m, base, s)
<1> DEFINE a == SharedArray(m, base, s)
<1>1. a \in Seq(SharedSlots) /\ Len(a) = m /\ \A p \in 1..m : a[p] = IF p - base \in 1..Len(s) THEN s[p - base] ELSE SharedRaw
  BY SharedArrayIs, ZenonT(60)
<1> HIDE DEF a
<1>2. Len(data) = Len(a) /\ \A p \in 1..Len(data) : data[p] = a[p]
  BY <1>1
<1>3. data = a
  BY <1>1, <1>2, SeqEqual
<1> QED BY <1>3 DEF a

\* The first j elements are in the new block, the others still in the old one.
SharedParted(m, base, s, j) ==
    [p \in 1..m |-> IF p - base \in 1..j THEN s[p - base] ELSE IF p \in (j + 1)..Len(s) THEN s[p] ELSE SharedRaw]

\* Two blocks, place by place.
LEMMA SharedPartedIs ==
    ASSUME NEW m \in Nat, NEW base \in Nat, NEW s \in Seq(RefLinks), NEW j \in 0..Len(s)
    PROVE  /\ SharedParted(m, base, s, j) \in Seq(SharedSlots) /\ Len(SharedParted(m, base, s, j)) = m
           /\ \A p \in 1..m : SharedParted(m, base, s, j)[p] =
                 IF p - base \in 1..j THEN s[p - base] ELSE IF p \in (j + 1)..Len(s) THEN s[p] ELSE SharedRaw
<1> DEFINE a == SharedParted(m, base, s, j)
<1>1. \A p \in 1..m : a[p] = IF p - base \in 1..j THEN s[p - base] ELSE IF p \in (j + 1)..Len(s) THEN s[p] ELSE SharedRaw
  BY DEF SharedParted
<1>2. \A i \in 1..Len(s) : s[i] \in SharedSlots
  BY DEF SharedSlots
<1>3. \A p \in 1..m : a[p] \in SharedSlots
  BY <1>1, <1>2 DEF SharedSlots
<1>4. a = [p \in 1..m |-> a[p]]
  BY DEF SharedParted
<1> HIDE DEF a
<1>5. a \in [1..m -> SharedSlots]
  BY <1>3, <1>4
<1> QED BY <1>1, <1>5 DEF a

\* The first j elements are moved to the new block.
LEMMA LeadsParted ==
    ASSUME NEW links, NEW m \in Nat, NEW base \in Nat \ {0}, NEW s \in Seq(RefLinks), Len(s) <= base, base + Len(s) <= m,
           NEW j \in 0..Len(s), NEW steps, \A i \in 1..j : steps[i] = SharedMoved(i, base + i)
    PROVE  SharedLeads(links, SharedArray(m, 0, s), SharedUp(1, j, steps), SharedParted(m, base, s, j))
<1> DEFINE D(i) == SharedParted(m, base, s, i)
           datas == [i \in 0..j |-> D(i)]
           data == SharedArray(m, 0, s)
<1>1. ASSUME NEW i \in 0..j
      PROVE  /\ D(i) \in Seq(SharedSlots) /\ Len(D(i)) = m
             /\ \A p \in 1..m : D(i)[p] = IF p - base \in 1..i THEN s[p - base] ELSE IF p \in (i + 1)..Len(s) THEN s[p] ELSE SharedRaw
  <2>1. i \in 0..Len(s)
    OBVIOUS
  <2> QED BY <2>1, SharedPartedIs
<1> HIDE DEF D
<1>2. D(0) = data
  <2> DEFINE z == D(0)
  <2>1. /\ z \in Seq(SharedSlots) /\ Len(z) = m
        /\ \A p \in 1..m : z[p] = IF p - base \in 1..0 THEN s[p - base] ELSE IF p \in (0 + 1)..Len(s) THEN s[p] ELSE SharedRaw
    BY <1>1
  <2> HIDE DEF z
  <2>2. \A p \in 1..m : z[p] = IF p - 0 \in 1..Len(s) THEN s[p - 0] ELSE SharedRaw
    BY <2>1
  <2>3. z = SharedArray(m, 0, s)
    BY <2>1, <2>2, SharedArrayEqual
  <2> QED BY <2>3 DEF z
<1>3. ASSUME NEW i \in 1..j PROVE SharedLeads(links, D(i - 1), SharedMoved(i, base + i), D(i))
  <2> DEFINE from == i
             place == base + i
             a == D(i - 1)
             b == D(i)
  <2>1. i - 1 \in 0..j /\ i \in 0..j
    OBVIOUS
  <2>2. /\ a \in Seq(SharedSlots) /\ Len(a) = m /\ b \in Seq(SharedSlots) /\ Len(b) = m
        /\ \A p \in 1..m : a[p] = IF p - base \in 1..(i - 1) THEN s[p - base] ELSE IF p \in ((i - 1) + 1)..Len(s) THEN s[p] ELSE SharedRaw
        /\ \A p \in 1..m : b[p] = IF p - base \in 1..i THEN s[p - base] ELSE IF p \in (i + 1)..Len(s) THEN s[p] ELSE SharedRaw
    BY <1>1, <2>1
  <2> HIDE DEF a, b
  <2>3. from \in 1..Len(a) /\ place \in 1..Len(a) /\ from # place /\ a[from] = s[i] /\ a[place] = SharedRaw /\ s[i] \in RefLinks
    <3>1. i \in 1..m /\ base + i \in 1..m /\ i - base \notin 1..(i - 1) /\ i \in ((i - 1) + 1)..Len(s)
      OBVIOUS
    <3>2. (base + i) - base \notin 1..(i - 1) /\ base + i \notin ((i - 1) + 1)..Len(s)
      OBVIOUS
    <3> QED BY <2>2, <3>1, <3>2
  <2>4. \A p \in 1..Len(a) : b[p] = IF p = place THEN a[from] ELSE IF p = from THEN SharedRaw ELSE a[p]
    <3> SUFFICES ASSUME NEW p \in 1..m PROVE b[p] = IF p = place THEN s[i] ELSE IF p = from THEN SharedRaw ELSE a[p]
      BY <2>2, <2>3
    <3>1. a[p] = IF p - base \in 1..(i - 1) THEN s[p - base] ELSE IF p \in ((i - 1) + 1)..Len(s) THEN s[p] ELSE SharedRaw
      BY <2>2
    <3>2. b[p] = IF p - base \in 1..i THEN s[p - base] ELSE IF p \in (i + 1)..Len(s) THEN s[p] ELSE SharedRaw
      BY <2>2
    <3>3. CASE p = base + i
      BY <3>2, <3>3
    <3>4. CASE p = i
      BY <3>2, <3>4
    <3>5. CASE p # base + i /\ p # i
      BY <3>1, <3>2, <3>5
    <3> QED BY <3>3, <3>4, <3>5
  <2> HIDE DEF place, from
  <2>5. SharedLeads(links, a, SharedMoved(from, place), b)
    BY <2>2, <2>3, <2>4, LeadsMoved
  <2> QED BY <2>5 DEF a, b, from, place
<1>4. data \in Seq(SharedSlots)
  BY SharedArrayIs
<1>5. datas \in [0..j -> Seq(SharedSlots)] /\ datas[0] = data /\ datas[j] = D(j)
  BY <1>1, <1>2
<1>6. \A i \in 1..j : SharedLeads(links, datas[i - 1], steps[i], datas[i])
  <2> SUFFICES ASSUME NEW i \in 1..j PROVE SharedLeads(links, datas[i - 1], steps[i], datas[i])
    OBVIOUS
  <2>1. datas[i - 1] = D(i - 1) /\ datas[i] = D(i) /\ steps[i] = SharedMoved(i, base + i)
    OBVIOUS
  <2> QED BY <1>3, <2>1
<1> HIDE DEF data, datas
<1>7. SharedLeads(links, data, SharedUp(1, j, steps), D(j))
  <2>1. SharedGoesUp(links, 1, j, steps, datas, data, D(j))
    BY <1>5, <1>6, <1>2 DEF SharedGoesUp
  <2> QED BY <1>4, <2>1, LeadsUp
<1> QED BY <1>7 DEF data, D

\* A block with the first j of the elements s after the first base places.
SharedFirst(m, base, s, j) == [p \in 1..m |-> IF p - base \in 1..j THEN s[p - base] ELSE SharedRaw]

\* The memory of the first j elements, place by place.
LEMMA SharedFirstIs ==
    ASSUME NEW m \in Nat, NEW base \in Nat, NEW s \in Seq(RefLinks), NEW j \in 0..Len(s)
    PROVE  /\ SharedFirst(m, base, s, j) \in Seq(SharedSlots) /\ Len(SharedFirst(m, base, s, j)) = m
           /\ \A p \in 1..m : SharedFirst(m, base, s, j)[p] = IF p - base \in 1..j THEN s[p - base] ELSE SharedRaw
<1> DEFINE a == SharedFirst(m, base, s, j)
<1>1. \A p \in 1..m : a[p] = IF p - base \in 1..j THEN s[p - base] ELSE SharedRaw
  BY DEF SharedFirst
<1>2. a = [p \in 1..m |-> a[p]]
  BY DEF SharedFirst
<1> HIDE DEF a
<1>3. \A i \in 1..j : s[i] \in SharedSlots
  BY DEF SharedSlots
<1>4. \A p \in 1..m : a[p] \in SharedSlots
  BY <1>1, <1>3 DEF SharedSlots
<1>5. a \in [1..m -> SharedSlots]
  BY <1>2, <1>4
<1> QED BY <1>1, <1>5 DEF a

\* It is that of an array of j elements.
LEMMA SharedFirstArray ==
    ASSUME NEW m \in Nat, NEW base \in Nat, NEW s \in Seq(RefLinks), NEW j \in 0..Len(s)
    PROVE  SharedFirst(m, base, s, j) = SharedArray(m, base, SubSeq(s, 1, j))
<1> DEFINE a == SharedFirst(m, base, s, j)
           u == SubSeq(s, 1, j)
<1>1. u \in Seq(RefLinks) /\ Len(u) = j /\ \A i \in 1..j : u[i] = s[i]
  BY SubSeqProperties
<1>2. /\ a \in Seq(SharedSlots) /\ Len(a) = m
      /\ \A p \in 1..m : a[p] = IF p - base \in 1..j THEN s[p - base] ELSE SharedRaw
  BY SharedFirstIs
<1> HIDE DEF a, u
<1>3. \A p \in 1..m : a[p] = IF p - base \in 1..Len(u) THEN u[p - base] ELSE SharedRaw
  BY <1>1, <1>2
<1>4. a = SharedArray(m, base, u)
  BY <1>1, <1>2, <1>3, SharedArrayEqual
<1> QED BY <1>4 DEF a, u

\* One element more.
LEMMA SharedFirstOne ==
    ASSUME NEW m \in Nat, NEW base \in Nat, NEW s \in Seq(RefLinks), base + Len(s) <= m, NEW i \in 1..Len(s)
    PROVE  LET a == SharedFirst(m, base, s, i - 1)
               b == SharedFirst(m, base, s, i)
           IN  /\ a \in Seq(SharedSlots) /\ b \in Seq(SharedSlots) /\ Len(a) = m /\ Len(b) = m /\ base + i \in 1..m
               /\ a[base + i] = SharedRaw /\ b[base + i] = s[i]
               /\ \A p \in 1..m : p # base + i => a[p] = b[p]
<1> DEFINE D(j) == SharedFirst(m, base, s, j)
           a == D(i - 1)
           b == D(i)
<1>1. ASSUME NEW j \in 0..Len(s)
      PROVE  /\ D(j) \in Seq(SharedSlots) /\ Len(D(j)) = m
             /\ \A p \in 1..m : D(j)[p] = IF p - base \in 1..j THEN s[p - base] ELSE SharedRaw
  <2>1. D(j) \in Seq(SharedSlots)
    BY SharedFirstIs
  <2>2. Len(D(j)) = m
    BY SharedFirstIs
  <2>3. \A p \in 1..m : D(j)[p] = IF p - base \in 1..j THEN s[p - base] ELSE SharedRaw
    BY DEF SharedFirst
  <2> QED BY <2>1, <2>2, <2>3
<1> HIDE DEF D
<1>2. /\ a \in Seq(SharedSlots) /\ Len(a) = m
      /\ \A p \in 1..m : a[p] = IF p - base \in 1..(i - 1) THEN s[p - base] ELSE SharedRaw
  <2>1. i - 1 \in 0..Len(s)
    OBVIOUS
  <2> QED BY <1>1, <2>1
<1>3. /\ b \in Seq(SharedSlots) /\ Len(b) = m
      /\ \A p \in 1..m : b[p] = IF p - base \in 1..i THEN s[p - base] ELSE SharedRaw
  <2>1. i \in 0..Len(s)
    OBVIOUS
  <2> QED BY <1>1, <2>1
<1>4. base + i \in 1..m
  OBVIOUS
<1> HIDE DEF a, b
<1>5. a[base + i] = SharedRaw /\ b[base + i] = s[i]
  BY <1>2, <1>3, <1>4
<1>6. ASSUME NEW p \in 1..m, p # base + i PROVE a[p] = b[p]
  <2>1. p - base \in 1..(i - 1) <=> p - base \in 1..i
    BY <1>6
  <2> QED BY <1>2, <1>3, <2>1
<1> QED BY <1>2, <1>3, <1>4, <1>5, <1>6 DEF a, b, D

\* The elements from the one after c on are made, one by one.
LEMMA LeadsMade ==
    ASSUME NEW links \in SUBSET RefLinks, NEW m \in Nat, NEW base \in Nat, NEW s \in Seq(RefLinks), base + Len(s) <= m,
           NEW c \in 0..Len(s), NEW steps, \A i \in (c + 1)..Len(s) : s[i] \in links /\ steps[i] = SharedMake(base + i, s[i])
    PROVE  SharedLeads(links, SharedArray(m, base, SubSeq(s, 1, c)), SharedUp(c + 1, Len(s), steps), SharedArray(m, base, s))
<1> DEFINE D(i) == SharedFirst(m, base, s, i)
           n == Len(s)
           datas == [i \in c..n |-> D(i)]
           data == SharedArray(m, base, SubSeq(s, 1, c))
           left == SharedArray(m, base, s)
<1>1. \A i \in c..n : D(i) \in Seq(SharedSlots)
  <2>1. \A i \in c..n : i \in 0..Len(s)
    OBVIOUS
  <2> QED BY <2>1, SharedFirstIs, Zenon
<1>2. D(c) = data /\ D(n) = left
  <2>1. n \in 0..Len(s) /\ SubSeq(s, 1, n) = s
    BY SubSeqFull
  <2> HIDE DEF n
  <2>2. D(c) = SharedArray(m, base, SubSeq(s, 1, c)) /\ D(n) = SharedArray(m, base, SubSeq(s, 1, n))
    BY <2>1, SharedFirstArray
  <2> QED BY <2>1, <2>2
<1>3. ASSUME NEW i \in (c + 1)..n PROVE SharedLeads(links, D(i - 1), steps[i], D(i))
  <2> DEFINE a == D(i - 1)
             b == D(i)
             place == base + i
             link == s[i]
  <2>1. /\ a \in Seq(SharedSlots) /\ b \in Seq(SharedSlots) /\ Len(a) = m /\ Len(b) = m /\ place \in 1..m
        /\ a[place] = SharedRaw /\ b[place] = link /\ \A p \in 1..m : p # place => a[p] = b[p]
    <3>1. i \in 1..Len(s)
      OBVIOUS
    <3> HIDE DEF n
    <3> QED BY <3>1, SharedFirstOne, ZenonT(60)
  <2>2. link \in links /\ steps[i] = SharedMake(place, link)
    OBVIOUS
  <2> HIDE DEF a, b, place, link
  <2>3. place \in 1..Len(a) /\ Len(b) = Len(a) /\ \A p \in 1..Len(a) : b[p] = IF p = place THEN link ELSE a[p]
    BY <2>1
  <2>4. SharedLeads(links, a, SharedMake(place, link), b)
    BY <2>1, <2>2, <2>3, LeadsMake
  <2> QED BY <2>2, <2>4 DEF a, b
<1> HIDE DEF D
<1>4. SharedGoesUp(links, c + 1, n, steps, datas, data, left)
  <2>1. c \in Nat /\ n \in Nat
    OBVIOUS
  <2>2. CASE n < c + 1
    <3>1. c = n
      BY <2>2
    <3> QED BY <1>2, <2>2, <3>1 DEF SharedGoesUp
  <2>3. CASE ~(n < c + 1)
    <3>1. datas \in [((c + 1) - 1)..n -> Seq(SharedSlots)] /\ datas[(c + 1) - 1] = data /\ datas[n] = left
      BY <1>1, <1>2, <2>3
    <3>2. ASSUME NEW i \in (c + 1)..n PROVE SharedLeads(links, datas[i - 1], steps[i], datas[i])
      <4>1. datas[i - 1] = D(i - 1) /\ datas[i] = D(i)
        OBVIOUS
      <4> QED BY <1>3, <4>1
    <3> QED BY <2>3, <3>1, <3>2 DEF SharedGoesUp
  <2> QED BY <2>2, <2>3
<1>5. data \in Seq(SharedSlots) /\ c + 1 \in Int /\ n \in Int
  BY <1>1, <1>2
<1> HIDE DEF data, left, datas
<1>6. SharedLeads(links, data, SharedUp(c + 1, n, steps), left)
  <2> HIDE DEF n
  <2> QED BY <1>4, <1>5, LeadsUp
<1> QED BY <1>6 DEF data, left

\* The elements after c are destroyed, the last first.
LEMMA LeadsEnded ==
    ASSUME NEW links, NEW m \in Nat, NEW base \in Nat, NEW s \in Seq(RefLinks), base + Len(s) <= m,
           NEW c \in 0..Len(s), NEW steps, \A i \in (c + 1)..Len(s) : steps[i] = SharedEnd(base + i)
    PROVE  SharedLeads(links, SharedArray(m, base, s), SharedDown(c + 1, Len(s), steps), SharedArray(m, base, SubSeq(s, 1, c)))
<1> DEFINE D(i) == SharedFirst(m, base, s, i)
           n == Len(s)
           datas == [i \in (c + 1)..(n + 1) |-> D(i - 1)]
           left == SharedArray(m, base, SubSeq(s, 1, c))
           data == SharedArray(m, base, s)
<1>1. \A i \in c..n : D(i) \in Seq(SharedSlots)
  <2>1. \A i \in c..n : i \in 0..Len(s)
    OBVIOUS
  <2> QED BY <2>1, SharedFirstIs, Zenon
<1>2. D(c) = left /\ D(n) = data
  <2>1. n \in 0..Len(s) /\ SubSeq(s, 1, n) = s
    BY SubSeqFull
  <2> HIDE DEF n
  <2>2. D(c) = SharedArray(m, base, SubSeq(s, 1, c)) /\ D(n) = SharedArray(m, base, SubSeq(s, 1, n))
    BY <2>1, SharedFirstArray
  <2> QED BY <2>1, <2>2
<1>3. ASSUME NEW i \in (c + 1)..n PROVE SharedLeads(links, D(i), steps[i], D(i - 1))
  <2> DEFINE a == D(i - 1)
             b == D(i)
             place == base + i
  <2>1. /\ a \in Seq(SharedSlots) /\ b \in Seq(SharedSlots) /\ Len(a) = m /\ Len(b) = m /\ place \in 1..m
        /\ a[place] = SharedRaw /\ b[place] = s[i] /\ s[i] \in RefLinks /\ \A p \in 1..m : p # place => a[p] = b[p]
    <3>1. i \in 1..Len(s)
      OBVIOUS
    <3> HIDE DEF n
    <3> QED BY <3>1, SharedFirstOne
  <2>2. steps[i] = SharedEnd(place)
    OBVIOUS
  <2> HIDE DEF a, b, place
  <2>3. place \in 1..Len(b) /\ Len(a) = Len(b) /\ b[place] \in RefLinks /\ \A p \in 1..Len(b) : a[p] = IF p = place THEN SharedRaw ELSE b[p]
    BY <2>1
  <2>4. SharedLeads(links, b, SharedEnd(place), a)
    BY <2>1, <2>3, LeadsEnd
  <2> QED BY <2>2, <2>4 DEF a, b
<1> HIDE DEF D
<1>4. SharedGoesDown(links, c + 1, n, steps, datas, data, left)
  <2>1. c \in Nat /\ n \in Nat
    OBVIOUS
  <2>2. CASE n < c + 1
    <3>1. c = n
      BY <2>2
    <3> QED BY <1>2, <2>2, <3>1 DEF SharedGoesDown
  <2>3. CASE ~(n < c + 1)
    <3>1. datas \in [(c + 1)..(n + 1) -> Seq(SharedSlots)] /\ datas[n + 1] = data /\ datas[c + 1] = left
      BY <1>1, <1>2, <2>3
    <3>2. ASSUME NEW i \in (c + 1)..n PROVE SharedLeads(links, datas[i + 1], steps[i], datas[i])
      <4>1. datas[i + 1] = D(i) /\ datas[i] = D(i - 1)
        OBVIOUS
      <4> QED BY <1>3, <4>1
    <3> QED BY <2>3, <3>1, <3>2 DEF SharedGoesDown
  <2> QED BY <2>2, <2>3
<1>5. data \in Seq(SharedSlots) /\ c + 1 \in Int /\ n \in Int
  BY <1>1, <1>2
<1> HIDE DEF data, left, datas
<1>6. SharedLeads(links, data, SharedDown(c + 1, n, steps), left)
  <2> HIDE DEF n
  <2> QED BY <1>4, <1>5, LeadsDown
<1> QED BY <1>6 DEF data, left

\* The block is emptied from the front.
LEMMA LeadsCleared ==
    ASSUME NEW links, NEW m \in Nat, NEW s \in Seq(RefLinks), Len(s) <= m, NEW steps, \A i \in 1..Len(s) : steps[i] = SharedEnd(i)
    PROVE  SharedLeads(links, SharedArray(m, 0, s), SharedUp(1, Len(s), steps), SharedArray(m, 0, <<>>))
<1> DEFINE n == Len(s)
           D(i) == [p \in 1..m |-> IF p \in (i + 1)..n THEN s[p] ELSE SharedRaw]
           datas == [i \in 0..n |-> D(i)]
           data == SharedArray(m, 0, s)
           left == SharedArray(m, 0, <<>>)
<1>0. n \in Nat /\ n <= m /\ \A p \in 1..n : s[p] \in RefLinks
  OBVIOUS
<1> HIDE DEF n
<1>1. ASSUME NEW i \in 0..n
      PROVE  /\ D(i) \in Seq(SharedSlots) /\ Len(D(i)) = m
             /\ \A p \in 1..m : D(i)[p] = IF p \in (i + 1)..n THEN s[p] ELSE SharedRaw
  <2>1. \A p \in 1..m : (IF p \in (i + 1)..n THEN s[p] ELSE SharedRaw) \in SharedSlots
    BY <1>0 DEF SharedSlots
  <2>2. D(i) \in [1..m -> SharedSlots]
    BY <2>1
  <2>3. \A p \in 1..m : D(i)[p] = IF p \in (i + 1)..n THEN s[p] ELSE SharedRaw
    OBVIOUS
  <2> HIDE DEF D
  <2> QED BY <2>2, <2>3
<1> HIDE DEF D
<1>2. D(0) = data
  <2> DEFINE z == D(0)
  <2>1. /\ z \in Seq(SharedSlots) /\ Len(z) = m
        /\ \A p \in 1..m : z[p] = IF p \in (0 + 1)..n THEN s[p] ELSE SharedRaw
    BY <1>0, <1>1
  <2> HIDE DEF z
  <2>2. \A p \in 1..m : z[p] = IF p - 0 \in 1..Len(s) THEN s[p - 0] ELSE SharedRaw
    BY <2>1 DEF n
  <2>3. z = SharedArray(m, 0, s)
    BY <2>1, <2>2, SharedArrayEqual
  <2> QED BY <2>3 DEF z
<1>3. D(n) = left
  <2> DEFINE z == D(n)
             e == <<>>
  <2>1. /\ z \in Seq(SharedSlots) /\ Len(z) = m
        /\ \A p \in 1..m : z[p] = IF p \in (n + 1)..n THEN s[p] ELSE SharedRaw
    BY <1>0, <1>1
  <2>2. e \in Seq(RefLinks) /\ Len(e) = 0
    OBVIOUS
  <2> HIDE DEF z, e
  <2>3. \A p \in 1..m : z[p] = IF p - 0 \in 1..Len(e) THEN e[p - 0] ELSE SharedRaw
    BY <2>1, <2>2, <1>0
  <2>4. z = SharedArray(m, 0, e)
    <3>1. 0 \in Nat /\ m \in Nat /\ z \in Seq(SharedSlots) /\ Len(z) = m /\ e \in Seq(RefLinks)
      BY <2>1, <2>2
    <3> QED BY ONLY <3>1, <2>3, SharedArrayEqual
  <2> QED BY <2>4 DEF z, e
<1>4. ASSUME NEW i \in 1..n PROVE SharedLeads(links, D(i - 1), steps[i], D(i))
  <2> DEFINE a == D(i - 1)
             b == D(i)
  <2>1. i - 1 \in 0..n /\ i \in 0..n
    BY <1>0
  <2>2. /\ a \in Seq(SharedSlots) /\ Len(a) = m /\ b \in Seq(SharedSlots) /\ Len(b) = m
        /\ \A p \in 1..m : a[p] = IF p \in ((i - 1) + 1)..n THEN s[p] ELSE SharedRaw
        /\ \A p \in 1..m : b[p] = IF p \in (i + 1)..n THEN s[p] ELSE SharedRaw
    BY <1>1, <2>1
  <2> HIDE DEF a, b
  <2>3. i \in 1..Len(a) /\ a[i] \in RefLinks /\ Len(b) = Len(a)
    BY <1>0, <2>2
  <2>4. \A p \in 1..Len(a) : b[p] = IF p = i THEN SharedRaw ELSE a[p]
    BY <1>0, <2>2
  <2>5. SharedLeads(links, a, SharedEnd(i), b)
    BY <2>2, <2>3, <2>4, LeadsEnd
  <2>6. steps[i] = SharedEnd(i)
    BY DEF n
  <2> QED BY <2>5, <2>6 DEF a, b
<1>5. SharedGoesUp(links, 1, n, steps, datas, data, left)
  <2>1. CASE n < 1
    <3>1. n = 0
      BY <1>0, <2>1
    <3> QED BY <1>2, <1>3, <2>1, <3>1 DEF SharedGoesUp
  <2>2. CASE ~(n < 1)
    <3>1. datas \in [(1 - 1)..n -> Seq(SharedSlots)] /\ datas[1 - 1] = data /\ datas[n] = left
      BY <1>0, <1>1, <1>2, <1>3
    <3>2. ASSUME NEW i \in 1..n PROVE SharedLeads(links, datas[i - 1], steps[i], datas[i])
      <4>1. datas[i - 1] = D(i - 1) /\ datas[i] = D(i)
        BY <1>0
      <4> QED BY <1>4, <4>1
    <3> HIDE DEF datas
    <3> QED BY <2>2, <3>1, <3>2 DEF SharedGoesUp
  <2> QED BY <2>1, <2>2
<1>6. data \in Seq(SharedSlots)
  BY SharedArrayIs
<1> HIDE DEF data, left, datas
<1>7. SharedLeads(links, data, SharedUp(1, n, steps), left)
  BY <1>0, <1>5, <1>6, LeadsUp
<1> QED BY <1>7 DEF data, left, n

\* The elements are set to others, one by one.
LEMMA LeadsSetAll ==
    ASSUME NEW links \in SUBSET RefLinks, NEW m \in Nat, NEW base \in Nat, NEW s \in Seq(RefLinks), base + Len(s) <= m,
           NEW u \in Seq(links), Len(u) = Len(s), NEW steps, \A i \in 1..Len(s) : steps[i] = SharedSet(base + i, u[i])
    PROVE  SharedLeads(links, SharedArray(m, base, s), SharedUp(1, Len(s), steps), SharedArray(m, base, u))
<1> DEFINE n == Len(s)
           M(i) == [j \in 1..n |-> IF j <= i THEN u[j] ELSE s[j]]
           datas == [i \in 0..n |-> SharedArray(m, base, M(i))]
           data == SharedArray(m, base, s)
           left == SharedArray(m, base, u)
<1>0. n \in Nat /\ base + n <= m /\ (\A p \in 1..n : s[p] \in RefLinks /\ u[p] \in links /\ u[p] \in RefLinks) /\ u \in Seq(RefLinks)
  OBVIOUS
<1>1. ASSUME NEW i \in 0..n
      PROVE  M(i) \in Seq(RefLinks) /\ Len(M(i)) = n /\ \A j \in 1..n : M(i)[j] = IF j <= i THEN u[j] ELSE s[j]
  <2>1. M(i) \in [1..n -> RefLinks]
    BY <1>0
  <2>2. \A j \in 1..n : M(i)[j] = IF j <= i THEN u[j] ELSE s[j]
    OBVIOUS
  <2> HIDE DEF M, n
  <2> QED BY <1>0, <2>1, <2>2
<1>2. M(0) = s
  <2> DEFINE z == M(0)
  <2>1. z \in Seq(RefLinks) /\ Len(z) = Len(s) /\ \A j \in 1..Len(z) : z[j] = s[j]
    BY <1>0
  <2> HIDE DEF z
  <2>2. z = s
    BY <2>1, SeqEqual
  <2> QED BY <2>2 DEF z
<1>3. M(n) = u
  <2> DEFINE z == M(n)
  <2>1. z \in Seq(RefLinks) /\ Len(z) = Len(u) /\ \A j \in 1..Len(z) : z[j] = u[j]
    BY <1>0
  <2> HIDE DEF z
  <2>2. z = u
    BY <1>0, <2>1, SeqEqual
  <2> QED BY <2>2 DEF z
<1> HIDE DEF M
<1>4. ASSUME NEW i \in 1..n PROVE SharedLeads(links, SharedArray(m, base, M(i - 1)), steps[i], SharedArray(m, base, M(i)))
  <2> DEFINE v == M(i - 1)
             w == M(i)
             a == SharedArray(m, base, v)
             b == SharedArray(m, base, w)
             place == base + i
             link == u[i]
  <2>1. i - 1 \in 0..n /\ i \in 0..n
    BY <1>0
  <2>2. /\ v \in Seq(RefLinks) /\ Len(v) = n /\ \A j \in 1..n : v[j] = IF j <= i - 1 THEN u[j] ELSE s[j]
        /\ w \in Seq(RefLinks) /\ Len(w) = n /\ \A j \in 1..n : w[j] = IF j <= i THEN u[j] ELSE s[j]
    BY <1>1, <2>1
  <2> HIDE DEF v, w, n
  <2>3. /\ base + Len(v) <= m /\ Len(w) = Len(v) /\ i \in 1..Len(v) /\ w[i] = u[i]
        /\ \A j \in 1..Len(v) : j # i => w[j] = v[j]
    BY <1>0, <2>2
  <2>4. /\ a \in Seq(SharedSlots) /\ b \in Seq(SharedSlots) /\ Len(a) = m /\ Len(b) = m /\ place \in 1..m
        /\ a[place] = v[i] /\ b[place] = w[i] /\ \A p \in 1..m : p # place => a[p] = b[p]
    <3>1. a \in Seq(SharedSlots) /\ Len(a) = m /\ b \in Seq(SharedSlots) /\ Len(b) = m
      BY <2>2, SharedArrayIs
    <3>2. /\ \A p \in 1..m : a[p] = IF p - base \in 1..Len(v) THEN v[p - base] ELSE SharedRaw
          /\ \A p \in 1..m : b[p] = IF p - base \in 1..Len(w) THEN w[p - base] ELSE SharedRaw
      BY DEF SharedArray
    <3>3. place \in 1..m /\ place - base = i
      BY <1>0, <2>3
    <3> HIDE DEF a, b
    <3>4. a[place] = v[i] /\ b[place] = w[i]
      BY <2>3, <3>2, <3>3
    <3>5. ASSUME NEW p \in 1..m, p # place PROVE a[p] = b[p]
      <4>1. p - base # i /\ p - base \in Int
        BY <3>5
      <4> HIDE DEF place
      <4> QED BY <2>3, <3>2, <4>1
    <3> QED BY <3>1, <3>3, <3>4, <3>5
  <2>5. link \in links /\ steps[i] = SharedSet(place, link) /\ v[i] \in RefLinks
    BY <1>0, <2>2, <2>3 DEF n
  <2> HIDE DEF a, b, place
  <2>6. /\ place \in 1..Len(a) /\ Len(b) = Len(a) /\ a[place] \in RefLinks
        /\ \A p \in 1..Len(a) : b[p] = IF p = place THEN link ELSE a[p]
    BY <2>3, <2>4, <2>5
  <2> HIDE DEF link
  <2>7. SharedLeads(links, a, SharedSet(place, link), b)
    BY <2>4, <2>5, <2>6, LeadsSet
  <2> QED BY <2>5, <2>7 DEF a, b, v, w
<1>5. ASSUME NEW i \in 0..n PROVE SharedArray(m, base, M(i)) \in Seq(SharedSlots)
  BY <1>1, SharedArrayIs
<1>6. SharedGoesUp(links, 1, n, steps, datas, data, left)
  <2>0. n \in Nat
    BY <1>0
  <2> HIDE DEF n
  <2>1. CASE n < 1
    <3>1. n = 0
      BY <2>0, <2>1
    <3> QED BY <1>2, <1>3, <2>1, <3>1 DEF SharedGoesUp
  <2>2. CASE ~(n < 1)
    <3>1. datas \in [(1 - 1)..n -> Seq(SharedSlots)] /\ datas[1 - 1] = data /\ datas[n] = left
      BY <2>0, <1>2, <1>3, <1>5
    <3>2. ASSUME NEW i \in 1..n PROVE SharedLeads(links, datas[i - 1], steps[i], datas[i])
      <4>1. datas[i - 1] = SharedArray(m, base, M(i - 1)) /\ datas[i] = SharedArray(m, base, M(i))
        BY <2>0
      <4> QED BY <1>4, <4>1
    <3> HIDE DEF datas
    <3> QED BY <2>2, <3>1, <3>2 DEF SharedGoesUp
  <2> QED BY <2>1, <2>2
<1>7. data \in Seq(SharedSlots)
  BY SharedArrayIs
<1> HIDE DEF data, left, datas, n
<1>8. SharedLeads(links, data, SharedUp(1, n, steps), left)
  BY <1>0, <1>6, <1>7, LeadsUp
<1> QED BY <1>8 DEF data, left, n

----------------------------------------------------------------------------
\* insert in a new block

\* Two blocks, with the first a of the elements u in the new one and those of s after r in the old one.
SharedTransit(m, base, u, a, s, r) ==
    [p \in 1..m |-> IF p - base \in 1..a THEN u[p - base] ELSE IF p \in (r + 1)..Len(s) THEN s[p] ELSE SharedRaw]

\* Such memory, of the length it has.
LEMMA TransitIs ==
    ASSUME NEW m \in Nat, NEW base \in Nat, NEW u \in Seq(RefLinks), NEW s \in Seq(RefLinks), NEW a \in 0..Len(u), NEW r \in 0..Len(s)
    PROVE  SharedTransit(m, base, u, a, s, r) \in Seq(SharedSlots) /\ Len(SharedTransit(m, base, u, a, s, r)) = m
<1> DEFINE d == SharedTransit(m, base, u, a, s, r)
<1>1. \A p \in 1..m : d[p] = IF p - base \in 1..a THEN u[p - base] ELSE IF p \in (r + 1)..Len(s) THEN s[p] ELSE SharedRaw
  BY DEF SharedTransit
<1>2. d = [p \in 1..m |-> d[p]]
  BY DEF SharedTransit
<1> HIDE DEF d
<1>3. (\A i \in 1..a : u[i] \in SharedSlots) /\ (\A i \in (r + 1)..Len(s) : s[i] \in SharedSlots)
  BY DEF SharedSlots
<1>4. \A p \in 1..m : d[p] \in SharedSlots
  BY <1>1, <1>3 DEF SharedSlots
<1>5. d \in [1..m -> SharedSlots]
  BY <1>2, <1>4
<1> QED BY <1>1, <1>5 DEF d

\* An element is moved to the new block.
LEMMA TransitMoved ==
    ASSUME NEW links, NEW m \in Nat, NEW base \in Nat, NEW u \in Seq(RefLinks), NEW s \in Seq(RefLinks),
           Len(s) <= base, base + Len(u) <= m, NEW a \in 1..Len(u), NEW r \in 1..Len(s), u[a] = s[r]
    PROVE  SharedLeads(links, SharedTransit(m, base, u, a - 1, s, r - 1), SharedMoved(r, base + a), SharedTransit(m, base, u, a, s, r))
<1> DEFINE d == SharedTransit(m, base, u, a - 1, s, r - 1)
           e == SharedTransit(m, base, u, a, s, r)
           to == base + a
<1>1. d \in Seq(SharedSlots) /\ Len(d) = m /\ e \in Seq(SharedSlots) /\ Len(e) = m
  <2>1. a \in 0..Len(u) /\ a - 1 \in 0..Len(u) /\ r \in 0..Len(s) /\ r - 1 \in 0..Len(s)
    OBVIOUS
  <2>2. d \in Seq(SharedSlots) /\ Len(d) = m
    <3> DEFINE a1 == a - 1
               r1 == r - 1
    <3>1. a1 \in 0..Len(u) /\ r1 \in 0..Len(s)
      BY <2>1
    <3> HIDE DEF a1, r1
    <3>2. SharedTransit(m, base, u, a1, s, r1) \in Seq(SharedSlots) /\ Len(SharedTransit(m, base, u, a1, s, r1)) = m
      BY <3>1, TransitIs
    <3> QED BY <3>2 DEF a1, r1
  <2>3. e \in Seq(SharedSlots) /\ Len(e) = m
    <3> DEFINE a1 == a
               r1 == r
    <3>1. a1 \in 0..Len(u) /\ r1 \in 0..Len(s)
      BY <2>1
    <3> HIDE DEF a1, r1
    <3>2. SharedTransit(m, base, u, a1, s, r1) \in Seq(SharedSlots) /\ Len(SharedTransit(m, base, u, a1, s, r1)) = m
      BY <3>1, TransitIs
    <3> QED BY <3>2 DEF a1, r1
  <2> QED BY <2>2, <2>3
<1>2. \A p \in 1..m : d[p] = IF p - base \in 1..(a - 1) THEN u[p - base] ELSE IF p \in r..Len(s) THEN s[p] ELSE SharedRaw
  BY DEF SharedTransit
<1>3. \A p \in 1..m : e[p] = IF p - base \in 1..a THEN u[p - base] ELSE IF p \in (r + 1)..Len(s) THEN s[p] ELSE SharedRaw
  BY DEF SharedTransit
<1> HIDE DEF d, e
<1>4. to \in 1..m /\ to - base = a /\ to > Len(s) /\ r \in 1..m /\ r # to /\ s[r] \in RefLinks
  OBVIOUS
<1>5. d[r] = s[r] /\ d[to] = SharedRaw
  BY <1>2, <1>4
<1>6. ASSUME NEW p \in 1..m PROVE e[p] = IF p = to THEN s[r] ELSE IF p = r THEN SharedRaw ELSE d[p]
  <2>1. CASE p = to
    BY <1>3, <1>4, <2>1
  <2>2. CASE p = r
    BY <1>3, <1>4, <2>2
  <2>3. CASE p # to /\ p # r
    <3>1. (p - base \in 1..a <=> p - base \in 1..(a - 1)) /\ (p \in r..Len(s) <=> p \in (r + 1)..Len(s))
      BY <2>3
    <3> QED BY <1>2, <1>3, <2>3, <3>1
  <2> QED BY <2>1, <2>2, <2>3
<1> HIDE DEF to
<1>7. SharedLeads(links, d, SharedMoved(r, to), e)
  BY <1>1, <1>4, <1>5, <1>6, LeadsMoved
<1> QED BY <1>7 DEF d, e, to

\* An element of the chain is constructed in the new block.
LEMMA TransitMade ==
    ASSUME NEW links \in SUBSET RefLinks, NEW m \in Nat, NEW base \in Nat, NEW u \in Seq(RefLinks), NEW s \in Seq(RefLinks),
           Len(s) <= base, base + Len(u) <= m, NEW a \in 1..Len(u), NEW r \in 0..Len(s), u[a] \in links
    PROVE  SharedLeads(links, SharedTransit(m, base, u, a - 1, s, r), SharedMake(base + a, u[a]), SharedTransit(m, base, u, a, s, r))
<1> DEFINE d == SharedTransit(m, base, u, a - 1, s, r)
           e == SharedTransit(m, base, u, a, s, r)
           to == base + a
           link == u[a]
<1>1. d \in Seq(SharedSlots) /\ Len(d) = m /\ e \in Seq(SharedSlots) /\ Len(e) = m
  <2> DEFINE a0 == a - 1
  <2>1. a0 \in 0..Len(u) /\ a \in 0..Len(u)
    OBVIOUS
  <2>2. e \in Seq(SharedSlots) /\ Len(e) = m
    BY <2>1, TransitIs
  <2> HIDE DEF a0
  <2>3. SharedTransit(m, base, u, a0, s, r) \in Seq(SharedSlots) /\ Len(SharedTransit(m, base, u, a0, s, r)) = m
    BY <2>1, TransitIs
  <2> QED BY <2>2, <2>3 DEF a0
<1>2. \A p \in 1..m : d[p] = IF p - base \in 1..(a - 1) THEN u[p - base] ELSE IF p \in (r + 1)..Len(s) THEN s[p] ELSE SharedRaw
  BY DEF SharedTransit
<1>3. \A p \in 1..m : e[p] = IF p - base \in 1..a THEN u[p - base] ELSE IF p \in (r + 1)..Len(s) THEN s[p] ELSE SharedRaw
  BY DEF SharedTransit
<1> HIDE DEF d, e
<1>4. to \in 1..m /\ to - base = a /\ to > Len(s)
  OBVIOUS
<1>5. d[to] = SharedRaw
  BY <1>2, <1>4
<1>6. ASSUME NEW p \in 1..m PROVE e[p] = IF p = to THEN link ELSE d[p]
  <2>1. CASE p = to
    BY <1>3, <1>4, <2>1
  <2>3. CASE p # to
    <3>1. p - base \in 1..a <=> p - base \in 1..(a - 1)
      BY <2>3
    <3> QED BY <1>2, <1>3, <2>3, <3>1
  <2> QED BY <2>1, <2>3
<1> HIDE DEF to, link
<1>7. SharedLeads(links, d, SharedMake(to, link), e)
  BY <1>1, <1>4, <1>5, <1>6, LeadsMake DEF link
<1> QED BY <1>7 DEF d, e, to, link

\* Elements of the old block move to the new one, those from first to last.
LEMMA LeadsTransit ==
    ASSUME NEW links, NEW m \in Nat, NEW base \in Nat, NEW u \in Seq(RefLinks), NEW s \in Seq(RefLinks),
           Len(s) <= base, base + Len(u) <= m, NEW d \in Nat, NEW first \in Nat, first >= 1, NEW last \in Nat, last >= first - 1,
           last <= Len(s), last + d <= Len(u),
           NEW steps, \A i \in first..last : u[i + d] = s[i] /\ steps[i] = SharedMoved(i, base + (i + d))
    PROVE  SharedLeads(links, SharedTransit(m, base, u, first - 1 + d, s, first - 1), SharedUp(first, last, steps),
                       SharedTransit(m, base, u, last + d, s, last))
<1> DEFINE D(i) == SharedTransit(m, base, u, i + d, s, i)
           datas == [i \in (first - 1)..last |-> D(i)]
           data == D(first - 1)
           left == D(last)
<1>1. ASSUME NEW i \in (first - 1)..last PROVE D(i) \in Seq(SharedSlots)
  <2>1. i + d \in 0..Len(u) /\ i \in 0..Len(s)
    OBVIOUS
  <2> QED BY <2>1, TransitIs
<1>2. ASSUME NEW i \in first..last PROVE SharedLeads(links, D(i - 1), steps[i], D(i))
  <2> DEFINE a == i + d
  <2>1. a \in 1..Len(u) /\ i \in 1..Len(s) /\ u[a] = s[i] /\ (i - 1) + d = a - 1
    <3>1. Len(u) \in Nat /\ Len(s) \in Nat
      OBVIOUS
    <3>2. i \in Nat /\ 1 <= i /\ i <= last
      OBVIOUS
    <3>3. a \in 1..Len(u) /\ i \in 1..Len(s) /\ (i - 1) + d = a - 1
      BY <3>1, <3>2
    <3>4. u[a] = s[i]
      OBVIOUS
    <3> QED BY <3>3, <3>4
  <2>2. steps[i] = SharedMoved(i, base + a)
    OBVIOUS
  <2> HIDE DEF a
  <2>3. SharedLeads(links, SharedTransit(m, base, u, a - 1, s, i - 1), SharedMoved(i, base + a), SharedTransit(m, base, u, a, s, i))
    BY <2>1, TransitMoved
  <2> QED BY <2>1, <2>2, <2>3 DEF a
<1>3. data \in Seq(SharedSlots)
  <2>1. first - 1 \in (first - 1)..last
    OBVIOUS
  <2> HIDE DEF D
  <2> QED BY <1>1, <2>1
<1> HIDE DEF D
<1>4. SharedGoesUp(links, first, last, steps, datas, data, left)
  <2>1. CASE last < first
    <3>1. last = first - 1
      BY <2>1
    <3> QED BY <2>1, <3>1 DEF SharedGoesUp
  <2>2. CASE ~(last < first)
    <3>1. datas \in [(first - 1)..last -> Seq(SharedSlots)] /\ datas[first - 1] = data /\ datas[last] = left
      BY <1>1, <2>2
    <3>2. ASSUME NEW i \in first..last PROVE SharedLeads(links, datas[i - 1], steps[i], datas[i])
      <4>1. datas[i - 1] = D(i - 1) /\ datas[i] = D(i)
        OBVIOUS
      <4> QED BY <1>2, <4>1
    <3> HIDE DEF datas, data, left
    <3> QED BY <2>2, <3>1, <3>2 DEF SharedGoesUp
  <2> QED BY <2>1, <2>2
<1> HIDE DEF data, left, datas
<1>5. SharedLeads(links, data, SharedUp(first, last, steps), left)
  BY <1>3, <1>4, LeadsUp
<1> QED BY <1>5 DEF data, left, D

\* The elements of u after k are made in the new block.
LEMMA LeadsTransitMade ==
    ASSUME NEW links \in SUBSET RefLinks, NEW m \in Nat, NEW base \in Nat, NEW u \in Seq(RefLinks), NEW s \in Seq(RefLinks),
           Len(s) <= base, base + Len(u) <= m, NEW k \in Nat, NEW c \in Nat, k + c <= Len(u), NEW r \in 0..Len(s),
           NEW steps, \A i \in 1..c : u[k + i] \in links /\ steps[i] = SharedMake(base + (k + i), u[k + i])
    PROVE  SharedLeads(links, SharedTransit(m, base, u, k, s, r), SharedUp(1, c, steps), SharedTransit(m, base, u, k + c, s, r))
<1> DEFINE D(i) == SharedTransit(m, base, u, k + i, s, r)
           datas == [i \in 0..c |-> D(i)]
           data == D(0)
           left == D(c)
<1>1. ASSUME NEW i \in 0..c PROVE D(i) \in Seq(SharedSlots)
  <2>1. k + i \in 0..Len(u)
    OBVIOUS
  <2> QED BY <2>1, TransitIs
<1>2. ASSUME NEW i \in 1..c PROVE SharedLeads(links, D(i - 1), steps[i], D(i))
  <2> DEFINE a == k + i
  <2>1. a \in 1..Len(u) /\ k + (i - 1) = a - 1
    OBVIOUS
  <2>2. u[a] \in links /\ steps[i] = SharedMake(base + a, u[a])
    OBVIOUS
  <2> HIDE DEF a
  <2>3. SharedLeads(links, SharedTransit(m, base, u, a - 1, s, r), SharedMake(base + a, u[a]), SharedTransit(m, base, u, a, s, r))
    BY <2>1, <2>2, TransitMade
  <2> QED BY <2>1, <2>2, <2>3 DEF a
<1>3. data \in Seq(SharedSlots)
  <2>1. 0 \in 0..c
    OBVIOUS
  <2> HIDE DEF D
  <2> QED BY <1>1, <2>1
<1> HIDE DEF D
<1>4. SharedGoesUp(links, 1, c, steps, datas, data, left)
  <2>1. CASE c < 1
    <3>1. c = 0
      BY <2>1
    <3> QED BY <2>1, <3>1 DEF SharedGoesUp
  <2>2. CASE ~(c < 1)
    <3>1. datas \in [(1 - 1)..c -> Seq(SharedSlots)] /\ datas[1 - 1] = data /\ datas[c] = left
      BY <1>1, <2>2
    <3>2. ASSUME NEW i \in 1..c PROVE SharedLeads(links, datas[i - 1], steps[i], datas[i])
      <4>1. datas[i - 1] = D(i - 1) /\ datas[i] = D(i)
        OBVIOUS
      <4> QED BY <1>2, <4>1
    <3> HIDE DEF datas, data, left
    <3> QED BY <2>2, <3>1, <3>2 DEF SharedGoesUp
  <2> QED BY <2>1, <2>2
<1> HIDE DEF data, left, datas
<1>5. SharedLeads(links, data, SharedUp(1, c, steps), left)
  BY <1>3, <1>4, LeadsUp
<1>6. data = SharedTransit(m, base, u, k, s, r)
  BY DEF data, D
<1> QED BY <1>5, <1>6 DEF left, D

----------------------------------------------------------------------------
\* insert in place

\* A block with the elements u from b on at their places, and the first a of v.
SharedSpread(m, u, b, v, a) == [p \in 1..m |-> IF p \in b..Len(u) THEN u[p] ELSE IF p \in 1..a THEN v[p] ELSE SharedRaw]

\* Such memory, of the length it has.
LEMMA SpreadIs ==
    ASSUME NEW m \in Nat, NEW u \in Seq(RefLinks), NEW b \in Nat, b >= 1, NEW v \in Seq(RefLinks), NEW a \in 0..Len(v)
    PROVE  SharedSpread(m, u, b, v, a) \in Seq(SharedSlots) /\ Len(SharedSpread(m, u, b, v, a)) = m
<1> DEFINE d == SharedSpread(m, u, b, v, a)
<1>1. \A p \in 1..m : d[p] = IF p \in b..Len(u) THEN u[p] ELSE IF p \in 1..a THEN v[p] ELSE SharedRaw
  BY DEF SharedSpread
<1>2. d = [p \in 1..m |-> d[p]]
  BY DEF SharedSpread
<1> HIDE DEF d
<1>3. (\A i \in b..Len(u) : u[i] \in SharedSlots) /\ (\A i \in 1..a : v[i] \in SharedSlots)
  BY DEF SharedSlots
<1>4. \A p \in 1..m : d[p] \in SharedSlots
  BY <1>1, <1>3 DEF SharedSlots
<1>5. d \in [1..m -> SharedSlots]
  BY <1>2, <1>4
<1> QED BY <1>5 DEF d

\* An element is moved up, over the gap.
LEMMA SpreadMoved ==
    ASSUME NEW links, NEW m \in Nat, NEW u \in Seq(RefLinks), NEW s \in Seq(RefLinks), Len(u) <= m,
           NEW b \in 1..Len(u), NEW a \in 1..Len(s), a < b, u[b] = s[a]
    PROVE  SharedLeads(links, SharedSpread(m, u, b + 1, s, a), SharedMoved(a, b), SharedSpread(m, u, b, s, a - 1))
<1> DEFINE d == SharedSpread(m, u, b + 1, s, a)
           e == SharedSpread(m, u, b, s, a - 1)
<1>1. d \in Seq(SharedSlots) /\ Len(d) = m /\ e \in Seq(SharedSlots) /\ Len(e) = m
  <2>1. /\ a \in 0..Len(s) /\ a - 1 \in 0..Len(s) /\ b \in Nat /\ b >= 1 /\ b + 1 \in Nat /\ b + 1 >= 1
    OBVIOUS
  <2>2. ASSUME NEW x \in Nat, x >= 1, NEW y \in 0..Len(s)
        PROVE  SharedSpread(m, u, x, s, y) \in Seq(SharedSlots) /\ Len(SharedSpread(m, u, x, s, y)) = m
    BY <2>2, SpreadIs
  <2> QED BY <2>1, <2>2
<1>2. \A p \in 1..m : d[p] = IF p \in (b + 1)..Len(u) THEN u[p] ELSE IF p \in 1..a THEN s[p] ELSE SharedRaw
  BY DEF SharedSpread
<1>3. \A p \in 1..m : e[p] = IF p \in b..Len(u) THEN u[p] ELSE IF p \in 1..(a - 1) THEN s[p] ELSE SharedRaw
  BY DEF SharedSpread
<1> HIDE DEF d, e
<1>4. a \in 1..m /\ b \in 1..m /\ a # b /\ s[a] \in RefLinks
  OBVIOUS
<1>5. d[a] = s[a] /\ d[b] = SharedRaw
  BY <1>2, <1>4
<1>6. ASSUME NEW p \in 1..m PROVE e[p] = IF p = b THEN s[a] ELSE IF p = a THEN SharedRaw ELSE d[p]
  <2>1. CASE p = b
    BY <1>3, <1>4, <2>1
  <2>2. CASE p = a
    BY <1>3, <1>4, <2>2
  <2>3. CASE p # b /\ p # a
    <3>1. (p \in b..Len(u) <=> p \in (b + 1)..Len(u)) /\ (p \in 1..a <=> p \in 1..(a - 1))
      BY <2>3
    <3> QED BY <1>2, <1>3, <2>3, <3>1
  <2> QED BY <2>1, <2>2, <2>3
<1>7. SharedLeads(links, d, SharedMoved(a, b), e)
  BY <1>1, <1>4, <1>5, <1>6, LeadsMoved
<1> QED BY <1>7 DEF d, e

\* An element of the chain is constructed in the gap.
LEMMA SpreadMade ==
    ASSUME NEW links \in SUBSET RefLinks, NEW m \in Nat, NEW u \in Seq(RefLinks), Len(u) <= m,
           NEW b \in Nat, b >= 1, NEW a \in 1..Len(u), a < b, u[a] \in links
    PROVE  SharedLeads(links, SharedSpread(m, u, b, u, a - 1), SharedMake(a, u[a]), SharedSpread(m, u, b, u, a))
<1> DEFINE d == SharedSpread(m, u, b, u, a - 1)
           e == SharedSpread(m, u, b, u, a)
           link == u[a]
<1>1. d \in Seq(SharedSlots) /\ Len(d) = m /\ e \in Seq(SharedSlots) /\ Len(e) = m
  <2>1. a \in 0..Len(u) /\ a - 1 \in 0..Len(u)
    OBVIOUS
  <2>2. ASSUME NEW y \in 0..Len(u)
        PROVE  SharedSpread(m, u, b, u, y) \in Seq(SharedSlots) /\ Len(SharedSpread(m, u, b, u, y)) = m
    BY SpreadIs
  <2> QED BY <2>1, <2>2
<1>2. \A p \in 1..m : d[p] = IF p \in b..Len(u) THEN u[p] ELSE IF p \in 1..(a - 1) THEN u[p] ELSE SharedRaw
  BY DEF SharedSpread
<1>3. \A p \in 1..m : e[p] = IF p \in b..Len(u) THEN u[p] ELSE IF p \in 1..a THEN u[p] ELSE SharedRaw
  BY DEF SharedSpread
<1> HIDE DEF d, e
<1>5. a \in 1..m /\ d[a] = SharedRaw
  BY <1>2
<1>6. ASSUME NEW p \in 1..m PROVE e[p] = IF p = a THEN link ELSE d[p]
  <2>1. CASE p = a
    BY <1>3, <2>1
  <2>3. CASE p # a
    <3>1. p \in 1..a <=> p \in 1..(a - 1)
      BY <2>3
    <3> QED BY <1>2, <1>3, <2>3, <3>1
  <2> QED BY <2>1, <2>3
<1> HIDE DEF link
<1>7. SharedLeads(links, d, SharedMake(a, link), e)
  BY <1>1, <1>5, <1>6, LeadsMake DEF link
<1> QED BY <1>7 DEF d, e, link

\* The elements from k on move len places up, the last one first.
LEMMA LeadsSpread ==
    ASSUME NEW links, NEW m \in Nat, NEW u \in Seq(RefLinks), NEW s \in Seq(RefLinks), Len(u) <= m,
           NEW len \in Nat, len >= 1, Len(u) = Len(s) + len, NEW k \in 1..(Len(s) + 1),
           NEW steps, \A i \in k..Len(s) : u[i + len] = s[i] /\ steps[i] = SharedMoved(i, i + len)
    PROVE  SharedLeads(links, SharedSpread(m, u, Len(s) + len + 1, s, Len(s)), SharedDown(k, Len(s), steps),
                       SharedSpread(m, u, k + len, s, k - 1))
<1> DEFINE n == Len(s)
           D(i) == SharedSpread(m, u, i + len, s, i - 1)
           datas == [i \in k..(n + 1) |-> D(i)]
           data == D(n + 1)
           left == D(k)
<1>0. n \in Nat
  OBVIOUS
<1>1. ASSUME NEW i \in k..(n + 1) PROVE D(i) \in Seq(SharedSlots)
  <2>1. i + len \in Nat /\ i + len >= 1 /\ i - 1 \in 0..Len(s)
    OBVIOUS
  <2>2. ASSUME NEW x \in Nat, x >= 1, NEW y \in 0..Len(s) PROVE SharedSpread(m, u, x, s, y) \in Seq(SharedSlots)
    BY <2>2, SpreadIs
  <2> QED BY <2>1, <2>2
<1>2. ASSUME NEW i \in k..n PROVE SharedLeads(links, D(i + 1), steps[i], D(i))
  <2> DEFINE b == i + len
  <2>1. b \in 1..Len(u) /\ i \in 1..Len(s) /\ i < b /\ u[b] = s[i] /\ (i + 1) + len = b + 1 /\ (i + 1) - 1 = i
    OBVIOUS
  <2>2. steps[i] = SharedMoved(i, b)
    OBVIOUS
  <2> HIDE DEF b
  <2>3. SharedLeads(links, SharedSpread(m, u, b + 1, s, i), SharedMoved(i, b), SharedSpread(m, u, b, s, i - 1))
    BY <2>1, SpreadMoved
  <2>4. D(i + 1) = SharedSpread(m, u, b + 1, s, i)
    BY <2>1
  <2> QED BY <2>2, <2>3, <2>4 DEF b
<1>3. data \in Seq(SharedSlots)
  <2>1. n + 1 \in k..(n + 1)
    OBVIOUS
  <2> HIDE DEF D
  <2> QED BY <1>1, <2>1
<1>6. data = SharedSpread(m, u, Len(s) + len + 1, s, Len(s))
  <2>1. (n + 1) + len = Len(s) + len + 1 /\ (n + 1) - 1 = Len(s)
    OBVIOUS
  <2> QED BY <2>1
<1> HIDE DEF D, n
<1>4. SharedGoesDown(links, k, n, steps, datas, data, left)
  <2>1. CASE n < k
    <3>1. k = n + 1
      BY <2>1, <1>0 DEF n
    <3> QED BY <2>1, <3>1 DEF SharedGoesDown
  <2>2. CASE ~(n < k)
    <3>1. datas \in [k..(n + 1) -> Seq(SharedSlots)] /\ datas[n + 1] = data /\ datas[k] = left
      BY <1>0, <1>1, <2>2
    <3>2. ASSUME NEW i \in k..n PROVE SharedLeads(links, datas[i + 1], steps[i], datas[i])
      <4>1. datas[i + 1] = D(i + 1) /\ datas[i] = D(i)
        BY <1>0
      <4> QED BY <1>2, <4>1
    <3> HIDE DEF datas, data, left
    <3> QED BY <2>2, <3>1, <3>2 DEF SharedGoesDown
  <2> QED BY <2>1, <2>2
<1> HIDE DEF data, left, datas
<1>5. SharedLeads(links, data, SharedDown(k, n, steps), left)
  BY <1>0, <1>3, <1>4, LeadsDown
<1> QED BY <1>5, <1>6 DEF left, D, n

\* The elements of u between are made.
LEMMA LeadsSpreadMade ==
    ASSUME NEW links \in SUBSET RefLinks, NEW m \in Nat, NEW u \in Seq(RefLinks), Len(u) <= m,
           NEW k \in Nat, NEW c \in Nat, k + c <= Len(u), NEW b \in Nat, b = k + c + 1,
           NEW steps, \A i \in 1..c : u[k + i] \in links /\ steps[i] = SharedMake(k + i, u[k + i])
    PROVE  SharedLeads(links, SharedSpread(m, u, b, u, k), SharedUp(1, c, steps), SharedSpread(m, u, b, u, k + c))
<1> DEFINE D(i) == SharedSpread(m, u, b, u, k + i)
           datas == [i \in 0..c |-> D(i)]
           data == D(0)
           left == D(c)
<1>1. ASSUME NEW i \in 0..c PROVE D(i) \in Seq(SharedSlots)
  <2>1. k + i \in 0..Len(u) /\ b >= 1
    OBVIOUS
  <2>2. ASSUME NEW y \in 0..Len(u) PROVE SharedSpread(m, u, b, u, y) \in Seq(SharedSlots)
    BY <2>1, SpreadIs
  <2> QED BY <2>1, <2>2
<1>2. ASSUME NEW i \in 1..c PROVE SharedLeads(links, D(i - 1), steps[i], D(i))
  <2> DEFINE a == k + i
  <2>1. a \in 1..Len(u) /\ a < b /\ b >= 1 /\ k + (i - 1) = a - 1
    OBVIOUS
  <2>2. u[a] \in links /\ steps[i] = SharedMake(a, u[a])
    OBVIOUS
  <2> HIDE DEF a
  <2>3. SharedLeads(links, SharedSpread(m, u, b, u, a - 1), SharedMake(a, u[a]), SharedSpread(m, u, b, u, a))
    BY <2>1, <2>2, SpreadMade
  <2> QED BY <2>1, <2>2, <2>3 DEF a
<1>3. data \in Seq(SharedSlots)
  <2>1. 0 \in 0..c
    OBVIOUS
  <2> HIDE DEF D
  <2> QED BY <1>1, <2>1
<1> HIDE DEF D
<1>4. SharedGoesUp(links, 1, c, steps, datas, data, left)
  <2>1. CASE c < 1
    <3>1. c = 0
      BY <2>1
    <3> QED BY <2>1, <3>1 DEF SharedGoesUp
  <2>2. CASE ~(c < 1)
    <3>1. datas \in [(1 - 1)..c -> Seq(SharedSlots)] /\ datas[1 - 1] = data /\ datas[c] = left
      BY <1>1, <2>2
    <3>2. ASSUME NEW i \in 1..c PROVE SharedLeads(links, datas[i - 1], steps[i], datas[i])
      <4>1. datas[i - 1] = D(i - 1) /\ datas[i] = D(i)
        OBVIOUS
      <4> QED BY <1>2, <4>1
    <3> HIDE DEF datas, data, left
    <3> QED BY <2>2, <3>1, <3>2 DEF SharedGoesUp
  <2> QED BY <2>1, <2>2
<1> HIDE DEF data, left, datas
<1>5. SharedLeads(links, data, SharedUp(1, c, steps), left)
  BY <1>3, <1>4, LeadsUp
<1>6. data = SharedSpread(m, u, b, u, k)
  BY DEF data, D
<1> QED BY <1>5, <1>6 DEF left, D

\* The elements with a chain among them.
SharedWith(s, k, chain) == SubSeq(s, 1, k - 1) \o chain \o SubSeq(s, k, Len(s))

\* Those before the place, the chain, those after.
LEMMA SharedWithIs ==
    ASSUME NEW s \in Seq(RefLinks), NEW k \in 1..(Len(s) + 1), NEW chain \in Seq(RefLinks)
    PROVE  /\ SharedWith(s, k, chain) \in Seq(RefLinks)
           /\ Len(SharedWith(s, k, chain)) = Len(s) + Len(chain)
           /\ \A i \in 1..(k - 1) : SharedWith(s, k, chain)[i] = s[i]
           /\ \A i \in 1..Len(chain) : SharedWith(s, k, chain)[(k - 1) + i] = chain[i]
           /\ \A i \in k..Len(s) : SharedWith(s, k, chain)[i + Len(chain)] = s[i]
<1> DEFINE a == SubSeq(s, 1, k - 1)
           b == SubSeq(s, k, Len(s))
           ac == a \o chain
           u == ac \o b
           L == Len(chain)
<1>1. a \in Seq(RefLinks) /\ Len(a) = k - 1 /\ \A i \in 1..(k - 1) : a[i] = s[i]
  BY SubSeqProperties
<1>2. b \in Seq(RefLinks) /\ Len(b) = Len(s) - k + 1 /\ \A i \in 1..(Len(s) - k + 1) : b[i] = s[k + i - 1]
  BY SubSeqProperties
<1> HIDE DEF a, b
<1>3. ac \in Seq(RefLinks) /\ Len(ac) = (k - 1) + L
  BY <1>1, ConcatProperties
<1>4. \A i \in 1..(k - 1) : ac[i] = s[i]
  BY <1>1, ConcatProperties
<1>5. ASSUME NEW i \in 1..L PROVE ac[(k - 1) + i] = chain[i]
  <2>1. (k - 1) + i \in 1..(Len(a) + Len(chain)) /\ (k - 1) + i > Len(a) /\ ((k - 1) + i) - Len(a) = i
    <3>1. Len(chain) \in Nat /\ i \in 1..Len(chain) /\ Len(a) = k - 1 /\ k \in Nat /\ k >= 1
      <4>1. Len(s) \in Nat
        OBVIOUS
      <4> QED BY <1>1, <4>1
    <3> QED BY <3>1
  <2>2. (a \o chain)[(k - 1) + i] = chain[((k - 1) + i) - Len(a)]
    <3> DEFINE x == (k - 1) + i
    <3>1. x \in 1..(Len(a) + Len(chain)) /\ ~(x <= Len(a)) /\ chain \in Seq(RefLinks) /\ a \in Seq(RefLinks)
      BY <2>1, <1>1
    <3> HIDE DEF x
    <3>2. (a \o chain)[x] = chain[x - Len(a)]
      BY <3>1, ConcatProperties
    <3> QED BY <3>2 DEF x
  <2> QED BY <2>1, <2>2
<1> HIDE DEF ac
<1>6. u \in Seq(RefLinks) /\ Len(u) = Len(s) + L
  BY <1>2, <1>3, ConcatProperties
<1>7. \A i \in 1..((k - 1) + L) : u[i] = ac[i]
  BY <1>2, <1>3, ConcatProperties
<1>8. ASSUME NEW i \in k..Len(s) PROVE u[i + L] = s[i]
  <2> DEFINE j == i - k + 1
  <2>1. i + L \in 1..(Len(ac) + Len(b)) /\ i + L > Len(ac) /\ (i + L) - Len(ac) = j /\ j \in 1..(Len(s) - k + 1) /\ k + j - 1 = i
    BY <1>2, <1>3
  <2>2. u[i + L] = b[j]
    BY <1>2, <1>3, <2>1, ConcatProperties, SMTT(20)
  <2> QED BY <1>2, <2>1, <2>2
<1>9. u = SharedWith(s, k, chain)
  BY DEF SharedWith, ac, a, b
<1> HIDE DEF u
<1>10. \A i \in 1..(k - 1) : u[i] = s[i]
  BY <1>4, <1>7
<1>11. ASSUME NEW i \in 1..L PROVE u[(k - 1) + i] = chain[i]
  <2>1. (k - 1) + i \in 1..((k - 1) + L)
    OBVIOUS
  <2> QED BY <1>5, <1>7, <2>1
<1> QED BY <1>6, <1>8, <1>9, <1>10, <1>11

\* insert, in place or in a new block, leaves the chain among the elements.
LEMMA LeadsInserted ==
    ASSUME NEW links \in SUBSET RefLinks, NEW m \in Nat, NEW base \in Nat, NEW s \in Seq(RefLinks), sharedCount = Len(s),
           NEW k \in 1..(Len(s) + 1), NEW chain \in Seq(links), chain # <<>>,
           base + Len(s) + Len(chain) <= m, base = 0 \/ Len(s) <= base
    PROVE  SharedLeads(links, SharedArray(m, 0, s), SharedInserted(k, chain, base), SharedArray(m, base, SharedWith(s, k, chain)))
<1> DEFINE n == Len(s)
           L == Len(chain)
           u == SharedWith(s, k, chain)
           up == [i \in 1..n |-> SharedMoved(i, base + i + L)]
           move == [i \in 1..n |-> SharedMoved(i, base + i)]
           made == [i \in DOMAIN chain |-> SharedMake(base + k + i - 1, chain[i])]
           data == SharedArray(m, 0, s)
           left == SharedArray(m, base, u)
           c == k - 1
<1>0. n \in Nat /\ L \in Nat /\ L >= 1 /\ chain \in Seq(RefLinks) /\ c \in 0..n
  <2>1. chain # <<>> => Len(chain) # 0
    BY EmptySeq
  <2> QED BY <2>1
<1>1. /\ u \in Seq(RefLinks) /\ Len(u) = n + L
      /\ \A i \in 1..c : u[i] = s[i]
      /\ \A i \in 1..L : u[c + i] = chain[i]
      /\ \A i \in k..n : u[i + L] = s[i]
  BY <1>0, SharedWithIs
<1> HIDE DEF u
<1>2. ASSUME NEW i \in 1..L PROVE u[c + i] \in links
  <2>1. u[c + i] = chain[i]
    BY <1>1
  <2>2. chain[i] \in links
    OBVIOUS
  <2> QED BY <2>1, <2>2
<1>3. \A i \in 1..L : made[i] = SharedMake(base + (c + i), u[c + i])
  <2> TAKE i \in 1..L
  <2>1. made[i] = SharedMake(base + k + i - 1, chain[i])
    OBVIOUS
  <2>2. base + k + i - 1 = base + (c + i)
    OBVIOUS
  <2> QED BY <1>1, <2>1, <2>2
<1>4. ASSUME base = 0 PROVE SharedLeads(links, data, SharedDown(k, n, up) \o SharedUp(1, L, made), left)
  <2>1. \A i \in k..n : u[i + L] = s[i] /\ up[i] = SharedMoved(i, i + L)
    BY <1>0, <1>1, <1>4
  <2>2. \A i \in 1..L : u[c + i] \in links /\ made[i] = SharedMake(c + i, u[c + i])
    <3> TAKE i \in 1..L
    <3>1. base + (c + i) = c + i
      BY <1>4
    <3> QED BY <1>2, <1>3, <3>1
  <2> HIDE DEF up, made
  <2>3. Len(u) <= m /\ Len(u) = Len(s) + L /\ k \in 1..(Len(s) + 1) /\ L >= 1 /\ L \in Nat /\ u \in Seq(RefLinks)
    BY <1>0, <1>1, <1>4
  <2> HIDE DEF L
  <2>4. SharedLeads(links, SharedSpread(m, u, Len(s) + L + 1, s, Len(s)), SharedDown(k, Len(s), up), SharedSpread(m, u, k + L, s, k - 1))
    BY <2>1, <2>3, LeadsSpread
  <2>5. SharedLeads(links, SharedSpread(m, u, k + L, u, c), SharedUp(1, L, made), SharedSpread(m, u, k + L, u, c + L))
    <3>1. c \in Nat /\ c + L <= Len(u) /\ k + L \in Nat /\ k + L = c + L + 1
      BY <2>3
    <3> HIDE DEF c
    <3> QED BY <2>2, <2>3, <3>1, LeadsSpreadMade
  <2>6. SharedSpread(m, u, k + L, s, k - 1) = SharedSpread(m, u, k + L, u, c)
    BY <1>1 DEF SharedSpread
  <2>7. SharedSpread(m, u, Len(s) + L + 1, s, Len(s)) = data
    <3>1. \A p : p \notin (Len(s) + L + 1)..Len(u)
      BY <2>3
    <3>2. \A p \in 1..m : p - 0 = p
      OBVIOUS
    <3> QED BY <3>1, <3>2 DEF SharedSpread, SharedArray
  <2>8. SharedSpread(m, u, k + L, u, c + L) = left
    <3>1. \A p \in 1..m : p - base = p
      BY <1>4
    <3>2. \A p \in 1..m : (p \in 1..Len(u)) <=> (p \in (k + L)..Len(u) \/ p \in 1..(c + L))
      BY <2>3
    <3> HIDE DEF c
    <3> QED BY <3>1, <3>2 DEF SharedSpread, SharedArray
  <2> QED BY <2>4, <2>5, <2>6, <2>7, <2>8, LeadsThen
<1>5. ASSUME base # 0
      PROVE  SharedLeads(links, data, SharedUp(1, c, move) \o SharedUp(1, L, made) \o SharedUp(k, n, up), left)
  <2>1. \A i \in k..n : u[i + L] = s[i] /\ up[i] = SharedMoved(i, base + (i + L))
    BY <1>0, <1>1
  <2>2. \A i \in 1..L : u[c + i] \in links /\ made[i] = SharedMake(base + (c + i), u[c + i])
    BY <1>2, <1>3
  <2>3. \A i \in 1..c : u[i + 0] = s[i] /\ move[i] = SharedMoved(i, base + (i + 0))
    BY <1>0, <1>1
  <2> HIDE DEF up, made, move
  <2>4. /\ Len(s) <= base /\ base + Len(u) <= m /\ Len(u) = Len(s) + L /\ k \in 1..(Len(s) + 1) /\ L >= 1 /\ L \in Nat
        /\ u \in Seq(RefLinks) /\ c \in 0..Len(s) /\ c \in Nat /\ k = c + 1
    BY <1>0, <1>1, <1>5
  <2> HIDE DEF L, c
  <2> DEFINE T(a, r) == SharedTransit(m, base, u, a, s, r)
  <2>5. SharedLeads(links, SharedTransit(m, base, u, 1 - 1 + 0, s, 1 - 1), SharedUp(1, c, move), SharedTransit(m, base, u, c + 0, s, c))
    <3>1. 1 \in Nat /\ 1 >= 1 /\ c >= 1 - 1 /\ c <= Len(s) /\ 0 \in Nat /\ c + 0 <= Len(u)
      BY <2>4
    <3> QED BY <2>3, <2>4, <3>1, LeadsTransit
  <2>6. SharedLeads(links, T(c, c), SharedUp(1, L, made), T(c + L, c))
    <3>1. c + L <= Len(u)
      BY <2>4
    <3> QED BY <2>2, <2>4, <3>1, LeadsTransitMade
  <2>7. SharedLeads(links, SharedTransit(m, base, u, k - 1 + L, s, k - 1), SharedUp(k, Len(s), up),
                    SharedTransit(m, base, u, Len(s) + L, s, Len(s)))
    <3>1. k \in Nat /\ k >= 1 /\ Len(s) >= k - 1 /\ Len(s) \in Nat /\ Len(s) <= Len(s) /\ Len(s) + L <= Len(u)
      BY <2>4
    <3> QED BY <2>1, <2>4, <3>1, LeadsTransit
  <2>8. T(1 - 1 + 0, 1 - 1) = data
    <3>1. \A p \in 1..m : p - base \notin 1..(1 - 1 + 0)
      OBVIOUS
    <3>2. \A p \in 1..m : p - 0 = p /\ ((1 - 1) + 1) = 1
      OBVIOUS
    <3> QED BY <3>1, <3>2 DEF SharedTransit, SharedArray
  <2>9. T(Len(s) + L, Len(s)) = left
    <3>1. \A p : p \notin (Len(s) + 1)..Len(s)
      OBVIOUS
    <3> QED BY <2>4, <3>1 DEF SharedTransit, SharedArray
  <2>10. c + 0 = c /\ k - 1 + L = c + L /\ k - 1 = c
    BY <2>4
  <2>11. SharedLeads(links, data, SharedUp(1, c, move), T(c, c)) /\ SharedLeads(links, T(c + L, c), SharedUp(k, n, up), left)
    BY <2>5, <2>7, <2>8, <2>9, <2>10
  <2> HIDE DEF T, data, left, n
  <2>12. SharedLeads(links, data, SharedUp(1, c, move) \o SharedUp(1, L, made), T(c + L, c))
    BY <2>6, <2>11, LeadsThen
  <2> QED BY <2>11, <2>12, LeadsThen
<1>6. SharedInserted(k, chain, base) =
        IF base = 0 THEN SharedDown(k, n, up) \o SharedUp(1, L, made)
        ELSE SharedUp(1, c, move) \o SharedUp(1, L, made) \o SharedUp(k, n, up)
  BY Zenon DEF SharedInserted
<1> HIDE DEF data, left, up, move, made, n, c, L
<1>9. SharedLeads(links, data, SharedInserted(k, chain, base), left)
  BY <1>4, <1>5, <1>6
<1> QED BY <1>9 DEF data, left, u

----------------------------------------------------------------------------
\* remove and remove_unordered

\* The last element is destroyed.
LEMMA LeadsEndLast ==
    ASSUME NEW links, NEW m \in Nat, NEW s \in Seq(RefLinks), Len(s) >= 1, Len(s) <= m
    PROVE  SharedLeads(links, SharedArray(m, 0, s), SharedEnd(Len(s)), SharedArray(m, 0, SubSeq(s, 1, Len(s) - 1)))
<1> DEFINE n == Len(s)
           u == SubSeq(s, 1, n - 1)
           a == SharedArray(m, 0, s)
           b == SharedArray(m, 0, u)
<1>1. n \in 1..m /\ s[n] \in RefLinks /\ u \in Seq(RefLinks) /\ Len(u) = n - 1 /\ \A i \in 1..(n - 1) : u[i] = s[i]
  <2>1. n \in 1..m /\ n - 1 \in Int /\ 1 \in Int /\ \A i \in 1..n : s[i] \in RefLinks
    OBVIOUS
  <2> HIDE DEF n
  <2>2. \A i \in 1..(n - 1) : s[i] \in RefLinks
    BY <2>1
  <2> QED BY <2>1, <2>2, SubSeqProperties
<1>2. a \in Seq(SharedSlots) /\ Len(a) = m /\ b \in Seq(SharedSlots) /\ Len(b) = m
  BY <1>1, SharedArrayIs
<1>3. \A p \in 1..m : a[p] = IF p - 0 \in 1..n THEN s[p - 0] ELSE SharedRaw
  BY DEF SharedArray
<1>4. \A p \in 1..m : b[p] = IF p - 0 \in 1..Len(u) THEN u[p - 0] ELSE SharedRaw
  BY DEF SharedArray
<1> HIDE DEF a, b, u, n
<1>5. n \in 1..Len(a) /\ a[n] \in RefLinks /\ Len(b) = Len(a)
  BY <1>1, <1>2, <1>3
<1>6. ASSUME NEW p \in 1..Len(a) PROVE b[p] = IF p = n THEN SharedRaw ELSE a[p]
  <2>1. p \in 1..m /\ p - 0 = p
    BY <1>2
  <2>2. a[p] = (IF p \in 1..n THEN s[p] ELSE SharedRaw) /\ b[p] = (IF p \in 1..(n - 1) THEN u[p] ELSE SharedRaw)
    BY <1>1, <1>3, <1>4, <2>1
  <2>3. CASE p \in 1..(n - 1)
    <3>1. p \in 1..n /\ p # n /\ u[p] = s[p]
      BY <1>1, <2>3
    <3> QED BY <2>2, <2>3, <3>1
  <2>4. CASE p = n
    BY <1>1, <2>2, <2>4
  <2>5. CASE p > n
    BY <1>1, <2>2, <2>5
  <2> QED BY <1>1, <2>1, <2>3, <2>4, <2>5
<1>7. SharedLeads(links, a, SharedEnd(n), b)
  BY <1>2, <1>5, <1>6, LeadsEnd
<1> QED BY <1>7 DEF a, b, u, n

\* RemoveAt, element by element.
LEMMA RemoveAtIs ==
    ASSUME NEW s \in Seq(RefLinks), NEW k \in 1..Len(s)
    PROVE  /\ RemoveAt(s, k) \in Seq(RefLinks) /\ Len(RemoveAt(s, k)) = Len(s) - 1
           /\ \A i \in 1..(Len(s) - 1) : RemoveAt(s, k)[i] = IF i < k THEN s[i] ELSE s[i + 1]
<1> DEFINE a == SubSeq(s, 1, k - 1)
           b == SubSeq(s, k + 1, Len(s))
           u == a \o b
<1>1. a \in Seq(RefLinks) /\ Len(a) = k - 1 /\ \A i \in 1..(k - 1) : a[i] = s[i]
  BY SubSeqProperties
<1>2. b \in Seq(RefLinks) /\ Len(b) = Len(s) - k /\ \A i \in 1..(Len(s) - k) : b[i] = s[k + i]
  BY SubSeqProperties
<1>3. u = RemoveAt(s, k)
  BY DEF RemoveAt
<1> HIDE DEF a, b
<1>4. u \in Seq(RefLinks) /\ Len(u) = Len(s) - 1 /\ \A i \in 1..(Len(s) - 1) : u[i] = IF i <= k - 1 THEN a[i] ELSE b[i - (k - 1)]
  BY <1>1, <1>2, ConcatProperties
<1> HIDE DEF u
<1>5. ASSUME NEW i \in 1..(Len(s) - 1) PROVE u[i] = IF i < k THEN s[i] ELSE s[i + 1]
  <2>1. CASE i < k
    BY <1>1, <1>4, <2>1
  <2>2. CASE ~(i < k)
    <3> DEFINE j == i - (k - 1)
    <3>1. j \in 1..(Len(s) - k) /\ k + j = i + 1
      BY <2>2
    <3>2. u[i] = b[j]
      BY <1>4, <2>2
    <3> QED BY <1>2, <2>2, <3>1, <3>2
  <2> QED BY <2>1, <2>2
<1> QED BY <1>3, <1>4, <1>5

\* remove leaves the elements without one, in their order.
LEMMA LeadsRemoved ==
    ASSUME NEW links, NEW m \in Nat, NEW s \in Seq(RefLinks), Len(s) <= m, sharedCount = Len(s), NEW k \in 1..Len(s)
    PROVE  SharedLeads(links, SharedArray(m, 0, s), SharedRemoved(k), SharedArray(m, 0, RemoveAt(s, k)))
<1> DEFINE n == Len(s)
           M(i) == [j \in 1..n |-> IF k <= j /\ j <= i THEN s[j + 1] ELSE s[j]]
           D(i) == SharedArray(m, 0, M(i))
           steps == [i \in k..(n - 1) |-> SharedEnd(i) \o SharedCopy(i + 1, i)]
           datas == [i \in (k - 1)..(n - 1) |-> D(i)]
           data == SharedArray(m, 0, s)
           between == D(n - 1)
<1>0. n \in Nat /\ n <= m /\ k \in 1..n /\ \A p \in 1..n : s[p] \in RefLinks
  OBVIOUS
<1>1. ASSUME NEW i \in (k - 1)..(n - 1)
      PROVE  M(i) \in Seq(RefLinks) /\ Len(M(i)) = n /\ \A j \in 1..n : M(i)[j] = IF k <= j /\ j <= i THEN s[j + 1] ELSE s[j]
  <2>1. \A j \in 1..n : (IF k <= j /\ j <= i THEN s[j + 1] ELSE s[j]) \in RefLinks
    BY <1>0
  <2>2. M(i) \in [1..n -> RefLinks]
    BY <2>1
  <2>3. \A j \in 1..n : M(i)[j] = IF k <= j /\ j <= i THEN s[j + 1] ELSE s[j]
    OBVIOUS
  <2> HIDE DEF M, n
  <2> QED BY <1>0, <2>2, <2>3
<1>2. M(k - 1) = s
  <2> DEFINE z == M(k - 1)
  <2>1. k - 1 \in (k - 1)..(n - 1)
    BY <1>0
  <2>2. z \in Seq(RefLinks) /\ Len(z) = Len(s) /\ \A j \in 1..Len(z) : z[j] = s[j]
    BY <1>0, <1>1, <2>1
  <2> HIDE DEF z
  <2>3. z = s
    BY <2>2, SeqEqual
  <2> QED BY <2>3 DEF z
<1>3. SubSeq(M(n - 1), 1, n - 1) = RemoveAt(s, k)
  <2> DEFINE z == M(n - 1)
             w == SubSeq(z, 1, n - 1)
             v == RemoveAt(s, k)
  <2>1. n - 1 \in (k - 1)..(n - 1)
    BY <1>0
  <2>2. z \in Seq(RefLinks) /\ Len(z) = n /\ \A j \in 1..n : z[j] = IF k <= j /\ j <= n - 1 THEN s[j + 1] ELSE s[j]
    BY <1>1, <2>1
  <2> HIDE DEF z
  <2>3. w \in Seq(RefLinks) /\ Len(w) = n - 1 /\ \A j \in 1..(n - 1) : w[j] = z[j]
    BY <1>0, <2>2, SubSeqProperties
  <2>4. v \in Seq(RefLinks) /\ Len(v) = n - 1 /\ \A i \in 1..(n - 1) : v[i] = IF i < k THEN s[i] ELSE s[i + 1]
    BY RemoveAtIs
  <2> HIDE DEF w, v
  <2>5. \A i \in 1..Len(w) : w[i] = v[i]
    BY <1>0, <2>2, <2>3, <2>4
  <2>6. w = v
    BY <2>3, <2>4, <2>5, SeqEqual
  <2> QED BY <2>6 DEF w, v, z
<1> HIDE DEF M
<1>4. ASSUME NEW i \in k..(n - 1) PROVE SharedLeads(links, D(i - 1), steps[i], D(i))
  <2> DEFINE v == M(i - 1)
             w == M(i)
             a == SharedArray(m, 0, v)
             b == SharedArray(m, 0, w)
             from == i + 1
  <2>1. i - 1 \in (k - 1)..(n - 1) /\ i \in (k - 1)..(n - 1)
    BY <1>0
  <2>2. /\ v \in Seq(RefLinks) /\ Len(v) = n /\ \A j \in 1..n : v[j] = IF k <= j /\ j <= i - 1 THEN s[j + 1] ELSE s[j]
        /\ w \in Seq(RefLinks) /\ Len(w) = n /\ \A j \in 1..n : w[j] = IF k <= j /\ j <= i THEN s[j + 1] ELSE s[j]
    BY <1>1, <2>1
  <2>3. steps[i] = SharedEnd(i) \o SharedCopy(from, i)
    OBVIOUS
  <2> HIDE DEF v, w, n
  <2>4. a \in Seq(SharedSlots) /\ Len(a) = m /\ b \in Seq(SharedSlots) /\ Len(b) = m
    BY <2>2, SharedArrayIs
  <2>5. /\ \A p \in 1..m : a[p] = IF p - 0 \in 1..Len(v) THEN v[p - 0] ELSE SharedRaw
        /\ \A p \in 1..m : b[p] = IF p - 0 \in 1..Len(w) THEN w[p - 0] ELSE SharedRaw
    BY DEF SharedArray
  <2> HIDE DEF a, b
  <2>6. from \in 1..n /\ i \in 1..n /\ from # i /\ v[from] = s[from] /\ w[i] = s[from] /\ v[i] \in RefLinks /\ v[from] \in RefLinks
    BY <1>0, <2>2
  <2>7. /\ from \in 1..Len(a) /\ i \in 1..Len(a) /\ Len(b) = Len(a)
        /\ a[from] = s[from] /\ a[from] \in RefLinks /\ a[i] \in RefLinks
    BY <1>0, <2>2, <2>4, <2>5, <2>6
  <2>8. ASSUME NEW p \in 1..Len(a) PROVE b[p] = IF p = i THEN a[from] ELSE a[p]
    <3>1. CASE p = i
      BY <1>0, <2>2, <2>4, <2>5, <2>6, <2>7, <3>1
    <3>2. CASE p # i
      <4>1. p \in 1..n => v[p] = w[p]
        BY <2>2, <3>2, SMTT(20)
      <4> QED BY <2>2, <2>4, <2>5, <3>2, <4>1
    <3> QED BY <3>1, <3>2
  <2> HIDE DEF from
  <2>9. SharedLeads(links, a, SharedEnd(i) \o SharedCopy(from, i), b)
    BY <2>4, <2>6, <2>7, <2>8, LeadsOver
  <2> QED BY <2>3, <2>9 DEF a, b, v, w
<1>5. ASSUME NEW i \in (k - 1)..(n - 1) PROVE D(i) \in Seq(SharedSlots)
  BY <1>1, SharedArrayIs
<1>6. SharedGoesUp(links, k, n - 1, steps, datas, data, between)
  <2> DEFINE last == n - 1
  <2>0. last \in Nat /\ k - 1 <= last /\ k \in Nat
    BY <1>0
  <2>3. last \in (k - 1)..last /\ k - 1 \in (k - 1)..last
    BY <2>0
  <2>4. datas \in [(k - 1)..last -> Seq(SharedSlots)] /\ datas[k - 1] = data /\ datas[last] = between
    BY <2>3, <1>2, <1>5
  <2>5. ASSUME NEW i \in k..last PROVE SharedLeads(links, datas[i - 1], steps[i], datas[i])
    <3>1. datas[i - 1] = D(i - 1) /\ datas[i] = D(i)
      BY <2>0
    <3> QED BY <1>4, <3>1
  <2>6. last < k => between = data
    <3>1. last < k => last = k - 1
      BY <2>0
    <3> HIDE DEF last
    <3> QED BY <2>4, <3>1
  <2> HIDE DEF last, datas, data, between, steps
  <2>7. SharedGoesUp(links, k, last, steps, datas, data, between)
    BY <2>0, <2>4, <2>5, <2>6 DEF SharedGoesUp
  <2> QED BY <2>7 DEF last
<1>7. data \in Seq(SharedSlots)
  BY SharedArrayIs
<1> HIDE DEF data, datas
<1>8. SharedLeads(links, data, SharedUp(k, n - 1, steps), between)
  <2> HIDE DEF between, steps
  <2>1. n - 1 \in Int /\ k \in Int
    BY <1>0
  <2> QED BY <1>6, <1>7, <2>1, LeadsUp
<1>9. SharedLeads(links, between, SharedEnd(n), SharedArray(m, 0, RemoveAt(s, k)))
  <2> DEFINE z == M(n - 1)
  <2>1. n - 1 \in (k - 1)..(n - 1)
    BY <1>0
  <2>2. z \in Seq(RefLinks) /\ Len(z) = n /\ Len(z) >= 1 /\ Len(z) <= m
    BY <1>0, <1>1, <2>1
  <2> HIDE DEF z
  <2>3. SharedLeads(links, SharedArray(m, 0, z), SharedEnd(Len(z)), SharedArray(m, 0, SubSeq(z, 1, Len(z) - 1)))
    BY <2>2, LeadsEndLast
  <2>4. SubSeq(z, 1, Len(z) - 1) = RemoveAt(s, k)
    BY <1>3, <2>2 DEF z
  <2> QED BY <2>2, <2>3, <2>4 DEF z
<1>10. SharedRemoved(k) = SharedUp(k, n - 1, steps) \o SharedEnd(n)
  BY Zenon DEF SharedRemoved
<1> HIDE DEF between, steps, n
<1>11. SharedLeads(links, data, SharedRemoved(k), SharedArray(m, 0, RemoveAt(s, k)))
  BY <1>8, <1>9, <1>10, LeadsThen
<1> QED BY <1>11 DEF data

\* The elements without one, in whose place is the last.
SharedWithout(s, k) == SubSeq([s EXCEPT ![k] = s[Len(s)]], 1, Len(s) - 1)

\* The last element is in the place of the one removed.
LEMMA SharedWithoutIs ==
    ASSUME NEW s \in Seq(RefLinks), NEW k \in 1..Len(s)
    PROVE  /\ SharedWithout(s, k) \in Seq(RefLinks) /\ Len(SharedWithout(s, k)) = Len(s) - 1
           /\ \A i \in 1..(Len(s) - 1) : SharedWithout(s, k)[i] = IF i = k THEN s[Len(s)] ELSE s[i]
<1> DEFINE n == Len(s)
           z == [s EXCEPT ![k] = s[n]]
           u == SubSeq(z, 1, n - 1)
<1>1. n \in Nat /\ n >= 1 /\ s[n] \in RefLinks
  OBVIOUS
<1>2. z \in Seq(RefLinks) /\ Len(z) = n /\ \A i \in 1..n : z[i] = IF i = k THEN s[n] ELSE s[i]
  BY <1>1, ExceptSeq
<1> HIDE DEF z
<1>3. (\A i \in 1..(n - 1) : z[i] \in RefLinks) /\ n - 1 \in Int /\ 1 \in Int
  BY <1>1, <1>2
<1> HIDE DEF n
<1>4. u \in Seq(RefLinks) /\ Len(u) = n - 1 /\ \A i \in 1..(n - 1) : u[i] = z[i]
  BY <1>1, <1>3, SubSeqProperties
<1> HIDE DEF u
<1>5. \A i \in 1..(n - 1) : u[i] = IF i = k THEN s[n] ELSE s[i]
  BY <1>1, <1>2, <1>4
<1> QED BY <1>4, <1>5 DEF u, z, n, SharedWithout

\* remove_unordered leaves them so.
LEMMA LeadsWithout ==
    ASSUME NEW links, NEW m \in Nat, NEW s \in Seq(RefLinks), Len(s) <= m, sharedCount = Len(s), NEW k \in 1..Len(s)
    PROVE  SharedLeads(links, SharedArray(m, 0, s), SharedEnd(k) \o (IF k = sharedCount THEN <<>> ELSE SharedMoved(sharedCount, k)),
                       SharedArray(m, 0, SharedWithout(s, k)))
<1> DEFINE n == Len(s)
           u == SharedWithout(s, k)
           a == SharedArray(m, 0, s)
           c == SharedArray(m, 0, u)
           b == [p \in 1..m |-> IF p = k THEN SharedRaw ELSE a[p]]
<1>0. n \in Nat /\ n <= m /\ k \in 1..n /\ (\A p \in 1..n : s[p] \in RefLinks)
  OBVIOUS
<1>1. u \in Seq(RefLinks) /\ Len(u) = n - 1 /\ \A i \in 1..(n - 1) : u[i] = IF i = k THEN s[n] ELSE s[i]
  BY SharedWithoutIs
<1> HIDE DEF u
<1>2. a \in Seq(SharedSlots) /\ Len(a) = m /\ c \in Seq(SharedSlots) /\ Len(c) = m
  BY <1>1, SharedArrayIs
<1>3. ASSUME NEW p \in 1..m PROVE a[p] = (IF p \in 1..n THEN s[p] ELSE SharedRaw) /\ c[p] = (IF p \in 1..(n - 1) THEN u[p] ELSE SharedRaw)
  <2>1. a[p] = IF p - 0 \in 1..Len(s) THEN s[p - 0] ELSE SharedRaw
    BY DEF SharedArray
  <2>2. c[p] = IF p - 0 \in 1..Len(u) THEN u[p - 0] ELSE SharedRaw
    BY DEF SharedArray
  <2> HIDE DEF a, c
  <2>3. p - 0 = p
    OBVIOUS
  <2> QED BY <1>1, <2>1, <2>2, <2>3
<1> HIDE DEF a, c
<1>4. b \in Seq(SharedSlots) /\ Len(b) = m /\ \A p \in 1..m : b[p] = IF p = k THEN SharedRaw ELSE a[p]
  <2>1. \A p \in 1..m : (IF p = k THEN SharedRaw ELSE a[p]) \in SharedSlots
    BY <1>2 DEF SharedSlots
  <2>2. b \in [1..m -> SharedSlots]
    BY <2>1
  <2>3. \A p \in 1..m : b[p] = IF p = k THEN SharedRaw ELSE a[p]
    OBVIOUS
  <2> HIDE DEF b
  <2> QED BY <2>2, <2>3
<1> HIDE DEF b, n
<1>5. SharedLeads(links, a, SharedEnd(k), b)
  <2>1. k \in 1..Len(a) /\ a[k] \in RefLinks /\ Len(b) = Len(a)
    BY <1>0, <1>2, <1>3, <1>4
  <2>2. \A p \in 1..Len(a) : b[p] = IF p = k THEN SharedRaw ELSE a[p]
    BY <1>2, <1>4
  <2> QED BY <1>2, <1>4, <2>1, <2>2, LeadsEnd
<1>6. ASSUME k = n PROVE b = c
  <2>1. \A p \in 1..Len(b) : b[p] = c[p]
    <3> TAKE p \in 1..Len(b)
    <3>1. p \in 1..m
      BY <1>4
    <3>2. CASE p = k
      BY <1>0, <1>3, <1>4, <1>6, <3>1, <3>2
    <3>3. CASE p < k
      <4>1. p \in 1..n /\ p \in 1..(n - 1) /\ p # k
        BY <1>0, <1>6, <3>1, <3>3
      <4> QED BY <1>1, <1>3, <1>4, <3>1, <4>1
    <3>4. CASE p > k
      <4>1. p \notin 1..n /\ p \notin 1..(n - 1) /\ p # k
        BY <1>0, <1>6, <3>1, <3>4
      <4> QED BY <1>3, <1>4, <3>1, <4>1
    <3> QED BY <1>0, <3>1, <3>2, <3>3, <3>4
  <2> QED BY <1>2, <1>4, <2>1, SeqEqual
<1>7. ASSUME k # n PROVE SharedLeads(links, b, SharedMoved(n, k), c)
  <2>1. n \in 1..Len(b) /\ k \in 1..Len(b) /\ n # k /\ Len(c) = Len(b) /\ b[n] = s[n] /\ b[n] \in RefLinks /\ b[k] = SharedRaw
    BY <1>0, <1>2, <1>3, <1>4, <1>7
  <2>2. ASSUME NEW p \in 1..Len(b) PROVE c[p] = IF p = k THEN b[n] ELSE IF p = n THEN SharedRaw ELSE b[p]
    <3>1. p \in 1..m
      BY <1>4
    <3>2. CASE p = k
      <4>1. p \in 1..(n - 1)
        BY <1>0, <1>7, <3>2
      <4> QED BY <1>1, <1>3, <2>1, <3>1, <3>2, <4>1
    <3>3. CASE p = n
      <4>1. p \notin 1..(n - 1)
        BY <1>0, <3>3
      <4> QED BY <1>3, <2>1, <3>1, <3>3, <4>1
    <3>4. CASE p # k /\ p \in 1..(n - 1)
      <4>1. p \in 1..n /\ p # n
        BY <1>0, <3>4
      <4> QED BY <1>1, <1>3, <1>4, <3>1, <3>4, <4>1
    <3>5. CASE p > n
      <4>1. p \notin 1..n /\ p \notin 1..(n - 1) /\ p # k /\ p # n
        BY <1>0, <3>1, <3>5
      <4> QED BY <1>3, <1>4, <3>1, <4>1
    <3> QED BY <1>0, <3>1, <3>2, <3>3, <3>4, <3>5
  <2> QED BY <1>2, <1>4, <2>1, <2>2, LeadsMoved
<1>8. SharedLeads(links, b, <<>>, b)
  BY <1>4, LeadsNothing
<1>9. SharedLeads(links, b, IF k = n THEN <<>> ELSE SharedMoved(n, k), c)
  BY <1>6, <1>7, <1>8
<1>10. SharedLeads(links, a, SharedEnd(k) \o (IF k = n THEN <<>> ELSE SharedMoved(n, k)), c)
  BY <1>5, <1>9, LeadsThen
<1>11. n = sharedCount
  BY DEF n
<1> QED BY <1>10, <1>11 DEF a, c, u

\* The elements are copied to the new block, if there is one.
LEMMA LeadsReserved ==
    ASSUME NEW links, NEW n, NEW m \in Nat, NEW s \in Seq(RefLinks), sharedCount = Len(s),
           SharedBase(n) \in Nat, SharedBase(n) + Len(s) <= m, SharedBase(n) = 0 \/ Len(s) <= SharedBase(n)
    PROVE  SharedLeads(links, SharedArray(m, 0, s), SharedReserve(n), SharedArray(m, SharedBase(n), s))
<1> DEFINE base == SharedBase(n)
           c == Len(s)
           move == [i \in 1..c |-> SharedMoved(i, base + i)]
<1>1. SharedReserve(n) = IF base = 0 THEN <<>> ELSE SharedUp(1, c, move)
  BY Zenon DEF SharedReserve
<1> HIDE DEF base
<1>2. base \in Nat /\ base + Len(s) <= m /\ (base = 0 \/ Len(s) <= base)
  BY DEF base
<1>3. ASSUME base = 0 PROVE SharedLeads(links, SharedArray(m, 0, s), <<>>, SharedArray(m, base, s))
  <2>1. SharedArray(m, 0, s) \in Seq(SharedSlots)
    BY SharedArrayIs
  <2> QED BY <1>3, <2>1, LeadsNothing
<1>4. ASSUME base # 0 PROVE SharedLeads(links, SharedArray(m, 0, s), SharedUp(1, c, move), SharedArray(m, base, s))
  <2>1. c \in 0..Len(s) /\ base \in Nat \ {0} /\ Len(s) <= base /\ base + Len(s) <= m
    BY <1>2, <1>4
  <2>2. \A i \in 1..c : move[i] = SharedMoved(i, base + i)
    OBVIOUS
  <2> HIDE DEF move, c
  <2>3. SharedLeads(links, SharedArray(m, 0, s), SharedUp(1, c, move), SharedParted(m, base, s, c))
    BY <2>1, <2>2, LeadsParted
  <2>4. SharedParted(m, base, s, c) = SharedArray(m, base, s)
    <3>1. \A p : p \notin (Len(s) + 1)..Len(s)
      OBVIOUS
    <3> QED BY <3>1 DEF SharedParted, SharedArray, c
  <2> QED BY <2>3, <2>4
<1> HIDE DEF c, move
<1>5. SharedLeads(links, SharedArray(m, 0, s), SharedReserve(n), SharedArray(m, base, s))
  BY <1>1, <1>3, <1>4
<1> QED BY <1>5 DEF base

----------------------------------------------------------------------------
\* The counts where the array moves

\* Who holds an object is as many where the array lies as in the elements themselves.
LEMMA SharedHeldArray ==
    ASSUME NEW pointers, NEW m \in Nat, NEW base \in Nat, NEW s \in Seq(RefLinks), base + Len(s) <= m, NEW o \in SharedObjects
    PROVE  ExistsBijection(SharedHeld(pointers, s)[o], SharedHeld(pointers, SharedArray(m, base, s))[o])
<1> DEFINE a == SharedArray(m, base, s)
           P == {h \in SharedThreads \X (1..SharedPointers) : pointers[h[1]][h[2]] = o}
           A == {h \in {SharedRaw} \X (1..Len(s)) : s[h[2]] = o}
           B == {h \in {SharedRaw} \X (1..Len(a)) : a[h[2]] = o}
           moved(h) == <<SharedRaw, h[2] + base>>
           F == [h \in P \cup A |-> IF h \in A THEN moved(h) ELSE h]
<1>1. SharedHeld(pointers, s)[o] = P \cup A /\ SharedHeld(pointers, a)[o] = P \cup B
  BY DEF SharedHeld
<1>2. Len(a) = m /\ \A p \in 1..m : a[p] = IF p - base \in 1..Len(s) THEN s[p - base] ELSE SharedRaw
  BY SharedArrayIs
<1>3. o # SharedRaw /\ \A h \in P : h[1] # SharedRaw
  BY SharedNames
<1> HIDE DEF a
<1>4. \A h \in A : h = <<SharedRaw, h[2]>> /\ h[2] \in 1..Len(s) /\ s[h[2]] = o
  OBVIOUS
<1>5. \A h \in A : moved(h) \in B
  <2> TAKE h \in A
  <2>1. h[2] \in 1..Len(s) /\ s[h[2]] = o
    BY <1>4
  <2> DEFINE q == h[2]
  <2> HIDE DEF q
  <2>2. q \in 1..Len(s) /\ s[q] = o
    BY <2>1 DEF q
  <2>3. q + base \in 1..m /\ (q + base) - base = q
    BY <2>2
  <2>4. a[q + base] = o
    BY <1>2, <2>2, <2>3
  <2>5. <<SharedRaw, q + base>> \in B
    BY <1>2, <2>3, <2>4
  <2> QED BY <2>5 DEF q
<1>6. \A g \in B : \E h \in A : moved(h) = g
  <2> TAKE g \in B
  <2> DEFINE p == g[2]
             q == p - base
             h == <<SharedRaw, q>>
  <2>1. g = <<SharedRaw, p>> /\ p \in 1..m /\ a[p] = o
    BY <1>2
  <2> HIDE DEF p
  <2>2. q \in 1..Len(s) /\ s[q] = o
    BY <1>2, <1>3, <2>1
  <2>3. q + base = p
    BY <2>1
  <2> HIDE DEF q
  <2>4. h \in A /\ moved(h) = g
    BY <2>1, <2>2, <2>3
  <2> QED BY <2>4
<1>7. \A h \in A : h \notin P
  BY <1>3, <1>4
<1>8. F \in [P \cup A -> P \cup B]
  BY <1>5
<1>9. \A h, g \in P \cup A : F[h] = F[g] => h = g
  <2> SUFFICES ASSUME NEW h \in P \cup A, NEW g \in P \cup A, F[h] = F[g] PROVE h = g
    OBVIOUS
  <2>0. \A f \in A : F[f] = moved(f)
    OBVIOUS
  <2>00. \A f \in P : F[f] = f
    BY <1>7
  <2> HIDE DEF F
  <2>1. CASE h \in A /\ g \in A
    <3>1. moved(h) = moved(g)
      BY <2>0, <2>1
    <3>2. h[2] \in Int /\ g[2] \in Int /\ h[2] + base = g[2] + base
      BY <1>4, <2>1, <3>1
    <3>3. h[2] = g[2]
      BY <3>2
    <3> QED BY <1>4, <2>1, <3>3
  <2>2. CASE h \in A /\ g \in P
    BY <1>3, <2>0, <2>00, <2>2
  <2>3. CASE h \in P /\ g \in A
    BY <1>3, <2>0, <2>00, <2>3
  <2>4. CASE h \in P /\ g \in P
    BY <2>00, <2>4
  <2> QED BY <2>1, <2>2, <2>3, <2>4
<1>10. \A g \in P \cup B : \E h \in P \cup A : F[h] = g
  BY <1>6, <1>7
<1> HIDE DEF F, P, A, B
<1>11. F \in Bijection(P \cup A, P \cup B)
  BY <1>8, <1>9, <1>10, Fun_IsBij
<1> QED BY <1>1, <1>11 DEF ExistsBijection, a

\* The counts agree wherever the array lies.
LEMMA BalancedWhereHeld ==
    ASSUME NEW stage, NEW heap, NEW holders, NEW others, NEW but,
           \A o \in SharedObjects : ExistsBijection(holders[o], others[o]),
           RefBalanced(stage, heap, holders, but)
    PROVE  RefBalanced(stage, heap, others, but)
<1>1. ASSUME NEW o \in SharedObjects PROVE IsFiniteSet(others[o]) /\ Cardinality(others[o]) = Cardinality(holders[o])
  <2>1. IsFiniteSet(holders[o])
    BY DEF RefBalanced
  <2> QED BY <2>1, FS_Bijection
<1> QED BY <1>1 DEF RefBalanced

\* Counts that are right of the elements are right of the memory they lie in.
LEMMA BalancedToArray ==
    ASSUME NEW stage, NEW heap, NEW pointers, NEW m \in Nat, NEW base \in Nat, NEW s \in Seq(RefLinks), base + Len(s) <= m, NEW but,
           RefBalanced(stage, heap, SharedHeld(pointers, s), but)
    PROVE  RefBalanced(stage, heap, SharedHeld(pointers, SharedArray(m, base, s)), but)
BY SharedHeldArray, BalancedWhereHeld

\* And the other way.
LEMMA BalancedFromArray ==
    ASSUME NEW stage, NEW heap, NEW pointers, NEW m \in Nat, NEW base \in Nat, NEW s \in Seq(RefLinks), base + Len(s) <= m, NEW but,
           RefBalanced(stage, heap, SharedHeld(pointers, SharedArray(m, base, s)), but)
    PROVE  RefBalanced(stage, heap, SharedHeld(pointers, s), but)
<1>1. \A o \in SharedObjects : ExistsBijection(SharedHeld(pointers, SharedArray(m, base, s))[o], SharedHeld(pointers, s)[o])
  BY SharedHeldArray, Fun_ExistsBijSymmetric
<1> QED BY <1>1, BalancedWhereHeld

----------------------------------------------------------------------------
\* The pointers of the threads

RefStages == {"unused", "alive", "dying"}
RefPointers == [SharedThreads -> [1..SharedPointers -> RefLinks]]
\* The dying objects are those the threads have to destroy, each once.
SharedDying(stage, dying) ==
    /\ dying \in [SharedThreads -> Seq(SharedObjects)]
    /\ \A o \in SharedObjects : stage[o] = "dying" <=> \E t \in SharedThreads : \E k \in DOMAIN dying[t] : dying[t][k] = o
    /\ \A o \in SharedObjects : \A t, u \in SharedThreads : \A k \in DOMAIN dying[t], l \in DOMAIN dying[u] :
          dying[t][k] = o /\ dying[u][l] = o => t = u /\ k = l
\* How the objects are between the calls.
SharedKept(stage, count, dying, pointers, meant) ==
    /\ stage \in [SharedObjects -> RefStages] /\ SharedDying(stage, dying)
    /\ pointers \in RefPointers /\ meant \in Seq(RefLinks)
    /\ RefBalanced(stage, [count |-> count, dead |-> <<>>], SharedHeld(pointers, meant), SharedNull)
RefEnded(stage, heap) == [o \in SharedObjects |-> IF o \in ToSet(heap.dead) THEN "dying" ELSE stage[o]]

\* What a call released for good is the thread's to destroy, and the counts agree.
LEMMA RefEndKeeps ==
    ASSUME NEW t \in SharedThreads, NEW stage \in [SharedObjects -> RefStages], NEW dying, SharedDying(stage, dying), dying[t] = <<>>,
           NEW heap, NEW holders, RefBalanced(stage, heap, holders, SharedNull)
    PROVE  /\ RefEnded(stage, heap) \in [SharedObjects -> RefStages]
           /\ SharedDying(RefEnded(stage, heap), [dying EXCEPT ![t] = heap.dead])
           /\ RefBalanced(RefEnded(stage, heap), [count |-> heap.count, dead |-> <<>>], holders, SharedNull)
<1> DEFINE last == RefEnded(stage, heap)
           late == [dying EXCEPT ![t] = heap.dead]
<1>1. /\ heap.dead \in Seq(SharedObjects) /\ heap.count \in [SharedObjects -> Nat]
      /\ dying \in [SharedThreads -> Seq(SharedObjects)]
  BY DEF RefBalanced, SharedDying
<1>2. ASSUME NEW o \in SharedObjects PROVE o \in ToSet(heap.dead) <=> RefIsDead(heap, o)
  BY <1>1 DEF ToSet, RefIsDead
<1>3. ASSUME NEW o \in SharedObjects PROVE last[o] = IF RefIsDead(heap, o) THEN "dying" ELSE stage[o]
  BY <1>2 DEF RefEnded
<1>4. last \in [SharedObjects -> RefStages]
  BY DEF RefEnded, RefStages
<1> HIDE DEF last
<1>5. /\ late \in [SharedThreads -> Seq(SharedObjects)] /\ late[t] = heap.dead
      /\ \A u \in SharedThreads : u # t => late[u] = dying[u]
  BY <1>1
<1>6. DOMAIN heap.dead = 1..Len(heap.dead) /\ \A u \in SharedThreads : DOMAIN dying[u] = 1..Len(dying[u])
  BY <1>1
<1>7. \A k : k \notin DOMAIN dying[t]
  OBVIOUS
<1> HIDE DEF late
<1>8. ASSUME NEW o \in SharedObjects
      PROVE  last[o] = "dying" <=> \E u \in SharedThreads : \E k \in DOMAIN late[u] : late[u][k] = o
  <2>1. RefIsDead(heap, o) => \E k \in DOMAIN late[t] : late[t][k] = o
    BY <1>5, <1>6 DEF RefIsDead
  <2>2. stage[o] = "dying" => \E u \in SharedThreads : \E k \in DOMAIN late[u] : late[u][k] = o
    <3> SUFFICES ASSUME stage[o] = "dying" PROVE \E u \in SharedThreads : \E k \in DOMAIN late[u] : late[u][k] = o
      OBVIOUS
    <3>1. PICK u \in SharedThreads : \E k \in DOMAIN dying[u] : dying[u][k] = o
      BY DEF SharedDying
    <3>2. u # t
      BY <1>7, <3>1
    <3> QED BY <1>5, <3>1, <3>2
  <2>3. ASSUME NEW u \in SharedThreads, NEW k \in DOMAIN late[u], late[u][k] = o PROVE last[o] = "dying"
    <3>1. CASE u = t
      <4>1. RefIsDead(heap, o)
        BY <1>5, <1>6, <2>3, <3>1 DEF RefIsDead
      <4> QED BY <1>3, <4>1
    <3>2. CASE u # t
      <4>1. stage[o] = "dying"
        BY <1>5, <2>3, <3>2 DEF SharedDying
      <4> QED BY <1>3, <4>1
    <3> QED BY <3>1, <3>2
  <2> QED BY <1>3, <2>1, <2>2, <2>3
<1>9. ASSUME NEW o \in SharedObjects, NEW u \in SharedThreads, NEW v \in SharedThreads, NEW k \in DOMAIN late[u], NEW l \in DOMAIN late[v],
             late[u][k] = o, late[v][l] = o
      PROVE  u = v /\ k = l
  <2>1. ASSUME NEW w \in SharedThreads, w # t, NEW i \in DOMAIN late[w], late[w][i] = o PROVE ~RefIsDead(heap, o)
    <3>1. stage[o] = "dying"
      BY <1>5, <2>1 DEF SharedDying
    <3> QED BY <3>1 DEF RefBalanced
  <2>2. ASSUME NEW i \in DOMAIN late[t], late[t][i] = o PROVE RefIsDead(heap, o)
    BY <1>5, <1>6, <2>2 DEF RefIsDead
  <2>3. CASE u = t /\ v = t
    <3>1. k \in 1..Len(heap.dead) /\ l \in 1..Len(heap.dead) /\ heap.dead[k] = heap.dead[l]
      BY <1>5, <1>6, <1>9, <2>3
    <3> QED BY <2>3, <3>1 DEF RefBalanced
  <2>4. CASE u # t /\ v # t
    <3>1. k \in DOMAIN dying[u] /\ l \in DOMAIN dying[v] /\ dying[u][k] = o /\ dying[v][l] = o
      BY <1>5, <1>9, <2>4
    <3> QED BY <3>1 DEF SharedDying
  <2> QED BY <1>9, <2>1, <2>2, <2>3, <2>4
<1>10. SharedDying(last, late)
  BY <1>5, <1>8, <1>9 DEF SharedDying
<1>11. RefBalanced(last, [count |-> heap.count, dead |-> <<>>], holders, SharedNull)
  <2> DEFINE h == [count |-> heap.count, dead |-> <<>>]
  <2>1. h \in [count : [SharedObjects -> Nat], dead : Seq(SharedObjects)] /\ h.count = heap.count /\ h.dead = <<>> /\ Len(h.dead) = 0
    BY <1>1
  <2>2. \A o \in SharedObjects : ~RefIsDead(h, o)
    BY DEF RefIsDead
  <2> HIDE DEF h
  <2>3. ASSUME NEW o \in SharedObjects
        PROVE  /\ IsFiniteSet(holders[o]) /\ h.count[o] = Cardinality(holders[o])
               /\ o # SharedNull => (h.count[o] > 0 <=> RefAlive(last, h, o))
               /\ RefIsDead(h, o) => last[o] = "alive"
    <3>1. /\ IsFiniteSet(holders[o]) /\ heap.count[o] = Cardinality(holders[o])
          /\ o # SharedNull => (heap.count[o] > 0 <=> RefAlive(stage, heap, o))
      BY DEF RefBalanced
    <3>2. RefAlive(stage, heap, o) <=> RefAlive(last, h, o)
      BY <1>3, <2>2 DEF RefAlive
    <3> QED BY <2>1, <2>2, <3>1, <3>2
  <2>4. \A k, l \in 1..Len(h.dead) : h.dead[k] = h.dead[l] => k = l
    BY <2>1
  <2>5. RefBalanced(last, h, holders, SharedNull)
    BY <2>1, <2>3, <2>4 DEF RefBalanced
  <2> QED BY <2>5 DEF h
<1> QED BY <1>4, <1>10, <1>11 DEF last, late

\* A pointer of a thread is set to another link.
LEMMA PointerSlot ==
    ASSUME NEW pointers \in RefPointers, NEW t \in SharedThreads, NEW i \in 1..SharedPointers, NEW new \in RefLinks, NEW meant
    PROVE  /\ [pointers EXCEPT ![t][i] = new] \in RefPointers
           /\ RefSlotSet(SharedHeld(pointers, meant), SharedHeld([pointers EXCEPT ![t][i] = new], meant), <<t, i>>, pointers[t][i], new)
<1> DEFINE next == [pointers EXCEPT ![t][i] = new]
<1>1. next \in RefPointers
  BY DEF RefPointers
<1>2. /\ next[t][i] = new
      /\ \A u \in SharedThreads, k \in 1..SharedPointers : u # t \/ k # i => next[u][k] = pointers[u][k]
  BY DEF RefPointers
<1> HIDE DEF next
<1>3. ASSUME NEW o \in SharedObjects
      PROVE  /\ SharedHeld(next, meant)[o] \ {<<t, i>>} = SharedHeld(pointers, meant)[o] \ {<<t, i>>}
             /\ <<t, i>> \in SharedHeld(pointers, meant)[o] <=> o = pointers[t][i]
             /\ <<t, i>> \in SharedHeld(next, meant)[o] <=> o = new
  <2> DEFINE P == {h \in SharedThreads \X (1..SharedPointers) : pointers[h[1]][h[2]] = o}
             N == {h \in SharedThreads \X (1..SharedPointers) : next[h[1]][h[2]] = o}
             A == {h \in {SharedRaw} \X (1..Len(meant)) : meant[h[2]] = o}
             x == <<t, i>>
  <2>1. SharedHeld(pointers, meant)[o] = P \cup A /\ SharedHeld(next, meant)[o] = N \cup A
    BY DEF SharedHeld
  <2>2. x \notin A
    BY SharedNames
  <2>3. x \in P <=> o = pointers[t][i]
    OBVIOUS
  <2>4. x \in N <=> o = new
    BY <1>2
  <2>5. P \ {x} = N \ {x}
    <3> SUFFICES ASSUME NEW h \in SharedThreads \X (1..SharedPointers), h # x PROVE next[h[1]][h[2]] = pointers[h[1]][h[2]]
      OBVIOUS
    <3>1. h[1] \in SharedThreads /\ h[2] \in 1..SharedPointers /\ (h[1] # t \/ h[2] # i)
      OBVIOUS
    <3> QED BY <1>2, <3>1
  <2> HIDE DEF P, A, N
  <2> QED BY <2>1, <2>2, <2>3, <2>4, <2>5
<1> QED BY <1>1, <1>3 DEF RefSlotSet, next

RefHeapOf(count) == [count |-> count, dead |-> <<>>]

\* What is held is alive.
LEMMA HeldAlive ==
    ASSUME NEW stage, NEW heap, NEW holders, NEW o \in SharedObjects, NEW x \in holders[o], RefBalanced(stage, heap, holders, SharedNull)
    PROVE  RefAlive(stage, heap, o) /\ heap.count[o] > 0
<1> DEFINE H == holders[o]
<1>1. IsFiniteSet(H) /\ heap.count[o] = Cardinality(H) /\ (o # SharedNull => (heap.count[o] > 0 <=> RefAlive(stage, heap, o)))
  BY DEF RefBalanced
<1>2. x \in H
  OBVIOUS
<1> HIDE DEF H
<1>3. Cardinality(H) > 0
  <2>1. H \ {x} = H \ {x} /\ x \in H
    BY <1>2
  <2> QED BY <1>1, <2>1, HoldersChanged
<1> QED BY <1>1, <1>3, SharedNames

\* A pointer of a thread set to what is alive, or to nothing.
LEMMA RefAssignKeeps ==
    ASSUME NEW stage, NEW count, NEW dying, NEW pointers, NEW meant, NEW t \in SharedThreads, NEW i \in 1..SharedPointers,
           NEW new \in RefLinks, SharedKept(stage, count, dying, pointers, meant), dying[t] = <<>>,
           new # SharedNull => RefAlive(stage, RefHeapOf(count), new), NEW heap, heap = RefAssigned(RefHeapOf(count), pointers[t][i], new)
    PROVE  SharedKept(RefEnded(stage, heap), heap.count, [dying EXCEPT ![t] = heap.dead], [pointers EXCEPT ![t][i] = new], meant)
<1> DEFINE next == [pointers EXCEPT ![t][i] = new]
           before == SharedHeld(pointers, meant)
           after == SharedHeld(next, meant)
           old == pointers[t][i]
<1>1. stage \in [SharedObjects -> RefStages] /\ SharedDying(stage, dying) /\ pointers \in RefPointers /\ meant \in Seq(RefLinks)
  BY DEF SharedKept
<1>2. RefBalanced(stage, RefHeapOf(count), before, SharedNull)
  BY DEF SharedKept, RefHeapOf
<1>3. next \in RefPointers /\ RefSlotSet(before, after, <<t, i>>, old, new)
  BY <1>1, PointerSlot
<1>4. old \in RefLinks
  BY <1>1 DEF RefPointers
<1> HIDE DEF next, before, after, old
<1>5. RefBalanced(stage, RefHeapOf(count), before, new)
  BY <1>2, SharedNames DEF RefBalanced
<1>6. RefBalanced(stage, RefAssigned(RefHeapOf(count), old, new), after, SharedNull)
  BY <1>3, <1>4, <1>5, RefExchanged
<1>7. RefBalanced(stage, heap, after, SharedNull)
  BY <1>6 DEF old
<1>8. /\ RefEnded(stage, heap) \in [SharedObjects -> RefStages]
      /\ SharedDying(RefEnded(stage, heap), [dying EXCEPT ![t] = heap.dead])
      /\ RefBalanced(RefEnded(stage, heap), [count |-> heap.count, dead |-> <<>>], after, SharedNull)
  BY <1>1, <1>7, RefEndKeeps
<1> QED BY <1>1, <1>3, <1>8 DEF SharedKept, after, next

\* A pointer is moved to another, or to itself.
LEMMA RefMoveKeeps ==
    ASSUME NEW stage, NEW count, NEW dying, NEW pointers, NEW meant, NEW t \in SharedThreads,
           NEW i \in 1..SharedPointers, NEW j \in 1..SharedPointers,
           SharedKept(stage, count, dying, pointers, meant), dying[t] = <<>>,
           NEW heap, heap = RefRelease(RefHeapOf(count), pointers[t][i])
    PROVE  SharedKept(RefEnded(stage, heap), heap.count, [dying EXCEPT ![t] = heap.dead],
                      [pointers EXCEPT ![t] = [@ EXCEPT ![i] = pointers[t][j], ![j] = SharedNull]], meant)
<1> DEFINE between == [pointers EXCEPT ![t][i] = pointers[t][j]]
           next == [pointers EXCEPT ![t] = [@ EXCEPT ![i] = pointers[t][j], ![j] = SharedNull]]
           before == SharedHeld(pointers, meant)
           half == SharedHeld(between, meant)
           after == SharedHeld(next, meant)
           old == pointers[t][i]
           link == pointers[t][j]
           start == RefHeapOf(count)
           acquired == RefAssigned(start, old, link)
           released == RefRelease(acquired, link)
<1>1. stage \in [SharedObjects -> RefStages] /\ SharedDying(stage, dying) /\ pointers \in RefPointers /\ meant \in Seq(RefLinks)
  BY DEF SharedKept
<1>2. RefBalanced(stage, start, before, SharedNull)
  BY DEF SharedKept, RefHeapOf
<1>3. old \in RefLinks /\ link \in RefLinks /\ SharedNull \in RefLinks
  BY <1>1, SharedNames DEF RefPointers
<1>4. /\ between \in RefPointers /\ RefSlotSet(before, half, <<t, i>>, old, link)
      /\ between[t][j] = link /\ next = [between EXCEPT ![t][j] = SharedNull]
  <2>1. between \in RefPointers /\ RefSlotSet(before, half, <<t, i>>, old, link)
    BY <1>1, <1>3, PointerSlot
  <2>2. between[t][j] = link
    BY <1>1 DEF RefPointers
  <2>3. next = [between EXCEPT ![t][j] = SharedNull]
    BY <1>1 DEF RefPointers
  <2> QED BY <2>1, <2>2, <2>3
<1>5. next \in RefPointers /\ RefSlotSet(half, after, <<t, j>>, link, SharedNull)
  <2> HIDE DEF between, next
  <2>1. /\ [between EXCEPT ![t][j] = SharedNull] \in RefPointers
        /\ RefSlotSet(SharedHeld(between, meant), SharedHeld([between EXCEPT ![t][j] = SharedNull], meant), <<t, j>>, between[t][j], SharedNull)
    BY <1>3, <1>4, PointerSlot
  <2> QED BY <1>4, <2>1
<1>6. link # SharedNull => RefAlive(stage, start, link) /\ start.count[link] > 0
  <2> SUFFICES ASSUME link # SharedNull PROVE RefAlive(stage, start, link) /\ start.count[link] > 0
    OBVIOUS
  <2>1. link \in SharedObjects
    BY <1>3 DEF RefLinks
  <2>2. <<t, j>> \in before[link]
    BY <2>1 DEF SharedHeld
  <2> HIDE DEF before, link, start
  <2> QED BY <1>2, <2>1, <2>2, HeldAlive
<1>7. old # SharedNull => start.count[old] > 0
  <2> SUFFICES ASSUME old # SharedNull PROVE start.count[old] > 0
    OBVIOUS
  <2>1. old \in SharedObjects
    BY <1>3 DEF RefLinks
  <2>2. <<t, i>> \in before[old]
    BY <2>1 DEF SharedHeld
  <2> HIDE DEF before, old, start
  <2> QED BY <1>2, <2>1, <2>2, HeldAlive
<1> HIDE DEF before, half, after, between, next
<1>8. RefBalanced(stage, acquired, half, SharedNull)
  <2> HIDE DEF start, old, link
  <2>1. RefBalanced(stage, start, before, link)
    BY <1>2, SharedNames DEF RefBalanced
  <2> QED BY <1>3, <1>4, <1>6, <2>1, RefExchanged
<1>9. RefBalanced(stage, released, after, SharedNull)
  <2> HIDE DEF acquired, old, link
  <2>1. RefAssigned(acquired, link, SharedNull) = released
    BY DEF RefAssigned, RefAcquire
  <2> HIDE DEF released
  <2>2. SharedNull # SharedNull => RefAlive(stage, acquired, SharedNull)
    OBVIOUS
  <2> QED BY <1>3, <1>5, <1>8, <2>1, <2>2, RefExchanged
<1>10. start \in [count : [SharedObjects -> Nat], dead : Seq(SharedObjects)]
  BY <1>2 DEF RefBalanced
<1>11. released = heap
  <2> HIDE DEF start, old, link
  <2>1. heap = RefRelease(start, old)
    BY DEF start, old
  <2>2. CASE link = SharedNull
    BY <2>1, <2>2 DEF RefAssigned, RefAcquire, RefRelease
  <2>3. CASE link # SharedNull /\ old = SharedNull
    <3>1. link \in SharedObjects /\ start.count[link] > 0
      BY <1>3, <1>6, <2>3 DEF RefLinks
    <3>2. acquired = [start EXCEPT !.count[link] = @ + 1]
      BY <2>3 DEF RefAssigned, RefAcquire, RefRelease
    <3>3. acquired.count[link] = start.count[link] + 1 /\ acquired.dead = start.dead /\ acquired.count = [start.count EXCEPT ![link] = @ + 1]
      BY <1>10, <3>1, <3>2
    <3> HIDE DEF acquired
    <3>4. start.count[link] \in Nat /\ acquired.count[link] # 1 /\ [acquired.count EXCEPT ![link] = @ - 1] = start.count
      <4> DEFINE c == start.count
                 d == [c EXCEPT ![link] = @ + 1]
      <4>1. c \in [SharedObjects -> Nat] /\ link \in SharedObjects
        BY <1>10, <3>1
      <4>2. acquired.count = d
        BY <3>3
      <4> HIDE DEF c
      <4>3. [d EXCEPT ![link] = @ - 1] = c /\ c[link] \in Nat
        <5> DEFINE e == [d EXCEPT ![link] = @ - 1]
        <5>1. c[link] \in Nat /\ d[link] = c[link] + 1 /\ e[link] = c[link]
          BY <4>1
        <5>2. \A o \in SharedObjects : o # link => e[o] = c[o]
          BY <4>1
        <5>3. DOMAIN e = SharedObjects /\ DOMAIN c = SharedObjects /\ e = [o \in SharedObjects |-> e[o]] /\ c = [o \in SharedObjects |-> c[o]]
          BY <4>1
        <5> HIDE DEF e, d
        <5> QED BY <5>1, <5>2, <5>3 DEF e
      <4> QED BY <3>1, <3>3, <4>2, <4>3 DEF c
    <3>5. released = [count |-> [acquired.count EXCEPT ![link] = @ - 1], dead |-> acquired.dead]
      BY <2>3, <3>4 DEF RefRelease
    <3>6. heap = start
      BY <2>1, <2>3 DEF RefRelease
    <3> QED BY <1>10, <3>3, <3>4, <3>5, <3>6
  <2>4. CASE link # SharedNull /\ old # SharedNull
    <3>1. link \in SharedObjects /\ start.count[link] > 0 /\ old \in SharedObjects /\ start.count[old] > 0
      BY <1>3, <1>6, <1>7, <2>4 DEF RefLinks
    <3> DEFINE c == start.count
               c1 == [c EXCEPT ![link] = @ + 1]
               c2 == [c1 EXCEPT ![old] = @ - 1]
               c3 == [c2 EXCEPT ![link] = @ - 1]
               d2 == IF c1[old] = 1 THEN Append(start.dead, old) ELSE start.dead
    <3>2. c \in [SharedObjects -> Nat]
      BY <1>10
    <3>3. acquired = [count |-> c2, dead |-> d2]
      <4> DEFINE a1 == [start EXCEPT !.count[link] = @ + 1]
      <4>1. RefAcquire(start, link) = a1
        BY <2>4 DEF RefAcquire
      <4>2. a1.count = c1 /\ a1.dead = start.dead
        BY <1>10, <3>1
      <4> HIDE DEF a1, c1
      <4>3. RefRelease(a1, old) = [count |-> [a1.count EXCEPT ![old] = @ - 1],
                                   dead |-> IF a1.count[old] = 1 THEN Append(a1.dead, old) ELSE a1.dead]
        BY <2>4 DEF RefRelease
      <4> QED BY <4>1, <4>2, <4>3 DEF RefAssigned
    <3>4. released = [count |-> c3, dead |-> IF c2[link] = 1 THEN Append(d2, link) ELSE d2]
      <4> HIDE DEF c2, d2
      <4>1. acquired.count = c2 /\ acquired.dead = d2
        BY <3>3
      <4> HIDE DEF acquired
      <4> QED BY <2>4, <4>1 DEF RefRelease
    <3>5. heap = [count |-> [c EXCEPT ![old] = @ - 1], dead |-> IF c[old] = 1 THEN Append(start.dead, old) ELSE start.dead]
      BY <2>1, <2>4 DEF RefRelease
    <3> HIDE DEF c
    <3>6. c3 = [c EXCEPT ![old] = @ - 1]
      BY <3>1, <3>2
    <3>7. CASE old = link
      <4>1. c1[old] = c[old] + 1 /\ c1[old] # 1 /\ c2[link] = c[link]
        BY <3>1, <3>2, <3>7 DEF c
      <4> HIDE DEF c1, c2, c3
      <4> QED BY <3>4, <3>5, <3>6, <3>7, <4>1
    <3>8. CASE old # link
      <4>1. c1[old] = c[old] /\ c2[link] = c[link] + 1 /\ c2[link] # 1
        BY <3>1, <3>2, <3>8 DEF c
      <4> HIDE DEF c1, c2, c3
      <4> QED BY <3>4, <3>5, <3>6, <3>8, <4>1
    <3> QED BY <3>7, <3>8
  <2> QED BY <2>2, <2>3, <2>4
<1> HIDE DEF released
<1>12. RefBalanced(stage, heap, after, SharedNull)
  BY <1>9, <1>11
<1>13. /\ RefEnded(stage, heap) \in [SharedObjects -> RefStages]
       /\ SharedDying(RefEnded(stage, heap), [dying EXCEPT ![t] = heap.dead])
       /\ RefBalanced(RefEnded(stage, heap), [count |-> heap.count, dead |-> <<>>], after, SharedNull)
  BY <1>1, <1>12, RefEndKeeps
<1> QED BY <1>1, <1>5, <1>13 DEF SharedKept, after, next

\* A new object, which one pointer holds.
LEMMA RefCreateKeeps ==
    ASSUME NEW stage, NEW count, NEW dying, NEW pointers, NEW meant, NEW t \in SharedThreads, NEW i \in 1..SharedPointers,
           NEW o \in SharedObjects, stage[o] = "unused", SharedKept(stage, count, dying, pointers, meant), dying[t] = <<>>,
           NEW heap, heap = RefRelease([RefHeapOf(count) EXCEPT !.count[o] = 1], pointers[t][i])
    PROVE  SharedKept([RefEnded(stage, heap) EXCEPT ![o] = "alive"], heap.count, [dying EXCEPT ![t] = heap.dead],
                      [pointers EXCEPT ![t][i] = o], meant)
<1> DEFINE next == [pointers EXCEPT ![t][i] = o]
           before == SharedHeld(pointers, meant)
           after == SharedHeld(next, meant)
           old == pointers[t][i]
           start == RefHeapOf(count)
           made == [stage EXCEPT ![o] = "alive"]
           last == [RefEnded(stage, heap) EXCEPT ![o] = "alive"]
<1>1. stage \in [SharedObjects -> RefStages] /\ SharedDying(stage, dying) /\ pointers \in RefPointers /\ meant \in Seq(RefLinks)
  BY DEF SharedKept
<1>2. RefBalanced(stage, start, before, SharedNull)
  BY DEF SharedKept, RefHeapOf
<1>3. o \in RefLinks /\ o # SharedNull
  BY SharedNames DEF RefLinks
<1>4. next \in RefPointers /\ RefSlotSet(before, after, <<t, i>>, old, o)
  BY <1>1, <1>3, PointerSlot
<1>5. old \in RefLinks
  BY <1>1 DEF RefPointers
<1>6. made \in [SharedObjects -> RefStages] /\ made[o] = "alive" /\ \A p \in SharedObjects : p # o => made[p] = stage[p]
  BY <1>1 DEF RefStages
<1>7. start.dead = <<>> /\ Len(start.dead) = 0 /\ start.count \in [SharedObjects -> Nat] /\ \A p : ~RefIsDead(start, p)
  <2>1. start.dead = <<>>
    BY DEF RefHeapOf
  <2> HIDE DEF start
  <2> QED BY <1>2, <2>1 DEF RefBalanced, RefIsDead
<1>8. start.count[o] = 0
  <2> HIDE DEF start
  <2>1. ~RefAlive(stage, start, o)
    BY DEF RefAlive
  <2> QED BY <1>2, <1>3, <1>7, <2>1 DEF RefBalanced
<1> HIDE DEF start, made, next, before, after, old
<1>9. RefBalanced(made, start, before, o)
  <2>1. ASSUME NEW p \in SharedObjects, p # o PROVE start.count[p] > 0 <=> RefAlive(made, start, p)
    <3>1. start.count[p] > 0 <=> RefAlive(stage, start, p)
      BY <1>2, SharedNames DEF RefBalanced
    <3> QED BY <1>6, <2>1, <3>1 DEF RefAlive
  <2> QED BY <1>2, <1>7, <2>1 DEF RefBalanced
<1>10. SharedDying(made, dying)
  <2>1. \A p \in SharedObjects : made[p] = "dying" <=> stage[p] = "dying"
    BY <1>6
  <2> QED BY <1>1, <2>1 DEF SharedDying
<1>11. heap = RefAssigned(start, old, o)
  <2>1. [start EXCEPT !.count[o] = @ + 1] = [start EXCEPT !.count[o] = 1]
    BY <1>8
  <2> QED BY <1>3, <2>1 DEF RefAssigned, RefAcquire, start, old
<1>12. RefBalanced(made, heap, after, SharedNull)
  <2>1. RefAlive(made, start, o)
    BY <1>6, <1>7 DEF RefAlive
  <2>2. o # SharedNull => RefAlive(made, start, o)
    BY <2>1
  <2>3. RefBalanced(made, RefAssigned(start, old, o), after, SharedNull)
    BY <1>3, <1>4, <1>5, <1>9, <2>2, RefExchanged
  <2> QED BY <1>11, <2>3
<1>13. ~RefIsDead(heap, o)
  <2>1. <<t, i>> \in after[o]
    BY <1>4 DEF RefSlotSet
  <2>2. RefAlive(made, heap, o)
    BY <1>12, <2>1, HeldAlive
  <2> QED BY <2>2 DEF RefAlive
<1>14. o \notin ToSet(heap.dead)
  <2>1. heap.dead \in Seq(SharedObjects)
    BY <1>12 DEF RefBalanced
  <2> QED BY <1>13, <2>1 DEF ToSet, RefIsDead
<1>15. last = RefEnded(made, heap)
  <2>1. \A p \in SharedObjects : last[p] = RefEnded(made, heap)[p]
    BY <1>6, <1>14 DEF RefEnded
  <2>2. last = [p \in SharedObjects |-> last[p]] /\ RefEnded(made, heap) = [p \in SharedObjects |-> RefEnded(made, heap)[p]]
    BY DEF RefEnded
  <2> HIDE DEF last
  <2> QED BY <2>1, <2>2
<1>16. /\ RefEnded(made, heap) \in [SharedObjects -> RefStages]
       /\ SharedDying(RefEnded(made, heap), [dying EXCEPT ![t] = heap.dead])
       /\ RefBalanced(RefEnded(made, heap), [count |-> heap.count, dead |-> <<>>], after, SharedNull)
  BY <1>6, <1>10, <1>12, RefEndKeeps
<1> HIDE DEF last
<1>17. SharedKept(last, heap.count, [dying EXCEPT ![t] = heap.dead], next, meant)
  BY <1>1, <1>4, <1>15, <1>16 DEF SharedKept, after
<1> QED BY <1>17 DEF last, next

\* The first object a thread has to destroy is gone.
LEMMA RefDestroyKeeps ==
    ASSUME NEW stage, NEW count, NEW dying, NEW pointers, NEW meant, NEW t \in SharedThreads,
           SharedKept(stage, count, dying, pointers, meant), dying[t] # <<>>
    PROVE  SharedKept([stage EXCEPT ![Head(dying[t])] = "unused"], count, [dying EXCEPT ![t] = Tail(@)], pointers, meant)
<1> DEFINE line == dying[t]
           d == line[1]
           rest == Tail(line)
           last == [stage EXCEPT ![d] = "unused"]
           late == [dying EXCEPT ![t] = rest]
           heap == RefHeapOf(count)
           holders == SharedHeld(pointers, meant)
<1>1. /\ stage \in [SharedObjects -> RefStages] /\ SharedDying(stage, dying) /\ pointers \in RefPointers /\ meant \in Seq(RefLinks)
      /\ dying \in [SharedThreads -> Seq(SharedObjects)]
  BY DEF SharedKept, SharedDying
<1>2. line \in Seq(SharedObjects) /\ line # <<>> /\ Len(line) > 0 /\ Head(line) = d /\ d \in SharedObjects
  <2>1. line \in Seq(SharedObjects)
    BY <1>1
  <2> HIDE DEF line
  <2>2. line # <<>>
    BY DEF line
  <2> QED BY <2>1, <2>2, EmptySeq
<1>3. rest \in Seq(SharedObjects) /\ Len(rest) = Len(line) - 1 /\ \A k \in 1..(Len(line) - 1) : rest[k] = line[k + 1]
  <2> HIDE DEF line
  <2> QED BY <1>2
<1>4. DOMAIN line = 1..Len(line) /\ DOMAIN rest = 1..(Len(line) - 1)
  <2> HIDE DEF line, rest
  <2> QED BY <1>2, <1>3
<1>5. late \in [SharedThreads -> Seq(SharedObjects)] /\ late[t] = rest /\ \A u \in SharedThreads : u # t => late[u] = dying[u]
  <2> HIDE DEF rest
  <2> QED BY <1>1, <1>3
<1>6. last \in [SharedObjects -> RefStages] /\ last[d] = "unused" /\ \A p \in SharedObjects : p # d => last[p] = stage[p]
  <2> HIDE DEF d
  <2> QED BY <1>1, <1>2 DEF RefStages
<1>7. stage[d] = "dying"
  <2>1. 1 \in DOMAIN line
    BY <1>2, <1>4
  <2>2. 1 \in DOMAIN dying[t] /\ dying[t][1] = d
    BY <2>1
  <2> HIDE DEF d
  <2> QED BY <1>1, <1>2, <2>2 DEF SharedDying
<1>8. ASSUME NEW o \in SharedObjects, NEW u \in SharedThreads, NEW k \in DOMAIN late[u], late[u][k] = o
      PROVE  /\ \E l \in DOMAIN dying[u] : dying[u][l] = o /\ l = IF u = t THEN k + 1 ELSE k
             /\ o # d
  <2>1. CASE u = t
    <3>1. k \in 1..(Len(line) - 1) /\ rest[k] = o
      BY <1>4, <1>5, <1>8, <2>1
    <3>2. k + 1 \in DOMAIN line /\ line[k + 1] = o /\ 1 \in DOMAIN line /\ k + 1 # 1
      BY <1>2, <1>3, <1>4, <3>1
    <3>3. k + 1 \in DOMAIN dying[t] /\ dying[t][k + 1] = o /\ 1 \in DOMAIN dying[t] /\ dying[t][1] = d
      BY <3>2
    <3>4. o # d
      <4> SUFFICES ASSUME o = d PROVE FALSE
        OBVIOUS
      <4>1. dying[t][1] = o
        BY <3>3
      <4>2. k + 1 = 1
        BY <1>1, <3>3, <4>1 DEF SharedDying
      <4> QED BY <3>2, <4>2
    <3> QED BY <2>1, <3>3, <3>4
  <2>2. CASE u # t
    <3>1. k \in DOMAIN dying[u] /\ dying[u][k] = o
      BY <1>5, <1>8, <2>2
    <3>2. 1 \in DOMAIN dying[t] /\ dying[t][1] = d
      BY <1>2, <1>4
    <3>3. o # d
      <4> SUFFICES ASSUME o = d PROVE FALSE
        OBVIOUS
      <4>1. dying[t][1] = o
        BY <3>2
      <4>2. u = t
        BY <1>1, <3>1, <3>2, <4>1 DEF SharedDying
      <4> QED BY <2>2, <4>2
    <3> QED BY <2>2, <3>1, <3>3
  <2> QED BY <2>1, <2>2
<1>9. ASSUME NEW o \in SharedObjects, last[o] = "dying" PROVE \E u \in SharedThreads : \E k \in DOMAIN late[u] : late[u][k] = o
  <2>1. o # d /\ stage[o] = "dying"
    BY <1>6, <1>9
  <2>2. PICK u \in SharedThreads : \E k \in DOMAIN dying[u] : dying[u][k] = o
    BY <1>1, <2>1 DEF SharedDying
  <2>3. PICK k \in DOMAIN dying[u] : dying[u][k] = o
    BY <2>2
  <2>4. CASE u # t
    BY <1>5, <2>3, <2>4
  <2>5. CASE u = t
    <3>1. k \in 1..Len(line) /\ line[k] = o /\ k # 1
      BY <1>4, <2>1, <2>3, <2>5
    <3>2. k - 1 \in DOMAIN rest /\ rest[k - 1] = o
      <4>1. k - 1 \in 1..(Len(line) - 1) /\ (k - 1) + 1 = k
        BY <3>1, <1>2
      <4>2. rest[k - 1] = line[(k - 1) + 1]
        BY <1>3, <4>1
      <4> QED BY <1>4, <3>1, <4>1, <4>2
    <3> QED BY <1>5, <3>2
  <2> QED BY <2>4, <2>5
<1> HIDE DEF line, d, rest, last, late
<1>10. SharedDying(last, late)
  <2>1. ASSUME NEW o \in SharedObjects, NEW u \in SharedThreads, NEW k \in DOMAIN late[u], late[u][k] = o PROVE last[o] = "dying"
    <3>1. stage[o] = "dying" /\ o # d
      BY <1>1, <1>8, <2>1 DEF SharedDying
    <3> QED BY <1>6, <3>1
  <2>2. ASSUME NEW o \in SharedObjects, NEW u \in SharedThreads, NEW v \in SharedThreads, NEW k \in DOMAIN late[u], NEW l \in DOMAIN late[v],
               late[u][k] = o, late[v][l] = o
        PROVE  u = v /\ k = l
    <3>1. PICK a \in DOMAIN dying[u] : dying[u][a] = o /\ a = IF u = t THEN k + 1 ELSE k
      BY <1>8, <2>2
    <3>2. PICK b \in DOMAIN dying[v] : dying[v][b] = o /\ b = IF v = t THEN l + 1 ELSE l
      BY <1>8, <2>2
    <3>3. u = v /\ a = b
      BY <1>1, <3>1, <3>2 DEF SharedDying
    <3>4. k \in Int /\ l \in Int
      BY <1>5, <2>2
    <3> QED BY <3>1, <3>2, <3>3, <3>4
  <2> QED BY <1>5, <1>9, <2>1, <2>2 DEF SharedDying
<1>11. RefBalanced(last, heap, holders, SharedNull)
  <2>1. RefBalanced(stage, heap, holders, SharedNull)
    BY DEF SharedKept, RefHeapOf
  <2>2. heap.dead = <<>> /\ Len(heap.dead) = 0 /\ \A p : ~RefIsDead(heap, p)
    <3>1. heap.dead = <<>>
      BY DEF RefHeapOf
    <3> HIDE DEF heap
    <3> QED BY <3>1 DEF RefIsDead
  <2> HIDE DEF heap, holders
  <2>3. ASSUME NEW p \in SharedObjects PROVE RefAlive(last, heap, p) <=> RefAlive(stage, heap, p)
    BY <1>6, <1>7 DEF RefAlive
  <2> QED BY <2>1, <2>2, <2>3 DEF RefBalanced
<1>12. SharedKept(last, count, late, pointers, meant)
  BY <1>1, <1>6, <1>10, <1>11 DEF SharedKept, RefHeapOf
<1>13. late = [dying EXCEPT ![t] = Tail(@)]
  BY DEF late, rest, line
<1> QED BY <1>2, <1>12, <1>13 DEF last, line

----------------------------------------------------------------------------
\* The invariant

\* The array as the calls leave it.
SharedPlaced(data, count, meant) ==
    /\ meant \in Seq(RefLinks) /\ count = Len(meant) /\ count <= SharedLength
    /\ data \in Seq(SharedSlots) /\ data = SharedArray(Len(data), 0, meant)
    /\ count <= IF data = <<>> THEN 0 ELSE Len(data) - 1
SharedInv ==
    /\ SharedPlaced(sharedData, sharedCount, sharedMeant)
    /\ SharedKept(refStage, refCount, refDying, refPointers, sharedMeant)
\* The memory a call works in.
SharedMemory(needs) == IF needs <= SharedSize THEN sharedData ELSE sharedData \o SharedBlock(needs)

\* The memory a call works in has the elements at its beginning and room for those it needs.
LEMMA SharedMemoryIs ==
    ASSUME SharedPlaced(sharedData, sharedCount, sharedMeant), NEW needs \in Nat
    PROVE  /\ SharedMemory(needs) \in Seq(SharedSlots) /\ Len(SharedMemory(needs)) \in Nat
           /\ SharedMemory(needs) = SharedArray(Len(SharedMemory(needs)), 0, sharedMeant)
           /\ SharedBase(needs) \in Nat /\ (SharedBase(needs) = 0 \/ sharedCount <= SharedBase(needs))
           /\ SharedBase(needs) + needs <= Len(SharedMemory(needs)) /\ SharedBase(needs) + sharedCount <= Len(SharedMemory(needs))
           /\ needs > 0 \/ sharedCount > 0 => /\ SharedBase(needs) + needs < Len(SharedMemory(needs))
                                              /\ SharedBase(needs) + sharedCount < Len(SharedMemory(needs))
<1> DEFINE s == sharedMeant
           data == sharedData
           d == Len(data)
           size == IF data = <<>> THEN 0 ELSE d - 1
           room == 2 + needs + (needs \div 4) + 1
           memory == SharedMemory(needs)
           m == Len(memory)
           base == SharedBase(needs)
           block == SharedBlock(needs)
<1>1. /\ s \in Seq(RefLinks) /\ sharedCount = Len(s) /\ data \in Seq(SharedSlots) /\ data = SharedArray(d, 0, s) /\ Len(s) <= size
  BY DEF SharedPlaced
<1>2. d \in Nat /\ (data = <<>> <=> d = 0)
  BY <1>1, EmptySeq
<1>3. SharedSize = size /\ size \in Nat /\ size <= d /\ (d > 0 => size < d) /\ Len(s) \in Nat /\ Len(s) <= d /\ (d = 0 => size = 0)
  BY <1>1, <1>2 DEF SharedSize
<1>4. room \in Nat /\ room > needs + 1
  <2>1. needs \div 4 \in Nat
    OBVIOUS
  <2> DEFINE q == needs \div 4
  <2> HIDE DEF q
  <2>2. q \in Nat => 2 + needs + q + 1 \in Nat /\ 2 + needs + q + 1 > needs + 1
    OBVIOUS
  <2> QED BY <2>1, <2>2 DEF q
<1> HIDE DEF room
<1>5. block \in Seq(SharedSlots) /\ Len(block) = room /\ \A i \in 1..room : block[i] = SharedRaw
  <2>1. block = [i \in 1..room |-> SharedRaw]
    BY DEF SharedBlock, room
  <2>2. SharedRaw \in SharedSlots
    BY DEF SharedSlots
  <2> HIDE DEF block
  <2> QED BY <1>4, <2>1, <2>2
<1> HIDE DEF s, data, d, size, memory, base, block
<1>6. CASE needs <= size
  <2>1. memory = data /\ base = 0 /\ m = d
    BY <1>3, <1>6 DEF memory, base, SharedMemory, SharedBase, data, d
  <2>2. memory \in Seq(SharedSlots) /\ m \in Nat /\ memory = SharedArray(m, 0, s)
    BY <1>1, <1>2, <2>1
  <2>3. /\ base \in Nat /\ base + needs <= m /\ base + sharedCount <= m
        /\ needs > 0 \/ sharedCount > 0 => base + needs < m /\ base + sharedCount < m
    BY <1>1, <1>3, <1>6, <2>1
  <2> QED BY <2>1, <2>2, <2>3 DEF memory, base, s
<1>7. CASE ~(needs <= size)
  <2>1. memory = data \o block /\ base = d
    BY <1>3, <1>7 DEF memory, base, SharedMemory, SharedBase, data, d, block
  <2>2. memory \in Seq(SharedSlots) /\ m = d + room /\ \A p \in 1..(d + room) : memory[p] = IF p <= d THEN data[p] ELSE block[p - d]
    BY <1>1, <1>5, <2>1, ConcatProperties DEF d
  <2>3. m \in Nat
    BY <1>2, <1>4, <2>2
  <2>4. \A p \in 1..d : data[p] = IF p - 0 \in 1..Len(s) THEN s[p - 0] ELSE SharedRaw
    <3> DEFINE z == SharedArray(d, 0, s)
    <3>1. \A p \in 1..d : z[p] = IF p - 0 \in 1..Len(s) THEN s[p - 0] ELSE SharedRaw
      BY DEF SharedArray
    <3>2. data = z
      BY <1>1
    <3> HIDE DEF z
    <3> QED BY <3>1, <3>2
  <2> HIDE DEF m
  <2>5. ASSUME NEW p \in 1..m PROVE memory[p] = IF p - 0 \in 1..Len(s) THEN s[p - 0] ELSE SharedRaw
    <3>1. CASE p <= d
      <4>1. p \in 1..d
        BY <1>2, <2>3, <3>1
      <4> QED BY <2>2, <2>4, <3>1, <4>1
    <3>2. CASE ~(p <= d)
      <4>1. p - d \in 1..room /\ p - 0 \notin 1..Len(s)
        BY <1>2, <1>3, <1>4, <2>2, <2>3, <3>2
      <4> QED BY <1>5, <2>2, <3>2, <4>1
    <3> QED BY <3>1, <3>2
  <2>6. memory = SharedArray(m, 0, s)
    <3>1. Len(memory) = m /\ 0 \in Nat
      BY DEF m
    <3> QED BY <1>1, <2>2, <2>3, <2>5, <3>1, SharedArrayEqual
  <2>7. /\ base \in Nat /\ (base = 0 \/ sharedCount <= base) /\ base + needs < m /\ base + sharedCount < m
        /\ base + needs <= m /\ base + sharedCount <= m
    BY <1>1, <1>2, <1>3, <1>4, <1>7, <2>1, <2>2
  <2> QED BY <2>2, <2>3, <2>6, <2>7 DEF memory, base, s, m
<1> QED BY <1>6, <1>7

\* The new block alone.
LEMMA SharedArrayCut ==
    ASSUME NEW m \in Nat, NEW base \in Nat, base <= m, NEW s \in Seq(RefLinks)
    PROVE  /\ SubSeq(SharedArray(m, base, s), base + 1, m) = SharedArray(m - base, 0, s)
           /\ Len(SubSeq(SharedArray(m, base, s), base + 1, m)) = m - base
<1> DEFINE a == SharedArray(m, base, s)
           c == SubSeq(a, base + 1, m)
           k == m - base
<1>1. a \in Seq(SharedSlots) /\ Len(a) = m /\ \A p \in 1..m : a[p] = IF p - base \in 1..Len(s) THEN s[p - base] ELSE SharedRaw
  <2>1. a \in Seq(SharedSlots) /\ Len(a) = m
    BY SharedArrayIs
  <2>2. \A p \in 1..m : a[p] = IF p - base \in 1..Len(s) THEN s[p - base] ELSE SharedRaw
    BY DEF SharedArray
  <2> QED BY <2>1, <2>2
<1> HIDE DEF a
<1>2. (\A i \in (base + 1)..m : a[i] \in SharedSlots) /\ base + 1 \in Int /\ m \in Int
  BY <1>1
<1>3. c \in Seq(SharedSlots) /\ Len(c) = (IF base + 1 <= m THEN m - (base + 1) + 1 ELSE 0) /\ \A i \in 1..(m - (base + 1) + 1) : c[i] = a[base + 1 + i - 1]
  BY <1>2, SubSeqProperties
<1>4. k \in Nat /\ Len(c) = k
  BY <1>3
<1> HIDE DEF c
<1>5. ASSUME NEW p \in 1..k PROVE c[p] = IF p - 0 \in 1..Len(s) THEN s[p - 0] ELSE SharedRaw
  <2>1. p \in 1..(m - (base + 1) + 1) /\ base + 1 + p - 1 = base + p /\ base + p \in 1..m /\ (base + p) - base = p /\ p - 0 = p
    OBVIOUS
  <2> QED BY <1>1, <1>3, <2>1
<1> HIDE DEF k
<1>6. c = SharedArray(k, 0, s)
  <2>1. 0 \in Nat
    OBVIOUS
  <2> QED BY <1>3, <1>4, <1>5, <2>1, SharedArrayEqual, ZenonT(60)
<1> QED BY <1>4, <1>6 DEF c, a, k

\* What a call does with the elements, in the memory it works in, leaves those that it means.
SharedWorks(links, needs, steps, meant) ==
    LET m == Len(SharedMemory(needs))
    IN  SharedLeads(links, SharedArray(m, 0, sharedMeant), steps, SharedArray(m, SharedBase(needs), meant))

\* A call that works, with the pointers and the counts it leaves to its thread, keeps the invariant.
LEMMA SharedCallKeeps ==
    ASSUME SharedInv, NEW t \in SharedThreads, refDying[t] = <<>>, NEW needs \in Nat, NEW links \in SUBSET RefLinks,
           NEW pointers \in RefPointers, SharedOffers(pointers, links),
           NEW meant \in Seq(RefLinks), NEW n, n = Len(meant), n <= SharedLength, n <= needs \/ n <= sharedCount,
           NEW heap, RefBalanced(refStage, heap, SharedHeld(pointers, sharedMeant), SharedNull),
           NEW steps, SharedWorks(links, needs, steps, meant),
           SharedCall(t, needs, steps, n, pointers, heap, meant)
    PROVE  SharedInv'
<1> DEFINE memory == SharedMemory(needs)
           m == Len(memory)
           base == SharedBase(needs)
           left == SharedArray(m, base, meant)
           done == SharedRun([heap |-> heap, data |-> memory], steps)
           cut == SubSeq(done.data, base + 1, Len(done.data))
<1>1. SharedPlaced(sharedData, sharedCount, sharedMeant) /\ SharedKept(refStage, refCount, refDying, refPointers, sharedMeant)
  BY DEF SharedInv
<1>2. /\ sharedMeant \in Seq(RefLinks) /\ sharedCount = Len(sharedMeant) /\ sharedCount \in Nat
      /\ refStage \in [SharedObjects -> RefStages] /\ SharedDying(refStage, refDying)
  BY <1>1 DEF SharedPlaced, SharedKept
<1>3. /\ memory \in Seq(SharedSlots) /\ m \in Nat /\ memory = SharedArray(m, 0, sharedMeant) /\ base \in Nat
      /\ base + needs <= m /\ base + sharedCount <= m
      /\ needs > 0 \/ sharedCount > 0 => base + needs < m /\ base + sharedCount < m
  BY <1>1, SharedMemoryIs
<1>4. /\ sharedData' = cut
      /\ refCount' = done.heap.count /\ refDying' = [refDying EXCEPT ![t] = done.heap.dead]
      /\ refStage' = RefEnded(refStage, done.heap)
      /\ sharedCount' = n /\ sharedMeant' = meant /\ refPointers' = pointers
  BY DEF SharedCall, RefEnds, RefEnded, SharedMemory
<1>5. SharedLeads(links, memory, steps, left)
  BY <1>3 DEF SharedWorks
<1> HIDE DEF memory, m, base, left, done
<1>6. RefBalanced(refStage, heap, SharedHeld(pointers, memory), SharedNull)
  <2>1. 0 + Len(sharedMeant) <= m /\ 0 \in Nat
    BY <1>2, <1>3
  <2> QED BY <1>2, <1>3, <2>1, BalancedToArray
<1>7. done.data = left /\ left \in Seq(SharedSlots) /\ RefBalanced(refStage, done.heap, SharedHeld(pointers, left), SharedNull)
  BY <1>3, <1>5, <1>6, SharedRunBalanced DEF done
<1>8. n \in Nat /\ base + n <= m /\ (n > 0 => base + n < m)
  BY <1>2, <1>3
<1>9. RefBalanced(refStage, done.heap, SharedHeld(pointers, meant), SharedNull)
  <2>1. base + Len(meant) <= m
    BY <1>8
  <2> QED BY <1>3, <1>7, <2>1, BalancedFromArray DEF left
<1>10. /\ RefEnded(refStage, done.heap) \in [SharedObjects -> RefStages]
       /\ SharedDying(RefEnded(refStage, done.heap), [refDying EXCEPT ![t] = done.heap.dead])
       /\ RefBalanced(RefEnded(refStage, done.heap), [count |-> done.heap.count, dead |-> <<>>], SharedHeld(pointers, meant), SharedNull)
  BY <1>2, <1>9, RefEndKeeps
<1>11. SharedKept(refStage', refCount', refDying', refPointers', sharedMeant')
  BY <1>4, <1>10 DEF SharedKept
<1>12. SharedPlaced(sharedData', sharedCount', sharedMeant')
  <2> DEFINE k == m - base
  <2>1. k \in Nat /\ base <= m /\ (n > 0 => n <= k - 1) /\ Len(left) = m
    <3>1. Len(SharedArray(m, base, meant)) = m
      BY <1>3, SharedArrayIs
    <3>2. k \in Nat /\ base <= m /\ (n > 0 => n <= k - 1)
      BY <1>3, <1>8
    <3> QED BY <3>1, <3>2 DEF left
  <2>2. cut = SharedArray(k, 0, meant) /\ Len(cut) = k
    <3>1. cut = SubSeq(left, base + 1, m)
      BY <1>7, <2>1
    <3>2. /\ SubSeq(SharedArray(m, base, meant), base + 1, m) = SharedArray(m - base, 0, meant)
          /\ Len(SubSeq(SharedArray(m, base, meant), base + 1, m)) = m - base
      BY <1>3, <2>1, SharedArrayCut
    <3> QED BY <3>1, <3>2 DEF left
  <2> HIDE DEF cut, k
  <2>3. cut \in Seq(SharedSlots)
    BY <2>1, <2>2, SharedArrayIs
  <2>4. n <= IF cut = <<>> THEN 0 ELSE Len(cut) - 1
    <3>1. CASE n = 0
      <4>1. cut # <<>> => Len(cut) > 0 /\ Len(cut) \in Nat
        BY <2>3, EmptySeq
      <4> QED BY <3>1, <4>1
    <3>2. CASE n > 0
      <4>1. Len(cut) # 0
        BY <1>8, <2>1, <2>2, <3>2
      <4>2. cut # <<>>
        BY <4>1
      <4> QED BY <1>8, <2>1, <2>2, <3>2, <4>2
    <3> QED BY <1>8, <3>1, <3>2
  <2> QED BY <1>4, <2>2, <2>3, <2>4 DEF SharedPlaced
<1> QED BY <1>11, <1>12 DEF SharedInv

\* Without pointers changed, the counts are those between the calls.
LEMMA SharedCallAlone ==
    ASSUME SharedInv, NEW t \in SharedThreads, refDying[t] = <<>>, NEW needs \in Nat, NEW links \in SUBSET RefLinks,
           SharedOffers(refPointers, links),
           NEW meant \in Seq(RefLinks), NEW n, n = Len(meant), n <= SharedLength, n <= needs \/ n <= sharedCount,
           NEW steps, SharedWorks(links, needs, steps, meant),
           SharedCall(t, needs, steps, n, refPointers, RefHeap, meant)
    PROVE  SharedInv'
<1>1. refPointers \in RefPointers /\ RefBalanced(refStage, RefHeap, SharedHeld(refPointers, sharedMeant), SharedNull)
  BY DEF SharedInv, SharedKept, RefHeap
<1> QED BY <1>1, SharedCallKeeps

----------------------------------------------------------------------------
\* The calls

SharedResized(s, n, link) == [i \in 1..n |-> IF i <= Len(s) THEN s[i] ELSE link]

\* Longer, it begins with the elements there were; shorter, it is the first of them.
LEMMA SharedResizedIs ==
    ASSUME NEW s \in Seq(RefLinks), NEW n \in Nat, NEW link \in RefLinks
    PROVE  /\ SharedResized(s, n, link) \in Seq(RefLinks) /\ Len(SharedResized(s, n, link)) = n
           /\ n >= Len(s) => SubSeq(SharedResized(s, n, link), 1, Len(s)) = s
           /\ n <= Len(s) => SharedResized(s, n, link) = SubSeq(s, 1, n)
<1> DEFINE u == SharedResized(s, n, link)
           c == Len(s)
<1>1. c \in Nat /\ \A i \in 1..c : s[i] \in RefLinks
  OBVIOUS
<1> HIDE DEF c
<1>2. \A i \in 1..n : u[i] = IF i <= c THEN s[i] ELSE link
  BY DEF SharedResized, c
<1>3. u \in [1..n -> RefLinks]
  <2>1. \A i \in 1..n : (IF i <= c THEN s[i] ELSE link) \in RefLinks
    BY <1>1
  <2> QED BY <2>1 DEF SharedResized, c
<1> HIDE DEF u
<1>4. u \in Seq(RefLinks) /\ Len(u) = n
  BY <1>3
<1>5. ASSUME n >= c PROVE SubSeq(u, 1, c) = s
  <2> DEFINE v == SubSeq(u, 1, c)
  <2>1. (\A i \in 1..c : u[i] \in RefLinks) /\ 1 \in Int /\ c \in Int
    BY <1>1, <1>2, <1>5
  <2>2. v \in Seq(RefLinks) /\ Len(v) = c /\ \A i \in 1..c : v[i] = u[i]
    BY <1>1, <2>1, SubSeqProperties
  <2> HIDE DEF v
  <2>3. Len(s) = Len(v) /\ \A i \in 1..Len(v) : v[i] = s[i]
    BY <1>1, <1>2, <1>5, <2>2 DEF c
  <2>4. v = s
    BY <2>2, <2>3, SeqEqual
  <2> QED BY <2>4 DEF v
<1>6. ASSUME n <= c PROVE u = SubSeq(s, 1, n)
  <2> DEFINE v == SubSeq(s, 1, n)
  <2>1. (\A i \in 1..n : s[i] \in RefLinks) /\ 1 \in Int /\ n \in Int
    BY <1>1, <1>6
  <2>2. v \in Seq(RefLinks) /\ Len(v) = n /\ \A i \in 1..n : v[i] = s[i]
    BY <1>1, <2>1, SubSeqProperties
  <2> HIDE DEF v
  <2>3. Len(u) = Len(v) /\ \A i \in 1..Len(u) : u[i] = v[i]
    BY <1>1, <1>2, <1>4, <1>6, <2>2
  <2>4. u = v
    BY <1>4, <2>2, <2>3, SeqEqual
  <2> QED BY <2>4 DEF v
<1> QED BY <1>4, <1>5, <1>6 DEF u, c

\* resize: reserve, then construct what is missing, then destroy what is too much.
LEMMA LeadsResized ==
    ASSUME NEW links \in SUBSET RefLinks, NEW link \in links, NEW n \in Nat, NEW m \in Nat, NEW s \in Seq(RefLinks), sharedCount = Len(s),
           NEW base \in Nat, base = SharedBase(n), base + n <= m, base + Len(s) <= m, base = 0 \/ Len(s) <= base,
           NEW made, \A i \in (Len(s) + 1)..n : made[i] = SharedMake(base + i, link),
           NEW ended, \A i \in (n + 1)..Len(s) : ended[i] = SharedEnd(base + i)
    PROVE  SharedLeads(links, SharedArray(m, 0, s), SharedReserve(n) \o SharedUp(Len(s) + 1, n, made) \o SharedDown(n + 1, Len(s), ended),
                       SharedArray(m, base, SharedResized(s, n, link)))
<1> DEFINE c == Len(s)
           u == SharedResized(s, n, link)
           a == SharedArray(m, base, s)
           b == SharedArray(m, base, u)
           up == SharedUp(c + 1, n, made)
           down == SharedDown(n + 1, c, ended)
<1>1. u \in Seq(RefLinks) /\ Len(u) = n /\ (n >= c => SubSeq(u, 1, c) = s) /\ (n <= c => u = SubSeq(s, 1, n)) /\ c \in Nat
  <2>1. link \in RefLinks
    OBVIOUS
  <2>2. c \in Nat
    OBVIOUS
  <2> QED BY <2>1, <2>2, SharedResizedIs
<1>2. \A i \in (c + 1)..n : u[i] = link
  BY DEF SharedResized
<1>3. SharedLeads(links, SharedArray(m, 0, s), SharedReserve(n), a)
  <2>1. SharedBase(n) \in Nat /\ SharedBase(n) + Len(s) <= m /\ (SharedBase(n) = 0 \/ Len(s) <= SharedBase(n))
    OBVIOUS
  <2>2. SharedLeads(links, SharedArray(m, 0, s), SharedReserve(n), SharedArray(m, SharedBase(n), s))
    BY <2>1, LeadsReserved
  <2> QED BY <2>2
<1>4. a \in Seq(SharedSlots) /\ b \in Seq(SharedSlots)
  BY <1>1, SharedArrayIs
<1> HIDE DEF u
<1>5. ASSUME n >= c PROVE SharedLeads(links, a, up, b) /\ SharedLeads(links, b, down, b)
  <2>1. SharedLeads(links, a, up, b)
    <3>1. base + Len(u) <= m /\ c \in 0..Len(u) /\ \A i \in (c + 1)..Len(u) : u[i] \in links /\ made[i] = SharedMake(base + i, u[i])
      BY <1>1, <1>2, <1>5
    <3> HIDE DEF c
    <3>2. SharedLeads(links, SharedArray(m, base, SubSeq(u, 1, c)), SharedUp(c + 1, Len(u), made), SharedArray(m, base, u))
      BY <1>1, <3>1, LeadsMade
    <3> QED BY <1>1, <1>5, <3>2
  <2>2. down = <<>>
    BY <1>1, <1>5 DEF SharedDown
  <2> QED BY <1>4, <2>1, <2>2, LeadsNothing
<1>6. ASSUME ~(n >= c) PROVE SharedLeads(links, a, up, a) /\ SharedLeads(links, a, down, b)
  <2>1. SharedLeads(links, a, down, b)
    <3>1. n \in 0..Len(s) /\ \A i \in (n + 1)..Len(s) : ended[i] = SharedEnd(base + i)
      BY <1>1, <1>6
    <3>2. SharedLeads(links, SharedArray(m, base, s), SharedDown(n + 1, Len(s), ended), SharedArray(m, base, SubSeq(s, 1, n)))
      BY <3>1, LeadsEnded
    <3>3. u = SubSeq(s, 1, n)
      BY <1>1, <1>6
    <3> QED BY <3>2, <3>3
  <2>2. up = <<>>
    BY <1>1, <1>6 DEF SharedUp
  <2> QED BY <1>4, <2>1, <2>2, LeadsNothing
<1> HIDE DEF a, b, up, down
<1>7. \E mid : SharedLeads(links, a, up, mid) /\ SharedLeads(links, mid, down, b)
  BY <1>5, <1>6
<1>8. PICK mid : SharedLeads(links, a, up, mid) /\ SharedLeads(links, mid, down, b)
  BY <1>7
<1>9. SharedLeads(links, SharedArray(m, 0, s), SharedReserve(n) \o up, mid)
  BY <1>3, <1>8, LeadsThen
<1>10. SharedLeads(links, SharedArray(m, 0, s), SharedReserve(n) \o up \o down, b)
  BY <1>8, <1>9, LeadsThen
<1> QED BY <1>10 DEF b, u, up, down

\* What is known where a call is made.
LEMMA SharedBetweenCalls ==
    ASSUME SharedInv
    PROVE  /\ sharedMeant \in Seq(RefLinks) /\ sharedCount = Len(sharedMeant) /\ sharedCount \in Nat /\ sharedCount <= SharedLength
           /\ refPointers \in RefPointers /\ RefBalanced(refStage, RefHeap, SharedHeld(refPointers, sharedMeant), SharedNull)
           /\ SharedBase(0) = 0
           /\ \A k \in 1..sharedCount : sharedData[k] = sharedMeant[k]
<1>1. /\ sharedMeant \in Seq(RefLinks) /\ sharedCount = Len(sharedMeant) /\ sharedCount \in Nat /\ sharedCount <= SharedLength
      /\ sharedData \in Seq(SharedSlots) /\ sharedData = SharedArray(Len(sharedData), 0, sharedMeant)
      /\ sharedCount <= IF sharedData = <<>> THEN 0 ELSE Len(sharedData) - 1
  BY DEF SharedInv, SharedPlaced
<1>2. refPointers \in RefPointers /\ RefBalanced(refStage, RefHeap, SharedHeld(refPointers, sharedMeant), SharedNull)
  BY DEF SharedInv, SharedKept, RefHeap
<1>3. SharedBase(0) = 0
  BY <1>1 DEF SharedBase, SharedSize
<1>4. ASSUME NEW k \in 1..sharedCount PROVE sharedData[k] = sharedMeant[k]
  <2> DEFINE d == Len(sharedData)
  <2>1. d \in Nat /\ (sharedData = <<>> => d = 0)
    BY <1>1
  <2> HIDE DEF d
  <2>2. k \in 1..d /\ k - 0 = k /\ k \in 1..Len(sharedMeant)
    BY <1>1, <2>1 DEF d
  <2>3. SharedArray(d, 0, sharedMeant)[k] = sharedMeant[k]
    BY <2>2 DEF SharedArray
  <2>4. sharedData = SharedArray(d, 0, sharedMeant)
    BY <1>1 DEF d
  <2> QED BY <2>3, <2>4
<1> QED BY <1>1, <1>2, <1>3, <1>4

\* The links a thread may give.
LEMMA SharedOwn ==
    ASSUME SharedInv, NEW t \in SharedThreads, NEW links \in SUBSET (ToSet(refPointers[t]) \cup {SharedNull})
    PROVE  links \in SUBSET RefLinks /\ SharedOffers(refPointers, links)
<1>1. refPointers[t] \in [1..SharedPointers -> RefLinks]
  BY DEF SharedInv, SharedKept, RefPointers
<1>2. ASSUME NEW l \in links PROVE l \in RefLinks /\ (l = SharedNull \/ \E i \in 1..SharedPointers : l = refPointers[t][i] /\ l \in SharedObjects)
  <2>1. CASE l = SharedNull
    BY <2>1, SharedNames
  <2>2. CASE l # SharedNull
    <3>1. l \in ToSet(refPointers[t])
      BY <2>2
    <3>2. PICK i \in 1..SharedPointers : l = refPointers[t][i]
      BY <1>1, <3>1 DEF ToSet
    <3> QED BY <1>1, <2>2, <3>2 DEF RefLinks
  <2> QED BY <2>1, <2>2
<1> QED BY <1>2 DEF SharedOffers

\* resize and push_back keep the invariant.
LEMMA SharedResizeKeeps ==
    ASSUME SharedInv, NEW t \in SharedThreads, NEW n \in 0..SharedLength, NEW link \in ToSet(refPointers[t]) \cup {SharedNull},
           SharedResize(t, n, link)
    PROVE  SharedInv'
<1> DEFINE s == sharedMeant
           m == Len(SharedMemory(n))
           base == SharedBase(n)
           links == {link}
           made == [i \in 1..n |-> SharedMake(base + i, link)]
           ended == [i \in 1..sharedCount |-> SharedEnd(base + i)]
           u == SharedResized(s, n, link)
           steps == SharedReserve(n) \o SharedUp(sharedCount + 1, n, made) \o SharedDown(n + 1, sharedCount, ended)
<1>1. s \in Seq(RefLinks) /\ sharedCount = Len(s) /\ sharedCount \in Nat
  BY SharedBetweenCalls
<1>2. n \in Nat /\ n <= SharedLength
  OBVIOUS
<1>3. links \in SUBSET RefLinks /\ SharedOffers(refPointers, links) /\ link \in links /\ link \in RefLinks
  BY SharedOwn
<1>4. m \in Nat /\ base \in Nat /\ (base = 0 \/ Len(s) <= base) /\ base + n <= m /\ base + Len(s) <= m
  <2>1. SharedPlaced(sharedData, sharedCount, sharedMeant)
    BY DEF SharedInv
  <2> QED BY <1>1, <1>2, <2>1, SharedMemoryIs
<1>5. refDying[t] = <<>> /\ SharedCall(t, n, steps, n, refPointers, RefHeap, u)
  <2>1. u = [i \in 1..n |-> IF i <= sharedCount THEN sharedMeant[i] ELSE link]
    BY <1>1 DEF SharedResized
  <2> QED BY <2>1, Zenon DEF SharedResize, SharedReady, RefReady
<1>6. SharedLeads(links, SharedArray(m, 0, s), steps, SharedArray(m, base, u))
  <2>1. (\A i \in (Len(s) + 1)..n : made[i] = SharedMake(base + i, link)) /\ (\A i \in (n + 1)..Len(s) : ended[i] = SharedEnd(base + i))
    BY <1>1, <1>2
  <2> HIDE DEF made, ended, s, m
  <2>2. base = SharedBase(n)
    OBVIOUS
  <2> HIDE DEF base
  <2>3. SharedLeads(links, SharedArray(m, 0, s), SharedReserve(n) \o SharedUp(Len(s) + 1, n, made) \o SharedDown(n + 1, Len(s), ended),
                    SharedArray(m, base, SharedResized(s, n, link)))
    BY <1>1, <1>2, <1>3, <1>4, <2>1, <2>2, LeadsResized
  <2> QED BY <1>1, <2>3
<1>7. SharedWorks(links, n, steps, u)
  BY <1>6 DEF SharedWorks
<1>8. u \in Seq(RefLinks) /\ n = Len(u)
  BY <1>1, <1>2, <1>3, SharedResizedIs
<1> HIDE DEF steps, u, links
<1> QED BY <1>2, <1>3, <1>5, <1>7, <1>8, SharedCallAlone

\* So does clear.
LEMMA SharedClearKeeps ==
    ASSUME SharedInv, NEW t \in SharedThreads, SharedClear(t)
    PROVE  SharedInv'
<1> DEFINE s == sharedMeant
           m == Len(SharedMemory(0))
           ended == [i \in 1..sharedCount |-> SharedEnd(i)]
           steps == SharedUp(1, sharedCount, ended)
           u == <<>>
           links == {}
<1>1. s \in Seq(RefLinks) /\ sharedCount = Len(s) /\ sharedCount \in Nat /\ SharedBase(0) = 0
  BY SharedBetweenCalls
<1>2. m \in Nat /\ Len(s) <= m
  <2>1. SharedPlaced(sharedData, sharedCount, sharedMeant) /\ 0 \in Nat
    BY DEF SharedInv
  <2>2. m \in Nat /\ SharedBase(0) + sharedCount <= m
    BY <2>1, SharedMemoryIs
  <2> HIDE DEF m, s
  <2> QED BY <1>1, <2>2
<1>3. links \in SUBSET RefLinks /\ SharedOffers(refPointers, links)
  BY DEF SharedOffers
<1>5. refDying[t] = <<>> /\ SharedCall(t, 0, steps, 0, refPointers, RefHeap, u)
  BY Zenon DEF SharedClear, SharedReady, RefReady
<1>6. SharedLeads(links, SharedArray(m, 0, s), steps, SharedArray(m, 0, u))
  <2>1. \A i \in 1..Len(s) : ended[i] = SharedEnd(i)
    BY <1>1
  <2> HIDE DEF ended, s, m
  <2>2. SharedLeads(links, SharedArray(m, 0, s), SharedUp(1, Len(s), ended), SharedArray(m, 0, <<>>))
    BY <1>1, <1>2, <2>1, LeadsCleared
  <2> QED BY <1>1, <2>2
<1>7. SharedWorks(links, 0, steps, u)
  BY <1>1, <1>6 DEF SharedWorks
<1>8. u \in Seq(RefLinks) /\ 0 = Len(u) /\ 0 \in Nat /\ 0 <= SharedLength /\ 0 <= 0
  BY SharedNames
<1> HIDE DEF steps, u, links
<1> QED BY <1>3, <1>5, <1>7, <1>8, SharedCallAlone

\* So does append.
LEMMA SharedAppendKeeps ==
    ASSUME SharedInv, NEW t \in SharedThreads, NEW links, links = ToSet(refPointers[t]) \cup {SharedNull},
           NEW chain \in Seq(links), SharedAppend(t, chain)
    PROVE  SharedInv'
<1> DEFINE s == sharedMeant
           c == sharedCount
           n == c + Len(chain)
           m == Len(SharedMemory(n))
           base == SharedBase(n)
           made == [i \in (c + 1)..n |-> SharedMake(base + i, chain[i - c])]
           u == s \o chain
           steps == SharedReserve(n) \o SharedUp(c + 1, n, made)
<1>1. s \in Seq(RefLinks) /\ c = Len(s) /\ c \in Nat
  BY SharedBetweenCalls
<1>2. links \in SUBSET RefLinks /\ SharedOffers(refPointers, links)
  <2>1. links \in SUBSET (ToSet(refPointers[t]) \cup {SharedNull})
    OBVIOUS
  <2> QED BY <2>1, SharedOwn
<1>3. chain \in Seq(RefLinks) /\ n \in Nat /\ \A i \in 1..Len(chain) : chain[i] \in links
  BY <1>1, <1>2
<1>4. n <= SharedLength /\ refDying[t] = <<>> /\ SharedCall(t, n, steps, n, refPointers, RefHeap, u)
  BY Zenon DEF SharedAppend, SharedReady, RefReady
<1>5. u \in Seq(RefLinks) /\ Len(u) = n /\ \A i \in 1..n : u[i] = IF i <= c THEN s[i] ELSE chain[i - c]
  BY <1>1, <1>3, ConcatProperties
<1>6. m \in Nat /\ base \in Nat /\ (base = 0 \/ Len(s) <= base) /\ base + n <= m /\ base + Len(s) <= m
  <2>1. SharedPlaced(sharedData, sharedCount, sharedMeant)
    BY DEF SharedInv
  <2> HIDE DEF n, m, base
  <2> QED BY <1>1, <1>3, <2>1, SharedMemoryIs DEF m, base
<1>7. ASSUME NEW i \in (c + 1)..n PROVE u[i] \in links /\ made[i] = SharedMake(base + i, u[i])
  <2>1. i - c \in 1..Len(chain) /\ u[i] = chain[i - c]
    BY <1>1, <1>3, <1>5
  <2> QED BY <1>3, <2>1
<1>8. SubSeq(u, 1, c) = s
  <2> DEFINE v == SubSeq(u, 1, c)
  <2> HIDE DEF u
  <2>1. (\A i \in 1..c : u[i] \in RefLinks) /\ 1 \in Int /\ c \in Int
    BY <1>1, <1>3, <1>5
  <2>2. v \in Seq(RefLinks) /\ Len(v) = c /\ \A i \in 1..c : v[i] = u[i]
    BY <1>1, <2>1, SubSeqProperties
  <2> HIDE DEF v
  <2>3. Len(s) = Len(v) /\ \A i \in 1..Len(v) : v[i] = s[i]
    BY <1>1, <1>3, <1>5, <2>2
  <2>4. v = s
    BY <1>1, <2>2, <2>3, SeqEqual
  <2> QED BY <2>4 DEF v
<1> HIDE DEF u, made, s, c, m
<1>9. SharedLeads(links, SharedArray(m, 0, s), SharedReserve(n), SharedArray(m, base, s))
  <2> HIDE DEF n
  <2>1. sharedCount = Len(s)
    BY <1>1 DEF c
  <2>2. SharedBase(n) \in Nat /\ SharedBase(n) + Len(s) <= m /\ (SharedBase(n) = 0 \/ Len(s) <= SharedBase(n))
    BY <1>6
  <2> QED BY <1>1, <1>6, <2>1, <2>2, LeadsReserved
<1> HIDE DEF base
<1>10. SharedLeads(links, SharedArray(m, base, s), SharedUp(c + 1, n, made), SharedArray(m, base, u))
  <2>1. base + Len(u) <= m /\ c \in 0..Len(u) /\ \A i \in (c + 1)..Len(u) : u[i] \in links /\ made[i] = SharedMake(base + i, u[i])
    BY <1>1, <1>3, <1>5, <1>6, <1>7
  <2>2. SharedLeads(links, SharedArray(m, base, SubSeq(u, 1, c)), SharedUp(c + 1, Len(u), made), SharedArray(m, base, u))
    BY <1>2, <1>5, <1>6, <2>1, LeadsMade
  <2> QED BY <1>5, <1>8, <2>2
<1>11. SharedLeads(links, SharedArray(m, 0, s), steps, SharedArray(m, base, u))
  BY <1>9, <1>10, LeadsThen
<1>12. SharedWorks(links, n, steps, u)
  BY <1>11 DEF SharedWorks, m, base, s
<1> HIDE DEF steps, n
<1>13. n <= n \/ n <= sharedCount
  BY <1>3
<1> QED BY <1>2, <1>3, <1>4, <1>5, <1>12, <1>13, SharedCallAlone

\* A call in the memory there is.
SharedRoom == Len(SharedMemory(0))

\* A call that needs no more memory stays where it is.
LEMMA SharedInPlace ==
    ASSUME SharedInv
    PROVE  SharedRoom \in Nat /\ Len(sharedMeant) <= SharedRoom /\ SharedBase(0) = 0
<1>1. sharedMeant \in Seq(RefLinks) /\ sharedCount = Len(sharedMeant) /\ sharedCount \in Nat /\ SharedBase(0) = 0
  BY SharedBetweenCalls
<1>2. SharedPlaced(sharedData, sharedCount, sharedMeant) /\ 0 \in Nat
  BY DEF SharedInv
<1>3. SharedRoom \in Nat /\ SharedBase(0) + sharedCount <= SharedRoom
  BY <1>2, SharedMemoryIs DEF SharedRoom
<1> QED BY <1>1, <1>3

\* A pointer of the thread takes one of the elements: the counts agree with that pointer.
LEMMA SharedTaken ==
    ASSUME SharedInv, NEW t \in SharedThreads, NEW i \in 1..SharedPointers, NEW k \in 1..sharedCount,
           NEW pointers, pointers = [refPointers EXCEPT ![t][i] = sharedData[k]],
           NEW heap, heap = RefAssigned(RefHeap, refPointers[t][i], sharedData[k])
    PROVE  pointers \in RefPointers /\ RefBalanced(refStage, heap, SharedHeld(pointers, sharedMeant), SharedNull)
<1> DEFINE before == SharedHeld(refPointers, sharedMeant)
           after == SharedHeld(pointers, sharedMeant)
           old == refPointers[t][i]
           new == sharedMeant[k]
<1>1. /\ sharedMeant \in Seq(RefLinks) /\ sharedCount = Len(sharedMeant)
      /\ refPointers \in RefPointers /\ RefBalanced(refStage, RefHeap, before, SharedNull)
      /\ sharedData[k] = new
  BY SharedBetweenCalls
<1>2. new \in RefLinks /\ old \in RefLinks
  <2>1. k \in 1..Len(sharedMeant)
    BY <1>1
  <2>2. new \in RefLinks
    BY <1>1, <2>1
  <2> QED BY <1>1, <2>2 DEF RefPointers
<1>3. pointers \in RefPointers /\ RefSlotSet(before, after, <<t, i>>, old, new)
  <2>1. pointers = [refPointers EXCEPT ![t][i] = new]
    BY <1>1
  <2> HIDE DEF new
  <2>2. /\ [refPointers EXCEPT ![t][i] = new] \in RefPointers
        /\ RefSlotSet(SharedHeld(refPointers, sharedMeant), SharedHeld([refPointers EXCEPT ![t][i] = new], sharedMeant), <<t, i>>,
                      refPointers[t][i], new)
    BY <1>1, <1>2, PointerSlot
  <2> QED BY <2>1, <2>2
<1>4. new # SharedNull => RefAlive(refStage, RefHeap, new)
  <2> SUFFICES ASSUME new # SharedNull PROVE RefAlive(refStage, RefHeap, new)
    OBVIOUS
  <2>1. new \in SharedObjects
    BY <1>2 DEF RefLinks
  <2>2. <<SharedRaw, k>> \in before[new]
    BY <1>1, <2>1 DEF SharedHeld
  <2> HIDE DEF before, new
  <2> QED BY <1>1, <2>1, <2>2, HeldAlive
<1>5. RefBalanced(refStage, RefHeap, before, new)
  BY <1>1, SharedNames DEF RefBalanced
<1>6. heap = RefAssigned(RefHeap, old, new)
  BY <1>1
<1> HIDE DEF before, after, old, new
<1>7. RefBalanced(refStage, RefAssigned(RefHeap, old, new), after, SharedNull)
  BY <1>2, <1>3, <1>4, <1>5, RefExchanged
<1> QED BY <1>3, <1>6, <1>7 DEF after

\* pop_back keeps the invariant: the pointer of the thread is assigned before the element is destroyed.
LEMMA SharedPopKeeps ==
    ASSUME SharedInv, NEW t \in SharedThreads, NEW i \in 1..SharedPointers, SharedPop(t, i)
    PROVE  SharedInv'
<1> DEFINE s == sharedMeant
           c == sharedCount
           last == sharedData[c]
           pointers == [refPointers EXCEPT ![t][i] = last]
           heap == RefAssigned(RefHeap, refPointers[t][i], last)
           u == SubSeq(s, 1, c - 1)
           steps == SharedEnd(c)
           links == {}
           n == c - 1
<1>1. s \in Seq(RefLinks) /\ c = Len(s) /\ c \in Nat /\ c <= SharedLength
  BY SharedBetweenCalls
<1>2. c > 0 /\ refDying[t] = <<>> /\ SharedCall(t, 0, steps, n, pointers, heap, u)
  BY Zenon DEF SharedPop, SharedReady, RefReady
<1>3. pointers \in RefPointers /\ RefBalanced(refStage, heap, SharedHeld(pointers, sharedMeant), SharedNull)
  <2>1. c \in 1..sharedCount
    BY <1>1, <1>2
  <2> QED BY <2>1, SharedTaken
<1>4. links \in SUBSET RefLinks /\ SharedOffers(pointers, links)
  BY DEF SharedOffers
<1>5. u \in Seq(RefLinks) /\ n = Len(u) /\ n \in Nat /\ n <= SharedLength /\ n <= sharedCount
  <2>1. (\A k \in 1..(c - 1) : s[k] \in RefLinks) /\ 1 \in Int /\ c - 1 \in Int
    BY <1>1, <1>2
  <2> HIDE DEF s, c
  <2>2. u \in Seq(RefLinks) /\ Len(u) = IF 1 <= c - 1 THEN c - 1 - 1 + 1 ELSE 0
    BY <2>1, SubSeqProperties
  <2> HIDE DEF u
  <2> QED BY <1>1, <1>2, <2>2, SharedNames DEF c
<1>6. SharedWorks(links, 0, steps, u)
  <2>1. SharedRoom \in Nat /\ Len(s) <= SharedRoom /\ SharedBase(0) = 0
    BY SharedInPlace
  <2> HIDE DEF s
  <2>2. SharedLeads(links, SharedArray(SharedRoom, 0, s), SharedEnd(Len(s)), SharedArray(SharedRoom, 0, SubSeq(s, 1, Len(s) - 1)))
    BY <1>1, <1>2, <2>1, LeadsEndLast
  <2> QED BY <1>1, <2>1, <2>2 DEF SharedWorks, SharedRoom, s
<1> HIDE DEF steps, u, links, pointers, heap, n
<1>7. 0 \in Nat
  OBVIOUS
<1> QED BY <1>2, <1>3, <1>4, <1>5, <1>6, <1>7, SharedCallKeeps

\* A thread that shares an element keeps it.
LEMMA SharedReadKeeps ==
    ASSUME SharedInv, NEW t \in SharedThreads, NEW i \in 1..SharedPointers, NEW k \in 1..sharedCount, SharedRead(t, i, k)
    PROVE  SharedInv'
<1> DEFINE s == sharedMeant
           pointers == [refPointers EXCEPT ![t][i] = sharedData[k]]
           heap == RefAssigned(RefHeap, refPointers[t][i], sharedData[k])
           steps == <<>>
           links == {}
           n == sharedCount
<1>1. s \in Seq(RefLinks) /\ n = Len(s) /\ n \in Nat /\ n <= SharedLength /\ n <= sharedCount
  BY SharedBetweenCalls
<1>2. refDying[t] = <<>> /\ SharedCall(t, 0, steps, n, pointers, heap, s)
  BY Zenon DEF SharedRead, SharedReady, RefReady
<1>3. pointers \in RefPointers /\ RefBalanced(refStage, heap, SharedHeld(pointers, sharedMeant), SharedNull)
  BY SharedTaken
<1>4. links \in SUBSET RefLinks /\ SharedOffers(pointers, links)
  BY DEF SharedOffers
<1>6. SharedWorks(links, 0, steps, s)
  <2>1. SharedRoom \in Nat /\ Len(s) <= SharedRoom /\ SharedBase(0) = 0
    BY SharedInPlace
  <2>2. SharedArray(SharedRoom, 0, s) \in Seq(SharedSlots)
    BY <1>1, <2>1, SharedArrayIs
  <2> HIDE DEF s
  <2>3. SharedLeads(links, SharedArray(SharedRoom, 0, s), <<>>, SharedArray(SharedRoom, 0, s))
    BY <2>2, LeadsNothing
  <2> QED BY <1>1, <2>1, <2>3 DEF SharedWorks, SharedRoom, s
<1> HIDE DEF steps, s, links, pointers, heap, n
<1>7. 0 \in Nat
  OBVIOUS
<1> QED BY <1>1, <1>2, <1>3, <1>4, <1>6, <1>7, SharedCallKeeps

\* remove keeps it.
LEMMA SharedRemoveKeeps ==
    ASSUME SharedInv, NEW t \in SharedThreads, NEW k \in 1..sharedCount, SharedRemove(t, k)
    PROVE  SharedInv'
<1> DEFINE s == sharedMeant
           n == sharedCount - 1
           u == RemoveAt(s, k)
           steps == SharedRemoved(k)
           links == {}
<1>1. s \in Seq(RefLinks) /\ sharedCount = Len(s) /\ sharedCount \in Nat /\ sharedCount <= SharedLength /\ SharedLength \in Nat
  BY SharedBetweenCalls, SharedNames
<1>2. refDying[t] = <<>> /\ SharedCall(t, 0, steps, n, refPointers, RefHeap, u)
  BY Zenon DEF SharedRemove, SharedReady, RefReady
<1>3. links \in SUBSET RefLinks /\ SharedOffers(refPointers, links)
  BY DEF SharedOffers
<1>4. u \in Seq(RefLinks) /\ n = Len(u) /\ n <= SharedLength /\ n <= sharedCount
  <2>1. k \in 1..Len(s)
    BY <1>1
  <2>2. u \in Seq(RefLinks) /\ Len(u) = Len(s) - 1
    BY <1>1, <2>1, RemoveAtIs
  <2> HIDE DEF u, s
  <2> QED BY <1>1, <2>2
<1>5. SharedWorks(links, 0, steps, u)
  <2>1. SharedRoom \in Nat /\ Len(s) <= SharedRoom /\ SharedBase(0) = 0
    BY SharedInPlace
  <2>2. k \in 1..Len(s)
    BY <1>1
  <2> HIDE DEF s
  <2>3. SharedLeads(links, SharedArray(SharedRoom, 0, s), SharedRemoved(k), SharedArray(SharedRoom, 0, RemoveAt(s, k)))
    BY <1>1, <2>1, <2>2, LeadsRemoved
  <2> QED BY <2>1, <2>3 DEF SharedWorks, SharedRoom, s
<1> HIDE DEF steps, u, links, n
<1>7. 0 \in Nat
  OBVIOUS
<1> QED BY <1>2, <1>3, <1>4, <1>5, <1>7, SharedCallAlone

\* remove_unordered keeps it.
LEMMA SharedRemoveUnorderedKeeps ==
    ASSUME SharedInv, NEW t \in SharedThreads, NEW k \in 1..sharedCount, SharedRemoveUnordered(t, k)
    PROVE  SharedInv'
<1> DEFINE s == sharedMeant
           n == sharedCount - 1
           u == SharedWithout(s, k)
           steps == SharedEnd(k) \o (IF k = sharedCount THEN <<>> ELSE SharedMoved(sharedCount, k))
           links == {}
<1>1. s \in Seq(RefLinks) /\ sharedCount = Len(s) /\ sharedCount \in Nat /\ sharedCount <= SharedLength /\ SharedLength \in Nat
  BY SharedBetweenCalls, SharedNames
<1>2. refDying[t] = <<>> /\ SharedCall(t, 0, steps, n, refPointers, RefHeap, u)
  <2>1. u = SubSeq([sharedMeant EXCEPT ![k] = sharedMeant[sharedCount]], 1, sharedCount - 1)
    BY <1>1 DEF SharedWithout
  <2> QED BY <2>1, Zenon DEF SharedRemoveUnordered, SharedReady, RefReady
<1>3. links \in SUBSET RefLinks /\ SharedOffers(refPointers, links)
  BY DEF SharedOffers
<1>4. u \in Seq(RefLinks) /\ n = Len(u) /\ n <= SharedLength /\ n <= sharedCount
  <2>1. k \in 1..Len(s)
    BY <1>1
  <2>2. u \in Seq(RefLinks) /\ Len(u) = Len(s) - 1
    BY <1>1, <2>1, SharedWithoutIs
  <2> HIDE DEF u, s
  <2> QED BY <1>1, <2>2
<1>5. SharedWorks(links, 0, steps, u)
  <2>1. SharedRoom \in Nat /\ Len(s) <= SharedRoom /\ SharedBase(0) = 0
    BY SharedInPlace
  <2>2. k \in 1..Len(s)
    BY <1>1
  <2> HIDE DEF s
  <2>3. SharedLeads(links, SharedArray(SharedRoom, 0, s), steps, SharedArray(SharedRoom, 0, SharedWithout(s, k)))
    BY <1>1, <2>1, <2>2, LeadsWithout
  <2> QED BY <2>1, <2>3 DEF SharedWorks, SharedRoom, s
<1> HIDE DEF steps, u, links, n
<1>7. 0 \in Nat
  OBVIOUS
<1> QED BY <1>2, <1>3, <1>4, <1>5, <1>7, SharedCallAlone

\* The assignment of an array keeps it.
LEMMA SharedAssignKeeps ==
    ASSUME SharedInv, NEW t \in SharedThreads, NEW links, links = ToSet(refPointers[t]) \cup {SharedNull},
           NEW chain \in Seq(links), SharedAssign(t, chain)
    PROVE  SharedInv'
<1> DEFINE s == sharedMeant
           n == Len(chain)
           m == Len(SharedMemory(n))
           base == SharedBase(n)
           made == [i \in 1..n |-> SharedMake(base + i, SharedNull)]
           ended == [i \in 1..sharedCount |-> SharedEnd(base + i)]
           set == [i \in 1..n |-> SharedSet(base + i, chain[i])]
           v == SharedResized(s, n, SharedNull)
           first == SharedReserve(n) \o SharedUp(sharedCount + 1, n, made) \o SharedDown(n + 1, sharedCount, ended)
           steps == first \o SharedUp(1, n, set)
<1>1. s \in Seq(RefLinks) /\ sharedCount = Len(s) /\ sharedCount \in Nat
  BY SharedBetweenCalls
<1>2. links \in SUBSET RefLinks /\ SharedOffers(refPointers, links) /\ SharedNull \in links /\ SharedNull \in RefLinks
  <2>1. links \in SUBSET (ToSet(refPointers[t]) \cup {SharedNull})
    OBVIOUS
  <2> QED BY <2>1, SharedOwn, SharedNames
<1>3. chain \in Seq(RefLinks) /\ n \in Nat
  BY <1>2
<1>4. n <= SharedLength /\ refDying[t] = <<>> /\ SharedCall(t, n, steps, n, refPointers, RefHeap, chain)
  BY Zenon DEF SharedAssign, SharedReady, RefReady
<1>5. m \in Nat /\ base \in Nat /\ (base = 0 \/ Len(s) <= base) /\ base + n <= m /\ base + Len(s) <= m
  <2>1. SharedPlaced(sharedData, sharedCount, sharedMeant)
    BY DEF SharedInv
  <2> HIDE DEF n, m, base
  <2> QED BY <1>1, <1>3, <2>1, SharedMemoryIs DEF m, base
<1>6. (\A i \in (Len(s) + 1)..n : made[i] = SharedMake(base + i, SharedNull)) /\ (\A i \in (n + 1)..Len(s) : ended[i] = SharedEnd(base + i))
  BY <1>1, <1>3
<1>7. \A i \in 1..n : set[i] = SharedSet(base + i, chain[i])
  OBVIOUS
<1>8. v \in Seq(RefLinks) /\ Len(v) = n
  BY <1>1, <1>2, <1>3, SharedResizedIs
<1> HIDE DEF made, ended, set, s, m, n, v
<1>9. SharedLeads(links, SharedArray(m, 0, s), first, SharedArray(m, base, v))
  <2>1. base = SharedBase(n)
    OBVIOUS
  <2> HIDE DEF base
  <2>2. SharedLeads(links, SharedArray(m, 0, s), SharedReserve(n) \o SharedUp(Len(s) + 1, n, made) \o SharedDown(n + 1, Len(s), ended),
                    SharedArray(m, base, SharedResized(s, n, SharedNull)))
    BY <1>1, <1>2, <1>3, <1>5, <1>6, <2>1, LeadsResized
  <2> QED BY <1>1, <2>2 DEF v
<1> HIDE DEF base
<1>10. SharedLeads(links, SharedArray(m, base, v), SharedUp(1, n, set), SharedArray(m, base, chain))
  <2>1. base + Len(v) <= m /\ Len(chain) = Len(v) /\ \A i \in 1..Len(v) : set[i] = SharedSet(base + i, chain[i])
    BY <1>5, <1>7, <1>8 DEF n
  <2>2. SharedLeads(links, SharedArray(m, base, v), SharedUp(1, Len(v), set), SharedArray(m, base, chain))
    BY <1>2, <1>5, <1>8, <2>1, LeadsSetAll
  <2> QED BY <1>8, <2>2
<1> HIDE DEF first
<1>11. SharedLeads(links, SharedArray(m, 0, s), steps, SharedArray(m, base, chain))
  BY <1>9, <1>10, LeadsThen
<1>12. SharedWorks(links, n, steps, chain)
  BY <1>11 DEF SharedWorks, m, base, s
<1> HIDE DEF steps
<1>13. (n <= n \/ n <= sharedCount) /\ n = Len(chain)
  BY <1>3 DEF n
<1> QED BY <1>2, <1>3, <1>4, <1>12, <1>13, SharedCallAlone

\* insert keeps it.
LEMMA SharedInsertKeeps ==
    ASSUME SharedInv, NEW t \in SharedThreads, NEW links, links = ToSet(refPointers[t]) \cup {SharedNull},
           NEW chain \in Seq(links), NEW k \in 1..(sharedCount + 1), SharedInsert(t, k, chain)
    PROVE  SharedInv'
<1> DEFINE s == sharedMeant
           n == sharedCount + Len(chain)
           m == Len(SharedMemory(n))
           base == SharedBase(n)
           u == SharedWith(s, k, chain)
           steps == SharedInserted(k, chain, base)
<1>1. s \in Seq(RefLinks) /\ sharedCount = Len(s) /\ sharedCount \in Nat
  BY SharedBetweenCalls
<1>2. links \in SUBSET RefLinks /\ SharedOffers(refPointers, links)
  <2>1. links \in SUBSET (ToSet(refPointers[t]) \cup {SharedNull})
    OBVIOUS
  <2> QED BY <2>1, SharedOwn
<1>3. chain \in Seq(RefLinks) /\ n \in Nat /\ Len(chain) \in Nat
  BY <1>1, <1>2
<1>4. chain # <<>> /\ n <= SharedLength /\ refDying[t] = <<>> /\ SharedCall(t, n, steps, n, refPointers, RefHeap, u)
  <2>1. u = SubSeq(sharedMeant, 1, k - 1) \o chain \o SubSeq(sharedMeant, k, sharedCount)
    BY <1>1 DEF SharedWith
  <2> HIDE DEF u
  <2> QED BY <2>1, Zenon DEF SharedInsert, SharedReady, RefReady
<1>5. m \in Nat /\ base \in Nat /\ (base = 0 \/ Len(s) <= base) /\ base + n <= m /\ base + Len(s) <= m
  <2>1. SharedPlaced(sharedData, sharedCount, sharedMeant)
    BY DEF SharedInv
  <2> HIDE DEF n, m, base
  <2> QED BY <1>1, <1>3, <2>1, SharedMemoryIs DEF m, base
<1>6. k \in 1..(Len(s) + 1)
  BY <1>1
<1>7. u \in Seq(RefLinks) /\ Len(u) = n
  <2> HIDE DEF s
  <2>1. SharedWith(s, k, chain) \in Seq(RefLinks) /\ Len(SharedWith(s, k, chain)) = Len(s) + Len(chain)
    BY <1>1, <1>3, <1>6, SharedWithIs
  <2> QED BY <1>1, <2>1
<1> HIDE DEF s, m, base
<1>8. SharedLeads(links, SharedArray(m, 0, s), SharedInserted(k, chain, base), SharedArray(m, base, SharedWith(s, k, chain)))
  <2>1. base + Len(s) + Len(chain) <= m
    BY <1>1, <1>3, <1>5
  <2> QED BY <1>1, <1>2, <1>4, <1>5, <1>6, <2>1, LeadsInserted
<1>9. SharedWorks(links, n, steps, u)
  BY <1>8 DEF SharedWorks, m, base, s
<1> HIDE DEF steps, u, n
<1>10. n <= n \/ n <= sharedCount
  BY <1>3
<1> QED BY <1>2, <1>3, <1>4, <1>7, <1>9, <1>10, SharedCallAlone

\* What a thread does with its own pointers keeps the invariant.
LEMMA SharedPointersStep ==
    ASSUME SharedInv, NEW t \in SharedThreads, NEW i \in 1..SharedPointers, NEW j \in 1..SharedPointers,
           RefCreate(t, i) \/ RefClear(t, i) \/ RefAssign(t, i, j) \/ RefMove(t, i, j)
    PROVE  SharedInv'
<1> DEFINE start == RefHeapOf(refCount)
<1>1. /\ SharedPlaced(sharedData, sharedCount, sharedMeant) /\ SharedKept(refStage, refCount, refDying, refPointers, sharedMeant)
      /\ refPointers \in RefPointers
  BY DEF SharedInv, SharedKept
<1>2. start = RefHeap
  BY DEF RefHeapOf, RefHeap
<1>3. /\ refDying[t] = <<>>
      /\ sharedData' = sharedData /\ sharedCount' = sharedCount /\ sharedMeant' = sharedMeant
  BY DEF RefCreate, RefClear, RefAssign, RefMove, RefReady
<1>4. refPointers[t][i] \in RefLinks /\ refPointers[t][j] \in RefLinks /\ SharedNull \in RefLinks
  BY <1>1, SharedNames DEF RefPointers
<1> HIDE DEF start
<1>5. SharedKept(refStage', refCount', refDying', refPointers', sharedMeant)
  <2>1. CASE RefCreate(t, i)
    <3>1. PICK o \in SharedObjects :
             /\ refStage[o] = "unused"
             /\ refPointers' = [refPointers EXCEPT ![t][i] = o]
             /\ LET heap == RefRelease([RefHeap EXCEPT !.count[o] = 1], refPointers[t][i])
                IN  /\ refCount' = heap.count
                    /\ refDying' = [refDying EXCEPT ![t] = heap.dead]
                    /\ refStage' = [[p \in SharedObjects |-> IF p \in ToSet(heap.dead) THEN "dying" ELSE refStage[p]] EXCEPT ![o] = "alive"]
      BY <2>1 DEF RefCreate
    <3> DEFINE heap == RefRelease([start EXCEPT !.count[o] = 1], refPointers[t][i])
    <3>2. /\ refCount' = heap.count /\ refDying' = [refDying EXCEPT ![t] = heap.dead]
          /\ refStage' = [RefEnded(refStage, heap) EXCEPT ![o] = "alive"]
      BY <1>2, <3>1 DEF RefEnded
    <3>3. heap = RefRelease([RefHeapOf(refCount) EXCEPT !.count[o] = 1], refPointers[t][i])
      BY DEF start
    <3> HIDE DEF heap
    <3>4. SharedKept([RefEnded(refStage, heap) EXCEPT ![o] = "alive"], heap.count, [refDying EXCEPT ![t] = heap.dead],
                     [refPointers EXCEPT ![t][i] = o], sharedMeant)
      BY <1>1, <1>3, <3>1, <3>3, RefCreateKeeps
    <3> QED BY <3>1, <3>2, <3>4
  <2>2. CASE RefClear(t, i)
    <3> DEFINE heap == RefRelease(start, refPointers[t][i])
    <3>1. /\ refPointers' = [refPointers EXCEPT ![t][i] = SharedNull] /\ refCount' = heap.count
          /\ refDying' = [refDying EXCEPT ![t] = heap.dead] /\ refStage' = RefEnded(refStage, heap)
      BY <1>2, <2>2 DEF RefClear, RefEnds, RefEnded
    <3>2. heap = RefAssigned(RefHeapOf(refCount), refPointers[t][i], SharedNull)
      BY DEF RefAssigned, RefAcquire, start
    <3> HIDE DEF heap
    <3>3. SharedNull # SharedNull => RefAlive(refStage, RefHeapOf(refCount), SharedNull)
      OBVIOUS
    <3>4. SharedKept(RefEnded(refStage, heap), heap.count, [refDying EXCEPT ![t] = heap.dead],
                     [refPointers EXCEPT ![t][i] = SharedNull], sharedMeant)
      BY <1>1, <1>3, <1>4, <3>2, <3>3, RefAssignKeeps
    <3> QED BY <3>1, <3>4
  <2>3. CASE RefAssign(t, i, j)
    <3> DEFINE new == refPointers[t][j]
               heap == RefAssigned(start, refPointers[t][i], new)
    <3>1. /\ refPointers' = [refPointers EXCEPT ![t][i] = new] /\ refCount' = heap.count
          /\ refDying' = [refDying EXCEPT ![t] = heap.dead] /\ refStage' = RefEnded(refStage, heap)
      BY <1>2, <2>3 DEF RefAssign, RefEnds, RefEnded
    <3>2. heap = RefAssigned(RefHeapOf(refCount), refPointers[t][i], new)
      BY DEF start
    <3> HIDE DEF heap
    <3>3. new # SharedNull => RefAlive(refStage, RefHeapOf(refCount), new)
      <4> SUFFICES ASSUME new # SharedNull PROVE RefAlive(refStage, RefHeapOf(refCount), new)
        OBVIOUS
      <4>1. new \in SharedObjects
        BY <1>4 DEF RefLinks
      <4>2. <<t, j>> \in SharedHeld(refPointers, sharedMeant)[new]
        BY <4>1 DEF SharedHeld
      <4>3. RefBalanced(refStage, RefHeapOf(refCount), SharedHeld(refPointers, sharedMeant), SharedNull)
        BY <1>1 DEF SharedKept, RefHeapOf
      <4> HIDE DEF new
      <4> QED BY <4>1, <4>2, <4>3, HeldAlive
    <3>4. new \in RefLinks
      BY <1>4
    <3> HIDE DEF new
    <3>5. SharedKept(RefEnded(refStage, heap), heap.count, [refDying EXCEPT ![t] = heap.dead],
                     [refPointers EXCEPT ![t][i] = new], sharedMeant)
      BY <1>1, <1>3, <3>2, <3>3, <3>4, RefAssignKeeps
    <3> QED BY <3>1, <3>5
  <2>4. CASE RefMove(t, i, j)
    <3> DEFINE heap == RefRelease(start, refPointers[t][i])
    <3>1. /\ refPointers' = [refPointers EXCEPT ![t] = [@ EXCEPT ![i] = refPointers[t][j], ![j] = SharedNull]] /\ refCount' = heap.count
          /\ refDying' = [refDying EXCEPT ![t] = heap.dead] /\ refStage' = RefEnded(refStage, heap)
      BY <1>2, <2>4 DEF RefMove, RefEnds, RefEnded
    <3>2. heap = RefRelease(RefHeapOf(refCount), refPointers[t][i])
      BY DEF start
    <3> HIDE DEF heap
    <3>4. SharedKept(RefEnded(refStage, heap), heap.count, [refDying EXCEPT ![t] = heap.dead],
                     [refPointers EXCEPT ![t] = [@ EXCEPT ![i] = refPointers[t][j], ![j] = SharedNull]], sharedMeant)
      BY <1>1, <1>3, <3>2, RefMoveKeeps
    <3> QED BY <3>1, <3>4
  <2> QED BY <2>1, <2>2, <2>3, <2>4
<1> QED BY <1>1, <1>3, <1>5 DEF SharedInv

\* The end of ref_release, where an object is destroyed and freed, keeps it.
LEMMA SharedDestroyStep ==
    ASSUME SharedInv, NEW t \in SharedThreads, RefDestroy(t)
    PROVE  SharedInv'
<1>1. SharedPlaced(sharedData, sharedCount, sharedMeant) /\ SharedKept(refStage, refCount, refDying, refPointers, sharedMeant)
  BY DEF SharedInv
<1>2. /\ refDying[t] # <<>>
      /\ refStage' = [refStage EXCEPT ![Head(refDying[t])] = "unused"] /\ refDying' = [refDying EXCEPT ![t] = Tail(@)]
      /\ refCount' = refCount /\ refPointers' = refPointers
      /\ sharedData' = sharedData /\ sharedCount' = sharedCount /\ sharedMeant' = sharedMeant
  BY DEF RefDestroy
<1>3. SharedKept([refStage EXCEPT ![Head(refDying[t])] = "unused"], refCount, [refDying EXCEPT ![t] = Tail(@)], refPointers, sharedMeant)
  BY <1>1, <1>2, RefDestroyKeeps
<1>4. SharedKept(refStage', refCount', refDying', refPointers', sharedMeant')
  BY <1>2, <1>3
<1> QED BY <1>1, <1>2, <1>4 DEF SharedInv

\* Every step keeps it.
LEMMA SharedStep == SharedInv /\ SharedNext => SharedInv'
<1> SUFFICES ASSUME SharedInv, SharedNext PROVE SharedInv'
  OBVIOUS
<1>1. PICK t \in SharedThreads :
       \/ RefDestroy(t)
       \/ \E i \in 1..SharedPointers : RefCreate(t, i) \/ RefClear(t, i) \/ SharedPop(t, i)
       \/ \E i, j \in 1..SharedPointers : RefAssign(t, i, j) \/ RefMove(t, i, j)
       \/ \E i \in 1..SharedPointers, k \in 1..sharedCount : SharedRead(t, i, k)
       \/ \E n \in 0..SharedLength, link \in ToSet(refPointers[t]) \cup {SharedNull} : SharedResize(t, n, link)
       \/ SharedClear(t)
       \/ \E chain \in SharedChains(t) :
             \/ SharedAppend(t, chain) \/ SharedAssign(t, chain)
             \/ \E k \in 1..(sharedCount + 1) : SharedInsert(t, k, chain)
       \/ \E k \in 1..sharedCount : SharedRemove(t, k) \/ SharedRemoveUnordered(t, k)
  BY DEF SharedNext
<1>2. CASE RefDestroy(t)
  BY <1>2, SharedDestroyStep
<1>3. CASE \E i \in 1..SharedPointers : RefCreate(t, i) \/ RefClear(t, i) \/ SharedPop(t, i)
  BY <1>3, SharedPointersStep, SharedPopKeeps
<1>4. CASE \E i, j \in 1..SharedPointers : RefAssign(t, i, j) \/ RefMove(t, i, j)
  BY <1>4, SharedPointersStep
<1>5. CASE \E i \in 1..SharedPointers, k \in 1..sharedCount : SharedRead(t, i, k)
  BY <1>5, SharedReadKeeps
<1>6. CASE \E n \in 0..SharedLength, link \in ToSet(refPointers[t]) \cup {SharedNull} : SharedResize(t, n, link)
  BY <1>6, SharedResizeKeeps
<1>7. CASE SharedClear(t)
  BY <1>7, SharedClearKeeps
<1>8. CASE \E chain \in SharedChains(t) :
             \/ SharedAppend(t, chain) \/ SharedAssign(t, chain)
             \/ \E k \in 1..(sharedCount + 1) : SharedInsert(t, k, chain)
  <2> DEFINE links == ToSet(refPointers[t]) \cup {SharedNull}
  <2>1. PICK chain \in SharedChains(t) :
             \/ SharedAppend(t, chain) \/ SharedAssign(t, chain)
             \/ \E k \in 1..(sharedCount + 1) : SharedInsert(t, k, chain)
    BY <1>8
  <2>2. chain \in Seq(links)
    <3>1. chain \in BoundedSeq(links, 2)
      BY DEF SharedChains
    <3> HIDE DEF links
    <3>2. PICK m \in 0..2 : chain \in [1..m -> links]
      BY <3>1 DEF BoundedSeq, SeqOf
    <3> QED BY <3>2
  <2> QED BY <2>1, <2>2, SharedAppendKeeps, SharedAssignKeeps, SharedInsertKeeps
<1>9. CASE \E k \in 1..sharedCount : SharedRemove(t, k) \/ SharedRemoveUnordered(t, k)
  BY <1>9, SharedRemoveKeeps, SharedRemoveUnorderedKeeps
<1> QED BY <1>1, <1>2, <1>3, <1>4, <1>5, <1>6, <1>7, <1>8, <1>9

\* It holds at the start.
LEMMA SharedStart == SharedInit => SharedInv
<1> SUFFICES ASSUME SharedInit PROVE SharedInv
  OBVIOUS
<1>1. /\ refStage = [o \in SharedObjects |-> "unused"] /\ refCount = [o \in SharedObjects |-> 0]
      /\ refPointers = [t \in SharedThreads |-> [i \in 1..SharedPointers |-> SharedNull]]
      /\ refDying = [t \in SharedThreads |-> <<>>]
      /\ sharedData = <<>> /\ sharedCount = 0 /\ sharedMeant = <<>>
  BY DEF SharedInit
<1>2. SharedPlaced(sharedData, sharedCount, sharedMeant)
  <2>1. /\ sharedMeant \in Seq(RefLinks) /\ Len(sharedMeant) = 0 /\ sharedData \in Seq(SharedSlots) /\ Len(sharedData) = 0
        /\ 0 <= SharedLength
    BY <1>1, SharedNames
  <2>2. sharedData = SharedArray(0, 0, sharedMeant)
    <3>1. 0 \in Nat /\ \A p \in 1..0 : sharedData[p] = IF p - 0 \in 1..Len(sharedMeant) THEN sharedMeant[p - 0] ELSE SharedRaw
      OBVIOUS
    <3> QED BY <2>1, <3>1, SharedArrayEqual
  <2> QED BY <1>1, <2>1, <2>2 DEF SharedPlaced
<1>3. SharedDying(refStage, refDying)
  BY <1>1 DEF SharedDying
<1>4. refStage \in [SharedObjects -> RefStages] /\ refPointers \in RefPointers
  BY <1>1, SharedNames DEF RefStages, RefPointers
<1>5. RefBalanced(refStage, RefHeapOf(refCount), SharedHeld(refPointers, sharedMeant), SharedNull)
  <2> DEFINE heap == RefHeapOf(refCount)
             holders == SharedHeld(refPointers, sharedMeant)
  <2>1. /\ heap \in [count : [SharedObjects -> Nat], dead : Seq(SharedObjects)] /\ Len(heap.dead) = 0
        /\ \A o \in SharedObjects : heap.count[o] = 0
    BY <1>1 DEF RefHeapOf
  <2>2. ASSUME NEW o \in SharedObjects PROVE holders[o] = {}
    <3>1. Len(sharedMeant) = 0
      BY <1>1
    <3>2. \A u \in SharedThreads, i \in 1..SharedPointers : refPointers[u][i] # o
      BY <1>1, SharedNames
    <3> QED BY <3>1, <3>2 DEF SharedHeld
  <2>3. \A o \in SharedObjects : IsFiniteSet(holders[o]) /\ Cardinality(holders[o]) = 0
    BY <2>2, FS_EmptySet
  <2>4. \A o \in SharedObjects : ~RefIsDead(heap, o) /\ ~RefAlive(refStage, heap, o)
    <3> HIDE DEF heap
    <3> QED BY <1>1, <2>1 DEF RefIsDead, RefAlive
  <2> HIDE DEF heap, holders
  <2>5. \A k, l \in 1..Len(heap.dead) : heap.dead[k] = heap.dead[l] => k = l
    BY <2>1
  <2>6. ASSUME NEW o \in SharedObjects
        PROVE  /\ IsFiniteSet(holders[o]) /\ heap.count[o] = Cardinality(holders[o])
               /\ o # SharedNull => (heap.count[o] > 0 <=> RefAlive(refStage, heap, o))
               /\ RefIsDead(heap, o) => refStage[o] = "alive"
    BY <2>1, <2>3, <2>4
  <2>7. RefBalanced(refStage, heap, holders, SharedNull)
    BY <2>1, <2>5, <2>6 DEF RefBalanced
  <2> QED BY <2>7 DEF heap, holders
<1>6. sharedMeant \in Seq(RefLinks)
  BY <1>1
<1> QED BY <1>2, <1>3, <1>4, <1>5, <1>6 DEF SharedInv, SharedKept, RefHeapOf

\* The counts are those of the pointers there are, the array holds what the calls mean, always.
THEOREM SharedInvariant == SharedSpec => []SharedInv
<1>1. SharedInv /\ UNCHANGED sharedVars => SharedInv'
  BY DEF SharedInv, sharedVars
<1> QED BY <1>1, SharedStart, SharedStep, PTL DEF SharedSpec

\* However pointers are copied, moved, dropped and kept in the array, by however many threads: an
\* object lives as long as there is a pointer to it, and is destroyed once, by one thread.
THEOREM ObjectsLiveCorrect == SharedSpec => []ObjectsLiveWhileShared
<1>1. SharedInv => ObjectsLiveWhileShared
  <2> SUFFICES ASSUME SharedInv, NEW o \in SharedObjects
               PROVE  /\ refCount[o] = Cardinality(RefHolders(o))
                      /\ refStage[o] = "alive" <=> RefHolders(o) # {}
                      /\ refStage[o] = "dying" <=> \E t \in SharedThreads : \E k \in DOMAIN refDying[t] : refDying[t][k] = o
                      /\ \A t, u \in SharedThreads : \A k \in DOMAIN refDying[t], l \in DOMAIN refDying[u] :
                            refDying[t][k] = o /\ refDying[u][l] = o => t = u /\ k = l
    BY DEF ObjectsLiveWhileShared
  <2> DEFINE H == SharedHeld(refPointers, sharedMeant)[o]
             heap == RefHeapOf(refCount)
  <2>1. RefHolders(o) = H
    <3>1. sharedCount = Len(sharedMeant) /\ \A k \in 1..sharedCount : sharedData[k] = sharedMeant[k]
      BY SharedBetweenCalls
    <3> DEFINE A == {h \in {SharedRaw} \X (1..sharedCount) : sharedData[h[2]] = o}
               B == {h \in {SharedRaw} \X (1..Len(sharedMeant)) : sharedMeant[h[2]] = o}
               P == {h \in SharedThreads \X (1..SharedPointers) : refPointers[h[1]][h[2]] = o}
    <3>2. A = B
      BY <3>1
    <3>3. H = P \cup B /\ RefHolders(o) = P \cup A
      BY DEF SharedHeld, RefHolders
    <3> QED BY <3>2, <3>3
  <2>2. SharedDying(refStage, refDying) /\ RefBalanced(refStage, heap, SharedHeld(refPointers, sharedMeant), SharedNull)
    BY DEF SharedInv, SharedKept, RefHeapOf
  <2>3. heap.count = refCount /\ ~RefIsDead(heap, o)
    <3>1. heap.count = refCount /\ heap.dead = <<>>
      BY DEF RefHeapOf
    <3> HIDE DEF heap
    <3> QED BY <3>1 DEF RefIsDead
  <2>4. /\ IsFiniteSet(H) /\ refCount[o] = Cardinality(H)
        /\ (refCount[o] > 0 <=> refStage[o] = "alive")
    BY <2>2, <2>3, SharedNames DEF RefBalanced, RefAlive
  <2> HIDE DEF H
  <2>5. Cardinality(H) \in Nat /\ (Cardinality(H) = 0 <=> H = {})
    BY <2>4, FS_CardinalityType, FS_EmptySet
  <2>6. refStage[o] = "alive" <=> H # {}
    BY <2>4, <2>5
  <2> QED BY <2>1, <2>2, <2>4, <2>6 DEF SharedDying
<1> QED BY <1>1, SharedInvariant, PTL

\* The array holds what its calls mean, and nothing lives in its memory beyond it, wherever the
\* elements were copied to meanwhile.
THEOREM SharedHoldsCorrect == SharedSpec => []SharedHoldsWhatIsMeant
<1>1. SharedInv => SharedHoldsWhatIsMeant
  <2> SUFFICES ASSUME SharedInv PROVE SharedHoldsWhatIsMeant
    OBVIOUS
  <2> DEFINE s == sharedMeant
             d == Len(sharedData)
             c == SubSeq(sharedData, 1, sharedCount)
  <2>1. /\ s \in Seq(RefLinks) /\ sharedCount = Len(s) /\ sharedCount \in Nat
        /\ \A k \in 1..sharedCount : sharedData[k] = s[k]
    BY SharedBetweenCalls
  <2>2. sharedData \in Seq(SharedSlots) /\ sharedData = SharedArray(d, 0, s) /\ d \in Nat
    BY DEF SharedInv, SharedPlaced
  <2> HIDE DEF d
  <2>3. ASSUME NEW k \in (sharedCount + 1)..d PROVE sharedData[k] = SharedRaw
    <3>1. k \in 1..d /\ k - 0 = k /\ k \notin 1..Len(s)
      BY <2>1, <2>2
    <3> DEFINE z == SharedArray(d, 0, s)
    <3>2. z[k] = SharedRaw
      BY <3>1 DEF SharedArray
    <3>3. sharedData = z
      BY <2>2
    <3> HIDE DEF z
    <3> QED BY <3>2, <3>3
  <2>4. c = s
    <3>1. (\A k \in 1..sharedCount : sharedData[k] \in RefLinks) /\ 1 \in Int /\ sharedCount \in Int
      BY <2>1
    <3> HIDE DEF s
    <3>2. c \in Seq(RefLinks) /\ Len(c) = sharedCount /\ \A k \in 1..sharedCount : c[k] = sharedData[k]
      BY <2>1, <3>1, SubSeqProperties
    <3> HIDE DEF c
    <3>3. \A k \in 1..Len(c) : c[k] = s[k]
      BY <2>1, <3>2
    <3> QED BY <2>1, <3>2, <3>3, SeqEqual
  <2> QED BY <2>3, <2>4 DEF SharedHoldsWhatIsMeant, d
<1> QED BY <1>1, SharedInvariant, PTL

\* The objects, the pointers and the array keep their types, and the array its size.
THEOREM SharedTypeCorrect == SharedSpec => []SharedTypeOK
<1>1. SharedInv => SharedTypeOK
  <2> SUFFICES ASSUME SharedInv PROVE SharedTypeOK
    OBVIOUS
  <2>1. refStage \in [SharedObjects -> {"unused", "alive", "dying"}] /\ refPointers \in RefPointers
    BY DEF SharedInv, SharedKept, RefStages
  <2>2. refCount \in [SharedObjects -> Nat]
    BY DEF SharedInv, SharedKept, RefBalanced
  <2>3. sharedCount \in 0..SharedLength
    BY SharedBetweenCalls, SharedNames
  <2>4. sharedCount <= SharedSize
    BY DEF SharedInv, SharedPlaced, SharedSize
  <2> QED BY <2>1, <2>2, <2>3, <2>4 DEF SharedTypeOK, RefPointers
<1> QED BY <1>1, SharedInvariant, PTL
=============================================================================
