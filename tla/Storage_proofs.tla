--------------------------- MODULE Storage_proofs ----------------------------
(***************************************************************************)
(* Theorems about what the library keeps for others, besides the objects   *)
(* of SharedObjects_proofs:                                                *)
(*   - ViewSerialize: what saveView writes loadView reads, for every view  *)
(*     it can pack and whatever follows it in the stream; a view that was  *)
(*     cut is refused.  So a stream is the views that were saved one after *)
(*     the other (StreamReached), and wherever it is cut the first of them *)
(*     load, by induction on the turns of the loop that loads.             *)
(*   - ArrayPod: the array holds what its calls mean, whatever part of     *)
(*     itself a call was given and wherever the block moved meanwhile.  A  *)
(*     chain cut by the point of its own insertion is read back whole from *)
(*     the two places its parts are left in (PodShiftedIs).                *)
(*   - Files: where the parts of a split file meet (FileEndsAre), so that  *)
(*     together they are the file, by induction on their number; what a    *)
(*     join has read so far is what the parts before its own hold          *)
(*     (FileSum), and what an older split left behind it stays as it was   *)
(*     (FileLeftStays).                                                    *)
(*   - Files with a checksum: what is on disk is a part of what was to be  *)
(*     written (SecureWhole), and only the whole of it ends in the sum of  *)
(*     what comes before, if no content has such an end inside of it.      *)
(*   - Interning: the entries of a block lie in what is taken of it, and   *)
(*     a push writes only to what remains (InternGrown), so that what was  *)
(*     interned reads as before.  That a manager is loaded as it was saved *)
(*     is again an induction on the turns of a loop.                       *)
(***************************************************************************)
EXTENDS Storage, SharedObjects_proofs

----------------------------------------------------------------------------
\* ViewSerialize

\* Division by the powers of 256.
LEMMA PackedDivision ==
    ASSUME NEW v \in Nat
    PROVE  /\ v \div 256 \in Nat /\ v \div 65536 \in Nat /\ v \div 16777216 \in Nat
           /\ v \div 1 = v
           /\ v <= 16383 => v \div 256 <= 63
           /\ v <= 4194303 => v \div 65536 <= 63
           /\ v <= 1073741823 => v \div 16777216 <= 63
  BY SMT

\* A value below 64 takes one byte, one below 64 * 256 takes two, and so on.
LEMMA PackedCases ==
    ASSUME NEW v \in Nat, v <= PackedMax
    PROVE  /\ PackedTailWidth(v) \in 0..3
           /\ v \div PackedPower(PackedTailWidth(v)) \in 0..63
<1>1. v <= 1073741823
  BY SMT DEF PackedMax
<1>2. CASE v > 4194303
  <2>1. PackedTailWidth(v) = 3 BY SMT, <1>2 DEF PackedTailWidth
  <2>2. PackedPower(3) = 16777216 BY SMT DEF PackedPower
  <2> QED BY SMT, <1>1, <2>1, <2>2, PackedDivision
<1>3. CASE v > 16383 /\ v <= 4194303
  <2>1. PackedTailWidth(v) = 2 BY SMT, <1>3 DEF PackedTailWidth
  <2>2. PackedPower(2) = 65536 BY SMT DEF PackedPower
  <2> QED BY SMT, <1>3, <2>1, <2>2, PackedDivision
<1>4. CASE v > 63 /\ v <= 16383
  <2>1. PackedTailWidth(v) = 1 BY SMT, <1>4 DEF PackedTailWidth
  <2>2. PackedPower(1) = 256 BY SMT DEF PackedPower
  <2> QED BY SMT, <1>4, <2>1, <2>2, PackedDivision
<1>5. CASE v <= 63
  <2>1. PackedTailWidth(v) = 0 BY SMT, <1>5 DEF PackedTailWidth
  <2>2. PackedPower(0) = 1 BY SMT DEF PackedPower
  <2> QED BY SMT, <1>5, <2>1, <2>2, PackedDivision
<1> QED BY SMT, <1>2, <1>3, <1>4, <1>5

\* Its bytes: the first one holds the length and the highest part.
LEMMA PackedShape ==
    ASSUME NEW v \in Nat, v <= PackedMax
    PROVE  /\ PackedBytes(v) \in Seq(0..255)
           /\ Len(PackedBytes(v)) = PackedTailWidth(v) + 1
           /\ PackedBytes(v)[1] = PackedTailWidth(v) + 4 * (v \div PackedPower(PackedTailWidth(v)))
<1> DEFINE w == PackedTailWidth(v)
           m == v \div PackedPower(w)
           byte(i) == IF i = 1 THEN w + 4 * (m % 64) ELSE (v \div PackedPower(i - 2)) % 256
<1>1. w \in 0..3 /\ m \in 0..63
  BY PackedCases
<1>2. PackedBytes(v) = [i \in 1..w + 1 |-> byte(i)]
  BY SMT DEF PackedBytes
<1> HIDE DEF w, m
<1>3. m % 64 = m
  BY SMT, <1>1
<1>4. ASSUME NEW i \in 1..w + 1 PROVE byte(i) \in 0..255
  <2>1. CASE i = 1
    BY SMT, <1>1, <1>3, <2>1
  <2>2. CASE i # 1
    <3> DEFINE q == v \div PackedPower(i - 2)
    <3>1. q \in Nat
      <4>1. i - 2 \in 0..2 BY SMT, <1>1, <2>2
      <4>2. PackedPower(i - 2) \in {1, 256, 65536} BY SMT, <4>1 DEF PackedPower
      <4> QED BY SMT, <4>2, PackedDivision
    <3> HIDE DEF q
    <3>2. q % 256 \in 0..255 BY SMT, <3>1
    <3> QED BY SMT, <3>2, <2>2 DEF q
  <2> QED BY SMT, <2>1, <2>2
<1>5. byte(1) = w + 4 * m
  BY SMT, <1>3
<1> HIDE DEF byte
<1>6. [i \in 1..w + 1 |-> byte(i)] \in Seq(0..255) /\ Len([i \in 1..w + 1 |-> byte(i)]) = w + 1
  BY SMT, <1>1, <1>4
<1>7. [i \in 1..w + 1 |-> byte(i)][1] = w + 4 * m
  BY SMT, <1>1, <1>5
<1>8. PackedBytes(v) \in Seq(0..255) /\ Len(PackedBytes(v)) = w + 1 /\ PackedBytes(v)[1] = w + 4 * m
  BY <1>2, <1>6, <1>7
<1> QED BY ONLY <1>8 DEF w, m

\* The first byte of a packed value tells how long it is, and gives its highest part.
LEMMA PackedFirst ==
    ASSUME NEW v \in Nat, v <= PackedMax
    PROVE  /\ PackedBytes(v)[1] % 4 = PackedTailWidth(v)
           /\ PackedBytes(v)[1] \div 4 = v \div PackedPower(PackedTailWidth(v))
<1> DEFINE w == PackedTailWidth(v)
           m == v \div PackedPower(w)
<1>1. w \in 0..3 /\ m \in 0..63 /\ PackedBytes(v)[1] = w + 4 * m
  BY SMT, PackedCases, PackedShape
<1> HIDE DEF w, m
<1>2. (w + 4 * m) % 4 = w /\ (w + 4 * m) \div 4 = m
  BY <1>1
<1> QED BY <1>1, <1>2 DEF w, m

LEMMA PackedLength ==
    ASSUME NEW v \in Nat, v <= PackedMax
    PROVE  /\ PackedBytes(v) \in Seq(0..255)
           /\ Len(PackedBytes(v)) \in 1..4
           /\ Len(PackedBytes(v)) >= 1
<1>1. PackedTailWidth(v) \in 0..3
  BY PackedCases
<1>2. PackedBytes(v) \in Seq(0..255) /\ Len(PackedBytes(v)) = PackedTailWidth(v) + 1
  BY PackedShape
<1> QED BY <1>1, <1>2

\* A value is the sum of its bytes, each at its power of 256.
LEMMA PackedSum ==
    ASSUME NEW v \in Nat
    PROVE  /\ (v \div 256) * 256 + (v % 256) = v
           /\ (v \div 65536) * 65536 + (v % 256) + ((v \div 256) % 256) * 256 = v
           /\ (v \div 16777216) * 16777216 + (v % 256) + ((v \div 256) % 256) * 256
                  + ((v \div 65536) % 256) * 65536 = v
<1>1. (v \div 256) * 256 + (v % 256) = v
  BY SMT
<1>2. (v \div 65536) * 65536 + (v % 256) + ((v \div 256) % 256) * 256 = v
  BY SMT
<1>3. (v \div 16777216) * 16777216 + (v % 256) + ((v \div 256) % 256) * 256
          + ((v \div 65536) % 256) * 65536 = v
  BY SMT
<1> QED BY <1>1, <1>2, <1>3

\* A packed value reads back as itself, whatever bytes follow it.
THEOREM PackedIsExact ==
    ASSUME NEW v \in Nat, v <= PackedMax, NEW after \in Seq(0..255)
    PROVE  /\ PackedWidth((PackedBytes(v) \o after)[1]) = Len(PackedBytes(v))
           /\ PackedValue(PackedBytes(v) \o after) = v
<1> DEFINE w == PackedTailWidth(v)
           p == PackedBytes(v)
           s == p \o after
<1>1. /\ w \in 0..3
      /\ p \in Seq(0..255)
      /\ Len(p) = w + 1
      /\ p[1] % 4 = w
      /\ p[1] \div 4 = v \div PackedPower(w)
  BY SMT, PackedCases, PackedShape, PackedFirst
<1>2. \A i \in 1..w : p[i + 1] = (v \div PackedPower(i - 1)) % 256
  <2> SUFFICES ASSUME NEW i \in 1..w PROVE p[i + 1] = (v \div PackedPower(i - 1)) % 256
    OBVIOUS
  <2>1. i + 1 \in 1..w + 1 /\ i + 1 # 1 /\ (i + 1) - 2 = i - 1
    BY <1>1
  <2> QED BY SMT, <2>1 DEF PackedBytes
<1> HIDE DEF w, p
<1>3. \A i \in 1..w + 1 : s[i] = p[i]
  BY <1>1
<1> HIDE DEF s
<1>4. s[1] = p[1]
  BY <1>1, <1>3
<1>5. PackedWidth(s[1]) = w + 1
  BY <1>1, <1>4 DEF PackedWidth
<1>6. \A i \in 1..3 : PackedByteValue(s, i) =
          IF i <= w THEN ((v \div PackedPower(i - 1)) % 256) * PackedPower(i - 1) ELSE 0
  <2> SUFFICES ASSUME NEW i \in 1..3
               PROVE  PackedByteValue(s, i) =
                          IF i <= w THEN ((v \div PackedPower(i - 1)) % 256) * PackedPower(i - 1) ELSE 0
    OBVIOUS
  <2>1. CASE i <= w
    <3>1. i \in 1..w /\ i + 1 \in 1..w + 1 /\ i < w + 1 BY <1>1, <2>1
    <3>2. s[i + 1] = (v \div PackedPower(i - 1)) % 256 BY <3>1, <1>2, <1>3
    <3> QED BY <3>1, <3>2, <2>1, <1>5 DEF PackedByteValue
  <2>2. CASE ~(i <= w)
    BY <1>1, <1>5, <2>2 DEF PackedByteValue
  <2> QED BY <2>1, <2>2
<1>7. PackedValue(s) =
          ((v \div PackedPower(w)) * PackedPower(w))
              + PackedByteValue(s, 1) + PackedByteValue(s, 2) + PackedByteValue(s, 3)
  BY <1>1, <1>4 DEF PackedValue
<1>8. PackedPower(0) = 1 /\ PackedPower(1) = 256 /\ PackedPower(2) = 65536 /\ PackedPower(3) = 16777216
  BY SMT DEF PackedPower
<1>9. PackedValue(s) = v
  <2> DEFINE d == v \div 256
             e == v \div 65536
             f == v \div 16777216
  <2>1. /\ v \div 1 = v /\ d \in Nat /\ e \in Nat /\ f \in Nat
        /\ v % 256 \in 0..255 /\ d % 256 \in 0..255 /\ e % 256 \in 0..255
    BY SMT, PackedDivision
  <2>2. /\ d * 256 + (v % 256) = v
        /\ e * 65536 + (v % 256) + (d % 256) * 256 = v
        /\ f * 16777216 + (v % 256) + (d % 256) * 256 + (e % 256) * 65536 = v
    BY SMT, PackedSum
  <2>3. /\ PackedByteValue(s, 1) = IF 1 <= w THEN ((v \div PackedPower(0)) % 256) * PackedPower(0) ELSE 0
        /\ PackedByteValue(s, 2) = IF 2 <= w THEN ((v \div PackedPower(1)) % 256) * PackedPower(1) ELSE 0
        /\ PackedByteValue(s, 3) = IF 3 <= w THEN ((v \div PackedPower(2)) % 256) * PackedPower(2) ELSE 0
    BY <1>6
  <2>4. /\ PackedByteValue(s, 1) = IF 1 <= w THEN v % 256 ELSE 0
        /\ PackedByteValue(s, 2) = IF 2 <= w THEN (d % 256) * 256 ELSE 0
        /\ PackedByteValue(s, 3) = IF 3 <= w THEN (e % 256) * 65536 ELSE 0
    BY SMTT(30), <1>8, <2>1, <2>3
  <2>5. (v \div PackedPower(w)) * PackedPower(w) =
            IF w = 0 THEN v ELSE IF w = 1 THEN d * 256 ELSE IF w = 2 THEN e * 65536 ELSE f * 16777216
    BY SMT, <1>1, <1>8, <2>1
  <2> HIDE DEF d, e, f
  <2>6. CASE w = 0
    BY SMT, <1>7, <2>1, <2>2, <2>4, <2>5, <2>6
  <2>7. CASE w = 1
    BY SMT, <1>7, <2>1, <2>2, <2>4, <2>5, <2>7
  <2>8. CASE w = 2
    BY SMT, <1>7, <2>1, <2>2, <2>4, <2>5, <2>8
  <2>9. CASE w = 3
    BY SMT, <1>7, <2>1, <2>2, <2>4, <2>5, <2>9
  <2> QED BY <1>1, <2>6, <2>7, <2>8, <2>9
<1> QED BY <1>1, <1>5, <1>9 DEF w, s, p

\* What follows the first of two sequences is the second.
LEMMA ConcatTail ==
    ASSUME NEW S, NEW a \in Seq(S), NEW b \in Seq(S)
    PROVE  SubSeq(a \o b, Len(a) + 1, Len(a \o b)) = b
<1> DEFINE t == SubSeq(a \o b, Len(a) + 1, Len(a \o b))
<1>1. a \o b \in Seq(S) /\ Len(a \o b) = Len(a) + Len(b) /\ Len(a) \in Nat /\ Len(b) \in Nat
  OBVIOUS
<1>2. t \in Seq(S) /\ Len(t) = Len(b)
  BY <1>1
<1>3. \A i \in 1..Len(b) : t[i] = b[i]
  BY <1>1
<1> QED BY <1>2, <1>3

\* A view saved at the front of a stream is there whole, is what is read, and what is left is the
\* rest of the stream.
THEOREM ViewLoadsAsSaved ==
    ASSUME NEW view \in Seq(0..255), Len(view) <= PackedMax, NEW after \in Seq(0..255)
    PROVE  /\ ViewIsWhole(ViewSaved(view) \o after)
           /\ ViewRead(ViewSaved(view) \o after) = view
           /\ ViewRest(ViewSaved(view) \o after) = after
<1> DEFINE p == PackedBytes(Len(view))
           s == (p \o view) \o after
           n == Len(p)
<1>1. Len(view) \in Nat /\ Len(view) <= PackedMax
  OBVIOUS
<1>2. p \in Seq(0..255) /\ n \in 1..4
  BY <1>1, PackedLength
<1>3. s = p \o (view \o after)
  BY <1>2
<1>4. view \o after \in Seq(0..255)
  OBVIOUS
<1>5. PackedWidth(s[1]) = n /\ PackedValue(s) = Len(view)
  BY <1>1, <1>3, <1>4, PackedIsExact
<1> HIDE DEF p, n
<1>6. s \in Seq(0..255) /\ Len(s) = n + Len(view) + Len(after)
  BY <1>2 DEF n
<1>7. ViewIsWhole(s)
  BY <1>2, <1>5, <1>6 DEF ViewIsWhole
<1>8. SubSeq(s, n + 1, n + Len(view)) = view
  <2>1. \A i \in 1..Len(view) : s[n + i] = view[i]
    BY <1>2 DEF n
  <2> QED BY <2>1, <1>2, <1>6
<1>9. SubSeq(s, n + Len(view) + 1, Len(s)) = after
  <2>1. p \o view \in Seq(0..255) /\ Len(p \o view) = n + Len(view)
    BY <1>2 DEF n
  <2>2. SubSeq((p \o view) \o after, Len(p \o view) + 1, Len((p \o view) \o after)) = after
    BY <2>1, ConcatTail
  <2> QED BY <2>1, <2>2
<1> HIDE DEF s
<1>10. ViewRead(s) = view /\ ViewRest(s) = after
  BY <1>5, <1>8, <1>9 DEF ViewRead, ViewRest, ViewStop, StreamFrom
<1>11. s = ViewSaved(view) \o after
  BY DEF s, p, ViewSaved
<1> QED BY <1>7, <1>10, <1>11

\* A view of which any byte is missing does not load.
THEOREM ViewCutIsRefused ==
    ASSUME NEW view \in Seq(0..255), Len(view) <= PackedMax, NEW k \in 0..Len(ViewSaved(view)) - 1
    PROVE  ~ViewIsWhole(SubSeq(ViewSaved(view), 1, k))
<1> DEFINE p == PackedBytes(Len(view))
           s == ViewSaved(view)
           cut == SubSeq(s, 1, k)
<1>1. Len(view) \in Nat /\ Len(view) <= PackedMax
  OBVIOUS
<1>0. p \in Seq(0..255) /\ Len(p) \in 1..4 /\ Len(p) >= 1
  BY <1>1, PackedLength
<1>2. p \in Seq(0..255) /\ Len(p) \in 1..4 /\ s \in Seq(0..255) /\ Len(s) = Len(p) + Len(view)
  BY <1>0 DEF ViewSaved
<1>3. s = p \o view /\ PackedWidth(s[1]) = Len(p) /\ PackedValue(s) = Len(view)
  BY <1>1, PackedIsExact DEF ViewSaved
<1> HIDE DEF p, s
<1>4. k \in Nat /\ k < Len(s)
  BY <1>2 DEF s
<1>5. Len(cut) = k /\ \A i \in 1..k : cut[i] = s[i]
  BY <1>2, <1>4
<1> HIDE DEF cut
<1>6. CASE k < Len(p)
  <2>1. CASE k = 0
    BY <2>1, <1>5 DEF ViewIsWhole, cut, s
  <2>2. CASE k # 0
    <3>1. cut[1] = s[1] BY <1>4, <1>5, <2>2
    <3> QED BY <3>1, <1>2, <1>3, <1>5, <1>6 DEF ViewIsWhole, cut, s
  <2> QED BY <2>1, <2>2
<1>7. CASE k >= Len(p)
  <2>1. cut[1] = s[1]
    <3>1. 1 \in 1..k BY <1>0, <1>4, <1>7
    <3> QED BY <3>1, <1>5
  <2>2. \A i \in 1..3 : PackedByteValue(cut, i) = PackedByteValue(s, i)
    <3> SUFFICES ASSUME NEW i \in 1..3 PROVE PackedByteValue(cut, i) = PackedByteValue(s, i)
      OBVIOUS
    <3>1. CASE i < Len(p)
      <4>1. i + 1 \in 1..k BY <1>2, <1>4, <1>7, <3>1
      <4> QED BY <4>1, <2>1, <1>5 DEF PackedByteValue
    <3>2. CASE ~(i < Len(p))
      BY <3>2, <2>1, <1>2, <1>3 DEF PackedByteValue
    <3> QED BY <3>1, <3>2
  <2>3. PackedValue(cut) = Len(view)
    <3>1. /\ PackedByteValue(cut, 1) = PackedByteValue(s, 1)
          /\ PackedByteValue(cut, 2) = PackedByteValue(s, 2)
          /\ PackedByteValue(cut, 3) = PackedByteValue(s, 3)
      BY <2>2
    <3> QED BY <3>1, <2>1, <1>3 DEF PackedValue
  <2>4. ~(PackedValue(cut) <= Len(cut) - PackedWidth(cut[1]))
    BY <2>1, <2>3, <1>2, <1>3, <1>4, <1>5
  <2> QED BY <2>4 DEF ViewIsWhole, cut, s
<1> QED BY <1>2, <1>4, <1>6, <1>7

\* What is in a stream: after each of the views saved in it, the rest.
StreamParts(input, saved, rests) ==
    /\ rests \in [0..Len(saved) -> Seq(0..255)]
    /\ rests[0] = input /\ rests[Len(saved)] = <<>>
    /\ \A i \in 1..Len(saved) : rests[i - 1] = ViewSaved(saved[i]) \o rests[i]

\* The inductive invariant: the stream is the views that are in it, one after the other.
StreamInv == StreamTypeOK /\ \E rests : StreamParts(stream, streamSaved, rests)

\* A view of the stream is packed whole.
LEMMA ViewPacks ==
    ASSUME NEW v \in StreamViews
    PROVE  v \in Seq(0..255) /\ Len(v) <= PackedMax /\ Len(v) \in Nat /\ ViewSaved(v) \in Seq(0..255) /\ Len(ViewSaved(v)) \in Nat \ {0}
<1>1. v \in Seq(0..255) /\ Len(v) < 1073741824
  BY SMT, StreamAssumption
<1>4. Len(v) \in Nat
  BY SMT, <1>1
<1>2. Len(v) <= PackedMax
  BY SMT, <1>1, <1>4 DEF PackedMax
<1>3. PackedBytes(Len(v)) \in Seq(0..255) /\ Len(PackedBytes(Len(v))) \in 1..4
  BY <1>1, <1>2, PackedLength
<1>5. v \in Seq(0..255)
  BY <1>1
<1> DEFINE p == PackedBytes(Len(v))
<1>6. ViewSaved(v) = p \o v
  BY DEF ViewSaved
<1> HIDE DEF p
<1>7. p \o v \in Seq(0..255) /\ Len(p \o v) = Len(p) + Len(v)
  BY <1>3, <1>5, ConcatProperties DEF p
<1>8. Len(p) + Len(v) \in Nat \ {0}
  <2>1. Len(p) \in 1..4
    BY <1>3 DEF p
  <2> QED BY <1>4, <2>1
<1>9. ViewSaved(v) \in Seq(0..255) /\ Len(ViewSaved(v)) = Len(p) + Len(v)
  BY <1>6, <1>7
<1> QED BY <1>2, <1>4, <1>5, <1>8, <1>9

\* saveView writes at the end of the stream.
LEMMA StreamSaveKeeps ==
    ASSUME StreamInv, StreamSave
    PROVE  StreamInv'
<1>1. PICK view \in StreamViews : stream' = stream \o ViewSaved(view) /\ streamSaved' = Append(streamSaved, view)
  BY DEF StreamSave
<1>2. PICK rests : StreamParts(stream, streamSaved, rests)
  BY DEF StreamInv
<1>3. stream \in Seq(0..255) /\ streamSaved \in Seq(StreamViews)
  BY DEF StreamInv, StreamTypeOK
<1> DEFINE n == Len(streamSaved)
           w == ViewSaved(view)
           after == [i \in 0..(n + 1) |-> IF i = n + 1 THEN <<>> ELSE rests[i] \o w]
<1>4. n \in Nat /\ w \in Seq(0..255) /\ view \in Seq(0..255)
  BY <1>3, ViewPacks
<1>5. rests \in [0..n -> Seq(0..255)] /\ rests[0] = stream /\ rests[n] = <<>>
      /\ \A i \in 1..n : rests[i - 1] = ViewSaved(streamSaved[i]) \o rests[i]
  BY <1>2 DEF StreamParts
<1>6. /\ streamSaved' \in Seq(StreamViews) /\ Len(streamSaved') = n + 1
      /\ streamSaved'[n + 1] = view /\ \A i \in 1..n : streamSaved'[i] = streamSaved[i]
  BY <1>1, <1>3
<1>7. \A i \in 1..n : streamSaved[i] \in StreamViews
  BY <1>3
<1> HIDE DEF n, w
<1>8. after \in [0..(n + 1) -> Seq(0..255)]
  <2>1. ASSUME NEW i \in 0..(n + 1) PROVE (IF i = n + 1 THEN <<>> ELSE rests[i] \o w) \in Seq(0..255)
    <3>1. CASE i = n + 1
      BY <3>1
    <3>2. CASE i # n + 1
      <4>1. rests[i] \in Seq(0..255)
        BY <1>4, <1>5, <3>2
      <4> QED BY <3>2, <4>1, <1>4, ConcatProperties
    <3> QED BY <3>1, <3>2
  <2> QED BY <2>1
<1>9. after[0] = stream \o w /\ after[n + 1] = <<>>
  <2>1. 0 \in 0..(n + 1) /\ n + 1 \in 0..(n + 1) /\ 0 # n + 1
    BY <1>4
  <2>2. after[0] = rests[0] \o w /\ after[n + 1] = <<>>
    BY <2>1
  <2> QED BY <2>2, <1>5
<1>10. ASSUME NEW i \in 1..(n + 1) PROVE after[i - 1] = ViewSaved(streamSaved'[i]) \o after[i]
  <2>1. CASE i = n + 1
    <3>1. i - 1 = n /\ n \in 0..(n + 1) /\ n # n + 1
      BY <2>1, <1>4
    <3>2. after[n] = rests[n] \o w
      BY <3>1
    <3>3. rests[n] \o w = w /\ w \o <<>> = w
      BY <1>4, <1>5, ConcatEmptySeq
    <3>4. after[i] = <<>> /\ streamSaved'[i] = view
      BY <1>6, <1>9, <2>1
    <3> HIDE DEF after
    <3> QED BY <3>1, <3>2, <3>3, <3>4 DEF w
  <2>2. CASE i # n + 1
    <3> DEFINE j == i - 1
               s == ViewSaved(streamSaved[i])
    <3>1. i \in 1..n /\ i \in 0..n /\ j \in 0..n /\ i \in 0..(n + 1) /\ j \in 0..(n + 1) /\ j # n + 1
      BY <2>2, <1>4
    <3>2. after[j] = rests[j] \o w /\ after[i] = rests[i] \o w
      BY <3>1, <2>2
    <3>3. rests[j] = s \o rests[i] /\ streamSaved'[i] = streamSaved[i] /\ rests[i] \in Seq(0..255)
      BY <3>1, <1>5, <1>6
    <3>4. s \in Seq(0..255)
      BY <3>1, <1>7, ViewPacks
    <3> HIDE DEF s, after, j
    <3>5. (s \o rests[i]) \o w = s \o (rests[i] \o w)
      <4> DEFINE r == rests[i]
      <4>1. r \in Seq(0..255)
        BY <3>3
      <4> HIDE DEF r
      <4>2. (s \o r) \o w = s \o (r \o w)
        BY <4>1, <3>4, <1>4, ConcatAssociative
      <4> QED BY <4>2 DEF r
    <3>6. after[j] = s \o after[i]
      BY <3>2, <3>3, <3>5
    <3> QED BY <3>3, <3>6 DEF s, j
  <2> QED BY <2>1, <2>2
<1> HIDE DEF after
<1>11. StreamParts(stream', streamSaved', after)
  BY <1>1, <1>6, <1>8, <1>9, <1>10 DEF StreamParts, w
<1>12. stream' \in Seq(0..255)
  BY <1>1, <1>3, <1>4, ConcatProperties DEF w
<1> QED BY <1>6, <1>11, <1>12 DEF StreamInv, StreamTypeOK

\* loadView leaves what follows the first view.
LEMMA StreamLoadKeeps ==
    ASSUME StreamInv, StreamLoad
    PROVE  StreamInv'
<1>1. PICK rests : StreamParts(stream, streamSaved, rests)
  BY DEF StreamInv
<1>2. stream \in Seq(0..255) /\ streamSaved \in Seq(StreamViews)
  BY DEF StreamInv, StreamTypeOK
<1>3. ViewIsWhole(stream) /\ stream' = ViewRest(stream) /\ streamSaved' = Tail(streamSaved)
  BY DEF StreamLoad
<1> DEFINE n == Len(streamSaved)
           after == [i \in 0..(n - 1) |-> rests[i + 1]]
<1>4. rests \in [0..n -> Seq(0..255)] /\ rests[0] = stream /\ rests[n] = <<>>
      /\ \A i \in 1..n : rests[i - 1] = ViewSaved(streamSaved[i]) \o rests[i]
  BY <1>1 DEF StreamParts
<1>5. n \in Nat \ {0}
  <2>1. n \in Nat
    BY <1>2
  <2>2. CASE n = 0
    BY <2>2, <1>3, <1>4 DEF ViewIsWhole
  <2> QED BY <2>1, <2>2
<1>6. /\ streamSaved' \in Seq(StreamViews) /\ Len(streamSaved') = n - 1
      /\ \A i \in 1..(n - 1) : streamSaved'[i] = streamSaved[i + 1]
  BY <1>2, <1>3, <1>5
<1>7. streamSaved[1] \in StreamViews
  BY <1>2, <1>5
<1> HIDE DEF n
<1>8. stream = ViewSaved(streamSaved[1]) \o rests[1] /\ rests[1] \in Seq(0..255)
  <2>1. 1 \in 1..n /\ 1 \in 0..n /\ 1 - 1 = 0
    BY <1>5
  <2> QED BY <2>1, <1>4
<1>9. stream' = rests[1]
  <2> DEFINE v == streamSaved[1]
             r == rests[1]
  <2>1. v \in Seq(0..255) /\ Len(v) <= PackedMax /\ r \in Seq(0..255)
    BY <1>7, <1>8, ViewPacks
  <2>2. stream = ViewSaved(v) \o r
    BY <1>8
  <2> HIDE DEF v, r
  <2>3. ViewRest(ViewSaved(v) \o r) = r
    BY <2>1, ViewLoadsAsSaved
  <2> QED BY <2>2, <2>3, <1>3 DEF r
<1>10. after \in [0..(n - 1) -> Seq(0..255)]
  <2>1. ASSUME NEW i \in 0..(n - 1) PROVE rests[i + 1] \in Seq(0..255)
    <3>1. i + 1 \in 0..n
      BY <1>5
    <3> QED BY <3>1, <1>4
  <2> QED BY <2>1
<1>11. after[0] = rests[1] /\ after[n - 1] = <<>>
  <2>1. 0 \in 0..(n - 1) /\ n - 1 \in 0..(n - 1) /\ 0 + 1 = 1 /\ (n - 1) + 1 = n
    BY <1>5
  <2> QED BY <2>1, <1>4
<1>12. ASSUME NEW i \in 1..(n - 1) PROVE after[i - 1] = ViewSaved(streamSaved'[i]) \o after[i]
  <2> DEFINE j == i + 1
  <2>1. j \in 1..n /\ j - 1 = i /\ i - 1 \in 0..(n - 1) /\ i \in 0..(n - 1) /\ (i - 1) + 1 = i
    BY <1>5
  <2>2. after[i - 1] = rests[i] /\ after[i] = rests[j]
    BY <2>1
  <2>3. streamSaved'[i] = streamSaved[j]
    BY <1>6
  <2> HIDE DEF j, after
  <2>4. rests[j - 1] = ViewSaved(streamSaved[j]) \o rests[j]
    BY <1>4, <2>1
  <2> QED BY <2>1, <2>2, <2>3, <2>4
<1> HIDE DEF after
<1>13. StreamParts(stream', streamSaved', after)
  BY <1>6, <1>9, <1>10, <1>11, <1>12 DEF StreamParts
<1> QED BY <1>6, <1>8, <1>9, <1>13 DEF StreamInv, StreamTypeOK

\* The part of a stream there is at a cut.
LEMMA CutIs ==
    ASSUME NEW S, NEW s \in Seq(S), NEW k \in 0..Len(s)
    PROVE  /\ SubSeq(s, 1, k) \in Seq(S) /\ Len(SubSeq(s, 1, k)) = k
           /\ \A i \in 1..k : SubSeq(s, 1, k)[i] = s[i]
           /\ k = Len(s) => SubSeq(s, 1, k) = s
<1>1. 1 \in 1..(Len(s) + 1) /\ k \in (1 - 1)..Len(s) /\ k - 1 + 1 = k /\ Len(s) \in Nat
  OBVIOUS
<1> DEFINE c == SubSeq(s, 1, k)
<1>2. c \in Seq(S) /\ Len(c) = k
  BY <1>1, SubSeqProperties
<1>3. \A i \in 1..k : c[i] = s[i]
  OBVIOUS
<1> HIDE DEF c
<1>4. k = Len(s) => c = s
  BY <1>2, <1>3, SeqEqual
<1> QED BY <1>2, <1>3, <1>4 DEF c

\* A cut inside of the first view: nothing loads.
LEMMA CutBefore ==
    ASSUME NEW v \in StreamViews, NEW rest \in Seq(0..255), NEW cut \in 0..(Len(ViewSaved(v)) - 1)
    PROVE  ~ViewIsWhole(SubSeq(ViewSaved(v) \o rest, 1, cut))
<1> DEFINE w == ViewSaved(v)
           input == w \o rest
           c == SubSeq(input, 1, cut)
           d == SubSeq(w, 1, cut)
<1>1. w \in Seq(0..255) /\ Len(w) \in Nat \ {0} /\ v \in Seq(0..255) /\ Len(v) <= PackedMax
  BY ViewPacks
<1>2. ~ViewIsWhole(d)
  BY <1>1, ViewCutIsRefused
<1>3. Len(rest) \in Nat
  OBVIOUS
<1> HIDE DEF w
<1>4. input \in Seq(0..255) /\ Len(input) = Len(w) + Len(rest) /\ \A i \in 1..Len(w) : input[i] = w[i]
  BY <1>1, <1>3, ConcatProperties
<1> HIDE DEF input
<1>5. cut \in 0..Len(input) /\ cut \in 0..Len(w)
  BY <1>1, <1>3, <1>4 DEF w
<1>6. c \in Seq(0..255) /\ Len(c) = cut /\ \A i \in 1..cut : c[i] = input[i]
  BY <1>4, <1>5, CutIs
<1>7. d \in Seq(0..255) /\ Len(d) = cut /\ \A i \in 1..cut : d[i] = w[i]
  BY <1>1, <1>5, CutIs
<1> HIDE DEF c, d
<1>8. ASSUME NEW i \in 1..cut PROVE c[i] = d[i]
  <2>1. i \in 1..Len(w)
    BY <1>1, <1>5
  <2> QED BY <2>1, <1>4, <1>6, <1>7
<1>9. c = d
  BY <1>6, <1>7, <1>8, SeqEqual
<1> QED BY <1>2, <1>9 DEF c, input, w

\* A cut after it: it loads, and leaves what follows up to the cut.
LEMMA CutAfter ==
    ASSUME NEW v \in StreamViews, NEW rest \in Seq(0..255), NEW cut \in Len(ViewSaved(v))..(Len(ViewSaved(v)) + Len(rest))
    PROVE  LET input == SubSeq(ViewSaved(v) \o rest, 1, cut)
           IN  /\ ViewIsWhole(input) /\ ViewRead(input) = v
               /\ ViewRest(input) = SubSeq(rest, 1, cut - Len(ViewSaved(v)))
<1> DEFINE w == ViewSaved(v)
           input == w \o rest
           c == SubSeq(input, 1, cut)
           m == cut - Len(w)
           r == SubSeq(rest, 1, m)
           d == w \o r
<1>1. w \in Seq(0..255) /\ Len(w) \in Nat \ {0} /\ v \in Seq(0..255) /\ Len(v) <= PackedMax
  BY ViewPacks
<1>2. Len(rest) \in Nat
  OBVIOUS
<1>3. m \in 0..Len(rest) /\ cut \in Nat /\ cut = Len(w) + m
  BY <1>1, <1>2
<1> HIDE DEF m
<1>4. r \in Seq(0..255) /\ Len(r) = m /\ \A i \in 1..m : r[i] = rest[i]
  BY <1>3, CutIs
<1> HIDE DEF r
<1>5. ViewIsWhole(d) /\ ViewRead(d) = v /\ ViewRest(d) = r
  BY <1>1, <1>4, ViewLoadsAsSaved DEF w
<1> HIDE DEF w
<1>6. /\ input \in Seq(0..255) /\ Len(input) = Len(w) + Len(rest)
      /\ \A i \in 1..(Len(w) + Len(rest)) : input[i] = IF i <= Len(w) THEN w[i] ELSE rest[i - Len(w)]
  BY <1>1, <1>2, ConcatProperties
<1>7. /\ d \in Seq(0..255) /\ Len(d) = Len(w) + m
      /\ \A i \in 1..(Len(w) + m) : d[i] = IF i <= Len(w) THEN w[i] ELSE r[i - Len(w)]
  <2>1. r \in Seq(0..255) /\ w \in Seq(0..255) /\ Len(r) = m
    BY <1>1, <1>4
  <2>2. /\ d \in Seq(0..255) /\ Len(d) = Len(w) + Len(r)
        /\ \A i \in 1..(Len(w) + Len(r)) : d[i] = IF i <= Len(w) THEN w[i] ELSE r[i - Len(w)]
    BY <2>1, ConcatProperties
  <2> HIDE DEF d
  <2> QED BY <2>1, <2>2
<1> HIDE DEF input, d
<1>8. cut \in 0..Len(input)
  BY <1>1, <1>2, <1>3, <1>6
<1>9. c \in Seq(0..255) /\ Len(c) = cut /\ \A i \in 1..cut : c[i] = input[i]
  BY <1>6, <1>8, CutIs
<1> HIDE DEF c
<1>10. ASSUME NEW i \in 1..cut PROVE c[i] = d[i]
  <2>1. i \in 1..(Len(w) + Len(rest)) /\ i \in 1..(Len(w) + m) /\ Len(w) \in Nat
    BY <1>1, <1>2, <1>3
  <2>2. CASE i <= Len(w)
    BY <2>1, <2>2, <1>6, <1>7, <1>9
  <2>3. CASE ~(i <= Len(w))
    <3> DEFINE k == i - Len(w)
    <3>1. k \in 1..m
      BY <2>1, <2>3, <1>3
    <3>2. input[i] = rest[k] /\ d[i] = r[k]
      BY <2>1, <2>3, <1>6, <1>7
    <3> HIDE DEF k
    <3> QED BY <3>1, <3>2, <1>4, <1>9
  <2> QED BY <2>2, <2>3
<1>11. c = d
  BY <1>3, <1>7, <1>9, <1>10, SeqEqual
<1>12. ViewIsWhole(c) /\ ViewRead(c) = v /\ ViewRest(c) = r
  BY <1>5, <1>11
<1> QED BY <1>12 DEF c, r, m, input, w

\* What the loop has loaded, what is left, and whether every view so far was whole.
StreamStates == [views : Seq(StreamViews), rest : Seq(0..255), whole : BOOLEAN]

\* Where k turns lead from a stream that was cut, or, if full, was not: the first views are loaded,
\* and of what follows them there is what was not cut.
StreamReached(saved, rests, full, k, b) ==
    LET j == Len(b.views)
    IN  /\ b \in StreamStates /\ j \in 0..Len(saved) /\ b.views = SubSeq(saved, 1, j)
        /\ \E c \in 0..Len(rests[j]) : b.rest = SubSeq(rests[j], 1, c) /\ (full => c = Len(rests[j]))
        /\ full => j = IF b.whole THEN k ELSE Len(saved)

\* One turn more.
LEMMA StreamTurnReaches ==
    ASSUME NEW input, NEW saved \in Seq(StreamViews), NEW rests, StreamParts(input, saved, rests), NEW full \in BOOLEAN,
           NEW k \in Nat, NEW b, StreamReached(saved, rests, full, k, b)
    PROVE  StreamReached(saved, rests, full, k + 1, StreamTurn(b))
<1> DEFINE j == Len(b.views)
           n == Len(saved)
           R == rests[j]
           stop == [b EXCEPT !.whole = FALSE]
<1>1. /\ b \in StreamStates /\ j \in 0..n /\ b.views = SubSeq(saved, 1, j) /\ n \in Nat
      /\ full => j = IF b.whole THEN k ELSE n
  BY DEF StreamReached
<1>2. PICK c \in 0..Len(R) : b.rest = SubSeq(R, 1, c) /\ (full => c = Len(R))
  BY DEF StreamReached
<1>3. R \in Seq(0..255) /\ rests[n] = <<>>
  BY <1>1 DEF StreamParts
<1>4. stop \in StreamStates /\ stop.views = b.views /\ stop.rest = b.rest /\ stop.whole = FALSE
  BY <1>1 DEF StreamStates
<1> HIDE DEF stop
<1>5. ASSUME full => j = n PROVE StreamReached(saved, rests, full, k + 1, stop)
  BY <1>1, <1>2, <1>4, <1>5 DEF StreamReached
<1>6. CASE ~b.whole
  <2>1. StreamTurn(b) = stop
    BY <1>6 DEF StreamTurn, stop
  <2> QED BY <2>1, <1>1, <1>5, <1>6
<1>7. CASE b.whole /\ j = n
  <2>1. ~ViewIsWhole(b.rest)
    <3>1. R = <<>> /\ Len(R) = 0 /\ c = 0
      BY <1>2, <1>3, <1>7
    <3>2. Len(b.rest) = 0
      BY <3>1, <1>2, <1>3, CutIs
    <3> QED BY <3>2 DEF ViewIsWhole
  <2>2. StreamTurn(b) = stop
    BY <2>1 DEF StreamTurn, stop
  <2> QED BY <2>2, <1>5, <1>7
<1>8. CASE b.whole /\ j # n
  <2> DEFINE v == saved[j + 1]
             S == rests[j + 1]
             w == ViewSaved(v)
             d == [views |-> Append(b.views, ViewRead(b.rest)), rest |-> ViewRest(b.rest), whole |-> TRUE]
  <2>1. j \in Nat /\ j + 1 \in 1..n /\ j + 1 \in 0..n /\ (j + 1) - 1 = j
    BY <1>1, <1>8
  <2>2. v \in StreamViews
    BY <2>1
  <2>3. R = w \o S /\ S \in Seq(0..255) /\ w \in Seq(0..255) /\ Len(w) \in Nat \ {0} /\ v \in Seq(0..255)
    <3>1. R = w \o S /\ S \in Seq(0..255)
      <4>1. rests[(j + 1) - 1] = w \o S
        BY <2>1 DEF StreamParts
      <4>2. S \in Seq(0..255)
        BY <2>1 DEF StreamParts
      <4> QED BY <2>1, <4>1, <4>2
    <3> QED BY <2>2, <3>1, ViewPacks
  <2>4. Len(R) = Len(w) + Len(S) /\ Len(S) \in Nat /\ c \in Nat /\ c <= Len(R)
    <3> HIDE DEF w, S, R
    <3>1. Len(R) = Len(w) + Len(S) /\ Len(S) \in Nat
      BY <2>3, ConcatProperties
    <3> QED BY <1>2, <2>3, <3>1
  <2> HIDE DEF v, S, R
  <2>5. b.rest = SubSeq(w \o S, 1, c)
    BY <1>2, <2>3
  <2>6. CASE c < Len(w)
    <3>1. c \in 0..(Len(w) - 1)
      BY <2>3, <2>4, <2>6
    <3>2. ~ViewIsWhole(b.rest)
      BY <2>2, <2>3, <2>5, <3>1, CutBefore
    <3>3. StreamTurn(b) = stop
      BY <3>2 DEF StreamTurn, stop
    <3>4. ~full
      BY <1>2, <2>3, <2>4, <2>6
    <3> QED BY <3>3, <3>4, <1>5
  <2>7. CASE ~(c < Len(w))
    <3> DEFINE e == c - Len(w)
    <3>1. c \in Len(w)..(Len(w) + Len(S)) /\ e \in 0..Len(S) /\ (full => e = Len(S))
      BY <1>2, <2>3, <2>4, <2>7
    <3>2. ViewIsWhole(b.rest) /\ ViewRead(b.rest) = v /\ ViewRest(b.rest) = SubSeq(S, 1, e)
      BY <2>2, <2>3, <2>5, <3>1, CutAfter
    <3>3. StreamTurn(b) = d
      BY <1>8, <3>2 DEF StreamTurn
    <3> HIDE DEF e
    <3>4. d.views = Append(b.views, v) /\ d.rest = SubSeq(S, 1, e) /\ d.whole = TRUE
      BY <3>2
    <3>5. d.rest \in Seq(0..255)
      <4>1. S \in Seq(0..255) /\ e \in 0..Len(S)
        BY <2>3, <3>1
      <4>2. SubSeq(S, 1, e) \in Seq(0..255)
        BY <4>1, CutIs
      <4> QED BY <3>4, <4>2
    <3>6. /\ d.views \in Seq(StreamViews) /\ Len(d.views) = j + 1 /\ d.views = SubSeq(saved, 1, j + 1)
      <4>1. b.views \in Seq(StreamViews)
        BY <1>1 DEF StreamStates
      <4>2. Append(b.views, v) \in Seq(StreamViews) /\ Len(Append(b.views, v)) = j + 1
        BY <2>2, <4>1
      <4>3. ASSUME NEW i \in 1..(j + 1) PROVE Append(b.views, v)[i] = saved[i]
        <5>1. CASE i = j + 1
          BY <4>1, <5>1 DEF v
        <5>2. CASE i # j + 1
          <6>1. i \in 1..j
            BY <2>1, <5>2
          <6>2. SubSeq(saved, 1, j)[i] = saved[i]
            BY <1>1, <6>1, CutIs
          <6> QED BY <1>1, <4>1, <6>1, <6>2
        <5> QED BY <5>1, <5>2
      <4>4. /\ SubSeq(saved, 1, j + 1) \in Seq(StreamViews) /\ Len(SubSeq(saved, 1, j + 1)) = j + 1
            /\ \A i \in 1..(j + 1) : SubSeq(saved, 1, j + 1)[i] = saved[i]
        BY <2>1, CutIs
      <4> HIDE DEF j
      <4>5. Append(b.views, v) = SubSeq(saved, 1, j + 1)
        BY <2>1, <4>2, <4>3, <4>4, SeqEqual
      <4> QED BY <3>4, <4>2, <4>5
    <3>7. d \in StreamStates
      BY <3>5, <3>6 DEF StreamStates
    <3>8. full => j + 1 = k + 1
      BY <1>1, <1>8
    <3>9. \E x \in 0..Len(S) : d.rest = SubSeq(S, 1, x) /\ (full => x = Len(S))
      BY <3>1, <3>4
    <3> HIDE DEF d, j
    <3>10. StreamReached(saved, rests, full, k + 1, d)
      BY <2>1, <3>4, <3>6, <3>7, <3>8, <3>9 DEF StreamReached, S
    <3> QED BY <3>3, <3>10
  <2> QED BY <2>6, <2>7
<1> QED BY <1>6, <1>7, <1>8

\* The turns so far, from the start.
StreamRuns(saved, rests, full, start, m) ==
    {f \in [0..m -> StreamStates] :
        /\ f[0] = start /\ \A k \in 1..m : f[k] = StreamTurn(f[k - 1])
        /\ \A k \in 0..m : StreamReached(saved, rests, full, k, f[k])}

\* The turns so far can be continued by one.
LEMMA StreamRunsMore ==
    ASSUME NEW input, NEW saved \in Seq(StreamViews), NEW rests, StreamParts(input, saved, rests), NEW full \in BOOLEAN,
           NEW start, NEW m \in Nat, NEW f \in StreamRuns(saved, rests, full, start, m)
    PROVE  \E g : g \in StreamRuns(saved, rests, full, start, m + 1)
<1> DEFINE next == StreamTurn(f[m])
           g == [k \in 0..(m + 1) |-> IF k = m + 1 THEN next ELSE f[k]]
<1>1. /\ f \in [0..m -> StreamStates] /\ f[0] = start /\ \A k \in 1..m : f[k] = StreamTurn(f[k - 1])
      /\ \A k \in 0..m : StreamReached(saved, rests, full, k, f[k])
  BY DEF StreamRuns
<1>2. StreamReached(saved, rests, full, m + 1, next)
  <2> DEFINE b == f[m]
  <2>1. StreamReached(saved, rests, full, m, b)
    BY <1>1
  <2> HIDE DEF b
  <2>2. StreamReached(saved, rests, full, m + 1, StreamTurn(b))
    BY <2>1, StreamTurnReaches
  <2> QED BY <2>2 DEF b
<1>3. m \in 0..m
  OBVIOUS
<1> HIDE DEF next
<1>4. next \in StreamStates
  BY <1>2 DEF StreamReached
<1>5. g \in [0..(m + 1) -> StreamStates] /\ g[m + 1] = next /\ \A k \in 0..m : g[k] = f[k]
  BY <1>1, <1>4
<1> HIDE DEF g
<1>6. ASSUME NEW k \in 1..(m + 1) PROVE g[k] = StreamTurn(g[k - 1])
  <2>1. CASE k = m + 1
    BY <2>1, <1>3, <1>5 DEF next
  <2>2. CASE k # m + 1
    <3>1. k \in 1..m /\ k - 1 \in 0..m /\ k \in 0..m
      BY <2>2
    <3> QED BY <3>1, <1>1, <1>5
  <2> QED BY <2>1, <2>2
<1>7. ASSUME NEW k \in 0..(m + 1) PROVE StreamReached(saved, rests, full, k, g[k])
  <2>1. CASE k = m + 1
    BY <2>1, <1>2, <1>5
  <2>2. CASE k # m + 1
    <3>1. k \in 0..m
      BY <2>2
    <3> QED BY <3>1, <1>1, <1>5
  <2> QED BY <2>1, <2>2
<1>8. g[0] = start
  BY <1>1, <1>5
<1>9. g \in StreamRuns(saved, rests, full, start, m + 1)
  BY <1>5, <1>6, <1>7, <1>8 DEF StreamRuns
<1> QED BY <1>9

\* What StreamLoaded makes of a stream that was cut.
LEMMA StreamLoadedIs ==
    ASSUME NEW input, NEW saved \in Seq(StreamViews), NEW rests, StreamParts(input, saved, rests), NEW cut \in 0..Len(input),
           NEW turns \in Nat
    PROVE  \E b : /\ StreamReached(saved, rests, cut = Len(input), turns, b)
                  /\ StreamLoaded(SubSeq(input, 1, cut), turns) = b.views
<1> DEFINE full == (cut = Len(input))
           start == [views |-> <<>>, rest |-> SubSeq(input, 1, cut), whole |-> TRUE]
           S == {m \in 0..turns : \E f : f \in StreamRuns(saved, rests, full, start, m)}
<1>1. input = rests[0] /\ input \in Seq(0..255) /\ Len(saved) \in Nat
  <2>1. Len(saved) \in Nat /\ 0 \in 0..Len(saved)
    OBVIOUS
  <2>2. rests \in [0..Len(saved) -> Seq(0..255)] /\ rests[0] = input
    BY DEF StreamParts
  <2> QED BY <2>1, <2>2
<1>2. SubSeq(input, 1, cut) \in Seq(0..255)
  BY <1>1, CutIs
<1>3. StreamReached(saved, rests, full, 0, start)
  <2>1. start \in StreamStates /\ start.views = <<>> /\ start.rest = SubSeq(input, 1, cut) /\ start.whole = TRUE
    BY <1>2 DEF StreamStates
  <2> HIDE DEF start, full
  <2>2. Len(start.views) = 0 /\ 0 \in 0..Len(saved) /\ start.views = SubSeq(saved, 1, 0)
    BY <1>1, <2>1
  <2>3. \E c \in 0..Len(rests[0]) : start.rest = SubSeq(rests[0], 1, c) /\ (full => c = Len(rests[0]))
    BY <1>1, <2>1 DEF full
  <2> QED BY <2>1, <2>2, <2>3 DEF StreamReached
<1>4. full \in BOOLEAN
  OBVIOUS
<1> HIDE DEF full
<1>5. 0 \in S
  <2> DEFINE e == [k \in 0..0 |-> start]
  <2>1. start \in StreamStates
    BY <1>3 DEF StreamReached
  <2> HIDE DEF start
  <2>2. e \in [0..0 -> StreamStates] /\ e[0] = start /\ \A k \in 0..0 : k = 0
    BY <2>1
  <2> HIDE DEF e
  <2>3. e \in StreamRuns(saved, rests, full, start, 0)
    BY <1>3, <2>2 DEF StreamRuns
  <2> QED BY <2>3
<1> HIDE DEF start
<1>6. \A k \in 1..turns : k - 1 \in S => k \in S
  <2> SUFFICES ASSUME NEW k \in 1..turns, k - 1 \in S PROVE k \in S
    OBVIOUS
  <2> DEFINE m == k - 1
  <2>1. PICK f : f \in StreamRuns(saved, rests, full, start, m)
    OBVIOUS
  <2>2. m \in Nat /\ m + 1 = k
    OBVIOUS
  <2> HIDE DEF m
  <2>3. \E g : g \in StreamRuns(saved, rests, full, start, m + 1)
    BY <1>4, <2>1, <2>2, StreamRunsMore
  <2> QED BY <2>2, <2>3
<1>7. 0..turns \subseteq S
  <2> HIDE DEF S
  <2> QED BY <1>5, <1>6, UpTo
<1>8. PICK f : f \in StreamRuns(saved, rests, full, start, turns)
  BY <1>7
<1>9. /\ f \in [0..turns -> StreamStates] /\ f[0] = start /\ \A k \in 1..turns : f[k] = StreamTurn(f[k - 1])
      /\ StreamReached(saved, rests, full, turns, f[turns])
  BY <1>8 DEF StreamRuns
<1> DEFINE C == CHOOSE loads : loads = [k \in 0..turns |-> IF k = 0 THEN start ELSE StreamTurn(loads[k - 1])]
<1>10. f = [k \in 0..turns |-> IF k = 0 THEN start ELSE StreamTurn(f[k - 1])]
  <2>1. \A k \in 0..turns : k # 0 => k \in 1..turns
    OBVIOUS
  <2> QED BY <1>9, <2>1
<1>11. C = [k \in 0..turns |-> IF k = 0 THEN start ELSE StreamTurn(C[k - 1])]
  BY <1>10
<1>12. StreamLoaded(SubSeq(input, 1, cut), turns) = C[turns].views
  BY DEF StreamLoaded, start
<1> HIDE DEF C
<1>13. \A k \in 0..turns : C[k] = f[k]
  <2> DEFINE T == {k \in 0..turns : C[k] = f[k]}
  <2>1. 0 \in T
    BY <1>9, <1>11
  <2>2. ASSUME NEW k \in 1..turns, k - 1 \in T PROVE k \in T
    <3>1. k \in 0..turns /\ k # 0
      OBVIOUS
    <3>2. C[k] = StreamTurn(C[k - 1]) /\ f[k] = StreamTurn(f[k - 1])
      BY <3>1, <1>9, <1>11
    <3> QED BY <2>2, <3>1, <3>2
  <2>3. 0..turns \subseteq T
    <3> HIDE DEF T
    <3> QED BY <2>1, <2>2, UpTo
  <2> QED BY <2>3
<1>14. C[turns] = f[turns]
  BY <1>13
<1> QED BY <1>9, <1>12, <1>14 DEF full

\* The stream is the views that are in it, one after the other, always.
LEMMA StreamInvariant == StreamSpec => []StreamInv
<1>1. StreamInit => StreamInv
  <2> SUFFICES ASSUME StreamInit PROVE StreamInv
    OBVIOUS
  <2> DEFINE rests == [k \in 0..0 |-> <<>>]
  <2>1. stream = <<>> /\ streamSaved = <<>> /\ Len(streamSaved) = 0
    BY DEF StreamInit
  <2>2. rests \in [0..0 -> Seq(0..255)] /\ rests[0] = <<>>
    OBVIOUS
  <2> HIDE DEF rests
  <2>3. StreamParts(stream, streamSaved, rests)
    BY <2>1, <2>2 DEF StreamParts
  <2> QED BY <2>1, <2>3 DEF StreamInv, StreamTypeOK
<1>2. StreamInv /\ UNCHANGED streamVars => StreamInv'
  BY DEF StreamInv, StreamTypeOK, streamVars
<1>3. StreamInv /\ [StreamNext]_streamVars => StreamInv'
  BY <1>2, StreamSaveKeeps, StreamLoadKeeps DEF StreamNext
<1> QED BY <1>1, <1>3, PTL DEF StreamSpec

\* Bytes and views keep their types.
THEOREM StreamTypeCorrect == StreamSpec => []StreamTypeOK
<1>1. StreamInv => StreamTypeOK
  BY DEF StreamInv
<1> QED BY <1>1, StreamInvariant, PTL

\* Wherever a stream is cut, what loads from it are the first of the views saved in it, and from the
\* whole stream all of them, for every list of views and every length.
THEOREM StreamLoadsCorrect == StreamSpec => []StreamLoadsInOrder
<1>1. StreamInv => StreamLoadsInOrder
  <2> SUFFICES ASSUME StreamInv, NEW cut \in 0..Len(stream)
               PROVE  LET loaded == StreamLoaded(SubSeq(stream, 1, cut), Len(streamSaved) + 1)
                      IN  /\ Len(loaded) <= Len(streamSaved)
                          /\ loaded = SubSeq(streamSaved, 1, Len(loaded))
                          /\ cut = Len(stream) => loaded = streamSaved
    BY DEF StreamLoadsInOrder
  <2> DEFINE n == Len(streamSaved)
  <2>1. PICK rests : StreamParts(stream, streamSaved, rests)
    BY DEF StreamInv
  <2>2. streamSaved \in Seq(StreamViews) /\ n \in Nat /\ n + 1 \in Nat
    BY DEF StreamInv, StreamTypeOK
  <2> DEFINE turns == n + 1
  <2>3. turns \in Nat
    BY <2>2
  <2> HIDE DEF turns
  <2>4. PICK b : /\ StreamReached(streamSaved, rests, cut = Len(stream), turns, b)
                 /\ StreamLoaded(SubSeq(stream, 1, cut), turns) = b.views
    BY <2>1, <2>2, <2>3, StreamLoadedIs
  <2> DEFINE j == Len(b.views)
  <2>5. /\ j \in 0..n /\ b.views = SubSeq(streamSaved, 1, j)
        /\ cut = Len(stream) => j = IF b.whole THEN turns ELSE n
    BY <2>4 DEF StreamReached
  <2>6. cut = Len(stream) => j = n
    BY <2>2, <2>5 DEF turns
  <2>7. SubSeq(streamSaved, 1, n) = streamSaved
    BY <2>2
  <2> QED BY <2>4, <2>5, <2>6, <2>7 DEF turns
<1> QED BY <1>1, StreamInvariant, PTL

----------------------------------------------------------------------------
\* ArrayPod

\* What memory may hold.
PodMemory == PodValues \cup {PodGarbage, PodEmpty}

\* A block holds what is meant, and an empty element after it.
PodHolds(data, count, meant) ==
    /\ data \in Seq(PodMemory) /\ meant \in Seq(PodValues) /\ Len(meant) = count
    /\ count \in Nat /\ count <= PodSize(data)
    /\ \A i \in 1..count : data[i] = meant[i]
    /\ data # <<>> => data[count + 1] = PodEmpty
PodInv == PodHolds(podData, podCount, podMeant) /\ podCount <= PodLength

\* Copies of memory, element by element.
LEMMA PodAtIs ==
    ASSUME NEW S, NEW data \in Seq(S), NEW offset \in Nat, NEW n \in Nat, offset + n <= Len(data)
    PROVE  /\ PodAt(data, offset, n) \in Seq(S) /\ Len(PodAt(data, offset, n)) = n
           /\ \A i \in 1..n : PodAt(data, offset, n)[i] = data[offset + i]
BY SMT DEF PodAt

LEMMA PodJoined ==
    ASSUME NEW S, NEW a \in Seq(S), NEW b \in Seq(S), NEW c \in Seq(S), NEW d, d = a \o b \o c
    PROVE  /\ d \in Seq(S) /\ Len(d) = Len(a) + Len(b) + Len(c)
           /\ \A i \in 1..Len(a) : d[i] = a[i]
           /\ \A i \in 1..Len(b) : d[Len(a) + i] = b[i]
           /\ \A i \in 1..Len(c) : d[Len(a) + Len(b) + i] = c[i]
BY SMT

LEMMA PodPutIs ==
    ASSUME NEW S, NEW data \in Seq(S), NEW chain \in Seq(S), NEW offset \in Nat,
           offset + Len(chain) <= Len(data)
    PROVE  /\ PodPut(data, offset, chain) \in Seq(S) /\ Len(PodPut(data, offset, chain)) = Len(data)
           /\ \A i \in 1..Len(data) : PodPut(data, offset, chain)[i] =
                  IF i > offset /\ i <= offset + Len(chain) THEN chain[i - offset] ELSE data[i]
<1> DEFINE a == SubSeq(data, 1, offset)
           c == SubSeq(data, offset + Len(chain) + 1, Len(data))
<1>1. /\ a \in Seq(S) /\ Len(a) = offset
      /\ \A i \in 1..offset : a[i] = data[i]
  BY SMT
<1>2. /\ c \in Seq(S) /\ Len(c) = Len(data) - (offset + Len(chain))
      /\ \A i \in 1..(Len(data) - (offset + Len(chain))) : c[i] = data[offset + Len(chain) + i]
  BY SMT
<1>3. Len(chain) \in Nat /\ Len(data) \in Nat
  OBVIOUS
<1>4. PodPut(data, offset, chain) = a \o chain \o c
  BY DEF PodPut
<1> HIDE DEF a, c
<1>5. /\ PodPut(data, offset, chain) \in Seq(S) /\ Len(PodPut(data, offset, chain)) = Len(data)
      /\ \A i \in 1..offset : PodPut(data, offset, chain)[i] = data[i]
      /\ \A i \in 1..Len(chain) : PodPut(data, offset, chain)[offset + i] = chain[i]
      /\ \A i \in 1..Len(c) : PodPut(data, offset, chain)[offset + Len(chain) + i] = c[i]
  <2> DEFINE d == PodPut(data, offset, chain)
  <2>1. a \in Seq(S) /\ c \in Seq(S) /\ d = a \o chain \o c
    BY <1>1, <1>2, <1>4
  <2> HIDE DEF d
  <2>2. /\ d \in Seq(S) /\ Len(d) = Len(a) + Len(chain) + Len(c)
        /\ \A i \in 1..Len(a) : d[i] = a[i]
        /\ \A i \in 1..Len(chain) : d[Len(a) + i] = chain[i]
        /\ \A i \in 1..Len(c) : d[Len(a) + Len(chain) + i] = c[i]
    BY <2>1, PodJoined
  <2>3. Len(a) + Len(chain) + Len(c) = Len(data)
    BY <1>1, <1>2, <1>3
  <2> QED BY <1>1, <2>2, <2>3 DEF d
<1>6. ASSUME NEW i \in 1..Len(data)
      PROVE  PodPut(data, offset, chain)[i] =
                 IF i > offset /\ i <= offset + Len(chain) THEN chain[i - offset] ELSE data[i]
  <2>1. CASE i <= offset
    BY <1>3, <1>5, <2>1
  <2>2. CASE i > offset /\ i <= offset + Len(chain)
    <3>1. i - offset \in 1..Len(chain) /\ offset + (i - offset) = i
      BY <1>3, <2>2
    <3> QED BY <1>5, <2>2, <3>1
  <2>3. CASE i > offset + Len(chain)
    <3>1. /\ i - (offset + Len(chain)) \in 1..Len(c)
          /\ offset + Len(chain) + (i - (offset + Len(chain))) = i
      BY <1>2, <1>3, <2>3
    <3>2. PodPut(data, offset, chain)[i] = c[i - (offset + Len(chain))]
      BY <1>5, <3>1
    <3>3. c[i - (offset + Len(chain))] = data[i]
      BY <1>2, <3>1
    <3> QED BY <1>3, <2>3, <3>2, <3>3
  <2> QED BY <1>3, <2>1, <2>2, <2>3
<1> QED BY <1>5, <1>6

\* What the calls share: the memory they reserve keeps the elements, and with the right ones at its
\* start it is left as it should be.
LEMMA PodReservedIs ==
    ASSUME PodInv, NEW n \in Nat
    PROVE  /\ PodReserved(n) \in Seq(PodMemory)
           /\ n <= PodSize(PodReserved(n)) /\ podCount <= PodSize(PodReserved(n))
           /\ \A i \in 1..podCount : PodReserved(n)[i] = podData[i]
<1>1. CASE n <= PodSize(podData)
  BY <1>1 DEF PodInv, PodHolds, PodReserved
<1>2. CASE ~(n <= PodSize(podData))
  <2> DEFINE block == PodAllocated(n)
             chain == Append(PodAt(podData, 0, podCount), PodEmpty)
  <2>1. podCount \in Nat /\ podData \in Seq(PodMemory) /\ podCount <= Len(podData) /\ podCount < n
    BY <1>2 DEF PodInv, PodHolds, PodSize
  <2>2. n \div 4 \in Nat
    BY SMT
  <2>3. block \in Seq(PodMemory) /\ Len(block) = 2 + n + (n \div 4) + 1
    BY <2>2 DEF PodAllocated, PodMemory
  <2>4. /\ PodAt(podData, 0, podCount) \in Seq(PodMemory) /\ Len(PodAt(podData, 0, podCount)) = podCount
        /\ \A i \in 1..podCount : PodAt(podData, 0, podCount)[i] = podData[0 + i]
    <3>1. podData \in Seq(PodMemory) /\ 0 \in Nat /\ podCount \in Nat /\ 0 + podCount <= Len(podData)
      BY <2>1
    <3> QED BY <3>1, PodAtIs, Zenon
  <2>5. /\ chain \in Seq(PodMemory) /\ Len(chain) = podCount + 1
        /\ \A i \in 1..podCount : chain[i] = podData[i]
    <3> DEFINE here == PodAt(podData, 0, podCount)
    <3> HIDE DEF here
    <3>1. /\ here \in Seq(PodMemory) /\ Len(here) = podCount
          /\ \A i \in 1..podCount : here[i] = podData[i]
      BY <2>1, <2>4 DEF here
    <3>2. chain = Append(here, PodEmpty) /\ PodEmpty \in PodMemory
      BY DEF here, PodMemory
    <3> HIDE DEF chain
    <3> QED BY <2>1, <3>1, <3>2
  <2>6. PodReserved(n) = PodPut(block, 0, chain)
    BY <1>2 DEF PodReserved
  <2> HIDE DEF block, chain
  <2>7. /\ PodReserved(n) \in Seq(PodMemory) /\ Len(PodReserved(n)) = Len(block)
        /\ \A i \in 1..Len(block) : PodReserved(n)[i] =
               IF i > 0 /\ i <= 0 + Len(chain) THEN chain[i - 0] ELSE block[i]
    <3>1. block \in Seq(PodMemory) /\ chain \in Seq(PodMemory) /\ 0 \in Nat /\ 0 + Len(chain) <= Len(block)
      BY <2>1, <2>2, <2>3, <2>5
    <3> QED BY <2>6, <3>1, PodPutIs
  <2>8. PodReserved(n) # <<>>
    BY <2>2, <2>3, <2>7
  <2>9. PodSize(PodReserved(n)) = 2 + n + (n \div 4)
    BY <2>2, <2>3, <2>7, <2>8 DEF PodSize
  <2>10. \A i \in 1..podCount : PodReserved(n)[i] = podData[i]
    BY <2>1, <2>2, <2>3, <2>5, <2>7
  <2> QED BY <2>1, <2>2, <2>7, <2>9, <2>10
<1> QED BY <1>1, <1>2

LEMMA PodEndsHolding ==
    ASSUME NEW data \in Seq(PodMemory), NEW count \in Nat, NEW meant \in Seq(PodValues),
           Len(meant) = count, count <= PodSize(data), count <= PodLength,
           \A i \in 1..count : data[i] = meant[i],
           PodEnds(data, count), podMeant' = meant
    PROVE  PodInv'
<1>1. podCount' = count /\ podMeant' = meant
  BY DEF PodEnds
<1>2. CASE data = <<>>
  <2>1. podData' = data
    BY <1>2 DEF PodEnds
  <2> QED BY <1>1, <1>2, <2>1 DEF PodInv, PodHolds
<1>3. CASE data # <<>>
  <2>1. podData' = PodPut(data, count, <<PodEmpty>>) /\ count + 1 <= Len(data)
    BY <1>3 DEF PodEnds, PodSize
  <2>2. <<PodEmpty>> \in Seq(PodMemory) /\ Len(<<PodEmpty>>) = 1
    BY DEF PodMemory
  <2>3. /\ podData' \in Seq(PodMemory) /\ Len(podData') = Len(data)
        /\ \A i \in 1..Len(data) : podData'[i] =
               IF i > count /\ i <= count + 1 THEN <<PodEmpty>>[i - count] ELSE data[i]
    <3> DEFINE chain == <<PodEmpty>>
    <3> HIDE DEF chain
    <3>1. chain \in Seq(PodMemory) /\ Len(chain) = 1 /\ podData' = PodPut(data, count, chain)
      BY <2>1, <2>2 DEF chain
    <3>2. /\ PodPut(data, count, chain) \in Seq(PodMemory)
          /\ Len(PodPut(data, count, chain)) = Len(data)
          /\ \A i \in 1..Len(data) : PodPut(data, count, chain)[i] =
                 IF i > count /\ i <= count + Len(chain) THEN chain[i - count] ELSE data[i]
      <4>1. data \in Seq(PodMemory) /\ chain \in Seq(PodMemory) /\ count \in Nat /\ count + Len(chain) <= Len(data)
        BY <2>1, <3>1
      <4> QED BY <4>1, PodPutIs
    <3> QED BY <3>1, <3>2 DEF chain
  <2>4. podData'[count + 1] = PodEmpty
    <3>1. count + 1 \in 1..Len(data) /\ (count + 1) - count = 1 /\ count + 1 > count /\ count + 1 <= count + 1
      BY <2>1
    <3>2. podData'[count + 1] = <<PodEmpty>>[(count + 1) - count]
      BY <2>3, <3>1, Zenon
    <3> QED BY <3>1, <3>2
  <2>5. ASSUME NEW i \in 1..count PROVE podData'[i] = meant[i]
    <3>1. i \in 1..Len(data) /\ ~(i > count)
      BY <2>1
    <3> QED BY <2>3, <3>1, Zenon
  <2>6. podData' # <<>>
    BY <1>3, <2>3
  <2>7. PodSize(podData') = PodSize(data)
    BY <1>3, <2>3, <2>6 DEF PodSize
  <2> QED BY <1>1, <2>3, <2>4, <2>5, <2>7 DEF PodInv, PodHolds
<1> QED BY <1>2, <1>3

\* A chain that a call is given is of values, and one of the array's own is read from any memory that
\* has its elements.
LEMMA PodOwnSource ==
    ASSUME NEW source \in PodSources, source.own
    PROVE  source.offset \in 0..podCount /\ source.length \in 0..podCount
BY DEF PodSources

LEMMA PodOtherSource ==
    ASSUME NEW source \in PodSources, ~source.own
    PROVE  source.chain \in PodChains
BY DEF PodSources

LEMMA PodSourceIs ==
    ASSUME PodInv, NEW source \in PodSources, PodIsSource(source)
    PROVE  /\ PodRead(source, podData) \in Seq(PodValues)
           /\ source.own => /\ source.offset \in Nat /\ source.length \in Nat
                            /\ source.offset + source.length <= podCount
                            /\ Len(PodRead(source, podData)) = source.length
                            /\ \A i \in 1..source.length :
                                  PodRead(source, podData)[i] = podData[source.offset + i]
<1>1. podCount \in Nat /\ podData \in Seq(PodMemory) /\ podCount <= Len(podData)
      /\ \A i \in 1..podCount : podData[i] \in PodValues
  BY DEF PodInv, PodHolds, PodSize
<1>2. CASE source.own
  <2> DEFINE o == source.offset
             n == source.length
  <2>1. o \in 0..podCount /\ n \in 0..podCount
    BY <1>2, PodOwnSource
  <2>2. o \in Nat /\ n \in Nat /\ o + n <= podCount
    BY <1>1, <1>2, <2>1 DEF PodIsSource
  <2> DEFINE chain == PodAt(podData, o, n)
  <2> HIDE DEF o, n
  <2>3. o + n <= Len(podData)
    BY <1>1, <2>2
  <2>4. /\ chain \in Seq(PodMemory) /\ Len(chain) = n
        /\ \A i \in 1..n : chain[i] = podData[o + i]
    BY <1>1, <2>2, <2>3, PodAtIs
  <2>5. PodRead(source, podData) = chain
    BY <1>2 DEF PodRead, o, n
  <2> HIDE DEF chain
  <2>6. \A i \in 1..Len(chain) : chain[i] \in PodValues
    BY <1>1, <2>2, <2>4
  <2>7. chain \in Seq(PodValues)
    BY <2>4, <2>6, SMT
  <2> QED BY <2>2, <2>4, <2>5, <2>7 DEF o, n
<1>3. CASE ~source.own
  BY <1>3, PodOtherSource, PodAssumption DEF PodRead
<1> QED BY <1>2, <1>3

LEMMA PodSourceMoved ==
    ASSUME PodInv, NEW source \in PodSources, PodIsSource(source),
           NEW data \in Seq(PodMemory), podCount <= Len(data), \A i \in 1..podCount : data[i] = podData[i]
    PROVE  PodRead(source, data) = PodRead(source, podData)
<1>1. podCount \in Nat /\ podData \in Seq(PodMemory) /\ podCount <= Len(podData)
  BY DEF PodInv, PodHolds, PodSize
<1>2. CASE source.own
  <2> DEFINE o == source.offset
             n == source.length
  <2>1. o \in 0..podCount /\ n \in 0..podCount
    BY <1>2, PodOwnSource
  <2>2. o \in Nat /\ n \in Nat /\ o + n <= podCount
    BY <1>1, <1>2, <2>1 DEF PodIsSource
  <2> HIDE DEF o, n
  <2>3. o + n <= Len(podData) /\ o + n <= Len(data)
    BY <1>1, <2>2
  <2> DEFINE here == PodAt(podData, o, n)
             there == PodAt(data, o, n)
  <2>4. /\ here \in Seq(PodMemory) /\ Len(here) = n
        /\ \A i \in 1..n : here[i] = podData[o + i]
    BY <1>1, <2>2, <2>3, PodAtIs
  <2>5. /\ there \in Seq(PodMemory) /\ Len(there) = n
        /\ \A i \in 1..n : there[i] = data[o + i]
    BY <1>1, <2>2, <2>3, PodAtIs
  <2>6. PodRead(source, data) = there /\ PodRead(source, podData) = here
    BY <1>2 DEF PodRead, o, n
  <2> HIDE DEF here, there
  <2>7. ASSUME NEW i \in 1..Len(here) PROVE here[i] = there[i]
    <3>1. o + i \in 1..podCount /\ i \in 1..n
      BY <1>1, <2>2, <2>4
    <3> QED BY <2>4, <2>5, <3>1
  <2>8. here = there
    BY <2>4, <2>5, <2>7, SeqEqual
  <2> QED BY <2>6, <2>8
<1>3. CASE ~source.own
  BY <1>3 DEF PodRead
<1> QED BY <1>2, <1>3

\* A chain put into reserved memory at index leaves what is before it.
LEMMA PodPutHolding ==
    ASSUME NEW data \in Seq(PodMemory), NEW chain \in Seq(PodValues), NEW index \in Nat,
           NEW meant \in Seq(PodValues), index + Len(chain) <= PodSize(data),
           Len(meant) = index + Len(chain), index + Len(chain) <= PodLength,
           \A i \in 1..index : meant[i] = data[i],
           \A i \in 1..Len(chain) : meant[index + i] = chain[i],
           PodEnds(PodPut(data, index, chain), index + Len(chain)), podMeant' = meant
    PROVE  PodInv'
<1> DEFINE put == PodPut(data, index, chain)
<1>1. chain \in Seq(PodMemory) /\ Len(chain) \in Nat /\ Len(data) \in Nat
  BY DEF PodMemory
<1>2. index + Len(chain) <= Len(data)
  BY <1>1 DEF PodSize
<1>3. /\ put \in Seq(PodMemory) /\ Len(put) = Len(data)
      /\ \A i \in 1..Len(data) : put[i] =
             IF i > index /\ i <= index + Len(chain) THEN chain[i - index] ELSE data[i]
  BY <1>1, <1>2, PodPutIs
<1> HIDE DEF put
<1>4. PodSize(put) = PodSize(data)
  BY <1>3 DEF PodSize
<1>5. ASSUME NEW i \in 1..(index + Len(chain)) PROVE put[i] = meant[i]
  <2>1. CASE i <= index
    BY <1>1, <1>2, <1>3, <2>1
  <2>2. CASE i > index
    <3>1. i - index \in 1..Len(chain) /\ index + (i - index) = i
      BY <1>1, <2>2
    <3>2. meant[i] = chain[i - index]
      BY <3>1
    <3> QED BY <1>1, <1>2, <1>3, <2>2, <3>2
  <2> QED BY <2>1, <2>2
<1>6. PodEnds(put, index + Len(chain))
  BY DEF put
<1> DEFINE count == index + Len(chain)
<1>7. /\ put \in Seq(PodMemory) /\ count \in Nat /\ Len(meant) = count /\ count <= PodSize(put)
      /\ count <= PodLength /\ PodEnds(put, count) /\ \A i \in 1..count : put[i] = meant[i]
  BY <1>1, <1>3, <1>4, <1>5, <1>6
<1> HIDE DEF count
<1> QED BY <1>7, PodEndsHolding

\* The actions
LEMMA PodPushBackHolds ==
    ASSUME PodInv, NEW value \in PodValues, PodPushBack(value)
    PROVE  PodInv'
<1> DEFINE chain == <<value>>
           data == PodReserved(podCount + 1)
           meant == Append(podMeant, value)
<1>1. podCount \in Nat /\ podMeant \in Seq(PodValues) /\ Len(podMeant) = podCount
      /\ (\A i \in 1..podCount : podData[i] = podMeant[i])
  BY DEF PodInv, PodHolds
<1>2. /\ data \in Seq(PodMemory) /\ podCount + 1 <= PodSize(data)
      /\ \A i \in 1..podCount : data[i] = podData[i]
  <2>1. podCount + 1 \in Nat
    BY <1>1
  <2> QED BY <2>1, PodReservedIs, Zenon
<1>3. chain \in Seq(PodValues) /\ Len(chain) = 1 /\ chain[1] = value
  OBVIOUS
<1>4. /\ meant \in Seq(PodValues) /\ Len(meant) = podCount + 1 /\ meant[podCount + 1] = value
      /\ \A i \in 1..podCount : meant[i] = podMeant[i]
  BY <1>1
<1>5. PodEnds(PodPut(data, podCount, chain), podCount + 1) /\ podMeant' = meant /\ podCount + 1 <= PodLength
  BY <1>1, PodAssumption DEF PodPushBack
<1> HIDE DEF chain, data, meant
<1>6. /\ \A i \in 1..Len(chain) : meant[podCount + i] = chain[i]
      /\ \A i \in 1..podCount : meant[i] = data[i]
      /\ podCount + Len(chain) = podCount + 1
  <2>1. ASSUME NEW i \in 1..Len(chain) PROVE meant[podCount + i] = chain[i]
    <3>1. i = 1
      BY <1>3
    <3> QED BY <1>3, <1>4, <3>1, Zenon
  <2>2. \A i \in 1..podCount : meant[i] = data[i]
    BY <1>1, <1>2, <1>4, Zenon
  <2> QED BY <1>3, <2>1, <2>2, Zenon
<1>7. podCount \in Nat /\ chain \in Seq(PodValues) /\ data \in Seq(PodMemory) /\ meant \in Seq(PodValues)
  BY <1>1, <1>2, <1>3, <1>4
<1>8. /\ podCount + Len(chain) <= PodSize(data) /\ podCount + Len(chain) <= PodLength
      /\ Len(meant) = podCount + Len(chain)
      /\ PodEnds(PodPut(data, podCount, chain), podCount + Len(chain)) /\ podMeant' = meant
  BY <1>2, <1>4, <1>5, <1>6, Zenon
<1> QED BY <1>6, <1>7, <1>8, PodPutHolding, Zenon

LEMMA PodShrinkHolds ==
    ASSUME PodInv, NEW n \in 0..podCount, PodEnds(podData, n), podMeant' = SubSeq(podMeant, 1, n)
    PROVE  PodInv'
<1>1. /\ podCount \in Nat /\ podMeant \in Seq(PodValues) /\ Len(podMeant) = podCount
      /\ podData \in Seq(PodMemory) /\ podCount <= PodSize(podData) /\ podCount <= PodLength
      /\ \A i \in 1..podCount : podData[i] = podMeant[i]
  BY DEF PodInv, PodHolds
<1> DEFINE meant == SubSeq(podMeant, 1, n)
<1>2. /\ meant \in Seq(PodValues) /\ Len(meant) = n
      /\ \A i \in 1..n : meant[i] = podMeant[i]
  BY <1>1
<1>3. PodSize(podData) \in Nat
  BY <1>1 DEF PodSize
<1> HIDE DEF meant
<1>4. n \in Nat /\ n <= PodSize(podData) /\ n <= PodLength /\ \A i \in 1..n : podData[i] = meant[i]
  BY <1>1, <1>2, <1>3, PodAssumption
<1>5. podMeant' = meant
  BY DEF meant
<1> QED BY <1>1, <1>2, <1>4, <1>5, PodEndsHolding

LEMMA PodAppendHolds ==
    ASSUME PodInv, NEW source \in PodSources, PodIsSource(source), PodAppend(source)
    PROVE  PodInv'
<1> DEFINE chain == PodRead(source, podData)
           data == PodReserved(podCount + Len(chain))
           meant == podMeant \o chain
<1>1. podCount \in Nat /\ podMeant \in Seq(PodValues) /\ Len(podMeant) = podCount
      /\ (\A i \in 1..podCount : podData[i] = podMeant[i])
  BY DEF PodInv, PodHolds
<1>2. chain \in Seq(PodValues) /\ Len(chain) \in Nat
  BY PodSourceIs
<1>3. /\ data \in Seq(PodMemory) /\ podCount + Len(chain) <= PodSize(data)
      /\ \A i \in 1..podCount : data[i] = podData[i]
  <2>1. podCount + Len(chain) \in Nat
    BY <1>1, <1>2
  <2> QED BY <2>1, PodReservedIs
<1>4. podCount <= Len(data)
  BY <1>1, <1>2, <1>3 DEF PodSize
<1>5. PodRead(source, data) = chain
  BY <1>3, <1>4, PodSourceMoved
<1>6. PodEnds(PodPut(data, podCount, chain), podCount + Len(chain)) /\ podMeant' = meant
      /\ podCount + Len(chain) <= PodLength
  BY <1>5 DEF PodAppend
<1> HIDE DEF chain, data
<1>7. /\ meant \in Seq(PodValues) /\ Len(meant) = podCount + Len(chain)
      /\ \A i \in 1..podCount : meant[i] = podMeant[i]
      /\ \A i \in 1..Len(chain) : meant[podCount + i] = chain[i]
  BY <1>1, <1>2
<1> HIDE DEF meant
<1>8. \A i \in 1..podCount : meant[i] = data[i]
  BY <1>1, <1>3, <1>7
<1> QED BY <1>1, <1>2, <1>3, <1>6, <1>7, <1>8, PodPutHolding

LEMMA PodAssignHolds ==
    ASSUME PodInv, NEW source \in PodSources, PodIsSource(source), PodAssign(source)
    PROVE  PodInv'
<1> DEFINE chain == PodRead(source, podData)
<1>1. podCount \in Nat /\ podData \in Seq(PodMemory) /\ podCount <= PodSize(podData)
  BY DEF PodInv, PodHolds
<1>2. chain \in Seq(PodValues) /\ Len(chain) \in Nat
  BY PodSourceIs
<1>3. podMeant' = chain /\ Len(chain) <= PodLength
  BY DEF PodAssign
<1>4. ASSUME NEW data \in Seq(PodMemory), Len(chain) <= PodSize(data),
             PodEnds(PodPut(data, 0, chain), Len(chain))
      PROVE  PodInv'
  <2>1. /\ 0 + Len(chain) = Len(chain) /\ (\A i \in 1..0 : chain[i] = data[i])
        /\ \A i \in 1..Len(chain) : chain[0 + i] = chain[i]
    BY <1>2
  <2> HIDE DEF chain
  <2> QED BY <1>2, <1>3, <1>4, <2>1, PodPutHolding
<1>5. CASE source.own
  <2>1. Len(chain) <= podCount
    BY <1>1, <1>5, PodSourceIs
  <2>2. Len(chain) <= PodSize(podData)
    BY <1>1, <1>2, <2>1 DEF PodSize
  <2>3. PodEnds(PodPut(podData, 0, chain), Len(chain))
    BY <1>5 DEF PodAssign
  <2> QED BY <1>1, <1>4, <2>2, <2>3
<1>6. CASE ~source.own
  <2>1. PodEnds(PodPut(PodReserved(Len(chain)), 0, chain), Len(chain))
    BY <1>6 DEF PodAssign
  <2> QED BY <1>2, <1>4, <2>1, PodReservedIs
<1> QED BY <1>5, <1>6

\* What insert copies from where the elements moved to is the chain it was given: all of it is after
\* the index, or before, or on both sides.
LEMMA PodShiftedIs ==
    ASSUME PodInv, NEW source \in PodSources, PodIsSource(source), source.own,
           NEW index \in 0..podCount, NEW data \in Seq(PodMemory),
           podCount + source.length <= Len(data),
           \A i \in 1..index : data[i] = podData[i],
           \A i \in 1..(podCount - index) : data[index + source.length + i] = podData[index + i]
    PROVE  PodShifted(source, data, index) = PodRead(source, podData)
<1> DEFINE o == source.offset
           n == source.length
           chain == PodRead(source, podData)
           shifted == PodShifted(source, data, index)
           prefix == index - o
<1>1. /\ o \in Nat /\ n \in Nat /\ o + n <= podCount /\ podCount \in Nat /\ index \in Nat /\ index <= podCount
      /\ Len(data) \in Nat /\ podCount + n <= Len(data)
  BY PodSourceIs DEF PodInv, PodHolds
<1>2. /\ chain \in Seq(PodValues) /\ Len(chain) = n
      /\ \A i \in 1..n : chain[i] = podData[o + i]
  BY PodSourceIs
<1>3. chain \in Seq(PodMemory)
  BY <1>2 DEF PodMemory
<1>4. /\ o >= index => shifted = PodAt(data, o + n, n)
      /\ o < index /\ prefix > 0 /\ prefix < n =>
             shifted = PodAt(data, o, prefix) \o PodAt(data, index + n, n - prefix)
      /\ o < index /\ ~(prefix > 0 /\ prefix < n) => shifted = PodAt(data, o, n)
  <2>1. o >= index <=> ~(o < index)
    BY <1>1
  <2>2. shifted = CASE o >= index -> PodAt(data, o + n, n)
                    [] prefix > 0 /\ prefix < n ->
                         PodAt(data, o, prefix) \o PodAt(data, index + n, n - prefix)
                    [] OTHER -> PodAt(data, o, n)
    BY Zenon DEF PodShifted
  <2>3. prefix > 0 <=> o < index
    BY <1>1
  <2> HIDE DEF prefix, o, n, shifted
  <2> QED BY <2>1, <2>2, <2>3
<1>5. /\ \A i \in 1..index : data[i] = podData[i]
      /\ \A i \in 1..(podCount - index) : data[index + n + i] = podData[index + i]
  OBVIOUS
<1> HIDE DEF o, n, chain, shifted
<1>6. CASE o >= index
  <2>1. o + n + n <= Len(data)
    BY <1>1
  <2> DEFINE there == PodAt(data, o + n, n)
  <2>2. /\ there \in Seq(PodMemory) /\ Len(there) = n
        /\ \A i \in 1..n : there[i] = data[o + n + i]
    <3>1. o + n \in Nat
      BY <1>1
    <3> QED BY <1>1, <2>1, <3>1, PodAtIs
  <2>3. shifted = there
    BY <1>4, <1>6
  <2> HIDE DEF there
  <2>4. ASSUME NEW i \in 1..Len(there) PROVE there[i] = chain[i]
    <3>1. /\ i \in 1..n /\ o - index + i \in 1..(podCount - index)
          /\ index + n + (o - index + i) = o + n + i /\ index + (o - index + i) = o + i
      BY <1>1, <1>6, <2>2
    <3>2. data[o + n + i] = podData[o + i]
      BY <1>5, <3>1
    <3> QED BY <1>2, <2>2, <3>1, <3>2
  <2>5. there = chain
    BY <1>2, <1>3, <2>2, <2>4, SeqEqual
  <2> QED BY <2>3, <2>5 DEF shifted, chain
<1>7. CASE o < index /\ prefix < n
  <2> DEFINE suffix == n - prefix
  <2>1. prefix \in Nat /\ prefix > 0 /\ suffix \in Nat /\ index + n \in Nat /\ prefix + suffix = n
    BY <1>1, <1>7
  <2>2. /\ o + prefix = index /\ suffix <= podCount - index /\ podCount - index \in Nat
        /\ o \in Nat /\ n \in Nat /\ index \in Nat
    BY <1>1, <1>7
  <2>3. o + prefix <= Len(data) /\ index + n + suffix <= Len(data)
    BY <1>1, <1>7
  <2> DEFINE left == PodAt(data, o, prefix)
             right == PodAt(data, index + n, suffix)
  <2>4. shifted = left \o right
    BY <1>4, <1>7, <2>1
  <2> HIDE DEF prefix, suffix
  <2>5. /\ left \in Seq(PodMemory) /\ Len(left) = prefix
        /\ \A i \in 1..prefix : left[i] = data[o + i]
    <3>1. o \in Nat /\ prefix \in Nat /\ o + prefix <= Len(data)
      BY <1>1, <2>1, <2>3
    <3> QED BY <3>1, PodAtIs
  <2>6. /\ right \in Seq(PodMemory) /\ Len(right) = suffix
        /\ \A i \in 1..suffix : right[i] = data[index + n + i]
    <3> DEFINE from == index + n
    <3>1. from \in Nat /\ suffix \in Nat /\ from + suffix <= Len(data)
      BY <1>1, <2>1, <2>3
    <3> HIDE DEF from
    <3>2. /\ PodAt(data, from, suffix) \in Seq(PodMemory) /\ Len(PodAt(data, from, suffix)) = suffix
          /\ \A i \in 1..suffix : PodAt(data, from, suffix)[i] = data[from + i]
      BY <3>1, PodAtIs
    <3> QED BY <3>2 DEF from
  <2> HIDE DEF left, right
  <2>7. shifted \in Seq(PodMemory) /\ Len(shifted) = n
    <3>1. left \in Seq(PodMemory) /\ right \in Seq(PodMemory)
      BY <2>5, <2>6
    <3>2. shifted \in Seq(PodMemory) /\ Len(shifted) = Len(left) + Len(right)
      BY <2>4, <3>1
    <3> QED BY <2>1, <2>5, <2>6, <3>2
  <2>8. ASSUME NEW i \in 1..Len(shifted) PROVE shifted[i] = chain[i]
    <3>1. CASE i <= prefix
      <4>1. i \in 1..prefix /\ i \in 1..n /\ o + i \in 1..index
        BY <2>1, <2>2, <2>7, <3>1
      <4>2. shifted[i] = left[i]
        BY <2>4, <2>5, <2>6, <4>1
      <4> QED BY <1>2, <1>5, <2>5, <4>1, <4>2
    <3>2. CASE i > prefix
      <4>1. /\ i - prefix \in 1..suffix /\ i \in 1..n /\ i - prefix \in 1..(podCount - index)
            /\ index + (i - prefix) = o + i
        BY <2>1, <2>2, <2>7, <3>2
      <4>2. shifted[i] = right[i - prefix]
        <5>1. /\ left \in Seq(PodMemory) /\ right \in Seq(PodMemory)
              /\ i \in Nat /\ i > Len(left) /\ i <= Len(left) + Len(right)
          BY <2>1, <2>5, <2>6, <2>7, <3>2
        <5>2. (left \o right)[i] = right[i - Len(left)]
          BY <5>1
        <5> QED BY <2>4, <2>5, <5>2
      <4>3. data[index + n + (i - prefix)] = podData[o + i]
        BY <1>5, <4>1
      <4> QED BY <1>2, <2>6, <4>1, <4>2, <4>3
    <3> QED BY <2>1, <2>7, <3>1, <3>2
  <2>9. shifted = chain
    BY <1>2, <1>3, <2>7, <2>8, SeqEqual
  <2> QED BY <2>9 DEF shifted, chain
<1>8. CASE o < index /\ ~(prefix < n)
  <2>1. o + n <= Len(data) /\ o + n <= index
    BY <1>1, <1>8
  <2> DEFINE there == PodAt(data, o, n)
  <2>2. /\ there \in Seq(PodMemory) /\ Len(there) = n
        /\ \A i \in 1..n : there[i] = data[o + i]
    <3>1. data \in Seq(PodMemory) /\ o \in Nat /\ n \in Nat /\ o + n <= Len(data)
      BY <1>1, <2>1
    <3> QED BY <3>1, PodAtIs, Zenon
  <2>3. shifted = there
    BY <1>4, <1>8
  <2> HIDE DEF there
  <2>4. ASSUME NEW i \in 1..Len(there) PROVE there[i] = chain[i]
    <3>1. i \in 1..n /\ o + i \in 1..index
      BY <1>1, <2>1, <2>2
    <3> QED BY <1>2, <1>5, <2>2, <3>1
  <2>5. there = chain
    BY <1>2, <1>3, <2>2, <2>4, SeqEqual
  <2> QED BY <2>3, <2>5 DEF shifted, chain
<1> QED BY <1>1, <1>6, <1>7, <1>8

LEMMA PodInsertHolds ==
    ASSUME PodInv, NEW source \in PodSources, PodIsSource(source),
           NEW index \in 0..podCount, PodInsert(index, source)
    PROVE  PodInv'
<1> DEFINE chain == PodRead(source, podData)
           n == Len(chain)
           tail == PodAt(podData, index, podCount - index)
           before == SubSeq(podMeant, 1, index)
           after == SubSeq(podMeant, index + 1, podCount)
           meant == before \o chain \o after
           all == podCount + n
<1>1. /\ podCount \in Nat /\ index \in Nat /\ index <= podCount /\ podCount - index \in Nat
      /\ podMeant \in Seq(PodValues) /\ Len(podMeant) = podCount
      /\ podData \in Seq(PodMemory) /\ podCount <= PodSize(podData)
      /\ \A i \in 1..podCount : podData[i] = podMeant[i]
  BY DEF PodInv, PodHolds
<1>2. podCount <= Len(podData) /\ Len(podData) \in Nat
  BY <1>1 DEF PodSize
<1>3. chain \in Seq(PodValues) /\ n \in Nat
  BY PodSourceIs
<1>4. chain \in Seq(PodMemory) /\ all \in Nat
  BY <1>1, <1>3 DEF PodMemory
<1>5. /\ tail \in Seq(PodMemory) /\ Len(tail) = podCount - index
      /\ \A i \in 1..(podCount - index) : tail[i] = podData[index + i]
  <2> DEFINE left == podCount - index
  <2>1. podData \in Seq(PodMemory) /\ index \in Nat /\ left \in Nat /\ index + left <= Len(podData)
    BY <1>1, <1>2
  <2> HIDE DEF left
  <2>2. /\ PodAt(podData, index, left) \in Seq(PodMemory) /\ Len(PodAt(podData, index, left)) = left
        /\ \A i \in 1..left : PodAt(podData, index, left)[i] = podData[index + i]
    BY <2>1, PodAtIs
  <2> QED BY <2>2 DEF left
<1>6. /\ before \in Seq(PodValues) /\ Len(before) = index
      /\ \A i \in 1..index : before[i] = podMeant[i]
  BY <1>1
<1>7. /\ after \in Seq(PodValues) /\ Len(after) = podCount - index
      /\ \A i \in 1..(podCount - index) : after[i] = podMeant[index + i]
  BY <1>1
<1> DEFINE grown == PodPut(PodAllocated(all), 0, PodAt(podData, 0, index) \o chain \o tail)
           moved == PodPut(podData, index + n, tail)
           inside == IF source.own THEN PodShifted(source, moved, index) ELSE chain
           put == PodPut(moved, index, inside)
<1>8. /\ podMeant' = meant /\ all <= PodLength
      /\ PodSize(podData) < all => PodEnds(grown, all)
      /\ ~(PodSize(podData) < all) => PodEnds(put, all)
  BY DEF PodInsert
<1>9. source.own => n = source.length
  BY PodSourceIs
<1> HIDE DEF chain, tail, before, after
<1>10. /\ meant \in Seq(PodValues) /\ Len(meant) = all
       /\ \A i \in 1..index : meant[i] = podData[i]
       /\ \A i \in 1..n : meant[index + i] = chain[i]
       /\ \A i \in 1..(podCount - index) : meant[index + n + i] = podData[index + i]
  <2> DEFINE d == meant
  <2>1. d = before \o chain \o after
    OBVIOUS
  <2> HIDE DEF d
  <2>2. /\ d \in Seq(PodValues) /\ Len(d) = Len(before) + Len(chain) + Len(after)
        /\ \A i \in 1..Len(before) : d[i] = before[i]
        /\ \A i \in 1..Len(chain) : d[Len(before) + i] = chain[i]
        /\ \A i \in 1..Len(after) : d[Len(before) + Len(chain) + i] = after[i]
    <3>1. before \in Seq(PodValues) /\ chain \in Seq(PodValues) /\ after \in Seq(PodValues)
      BY <1>3, <1>6, <1>7
    <3> QED BY <2>1, <3>1, PodJoined
  <2>3. Len(d) = all
    BY <1>1, <1>3, <1>6, <1>7, <2>2
  <2>4. \A i \in 1..index : d[i] = podData[i]
    BY <1>1, <1>6, <2>2
  <2>5. \A i \in 1..(podCount - index) : d[index + n + i] = podData[index + i]
    <3>1. \A i \in 1..(podCount - index) : index + i \in 1..podCount
      BY <1>1
    <3> QED BY <1>1, <1>6, <1>7, <2>2, <3>1
  <2>6. \A i \in 1..n : d[index + i] = chain[i]
    BY <1>6, <2>2
  <2> QED BY <2>2, <2>3, <2>4, <2>5, <2>6 DEF d
<1> HIDE DEF meant, grown, put, inside
\* Three parts of a block are the three of what is meant.
<1>11. ASSUME NEW data \in Seq(PodMemory), all <= PodSize(data), PodEnds(data, all),
              \A i \in 1..index : data[i] = podData[i],
              \A i \in 1..n : data[index + i] = chain[i],
              \A i \in 1..(podCount - index) : data[index + n + i] = podData[index + i]
       PROVE  PodInv'
  <2>1. ASSUME NEW i \in 1..all PROVE data[i] = meant[i]
    <3>1. CASE i <= index
      BY <1>1, <1>10, <1>11, <3>1
    <3>2. CASE i > index /\ i <= index + n
      <4>1. i - index \in 1..n /\ index + (i - index) = i
        BY <1>1, <1>3, <3>2
      <4> QED BY <1>10, <1>11, <4>1
    <3>3. CASE i > index + n
      <4>1. i - (index + n) \in 1..(podCount - index) /\ index + n + (i - (index + n)) = i
        BY <1>1, <1>3, <3>3
      <4>2. data[i] = podData[index + (i - (index + n))]
        BY <1>11, <4>1
      <4>3. meant[i] = podData[index + (i - (index + n))]
        BY <1>10, <4>1
      <4> QED BY <4>2, <4>3
    <3> QED BY <1>1, <1>3, <3>1, <3>2, <3>3
  <2>2. podMeant' = meant /\ all <= PodLength /\ meant \in Seq(PodValues) /\ Len(meant) = all
    BY <1>8, <1>10
  <2>3. data \in Seq(PodMemory) /\ all <= PodSize(data) /\ PodEnds(data, all) /\ all \in Nat
    BY <1>4, <1>11
  <2> HIDE DEF all
  <2> QED BY <2>1, <2>2, <2>3, PodEndsHolding
<1>12. CASE PodSize(podData) < all
  <2> DEFINE block == PodAllocated(all)
             here == PodAt(podData, 0, index)
             parts == here \o chain \o tail
  <2>1. all \div 4 \in Nat
    BY <1>4, SMT
  <2>2. block \in Seq(PodMemory) /\ Len(block) = 2 + all + (all \div 4) + 1
    BY <1>4, <2>1 DEF PodAllocated, PodMemory
  <2>3. /\ here \in Seq(PodMemory) /\ Len(here) = index
        /\ \A i \in 1..index : here[i] = podData[i]
    <3>1. podData \in Seq(PodMemory) /\ 0 \in Nat /\ index \in Nat /\ 0 + index <= Len(podData)
      BY <1>1, <1>2
    <3>2. /\ here \in Seq(PodMemory) /\ Len(here) = index
          /\ \A i \in 1..index : here[i] = podData[0 + i]
      BY <3>1, PodAtIs, Zenon
    <3> QED BY <1>1, <3>2
  <2>4. grown = PodPut(block, 0, parts)
    BY DEF grown
  <2> HIDE DEF block, here
  <2> DEFINE d == parts
  <2>5. d = here \o chain \o tail
    OBVIOUS
  <2> HIDE DEF d
  <2>6. /\ d \in Seq(PodMemory) /\ Len(d) = Len(here) + Len(chain) + Len(tail)
        /\ \A i \in 1..Len(here) : d[i] = here[i]
        /\ \A i \in 1..Len(chain) : d[Len(here) + i] = chain[i]
        /\ \A i \in 1..Len(tail) : d[Len(here) + Len(chain) + i] = tail[i]
    <3>1. here \in Seq(PodMemory) /\ chain \in Seq(PodMemory) /\ tail \in Seq(PodMemory)
      BY <1>4, <1>5, <2>3
    <3> QED BY <2>5, <3>1, PodJoined
  <2>7. Len(d) = all
    BY <1>1, <1>3, <1>5, <2>3, <2>6
  <2>8. grown = PodPut(block, 0, d)
    BY <2>4 DEF d
  <2> HIDE DEF all
  <2>9. 0 + Len(d) <= Len(block)
    BY <1>4, <2>1, <2>2, <2>7
  <2>10. /\ grown \in Seq(PodMemory) /\ Len(grown) = Len(block)
         /\ \A i \in 1..Len(block) : grown[i] =
                IF i > 0 /\ i <= 0 + Len(d) THEN d[i - 0] ELSE block[i]
    <3>1. block \in Seq(PodMemory) /\ d \in Seq(PodMemory) /\ 0 \in Nat
      BY <2>2, <2>6
    <3> QED BY <2>8, <2>9, <3>1, PodPutIs, Zenon
  <2>11. \A i \in 1..all : grown[i] = d[i]
    BY <1>4, <2>1, <2>2, <2>7, <2>10
  <2>12. all <= PodSize(grown)
    BY <1>4, <2>1, <2>2, <2>10 DEF PodSize
  <2>13. PodEnds(grown, all)
    BY <1>8, <1>12
  <2>14. /\ \A i \in 1..index : grown[i] = podData[i]
         /\ \A i \in 1..n : grown[index + i] = chain[i]
         /\ \A i \in 1..(podCount - index) : grown[index + n + i] = podData[index + i]
    <3>1. \A i \in 1..index : i \in 1..all
      BY <1>1, <1>3 DEF all
    <3>2. \A i \in 1..n : index + i \in 1..all
      BY <1>1, <1>3 DEF all
    <3>3. \A i \in 1..(podCount - index) : index + n + i \in 1..all
      BY <1>1, <1>3 DEF all
    <3> QED BY <1>5, <2>3, <2>6, <2>11, <3>1, <3>2, <3>3
  <2> QED BY <1>11, <2>10, <2>12, <2>13, <2>14
<1>13. CASE ~(PodSize(podData) < all)
  <2> DEFINE from == index + n
  <2>1. PodEnds(put, all)
    BY <1>8, <1>13
  <2>2. PodSize(podData) \in Nat /\ PodSize(podData) <= Len(podData)
    BY <1>2 DEF PodSize
  <2>3. from \in Nat /\ from + Len(tail) <= Len(podData) /\ from + Len(tail) = all
    BY <1>1, <1>2, <1>3, <1>5, <1>13, <2>2
  <2>4. /\ moved \in Seq(PodMemory) /\ Len(moved) = Len(podData)
        /\ \A i \in 1..Len(podData) : moved[i] =
               IF i > from /\ i <= from + Len(tail) THEN tail[i - from] ELSE podData[i]
    <3> HIDE DEF from
    <3>1. /\ PodPut(podData, from, tail) \in Seq(PodMemory) /\ Len(PodPut(podData, from, tail)) = Len(podData)
          /\ \A i \in 1..Len(podData) : PodPut(podData, from, tail)[i] =
                 IF i > from /\ i <= from + Len(tail) THEN tail[i - from] ELSE podData[i]
      <4>1. /\ podData \in Seq(PodMemory) /\ tail \in Seq(PodMemory) /\ from \in Nat
            /\ from + Len(tail) <= Len(podData)
        BY <1>1, <1>5, <2>3
      <4> HIDE DEF tail
      <4> QED BY <4>1, PodPutIs
    <3> QED BY <3>1 DEF from
  <2> HIDE DEF moved
  <2>5. ASSUME NEW i \in 1..index PROVE moved[i] = podData[i]
    <3>1. i \in 1..Len(podData) /\ ~(i > from)
      BY <1>1, <1>2, <1>3
    <3> QED BY <2>4, <3>1, Zenon
  <2>6. ASSUME NEW i \in 1..(podCount - index) PROVE moved[from + i] = podData[index + i]
    <3>1. /\ from + i \in 1..Len(podData) /\ from + i > from /\ from + i <= from + Len(tail)
          /\ (from + i) - from = i
      BY <1>1, <1>2, <1>3, <1>5, <2>3
    <3> QED BY <1>5, <2>4, <3>1
  <2>7. inside = chain
    <3>1. CASE source.own
      <4>1. /\ podCount + source.length <= Len(moved)
            /\ \A i \in 1..(podCount - index) : moved[index + source.length + i] = podData[index + i]
        <5>1. n = source.length
          BY <1>9, <3>1
        <5>2. all <= PodSize(podData)
          BY <1>4, <1>13, <2>2
        <5>3. podCount + n <= Len(moved)
          BY <1>2, <1>4, <2>2, <2>4, <5>2
        <5> QED BY <2>6, <5>1, <5>3
      <4>2. PodShifted(source, moved, index) = PodRead(source, podData)
        BY <2>4, <2>5, <3>1, <4>1, PodShiftedIs
      <4> QED BY <3>1, <4>2 DEF inside, chain
    <3>2. CASE ~source.own
      BY <3>2 DEF inside
    <3> QED BY <3>1, <3>2
  <2>8. put = PodPut(moved, index, chain) /\ index + Len(chain) <= Len(moved)
    BY <1>1, <1>3, <2>3, <2>4, <2>7, <1>5 DEF put, moved
  <2>9. /\ put \in Seq(PodMemory) /\ Len(put) = Len(podData)
        /\ \A i \in 1..Len(podData) : put[i] =
               IF i > index /\ i <= index + Len(chain) THEN chain[i - index] ELSE moved[i]
    <3>1. /\ moved \in Seq(PodMemory) /\ chain \in Seq(PodMemory) /\ index \in Nat
          /\ index + Len(chain) <= Len(moved)
      BY <1>1, <1>4, <2>4, <2>8
    <3> HIDE DEF n
    <3>2. /\ PodPut(moved, index, chain) \in Seq(PodMemory) /\ Len(PodPut(moved, index, chain)) = Len(moved)
          /\ \A i \in 1..Len(moved) : PodPut(moved, index, chain)[i] =
                 IF i > index /\ i <= index + Len(chain) THEN chain[i - index] ELSE moved[i]
      BY <3>1, PodPutIs
    <3> QED BY <2>4, <2>8, <3>2
  <2>10. \A i \in 1..index : put[i] = podData[i]
    BY <1>1, <1>2, <2>5, <2>9
  <2>11. ASSUME NEW i \in 1..n PROVE put[index + i] = chain[i]
    <3>1. /\ index + i \in 1..Len(podData) /\ index + i > index /\ index + i <= index + Len(chain)
          /\ (index + i) - index = i
      BY <1>1, <1>2, <1>3, <1>5, <2>3
    <3> QED BY <2>9, <3>1
  <2>12. ASSUME NEW i \in 1..(podCount - index) PROVE put[index + n + i] = podData[index + i]
    <3>1. i \in Nat /\ i >= 1 /\ i <= Len(tail)
      BY <1>1, <1>5
    <3>2. from + i \in 1..Len(podData) /\ ~(from + i <= from)
      BY <1>2, <2>3, <3>1
    <3>3. put[from + i] = moved[from + i]
      BY <2>9, <3>2
    <3> QED BY <2>6, <3>3
  <2>13. all <= PodSize(put)
    BY <1>4, <1>13, <2>2, <2>9 DEF PodSize
  <2> HIDE DEF all
  <2> QED BY <1>11, <2>1, <2>9, <2>10, <2>11, <2>12, <2>13
<1> QED BY <1>12, <1>13

LEMMA PodPopBackHolds ==
    ASSUME PodInv, PodPopBack
    PROVE  PodInv'
<1>1. podCount \in Nat /\ podCount > 0
  BY DEF PodInv, PodHolds, PodPopBack
<1>2. podCount - 1 \in 0..podCount /\ PodEnds(podData, podCount - 1)
      /\ podMeant' = SubSeq(podMeant, 1, podCount - 1)
  BY <1>1 DEF PodPopBack
<1> QED BY <1>2, PodShrinkHolds

\* What the calls that remove one element do: the elements of a chain move over it.
LEMMA PodMovedOver ==
    ASSUME PodInv, NEW chain \in Seq(PodMemory), NEW index \in Nat, NEW meant \in Seq(PodValues),
           podCount > 0, index + Len(chain) <= podCount, Len(meant) = podCount - 1,
           PodEnds(PodPut(podData, index, chain), podCount - 1), podMeant' = meant,
           \A i \in 1..(podCount - 1) :
              meant[i] = IF i > index /\ i <= index + Len(chain) THEN chain[i - index] ELSE podData[i]
    PROVE  PodInv'
<1> DEFINE put == PodPut(podData, index, chain)
           count == podCount - 1
<1>1. /\ podCount \in Nat /\ podData \in Seq(PodMemory) /\ podCount <= PodSize(podData)
      /\ podCount <= PodLength /\ Len(chain) \in Nat
  BY DEF PodInv, PodHolds
<1>2. podCount <= Len(podData) /\ Len(podData) \in Nat /\ PodSize(podData) \in Nat
  BY <1>1 DEF PodSize
<1>3. /\ put \in Seq(PodMemory) /\ Len(put) = Len(podData)
      /\ \A i \in 1..Len(podData) : put[i] =
             IF i > index /\ i <= index + Len(chain) THEN chain[i - index] ELSE podData[i]
  <2>1. index + Len(chain) <= Len(podData)
    BY <1>1, <1>2
  <2> QED BY <1>1, <2>1, PodPutIs
<1>4. PodEnds(put, count) /\ count \in Nat /\ count <= PodLength /\ Len(meant) = count
  BY <1>1, PodAssumption
<1> HIDE DEF put
<1>5. count <= PodSize(put)
  BY <1>1, <1>2, <1>3 DEF PodSize
<1>6. \A i \in 1..count : put[i] = meant[i]
  BY <1>1, <1>2, <1>3
<1> HIDE DEF count
<1> QED BY <1>3, <1>4, <1>5, <1>6, PodEndsHolding

LEMMA PodRemoveHolds ==
    ASSUME PodInv, NEW index \in 0..(podCount - 1), PodRemove(index)
    PROVE  PodInv'
<1> DEFINE n == podCount - 1 - index
           chain == PodAt(podData, index + 1, n)
           before == SubSeq(podMeant, 1, index)
           after == SubSeq(podMeant, index + 2, podCount)
           meant == before \o after
<1>1. /\ podCount \in Nat /\ index \in Nat /\ n \in Nat /\ podCount > 0 /\ index < podCount
      /\ podMeant \in Seq(PodValues) /\ Len(podMeant) = podCount
      /\ podData \in Seq(PodMemory) /\ podCount <= PodSize(podData)
      /\ \A i \in 1..podCount : podData[i] = podMeant[i]
  BY DEF PodInv, PodHolds
<1>2. podCount <= Len(podData) /\ Len(podData) \in Nat
  BY <1>1 DEF PodSize
<1>3. /\ chain \in Seq(PodMemory) /\ Len(chain) = n
      /\ \A i \in 1..n : chain[i] = podData[index + 1 + i]
  <2> DEFINE from == index + 1
  <2>1. from + n <= Len(podData) /\ from \in Nat
    BY <1>1, <1>2
  <2> HIDE DEF n, from
  <2>2. /\ PodAt(podData, from, n) \in Seq(PodMemory) /\ Len(PodAt(podData, from, n)) = n
        /\ \A i \in 1..n : PodAt(podData, from, n)[i] = podData[from + i]
    BY <1>1, <2>1, PodAtIs
  <2> QED BY <2>2 DEF from
<1>4. /\ before \in Seq(PodValues) /\ Len(before) = index
      /\ \A i \in 1..index : before[i] = podMeant[i]
  BY <1>1
<1>5. /\ after \in Seq(PodValues) /\ Len(after) = n
      /\ \A i \in 1..n : after[i] = podMeant[index + 1 + i]
  BY <1>1
<1>6. PodEnds(PodPut(podData, index, chain), podCount - 1) /\ podMeant' = meant
  BY DEF PodRemove
<1> HIDE DEF chain, before, after
<1>7. /\ meant \in Seq(PodValues) /\ Len(meant) = index + n
      /\ \A i \in 1..index : meant[i] = before[i]
      /\ \A i \in 1..n : meant[index + i] = after[i]
  BY <1>1, <1>4, <1>5
<1> HIDE DEF meant
<1>8. ASSUME NEW i \in 1..(podCount - 1)
      PROVE  meant[i] = IF i > index /\ i <= index + Len(chain) THEN chain[i - index] ELSE podData[i]
  <2>1. CASE i <= index
    BY <1>1, <1>4, <1>7, <2>1
  <2>2. CASE i > index
    <3>1. i - index \in 1..n /\ index + (i - index) = i /\ i <= index + Len(chain)
      BY <1>1, <1>3, <2>2
    <3>2. meant[i] = podMeant[index + 1 + (i - index)]
      BY <1>5, <1>7, <3>1
    <3>3. chain[i - index] = podData[index + 1 + (i - index)] /\ index + 1 + (i - index) \in 1..podCount
      BY <1>1, <1>3, <3>1
    <3> QED BY <1>1, <2>2, <3>1, <3>2, <3>3
  <2> QED BY <1>1, <2>1, <2>2
<1>9. Len(meant) = podCount - 1 /\ index + Len(chain) <= podCount
  BY <1>1, <1>3, <1>7
<1> QED BY <1>1, <1>3, <1>6, <1>7, <1>8, <1>9, PodMovedOver

LEMMA PodRemoveUnorderedHolds ==
    ASSUME PodInv, NEW index \in 0..(podCount - 1), PodRemoveUnordered(index)
    PROVE  PodInv'
<1> DEFINE count == podCount - 1
           chain == PodAt(podData, count, 1)
           filled == [podMeant EXCEPT ![index + 1] = podMeant[podCount]]
           meant == SubSeq(filled, 1, count)
<1>1. /\ podCount \in Nat /\ index \in Nat /\ podCount > 0 /\ index < podCount
      /\ count \in Nat /\ count + 1 = podCount
      /\ podMeant \in Seq(PodValues) /\ Len(podMeant) = podCount
      /\ podData \in Seq(PodMemory) /\ podCount <= PodSize(podData)
      /\ \A i \in 1..podCount : podData[i] = podMeant[i]
  BY DEF PodInv, PodHolds
<1>2. podCount <= Len(podData)
  BY <1>1 DEF PodSize
<1>3. chain \in Seq(PodMemory) /\ Len(chain) = 1 /\ chain[1] = podMeant[podCount]
  <2>1. /\ chain \in Seq(PodMemory) /\ Len(chain) = 1
        /\ \A i \in 1..1 : chain[i] = podData[count + i]
    <3> DEFINE one == 1
    <3>1. count + one <= Len(podData) /\ one \in Nat
      BY <1>1, <1>2
    <3> HIDE DEF count, one
    <3>2. /\ PodAt(podData, count, one) \in Seq(PodMemory) /\ Len(PodAt(podData, count, one)) = one
          /\ \A i \in 1..one : PodAt(podData, count, one)[i] = podData[count + i]
      <4>1. podData \in Seq(PodMemory) /\ count \in Nat /\ one \in Nat /\ count + one <= Len(podData)
        BY <1>1, <3>1
      <4> QED BY <4>1, PodAtIs
    <3> QED BY <3>2 DEF one
  <2>2. chain[1] = podData[podCount] /\ podCount \in 1..podCount
    BY <1>1, <2>1
  <2> QED BY <1>1, <2>1, <2>2
<1>4. /\ filled \in Seq(PodValues) /\ Len(filled) = podCount
      /\ \A i \in 1..podCount : filled[i] = IF i = index + 1 THEN podMeant[podCount] ELSE podMeant[i]
  BY <1>1
<1>5. PodEnds(PodPut(podData, index, chain), podCount - 1) /\ podMeant' = meant
  BY DEF PodRemoveUnordered
<1> HIDE DEF chain, filled
<1>6. /\ meant \in Seq(PodValues) /\ Len(meant) = count
      /\ \A i \in 1..count : meant[i] = filled[i]
  BY <1>1, <1>4
<1> HIDE DEF meant
<1>7. ASSUME NEW i \in 1..(podCount - 1)
      PROVE  meant[i] = IF i > index /\ i <= index + Len(chain) THEN chain[i - index] ELSE podData[i]
  <2>1. meant[i] = IF i = index + 1 THEN podMeant[podCount] ELSE podMeant[i]
    <3>1. i \in 1..count /\ i \in 1..podCount
      BY <1>1
    <3> HIDE DEF count
    <3> QED BY <1>4, <1>6, <3>1
  <2>2. CASE i = index + 1
    <3>1. i - index = 1 /\ i > index /\ i <= index + Len(chain)
      BY <1>1, <1>3, <2>2
    <3> QED BY <1>3, <2>1, <2>2, <3>1
  <2>3. CASE i # index + 1
    <3>1. ~(i > index /\ i <= index + Len(chain)) /\ podData[i] = podMeant[i]
      BY <1>1, <1>3, <2>3
    <3> QED BY <2>1, <2>3, <3>1
  <2> QED BY <2>2, <2>3
<1>8. Len(meant) = podCount - 1 /\ index + Len(chain) <= podCount
  BY <1>1, <1>3, <1>6
<1> QED BY <1>1, <1>3, <1>5, <1>6, <1>7, <1>8, PodMovedOver

LEMMA PodInitHolds == PodInit => PodInv
BY PodAssumption DEF PodInit, PodInv, PodHolds, PodSize, PodMemory

LEMMA PodNextHolds ==
    ASSUME PodInv, [PodNext]_podVars
    PROVE  PodInv'
<1>1. CASE \E value \in PodValues : PodPushBack(value)
  BY <1>1, PodPushBackHolds
<1>2. CASE PodPopBack
  BY <1>2, PodPopBackHolds
<1>3. CASE \E n \in 0..podCount : PodShrink(n)
  <2>1. PICK n \in 0..podCount : PodShrink(n)
    BY <1>3
  <2>2. PodEnds(podData, n) /\ podMeant' = SubSeq(podMeant, 1, n)
    BY <2>1 DEF PodShrink
  <2> QED BY <2>2, PodShrinkHolds
<1>4. ASSUME NEW source \in PodSources, PodIsSource(source),
             \/ PodAppend(source) \/ PodAssign(source)
             \/ \E index \in 0..podCount : PodInsert(index, source)
      PROVE  PodInv'
  BY <1>4, PodAppendHolds, PodAssignHolds, PodInsertHolds
<1>5. ASSUME NEW index \in 0..(podCount - 1), PodRemove(index) \/ PodRemoveUnordered(index)
      PROVE  PodInv'
  BY <1>5, PodRemoveHolds, PodRemoveUnorderedHolds
<1>6. CASE UNCHANGED podVars
  BY <1>6 DEF podVars, PodInv, PodHolds
<1> QED BY <1>1, <1>2, <1>3, <1>4, <1>5, <1>6 DEF PodNext

LEMMA PodInvMeans == PodInv => PodTypeOK /\ PodHoldsWhatIsMeant
<1> SUFFICES ASSUME PodInv PROVE PodTypeOK /\ PodHoldsWhatIsMeant
  OBVIOUS
<1>1. /\ podCount \in Nat /\ podData \in Seq(PodMemory) /\ podCount <= PodSize(podData)
      /\ podCount <= PodLength /\ podMeant \in Seq(PodValues) /\ Len(podMeant) = podCount
      /\ \A i \in 1..podCount : podData[i] = podMeant[i]
      /\ podData # <<>> => podData[podCount + 1] = PodEmpty
  BY DEF PodInv, PodHolds
<1>2. podCount <= Len(podData)
  BY <1>1 DEF PodSize
<1> DEFINE held == PodAt(podData, 0, podCount)
<1>3. /\ held \in Seq(PodMemory) /\ Len(held) = podCount
      /\ \A i \in 1..podCount : held[i] = podData[0 + i]
  BY <1>1, <1>2, PodAtIs
<1> HIDE DEF held
<1>4. \A i \in 1..Len(held) : held[i] = podMeant[i]
  BY <1>1, <1>3
<1>5. held = podMeant
  BY <1>1, <1>3, <1>4, SeqEqual
<1> QED BY <1>1, <1>5, PodAssumption DEF PodTypeOK, PodHoldsWhatIsMeant, held

\* array_pod holds, after any calls at any sizes, the elements those calls mean: whatever part of the
\* array itself a call was given, however the block moved under it, and with the empty element after
\* the last that makes its text terminated.
THEOREM PodHoldsCorrect == PodSpec => [](PodTypeOK /\ PodHoldsWhatIsMeant)
<1>1. PodInv /\ [PodNext]_podVars => PodInv'
  BY PodNextHolds
<1> QED BY <1>1, PodInitHolds, PodInvMeans, PTL DEF PodSpec

----------------------------------------------------------------------------
\* Files: split and join

\* A sequence of sequences with one more at its end is put together with it at the end.
LEMMA FlattenMore ==
    ASSUME NEW A, NEW n \in Nat, NEW s \in [1..(n + 1) -> Seq(A)], NEW t, t = [i \in 1..n |-> s[i]]
    PROVE  /\ FlattenSeq(t) \in Seq(A) /\ FlattenSeq(s) \in Seq(A)
           /\ FlattenSeq(s) = FlattenSeq(t) \o s[n + 1]
<1>1. n + 1 \in Nat \ {0} /\ s[n + 1] \in Seq(A)
  OBVIOUS
<1>2. PICK f \in FlatParts(A, s, n + 1) : FlattenSeq(s) = f[n + 1]
  BY <1>1, FlattenIs
<1>3. f \in [1..(n + 1) -> Seq(A)] /\ \A i \in 1..(n + 1) : f[i] = IF i = 1 THEN s[i] ELSE f[i - 1] \o s[i]
  BY DEF FlatParts
<1>4. FlattenSeq(s) \in Seq(A) /\ FlattenSeq(s) = IF n = 0 THEN s[1] ELSE f[n] \o s[n + 1]
  <2>1. n + 1 \in 1..(n + 1) /\ (n + 1) - 1 = n /\ (n + 1 = 1 <=> n = 0)
    OBVIOUS
  <2>2. f[n + 1] \in Seq(A) /\ f[n + 1] = IF n + 1 = 1 THEN s[n + 1] ELSE f[(n + 1) - 1] \o s[n + 1]
    BY <1>3, <2>1
  <2>3. CASE n = 0
    BY <1>2, <2>2, <2>3
  <2>4. CASE n # 0
    BY <1>2, <2>1, <2>2, <2>4
  <2> QED BY <2>3, <2>4
<1>5. CASE n = 0
  <2>1. t = <<>> /\ Len(t) = 0
    BY <1>5
  <2>2. FlattenSeq(t) = <<>>
    BY <2>1 DEF FlattenSeq
  <2>3. <<>> \o s[1] = s[1] /\ <<>> \in Seq(A)
    BY <1>1, <1>5, ConcatEmptySeq
  <2>4. FlattenSeq(s) = s[1] /\ s[n + 1] = s[1]
    BY <1>4, <1>5
  <2> QED BY <1>4, <2>2, <2>3, <2>4
<1>6. CASE n # 0
  <2>1. n \in Nat \ {0} /\ t \in [1..n -> Seq(A)]
    BY <1>6
  <2>2. PICK g \in FlatParts(A, t, n) : FlattenSeq(t) = g[n]
    BY <2>1, FlattenIs
  <2>3. g \in [1..n -> Seq(A)] /\ \A i \in 1..n : g[i] = IF i = 1 THEN t[i] ELSE g[i - 1] \o t[i]
    BY DEF FlatParts
  <2> DEFINE S == {i \in 0..n : i = 0 \/ f[i] = g[i]}
  <2>4. 0 \in S
    OBVIOUS
  <2>5. ASSUME NEW k \in 1..n, k - 1 \in S PROVE k \in S
    <3>0. k \in 1..(n + 1) /\ t[k] = s[k]
      OBVIOUS
    <3>1. f[k] = IF k = 1 THEN s[k] ELSE f[k - 1] \o s[k]
      BY <1>3, <3>0
    <3>2. g[k] = IF k = 1 THEN s[k] ELSE g[k - 1] \o s[k]
      BY <2>3
    <3>3. k = 1 \/ f[k - 1] = g[k - 1]
      BY <2>5
    <3> QED BY <3>0, <3>1, <3>2, <3>3
  <2>6. 0..n \subseteq S
    <3> HIDE DEF S
    <3> QED BY <2>4, <2>5, UpTo
  <2>7. f[n] = g[n] /\ g[n] \in Seq(A)
    BY <2>1, <2>3, <2>6
  <2> QED BY <1>4, <1>6, <2>2, <2>7
<1> QED BY <1>5, <1>6

\* The part of a sequence between two places.
LEMMA PartIs ==
    ASSUME NEW S, NEW s \in Seq(S), NEW x \in 0..Len(s), NEW y \in x..Len(s)
    PROVE  /\ SubSeq(s, x + 1, y) \in Seq(S) /\ Len(SubSeq(s, x + 1, y)) = y - x
           /\ \A i \in 1..(y - x) : SubSeq(s, x + 1, y)[i] = s[x + i]
<1>1. x + 1 \in Int /\ y \in Int /\ \A i \in (x + 1)..y : s[i] \in S
  OBVIOUS
<1> DEFINE c == SubSeq(s, x + 1, y)
<1>2. c \in Seq(S) /\ Len(c) = (IF x + 1 <= y THEN y - (x + 1) + 1 ELSE 0) /\ \A i \in 1..(y - (x + 1) + 1) : c[i] = s[(x + 1) + i - 1]
  BY <1>1, SubSeqProperties
<1> HIDE DEF c
<1>3. y - (x + 1) + 1 = y - x /\ (IF x + 1 <= y THEN y - (x + 1) + 1 ELSE 0) = y - x
  OBVIOUS
<1>4. \A i \in 1..(y - x) : (x + 1) + i - 1 = x + i
  OBVIOUS
<1> QED BY <1>2, <1>3, <1>4 DEF c

\* Two parts that meet.
LEMMA PartsMeet ==
    ASSUME NEW S, NEW s \in Seq(S), NEW x \in 0..Len(s), NEW y \in x..Len(s), NEW z \in y..Len(s)
    PROVE  SubSeq(s, x + 1, y) \o SubSeq(s, y + 1, z) = SubSeq(s, x + 1, z)
<1> DEFINE c == SubSeq(s, x + 1, y)
           d == SubSeq(s, y + 1, z)
           e == SubSeq(s, x + 1, z)
<1>1. c \in Seq(S) /\ Len(c) = y - x /\ \A i \in 1..(y - x) : c[i] = s[x + i]
  BY PartIs
<1>2. d \in Seq(S) /\ Len(d) = z - y /\ \A i \in 1..(z - y) : d[i] = s[y + i]
  <2>1. y \in 0..Len(s)
    OBVIOUS
  <2> QED BY <2>1, PartIs
<1>3. e \in Seq(S) /\ Len(e) = z - x /\ \A i \in 1..(z - x) : e[i] = s[x + i]
  <2>1. z \in x..Len(s)
    OBVIOUS
  <2> QED BY <2>1, PartIs
<1> HIDE DEF c, d, e
<1>4. c \o d \in Seq(S) /\ Len(c \o d) = z - x
      /\ \A i \in 1..(z - x) : (c \o d)[i] = IF i <= y - x THEN c[i] ELSE d[i - (y - x)]
  <2>1. c \o d \in Seq(S) /\ Len(c \o d) = Len(c) + Len(d)
        /\ \A i \in 1..(Len(c) + Len(d)) : (c \o d)[i] = IF i <= Len(c) THEN c[i] ELSE d[i - Len(c)]
    BY <1>1, <1>2, ConcatProperties
  <2>2. (y - x) + (z - y) = z - x
    OBVIOUS
  <2> QED BY <2>1, <2>2, <1>1, <1>2
<1>5. ASSUME NEW i \in 1..(z - x) PROVE (c \o d)[i] = e[i]
  <2>1. CASE i <= y - x
    <3>1. i \in 1..(y - x)
      BY <2>1
    <3> QED BY <1>1, <1>3, <1>4, <2>1, <3>1
  <2>2. CASE ~(i <= y - x)
    <3>1. i - (y - x) \in 1..(z - y) /\ y + (i - (y - x)) = x + i
      BY <2>2
    <3> QED BY <1>2, <1>3, <1>4, <2>2, <3>1
  <2> QED BY <2>1, <2>2
<1>6. Len(c \o d) = Len(e) /\ \A i \in 1..Len(c \o d) : (c \o d)[i] = e[i]
  BY <1>3, <1>4, <1>5
<1> QED BY <1>3, <1>4, <1>6, SeqEqual DEF c, d, e

\* Products and quotients of sizes.
LEMMA SizeProducts ==
    ASSUME NEW size \in Nat \ {0}, NEW j \in Nat, NEW k \in Nat
    PROVE  /\ size * j \in Nat /\ size * 0 = 0 /\ size * 1 = size /\ size * (j + 1) = size * j + size
           /\ j <= k => size * j <= size * k
<1>1. size * j \in Nat /\ size * 0 = 0 /\ size * 1 = size /\ size * (j + 1) = size * j + size
  OBVIOUS
<1>2. ASSUME j <= k PROVE size * j <= size * k
  <2> DEFINE d == k - j
  <2>1. d \in Nat /\ k = j + d
    BY <1>2
  <2> HIDE DEF d
  <2>2. size * (j + d) = size * j + size * d /\ size * d \in Nat /\ size * j \in Nat
    BY <2>1
  <2> QED BY <2>1, <2>2
<1> QED BY <1>1, <1>2
LEMMA SizeQuotient ==
    ASSUME NEW size \in Nat \ {0}, NEW length \in Nat
    PROVE  \E q \in Nat, r \in 0..(size - 1) : q = length \div size /\ r = length % size /\ length = size * q + r
<1>1. length \div size \in Nat /\ length % size \in 0..(size - 1)
  OBVIOUS
<1>2. \A q, r : q = length \div size /\ r = length % size => length = size * q + r
  OBVIOUS
<1> QED BY <1>1, <1>2

\* A sequence of sequences is put together from two parts of it.
FirstOf(s, k) == [i \in 1..k |-> s[i]]
RestOf(s, k, n) == [i \in 1..n |-> s[k + i]]
LEMMA FlattenJoins ==
    ASSUME NEW A, NEW m \in Nat, NEW s \in [1..m -> Seq(A)], NEW k \in 0..m
    PROVE  FlattenSeq(s) = FlattenSeq(FirstOf(s, k)) \o FlattenSeq(RestOf(s, k, m - k))
<1> DEFINE t == FirstOf(s, k)
           u == RestOf(s, k, m - k)
<1>0. t = [i \in 1..k |-> s[i]] /\ u = [i \in 1..(m - k) |-> s[k + i]]
  BY DEF FirstOf, RestOf
<1> HIDE DEF t, u
<1> DEFINE first(j) == [i \in 1..j |-> s[i]]
           after(j) == [i \in 1..j |-> s[k + i]]
           S == {j \in 0..(m - k) : /\ FlattenSeq(first(k + j)) \in Seq(A) /\ FlattenSeq(after(j)) \in Seq(A)
                                    /\ FlattenSeq(first(k + j)) = FlattenSeq(t) \o FlattenSeq(after(j))}
<1>1. FlattenSeq(t) \in Seq(A)
  <2>1. CASE k = 0
    <3>1. t = <<>> /\ Len(t) = 0
      BY <1>0, <2>1
    <3>2. FlattenSeq(t) = <<>>
      BY <3>1 DEF FlattenSeq
    <3> QED BY <3>2
  <2>2. CASE k # 0
    <3>1. k - 1 \in Nat /\ (k - 1) + 1 = k /\ t \in [1..k -> Seq(A)]
      BY <1>0, <2>2
    <3> DEFINE b == k - 1
               v == [i \in 1..b |-> t[i]]
    <3>2. b \in Nat /\ t \in [1..(b + 1) -> Seq(A)]
      BY <3>1
    <3> HIDE DEF b
    <3> QED BY <3>2, FlattenMore
  <2> QED BY <2>1, <2>2
<1>2. 0 \in S
  <2>1. after(0) = <<>> /\ Len(after(0)) = 0 /\ first(k + 0) = t
    BY <1>0
  <2>2. FlattenSeq(after(0)) = <<>>
    BY <2>1 DEF FlattenSeq
  <2>3. FlattenSeq(t) \o <<>> = FlattenSeq(t)
    BY <1>1, ConcatEmptySeq
  <2>4. 0 \in 0..(m - k) /\ <<>> \in Seq(A)
    OBVIOUS
  <2> HIDE DEF first, after
  <2>5. FlattenSeq(first(k + 0)) = FlattenSeq(t) /\ FlattenSeq(after(0)) \in Seq(A) /\ FlattenSeq(t) \o FlattenSeq(after(0)) = FlattenSeq(t)
    BY <2>1, <2>2, <2>3, <2>4
  <2> QED BY <1>1, <2>4, <2>5
<1>3. ASSUME NEW j \in 1..(m - k), j - 1 \in S PROVE j \in S
  <2> DEFINE b == k + (j - 1)
             l == j - 1
  <2>1. b \in Nat /\ b + 1 = k + j /\ b + 1 <= m /\ l \in Nat /\ l + 1 = j /\ k + (l + 1) = b + 1
    OBVIOUS
  <2>2. first(b + 1) \in [1..(b + 1) -> Seq(A)] /\ first(b + 1)[b + 1] = s[b + 1] /\ first(b) = [i \in 1..b |-> first(b + 1)[i]]
    <3> HIDE DEF b
    <3> QED BY <2>1
  <2>3. after(l + 1) \in [1..(l + 1) -> Seq(A)] /\ after(l + 1)[l + 1] = s[b + 1] /\ after(l) = [i \in 1..l |-> after(l + 1)[i]]
    <3>1. \A i \in 1..(l + 1) : k + i \in 1..m
      BY <2>1
    <3> HIDE DEF b, l
    <3>2. \A i \in 1..(l + 1) : s[k + i] \in Seq(A)
      BY <3>1
    <3>3. after(l + 1) \in [1..(l + 1) -> Seq(A)]
      BY <3>2
    <3>4. l + 1 \in 1..(l + 1) /\ after(l + 1)[l + 1] = s[b + 1]
      <4>1. l + 1 \in 1..(l + 1)
        BY <2>1
      <4>2. after(l + 1)[l + 1] = s[k + (l + 1)]
        BY <4>1
      <4> QED BY <2>1, <4>1, <4>2
    <3>5. \A i \in 1..l : after(l + 1)[i] = s[k + i]
      <4>1. \A i \in 1..l : i \in 1..(l + 1)
        BY <2>1
      <4> QED BY <4>1
    <3> QED BY <3>3, <3>4, <3>5
  <2>4. /\ FlattenSeq(first(b)) \in Seq(A) /\ FlattenSeq(after(l)) \in Seq(A)
        /\ FlattenSeq(first(b)) = FlattenSeq(t) \o FlattenSeq(after(l))
    BY <1>3
  <2> HIDE DEF first, after, b, l
  <2>5. FlattenSeq(first(b + 1)) \in Seq(A) /\ FlattenSeq(first(b + 1)) = FlattenSeq(first(b)) \o s[b + 1]
    BY <2>1, <2>2, FlattenMore
  <2>6. FlattenSeq(after(l + 1)) \in Seq(A) /\ FlattenSeq(after(l + 1)) = FlattenSeq(after(l)) \o s[b + 1]
    BY <2>1, <2>3, FlattenMore
  <2>7. s[b + 1] \in Seq(A)
    <3>1. b + 1 \in 1..m
      BY <2>1
    <3> QED BY <3>1
  <2>8. (FlattenSeq(t) \o FlattenSeq(after(l))) \o s[b + 1] = FlattenSeq(t) \o (FlattenSeq(after(l)) \o s[b + 1])
    <3> DEFINE x == FlattenSeq(t)
               y == FlattenSeq(after(l))
               z == s[b + 1]
    <3>1. x \in Seq(A) /\ y \in Seq(A) /\ z \in Seq(A)
      BY <1>1, <2>4, <2>7
    <3> HIDE DEF x, y, z
    <3>2. (x \o y) \o z = x \o (y \o z)
      BY <3>1, ConcatAssociative
    <3> QED BY <3>2 DEF x, y, z
  <2>9. FlattenSeq(first(b + 1)) = FlattenSeq(t) \o FlattenSeq(after(l + 1))
    BY <2>4, <2>5, <2>6, <2>8
  <2>10. /\ FlattenSeq(first(k + j)) \in Seq(A) /\ FlattenSeq(after(j)) \in Seq(A)
         /\ FlattenSeq(first(k + j)) = FlattenSeq(t) \o FlattenSeq(after(j))
    BY <2>1, <2>5, <2>6, <2>9
  <2>11. j \in 0..(m - k)
    OBVIOUS
  <2> QED BY <2>10, <2>11
<1>4. 0..(m - k) \subseteq S
  <2> HIDE DEF S
  <2>1. m - k \in Nat
    OBVIOUS
  <2> QED BY <1>2, <1>3, <2>1, UpTo
<1>5. k + (m - k) = m /\ m - k \in 0..(m - k) /\ first(m) = s /\ after(m - k) = u
  BY <1>0
<1> HIDE DEF first, after
<1>6. /\ FlattenSeq(first(k + (m - k))) \in Seq(A) /\ FlattenSeq(after(m - k)) \in Seq(A)
      /\ FlattenSeq(first(k + (m - k))) = FlattenSeq(t) \o FlattenSeq(after(m - k))
  BY <1>4, <1>5
<1> QED BY <1>5, <1>6 DEF t, u

----------------------------------------------------------------------------
\* What files hold.
FileUnits == UNION {ToSet(content) : content \in FileContents}
FileData == Seq(FileUnits)
FileHolds == FileData \cup {FileAbsent}

\* No content is one of the marks.
LEMMA FileMarks == FileAbsent \notin FileData /\ FileError \notin FileData /\ FileAbsent # FileError /\ FileAbsent # <<>>
<1>1. \A content \in FileContents : "no file" \notin ToSet(content) /\ "error" \notin ToSet(content)
  BY FileAssumption
<1>2. "no file" \notin FileUnits /\ "error" \notin FileUnits
  BY <1>1 DEF FileUnits
<1>3. \A s \in FileData : Len(s) = 1 => s[1] \in FileUnits
  BY DEF FileData
<1>4. Len(FileAbsent) = 1 /\ FileAbsent[1] = "no file" /\ Len(FileError) = 1 /\ FileError[1] = "error"
  BY DEF FileAbsent, FileError
<1>5. FileAbsent \notin FileData
  BY <1>2, <1>3, <1>4
<1>6. FileError \notin FileData
  BY <1>2, <1>3, <1>4
<1>7. "no file" # "error"
  OBVIOUS
<1>8. FileAbsent # FileError
  BY <1>4, <1>7
<1>9. Len(<<>>) = 0
  OBVIOUS
<1>10. FileAbsent # <<>>
  BY DEF FileAbsent
<1> QED BY <1>5, <1>6, <1>8, <1>10

\* A file that loads is one that is not empty, and loads as it is.
FileFull(content) == content \in FileData /\ content # <<>>
LEMMA FileLoads ==
    ASSUME NEW content \in FileHolds
    PROVE  /\ FileToMemory(content) # FileError <=> FileFull(content)
           /\ FileFull(content) => FileToMemory(content) = content
  BY FileMarks DEF FileToMemory, FileHolds, FileFull

----------------------------------------------------------------------------
\* The parts of a file, by the places where they meet.
FileEnds(memory, size, j) == IF j = FileCount(memory, size) THEN Len(memory) ELSE size * j
FilePart(memory, size, k) == SubSeq(memory, FilePartStart(size, k) + 1, FilePartEnd(memory, size, k))

\* They meet at multiples of the size, short of the last, which is at the end.
LEMMA FileEndsAre ==
    ASSUME NEW memory, FileFull(memory), NEW size \in FilePartSizes
    PROVE  LET count == FileCount(memory, size)
           IN  /\ count \in Nat \ {0}
               /\ \A j \in 0..count : FileEnds(memory, size, j) \in 0..Len(memory)
               /\ \A j \in 0..(count - 1) :
                     /\ FilePartStart(size, j) = FileEnds(memory, size, j) /\ FilePartEnd(memory, size, j) = FileEnds(memory, size, j + 1)
                     /\ FileEnds(memory, size, j) < FileEnds(memory, size, j + 1)
                     /\ FileEnds(memory, size, j + 1) - FileEnds(memory, size, j) <= size
               /\ \A j, k \in 0..count : j <= k => FileEnds(memory, size, j) <= FileEnds(memory, size, k)
               /\ FileEnds(memory, size, 0) = 0 /\ FileEnds(memory, size, count) = Len(memory)
               /\ FileEnds(memory, size, 1) = IF size < Len(memory) THEN size ELSE Len(memory)
<1> DEFINE length == Len(memory)
           count == FileCount(memory, size)
<1>1. length \in Nat \ {0} /\ size \in Nat \ {0}
  <2>1. memory \in FileData /\ memory # <<>>
    BY DEF FileFull
  <2>2. Len(memory) \in Nat /\ (Len(memory) = 0 => memory = <<>>)
    BY <2>1 DEF FileData
  <2> QED BY <2>1, <2>2, FileAssumption
<1>2. PICK q \in Nat, r \in 0..(size - 1) : q = length \div size /\ r = length % size /\ length = size * q + r
  <2>1. length \in Nat
    BY <1>1
  <2> HIDE DEF length
  <2> QED BY <1>1, <2>1, SizeQuotient
<1>3. /\ count = q + IF r > 0 THEN 1 ELSE 0
      /\ q \in Nat /\ r \in Nat /\ r < size /\ length = size * q + r
  <2>1. count = q + IF r > 0 THEN 1 ELSE 0
    BY <1>2 DEF FileCount
  <2>2. r \in Nat /\ r < size
    BY <1>1
  <2> QED BY <1>2, <2>1, <2>2
<1>4. \A j \in Nat : FileEnds(memory, size, j) = IF j = count THEN length ELSE size * j
  BY DEF FileEnds
<1>5. \A j \in Nat : FilePartStart(size, j) = size * j /\ FilePartEnd(memory, size, j) = IF j + 1 = count THEN length ELSE size * (j + 1)
  BY DEF FilePartStart, FilePartEnd
<1> HIDE DEF length, count
<1>6. size * 0 = 0 /\ size * 1 = size
  BY <1>1, SizeProducts
<1>7. count \in Nat \ {0}
  <2>1. q = 0 => size * q = 0
    BY <1>6
  <2> QED BY <1>1, <1>3, <2>1
<1> DEFINE last == count - 1
<1>8. last \in Nat /\ count = last + 1 /\ size * last \in Nat /\ size * last < length /\ length <= size * last + size
  <2>1. last \in Nat /\ count = last + 1
    BY <1>7
  <2>2. CASE r > 0
    <3>1. last = q
      BY <1>3, <2>2
    <3> HIDE DEF last
    <3>2. size * last \in Nat
      BY <1>1, <2>1, SizeProducts
    <3> QED BY <1>3, <2>1, <2>2, <3>1, <3>2, <1>1
  <2>3. CASE r = 0
    <3>1. q = last + 1
      BY <1>3, <2>3, <2>1
    <3> HIDE DEF last
    <3>2. size * last \in Nat /\ size * (last + 1) = size * last + size
      BY <1>1, <2>1, SizeProducts
    <3>3. length = size * (last + 1)
      BY <1>3, <2>3, <3>1, <3>2, <1>1
    <3> QED BY <2>1, <3>2, <3>3, <1>1
  <2> QED BY <1>3, <2>2, <2>3
<1> HIDE DEF last
<1>9. ASSUME NEW j \in 0..last PROVE size * j \in Nat /\ size * j < length /\ size * (j + 1) = size * j + size /\ (j # last => size * (j + 1) < length)
  <2>1. size * j \in Nat /\ size * j <= size * last /\ size * (j + 1) = size * j + size
    <3>1. j \in Nat /\ j <= last
      BY <1>8
    <3> QED BY <1>1, <1>8, <3>1, SizeProducts
  <2>2. j # last => size * (j + 1) <= size * last
    <3> DEFINE k == j + 1
    <3>1. j # last => k \in Nat /\ k <= last
      BY <1>8
    <3> HIDE DEF k
    <3>2. j # last => size * k <= size * last
      BY <1>1, <1>8, <3>1, SizeProducts
    <3> QED BY <3>2 DEF k
  <2> QED BY <1>1, <1>8, <2>1, <2>2
<1>10. ASSUME NEW j \in 0..count PROVE FileEnds(memory, size, j) \in 0..length
  <2>1. CASE j = count
    BY <1>1, <1>4, <2>1
  <2>2. CASE j # count
    <3>1. j \in 0..last /\ j \in Nat
      BY <1>8, <2>2
    <3> QED BY <1>1, <1>4, <1>9, <2>2, <3>1
  <2> QED BY <2>1, <2>2
<1>11. ASSUME NEW j \in 0..last
       PROVE  /\ FilePartStart(size, j) = FileEnds(memory, size, j) /\ FilePartEnd(memory, size, j) = FileEnds(memory, size, j + 1)
              /\ FileEnds(memory, size, j) < FileEnds(memory, size, j + 1)
              /\ FileEnds(memory, size, j + 1) - FileEnds(memory, size, j) <= size
  <2>1. j \in Nat /\ j + 1 \in Nat /\ j # count /\ (j = last <=> j + 1 = count)
    BY <1>8
  <2>2. FileEnds(memory, size, j) = size * j /\ FileEnds(memory, size, j + 1) = IF j + 1 = count THEN length ELSE size * (j + 1)
    BY <1>4, <2>1
  <2>3. FilePartStart(size, j) = size * j /\ FilePartEnd(memory, size, j) = IF j + 1 = count THEN length ELSE size * (j + 1)
    BY <1>5, <2>1
  <2>4. size * j \in Nat /\ size * j < length /\ size * (j + 1) = size * j + size
    BY <1>9
  <2>5. j = last => length <= size * j + size
    BY <1>8
  <2> QED BY <1>1, <2>1, <2>2, <2>3, <2>4, <2>5
<1>12. ASSUME NEW j \in 0..count, NEW k \in 0..count, j <= k PROVE FileEnds(memory, size, j) <= FileEnds(memory, size, k)
  <2>1. CASE k = count
    <3>1. FileEnds(memory, size, k) = length
      BY <1>4, <2>1
    <3> QED BY <1>1, <1>10, <3>1
  <2>2. CASE k # count
    <3>1. j \in Nat /\ k \in Nat /\ j # count
      BY <1>7, <1>12, <2>2
    <3>2. size * j <= size * k
      BY <1>1, <1>12, <3>1, SizeProducts
    <3> QED BY <1>4, <2>2, <3>1, <3>2
  <2> QED BY <2>1, <2>2
<1>13. FileEnds(memory, size, 0) = 0 /\ FileEnds(memory, size, count) = length
  BY <1>4, <1>6, <1>7
<1>14. FileEnds(memory, size, 1) = IF size < length THEN size ELSE length
  <2>1. FileEnds(memory, size, 1) = IF 1 = count THEN length ELSE size
    BY <1>4, <1>6
  <2>2. CASE count = 1
    <3>1. last = 0
      BY <1>8, <2>2
    <3> QED BY <1>1, <1>6, <1>8, <2>1, <2>2, <3>1
  <2>3. CASE count # 1
    <3>1. 0 \in 0..last /\ 0 # last /\ 0 + 1 = 1
      BY <1>7, <1>8, <2>3
    <3>2. size * (0 + 1) < length
      BY <1>9, <3>1
    <3> QED BY <1>1, <1>6, <2>1, <2>3, <3>1, <3>2
  <2> QED BY <2>2, <2>3
<1>15. 0..(count - 1) = 0..last
  BY DEF last
<1> QED BY <1>7, <1>10, <1>11, <1>12, <1>13, <1>14, <1>15 DEF count, length

\* A part is what lies between two of these places: never nothing, and never more than the size.
LEMMA FilePartIs ==
    ASSUME NEW memory, FileFull(memory), NEW size \in FilePartSizes, NEW k \in 0..(FileCount(memory, size) - 1)
    PROVE  /\ FilePart(memory, size, k) = SubSeq(memory, FileEnds(memory, size, k) + 1, FileEnds(memory, size, k + 1))
           /\ FileFull(FilePart(memory, size, k)) /\ Len(FilePart(memory, size, k)) <= size
<1> DEFINE x == FileEnds(memory, size, k)
           y == FileEnds(memory, size, k + 1)
           part == SubSeq(memory, x + 1, y)
<1>1. FilePart(memory, size, k) = part /\ x < y /\ y - x <= size
  BY FileEndsAre DEF FilePart
<1>2. x \in 0..Len(memory) /\ y \in 0..Len(memory)
  <2>1. FileCount(memory, size) \in Nat
    BY FileEndsAre
  <2>2. k \in 0..FileCount(memory, size) /\ k + 1 \in 0..FileCount(memory, size)
    BY <2>1
  <2> QED BY <2>2, FileEndsAre
<1>3. memory \in Seq(FileUnits)
  BY DEF FileFull, FileData
<1> HIDE DEF x, y
<1>4. y \in x..Len(memory)
  BY <1>1, <1>2
<1>5. part \in Seq(FileUnits) /\ Len(part) = y - x
  BY <1>2, <1>3, <1>4, PartIs
<1>6. Len(part) # 0 /\ Len(part) <= size
  BY <1>1, <1>2, <1>5
<1> HIDE DEF part
<1>7. part # <<>>
  BY <1>6
<1> QED BY <1>1, <1>5, <1>6, <1>7 DEF FileFull, FileData, part, x, y

\* Parts that follow each other are together what lies between their ends.
LEMMA FileParted ==
    ASSUME NEW memory, FileFull(memory), NEW size \in FilePartSizes, NEW a \in Nat, NEW n \in Nat, a + n <= FileCount(memory, size),
           NEW parts, parts = [i \in 1..n |-> FilePart(memory, size, a + i - 1)]
    PROVE  FlattenSeq(parts) = SubSeq(memory, FileEnds(memory, size, a) + 1, FileEnds(memory, size, a + n))
<1> DEFINE ends(j) == FileEnds(memory, size, j)
           first(m) == [i \in 1..m |-> FilePart(memory, size, a + i - 1)]
           S == {m \in 0..n : FlattenSeq(first(m)) = SubSeq(memory, ends(a) + 1, ends(a + m))}
<1>1. memory \in Seq(FileUnits) /\ FileCount(memory, size) \in Nat
  BY FileEndsAre DEF FileFull, FileData
<1>2. \A m \in 0..n : a + m \in 0..FileCount(memory, size)
  BY <1>1
<1>3. \A m \in 0..n : ends(a + m) \in ends(a)..Len(memory) /\ ends(a) \in 0..Len(memory)
  <2> SUFFICES ASSUME NEW m \in 0..n PROVE ends(a + m) \in ends(a)..Len(memory) /\ ends(a) \in 0..Len(memory)
    OBVIOUS
  <2>1. a \in 0..FileCount(memory, size) /\ a + m \in 0..FileCount(memory, size) /\ a <= a + m
    BY <1>1, <1>2
  <2>2. ends(a) \in 0..Len(memory) /\ ends(a + m) \in 0..Len(memory) /\ ends(a) <= ends(a + m)
    BY <2>1, FileEndsAre
  <2> HIDE DEF ends
  <2> QED BY <2>2
<1>4. 0 \in S
  <2>1. first(0) = <<>> /\ Len(first(0)) = 0
    OBVIOUS
  <2>2. FlattenSeq(first(0)) = <<>>
    BY <2>1 DEF FlattenSeq
  <2>3. 0 \in 0..n /\ a + 0 = a
    OBVIOUS
  <2>4. ends(a) \in Int
    BY <1>3, <2>3
  <2> HIDE DEF ends, first
  <2>5. SubSeq(memory, ends(a) + 1, ends(a)) = <<>>
    <3> DEFINE e == ends(a)
    <3>1. e \in Int
      BY <2>4
    <3> HIDE DEF e
    <3>2. e + 1 \in Int /\ e < e + 1
      BY <3>1
    <3>3. SubSeq(memory, e + 1, e) = <<>>
      BY <3>1, <3>2, SubSeqEmpty
    <3> QED BY <3>3 DEF e
  <2> QED BY <2>2, <2>3, <2>5
<1>5. ASSUME NEW m \in 1..n, m - 1 \in S PROVE m \in S
  <2> DEFINE l == m - 1
             k == a + l
  <2>1. l \in Nat /\ l + 1 = m /\ l \in 0..n /\ m \in 0..n /\ a + m = k + 1 /\ a + (l + 1) - 1 = k /\ k \in Nat
    OBVIOUS
  <2>2. k \in 0..(FileCount(memory, size) - 1)
    BY <1>1, <2>1
  <2>3. FlattenSeq(first(l)) = SubSeq(memory, ends(a) + 1, ends(k))
    BY <1>5
  <2> HIDE DEF k, l
  <2>4. \A i \in 1..(l + 1) : FilePart(memory, size, a + i - 1) \in FileData
    <3> SUFFICES ASSUME NEW i \in 1..(l + 1) PROVE FilePart(memory, size, a + i - 1) \in FileData
      OBVIOUS
    <3>1. a + i - 1 \in 0..(FileCount(memory, size) - 1)
      BY <1>1, <2>1
    <3> QED BY <3>1, FilePartIs DEF FileFull
  <2>5. first(l + 1) \in [1..(l + 1) -> Seq(FileUnits)]
    BY <2>4 DEF FileData
  <2>6. first(l + 1)[l + 1] = FilePart(memory, size, k)
    <3>1. l + 1 \in 1..(l + 1)
      BY <2>1
    <3> QED BY <2>1, <3>1
  <2>7. first(l) = [i \in 1..l |-> first(l + 1)[i]]
    <3>1. \A i \in 1..l : i \in 1..(l + 1)
      BY <2>1
    <3>2. \A i \in 1..l : first(l + 1)[i] = first(l)[i]
      BY <3>1
    <3> QED BY <3>2
  <2> HIDE DEF first
  <2>8. FlattenSeq(first(l + 1)) = FlattenSeq(first(l)) \o first(l + 1)[l + 1]
    <3> DEFINE s == first(l + 1)
               t == first(l)
    <3>1. l \in Nat /\ s \in [1..(l + 1) -> Seq(FileUnits)] /\ t = [i \in 1..l |-> s[i]]
      BY <2>1, <2>5, <2>7
    <3> HIDE DEF s, t
    <3>2. FlattenSeq(s) = FlattenSeq(t) \o s[l + 1]
      BY <3>1, FlattenMore
    <3> QED BY <3>2 DEF s, t
  <2>9. FilePart(memory, size, k) = SubSeq(memory, ends(k) + 1, ends(k + 1))
    BY <2>2, FilePartIs
  <2>10. ends(a) \in 0..Len(memory) /\ ends(k) \in ends(a)..Len(memory) /\ ends(k + 1) \in 0..Len(memory) /\ ends(k) <= ends(k + 1)
    <3>1. a + l = k
      BY DEF k
    <3>2. ends(a) \in 0..Len(memory) /\ ends(k) \in ends(a)..Len(memory) /\ ends(k + 1) \in ends(a)..Len(memory)
      BY <1>3, <2>1, <3>1
    <3>3. k \in 0..FileCount(memory, size) /\ k + 1 \in 0..FileCount(memory, size) /\ k <= k + 1
      BY <1>1, <2>2
    <3>4. ends(k) <= ends(k + 1) /\ ends(k + 1) \in 0..Len(memory)
      BY <3>3, FileEndsAre
    <3> QED BY <3>2, <3>4
  <2> DEFINE x == ends(a)
             y == ends(k)
             z == ends(k + 1)
  <2>11. x \in 0..Len(memory) /\ y \in x..Len(memory) /\ z \in y..Len(memory)
    <3> HIDE DEF ends
    <3> QED BY <2>10
  <2> HIDE DEF x, y, z
  <2>12. SubSeq(memory, x + 1, y) \o SubSeq(memory, y + 1, z) = SubSeq(memory, x + 1, z)
    BY <1>1, <2>11, PartsMeet
  <2>13. FlattenSeq(first(l + 1)) = SubSeq(memory, ends(a) + 1, ends(k + 1))
    BY <2>3, <2>6, <2>8, <2>9, <2>12 DEF x, y, z
  <2> HIDE DEF ends
  <2> QED BY <2>1, <2>13
<1>6. 0..n \subseteq S
  <2> HIDE DEF S
  <2> QED BY <1>4, <1>5, UpTo
<1>7. n \in S
  <2> HIDE DEF S
  <2> QED BY <1>6
<1> QED BY <1>7

----------------------------------------------------------------------------
\* The parts on disk.

\* What the parts from the c-th to the one before the k-th hold.
FileSum(numbered, c, k) == FlattenSeq([i \in 1..(k - c) |-> numbered[c + i - 1]])

\* Those load.
FileLoad(numbered, j) == j \in FileNumbers /\ FileFull(numbered[j])
FileRun(numbered, c, k) == \A j \in c..(k - 1) : FileLoad(numbered, j)

\* What is read from the c-th on, when the k-th is the first that does not load.
FileLeft(numbered, c, older) ==
    \A k \in Nat : c <= k /\ k <= FileParts /\ FileRun(numbered, c, k) /\ ~FileLoad(numbered, k) => older = FileSum(numbered, c, k)

LEMMA FilePartsFromIs ==
    ASSUME fileNumbered \in [FileNumbers -> FileHolds], NEW c \in Nat
    PROVE  FileLeft(fileNumbered, c, FilePartsFrom(c))
<1> SUFFICES ASSUME NEW k \in Nat, c <= k, k <= FileParts, FileRun(fileNumbered, c, k), ~FileLoad(fileNumbered, k)
             PROVE  FilePartsFrom(c) = FileSum(fileNumbered, c, k)
  BY DEF FileLeft
<1> DEFINE held == {i \in FileNumbers : i >= c /\ \A j \in c..i : FileToMemory(fileNumbered[j]) # FileError}
<1>1. \A j \in FileNumbers : FileToMemory(fileNumbered[j]) # FileError <=> FileFull(fileNumbered[j])
  BY FileLoads
<1>2. FileParts \in Nat /\ FileNumbers = 0..(FileParts - 1)
  BY FileAssumption DEF FileNumbers
<1>3. held = c..(k - 1)
  <2>1. ASSUME NEW i \in held PROVE i \in c..(k - 1)
    <3>1. i \in FileNumbers /\ i \in Nat /\ i >= c /\ \A j \in c..i : FileToMemory(fileNumbered[j]) # FileError
      BY <1>2
    <3>2. CASE i >= k
      <4>1. k \in c..i /\ k \in FileNumbers
        BY <1>2, <3>1, <3>2
      <4>2. FileToMemory(fileNumbered[k]) # FileError
        BY <3>1, <4>1
      <4>3. FileFull(fileNumbered[k])
        BY <1>1, <4>1, <4>2
      <4> QED BY <4>1, <4>3 DEF FileLoad
    <3>3. CASE ~(i >= k)
      BY <3>1, <3>3
    <3> QED BY <3>2, <3>3
  <2>2. ASSUME NEW i \in c..(k - 1) PROVE i \in held
    <3>1. i \in FileNumbers /\ i >= c
      BY <1>2
    <3>2. ASSUME NEW j \in c..i PROVE FileToMemory(fileNumbered[j]) # FileError
      <4>1. j \in c..(k - 1)
        OBVIOUS
      <4>2. j \in FileNumbers /\ FileFull(fileNumbered[j])
        BY <4>1 DEF FileRun, FileLoad
      <4> QED BY <1>1, <4>2
    <3> QED BY <3>1, <3>2
  <2> QED BY <2>1, <2>2
<1>4. Cardinality(held) = k - c
  <2>1. c \in Int /\ k - 1 \in Int /\ (IF c > k - 1 THEN 0 ELSE (k - 1) - c + 1) = k - c
    OBVIOUS
  <2>2. Cardinality(c..(k - 1)) = IF c > k - 1 THEN 0 ELSE (k - 1) - c + 1
    BY <2>1, FS_Interval
  <2> HIDE DEF held
  <2> QED BY <1>3, <2>1, <2>2
<1> QED
  <2>1. FilePartsFrom(c) = FlattenSeq([i \in 1..Cardinality(held) |-> fileNumbered[c + i - 1]])
    BY DEF FilePartsFrom
  <2> HIDE DEF held
  <2> QED BY <1>4, <2>1 DEF FileSum

\* The parts of a split that ended well, or has got as far as the n-th.
FileWritten(numbered, memory, size, n) == \A j \in 0..(n - 1) : numbered[j] = FilePart(memory, size, j)
FileWhole(numbered, split) ==
    /\ FileFull(split.of) /\ split.size \in FilePartSizes
    /\ split.count = FileCount(split.of, split.size) /\ split.count <= FileParts
    /\ FileWritten(numbered, split.of, split.size, split.count)
    /\ FileLeft(numbered, split.count, split.older)

\* What is left of older parts does not change with those before them.
LEMMA FileLeftStays ==
    ASSUME NEW numbered, NEW other, NEW c \in Nat, NEW older, FileLeft(numbered, c, older),
           \A j \in FileNumbers : j >= c => other[j] = numbered[j]
    PROVE  FileLeft(other, c, older)
<1> SUFFICES ASSUME NEW k \in Nat, c <= k, k <= FileParts, FileRun(other, c, k), ~FileLoad(other, k)
             PROVE  older = FileSum(other, c, k)
  BY DEF FileLeft
<1>1. FileNumbers = 0..(FileParts - 1) /\ FileParts \in Nat
  BY FileAssumption DEF FileNumbers
<1>2. \A j \in c..(k - 1) : j \in FileNumbers /\ other[j] = numbered[j] /\ FileLoad(numbered, j)
  <2> SUFFICES ASSUME NEW j \in c..(k - 1) PROVE j \in FileNumbers /\ other[j] = numbered[j] /\ FileLoad(numbered, j)
    OBVIOUS
  <2>1. j \in FileNumbers /\ FileFull(other[j])
    BY DEF FileRun, FileLoad
  <2>2. other[j] = numbered[j]
    BY <2>1
  <2> QED BY <2>1, <2>2 DEF FileLoad
<1>3. FileRun(numbered, c, k)
  BY <1>2 DEF FileRun
<1>4. ~FileLoad(numbered, k)
  BY DEF FileLoad
<1>5. older = FileSum(numbered, c, k)
  BY <1>3, <1>4 DEF FileLeft
<1>6. \A i \in 1..(k - c) : other[c + i - 1] = numbered[c + i - 1]
  <2> SUFFICES ASSUME NEW i \in 1..(k - c) PROVE other[c + i - 1] = numbered[c + i - 1]
    OBVIOUS
  <2>1. c + i - 1 \in c..(k - 1)
    OBVIOUS
  <2> QED BY <1>2, <2>1
<1>7. [i \in 1..(k - c) |-> other[c + i - 1]] = [i \in 1..(k - c) |-> numbered[c + i - 1]]
  BY <1>6
<1> QED BY <1>5, <1>7 DEF FileSum

\* One part more.
LEMMA FileSumGrows ==
    ASSUME NEW numbered, NEW c \in Nat, NEW k \in Nat, c <= k, FileRun(numbered, c, k), FileLoad(numbered, k)
    PROVE  /\ FileRun(numbered, c, k + 1) /\ FileSum(numbered, c, k) \in FileData
           /\ FileSum(numbered, c, k + 1) = FileSum(numbered, c, k) \o numbered[k]
<1>1. \A j \in c..k : FileLoad(numbered, j)
  <2> SUFFICES ASSUME NEW j \in c..k PROVE FileLoad(numbered, j)
    OBVIOUS
  <2>1. j = k \/ j \in c..(k - 1)
    OBVIOUS
  <2> QED BY <2>1 DEF FileRun
<1>2. FileRun(numbered, c, k + 1)
  <2>1. (k + 1) - 1 = k
    OBVIOUS
  <2> QED BY <1>1, <2>1 DEF FileRun
<1> DEFINE n == k - c
           s == [i \in 1..(n + 1) |-> numbered[c + i - 1]]
           t == [i \in 1..n |-> numbered[c + i - 1]]
<1>3. n \in Nat /\ (k + 1) - c = n + 1 /\ c + (n + 1) - 1 = k
  OBVIOUS
<1>4. s \in [1..(n + 1) -> Seq(FileUnits)]
  <2>1. ASSUME NEW i \in 1..(n + 1) PROVE numbered[c + i - 1] \in Seq(FileUnits)
    <3>1. c + i - 1 \in c..k
      OBVIOUS
    <3> QED BY <1>1, <3>1 DEF FileLoad, FileFull, FileData
  <2> QED BY <2>1
<1>5. FileSum(numbered, c, k) = FlattenSeq(t) /\ FileSum(numbered, c, k + 1) = FlattenSeq(s)
  BY <1>3 DEF FileSum
<1> HIDE DEF n
<1>6. s[n + 1] = numbered[k]
  <2>1. n + 1 \in 1..(n + 1)
    BY <1>3
  <2> QED BY <1>3, <2>1
<1>7. t = [i \in 1..n |-> s[i]]
  <2>1. \A i \in 1..n : i \in 1..(n + 1)
    BY <1>3
  <2>2. \A i \in 1..n : s[i] = t[i]
    BY <2>1
  <2> QED BY <2>2
<1> HIDE DEF s, t
<1>8. FlattenSeq(t) \in Seq(FileUnits) /\ FlattenSeq(s) = FlattenSeq(t) \o s[n + 1]
  BY <1>3, <1>4, <1>7, FlattenMore
<1> QED BY <1>2, <1>5, <1>6, <1>8 DEF FileData

\* The end of the first part.
LEMMA FileFirstEnds ==
    ASSUME NEW memory, FileFull(memory), NEW size \in FilePartSizes
    PROVE  FileEnds(memory, size, 1) = IF size < Len(memory) THEN size ELSE Len(memory)
<1> DEFINE count == FileCount(memory, size)
           ends(j) == FileEnds(memory, size, j)
<1>1. count \in Nat \ {0} /\ \A j \in 0..count : ends(j) \in 0..Len(memory)
  BY FileEndsAre
<1>2. \A j \in 0..(count - 1) : ends(j) < ends(j + 1) /\ ends(j + 1) - ends(j) <= size
  BY FileEndsAre
<1>3. size \in Nat \ {0} /\ size * 0 = 0 /\ size * 1 = size
  <2>1. size \in Nat \ {0} /\ 0 \in Nat
    BY FileAssumption
  <2> QED BY <2>1, SizeProducts
<1>4. ends(0) = 0 /\ (count # 1 => ends(1) = size) /\ (count = 1 => ends(1) = Len(memory))
  BY <1>1, <1>3 DEF FileEnds
<1>5. Len(memory) \in Nat
  BY DEF FileFull, FileData
<1> HIDE DEF count, ends
<1>6. CASE count = 1
  <2>1. 0 \in 0..(count - 1) /\ 0 + 1 = 1
    BY <1>6
  <2>2. ends(1) - ends(0) <= size
    BY <1>2, <2>1
  <2>3. Len(memory) <= size
    BY <1>3, <1>4, <1>5, <1>6, <2>2
  <2> QED BY <1>3, <1>4, <1>5, <1>6, <2>3 DEF ends
<1>7. CASE count # 1
  <2>1. 1 \in 0..(count - 1) /\ 2 \in 0..count /\ 1 + 1 = 2
    BY <1>1, <1>7
  <2>2. ends(1) < ends(2) /\ ends(2) \in 0..Len(memory)
    BY <1>1, <1>2, <2>1
  <2>3. size < Len(memory)
    BY <1>3, <1>4, <1>5, <1>7, <2>2
  <2> QED BY <1>4, <1>7, <2>3 DEF ends
<1> QED BY <1>6, <1>7

\* A split that ended well, in one piece, and what a join reads of it.
LEMMA FileWholeIs ==
    ASSUME NEW numbered, NEW split, FileWhole(numbered, split)
    PROVE  LET parts == [k \in 1..split.count |-> numbered[k - 1]]
           IN  /\ FlattenSeq(parts) = split.of
               /\ \A k \in DOMAIN parts : parts[k] # <<>> /\ Len(parts[k]) <= split.size
<1> DEFINE memory == split.of
           size == split.size
           count == FileCount(memory, size)
           parts == [i \in 1..count |-> FilePart(memory, size, 0 + i - 1)]
<1>1. FileFull(memory) /\ size \in FilePartSizes /\ split.count = count /\ FileWritten(numbered, memory, size, count)
  BY DEF FileWhole
<1>2. count \in Nat \ {0}
  BY <1>1, FileEndsAre
<1>3. \A k \in 1..count : numbered[k - 1] = FilePart(memory, size, k - 1) /\ k - 1 \in 0..(count - 1)
  <2> SUFFICES ASSUME NEW k \in 1..count PROVE numbered[k - 1] = FilePart(memory, size, k - 1) /\ k - 1 \in 0..(count - 1)
    OBVIOUS
  <2>1. k - 1 \in 0..(count - 1)
    BY <1>2
  <2> QED BY <1>1, <2>1 DEF FileWritten
<1>4. [k \in 1..count |-> numbered[k - 1]] = parts
  <2>1. \A k \in 1..count : 0 + k - 1 = k - 1
    BY <1>2
  <2> QED BY <1>3, <2>1
<1>5. FlattenSeq(parts) = memory
  <2>1. 0 \in Nat /\ count \in Nat /\ 0 + count <= count /\ 0 + count = count
    BY <1>2
  <2>2. FlattenSeq(parts) = SubSeq(memory, FileEnds(memory, size, 0) + 1, FileEnds(memory, size, 0 + count))
    <3> DEFINE c == count
               p == parts
    <3>1. c \in Nat /\ 0 + c <= FileCount(memory, size) /\ p = [i \in 1..c |-> FilePart(memory, size, 0 + i - 1)]
      BY <2>1
    <3> HIDE DEF c, p
    <3>2. FlattenSeq(p) = SubSeq(memory, FileEnds(memory, size, 0) + 1, FileEnds(memory, size, 0 + c))
      BY <1>1, <2>1, <3>1, FileParted
    <3> QED BY <3>2 DEF c, p
  <2>3. FileEnds(memory, size, count) = Len(memory) /\ FileEnds(memory, size, 0) = 0
    <3>1. size \in Nat \ {0}
      BY <1>1, FileAssumption
    <3>2. size * 0 = 0
      BY <3>1, SizeProducts
    <3> QED BY <1>2, <3>2 DEF FileEnds
  <2>4. SubSeq(memory, 0 + 1, Len(memory)) = memory
    <3>1. memory \in Seq(FileUnits)
      BY <1>1 DEF FileFull, FileData
    <3> HIDE DEF memory
    <3> QED BY <3>1
  <2> HIDE DEF parts, count
  <2> QED BY <2>1, <2>2, <2>3, <2>4
<1>6. \A k \in 1..count : numbered[k - 1] # <<>> /\ Len(numbered[k - 1]) <= size
  <2> SUFFICES ASSUME NEW k \in 1..count PROVE numbered[k - 1] # <<>> /\ Len(numbered[k - 1]) <= size
    OBVIOUS
  <2>1. FileFull(FilePart(memory, size, k - 1)) /\ Len(FilePart(memory, size, k - 1)) <= size
    <3> DEFINE j == k - 1
    <3>1. j \in 0..(FileCount(memory, size) - 1)
      BY <1>3
    <3> HIDE DEF j
    <3>2. FileFull(FilePart(memory, size, j)) /\ Len(FilePart(memory, size, j)) <= size
      BY <1>1, <3>1, FilePartIs
    <3> QED BY <3>2 DEF j
  <2> QED BY <1>3, <2>1 DEF FileFull
<1> QED BY <1>1, <1>4, <1>5, <1>6

LEMMA FileJoinedIs ==
    ASSUME NEW numbered, NEW split, FileWhole(numbered, split),
           NEW k \in Nat \ {0}, FileRun(numbered, 1, k), ~FileLoad(numbered, k)
    PROVE  FileSum(numbered, 1, k) = SubSeq(split.of, FileEnds(split.of, split.size, 1) + 1, Len(split.of)) \o split.older
<1> DEFINE memory == split.of
           size == split.size
           count == FileCount(memory, size)
<1>1. FileFull(memory) /\ size \in FilePartSizes /\ split.count = count /\ count <= FileParts
      /\ FileWritten(numbered, memory, size, count) /\ FileLeft(numbered, count, split.older)
  BY DEF FileWhole
<1>2. count \in Nat \ {0}
  BY <1>1, FileEndsAre
<1>3. FileParts \in Nat /\ FileNumbers = 0..(FileParts - 1)
  BY FileAssumption DEF FileNumbers
<1>4. \A j \in 0..(count - 1) : numbered[j] = FilePart(memory, size, j) /\ FileLoad(numbered, j)
  <2> SUFFICES ASSUME NEW j \in 0..(count - 1) PROVE numbered[j] = FilePart(memory, size, j) /\ FileLoad(numbered, j)
    OBVIOUS
  <2>1. numbered[j] = FilePart(memory, size, j)
    BY <1>1 DEF FileWritten
  <2>2. FileFull(FilePart(memory, size, j))
    BY <1>1, FilePartIs
  <2>3. j \in FileNumbers
    BY <1>1, <1>2, <1>3
  <2> QED BY <2>1, <2>2, <2>3 DEF FileLoad
<1> HIDE DEF count
<1>5. count <= k
  <2>1. k \notin 0..(count - 1)
    BY <1>4
  <2> QED BY <1>2, <2>1
<1>6. k <= FileParts
  <2>1. CASE k = 1
    BY <1>1, <1>2, <1>3, <2>1
  <2>2. CASE k # 1
    <3>1. k - 1 \in 1..(k - 1)
      BY <2>2
    <3>2. k - 1 \in FileNumbers
      BY <3>1 DEF FileRun, FileLoad
    <3> QED BY <1>3, <3>2
  <2> QED BY <2>1, <2>2
<1>7. split.older = FileSum(numbered, count, k)
  <2>1. FileRun(numbered, count, k)
    <3>1. \A j \in count..(k - 1) : j \in 1..(k - 1)
      BY <1>2
    <3> QED BY <3>1 DEF FileRun
  <2> QED BY <1>1, <1>2, <1>5, <1>6, <2>1 DEF FileLeft
<1> DEFINE m == k - 1
           c == count - 1
           s == [i \in 1..m |-> numbered[1 + i - 1]]
           t == [i \in 1..c |-> FilePart(memory, size, 1 + i - 1)]
           u == [i \in 1..(k - count) |-> numbered[count + i - 1]]
<1>8. m \in Nat /\ c \in 0..m /\ m - c = k - count
  BY <1>2, <1>5
<1>9. s \in [1..m -> Seq(FileUnits)]
  <2>1. ASSUME NEW i \in 1..m PROVE numbered[1 + i - 1] \in Seq(FileUnits)
    <3>1. 1 + i - 1 \in 1..(k - 1)
      OBVIOUS
    <3> QED BY <3>1 DEF FileRun, FileLoad, FileFull, FileData
  <2> QED BY <2>1
<1>10. FirstOf(s, c) = t
  <2>1. ASSUME NEW i \in 1..c PROVE FilePart(memory, size, 1 + i - 1) = s[i]
    <3>1. i \in 1..m /\ i \in 0..(count - 1) /\ 1 + i - 1 = i
      BY <1>2, <1>5
    <3>2. s[i] = numbered[i] /\ numbered[i] = FilePart(memory, size, i)
      BY <1>4, <3>1
    <3> QED BY <3>1, <3>2
  <2> HIDE DEF s, c
  <2> QED BY <2>1 DEF FirstOf
<1>11. RestOf(s, c, m - c) = u
  <2>1. ASSUME NEW i \in 1..(k - count) PROVE numbered[count + i - 1] = s[c + i]
    <3>1. c + i \in 1..m /\ 1 + (c + i) - 1 = count + i - 1
      BY <1>2, <1>5
    <3> QED BY <3>1
  <2> HIDE DEF s, c, m
  <2> QED BY <1>8, <2>1 DEF RestOf
<1>12. FlattenSeq(s) = FlattenSeq(t) \o FlattenSeq(u)
  <2>1. m \in Nat /\ c \in 0..m
    BY <1>8
  <2> HIDE DEF m, c, s, t, u
  <2> QED BY <2>1, <1>9, <1>10, <1>11, FlattenJoins
<1>13. FlattenSeq(t) = SubSeq(memory, FileEnds(memory, size, 1) + 1, Len(memory))
  <2>1. c \in Nat /\ 1 \in Nat /\ 1 + c = count /\ 1 + c <= FileCount(memory, size)
    BY <1>2 DEF count
  <2>2. FileEnds(memory, size, count) = Len(memory)
    BY DEF FileEnds, count
  <2>3. t = [i \in 1..c |-> FilePart(memory, size, 1 + i - 1)]
    OBVIOUS
  <2> HIDE DEF c, t
  <2>4. FlattenSeq(t) = SubSeq(memory, FileEnds(memory, size, 1) + 1, FileEnds(memory, size, 1 + c))
    BY <1>1, <2>1, <2>3, FileParted
  <2> QED BY <2>1, <2>2, <2>4
<1>14. FileSum(numbered, 1, k) = FlattenSeq(s) /\ FileSum(numbered, count, k) = FlattenSeq(u)
  BY DEF FileSum
<1> QED
  <2> HIDE DEF s, t, u
  <2> QED BY <1>7, <1>12, <1>13, <1>14

----------------------------------------------------------------------------
\* What no call breaks.

FileSplitting ==
    \E memory \in FileData, size \in FilePartSizes, k \in Nat :
        /\ fileJob = [op |-> "split", memory |-> memory, size |-> size, part |-> k]
        /\ FileFull(memory) /\ k < FileCount(memory, size) /\ FileCount(memory, size) <= FileParts
        /\ FileWritten(fileNumbered, memory, size, k)
        /\ fileSplitOf = FileNoSplit
FileJoining ==
    \E k \in Nat \ {0} :
        /\ fileJob = [op |-> "join", part |-> k]
        /\ fileMain \in FileData /\ fileMain = FileSum(fileNumbered, 1, k) /\ FileRun(fileNumbered, 1, k)
FileSplitInv == fileSplitOf = FileNoSplit \/ FileWhole(fileNumbered, fileSplitOf)
FileJobInv == fileJob = FileIdle \/ (fileJoined = FALSE /\ (FileSplitting \/ FileJoining))
FilesInv ==
    /\ fileMain \in FileHolds /\ fileNumbered \in [FileNumbers -> FileHolds]
    /\ FileSplitInv /\ FileJobInv /\ FilesJoinTheRest

LEMMA FilesStart == FilesInit => FilesInv
  BY DEF FilesInit, FilesInv, FileHolds, FileSplitInv, FileJobInv, FilesJoinTheRest

LEMMA FilesStutter == FilesInv /\ UNCHANGED filesVars => FilesInv'
<1> SUFFICES ASSUME FilesInv, UNCHANGED filesVars PROVE FilesInv'
  OBVIOUS
<1>1. UNCHANGED fileMain /\ UNCHANGED fileNumbered /\ UNCHANGED fileJob /\ UNCHANGED fileSplitOf /\ UNCHANGED fileJoined
  BY DEF filesVars
<1>2. FileSplitInv' = FileSplitInv /\ FilesJoinTheRest' = FilesJoinTheRest
  BY <1>1 DEF FileSplitInv, FilesJoinTheRest
<1>3. FileSplitting' = FileSplitting /\ FileJoining' = FileJoining
  BY <1>1 DEF FileSplitting, FileJoining
<1>4. FileJobInv' = FileJobInv
  BY <1>1, <1>3 DEF FileJobInv
<1> QED BY <1>1, <1>2, <1>4 DEF FilesInv

\* The file is saved or deleted, or a part is.
LEMMA FileFromMemoryKeeps ==
    ASSUME FilesInv, NEW bytes \in FileContents, NEW append \in BOOLEAN, FileFromMemory(bytes, append)
    PROVE  FilesInv'
<1>1. bytes \in FileData
  BY FileAssumption DEF FileData, FileUnits
<1> DEFINE kept == IF append /\ fileMain # FileAbsent THEN fileMain ELSE <<>>
<1>2. kept \in FileData
  BY DEF FilesInv, FileHolds, FileData
<1>3. PICK n \in 0..Len(bytes) : fileMain' = kept \o SubSeq(bytes, 1, n)
  BY DEF FileFromMemory
<1>4. SubSeq(bytes, 1, n) \in FileData
  <2>1. 0 \in 0..Len(bytes) /\ n \in 0..Len(bytes) /\ 0 + 1 = 1
    BY <1>1 DEF FileData
  <2>2. SubSeq(bytes, 0 + 1, n) \in Seq(FileUnits)
    BY <1>1, <2>1, PartIs DEF FileData
  <2> QED BY <2>1, <2>2 DEF FileData
<1>5. fileMain' \in FileHolds
  <2> HIDE DEF kept
  <2> QED BY <1>2, <1>3, <1>4 DEF FileData, FileHolds
<1>6. fileJob' = FileIdle /\ fileJoined' = FALSE /\ UNCHANGED <<fileNumbered, fileSplitOf>>
  BY DEF FileFromMemory
<1> QED BY <1>5, <1>6 DEF FilesInv, FileSplitInv, FileJobInv, FilesJoinTheRest

LEMMA FileDeleteKeeps == ASSUME FilesInv, FileDelete PROVE FilesInv'
<1>1. fileJob' = FileIdle /\ fileJoined' = FALSE
  BY DEF FileDelete
<1>2. FileAbsent \in FileHolds
  BY DEF FileHolds
<1>3. CASE fileMain' = FileAbsent /\ UNCHANGED <<fileNumbered, fileSplitOf>>
  BY <1>1, <1>2, <1>3 DEF FilesInv, FileSplitInv, FileJobInv, FilesJoinTheRest
<1>4. CASE \E k \in FileNumbers :
              /\ fileNumbered' = [fileNumbered EXCEPT ![k] = FileAbsent]
              /\ fileSplitOf' = FileNoSplit /\ UNCHANGED fileMain
  <2>1. fileNumbered' \in [FileNumbers -> FileHolds]
    BY <1>2, <1>4 DEF FilesInv
  <2> QED BY <1>1, <1>4, <2>1 DEF FilesInv, FileSplitInv, FileJobInv, FilesJoinTheRest
<1> QED BY <1>3, <1>4 DEF FileDelete

LEMMA FileStopsKeeps == ASSUME FilesInv, FileStops PROVE FilesInv'
  BY DEF FileStops, FilesInv, FileSplitInv, FileJobInv, FilesJoinTheRest

\* The file is split.
LEMMA FileSplitKeeps == ASSUME FilesInv, NEW size \in FilePartSizes, FileSplit(size) PROVE FilesInv'
<1>1. FileFull(fileMain)
  BY FileLoads DEF FilesInv, FileSplit
<1>2. FileCount(fileMain, size) \in Nat \ {0} /\ FileCount(fileMain, size) <= FileParts
  BY <1>1, FileEndsAre DEF FileSplit
<1>3. UNCHANGED <<fileMain, fileNumbered>> /\ fileSplitOf' = FileNoSplit /\ fileJoined' = FALSE
      /\ fileJob' = [op |-> "split", memory |-> fileMain, size |-> size, part |-> 0]
  BY DEF FileSplit
<1>4. FileSplitting'
  <2>1. FileWritten(fileNumbered', fileMain, size, 0)
    BY DEF FileWritten
  <2>2. 0 \in Nat /\ 0 < FileCount(fileMain, size) /\ fileMain \in FileData
    BY <1>1, <1>2 DEF FileFull
  <2> QED BY <1>1, <1>2, <1>3, <2>1, <2>2 DEF FileSplitting
<1> QED BY <1>3, <1>4 DEF FilesInv, FileSplitInv, FileJobInv, FilesJoinTheRest

LEMMA FileSplitPartKeeps == ASSUME FilesInv, FileSplitPart PROVE FilesInv'
<1>1. fileJoined = FALSE /\ FileSplitting
  BY DEF FilesInv, FileJobInv, FileSplitPart, FileJoining, FileIdle
<1>2. PICK memory \in FileData, size \in FilePartSizes, k \in Nat :
        /\ fileJob = [op |-> "split", memory |-> memory, size |-> size, part |-> k]
        /\ FileFull(memory) /\ k < FileCount(memory, size) /\ FileCount(memory, size) <= FileParts
        /\ FileWritten(fileNumbered, memory, size, k)
        /\ fileSplitOf = FileNoSplit
  BY <1>1 DEF FileSplitting
<1> DEFINE count == FileCount(memory, size)
           part == FilePart(memory, size, k)
<1>3. fileJob.memory = memory /\ fileJob.size = size /\ fileJob.part = k
  BY <1>2
<1>4. UNCHANGED fileMain /\ fileJoined' = FALSE
  BY <1>1 DEF FileSplitPart
<1>5. count \in Nat \ {0} /\ k \in 0..(count - 1)
  <2>1. count \in Nat \ {0}
    BY <1>2, FileEndsAre
  <2> QED BY <1>2, <2>1
<1>6. FileFull(part)
  BY <1>2, <1>5, FilePartIs
<1>0. FileParts \in Nat /\ FileNumbers = 0..(FileParts - 1)
  BY FileAssumption DEF FileNumbers
<1>7. k \in FileNumbers
  <2> HIDE DEF count
  <2>1. count <= FileParts
    BY <1>2 DEF count
  <2> QED BY <1>0, <1>5, <2>1
<1>8. \/ /\ fileNumbered' = [fileNumbered EXCEPT ![k] = part]
         /\ \/ /\ k + 1 < count
               /\ fileJob' = [fileJob EXCEPT !.part = k + 1] /\ UNCHANGED fileSplitOf
            \/ /\ k + 1 = count
               /\ fileJob' = FileIdle
               /\ fileSplitOf' = [of |-> memory, size |-> size, count |-> count, older |-> FilePartsFrom(count)]
      \/ \E n \in 0..(Len(part) - 1) :
            /\ fileNumbered' = [fileNumbered EXCEPT ![k] = SubSeq(part, 1, n)]
            /\ fileJob' = FileIdle /\ UNCHANGED fileSplitOf
  BY <1>3 DEF FileSplitPart, FilePart
<1>9. fileNumbered \in [FileNumbers -> FileHolds] /\ fileMain' \in FileHolds
  BY <1>4 DEF FilesInv
<1>10. CASE /\ fileNumbered' = [fileNumbered EXCEPT ![k] = part]
            /\ \/ /\ k + 1 < count
                  /\ fileJob' = [fileJob EXCEPT !.part = k + 1] /\ UNCHANGED fileSplitOf
               \/ /\ k + 1 = count
                  /\ fileJob' = FileIdle
                  /\ fileSplitOf' = [of |-> memory, size |-> size, count |-> count, older |-> FilePartsFrom(count)]
  <2> HIDE DEF part
  <2>1. fileNumbered' \in [FileNumbers -> FileHolds]
    BY <1>6, <1>9, <1>10 DEF FileFull, FileHolds
  <2>2. FileWritten(fileNumbered', memory, size, k + 1)
    <3> SUFFICES ASSUME NEW j \in 0..((k + 1) - 1) PROVE fileNumbered'[j] = FilePart(memory, size, j)
      BY DEF FileWritten
    <3>1. j = k \/ j \in 0..(k - 1)
      OBVIOUS
    <3>2. CASE j = k
      BY <1>7, <1>9, <1>10, <3>2 DEF part
    <3>3. CASE j # k /\ j \in 0..(k - 1)
      <4>1. fileNumbered[j] = FilePart(memory, size, j)
        BY <1>2, <3>3 DEF FileWritten
      <4>2. j \in FileNumbers
        BY <1>0, <1>7, <3>3
      <4> QED BY <1>9, <1>10, <3>3, <4>1, <4>2
    <3> QED BY <3>1, <3>2, <3>3
  <2>3. CASE k + 1 < count /\ fileJob' = [fileJob EXCEPT !.part = k + 1] /\ UNCHANGED fileSplitOf
    <3>1. FileSplitting'
      <4>1. fileJob' = [op |-> "split", memory |-> memory, size |-> size, part |-> k + 1] /\ fileSplitOf' = FileNoSplit
        BY <1>2, <2>3
      <4>2. k + 1 \in Nat
        OBVIOUS
      <4> QED BY <1>2, <2>2, <2>3, <4>1, <4>2 DEF FileSplitting
    <3> QED BY <1>2, <1>4, <1>9, <2>1, <2>3, <3>1 DEF FilesInv, FileSplitInv, FileJobInv, FilesJoinTheRest
  <2>4. CASE k + 1 = count /\ fileJob' = FileIdle
              /\ fileSplitOf' = [of |-> memory, size |-> size, count |-> count, older |-> FilePartsFrom(count)]
    <3>1. FileLeft(fileNumbered', count, FilePartsFrom(count))
      <4>1. FileLeft(fileNumbered, count, FilePartsFrom(count))
        BY <1>5, <1>9, FilePartsFromIs
      <4>2. \A j \in FileNumbers : j >= count => fileNumbered'[j] = fileNumbered[j]
        <5>1. \A j \in FileNumbers : j >= count => j # k
          <6> HIDE DEF count
          <6> QED BY <1>0, <1>5
        <5> QED BY <1>9, <1>10, <5>1
      <4> HIDE DEF count
      <4> QED BY <1>5, <4>1, <4>2, FileLeftStays
    <3>2. FileWhole(fileNumbered', fileSplitOf')
      BY <1>2, <2>2, <2>4, <3>1 DEF FileWhole
    <3> QED BY <1>4, <1>9, <2>1, <2>4, <3>2 DEF FilesInv, FileSplitInv, FileJobInv, FilesJoinTheRest
  <2> QED BY <1>10, <2>3, <2>4
<1>11. CASE \E n \in 0..(Len(part) - 1) :
            /\ fileNumbered' = [fileNumbered EXCEPT ![k] = SubSeq(part, 1, n)]
            /\ fileJob' = FileIdle /\ UNCHANGED fileSplitOf
  <2> HIDE DEF part
  <2>1. PICK n \in 0..(Len(part) - 1) :
            /\ fileNumbered' = [fileNumbered EXCEPT ![k] = SubSeq(part, 1, n)]
            /\ fileJob' = FileIdle /\ UNCHANGED fileSplitOf
    BY <1>11
  <2>2. SubSeq(part, 1, n) \in FileHolds
    <3>1. part \in Seq(FileUnits) /\ 0 \in 0..Len(part) /\ n \in 0..Len(part) /\ 0 + 1 = 1
      BY <1>6 DEF FileFull, FileData
    <3>2. SubSeq(part, 0 + 1, n) \in Seq(FileUnits)
      BY <3>1, PartIs
    <3> QED BY <3>1, <3>2 DEF FileHolds, FileData
  <2>3. fileNumbered' \in [FileNumbers -> FileHolds]
    BY <1>9, <2>1, <2>2
  <2> QED BY <1>2, <1>4, <1>9, <2>1, <2>3 DEF FilesInv, FileSplitInv, FileJobInv, FilesJoinTheRest
<1> QED BY <1>8, <1>10, <1>11

\* The parts are joined.
LEMMA FileJoinKeeps == ASSUME FilesInv, FileJoin PROVE FilesInv'
<1>1. fileMain' = <<>> /\ fileJob' = [op |-> "join", part |-> 1] /\ fileJoined' = FALSE /\ UNCHANGED <<fileNumbered, fileSplitOf>>
  BY DEF FileJoin
<1>2. FileSum(fileNumbered', 1, 1) = <<>> /\ FileRun(fileNumbered', 1, 1)
  <2> DEFINE s == [i \in 1..(1 - 1) |-> fileNumbered'[1 + i - 1]]
  <2>1. s = <<>> /\ Len(s) = 0
    OBVIOUS
  <2> HIDE DEF s
  <2>2. FlattenSeq(s) = <<>>
    BY <2>1 DEF FlattenSeq
  <2>3. FileSum(fileNumbered', 1, 1) = <<>>
    BY <2>2 DEF FileSum, s
  <2> QED BY <2>3 DEF FileRun
<1>3. <<>> \in FileData
  BY DEF FileData
<1>4. FileJoining'
  BY <1>1, <1>2, <1>3 DEF FileJoining
<1> QED BY <1>1, <1>3, <1>4 DEF FilesInv, FileHolds, FileSplitInv, FileJobInv, FilesJoinTheRest

LEMMA FileJoinPartKeeps == ASSUME FilesInv, FileJoinPart PROVE FilesInv'
<1>1. fileJoined = FALSE /\ FileJoining
  BY DEF FilesInv, FileJobInv, FileJoinPart, FileSplitting, FileIdle
<1>2. PICK k \in Nat \ {0} :
        /\ fileJob = [op |-> "join", part |-> k]
        /\ fileMain \in FileData /\ fileMain = FileSum(fileNumbered, 1, k) /\ FileRun(fileNumbered, 1, k)
  BY <1>1 DEF FileJoining
<1> DEFINE loaded == IF k \in FileNumbers THEN FileToMemory(fileNumbered[k]) ELSE FileError
<1>3. \/ loaded = FileError /\ fileJob' = FileIdle /\ fileJoined' = TRUE /\ UNCHANGED fileMain
      \/ /\ loaded # FileError /\ UNCHANGED fileJoined
         /\ \/ fileMain' = fileMain \o loaded /\ fileJob' = [fileJob EXCEPT !.part = k + 1]
            \/ \E n \in 0..(Len(loaded) - 1) : fileMain' = fileMain \o SubSeq(loaded, 1, n) /\ fileJob' = FileIdle
  <2>1. fileJob.part = k
    BY <1>2
  <2> QED BY <2>1 DEF FileJoinPart
<1>4. UNCHANGED <<fileNumbered, fileSplitOf>> /\ fileNumbered \in [FileNumbers -> FileHolds] /\ FileSplitInv
  BY DEF FileJoinPart, FilesInv
<1>5. /\ loaded # FileError <=> FileLoad(fileNumbered, k)
      /\ loaded # FileError => loaded = fileNumbered[k] /\ FileFull(loaded)
  BY <1>4, FileLoads DEF FileLoad
<1> HIDE DEF loaded
<1>6. fileSplitOf' = FileNoSplit \/ FileWhole(fileNumbered', fileSplitOf')
  BY <1>4 DEF FileSplitInv
<1>7. CASE loaded = FileError /\ fileJob' = FileIdle /\ fileJoined' = TRUE /\ UNCHANGED fileMain
  <2>1. ASSUME FileWhole(fileNumbered, fileSplitOf)
        PROVE fileMain = SubSeq(fileSplitOf.of, FileEnds(fileSplitOf.of, fileSplitOf.size, 1) + 1, Len(fileSplitOf.of)) \o fileSplitOf.older
    <3>1. ~FileLoad(fileNumbered, k)
      BY <1>5, <1>7
    <3> QED BY <1>2, <2>1, <3>1, FileJoinedIs
  <2>2. ASSUME FileWhole(fileNumbered, fileSplitOf)
        PROVE FileEnds(fileSplitOf.of, fileSplitOf.size, 1) = IF fileSplitOf.size < Len(fileSplitOf.of) THEN fileSplitOf.size ELSE Len(fileSplitOf.of)
    BY <2>2, FileFirstEnds DEF FileWhole
  <2>3. FilesJoinTheRest'
    BY <1>4, <1>6, <1>7, <2>1, <2>2 DEF FilesJoinTheRest
  <2>4. fileMain' \in FileHolds
    BY <1>2, <1>7 DEF FileHolds
  <2> QED BY <1>4, <1>6, <1>7, <2>3, <2>4 DEF FilesInv, FileSplitInv, FileJobInv
<1>8. CASE loaded # FileError /\ UNCHANGED fileJoined /\ fileMain' = fileMain \o loaded /\ fileJob' = [fileJob EXCEPT !.part = k + 1]
  <2>1. 1 \in Nat /\ k \in Nat /\ 1 <= k /\ k + 1 \in Nat \ {0}
    OBVIOUS
  <2>2. FileRun(fileNumbered, 1, k + 1) /\ FileSum(fileNumbered, 1, k + 1) = FileSum(fileNumbered, 1, k) \o fileNumbered[k]
    BY <1>2, <1>5, <1>8, <2>1, FileSumGrows
  <2>3. fileMain' = FileSum(fileNumbered', 1, k + 1) /\ FileRun(fileNumbered', 1, k + 1)
    BY <1>2, <1>4, <1>5, <1>8, <2>2
  <2>4. fileMain' \in FileData
    BY <1>2, <1>5, <1>8 DEF FileFull, FileData
  <2>5. fileJob' = [op |-> "join", part |-> k + 1]
    BY <1>2, <1>8
  <2>6. FileJoining'
    BY <2>1, <2>3, <2>4, <2>5 DEF FileJoining
  <2>7. fileJoined' = FALSE
    BY <1>1, <1>8
  <2> QED BY <1>4, <1>6, <2>4, <2>6, <2>7 DEF FilesInv, FileHolds, FileSplitInv, FileJobInv, FilesJoinTheRest
<1>9. CASE loaded # FileError /\ UNCHANGED fileJoined
           /\ \E n \in 0..(Len(loaded) - 1) : fileMain' = fileMain \o SubSeq(loaded, 1, n) /\ fileJob' = FileIdle
  <2>1. PICK n \in 0..(Len(loaded) - 1) : fileMain' = fileMain \o SubSeq(loaded, 1, n) /\ fileJob' = FileIdle
    BY <1>9
  <2>2. SubSeq(loaded, 1, n) \in FileData
    <3>1. loaded \in Seq(FileUnits) /\ 0 \in 0..Len(loaded) /\ n \in 0..Len(loaded) /\ 0 + 1 = 1
      BY <1>5, <1>9 DEF FileFull, FileData
    <3>2. SubSeq(loaded, 0 + 1, n) \in Seq(FileUnits)
      BY <3>1, PartIs
    <3> QED BY <3>1, <3>2 DEF FileData
  <2>3. fileMain' \in FileHolds
    BY <1>2, <2>1, <2>2 DEF FileHolds, FileData
  <2>4. fileJoined' = FALSE
    BY <1>1, <1>9
  <2> QED BY <1>4, <1>6, <2>1, <2>3, <2>4 DEF FilesInv, FileSplitInv, FileJobInv, FilesJoinTheRest
<1> QED BY <1>3, <1>7, <1>8, <1>9

LEMMA FilesKept == FilesInv /\ [FilesNext]_filesVars => FilesInv'
<1> SUFFICES ASSUME FilesInv, [FilesNext]_filesVars PROVE FilesInv'
  OBVIOUS
<1>1. CASE \E bytes \in FileContents, append \in BOOLEAN : FileFromMemory(bytes, append)
  BY <1>1, FileFromMemoryKeeps
<1>2. CASE \E size \in FilePartSizes : FileSplit(size)
  BY <1>2, FileSplitKeeps
<1>3. CASE FileDelete
  BY <1>3, FileDeleteKeeps
<1>4. CASE FileSplitPart
  BY <1>4, FileSplitPartKeeps
<1>5. CASE FileJoin
  BY <1>5, FileJoinKeeps
<1>6. CASE FileJoinPart
  BY <1>6, FileJoinPartKeeps
<1>7. CASE FileStops
  BY <1>7, FileStopsKeeps
<1>8. CASE UNCHANGED filesVars
  BY <1>8, FilesStutter
<1> QED BY <1>1, <1>2, <1>3, <1>4, <1>5, <1>6, <1>7, <1>8 DEF FilesNext

\* A file that was split is whole in its parts, and what is joined of them is the file from its
\* second part on, with what older parts hold.
THEOREM FilesWholeCorrect == FilesSpec => [](FilesSplitIsWhole /\ FilesJoinTheRest)
<1>1. FilesInv => FilesSplitIsWhole /\ FilesJoinTheRest
  <2>1. FileWhole(fileNumbered, fileSplitOf) => FilesSplitIsWhole
    BY FileWholeIs DEF FilesSplitIsWhole
  <2> QED BY <2>1 DEF FilesInv, FileSplitInv, FilesSplitIsWhole
<1> QED BY <1>1, FilesStart, FilesKept, PTL DEF FilesSpec

----------------------------------------------------------------------------
\* Files with a checksum

\* Of a part of what was cut, the part.
LEMMA CutTwice ==
    ASSUME NEW S, NEW s \in Seq(S), NEW n \in 0..Len(s), NEW m \in 0..n
    PROVE  SubSeq(SubSeq(s, 1, n), 1, m) = SubSeq(s, 1, m)
<1> DEFINE c == SubSeq(s, 1, n)
           d == SubSeq(s, 1, m)
<1>1. c \in Seq(S) /\ Len(c) = n /\ \A i \in 1..n : c[i] = s[i]
  BY CutIs
<1>2. m \in 0..Len(s)
  OBVIOUS
<1>3. d \in Seq(S) /\ Len(d) = m /\ \A i \in 1..m : d[i] = s[i]
  BY <1>2, CutIs
<1> HIDE DEF c, d
<1>4. SubSeq(c, 1, m) \in Seq(S) /\ Len(SubSeq(c, 1, m)) = m /\ \A i \in 1..m : SubSeq(c, 1, m)[i] = c[i]
  BY <1>1, CutIs
<1>5. \A i \in 1..m : SubSeq(c, 1, m)[i] = d[i]
  BY <1>1, <1>3, <1>4
<1>6. SubSeq(c, 1, m) = d
  BY <1>3, <1>4, <1>5, SeqEqual
<1> QED BY <1>6 DEF c, d

\* What is left of bytes with their checksum when they are cut: nothing, the bytes before one that is
\* taken for the checksum, or all of it.
LEMMA SecureCut ==
    ASSUME NEW S, NEW bytes \in Seq(S), NEW n \in 0..Len(bytes) + 1
    PROVE  LET file == SubSeq(Append(bytes, Crc(bytes)), 1, n)
           IN  /\ Len(Append(bytes, Crc(bytes))) = Len(bytes) + 1
               /\ n = 0 => file = <<>>
               /\ n # 0 => file # <<>> /\ Len(file) = n
               /\ n = Len(bytes) + 1 => Front(file) = bytes /\ Last(file) = Crc(bytes)
               /\ n \in 1..Len(bytes) => Front(file) = SubSeq(bytes, 1, n - 1) /\ Last(file) = bytes[n]
<1> DEFINE T == S \cup {Crc(bytes)}
           w == Append(bytes, Crc(bytes))
           file == SubSeq(w, 1, n)
           k == Len(bytes)
<1>1. bytes \in Seq(T) /\ Crc(bytes) \in T /\ k \in Nat
  OBVIOUS
<1> HIDE DEF T
<1>2. w \in Seq(T) /\ Len(w) = k + 1 /\ (\A i \in 1..k : w[i] = bytes[i]) /\ w[k + 1] = Crc(bytes)
  BY <1>1, AppendProperties
<1> HIDE DEF w
<1>3. n \in 0..Len(w)
  BY <1>2
<1>4. file \in Seq(T) /\ Len(file) = n /\ \A i \in 1..n : file[i] = w[i]
  BY <1>2, <1>3, CutIs
<1>5. n = 0 => file = <<>>
  BY <1>4, EmptySeq
<1>6. n # 0 => file # <<>>
  BY <1>4, EmptySeq
<1>7. \A m \in 0..n : SubSeq(file, 1, m) = SubSeq(w, 1, m)
  BY <1>2, <1>3, CutTwice
<1>8. \A m \in 0..k : SubSeq(w, 1, m) = SubSeq(bytes, 1, m)
  <2> TAKE m \in 0..k
  <2>1. m \in 0..Len(w)
    BY <1>1, <1>2
  <2>2. SubSeq(w, 1, m) \in Seq(T) /\ Len(SubSeq(w, 1, m)) = m /\ \A i \in 1..m : SubSeq(w, 1, m)[i] = w[i]
    BY <1>2, <2>1, CutIs
  <2>3. SubSeq(bytes, 1, m) \in Seq(T) /\ Len(SubSeq(bytes, 1, m)) = m /\ \A i \in 1..m : SubSeq(bytes, 1, m)[i] = bytes[i]
    BY <1>1, CutIs
  <2>4. \A i \in 1..m : SubSeq(w, 1, m)[i] = SubSeq(bytes, 1, m)[i]
    BY <1>1, <1>2, <2>2, <2>3
  <2> QED BY <2>2, <2>3, <2>4, SeqEqual
<1>9. SubSeq(bytes, 1, k) = bytes
  BY <1>1, CutIs
<1> HIDE DEF file
<1>10. n # 0 => Front(file) = SubSeq(bytes, 1, n - 1) /\ Last(file) = w[n]
  <2> SUFFICES ASSUME n # 0 PROVE Front(file) = SubSeq(bytes, 1, n - 1) /\ Last(file) = w[n]
    OBVIOUS
  <2>1. n - 1 \in 0..n /\ n - 1 \in 0..k /\ n \in 1..n
    BY <1>1
  <2>2. SubSeq(file, 1, n - 1) = SubSeq(bytes, 1, n - 1)
    BY <1>7, <1>8, <2>1
  <2> QED BY <1>4, <2>1, <2>2 DEF Front, Last
<1>11. n = k + 1 => n # 0 /\ n - 1 = k /\ w[n] = Crc(bytes)
  BY <1>1, <1>2
<1>12. n \in 1..k => n # 0 /\ w[n] = bytes[n]
  BY <1>1, <1>2
<1> QED BY <1>2, <1>4, <1>5, <1>6, <1>9, <1>10, <1>11, <1>12 DEF file, w

\* What a file has in it, written whole, when nothing was in the buffer it was deflated into.
SecureBytes(saved) ==
    LET deflated == IF saved.deflate THEN <<<<"deflated", saved.data>>>> ELSE saved.data
    IN  IF saved.key THEN <<<<"aes", deflated>>>> ELSE deflated
SecureWhole(saved) == Append(SecureBytes(saved), Crc(SecureBytes(saved)))
SecureSaving == [data : SecureContents, deflate : BOOLEAN, key : BOOLEAN, clean : BOOLEAN, whole : BOOLEAN]

\* The file is what was saved, as far as it was written.
SecureInv ==
    /\ secureSaved \in SecureSaving /\ secureCount \in 0..SecureSaves
    /\ DOMAIN secureCache = {"deflated", "encrypted"}
    /\ secureSaved.clean => \E n \in 0..Len(SecureWhole(secureSaved)) :
                               /\ secureFile = SubSeq(SecureWhole(secureSaved), 1, n)
                               /\ secureSaved.whole <=> n = Len(SecureWhole(secureSaved))

SecureVerified(file) == IF file = <<>> THEN SecureError ELSE CrcVerifyAndRemove(file)

\* One unit before a checksum.
LEMMA SecureOne ==
    ASSUME NEW tag, NEW bytes, tag \in {"aes", "deflated"}
    PROVE  /\ <<<<tag, bytes>>>> \in Seq({<<tag, bytes>>}) /\ Len(<<<<tag, bytes>>>>) = 1
           /\ <<<<tag, bytes>>>>[1] = <<tag, bytes>> /\ Head(<<<<tag, bytes>>>>) = <<tag, bytes>>
           /\ <<tag, bytes>>[1] = tag /\ <<tag, bytes>>[2] = bytes
           /\ <<<<tag, bytes>>>> # SecureError /\ <<<<tag, bytes>>>> # <<>> /\ <<tag, bytes>> # SecureZero
<1>1. Len(<<tag, bytes>>) = 2 /\ Len(<<"zero">>) = 1 /\ Len(<<"error">>) = 1
  OBVIOUS
<1>2. <<tag, bytes>> # SecureZero /\ <<tag, bytes>> # <<"error">>
  BY <1>1 DEF SecureZero
<1> DEFINE u == <<tag, bytes>>
<1>3. u[1] = tag /\ u[2] = bytes
  OBVIOUS
<1>4. u # <<"error">> /\ u # SecureZero
  BY <1>2
<1> HIDE DEF u
<1>5. <<u>> \in Seq({u}) /\ Len(<<u>>) = 1 /\ <<u>>[1] = u /\ Head(<<u>>) = u /\ <<u>> # <<>>
  OBVIOUS
<1>6. <<u>> # SecureError
  <2>1. <<<<"error">>>>[1] = <<"error">>
    OBVIOUS
  <2> QED BY <1>4, <1>5, <2>1 DEF SecureError
<1> QED BY <1>3, <1>4, <1>5, <1>6 DEF u

\* However a file is cut, its checksum is right only when it is whole, or eight bytes of zero.
LEMMA SecureVerifies ==
    ASSUME NEW saved \in SecureSaving, NEW n \in 0..Len(SecureWhole(saved)), NEW file,
           file = SubSeq(SecureWhole(saved), 1, n)
    PROVE  /\ n = Len(SecureWhole(saved)) => SecureVerified(file) = SecureBytes(saved)
           /\ n # Len(SecureWhole(saved)) =>
                SecureVerified(file) = IF ~saved.deflate /\ ~saved.key /\ file = <<SecureZero>> THEN <<>> ELSE SecureError
<1> DEFINE b == SecureBytes(saved)
           d == saved.data
           k == Len(b)
           S == UNION {ToSet(c) : c \in SecureContents}
           plain == ~saved.deflate /\ ~saved.key
<1>1. d \in SecureContents /\ saved.deflate \in BOOLEAN /\ saved.key \in BOOLEAN
  BY DEF SecureSaving
<1>2. d \in Seq(S) /\ \A i \in 2..Len(d) : d[i] # SecureSum(SubSeq(d, 1, i - 1))
  BY <1>1, SecureAssumption
<1>3. plain => b = d
  BY <1>1 DEF SecureBytes
<1>4. ~plain => \E u : b = <<u>> /\ u # SecureZero /\ b \in Seq({u})
  <2>1. CASE saved.key
    <3> DEFINE e == IF saved.deflate THEN <<<<"deflated", d>>>> ELSE d
    <3>1. b = <<<<"aes", e>>>>
      BY <2>1 DEF SecureBytes
    <3> HIDE DEF e, b
    <3> QED BY <3>1, SecureOne
  <2>2. CASE ~saved.key /\ saved.deflate
    <3>1. b = <<<<"deflated", d>>>>
      BY <2>2 DEF SecureBytes
    <3> HIDE DEF b
    <3> QED BY <3>1, SecureOne
  <2> QED BY <1>1, <2>1, <2>2
<1>5. PICK T : b \in Seq(T)
  BY <1>2, <1>3, <1>4
<1>6. SecureWhole(saved) = Append(b, Crc(b))
  BY DEF SecureWhole
<1> HIDE DEF b, S, plain
<1>7. k \in Nat /\ Len(SecureWhole(saved)) = k + 1 /\ n \in 0..k + 1
  <2>1. k \in Nat
    BY <1>5
  <2>2. 0 \in 0..k + 1
    BY <2>1
  <2>3. Len(Append(b, Crc(b))) = k + 1
    BY <1>5, <2>2, SecureCut
  <2> QED BY <1>6, <2>1, <2>3
<1>8. /\ n = 0 => file = <<>>
      /\ n # 0 => file # <<>> /\ Len(file) = n
      /\ n = k + 1 => Front(file) = b /\ Last(file) = Crc(b)
      /\ n \in 1..k => Front(file) = SubSeq(b, 1, n - 1) /\ Last(file) = b[n]
  <2> DEFINE f == SubSeq(Append(b, Crc(b)), 1, n)
  <2>1. /\ n = 0 => f = <<>>
        /\ n # 0 => f # <<>> /\ Len(f) = n
        /\ n = k + 1 => Front(f) = b /\ Last(f) = Crc(b)
        /\ n \in 1..k => Front(f) = SubSeq(b, 1, n - 1) /\ Last(f) = b[n]
    BY <1>5, <1>7, SecureCut
  <2>2. file = f
    BY <1>6
  <2> HIDE DEF f
  <2> QED BY <2>1, <2>2
<1>9. CASE n = k + 1
  BY <1>7, <1>8, <1>9 DEF SecureVerified, CrcVerifyAndRemove, b
<1>10. Len(<<SecureZero>>) = 1 /\ <<SecureZero>>[1] = SecureZero
  OBVIOUS
<1>11. CASE n = 0
  <2>1. file # <<SecureZero>>
    BY <1>8, <1>10, <1>11, EmptySeq
  <2> QED BY <1>7, <1>8, <1>11, <2>1 DEF SecureVerified
<1>12. CASE n \in 1..k
  <2>1. /\ file # <<>> /\ Len(file) = n /\ n # Len(SecureWhole(saved))
        /\ Front(file) = SubSeq(b, 1, n - 1) /\ Last(file) = b[n]
    BY <1>7, <1>8, <1>12
  <2>2. CASE n = 1
    <3>1. Front(file) = <<>> /\ Last(file) = b[1] /\ Last(file) = file[1] /\ Len(file) = 1
      <4>1. SubSeq(b, 1, n - 1) = <<>>
        BY <2>2, SubSeqEmpty
      <4> QED BY <2>1, <2>2, <4>1 DEF Last
    <3>2. Crc(Front(file)) = SecureZero
      BY <3>1 DEF Crc
    <3>3. SecureVerified(file) = IF b[1] # SecureZero THEN SecureError ELSE <<>>
      BY <2>1, <3>1, <3>2 DEF SecureVerified, CrcVerifyAndRemove
    <3>4. ~plain => b[1] # SecureZero
      <4>1. ASSUME ~plain PROVE b[1] # SecureZero
        <5>1. PICK u : b = <<u>> /\ u # SecureZero
          BY <1>4, <4>1
        <5>2. b[1] = u
          BY <5>1
        <5> QED BY <5>1, <5>2
      <4> QED BY <4>1
    <3>5. file = <<SecureZero>> <=> b[1] = SecureZero
      <4>1. file \in Seq({file[1]})
        <5>1. file \in Seq(T \cup {Crc(b)})
          <6>1. b \in Seq(T \cup {Crc(b)}) /\ n \in 0..Len(b)
            BY <1>5, <1>12
          <6> DEFINE U == T \cup {Crc(b)}
                     w == Append(b, Crc(b))
          <6> HIDE DEF U
          <6>2. w \in Seq(U) /\ Len(w) = k + 1
            <7>1. Crc(b) \in U
              BY DEF U
            <7> QED BY <6>1, <7>1, AppendProperties DEF U
          <6> HIDE DEF w
          <6>3. SubSeq(w, 1, n) \in Seq(U)
            BY <1>7, <6>2, CutIs
          <6> QED BY <1>6, <6>3 DEF U, w
        <5> QED BY <3>1, <5>1
      <4>2. file = <<file[1]>>
        <5> DEFINE x == file[1]
        <5>1. file \in Seq({x}) /\ Len(file) = 1 /\ file[1] = x
          BY <3>1, <4>1
        <5> HIDE DEF x
        <5>2. <<x>> \in Seq({x}) /\ Len(<<x>>) = 1 /\ <<x>>[1] = x
          OBVIOUS
        <5>3. \A i \in 1..1 : file[i] = <<x>>[i]
          BY <5>1, <5>2
        <5>4. file = <<x>>
          BY <5>1, <5>2, <5>3, SeqEqual
        <5> QED BY <5>4 DEF x
      <4> QED BY <1>10, <3>1, <4>2
    <3> QED BY <2>1, <3>3, <3>4, <3>5 DEF plain
  <2>3. CASE n # 1
    <3>1. plain /\ b = d
      <4>1. ~plain => k = 1
        <5>1. ASSUME ~plain PROVE k = 1
          <6>1. PICK u : b = <<u>>
            BY <1>4, <5>1
          <6> QED BY <6>1
        <5> QED BY <5>1
      <4>2. n \in 2..k
        BY <1>7, <1>12, <2>3
      <4>3. plain
        <5> SUFFICES ASSUME ~plain PROVE FALSE
          OBVIOUS
        <5>1. k = 1
          BY <4>1
        <5> QED BY <4>2, <5>1
      <4> QED BY <1>3, <4>3
    <3>2. n \in 2..Len(d) /\ Len(d) \in Nat
      BY <1>7, <1>12, <2>3, <3>1
    <3>3. SubSeq(d, 1, n - 1) # <<>>
      <4>1. n - 1 \in 0..Len(d) /\ n - 1 # 0
        BY <3>2
      <4>2. Len(SubSeq(d, 1, n - 1)) = n - 1
        BY <1>2, <4>1, CutIs
      <4> QED BY <4>1, <4>2, EmptySeq
    <3>4. Crc(Front(file)) # Last(file)
      BY <1>2, <2>1, <3>1, <3>2, <3>3 DEF Crc
    <3>5. file # <<SecureZero>>
      BY <1>10, <2>1, <2>3
    <3> QED BY <2>1, <3>4, <3>5 DEF SecureVerified, CrcVerifyAndRemove
  <2> QED BY <2>2, <2>3
<1>13. n = k + 1 \/ n = 0 \/ n \in 1..k
  BY <1>7
<1> QED BY <1>9, <1>11, <1>12, <1>13

\* What was saved is loaded, or refused.
LEMMA SecureLoads == SecureInv => SecureLoadsWhatWasSaved
<1> SUFFICES ASSUME SecureInv, secureSaved.clean PROVE SecureLoadsWhatWasSaved
  BY DEF SecureLoadsWhatWasSaved
<1> DEFINE saved == secureSaved
           d == saved.data
           data == Loaded(secureCache, saved.deflate, saved.key).data
           plain == ~saved.deflate /\ ~saved.key
<1>1. /\ saved \in SecureSaving /\ d \in SecureContents
      /\ saved.deflate \in BOOLEAN /\ saved.key \in BOOLEAN /\ saved.whole \in BOOLEAN
  BY DEF SecureInv, SecureSaving
<1>2. PICK n \in 0..Len(SecureWhole(saved)) :
          secureFile = SubSeq(SecureWhole(saved), 1, n) /\ (saved.whole <=> n = Len(SecureWhole(saved)))
  BY DEF SecureInv
<1>3. SecureVerified(secureFile) =
        IF saved.whole THEN SecureBytes(saved) ELSE IF plain /\ secureFile = <<SecureZero>> THEN <<>> ELSE SecureError
  BY <1>1, <1>2, SecureVerifies
<1> DEFINE verified == SecureVerified(secureFile)
           decoded == IF verified = SecureError THEN verified ELSE IF saved.key THEN SecureDecode(verified) ELSE verified
<1>4. data = IF saved.deflate /\ decoded # SecureError THEN ArrayInflate(decoded) ELSE decoded
  BY DEF Loaded, SecureVerified
<1>5. d # SecureError /\ SecureError # <<>>
  BY <1>1, SecureAssumption DEF SecureError
<1> HIDE DEF data, verified
<1>6. CASE ~saved.whole
  BY <1>3, <1>4, <1>6 DEF verified, data, SecureLoadsWhatWasSaved
<1>7. CASE saved.whole
  <2>1. verified = SecureBytes(saved)
    BY <1>3, <1>7 DEF verified
  <2> DEFINE e == IF saved.deflate THEN <<<<"deflated", d>>>> ELSE d
  <2>2. SecureBytes(saved) = IF saved.key THEN <<<<"aes", e>>>> ELSE e
    BY DEF SecureBytes
  <2>3. e # SecureError
    BY <1>5, SecureOne
  <2>4. decoded = e
    <3> HIDE DEF e
    <3>1. CASE saved.key
      <4>1. verified = <<<<"aes", e>>>>
        BY <2>1, <2>2, <3>1
      <4>2. verified # SecureError /\ SecureDecode(verified) = e
        BY <4>1, SecureOne DEF SecureDecode
      <4> QED BY <3>1, <4>2
    <3>2. CASE ~saved.key
      BY <2>1, <2>2, <2>3, <3>2
    <3> QED BY <3>1, <3>2
  <2>5. data = d
    <3>1. CASE saved.deflate
      <4>1. ArrayInflate(<<<<"deflated", d>>>>) = d
        BY SecureOne DEF ArrayInflate
      <4>2. e = <<<<"deflated", d>>>>
        BY <3>1
      <4> HIDE DEF e, decoded
      <4> QED BY <1>4, <2>3, <2>4, <3>1, <4>1, <4>2
    <3>2. CASE ~saved.deflate
      <4>1. e = d
        BY <3>2
      <4> HIDE DEF e, decoded
      <4> QED BY <1>4, <2>4, <3>2, <4>1
    <3> QED BY <3>1, <3>2
  <2> QED BY <1>7, <2>5 DEF data, SecureLoadsWhatWasSaved
<1> QED BY <1>1, <1>6, <1>7

\* A save leaves what it was to save, as far as the disk has room for it.
LEMMA SecureSavesIt ==
    ASSUME SecureInv, NEW data \in SecureContents, NEW deflate \in BOOLEAN, NEW key \in BOOLEAN, NEW shared \in BOOLEAN,
           FileFromMemorySecure(data, deflate, key, shared)
    PROVE  SecureInv'
<1> DEFINE cache == IF shared THEN secureCache ELSE SecureNoCache
           secured == Secured(cache, data, deflate, key)
           into == IF key THEN cache.deflated ELSE cache.encrypted
           failed == secured.encrypted = SecureError
<1>1. /\ secureCount < SecureSaves /\ secureCount' = secureCount + 1
      /\ secureCache' = IF ~shared THEN secureCache
                        ELSE IF failed THEN [secured EXCEPT !.encrypted = secureCache.encrypted] ELSE secured
      /\ IF failed THEN UNCHANGED <<secureFile, secureSaved>>
         ELSE \E n \in 0..Len(secured.encrypted) :
                 /\ secureFile' = SubSeq(secured.encrypted, 1, n)
                 /\ secureSaved' = [data |-> data, deflate |-> deflate, key |-> key, whole |-> n = Len(secured.encrypted),
                                    clean |-> ~deflate \/ into = <<>>]
  BY Zenon DEF FileFromMemorySecure
<1>2. secureCount' \in 0..SecureSaves
  BY <1>1, SecureAssumption DEF SecureInv
<1>3. DOMAIN secureCache' = {"deflated", "encrypted"}
  <2>1. DOMAIN secured = {"deflated", "encrypted"}
    BY DEF Secured
  <2> HIDE DEF secured, failed
  <2>2. DOMAIN [secured EXCEPT !.encrypted = secureCache.encrypted] = {"deflated", "encrypted"}
    BY <2>1
  <2>3. DOMAIN secureCache = {"deflated", "encrypted"}
    BY DEF SecureInv
  <2> QED BY <1>1, <2>1, <2>2, <2>3
<1>4. CASE failed
  <2>1. UNCHANGED <<secureFile, secureSaved>>
    BY <1>1, <1>4
  <2> QED BY <1>2, <1>3, <2>1 DEF SecureInv
<1>5. CASE ~failed
  <2>1. PICK n \in 0..Len(secured.encrypted) :
           /\ secureFile' = SubSeq(secured.encrypted, 1, n)
           /\ secureSaved' = [data |-> data, deflate |-> deflate, key |-> key, whole |-> n = Len(secured.encrypted),
                              clean |-> ~deflate \/ into = <<>>]
    BY <1>1, <1>5
  <2>2. secureSaved' \in SecureSaving
    BY <2>1 DEF SecureSaving
  <2>3. ASSUME ~deflate \/ into = <<>>
        PROVE  secured.encrypted = SecureWhole(secureSaved')
    <3> DEFINE compressed == IF deflate THEN <<<<"deflated", data>>>> ELSE data
               b == IF key THEN <<<<"aes", compressed>>>> ELSE compressed
    <3>1. Append(<<>>, <<"deflated", data>>) = <<<<"deflated", data>>>>
      OBVIOUS
    <3>2. SecureBytes(secureSaved') = b
      BY <2>1 DEF SecureBytes
    <3> DEFINE deflated == IF deflate /\ key THEN ArrayDeflate(data, cache.deflated) ELSE cache.deflated
               encrypted == IF deflate /\ key THEN SecureEncode(deflated)
                            ELSE IF key THEN SecureEncode(data)
                            ELSE IF deflate THEN ArrayDeflate(data, cache.encrypted)
                            ELSE data
    <3>3. secured.encrypted = IF encrypted = SecureError THEN encrypted ELSE Append(encrypted, Crc(encrypted))
      BY DEF Secured
    <3>4. encrypted # SecureError
      BY <1>5, <3>3
    <3>5. encrypted = b
      <4>1. CASE deflate /\ key
        <5>1. deflated = <<<<"deflated", data>>>>
          BY <2>3, <3>1, <4>1 DEF ArrayDeflate
        <5>2. deflated # <<>> /\ encrypted = SecureEncode(deflated)
          BY <4>1, <5>1, SecureOne
        <5> HIDE DEF deflated, encrypted
        <5> QED BY <4>1, <5>1, <5>2 DEF SecureEncode
      <4>2. CASE ~deflate /\ key
        <5>1. encrypted = SecureEncode(data)
          BY <4>2
        <5> QED BY <3>4, <4>2, <5>1 DEF SecureEncode
      <4>3. CASE deflate /\ ~key
        BY <2>3, <3>1, <4>3 DEF ArrayDeflate
      <4>4. CASE ~deflate /\ ~key
        BY <4>4
      <4> QED BY <4>1, <4>2, <4>3, <4>4
    <3> HIDE DEF encrypted, b
    <3> QED BY <3>2, <3>3, <3>4, <3>5 DEF SecureWhole
  <2>4. secureSaved'.clean =>
          \E m \in 0..Len(SecureWhole(secureSaved')) :
             /\ secureFile' = SubSeq(SecureWhole(secureSaved'), 1, m)
             /\ secureSaved'.whole <=> m = Len(SecureWhole(secureSaved'))
    <3> SUFFICES ASSUME secureSaved'.clean
                 PROVE  \E m \in 0..Len(SecureWhole(secureSaved')) :
                          /\ secureFile' = SubSeq(SecureWhole(secureSaved'), 1, m)
                          /\ secureSaved'.whole <=> m = Len(SecureWhole(secureSaved'))
      OBVIOUS
    <3>1. ~deflate \/ into = <<>>
      BY <2>1
    <3>2. secured.encrypted = SecureWhole(secureSaved')
      BY <2>3, <3>1
    <3>3. secureSaved'.whole <=> n = Len(secured.encrypted)
      BY <2>1
    <3> HIDE DEF secured
    <3> QED BY <2>1, <3>2, <3>3
  <2> QED BY <1>2, <1>3, <2>2, <2>4 DEF SecureInv
<1> QED BY <1>4, <1>5

LEMMA SecureInvariant == SecureSpec => []SecureInv
<1>1. SecureInit => SecureInv
  <2> SUFFICES ASSUME SecureInit PROVE SecureInv
    OBVIOUS
  <2>1. secureSaved = [data |-> <<>>, deflate |-> FALSE, key |-> FALSE, clean |-> TRUE, whole |-> FALSE]
    BY DEF SecureInit
  <2>2. secureSaved \in SecureSaving
    BY <2>1, SecureAssumption DEF SecureSaving
  <2>3. SecureBytes(secureSaved) = <<>>
    BY <2>1 DEF SecureBytes
  <2>4. SecureWhole(secureSaved) = <<SecureZero>>
    <3>1. Append(<<>>, SecureZero) = <<SecureZero>>
      OBVIOUS
    <3> QED BY <2>3, <3>1 DEF SecureWhole, Crc
  <2>5. Len(<<SecureZero>>) = 1 /\ SubSeq(<<SecureZero>>, 1, 0) = <<>>
    <3>1. SubSeq(<<SecureZero>>, 1, 0) = <<>>
      BY SubSeqEmpty
    <3> QED BY <3>1
  <2>6. secureFile = SubSeq(SecureWhole(secureSaved), 1, 0) /\ 0 \in 0..Len(SecureWhole(secureSaved))
        /\ (secureSaved.whole <=> 0 = Len(SecureWhole(secureSaved)))
    BY <2>1, <2>4, <2>5 DEF SecureInit
  <2>7. secureCount \in 0..SecureSaves /\ DOMAIN secureCache = {"deflated", "encrypted"}
    BY SecureAssumption DEF SecureInit, SecureNoCache
  <2> QED BY <2>2, <2>6, <2>7 DEF SecureInv
<1>2. SecureInv /\ FileToMemorySecure => SecureInv'
  <2> SUFFICES ASSUME SecureInv, FileToMemorySecure PROVE SecureInv'
    OBVIOUS
  <2>1. DOMAIN secureCache' = {"deflated", "encrypted"} /\ UNCHANGED <<secureFile, secureSaved, secureCount>>
    BY DEF FileToMemorySecure, Loaded
  <2> QED BY <2>1 DEF SecureInv
<1>3. SecureInv /\ UNCHANGED secureVars => SecureInv'
  BY DEF SecureInv, secureVars
<1>4. SecureInv /\ [SecureNext]_secureVars => SecureInv'
  BY <1>2, <1>3, SecureSavesIt DEF SecureNext
<1> QED BY <1>1, <1>4, PTL DEF SecureSpec

\* Files with a checksum keep their types.
THEOREM SecureTypeCorrect == SecureSpec => []SecureTypeOK
<1>1. SecureInv => SecureTypeOK
  BY DEF SecureInv, SecureTypeOK, SecureSaving
<1> QED BY <1>1, SecureInvariant, PTL

\* What is loaded is what was saved, and what was cut is refused, whatever is saved, deflated and
\* encrypted, in whatever cache.
THEOREM SecureLoadsCorrect == SecureSpec => []SecureLoadsWhatWasSaved
  BY SecureLoads, SecureInvariant, PTL

----------------------------------------------------------------------------
\* Interning

\* What is in the blocks.
InternChars == {Nul} \cup UNION {ToSet(u) : u \in InternTexts}
InternBlocks == [1..InternBlock -> InternChars]
InternStores ==
    [blocks : Seq(InternBlocks), remaining : Seq(0..InternBlock),
     texts : Seq([block : Nat, offset : Nat]), counts : Seq(0..InternBlock)]

\* Every entry lies in a block.
InternGood(store) ==
    /\ store \in InternStores
    /\ Len(store.texts) = Len(store.counts) /\ Len(store.remaining) >= Len(store.blocks)
    /\ \A i \in DOMAIN store.texts :
           /\ store.texts[i].block \in DOMAIN store.blocks
           /\ store.texts[i].offset + store.counts[i] <= InternBlock

\* The entries of a block lie in what is taken of it.
InternFits(store, b) ==
    \A i \in DOMAIN store.texts :
        store.texts[i].block = b => store.texts[i].offset + store.counts[i] <= InternBlock - store.remaining[b]

\* What a push does: the text is put into what remained of one of the blocks, or into a new one.
InternGrown(store, next, text, t, b, o) ==
    /\ text \in Seq(InternChars) /\ t \in {0, 1} /\ b \in Nat /\ o \in Nat
    /\ InternGood(next) /\ b \in DOMAIN next.blocks
    /\ next.texts = Append(store.texts, InternAddress(b, o)) /\ next.counts = Append(store.counts, Len(text))
    /\ SubSeq(next.blocks[b], o + 1, o + Len(text)) = text
    /\ \A c \in DOMAIN store.blocks :
           /\ c \in DOMAIN next.blocks
           /\ c # b => next.blocks[c] = store.blocks[c] /\ next.remaining[c] = store.remaining[c]
    /\ b \in DOMAIN store.blocks =>
           /\ o = InternBlock - store.remaining[b] /\ next.remaining[b] = store.remaining[b] - (Len(text) + t)
           /\ \A x \in 1..o : next.blocks[b][x] = store.blocks[b][x]
           /\ Len(next.blocks) = Len(store.blocks) /\ Len(next.remaining) = Len(store.remaining)
    /\ b \notin DOMAIN store.blocks =>
           /\ b = Len(store.blocks) + 1 /\ o = 0 /\ Len(next.blocks) = b /\ Len(next.remaining) >= b
           /\ Len(store.remaining) = Len(store.blocks) =>
                  next.remaining[b] = InternBlock - (Len(text) + t) /\ (t = 0 => Len(next.remaining) = b)

\* The least of some numbers is one of them.
LEMMA LeastIs ==
    ASSUME NEW S, S \subseteq Nat, S # {}
    PROVE  Min(S) \in S /\ \A y \in S : Min(S) <= y
<1> DEFINE R == {ss \in Nat \X Nat : ss[1] < ss[2]}
<1>1. IsWellFoundedOn(R, Nat)
  BY NatOrder
<1>2. PICK x \in S : \A y \in S : ~(<<y, x>> \in R)
  <2> HIDE DEF R
  <2> QED BY <1>1, WFMin
<1>3. \A y \in S : x <= y
  <2> SUFFICES ASSUME NEW y \in S PROVE x <= y
    OBVIOUS
  <2>1. ~(<<y, x>> \in R) /\ x \in Nat /\ y \in Nat
    BY <1>2
  <2>2. ~(y < x)
    BY <2>1
  <2> QED BY <2>1, <2>2
<1> QED BY <1>2, <1>3 DEF Min

\* A part of a block.
LEMMA InternPartIs ==
    ASSUME NEW block \in InternBlocks, NEW o \in Nat, NEW k \in Nat, o + k <= InternBlock
    PROVE  /\ SubSeq(block, o + 1, o + k) \in Seq(InternChars) /\ Len(SubSeq(block, o + 1, o + k)) = k
           /\ \A x \in 1..k : SubSeq(block, o + 1, o + k)[x] = block[o + x]
<1> DEFINE m == o + 1
           n == o + k
<1>1. m \in Int /\ n \in Int /\ n - m + 1 = k /\ (IF m <= n THEN n - m + 1 ELSE 0) = k
  OBVIOUS
<1>2. \A i \in m..n : block[i] \in InternChars
  BY InternAssumption DEF InternBlocks
<1>3. \A x \in 1..k : m + x - 1 = o + x
  OBVIOUS
<1> HIDE DEF m, n
<1>4. /\ SubSeq(block, m, n) \in Seq(InternChars)
      /\ Len(SubSeq(block, m, n)) = IF m <= n THEN n - m + 1 ELSE 0
      /\ \A x \in 1..n - m + 1 : SubSeq(block, m, n)[x] = block[m + x - 1]
  BY <1>1, <1>2, SubSeqProperties
<1>5. /\ SubSeq(block, m, n) \in Seq(InternChars) /\ Len(SubSeq(block, m, n)) = k
      /\ \A x \in 1..k : SubSeq(block, m, n)[x] = block[o + x]
  BY <1>1, <1>3, <1>4
<1> QED BY <1>5 DEF m, n

\* A part of a block that is a text.
LEMMA InternPartHolds ==
    ASSUME NEW block \in InternBlocks, NEW o \in Nat, NEW text \in Seq(InternChars), o + Len(text) <= InternBlock,
           \A x \in 1..Len(text) : block[o + x] = text[x]
    PROVE  SubSeq(block, o + 1, o + Len(text)) = text
<1> DEFINE k == Len(text)
           s == SubSeq(block, o + 1, o + k)
<1>1. k \in Nat
  OBVIOUS
<1>2. s \in Seq(InternChars) /\ Len(s) = k /\ \A x \in 1..k : s[x] = block[o + x]
  BY <1>1, InternPartIs
<1> HIDE DEF s
<1>3. Len(s) = Len(text) /\ \A x \in 1..Len(s) : s[x] = text[x]
  BY <1>2
<1>4. s = text
  BY <1>2, <1>3, SeqEqual
<1> QED BY <1>4 DEF s

\* A text written into a block, with or without what follows it.
LEMMA InternWrites ==
    ASSUME NEW block \in InternBlocks, NEW o \in Nat, NEW text \in Seq(InternChars), NEW more \in Seq(InternChars),
           o + Len(text) <= InternBlock
    PROVE  LET w == InternWritten(block, o, text \o more)
           IN  /\ w \in InternBlocks /\ \A x \in 1..o : w[x] = block[x]
               /\ SubSeq(w, o + 1, o + Len(text)) = text
<1> DEFINE s == text \o more
           w == InternWritten(block, o, s)
           k == Len(text)
<1>1. k \in Nat /\ Len(more) \in Nat /\ InternBlock \in Nat
  BY InternAssumption
<1>2. s \in Seq(InternChars) /\ Len(s) = k + Len(more) /\ \A x \in 1..k : s[x] = text[x]
  <2>1. s \in Seq(InternChars) /\ Len(s) = Len(text) + Len(more)
        /\ \A i \in 1..Len(text) + Len(more) : s[i] = IF i <= Len(text) THEN text[i] ELSE more[i - Len(text)]
    BY ConcatProperties
  <2>2. \A x \in 1..k : x \in 1..k + Len(more) /\ x <= k
    BY <1>1
  <2> QED BY <2>1, <2>2
<1>3. DOMAIN s = 1..k + Len(more) /\ \A x \in DOMAIN s : s[x] \in InternChars
  BY <1>2
<1>4. DOMAIN block = 1..InternBlock /\ \A x \in 1..InternBlock : block[x] \in InternChars
  BY DEF InternBlocks
<1> HIDE DEF s
<1>5. /\ DOMAIN w = 1..InternBlock
      /\ \A x \in 1..InternBlock : w[x] = IF x - o \in DOMAIN s THEN s[x - o] ELSE block[x]
  BY <1>4 DEF InternWritten
<1>6. w \in InternBlocks
  <2>1. w = [i \in 1..InternBlock |-> IF i - o \in DOMAIN s THEN s[i - o] ELSE block[i]]
    BY <1>4 DEF InternWritten
  <2>2. \A i \in 1..InternBlock : (IF i - o \in DOMAIN s THEN s[i - o] ELSE block[i]) \in InternChars
    BY <1>3, <1>4
  <2> HIDE DEF w
  <2> QED BY <2>1, <2>2 DEF InternBlocks
<1> HIDE DEF w
<1>7. \A x \in 1..o : w[x] = block[x]
  <2> TAKE x \in 1..o
  <2>1. x \in 1..InternBlock /\ x - o \notin DOMAIN s
    BY <1>1, <1>3
  <2> QED BY <1>5, <2>1
<1>8. \A x \in 1..k : w[o + x] = text[x]
  <2> TAKE x \in 1..k
  <2>1. o + x \in 1..InternBlock /\ (o + x) - o = x /\ x \in DOMAIN s
    BY <1>1, <1>3
  <2> QED BY <1>2, <1>5, <2>1
<1>9. SubSeq(w, o + 1, o + k) = text
  BY <1>6, <1>8, InternPartHolds
<1> QED BY <1>6, <1>7, <1>9 DEF w, s

\* An element of a sequence.
LEMMA SeqElement ==
    ASSUME NEW S, NEW s \in Seq(S), NEW i \in DOMAIN s
    PROVE  s[i] \in S
  OBVIOUS

\* The parts of a store.
LEMMA InternStoreHas ==
    ASSUME NEW store, InternGood(store)
    PROVE  /\ store = [blocks |-> store.blocks, remaining |-> store.remaining, texts |-> store.texts, counts |-> store.counts]
           /\ store.blocks \in Seq(InternBlocks) /\ store.remaining \in Seq(0..InternBlock)
           /\ store.texts \in Seq([block : Nat, offset : Nat]) /\ store.counts \in Seq(0..InternBlock)
           /\ Len(store.texts) = Len(store.counts) /\ Len(store.remaining) >= Len(store.blocks)
           /\ Len(store.blocks) \in Nat /\ Len(store.remaining) \in Nat /\ Len(store.texts) \in Nat
           /\ DOMAIN store.blocks = 1..Len(store.blocks) /\ DOMAIN store.texts = 1..Len(store.texts)
           /\ \A b \in DOMAIN store.blocks : store.blocks[b] \in InternBlocks /\ store.remaining[b] \in 0..InternBlock
           /\ \A i \in DOMAIN store.texts :
                  /\ store.texts[i] \in [block : Nat, offset : Nat] /\ store.counts[i] \in 0..InternBlock
                  /\ store.texts[i].block \in DOMAIN store.blocks
                  /\ store.texts[i].offset + store.counts[i] <= InternBlock
<1>1. /\ store.blocks \in Seq(InternBlocks) /\ store.remaining \in Seq(0..InternBlock)
      /\ store.texts \in Seq([block : Nat, offset : Nat]) /\ store.counts \in Seq(0..InternBlock)
      /\ store = [blocks |-> store.blocks, remaining |-> store.remaining, texts |-> store.texts, counts |-> store.counts]
  BY DEF InternGood, InternStores
<1>2. /\ Len(store.texts) = Len(store.counts) /\ Len(store.remaining) >= Len(store.blocks)
      /\ \A i \in DOMAIN store.texts :
            /\ store.texts[i].block \in DOMAIN store.blocks
            /\ store.texts[i].offset + store.counts[i] <= InternBlock
  BY DEF InternGood
<1>3. /\ Len(store.blocks) \in Nat /\ Len(store.remaining) \in Nat /\ Len(store.texts) \in Nat
      /\ DOMAIN store.blocks = 1..Len(store.blocks) /\ DOMAIN store.texts = 1..Len(store.texts)
      /\ DOMAIN store.remaining = 1..Len(store.remaining) /\ DOMAIN store.counts = 1..Len(store.counts)
  BY <1>1
<1>4. \A b \in DOMAIN store.blocks : b \in DOMAIN store.remaining
  BY <1>2, <1>3
<1>5. \A i \in DOMAIN store.texts : i \in DOMAIN store.counts
  BY <1>2, <1>3
<1>6. \A b \in DOMAIN store.blocks : store.blocks[b] \in InternBlocks /\ store.remaining[b] \in 0..InternBlock
  BY <1>1, <1>4, SeqElement
<1>7. \A i \in DOMAIN store.texts : store.texts[i] \in [block : Nat, offset : Nat] /\ store.counts[i] \in 0..InternBlock
  BY <1>1, <1>5, SeqElement
<1> QED BY <1>1, <1>2, <1>3, <1>6, <1>7

\* A store that has one entry more, in block b that has room for it.
LEMMA InternGoodMore ==
    ASSUME NEW store, InternGood(store), NEW blocks \in Seq(InternBlocks), NEW remaining \in Seq(0..InternBlock),
           NEW b \in DOMAIN blocks, NEW o \in Nat, NEW count \in Nat, o + count <= InternBlock,
           Len(remaining) >= Len(blocks), Len(blocks) >= Len(store.blocks)
    PROVE  InternGood([blocks |-> blocks, remaining |-> remaining, texts |-> Append(store.texts, InternAddress(b, o)),
                       counts |-> Append(store.counts, count)])
<1> DEFINE texts == Append(store.texts, InternAddress(b, o))
           counts == Append(store.counts, count)
           next == [blocks |-> blocks, remaining |-> remaining, texts |-> texts, counts |-> counts]
           n == Len(store.texts)
<1>1. /\ store.texts \in Seq([block : Nat, offset : Nat]) /\ store.counts \in Seq(0..InternBlock)
      /\ Len(store.texts) = Len(store.counts) /\ n \in Nat /\ DOMAIN store.texts = 1..n
      /\ DOMAIN store.blocks = 1..Len(store.blocks) /\ Len(store.blocks) \in Nat
      /\ \A i \in DOMAIN store.texts :
            /\ store.texts[i].block \in DOMAIN store.blocks
            /\ store.texts[i].offset + store.counts[i] <= InternBlock
  BY InternStoreHas
<1>2. InternAddress(b, o) \in [block : Nat, offset : Nat] /\ InternAddress(b, o).block = b /\ InternAddress(b, o).offset = o
  BY DEF InternAddress
<1>3. count \in 0..InternBlock
  BY InternAssumption
<1>4. texts \in Seq([block : Nat, offset : Nat]) /\ Len(texts) = n + 1 /\ (\A i \in 1..n : texts[i] = store.texts[i])
      /\ texts[n + 1] = InternAddress(b, o)
  <2> DEFINE E == [block : Nat, offset : Nat]
             a == InternAddress(b, o)
  <2>1. store.texts \in Seq(E) /\ a \in E
    BY <1>1, <1>2
  <2> HIDE DEF E, a
  <2>2. Append(store.texts, a) \in Seq(E) /\ Len(Append(store.texts, a)) = n + 1
        /\ (\A i \in 1..n : Append(store.texts, a)[i] = store.texts[i]) /\ Append(store.texts, a)[n + 1] = a
    BY <2>1, AppendProperties
  <2> QED BY <2>2 DEF E, a
<1>5. counts \in Seq(0..InternBlock) /\ Len(counts) = n + 1 /\ (\A i \in 1..n : counts[i] = store.counts[i])
      /\ counts[n + 1] = count
  BY <1>1, <1>3, AppendProperties
<1> HIDE DEF texts, counts
<1>6. next \in InternStores
  BY <1>4, <1>5 DEF InternStores
<1>7. next.blocks = blocks /\ next.remaining = remaining /\ next.texts = texts /\ next.counts = counts
  OBVIOUS
<1> HIDE DEF next, n
<1>8. \A i \in DOMAIN texts : texts[i].block \in DOMAIN blocks /\ texts[i].offset + counts[i] <= InternBlock
  <2> SUFFICES ASSUME NEW i \in DOMAIN texts
               PROVE  texts[i].block \in DOMAIN blocks /\ texts[i].offset + counts[i] <= InternBlock
    OBVIOUS
  <2>1. i \in 1..n \/ i = n + 1
    BY <1>1, <1>4
  <2>2. CASE i = n + 1
    BY <1>2, <1>4, <1>5, <2>2
  <2>3. CASE i \in 1..n
    <3>1. store.texts[i].block \in DOMAIN store.blocks /\ store.texts[i].offset + store.counts[i] <= InternBlock
      BY <1>1, <2>3
    <3>2. \A c \in DOMAIN store.blocks : c \in DOMAIN blocks
      BY <1>1
    <3> QED BY <1>4, <1>5, <2>3, <3>1, <3>2
  <2> QED BY <2>1, <2>2, <2>3
<1>9. InternGood(next)
  BY <1>4, <1>5, <1>6, <1>7, <1>8 DEF InternGood
<1> QED BY <1>9 DEF next, texts, counts

\* What taking from what remains makes of the parts of a store.
LEMMA InternTakes ==
    ASSUME NEW blocks, NEW remaining, NEW texts, NEW counts, NEW b, NEW size
    PROVE  [[blocks |-> blocks, remaining |-> remaining, texts |-> texts, counts |-> counts] EXCEPT !.remaining[b] = @ - size]
           = [blocks |-> blocks, remaining |-> [remaining EXCEPT ![b] = remaining[b] - size], texts |-> texts, counts |-> counts]
  OBVIOUS

\* A push into a block that has room.
LEMMA InternPushesInto ==
    ASSUME NEW store, InternGood(store), NEW text \in Seq(InternChars), NEW t \in {0, 1}, Len(text) + t <= InternBlock,
           InternRoom(store, Len(text) + t) # {}
    PROVE  \E b, o : InternGrown(store, InternPush(store, text, t, t), text, t, b, o)
<1> DEFINE size == Len(text) + t
           room == InternRoom(store, size)
           b == Min(room)
           o == InternBlock - store.remaining[b]
           more == IF t = 1 THEN <<InternLeft(store, b, Len(text) + 1), Nul>> ELSE <<>>
           written == IF t = 1 THEN text \o <<InternLeft(store, b, Len(text) + 1), Nul>> ELSE text
           next == InternPush(store, text, t, t)
           k == Len(text)
<1>1. /\ store = [blocks |-> store.blocks, remaining |-> store.remaining, texts |-> store.texts, counts |-> store.counts]
      /\ store.blocks \in Seq(InternBlocks) /\ store.remaining \in Seq(0..InternBlock)
      /\ Len(store.blocks) \in Nat /\ DOMAIN store.blocks = 1..Len(store.blocks)
      /\ Len(store.remaining) \in Nat /\ Len(store.remaining) >= Len(store.blocks)
      /\ \A c \in DOMAIN store.blocks : store.blocks[c] \in InternBlocks /\ store.remaining[c] \in 0..InternBlock
  BY InternStoreHas
<1>2. room \subseteq Nat /\ room # {}
  BY <1>1 DEF InternRoom
<1> HIDE DEF room
<1>3. b \in room
  BY <1>2, LeastIs
<1> HIDE DEF b
<1>4. b \in DOMAIN store.blocks /\ store.remaining[b] >= size /\ b \in Nat
  BY <1>1, <1>3 DEF room, InternRoom
<1>5. k \in Nat /\ InternBlock \in Nat /\ store.remaining[b] \in 0..InternBlock /\ store.blocks[b] \in InternBlocks
  BY <1>1, <1>4, InternAssumption
<1>6. o \in Nat /\ o + size <= InternBlock /\ o + k <= InternBlock /\ store.remaining[b] - size \in 0..InternBlock
  <2> DEFINE r == store.remaining[b]
  <2>1. r \in 0..InternBlock /\ r >= k + t /\ k \in Nat /\ InternBlock \in Nat
    BY <1>4, <1>5
  <2> HIDE DEF r, k
  <2>2. InternBlock - r \in Nat /\ (InternBlock - r) + (k + t) <= InternBlock /\ (InternBlock - r) + k <= InternBlock
        /\ r - (k + t) \in 0..InternBlock
    BY <2>1
  <2> QED BY <2>2 DEF r, k
<1> HIDE DEF o
<1>7. more \in Seq(InternChars) /\ written = text \o more
  <2>1. InternLeft(store, b, k + 1) \in InternChars
    <3> DEFINE at == InternBlock - store.remaining[b] + (k + 1)
    <3>1. at \in Nat \ {0}
      BY <1>5
    <3>2. at <= InternBlock => at \in 1..InternBlock
      BY <3>1, <1>5
    <3>3. InternLeft(store, b, k + 1) = IF at > InternBlock THEN Nul ELSE store.blocks[b][at]
      BY DEF InternLeft
    <3> HIDE DEF at
    <3>4. at > InternBlock \/ at <= InternBlock
      BY <3>1, <1>5
    <3> QED BY <1>5, <3>2, <3>3, <3>4 DEF InternBlocks, InternChars
  <2>2. Nul \in InternChars
    BY DEF InternChars
  <2>3. text \o <<>> = text
    BY ConcatEmptySeq
  <2> DEFINE l == InternLeft(store, b, k + 1)
  <2> HIDE DEF l
  <2>4. <<l, Nul>> \in Seq(InternChars)
    BY <2>1, <2>2 DEF l
  <2> QED BY <2>3, <2>4 DEF l
<1> DEFINE w == InternWritten(store.blocks[b], o, written)
           blocks == [store.blocks EXCEPT ![b] = w]
           remaining == [store.remaining EXCEPT ![b] = store.remaining[b] - size]
           texts == Append(store.texts, InternAddress(b, o))
           counts == Append(store.counts, k)
<1>8. next = [blocks |-> blocks, remaining |-> remaining, texts |-> texts, counts |-> counts]
  <2> DEFINE mid == [store EXCEPT !.remaining[b] = @ - size]
  <2>1. next = InternAppended(mid, b, InternBlock - store.remaining[b], text, written)
    BY <1>2 DEF InternPush, room, b
  <2>2. mid = [blocks |-> store.blocks, remaining |-> remaining, texts |-> store.texts, counts |-> store.counts]
    <3> DEFINE B == store.blocks
               R == store.remaining
               T == store.texts
               C == store.counts
    <3>1. store = [blocks |-> B, remaining |-> R, texts |-> T, counts |-> C] /\ remaining = [R EXCEPT ![b] = R[b] - size]
      BY <1>1
    <3> HIDE DEF B, R, T, C, remaining
    <3>2. [[blocks |-> B, remaining |-> R, texts |-> T, counts |-> C] EXCEPT !.remaining[b] = @ - size]
          = [blocks |-> B, remaining |-> remaining, texts |-> T, counts |-> C]
      BY <3>1, InternTakes
    <3>3. mid = [[blocks |-> B, remaining |-> R, texts |-> T, counts |-> C] EXCEPT !.remaining[b] = @ - size]
      BY <3>1
    <3> QED BY <3>2, <3>3 DEF B, T, C
  <2>3. InternBlock - store.remaining[b] = o
    BY DEF o
  <2> HIDE DEF mid, written, remaining
  <2>4. InternAppended([blocks |-> store.blocks, remaining |-> remaining, texts |-> store.texts, counts |-> store.counts],
                       b, o, text, written)
        = [blocks |-> blocks, remaining |-> remaining, texts |-> texts, counts |-> counts]
    <3> DEFINE B == store.blocks
               T == store.texts
               C == store.counts
               a == InternAddress(b, o)
    <3>1. blocks = [B EXCEPT ![b] = w] /\ texts = Append(T, a) /\ counts = Append(C, Len(text))
          /\ w = InternWritten(B[b], o, written)
      OBVIOUS
    <3> HIDE DEF B, T, C, w, a
    <3> DEFINE T2 == Append(T, a)
               C2 == Append(C, Len(text))
    <3>2. InternAppended([blocks |-> B, remaining |-> remaining, texts |-> T, counts |-> C], b, o, text, written)
          = [[blocks |-> B, remaining |-> remaining, texts |-> T, counts |-> C]
               EXCEPT !.blocks[b] = w, !.texts = Append(T, a), !.counts = Append(C, Len(text))]
      BY <3>1 DEF InternAppended, a
    <3>3. [[blocks |-> B, remaining |-> remaining, texts |-> T, counts |-> C]
             EXCEPT !.blocks[b] = w, !.texts = Append(T, a), !.counts = Append(C, Len(text))]
          = [blocks |-> [B EXCEPT ![b] = w], remaining |-> remaining, texts |-> Append(T, a), counts |-> Append(C, Len(text))]
      <4> DEFINE e == [B EXCEPT ![b] = w]
                 grown == [[blocks |-> B, remaining |-> remaining, texts |-> T, counts |-> C]
                             EXCEPT !.blocks = e, !.texts = T2, !.counts = C2]
      <4> HIDE DEF T2, C2
      <4>1. [[blocks |-> B, remaining |-> remaining, texts |-> T, counts |-> C]
               EXCEPT !.blocks[b] = w, !.texts = T2, !.counts = C2] = grown
        OBVIOUS
      <4> HIDE DEF e
      <4>2. grown \in [blocks : {e}, remaining : {remaining}, texts : {T2}, counts : {C2}]
        OBVIOUS
      <4> HIDE DEF grown
      <4>3. grown = [blocks |-> e, remaining |-> remaining, texts |-> T2, counts |-> C2]
        BY <4>2
      <4> QED BY <4>1, <4>3 DEF T2, C2, e
    <3> QED BY <3>1, <3>2, <3>3 DEF B, T, C
  <2> QED BY <2>1, <2>2, <2>3, <2>4
<1>9. w \in InternBlocks /\ (\A x \in 1..o : w[x] = store.blocks[b][x]) /\ SubSeq(w, o + 1, o + k) = text
  <2> HIDE DEF more, written, w
  <2> DEFINE block == store.blocks[b]
             v == InternWritten(block, o, text \o more)
  <2>1. block \in InternBlocks
    BY <1>5
  <2> HIDE DEF block
  <2>2. v \in InternBlocks /\ (\A x \in 1..o : v[x] = block[x]) /\ SubSeq(v, o + 1, o + Len(text)) = text
    BY <1>6, <1>7, <2>1, InternWrites
  <2>3. v = w
    BY <1>7 DEF w, block
  <2> HIDE DEF v
  <2> QED BY <2>2, <2>3 DEF block
<1> HIDE DEF w, next, written, more
<1>10. /\ blocks \in Seq(InternBlocks) /\ Len(blocks) = Len(store.blocks) /\ DOMAIN blocks = DOMAIN store.blocks
       /\ blocks[b] = w /\ \A c \in DOMAIN store.blocks : c # b => blocks[c] = store.blocks[c]
  BY <1>1, <1>4, <1>9
<1>11. /\ remaining \in Seq(0..InternBlock) /\ Len(remaining) = Len(store.remaining)
       /\ remaining[b] = store.remaining[b] - size /\ \A c \in DOMAIN store.blocks : c # b => remaining[c] = store.remaining[c]
  <2>1. b \in 1..Len(store.remaining) /\ \A c \in DOMAIN store.blocks : c \in 1..Len(store.remaining)
    BY <1>1, <1>4
  <2> DEFINE e == store.remaining[b] - size
  <2>2. e \in 0..InternBlock
    BY <1>6
  <2> HIDE DEF e
  <2>3. /\ [store.remaining EXCEPT ![b] = e] \in Seq(0..InternBlock)
        /\ Len([store.remaining EXCEPT ![b] = e]) = Len(store.remaining)
        /\ \A j \in 1..Len(store.remaining) : [store.remaining EXCEPT ![b] = e][j] = IF j = b THEN e ELSE store.remaining[j]
    BY <1>1, <2>1, <2>2, ExceptSeq
  <2> QED BY <2>1, <2>3 DEF e
<1> HIDE DEF blocks, remaining
<1>12. InternGood(next)
  <2>1. Len(remaining) >= Len(blocks) /\ Len(blocks) >= Len(store.blocks) /\ b \in DOMAIN blocks
    BY <1>1, <1>4, <1>10, <1>11
  <2>2. InternGood([blocks |-> blocks, remaining |-> remaining, texts |-> texts, counts |-> counts])
    BY <1>5, <1>6, <1>10, <1>11, <2>1, InternGoodMore
  <2> QED BY <1>8, <2>2
<1>13. next.blocks = blocks /\ next.remaining = remaining /\ next.texts = texts /\ next.counts = counts
  BY <1>8
<1> HIDE DEF texts, counts
<1>14. InternGrown(store, next, text, t, b, o)
  <2>1. next.texts = Append(store.texts, InternAddress(b, o)) /\ next.counts = Append(store.counts, Len(text))
    BY <1>13 DEF texts, counts
  <2>2. o = InternBlock - store.remaining[b]
    BY DEF o
  <2>3. SubSeq(next.blocks[b], o + 1, o + Len(text)) = text /\ b \in DOMAIN next.blocks
    BY <1>4, <1>9, <1>10, <1>13
  <2>4. \A c \in DOMAIN store.blocks :
           /\ c \in DOMAIN next.blocks
           /\ c # b => next.blocks[c] = store.blocks[c] /\ next.remaining[c] = store.remaining[c]
    BY <1>10, <1>11, <1>13
  <2>5. /\ next.remaining[b] = store.remaining[b] - (Len(text) + t)
        /\ \A x \in 1..o : next.blocks[b][x] = store.blocks[b][x]
        /\ Len(next.blocks) = Len(store.blocks) /\ Len(next.remaining) = Len(store.remaining)
    BY <1>9, <1>10, <1>11, <1>13
  <2> QED BY <1>4, <1>6, <1>12, <2>1, <2>2, <2>3, <2>4, <2>5 DEF InternGrown
<1> QED BY <1>4, <1>6, <1>14 DEF next

\* A push into a new block.
LEMMA InternPushesNew ==
    ASSUME NEW store, InternGood(store), NEW text \in Seq(InternChars), NEW t \in {0, 1}, Len(text) + t <= InternBlock,
           InternRoom(store, Len(text) + t) = {}
    PROVE  \E b, o : InternGrown(store, InternPush(store, text, t, t), text, t, b, o)
<1> DEFINE size == Len(text) + t
           new == Len(store.blocks) + 1
           value == InternBlock - size
           w == InternWritten(InternEmptyBlock, 0, text)
           longer == Append(store.blocks, InternEmptyBlock)
           blocks == [longer EXCEPT ![new] = w]
           remaining == InternResized(store.remaining, new + t, value)
           texts == Append(store.texts, InternAddress(new, 0))
           counts == Append(store.counts, Len(text))
           next == InternPush(store, text, t, t)
           k == Len(text)
<1>1. /\ store = [blocks |-> store.blocks, remaining |-> store.remaining, texts |-> store.texts, counts |-> store.counts]
      /\ store.blocks \in Seq(InternBlocks) /\ store.remaining \in Seq(0..InternBlock)
      /\ Len(store.blocks) \in Nat /\ DOMAIN store.blocks = 1..Len(store.blocks)
      /\ Len(store.remaining) \in Nat /\ Len(store.remaining) >= Len(store.blocks)
      /\ DOMAIN store.remaining = 1..Len(store.remaining)
      /\ \A c \in DOMAIN store.remaining : store.remaining[c] \in 0..InternBlock
  <2>1. store.remaining \in Seq(0..InternBlock)
    BY InternStoreHas
  <2>2. DOMAIN store.remaining = 1..Len(store.remaining)
    BY <2>1
  <2> QED BY <2>1, <2>2, InternStoreHas, SeqElement
<1>2. k \in Nat /\ InternBlock \in Nat /\ value \in 0..InternBlock /\ new \in Nat /\ new \in 1..new /\ new + t \in Nat
  BY <1>1, InternAssumption
<1>3. next = [blocks |-> blocks, remaining |-> remaining, texts |-> texts, counts |-> counts]
  <2> DEFINE B == store.blocks
             R == store.remaining
             T == store.texts
             C == store.counts
             L == Append(B, InternEmptyBlock)
             mid == [store EXCEPT !.blocks = Append(@, InternEmptyBlock), !.remaining = InternResized(@, new + t, value)]
             T2 == Append(T, InternAddress(new, 0))
             C2 == Append(C, Len(text))
             e == [L EXCEPT ![new] = w]
             V == InternResized(R, new + t, value)
  <2>1. next = InternAppended(mid, new, 0, text, text)
    BY DEF InternPush
  <2>2. store = [blocks |-> B, remaining |-> R, texts |-> T, counts |-> C]
    BY <1>1
  <2>3. blocks = e /\ remaining = V /\ texts = T2 /\ counts = C2
    OBVIOUS
  <2>4. mid = [store EXCEPT !.blocks = L, !.remaining = V]
    OBVIOUS
  <2> HIDE DEF B, R, T, C, L, V, mid
  <2>5. mid \in [blocks : {L}, remaining : {V}, texts : {T}, counts : {C}]
    BY <2>2, <2>4
  <2>6. mid = [blocks |-> L, remaining |-> V, texts |-> T, counts |-> C] /\ mid.blocks = L /\ mid.texts = T /\ mid.counts = C
    BY <2>5
  <2> DEFINE block == L[new]
  <2>7. block = InternEmptyBlock
    <3>1. Append(store.blocks, InternEmptyBlock)[Len(store.blocks) + 1] = InternEmptyBlock
      BY <1>1 DEF InternBlocks
    <3> QED BY <3>1 DEF L, B
  <2>8. InternAppended(mid, new, 0, text, text)
        = [mid EXCEPT !.blocks[new] = InternWritten(block, 0, text), !.texts = T2, !.counts = C2]
    BY <2>6 DEF InternAppended
  <2>9. InternWritten(block, 0, text) = w
    BY <2>7
  <2> HIDE DEF w, block, new
  <2>10. [mid EXCEPT !.blocks[new] = w, !.texts = T2, !.counts = C2] = [mid EXCEPT !.blocks = e, !.texts = T2, !.counts = C2]
    BY <2>6
  <2> HIDE DEF e, T2, C2
  <2>11. [mid EXCEPT !.blocks = e, !.texts = T2, !.counts = C2] \in [blocks : {e}, remaining : {V}, texts : {T2}, counts : {C2}]
    BY <2>6
  <2> DEFINE last == [mid EXCEPT !.blocks = e, !.texts = T2, !.counts = C2]
  <2> HIDE DEF last
  <2>12. last = [blocks |-> e, remaining |-> V, texts |-> T2, counts |-> C2]
    <3>1. last \in [blocks : {e}, remaining : {V}, texts : {T2}, counts : {C2}]
      BY <2>11 DEF last
    <3> QED BY <3>1
  <2> HIDE DEF next, blocks, remaining, texts, counts
  <2>13. next = last
    BY <2>1, <2>8, <2>9, <2>10 DEF last
  <2> QED BY <2>3, <2>12, <2>13
<1>4. InternEmptyBlock \in InternBlocks
  BY DEF InternEmptyBlock, InternBlocks, InternChars
<1>5. w \in InternBlocks /\ SubSeq(w, 0 + 1, 0 + k) = text
  <2>1. text \o <<>> = text /\ <<>> \in Seq(InternChars) /\ 0 \in Nat /\ 0 + Len(text) <= InternBlock
    BY <1>2, ConcatEmptySeq
  <2> DEFINE block == InternEmptyBlock
             zero == 0
  <2> HIDE DEF block, zero
  <2>2. zero \in Nat /\ zero + Len(text) <= InternBlock /\ block \in InternBlocks
    BY <1>4, <2>1 DEF zero, block
  <2> DEFINE none == <<>>
             v == InternWritten(block, zero, text \o none)
  <2>3. v \in InternBlocks /\ SubSeq(v, zero + 1, zero + Len(text)) = text
    <3>1. none \in Seq(InternChars)
      BY <2>1
    <3> HIDE DEF none
    <3> QED BY <2>2, <3>1, InternWrites
  <2>4. v = w
    BY <2>1 DEF zero, block
  <2> HIDE DEF v, w
  <2> QED BY <2>3, <2>4 DEF zero
<1> HIDE DEF w, next
<1>6. /\ blocks \in Seq(InternBlocks) /\ Len(blocks) = new /\ DOMAIN blocks = 1..new /\ blocks[new] = w
      /\ \A c \in DOMAIN store.blocks : c \in 1..new /\ blocks[c] = store.blocks[c]
  <2>1. longer \in Seq(InternBlocks) /\ Len(longer) = new /\ \A c \in 1..Len(store.blocks) : longer[c] = store.blocks[c]
    BY <1>1, <1>4, AppendProperties
  <2> HIDE DEF longer
  <2>2. /\ blocks \in Seq(InternBlocks) /\ Len(blocks) = Len(longer)
        /\ \A j \in 1..Len(longer) : blocks[j] = IF j = new THEN w ELSE longer[j]
    BY <1>2, <1>5, <2>1, ExceptSeq
  <2>3. \A c \in DOMAIN store.blocks : c \in 1..new /\ c # new
    BY <1>1
  <2> HIDE DEF blocks
  <2> QED BY <1>1, <1>2, <2>1, <2>2, <2>3
<1>7. /\ remaining \in Seq(0..InternBlock) /\ Len(remaining) = new + t
      /\ \A c \in 1..(new + t) : remaining[c] = IF c \in DOMAIN store.remaining THEN store.remaining[c] ELSE value
  <2> DEFINE n == new + t
             f == [i \in 1..(new + t) |-> IF i \in DOMAIN store.remaining THEN store.remaining[i] ELSE value]
  <2>1. \A i \in 1..(new + t) : (IF i \in DOMAIN store.remaining THEN store.remaining[i] ELSE value) \in 0..InternBlock
    BY <1>1, <1>2
  <2>2. f \in [1..(new + t) -> 0..InternBlock] /\ new + t \in Nat
    BY <1>2, <2>1
  <2>3. remaining = f
    BY DEF InternResized
  <2>4. \A c \in 1..(new + t) : f[c] = IF c \in DOMAIN store.remaining THEN store.remaining[c] ELSE value
    OBVIOUS
  <2>5. f \in [1..n -> 0..InternBlock] /\ n \in Nat
    BY <2>2
  <2> HIDE DEF f, remaining, n
  <2>6. f \in Seq(0..InternBlock) /\ Len(f) = n
    <3> DEFINE S == 0..InternBlock
    <3>1. f \in [1..n -> S] /\ n \in Nat
      BY <2>5
    <3> HIDE DEF S
    <3>2. f \in Seq(S) /\ Len(f) = n
      BY <3>1
    <3> QED BY <3>2 DEF S
  <2> QED BY <2>3, <2>4, <2>6 DEF n
<1>8. \A c \in DOMAIN store.blocks : remaining[c] = store.remaining[c]
  <2>1. \A c \in DOMAIN store.blocks : c \in 1..(new + t) /\ c \in DOMAIN store.remaining
    BY <1>1, <1>2
  <2> QED BY <1>7, <2>1
<1>9. Len(store.remaining) = Len(store.blocks) => remaining[new] = value
  <2>1. new \in 1..(new + t)
    BY <1>2
  <2>2. Len(store.remaining) = Len(store.blocks) => new \notin DOMAIN store.remaining
    BY <1>1, <1>2
  <2> HIDE DEF new, remaining
  <2> QED BY <1>7, <2>1, <2>2
<1> HIDE DEF blocks, remaining, longer
<1>10. InternGood(next)
  <2>1. Len(remaining) >= Len(blocks) /\ Len(blocks) >= Len(store.blocks) /\ new \in DOMAIN blocks /\ 0 \in Nat
        /\ 0 + k <= InternBlock
    BY <1>1, <1>2, <1>6, <1>7
  <2> HIDE DEF new
  <2>2. InternGood([blocks |-> blocks, remaining |-> remaining, texts |-> texts, counts |-> counts])
    BY <1>2, <1>6, <1>7, <2>1, InternGoodMore
  <2> QED BY <1>3, <2>2
<1>11. next.blocks = blocks /\ next.remaining = remaining /\ next.texts = texts /\ next.counts = counts
  BY <1>3
<1>12. new \notin DOMAIN store.blocks
  BY <1>1
<1>13. InternGrown(store, next, text, t, new, 0)
  <2>1. next.texts = Append(store.texts, InternAddress(new, 0)) /\ next.counts = Append(store.counts, Len(text))
    BY <1>11
  <2> HIDE DEF texts, counts
  <2>2. SubSeq(next.blocks[new], 0 + 1, 0 + Len(text)) = text /\ new \in DOMAIN next.blocks
    BY <1>2, <1>5, <1>6, <1>11
  <2>3. \A c \in DOMAIN store.blocks :
           /\ c \in DOMAIN next.blocks
           /\ c # new => next.blocks[c] = store.blocks[c] /\ next.remaining[c] = store.remaining[c]
    BY <1>6, <1>8, <1>11
  <2>4. Len(next.blocks) = new /\ Len(next.remaining) >= new /\ (t = 0 => Len(next.remaining) = new)
        /\ (Len(store.remaining) = Len(store.blocks) => next.remaining[new] = InternBlock - (Len(text) + t))
    BY <1>2, <1>6, <1>7, <1>9, <1>11
  <2>5. new = Len(store.blocks) + 1
    OBVIOUS
  <2> HIDE DEF new
  <2> QED BY <1>2, <1>10, <1>12, <2>1, <2>2, <2>3, <2>4, <2>5 DEF InternGrown
<1> QED BY <1>2, <1>13 DEF next

\* A push leads somewhere, and the entries that fit in their blocks are where they were, and fit.
LEMMA InternPushes ==
    ASSUME NEW store, InternGood(store), NEW text \in Seq(InternChars), NEW t \in {0, 1}, Len(text) + t <= InternBlock
    PROVE  \E b, o : InternGrown(store, InternPush(store, text, t, t), text, t, b, o)
  BY InternPushesInto, InternPushesNew

LEMMA SeqWider ==
    ASSUME NEW S, NEW T, S \subseteq T, NEW s \in Seq(S)
    PROVE  s \in Seq(T)
  OBVIOUS

\* The entries before a push are those after it, but for the one it adds, which reads as its text.
LEMMA InternGrownHas ==
    ASSUME NEW store, InternGood(store), NEW next, NEW text, NEW t, NEW b, NEW o, InternGrown(store, next, text, t, b, o)
    PROVE  /\ Len(store.texts) \in Nat /\ Len(next.texts) = Len(store.texts) + 1
           /\ DOMAIN store.texts = 1..Len(store.texts) /\ DOMAIN next.texts = 1..(Len(store.texts) + 1)
           /\ next.texts[Len(store.texts) + 1] = InternAddress(b, o) /\ next.counts[Len(store.texts) + 1] = Len(text)
           /\ InternRead(next, Len(store.texts) + 1) = text
           /\ \A i \in 1..Len(store.texts) : next.texts[i] = store.texts[i] /\ next.counts[i] = store.counts[i]
<1> DEFINE n == Len(store.texts)
           a == InternAddress(b, o)
           E == [block : Nat, offset : Nat]
<1>0. text \in Seq(InternChars) /\ b \in Nat /\ o \in Nat
  BY DEF InternGrown
<1>1. /\ store.texts \in Seq(E) /\ store.counts \in Seq(0..InternBlock) /\ n = Len(store.counts) /\ n \in Nat
      /\ DOMAIN store.texts = 1..n
  BY InternStoreHas
<1>2. /\ next.texts = Append(store.texts, a) /\ next.counts = Append(store.counts, Len(text))
      /\ SubSeq(next.blocks[b], o + 1, o + Len(text)) = text /\ InternGood(next)
  BY DEF InternGrown
<1>3. a \in E /\ a.block = b /\ a.offset = o
  BY <1>0 DEF InternAddress
<1> HIDE DEF E, a
<1>4. next.texts \in Seq(E) /\ Len(next.texts) = n + 1 /\ next.texts[n + 1] = a /\ \A i \in 1..n : next.texts[i] = store.texts[i]
  BY <1>1, <1>2, <1>3, AppendProperties
<1>5. next.counts[n + 1] = Len(text) /\ \A i \in 1..n : next.counts[i] = store.counts[i]
  <2>1. Len(text) \in Nat
    BY <1>0
  <2> DEFINE k == Len(text)
             N == Nat
  <2>2. store.counts \in Seq(N) /\ k \in N
    <3>1. 0..InternBlock \subseteq N
      OBVIOUS
    <3> QED BY <1>1, <2>1, <3>1, SeqWider
  <2> HIDE DEF k, N
  <2>3. Append(store.counts, k)[Len(store.counts) + 1] = k
        /\ \A i \in 1..Len(store.counts) : Append(store.counts, k)[i] = store.counts[i]
    BY <2>2, AppendProperties
  <2> QED BY <1>1, <1>2, <2>3 DEF k
<1>6. InternRead(next, n + 1) = text
  BY <1>2, <1>3, <1>4, <1>5 DEF InternRead
<1>7. DOMAIN next.texts = 1..(n + 1)
  BY <1>1, <1>4
<1> QED BY <1>1, <1>4, <1>5, <1>6, <1>7 DEF a

\* In a block whose entries fit, they still do, and read as before.
LEMMA InternGrownKeeps ==
    ASSUME NEW store, InternGood(store), NEW next, NEW text, NEW t, NEW b, NEW o, InternGrown(store, next, text, t, b, o),
           NEW c \in DOMAIN store.blocks, InternFits(store, c)
    PROVE  /\ InternFits(next, c)
           /\ \A i \in DOMAIN store.texts : store.texts[i].block = c => InternRead(next, i) = InternRead(store, i)
<1> DEFINE n == Len(store.texts)
<1>0. text \in Seq(InternChars) /\ t \in {0, 1} /\ b \in Nat /\ o \in Nat
  BY DEF InternGrown
<1>1. /\ n \in Nat /\ DOMAIN store.texts = 1..n /\ DOMAIN next.texts = 1..(n + 1)
      /\ next.texts[n + 1] = InternAddress(b, o) /\ next.counts[n + 1] = Len(text)
      /\ \A i \in 1..n : next.texts[i] = store.texts[i] /\ next.counts[i] = store.counts[i]
  BY InternGrownHas
<1>2. /\ \A i \in 1..n : store.texts[i] \in [block : Nat, offset : Nat] /\ store.counts[i] \in 0..InternBlock
      /\ store.remaining[c] \in 0..InternBlock /\ store.blocks[c] \in InternBlocks
  BY <1>1, InternStoreHas
<1>3. InternBlock \in Nat /\ Len(text) \in Nat /\ t \in {0, 1}
  BY <1>0, InternAssumption
<1>4. InternAddress(b, o).block = b /\ InternAddress(b, o).offset = o
  BY DEF InternAddress
<1>5. c # b => next.blocks[c] = store.blocks[c] /\ next.remaining[c] = store.remaining[c]
  BY DEF InternGrown
<1>6. c = b => /\ o = InternBlock - store.remaining[b] /\ next.remaining[b] = store.remaining[b] - (Len(text) + t)
               /\ \A x \in 1..o : next.blocks[b][x] = store.blocks[b][x]
  BY DEF InternGrown
<1>7. next.blocks[c] \in InternBlocks
  <2>1. InternGood(next) /\ c \in DOMAIN next.blocks
    BY DEF InternGrown
  <2> QED BY <2>1, InternStoreHas
<1>8. \A i \in 1..n : store.texts[i].block = c => store.texts[i].offset + store.counts[i] <= InternBlock - store.remaining[c]
  BY <1>1 DEF InternFits
<1> HIDE DEF n
<1>9. InternFits(next, c)
  <2> SUFFICES ASSUME NEW i \in DOMAIN next.texts, next.texts[i].block = c
               PROVE  next.texts[i].offset + next.counts[i] <= InternBlock - next.remaining[c]
    BY DEF InternFits
  <2>1. CASE i = n + 1
    <3>1. c = b
      BY <1>1, <1>4, <2>1
    <3>2. next.texts[i].offset = o /\ next.counts[i] = Len(text)
      BY <1>1, <1>4, <2>1
    <3> DEFINE r == store.remaining[c]
               k == Len(text)
    <3>3. o = InternBlock - r /\ next.remaining[c] = r - (k + t) /\ r \in Nat /\ k \in Nat
      BY <1>2, <1>3, <1>6, <3>1
    <3> HIDE DEF r, k
    <3>4. o + k <= InternBlock - (r - (k + t))
      BY <1>3, <3>3
    <3> QED BY <3>2, <3>3, <3>4 DEF k
  <2>2. CASE i \in 1..n
    <3>1. next.texts[i] = store.texts[i] /\ next.counts[i] = store.counts[i] /\ store.texts[i].block = c
      BY <1>1, <2>2
    <3>2. store.texts[i].offset + store.counts[i] <= InternBlock - store.remaining[c]
      BY <1>8, <2>2, <3>1
    <3>3. store.texts[i].offset \in Nat /\ store.counts[i] \in Nat
      BY <1>2, <2>2
    <3>4. next.remaining[c] = store.remaining[c] \/ next.remaining[c] = store.remaining[c] - (Len(text) + t)
      BY <1>5, <1>6
    <3> DEFINE r == store.remaining[c]
               k == Len(text)
               p == store.texts[i].offset
               m == store.counts[i]
    <3>5. p \in Nat /\ m \in Nat /\ r \in Nat /\ k \in Nat /\ p + m <= InternBlock - r
      BY <1>2, <1>3, <3>2, <3>3
    <3> HIDE DEF r, k, p, m
    <3>6. p + m <= InternBlock - (r - (k + t))
      BY <1>3, <3>5
    <3>7. next.remaining[c] = r \/ next.remaining[c] = r - (k + t)
      BY <3>4 DEF r, k
    <3>8. p + m <= InternBlock - next.remaining[c]
      BY <3>5, <3>6, <3>7
    <3> QED BY <3>1, <3>8 DEF p, m
  <2> QED BY <1>1, <2>1, <2>2
<1>10. ASSUME NEW i \in DOMAIN store.texts, store.texts[i].block = c
       PROVE  InternRead(next, i) = InternRead(store, i)
  <2> DEFINE p == store.texts[i].offset
             k == store.counts[i]
             old == store.blocks[c]
             now == next.blocks[c]
  <2>1. i \in 1..n /\ p \in Nat /\ k \in Nat /\ p + k <= InternBlock - store.remaining[c] /\ p + k <= InternBlock
    <3>1. i \in 1..n
      BY <1>1
    <3>2. p \in Nat /\ k \in Nat /\ store.remaining[c] \in Nat /\ p + k <= InternBlock - store.remaining[c]
      BY <1>2, <1>8, <1>10, <3>1
    <3> DEFINE r == store.remaining[c]
    <3> HIDE DEF p, k, r
    <3>3. r \in Nat /\ p + k <= InternBlock - r
      BY <3>2 DEF r
    <3>4. p + k <= InternBlock
      BY <1>3, <3>2, <3>3
    <3> QED BY <3>1, <3>2, <3>4
  <2>2. InternRead(store, i) = SubSeq(old, p + 1, p + k) /\ InternRead(next, i) = SubSeq(now, p + 1, p + k)
    BY <1>1, <1>10, <2>1 DEF InternRead
  <2>3. CASE c # b
    BY <1>5, <2>2, <2>3
  <2>4. CASE c = b
    <3>1. \A x \in 1..(InternBlock - store.remaining[c]) : now[x] = old[x]
      BY <1>6, <2>4
    <3> HIDE DEF p, k
    <3>2. \A x \in 1..k : p + x \in 1..(InternBlock - store.remaining[c])
      BY <1>2, <1>3, <2>1
    <3> HIDE DEF old, now
    <3>3. old \in InternBlocks /\ now \in InternBlocks
      BY <1>2, <1>7 DEF old, now
    <3> DEFINE r == SubSeq(old, p + 1, p + k)
               s == SubSeq(now, p + 1, p + k)
    <3>4. r \in Seq(InternChars) /\ Len(r) = k /\ \A x \in 1..k : r[x] = old[p + x]
      BY <2>1, <3>3, InternPartIs
    <3>5. s \in Seq(InternChars) /\ Len(s) = k /\ \A x \in 1..k : s[x] = now[p + x]
      BY <2>1, <3>3, InternPartIs
    <3> HIDE DEF r, s
    <3>6. \A x \in 1..Len(r) : r[x] = s[x]
      BY <3>1, <3>2, <3>4, <3>5
    <3>7. r = s
      BY <3>4, <3>5, <3>6, SeqEqual
    <3> QED BY <2>2, <3>7 DEF r, s
  <2> QED BY <2>3, <2>4
<1> QED BY <1>9, <1>10

\* A manager of views: no block has an entry in what remains of it.
InternKept(store) ==
    /\ InternGood(store) /\ Len(store.remaining) = Len(store.blocks)
    /\ \A b \in DOMAIN store.blocks : InternFits(store, b)

\* A new block: its one entry is in what is taken of it.
LEMMA InternFitsNew ==
    ASSUME NEW store, InternGood(store), Len(store.remaining) = Len(store.blocks),
           NEW next, NEW text, NEW t, NEW b, NEW o, InternGrown(store, next, text, t, b, o), b \notin DOMAIN store.blocks
    PROVE  InternFits(next, b)
<1> DEFINE n == Len(store.texts)
           k == Len(text)
<1>0. text \in Seq(InternChars) /\ t \in {0, 1}
  BY DEF InternGrown
<1>1. /\ n \in Nat /\ DOMAIN store.texts = 1..n /\ DOMAIN next.texts = 1..(n + 1)
      /\ next.texts[n + 1] = InternAddress(b, o) /\ next.counts[n + 1] = k
      /\ \A i \in 1..n : next.texts[i] = store.texts[i]
  <2> HIDE DEF n, k
  <2>1. /\ n \in Nat /\ DOMAIN store.texts = 1..n /\ DOMAIN next.texts = 1..(n + 1)
        /\ next.texts[n + 1] = InternAddress(b, o) /\ next.counts[n + 1] = Len(text)
        /\ \A i \in 1..n : next.texts[i] = store.texts[i] /\ next.counts[i] = store.counts[i]
    BY InternGrownHas DEF n
  <2> QED BY <2>1 DEF k
<1>2. \A i \in 1..n : store.texts[i].block \in DOMAIN store.blocks
  BY <1>1, InternStoreHas
<1>3. o = 0 /\ next.remaining[b] = InternBlock - (k + t)
  BY DEF InternGrown
<1>4. InternBlock \in Nat /\ k \in Nat
  BY <1>0, InternAssumption
<1> HIDE DEF n, k
<1> SUFFICES ASSUME NEW i \in DOMAIN next.texts, next.texts[i].block = b
             PROVE  next.texts[i].offset + next.counts[i] <= InternBlock - next.remaining[b]
  BY DEF InternFits
<1>5. i = n + 1
  <2> SUFFICES ASSUME i # n + 1 PROVE FALSE
    OBVIOUS
  <2>1. i \in 1..n
    BY <1>1
  <2> QED BY <2>1, <1>1, <1>2
<1>6. next.texts[i].offset = 0 /\ next.counts[i] = k
  BY <1>1, <1>3, <1>5 DEF InternAddress
<1>7. 0 + k <= InternBlock - (InternBlock - (k + t))
  BY <1>0, <1>4
<1> QED BY <1>3, <1>6, <1>7

\* A push of a view keeps all of this, and what is read of each of the entries before.
LEMMA InternKeptGrown ==
    ASSUME NEW store, InternKept(store), NEW next, NEW text, NEW b, NEW o,
           InternGrown(store, next, text, 0, b, o)
    PROVE  /\ InternKept(next)
           /\ \A i \in DOMAIN store.texts : InternRead(next, i) = InternRead(store, i)
<1>1. InternGood(store) /\ Len(store.remaining) = Len(store.blocks) /\ \A c \in DOMAIN store.blocks : InternFits(store, c)
  BY DEF InternKept
<1>2. Len(store.blocks) \in Nat /\ DOMAIN store.blocks = 1..Len(store.blocks)
      /\ \A i \in DOMAIN store.texts : store.texts[i].block \in DOMAIN store.blocks
  BY <1>1, InternStoreHas
<1>3. InternGood(next)
  BY DEF InternGrown
<1>4. Len(next.blocks) \in Nat /\ DOMAIN next.blocks = 1..Len(next.blocks)
  BY <1>3, InternStoreHas
<1>5. ASSUME NEW c \in DOMAIN store.blocks
      PROVE  /\ InternFits(next, c)
             /\ \A i \in DOMAIN store.texts : store.texts[i].block = c => InternRead(next, i) = InternRead(store, i)
  <2>1. InternFits(store, c) /\ 0 \in {0, 1}
    BY <1>1
  <2> QED BY <1>1, <2>1, InternGrownKeeps
<1>6. CASE b \in DOMAIN store.blocks
  <2>1. Len(next.blocks) = Len(store.blocks) /\ Len(next.remaining) = Len(store.remaining)
    BY <1>6 DEF InternGrown
  <2>2. DOMAIN next.blocks = DOMAIN store.blocks
    BY <2>1, <1>2, <1>4
  <2> QED BY <2>1, <2>2, <1>1, <1>2, <1>3, <1>5 DEF InternKept
<1>7. CASE b \notin DOMAIN store.blocks
  <2>1. b = Len(store.blocks) + 1 /\ Len(next.blocks) = b /\ Len(next.remaining) = b
    BY <1>1, <1>7 DEF InternGrown
  <2>2. InternFits(next, b)
    <3>1. 0 \in {0, 1}
      OBVIOUS
    <3> QED BY <3>1, <1>1, <1>7, InternFitsNew
  <2>3. \A c \in DOMAIN next.blocks : c = b \/ c \in DOMAIN store.blocks
    BY <2>1, <1>2, <1>4
  <2> QED BY <2>1, <2>2, <2>3, <1>2, <1>3, <1>5 DEF InternKept
<1> QED BY <1>6, <1>7

\* What is read of an entry.
LEMMA InternReadIs ==
    ASSUME NEW store, InternGood(store), NEW i \in DOMAIN store.texts
    PROVE  InternRead(store, i) \in Seq(InternChars) /\ Len(InternRead(store, i)) = store.counts[i] /\ store.counts[i] \in 0..InternBlock
<1> DEFINE at == store.texts[i]
           block == store.blocks[at.block]
           o == at.offset
           k == store.counts[i]
<1>1. at \in [block : Nat, offset : Nat] /\ k \in 0..InternBlock /\ at.block \in DOMAIN store.blocks /\ o + k <= InternBlock
  BY InternStoreHas
<1>2. block \in InternBlocks
  BY <1>1, InternStoreHas
<1>3. InternBlock \in Nat
  BY InternAssumption
<1>4. o \in Nat /\ k \in Nat
  BY <1>1, <1>3
<1>5. InternRead(store, i) = SubSeq(block, o + 1, o + k)
  BY DEF InternRead
<1> HIDE DEF block, o, k
<1>6. SubSeq(block, o + 1, o + k) \in Seq(InternChars) /\ Len(SubSeq(block, o + 1, o + k)) = k
  BY <1>1, <1>2, <1>4, InternPartIs
<1> QED BY <1>1, <1>5, <1>6 DEF k

\* A view is pushed.
LEMMA InternViewPushed ==
    ASSUME NEW store, InternKept(store), NEW text \in Seq(InternChars), Len(text) <= InternBlock
    PROVE  LET next == InternPushView(store, text)
               n == Len(store.texts)
           IN  /\ InternKept(next) /\ n \in Nat /\ Len(next.texts) = n + 1
               /\ DOMAIN store.texts = 1..n /\ DOMAIN next.texts = 1..(n + 1)
               /\ InternRead(next, n + 1) = text
               /\ \A i \in 1..n : next.texts[i] = store.texts[i] /\ InternRead(next, i) = InternRead(store, i)
<1> DEFINE next == InternPushView(store, text)
<1>1. InternGood(store) /\ Len(text) \in Nat /\ Len(text) + 0 <= InternBlock /\ 0 \in {0, 1}
  BY InternAssumption DEF InternKept
<1>2. PICK b, o : InternGrown(store, InternPush(store, text, 0, 0), text, 0, b, o)
  BY <1>1, InternPushes
<1>3. InternGrown(store, next, text, 0, b, o)
  BY <1>2 DEF InternPushView
<1> HIDE DEF next
<1>4. InternKept(next) /\ \A i \in DOMAIN store.texts : InternRead(next, i) = InternRead(store, i)
  BY <1>3, InternKeptGrown
<1> DEFINE n == Len(store.texts)
<1>5. /\ n \in Nat /\ Len(next.texts) = n + 1 /\ DOMAIN store.texts = 1..n /\ DOMAIN next.texts = 1..(n + 1)
      /\ InternRead(next, n + 1) = text /\ \A i \in 1..n : next.texts[i] = store.texts[i] /\ next.counts[i] = store.counts[i]
  <2>1. 0 \in {0, 1}
    OBVIOUS
  <2> QED BY <1>1, <1>3, <2>1, InternGrownHas
<1> QED BY <1>4, <1>5 DEF next

\* What is written to an empty manager, when the first n entries of a store are pushed again.
InternCopy(store, n, s) ==
    InternKept(s) /\ Len(s.texts) = n /\ \A i \in 1..n : InternRead(s, i) = InternRead(store, i)

LEMMA InternEmptyKept == InternKept(InternEmptyStore) /\ Len(InternEmptyStore.texts) = 0
<1> DEFINE s == InternEmptyStore
<1>1. s.blocks = <<>> /\ s.remaining = <<>> /\ s.texts = <<>> /\ s.counts = <<>> /\ s \in InternStores
  BY DEF InternEmptyStore, InternStores
<1> HIDE DEF s
<1>2. Len(s.texts) = 0 /\ Len(s.counts) = 0 /\ Len(s.remaining) = 0 /\ Len(s.blocks) = 0
      /\ DOMAIN s.texts = {} /\ DOMAIN s.blocks = {}
  BY <1>1
<1> QED BY <1>1, <1>2 DEF InternKept, InternGood, s

LEMMA InternCopiesMore ==
    ASSUME NEW store, InternGood(store), NEW n \in 1..Len(store.texts), NEW s, InternCopy(store, n - 1, s)
    PROVE  InternCopy(store, n, InternPushView(s, InternRead(store, n)))
<1> DEFINE text == InternRead(store, n)
           next == InternPushView(s, text)
           m == Len(s.texts)
<1>1. n \in DOMAIN store.texts /\ Len(store.texts) \in Nat /\ n \in Nat
  BY InternStoreHas
<1>2. text \in Seq(InternChars) /\ Len(text) <= InternBlock
  <2>1. text \in Seq(InternChars) /\ Len(text) = store.counts[n] /\ store.counts[n] \in 0..InternBlock
    BY <1>1, InternReadIs
  <2> HIDE DEF text
  <2> QED BY <2>1, InternAssumption
<1>3. InternKept(s) /\ m = n - 1 /\ \A i \in 1..(n - 1) : InternRead(s, i) = InternRead(store, i)
  BY DEF InternCopy
<1> HIDE DEF text
<1>4. /\ InternKept(next) /\ Len(next.texts) = m + 1 /\ InternRead(next, m + 1) = text
      /\ \A i \in 1..m : InternRead(next, i) = InternRead(s, i)
  BY <1>2, <1>3, InternViewPushed
<1> HIDE DEF next, m
<1>5. m + 1 = n /\ \A i \in 1..n : i = n \/ i \in 1..m
  BY <1>1, <1>3
<1>6. \A i \in 1..n : InternRead(next, i) = InternRead(store, i)
  BY <1>3, <1>4, <1>5 DEF text
<1>7. InternCopy(store, n, next)
  BY <1>4, <1>5, <1>6 DEF InternCopy
<1> QED BY <1>7 DEF next, text

\* The stores on the way.
InternCopies(store, m) ==
    {f \in [0..m -> InternStores] :
        /\ f[0] = InternEmptyStore /\ \A k \in 1..m : f[k] = InternPushView(f[k - 1], InternRead(store, k))
        /\ \A k \in 0..m : InternCopy(store, k, f[k])}

LEMMA InternCopiesContinue ==
    ASSUME NEW store, InternGood(store), NEW n \in 1..Len(store.texts), NEW f \in InternCopies(store, n - 1)
    PROVE  \E g : g \in InternCopies(store, n)
<1> DEFINE m == n - 1
           next == InternPushView(f[m], InternRead(store, n))
           g == [k \in 0..n |-> IF k = n THEN next ELSE f[k]]
<1>1. /\ f \in [0..m -> InternStores] /\ f[0] = InternEmptyStore
      /\ \A k \in 1..m : f[k] = InternPushView(f[k - 1], InternRead(store, k))
      /\ \A k \in 0..m : InternCopy(store, k, f[k])
  BY DEF InternCopies
<1>2. n \in Nat \ {0} /\ m \in 0..m /\ m \in Nat /\ m + 1 = n
  OBVIOUS
<1>3. InternCopy(store, n, next)
  <2> DEFINE s == f[m]
  <2>1. InternCopy(store, n - 1, s)
    BY <1>1, <1>2
  <2> HIDE DEF s
  <2>2. InternCopy(store, n, InternPushView(s, InternRead(store, n)))
    BY <2>1, InternCopiesMore
  <2> QED BY <2>2 DEF s
<1> HIDE DEF next
<1>4. next \in InternStores
  BY <1>3 DEF InternCopy, InternKept, InternGood
<1> HIDE DEF m
<1>5. \A k \in 0..n : k # n => k \in 0..m
  BY <1>2
<1>6. \A k \in 0..m : k \in 0..n /\ k # n
  BY <1>2
<1>7. g \in [0..n -> InternStores] /\ g[n] = next /\ \A k \in 0..m : g[k] = f[k]
  BY <1>1, <1>2, <1>4, <1>5, <1>6
<1> HIDE DEF g
<1>8. ASSUME NEW k \in 1..n PROVE g[k] = InternPushView(g[k - 1], InternRead(store, k))
  <2>1. CASE k = n
    <3>1. k - 1 = m
      BY <2>1 DEF m
    <3> QED BY <2>1, <3>1, <1>2, <1>7 DEF next
  <2>2. CASE k # n
    <3>1. k \in 1..m /\ k - 1 \in 0..m /\ k \in 0..m
      BY <2>2, <1>2
    <3> QED BY <3>1, <1>1, <1>7
  <2> QED BY <2>1, <2>2
<1>9. ASSUME NEW k \in 0..n PROVE InternCopy(store, k, g[k])
  <2>1. CASE k = n
    BY <2>1, <1>3, <1>7
  <2>2. CASE k # n
    <3>1. k \in 0..m
      BY <2>2, <1>5
    <3> QED BY <3>1, <1>1, <1>7
  <2> QED BY <2>1, <2>2
<1>10. g[0] = InternEmptyStore
  BY <1>1, <1>2, <1>7
<1>11. g \in InternCopies(store, n)
  BY <1>7, <1>8, <1>9, <1>10 DEF InternCopies
<1> QED BY <1>11

\* A manager that is saved and loaded has the entries it had.
LEMMA InternReloads ==
    ASSUME NEW store, InternGood(store)
    PROVE  InternCopy(store, Len(store.texts), InternReloaded(store))
<1> DEFINE n == Len(store.texts)
           S == {m \in 0..n : \E f : f \in InternCopies(store, m)}
<1>1. n \in Nat
  BY InternStoreHas
<1>2. 0 \in S
  <2> DEFINE e == [k \in 0..0 |-> InternEmptyStore]
  <2>1. InternKept(InternEmptyStore) /\ Len(InternEmptyStore.texts) = 0
    BY InternEmptyKept
  <2>2. InternCopy(store, 0, InternEmptyStore) /\ InternEmptyStore \in InternStores
    BY <2>1 DEF InternCopy, InternKept, InternGood
  <2>3. e \in [0..0 -> InternStores] /\ e[0] = InternEmptyStore /\ \A k \in 0..0 : k = 0
    BY <2>2
  <2> HIDE DEF e
  <2>4. e \in InternCopies(store, 0)
    BY <2>2, <2>3 DEF InternCopies
  <2> QED BY <1>1, <2>4
<1>3. \A k \in 1..n : k - 1 \in S => k \in S
  <2> SUFFICES ASSUME NEW k \in 1..n, k - 1 \in S PROVE k \in S
    OBVIOUS
  <2>1. PICK f : f \in InternCopies(store, k - 1)
    OBVIOUS
  <2>2. \E g : g \in InternCopies(store, k)
    BY <2>1, InternCopiesContinue
  <2> QED BY <1>1, <2>2
<1> HIDE DEF n
<1>4. 0..n \subseteq S
  <2> HIDE DEF S
  <2> QED BY <1>1, <1>2, <1>3, UpTo
<1>5. PICK f : f \in InternCopies(store, n)
  BY <1>1, <1>4
<1>6. /\ f \in [0..n -> InternStores] /\ f[0] = InternEmptyStore
      /\ \A k \in 1..n : f[k] = InternPushView(f[k - 1], InternRead(store, k))
      /\ InternCopy(store, n, f[n])
  BY <1>1, <1>5 DEF InternCopies
<1> DEFINE C == CHOOSE loaded : loaded = [k \in 0..n |-> IF k = 0 THEN InternEmptyStore
                                                     ELSE InternPushView(loaded[k - 1], InternRead(store, k))]
<1>7. f = [k \in 0..n |-> IF k = 0 THEN InternEmptyStore ELSE InternPushView(f[k - 1], InternRead(store, k))]
  <2>1. \A k \in 0..n : k # 0 => k \in 1..n
    BY <1>1
  <2> QED BY <1>6, <2>1
<1>8. C = [k \in 0..n |-> IF k = 0 THEN InternEmptyStore ELSE InternPushView(C[k - 1], InternRead(store, k))]
  BY <1>7
<1>9. InternReloaded(store) = C[n]
  BY DEF InternReloaded, n
<1> HIDE DEF C
<1>10. \A k \in 0..n : C[k] = f[k]
  <2> DEFINE T == {k \in 0..n : C[k] = f[k]}
  <2>1. 0 \in T
    BY <1>1, <1>6, <1>8
  <2>2. ASSUME NEW k \in 1..n, k - 1 \in T PROVE k \in T
    <3>1. k \in 0..n /\ k # 0
      BY <1>1
    <3>2. C[k] = InternPushView(C[k - 1], InternRead(store, k)) /\ f[k] = InternPushView(f[k - 1], InternRead(store, k))
      BY <3>1, <1>6, <1>8
    <3> QED BY <2>2, <3>1, <3>2
  <2>3. 0..n \subseteq T
    <3> HIDE DEF T
    <3> QED BY <1>1, <2>1, <2>2, UpTo
  <2> QED BY <2>3
<1>11. C[n] = f[n]
  BY <1>1, <1>10
<1> QED BY <1>6, <1>9, <1>11 DEF n

\* The inductive invariant. Of the labels only those of the first block are known to stay: the second
\* block is not counted as one that is full when it is.
InternAskedOK(a, store) ==
    /\ a.kind \in {"label", "view"} /\ a.index \in DOMAIN store.texts /\ store.texts[a.index] = a.at
    /\ a.kind = "view" \/ a.at.block = 1 => InternRead(store, a.index) = a.text

InternLabelsOK ==
    /\ InternGood(internLabels) /\ 1 \in DOMAIN internLabels.blocks /\ InternFits(internLabels, 1)
    /\ 1 \in DOMAIN internLabels.texts /\ internLabels.counts[1] = 0

InternViewsOK ==
    /\ InternKept(internViews)
    /\ \A i, j \in DOMAIN internViews.texts : InternRead(internViews, i) = InternRead(internViews, j) => i = j

InternInv ==
    /\ InternLabelsOK /\ InternViewsOK
    /\ \A a \in internAsked : InternAskedOK(a, IF a.kind = "view" THEN internViews ELSE internLabels)

\* The first of the entries of a text has the text.
LEMMA InternFinds ==
    ASSUME NEW store, InternGood(store), NEW text, InternIndex(store, text) # {}
    PROVE  LET i == Min(InternIndex(store, text)) IN i \in DOMAIN store.texts /\ InternRead(store, i) = text
<1> DEFINE S == InternIndex(store, text)
<1>1. S \subseteq DOMAIN store.texts /\ \A i \in S : InternRead(store, i) = text
  BY DEF InternIndex
<1>2. DOMAIN store.texts \subseteq Nat
  BY InternStoreHas
<1>3. S \subseteq Nat /\ S # {}
  BY <1>1, <1>2
<1> HIDE DEF S
<1>4. Min(S) \in S
  BY <1>3, LeastIs
<1> QED BY <1>1, <1>4 DEF S

\* An entry that reads as the text is one of its indices.
LEMMA InternHasIndex ==
    ASSUME NEW store, InternGood(store), NEW i \in DOMAIN store.texts
    PROVE  \A text : i \in InternIndex(store, text) <=> InternRead(store, i) = text
<1>1. Len(InternRead(store, i)) = store.counts[i]
  BY InternReadIs
<1> QED BY <1>1 DEF InternIndex

\* What is interned of a text: a part of it, of characters.
LEMMA InternStarts ==
    ASSUME NEW text \in InternTexts, NEW k \in 0..Len(text)
    PROVE  SubSeq(text, 1, k) \in Seq(InternChars) /\ Len(SubSeq(text, 1, k)) = k /\ Len(text) \in Nat
<1> DEFINE S == UNION {ToSet(u) : u \in InternTexts}
<1>1. text \in Seq(S)
  BY InternAssumption
<1>2. S \subseteq InternChars
  BY DEF InternChars
<1> HIDE DEF S
<1>3. text \in Seq(InternChars)
  BY <1>1, <1>2, SeqWider
<1>4. SubSeq(text, 1, k) \in Seq(InternChars) /\ Len(SubSeq(text, 1, k)) = k
  BY <1>3, CutIs
<1> QED BY <1>3, <1>4

LEMMA LeastOfTwo ==
    ASSUME NEW x \in Nat, NEW y \in Nat
    PROVE  Min({x, y}) \in {x, y} /\ Min({x, y}) <= x /\ Min({x, y}) <= y
<1> DEFINE S == {x, y}
<1>1. S \subseteq Nat /\ S # {} /\ x \in S /\ y \in S
  OBVIOUS
<1> HIDE DEF S
<1>2. Min(S) \in S /\ \A z \in S : Min(S) <= z
  BY <1>1, LeastIs
<1> QED BY <1>1, <1>2 DEF S

LEMMA InternUntilNulIs ==
    ASSUME NEW text \in InternTexts
    PROVE  InternUntilNul(text) \in Seq(InternChars) /\ Len(InternUntilNul(text)) + 1 <= InternBlock
<1> DEFINE nuls == {i \in DOMAIN text : text[i] = Nul}
           stop == IF nuls = {} THEN Len(text) ELSE Min(nuls) - 1
           most == InternBlock - 1
           k == Min({stop, most})
<1>1. Len(text) \in Nat /\ DOMAIN text = 1..Len(text)
  <2>1. text \in Seq(UNION {ToSet(u) : u \in InternTexts})
    BY InternAssumption
  <2> QED BY <2>1
<1>2. stop \in 0..Len(text)
  <2>1. CASE nuls = {}
    BY <2>1, <1>1
  <2>2. CASE nuls # {}
    <3>1. nuls \subseteq Nat /\ nuls \subseteq 1..Len(text)
      BY <1>1
    <3> HIDE DEF nuls
    <3>2. Min(nuls) \in nuls
      BY <2>2, <3>1, LeastIs
    <3> DEFINE m == Min(nuls)
    <3>3. m \in 1..Len(text) /\ stop = m - 1
      BY <2>2, <3>1, <3>2
    <3> HIDE DEF m, stop
    <3> QED BY <1>1, <3>3
  <2> QED BY <2>1, <2>2
<1>3. most \in Nat /\ InternBlock \in Nat /\ most + 1 = InternBlock
  BY InternAssumption
<1>4. InternUntilNul(text) = SubSeq(text, 1, k)
  BY DEF InternUntilNul
<1> HIDE DEF stop, most
<1>5. k \in {stop, most} /\ k <= stop /\ k <= most
  BY <1>1, <1>2, <1>3, LeastOfTwo
<1> HIDE DEF k
<1>6. k \in 0..Len(text)
  BY <1>1, <1>2, <1>3, <1>5
<1>7. SubSeq(text, 1, k) \in Seq(InternChars) /\ Len(SubSeq(text, 1, k)) = k
  BY <1>6, InternStarts
<1> QED BY <1>1, <1>3, <1>4, <1>5, <1>6, <1>7

LEMMA InternViewKeptIs ==
    ASSUME NEW text \in InternTexts
    PROVE  LET kept == SubSeq(text, 1, Min({Len(text), InternBlock})) IN kept \in Seq(InternChars) /\ Len(kept) <= InternBlock
<1> DEFINE k == Min({Len(text), InternBlock})
<1>1. Len(text) \in Nat
  <2>1. text \in Seq(UNION {ToSet(u) : u \in InternTexts})
    BY InternAssumption
  <2> QED BY <2>1
<1>2. InternBlock \in Nat
  BY InternAssumption
<1>3. k \in {Len(text), InternBlock} /\ k <= Len(text) /\ k <= InternBlock
  BY <1>1, <1>2, LeastOfTwo
<1> HIDE DEF k
<1>4. k \in 0..Len(text)
  BY <1>1, <1>2, <1>3
<1>5. SubSeq(text, 1, k) \in Seq(InternChars) /\ Len(SubSeq(text, 1, k)) = k
  BY <1>4, InternStarts
<1> QED BY <1>3, <1>5 DEF k

\* A label is pushed.
LEMMA InternLabelPushed ==
    ASSUME NEW store, InternGood(store), 1 \in DOMAIN store.blocks, InternFits(store, 1),
           NEW text \in Seq(InternChars), Len(text) + 1 <= InternBlock
    PROVE  LET next == InternPushLabel(store, text)
               n == Len(store.texts)
           IN  /\ InternGood(next) /\ 1 \in DOMAIN next.blocks /\ InternFits(next, 1)
               /\ n \in Nat /\ DOMAIN store.texts = 1..n /\ DOMAIN next.texts = 1..(n + 1)
               /\ InternRead(next, n + 1) = text
               /\ \A i \in 1..n : next.texts[i] = store.texts[i] /\ next.counts[i] = store.counts[i]
               /\ \A i \in 1..n : store.texts[i].block = 1 => InternRead(next, i) = InternRead(store, i)
<1> DEFINE next == InternPushLabel(store, text)
<1>1. Len(text) \in Nat /\ 1 \in {0, 1}
  OBVIOUS
<1>2. PICK b, o : InternGrown(store, InternPush(store, text, 1, 1), text, 1, b, o)
  BY <1>1, InternPushes
<1>3. InternGrown(store, next, text, 1, b, o)
  BY <1>2 DEF InternPushLabel
<1> HIDE DEF next
<1>4. InternFits(next, 1) /\ \A i \in DOMAIN store.texts : store.texts[i].block = 1 => InternRead(next, i) = InternRead(store, i)
  <2> DEFINE c == 1
  <2>1. c \in DOMAIN store.blocks /\ InternFits(store, c)
    OBVIOUS
  <2> HIDE DEF c
  <2>2. /\ InternFits(next, c)
        /\ \A i \in DOMAIN store.texts : store.texts[i].block = c => InternRead(next, i) = InternRead(store, i)
    BY <1>3, <2>1, InternGrownKeeps
  <2> QED BY <2>2 DEF c
<1>5. /\ Len(store.texts) \in Nat /\ Len(next.texts) = Len(store.texts) + 1
      /\ DOMAIN store.texts = 1..Len(store.texts) /\ DOMAIN next.texts = 1..(Len(store.texts) + 1)
      /\ InternRead(next, Len(store.texts) + 1) = text
      /\ \A i \in 1..Len(store.texts) : next.texts[i] = store.texts[i] /\ next.counts[i] = store.counts[i]
  BY <1>1, <1>3, InternGrownHas
<1>6. InternGood(next) /\ 1 \in DOMAIN next.blocks
  BY <1>3 DEF InternGrown
<1> QED BY <1>4, <1>5, <1>6 DEF next

\* A new manager has the empty label, in its first block.
LEMMA InternStarted == InternInit => InternInv
<1> SUFFICES ASSUME InternInit PROVE InternInv
  OBVIOUS
<1> DEFINE s == InternEmptyStore
           next == InternEmptyLabels
           t == <<>>
<1>1. internLabels = next /\ internViews = s /\ internAsked = {}
  BY DEF InternInit
<1>2. InternKept(s) /\ Len(s.texts) = 0 /\ InternGood(s) /\ Len(s.remaining) = Len(s.blocks)
  BY InternEmptyKept DEF InternKept
<1>3. DOMAIN s.texts = {} /\ Len(s.blocks) = 0 /\ DOMAIN s.blocks = {}
  BY DEF InternEmptyStore
<1>4. t \in Seq(InternChars) /\ Len(t) = 0
  OBVIOUS
<1> HIDE DEF s, next, t
<1>5. Len(t) + 1 <= InternBlock /\ 1 \in {0, 1}
  BY <1>4, InternAssumption
<1>6. PICK b, o : InternGrown(s, InternPush(s, t, 1, 1), t, 1, b, o)
  BY <1>2, <1>4, <1>5, InternPushes
<1>7. InternGrown(s, next, t, 1, b, o)
  BY <1>6 DEF next, s, t, InternEmptyLabels, InternPushLabel
<1>8. b = 1 /\ o = 0 /\ InternGood(next) /\ b \in DOMAIN next.blocks
  BY <1>3, <1>7 DEF InternGrown
<1>9. InternFits(next, b)
  BY <1>2, <1>3, <1>7, InternFitsNew
<1>10. DOMAIN next.texts = 1..(Len(s.texts) + 1) /\ next.counts[Len(s.texts) + 1] = Len(t)
  BY <1>2, <1>7, InternGrownHas
<1>11. 1 \in DOMAIN next.texts /\ next.counts[1] = 0
  <2>1. Len(s.texts) + 1 = 1
    BY <1>2
  <2> QED BY <2>1, <1>4, <1>10
<1> QED BY <1>1, <1>2, <1>3, <1>8, <1>9, <1>11 DEF InternInv, InternLabelsOK, InternViewsOK

\* What is answered for a text is the first of its indices.
LEMMA InternAnswers ==
    ASSUME NEW kind \in {"label", "view"}, NEW store, InternGood(store), NEW text, InternIndex(store, text) # {}
    PROVE  LET i == Min(InternIndex(store, text))
           IN  InternAskedOK([kind |-> kind, text |-> text, index |-> i, at |-> store.texts[i]], store)
<1> DEFINE i == Min(InternIndex(store, text))
           a == [kind |-> kind, text |-> text, index |-> i, at |-> store.texts[i]]
<1>1. i \in DOMAIN store.texts /\ InternRead(store, i) = text
  BY InternFinds
<1> HIDE DEF i
<1>2. a.kind = kind /\ a.text = text /\ a.index = i /\ a.at = store.texts[i]
  OBVIOUS
<1> QED BY <1>1, <1>2 DEF InternAskedOK, i

\* A label is asked for.
LEMMA InternLabelKeeps ==
    ASSUME InternInv, NEW text \in InternTexts, InternLabel(text)
    PROVE  InternInv'
<1> DEFINE store == internLabels
           next == internLabels'
           kept == InternUntilNul(text)
           n == Len(store.texts)
<1>1. kept \in Seq(InternChars) /\ Len(kept) + 1 <= InternBlock
  BY InternUntilNulIs
<1>2. /\ next = IF kept = <<>> \/ InternIndex(store, kept) # {} THEN store ELSE InternPushLabel(store, kept)
      /\ InternDone("label", next, kept) /\ internViews' = internViews
  BY DEF InternLabel
<1>3. InternGood(store) /\ 1 \in DOMAIN store.blocks /\ InternFits(store, 1) /\ 1 \in DOMAIN store.texts /\ store.counts[1] = 0
  BY DEF InternInv, InternLabelsOK
<1> HIDE DEF kept
<1>4. /\ InternLabelsOK' /\ InternGood(next) /\ InternIndex(next, kept) # {}
      /\ \A i \in DOMAIN store.texts : /\ i \in DOMAIN next.texts /\ next.texts[i] = store.texts[i]
                                       /\ store.texts[i].block = 1 => InternRead(next, i) = InternRead(store, i)
  <2>1. CASE kept = <<>> \/ InternIndex(store, kept) # {}
    <3>1. next = store
      BY <1>2, <2>1
    <3>2. InternLabelsOK'
      BY <1>3, <3>1 DEF InternLabelsOK
    <3>3. InternIndex(store, kept) # {}
      <4>1. CASE kept = <<>>
        <5>1. InternRead(store, 1) \in Seq(InternChars) /\ Len(InternRead(store, 1)) = 0
          BY <1>3, InternReadIs
        <5>2. InternRead(store, 1) = kept
          BY <4>1, <5>1
        <5>3. 1 \in InternIndex(store, kept)
          BY <1>3, <5>2, InternHasIndex
        <5> QED BY <5>3
      <4> QED BY <4>1, <2>1
    <3> QED BY <1>3, <3>1, <3>2, <3>3
  <2>2. CASE ~(kept = <<>> \/ InternIndex(store, kept) # {})
    <3> DEFINE pushed == InternPushLabel(store, kept)
    <3>1. next = pushed
      BY <1>2, <2>2
    <3>2. /\ InternGood(pushed) /\ 1 \in DOMAIN pushed.blocks /\ InternFits(pushed, 1)
          /\ n \in Nat /\ DOMAIN store.texts = 1..n /\ DOMAIN pushed.texts = 1..(n + 1)
          /\ InternRead(pushed, n + 1) = kept
          /\ \A i \in 1..n : pushed.texts[i] = store.texts[i] /\ pushed.counts[i] = store.counts[i]
          /\ \A i \in 1..n : store.texts[i].block = 1 => InternRead(pushed, i) = InternRead(store, i)
      <4> HIDE DEF pushed
      <4> DEFINE L == internLabels
      <4>1. InternGood(L) /\ 1 \in DOMAIN L.blocks /\ InternFits(L, 1)
        BY <1>3
      <4> HIDE DEF L
      <4>2. pushed = InternPushLabel(L, kept)
        BY DEF pushed, L
      <4>3. /\ InternGood(pushed) /\ 1 \in DOMAIN pushed.blocks /\ InternFits(pushed, 1)
            /\ Len(L.texts) \in Nat /\ DOMAIN L.texts = 1..Len(L.texts) /\ DOMAIN pushed.texts = 1..(Len(L.texts) + 1)
            /\ InternRead(pushed, Len(L.texts) + 1) = kept
            /\ \A i \in 1..Len(L.texts) : pushed.texts[i] = L.texts[i] /\ pushed.counts[i] = L.counts[i]
            /\ \A i \in 1..Len(L.texts) : L.texts[i].block = 1 => InternRead(pushed, i) = InternRead(L, i)
        BY <1>1, <4>1, <4>2, InternLabelPushed
      <4> QED BY <4>3 DEF L
    <3> HIDE DEF pushed, n
    <3>3. \A i \in 1..n : i \in 1..(n + 1)
      BY <3>2
    <3>4. n + 1 \in InternIndex(pushed, kept)
      <4>1. n + 1 \in DOMAIN pushed.texts
        BY <3>2
      <4> QED BY <3>2, <4>1, InternHasIndex
    <3>5. InternLabelsOK'
      BY <1>3, <3>1, <3>2, <3>3 DEF InternLabelsOK
    <3> QED BY <3>1, <3>2, <3>3, <3>4, <3>5
  <2> QED BY <2>1, <2>2
<1>5. InternViewsOK'
  BY <1>2 DEF InternInv, InternViewsOK
<1>6. \A a \in internAsked' : InternAskedOK(a, IF a.kind = "view" THEN internViews' ELSE internLabels')
  <2> DEFINE i == Min(InternIndex(next, kept))
             new == [kind |-> "label", text |-> kept, index |-> i, at |-> next.texts[i]]
  <2>1. internAsked' = internAsked \cup {new}
    BY <1>2 DEF InternDone
  <2>2. InternAskedOK(new, next) /\ new.kind = "label"
    <3> DEFINE N == internLabels'
               kind == "label"
    <3>1. kind \in {"label", "view"} /\ InternGood(N) /\ InternIndex(N, kept) # {}
      BY <1>4
    <3> HIDE DEF N, kind
    <3>2. InternAskedOK([kind |-> kind, text |-> kept, index |-> Min(InternIndex(N, kept)),
                         at |-> N.texts[Min(InternIndex(N, kept))]], N)
      BY <3>1, InternAnswers
    <3> QED BY <3>2 DEF N, kind
  <2> HIDE DEF new
  <2> SUFFICES ASSUME NEW a \in internAsked' PROVE InternAskedOK(a, IF a.kind = "view" THEN internViews' ELSE internLabels')
    OBVIOUS
  <2>3. CASE a = new
    BY <2>2, <2>3
  <2>4. CASE a \in internAsked
    <3>1. InternAskedOK(a, IF a.kind = "view" THEN internViews ELSE internLabels)
      BY <2>4 DEF InternInv
    <3>2. CASE a.kind = "view"
      BY <3>1, <3>2, <1>2
    <3>3. CASE a.kind # "view"
      <4>1. InternAskedOK(a, store)
        BY <3>1, <3>3
      <4>2. InternAskedOK(a, next)
        BY <1>4, <4>1, <3>3 DEF InternAskedOK
      <4> QED BY <4>2, <3>3
    <3> QED BY <3>2, <3>3
  <2> QED BY <2>1, <2>3, <2>4
<1> QED BY <1>4, <1>5, <1>6 DEF InternInv

\* A view is asked for.
LEMMA InternViewKeeps ==
    ASSUME InternInv, NEW text \in InternTexts, InternView(text)
    PROVE  InternInv'
<1> DEFINE store == internViews
           next == internViews'
           kept == SubSeq(text, 1, Min({Len(text), InternBlock}))
           n == Len(store.texts)
<1>1. kept \in Seq(InternChars) /\ Len(kept) <= InternBlock
  BY InternViewKeptIs
<1>2. /\ next = IF InternIndex(store, kept) # {} THEN store ELSE InternPushView(store, kept)
      /\ InternDone("view", next, kept) /\ internLabels' = internLabels
  BY DEF InternView
<1>3. InternKept(store) /\ InternGood(store)
      /\ \A i, j \in DOMAIN store.texts : InternRead(store, i) = InternRead(store, j) => i = j
  BY DEF InternInv, InternViewsOK, InternKept
<1> HIDE DEF kept
<1>4. /\ InternViewsOK' /\ InternGood(next) /\ InternIndex(next, kept) # {}
      /\ \A i \in DOMAIN store.texts : i \in DOMAIN next.texts /\ next.texts[i] = store.texts[i] /\ InternRead(next, i) = InternRead(store, i)
  <2>1. CASE InternIndex(store, kept) # {}
    <3>1. next = store
      BY <1>2, <2>1
    <3> QED BY <1>3, <2>1, <3>1 DEF InternViewsOK
  <2>2. CASE InternIndex(store, kept) = {}
    <3> DEFINE pushed == InternPushView(store, kept)
    <3>1. next = pushed
      BY <1>2, <2>2
    <3>2. /\ InternKept(pushed) /\ n \in Nat /\ DOMAIN store.texts = 1..n /\ DOMAIN pushed.texts = 1..(n + 1)
          /\ InternRead(pushed, n + 1) = kept
          /\ \A i \in 1..n : pushed.texts[i] = store.texts[i] /\ InternRead(pushed, i) = InternRead(store, i)
      <4> HIDE DEF pushed
      <4> DEFINE V == internViews
      <4>1. InternKept(V)
        BY <1>3
      <4> HIDE DEF V
      <4>2. pushed = InternPushView(V, kept)
        BY DEF pushed, V
      <4>3. /\ InternKept(pushed) /\ Len(V.texts) \in Nat
            /\ DOMAIN V.texts = 1..Len(V.texts) /\ DOMAIN pushed.texts = 1..(Len(V.texts) + 1)
            /\ InternRead(pushed, Len(V.texts) + 1) = kept
            /\ \A i \in 1..Len(V.texts) : pushed.texts[i] = V.texts[i] /\ InternRead(pushed, i) = InternRead(V, i)
        BY <1>1, <4>1, <4>2, InternViewPushed
      <4> QED BY <4>3 DEF V
    <3> HIDE DEF pushed, n
    <3>3. InternGood(pushed)
      BY <3>2 DEF InternKept
    <3>4. n + 1 \in InternIndex(pushed, kept)
      <4>1. n + 1 \in DOMAIN pushed.texts
        BY <3>2
      <4> QED BY <3>2, <3>3, <4>1, InternHasIndex
    <3>5. \A i \in 1..n : InternRead(store, i) # kept
      <4> SUFFICES ASSUME NEW i \in 1..n, InternRead(store, i) = kept PROVE FALSE
        OBVIOUS
      <4>1. i \in InternIndex(store, kept)
        BY <1>3, <3>2, InternHasIndex
      <4> QED BY <2>2, <4>1
    <3>6. \A i \in 1..(n + 1) : i = n + 1 \/ i \in 1..n
      BY <3>2
    <3>7. \A i, j \in DOMAIN pushed.texts : InternRead(pushed, i) = InternRead(pushed, j) => i = j
      BY <1>3, <3>2, <3>5, <3>6
    <3>8. \A i \in 1..n : i \in 1..(n + 1)
      BY <3>2
    <3> QED BY <3>1, <3>2, <3>3, <3>4, <3>7, <3>8 DEF InternViewsOK
  <2> QED BY <2>1, <2>2
<1>5. InternLabelsOK'
  BY <1>2 DEF InternInv, InternLabelsOK
<1>6. \A a \in internAsked' : InternAskedOK(a, IF a.kind = "view" THEN internViews' ELSE internLabels')
  <2> DEFINE i == Min(InternIndex(next, kept))
             new == [kind |-> "view", text |-> kept, index |-> i, at |-> next.texts[i]]
  <2>1. internAsked' = internAsked \cup {new}
    BY <1>2 DEF InternDone
  <2>2. InternAskedOK(new, next) /\ new.kind = "view"
    <3> DEFINE N == internViews'
               kind == "view"
    <3>1. kind \in {"label", "view"} /\ InternGood(N) /\ InternIndex(N, kept) # {}
      BY <1>4
    <3> HIDE DEF N, kind
    <3>2. InternAskedOK([kind |-> kind, text |-> kept, index |-> Min(InternIndex(N, kept)),
                         at |-> N.texts[Min(InternIndex(N, kept))]], N)
      BY <3>1, InternAnswers
    <3> QED BY <3>2 DEF N, kind
  <2> HIDE DEF new
  <2> SUFFICES ASSUME NEW a \in internAsked' PROVE InternAskedOK(a, IF a.kind = "view" THEN internViews' ELSE internLabels')
    OBVIOUS
  <2>3. CASE a = new
    BY <2>2, <2>3
  <2>4. CASE a \in internAsked
    <3>1. InternAskedOK(a, IF a.kind = "view" THEN internViews ELSE internLabels)
      BY <2>4 DEF InternInv
    <3>2. CASE a.kind # "view"
      BY <3>1, <3>2, <1>2
    <3>3. CASE a.kind = "view"
      <4>1. InternAskedOK(a, store)
        BY <3>1, <3>3
      <4>2. InternAskedOK(a, next)
        BY <1>4, <4>1, <3>3 DEF InternAskedOK
      <4> QED BY <4>2, <3>3
    <3> QED BY <3>2, <3>3
  <2> QED BY <2>1, <2>3, <2>4
<1> QED BY <1>4, <1>5, <1>6 DEF InternInv

LEMMA InternInvariant == InternSpec => []InternInv
<1>1. InternInv /\ UNCHANGED internVars => InternInv'
  BY DEF InternInv, InternLabelsOK, InternViewsOK, internVars
<1>2. InternInv /\ InternNext => InternInv'
  BY InternLabelKeeps, InternViewKeeps DEF InternNext
<1> QED BY <1>1, <1>2, InternStarted, PTL DEF InternSpec

\* Blocks are of their size, and what remains of one is not more than that.
THEOREM InternTypeCorrect == InternSpec => []InternTypeOK
<1>1. InternInv => InternTypeOK
  <2> SUFFICES ASSUME InternInv, NEW store \in {internLabels, internViews}
               PROVE  /\ Len(store.texts) = Len(store.counts) /\ Len(store.remaining) >= Len(store.blocks)
                      /\ \A b \in DOMAIN store.blocks : Len(store.blocks[b]) = InternBlock /\ store.remaining[b] \in 0..InternBlock
    BY DEF InternTypeOK
  <2>1. InternGood(store)
    BY DEF InternInv, InternLabelsOK, InternViewsOK, InternKept
  <2>2. \A b \in DOMAIN store.blocks : store.blocks[b] \in InternBlocks /\ store.remaining[b] \in 0..InternBlock
    BY <2>1, InternStoreHas
  <2>3. \A block \in InternBlocks : Len(block) = InternBlock
    BY InternAssumption DEF InternBlocks
  <2> QED BY <2>1, <2>2, <2>3 DEF InternGood
<1> QED BY <1>1, InternInvariant, PTL

\* What was interned is read where it was put, whatever is interned after it, views under one index, and
\* after saving and loading too, for every size of a block and every number of texts.
THEOREM InternedCorrect == InternSpec => []InternedIsKept
<1>1. InternInv => InternedIsKept
  <2> SUFFICES ASSUME InternInv PROVE InternedIsKept
    OBVIOUS
  <2>1. ASSUME NEW a \in internAsked, a.kind = "view" \/ a.at.block = 1
        PROVE  LET store == IF a.kind = "view" THEN internViews ELSE internLabels
               IN  /\ store.texts[a.index] = a.at /\ InternRead(store, a.index) = a.text
                   /\ a.kind = "view" => InternIndex(store, a.text) = {a.index}
    <3> DEFINE store == IF a.kind = "view" THEN internViews ELSE internLabels
    <3>1. InternAskedOK(a, store)
      BY DEF InternInv
    <3>2. store.texts[a.index] = a.at /\ InternRead(store, a.index) = a.text /\ a.index \in DOMAIN store.texts
      BY <2>1, <3>1 DEF InternAskedOK
    <3>3. ASSUME a.kind = "view" PROVE InternIndex(store, a.text) = {a.index}
      <4> DEFINE S == InternIndex(store, a.text)
      <4>1. store = internViews /\ InternGood(store)
        BY <3>3 DEF InternInv, InternViewsOK, InternKept
      <4>2. \A i, j \in DOMAIN store.texts : InternRead(store, i) = InternRead(store, j) => i = j
        BY <4>1 DEF InternInv, InternViewsOK
      <4> HIDE DEF store
      <4>3. S \subseteq DOMAIN store.texts
        BY DEF InternIndex
      <4>4. \A i \in S : InternRead(store, i) = a.text
        BY DEF InternIndex
      <4>5. a.index \in S
        BY <3>2, <4>1, InternHasIndex
      <4> HIDE DEF S
      <4>6. \A i \in S : i = a.index
        BY <3>2, <4>2, <4>3, <4>4
      <4>7. S = {a.index}
        BY <4>5, <4>6
      <4> QED BY <4>7 DEF S
    <3> QED BY <3>2, <3>3
  <2>2. ASSUME NEW i \in DOMAIN internViews.texts
        PROVE  InternRead(InternReloaded(internViews), i) = InternRead(internViews, i)
    <3> DEFINE store == internViews
    <3>1. InternGood(store) /\ i \in DOMAIN store.texts
      BY DEF InternInv, InternViewsOK, InternKept
    <3> HIDE DEF store
    <3>2. InternCopy(store, Len(store.texts), InternReloaded(store))
      BY <3>1, InternReloads
    <3>3. DOMAIN store.texts = 1..Len(store.texts)
      BY <3>1, InternStoreHas
    <3>4. InternRead(InternReloaded(store), i) = InternRead(store, i)
      BY <3>1, <3>2, <3>3 DEF InternCopy
    <3> QED BY <3>4 DEF store
  <2> QED BY <2>1, <2>2 DEF InternedIsKept
<1> QED BY <1>1, InternInvariant, PTL

----------------------------------------------------------------------------
\* Storage

\* What the library keeps for others is kept: objects as long as something points to them, arrays as
\* their calls mean, views in a stream in their order, files in parts and with a checksum, and texts
\* and views that are interned; however many the calls, and whatever the values.
THEOREM StorageCorrect == StorageSpec => []StorageIsKept
  BY ObjectsLiveCorrect, SharedHoldsCorrect, StreamLoadsCorrect, PodHoldsCorrect, FilesWholeCorrect, SecureLoadsCorrect,
     InternedCorrect, PTL
     DEF StorageSpec, StorageIsKept
=============================================================================
