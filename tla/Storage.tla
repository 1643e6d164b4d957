------------------------------ MODULE Storage ------------------------------
(***************************************************************************)
(* The parts of the library that keep something for their caller, side by  *)
(* side: they share no state, and each may be called at any time.          *)
(***************************************************************************)
EXTENDS SharedObjects, ViewSerialize, ArrayPod, Files, Interning

StorageSpec == SharedSpec /\ StreamSpec /\ PodSpec /\ FilesSpec /\ SecureSpec /\ InternSpec

\* What was given to be kept is what is found again: objects live exactly as long as something points
\* to them, and arrays of pointers and of values hold what the calls on them mean; views load from a
\* stream in the order they were saved in, wherever it is cut; a file that was split is whole in its
\* parts, and joined from the second of them on; a file with a checksum loads as it was saved or is
\* refused; texts and views that are interned stay where they were put.
StorageIsKept ==
    /\ ObjectsLiveWhileShared /\ SharedHoldsWhatIsMeant
    /\ StreamLoadsInOrder
    /\ PodHoldsWhatIsMeant
    /\ FilesSplitIsWhole /\ FilesJoinTheRest
    /\ SecureLoadsWhatWasSaved
    /\ InternedIsKept
=============================================================================
