------------------------------ MODULE Interning ------------------------------
(***************************************************************************)
(* Texts and views kept once (llc/gpk_label_manager.h, gpk_view_manager.h) *)
(* in blocks of a fixed size (gpk_block_container_nts.h,                   *)
(* gpk_block_container.h).  What is interned is found again by its index   *)
(* and by its content, and the address that was given out for it stays     *)
(* good: nothing moves.  A store has the blocks, what remains of each, and *)
(* the address and the size of each of its entries.                        *)
(*                                                                         *)
(* A character is a model value; Nul is the terminator, and what was never *)
(* written is Nul too.                                                     *)
(***************************************************************************)
EXTENDS Integers, Sequences, SequencesExt, FiniteSets, FiniteSetsExt

CONSTANTS
    InternBlock, \* BLOCK_SIZE
    InternTexts, \* what is interned
    InternCalls  \* bound: the calls

Nul == "nul"
ASSUME InternAssumption ==
    /\ InternBlock \in Nat \ {0} /\ InternCalls \in Nat
    /\ \A t \in InternTexts : t \in Seq(UNION {ToSet(u) : u \in InternTexts})

VARIABLES
    internLabels, \* a CLabelManager
    internViews,  \* a CViewManager
    internAsked   \* history: for each kind the texts that were interned, with the index they got

internVars == <<internLabels, internViews, internAsked>>

InternEmptyBlock == [i \in 1..InternBlock |-> Nul]
InternAddress(block, offset) == [block |-> block, offset |-> offset]

----------------------------------------------------------------------------
\* push_sequence: of both containers. A block starts after what does not remain of it.

\* The first block that has room, or none.
InternRoom(store, size) == {b \in DOMAIN store.blocks : store.remaining[b] >= size}
InternWritten(block, offset, text) ==
    [i \in DOMAIN block |-> IF i - offset \in DOMAIN text THEN text[i - offset] ELSE block[i]]
\* What a block has so far after what is taken of it.
InternLeft(store, b, i) ==
    LET at == InternBlock - store.remaining[b] + i IN IF at > InternBlock THEN Nul ELSE store.blocks[b][at]
InternAppended(store, b, offset, text, written) ==
    [store EXCEPT !.blocks[b] = InternWritten(@, offset, written),
                  !.texts = Append(@, InternAddress(b, offset)), !.counts = Append(@, Len(text))]

\* The terminator of a label is written one place after its own, and past the end of a block that
\* it fills, which is not modelled; in a new block it is not written.
\*
\* RemainingSpace grows to a size, and only what is new in it gets the value.
InternResized(remaining, size, value) ==
    [i \in 1..size |-> IF i \in DOMAIN remaining THEN remaining[i] ELSE value]

InternPush(store, text, terminator, extra) ==
    LET size == Len(text) + terminator
        room == InternRoom(store, size)
        new  == Len(store.blocks) + 1
    IN  IF room # {}
        THEN LET b == Min(room)
                 written == IF terminator = 1 THEN text \o <<InternLeft(store, b, Len(text) + 1), Nul>> ELSE text
             IN  InternAppended([store EXCEPT !.remaining[b] = @ - size], b, InternBlock - store.remaining[b], text, written)
        ELSE InternAppended(
                 [store EXCEPT !.blocks = Append(@, InternEmptyBlock),
                               !.remaining = InternResized(@, new + extra, InternBlock - size)], new, 0, text, text)

\* Labels: a place for the terminator, and RemainingSpace is resized to one block too many.
InternPushLabel(store, text) == InternPush(store, text, 1, 1)
BugInternPushView(store, text) == InternPush(store, text, 0, 1)
InternPushView(store, text) == InternPush(store, text, 0, 0)

InternRead(store, i) ==
    LET at == store.texts[i]
    IN  SubSeq(store.blocks[at.block], at.offset + 1, at.offset + store.counts[i])

----------------------------------------------------------------------------
\* Index and View

InternIndex(store, text) ==
    {i \in DOMAIN store.texts : store.counts[i] = Len(text) /\ InternRead(store, i) = text}

InternUntilNul(text) ==
    LET nuls == {i \in DOMAIN text : text[i] = Nul}
        stop == IF nuls = {} THEN Len(text) ELSE Min(nuls) - 1
    IN  SubSeq(text, 1, Min({stop, InternBlock - 1}))

InternEmptyStore == [blocks |-> <<>>, remaining |-> <<>>, texts |-> <<>>, counts |-> <<>>]
InternEmptyLabels == InternPushLabel(InternEmptyStore, <<>>)

InternInit ==
    /\ internLabels = InternEmptyLabels
    /\ internViews = InternEmptyStore
    /\ internAsked = {}

InternDone(kind, store, text) ==
    internAsked' = internAsked \cup
        {[kind |-> kind, text |-> text, index |-> Min(InternIndex(store, text)),
          at |-> store.texts[Min(InternIndex(store, text))]]}

InternLabel(text) ==
    LET kept == InternUntilNul(text)
    IN  /\ internLabels' = IF kept = <<>> \/ InternIndex(internLabels, kept) # {} THEN internLabels
                           ELSE InternPushLabel(internLabels, kept)
        /\ InternDone("label", internLabels', kept)
        /\ UNCHANGED internViews

InternView(text) ==
    LET kept == SubSeq(text, 1, Min({Len(text), InternBlock}))
    IN  /\ text # <<>>
        /\ internViews' = IF InternIndex(internViews, kept) # {} THEN internViews
                          ELSE InternPushView(internViews, kept)
        /\ InternDone("view", internViews', kept)
        /\ UNCHANGED internLabels

\* Save writes the sizes and the content of each entry; Load pushes them again, into a new manager.
InternReloaded(store) ==
    LET loaded[n \in 0..Len(store.texts)] ==
            IF n = 0 THEN InternEmptyStore ELSE InternPushView(loaded[n - 1], InternRead(store, n))
    IN  loaded[Len(store.texts)]

InternNext ==
    /\ Cardinality(internAsked) < InternCalls
    /\ \E text \in InternTexts : InternLabel(text) \/ InternView(text)

InternSpec == InternInit /\ [][InternNext]_internVars

----------------------------------------------------------------------------
\* Properties

InternTypeOK ==
    \A store \in {internLabels, internViews} :
        /\ Len(store.texts) = Len(store.counts) /\ Len(store.remaining) >= Len(store.blocks)
        /\ \A b \in DOMAIN store.blocks : Len(store.blocks[b]) = InternBlock /\ store.remaining[b] \in 0..InternBlock

\* What was interned is still read where it was put, under the index it got, and under no other;
\* a manager loaded from one that was saved has the same entries. Labels are kept so only as long
\* as the first block has room for all of them, or when they are in it.
InternedIsKept ==
    /\ \A a \in internAsked :
           LET store == IF a.kind = "view" THEN internViews ELSE internLabels
           IN  a.kind = "view" \/ a.at.block = 1 =>
                   /\ store.texts[a.index] = a.at /\ InternRead(store, a.index) = a.text
                   /\ a.kind = "view" => InternIndex(store, a.text) = {a.index}
    /\ \A i \in DOMAIN internViews.texts :
           InternRead(InternReloaded(internViews), i) = InternRead(internViews, i)
=============================================================================
