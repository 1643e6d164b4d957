---------------------------- MODULE GuiControls ----------------------------
(***************************************************************************)
(* The table of controls of a GUI (llc/gpk_gui.cpp, gpk_gui_control.h,     *)
(* gpk_gui_control_state.h): the tree the controls form, the recycling of  *)
(* the slots of deleted ones, and the flags that a turn of input changes.  *)
(* A call is a step: the GUI is used under the lock of its owner.          *)
(*                                                                         *)
(* Where a control lies on the screen is abstracted: a turn chooses the    *)
(* controls under the cursor.  Updated only says that this layout is up to *)
(* date and is left out; the masks of the controls let every flag through. *)
(***************************************************************************)
EXTENDS Integers, Sequences, SequencesExt, FiniteSetsExt

CONSTANTS
    GuiSlots,   \* bound: slots the table may grow to
    GuiStyled,  \* bound: slots of the controls the program hides or disables
    GuiSelectable   \* bound: slots of the controls the program selects

ASSUME GuiAssumption == GuiSlots \in Nat /\ GuiStyled \cup GuiSelectable \subseteq 1..GuiSlots

GuiFlags == {"Hidden", "Disabled", "Hovered", "Pressed", "Focused", "Selected", "Action"}
GuiUnused == GuiFlags
GuiNone == 0    \* -1

VARIABLES
    guiFlags,       \* the flags of each slot (States[].Flag)
    guiParent,      \* States[].Parent
    guiChildren,    \* Children
    guiButton       \* the button was down in the previous turn

guiVars == <<guiFlags, guiParent, guiChildren, guiButton>>

GuiInit == guiFlags = <<>> /\ guiParent = <<>> /\ guiChildren = <<>> /\ guiButton = FALSE

GuiTable == DOMAIN guiFlags

----------------------------------------------------------------------------
\* What the code asks of a control

GuiIsUnused(c) == guiFlags[c] = GuiUnused
GuiValid(c) == c \in GuiTable /\ ~GuiIsUnused(c)

\* controlHidden, controlDisabled: the control is not valid, or it or one above it has the flag.
RECURSIVE GuiHas(_, _)
GuiHas(flag, c) ==
    \/ ~GuiValid(c) \/ flag \in guiFlags[c]
    \/ GuiValid(guiParent[c]) /\ GuiHas(flag, guiParent[c])

\* The control and what controlDelete reaches through the lists of children.
RECURSIVE GuiBelow(_)
GuiBelow(c) == {c} \cup UNION {GuiBelow(child) : child \in Range(guiChildren[c])}

\* remove_unordered: the last element takes the place of the removed one.
GuiRemoveUnordered(s, c) ==
    LET last == Len(s)
    IN  [k \in 1..last - 1 |-> IF s[k] = c THEN s[last] ELSE s[k]]

\* Nothing sets Focused but SetUnused: it marks the slots of deleted controls even after other
\* flags have been cleared from them.  The program names only controls it has not deleted.
GuiLive == {c \in GuiTable : "Focused" \notin guiFlags[c]}

----------------------------------------------------------------------------
\* The operations of the program

\* controlCreate: the first unused slot, or a new one.
GuiCreate ==
    /\ LET unused == {c \in GuiTable : GuiIsUnused(c)}
       IN  IF unused # {}
           THEN LET c == CHOOSE c \in unused : \A other \in unused : c <= other
                IN  /\ guiFlags' = [guiFlags EXCEPT ![c] = {}]
                    /\ guiParent' = [guiParent EXCEPT ![c] = GuiNone]
                    /\ guiChildren' = [guiChildren EXCEPT ![c] = <<>>]
           ELSE /\ Len(guiFlags) < GuiSlots
                /\ guiFlags' = Append(guiFlags, {})
                /\ guiParent' = Append(guiParent, GuiNone)
                /\ guiChildren' = Append(guiChildren, <<>>)
    /\ UNCHANGED guiButton

BugGuiKeepsOldParent(c, parent) ==
    /\ parent \notin GuiBelow(c) /\ guiParent[c] # parent
    /\ guiParent' = [guiParent EXCEPT ![c] = parent]
    /\ guiChildren' = [guiChildren EXCEPT ![parent] = Append(@, c)]
    /\ UNCHANGED <<guiFlags, guiButton>>
\* controlSetParent: no caller takes a parent away, or makes a cycle (which nothing refuses).
GuiSetParent(c, parent) ==
    /\ parent \notin GuiBelow(c) /\ guiParent[c] # parent
    /\ guiParent' = [guiParent EXCEPT ![c] = parent]
    /\ LET former == guiParent[c]
           left == IF ~GuiValid(former) THEN guiChildren
                   ELSE [guiChildren EXCEPT ![former] = RemoveFirst(@, c)]
       IN  guiChildren' = IF Contains(left[parent], c) THEN left
                          ELSE [left EXCEPT ![parent] = Append(@, c)]
    /\ UNCHANGED <<guiFlags, guiButton>>

BugGuiDeletesAlone(c) ==
    /\ guiFlags' = [guiFlags EXCEPT ![c] = GuiUnused]
    /\ guiChildren' = IF ~GuiValid(guiParent[c]) THEN guiChildren
                      ELSE [guiChildren EXCEPT ![guiParent[c]] = GuiRemoveUnordered(@, c)]
    /\ UNCHANGED <<guiParent, guiButton>>
\* controlDelete: what is below goes first, each control leaving the list of its parent, which
\* it still names afterwards.
GuiDelete(c) ==
    LET deleted == GuiBelow(c)
        kept(list) == SelectSeq(list, LAMBDA child : child \notin deleted)
    IN  /\ guiFlags' = [d \in GuiTable |-> IF d \in deleted THEN GuiUnused ELSE guiFlags[d]]
        /\ guiChildren' = [p \in GuiTable |->
               IF p \in deleted THEN kept(guiChildren[p])
               ELSE IF p = guiParent[c] /\ GuiValid(p) /\ Contains(guiChildren[p], c)
               THEN GuiRemoveUnordered(guiChildren[p], c)
               ELSE guiChildren[p]]
        /\ UNCHANGED <<guiParent, guiButton>>

\* SetHidden, SetDisabled
GuiStyle(c, flag, value) ==
    /\ guiFlags' = [guiFlags EXCEPT ![c] = IF value THEN @ \cup {flag} ELSE @ \ {flag}]
    /\ UNCHANGED <<guiParent, guiChildren, guiButton>>

\* guiSelect and guiDeselect write every slot, unused or not.
GuiSelect(selected) ==
    /\ guiFlags' = [c \in GuiTable |->
           IF c = selected THEN guiFlags[c] \cup {"Selected"} ELSE guiFlags[c] \ {"Selected"}]
    /\ UNCHANGED <<guiParent, guiChildren, guiButton>>

----------------------------------------------------------------------------
\* guiProcessInput: a turn, with the controls under the cursor and the state of the button.

\* setPressed(false): what is let go while hovered acts.
GuiLetGo(flags) ==
    (flags \ {"Pressed"}) \cup (IF {"Pressed", "Hovered"} \subseteq flags THEN {"Action"} ELSE {})

\* guiProcessInput starts from the roots that are neither hidden nor disabled themselves.
GuiRoots ==
    SelectSeq([c \in GuiTable |-> c],
        LAMBDA c : ~GuiValid(guiParent[c]) /\ "Disabled" \notin guiFlags[c] /\ ~GuiHas("Hidden", c))

\* The last of a sequence of controls other than none.
GuiLastOf(hits) ==
    LET found == SelectSeq(hits, LAMBDA hit : hit # GuiNone)
    IN  IF found = <<>> THEN GuiNone ELSE Last(found)

\* updateGUIControlHovered: the control that takes the cursor, as controlProcessInput returns it,
\* the children first and the last of them that has one.
RECURSIVE GuiHit(_, _)
GuiHitBelow(c, cursor) ==
    GuiLastOf([k \in DOMAIN guiChildren[c] |->
        IF GuiHas("Hidden", guiChildren[c][k]) THEN GuiNone ELSE GuiHit(guiChildren[c][k], cursor)])
GuiHit(c, cursor) ==
    LET below == GuiHitBelow(c, cursor)
    IN  IF below # GuiNone THEN below
        ELSE IF c \in cursor /\ ("Hovered" \in guiFlags[c] \/ ~GuiHas("Disabled", c)) THEN c
        ELSE GuiNone

\* controlProcessInput reaches what is below a root through controls that are not hidden.
RECURSIVE GuiReached(_)
GuiReached(c) ==
    /\ GuiValid(c) /\ ~GuiHas("Hidden", c)
    /\ IF GuiValid(guiParent[c]) THEN GuiReached(guiParent[c]) ELSE Contains(GuiRoots, c)

\* What controlProcessInput leaves of the flags of a control it reaches.
GuiVisited(c, cursor, press, release) ==
    LET flags == guiFlags[c] \ {"Action"}
        below == GuiHitBelow(c, cursor) # GuiNone
        left == (IF below THEN GuiLetGo(flags) ELSE flags) \ {"Hovered"}
    IN  IF below \/ c \notin cursor THEN IF release THEN left \ {"Pressed"} ELSE left
        ELSE IF "Hovered" \notin flags
        THEN IF GuiHas("Disabled", c) THEN flags ELSE flags \cup {"Hovered"}
        ELSE IF press /\ "Pressed" \notin flags THEN flags \cup {"Pressed"}
        ELSE IF release THEN GuiLetGo(flags)
        ELSE flags

\* The flags that a turn leaves: in the end every slot but that of the hovered control is left,
\* unused ones too.
GuiTurned(cursor, down) ==
    LET hovered == GuiLastOf([k \in DOMAIN GuiRoots |-> GuiHit(GuiRoots[k], cursor)])
        visited(c) ==
            IF GuiReached(c) THEN GuiVisited(c, cursor, down /\ ~guiButton, ~down /\ guiButton)
            ELSE IF GuiIsUnused(c) THEN guiFlags[c] ELSE guiFlags[c] \ {"Action"}
        left(flags) == flags \ (IF down THEN {"Hovered"} ELSE {"Hovered", "Pressed"})
    IN  [c \in GuiTable |-> IF c = hovered THEN visited(c) ELSE left(visited(c))]

BugGuiKeepsHovered(cursor, down) ==
    /\ guiFlags' = [c \in GuiTable |->
           IF GuiReached(c) THEN GuiVisited(c, cursor, down /\ ~guiButton, ~down /\ guiButton)
           ELSE IF GuiIsUnused(c) THEN guiFlags[c] ELSE guiFlags[c] \ {"Action"}]
    /\ guiButton' = down
    /\ UNCHANGED <<guiParent, guiChildren>>
BugGuiActsAnyway(cursor, down) ==
    /\ guiFlags' = [c \in GuiTable |->
           IF c \in cursor /\ ~down /\ guiButton THEN guiFlags[c] \cup {"Action"}
           ELSE guiFlags[c] \ {"Hovered", "Action"}]
    /\ guiButton' = down
    /\ UNCHANGED <<guiParent, guiChildren>>
GuiTurn(cursor, down) ==
    /\ guiFlags' = GuiTurned(cursor, down)
    /\ guiButton' = down
    /\ UNCHANGED <<guiParent, guiChildren>>

----------------------------------------------------------------------------
GuiNext ==
    \/ GuiCreate
    \/ \E c, parent \in GuiLive : GuiSetParent(c, parent)
    \/ \E c \in GuiLive : GuiDelete(c)
    \/ \E c \in GuiLive \cap GuiStyled, flag \in {"Hidden", "Disabled"}, value \in BOOLEAN : GuiStyle(c, flag, value)
    \/ \E c \in (GuiLive \cap GuiSelectable) \cup {GuiNone} : GuiSelect(c)
    \/ \E cursor \in SUBSET GuiLive, down \in BOOLEAN : GuiTurn(cursor, down)

----------------------------------------------------------------------------
\* Properties

GuiTypeOK ==
    /\ Len(guiFlags) <= GuiSlots /\ DOMAIN guiParent = GuiTable /\ DOMAIN guiChildren = GuiTable
    /\ \A c \in GuiTable :
           /\ guiFlags[c] \subseteq GuiFlags /\ guiParent[c] \in GuiTable \cup {GuiNone}
           /\ Range(guiChildren[c]) \subseteq GuiTable
    /\ guiButton \in BOOLEAN

\* Parents and lists of children agree: a control that names a live parent is listed by it once,
\* and what a control lists is live and names it.  A deleted control is listed nowhere, even when
\* the slot of the parent it still names is that of another control.
GuiTreeAgrees ==
    \A p \in GuiLive :
        /\ IsInjective(guiChildren[p])
        /\ Range(guiChildren[p]) = {c \in GuiLive : guiParent[c] = p}

\* The cursor is one: at most one live control is hovered, and at most one pressed.
GuiOnePointer ==
    \A flag \in {"Hovered", "Pressed"} :
        Cardinality({c \in GuiLive : flag \in guiFlags[c]}) <= 1

\* Whatever is created, moved and deleted while the cursor turns, the tree and the flags agree.
GuiControlsAgree == GuiTreeAgrees /\ GuiOnePointer

\* A control acts only when it was hovered and pressed, and by being let go: the button came up,
\* or a control below it came under the cursor, which then hovers that one or another.
GuiActionIsEarned ==
    [][\A c \in GuiTable :
           ("Action" \notin guiFlags[c] /\ "Action" \in guiFlags'[c] /\ "Focused" \notin guiFlags'[c]) =>
               /\ {"Hovered", "Pressed"} \subseteq guiFlags[c]
               /\ "Pressed" \notin guiFlags'[c]
               /\ \/ guiButton /\ ~guiButton'
                  \/ guiChildren[c] # <<>> /\ \E d \in GuiTable \ {c} : "Hovered" \in guiFlags'[d]]_guiVars
=============================================================================
