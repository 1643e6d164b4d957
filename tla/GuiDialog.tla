----------------------------- MODULE GuiDialog -----------------------------
(***************************************************************************)
(* The controls of a dialog (llc/gpk_dialog.cpp, gpk_dialog_controls.h)    *)
(* and the input box (llc/gpk_gui_inputbox.h), a frame at a time as        *)
(* gpk_gui_example.cpp runs them: the input of the window goes through the *)
(* table of controls (GuiTurn of GuiControls), then the box reads the keys *)
(* and the dialog updates what the controls stand for.                     *)
(*                                                                         *)
(* A behaviour has one of them on the screen, and the pointer at one of a  *)
(* few places.  Nothing in the repository deletes a control of a dialog,   *)
(* and the keyboard on the screen is created before any slot is free, so   *)
(* that its controls number its keys.                                      *)
(***************************************************************************)
EXTENDS GuiControls

CONSTANTS
    DialogTuners,  \* [min, max]: ValueLimits
    DialogSliders, \* [min, max, start, track, handle]: ValueLimits, ValueCurrent, the width of each control
    DialogWord,    \* the values that fit the type of a tuner, 256 for uint8_t
    DialogHeights, \* of a viewport when it is set up
    DialogLetters,
    DialogNames,   \* texts given to the box
    DialogMaxLength

ASSUME DialogAssumption ==
    /\ \A tuner \in DialogTuners : 0 < tuner.min /\ tuner.min < tuner.max /\ tuner.max < DialogWord - 1
    /\ \A slider \in DialogSliders : slider.min < slider.max /\ slider.handle < slider.track

DialogTitle == 4    \* the height of the title (heightOfField)
DialogSpacing == 2  \* controlNCSpacing of the viewport

VARIABLES
    dialogKind,     \* what is on the screen
    dialogPointer,  \* the place of the pointer
    dialogValue,    \* ValueCurrent of a tuner or a slider, Checked of a box
    dialogSlider,   \* the slider, with the offset of its button
    dialogView,     \* SDialogViewport: [unfolded, old, dragging, main, client]
    dialogMoved,    \* the pointer moved since the title was pressed (not in the code)
    dialogInput     \* SInputBox: [text, editing], the text its control shows, the title it last confirmed

dialogOwnVars == <<dialogKind, dialogPointer, dialogValue, dialogSlider, dialogView, dialogMoved, dialogInput>>
dialogVars == <<dialogOwnVars, guiVars>>

\* The controls of each, by the parents they have.
DialogControls(kind) ==
    CASE kind = "tuner" -> <<GuiNone, 1, 1>>    \* IdGUIControl, IdDecrease, IdIncrease
      [] kind = "slider" -> <<GuiNone, 1>>      \* IdGUIControl, IdButton
      [] kind = "check" -> <<GuiNone>>
      [] kind = "view" -> <<GuiNone, 1, 1>>     \* IdGUIControl, IdClient, IdTitle
      [] OTHER -> <<>>

----------------------------------------------------------------------------
\* Tuners and sliders

DialogClamp(value, min, max) == IF value < min THEN min ELSE IF value > max THEN max ELSE value

BugDialogTuned(tuner, value) == IF value > tuner.max THEN tuner.min ELSE value
\* SDialogTuner::SetValue; the argument is converted to the type of the value.
DialogTuned(tuner, value) == DialogClamp(value % DialogWord, tuner.min, tuner.max)

\* Conversion to an integer drops the fraction.
DialogTruncated(a, b) == IF a < 0 THEN -((-a) \div b) ELSE a \div b

DialogTrack(slider) == slider.track - slider.handle

\* sliderSetValue
DialogSlid(slider, value) ==
    LET new == DialogClamp(value, slider.min, slider.max)
    IN  [slider EXCEPT !.value = new,
             !.offset = DialogTruncated(DialogTrack(slider) * (new - slider.min), slider.max - slider.min)]

DialogPage(slider) ==
    LET range == slider.max - slider.min IN Max({1, IF range > 10 THEN range \div 10 ELSE range \div 2})

BugDialogDragged(slider, place) == DialogSlid(slider, DialogTruncated(place * (slider.max - slider.min), slider.track))
\* sliderUpdate while the button is held: the middle of the button follows the pointer.
DialogDragged(slider, place) ==
    LET unit == 2 * DialogTrack(slider)
    IN  DialogSlid(slider, DialogTruncated((2 * place - slider.handle) * (slider.max - slider.min) + unit * slider.min, unit))

\* sliderUpdate, with the flags of this turn.
DialogSliderUpdated(slider, flags, place, moved, pressedNow) ==
    IF "Pressed" \in flags[2]
    THEN IF moved THEN DialogDragged(slider, place) ELSE slider
    ELSE IF pressedNow /\ "Pressed" \in flags[1]
    THEN DialogSlid(slider, slider.value + (IF place > slider.offset THEN DialogPage(slider) ELSE -DialogPage(slider)))
    ELSE slider

----------------------------------------------------------------------------
\* Viewports

DialogUnfolded(view) == [view EXCEPT !.unfolded = TRUE, !.main = view.client + DialogTitle + DialogSpacing + 1]
BugDialogFold(view, fold) ==
    IF fold /\ view.unfolded THEN [view EXCEPT !.unfolded = FALSE, !.main = DialogTitle + DialogSpacing, !.client = 0]
    ELSE IF ~fold /\ ~view.unfolded THEN DialogUnfolded(view)
    ELSE view
\* viewportFold
DialogFold(view, fold) ==
    IF fold /\ view.unfolded THEN [view EXCEPT !.unfolded = FALSE, !.main = DialogTitle + DialogSpacing]
    ELSE IF ~fold /\ ~view.unfolded THEN DialogUnfolded(view)
    ELSE view

BugDialogViewUpdated(view, flags, moved) ==
    LET clicked == "Pressed" \notin flags[3] /\ "Action" \in flags[3]
        folded == IF clicked THEN DialogFold(view, view.unfolded) ELSE view
    IN  [folded EXCEPT !.old = folded.unfolded, !.client = IF folded.unfolded THEN folded.main - DialogSpacing - (DialogTitle + 1) ELSE @]
\* viewportUpdate
DialogViewUpdated(view, flags, moved) ==
    LET pressed == "Pressed" \in flags[3]
        folded == IF ~pressed /\ "Action" \in flags[3] /\ ~view.dragging THEN DialogFold(view, view.unfolded) ELSE view
        fits == folded.unfolded /\ folded.unfolded # folded.old
    IN  [folded EXCEPT
             !.dragging = IF pressed THEN @ \/ moved ELSE FALSE,
             !.client = IF fits THEN folded.main - DialogSpacing - (DialogTitle + 1) ELSE @,
             !.old = folded.unfolded]

----------------------------------------------------------------------------
\* Frames

\* The controls under each place of the pointer; those of a folded viewport end with its title.
DialogUnder(place) ==
    CASE dialogKind = "tuner" -> (<<{1, 2}, {1}, {1, 3}, {}>>)[place]
      [] dialogKind = "check" -> (<<{1}, {}>>)[place]
      [] dialogKind = "view" -> (<<{1, 3}, IF dialogView.unfolded THEN {1, 2} ELSE {}, {}>>)[place]
      [] OTHER -> {c \in 1..2 : /\ place >= (IF c = 1 THEN 0 ELSE dialogSlider.offset)
                                /\ place < (IF c = 1 THEN dialogSlider.track ELSE dialogSlider.offset + dialogSlider.handle)}

DialogPlaces(kind, slider) ==
    CASE kind = "slider" -> -1..slider.track [] kind = "input" -> {1} [] OTHER -> 1..(CASE kind = "tuner" -> 4 [] kind = "check" -> 2 [] kind = "view" -> 3)

DialogNoSlider == [min |-> 0, max |-> 1, value |-> 0, offset |-> 0, track |-> 2, handle |-> 1]
DialogNoView == [unfolded |-> FALSE, old |-> FALSE, dragging |-> FALSE, main |-> 0, client |-> 0]

DialogKinds == {"tuner", "slider", "check", "view", "input"}

\* What viewportCreate and the setup of the program leave: the first update gives the client its size.
DialogInit(kind) ==
    /\ dialogKind = kind
    /\ guiParent = DialogControls(dialogKind)
    /\ guiFlags = [c \in DOMAIN guiParent |-> {}]
    /\ guiChildren = [c \in DOMAIN guiParent |-> SetToSortSeq({d \in DOMAIN guiParent : guiParent[d] = c}, <)]
    /\ guiButton = FALSE
    /\ dialogSlider \in IF dialogKind # "slider" THEN {DialogNoSlider}
                        ELSE {[min |-> s.min, max |-> s.max, value |-> s.start, offset |-> 0, track |-> s.track, handle |-> s.handle] : s \in DialogSliders}
    /\ dialogPointer = (IF dialogKind = "slider" THEN -1 ELSE Max(DialogPlaces(dialogKind, DialogNoSlider)))
    /\ \/ dialogKind = "tuner" /\ dialogValue \in {[limits |-> tuner, of |-> DialogTuned(tuner, 0)] : tuner \in DialogTuners}
       \/ dialogKind # "tuner" /\ dialogValue = [limits |-> <<>>, of |-> 0]
    /\ dialogView \in IF dialogKind # "view" THEN {DialogNoView}
                      ELSE {[DialogNoView EXCEPT !.unfolded = TRUE, !.main = h, !.client = 2] : h \in DialogHeights}
    /\ dialogMoved = FALSE
    /\ dialogInput = [text |-> <<>>, editing |-> FALSE, shown |-> <<>>, title |-> <<>>]

\* updateFramework and SDialog::Update: the pointer goes to a place, the button is down or not.  A
\* button beside the viewport may have acted, which folds or unfolds it before its update.
DialogFrame(place, down, moved, folds) ==
    LET flags == GuiTurned(DialogUnder(place), down)
        view == IF folds THEN DialogFold(dialogView, dialogView.unfolded) ELSE dialogView
    IN  /\ dialogKind # "input"
        /\ place # dialogPointer => moved
        /\ folds => /\ dialogKind = "view" /\ place = 3 /\ guiButton /\ ~down
                    /\ \A c \in GuiTable : "Pressed" \notin guiFlags[c]
        /\ dialogView' = IF dialogKind = "view" THEN DialogViewUpdated(view, flags, moved) ELSE dialogView
        /\ guiFlags' = IF dialogKind = "view" /\ dialogView'.unfolded # dialogView.unfolded
                       THEN [flags EXCEPT ![2] = IF dialogView'.unfolded THEN @ \ {"Hidden"} ELSE @ \cup {"Hidden"}]
                       ELSE flags
        /\ dialogSlider' = IF dialogKind = "slider" THEN DialogSliderUpdated(dialogSlider, flags, place, moved, down /\ ~guiButton) ELSE dialogSlider
        /\ dialogValue' = CASE dialogKind = "tuner" /\ "Action" \in flags[2] -> [dialogValue EXCEPT !.of = DialogTuned(dialogValue.limits, @ - 1)]
                            [] dialogKind = "tuner" /\ "Action" \in flags[3] -> [dialogValue EXCEPT !.of = DialogTuned(dialogValue.limits, @ + 1)]
                            [] dialogKind = "check" /\ "Action" \in flags[1] -> [dialogValue EXCEPT !.of = 1 - @]
                            [] OTHER -> dialogValue
        /\ dialogMoved' = (dialogKind = "view" /\ "Pressed" \in flags[3] /\ (dialogMoved \/ moved))
        /\ dialogPointer' = place
        /\ guiButton' = down
        /\ UNCHANGED <<dialogKind, dialogInput, guiParent, guiChildren>>

----------------------------------------------------------------------------
\* The input box

BugInputTyped(box, key) ==
    CASE key = "backspace" -> [box EXCEPT !.text = IF @ = <<>> THEN @ ELSE Front(@)]
      [] key = "clear" -> [box EXCEPT !.text = <<>>, !.shown = <<>>]
      [] key = "escape" -> [box EXCEPT !.editing = FALSE]
      [] key = "enter" -> box
      [] OTHER -> [box EXCEPT !.text = Append(@, key), !.shown = Append(box.text, key)]
\* What SInputBox::Update does with a key of the window or of the keyboard on the screen.
InputTyped(box, key) ==
    LET shows(text) == [box EXCEPT !.text = text, !.shown = text]
    IN  CASE key = "backspace" -> IF box.text = <<>> THEN box ELSE shows(Front(box.text))
          [] key = "clear" -> shows(<<>>)
          [] key = "escape" -> [box EXCEPT !.editing = FALSE]
          [] key = "enter" -> box
          [] OTHER -> IF Len(box.text) < DialogMaxLength THEN shows(Append(box.text, key)) ELSE box

InputKeys == {"escape", "enter", "backspace", "clear"}

\* SInputBox::Update: a letter pressed on the screen goes before the keys of the window, another key
\* after them; an enter among them makes the program take the text and close the box.
InputFrame(screen, keys) ==
    LET typed == (IF screen \in DialogLetters THEN <<screen>> ELSE <<>>) \o keys \o (IF screen \in InputKeys THEN <<screen>> ELSE <<>>)
        box == FoldLeft(InputTyped, dialogInput, typed)
    IN  /\ dialogKind = "input" /\ dialogInput.editing
        /\ dialogInput' = IF Contains(typed, "enter") THEN [box EXCEPT !.title = box.text, !.editing = FALSE] ELSE box
        /\ UNCHANGED <<dialogKind, dialogPointer, dialogValue, dialogSlider, dialogView, dialogMoved, guiVars>>

\* SInputBox::SetText and Edit: the program gives a text, of any length, and opens the box.
InputOpen(name) ==
    /\ dialogKind = "input" /\ ~dialogInput.editing
    /\ dialogInput' = [dialogInput EXCEPT !.text = name, !.shown = name, !.editing = TRUE]
    /\ UNCHANGED <<dialogKind, dialogPointer, dialogValue, dialogSlider, dialogView, dialogMoved, guiVars>>

DialogNext ==
    \/ \E place \in DialogPlaces(dialogKind, dialogSlider), down, moved, folds \in BOOLEAN : DialogFrame(place, down, moved, folds)
    \/ \E screen \in DialogLetters \cup InputKeys \cup {"none"},
          keys \in {<<>>} \cup {<<k>> : k \in DialogLetters \cup InputKeys} \cup {<<k, l>> : k, l \in DialogLetters \cup InputKeys} :
           InputFrame(screen, keys)
    \/ \E name \in DialogNames : InputOpen(name)

----------------------------------------------------------------------------
\* Properties

DialogTypeOK ==
    /\ dialogPointer \in DialogPlaces(dialogKind, dialogSlider) /\ dialogMoved \in BOOLEAN
    /\ \A c \in GuiTable : guiFlags[c] \subseteq GuiFlags
    /\ dialogKind = "view" => dialogView.main \in Nat /\ dialogView.client \in Nat

\* A viewport that is folded and unfolded, by its title or by a button, has the size it was given,
\* its client area fills it, and what is hidden is what is folded.
DialogFoldingKeepsSize ==
    dialogKind = "view" =>
        /\ dialogView.unfolded => dialogView.main \in DialogHeights
        /\ dialogView.unfolded /\ dialogView.old => dialogView.main = dialogView.client + DialogTitle + DialogSpacing + 1
        /\ ~dialogView.unfolded => dialogView.main = DialogTitle + DialogSpacing
        /\ ("Hidden" \in guiFlags[2]) <=> ~dialogView.unfolded

\* The box shows the text that an enter would confirm, and typing never makes it longer than it may
\* be: only a name that was given is.
DialogShowsWhatIsTyped ==
    dialogKind = "input" =>
        /\ dialogInput.editing => dialogInput.shown = dialogInput.text
        /\ Len(dialogInput.text) <= DialogMaxLength \/ \E name \in DialogNames : IsPrefix(dialogInput.text, name)

\* What a control stands for follows the pointer: a tuner goes one step within its limits for each
\* click on its buttons, a box changes with each click, a slider that is held is under the pointer,
\* as near as its values are, or at an end, and a title that was dragged does not fold its viewport.
DialogFollowsThePointer ==
    [][LET clicked(c) == guiButton /\ ~guiButton' /\ {"Hovered", "Pressed"} \subseteq guiFlags[c] /\ c \in DialogUnder(dialogPointer')
           step == dialogSlider.track \div (dialogSlider.max - dialogSlider.min) + 1
           wanted == dialogPointer' - dialogSlider.handle \div 2
       IN  /\ dialogKind = "tuner" =>
                  dialogValue'.of = IF clicked(2) THEN Max({dialogValue.of - 1, dialogValue.limits.min})
                                    ELSE IF clicked(3) THEN Min({dialogValue.of + 1, dialogValue.limits.max}) ELSE dialogValue.of
           /\ dialogKind = "check" => (dialogValue' # dialogValue <=> clicked(1))
           /\ dialogKind = "slider" /\ dialogPointer' # dialogPointer /\ "Pressed" \in guiFlags'[2] =>
                  LET kept == DialogClamp(wanted, 0, DialogTrack(dialogSlider))
                  IN  dialogSlider'.offset \in (kept - step)..(kept + step)
           /\ dialogKind = "view" /\ dialogMoved /\ ~dialogMoved' => dialogView'.unfolded = dialogView.unfolded]_dialogVars
=============================================================================
