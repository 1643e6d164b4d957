---------------------------- MODULE DryerProgram -----------------------------
(***************************************************************************)
(* The main thread of the filament dryer (dryer/dryer.cpp,                 *)
(* dryer_app_update.cpp, dryer_app_update_home.cpp, dryer_app_modal.cpp):  *)
(* every frame it advances the drying program and then executes at most    *)
(* one control.  A program raises the temperature, and then preheats and   *)
(* dries as many times as it has subcycles.                                *)
(*                                                                         *)
(* The serial thread (DryerSerial) writes the door and the temperature at  *)
(* any time.  Of the temperature only the comparison with the one of the   *)
(* program is kept, made with whatever was reported or simulated last.     *)
(***************************************************************************)
EXTENDS Integers

CONSTANTS
    DryerPrograms, \* the programs of the list: [preheating, drying, subcycles]
    DryerFrames,   \* the milliseconds a frame may take, 0 for one of less than a millisecond
    DryerTags      \* bound: tags scanned and not dealt with

ASSUME DryerAssumption ==
    /\ \A p \in DryerPrograms :
           /\ p.preheating \in Nat /\ p.drying \in Nat /\ p.subcycles \in Nat
    /\ DryerFrames \subseteq Nat /\ DryerFrames # {}
    /\ DryerTags \in Nat

VARIABLES
    dryer,         \* SDryerState and CurrentProgram
    dryerStop,     \* the home screen shows the button that stops, not the one that starts
    dryerModal,    \* the dialog over the screen, "none" when ModalEnabled is false
    dryerScanned,  \* the tags scanned and not dealt with: all have the one UniqueId of the button
    dryerLoaded,   \* the records of the catalog with that UniqueId
    dryerTurn      \* the next half of the frame of the main thread

dryerVars == <<dryer, dryerStop, dryerModal, dryerScanned, dryerLoaded, dryerTurn>>

DryerModals == {"none", "close_door", "scan", "complete", "stop"}
DryerPhases == {"raising", "preheating", "drying"}

DryerInit ==
    /\ \E p \in DryerPrograms :
           dryer = [program |-> p, running |-> FALSE, runPending |-> FALSE, stopPending |-> FALSE,
                    phase |-> "drying", cycle |-> 0, preheating |-> 0, drying |-> 0,
                    remaining |-> 0, pump |-> FALSE, door |-> FALSE]
    /\ dryerStop = FALSE /\ dryerModal = "none"
    /\ dryerScanned = 0 /\ dryerLoaded = 0 /\ dryerTurn = "update"

----------------------------------------------------------------------------
\* dryerUpdate, with what updateScreenHome does on its events

\* STOPPED.  The flag Pump is left as it was.
DryerStopped ==
    /\ dryer.running /\ dryer.stopPending
    /\ dryer' = [dryer EXCEPT !.running = FALSE, !.runPending = FALSE, !.stopPending = FALSE,
                              !.phase = "drying"]
    /\ dryerStop' = FALSE
    /\ UNCHANGED dryerModal

DryerAdvances == dryer.running /\ ~dryer.stopPending /\ dryer.door

DryerRaise ==
    /\ DryerAdvances /\ dryer.phase = "raising"
    /\ \E hot \in BOOLEAN :
           dryer' = IF hot THEN [dryer EXCEPT !.phase = "preheating", !.preheating = 0] ELSE dryer
    /\ UNCHANGED <<dryerStop, dryerModal>>

DryerPreheat(ms) ==
    /\ DryerAdvances /\ dryer.phase = "preheating"
    /\ LET elapsed == dryer.preheating + ms
           done == elapsed >= dryer.program.preheating
       IN  /\ dryer' = [dryer EXCEPT !.remaining = @ - ms, !.preheating = elapsed,
                                     !.phase = IF done THEN "drying" ELSE @,
                                     !.drying = IF done THEN 0 ELSE @,
                                     !.pump = done \/ @]
           /\ dryerStop' = (done \/ dryerStop)
    /\ UNCHANGED dryerModal

BugDryerNextSubcycle(d) == [d EXCEPT !.phase = "preheating", !.pump = FALSE]
DryerNextSubcycle(d) == [d EXCEPT !.phase = "preheating", !.preheating = 0, !.pump = FALSE]

DryerDry(ms) ==
    /\ DryerAdvances /\ dryer.phase = "drying"
    /\ LET d == [dryer EXCEPT !.remaining = @ - ms, !.drying = @ + ms]
           next == [d EXCEPT !.cycle = @ + 1]
       IN  IF d.drying < d.program.drying THEN dryer' = d /\ UNCHANGED <<dryerStop, dryerModal>>
           ELSE IF next.cycle < d.program.subcycles
           THEN dryer' = DryerNextSubcycle(next) /\ UNCHANGED <<dryerStop, dryerModal>>
           ELSE /\ dryer' = [next EXCEPT !.running = FALSE, !.pump = FALSE] \* FINISHED
                /\ dryerStop' = FALSE
                /\ dryerModal' = "complete"

\* STARTED.  The selected program, whichever the user left selected, is copied.
DryerStarted ==
    /\ ~dryer.running /\ dryer.runPending /\ dryer.door
    /\ \E p \in DryerPrograms :
           dryer' = [dryer EXCEPT !.program = p, !.running = TRUE, !.phase = "raising",
                                  !.runPending = FALSE, !.stopPending = FALSE, !.cycle = 0,
                                  !.preheating = 0, !.drying = 0, !.pump = FALSE,
                                  !.remaining = (p.preheating + p.drying) * p.subcycles]
    /\ dryerStop' = TRUE
    /\ dryerModal' = "none"

DryerWaits ==
    /\ IF dryer.running THEN ~dryer.stopPending /\ ~dryer.door ELSE ~(dryer.runPending /\ dryer.door)
    /\ UNCHANGED <<dryer, dryerStop, dryerModal>>

DryerUpdate ==
    /\ dryerTurn = "update"
    /\ dryerTurn' = "gui"
    /\ \/ DryerStopped \/ DryerRaise \/ DryerStarted \/ DryerWaits
       \/ \E ms \in DryerFrames : DryerPreheat(ms) \/ DryerDry(ms)
    /\ UNCHANGED <<dryerScanned, dryerLoaded>>

----------------------------------------------------------------------------
\* handleGUI: the controls that can be executed, by screen.  Each leaves a dialog open.

\* HUD
DryerDoorButton(modal) ==
    /\ dryer' = [dryer EXCEPT !.door = ~@] /\ modal = dryerModal
    /\ UNCHANGED <<dryerScanned, dryerLoaded>>
DryerTagButton(modal) ==
    /\ dryerScanned < DryerTags
    /\ dryerScanned' = dryerScanned + 1 /\ modal = "scan"
    /\ UNCHANGED <<dryer, dryerLoaded>>

\* Modal
DryerModalClosed(modal) ==
    /\ dryerModal \in {"close_door", "complete"} /\ modal = "none"
    /\ dryer' = [dryer EXCEPT !.runPending = FALSE]
    /\ UNCHANGED <<dryerScanned, dryerLoaded>>
DryerStopAnswered(modal) ==
    /\ dryerModal = "stop" /\ modal = "none"
    /\ \E yes \in BOOLEAN : dryer' = [dryer EXCEPT !.stopPending = yes \/ @]
    /\ UNCHANGED <<dryerScanned, dryerLoaded>>
\* LOAD or UNLOAD is shown, whichever can be done; CANCEL always is.
DryerScanAnswered(modal) ==
    /\ dryerModal = "scan" /\ modal = "none"
    /\ \/ /\ dryerLoaded = 0
          /\ dryerLoaded' = dryerLoaded + dryerScanned
       \/ /\ dryerLoaded > 0
          /\ dryerLoaded' = IF dryerScanned > dryerLoaded THEN 0 ELSE dryerLoaded - dryerScanned
       \/ UNCHANGED dryerLoaded
    /\ dryerScanned' = 0
    /\ UNCHANGED dryer

\* Home
DryerStartButton(modal) ==
    /\ dryerModal = "none" /\ ~dryerStop
    /\ IF dryer.running THEN UNCHANGED dryer /\ modal = "none"
       ELSE /\ dryer' = [dryer EXCEPT !.runPending = TRUE]
            /\ modal = IF dryer.door THEN "none" ELSE "close_door"
    /\ UNCHANGED <<dryerScanned, dryerLoaded>>
DryerStopButton(modal) ==
    /\ dryerModal = "none" /\ dryerStop
    /\ modal = IF dryer.running THEN "stop" ELSE "none"
    /\ UNCHANGED <<dryer, dryerScanned, dryerLoaded>>

DryerNoButton(modal) == modal = dryerModal /\ UNCHANGED <<dryer, dryerScanned, dryerLoaded>>

\* While there are tags to deal with their dialog replaces any other.
DryerGui ==
    /\ dryerTurn = "gui"
    /\ dryerTurn' = "update"
    /\ \E modal \in DryerModals :
           /\ \/ DryerDoorButton(modal) \/ DryerTagButton(modal) \/ DryerModalClosed(modal)
              \/ DryerStopAnswered(modal) \/ DryerScanAnswered(modal)
              \/ DryerStartButton(modal) \/ DryerStopButton(modal) \/ DryerNoButton(modal)
           /\ dryerModal' = IF dryerScanned' > 0 THEN "scan" ELSE modal
    /\ UNCHANGED dryerStop

\* The serial thread reports the door.
DryerDoorReported ==
    /\ \E closed \in BOOLEAN : dryer' = [dryer EXCEPT !.door = closed]
    /\ UNCHANGED <<dryerStop, dryerModal, dryerScanned, dryerLoaded, dryerTurn>>

DryerNext == DryerUpdate \/ DryerGui \/ DryerDoorReported

DryerSpec == DryerInit /\ [][DryerNext]_dryerVars

----------------------------------------------------------------------------
\* Properties

DryerTypeOK ==
    /\ dryer \in [program : DryerPrograms, running : BOOLEAN, runPending : BOOLEAN,
                   stopPending : BOOLEAN, phase : DryerPhases, cycle : Nat, preheating : Nat,
                   drying : Nat, remaining : Int, pump : BOOLEAN, door : BOOLEAN]
    /\ dryerStop \in BOOLEAN
    /\ dryerModal \in DryerModals
    /\ dryerScanned \in 0..DryerTags /\ dryerLoaded \in Nat
    /\ dryerTurn \in {"update", "gui"}

\* What the program has left by its own counters: the subcycles and what passed of this phase.
DryerLeft ==
    LET subcycle == dryer.program.preheating + dryer.program.drying
        others == dryer.program.subcycles - dryer.cycle - 1
    IN  CASE dryer.phase = "raising"    -> (others + 1) * subcycle
          [] dryer.phase = "preheating" -> (others + 1) * subcycle - dryer.preheating
          [] dryer.phase = "drying"     -> others * subcycle + dryer.program.drying - dryer.drying
DryerPhasesEnded == 2 * dryer.cycle + (IF dryer.phase = "drying" THEN 1 ELSE 0)

\* A program dries for its whole time: the clock TimeRemaining and the counters of the phases,
\* which are kept apart, differ by at most a frame for each phase that ended (one of no duration
\* takes a frame as well), whatever the door did; and the message that drying is complete stands
\* for a program of which no time was left.  The pump works in the drying phase and in no other; a
\* stop is never left pending for a later program; the button that stops is the one shown as long
\* as there is something to stop.
DryerRunsItsProgram ==
    /\ dryer.running =>
           /\ dryer.remaining <= DryerLeft
           /\ \E ms \in DryerFrames : DryerLeft - dryer.remaining <= DryerPhasesEnded * ms
           /\ dryer.pump <=> dryer.phase = "drying"
    /\ dryerModal = "complete" => ~dryer.running /\ ~dryer.pump /\ dryer.remaining <= 0
    /\ dryer.stopPending => dryer.running
    /\ dryerStop <=> dryer.running
=============================================================================
