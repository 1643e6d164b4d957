---------------------------- MODULE DryerSerial ------------------------------
(***************************************************************************)
(* The serial thread of the filament dryer (updateSerial and               *)
(* processStatusArg of dryer/dryer_serial.cpp over smart/s3d_serial.cpp)   *)
(* and the device at the other end of the port.  The thread asks for the   *)
(* status again and again; the pump is corrected when the status received  *)
(* differs from the flag Pump, and restored when the device was reset.     *)
(*                                                                         *)
(* The main thread (DryerProgram) writes Pump at any time, under no lock.  *)
(* The device is external: it executes what it is sent in order, and its   *)
(* answers may come after the time limit of the read, for the next one.    *)
(*                                                                         *)
(* Of a status only the reset and pump fields are kept: the door and the   *)
(* temperature are the reports of DryerProgram.                            *)
(***************************************************************************)
EXTENDS Integers, Sequences

CONSTANT SerialPending \* bound: commands and answers in the port

ASSUME SerialAssumption == SerialPending \in Nat \ {0}

VARIABLES
    serialPump,    \* State.Pump
    serialDryer,   \* State.Dryer: the dryer answers
    serialPort,    \* "closed", "open", or "broken": an open port of which every use fails
    serialAt,      \* the next step of the thread
    serialStatus,  \* the status being processed
    serialOut,     \* the commands in the port
    serialIn,      \* the answers in the port
    devicePump,    \* the device pumps
    deviceReset    \* the device was reset and nobody acknowledged it

serialVars == <<serialPump, serialDryer, serialPort, serialAt, serialStatus, serialOut, serialIn,
                devicePump, deviceReset>>

SerialStatuses == [reset : BOOLEAN, pump : BOOLEAN]
SerialCommands == {"STATUS", "ON", "OFF", "ACK"}
SerialSteps == {"ask", "read", "reset", "restore", "restore_ON", "restore_OFF", "pump", "ON", "OFF"}

SerialInit ==
    /\ serialPump = FALSE /\ serialDryer = FALSE
    /\ serialPort = "closed" /\ serialAt = "ask"
    /\ serialStatus = [reset |-> FALSE, pump |-> FALSE]
    /\ serialOut = <<>> /\ serialIn = <<>>
    /\ devicePump = FALSE /\ deviceReset = FALSE

----------------------------------------------------------------------------
\* s3d_serial

\* serialWrite: fails when the port does.
SerialWrite(command) ==
    serialOut' = IF serialPort = "open" THEN Append(serialOut, command) ELSE serialOut

\* serialOpen; it fails when there is no port.
SerialOpen ==
    /\ serialPort = "closed" /\ serialAt = "ask"
    /\ serialDryer' = FALSE
    /\ serialPort' \in {"closed", "open"}
    /\ UNCHANGED <<serialPump, serialAt, serialStatus, serialOut, serialIn, devicePump, deviceReset>>

\* serialClose, after a write or a read failed
SerialClose ==
    /\ serialPort' = "closed" /\ serialAt' = "ask"
    /\ serialOut' = <<>> /\ serialIn' = <<>>

----------------------------------------------------------------------------
\* updateSerial

SerialAsk ==
    /\ serialAt = "ask"
    /\ \/ /\ serialPort = "open" /\ Len(serialOut) + Len(serialIn) < SerialPending
          /\ SerialWrite("STATUS")
          /\ serialAt' = "read"
          /\ UNCHANGED <<serialPort, serialIn>>
       \/ serialPort = "broken" /\ SerialClose
    /\ UNCHANGED <<serialPump, serialDryer, serialStatus, devicePump, deviceReset>>

\* A read that ends with its time limit returns no field, and the round ends with it.
SerialRead ==
    /\ serialAt = "read"
    /\ \/ /\ serialPort = "open" /\ serialIn # <<>>
          /\ serialStatus' = Head(serialIn) /\ serialIn' = Tail(serialIn)
          /\ serialAt' = "reset"
          /\ UNCHANGED <<serialDryer, serialPort, serialOut>>
       \/ /\ serialPort = "open" /\ serialIn = <<>> /\ Len(serialOut) < SerialPending
          /\ serialAt' = "ask"
          /\ serialDryer' = TRUE
          /\ UNCHANGED <<serialStatus, serialPort, serialOut, serialIn>>
       \/ serialPort = "broken" /\ SerialClose /\ UNCHANGED <<serialDryer, serialStatus>>
    /\ UNCHANGED <<serialPump, devicePump, deviceReset>>

\* 'R': acknowledges, then restores the pump; the flag is read before the command is sent.
SerialReset ==
    /\ serialAt = "reset"
    /\ IF serialStatus.reset THEN SerialWrite("ACK") /\ serialAt' = "restore"
       ELSE serialAt' = "pump" /\ UNCHANGED serialOut
    /\ UNCHANGED <<serialPump, serialDryer, serialPort, serialStatus, serialIn, devicePump, deviceReset>>
SerialRestore ==
    /\ \/ /\ serialAt = "restore"
          /\ serialAt' = IF serialPump THEN "restore_ON" ELSE "restore_OFF"
          /\ UNCHANGED <<serialDryer, serialOut>>
       \/ /\ serialAt \in {"restore_ON", "restore_OFF"}
          /\ SerialWrite(IF serialAt = "restore_ON" THEN "ON" ELSE "OFF")
          /\ serialAt' = "pump"
          /\ serialDryer' = (serialDryer \/ serialPort = "open")
    /\ UNCHANGED <<serialPump, serialPort, serialStatus, serialIn, devicePump, deviceReset>>

BugSerialCorrects(status, pump) == IF status.pump /\ ~pump THEN {"OFF"} ELSE {}
\* 'C': what the device has to be told
SerialCorrects(status, pump) ==
    IF status.pump /\ ~pump THEN {"OFF"} ELSE IF ~status.pump /\ pump THEN {"ON"} ELSE {}

\* The flag is read, and the command it asks for is sent later; with nothing to send the round ends.
SerialPump ==
    /\ serialAt = "pump"
    /\ LET commands == SerialCorrects(serialStatus, serialPump)
       IN  IF commands = {} THEN serialAt' = "ask" /\ serialDryer' = TRUE
           ELSE serialAt' \in commands /\ UNCHANGED serialDryer
    /\ UNCHANGED <<serialPump, serialPort, serialStatus, serialOut, serialIn, devicePump, deviceReset>>
SerialCorrect ==
    /\ serialAt \in {"ON", "OFF"}
    /\ SerialWrite(serialAt)
    /\ serialAt' = "ask"
    /\ serialDryer' = TRUE
    /\ UNCHANGED <<serialPump, serialPort, serialStatus, serialIn, devicePump, deviceReset>>

SerialThread ==
    \/ SerialOpen \/ SerialAsk \/ SerialRead \/ SerialReset \/ SerialRestore \/ SerialPump \/ SerialCorrect

----------------------------------------------------------------------------
\* The others

\* The main thread starts or ends a drying phase.
SerialPumpChanges ==
    /\ serialPump' = ~serialPump
    /\ UNCHANGED <<serialDryer, serialPort, serialAt, serialStatus, serialOut, serialIn, devicePump, deviceReset>>

SerialBreaks ==
    /\ serialPort = "open" /\ serialPort' = "broken"
    /\ UNCHANGED <<serialPump, serialDryer, serialAt, serialStatus, serialOut, serialIn, devicePump, deviceReset>>

DeviceExecutes ==
    /\ serialPort = "open" /\ serialOut # <<>>
    /\ LET command == Head(serialOut)
       IN  /\ devicePump' = IF command \in {"ON", "OFF"} THEN command = "ON" ELSE devicePump
           /\ deviceReset' = IF command = "ACK" THEN FALSE ELSE deviceReset
           /\ serialIn' = IF command = "STATUS"
                          THEN Append(serialIn, [reset |-> deviceReset, pump |-> devicePump])
                          ELSE serialIn
    /\ serialOut' = Tail(serialOut)
    /\ UNCHANGED <<serialPump, serialDryer, serialPort, serialAt, serialStatus>>

DeviceResets ==
    /\ ~deviceReset \/ devicePump
    /\ deviceReset' = TRUE /\ devicePump' = FALSE
    /\ UNCHANGED <<serialPump, serialDryer, serialPort, serialAt, serialStatus, serialOut, serialIn>>

SerialNext ==
    \/ SerialThread \/ SerialPumpChanges \/ SerialBreaks \/ DeviceExecutes \/ DeviceResets

----------------------------------------------------------------------------
\* Properties

SerialTypeOK ==
    /\ {serialPump, serialDryer, devicePump, deviceReset} \subseteq BOOLEAN
    /\ serialPort \in {"closed", "open", "broken"} /\ serialAt \in SerialSteps
    /\ serialStatus \in SerialStatuses
    /\ serialOut \in Seq(SerialCommands) /\ serialIn \in Seq(SerialStatuses)

\* The device follows the program: as long as the port works, the device is not reset again and
\* the program does not change its mind, the pump comes to be what the flag says and stays so,
\* though every command was decided on a status, and on a flag, that may be of the past.
DryerPumpFollows ==
    \A on \in BOOLEAN :
        <>[](serialPort = "open" /\ ~deviceReset /\ serialPump = on) => <>[](devicePump = on)
=============================================================================
