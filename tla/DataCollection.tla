----------------------------- MODULE DataCollection -----------------------------
(***************************************************************************)
(* How the server records the measurements of a device: ServerInstance     *)
(* makes a DataCollectionUnit when the device is identified and deletes it *)
(* when the device is lost; the unit writes to the session storage, and    *)
(* starts and stops its sessions if they are automatic.  The session       *)
(* commands of clients work on the same storage.                           *)
(*                                                                         *)
(* deleteLater() takes effect when the handler it was called in returns to *)
(* its event loop; before any other event of this loop, but after whatever *)
(* the handler still does, a nested wait for the device included.          *)
(***************************************************************************)
EXTENDS SessionStorage

VARIABLES
  mode,       \* "auto" or "manual": AUTO_SESSIONS, MANUAL_SESSIONS
  connected,  \* the device is connected
  unit,       \* the device's unit is in collectionUnits
  dying,      \* a unit that deleteLater() was called on: "no", "now" if in
              \* the loop that runs, "later" if in the handler that waits
  describing  \* onDeviceIdentified waits for the description of the sensors

unitVars       == <<mode, connected, unit, dying, describing>>
collectionVars == <<storageVars, unitVars>>

(* No handler waits, and no deletion is left.                              *)
Quiet == ~describing /\ dying = "no"

(* The loop that runs, of the program or of the nested wait, takes an      *)
(* event: deletions come first.                                            *)
Looping == dying = "no" \/ (dying = "later" /\ describing)
-----------------------------------------------------------------------------
CollectionInit ==
  /\ StorageInit
  /\ mode \in {"auto", "manual"}
  /\ connected = FALSE
  /\ unit = FALSE
  /\ dying = "no"
  /\ describing = FALSE

(* The device connects: deviceIdentified. *)
DeviceConnected ==
  /\ Quiet /\ ~connected
  /\ connected' = TRUE
  /\ describing' = TRUE
  /\ UNCHANGED <<storageVars, mode, unit, dying>>

(* addDeviceFromBackend replaces the connection of a device that is        *)
(* connected: deviceDisconnected, then deviceIdentified in one handler.    *)
DeviceReplaced ==
  /\ Quiet /\ connected
  /\ unit' = FALSE
  /\ dying' = IF unit THEN "later" ELSE "no"
  /\ describing' = TRUE
  /\ UNCHANGED <<storageVars, mode, connected>>

(* The connection is lost: onDeviceDisconnected. *)
DeviceLost ==
  /\ Looping /\ connected
  /\ connected' = FALSE
  /\ unit' = FALSE
  /\ dying' = IF unit THEN "now" ELSE dying
  /\ UNCHANGED <<storageVars, mode, describing>>

(* The new session of an automatic storage, and its opening for writing,   *)
(* which fails if another session is open.                                 *)
StartSession(i) ==
  /\ opened /\ ~session[i].dir
  /\ session' = [session EXCEPT ![i] =
                   [NoSession EXCEPT !.dir = TRUE, !.title = TRUE, !.data = Created]]
  /\ IF writeId = None
       THEN writeId' = i /\ writer' = NewDriver /\ writeAttr' = None
       ELSE UNCHANGED <<writeId, writer, writeAttr>>
  /\ UNCHANGED <<fixed, opened, reader, readAttr, mainRead, faults>>

(* The wait ends, with the description or, if the device was lost, without *)
(* one: checkDataCollectionUnit makes the unit in either case.             *)
UnitMade ==
  /\ describing /\ Looping /\ opened
  /\ describing' = FALSE
  /\ unit' = TRUE
  /\ IF mode = "auto" /\ ~unit
       THEN \E i \in SessionIds : StartSession(i) \/ CreateSessionFails(i)
       ELSE UNCHANGED storageVars
  /\ UNCHANGED <<mode, connected, dying>>

(* ~DataCollectionUnit closes the write session, whoever opened it. *)
UnitDeleted ==
  /\ ~Looping
  /\ dying' = "no"
  /\ CloseMainWriteSession
  /\ UNCHANGED <<mode, connected, unit, describing>>

(* A measurement reaches the units: also one that is to be deleted. *)
Measurement ==
  /\ Looping /\ connected
  /\ unit \/ dying # "no"
  /\ WriteSensorValue
  /\ UNCHANGED unitVars

(* checkDataCollectionUnit opens the storage; so does every command. *)
StorageOpened ==
  /\ OpenStorage
  /\ UNCHANGED unitVars
-----------------------------------------------------------------------------
(* The commands on sessions: session_create, ... *)
SessionCreate ==
  /\ Looping /\ mode = "manual"
  /\ \E i \in SessionIds : CreateSession(i) \/ CreateSessionFails(i)
  /\ UNCHANGED unitVars

(* session_start, session_continue *)
SessionStart ==
  /\ Looping /\ mode = "manual"
  /\ \E i \in SessionIds : OpenMainWriteSession(i)
  /\ UNCHANGED unitVars

(* session_stop *)
SessionStop ==
  /\ Looping /\ mode = "manual"
  /\ opened /\ writeId # None
  /\ CloseMainWriteSession
  /\ UNCHANGED unitVars

(* session_remove *)
SessionRemove ==
  /\ Looping /\ mode = "manual"
  /\ \E i \in SessionIds : RemoveSession(i)
  /\ UNCHANGED unitVars

(* session_get_attr, session_set_attr *)
SessionAttr ==
  /\ Looping
  /\ \E i \in SessionIds :
       \/ GetAttribute(i)
       \/ \E v \in Maybe(Values) : SetAttribute(i, v)
  /\ UNCHANGED unitVars

(* get_samples_count *)
SamplesCount ==
  /\ Looping
  /\ \E i \in SessionIds : GetSamples(i)
  /\ UNCHANGED unitVars

(* terminate, and the next start. *)
Terminate ==
  /\ Quiet
  /\ CloseStorage
  /\ connected' = FALSE /\ unit' = FALSE
  /\ UNCHANGED <<mode, dying, describing>>

(* The program stops. *)
Crash ==
  /\ faults < MaxFaults
  /\ faults' = faults + 1
  /\ StopStorage
  /\ connected' = FALSE /\ unit' = FALSE
  /\ dying' = "no" /\ describing' = FALSE
  /\ UNCHANGED mode

CollectionNext ==
  \/ DeviceConnected
  \/ DeviceReplaced
  \/ DeviceLost
  \/ UnitMade
  \/ UnitDeleted
  \/ Measurement
  \/ StorageOpened
  \/ SessionCreate
  \/ SessionStart
  \/ SessionStop
  \/ SessionRemove
  \/ SessionAttr
  \/ SamplesCount
  \/ Terminate
  \/ Crash

CollectionSpec == CollectionInit /\ [][CollectionNext]_collectionVars
-----------------------------------------------------------------------------
(* The types of the files, of the storage and of the units.                *)
CollectionTypeOK ==
  /\ fixed \in BOOLEAN /\ opened \in BOOLEAN
  /\ session \in [SessionIds -> Directories]
  /\ writeId \in Maybe(SessionIds) /\ mainRead \in Maybe(SessionIds)
  /\ writer \in Drivers
  /\ reader \in [SessionIds -> Drivers]
  /\ writeAttr \in Maybe(Values)
  /\ readAttr \in [SessionIds -> Maybe(Values)]
  /\ faults \in 0..MaxFaults
  /\ mode \in {"auto", "manual"}
  /\ connected \in BOOLEAN /\ unit \in BOOLEAN /\ describing \in BOOLEAN
  /\ dying \in {"no", "now", "later"}

(* The state has its types.  The driver that writes a session knows of     *)
(* every block of it, those that read one of no more than there are, and   *)
(* no session that is open loses its files: nothing is written over a      *)
(* value, or read behind the last.                                         *)
DriversFitFiles ==
  /\ CollectionTypeOK
  /\ writeId # None =>
       /\ opened /\ session[writeId].data.is = "whole"
       /\ writer = [opened |-> TRUE, late |-> writer.late,
                    count |-> Len(session[writeId].data.blocks)]
  /\ \A i \in SessionIds : reader[i].opened =>
       /\ opened /\ session[i].data.is = "whole"
       /\ reader[i].count <= Len(session[i].data.blocks)

(* The attributes of the session that is written are those of its file,    *)
(* also while the same session is open for reading.                        *)
WriterHasAttributes ==
  writeId # None => writeAttr = session[writeId].attr

(* The values of a session stay, in their order: a step appends one, a     *)
(* stop loses or damages the last one of the session that was written, and *)
(* a removal takes all of a session that is not written.                   *)
ValuesStay ==
  [][\A i \in SessionIds :
       LET old == session[i].data.blocks
           new == session'[i].data.blocks
           kept == SubSeq(old, 1, Len(old) - 1)
       IN  \/ Len(new) >= Len(old) /\ SubSeq(new, 1, Len(old)) = old
           \/ faults' > faults /\ writeId = i /\ new \in {kept, Append(kept, Torn)}
           \/ new = <<>> /\ writeId # i /\ mode = "manual"]_collectionVars
===============================================================================
