----------------------------- MODULE SessionStorage -----------------------------
(***************************************************************************)
(* A storage of sessions: a directory with title.txt, data.db and, once an *)
(* attribute was set, metadata.ini for each.  One session may be open for  *)
(* writing; any number may be open for reading, each with a driver and a   *)
(* copy of the attributes of its own.                                      *)
(*                                                                         *)
(* Only time indexes are left out: no caller asks for one.  One attribute  *)
(* stands for all.                                                         *)
(***************************************************************************)
EXTENDS Naturals, Sequences, BlockFiles

CONSTANTS
  SessionIds,
  Values,      \* of the attribute
  None,        \* no session; no attribute
  MaxValues,   \* bound: values of a session
  MaxFaults    \* bound: stops, and operations on files that fail

ASSUME SessionAssumption ==
  /\ None \notin SessionIds \cup Values
  /\ MaxValues \in Nat /\ MaxFaults \in Nat

VARIABLES
  fixed,      \* the values have one size
  session,    \* the directories of the sessions
  opened,
  writeId,    \* mainWriteSessionId
  writer,     \* the driver of mainWriteSession
  writeAttr,  \* and its copy of the attribute
  reader,     \* the drivers of sessions
  readAttr,   \* and their copies of the attribute
  mainRead,   \* mainReadSessionId
  faults      \* history: stops and failures so far

members     == <<opened, writeId, writer, writeAttr, reader, readAttr, mainRead>>
storageVars == <<fixed, session, members, faults>>

Maybe(S) == S \cup {None}

NoSession == [dir |-> FALSE, title |-> FALSE, data |-> NoFile,
              meta |-> FALSE, attr |-> None]

Directories ==
  [dir : BOOLEAN, title : BOOLEAN, data : FilesOf(1..MaxValues),
   meta : BOOLEAN, attr : Maybe(Values)]

IsOpen(i) == writeId = i \/ reader[i].opened
-----------------------------------------------------------------------------
StorageInit ==
  /\ fixed \in BOOLEAN
  /\ session = [i \in SessionIds |-> NoSession]
  /\ opened = TRUE
  /\ writeId = None
  /\ writer = Closed
  /\ writeAttr = None
  /\ reader = [i \in SessionIds |-> Closed]
  /\ readAttr = [i \in SessionIds |-> None]
  /\ mainRead = None
  /\ faults = 0

(* open *)
OpenStorage ==
  /\ ~opened
  /\ opened' = TRUE
  /\ UNCHANGED <<fixed, session, writeId, writer, writeAttr, reader, readAttr,
                 mainRead, faults>>

(* close, by the destructor: every driver writes its buffer. *)
CloseStorage ==
  /\ reader' = [i \in SessionIds |-> Closed]
  /\ readAttr' = [i \in SessionIds |-> None]
  /\ writeId' = None /\ writer' = Closed /\ writeAttr' = None
  /\ mainRead' = None
  /\ opened' = FALSE
  /\ UNCHANGED <<fixed, session, faults>>

(* createSession: the directory, title.txt, data.db. *)
CreateSession(i) ==
  /\ opened /\ ~session[i].dir
  /\ session' = [session EXCEPT ![i] =
                   [NoSession EXCEPT !.dir = TRUE, !.title = TRUE, !.data = Created]]
  /\ UNCHANGED <<fixed, members, faults>>

(* createSession, where data.db cannot be written: title.txt is removed,   *)
(* the directory stays because of data.db; or the program stops before     *)
(* data.db.                                                                *)
CreateSessionFails(i) ==
  /\ opened /\ ~session[i].dir /\ faults < MaxFaults
  /\ \E title \in BOOLEAN :
       session' = [session EXCEPT ![i] =
         [NoSession EXCEPT !.dir = TRUE, !.title = title,
                           !.data = IF title THEN NoFile ELSE Touched(NoFile)]]
  /\ faults' = faults + 1
  /\ UNCHANGED <<fixed, members>>

(* openMainWriteSession *)
OpenMainWriteSession(i) ==
  /\ opened /\ writeId = None /\ session[i].dir
  /\ IF CanOpen(session[i].data, Closed)
       THEN /\ writer' = OpenDriver(session[i].data)
            /\ writeAttr' = session[i].attr
            /\ writeId' = i
            /\ UNCHANGED session
       ELSE /\ session' = [session EXCEPT ![i].data = Touched(@)]
            /\ UNCHANGED <<writer, writeAttr, writeId>>
  /\ UNCHANGED <<fixed, opened, reader, readAttr, mainRead, faults>>

(* openSession: nothing to do for the session that is written. *)
OpenSession(i) ==
  IF IsOpen(i) THEN UNCHANGED <<session, reader, readAttr>>
  ELSE IF CanOpen(session[i].data, Closed)
    THEN /\ reader' = [reader EXCEPT ![i] = OpenDriver(session[i].data)]
         /\ readAttr' = [readAttr EXCEPT ![i] = session[i].attr]
         /\ UNCHANGED session
    ELSE /\ session' = [session EXCEPT ![i].data = Touched(@)]
         /\ UNCHANGED <<reader, readAttr>>

(* getSessionAttr: the session is closed again if it has the attribute,    *)
(* otherwise it stays open.                                                *)
GetAttribute(i) ==
  /\ opened /\ session[i].dir
  /\ CanOpen(session[i].data, Closed) => session[i].attr = None
  /\ OpenSession(i)
  /\ UNCHANGED <<fixed, opened, writeId, writer, writeAttr, mainRead, faults>>

(* get_samples_count: setMainReadSessionId. *)
GetSamples(i) ==
  /\ opened /\ session[i].dir
  /\ OpenSession(i)
  /\ mainRead' = IF IsOpen(i) \/ CanOpen(session[i].data, Closed) THEN i ELSE mainRead
  /\ UNCHANGED <<fixed, opened, writeId, writer, writeAttr, faults>>

(* writeSensorValue *)
WriteSensorValue ==
  /\ opened /\ writeId # None
  /\ writer.count < MaxValues
  /\ session' = [session EXCEPT ![writeId].data =
                   Written(@, writer, writer.count + 1)]
  /\ writer' = AfterWrite(writer)
  /\ UNCHANGED <<fixed, opened, writeId, writeAttr, reader, readAttr, mainRead, faults>>

(* closeMainWriteSession *)
CloseMainWriteSession ==
  /\ writer' = Closed
  /\ writeAttr' = None
  /\ writeId' = None
  /\ UNCHANGED <<fixed, session, opened, reader, readAttr, mainRead, faults>>

(* What removing data.db, metadata.ini, title.txt and the directory, up to *)
(* the first that is not there, leaves.                                    *)
Removed(s) ==
  IF s.data.is = "absent" THEN s
  ELSE IF ~s.meta THEN [s EXCEPT !.data = NoFile]
  ELSE IF ~s.title THEN [s EXCEPT !.data = NoFile, !.meta = FALSE, !.attr = None]
  ELSE NoSession

(* mutant: the session that is written is removed as well. *)
RemoveAnySession(i) ==
  /\ opened /\ session[i].dir
  /\ reader' = [reader EXCEPT ![i] = Closed]
  /\ readAttr' = [readAttr EXCEPT ![i] = None]
  /\ mainRead' = IF mainRead = i THEN None ELSE mainRead
  /\ session' = [session EXCEPT ![i] = Removed(@)]
  /\ UNCHANGED <<fixed, opened, writeId, writer, writeAttr, faults>>

(* closeSession, then removeSession, neither for the session that is       *)
(* written.                                                                *)
RemoveSession(i) ==
  /\ opened /\ writeId # i /\ session[i].dir
  /\ reader' = [reader EXCEPT ![i] = Closed]
  /\ readAttr' = [readAttr EXCEPT ![i] = None]
  /\ mainRead' = IF mainRead = i /\ reader[i].opened THEN None ELSE mainRead
  /\ session' = [session EXCEPT ![i] = Removed(@)]
  /\ UNCHANGED <<fixed, opened, writeId, writer, writeAttr, faults>>

(* mutant: the copy of the session that is written is left as it was. *)
SetAttributeOfReader(i, v) ==
  /\ opened /\ session[i].dir
  /\ IsOpen(i) \/ CanOpen(session[i].data, Closed)
  /\ session' = [session EXCEPT ![i].attr = v, ![i].meta = TRUE]
  /\ readAttr' = [readAttr EXCEPT ![i] = v]
  /\ reader' = IF IsOpen(i) THEN reader
               ELSE [reader EXCEPT ![i] = OpenDriver(session[i].data)]
  /\ UNCHANGED <<fixed, opened, writeId, writer, writeAttr, mainRead, faults>>

(* setSessionAttr opens the session and leaves it open; setSessionAttribute *)
(* or removeSessionAttribute (v is None): metadata.ini, and the copy of the *)
(* session that is written, or else of the one that is read.               *)
SetAttribute(i, v) ==
  /\ opened /\ session[i].dir
  /\ IsOpen(i) \/ CanOpen(session[i].data, Closed)
  /\ session' = [session EXCEPT ![i].attr = v, ![i].meta = TRUE]
  /\ IF writeId = i THEN writeAttr' = v /\ UNCHANGED readAttr
     ELSE readAttr' = [readAttr EXCEPT ![i] = v] /\ UNCHANGED writeAttr
  /\ reader' = IF IsOpen(i) THEN reader
               ELSE [reader EXCEPT ![i] = OpenDriver(session[i].data)]
  /\ UNCHANGED <<fixed, opened, writeId, writer, mainRead, faults>>

(* The program stops; the next start makes a new object. *)
StopStorage ==
  /\ IF writeId = None THEN UNCHANGED session
     ELSE \E f \in AfterAppend(session[writeId].data, writer, fixed) :
            session' = [session EXCEPT ![writeId].data = f]
  /\ opened' = FALSE
  /\ writeId' = None /\ writer' = Closed /\ writeAttr' = None
  /\ reader' = [i \in SessionIds |-> Closed]
  /\ readAttr' = [i \in SessionIds |-> None]
  /\ mainRead' = None
  /\ UNCHANGED fixed
=============================================================================
