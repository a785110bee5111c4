--------------------------- MODULE RealDeviceProofs ---------------------------
(***************************************************************************)
(* Proofs about RealDevice, for any number of devices, values, calls,      *)
(* nested waits, links and resets.                                         *)
(***************************************************************************)
EXTENDS RealDevice, SequenceTheorems, TLAPS

LEMMA Bounds ==
  /\ {MaxCalls, MaxDepth, MaxWire, MaxLinks, MaxResets} \subseteq Nat
  /\ SyncWaitIntervals \in 0..SyncWaitIntervals /\ 0 \in 0..SyncWaitIntervals
BY ConstantsAssumption

(***************************************************************************)
(* The calls: each step of a call keeps it well-formed.                    *)
(***************************************************************************)
LEMMA NewCallType == \A k \in Kinds : NewCall(k) \in CallRecord
BY DEF NewCall, CallRecord, Content

LEMMA HasTimerType == \A k : HasTimer(k) \in BOOLEAN
BY DEF HasTimer

LEMMA FinishType ==
  ASSUME NEW call \in CallRecord, NEW ok \in BOOLEAN, NEW v \in Content
  PROVE  Finish(call, ok, v) \in CallRecord
BY DEF Finish, CallRecord

LEMMA RunType ==
  ASSUME NEW call \in CallRecord, NEW written \in BOOLEAN
  PROVE  Run(call, written) \in CallRecord
BY HasTimerType DEF Run, CallRecord, Content

LEMMA OnErrorType ==
  ASSUME NEW call \in CallRecord, NEW err, NEW written \in BOOLEAN
  PROVE  OnError(call, err, written) \in CallRecord
<1>. "error" \in Content
  BY DEF Content
<1>. QED
  BY FinishType, RunType DEF OnError

(***************************************************************************)
(* Each handler maps a well-formed object to a well-formed object.         *)
(***************************************************************************)
LEMMA StopCommandsType ==
  ASSUME NEW d \in DeviceObject, NEW err
  PROVE  StopCommands(d, err) \in DeviceObject
<1> DEFINE touched == (d.exec \cup {IdentifyCall}) \cap Pending(d)
           calls == [c \in Calls |-> IF c \in touched
                                       THEN OnError(d.call[c], err, CanWrite(d))
                                       ELSE d.call[c]]
<1>1. calls \in [Calls -> CallRecord]
  BY OnErrorType DEF DeviceObject, CanWrite
<1>2. [d EXCEPT !.call = calls] \in DeviceObject
  BY <1>1 DEF DeviceObject
<1>. QED
  BY <1>2 DEF StopCommands, DeviceObject, Pending, CallIds, Calls

LEMMA OnDeviceResetType ==
  ASSUME NEW d \in DeviceObject
  PROVE  OnDeviceReset(d) \in DeviceObject
<1> DEFINE e == [d EXCEPT !.loaded = [q \in Queries |-> @[q] /\ q # "state"]]
<1>1. [q \in Queries |-> d.loaded[q] /\ q # "state"] \in [Queries -> BOOLEAN]
  OBVIOUS
<1>2. e \in DeviceObject
  BY <1>1 DEF DeviceObject
<1>3. StopCommands(e, "DEV_RESET") \in DeviceObject
  BY <1>2, StopCommandsType
<1>. QED
  BY <1>3, Bounds DEF OnDeviceReset, DeviceObject

LEMMA OnConnectedType ==
  ASSUME NEW d \in DeviceObject
  PROVE  OnConnected(d) \in DeviceObject
BY DEF OnConnected, DeviceObject

LEMMA OnDisconnectedType ==
  ASSUME NEW d \in DeviceObject
  PROVE  OnDisconnected(d) \in DeviceObject
<1>1. NothingLoaded \in [Queries -> BOOLEAN]
  BY DEF NothingLoaded
<1>2. [d EXCEPT !.connected = FALSE, !.loaded = NothingLoaded,
                !.sync = 0, !.syncTimer = FALSE] \in DeviceObject
  BY <1>1, Bounds DEF DeviceObject
<1>. QED
  BY <1>2, StopCommandsType DEF OnDisconnected

LEMMA OnBackendDestroyedType ==
  ASSUME NEW d \in DeviceObject
  PROVE  OnBackendDestroyed(d) \in DeviceObject
<1>1. [d EXCEPT !.backend = FALSE, !.up = FALSE, !.sent = {}] \in DeviceObject
  BY DEF DeviceObject
<1>. QED
  BY <1>1, OnDisconnectedType DEF OnBackendDestroyed

LEMMA DestroyBackendType ==
  ASSUME NEW d \in DeviceObject, NEW announced \in BOOLEAN
  PROVE  DestroyBackend(d, announced) \in DeviceObject
BY OnDisconnectedType, OnBackendDestroyedType DEF DestroyBackend

LEMMA SetBackendType ==
  ASSUME NEW d \in DeviceObject, NEW announced \in BOOLEAN, NEW up \in BOOLEAN
  PROVE  SetBackend(d, announced, up) \in DeviceObject
<1> DEFINE freed == IF d.backend THEN DestroyBackend(d, announced) ELSE d
           attached == [freed EXCEPT !.backend = TRUE, !.up = up, !.sent = {}]
<1>1. freed \in DeviceObject
  BY DestroyBackendType
<1>. HIDE DEF freed
<1>2. attached \in DeviceObject
  BY <1>1 DEF DeviceObject
<1>. HIDE DEF attached
<1>3. SetBackend(d, announced, up) =
        IF up THEN OnConnected(attached) ELSE OnDisconnected(attached)
  BY DEF SetBackend, attached, freed
<1>. QED
  BY <1>2, <1>3, OnConnectedType, OnDisconnectedType

LEMMA TakeBackendType ==
  ASSUME NEW d \in DeviceObject
  PROVE  TakeBackend(d) \in DeviceObject
<1>1. StopCommands(d, "DEV_DESTROYED") \in DeviceObject
  BY StopCommandsType
<1>. QED
  BY <1>1 DEF TakeBackend, DeviceObject

LEMMA ExecCommandType ==
  ASSUME NEW d \in DeviceObject, d.callId < MaxCalls, NEW k \in Kinds
  PROVE  ExecCommand(d, k) \in DeviceObject
<1> DEFINE c == d.callId + 1
           written == d.connected /\ CanWrite(d)
           called == IF d.connected THEN Run(NewCall(k), written) ELSE NewCall(k)
           sent == IF written THEN d.sent \cup {c} ELSE d.sent
<1>1. c \in CallIds /\ c \in Calls /\ c \in 0..MaxCalls
  BY ConstantsAssumption DEF DeviceObject, CallIds, Calls
<1>2. written \in BOOLEAN
  BY DEF DeviceObject, CanWrite
<1>3. called \in CallRecord
  BY <1>2, NewCallType, RunType
<1>4. sent \in SUBSET Calls
  BY <1>1 DEF DeviceObject
<1> DEFINE e == [d EXCEPT !.callId = c, !.exec = @ \cup {c}, !.call[c] = called]
<1>5. ExecCommand(d, k) = [e EXCEPT !.sent = sent]
  BY DEF ExecCommand
<1>. HIDE DEF c, written, called, sent
<1>6. e \in DeviceObject
  BY <1>1, <1>3 DEF DeviceObject
<1>. HIDE DEF e
<1>. QED
  BY <1>4, <1>5, <1>6 DEF DeviceObject

LEMMA StartIdentifyType ==
  ASSUME NEW d \in DeviceObject
  PROVE  StartIdentify(d) \in DeviceObject
<1>1. Run(d.call[IdentifyCall], CanWrite(d)) \in CallRecord
  BY RunType DEF DeviceObject, CanWrite, Calls
<1>2. NothingLoaded \in [Queries -> BOOLEAN]
  BY DEF NothingLoaded
<1>. QED
  BY <1>1, <1>2 DEF StartIdentify, DeviceObject, Calls

LEMMA FinishIdentifyType ==
  ASSUME NEW d \in DeviceObject
  PROVE  FinishIdentify(d) \in DeviceObject
BY DEF FinishIdentify, DeviceObject

LEMMA FinishQueryType ==
  ASSUME NEW d \in DeviceObject, NEW c \in Calls, d.call[c].kind \in Queries
  PROVE  FinishQuery(d, c) \in DeviceObject
<1>1. d.call[c] \in CallRecord
  BY DEF DeviceObject
<1>2. d.call[c].ret \in Content
  BY <1>1 DEF CallRecord
<1>. QED
  BY <1>2 DEF FinishQuery, DeviceObject

LEMMA AnsweredType ==
  ASSUME NEW d \in DeviceObject, NEW c \in Calls, NEW ok \in BOOLEAN, NEW v \in Content
  PROVE  Answered(d, c, ok, v) \in DeviceObject
<1>1. Finish(d.call[c], ok, v) \in CallRecord
  BY FinishType DEF DeviceObject
<1>2. {c} \cap Pending(d) \cap CallIds \subseteq CallIds
  OBVIOUS
<1>. QED
  BY <1>1, <1>2 DEF Answered, DeviceObject

LEMMA OnMessageType ==
  ASSUME NEW d \in DeviceObject, NEW m \in Message
  PROVE  OnMessage(d, m) \in DeviceObject
<1>. m.c \in Calls /\ m.v \in Content /\ IdentifyCall \in Calls
  BY DEF Message, Calls
<1>1. CASE m.t = "syncr"
  <2>1. [d EXCEPT !.sync = SyncWaitIntervals] \in DeviceObject
    BY ConstantsAssumption DEF DeviceObject
  <2>. QED
    BY <1>1, <2>1 DEF OnMessage
<1>2. CASE m.t = "deviceinfo"
  BY <1>2, AnsweredType DEF OnMessage
<1>3. CASE m.t \in {"ok", "err"}
  <2>1. (m.t = "ok") \in BOOLEAN
    OBVIOUS
  <2>2. Answered(d, m.c, m.t = "ok", m.v) \in DeviceObject
    BY <2>1, AnsweredType
  <2>. QED
    BY <1>3, <2>2 DEF OnMessage
<1>4. CASE m.t = "statechanged"
  <2>1. [q \in Queries |-> IF q = "state" THEN m.v ELSE d.cache[q]]
          \in [Queries -> Content]
    BY DEF DeviceObject
  <2>2. OnMessage(d, m) = [d EXCEPT !.cache =
          [q \in Queries |-> IF q = "state" THEN m.v ELSE d.cache[q]]]
    BY <1>4 DEF OnMessage
  <2>. QED
    BY <2>1, <2>2 DEF DeviceObject
<1>5. CASE m.t = "reset"
  BY <1>5, OnDeviceResetType DEF OnMessage
<1>. QED
  BY <1>1, <1>2, <1>3, <1>4, <1>5 DEF Message

LEMMA OnTimeoutType ==
  ASSUME NEW d \in DeviceObject, NEW c \in Calls
  PROVE  OnTimeout(d, c) \in DeviceObject
<1>1. Answered(d, c, FALSE, "error") \in DeviceObject
  BY AnsweredType DEF Content
<1>2. Answered(d, c, FALSE, "error").call[c] \in CallRecord
  BY <1>1 DEF DeviceObject
<1>3. [Answered(d, c, FALSE, "error").call[c] EXCEPT !.timer = FALSE] \in CallRecord
  BY <1>2 DEF CallRecord
<1>. QED
  BY <1>1, <1>3 DEF OnTimeout, DeviceObject

LEMMA OnSyncTimerType ==
  ASSUME NEW d \in DeviceObject
  PROVE  OnSyncTimer(d) \in DeviceObject
<1>1. ASSUME d.sync > 0
      PROVE  [d EXCEPT !.sync = @ - 1] \in DeviceObject
  BY <1>1, ConstantsAssumption DEF DeviceObject
<1>2. OnDisconnected([d EXCEPT !.up = FALSE]) \in DeviceObject
  <2>1. [d EXCEPT !.up = FALSE] \in DeviceObject
    BY DEF DeviceObject
  <2>. QED
    BY <2>1, OnDisconnectedType
<1>. QED
  BY <1>1, <1>2 DEF OnSyncTimer

(***************************************************************************)
(* Type correctness.                                                       *)
(***************************************************************************)
LEMMA BlockType ==
  ASSUME NEW d \in DeviceObject, NEW c \in Calls, waits \in Seq(Calls), Block(d, c)
  PROVE  waits' \in Seq(Calls)
BY DEF Block

LEMMA OvertakeType ==
  ASSUME NEW h \in History, NEW cause \in Causes
  PROVE  Overtake(h, cause) \in History
BY DEF Overtake, History

LEMMA OrphanType ==
  ASSUME NEW h \in History, NEW d \in DeviceObject
  PROVE  Orphan(h, d) \in History
BY DEF Orphan, History, Pending

LEMMA KeepType ==
  ASSUME NEW h \in History, NEW d \in DeviceObject, NEW c \in Calls,
         d.call[c].kind \in Queries
  PROVE  Keep(h, c, d) \in History
BY DEF Keep, History

LEMMA SendType ==
  ASSUME wire \in Seq(Message), NEW t, NEW c \in Calls, NEW v \in Content,
         t \in {"syncr", "deviceinfo", "ok", "err", "statechanged", "reset"},
         Send(t, c, v)
  PROVE  wire' \in Seq(Message)
BY DEF Send, Message

LEMMA InitType == Init => TypeOK
<1>. SUFFICES ASSUME Init PROVE TypeOK
  OBVIOUS
<1>1. [c \in Calls |-> NewCall(IF c = IdentifyCall THEN "identify" ELSE "unused")]
        \in [Calls -> CallRecord]
  BY NewCallType DEF Kinds
<1>2. NothingLoaded \in [Queries -> BOOLEAN]
  BY DEF NothingLoaded
<1>3. [q \in Queries |-> "nothing"] \in [Queries -> Content]
  BY DEF Content
<1>4. dev \in DeviceObject
  BY <1>1, <1>2, <1>3, Bounds DEF Init, DeviceObject
<1>. QED
  BY <1>4, Bounds DEF Init, TypeOK, History

LEMMA NextType == TypeOK /\ [Next]_vars => TypeOK'
<1>. SUFFICES ASSUME TypeOK, [Next]_vars PROVE TypeOK'
  OBVIOUS
<1>. USE DEF TypeOK
<1>0. IdentifyCall \in Calls /\ CallIds \subseteq Calls /\ Queries \subseteq Kinds
      /\ UserKinds \subseteq Kinds /\ Causes = {"reset", "change", "link"}
      /\ Append(greeting, Len(waits)) \in Seq(Nat)
  BY ConstantsAssumption, LenProperties, AppendProperties DEF Calls, Kinds, UserKinds, Causes
<1>1. ASSUME NEW k \in Kinds, dev.callId < MaxCalls, dev' = ExecCommand(dev, k)
      PROVE  dev' \in DeviceObject /\ dev'.callId \in Calls
  <2>1. dev' \in DeviceObject
    BY <1>1, ExecCommandType
  <2>2. dev'.callId = dev.callId + 1
    BY <1>1 DEF ExecCommand, DeviceObject
  <2>3. dev'.callId \in CallIds
    BY <1>1, <2>2, Bounds DEF DeviceObject, CallIds
  <2>. QED
    BY <1>0, <2>1, <2>3
<1>2. ASSUME Identify PROVE TypeOK'
  <2>1. dev' \in DeviceObject
    BY <1>2, StartIdentifyType DEF Identify
  <2>2. waits' \in Seq(Calls)
    BY <1>0, <1>2, <2>1, BlockType DEF Identify
  <2>3. hist' \in History
    BY <1>2 DEF Identify, History
  <2>. QED
    BY <1>2, <2>1, <2>2, <2>3 DEF Identify
<1>3. ASSUME NEW q \in Queries, Query(q) PROVE TypeOK'
  <2>1. dev' \in DeviceObject /\ dev'.callId \in Calls
    BY <1>0, <1>1, <1>3 DEF Query
  <2>2. waits' \in Seq(Calls)
    BY <1>3, <2>1, BlockType DEF Query
  <2>. QED
    BY <1>3, <2>1, <2>2 DEF Query
<1>4. ASSUME NEW k \in UserKinds, Exec(k) PROVE TypeOK'
  <2>1. dev' \in DeviceObject /\ dev'.callId \in Calls
    BY <1>0, <1>1, <1>4 DEF Exec
  <2>2. waits' \in Seq(Calls)
    BY <1>4, <2>1, BlockType DEF Exec
  <2>. QED
    BY <1>4, <2>1, <2>2 DEF Exec
<1>5. ASSUME Return PROVE TypeOK'
  <2> DEFINE c == waits[Len(waits)]
  <2>1. c \in Calls
    BY <1>5 DEF Return
  <2>2. waits' \in Seq(Calls)
    BY <1>5 DEF Return
  <2>. HIDE DEF c
  <2>3. CASE dev' = FinishIdentify(dev) /\ UNCHANGED hist
    BY <1>5, <2>2, <2>3, FinishIdentifyType DEF Return
  <2>4. CASE /\ dev.call[c].kind \in Queries
             /\ dev' = FinishQuery(dev, c)
             /\ hist' = Keep(hist, c, dev)
    BY <1>5, <2>1, <2>2, <2>4, FinishQueryType, KeepType DEF Return
  <2>5. CASE UNCHANGED <<dev, hist>>
    BY <1>5, <2>2, <2>5 DEF Return
  <2>. QED
    BY <1>5, <2>3, <2>4, <2>5 DEF Return, c
<1>6. ASSUME AttachBackend PROVE TypeOK'
  <2>1. dev' \in DeviceObject
    BY <1>6, SetBackendType DEF AttachBackend
  <2>2. Overtake(hist, "link") \in History
    BY <1>0, OvertakeType
  <2>3. hist' \in History
    BY <1>6, <2>1, <2>2, OrphanType DEF AttachBackend
  <2>4. greeting' \in Seq(Nat)
    BY <1>0, <1>6 DEF AttachBackend
  <2>. QED
    BY <1>6, <2>1, <2>3, <2>4, Bounds DEF AttachBackend, NewLink
<1>7. ASSUME BackendConnected PROVE TypeOK'
  <2>1. [dev EXCEPT !.up = TRUE, !.sent = {}] \in DeviceObject
    BY DEF DeviceObject
  <2>2. dev' \in DeviceObject
    BY <1>7, <2>1, OnConnectedType DEF BackendConnected
  <2>3. hist' \in History
    BY <1>0, <1>7, OvertakeType DEF BackendConnected
  <2>4. hw' \in Hardware
    BY <1>7 DEF BackendConnected, Hardware
  <2>5. greeting' \in Seq(Nat)
    BY <1>0, <1>7 DEF BackendConnected
  <2>. QED
    BY <1>7, <2>2, <2>3, <2>4, <2>5, Bounds DEF BackendConnected, NewLink
<1>8. ASSUME LinkCloses PROVE TypeOK'
  BY <1>8 DEF LinkCloses, DeviceObject
<1>9. ASSUME BackendDisconnected PROVE TypeOK'
  BY <1>0, <1>9, OnDisconnectedType, OvertakeType DEF BackendDisconnected
<1>10. ASSUME BackendDestroyed PROVE TypeOK'
  <2>1. dev' \in DeviceObject
    BY <1>10, DestroyBackendType DEF BackendDestroyed
  <2>2. hist' \in History
    BY <1>0, <1>10, <2>1, OvertakeType, OrphanType DEF BackendDestroyed
  <2>. QED
    BY <1>10, <2>1, <2>2 DEF BackendDestroyed
<1>11. ASSUME BackendTaken PROVE TypeOK'
  BY <1>0, <1>11, TakeBackendType, OvertakeType DEF BackendTaken
<1>12. ASSUME Deliver PROVE TypeOK'
  <2>1. Head(wire) \in Message /\ Tail(wire) \in Seq(Message)
    BY <1>12 DEF Deliver
  <2>2. dev' \in DeviceObject
    BY <1>12, <2>1, OnMessageType DEF Deliver
  <2>3. \A cause \in Causes : Overtake(hist, cause) \in History
    BY OvertakeType
  <2>4. [Overtake(hist, "change") EXCEPT !.tainted = Told(@)] \in History
    BY <1>0, <2>3 DEF History, Told
  <2>5. hist' \in History
    BY <1>0, <1>12, <2>3, <2>4 DEF Deliver
  <2>. QED
    BY <1>12, <2>1, <2>2, <2>5 DEF Deliver
<1>13. ASSUME NEW c \in Calls, CallTimeout(c) PROVE TypeOK'
  BY <1>13, OnTimeoutType DEF CallTimeout
<1>14. ASSUME SyncTimeout PROVE TypeOK'
  BY <1>0, <1>14, OnSyncTimerType, OvertakeType DEF SyncTimeout
<1>15. ASSUME NEW c \in CallIds, OnCommandDone(c) PROVE TypeOK'
  BY <1>15 DEF OnCommandDone, DeviceObject
<1>16. ASSUME DeviceSyncs PROVE TypeOK'
  BY <1>0, <1>16, SendType DEF DeviceSyncs, Content
<1>17. ASSUME NEW c \in Calls, DeviceAnswers(c) PROVE TypeOK'
  <2>1. dev' \in DeviceObject
    BY <1>17 DEF DeviceAnswers, DeviceObject
  <2>2. \A k : Reply(k) \subseteq Content
    BY DEF Reply, Content, Hardware
  <2>3. PICK v \in Content, t \in {"deviceinfo", "ok", "err"} : Send(t, c, v)
    BY <1>17, <2>2 DEF DeviceAnswers, Content
  <2>4. wire' \in Seq(Message)
    BY <2>3, SendType
  <2>. QED
    BY <1>17, <2>1, <2>4 DEF DeviceAnswers
<1>18. ASSUME NEW v \in Values, DeviceChanges(v) PROVE TypeOK'
  <2>1. wire' \in Seq(Message)
    BY <1>0, <1>18, SendType DEF DeviceChanges, Content
  <2>. QED
    BY <1>18, <2>1 DEF DeviceChanges, Hardware
<1>19. ASSUME DeviceResets PROVE TypeOK'
  <2>1. wire' \in Seq(Message)
    BY <1>0, <1>19, SendType DEF DeviceResets, Content
  <2>2. dev' \in DeviceObject
    BY <1>19 DEF DeviceResets, DeviceObject
  <2>3. hw' \in Hardware
    BY <1>19 DEF DeviceResets, Hardware
  <2>4. resets' \in 0..MaxResets
    BY <1>19, Bounds DEF DeviceResets
  <2>. QED
    BY <1>19, <2>1, <2>2, <2>3, <2>4 DEF DeviceResets
<1>20. CASE ConnectedReturns
  <2>1. greeting # <<>> /\ greeting' = SubSeq(greeting, 1, Len(greeting) - 1)
    BY <1>20 DEF ConnectedReturns, InLoop
  <2>2. greeting' \in Seq(Nat)
    BY <2>1
  <2>3. dev' \in DeviceObject
    BY <1>20, OnDeviceResetType DEF ConnectedReturns
  <2>. QED
    BY <1>20, <2>2, <2>3 DEF ConnectedReturns
<1>21. CASE UNCHANGED vars
  BY <1>21 DEF vars
<1>. QED
  BY <1>2, <1>3, <1>4, <1>5, <1>6, <1>7, <1>8, <1>9, <1>10, <1>11, <1>12, <1>13,
     <1>14, <1>15, <1>16, <1>17, <1>18, <1>19, <1>20, <1>21 DEF Next

(* The object, its calls, the links and the history stay well-formed.      *)
THEOREM TypeCorrect == Spec => []TypeOK
BY InitType, NextType, PTL DEF Spec

(***************************************************************************)
(* The commands in progress.  A command that waits for an answer is        *)
(* registered; one whose onCommandDone is queued does not wait any more;   *)
(* numbers above the last one were not given yet, and only the call of     *)
(* identify() is started again by a reset.                                 *)
(***************************************************************************)
InProgress(d) ==
  /\ Pending(d) \cap CallIds \subseteq d.exec
  /\ d.posted \cap Pending(d) = {}
  /\ d.exec \subseteq 1..d.callId /\ d.posted \subseteq 1..d.callId
  /\ \A c \in CallIds : d.call[c].kind # "identify"

SameCalls(d, e) ==
  e.call = d.call /\ e.exec = d.exec /\ e.posted = d.posted /\ e.callId = d.callId

(* A handler that starts no command but identify(). *)
Ends(d, e) ==
  InProgress(e) /\ Pending(e) \subseteq Pending(d)

LEMMA CallsFacts == Calls = {IdentifyCall} \cup CallIds /\ IdentifyCall \notin CallIds
BY DEF Calls, CallIds, IdentifyCall

LEMMA SameCallsEnds ==
  ASSUME NEW d, NEW e, InProgress(d), SameCalls(d, e)
  PROVE  Ends(d, e)
BY DEF Ends, InProgress, SameCalls, Pending

LEMMA EndsTransitive ==
  ASSUME NEW d, NEW e, NEW f, Ends(d, e), Ends(e, f)
  PROVE  Ends(d, f)
BY DEF Ends

LEMMA FinishEnds ==
  ASSUME NEW call \in CallRecord, NEW ok \in BOOLEAN, NEW v \in Content
  PROVE  Finish(call, ok, v).st # "EXEC" /\ Finish(call, ok, v).kind = call.kind
BY DEF Finish, CallRecord

LEMMA OnErrorEnds ==
  ASSUME NEW call \in CallRecord, NEW err, NEW written \in BOOLEAN
  PROVE  /\ OnError(call, err, written).kind = call.kind
         /\ call.kind # "identify" \/ err # "DEV_RESET"
              => OnError(call, err, written).st # "EXEC"
<1>1. "error" \in Content
  BY DEF Content
<1>2. Run(call, written).kind = call.kind
  BY DEF Run, CallRecord
<1>. QED
  BY <1>1, <1>2, FinishEnds DEF OnError

LEMMA StopCommandsEnds ==
  ASSUME NEW d \in DeviceObject, NEW err, InProgress(d)
  PROVE  /\ Ends(d, StopCommands(d, err))
         /\ d.backend /\ err # "DEV_RESET" => Pending(StopCommands(d, err)) = {}
         /\ StopCommands(d, err).connected = d.connected
<1>1. CASE ~d.backend
  <2>1. StopCommands(d, err) = d
    BY <1>1 DEF StopCommands
  <2>. QED
    BY <1>1, <2>1, SameCallsEnds DEF SameCalls
<1>2. CASE d.backend
  <2> DEFINE e == StopCommands(d, err)
             touched == (d.exec \cup {IdentifyCall}) \cap Pending(d)
             calls == [c \in Calls |-> IF c \in touched
                                         THEN OnError(d.call[c], err, CanWrite(d))
                                         ELSE d.call[c]]
  <2>1. /\ e.call = calls /\ e.exec = d.exec /\ e.callId = d.callId
        /\ e.posted = d.posted \cup (touched \cap d.exec)
        /\ e.connected = d.connected
    BY <1>2 DEF StopCommands, DeviceObject
  <2>2. touched = Pending(d)
    BY CallsFacts DEF InProgress, Pending
  <2>3. /\ \A c \in Calls : d.call[c] \in CallRecord
        /\ CanWrite(d) \in BOOLEAN
    BY DEF DeviceObject, CanWrite
  <2>4. \A c \in Calls :
          /\ calls[c].kind = d.call[c].kind
          /\ c \notin Pending(d) => calls[c] = d.call[c]
          /\ c \in Pending(d) /\ (c \in CallIds \/ err # "DEV_RESET")
               => calls[c].st # "EXEC"
    <3>1. \A c \in Calls :
            /\ OnError(d.call[c], err, CanWrite(d)).kind = d.call[c].kind
            /\ d.call[c].kind # "identify" \/ err # "DEV_RESET"
                 => OnError(d.call[c], err, CanWrite(d)).st # "EXEC"
      BY <2>3, OnErrorEnds
    <3>. QED
      BY <2>2, <3>1 DEF InProgress
  <2>. HIDE DEF calls, touched
  <2>5. Pending(e) \subseteq Pending(d) /\ Pending(e) \cap CallIds = {}
    BY <2>1, <2>4 DEF Pending
  <2>6. err # "DEV_RESET" => Pending(e) = {}
    BY <2>1, <2>4 DEF Pending
  <2>7. InProgress(e)
    <3>1. e.posted \cap Pending(e) = {}
      BY <2>1, <2>5, CallsFacts DEF InProgress, DeviceObject, CallIds, Calls, IdentifyCall
    <3>. QED
      BY <2>1, <2>4, <2>5, <3>1, CallsFacts DEF InProgress
  <2>. QED
    BY <2>1, <2>5, <2>6, <2>7 DEF Ends
<1>. QED
  BY <1>1, <1>2 DEF DeviceObject

LEMMA OnDeviceResetEnds ==
  ASSUME NEW d \in DeviceObject, InProgress(d)
  PROVE  Ends(d, OnDeviceReset(d)) /\ OnDeviceReset(d).connected = d.connected
<1> DEFINE e == [d EXCEPT !.loaded = [q \in Queries |-> @[q] /\ q # "state"]]
           f == StopCommands(e, "DEV_RESET")
<1>1. e \in DeviceObject
  <2>1. [q \in Queries |-> d.loaded[q] /\ q # "state"] \in [Queries -> BOOLEAN]
    OBVIOUS
  <2>. QED
    BY <2>1 DEF DeviceObject
<1>2. Ends(d, e) /\ e.connected = d.connected
  BY SameCallsEnds DEF SameCalls, DeviceObject
<1>. HIDE DEF e
<1>3. f \in DeviceObject /\ Ends(e, f) /\ f.connected = e.connected
  BY <1>1, <1>2, StopCommandsType, StopCommandsEnds DEF Ends
<1>. HIDE DEF f
<1>4. OnDeviceReset(d) = [f EXCEPT !.sync = SyncWaitIntervals, !.syncTimer = TRUE]
  BY DEF OnDeviceReset, e, f
<1>5. Ends(f, OnDeviceReset(d)) /\ OnDeviceReset(d).connected = f.connected
  BY <1>3, <1>4, SameCallsEnds DEF SameCalls, DeviceObject, Ends
<1>. QED
  BY <1>2, <1>3, <1>5, EndsTransitive

LEMMA OnConnectedEnds ==
  ASSUME NEW d \in DeviceObject, InProgress(d)
  PROVE  Ends(d, OnConnected(d)) /\ OnConnected(d).connected
BY SameCallsEnds DEF OnConnected, SameCalls, DeviceObject

LEMMA OnDisconnectedEnds ==
  ASSUME NEW d \in DeviceObject, InProgress(d)
  PROVE  /\ Ends(d, OnDisconnected(d))
         /\ ~OnDisconnected(d).connected
         /\ d.connected /\ d.backend => Pending(OnDisconnected(d)) = {}
<1>1. CASE ~d.connected
  BY <1>1, SameCallsEnds DEF OnDisconnected, SameCalls
<1>2. CASE d.connected
  <2> DEFINE e == [d EXCEPT !.connected = FALSE, !.loaded = NothingLoaded,
                            !.sync = 0, !.syncTimer = FALSE]
  <2>1. e \in DeviceObject
    BY Bounds DEF DeviceObject, NothingLoaded
  <2>2. ~e.connected /\ e.backend = d.backend /\ SameCalls(d, e)
    BY DEF DeviceObject, SameCalls
  <2>3. OnDisconnected(d) = StopCommands(e, "DEV_DISCONNECTED")
    BY <1>2 DEF OnDisconnected
  <2>. HIDE DEF e
  <2>4. Ends(d, e) /\ InProgress(e)
    BY <2>2, SameCallsEnds DEF Ends
  <2>. QED
    BY <2>1, <2>2, <2>3, <2>4, StopCommandsEnds, EndsTransitive
<1>. QED
  BY <1>1, <1>2 DEF DeviceObject

LEMMA DestroyBackendEnds ==
  ASSUME NEW d \in DeviceObject, NEW announced \in BOOLEAN, InProgress(d)
  PROVE  Ends(d, DestroyBackend(d, announced))
<1> DEFINE e == IF announced THEN OnDisconnected(d) ELSE d
           f == [e EXCEPT !.backend = FALSE, !.up = FALSE, !.sent = {}]
<1>1. e \in DeviceObject /\ Ends(d, e)
  BY OnDisconnectedType, OnDisconnectedEnds, SameCallsEnds DEF SameCalls
<1>. HIDE DEF e
<1>2. f \in DeviceObject /\ Ends(e, f)
  BY <1>1, SameCallsEnds DEF DeviceObject, SameCalls, Ends
<1>3. DestroyBackend(d, announced) = OnDisconnected(f)
  BY DEF DestroyBackend, OnBackendDestroyed, e
<1>. HIDE DEF f
<1>. QED
  BY <1>1, <1>2, <1>3, OnDisconnectedEnds, EndsTransitive DEF Ends

LEMMA SetBackendEnds ==
  ASSUME NEW d \in DeviceObject, NEW announced \in BOOLEAN, NEW up \in BOOLEAN,
         InProgress(d)
  PROVE  Ends(d, SetBackend(d, announced, up))
<1> DEFINE e == IF d.backend THEN DestroyBackend(d, announced) ELSE d
           f == [e EXCEPT !.backend = TRUE, !.up = up, !.sent = {}]
<1>1. e \in DeviceObject /\ Ends(d, e)
  BY DestroyBackendType, DestroyBackendEnds, SameCallsEnds DEF SameCalls
<1>2. SetBackend(d, announced, up) = IF up THEN OnConnected(f) ELSE OnDisconnected(f)
  BY DEF SetBackend
<1>. HIDE DEF e
<1>3. f \in DeviceObject /\ Ends(e, f)
  BY <1>1, SameCallsEnds DEF DeviceObject, SameCalls, Ends
<1>. HIDE DEF f
<1>. QED
  BY <1>1, <1>2, <1>3, OnConnectedEnds, OnDisconnectedEnds, EndsTransitive DEF Ends

LEMMA AnsweredEnds ==
  ASSUME NEW d \in DeviceObject, NEW c \in Calls, NEW ok \in BOOLEAN, NEW v \in Content,
         InProgress(d)
  PROVE  Ends(d, Answered(d, c, ok, v))
<1> DEFINE e == Answered(d, c, ok, v)
<1>1. /\ e.call = [d.call EXCEPT ![c] = Finish(@, ok, v)]
      /\ e.exec = d.exec /\ e.callId = d.callId
      /\ e.posted = d.posted \cup ({c} \cap Pending(d) \cap CallIds)
  BY DEF Answered, DeviceObject
<1>2. d.call \in [Calls -> CallRecord]
  BY DEF DeviceObject
<1>3. Finish(d.call[c], ok, v).st # "EXEC" /\ Finish(d.call[c], ok, v).kind = d.call[c].kind
  BY <1>2, FinishEnds
<1>4. Pending(e) = Pending(d) \ {c}
  BY <1>1, <1>2, <1>3 DEF Pending
<1>5. \A k \in CallIds : e.call[k].kind # "identify"
  BY <1>1, <1>2, <1>3, CallsFacts DEF InProgress
<1>. HIDE DEF e
<1>6. {c} \cap Pending(d) \cap CallIds \subseteq 1..d.callId
  BY DEF InProgress
<1>7. e.posted \cap Pending(e) = {}
  BY <1>1, <1>4 DEF InProgress
<1>. QED
  BY <1>1, <1>4, <1>5, <1>6, <1>7 DEF Ends, InProgress, e

LEMMA OnMessageEnds ==
  ASSUME NEW d \in DeviceObject, NEW m \in Message, InProgress(d)
  PROVE  Ends(d, OnMessage(d, m)) /\ OnMessage(d, m).connected = d.connected
<1>. m.c \in Calls /\ m.v \in Content /\ IdentifyCall \in Calls
  BY DEF Message, Calls
<1>0. ASSUME NEW c \in Calls, NEW ok \in BOOLEAN, NEW v \in Content
      PROVE  /\ Ends(d, Answered(d, c, ok, v))
             /\ Answered(d, c, ok, v).connected = d.connected
  BY AnsweredEnds DEF Answered, DeviceObject
<1>1. CASE m.t \in {"syncr", "statechanged"}
  <2>1. /\ SameCalls(d, OnMessage(d, m))
        /\ OnMessage(d, m).connected = d.connected
    BY <1>1 DEF OnMessage, SameCalls, DeviceObject
  <2>. QED
    BY <2>1, SameCallsEnds
<1>2. CASE m.t = "deviceinfo"
  BY <1>0, <1>2 DEF OnMessage
<1>3. CASE m.t \in {"ok", "err"}
  <2>1. CASE m.c \in d.exec
    <3>1. CASE m.t = "ok"
      BY <1>0, <2>1, <3>1 DEF OnMessage
    <3>2. CASE m.t = "err"
      BY <1>0, <2>1, <3>2 DEF OnMessage
    <3>. QED
      BY <1>3, <3>1, <3>2
  <2>2. CASE m.c \notin d.exec
    BY <1>3, <2>2, SameCallsEnds DEF OnMessage, SameCalls
  <2>. QED
    BY <2>1, <2>2
<1>4. CASE m.t = "reset"
  BY <1>4, OnDeviceResetEnds DEF OnMessage
<1>. QED
  BY <1>1, <1>2, <1>3, <1>4 DEF Message

LEMMA OnTimeoutEnds ==
  ASSUME NEW d \in DeviceObject, NEW c \in Calls, InProgress(d)
  PROVE  Ends(d, OnTimeout(d, c)) /\ OnTimeout(d, c).connected = d.connected
<1> DEFINE e == Answered(d, c, FALSE, "error")
<1>1. e \in DeviceObject /\ Ends(d, e) /\ e.connected = d.connected
  BY AnsweredType, AnsweredEnds DEF Content, Answered, DeviceObject
<1>2. OnTimeout(d, c) = [e EXCEPT !.call[c].timer = FALSE]
  BY DEF OnTimeout
<1>. HIDE DEF e
<1> DEFINE f == OnTimeout(d, c)
<1>3. /\ f.exec = e.exec /\ f.posted = e.posted /\ f.callId = e.callId
      /\ f.connected = e.connected
      /\ \A k \in Calls : f.call[k].st = e.call[k].st /\ f.call[k].kind = e.call[k].kind
  BY <1>1, <1>2 DEF DeviceObject, CallRecord
<1>. HIDE DEF f
<1>4. Ends(e, f)
  BY <1>1, <1>3, CallsFacts DEF Ends, InProgress, Pending
<1>. QED
  BY <1>1, <1>3, <1>4, EndsTransitive DEF f

LEMMA OnSyncTimerEnds ==
  ASSUME NEW d \in DeviceObject, InProgress(d)
  PROVE  /\ Ends(d, OnSyncTimer(d))
         /\ OnSyncTimer(d).connected # d.connected => Pending(OnSyncTimer(d)) = {}
<1>1. CASE d.sync > 0
  <2>1. SameCalls(d, OnSyncTimer(d)) /\ OnSyncTimer(d).connected = d.connected
    BY <1>1 DEF OnSyncTimer, SameCalls, DeviceObject
  <2>. QED
    BY <2>1, SameCallsEnds
<1>2. CASE ~(d.sync > 0) /\ d.backend
  <2> DEFINE e == [d EXCEPT !.up = FALSE]
  <2>1. /\ e \in DeviceObject /\ SameCalls(d, e)
        /\ e.connected = d.connected /\ e.backend /\ d.connected \in BOOLEAN
    BY <1>2 DEF DeviceObject, SameCalls
  <2>2. OnSyncTimer(d) = OnDisconnected(e)
    BY <1>2 DEF OnSyncTimer
  <2>. HIDE DEF e
  <2>3. Ends(d, e) /\ InProgress(e)
    BY <2>1, SameCallsEnds DEF Ends
  <2>4. /\ Ends(d, OnSyncTimer(d)) /\ ~OnSyncTimer(d).connected
        /\ d.connected => Pending(OnSyncTimer(d)) = {}
    BY <2>1, <2>2, <2>3, OnDisconnectedEnds, EndsTransitive
  <2>5. OnSyncTimer(d).connected = d.connected \/ d.connected
    <3>1. CASE ~d.connected
      BY <2>1, <2>2, <3>1 DEF OnDisconnected
    <3>. QED
      BY <3>1
  <2>. QED
    BY <2>4, <2>5
<1>3. CASE ~(d.sync > 0) /\ ~d.backend
  BY <1>3, SameCallsEnds DEF OnSyncTimer, SameCalls
<1>. QED
  BY <1>1, <1>2, <1>3

(* A command is started only under a new number. *)
LEMMA ExecCommandStarts ==
  ASSUME NEW d \in DeviceObject, d.callId < MaxCalls, NEW k \in Kinds \ {"identify"},
         InProgress(d)
  PROVE  LET e == ExecCommand(d, k)
         IN  /\ InProgress(e) /\ e.connected = d.connected
             /\ ~d.connected => Pending(e) \subseteq Pending(d)
<1> DEFINE c == d.callId + 1
           written == d.connected /\ CanWrite(d)
           called == IF d.connected THEN Run(NewCall(k), written) ELSE NewCall(k)
           e == ExecCommand(d, k)
<1>1. c \in CallIds /\ c \in Calls /\ d.callId \in Nat
  BY ConstantsAssumption DEF DeviceObject, CallIds, Calls
<1>2. c \notin 1..d.callId /\ 1..d.callId \subseteq 1..c /\ c \in 1..c
  BY <1>1
<1>3. /\ e.call = [d.call EXCEPT ![c] = called] /\ e.exec = d.exec \cup {c}
      /\ e.posted = d.posted /\ e.callId = c /\ e.connected = d.connected
  BY DEF ExecCommand, DeviceObject
<1>4. called.kind = k /\ (~d.connected => called.st = "WAIT")
  BY DEF Run, NewCall
<1>5. d.call \in [Calls -> CallRecord]
  BY DEF DeviceObject
<1>. HIDE DEF called, written, e, c
<1>6. Pending(e) \subseteq Pending(d) \cup {c}
  BY <1>3, <1>5 DEF Pending
<1>7. ~d.connected => Pending(e) \subseteq Pending(d)
  BY <1>1, <1>3, <1>4, <1>5 DEF Pending
<1>8. \A i \in CallIds : e.call[i].kind # "identify"
  BY <1>1, <1>3, <1>4, <1>5, CallsFacts DEF InProgress
<1>9. e.posted \cap Pending(e) = {}
  BY <1>2, <1>3, <1>6 DEF InProgress
<1>. QED
  BY <1>2, <1>3, <1>6, <1>7, <1>8, <1>9 DEF InProgress, e

LEMMA StartIdentifyStarts ==
  ASSUME NEW d \in DeviceObject, InProgress(d)
  PROVE  InProgress(StartIdentify(d)) /\ StartIdentify(d).connected = d.connected
<1> DEFINE e == StartIdentify(d)
<1>1. /\ e.call = [d.call EXCEPT ![IdentifyCall] = Run(@, CanWrite(d))]
      /\ e.exec = d.exec /\ e.posted = d.posted /\ e.callId = d.callId
      /\ e.connected = d.connected
  BY DEF StartIdentify, DeviceObject
<1>2. d.call \in [Calls -> CallRecord] /\ d.posted \subseteq CallIds
  BY DEF DeviceObject
<1>3. \A c \in CallIds : e.call[c] = d.call[c]
  BY <1>1, <1>2, CallsFacts
<1>. HIDE DEF e
<1>. QED
  BY <1>1, <1>2, <1>3, CallsFacts DEF InProgress, Pending, e
(***************************************************************************)
(* The invariant: what is in progress, and what a disconnection leaves.    *)
(***************************************************************************)
Commands == InProgress(dev) /\ PendingIsRegistered /\ DisconnectEndsCommands

LEMMA InitCommands == Init => Commands
<1>. SUFFICES ASSUME Init PROVE Commands
  OBVIOUS
<1>1. \A c \in Calls : dev.call[c].st = "WAIT"
  BY DEF Init, NewCall
<1>2. \A c \in CallIds : dev.call[c].kind # "identify"
  BY CallsFacts DEF Init, NewCall
<1>. QED
  BY <1>1, <1>2 DEF Init, Commands, InProgress, Pending, PendingIsRegistered,
                    DisconnectEndsCommands

LEMMA NextCommands == TypeOK /\ Commands /\ [Next]_vars => Commands'
<1>. SUFFICES ASSUME TypeOK, Commands, [Next]_vars PROVE Commands'
  OBVIOUS
<1>0. /\ dev \in DeviceObject /\ InProgress(dev)
      /\ ~dev.connected => Pending(dev) \subseteq hist.orphans
  BY DEF TypeOK, Commands, DisconnectEndsCommands
<1>1. ASSUME InProgress(dev'), ~dev'.connected => Pending(dev') \subseteq hist'.orphans
      PROVE  Commands'
  BY <1>1 DEF Commands, PendingIsRegistered, DisconnectEndsCommands, InProgress, Pending
<1>2. ASSUME Ends(dev, dev'), dev'.connected = dev.connected,
             hist'.orphans = hist.orphans
      PROVE  Commands'
  BY <1>0, <1>1, <1>2 DEF Ends
<1>3. \A cause : Overtake(hist, cause).orphans = hist.orphans
  BY DEF Overtake, TypeOK, History
<1>4. ASSUME SameCalls(dev, dev'), dev'.connected = dev.connected,
             hist'.orphans = hist.orphans
      PROVE  Commands'
  BY <1>0, <1>2, <1>4, SameCallsEnds
<1>5. ASSUME NEW k \in Kinds \ {"identify"}, dev.callId < MaxCalls,
             dev' = ExecCommand(dev, k), hist' = hist
      PROVE  Commands'
  BY <1>0, <1>1, <1>5, ExecCommandStarts
<1>6. Queries \cup UserKinds \subseteq Kinds \ {"identify"}
  BY ConstantsAssumption DEF Kinds, UserKinds
<1>7. CASE Identify
  BY <1>0, <1>1, <1>7, StartIdentifyStarts DEF Identify
<1>8. ASSUME NEW q \in Queries, Query(q) PROVE Commands'
  BY <1>5, <1>6, <1>8 DEF Query
<1>9. ASSUME NEW k \in UserKinds, Exec(k) PROVE Commands'
  BY <1>5, <1>6, <1>9 DEF Exec
<1>10. CASE Return
  <2> DEFINE c == waits[Len(waits)]
  <2>1. \/ dev' = FinishIdentify(dev) /\ hist' = hist
        \/ dev' = FinishQuery(dev, c) /\ hist' = Keep(hist, c, dev)
        \/ dev' = dev /\ hist' = hist
    BY <1>10 DEF Return
  <2>2. SameCalls(dev, dev') /\ dev'.connected = dev.connected
    BY <1>0, <2>1 DEF FinishIdentify, FinishQuery, SameCalls, DeviceObject
  <2>3. hist'.orphans = hist.orphans
    BY <2>1 DEF Keep, TypeOK, History
  <2>. QED
    BY <1>4, <2>2, <2>3
<1>11. CASE AttachBackend
  <2>1. Ends(dev, dev')
    BY <1>0, <1>11, SetBackendEnds DEF AttachBackend
  <2>2. hist'.orphans = IF dev'.connected THEN {} ELSE Pending(dev')
    BY <1>11 DEF AttachBackend, Orphan, Overtake, TypeOK, History
  <2>. QED
    BY <1>1, <2>1, <2>2 DEF Ends
<1>12. CASE BackendConnected
  <2> DEFINE e == [dev EXCEPT !.up = TRUE, !.sent = {}]
  <2>1. e \in DeviceObject /\ SameCalls(dev, e)
    BY <1>0 DEF DeviceObject, SameCalls
  <2>2. dev' = OnConnected(e)
    BY <1>12 DEF BackendConnected
  <2>. HIDE DEF e
  <2>3. InProgress(e)
    BY <1>0, <2>1, SameCallsEnds DEF Ends
  <2>. QED
    BY <1>1, <2>1, <2>2, <2>3, OnConnectedEnds DEF Ends
<1>13. CASE LinkCloses
  BY <1>0, <1>4, <1>13 DEF LinkCloses, SameCalls, DeviceObject
<1>14. CASE BackendDisconnected
  <2>1. Ends(dev, dev') /\ Pending(dev') = {}
    BY <1>0, <1>14, OnDisconnectedEnds DEF BackendDisconnected
  <2>. QED
    BY <1>1, <2>1 DEF Ends
<1>15. CASE BackendDestroyed
  <2>1. Ends(dev, dev')
    BY <1>0, <1>15, DestroyBackendEnds DEF BackendDestroyed
  <2>2. hist'.orphans = IF dev'.connected THEN {} ELSE Pending(dev')
    BY <1>15 DEF BackendDestroyed, Orphan, Overtake, TypeOK, History
  <2>. QED
    BY <1>1, <2>1, <2>2 DEF Ends
<1>16. CASE BackendTaken
  <2> DEFINE e == StopCommands(dev, "DEV_DESTROYED")
  <2>1. e \in DeviceObject /\ Ends(dev, e) /\ e.connected = dev.connected
    BY <1>0, StopCommandsType, StopCommandsEnds
  <2>2. dev' = [e EXCEPT !.backend = FALSE, !.up = FALSE, !.sent = {}]
    BY <1>16 DEF BackendTaken, TakeBackend
  <2>. HIDE DEF e
  <2>3. SameCalls(e, dev') /\ dev'.connected = e.connected
    BY <2>1, <2>2 DEF SameCalls, DeviceObject
  <2>4. Ends(dev, dev')
    BY <2>1, <2>3, SameCallsEnds, EndsTransitive DEF Ends
  <2>5. hist'.orphans = hist.orphans
    BY <1>3, <1>16 DEF BackendTaken
  <2>. QED
    BY <1>2, <2>1, <2>3, <2>4, <2>5
<1>17. CASE Deliver
  <2>1. Head(wire) \in Message
    BY <1>17 DEF Deliver, TypeOK
  <2>2. Ends(dev, dev') /\ dev'.connected = dev.connected
    BY <1>0, <1>17, <2>1, OnMessageEnds DEF Deliver
  <2>3. [Overtake(hist, "change") EXCEPT !.tainted = Told(@)].orphans = hist.orphans
    BY <1>3 DEF Overtake, TypeOK, History
  <2>4. hist'.orphans = hist.orphans
    BY <1>3, <1>17, <2>3 DEF Deliver
  <2>. QED
    BY <1>2, <2>2, <2>4
<1>18. ASSUME NEW c \in Calls, CallTimeout(c) PROVE Commands'
  BY <1>0, <1>2, <1>18, OnTimeoutEnds DEF CallTimeout
<1>19. CASE SyncTimeout
  <2>1. /\ Ends(dev, dev')
        /\ dev'.connected # dev.connected => Pending(dev') = {}
    BY <1>0, <1>19, OnSyncTimerEnds DEF SyncTimeout
  <2>2. hist'.orphans = hist.orphans
    BY <1>3, <1>19 DEF SyncTimeout
  <2>. QED
    BY <1>0, <1>1, <2>1, <2>2 DEF Ends
<1>20. ASSUME NEW c \in CallIds, OnCommandDone(c) PROVE Commands'
  <2>1. /\ dev'.call = dev.call /\ dev'.callId = dev.callId
        /\ dev'.exec = dev.exec \ {c} /\ dev'.posted = dev.posted \ {c}
        /\ dev'.connected = dev.connected /\ c \in dev.posted
    BY <1>0, <1>20 DEF OnCommandDone, DeviceObject
  <2>2. Pending(dev') = Pending(dev)
    BY <2>1 DEF Pending
  <2>3. Ends(dev, dev')
    BY <1>0, <2>1, <2>2 DEF Ends, InProgress
  <2>. QED
    BY <1>2, <1>20, <2>1, <2>3 DEF OnCommandDone
<1>21. ASSUME NEW c \in Calls, DeviceAnswers(c) PROVE Commands'
  BY <1>0, <1>4, <1>21 DEF DeviceAnswers, SameCalls, DeviceObject
<1>22. CASE DeviceResets
  BY <1>0, <1>4, <1>22 DEF DeviceResets, SameCalls, DeviceObject
<1>23. ASSUME UNCHANGED <<dev, hist>> PROVE Commands'
  BY <1>4, <1>23 DEF SameCalls
<1>24. CASE DeviceSyncs \/ (\E v \in Values : DeviceChanges(v)) \/ UNCHANGED vars
  BY <1>23, <1>24 DEF DeviceSyncs, DeviceChanges, vars
<1>25. CASE ConnectedReturns
  BY <1>0, <1>2, <1>25, OnDeviceResetEnds DEF ConnectedReturns
<1>. QED
  BY <1>7, <1>8, <1>9, <1>10, <1>11, <1>12, <1>13, <1>14, <1>15, <1>16, <1>17,
     <1>18, <1>19, <1>20, <1>21, <1>22, <1>24, <1>25 DEF Next

(* An answer finds its call: a command that waits is registered.           *)
THEOREM RegisteredCorrect == Spec => []PendingIsRegistered
<1>1. Commands => PendingIsRegistered
  BY DEF Commands
<1>. QED
  BY <1>1, TypeCorrect, InitCommands, NextCommands, PTL DEF Spec

(* Once the device is disconnected no command is left in progress but those *)
(* whose backend was destroyed under them.                                  *)
THEOREM DisconnectCorrect == Spec => []DisconnectEndsCommands
<1>1. Commands => DisconnectEndsCommands
  BY DEF Commands
<1>. QED
  BY <1>1, TypeCorrect, InitCommands, NextCommands, PTL DEF Spec
-----------------------------------------------------------------------------
(***************************************************************************)
(* What the object knows of its device.                                    *)
(*                                                                         *)
(* Carried: which calls were given to the device and which of its answers  *)
(* are under way: at most one for each call, and none to a call that has   *)
(* succeeded or may be given to the device again.                          *)
(***************************************************************************)
Linked == dev.up => dev.connected /\ dev.backend

Carried ==
  /\ dev.call[IdentifyCall].kind = "identify"
  /\ \A c \in CallIds : IF c \in 1..dev.callId THEN dev.call[c].kind # "unused"
                        ELSE dev.call[c].kind = "unused" /\ dev.call[c].st = "WAIT"
  /\ \A c \in dev.sent \cap CallIds :
       c \in 1..dev.callId /\ dev.call[c].st # "WAIT"
         /\ (dev.call[c].st = "DONE" => ~dev.call[c].ok)
  /\ \A i \in Replies : wire[i].c \in 1..dev.callId /\ wire[i].c \notin dev.sent
  /\ \A i, j \in Replies : wire[i].c = wire[j].c => i = j

(* Each command has one operation that waits for it, and was run. *)
WaitOnce ==
  /\ \A i \in 1..Len(waits) : waits[i] \in CallIds =>
       waits[i] \in 1..dev.callId /\ dev.call[waits[i]].st # "WAIT"
  /\ \A i, j \in 1..Len(waits) : waits[i] \in CallIds /\ waits[i] = waits[j] => i = j

(* The last message that tells the state tells the present one, and so do  *)
(* answers and a cache that nothing has overtaken.                         *)
Restless(m) == m.t \in {"statechanged", "reset"}
Still(i) == \A j \in 1..Len(wire) : j > i => ~Restless(wire[j])

TellsState(m) ==
  \/ m.t = "statechanged"
  \/ m.t = "ok" /\ m.c \in CallIds /\ dev.call[m.c].kind = "state" /\ m.v # "bad"
WireTells ==
  \A i \in 1..Len(wire) : TellsState(wire[i]) /\ Still(i) => wire[i].v = hw.state

Usable(c) == c \in Returning /\ c \in CallIds /\ dev.call[c].ok

StateKnown ==
  dev.up /\ Still(0) =>
    /\ "state" \in Queries /\ dev.loaded["state"] /\ hist.tainted["state"] = {}
         => dev.cache["state"] = hw.state
    /\ \A c \in CallIds :
         /\ Usable(c) /\ dev.call[c].kind = "state" /\ dev.call[c].ret # "bad"
         /\ hist.overtaken[c] = {}
         => dev.call[c].ret = hw.state

(* Descriptions that are cached, or will be, are of this device, but for   *)
(* those of a device before; once one of these is cached, no query that    *)
(* the present device answers waits for the same.                          *)
Description == IF hw.bare THEN "empty" ELSE hw.id

(* The device has the call, or has answered it. *)
Asked(c) == c \in dev.sent \/ \E i \in Replies : wire[i].c = c

Ready(c) ==
  \/ dev.call[c].st = "EXEC" /\ Asked(c)
  \/ dev.call[c].st = "DONE" /\ dev.call[c].ok /\ "link" \notin hist.overtaken[c]
Late(c) == dev.call[c].st = "DONE" /\ "link" \in hist.overtaken[c]

WireDescribes ==
  \A i \in Replies :
    dev.call[wire[i].c].kind \in Descriptions => wire[i].v \in {"bad", Description}

Described ==
  dev.up =>
    /\ \A q \in Descriptions : dev.loaded[q] /\ "link" \notin hist.tainted[q]
         => dev.cache[q] = hw.id /\ ~hw.bare
    /\ \A c \in CallIds :
         /\ Usable(c) /\ dev.call[c].kind \in Descriptions
         /\ "link" \notin hist.overtaken[c]
         => dev.call[c].ret \in {"bad", Description}
    /\ \A q \in Descriptions, i \in 1..Len(waits) :
         /\ dev.loaded[q] /\ "link" \in hist.tainted[q]
         /\ waits[i] \in CallIds /\ dev.call[waits[i]].kind = q
         => ~Ready(waits[i])
    /\ \A i, j \in 1..Len(waits) :
         i < j /\ waits[i] \in CallIds /\ waits[j] \in CallIds /\ Late(waits[j])
           => ~Ready(waits[i])

(* While the device is disconnected there is nothing but what is late. *)
Forgotten ==
  /\ \A c \in CallIds : dev.call[c].st # "DONE" => hist.overtaken[c] = {}
  /\ ~dev.connected =>
       /\ \A q \in Queries : dev.loaded[q] => "link" \in hist.tainted[q]
       /\ \A c \in CallIds : Usable(c) => "link" \in hist.overtaken[c]
       /\ \A i \in Replies : wire[i].c \notin Pending(dev)

(* The identifier is that of the last answer to identify. *)
Identified ==
  LET r == dev.call[IdentifyCall]
  IN  IF r.st = "EXEC" THEN dev.id = NoId
      ELSE r.ok /\ r.ret \in Ids => dev.id \in {NoId, r.ret}

Knowledge ==
  /\ Linked /\ Carried /\ WaitOnce /\ WireTells /\ StateKnown /\ WireDescribes
  /\ Described /\ Forgotten /\ Identified
-----------------------------------------------------------------------------
(***************************************************************************)
(* Handlers that start nothing.  Each call is as it was, but for its       *)
(* timer, or fails; identify() may be given to the device again.           *)
(***************************************************************************)
Alike(r, s) == s.kind = r.kind /\ s.st = r.st /\ s.ok = r.ok /\ s.ret = r.ret
Fails(r, s) == r.st = "EXEC" /\ s.kind = r.kind /\ s.st = "DONE" /\ ~s.ok
Again(r, s) == r.st = "EXEC" /\ s.kind = r.kind /\ s.st = "EXEC"

Quits(d, e) ==
  /\ \A c \in CallIds : Alike(d.call[c], e.call[c]) \/ Fails(d.call[c], e.call[c])
  /\ \/ Alike(d.call[IdentifyCall], e.call[IdentifyCall])
     \/ Fails(d.call[IdentifyCall], e.call[IdentifyCall])
     \/ Again(d.call[IdentifyCall], e.call[IdentifyCall])
  /\ e.callId = d.callId /\ e.cache = d.cache /\ e.id = d.id
  /\ e.sent \cap CallIds \subseteq d.sent

SameLink(d, e) ==
  e.backend = d.backend /\ e.up = d.up /\ e.connected = d.connected /\ e.loaded = d.loaded

Idle(d) == \A c \in CallIds : d.call[c].st # "EXEC"
AllAlike(d, e) == \A c \in CallIds : Alike(d.call[c], e.call[c])

LEMMA QuitsTransitive ==
  ASSUME NEW d, NEW e, NEW f, Quits(d, e), Quits(e, f)
  PROVE  /\ Quits(d, f)
         /\ Idle(e) => Idle(f)
         /\ AllAlike(d, e) /\ AllAlike(e, f) => AllAlike(d, f)
<1>1. Quits(d, f)
  <2>1. ASSUME NEW c \in CallIds
        PROVE  Alike(d.call[c], f.call[c]) \/ Fails(d.call[c], f.call[c])
    BY DEF Quits, Alike, Fails
  <2>2. \/ Alike(d.call[IdentifyCall], f.call[IdentifyCall])
        \/ Fails(d.call[IdentifyCall], f.call[IdentifyCall])
        \/ Again(d.call[IdentifyCall], f.call[IdentifyCall])
    BY DEF Quits, Alike, Fails, Again
  <2>3. /\ f.callId = d.callId /\ f.cache = d.cache /\ f.id = d.id
        /\ f.sent \cap CallIds \subseteq d.sent
    BY DEF Quits
  <2>. QED
    BY <2>1, <2>2, <2>3 DEF Quits
<1>2. Idle(e) => Idle(f)
  BY DEF Quits, Idle, Alike, Fails
<1>3. AllAlike(d, e) /\ AllAlike(e, f) => AllAlike(d, f)
  BY DEF AllAlike, Alike
<1>. QED
  BY <1>1, <1>2, <1>3

LEMMA SameCallsQuits ==
  ASSUME NEW d, NEW e, e.call = d.call, e.callId = d.callId, e.cache = d.cache,
         e.id = d.id, e.sent \cap CallIds \subseteq d.sent
  PROVE  Quits(d, e) /\ AllAlike(d, e) /\ (Idle(e) <=> Idle(d))
BY DEF Quits, AllAlike, Alike, Idle

LEMMA FinishFails ==
  ASSUME NEW r \in CallRecord, NEW v
  PROVE  Alike(r, Finish(r, FALSE, v)) \/ Fails(r, Finish(r, FALSE, v))
BY DEF Finish, Alike, Fails, CallRecord

LEMMA OnErrorFails ==
  ASSUME NEW r \in CallRecord, r.st = "EXEC", NEW err, NEW written \in BOOLEAN
  PROVE  /\ \/ Fails(r, OnError(r, err, written))
            \/ r.kind = "identify" /\ Again(r, OnError(r, err, written))
<1>1. Finish(r, FALSE, "error").st = "DONE"
  BY DEF Finish, CallRecord
<1>2. Fails(r, Finish(r, FALSE, "error"))
  BY <1>1, FinishFails DEF Alike
<1>3. Fails(r, Run(r, written)) \/ Again(r, Run(r, written))
  BY DEF Run, Fails, Again, CallRecord
<1>. QED
  BY <1>2, <1>3 DEF OnError

LEMMA StopQuits ==
  ASSUME NEW d \in DeviceObject, NEW err, InProgress(d)
  PROVE  LET e == StopCommands(d, err)
         IN  /\ Quits(d, e) /\ SameLink(d, e)
             /\ d.backend => Idle(e)
             /\ ~d.backend => e = d
<1>1. CASE ~d.backend
  <2>1. StopCommands(d, err) = d
    BY <1>1 DEF StopCommands
  <2>. QED
    BY <1>1, <2>1, SameCallsQuits DEF SameLink
<1>2. CASE d.backend
  <2> DEFINE e == StopCommands(d, err)
             touched == (d.exec \cup {IdentifyCall}) \cap Pending(d)
             calls == [c \in Calls |-> IF c \in touched
                                         THEN OnError(d.call[c], err, CanWrite(d))
                                         ELSE d.call[c]]
             stopped == [d EXCEPT !.call = calls]
  <2>0. stopped.call = calls
    BY DEF DeviceObject
  <2>1. /\ e.call = calls /\ e.callId = d.callId /\ e.cache = d.cache /\ e.id = d.id
        /\ e.sent = d.sent \cup (touched \cap Pending(stopped))
        /\ SameLink(d, e)
    BY <1>2 DEF StopCommands, DeviceObject, SameLink
  <2>2. touched = Pending(d)
    BY CallsFacts DEF InProgress, Pending
  <2>3. /\ \A c \in Calls : d.call[c] \in CallRecord
        /\ CanWrite(d) \in BOOLEAN
    BY DEF DeviceObject, CanWrite
  <2>4. ASSUME NEW c \in Calls
        PROVE  /\ c \notin Pending(d) => calls[c] = d.call[c]
               /\ c \in Pending(d) => \/ Fails(d.call[c], calls[c])
                                      \/ /\ d.call[c].kind = "identify"
                                         /\ Again(d.call[c], calls[c])
    <3>1. CASE c \in Pending(d)
      <4>1. calls[c] = OnError(d.call[c], err, CanWrite(d)) /\ d.call[c].st = "EXEC"
        BY <2>2, <3>1 DEF Pending
      <4>. QED
        BY <2>3, <3>1, <4>1, OnErrorFails
    <3>. QED
      BY <2>2, <3>1
  <2>. HIDE DEF calls, touched, e, stopped
  <2>5. ASSUME NEW c \in CallIds
        PROVE  /\ Alike(d.call[c], calls[c]) \/ Fails(d.call[c], calls[c])
               /\ calls[c].st # "EXEC"
    <3>1. c \in Calls /\ d.call[c].kind # "identify"
      BY CallsFacts DEF InProgress
    <3>2. CASE c \in Pending(d)
      BY <2>4, <3>1, <3>2 DEF Fails
    <3>3. CASE c \notin Pending(d)
      BY <2>4, <3>1, <3>3 DEF Alike, Pending
    <3>. QED
      BY <3>2, <3>3
  <2>6. \/ Alike(d.call[IdentifyCall], calls[IdentifyCall])
        \/ Fails(d.call[IdentifyCall], calls[IdentifyCall])
        \/ Again(d.call[IdentifyCall], calls[IdentifyCall])
    BY <2>4, CallsFacts DEF Alike
  <2>7. e.sent \cap CallIds \subseteq d.sent
    BY <2>0, <2>1, <2>5 DEF Pending
  <2>8. Quits(d, e) /\ Idle(e)
    BY <2>1, <2>5, <2>6, <2>7 DEF Quits, Idle
  <2>. QED
    BY <1>2, <2>1, <2>8 DEF e
<1>. QED
  BY <1>1, <1>2 DEF DeviceObject

LEMMA ResetQuits ==
  ASSUME NEW d \in DeviceObject, InProgress(d)
  PROVE  LET e == OnDeviceReset(d)
         IN  /\ e \in DeviceObject /\ InProgress(e) /\ Quits(d, e)
             /\ e.backend = d.backend /\ e.up = d.up /\ e.connected = d.connected
             /\ \A q \in Queries : e.loaded[q] <=> d.loaded[q] /\ q # "state"
             /\ d.backend => Idle(e)
<1> DEFINE a == [d EXCEPT !.loaded = [q \in Queries |-> @[q] /\ q # "state"]]
           f == StopCommands(a, "DEV_RESET")
           e == OnDeviceReset(d)
<1>1. [q \in Queries |-> d.loaded[q] /\ q # "state"] \in [Queries -> BOOLEAN]
  OBVIOUS
<1>2. /\ a \in DeviceObject /\ a.call = d.call /\ a.callId = d.callId
      /\ a.cache = d.cache /\ a.id = d.id /\ a.sent = d.sent
      /\ a.exec = d.exec /\ a.posted = d.posted
      /\ a.backend = d.backend /\ a.up = d.up /\ a.connected = d.connected
      /\ \A q \in Queries : a.loaded[q] <=> d.loaded[q] /\ q # "state"
  BY <1>1 DEF DeviceObject
<1>. HIDE DEF a
<1>3. Quits(d, a) /\ InProgress(a)
  BY <1>2, SameCallsQuits, SameCallsEnds DEF SameCalls, Ends
<1>4. f \in DeviceObject /\ Quits(a, f) /\ SameLink(a, f) /\ (a.backend => Idle(f))
  BY <1>2, <1>3, StopCommandsType, StopQuits
<1>. HIDE DEF f
<1>5. e = [f EXCEPT !.sync = SyncWaitIntervals, !.syncTimer = TRUE]
  BY DEF OnDeviceReset, e, f, a
<1>6. /\ e.call = f.call /\ e.callId = f.callId /\ e.cache = f.cache /\ e.id = f.id
      /\ e.sent = f.sent /\ SameLink(f, e)
  BY <1>4, <1>5 DEF DeviceObject, SameLink
<1>7. e \in DeviceObject /\ InProgress(e)
  BY OnDeviceResetType, OnDeviceResetEnds DEF Ends, e
<1>. HIDE DEF e
<1>8. Quits(f, e) /\ (Idle(f) => Idle(e))
  BY <1>6, SameCallsQuits
<1>9. Quits(d, f)
  BY <1>3, <1>4, QuitsTransitive
<1>10. Quits(d, e)
  BY <1>8, <1>9, QuitsTransitive
<1>. QED
  BY <1>2, <1>4, <1>6, <1>7, <1>8, <1>10 DEF SameLink, e

LEMMA SelfQuits == ASSUME NEW d, NEW e, e = d PROVE Quits(d, e) /\ AllAlike(d, e)
BY DEF Quits, AllAlike, Alike

LEMMA ConnectedQuits ==
  ASSUME NEW d \in DeviceObject, InProgress(d)
  PROVE  LET e == OnConnected(d)
         IN  /\ e \in DeviceObject /\ InProgress(e) /\ Quits(d, e) /\ AllAlike(d, e)
             /\ e.connected /\ e.backend = d.backend /\ e.up = d.up
             /\ e.loaded = d.loaded /\ e.sent = d.sent
<1>1. PICK e : e = OnConnected(d)
  OBVIOUS
<1>2. /\ e \in DeviceObject /\ SameCalls(d, e) /\ e.cache = d.cache /\ e.id = d.id
      /\ e.connected /\ e.backend = d.backend /\ e.up = d.up
      /\ e.loaded = d.loaded /\ e.sent = d.sent
  BY <1>1 DEF OnConnected, DeviceObject, SameCalls
<1>3. Quits(d, e) /\ AllAlike(d, e) /\ InProgress(e)
  BY <1>2, SameCallsQuits, SameCallsEnds DEF SameCalls, Ends
<1>. QED
  BY <1>1, <1>2, <1>3

LEMMA DisconnectedQuits ==
  ASSUME NEW d \in DeviceObject, InProgress(d)
  PROVE  LET e == OnDisconnected(d)
         IN  /\ e \in DeviceObject /\ InProgress(e) /\ Quits(d, e)
             /\ ~e.connected /\ e.backend = d.backend /\ e.up = d.up
             /\ ~d.connected => e = d
             /\ d.connected => \A q \in Queries : ~e.loaded[q]
             /\ d.connected /\ d.backend => Idle(e)
             /\ ~d.backend => AllAlike(d, e)
<1>1. CASE ~d.connected
  <2>1. OnDisconnected(d) = d
    BY <1>1 DEF OnDisconnected
  <2>. QED
    BY <1>1, <2>1, SameCallsQuits
<1>2. CASE d.connected
  <2> DEFINE a == [d EXCEPT !.connected = FALSE, !.loaded = NothingLoaded,
                            !.sync = 0, !.syncTimer = FALSE]
  <2>1. /\ a \in DeviceObject /\ ~a.connected /\ SameCalls(d, a)
        /\ a.cache = d.cache /\ a.id = d.id /\ a.sent = d.sent
        /\ a.backend = d.backend /\ a.up = d.up /\ a.loaded = NothingLoaded
    BY Bounds DEF DeviceObject, SameCalls, NothingLoaded
  <2>2. OnDisconnected(d) = StopCommands(a, "DEV_DISCONNECTED")
    BY <1>2 DEF OnDisconnected
  <2>. HIDE DEF a
  <2>3. Quits(d, a) /\ AllAlike(d, a) /\ InProgress(a)
    BY <2>1, SameCallsQuits, SameCallsEnds DEF SameCalls, Ends
  <2>4. PICK e : e = StopCommands(a, "DEV_DISCONNECTED")
    OBVIOUS
  <2>5. /\ Quits(a, e) /\ SameLink(a, e) /\ e \in DeviceObject
        /\ a.backend => Idle(e)
        /\ ~a.backend => e = a
    BY <2>1, <2>3, <2>4, StopQuits, StopCommandsType
  <2>6. InProgress(e)
    BY <2>1, <2>3, <2>4, StopCommandsEnds DEF Ends
  <2>7. Quits(d, e)
    BY <2>3, <2>5, QuitsTransitive
  <2>8. \A q \in Queries : ~NothingLoaded[q]
    BY DEF NothingLoaded
  <2>. QED
    BY <1>2, <2>1, <2>2, <2>3, <2>4, <2>5, <2>6, <2>7, <2>8 DEF SameLink
<1>. QED
  BY <1>1, <1>2 DEF DeviceObject

LEMMA DestroyQuits ==
  ASSUME NEW d \in DeviceObject, NEW announced \in BOOLEAN, InProgress(d)
  PROVE  LET e == DestroyBackend(d, announced)
         IN  /\ e \in DeviceObject /\ InProgress(e) /\ Quits(d, e)
             /\ ~e.connected /\ ~e.backend /\ ~e.up
             /\ ~d.connected => e.loaded = d.loaded
             /\ d.connected => \A q \in Queries : ~e.loaded[q]
             /\ AllAlike(d, e) \/ (d.connected /\ Idle(e))
<1>1. PICK a : a = IF announced THEN OnDisconnected(d) ELSE d
  OBVIOUS
<1>2. /\ a \in DeviceObject /\ InProgress(a) /\ Quits(d, a)
      /\ ~d.connected => a = d
      /\ d.connected => a.connected \/ \A q \in Queries : ~a.loaded[q]
      /\ ~a.connected => AllAlike(d, a) \/ (d.connected /\ (Idle(a) \/ ~d.backend))
      /\ a.connected \/ ~d.backend => AllAlike(d, a)
  <2>1. CASE announced
    <3>1. /\ a \in DeviceObject /\ InProgress(a) /\ Quits(d, a) /\ ~a.connected
          /\ ~d.connected => a = d
          /\ d.connected => \A q \in Queries : ~a.loaded[q]
          /\ d.connected /\ d.backend => Idle(a)
          /\ ~d.backend => AllAlike(d, a)
      BY <1>1, <2>1, DisconnectedQuits
    <3>. QED
      BY <3>1, SelfQuits
  <2>2. CASE ~announced
    <3>1. a = d
      BY <1>1, <2>2
    <3>. QED
      BY <3>1, SelfQuits
  <2>. QED
    BY <2>1, <2>2
<1> DEFINE f == [a EXCEPT !.backend = FALSE, !.up = FALSE, !.sent = {}]
<1>3. /\ f \in DeviceObject /\ SameCalls(a, f) /\ f.cache = a.cache /\ f.id = a.id
      /\ f.sent = {} /\ ~f.backend /\ ~f.up
      /\ f.connected = a.connected /\ f.loaded = a.loaded
  BY <1>2 DEF DeviceObject, SameCalls
<1>4. DestroyBackend(d, announced) = OnDisconnected(f)
  BY <1>1 DEF DestroyBackend, OnBackendDestroyed
<1>. HIDE DEF f
<1>5. Quits(a, f) /\ AllAlike(a, f) /\ (Idle(a) => Idle(f)) /\ InProgress(f)
  BY <1>2, <1>3, SameCallsQuits, SameCallsEnds DEF SameCalls, Ends
<1>6. PICK e : e = OnDisconnected(f)
  OBVIOUS
<1>7. /\ e \in DeviceObject /\ InProgress(e) /\ Quits(f, e)
      /\ ~e.connected /\ ~e.backend /\ ~e.up
      /\ ~f.connected => e = f
      /\ f.connected => \A q \in Queries : ~e.loaded[q]
      /\ AllAlike(f, e)
  BY <1>3, <1>5, <1>6, DisconnectedQuits
<1>8. Quits(d, f) /\ (AllAlike(d, a) => AllAlike(d, f))
  BY <1>2, <1>5, QuitsTransitive
<1>9. Quits(d, e) /\ (Idle(f) => Idle(e)) /\ (AllAlike(d, f) => AllAlike(d, e))
  BY <1>7, <1>8, QuitsTransitive
<1>10. a.connected = f.connected /\ a.loaded = f.loaded /\ f.connected \in BOOLEAN
  BY <1>3 DEF DeviceObject
<1>11. ~d.connected => e.loaded = d.loaded
  BY <1>2, <1>7, <1>10
<1>12. d.connected => \A q \in Queries : ~e.loaded[q]
  BY <1>2, <1>7, <1>10
<1>13. AllAlike(d, e) \/ (d.connected /\ Idle(e))
  BY <1>2, <1>5, <1>7, <1>8, <1>9, <1>10
<1>. QED
  BY <1>4, <1>6, <1>7, <1>9, <1>11, <1>12, <1>13

LEMMA SetQuits ==
  ASSUME NEW d \in DeviceObject, NEW announced \in BOOLEAN, NEW up \in BOOLEAN,
         InProgress(d), d.connected => d.backend
  PROVE  LET e == SetBackend(d, announced, up)
         IN  /\ e \in DeviceObject /\ Quits(d, e)
             /\ e.backend /\ e.up = up /\ e.connected = up /\ e.sent = {}
             /\ \A q \in Queries : e.loaded[q] => d.loaded[q] /\ ~d.connected
             /\ AllAlike(d, e) \/ (d.connected /\ Idle(e))
<1>1. PICK a : a = IF d.backend THEN DestroyBackend(d, announced) ELSE d
  OBVIOUS
<1>2. /\ a \in DeviceObject /\ InProgress(a) /\ Quits(d, a) /\ ~a.connected
      /\ ~d.connected => a.loaded = d.loaded
      /\ d.connected => \A q \in Queries : ~a.loaded[q]
      /\ AllAlike(d, a) \/ (d.connected /\ Idle(a))
  <2>1. CASE d.backend
    BY <1>1, <2>1, DestroyQuits
  <2>2. CASE ~d.backend
    <3>1. a = d
      BY <1>1, <2>2
    <3>. QED
      BY <2>2, <3>1, SelfQuits
  <2>. QED
    BY <2>1, <2>2
<1> DEFINE f == [a EXCEPT !.backend = TRUE, !.up = up, !.sent = {}]
<1>3. /\ f \in DeviceObject /\ SameCalls(a, f) /\ f.cache = a.cache /\ f.id = a.id
      /\ f.sent = {} /\ f.backend /\ f.up = up
      /\ f.connected = a.connected /\ f.loaded = a.loaded
  BY <1>2 DEF DeviceObject, SameCalls
<1>4. SetBackend(d, announced, up) = IF up THEN OnConnected(f) ELSE OnDisconnected(f)
  BY <1>1 DEF SetBackend
<1>. HIDE DEF f
<1>5. Quits(a, f) /\ AllAlike(a, f) /\ (Idle(a) => Idle(f)) /\ InProgress(f)
  BY <1>2, <1>3, SameCallsQuits, SameCallsEnds DEF SameCalls, Ends
<1>6. Quits(d, f) /\ (AllAlike(d, a) => AllAlike(d, f))
  BY <1>2, <1>5, QuitsTransitive
<1>7. CASE up
  <2>1. PICK e : e = OnConnected(f)
    OBVIOUS
  <2>2. /\ e \in DeviceObject /\ Quits(f, e) /\ AllAlike(f, e)
        /\ e.connected /\ e.backend /\ e.up = f.up
        /\ e.loaded = f.loaded /\ e.sent = f.sent
    BY <1>3, <1>5, <2>1, ConnectedQuits
  <2>3. Quits(d, e) /\ (Idle(f) => Idle(e)) /\ (AllAlike(d, f) => AllAlike(d, e))
    BY <1>6, <2>2, QuitsTransitive
  <2>4. AllAlike(d, e) \/ (d.connected /\ Idle(e))
    BY <1>2, <1>5, <1>6, <2>3
  <2>5. \A q \in Queries : e.loaded[q] => d.loaded[q] /\ ~d.connected
    BY <1>2, <1>3, <2>2
  <2>. QED
    BY <1>3, <1>4, <1>7, <2>1, <2>2, <2>3, <2>4, <2>5 DEF DeviceObject
<1>8. CASE ~up
  <2>1. OnDisconnected(f) = f
    BY <1>2, <1>3 DEF OnDisconnected
  <2>2. SetBackend(d, announced, up) = f /\ f.connected = FALSE /\ up = FALSE
    BY <1>2, <1>3, <1>4, <1>8, <2>1 DEF DeviceObject
  <2>3. \A q \in Queries : f.loaded[q] => d.loaded[q] /\ ~d.connected
    BY <1>2, <1>3
  <2>4. AllAlike(d, f) \/ (d.connected /\ Idle(f))
    BY <1>2, <1>5, <1>6
  <2>. QED
    BY <1>3, <1>6, <2>2, <2>3, <2>4
<1>. QED
  BY <1>7, <1>8

LEMMA TakeQuits ==
  ASSUME NEW d \in DeviceObject, InProgress(d), d.backend
  PROVE  LET e == TakeBackend(d)
         IN  /\ Quits(d, e) /\ Idle(e)
             /\ ~e.backend /\ ~e.up /\ e.connected = d.connected /\ e.loaded = d.loaded
<1>1. PICK a : a = StopCommands(d, "DEV_DESTROYED")
  OBVIOUS
<1>2. a \in DeviceObject /\ Quits(d, a) /\ SameLink(d, a) /\ Idle(a)
  BY <1>1, StopQuits, StopCommandsType
<1>3. PICK e : e = [a EXCEPT !.backend = FALSE, !.up = FALSE, !.sent = {}]
  OBVIOUS
<1>4. /\ e.call = a.call /\ e.callId = a.callId /\ e.cache = a.cache /\ e.id = a.id
      /\ e.sent = {} /\ ~e.backend /\ ~e.up /\ e.connected = a.connected
      /\ e.loaded = a.loaded
  BY <1>2, <1>3 DEF DeviceObject
<1>5. Quits(a, e) /\ (Idle(a) => Idle(e))
  BY <1>4, SameCallsQuits
<1>6. Quits(d, e)
  BY <1>2, <1>5, QuitsTransitive
<1>7. TakeBackend(d) = e
  BY <1>1, <1>3 DEF TakeBackend
<1>. QED
  BY <1>2, <1>4, <1>5, <1>6, <1>7 DEF SameLink

LEMMA FailedQuits ==
  ASSUME NEW d \in DeviceObject, NEW c \in Calls, NEW v
  PROVE  Quits(d, Answered(d, c, FALSE, v)) /\ SameLink(d, Answered(d, c, FALSE, v))
<1>1. PICK e : e = Answered(d, c, FALSE, v)
  OBVIOUS
<1>2. /\ e.call = [d.call EXCEPT ![c] = Finish(@, FALSE, v)]
      /\ e.callId = d.callId /\ e.cache = d.cache /\ e.id = d.id /\ e.sent = d.sent
      /\ SameLink(d, e)
  BY <1>1 DEF Answered, DeviceObject, SameLink
<1>3. d.call \in [Calls -> CallRecord]
  BY DEF DeviceObject
<1>4. Alike(d.call[c], e.call[c]) \/ Fails(d.call[c], e.call[c])
  <2>1. e.call[c] = Finish(d.call[c], FALSE, v) /\ d.call[c] \in CallRecord
    BY <1>2, <1>3
  <2>. QED
    BY <2>1, FinishFails
<1>5. \A k \in Calls : k # c => Alike(d.call[k], e.call[k])
  BY <1>2, <1>3 DEF Alike
<1>. QED
  BY <1>1, <1>2, <1>4, <1>5, CallsFacts DEF Quits

LEMMA TimeoutQuits ==
  ASSUME NEW d \in DeviceObject, NEW c \in Calls
  PROVE  Quits(d, OnTimeout(d, c)) /\ SameLink(d, OnTimeout(d, c))
<1>1. PICK a : a = Answered(d, c, FALSE, "error")
  OBVIOUS
<1>2. a \in DeviceObject /\ Quits(d, a) /\ SameLink(d, a)
  BY <1>1, AnsweredType, FailedQuits DEF Content
<1>3. PICK e : e = [a EXCEPT !.call[c].timer = FALSE]
  OBVIOUS
<1>4. /\ e.callId = a.callId /\ e.cache = a.cache /\ e.id = a.id /\ e.sent = a.sent
      /\ SameLink(a, e)
      /\ \A k \in Calls : Alike(a.call[k], e.call[k])
  BY <1>2, <1>3 DEF DeviceObject, CallRecord, SameLink, Alike
<1>5. Quits(a, e)
  BY <1>4, CallsFacts DEF Quits
<1>6. Quits(d, e)
  BY <1>2, <1>5, QuitsTransitive
<1>7. OnTimeout(d, c) = e
  BY <1>1, <1>3 DEF OnTimeout
<1>. QED
  BY <1>2, <1>4, <1>6, <1>7 DEF SameLink

LEMMA SyncQuits ==
  ASSUME NEW d \in DeviceObject, InProgress(d)
  PROVE  LET e == OnSyncTimer(d)
         IN  /\ Quits(d, e)
             /\ \/ SameLink(d, e) /\ AllAlike(d, e)
                \/ /\ ~e.up /\ ~e.connected /\ e.backend = d.backend
                   /\ d.connected => Idle(e) /\ \A q \in Queries : ~e.loaded[q]
                   /\ ~d.connected => AllAlike(d, e) /\ e.loaded = d.loaded
<1>1. PICK e : e = OnSyncTimer(d)
  OBVIOUS
<1>2. CASE e = d \/ e = [d EXCEPT !.sync = @ - 1]
  <2>1. /\ e.call = d.call /\ e.callId = d.callId /\ e.cache = d.cache /\ e.id = d.id
        /\ e.sent = d.sent /\ SameLink(d, e)
    BY <1>2 DEF DeviceObject, SameLink
  <2>. QED
    BY <1>1, <2>1, SameCallsQuits
<1>3. CASE d.backend /\ e = OnDisconnected([d EXCEPT !.up = FALSE])
  <2>1. PICK a : a = [d EXCEPT !.up = FALSE]
    OBVIOUS
  <2>2. /\ a \in DeviceObject /\ SameCalls(d, a) /\ a.cache = d.cache /\ a.id = d.id
        /\ a.sent = d.sent /\ a.backend /\ ~a.up
        /\ a.connected = d.connected /\ a.loaded = d.loaded
    BY <1>3, <2>1 DEF DeviceObject, SameCalls
  <2>3. Quits(d, a) /\ AllAlike(d, a) /\ InProgress(a)
    BY <2>2, SameCallsQuits, SameCallsEnds DEF SameCalls, Ends
  <2>4. /\ Quits(a, e) /\ ~e.connected /\ e.backend = a.backend /\ e.up = a.up
        /\ ~a.connected => e = a
        /\ a.connected => \A q \in Queries : ~e.loaded[q]
        /\ a.connected /\ a.backend => Idle(e)
    BY <1>3, <2>1, <2>2, <2>3, DisconnectedQuits
  <2>5. Quits(d, e)
    BY <2>3, <2>4, QuitsTransitive
  <2>. QED
    BY <1>1, <1>3, <2>2, <2>3, <2>4, <2>5
<1>. QED
  BY <1>1, <1>2, <1>3 DEF OnSyncTimer
-----------------------------------------------------------------------------
(***************************************************************************)
(* What is known stays known when nothing new is said: calls fail, and     *)
(* messages are taken from the front of the wire.                          *)
(***************************************************************************)
Shortened(k) ==
  /\ k \in Nat /\ Len(wire) \in Nat /\ Len(wire') \in Nat
  /\ Len(wire') = Len(wire) - k
  /\ \A i \in 1..Len(wire') : i + k \in 1..Len(wire) /\ wire'[i] = wire[i + k]

LEMMA ShortenedIs ==
  ASSUME wire \in Seq(Message)
  PROVE  /\ wire' = wire => Shortened(0)
         /\ wire # <<>> /\ wire' = Tail(wire) => Shortened(1)
         /\ wire' = <<>> => Shortened(Len(wire))
<1>1. Len(wire) \in Nat
  BY LenProperties
<1>2. wire' = wire => Shortened(0)
  BY <1>1 DEF Shortened
<1>3. ASSUME wire # <<>>, wire' = Tail(wire) PROVE Shortened(1)
  <2>1. /\ Len(wire') = Len(wire) - 1 /\ Len(wire') \in Nat /\ wire' \in Seq(Message)
        /\ \A i \in 1..Len(wire') : wire'[i] = wire[i + 1]
    BY <1>1, <1>3, HeadTailProperties, LenProperties
  <2>. QED
    BY <1>1, <2>1 DEF Shortened
<1>4. ASSUME wire' = <<>> PROVE Shortened(Len(wire))
  <2>1. Len(wire') = 0
    BY <1>4
  <2>. QED
    BY <1>1, <2>1 DEF Shortened
<1>. QED
  BY <1>2, <1>3, <1>4

LEMMA RepliesLeft ==
  ASSUME NEW k, Shortened(k), NEW i \in Replies'
  PROVE  /\ i + k \in Replies /\ wire'[i] = wire[i + k] /\ i \in Nat /\ k \in Nat
BY DEF Shortened, Replies

(* All that a call can do but to be started: it keeps its kind, and only   *)
(* one that was run may end.                                               *)
Onward(d, e) ==
  /\ e.call[IdentifyCall].kind = d.call[IdentifyCall].kind
  /\ e.callId = d.callId
  /\ \A c \in CallIds : /\ e.call[c].kind = d.call[c].kind
                        /\ e.call[c].st = "WAIT" <=> d.call[c].st = "WAIT"
  /\ \A c \in CallIds \cap e.sent :
       /\ c \in d.sent
       /\ e.call[c].st = "DONE" /\ e.call[c].ok => d.call[c].st = "DONE" /\ d.call[c].ok

LEMMA QuitsOnward == ASSUME NEW d, NEW e, Quits(d, e) PROVE Onward(d, e)
BY DEF Quits, Alike, Fails, Again, Onward

LEMMA AskedLeft ==
  ASSUME NEW k, Shortened(k), dev'.sent \cap CallIds \subseteq dev.sent,
         NEW c \in CallIds, Asked(c)'
  PROVE  Asked(c)
BY RepliesLeft DEF Asked

LEMMA CarriedKept ==
  ASSUME Carried, Onward(dev, dev'), NEW k, Shortened(k)
  PROVE  Carried'
<1>1. dev'.call[IdentifyCall].kind = "identify"
  BY DEF Carried, Onward
<1>2. ASSUME NEW c \in CallIds
      PROVE  IF c \in 1..dev'.callId THEN dev'.call[c].kind # "unused"
             ELSE dev'.call[c].kind = "unused" /\ dev'.call[c].st = "WAIT"
  BY <1>2 DEF Carried, Onward
<1>3. ASSUME NEW c \in dev'.sent \cap CallIds
      PROVE  /\ c \in 1..dev'.callId /\ dev'.call[c].st # "WAIT"
             /\ dev'.call[c].st = "DONE" => ~dev'.call[c].ok
  BY <1>3 DEF Carried, Onward
<1>4. ASSUME NEW i \in Replies'
      PROVE  wire'[i].c \in 1..dev'.callId /\ wire'[i].c \notin dev'.sent
  <2>1. i + k \in Replies /\ wire'[i] = wire[i + k]
    BY RepliesLeft
  <2>2. wire[i + k].c \in CallIds
    BY <2>1 DEF Replies
  <2>. QED
    BY <2>1, <2>2 DEF Carried, Onward
<1>5. ASSUME NEW i \in Replies', NEW j \in Replies', wire'[i].c = wire'[j].c
      PROVE  i = j
  <2>1. /\ i + k \in Replies /\ wire'[i] = wire[i + k]
        /\ j + k \in Replies /\ wire'[j] = wire[j + k]
        /\ i \in Nat /\ j \in Nat /\ k \in Nat
    BY RepliesLeft
  <2>2. i + k = j + k
    BY <1>5, <2>1 DEF Carried
  <2>. QED
    BY <2>1, <2>2
<1>. QED
  BY <1>1, <1>2, <1>3, <1>4, <1>5 DEF Carried

(* Nothing restless follows a message of what is left of the wire unless   *)
(* something did before.                                                   *)
LEMMA StillLeft ==
  ASSUME NEW k, Shortened(k), NEW i \in Nat, Still(i)'
  PROVE  /\ Still(i + k)
         /\ (\A j \in 1..k : ~Restless(wire[j])) /\ i = 0 => Still(0)
<1>1. /\ k \in Nat /\ Len(wire) \in Nat /\ Len(wire') = Len(wire) - k
      /\ \A j \in 1..Len(wire') : wire'[j] = wire[j + k]
      /\ \A j \in 1..Len(wire') : j > i => ~Restless(wire'[j])
  BY DEF Shortened, Still, Restless
<1>2. ASSUME NEW j \in 1..Len(wire), j > k + i PROVE ~Restless(wire[j])
  <2>1. j - k \in 1..Len(wire') /\ j - k > i /\ (j - k) + k = j
    BY <1>1, <1>2
  <2>. QED
    BY <1>1, <2>1
<1>3. ASSUME \A j \in 1..k : ~Restless(wire[j]), i = 0, NEW j \in 1..Len(wire)
      PROVE  ~Restless(wire[j])
  <2>1. j \in 1..k \/ j > k + i
    BY <1>1, <1>3
  <2>. QED
    BY <1>2, <1>3, <2>1
<1>. QED
  BY <1>1, <1>2, <1>3 DEF Still

LEMMA TellsLeft ==
  ASSUME WireTells, WireDescribes, Onward(dev, dev'), NEW k, Shortened(k),
         hw' = hw \/ wire' = <<>>
  PROVE  WireTells' /\ WireDescribes'
<1>1. CASE wire' = <<>>
  <2>1. \A i : i \notin 1..Len(wire')
    BY <1>1
  <2>. QED
    BY <2>1 DEF WireTells, WireDescribes, Replies
<1>2. CASE hw' = hw
  <2>1. ASSUME NEW i \in 1..Len(wire'), TellsState(wire[i])', Still(i)'
        PROVE  wire'[i].v = hw'.state
    <3>1. /\ i + k \in 1..Len(wire) /\ wire'[i] = wire[i + k] /\ i \in Nat
      BY <2>1 DEF Shortened
    <3>2. Still(i + k)
      BY <2>1, <3>1, StillLeft
    <3>3. TellsState(wire[i + k])
      <4>1. PICK m : m = wire[i + k]
        OBVIOUS
      <4>2. \/ m.t = "statechanged"
            \/ /\ m.t = "ok" /\ m.c \in CallIds /\ m.v # "bad"
               /\ dev'.call[m.c].kind = "state"
        BY <2>1, <3>1, <4>1 DEF TellsState
      <4>3. \A c \in CallIds : dev'.call[c].kind = dev.call[c].kind
        BY DEF Onward
      <4>. QED
        BY <4>1, <4>2, <4>3 DEF TellsState
    <3>. QED
      BY <1>2, <3>1, <3>2, <3>3 DEF WireTells
  <2>2. ASSUME NEW i \in Replies', dev'.call[wire'[i].c].kind \in Descriptions
        PROVE  wire'[i].v \in {"bad", Description'}
    <3>1. i + k \in Replies /\ wire'[i] = wire[i + k]
      BY RepliesLeft
    <3>2. wire[i + k].c \in CallIds
      BY <3>1 DEF Replies
    <3>3. dev.call[wire[i + k].c].kind \in Descriptions
      BY <2>2, <3>1, <3>2 DEF Onward
    <3>. QED
      BY <1>2, <3>1, <3>3 DEF WireDescribes, Description
  <2>. QED
    BY <2>1, <2>2 DEF WireTells, WireDescribes
<1>. QED
  BY <1>1, <1>2

LEMMA IdentifiedKept ==
  ASSUME Identified, Quits(dev, dev')
  PROVE  Identified'
BY DEF Identified, Quits, Alike, Fails, Again

LEMMA UsableLeft ==
  ASSUME Quits(dev, dev'), waits' = waits, NEW c \in CallIds, Usable(c)'
  PROVE  Usable(c) /\ Alike(dev.call[c], dev'.call[c])
<1>1. Alike(dev.call[c], dev'.call[c])
  BY DEF Quits, Fails, Usable
<1>. QED
  BY <1>1 DEF Usable, Returning, Alike

(* What is overtaken stays so; what has not come yet is not.               *)
Overtakes ==
  \A c \in CallIds : /\ hist.overtaken[c] \subseteq hist'.overtaken[c]
                     /\ dev.call[c].st # "DONE" => hist'.overtaken[c] = hist.overtaken[c]

LEMMA QuitsKeeps ==
  ASSUME Knowledge, Quits(dev, dev'), waits' = waits, Overtakes,
         hist'.tainted = hist.tainted,
         NEW k, Shortened(k),
         hw' = hw \/ wire' = <<>>,
         dev'.up => /\ hw' = hw
                    /\ dev.up /\ dev'.connected /\ dev'.backend
                    /\ \A q \in Queries : dev'.loaded[q] => dev.loaded[q]
                    /\ \A c \in CallIds :
                         "link" \in hist'.overtaken[c] => "link" \in hist.overtaken[c]
                    /\ \/ \A i \in 1..k : ~Restless(wire[i])
                       \/ /\ \A q \in Queries : q = "state" => ~dev'.loaded[q]
                          /\ \A c \in Returning \cap CallIds : hist'.overtaken[c] # {},
         ~dev'.connected =>
           \/ ~dev.connected /\ \A q \in Queries : dev'.loaded[q] => dev.loaded[q]
           \/ /\ \A q \in Queries : ~dev'.loaded[q]
              /\ \A c \in Returning \cap CallIds : "link" \in hist'.overtaken[c]
              /\ Idle(dev') \/ wire' = <<>>
  PROVE  Knowledge'
<1>0. Descriptions \subseteq Queries
  BY DEF Descriptions
<1>1. Linked'
  BY DEF Linked
<1>2. Carried' /\ WireTells' /\ WireDescribes' /\ Identified'
  BY QuitsOnward, CarriedKept, TellsLeft, IdentifiedKept DEF Knowledge
<1>3. WaitOnce'
  BY DEF Knowledge, WaitOnce, Quits, Alike, Fails
<1>4. dev'.cache = dev.cache /\ hist'.tainted = hist.tainted
  BY DEF Quits
<1>5. ASSUME NEW c \in CallIds, Usable(c)'
      PROVE  /\ Usable(c) /\ Alike(dev.call[c], dev'.call[c])
             /\ c \in Returning \cap CallIds
             /\ hist.overtaken[c] \subseteq hist'.overtaken[c]
  BY <1>5, UsableLeft DEF Usable, Overtakes
<1>6. StateKnown'
  <2>. SUFFICES ASSUME dev'.up, Still(0)'
                PROVE  /\ "state" \in Queries /\ dev'.loaded["state"]
                            /\ hist'.tainted["state"] = {}
                            => dev'.cache["state"] = hw'.state
                       /\ \A c \in CallIds :
                            /\ Usable(c)' /\ dev'.call[c].kind = "state"
                            /\ dev'.call[c].ret # "bad" /\ hist'.overtaken[c] = {}
                            => dev'.call[c].ret = hw'.state
    BY DEF StateKnown
  <2>1. CASE \A i \in 1..k : ~Restless(wire[i])
    <3>1. Still(0)
      <4>1. 0 \in Nat
        OBVIOUS
      <4>. QED
        BY <2>1, <4>1, StillLeft
    <3>2. ASSUME NEW c \in CallIds, Usable(c)', dev'.call[c].kind = "state",
                 dev'.call[c].ret # "bad", hist'.overtaken[c] = {}
          PROVE  dev'.call[c].ret = hw'.state
      <4>1. /\ Usable(c) /\ Alike(dev.call[c], dev'.call[c]) /\ hist.overtaken[c] = {}
        BY <1>5, <3>2
      <4>. QED
        BY <3>1, <3>2, <4>1 DEF Knowledge, StateKnown, Alike
    <3>3. ASSUME "state" \in Queries, dev'.loaded["state"], hist'.tainted["state"] = {}
          PROVE  dev'.cache["state"] = hw'.state
      BY <1>4, <3>1, <3>3 DEF Knowledge, StateKnown
    <3>. QED
      BY <3>2, <3>3
  <2>2. CASE /\ \A q \in Queries : q = "state" => ~dev'.loaded[q]
             /\ \A c \in Returning \cap CallIds : hist'.overtaken[c] # {}
    BY <1>5, <2>2
  <2>. QED
    BY <2>1, <2>2
<1>7. Described'
  <2>. SUFFICES ASSUME dev'.up PROVE Described'
    BY DEF Described
  <2>0. dev.up /\ hw' = hw /\ Described
    BY DEF Knowledge
  <2>1. ASSUME NEW q \in Descriptions, dev'.loaded[q], "link" \notin hist'.tainted[q]
        PROVE  dev'.cache[q] = hw'.id /\ ~hw'.bare
    BY <1>0, <1>4, <2>0, <2>1 DEF Described
  <2>2. ASSUME NEW c \in CallIds, Usable(c)', dev'.call[c].kind \in Descriptions,
               "link" \notin hist'.overtaken[c]
        PROVE  dev'.call[c].ret \in {"bad", Description'}
    <3>1. /\ Usable(c) /\ Alike(dev.call[c], dev'.call[c])
          /\ "link" \notin hist.overtaken[c]
      BY <1>5, <2>2
    <3>. QED
      BY <2>0, <2>2, <3>1 DEF Described, Description, Alike
  <2>3. ASSUME NEW c \in CallIds, Ready(c)' PROVE Ready(c)
    <3>1. Asked(c)' => Asked(c)
      BY AskedLeft DEF Quits
    <3>. QED
      BY <2>0, <2>3, <3>1 DEF Ready, Quits, Alike, Fails, Overtakes
  <2>4. ASSUME NEW c \in CallIds, Late(c)' PROVE Late(c)
    <3>1. "link" \in hist.overtaken[c]
      BY <2>4 DEF Late
    <3>2. dev.call[c].st = "DONE"
      BY <3>1 DEF Knowledge, Forgotten
    <3>. QED
      BY <3>1, <3>2 DEF Late
  <2>5. \A c \in CallIds : dev'.call[c].kind = dev.call[c].kind
    BY DEF Quits, Alike, Fails
  <2>6. ASSUME NEW q \in Descriptions, NEW i \in 1..Len(waits),
               dev'.loaded[q], "link" \in hist'.tainted[q],
               waits[i] \in CallIds, dev'.call[waits[i]].kind = q
        PROVE  ~Ready(waits[i])'
    <3>1. PICK c \in CallIds : c = waits[i]
      BY <2>6
    <3>2. ~Ready(c)
      BY <1>0, <1>4, <2>0, <2>5, <2>6, <3>1 DEF Described
    <3>3. ~Ready(c)'
      BY <2>3, <3>2
    <3>. QED
      BY <3>1, <3>3 DEF Ready, Asked
  <2>7. ASSUME NEW i \in 1..Len(waits), NEW j \in 1..Len(waits),
               i < j, waits[i] \in CallIds, waits[j] \in CallIds, Late(waits[j])'
        PROVE  ~Ready(waits[i])'
    <3>1. PICK c \in CallIds, e \in CallIds : c = waits[i] /\ e = waits[j]
      BY <2>7
    <3>2. Late(e)
      <4>1. Late(e)'
        BY <2>7, <3>1 DEF Late
      <4>. QED
        BY <2>4, <4>1
    <3>3. ~Ready(c)'
      BY <2>0, <2>3, <2>7, <3>1, <3>2 DEF Described
    <3>. QED
      BY <3>1, <3>3 DEF Ready, Asked
  <2>. QED
    BY <2>1, <2>2, <2>6, <2>7 DEF Described
<1>8. Forgotten'
  <2>1. ASSUME NEW c \in CallIds, dev'.call[c].st # "DONE"
        PROVE  hist'.overtaken[c] = {}
    <3>1. dev.call[c].st # "DONE"
      BY <2>1 DEF Quits, Alike, Fails
    <3>. QED
      BY <3>1 DEF Knowledge, Forgotten, Overtakes
  <2>2. ASSUME ~dev'.connected, NEW q \in Queries, dev'.loaded[q]
        PROVE  "link" \in hist'.tainted[q]
    BY <1>4, <2>2 DEF Knowledge, Forgotten
  <2>3. ASSUME ~dev'.connected, NEW c \in CallIds, Usable(c)'
        PROVE  "link" \in hist'.overtaken[c]
    BY <1>5, <2>3 DEF Knowledge, Forgotten
  <2>4. ASSUME ~dev'.connected, NEW i \in Replies'
        PROVE  wire'[i].c \notin Pending(dev)'
    <3>1. /\ i + k \in Replies /\ wire'[i] = wire[i + k]
      BY RepliesLeft
    <3>2. wire'[i].c \in CallIds /\ wire' # <<>>
      BY <2>4 DEF Replies
    <3>3. CASE ~dev.connected
      BY <2>4, <3>1, <3>2, <3>3 DEF Knowledge, Forgotten, Pending, Quits, Alike, Fails
    <3>4. CASE Idle(dev')
      BY <3>2, <3>4 DEF Idle, Pending
    <3>. QED
      BY <2>4, <3>2, <3>3, <3>4
  <2>. QED
    BY <2>1, <2>2, <2>3, <2>4 DEF Forgotten
<1>. QED
  BY <1>1, <1>2, <1>3, <1>6, <1>7, <1>8 DEF Knowledge

(* On a new link nothing is kept of the device before but what is late.    *)
LEMMA NewLinkKeeps ==
  ASSUME Knowledge, Quits(dev, dev'), waits' = waits, Overtakes,
         hist'.tainted = hist.tainted, wire \in Seq(Message), wire' = <<>>,
         \A c \in Returning \cap CallIds : "link" \in hist'.overtaken[c],
         dev'.up, dev'.connected, dev'.backend, dev'.sent = {},
         \A q \in Queries : dev'.loaded[q] => dev.loaded[q] /\ ~dev.connected
  PROVE  Knowledge'
<1>0. Descriptions \subseteq Queries
  BY DEF Descriptions
<1>1. Linked'
  BY DEF Linked
<1>2. Carried' /\ WireTells' /\ WireDescribes' /\ Identified'
  BY QuitsOnward, CarriedKept, TellsLeft, IdentifiedKept, ShortenedIs DEF Knowledge
<1>3. WaitOnce'
  BY DEF Knowledge, WaitOnce, Quits, Alike, Fails
<1>4. ASSUME NEW c \in CallIds, Usable(c)' PROVE "link" \in hist'.overtaken[c]
  BY <1>4, UsableLeft DEF Usable
<1>5. StateKnown'
  <2>1. \A c \in CallIds : Usable(c)' => hist'.overtaken[c] # {}
    BY <1>4
  <2>2. \A q \in Queries : dev'.loaded[q] => hist'.tainted[q] # {}
    BY DEF Knowledge, Forgotten
  <2>. QED
    BY <2>1, <2>2 DEF StateKnown
<1>6. ASSUME NEW i \in 1..Len(waits), waits[i] \in CallIds, waits[i] \in Calls
      PROVE  ~Ready(waits[i])'
  <2>1. PICK c \in CallIds : c = waits[i]
    BY <1>6
  <2>2. dev'.call[c].st = "DONE" /\ dev'.call[c].ok => "link" \in hist'.overtaken[c]
    <3>. SUFFICES ASSUME dev'.call[c].st = "DONE", dev'.call[c].ok
                  PROVE  "link" \in hist'.overtaken[c]
      OBVIOUS
    <3>1. c \in Returning'
      BY <1>6, <2>1 DEF Returning
    <3>2. Usable(c)'
      BY <3>1 DEF Usable
    <3>. QED
      BY <1>4, <3>2
  <2>3. ~Asked(c)'
    BY DEF Asked, Replies
  <2>4. ~Ready(c)'
    BY <2>2, <2>3 DEF Ready
  <2>. QED
    BY <2>1, <2>4 DEF Ready, Asked
<1>7. Described'
  <2>1. \A q \in Descriptions : dev'.loaded[q] => "link" \in hist'.tainted[q]
    BY <1>0 DEF Knowledge, Forgotten
  <2>. QED
    BY <1>4, <1>6, <2>1, CallsFacts DEF Described
<1>8. Forgotten'
  <2>1. ASSUME NEW c \in CallIds, dev'.call[c].st # "DONE"
        PROVE  hist'.overtaken[c] = {}
    <3>1. dev.call[c].st # "DONE"
      BY <2>1 DEF Quits, Alike, Fails
    <3>. QED
      BY <3>1 DEF Knowledge, Forgotten, Overtakes
  <2>. QED
    BY <2>1 DEF Forgotten
<1>. QED
  BY <1>1, <1>2, <1>3, <1>5, <1>7, <1>8 DEF Knowledge

(***************************************************************************)
(* A call is started: identify(), or a command under a new number.         *)
(***************************************************************************)
Started(c) ==
  /\ \A k \in Calls : k # c => dev'.call[k] = dev.call[k]
  /\ dev'.call[IdentifyCall].kind = "identify"
  /\ dev'.callId = IF c \in CallIds THEN c ELSE dev.callId
  /\ dev'.up = dev.up /\ dev'.backend = dev.backend /\ dev'.connected = dev.connected
  /\ dev'.cache = dev.cache
  /\ \A q \in Queries : dev'.loaded[q] => dev.loaded[q]
  /\ dev'.sent \cap CallIds \subseteq dev.sent \cup {c}
  /\ c \in CallIds =>
       /\ c = dev.callId + 1 /\ dev.callId \in Nat
       /\ dev'.call[c].kind # "unused" /\ ~dev'.call[c].ok
       /\ dev'.call[c].kind \in Descriptions => ~dev.loaded[dev'.call[c].kind]
       /\ c \in dev'.sent \ dev.sent => dev'.call[c].st # "WAIT"
       /\ ~dev.connected => dev'.call[c].st = "WAIT"
  /\ waits' = waits \/ (waits' = Append(waits, c) /\ dev'.call[c].st = "EXEC")
  /\ hist'.tainted = hist.tainted
  /\ \A k \in CallIds : hist'.overtaken[k] = hist.overtaken[k]
  /\ wire' = wire /\ hw' = hw

LEMMA StartKeeps ==
  ASSUME TypeOK, Knowledge, NEW c \in Calls, Started(c), Identified'
  PROVE  Knowledge'
<1>0. /\ Descriptions \subseteq Queries /\ CallIds \subseteq Calls /\ waits \in Seq(Calls)
      /\ Len(waits) \in Nat /\ Len(wire) \in Nat
  BY CallsFacts, LenProperties DEF Descriptions, TypeOK
<1>1. \A i \in 1..Len(waits') :
        \/ i \in 1..Len(waits) /\ waits'[i] = waits[i]
        \/ i = Len(waits) + 1 /\ waits'[i] = c /\ dev'.call[c].st = "EXEC"
  <2>1. CASE waits' = waits
    BY <2>1
  <2>2. CASE waits' = Append(waits, c) /\ dev'.call[c].st = "EXEC"
    BY <1>0, <2>2, AppendProperties
  <2>. QED
    BY <2>1, <2>2 DEF Started
<1>2. c \in CallIds => c = dev.callId + 1 /\ c \notin 1..dev.callId /\ dev.callId \in Nat
                       /\ dev'.callId = c /\ 1..dev.callId \subseteq 1..dev'.callId
                       /\ c \in 1..dev'.callId
  BY DEF Started, CallIds
<1>3. c \notin CallIds => dev'.callId = dev.callId /\ c = IdentifyCall
  BY CallsFacts DEF Started
<1>4. 1..dev.callId \subseteq 1..dev'.callId
  BY <1>2, <1>3
<1>5. Replies' = Replies
  BY DEF Replies, Started
<1>6. \A i \in Replies : wire[i].c \in 1..dev.callId /\ wire[i].c # c
  BY <1>2, <1>3, CallsFacts DEF Replies, Knowledge, Carried
<1>7. \A k \in CallIds : k # c => dev'.call[k] = dev.call[k]
  BY <1>0 DEF Started
<1>8. c \in CallIds => dev.call[c].st = "WAIT" /\ dev.call[c].kind = "unused"
                       /\ c \notin dev.sent
  BY <1>2 DEF Knowledge, Carried
<1>9. ASSUME NEW i \in 1..Len(waits), waits[i] \in CallIds PROVE waits[i] # c
  BY <1>2, <1>9 DEF Knowledge, WaitOnce
<1>10. ASSUME NEW k \in CallIds, k \in Returning' PROVE k # c /\ k \in Returning
  <2>1. PICK i \in 1..Len(waits') : waits'[i] = k
    BY <1>10 DEF Returning
  <2>2. dev'.call[k].st = "DONE"
    BY <1>10 DEF Returning
  <2>3. i \in 1..Len(waits) /\ waits[i] = k
    BY <1>1, <2>1, <2>2
  <2>4. k # c
    BY <1>9, <2>3
  <2>5. dev.call[k].st = "DONE" /\ k \in Calls
    BY <1>0, <1>7, <2>2, <2>4
  <2>. QED
    BY <2>3, <2>4, <2>5 DEF Returning
<1>11. Linked'
  BY DEF Knowledge, Linked, Started
<1>12. Carried'
  <2>1. ASSUME NEW k \in CallIds
        PROVE  IF k \in 1..dev'.callId THEN dev'.call[k].kind # "unused"
               ELSE dev'.call[k].kind = "unused" /\ dev'.call[k].st = "WAIT"
    <3>1. CASE k = c
      BY <1>2, <3>1 DEF Started
    <3>2. CASE k # c
      <4>1. k \in 1..dev'.callId <=> k \in 1..dev.callId
        <5>1. CASE c \in CallIds
          BY <1>2, <3>2, <5>1 DEF CallIds
        <5>2. CASE c \notin CallIds
          BY <1>3, <5>2
        <5>. QED
          BY <5>1, <5>2
      <4>. QED
        BY <1>7, <3>2, <4>1 DEF Knowledge, Carried
    <3>. QED
      BY <3>1, <3>2
  <2>2. ASSUME NEW k \in dev'.sent \cap CallIds
        PROVE  /\ k \in 1..dev'.callId /\ dev'.call[k].st # "WAIT"
               /\ dev'.call[k].st = "DONE" => ~dev'.call[k].ok
    <3>1. CASE k = c
      BY <1>2, <1>8, <2>2, <3>1 DEF Started
    <3>2. CASE k # c
      BY <1>4, <1>7, <2>2, <3>2 DEF Started, Knowledge, Carried
    <3>. QED
      BY <3>1, <3>2
  <2>3. ASSUME NEW i \in Replies'
        PROVE  wire'[i].c \in 1..dev'.callId /\ wire'[i].c \notin dev'.sent
    <3>1. i \in Replies /\ wire'[i] = wire[i] /\ wire[i].c \in CallIds
      BY <1>5 DEF Replies, Started
    <3>. QED
      BY <1>4, <1>6, <3>1 DEF Started, Knowledge, Carried
  <2>. QED
    BY <1>5, <2>1, <2>2, <2>3 DEF Started, Knowledge, Carried
<1>13. WaitOnce'
  <2>1. ASSUME NEW i \in 1..Len(waits'), waits'[i] \in CallIds
        PROVE  waits'[i] \in 1..dev'.callId /\ dev'.call[waits'[i]].st # "WAIT"
    <3>1. CASE i \in 1..Len(waits) /\ waits'[i] = waits[i]
      <4>1. PICK k \in CallIds : k = waits[i]
        BY <2>1, <3>1
      <4>. QED
        BY <1>4, <1>7, <1>9, <3>1, <4>1 DEF Knowledge, WaitOnce
    <3>2. CASE waits'[i] = c /\ dev'.call[c].st = "EXEC"
      BY <1>2, <2>1, <3>2
    <3>. QED
      BY <1>1, <2>1, <3>1, <3>2
  <2>2. ASSUME NEW i \in 1..Len(waits'), NEW j \in 1..Len(waits'),
               waits'[i] \in CallIds, waits'[i] = waits'[j]
        PROVE  i = j
    BY <1>1, <1>9, <2>2 DEF Knowledge, WaitOnce
  <2>. QED
    BY <2>1, <2>2 DEF WaitOnce
<1>14. WireTells'
  <2>1. ASSUME NEW i \in 1..Len(wire), TellsState(wire[i])', Still(i)'
        PROVE  wire'[i].v = hw'.state
    <3>1. Still(i)
      BY <2>1 DEF Still, Restless, Started
    <3>2. TellsState(wire[i])
      <4>1. PICK m : m = wire[i]
        OBVIOUS
      <4>2. \/ m.t = "statechanged"
            \/ /\ m.t = "ok" /\ m.c \in CallIds /\ m.v # "bad"
               /\ dev'.call[m.c].kind = "state"
        BY <2>1, <4>1 DEF TellsState, Started
      <4>3. m.t = "ok" /\ m.c \in CallIds => m.c # c
        BY <1>6, <4>1 DEF Replies
      <4>. QED
        BY <1>7, <4>1, <4>2, <4>3 DEF TellsState
    <3>. QED
      BY <3>1, <3>2 DEF Knowledge, WireTells, Started
  <2>. QED
    BY <2>1 DEF WireTells, Started
<1>15. WireDescribes'
  <2>1. ASSUME NEW i \in Replies, dev'.call[wire[i].c].kind \in Descriptions
        PROVE  wire[i].v \in {"bad", Description}
    BY <1>6, <1>7, <2>1 DEF Knowledge, WireDescribes, Replies
  <2>2. Description' = Description
    BY DEF Description, Started
  <2>. QED
    BY <1>5, <2>1, <2>2 DEF WireDescribes, Started
<1>16. ASSUME NEW k \in CallIds, Usable(k)'
       PROVE  Usable(k) /\ dev'.call[k] = dev.call[k]
  <2>1. k # c /\ k \in Returning
    BY <1>10, <1>16 DEF Usable
  <2>. QED
    BY <1>7, <1>16, <2>1 DEF Usable
<1>17. StateKnown'
  <2>1. Still(0)' => Still(0)
    BY DEF Still, Restless, Started
  <2>. QED
    BY <1>16, <2>1 DEF Knowledge, StateKnown, Started
<1>20. ASSUME NEW k \in CallIds, k # c, Asked(k)' PROVE Asked(k)
  BY <1>5, <1>20 DEF Asked, Started
<1>18. Described'
  <2>. SUFFICES ASSUME dev'.up PROVE Described'
    BY DEF Described
  <2>0. dev.up /\ hw' = hw /\ Described /\ hist'.tainted = hist.tainted
    BY DEF Knowledge, Started
  <2>1. ASSUME NEW q \in Descriptions, dev'.loaded[q], "link" \notin hist'.tainted[q]
        PROVE  dev'.cache[q] = hw'.id /\ ~hw'.bare
    BY <1>0, <2>0, <2>1 DEF Described, Started
  <2>2. ASSUME NEW k \in CallIds, Usable(k)', dev'.call[k].kind \in Descriptions,
               "link" \notin hist'.overtaken[k]
        PROVE  dev'.call[k].ret \in {"bad", Description'}
    BY <1>16, <2>0, <2>2 DEF Described, Description, Started
  <2>3. ASSUME NEW q \in Descriptions, NEW i \in 1..Len(waits'),
               dev'.loaded[q], "link" \in hist'.tainted[q],
               waits'[i] \in CallIds, dev'.call[waits'[i]].kind = q
        PROVE  ~Ready(waits[i])'
    <3>1. PICK k \in CallIds : k = waits'[i]
      BY <2>3
    <3>2. k # c
      <4>1. dev.loaded[q]
        BY <1>0, <2>3 DEF Started
      <4>. QED
        BY <2>3, <3>1, <4>1 DEF Started
    <3>3. i \in 1..Len(waits) /\ waits[i] = k
      BY <1>1, <3>1, <3>2
    <3>4. ~Ready(k)
      BY <1>0, <1>7, <2>0, <2>3, <3>1, <3>2, <3>3 DEF Described, Started
    <3>5. ~Ready(k)'
      BY <1>7, <1>20, <3>2, <3>4 DEF Ready, Started
    <3>. QED
      BY <3>1, <3>5 DEF Ready, Asked
  <2>4. ASSUME NEW i \in 1..Len(waits'), NEW j \in 1..Len(waits'),
               i < j, waits'[i] \in CallIds, waits'[j] \in CallIds, Late(waits[j])'
        PROVE  ~Ready(waits[i])'
    <3>1. PICK k \in CallIds, e \in CallIds : k = waits'[i] /\ e = waits'[j]
      BY <2>4
    <3>2. Late(e)'
      BY <2>4, <3>1 DEF Late
    <3>3. j \in 1..Len(waits) /\ waits[j] = e
      BY <1>1, <3>1, <3>2 DEF Late
    <3>4. i \in 1..Len(waits) /\ waits[i] = k
      BY <1>0, <1>1, <2>4, <3>1, <3>3
    <3>5. k # c /\ e # c
      BY <1>9, <3>3, <3>4
    <3>6. Late(e)
      BY <1>7, <3>2, <3>5 DEF Late, Started
    <3>7. ~Ready(k)
      BY <2>0, <2>4, <3>3, <3>4, <3>6 DEF Described
    <3>8. ~Ready(k)'
      BY <1>7, <1>20, <3>5, <3>7 DEF Ready, Started
    <3>. QED
      BY <3>1, <3>8 DEF Ready, Asked
  <2>. QED
    BY <2>1, <2>2, <2>3, <2>4 DEF Described
<1>19. Forgotten'
  <2>1. ASSUME NEW k \in CallIds, dev'.call[k].st # "DONE"
        PROVE  hist'.overtaken[k] = {}
    <3>1. dev.call[k].st # "DONE"
      BY <1>7, <1>8, <2>1
    <3>. QED
      BY <3>1 DEF Knowledge, Forgotten, Started
  <2>2. ASSUME ~dev'.connected, NEW i \in Replies'
        PROVE  wire'[i].c \notin Pending(dev)'
    <3>1. i \in Replies /\ wire'[i] = wire[i] /\ wire[i].c \in CallIds /\ ~dev.connected
      BY <1>5, <2>2 DEF Replies, Started
    <3>. QED
      BY <1>0, <1>6, <1>7, <3>1 DEF Knowledge, Forgotten, Pending
  <2>. QED
    BY <1>0, <1>16, <2>1, <2>2 DEF Knowledge, Forgotten, Started
<1>. QED
  BY <1>11, <1>12, <1>13, <1>14, <1>15, <1>17, <1>18, <1>19 DEF Knowledge
-----------------------------------------------------------------------------
(***************************************************************************)
(* The steps that make or lose a link, or end calls, keep what is known.   *)
(* They are quiet: no command succeeds and none is started, and nothing is *)
(* in progress, or everything is as it was, once the link is made or lost. *)
(***************************************************************************)
Quiet ==
  /\ \A c \in CallIds : \/ Alike(dev.call[c], dev'.call[c])
                       \/ Fails(dev.call[c], dev'.call[c])
  /\ Answers' \subseteq Answers
  /\ \/ dev'.connected <=> dev.connected
     \/ dev.connected /\ ~dev'.connected /\ (Idle(dev') \/ AllAlike(dev, dev'))
     \/ dev'.connected /\ AllAlike(dev, dev') /\ Answers' = {}

LEMMA AnswersLeft ==
  ASSUME NEW k, Shortened(k)
  PROVE  Answers' \subseteq Answers /\ (wire' = <<>> => Answers' = {})
<1>1. Answers' \subseteq Answers
  <2>. SUFFICES ASSUME NEW i \in Replies'
                PROVE  [command |-> wire'[i].c, value |-> wire'[i].v] \in Answers
    BY DEF Answers
  <2>. QED
    BY RepliesLeft DEF Answers
<1>2. wire' = <<>> => Answers' = {}
  BY DEF Answers, Replies
<1>. QED
  BY <1>1, <1>2

LEMMA QuitsQuiet ==
  ASSUME Quits(dev, dev'), NEW k, Shortened(k),
         \/ dev'.connected <=> dev.connected
         \/ dev.connected /\ ~dev'.connected /\ (Idle(dev') \/ AllAlike(dev, dev'))
         \/ dev'.connected /\ AllAlike(dev, dev') /\ wire' = <<>>
  PROVE  Quiet
BY AnswersLeft DEF Quits, Quiet

LEMMA OvertakeIs ==
  ASSUME hist \in History, NEW cause,
         hist' = Overtake(hist, cause) \/ hist' = Orphan(Overtake(hist, cause), dev')
  PROVE  /\ hist'.tainted = hist.tainted /\ Overtakes
         /\ \A c \in CallIds : hist'.overtaken[c] =
              IF c \in Returning THEN hist.overtaken[c] \cup {cause} ELSE hist.overtaken[c]
         /\ \A c \in Returning \cap CallIds : cause \in hist'.overtaken[c]
<1>1. PICK h : h = Overtake(hist, cause)
  OBVIOUS
<1>2. /\ h.tainted = hist.tainted
      /\ h.overtaken = [c \in Calls |-> IF c \in Returning
                          THEN hist.overtaken[c] \cup {cause} ELSE hist.overtaken[c]]
      /\ h = [overtaken |-> h.overtaken, tainted |-> h.tainted, orphans |-> h.orphans]
  BY <1>1 DEF Overtake, History
<1>3. hist'.tainted = h.tainted /\ hist'.overtaken = h.overtaken
  BY <1>1, <1>2 DEF Orphan
<1>4. \A c \in CallIds : hist'.overtaken[c] =
        IF c \in Returning THEN hist.overtaken[c] \cup {cause} ELSE hist.overtaken[c]
  BY <1>2, <1>3, CallsFacts
<1>5. \A c \in Returning \cap CallIds : cause \in hist'.overtaken[c]
  BY <1>4
<1>. QED
  BY <1>2, <1>3, <1>4, <1>5 DEF Overtakes, Returning

LEMMA SameHistory == ASSUME hist' = hist
                     PROVE  hist'.tainted = hist.tainted /\ Overtakes
BY DEF Overtakes

LEMMA AttachKeeps ==
  ASSUME TypeOK, Commands, Knowledge, AttachBackend
  PROVE  Knowledge' /\ Quiet
<1>1. /\ dev \in DeviceObject /\ InProgress(dev) /\ hist \in History
      /\ wire \in Seq(Message) /\ (dev.connected => dev.backend)
      /\ wire' = <<>> /\ waits' = waits
      /\ hist' = Orphan(Overtake(hist, "link"), dev')
  BY DEF TypeOK, Commands, AttachBackend, NewLink
<1>2. PICK announced \in BOOLEAN, up \in BOOLEAN : dev' = SetBackend(dev, announced, up)
  BY DEF AttachBackend
<1>3. PICK e : e = SetBackend(dev, announced, up)
  OBVIOUS
<1>4. /\ Quits(dev, e) /\ e.backend /\ e.up = up /\ e.connected = up
      /\ \A q \in Queries : e.loaded[q] => dev.loaded[q] /\ ~dev.connected
      /\ e.sent = {} /\ (AllAlike(dev, e) \/ (dev.connected /\ Idle(e)))
  BY <1>1, <1>3, SetQuits
<1>5. /\ hist'.tainted = hist.tainted /\ Overtakes
      /\ \A c \in Returning \cap CallIds : "link" \in hist'.overtaken[c]
  BY <1>1, OvertakeIs
<1>6. dev' = e
  BY <1>2, <1>3
<1>7. Shortened(Len(wire)) /\ dev.connected \in BOOLEAN
  BY <1>1, ShortenedIs DEF DeviceObject
<1>8. CASE up
  <2>1. Knowledge'
    BY <1>1, <1>4, <1>5, <1>6, <1>8, NewLinkKeeps
  <2>2. Quiet
    BY <1>1, <1>4, <1>6, <1>7, <1>8, QuitsQuiet
  <2>. QED
    BY <2>1, <2>2
<1>9. CASE ~up
  <2>1. Knowledge'
    BY <1>1, <1>4, <1>5, <1>6, <1>7, <1>9, QuitsKeeps
  <2>2. Quiet
    BY <1>4, <1>6, <1>7, <1>9, QuitsQuiet
  <2>. QED
    BY <2>1, <2>2
<1>. QED
  BY <1>8, <1>9

LEMMA BackendConnectedKeeps ==
  ASSUME TypeOK, Commands, Knowledge, BackendConnected
  PROVE  Knowledge' /\ Quiet
<1>1. /\ dev \in DeviceObject /\ InProgress(dev) /\ hist \in History
      /\ wire \in Seq(Message) /\ dev.backend /\ ~dev.connected
      /\ wire' = <<>> /\ waits' = waits /\ hist' = Overtake(hist, "link")
  BY DEF TypeOK, Commands, BackendConnected, NewLink
<1>2. PICK a : a = [dev EXCEPT !.up = TRUE, !.sent = {}]
  OBVIOUS
<1>3. /\ a \in DeviceObject /\ SameCalls(dev, a) /\ a.cache = dev.cache /\ a.id = dev.id
      /\ a.sent = {} /\ a.up /\ a.backend /\ ~a.connected /\ a.loaded = dev.loaded
  BY <1>1, <1>2 DEF DeviceObject, SameCalls
<1>4. Quits(dev, a) /\ AllAlike(dev, a) /\ InProgress(a)
  BY <1>1, <1>3, SameCallsQuits, SameCallsEnds DEF SameCalls, Ends
<1>5. PICK e : e = OnConnected(a)
  OBVIOUS
<1>6. /\ Quits(a, e) /\ AllAlike(a, e) /\ e.connected /\ e.backend /\ e.up = a.up
      /\ e.loaded = a.loaded /\ e.sent = a.sent
  BY <1>3, <1>4, <1>5, ConnectedQuits
<1>7. Quits(dev, e) /\ AllAlike(dev, e)
  BY <1>4, <1>6, QuitsTransitive
<1>8. dev' = e
  BY <1>2, <1>5 DEF BackendConnected
<1>9. /\ hist'.tainted = hist.tainted /\ Overtakes
      /\ \A c \in Returning \cap CallIds : "link" \in hist'.overtaken[c]
  BY <1>1, OvertakeIs
<1>10. Knowledge'
  BY <1>1, <1>3, <1>6, <1>7, <1>8, <1>9, NewLinkKeeps
<1>11. Quiet
  <2>1. Shortened(Len(wire))
    BY <1>1, ShortenedIs
  <2>. QED
    BY <1>1, <1>6, <1>7, <1>8, <2>1, QuitsQuiet
<1>. QED
  BY <1>10, <1>11

LEMMA LossKeeps ==
  ASSUME TypeOK, Commands, Knowledge,
         LinkCloses \/ BackendDisconnected \/ BackendDestroyed \/ BackendTaken
  PROVE  Knowledge' /\ Quiet
<1>0. /\ dev \in DeviceObject /\ InProgress(dev) /\ hist \in History
      /\ wire \in Seq(Message) /\ waits' = waits /\ hw' = hw
      /\ dev.connected \in BOOLEAN
  BY DEF TypeOK, Commands, LinkCloses, BackendDisconnected, BackendDestroyed,
         BackendTaken, DeviceObject
<1>1. CASE LinkCloses
  <2>1. /\ dev'.call = dev.call /\ dev'.callId = dev.callId /\ dev'.cache = dev.cache
        /\ dev'.id = dev.id /\ dev'.sent = dev.sent /\ dev'.loaded = dev.loaded
        /\ ~dev'.up /\ dev'.connected = dev.connected
    BY <1>0, <1>1 DEF LinkCloses, DeviceObject
  <2>2. Quits(dev, dev')
    BY <2>1, SameCallsQuits
  <2>3. hist'.tainted = hist.tainted /\ Overtakes
    BY <1>1, SameHistory DEF LinkCloses
  <2>4. Shortened(0)
    BY <1>0, <1>1, ShortenedIs DEF LinkCloses
  <2>5. Knowledge'
    BY <1>0, <2>1, <2>2, <2>3, <2>4, QuitsKeeps
  <2>6. Quiet
    BY <1>0, <2>1, <2>2, <2>3, <2>4, QuitsQuiet
  <2>. QED
    BY <2>5, <2>6
<1>2. CASE BackendDisconnected
  <2>1. /\ dev' = OnDisconnected(dev) /\ dev.connected /\ dev.backend /\ ~dev.up
        /\ hist' = Overtake(hist, "link")
    BY <1>2 DEF BackendDisconnected
  <2>2. /\ Quits(dev, dev') /\ ~dev'.connected /\ ~dev'.up
        /\ (\A q \in Queries : ~dev'.loaded[q]) /\ Idle(dev')
    BY <1>0, <2>1, DisconnectedQuits
  <2>3. /\ hist'.tainted = hist.tainted /\ Overtakes
        /\ \A c \in Returning \cap CallIds : "link" \in hist'.overtaken[c]
    BY <1>0, <2>1, OvertakeIs
  <2>4. Shortened(0)
    BY <1>0, <1>2, ShortenedIs DEF BackendDisconnected
  <2>5. Knowledge'
    BY <1>0, <2>2, <2>3, <2>4, QuitsKeeps
  <2>6. Quiet
    BY <2>1, <2>2, <2>4, QuitsQuiet
  <2>. QED
    BY <2>5, <2>6
<1>3. CASE BackendDestroyed
  <2>1. PICK announced \in BOOLEAN : dev' = DestroyBackend(dev, announced)
    BY <1>3 DEF BackendDestroyed
  <2>2. wire' = <<>> /\ hist' = Orphan(Overtake(hist, "link"), dev')
    BY <1>3 DEF BackendDestroyed
  <2>3. /\ Quits(dev, dev') /\ ~dev'.connected /\ ~dev'.up
        /\ ~dev.connected => dev'.loaded = dev.loaded
        /\ dev.connected => \A q \in Queries : ~dev'.loaded[q]
        /\ AllAlike(dev, dev') \/ (dev.connected /\ Idle(dev'))
    BY <1>0, <2>1, DestroyQuits
  <2>4. /\ hist'.tainted = hist.tainted /\ Overtakes
        /\ \A c \in Returning \cap CallIds : "link" \in hist'.overtaken[c]
    BY <1>0, <2>2, OvertakeIs
  <2>5. Shortened(Len(wire))
    BY <1>0, <2>2, ShortenedIs
  <2>6. Knowledge'
    BY <1>0, <2>2, <2>3, <2>4, <2>5, QuitsKeeps
  <2>7. Quiet
    BY <1>0, <2>2, <2>3, <2>4, <2>5, QuitsQuiet
  <2>. QED
    BY <2>6, <2>7
<1>4. CASE BackendTaken
  <2>1. /\ dev' = TakeBackend(dev) /\ dev.backend
        /\ wire' = <<>> /\ hist' = Overtake(hist, "link")
    BY <1>4 DEF BackendTaken
  <2>2. /\ Quits(dev, dev') /\ ~dev'.up
        /\ dev'.connected = dev.connected /\ dev'.loaded = dev.loaded
    BY <1>0, <2>1, TakeQuits
  <2>3. hist'.tainted = hist.tainted /\ Overtakes
    BY <1>0, <2>1, OvertakeIs
  <2>4. Shortened(Len(wire))
    BY <1>0, <2>1, ShortenedIs
  <2>5. Knowledge'
    BY <1>0, <2>1, <2>2, <2>3, <2>4, QuitsKeeps
  <2>6. Quiet
    BY <1>0, <2>1, <2>2, <2>3, <2>4, QuitsQuiet
  <2>. QED
    BY <2>5, <2>6
<1>. QED
  BY <1>1, <1>2, <1>3, <1>4

LEMMA TimersKeep ==
  ASSUME TypeOK, Commands, Knowledge,
         \/ \E c \in Calls : CallTimeout(c)
         \/ SyncTimeout
         \/ \E c \in CallIds : OnCommandDone(c)
  PROVE  Knowledge' /\ Quiet
<1>0. /\ dev \in DeviceObject /\ InProgress(dev) /\ hist \in History
      /\ wire \in Seq(Message) /\ waits' = waits /\ hw' = hw /\ wire' = wire
      /\ (dev.up => dev.connected /\ dev.backend)
      /\ dev.connected \in BOOLEAN
  BY DEF TypeOK, Commands, Knowledge, Linked, CallTimeout, SyncTimeout, OnCommandDone,
         DeviceObject
<1>1. Shortened(0) /\ \A i \in 1..0 : ~Restless(wire[i])
  BY <1>0, ShortenedIs
<1>2. ASSUME Quits(dev, dev'), SameLink(dev, dev'), hist' = hist
      PROVE  Knowledge' /\ Quiet
  <2>1. hist'.tainted = hist.tainted /\ Overtakes
    BY <1>2, SameHistory
  <2>2. Knowledge'
    BY <1>0, <1>1, <1>2, <2>1, QuitsKeeps DEF SameLink
  <2>3. Quiet
    BY <1>1, <1>2, QuitsQuiet DEF SameLink
  <2>. QED
    BY <2>2, <2>3
<1>3. ASSUME NEW c \in Calls, CallTimeout(c) PROVE Knowledge' /\ Quiet
  BY <1>0, <1>2, <1>3, TimeoutQuits DEF CallTimeout
<1>4. CASE SyncTimeout
  <2>1. dev' = OnSyncTimer(dev)
        /\ hist' = IF dev'.connected THEN hist ELSE Overtake(hist, "link")
    BY <1>4 DEF SyncTimeout
  <2>2. /\ Quits(dev, dev')
        /\ \/ SameLink(dev, dev')
           \/ /\ ~dev'.up /\ ~dev'.connected
              /\ dev.connected => Idle(dev') /\ \A q \in Queries : ~dev'.loaded[q]
              /\ ~dev.connected => dev'.loaded = dev.loaded
    BY <1>0, <2>1, SyncQuits
  <2>3. CASE dev'.connected
    BY <1>2, <2>1, <2>2, <2>3
  <2>4. CASE ~dev'.connected
    <3>1. /\ hist'.tainted = hist.tainted /\ Overtakes
          /\ \A c \in Returning \cap CallIds : "link" \in hist'.overtaken[c]
      BY <1>0, <2>1, <2>4, OvertakeIs
    <3>2. ~dev'.up
      BY <1>0, <2>2, <2>4 DEF SameLink
    <3>3. \/ ~dev.connected /\ \A q \in Queries : dev'.loaded[q] => dev.loaded[q]
          \/ Idle(dev') /\ \A q \in Queries : ~dev'.loaded[q]
      BY <1>0, <2>2, <2>4 DEF SameLink
    <3>4. Knowledge'
      BY <1>0, <1>1, <2>2, <3>1, <3>2, <3>3, QuitsKeeps
    <3>5. Quiet
      BY <1>0, <1>1, <2>2, <2>4, QuitsQuiet DEF SameLink
    <3>. QED
      BY <3>4, <3>5
  <2>. QED
    BY <2>3, <2>4
<1>5. ASSUME NEW c \in CallIds, OnCommandDone(c) PROVE Knowledge' /\ Quiet
  <2>1. /\ dev'.call = dev.call /\ dev'.callId = dev.callId /\ dev'.cache = dev.cache
        /\ dev'.id = dev.id /\ dev'.sent = dev.sent /\ SameLink(dev, dev')
    BY <1>0, <1>5 DEF OnCommandDone, DeviceObject, SameLink
  <2>. QED
    BY <1>2, <1>5, <2>1, SameCallsQuits DEF OnCommandDone
<1>. QED
  BY <1>3, <1>4, <1>5

LEMMA ConnectedReturnsKeeps ==
  ASSUME TypeOK, Commands, Knowledge, ConnectedReturns
  PROVE  Knowledge' /\ Quiet
<1>1. /\ dev \in DeviceObject /\ InProgress(dev) /\ dev' = OnDeviceReset(dev)
      /\ waits' = waits /\ wire' = wire /\ hw' = hw /\ hist' = hist
      /\ wire \in Seq(Message) /\ (dev.up => dev.connected /\ dev.backend)
  BY DEF TypeOK, Commands, Knowledge, Linked, ConnectedReturns
<1>2. /\ Quits(dev, dev')
      /\ dev'.backend = dev.backend /\ dev'.up = dev.up /\ dev'.connected = dev.connected
      /\ \A q \in Queries : dev'.loaded[q] <=> dev.loaded[q] /\ q # "state"
  BY <1>1, ResetQuits
<1>3. hist'.tainted = hist.tainted /\ Overtakes
  BY <1>1, SameHistory
<1>4. Shortened(0) /\ \A i \in 1..0 : ~Restless(wire[i])
  BY <1>1, ShortenedIs
<1>5. Knowledge'
  BY <1>1, <1>2, <1>3, <1>4, QuitsKeeps
<1>6. Quiet
  BY <1>2, <1>4, QuitsQuiet
<1>. QED
  BY <1>5, <1>6
-----------------------------------------------------------------------------
(***************************************************************************)
(* A message is handled.                                                   *)
(***************************************************************************)
(* A call that waits succeeds with the first message of the wire. *)
LEMMA AnswerKeeps ==
  ASSUME TypeOK, Knowledge, NEW c \in Calls, dev.call[c].st = "EXEC",
         wire # <<>>, wire' = Tail(wire), hist' = hist, waits' = waits, hw' = hw,
         ~Restless(wire[1]), c \in CallIds => wire[1].t = "ok" /\ wire[1].c = c,
         \A k \in Calls : k # c => dev'.call[k] = dev.call[k],
         dev'.call[c].kind = dev.call[c].kind, dev'.call[c].st = "DONE",
         dev'.call[c].ok, dev'.call[c].ret = wire[1].v,
         dev'.callId = dev.callId, dev'.cache = dev.cache, dev'.id = dev.id,
         dev'.sent = dev.sent, SameLink(dev, dev')
  PROVE  Knowledge'
<1>0. /\ Shortened(1) /\ Len(wire) \in Nat /\ 1 \in 1..Len(wire)
      /\ Descriptions \subseteq Queries /\ CallIds \subseteq Calls
  BY ShortenedIs, CallsFacts, LenProperties, EmptySeq DEF TypeOK, Descriptions
<1>1. \A k \in CallIds : k # c => dev'.call[k] = dev.call[k]
  BY <1>0
<1>2. c \in CallIds => 1 \in Replies /\ wire[1].c = c
  BY <1>0 DEF Replies
<1>3. \A k \in CallIds : dev'.call[k].kind = dev.call[k].kind
  BY <1>1
<1>4. c \in CallIds => c \notin dev.sent
  BY <1>2 DEF Knowledge, Carried
<1>5. Onward(dev, dev')
  <2>1. dev'.call[IdentifyCall].kind = dev.call[IdentifyCall].kind
    BY CallsFacts
  <2>2. \A k \in CallIds : dev'.call[k].st = "WAIT" <=> dev.call[k].st = "WAIT"
    BY <1>1
  <2>3. \A k \in CallIds \cap dev'.sent : k \in dev.sent /\ dev'.call[k] = dev.call[k]
    BY <1>1, <1>4
  <2>. QED
    BY <1>3, <2>1, <2>2, <2>3 DEF Onward
<1>6. Carried' /\ WireTells' /\ WireDescribes'
  BY <1>0, <1>5, CarriedKept, TellsLeft DEF Knowledge
<1>7. Linked' /\ WaitOnce'
  BY <1>1 DEF Knowledge, Linked, WaitOnce, SameLink
<1>8. Identified'
  <2>1. CASE c = IdentifyCall
    BY <2>1 DEF Knowledge, Identified
  <2>2. CASE c # IdentifyCall
    BY <2>2, CallsFacts DEF Knowledge, Identified
  <2>. QED
    BY <2>1, <2>2
<1>9. ASSUME NEW k \in CallIds, k # c, Usable(k)'
      PROVE  Usable(k) /\ dev'.call[k] = dev.call[k]
  BY <1>1, <1>9 DEF Usable, Returning
<1>10. StateKnown'
  <2>. SUFFICES ASSUME dev'.up, Still(0)' PROVE StateKnown'
    BY DEF StateKnown
  <2>1. dev.up /\ Still(0) /\ Still(1)
    <3>1. 0 \in Nat /\ 0 + 1 = 1 /\ \A j \in 1..1 : ~Restless(wire[j])
      OBVIOUS
    <3>2. Still(0 + 1) /\ Still(0)
      BY <1>0, <3>1, StillLeft
    <3>. QED
      BY <3>1, <3>2 DEF SameLink
  <2>2. ASSUME "state" \in Queries, dev'.loaded["state"], hist'.tainted["state"] = {}
        PROVE  dev'.cache["state"] = hw'.state
    BY <2>1, <2>2 DEF Knowledge, StateKnown, SameLink
  <2>3. ASSUME NEW k \in CallIds, Usable(k)', dev'.call[k].kind = "state",
               dev'.call[k].ret # "bad", hist'.overtaken[k] = {}
        PROVE  dev'.call[k].ret = hw'.state
    <3>1. CASE k = c
      <4>1. TellsState(wire[1])
        BY <1>2, <2>3, <3>1 DEF TellsState
      <4>. QED
        BY <1>0, <2>1, <3>1, <4>1 DEF Knowledge, WireTells
    <3>2. CASE k # c
      BY <1>9, <2>1, <2>3, <3>2 DEF Knowledge, StateKnown
    <3>. QED
      BY <3>1, <3>2
  <2>. QED
    BY <2>2, <2>3 DEF StateKnown
<1>11. ASSUME NEW k \in CallIds, Ready(k)' PROVE Ready(k)
  <2>1. Asked(k)' => Asked(k)
    BY <1>0, AskedLeft
  <2>2. k = c => Asked(k)
    BY <1>2 DEF Asked
  <2>. QED
    BY <1>1, <1>11, <2>1, <2>2 DEF Ready
<1>12. ASSUME NEW k \in CallIds, Late(k)' PROVE Late(k)
  <2>1. c \in CallIds => hist.overtaken[c] = {}
    BY DEF Knowledge, Forgotten
  <2>. QED
    BY <1>1, <1>12, <2>1 DEF Late
<1>13. Described'
  <2>. SUFFICES ASSUME dev'.up PROVE Described'
    BY DEF Described
  <2>0. dev.up /\ Described
    BY DEF Knowledge, SameLink
  <2>1. ASSUME NEW q \in Descriptions, dev'.loaded[q], "link" \notin hist'.tainted[q]
        PROVE  dev'.cache[q] = hw'.id /\ ~hw'.bare
    BY <2>0, <2>1 DEF Described, SameLink
  <2>2. ASSUME NEW k \in CallIds, Usable(k)', dev'.call[k].kind \in Descriptions,
               "link" \notin hist'.overtaken[k]
        PROVE  dev'.call[k].ret \in {"bad", Description'}
    <3>1. Description' = Description
      BY DEF Description
    <3>2. CASE k = c
      BY <1>2, <2>2, <3>1, <3>2 DEF Knowledge, WireDescribes
    <3>3. CASE k # c
      BY <1>9, <2>0, <2>2, <3>1, <3>3 DEF Described
    <3>. QED
      BY <3>2, <3>3
  <2>3. ASSUME NEW q \in Descriptions, NEW i \in 1..Len(waits),
               dev'.loaded[q], "link" \in hist'.tainted[q],
               waits[i] \in CallIds, dev'.call[waits[i]].kind = q
        PROVE  ~Ready(waits[i])'
    <3>1. PICK k \in CallIds : k = waits[i]
      BY <2>3
    <3>2. ~Ready(k)
      BY <1>3, <2>0, <2>3, <3>1 DEF Described, SameLink
    <3>3. ~Ready(k)'
      BY <1>11, <3>2
    <3>. QED
      BY <3>1, <3>3 DEF Ready, Asked
  <2>4. ASSUME NEW i \in 1..Len(waits), NEW j \in 1..Len(waits),
               i < j, waits[i] \in CallIds, waits[j] \in CallIds, Late(waits[j])'
        PROVE  ~Ready(waits[i])'
    <3>1. PICK k \in CallIds, e \in CallIds : k = waits[i] /\ e = waits[j]
      BY <2>4
    <3>2. Late(e)'
      BY <2>4, <3>1 DEF Late
    <3>3. Late(e)
      BY <1>12, <3>2
    <3>4. ~Ready(k)
      BY <2>0, <2>4, <3>1, <3>3 DEF Described
    <3>5. ~Ready(k)'
      BY <1>11, <3>4
    <3>. QED
      BY <3>1, <3>5 DEF Ready, Asked
  <2>. QED
    BY <2>1, <2>2, <2>3, <2>4 DEF Described
<1>14. Forgotten'
  <2>1. ASSUME NEW k \in CallIds, dev'.call[k].st # "DONE"
        PROVE  hist'.overtaken[k] = {}
    BY <1>1, <2>1 DEF Knowledge, Forgotten
  <2>. SUFFICES ASSUME ~dev'.connected PROVE Forgotten'
    BY <2>1 DEF Forgotten
  <2>2. ~dev.connected /\ c \notin CallIds
    BY <1>2 DEF Knowledge, Forgotten, Pending, SameLink
  <2>3. \A q \in Queries : dev'.loaded[q] => "link" \in hist'.tainted[q]
    BY <2>2 DEF Knowledge, Forgotten, SameLink
  <2>4. ASSUME NEW k \in CallIds, Usable(k)' PROVE "link" \in hist'.overtaken[k]
    BY <1>9, <2>2, <2>4 DEF Knowledge, Forgotten
  <2>5. ASSUME NEW i \in Replies' PROVE wire'[i].c \notin Pending(dev)'
    <3>1. i + 1 \in Replies /\ wire'[i] = wire[i + 1]
      BY <1>0, RepliesLeft
    <3>2. wire[i + 1].c \in CallIds
      BY <3>1 DEF Replies
    <3>3. wire[i + 1].c \notin Pending(dev)
      BY <2>2, <3>1 DEF Knowledge, Forgotten
    <3>4. dev'.call[wire[i + 1].c] = dev.call[wire[i + 1].c]
      BY <1>1, <2>2, <3>2
    <3>. QED
      BY <3>1, <3>3, <3>4 DEF Pending
  <2>. QED
    BY <2>1, <2>3, <2>4, <2>5 DEF Forgotten
<1>. QED
  BY <1>6, <1>7, <1>8, <1>10, <1>13, <1>14 DEF Knowledge

(* The device tells of a change of its state. *)
LEMMA ChangeKeeps ==
  ASSUME TypeOK, Knowledge, wire # <<>>, wire[1].t = "statechanged",
         dev' = OnMessage(dev, wire[1]), wire' = Tail(wire),
         hist' = [Overtake(hist, "change") EXCEPT !.tainted = Told(@)],
         waits' = waits, hw' = hw
  PROVE  Knowledge'
<1>0. /\ Shortened(1) /\ Len(wire) \in Nat /\ 1 \in 1..Len(wire)
      /\ Descriptions \subseteq Queries /\ "state" \notin Descriptions
  BY ShortenedIs, LenProperties, EmptySeq DEF TypeOK, Descriptions
<1>1. /\ dev'.call = dev.call /\ dev'.callId = dev.callId /\ dev'.id = dev.id
      /\ dev'.sent = dev.sent /\ SameLink(dev, dev')
      /\ \A q \in Descriptions : dev'.cache[q] = dev.cache[q]
      /\ "state" \in Queries => dev'.cache["state"] = wire[1].v
  BY <1>0 DEF OnMessage, TypeOK, DeviceObject, SameLink
<1>2. PICK h : h = Overtake(hist, "change")
  OBVIOUS
<1>3. /\ h \in History /\ h.tainted = hist.tainted
      /\ \A c \in CallIds : h.overtaken[c] =
           IF c \in Returning THEN hist.overtaken[c] \cup {"change"} ELSE hist.overtaken[c]
  BY <1>2, OvertakeType, CallsFacts DEF Overtake, TypeOK, History, Causes
<1>4. /\ hist'.overtaken = h.overtaken
      /\ hist'.tainted = Told(hist.tainted)
  BY <1>2, <1>3 DEF History
<1>5. /\ \A q \in Descriptions : hist'.tainted[q] = hist.tainted[q]
      /\ ~dev.connected => \A q \in Queries : hist'.tainted[q] = hist.tainted[q]
  BY <1>0, <1>4 DEF Told
<1>6. ASSUME NEW c \in CallIds
      PROVE  /\ "link" \in hist'.overtaken[c] <=> "link" \in hist.overtaken[c]
             /\ c \in Returning => hist'.overtaken[c] # {}
             /\ dev.call[c].st # "DONE" => hist'.overtaken[c] = hist.overtaken[c]
  <2>1. dev.call[c].st # "DONE" => c \notin Returning
    BY DEF Returning
  <2>2. CASE c \in Returning
    <3>1. hist'.overtaken[c] = hist.overtaken[c] \cup {"change"}
      BY <1>3, <1>4, <2>2
    <3>. QED
      BY <2>1, <2>2, <3>1
  <2>3. CASE c \notin Returning
    BY <1>3, <1>4, <2>3
  <2>. QED
    BY <2>2, <2>3
<1>7. Onward(dev, dev')
  BY <1>1 DEF Onward
<1>8. Linked' /\ Carried' /\ WaitOnce' /\ WireTells' /\ WireDescribes' /\ Identified'
  BY <1>0, <1>1, <1>7, CarriedKept, TellsLeft
     DEF Knowledge, Linked, WaitOnce, Identified, SameLink
<1>9. ASSUME NEW c \in CallIds
      PROVE  /\ Usable(c)' <=> Usable(c)
             /\ Ready(c)' => Ready(c)
             /\ Late(c)' => Late(c)
  <2>1. Asked(c)' => Asked(c)
    BY <1>0, <1>1, AskedLeft
  <2>. QED
    BY <1>1, <1>6, <2>1 DEF Usable, Returning, Ready, Late
<1>10. StateKnown'
  <2>. SUFFICES ASSUME dev'.up, Still(0)' PROVE StateKnown'
    BY DEF StateKnown
  <2>1. Still(1)
    <3>1. 0 \in Nat /\ 0 + 1 = 1
      OBVIOUS
    <3>2. Still(0 + 1)
      BY <1>0, <3>1, StillLeft
    <3>. QED
      BY <3>1, <3>2
  <2>2. wire[1].v = hw.state
    BY <1>0, <2>1 DEF Knowledge, WireTells, TellsState
  <2>3. \A c \in CallIds : Usable(c)' => hist'.overtaken[c] # {}
    BY <1>6, <1>9 DEF Usable
  <2>. QED
    BY <1>1, <2>2, <2>3 DEF StateKnown
<1>11. Described'
  <2>. SUFFICES ASSUME dev'.up PROVE Described'
    BY DEF Described
  <2>0. dev.up /\ Described /\ Description' = Description
    BY <1>1 DEF Knowledge, SameLink, Description
  <2>1. \A q \in Descriptions : dev'.loaded[q] = dev.loaded[q]
    BY <1>1 DEF SameLink
  <2>2. \A i \in 1..Len(waits) : waits[i] \in CallIds =>
          (Ready(waits[i])' => Ready(waits[i])) /\ (Late(waits[i])' => Late(waits[i]))
    <3>1. ASSUME NEW i \in 1..Len(waits), waits[i] \in CallIds
          PROVE  (Ready(waits[i])' => Ready(waits[i])) /\ (Late(waits[i])' => Late(waits[i]))
      <4>1. PICK c \in CallIds : c = waits[i]
        BY <3>1
      <4>2. (Ready(c)' => Ready(c)) /\ (Late(c)' => Late(c))
        BY <1>9
      <4>. QED
        BY <4>1, <4>2 DEF Ready, Asked, Late
    <3>. QED
      BY <3>1
  <2>3. ASSUME NEW q \in Descriptions, dev'.loaded[q], "link" \notin hist'.tainted[q]
        PROVE  dev'.cache[q] = hw'.id /\ ~hw'.bare
    BY <1>1, <1>5, <2>0, <2>1, <2>3 DEF Described
  <2>4. ASSUME NEW c \in CallIds, Usable(c)', dev'.call[c].kind \in Descriptions,
               "link" \notin hist'.overtaken[c]
        PROVE  dev'.call[c].ret \in {"bad", Description'}
    BY <1>1, <1>6, <1>9, <2>0, <2>4 DEF Described
  <2>5. ASSUME NEW q \in Descriptions, NEW i \in 1..Len(waits),
               dev'.loaded[q], "link" \in hist'.tainted[q],
               waits[i] \in CallIds, dev'.call[waits[i]].kind = q
        PROVE  ~Ready(waits[i])'
    BY <1>1, <1>5, <2>0, <2>1, <2>2, <2>5 DEF Described
  <2>6. ASSUME NEW i \in 1..Len(waits), NEW j \in 1..Len(waits),
               i < j, waits[i] \in CallIds, waits[j] \in CallIds, Late(waits[j])'
        PROVE  ~Ready(waits[i])'
    BY <2>0, <2>2, <2>6 DEF Described
  <2>. QED
    BY <2>3, <2>4, <2>5, <2>6 DEF Described
<1>12. Forgotten'
  <2>1. ASSUME NEW c \in CallIds, dev'.call[c].st # "DONE"
        PROVE  hist'.overtaken[c] = {}
    BY <1>1, <1>6, <2>1 DEF Knowledge, Forgotten
  <2>. SUFFICES ASSUME ~dev'.connected PROVE Forgotten'
    BY <2>1 DEF Forgotten
  <2>2. ~dev.connected
    BY <1>1 DEF SameLink
  <2>3. \A q \in Queries : dev'.loaded[q] => "link" \in hist'.tainted[q]
    BY <1>1, <1>5, <2>2 DEF Knowledge, Forgotten, SameLink
  <2>4. ASSUME NEW c \in CallIds, Usable(c)' PROVE "link" \in hist'.overtaken[c]
    BY <1>6, <1>9, <2>2, <2>4 DEF Knowledge, Forgotten
  <2>5. ASSUME NEW i \in Replies' PROVE wire'[i].c \notin Pending(dev)'
    <3>1. i + 1 \in Replies /\ wire'[i] = wire[i + 1]
      BY <1>0, RepliesLeft
    <3>. QED
      BY <1>1, <2>2, <3>1 DEF Knowledge, Forgotten, Pending
  <2>. QED
    BY <2>1, <2>3, <2>4, <2>5 DEF Forgotten
<1>. QED
  BY <1>8, <1>10, <1>11, <1>12 DEF Knowledge

LEMMA DeliverKeeps ==
  ASSUME TypeOK, Commands, Knowledge, Deliver
  PROVE  Knowledge'
<1> DEFINE m == wire[1]
<1>0. /\ dev \in DeviceObject /\ InProgress(dev) /\ hist \in History
      /\ wire \in Seq(Message) /\ wire # <<>> /\ wire' = Tail(wire)
      /\ waits' = waits /\ hw' = hw /\ dev.backend
      /\ dev.exec \subseteq CallIds /\ CallIds \subseteq Calls
  BY CallsFacts DEF TypeOK, Commands, Deliver, DeviceObject
<1>1. /\ dev' = OnMessage(dev, m)
      /\ hist' = CASE m.t = "reset" -> Overtake(hist, "reset")
                   [] m.t = "statechanged" ->
                        [Overtake(hist, "change") EXCEPT !.tainted = Told(@)]
                   [] OTHER -> hist
  BY DEF Deliver
<1>2. m \in Message /\ m.c \in Calls /\ m.v \in Content
  <2>1. m \in Message
    BY <1>0, ElementOfSeq, EmptySeq, LenProperties
  <2>. QED
    BY <2>1 DEF Message
<1>3. Shortened(1)
  BY <1>0, ShortenedIs
<1>4. (dev.up => dev.connected /\ dev.backend) /\ dev.connected \in BOOLEAN
  BY <1>0 DEF Knowledge, Linked, DeviceObject
<1>. HIDE DEF m
<1>5. ASSUME Quits(dev, dev'), SameLink(dev, dev'), hist' = hist, ~Restless(m)
      PROVE  Knowledge'
  <2>1. hist'.tainted = hist.tainted /\ Overtakes
    BY <1>5, SameHistory
  <2>2. \A i \in 1..1 : ~Restless(wire[i])
    BY <1>5 DEF m
  <2>. QED
    BY <1>0, <1>3, <1>4, <1>5, <2>1, <2>2, QuitsKeeps DEF SameLink
<1>6. ASSUME NEW c \in Calls, dev' = Answered(dev, c, TRUE, m.v), hist' = hist,
             ~Restless(m), c \in CallIds => m.t = "ok" /\ m.c = c
      PROVE  Knowledge'
  <2>0. dev.call[c] \in CallRecord
    BY <1>0 DEF DeviceObject
  <2>1. /\ dev'.call = [dev.call EXCEPT ![c] = Finish(@, TRUE, m.v)]
        /\ dev'.callId = dev.callId /\ dev'.cache = dev.cache /\ dev'.id = dev.id
        /\ dev'.sent = dev.sent /\ SameLink(dev, dev')
    BY <1>0, <1>6 DEF Answered, DeviceObject, SameLink
  <2>2. /\ \A k \in Calls : k # c => dev'.call[k] = dev.call[k]
        /\ dev'.call[c] = Finish(dev.call[c], TRUE, m.v)
    BY <1>0, <2>1 DEF DeviceObject
  <2>3. CASE dev.call[c].st = "EXEC"
    <3>1. /\ dev'.call[c].kind = dev.call[c].kind /\ dev'.call[c].st = "DONE"
          /\ dev'.call[c].ok /\ dev'.call[c].ret = m.v
      BY <2>0, <2>2, <2>3 DEF Finish, CallRecord
    <3>. QED
      BY <1>0, <1>6, <2>1, <2>2, <2>3, <3>1, AnswerKeeps DEF m
  <2>4. CASE dev.call[c].st # "EXEC"
    <3>1. \A k \in Calls : dev'.call[k] = dev.call[k]
      BY <2>2, <2>4 DEF Finish
    <3>2. dev'.call = dev.call
      BY <1>0, <2>1, <3>1 DEF DeviceObject
    <3>. QED
      BY <1>5, <1>6, <2>1, <3>2, SameCallsQuits
  <2>. QED
    BY <2>3, <2>4
<1>7. CASE m.t = "syncr"
  <2>1. /\ dev'.call = dev.call /\ dev'.callId = dev.callId /\ dev'.cache = dev.cache
        /\ dev'.id = dev.id /\ dev'.sent = dev.sent /\ SameLink(dev, dev')
    BY <1>0, <1>1, <1>7 DEF OnMessage, DeviceObject, SameLink
  <2>. QED
    BY <1>1, <1>5, <1>7, <2>1, SameCallsQuits DEF Restless
<1>8. CASE m.t = "deviceinfo"
  <2>1. dev' = Answered(dev, IdentifyCall, TRUE, m.v) /\ hist' = hist /\ ~Restless(m)
    BY <1>1, <1>8 DEF OnMessage, Restless
  <2>. QED
    BY <1>6, <2>1, CallsFacts
<1>9. CASE m.t \in {"ok", "err"}
  <2>0. hist' = hist /\ ~Restless(m)
    BY <1>1, <1>9 DEF Restless
  <2>1. CASE m.c \notin dev.exec
    <3>1. dev' = dev
      BY <1>1, <1>9, <2>1 DEF OnMessage
    <3>. QED
      BY <1>5, <2>0, <3>1, SelfQuits DEF SameLink
  <2>2. CASE m.c \in dev.exec /\ m.t = "ok"
    <3>1. dev' = Answered(dev, m.c, TRUE, m.v)
      BY <1>1, <2>2 DEF OnMessage
    <3>. QED
      BY <1>2, <1>6, <2>0, <2>2, <3>1
  <2>3. CASE m.c \in dev.exec /\ m.t = "err"
    <3>1. dev' = Answered(dev, m.c, FALSE, m.v)
      BY <1>1, <2>3 DEF OnMessage
    <3>. QED
      BY <1>0, <1>2, <1>5, <2>0, <3>1, FailedQuits
  <2>. QED
    BY <1>9, <2>1, <2>2, <2>3
<1>10. CASE m.t = "statechanged"
  BY <1>0, <1>1, <1>10, ChangeKeeps DEF m
<1>11. CASE m.t = "reset"
  <2>1. dev' = OnDeviceReset(dev) /\ hist' = Overtake(hist, "reset")
    BY <1>1, <1>11 DEF OnMessage
  <2>2. /\ Quits(dev, dev')
        /\ dev'.backend = dev.backend /\ dev'.up = dev.up /\ dev'.connected = dev.connected
        /\ \A q \in Queries : dev'.loaded[q] <=> dev.loaded[q] /\ q # "state"
    BY <1>0, <2>1, ResetQuits
  <2>3. /\ hist'.tainted = hist.tainted /\ Overtakes
        /\ \A c \in CallIds : hist'.overtaken[c] =
             IF c \in Returning THEN hist.overtaken[c] \cup {"reset"} ELSE hist.overtaken[c]
    BY <1>0, <2>1, OvertakeIs
  <2>4. ASSUME NEW c \in CallIds, "link" \in hist'.overtaken[c]
        PROVE  "link" \in hist.overtaken[c]
    <3>1. CASE c \in Returning
      <4>1. hist'.overtaken[c] = hist.overtaken[c] \cup {"reset"}
        BY <2>3, <3>1
      <4>. QED
        BY <2>4, <4>1
    <3>2. CASE c \notin Returning
      BY <2>3, <2>4, <3>2
    <3>. QED
      BY <3>1, <3>2
  <2>5. \A c \in Returning \cap CallIds : hist'.overtaken[c] # {}
    BY <2>3
  <2>. QED
    BY <1>0, <1>3, <1>4, <2>2, <2>3, <2>4, <2>5, QuitsKeeps
<1>. QED
  BY <1>2, <1>7, <1>8, <1>9, <1>10, <1>11 DEF Message
-----------------------------------------------------------------------------
(***************************************************************************)
(* The device sends a message m.                                           *)
(***************************************************************************)
Sends(m) ==
  /\ dev.up /\ wire' = Append(wire, m) /\ waits' = waits /\ hist' = hist
  /\ dev'.call = dev.call /\ dev'.callId = dev.callId /\ dev'.cache = dev.cache
  /\ dev'.id = dev.id /\ SameLink(dev, dev') /\ dev'.sent \subseteq dev.sent
  /\ hw'.id = hw.id /\ hw'.bare = hw.bare
  /\ hw'.state = hw.state \/ Restless(m)
  /\ m.t = "statechanged" => m.v = hw'.state
  /\ m.t = "ok" =>
       /\ m.c \in dev.sent \ dev'.sent
       /\ dev.call[m.c].kind = "state" => m.v \in {hw'.state, "bad"}
       /\ dev.call[m.c].kind \in Descriptions => m.v \in {"bad", Description}

LEMMA SendsKeeps ==
  ASSUME TypeOK, Knowledge, NEW m, Sends(m)
  PROVE  Knowledge'
<1> DEFINE n == Len(wire)
<1>0. /\ n \in Nat /\ Len(wire') = n + 1 /\ wire'[n + 1] = m
      /\ \A i \in 1..n : wire'[i] = wire[i]
  BY AppendProperties, LenProperties DEF TypeOK, Sends
<1>. HIDE DEF n
<1>1. \A i \in 1..Len(wire') : \/ i \in 1..n /\ wire'[i] = wire[i]
                               \/ i = n + 1 /\ wire'[i] = m
  BY <1>0
<1>2. ASSUME NEW i \in Replies'
      PROVE  \/ i \in Replies /\ wire'[i] = wire[i]
             \/ i = n + 1 /\ wire'[i] = m /\ m.t = "ok" /\ m.c \in CallIds
  BY <1>1, <1>2 DEF Replies, n
<1>3. Description' = Description
  BY DEF Description, Sends
<1>4. Linked' /\ WaitOnce' /\ Identified'
  BY DEF Knowledge, Linked, WaitOnce, Identified, Sends, SameLink
<1>5. Carried'
  <2>1. ASSUME NEW i \in Replies'
        PROVE  wire'[i].c \in 1..dev'.callId /\ wire'[i].c \notin dev'.sent
    BY <1>2 DEF Knowledge, Carried, Sends
  <2>2. ASSUME NEW i \in Replies', NEW j \in Replies', wire'[i].c = wire'[j].c
        PROVE  i = j
    <3>1. \A k \in Replies : wire[k].c \notin dev.sent
      BY DEF Knowledge, Carried
    <3>2. m.t = "ok" => m.c \in dev.sent
      BY DEF Sends
    <3>3. CASE i \in Replies /\ wire'[i] = wire[i] /\ j \in Replies /\ wire'[j] = wire[j]
      BY <2>2, <3>3 DEF Knowledge, Carried
    <3>. QED
      BY <1>2, <2>2, <3>1, <3>2, <3>3
  <2>3. /\ dev'.call[IdentifyCall].kind = "identify"
        /\ \A c \in CallIds :
             IF c \in 1..dev'.callId THEN dev'.call[c].kind # "unused"
             ELSE dev'.call[c].kind = "unused" /\ dev'.call[c].st = "WAIT"
    BY DEF Knowledge, Carried, Sends
  <2>4. \A c \in dev'.sent \cap CallIds :
          c \in 1..dev'.callId /\ dev'.call[c].st # "WAIT"
            /\ (dev'.call[c].st = "DONE" => ~dev'.call[c].ok)
    BY DEF Knowledge, Carried, Sends
  <2>. QED
    BY <2>1, <2>2, <2>3, <2>4 DEF Carried
<1>6. ASSUME NEW i \in 0..n, Still(i)'
      PROVE  Still(i) /\ ~Restless(m) /\ hw'.state = hw.state
  <2>1. \A j \in 1..(n + 1) : j > i => ~Restless(wire'[j])
    BY <1>0, <1>6 DEF Still, Restless
  <2>2. n + 1 > i /\ n + 1 \in 1..(n + 1)
    BY <1>0
  <2>3. ~Restless(m)
    BY <1>0, <2>1, <2>2
  <2>4. \A j \in 1..n : j > i => ~Restless(wire[j])
    BY <1>0, <2>1
  <2>. QED
    BY <2>3, <2>4 DEF Still, Sends, n
<1>7. WireTells'
  <2>1. ASSUME NEW i \in 1..Len(wire'), TellsState(wire[i])', Still(i)'
        PROVE  wire'[i].v = hw'.state
    <3>1. PICK w : w = wire'[i]
      OBVIOUS
    <3>2. \/ w.t = "statechanged"
          \/ /\ w.t = "ok" /\ w.c \in CallIds /\ w.v # "bad"
             /\ dev.call[w.c].kind = "state"
      BY <2>1, <3>1 DEF TellsState, Sends
    <3>3. CASE i \in 1..n /\ wire'[i] = wire[i]
      <4>1. Still(i) /\ hw'.state = hw.state
        BY <1>0, <1>6, <2>1, <3>3
      <4>2. TellsState(wire[i])
        BY <3>1, <3>2, <3>3 DEF TellsState
      <4>. QED
        BY <3>3, <4>1, <4>2 DEF Knowledge, WireTells, n
    <3>4. CASE i = n + 1 /\ wire'[i] = m
      BY <3>1, <3>2, <3>4 DEF Sends
    <3>. QED
      BY <1>1, <2>1, <3>3, <3>4
  <2>. QED
    BY <2>1 DEF WireTells
<1>8. WireDescribes'
  <2>1. ASSUME NEW i \in Replies', dev'.call[wire'[i].c].kind \in Descriptions
        PROVE  wire'[i].v \in {"bad", Description}
    BY <1>2, <2>1 DEF Knowledge, WireDescribes, Sends
  <2>. QED
    BY <1>3, <2>1 DEF WireDescribes
<1>13. ASSUME NEW c, Asked(c)' PROVE Asked(c)
  <2>1. CASE c \in dev'.sent
    BY <2>1 DEF Asked, Sends
  <2>2. ASSUME NEW i \in Replies', wire'[i].c = c PROVE Asked(c)
    BY <1>2, <2>2 DEF Asked, Sends
  <2>. QED
    BY <1>13, <2>1, <2>2 DEF Asked
<1>9. ASSUME NEW c PROVE /\ Usable(c)' <=> Usable(c)
                         /\ Ready(c)' => Ready(c)
                         /\ Late(c)' => Late(c)
  BY <1>13 DEF Usable, Returning, Ready, Late, Sends
<1>10. StateKnown'
  <2>. SUFFICES ASSUME dev'.up, Still(0)' PROVE StateKnown'
    BY DEF StateKnown
  <2>1. Still(0) /\ hw'.state = hw.state
    BY <1>0, <1>6
  <2>2. \A c \in CallIds :
          /\ Usable(c)' /\ dev'.call[c].kind = "state" /\ dev'.call[c].ret # "bad"
          /\ hist'.overtaken[c] = {}
          => dev'.call[c].ret = hw'.state
    BY <1>9, <2>1 DEF Knowledge, StateKnown, Sends
  <2>3. "state" \in Queries /\ dev'.loaded["state"] /\ hist'.tainted["state"] = {}
          => dev'.cache["state"] = hw'.state
    BY <2>1 DEF Knowledge, StateKnown, Sends, SameLink
  <2>. QED
    BY <2>2, <2>3 DEF StateKnown
<1>11. Described'
  <2>1. Described
    BY DEF Knowledge
  <2>2. ASSUME NEW i \in 1..Len(waits)
        PROVE  (Ready(waits[i])' => Ready(waits[i])) /\ (Late(waits[i])' => Late(waits[i]))
    <3>1. PICK c : c = waits[i]
      OBVIOUS
    <3>2. (Ready(c)' => Ready(c)) /\ (Late(c)' => Late(c))
      BY <1>9
    <3>3. waits' = waits
      BY DEF Sends
    <3>. QED
      BY <3>1, <3>2, <3>3 DEF Ready, Asked, Late
  <2>3. \A q \in Descriptions, i \in 1..Len(waits') :
         /\ dev'.loaded[q] /\ "link" \in hist'.tainted[q]
         /\ waits'[i] \in CallIds /\ dev'.call[waits'[i]].kind = q
         => ~Ready(waits[i])'
    BY <2>1, <2>2 DEF Described, Sends, SameLink
  <2>4. \A i, j \in 1..Len(waits') :
         i < j /\ waits'[i] \in CallIds /\ waits'[j] \in CallIds /\ Late(waits[j])'
           => ~Ready(waits[i])'
    BY <2>1, <2>2 DEF Described, Sends
  <2>5. /\ \A q \in Descriptions : dev'.loaded[q] /\ "link" \notin hist'.tainted[q]
             => dev'.cache[q] = hw'.id /\ ~hw'.bare
        /\ \A c \in CallIds :
             /\ Usable(c)' /\ dev'.call[c].kind \in Descriptions
             /\ "link" \notin hist'.overtaken[c]
             => dev'.call[c].ret \in {"bad", Description'}
    BY <1>3, <1>9, <2>1 DEF Described, Sends, SameLink
  <2>. QED
    BY <2>3, <2>4, <2>5 DEF Described
<1>12. Forgotten'
  BY DEF Knowledge, Linked, Forgotten, Sends, SameLink
<1>. QED
  BY <1>4, <1>5, <1>7, <1>8, <1>10, <1>11, <1>12 DEF Knowledge

LEMMA DeviceKeeps ==
  ASSUME TypeOK, Commands, Knowledge,
         \/ DeviceSyncs
         \/ \E c \in Calls : DeviceAnswers(c)
         \/ \E v \in Values : DeviceChanges(v)
         \/ DeviceResets
  PROVE  Knowledge'
<1>0. dev \in DeviceObject /\ InProgress(dev) /\ hw \in Hardware
  BY DEF TypeOK, Commands
<1>1. CASE DeviceSyncs
  <2>1. Sends([t |-> "syncr", c |-> IdentifyCall, v |-> "nothing"])
    BY <1>1 DEF DeviceSyncs, Send, Sends, SameLink, Restless
  <2>. QED
    BY <2>1, SendsKeeps
<1>2. ASSUME NEW c \in Calls, DeviceAnswers(c) PROVE Knowledge'
  <2>1. PICK t, v : /\ Send(t, c, v)
                    /\ \/ t = "deviceinfo" \/ t = "err"
                       \/ t = "ok" /\ c \in CallIds /\ v \in Reply(dev.call[c].kind)
    BY <1>2, CallsFacts DEF DeviceAnswers
  <2>2. /\ dev'.sent = dev.sent \ {c} /\ dev'.call = dev.call /\ dev'.callId = dev.callId
        /\ dev'.cache = dev.cache /\ dev'.id = dev.id /\ SameLink(dev, dev')
        /\ c \in dev.sent /\ waits' = waits /\ hist' = hist /\ hw' = hw
    BY <1>0, <1>2 DEF DeviceAnswers, DeviceObject, SameLink
  <2>3. ASSUME t = "ok"
        PROVE  /\ dev.call[c].kind = "state" => v \in {hw.state, "bad"}
               /\ dev.call[c].kind \in Descriptions => v \in {"bad", Description}
    <3>1. v \in Reply(dev.call[c].kind) /\ dev.call[c].kind # "identify"
      BY <1>0, <2>1, <2>3 DEF InProgress
    <3>. QED
      BY <3>1 DEF Reply, Description, Descriptions
  <2>4. PICK m : m = [t |-> t, c |-> c, v |-> v]
    OBVIOUS
  <2>5. m.t = t /\ m.c = c /\ m.v = v /\ wire' = Append(wire, m) /\ dev.up
    BY <2>1, <2>4 DEF Send
  <2>6. Sends(m)
    BY <2>1, <2>2, <2>3, <2>5 DEF Sends
  <2>. QED
    BY <2>6, SendsKeeps
<1>3. ASSUME NEW v \in Values, DeviceChanges(v) PROVE Knowledge'
  <2>1. hw'.id = hw.id /\ hw'.bare = hw.bare /\ hw'.state = v
    BY <1>0, <1>3 DEF DeviceChanges, Hardware
  <2>2. Sends([t |-> "statechanged", c |-> IdentifyCall, v |-> v])
    BY <1>3, <2>1 DEF DeviceChanges, Send, Sends, SameLink, Restless
  <2>. QED
    BY <2>2, SendsKeeps
<1>4. CASE DeviceResets
  <2>1. /\ dev'.sent = {} /\ dev'.call = dev.call /\ dev'.callId = dev.callId
        /\ dev'.cache = dev.cache /\ dev'.id = dev.id /\ SameLink(dev, dev')
    BY <1>0, <1>4 DEF DeviceResets, DeviceObject, SameLink
  <2>2. hw'.id = hw.id /\ hw'.bare = hw.bare
    BY <1>0, <1>4 DEF DeviceResets, Hardware
  <2>3. Sends([t |-> "reset", c |-> IdentifyCall, v |-> "nothing"])
    BY <1>4, <2>1, <2>2 DEF DeviceResets, Send, Sends, Restless
  <2>. QED
    BY <2>3, SendsKeeps
<1>. QED
  BY <1>1, <1>2, <1>3, <1>4
-----------------------------------------------------------------------------
(***************************************************************************)
(* The users' operations start, and return.                                *)
(***************************************************************************)
LEMMA IdentifyKeeps ==
  ASSUME TypeOK, Knowledge, Identify
  PROVE  Knowledge'
<1> DEFINE r == dev.call[IdentifyCall]
<1>0. dev \in DeviceObject /\ hist \in History /\ dev.call \in [Calls -> CallRecord]
      /\ IdentifyCall \in Calls /\ IdentifyCall \notin CallIds
  BY CallsFacts DEF TypeOK, DeviceObject
<1>1. r \in CallRecord /\ r.kind = "identify"
  BY <1>0 DEF Knowledge, Carried
<1>2. /\ dev'.call = [dev.call EXCEPT ![IdentifyCall] = Run(@, CanWrite(dev))]
      /\ dev'.id = NoId /\ dev'.loaded = NothingLoaded
      /\ dev'.callId = dev.callId /\ dev'.cache = dev.cache
      /\ dev'.up = dev.up /\ dev'.backend = dev.backend /\ dev'.connected = dev.connected
      /\ dev'.sent \subseteq dev.sent \cup {IdentifyCall}
  BY <1>0 DEF Identify, StartIdentify, DeviceObject
<1>3. /\ \A k \in Calls : k # IdentifyCall => dev'.call[k] = dev.call[k]
      /\ dev'.call[IdentifyCall] = Run(r, CanWrite(dev))
  BY <1>0, <1>2
<1>4. dev'.call[IdentifyCall].kind = "identify"
  BY <1>1, <1>3 DEF Run, CallRecord
<1>5. Identified'
  BY <1>2 DEF Identified
<1>6. /\ hist'.tainted = hist.tainted
      /\ \A k \in CallIds : hist'.overtaken[k] = hist.overtaken[k]
  BY <1>0 DEF Identify, History
<1>7. \/ waits' = waits
      \/ waits' = Append(waits, IdentifyCall) /\ dev'.call[IdentifyCall].st = "EXEC"
  BY DEF Identify, Block
<1>8. \A q \in Queries : dev'.loaded[q] => dev.loaded[q]
  BY <1>2 DEF NothingLoaded
<1>9. Started(IdentifyCall)
  BY <1>0, <1>2, <1>3, <1>4, <1>6, <1>7, <1>8 DEF Started, Identify
<1>. QED
  BY <1>0, <1>5, <1>9, StartKeeps

LEMMA ExecKeeps ==
  ASSUME TypeOK, Knowledge, NEW k \in Kinds \ {"unused", "identify"},
         k \in Descriptions => ~dev.loaded[k],
         dev.callId < MaxCalls, dev' = ExecCommand(dev, k),
         waits' = waits \/ Block(dev', dev'.callId),
         UNCHANGED <<wire, hw, hist>>
  PROVE  Knowledge'
<1> DEFINE c == dev.callId + 1
           written == dev.connected /\ CanWrite(dev)
           called == IF dev.connected THEN Run(NewCall(k), written) ELSE NewCall(k)
<1>0. dev \in DeviceObject /\ dev.call \in [Calls -> CallRecord] /\ dev.callId \in Nat
  BY DEF TypeOK, DeviceObject
<1>1. c \in CallIds /\ c \in Calls /\ c # IdentifyCall
  BY <1>0, ConstantsAssumption, CallsFacts DEF CallIds
<1>2. /\ dev'.call = [dev.call EXCEPT ![c] = called] /\ dev'.callId = c
      /\ dev'.id = dev.id /\ dev'.loaded = dev.loaded /\ dev'.cache = dev.cache
      /\ dev'.up = dev.up /\ dev'.backend = dev.backend /\ dev'.connected = dev.connected
      /\ dev'.sent = IF written THEN dev.sent \cup {c} ELSE dev.sent
  BY <1>0 DEF ExecCommand, DeviceObject
<1>3. /\ called.kind = k /\ ~called.ok
      /\ ~dev.connected => called.st = "WAIT"
      /\ written => called.st = "EXEC"
  BY DEF Run, NewCall
<1>. HIDE DEF c, written, called
<1>4. /\ \A i \in Calls : i # c => dev'.call[i] = dev.call[i]
      /\ dev'.call[c] = called
  BY <1>0, <1>1, <1>2
<1>5. dev'.call[IdentifyCall] = dev.call[IdentifyCall]
  BY <1>1, <1>4, CallsFacts
<1>6. Identified'
  BY <1>2, <1>5 DEF Knowledge, Identified
<1>7. waits' = waits \/ (waits' = Append(waits, c) /\ dev'.call[c].st = "EXEC")
  BY <1>2 DEF Block
<1>8. dev'.sent \cap CallIds \subseteq dev.sent \cup {c}
  BY <1>2
<1>9. c \in dev'.sent \ dev.sent => dev'.call[c].st # "WAIT"
  BY <1>2, <1>3, <1>4
<1>10. dev'.call[IdentifyCall].kind = "identify"
  BY <1>5 DEF Knowledge, Carried
<1>11. c = dev.callId + 1
  BY DEF c
<1>12. Started(c)
  BY <1>0, <1>1, <1>2, <1>3, <1>4, <1>7, <1>8, <1>9, <1>10, <1>11 DEF Started
<1>. QED
  BY <1>1, <1>6, <1>12, StartKeeps

(* The innermost operation returns. *)
LEMMA ReturnIs ==
  ASSUME TypeOK, Return
  PROVE  LET n == Len(waits)
         IN  /\ n \in Nat \ {0} /\ n \in 1..n /\ waits[n] \in Calls
             /\ Len(waits') = n - 1
             /\ \A i \in 1..Len(waits') : i \in 1..(n - 1) /\ i \in 1..n
                                          /\ waits'[i] = waits[i]
<1>1. waits \in Seq(Calls) /\ waits # <<>> /\ waits' = SubSeq(waits, 1, Len(waits) - 1)
  BY DEF TypeOK, Return
<1>2. Len(waits) \in Nat \ {0}
  BY <1>1, EmptySeq, LenProperties
<1>3. Len(waits) \in 1..Len(waits) /\ waits[Len(waits)] \in Calls
  BY <1>1, <1>2, ElementOfSeq
<1>4. /\ Len(waits') = Len(waits) - 1
      /\ \A i \in 1..(Len(waits) - 1) : waits'[i] = waits[i]
  <2>1. PICK m \in Int : m = Len(waits) - 1 /\ m >= 0
    BY <1>2
  <2>2. \A i \in 1..m : waits[i] \in Calls
    BY <1>1, <1>2, <2>1, ElementOfSeq
  <2>3. /\ Len(waits') = IF 1 <= m THEN m - 1 + 1 ELSE 0
        /\ \A i \in 1..m - 1 + 1 : waits'[i] = waits[1 + i - 1]
    BY <1>1, <2>1, <2>2, SubSeqProperties
  <2>. QED
    BY <2>1, <2>3
<1>. QED
  BY <1>2, <1>3, <1>4

LEMMA ReturnKeeps ==
  ASSUME TypeOK, Commands, Knowledge, Return
  PROVE  Knowledge'
<1>1. PICK n : n = Len(waits)
  OBVIOUS
<1>2. PICK c : c = waits[n]
  OBVIOUS
<1>3. /\ n \in Nat \ {0} /\ n \in 1..n /\ c \in Calls /\ Len(waits') = n - 1
      /\ \A i \in 1..Len(waits') : i \in 1..(n - 1) /\ i \in 1..Len(waits)
                                   /\ waits'[i] = waits[i]
  BY <1>1, <1>2, ReturnIs
<1>4. /\ dev \in DeviceObject /\ hist \in History /\ wire' = wire /\ hw' = hw
      /\ dev.call[c].st # "EXEC"
      /\ \/ dev.call[c].kind = "identify" /\ dev' = FinishIdentify(dev) /\ hist' = hist
         \/ /\ dev.call[c].kind \in Queries
            /\ dev' = FinishQuery(dev, c) /\ hist' = Keep(hist, c, dev)
         \/ dev' = dev /\ hist' = hist
  BY <1>1, <1>2, <1>3 DEF TypeOK, Return, Pending
<1>5. /\ dev'.call = dev.call /\ dev'.callId = dev.callId /\ dev'.sent = dev.sent
      /\ dev'.backend = dev.backend /\ dev'.connected = dev.connected
      /\ dev'.up => dev.up
  BY <1>4 DEF FinishIdentify, FinishQuery, DeviceObject
<1>6. Linked'
  BY <1>5 DEF Knowledge, Linked
<1>7. Carried' /\ WireTells' /\ WireDescribes'
  <2>1. Onward(dev, dev') /\ Shortened(0)
    BY <1>4, <1>5, ShortenedIs DEF Onward, TypeOK
  <2>. QED
    BY <1>4, <2>1, CarriedKept, TellsLeft DEF Knowledge
<1>8. WaitOnce'
  BY <1>1, <1>3, <1>5 DEF Knowledge, WaitOnce
<1>9. Still(0)' <=> Still(0)
  BY <1>4 DEF Still, Restless
<1>10. ASSUME NEW k \in CallIds, Usable(k)'
       PROVE  Usable(k) /\ \E i \in 1..(n - 1) : i \in 1..Len(waits) /\ waits[i] = k
  <2>1. PICK i \in 1..Len(waits') : waits'[i] = k
    BY <1>10 DEF Usable, Returning
  <2>2. i \in 1..(n - 1) /\ i \in 1..Len(waits) /\ waits[i] = k
    BY <1>3, <2>1
  <2>3. Usable(k)
    BY <1>5, <1>10, <2>2 DEF Usable, Returning
  <2>. QED
    BY <2>2, <2>3
<1>11. ASSUME c \in CallIds, NEW i \in 1..(n - 1), i \in 1..Len(waits) PROVE waits[i] # c
  BY <1>1, <1>2, <1>3, <1>11 DEF Knowledge, WaitOnce
<1>12. ASSUME NEW k \in CallIds, Usable(k)' PROVE k # c
  BY <1>10, <1>11, <1>12
<1>13. ASSUME \A k \in CallIds : k # c => hist'.overtaken[k] = hist.overtaken[k],
              c \in CallIds => hist'.overtaken[c] \in {hist.overtaken[c], {}},
              NEW i \in 1..Len(waits'), waits'[i] \in CallIds
       PROVE  /\ Ready(waits[i])' => Ready(waits[i])
              /\ Late(waits[i])' => Late(waits[i])
  <2>1. PICK k \in CallIds : k = waits[i]
    BY <1>3, <1>13
  <2>2. k # c /\ k = waits'[i]
    BY <1>3, <1>11, <2>1
  <2>3. hist'.overtaken[k] = hist.overtaken[k]
    BY <1>13, <2>2
  <2>. QED
    BY <1>4, <1>5, <2>1, <2>2, <2>3 DEF Ready, Asked, Replies, Late
<1>14. CASE hist' = hist /\ dev'.loaded = dev.loaded /\ dev'.cache = dev.cache
            /\ Identified'
  <2>1. StateKnown'
    BY <1>4, <1>5, <1>9, <1>10, <1>14 DEF Knowledge, StateKnown
  <2>2. Described'
    <3>. SUFFICES ASSUME dev'.up PROVE Described'
      BY DEF Described
    <3>1. Described /\ dev.up /\ Description' = Description
      BY <1>4, <1>5 DEF Knowledge, Description
    <3>2. \A q \in Descriptions, i \in 1..Len(waits') :
           /\ dev'.loaded[q] /\ "link" \in hist'.tainted[q]
           /\ waits'[i] \in CallIds /\ dev'.call[waits'[i]].kind = q
           => ~Ready(waits[i])'
      BY <1>3, <1>5, <1>13, <1>14, <3>1 DEF Described
    <3>3. \A i, j \in 1..Len(waits') :
           i < j /\ waits'[i] \in CallIds /\ waits'[j] \in CallIds /\ Late(waits[j])'
             => ~Ready(waits[i])'
      BY <1>3, <1>5, <1>13, <1>14, <3>1 DEF Described
    <3>4. ASSUME NEW i \in 1..Len(waits') PROVE waits'[i] = waits[i]
      BY <1>3
    <3>5. /\ \A q \in Descriptions : dev'.loaded[q] /\ "link" \notin hist'.tainted[q]
               => dev'.cache[q] = hw'.id /\ ~hw'.bare
          /\ \A k \in CallIds :
               /\ Usable(k)' /\ dev'.call[k].kind \in Descriptions
               /\ "link" \notin hist'.overtaken[k]
               => dev'.call[k].ret \in {"bad", Description'}
      BY <1>4, <1>5, <1>10, <1>14, <3>1 DEF Described
    <3>. QED
      BY <3>2, <3>3, <3>4, <3>5 DEF Described
  <2>3. Forgotten'
    BY <1>4, <1>5, <1>10, <1>14 DEF Knowledge, Forgotten, Replies, Pending
  <2>. QED
    BY <1>6, <1>7, <1>8, <1>14, <2>1, <2>2, <2>3 DEF Knowledge
<1>15. CASE dev.call[c].kind = "identify" /\ dev' = FinishIdentify(dev) /\ hist' = hist
  <2>1. c = IdentifyCall
    BY <1>3, <1>15, CallsFacts DEF Commands, InProgress
  <2>2. dev'.loaded = dev.loaded /\ dev'.cache = dev.cache
    BY <1>4, <1>15 DEF FinishIdentify, DeviceObject
  <2>3. dev'.id = dev.id \/ dev'.id = dev.call[IdentifyCall].ret
    BY <1>4, <1>15 DEF FinishIdentify, DeviceObject
  <2>4. Identified'
    BY <1>4, <1>5, <2>1, <2>3 DEF Knowledge, Identified
  <2>. QED
    BY <1>14, <1>15, <2>2, <2>4
<1>16. CASE dev' = dev /\ hist' = hist
  BY <1>14, <1>16 DEF Knowledge, Identified
<1>17. CASE /\ dev.call[c].kind \in Queries
            /\ dev' = FinishQuery(dev, c) /\ hist' = Keep(hist, c, dev) /\ dev' # dev
  <2>1. PICK q \in Queries : q = dev.call[c].kind
    BY <1>17
  <2>2. PICK v : v = dev.call[c].ret
    OBVIOUS
  <2>3. dev.call[c].ok /\ v # "bad"
    BY <1>17, <2>2 DEF FinishQuery
  <2>4. /\ dev'.cache = [dev.cache EXCEPT ![q] = v]
        /\ dev'.loaded = [dev.loaded EXCEPT ![q] = @ \/ v # "empty"]
        /\ dev'.up = dev.up /\ dev'.id = dev.id
    BY <1>4, <1>17, <2>1, <2>2, <2>3 DEF FinishQuery, DeviceObject
  <2>5. /\ \A p \in Queries : p # q => dev'.cache[p] = dev.cache[p] /\ dev'.loaded[p] = dev.loaded[p]
        /\ dev'.cache[q] = v
        /\ dev'.loaded[q] => dev.loaded[q] \/ v # "empty"
    BY <1>4, <2>4 DEF DeviceObject
  <2>6. hist' = [hist EXCEPT !.tainted[q] = hist.overtaken[c], !.overtaken[c] = {}]
    BY <1>17, <2>1 DEF Keep
  <2>7. /\ \A p \in Queries : p # q => hist'.tainted[p] = hist.tainted[p]
        /\ hist'.tainted[q] = hist.overtaken[c]
        /\ \A k \in Calls : k # c => hist'.overtaken[k] = hist.overtaken[k]
        /\ hist'.overtaken[c] = {}
    BY <1>3, <1>4, <2>6 DEF History
  <2>8. c \in CallIds
    <3>1. "identify" \notin Queries
      BY ConstantsAssumption
    <3>. QED
      BY <1>3, <2>1, <3>1, CallsFacts DEF Knowledge, Carried
  <2>9. Usable(c) /\ dev.call[c].st = "DONE"
    <3>1. dev.call[c].st # "WAIT"
      BY <1>1, <1>2, <1>3, <2>8 DEF Knowledge, WaitOnce
    <3>2. dev.call[c].st = "DONE"
      BY <1>3, <1>4, <3>1 DEF DeviceObject, CallRecord
    <3>. QED
      BY <1>1, <1>2, <1>3, <2>3, <2>8, <3>2 DEF Usable, Returning
  <2>10. \A k \in CallIds : k # c => hist'.overtaken[k] = hist.overtaken[k]
    BY <2>7, CallsFacts
  <2>11. Identified'
    BY <1>5, <2>4 DEF Knowledge, Identified
  <2>12. StateKnown'
    <3>. SUFFICES ASSUME dev'.up, Still(0)' PROVE StateKnown'
      BY DEF StateKnown
    <3>1. dev.up /\ Still(0) /\ StateKnown
      BY <1>9, <2>4 DEF Knowledge
    <3>2. ASSUME "state" \in Queries, dev'.loaded["state"], hist'.tainted["state"] = {}
          PROVE  dev'.cache["state"] = hw'.state
      <4>1. CASE q = "state"
        BY <1>4, <2>1, <2>2, <2>3, <2>5, <2>7, <2>8, <2>9, <3>1, <3>2, <4>1 DEF StateKnown
      <4>2. CASE q # "state"
        BY <1>4, <2>5, <2>7, <3>1, <3>2, <4>2 DEF StateKnown
      <4>. QED
        BY <4>1, <4>2
    <3>3. ASSUME NEW k \in CallIds, Usable(k)', dev'.call[k].kind = "state",
                 dev'.call[k].ret # "bad", hist'.overtaken[k] = {}
          PROVE  dev'.call[k].ret = hw'.state
      <4>1. k # c /\ Usable(k)
        BY <1>10, <1>12, <3>3
      <4>2. hist.overtaken[k] = {}
        BY <2>10, <3>3, <4>1
      <4>. QED
        BY <1>4, <1>5, <3>1, <3>3, <4>1, <4>2 DEF StateKnown
    <3>. QED
      BY <3>2, <3>3 DEF StateKnown
  <2>13. Described'
    <3>. SUFFICES ASSUME dev'.up PROVE Described'
      BY DEF Described
    <3>1. Described /\ dev.up /\ Description' = Description /\ Descriptions \subseteq Queries
      BY <1>4, <2>4 DEF Knowledge, Description, Descriptions
    <3>2. ASSUME NEW p \in Descriptions, dev'.loaded[p], "link" \notin hist'.tainted[p]
          PROVE  dev'.cache[p] = hw'.id /\ ~hw'.bare
      <4>1. CASE p # q
        BY <1>4, <2>5, <2>7, <3>1, <3>2, <4>1 DEF Described
      <4>2. CASE p = q
        <5>1. "link" \notin hist.overtaken[c]
          BY <2>7, <3>2, <4>2
        <5>2. v = Description
          BY <2>1, <2>2, <2>3, <2>8, <2>9, <3>1, <4>2, <5>1 DEF Described
        <5>3. Ready(c)
          BY <2>3, <2>9, <5>1 DEF Ready
        <5>4. CASE v # "empty"
          BY <1>4, <2>5, <4>2, <5>2, <5>4 DEF Description
        <5>5. CASE v = "empty"
          <6>1. dev.loaded[q]
            BY <2>5, <3>2, <4>2, <5>5
          <6>2. "link" \notin hist.tainted[q]
            BY <1>1, <1>2, <1>3, <2>1, <2>8, <3>1, <4>2, <5>3, <6>1 DEF Described
          <6>3. ~hw.bare
            BY <3>1, <4>2, <6>1, <6>2 DEF Described
          <6>. QED
            BY <1>4, <2>5, <4>2, <5>2, <6>3 DEF Description
        <5>. QED
          BY <5>4, <5>5
      <4>. QED
        BY <4>1, <4>2
    <3>3. ASSUME NEW k \in CallIds, Usable(k)', dev'.call[k].kind \in Descriptions,
                 "link" \notin hist'.overtaken[k]
          PROVE  dev'.call[k].ret \in {"bad", Description'}
      <4>1. k # c /\ Usable(k)
        BY <1>10, <1>12, <3>3
      <4>. QED
        BY <1>5, <2>10, <3>1, <3>3, <4>1 DEF Described
    <3>4. \A i \in 1..Len(waits') : waits'[i] \in CallIds =>
            (Ready(waits[i])' => Ready(waits[i])) /\ (Late(waits[i])' => Late(waits[i]))
      BY <1>13, <2>7, <2>10
    <3>5. ASSUME NEW p \in Descriptions, NEW i \in 1..Len(waits'),
                 dev'.loaded[p], "link" \in hist'.tainted[p],
                 waits'[i] \in CallIds, dev'.call[waits'[i]].kind = p
          PROVE  ~Ready(waits[i])'
      <4>0. i \in 1..(n - 1) /\ i \in 1..Len(waits) /\ waits'[i] = waits[i]
        BY <1>3
      <4>1. CASE p # q
        <5>1. dev.loaded[p] /\ "link" \in hist.tainted[p]
          BY <2>5, <2>7, <3>1, <3>5, <4>1
        <5>2. ~Ready(waits[i])
          BY <1>5, <3>1, <3>5, <4>0, <5>1 DEF Described
        <5>. QED
          BY <3>4, <3>5, <5>2
      <4>2. CASE p = q
        <5>1. Late(c)
          BY <2>7, <2>9, <3>5, <4>2 DEF Late
        <5>2. n \in 1..Len(waits) /\ i < n /\ waits[n] \in CallIds /\ Late(waits[n])
          BY <1>1, <1>2, <1>3, <2>8, <4>0, <5>1
        <5>3. ~Ready(waits[i])
          BY <3>1, <3>5, <4>0, <5>2 DEF Described
        <5>. QED
          BY <3>4, <3>5, <5>3
      <4>. QED
        BY <4>1, <4>2
    <3>6. ASSUME NEW i \in 1..Len(waits'), NEW j \in 1..Len(waits'),
                 i < j, waits'[i] \in CallIds, waits'[j] \in CallIds, Late(waits[j])'
          PROVE  ~Ready(waits[i])'
      <4>1. Late(waits[j])
        BY <3>4, <3>6
      <4>2. ~Ready(waits[i])
        BY <1>3, <3>1, <3>6, <4>1 DEF Described
      <4>. QED
        BY <3>4, <3>6, <4>2
    <3>. QED
      BY <3>2, <3>3, <3>5, <3>6 DEF Described
  <2>14. Forgotten'
    <3>1. ASSUME NEW k \in CallIds, dev'.call[k].st # "DONE"
          PROVE  hist'.overtaken[k] = {}
      BY <1>5, <2>7, <2>10, <3>1 DEF Knowledge, Forgotten
    <3>. SUFFICES ASSUME ~dev'.connected PROVE Forgotten'
      BY <3>1 DEF Forgotten
    <3>2. ~dev.connected /\ Forgotten
      BY <1>5 DEF Knowledge
    <3>3. ASSUME NEW p \in Queries, dev'.loaded[p] PROVE "link" \in hist'.tainted[p]
      <4>1. CASE p = q
        BY <2>7, <2>8, <2>9, <3>2, <4>1 DEF Forgotten
      <4>2. CASE p # q
        BY <2>5, <2>7, <3>2, <3>3, <4>2 DEF Forgotten
      <4>. QED
        BY <4>1, <4>2
    <3>4. ASSUME NEW k \in CallIds, Usable(k)' PROVE "link" \in hist'.overtaken[k]
      <4>1. k # c /\ Usable(k)
        BY <1>10, <1>12, <3>4
      <4>. QED
        BY <2>10, <3>2, <4>1 DEF Forgotten
    <3>5. \A i \in Replies' : wire'[i].c \notin Pending(dev)'
      BY <1>4, <1>5, <3>2 DEF Forgotten, Replies, Pending
    <3>. QED
      BY <3>1, <3>3, <3>4, <3>5 DEF Forgotten
  <2>. QED
    BY <1>6, <1>7, <1>8, <2>11, <2>12, <2>13, <2>14 DEF Knowledge
<1>18. CASE dev' = FinishQuery(dev, c) /\ hist' = Keep(hist, c, dev) /\ dev' = dev
  <2>1. hist' = hist
    BY <1>18 DEF Keep
  <2>. QED
    BY <1>16, <1>18, <2>1
<1>. QED
  BY <1>4, <1>15, <1>16, <1>17, <1>18
-----------------------------------------------------------------------------
LEMMA InitKnowledge == Init => Knowledge
<1>. SUFFICES ASSUME Init PROVE Knowledge
  OBVIOUS
<1>1. /\ ~dev.up /\ ~dev.connected /\ dev.id = NoId /\ dev.callId = 0 /\ dev.sent = {}
      /\ \A q \in Queries : ~dev.loaded[q]
      /\ \A c \in Calls : /\ dev.call[c].st = "WAIT" /\ ~dev.call[c].ok
                          /\ dev.call[c].kind =
                               IF c = IdentifyCall THEN "identify" ELSE "unused"
      /\ \A c \in Calls : hist.overtaken[c] = {}
  BY DEF Init, NewCall, NothingLoaded
<1>2. (\A i : i \notin 1..Len(wire)) /\ (\A i : i \notin 1..Len(waits))
  BY DEF Init
<1>3. (\A i : i \notin Replies) /\ (\A c \in CallIds : ~Usable(c))
  BY <1>1, <1>2, CallsFacts DEF Replies, Usable
<1>4. Linked /\ WaitOnce /\ WireTells /\ WireDescribes /\ StateKnown /\ Described
  BY <1>1, <1>2, <1>3 DEF Linked, WaitOnce, WireTells, WireDescribes, StateKnown, Described
<1>5. Carried
  BY <1>1, <1>3, CallsFacts DEF Carried
<1>6. Forgotten
  BY <1>1, <1>3, CallsFacts DEF Forgotten
<1>7. Identified
  BY <1>1, CallsFacts DEF Identified
<1>. QED
  BY <1>4, <1>5, <1>6, <1>7 DEF Knowledge

LEMMA NextKnowledge == TypeOK /\ Commands /\ Knowledge /\ [Next]_vars => Knowledge'
<1>. SUFFICES ASSUME TypeOK, Commands, Knowledge, [Next]_vars PROVE Knowledge'
  OBVIOUS
<1>1. /\ Queries \subseteq Kinds \ {"unused", "identify"}
      /\ UserKinds \subseteq Kinds \ {"unused", "identify"}
      /\ UserKinds \cap Descriptions = {}
  BY ConstantsAssumption DEF Kinds, UserKinds, Descriptions
<1>2. CASE Identify
  BY <1>2, IdentifyKeeps
<1>3. ASSUME NEW q \in Queries, Query(q) PROVE Knowledge'
  BY <1>1, <1>3, ExecKeeps DEF Query
<1>4. ASSUME NEW k \in UserKinds, Exec(k) PROVE Knowledge'
  BY <1>1, <1>4, ExecKeeps DEF Exec
<1>5. CASE Return
  BY <1>5, ReturnKeeps
<1>6. CASE AttachBackend
  BY <1>6, AttachKeeps
<1>7. CASE BackendConnected
  BY <1>7, BackendConnectedKeeps
<1>8. CASE LinkCloses \/ BackendDisconnected \/ BackendDestroyed \/ BackendTaken
  BY <1>8, LossKeeps
<1>9. CASE Deliver
  BY <1>9, DeliverKeeps
<1>10. CASE \/ \E c \in Calls : CallTimeout(c)
            \/ SyncTimeout
            \/ \E c \in CallIds : OnCommandDone(c)
  BY <1>10, TimersKeep
<1>11. CASE \/ DeviceSyncs
            \/ \E c \in Calls : DeviceAnswers(c)
            \/ \E v \in Values : DeviceChanges(v)
            \/ DeviceResets
  BY <1>11, DeviceKeeps
<1>13. CASE ConnectedReturns
  BY <1>13, ConnectedReturnsKeeps
<1>12. CASE UNCHANGED vars
  <2>1. Replies' = Replies /\ Pending(dev)' = Pending(dev) /\ Description' = Description
    BY <1>12 DEF vars, Replies, Pending, Description
  <2>2. Linked' /\ Carried' /\ WaitOnce' /\ Identified'
    BY <1>12, <2>1 DEF Knowledge, Linked, Carried, WaitOnce, Identified, vars
  <2>3. \A i : (Still(i)' <=> Still(i)) /\ (TellsState(wire[i])' <=> TellsState(wire[i]))
    BY <1>12 DEF Still, Restless, TellsState, vars
  <2>4. \A c : Usable(c)' <=> Usable(c)
    BY <1>12 DEF Usable, Returning, vars
  <2>5. \A i : (Ready(waits[i])' <=> Ready(waits[i])) /\ (Late(waits[i])' <=> Late(waits[i]))
    BY <1>12, <2>1 DEF Ready, Asked, Late, vars
  <2>6. WireTells' /\ StateKnown' /\ WireDescribes' /\ Forgotten'
    BY <1>12, <2>1, <2>3, <2>4
       DEF Knowledge, WireTells, StateKnown, WireDescribes, Forgotten, vars
  <2>7. Described'
    BY <1>12, <2>1, <2>4, <2>5 DEF Knowledge, Described, vars
  <2>. QED
    BY <2>2, <2>6, <2>7 DEF Knowledge
<1>. QED
  BY <1>2, <1>3, <1>4, <1>5, <1>6, <1>7, <1>8, <1>9, <1>10, <1>11, <1>12, <1>13 DEF Next

LEMMA KnowledgeCorrect == Spec => [](TypeOK /\ Commands /\ Knowledge)
BY InitType, NextType, InitCommands, NextCommands, InitKnowledge, NextKnowledge, PTL
   DEF Spec

(* The cached state is the device's, up to the changes under way, unless   *)
(* the answer it came from was overtaken before getState used it.          *)
THEOREM StateCorrect == Spec => []StateIsCurrent
<1>1. TypeOK /\ Knowledge => StateIsCurrent
  <2>. SUFFICES ASSUME TypeOK, Knowledge,
                       "state" \in Queries, dev.up, dev.loaded["state"],
                       hist.tainted["state"] = {},
                       \A i \in 1..Len(wire) : wire[i].t # "reset"
                PROVE  LET changes == {i \in 1..Len(wire) : wire[i].t = "statechanged"}
                           last == {i \in changes : \A j \in changes : j <= i}
                       IN  IF changes = {} THEN hw.state = dev.cache["state"]
                           ELSE \A i \in last : hw.state = wire[i].v
    BY DEF StateIsCurrent
  <2>1. ASSUME {i \in 1..Len(wire) : wire[i].t = "statechanged"} = {}
        PROVE  hw.state = dev.cache["state"]
    <3>1. Still(0)
      BY <2>1 DEF Still, Restless
    <3>. QED
      BY <3>1 DEF Knowledge, StateKnown
  <2>2. ASSUME NEW i \in 1..Len(wire), wire[i].t = "statechanged",
               \A j \in 1..Len(wire) : wire[j].t = "statechanged" => j <= i
        PROVE  hw.state = wire[i].v
    <3>1. Len(wire) \in Nat
      BY LenProperties DEF TypeOK
    <3>2. Still(i)
      BY <2>2, <3>1 DEF Still, Restless
    <3>. QED
      BY <2>2, <3>2 DEF Knowledge, WireTells, TellsState
  <2>. QED
    BY <2>1, <2>2
<1>. QED
  BY <1>1, KnowledgeCorrect, PTL

(* A cached description was given by the device that is connected, unless  *)
(* the link changed before the answer was used.                            *)
THEOREM DescriptionsCorrect == Spec => []DescriptionsAreOfThisDevice
<1>1. Knowledge => DescriptionsAreOfThisDevice
  BY DEF Knowledge, Described, DescriptionsAreOfThisDevice
<1>. QED
  BY <1>1, KnowledgeCorrect, PTL

(* identify() never finds that its device has changed its identifier.      *)
THEOREM MismatchCorrect == Spec => []MismatchIsUnreachable
<1>1. Knowledge => MismatchIsUnreachable
  BY DEF Knowledge, Identified, MismatchIsUnreachable
<1>. QED
  BY <1>1, KnowledgeCorrect, PTL
-----------------------------------------------------------------------------
(***************************************************************************)
(* RealDevice implements CommandService.  A quiet step fails commands or   *)
(* loses answers; of the others, each that a command takes part in is a    *)
(* step of the service.                                                    *)
(***************************************************************************)
LEMMA OutcomeIs ==
  ASSUME NEW r, r.kind = "unused" => r.st = "WAIT"
  PROVE  /\ r.kind = "unused" => Outcome(r) = "none"
         /\ r.kind # "unused" /\ r.st = "WAIT" => Outcome(r) = "refused"
         /\ r.st = "EXEC" => Outcome(r) = "pending"
         /\ r.st = "DONE" /\ r.ok => Outcome(r) = "ok"
         /\ r.st = "DONE" /\ ~r.ok => Outcome(r) = "failed"
BY DEF Outcome

LEMMA AlikeServed ==
  ASSUME NEW r, NEW s, Alike(r, s)
  PROVE  Outcome(s) = Outcome(r) /\ Result(s) = Result(r)
BY DEF Alike, Outcome, Result

LEMMA FailsServed ==
  ASSUME NEW r, NEW s, Fails(r, s), r.kind # "unused"
  PROVE  /\ Outcome(r) = "pending" /\ Outcome(s) = "failed"
         /\ Result(r) = "nothing" /\ Result(s) = "nothing"
<1>1. Outcome(r) = "pending" /\ Outcome(s) = "failed"
  BY OutcomeIs DEF Fails
<1>2. Result(r) = "nothing" /\ Result(s) = "nothing"
  BY DEF Fails, Result
<1>. QED
  BY <1>1, <1>2

(* Every command that was run has a kind. *)
LEMMA UsedIs ==
  ASSUME Carried, NEW c \in CallIds
  PROVE  dev.call[c].kind = "unused" => dev.call[c].st = "WAIT"
BY DEF Carried

LEMMA QuietServes ==
  ASSUME TypeOK, TypeOK', Carried, Carried', Quiet
  PROVE  Service!Next
<1> DEFINE S == {c \in CallIds : Fails(dev.call[c], dev'.call[c])}
<1>0. dev.connected \in BOOLEAN /\ dev'.connected \in BOOLEAN
  BY DEF TypeOK, DeviceObject
<1>1. ASSUME NEW c \in CallIds
      PROVE  /\ c \in S => /\ Outcome(dev.call[c]) = "pending"
                           /\ Outcome(dev'.call[c]) = "failed"
             /\ c \notin S => Outcome(dev'.call[c]) = Outcome(dev.call[c])
             /\ Result(dev'.call[c]) = Result(dev.call[c])
  <2>1. CASE Fails(dev.call[c], dev'.call[c])
    <3>1. dev.call[c].kind # "unused"
      BY <2>1, UsedIs DEF Fails
    <3>. QED
      BY <2>1, <3>1, FailsServed
  <2>2. CASE ~Fails(dev.call[c], dev'.call[c])
    <3>1. Alike(dev.call[c], dev'.call[c])
      BY <2>2 DEF Quiet
    <3>. QED
      BY <2>2, <3>1, AlikeServed
  <2>. QED
    BY <2>1, <2>2
<1>2. Idle(dev') => \A c \in CallIds : dev.call[c].st = "EXEC" => c \in S
  BY DEF Quiet, Idle, Alike
<1>3. AllAlike(dev, dev') => \A c \in CallIds : c \notin S
  BY DEF AllAlike, Alike, Fails
<1>4. ASSUME NEW c \in CallIds, Outcome(dev.call[c]) = "pending"
      PROVE  dev.call[c].st = "EXEC"
  <2>1. dev.call[c].st \in {"WAIT", "EXEC", "DONE"} /\ dev.call[c].ok \in BOOLEAN
    BY CallsFacts DEF TypeOK, DeviceObject, CallRecord
  <2>2. dev.call[c].kind = "unused" => dev.call[c].st = "WAIT"
    BY UsedIs
  <2>. QED
    BY <1>4, <2>1, <2>2, OutcomeIs
<1>. HIDE DEF S
<1>5. Outcomes' = Service!With(S, "failed") /\ Results' = Results
  BY <1>1 DEF Outcomes, Results, Service!With
<1>6. S \subseteq Service!PendingCommands
  BY <1>1 DEF S, Service!PendingCommands, Outcomes
<1>7. Idle(dev') => S = Service!PendingCommands
  <2>1. Service!PendingCommands \subseteq {c \in CallIds : dev.call[c].st = "EXEC"}
    BY <1>4 DEF Service!PendingCommands, Outcomes
  <2>. QED
    BY <1>2, <1>6, <2>1
<1>8. AllAlike(dev, dev') => S = {}
  BY <1>3 DEF S
<1>9. Answers' \subseteq Answers
  BY DEF Quiet
<1>10. CASE dev'.connected <=> dev.connected
  <2>0. dev'.connected = dev.connected
    BY <1>0, <1>10
  <2>1. CASE S = {}
    <3>1. Outcomes' = Outcomes
      BY <1>5, <2>1 DEF Outcomes, Service!With
    <3>2. Service!Lose
      BY <1>5, <1>9, <2>0, <3>1 DEF Service!Lose
    <3>. QED
      BY <3>2 DEF Service!Next
  <2>2. CASE S # {}
    <3>1. Service!Fail(S)
      BY <1>5, <1>6, <1>9, <2>0, <2>2 DEF Service!Fail
    <3>2. S \in SUBSET CallIds
      BY DEF S
    <3>. QED
      BY <3>1, <3>2 DEF Service!Next
  <2>. QED
    BY <2>1, <2>2
<1>11. CASE dev.connected /\ ~dev'.connected /\ (Idle(dev') \/ AllAlike(dev, dev'))
  <2>1. S \in {{}, Service!PendingCommands} /\ dev'.connected = FALSE
    BY <1>0, <1>7, <1>8, <1>11
  <2>2. Service!Disconnect
    BY <1>5, <1>9, <1>11, <2>1 DEF Service!Disconnect
  <2>. QED
    BY <2>2 DEF Service!Next
<1>12. CASE dev'.connected /\ AllAlike(dev, dev') /\ Answers' = {}
  <2>1. S = {} /\ dev'.connected = TRUE
    BY <1>0, <1>8, <1>12
  <2>2. Outcomes' = Outcomes
    BY <1>5, <2>1 DEF Outcomes, Service!With
  <2>3. Service!Connect
    BY <1>5, <1>12, <2>1, <2>2 DEF Service!Connect
  <2>. QED
    BY <2>3 DEF Service!Next
<1>. QED
  BY <1>10, <1>11, <1>12 DEF Quiet

LEMMA SameQuiet ==
  ASSUME \A c \in CallIds : dev'.call[c] = dev.call[c], Answers' \subseteq Answers,
         dev'.connected <=> dev.connected
  PROVE  Quiet
BY DEF Quiet, Alike

LEMMA SameAnswers == ASSUME wire' = wire PROVE Answers' = Answers
BY DEF Answers, Replies

LEMMA ExecServes ==
  ASSUME TypeOK, Carried, NEW k \in Kinds \ {"unused", "identify"},
         dev.callId < MaxCalls, dev' = ExecCommand(dev, k), wire' = wire
  PROVE  Service!Next
<1> DEFINE c == dev.callId + 1
           written == dev.connected /\ CanWrite(dev)
           called == IF dev.connected THEN Run(NewCall(k), written) ELSE NewCall(k)
<1>0. /\ dev \in DeviceObject /\ dev.call \in [Calls -> CallRecord] /\ dev.callId \in Nat
      /\ dev.connected \in BOOLEAN
  BY DEF TypeOK, DeviceObject
<1>1. c \in CallIds /\ c \in Calls /\ c \notin 1..dev.callId
  BY <1>0, ConstantsAssumption, CallsFacts DEF CallIds
<1>2. dev'.call = [dev.call EXCEPT ![c] = called] /\ dev'.connected = dev.connected
  BY <1>0 DEF ExecCommand, DeviceObject
<1>3. /\ called.kind = k /\ ~called.ok
      /\ dev.connected => called.st \in {"EXEC", "DONE"}
      /\ ~dev.connected => called.st = "WAIT"
  BY DEF Run, NewCall
<1>. HIDE DEF c, written, called
<1>4. dev.call[c].kind = "unused" /\ dev.call[c].st = "WAIT"
  BY <1>1 DEF Carried
<1>5. /\ Outcome(dev.call[c]) = "none" /\ Result(dev.call[c]) = "nothing"
      /\ Result(called) = "nothing"
      /\ dev.connected => Outcome(called) \in {"pending", "failed"}
      /\ ~dev.connected => Outcome(called) = "refused"
  BY <1>3, <1>4, OutcomeIs DEF Result
<1>6. dev'.call[c] = called /\ \A i \in CallIds : i # c => dev'.call[i] = dev.call[i]
  BY <1>0, <1>1, <1>2, CallsFacts
<1>7. Results' = Results
  BY <1>5, <1>6 DEF Results
<1>8. Outcomes' = Service!With({c}, Outcome(called))
  BY <1>6 DEF Outcomes, Service!With
<1>9. Service!Execute(c)
  <2>1. Outcomes[c] = "none"
    BY <1>1, <1>5 DEF Outcomes
  <2>2. Outcome(called) \in IF dev.connected THEN {"pending", "failed"} ELSE {"refused"}
    BY <1>5
  <2>. QED
    BY <1>2, <1>7, <1>8, <2>1, <2>2, SameAnswers DEF Service!Execute
<1>. QED
  BY <1>1, <1>9 DEF Service!Next

LEMMA AnswerServes ==
  ASSUME TypeOK, TypeOK', Commands, Knowledge, Knowledge', NEW d \in Calls, DeviceAnswers(d)
  PROVE  Service!Next
<1>0. /\ dev \in DeviceObject /\ InProgress(dev) /\ hw \in Hardware
      /\ wire \in Seq(Message) /\ Len(wire) \in Nat
  BY LenProperties DEF TypeOK, Commands
<1>1. PICK t, v : /\ Send(t, d, v)
                  /\ \/ t = "deviceinfo" \/ t = "err"
                     \/ t = "ok" /\ d \in CallIds /\ v \in Reply(dev.call[d].kind)
  BY CallsFacts DEF DeviceAnswers
<1>2. dev'.call = dev.call /\ dev'.connected = dev.connected /\ d \in dev.sent /\ dev.up
  BY <1>0, <1>1 DEF DeviceAnswers, DeviceObject, Send
<1>3. PICK m : m = [t |-> t, c |-> d, v |-> v]
  OBVIOUS
<1>4. m.t = t /\ m.c = d /\ m.v = v /\ wire' = Append(wire, m)
  BY <1>1, <1>3 DEF Send
<1>5. PICK n \in Nat : n = Len(wire)
  BY <1>0
<1>6. Len(wire') = n + 1 /\ wire'[n + 1] = m /\ \A i \in 1..n : wire'[i] = wire[i]
  BY <1>0, <1>4, <1>5, AppendProperties
<1>7. CASE t # "ok"
  <2>1. Replies' = Replies
    BY <1>4, <1>5, <1>6, <1>7 DEF Replies
  <2>2. Answers' = Answers
    <3>1. \A i \in Replies : wire'[i] = wire[i]
      BY <1>5, <1>6 DEF Replies
    <3>. QED
      BY <2>1, <3>1 DEF Answers
  <2>. QED
    BY <1>2, <2>2, SameQuiet, QuietServes DEF Knowledge
<1>8. CASE t = "ok"
  <2>1. d \in CallIds /\ v \in Content
    <3>1. Reply(dev.call[d].kind) \subseteq Content
      BY <1>0 DEF Reply, Content, Hardware
    <3>. QED
      BY <1>1, <1>8, <3>1
  <2>2. PICK a : a = [command |-> d, value |-> v]
    OBVIOUS
  <2>3. a.command = d /\ a \in Service!Answer
    BY <2>1, <2>2 DEF Service!Answer
  <2>4. Replies' = Replies \cup {n + 1}
    BY <1>4, <1>5, <1>6, <1>8, <2>1 DEF Replies
  <2>5. Answers' = Answers \cup {a}
    <3>1. \A i \in Replies : wire'[i] = wire[i]
      BY <1>5, <1>6 DEF Replies
    <3>. QED
      BY <1>4, <1>6, <2>2, <2>4, <3>1 DEF Answers
  <2>6. \A b \in Answers : b.command # d
    BY <1>2 DEF Answers, Knowledge, Carried
  <2>7. Outcome(dev.call[d]) \in {"pending", "failed"}
    <3>1. dev.call[d].st # "WAIT" /\ (dev.call[d].st = "DONE" => ~dev.call[d].ok)
      BY <1>2, <2>1 DEF Knowledge, Carried
    <3>2. dev.call[d].st \in {"WAIT", "EXEC", "DONE"}
      BY <1>0 DEF DeviceObject, CallRecord
    <3>3. dev.call[d].kind # "unused"
      BY <2>1, <3>1, UsedIs DEF Knowledge
    <3>. QED
      BY <3>1, <3>2, <3>3, OutcomeIs
  <2>8. Outcomes' = Outcomes /\ Results' = Results
    BY <1>2 DEF Outcomes, Results
  <2>9. dev.connected
    BY <1>2 DEF Knowledge, Linked
  <2>10. Service!DeviceAnswer(a)
    BY <1>2, <2>1, <2>3, <2>5, <2>6, <2>7, <2>8, <2>9
       DEF Service!DeviceAnswer, Outcomes
  <2>. QED
    BY <2>3, <2>10 DEF Service!Next
<1>. QED
  BY <1>7, <1>8

LEMMA SucceedServes ==
  ASSUME TypeOK, Commands, Knowledge, NEW c \in CallIds, dev.call[c].st = "EXEC",
         wire # <<>>, wire' = Tail(wire), wire[1].t = "ok", wire[1].c = c,
         dev' = Answered(dev, c, TRUE, wire[1].v)
  PROVE  Service!Next
<1>0. /\ dev \in DeviceObject /\ dev.call \in [Calls -> CallRecord] /\ c \in Calls
      /\ wire \in Seq(Message) /\ Len(wire) \in Nat /\ 1 \in 1..Len(wire)
      /\ wire[1] \in Message /\ Shortened(1)
  BY CallsFacts, ShortenedIs, LenProperties, EmptySeq, ElementOfSeq
     DEF TypeOK, DeviceObject
<1>1. PICK v \in Content : v = wire[1].v
  BY <1>0 DEF Message
<1>2. PICK a : a = [command |-> c, value |-> v]
  OBVIOUS
<1>3. a.command = c /\ a.value = v /\ a \in Service!Answer
  BY <1>2 DEF Service!Answer
<1>4. /\ dev'.call = [dev.call EXCEPT ![c] = Finish(@, TRUE, v)]
      /\ dev'.connected = dev.connected
  BY <1>0, <1>1 DEF Answered, DeviceObject
<1>5. /\ \A k \in CallIds : k # c => dev'.call[k] = dev.call[k]
      /\ dev'.call[c] = Finish(dev.call[c], TRUE, v)
  BY <1>0, <1>4, CallsFacts
<1>6. /\ dev'.call[c].st = "DONE" /\ dev'.call[c].ok /\ dev'.call[c].ret = v
      /\ dev'.call[c].kind = dev.call[c].kind
  BY <1>0, <1>5 DEF Finish, CallRecord
<1>7. dev.call[c].kind # "unused"
  BY UsedIs DEF Knowledge
<1>8. Outcome(dev.call[c]) = "pending" /\ Outcome(dev'.call[c]) = "ok"
      /\ Result(dev'.call[c]) = v
  BY <1>6, <1>7, OutcomeIs DEF Result
<1>9. Outcomes' = Service!With({c}, "ok")
  BY <1>5, <1>8 DEF Outcomes, Service!With
<1>10. Results' = [Results EXCEPT ![c] = v]
  BY <1>5, <1>8 DEF Results
<1>11. 1 \in Replies /\ a \in Answers
  BY <1>0, <1>1, <1>2 DEF Replies, Answers
<1>12. \A i \in Replies : wire[i].c = c => i = 1
  BY <1>11 DEF Knowledge, Carried
<1>13. Answers' = Answers \ {a}
  <2>1. ASSUME NEW i \in Replies'
        PROVE  [command |-> wire'[i].c, value |-> wire'[i].v] \in Answers \ {a}
    <3>1. i + 1 \in Replies /\ wire'[i] = wire[i + 1] /\ i \in Nat /\ i # 0
      BY <1>0, RepliesLeft DEF Replies
    <3>2. wire[i + 1].c # c
      BY <1>12, <3>1
    <3>3. PICK b : b = [command |-> wire[i + 1].c, value |-> wire[i + 1].v]
      OBVIOUS
    <3>4. b \in Answers /\ b.command # a.command
      BY <1>3, <3>1, <3>2, <3>3 DEF Answers
    <3>. QED
      BY <3>1, <3>3, <3>4
  <2>2. ASSUME NEW i \in Replies, [command |-> wire[i].c, value |-> wire[i].v] # a
        PROVE  \E j \in Replies' : wire'[j] = wire[i]
    <3>1. i # 1
      BY <1>1, <1>2, <2>2
    <3>2. i - 1 \in 1..Len(wire') /\ wire'[i - 1] = wire[i]
      BY <1>0, <3>1 DEF Shortened, Replies
    <3>. QED
      BY <3>2 DEF Replies
  <2>3. Answers' \subseteq Answers \ {a}
    BY <2>1 DEF Answers
  <2>4. Answers \ {a} \subseteq Answers'
    BY <2>2 DEF Answers
  <2>. QED
    BY <2>3, <2>4
<1>14. Service!Succeed(a)
  BY <1>3, <1>4, <1>8, <1>9, <1>10, <1>11, <1>13 DEF Service!Succeed, Outcomes
<1>. QED
  BY <1>3, <1>14 DEF Service!Next

LEMMA DeliverServes ==
  ASSUME TypeOK, TypeOK', Commands, Knowledge, Knowledge', Deliver
  PROVE  Service!Next
<1> DEFINE m == wire[1]
<1>0. /\ dev \in DeviceObject /\ InProgress(dev) /\ dev.call \in [Calls -> CallRecord]
      /\ wire \in Seq(Message) /\ wire # <<>> /\ wire' = Tail(wire)
      /\ dev.exec \subseteq CallIds /\ CallIds \subseteq Calls /\ m \in Message
      /\ dev' = OnMessage(dev, m)
  BY CallsFacts, EmptySeq, LenProperties, ElementOfSeq
     DEF TypeOK, Commands, Deliver, DeviceObject
<1>1. m.c \in Calls /\ m.v \in Content /\ IdentifyCall \in Calls
  BY <1>0, CallsFacts DEF Message
<1>2. Answers' \subseteq Answers
  BY <1>0, ShortenedIs, AnswersLeft
<1>3. dev'.connected = dev.connected
  BY <1>0, OnMessageEnds
<1>. HIDE DEF m
<1>4. ASSUME \/ \A c \in CallIds : dev'.call[c] = dev.call[c]
             \/ Quits(dev, dev')
      PROVE  Service!Next
  <2>1. Quiet
    BY <1>2, <1>3, <1>4, SameQuiet DEF Quits, Quiet
  <2>. QED
    BY <2>1, QuietServes DEF Knowledge
<1>5. CASE m.t \in {"syncr", "statechanged"}
  <2>1. dev'.call = dev.call
    BY <1>0, <1>5 DEF OnMessage, DeviceObject
  <2>. QED
    BY <1>4, <2>1
<1>6. CASE m.t = "deviceinfo"
  <2>1. dev' = Answered(dev, IdentifyCall, TRUE, m.v)
    BY <1>0, <1>6 DEF OnMessage
  <2>2. dev'.call = [dev.call EXCEPT ![IdentifyCall] = Finish(@, TRUE, m.v)]
    BY <1>0, <2>1 DEF Answered, DeviceObject
  <2>3. \A c \in CallIds : dev'.call[c] = dev.call[c]
    BY <1>0, <2>2, CallsFacts
  <2>. QED
    BY <1>4, <2>3
<1>7. CASE m.t \in {"ok", "err"} /\ m.c \notin dev.exec
  <2>1. dev' = dev
    BY <1>0, <1>7 DEF OnMessage
  <2>. QED
    BY <1>4, <2>1
<1>8. CASE m.t = "err" /\ m.c \in dev.exec
  <2>1. dev' = Answered(dev, m.c, FALSE, m.v)
    BY <1>0, <1>8 DEF OnMessage
  <2>. QED
    BY <1>0, <1>1, <1>4, <2>1, FailedQuits
<1>9. CASE m.t = "ok" /\ m.c \in dev.exec
  <2>1. dev' = Answered(dev, m.c, TRUE, m.v) /\ m.c \in CallIds
    BY <1>0, <1>9 DEF OnMessage
  <2>2. CASE dev.call[m.c].st = "EXEC"
    BY <1>0, <1>9, <2>1, <2>2, SucceedServes DEF m
  <2>3. CASE dev.call[m.c].st # "EXEC"
    <3>1. dev'.call = [dev.call EXCEPT ![m.c] = Finish(@, TRUE, m.v)]
      BY <1>0, <2>1 DEF Answered, DeviceObject
    <3>2. Finish(dev.call[m.c], TRUE, m.v) = dev.call[m.c]
      BY <2>3 DEF Finish
    <3>3. \A c \in CallIds : dev'.call[c] = dev.call[c]
      BY <1>0, <3>1, <3>2
    <3>. QED
      BY <1>4, <3>3
  <2>. QED
    BY <2>2, <2>3
<1>10. CASE m.t = "reset"
  <2>1. dev' = OnDeviceReset(dev)
    BY <1>0, <1>10 DEF OnMessage
  <2>2. Quits(dev, dev')
    BY <1>0, <2>1, ResetQuits
  <2>. QED
    BY <1>4, <2>2
<1>. QED
  BY <1>0, <1>5, <1>6, <1>7, <1>8, <1>9, <1>10 DEF Message

LEMMA InitServes == Init => Service!Init
<1>. SUFFICES ASSUME Init PROVE Service!Init
  OBVIOUS
<1>1. \A c \in CallIds : Outcome(dev.call[c]) = "none" /\ Result(dev.call[c]) = "nothing"
  <2>1. \A c \in CallIds : dev.call[c].kind = "unused" /\ dev.call[c].st = "WAIT"
    BY CallsFacts DEF Init, NewCall
  <2>. QED
    BY <2>1, OutcomeIs DEF Result
<1>2. \A i : i \notin 1..Len(wire)
  BY DEF Init
<1>3. Answers = {}
  BY <1>2 DEF Answers, Replies
<1>4. dev.connected = FALSE
  BY DEF Init
<1>. QED
  BY <1>1, <1>3, <1>4 DEF Service!Init, Outcomes, Results

LEMMA NextServes ==
  /\ TypeOK /\ Commands /\ Knowledge /\ [Next]_vars
  /\ TypeOK' /\ Knowledge'
  => [Service!Next]_(Service!vars)
<1>. SUFFICES ASSUME TypeOK, Commands, Knowledge, [Next]_vars, TypeOK', Knowledge'
              PROVE  [Service!Next]_(Service!vars)
  OBVIOUS
<1>0. Carried /\ Carried' /\ dev \in DeviceObject
  BY DEF Knowledge, TypeOK
<1>1. ASSUME Quiet PROVE Service!Next
  BY <1>0, <1>1, QuietServes
<1>2. ASSUME \A c \in CallIds : dev'.call[c] = dev.call[c], dev'.connected = dev.connected,
             Answers' \subseteq Answers
      PROVE  Service!Next
  BY <1>1, <1>2, SameQuiet
<1>3. /\ Queries \subseteq Kinds \ {"unused", "identify"}
      /\ UserKinds \subseteq Kinds \ {"unused", "identify"}
  BY ConstantsAssumption DEF Kinds, UserKinds
<1>4. CASE Identify
  <2>1. /\ dev'.call = [dev.call EXCEPT ![IdentifyCall] = Run(@, CanWrite(dev))]
        /\ dev'.connected = dev.connected /\ dev.call \in [Calls -> CallRecord]
    BY <1>0, <1>4 DEF Identify, StartIdentify, DeviceObject
  <2>2. \A c \in CallIds : dev'.call[c] = dev.call[c]
    BY <2>1, CallsFacts
  <2>. QED
    BY <1>2, <1>4, <2>1, <2>2, SameAnswers DEF Identify
<1>5. ASSUME NEW q \in Queries, Query(q) PROVE Service!Next
  BY <1>0, <1>3, <1>5, ExecServes DEF Query
<1>6. ASSUME NEW k \in UserKinds, Exec(k) PROVE Service!Next
  BY <1>0, <1>3, <1>6, ExecServes DEF Exec
<1>7. CASE Return
  <2>1. dev'.call = dev.call /\ dev'.connected = dev.connected
    BY <1>0, <1>7 DEF Return, FinishIdentify, FinishQuery, DeviceObject
  <2>. QED
    BY <1>2, <1>7, <2>1, SameAnswers DEF Return
<1>8. CASE AttachBackend
  BY <1>1, <1>8, AttachKeeps
<1>9. CASE BackendConnected
  BY <1>1, <1>9, BackendConnectedKeeps
<1>10. CASE LinkCloses \/ BackendDisconnected \/ BackendDestroyed \/ BackendTaken
  BY <1>1, <1>10, LossKeeps
<1>11. CASE Deliver
  BY <1>11, DeliverServes
<1>12. CASE \/ \E c \in Calls : CallTimeout(c)
            \/ SyncTimeout
            \/ \E c \in CallIds : OnCommandDone(c)
  BY <1>1, <1>12, TimersKeep
<1>13. ASSUME NEW c \in Calls, DeviceAnswers(c) PROVE Service!Next
  BY <1>13, AnswerServes
<1>14. CASE DeviceSyncs \/ (\E v \in Values : DeviceChanges(v)) \/ DeviceResets
  <2>1. dev'.call = dev.call /\ dev'.connected = dev.connected
    BY <1>0, <1>14 DEF DeviceSyncs, DeviceChanges, DeviceResets, DeviceObject
  <2>2. PICK m : wire' = Append(wire, m) /\ m.t # "ok"
    <3>1. PICK t, v : t # "ok" /\ Send(t, IdentifyCall, v)
      BY <1>14 DEF DeviceSyncs, DeviceChanges, DeviceResets
    <3>2. PICK m : m = [t |-> t, c |-> IdentifyCall, v |-> v]
      OBVIOUS
    <3>3. m.t = t
      BY <3>2
    <3>. QED
      BY <3>1, <3>2, <3>3 DEF Send
  <2>3. /\ Len(wire) \in Nat /\ Len(wire') = Len(wire) + 1 /\ wire'[Len(wire) + 1] = m
        /\ \A i \in 1..Len(wire) : wire'[i] = wire[i]
    BY <2>2, AppendProperties, LenProperties DEF TypeOK
  <2>4. \A i \in Replies' : i \in Replies /\ wire'[i] = wire[i]
    BY <2>2, <2>3 DEF Replies
  <2>5. Answers' \subseteq Answers
    BY <2>4 DEF Answers
  <2>. QED
    BY <1>2, <2>1, <2>5
<1>15. CASE UNCHANGED vars
  BY <1>2, <1>15, SameAnswers DEF vars
<1>16. CASE ConnectedReturns
  BY <1>1, <1>16, ConnectedReturnsKeeps
<1>. QED
  BY <1>4, <1>5, <1>6, <1>7, <1>8, <1>9, <1>10, <1>11, <1>12, <1>13, <1>14, <1>15,
     <1>16 DEF Next

(* RealDevice keeps what CommandService promises: a command is carried to  *)
(* the device at most once, succeeds only with the device's own answer to  *)
(* it on the link that carried it, and its outcome does not change.        *)
THEOREM ServiceCorrect == Spec => ImplementsCommandService
BY InitServes, NextServes, KnowledgeCorrect, PTL
   DEF Spec, ImplementsCommandService, Service!Spec
=============================================================================
