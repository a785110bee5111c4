------------------------------ MODULE RealDevice ------------------------------
(***************************************************************************)
(* One device as libwliotproxy-base sees it: a RealDevice object, the      *)
(* CommandCall objects it runs, the backend it is attached to and the      *)
(* device at the far end of that backend.                                  *)
(*                                                                         *)
(* Everything runs in one Qt thread.  A synchronous operation (identify,   *)
(* getState, ...) sends its request and then blocks in CommandCall::wait,  *)
(* which spins a NESTED event loop; any other event, and any other         *)
(* synchronous operation, may run inside that loop.  The blocked           *)
(* operations therefore form a stack, "waits": only the innermost one may  *)
(* return, and what it does after wait() it does on whatever state the     *)
(* nested events have left.                                                *)
(*                                                                         *)
(* onConnected emits connected() before it resets the object and starts    *)
(* the sync timer, and those who receive the signal wait like anyone else  *)
(* (ServerInstance::onDeviceIdentified asks for the sensors): onConnected  *)
(* goes on, "ConnectedReturns", when they are done.  Those of its calls    *)
(* that have not are the numbers in "greeting", outermost first; until the *)
(* receivers of the innermost wait or are done, no event is handled.       *)
(*                                                                         *)
(* The object's handlers call each other, so each is an operator from the  *)
(* object's state (the record "dev") to its next state, and an action      *)
(* applies the handlers its code calls, in their order.                    *)
(***************************************************************************)
EXTENDS Naturals, Sequences, FiniteSets

CONSTANTS
  Ids,            \* the identifiers devices may present
  NoId,           \* the null QUuid
  Values,         \* the values of a device's state
  Queries,        \* the cached descriptions that are asked for
  Ops,            \* what users do besides: identify, exec (no timer), timed
  LateDelivery,   \* may a closed backend still hand over data it had queued?
  SyncWaitIntervals, \* sync periods a silent device is granted (4 in the code)
  MaxCalls,       \* bound: calls created by execCommand
  MaxDepth,       \* bound: nested waits
  MaxWire,        \* bound: messages under way from the device
  MaxLinks,       \* bound: times a backend is attached or opened
  MaxResets       \* bound: resets of the device

ASSUME ConstantsAssumption ==
  /\ NoId \notin Ids
  /\ Queries \subseteq {"sensors", "controls", "state"}
  /\ Ops \subseteq {"identify", "exec", "timed"}
  /\ LateDelivery \in BOOLEAN
  /\ SyncWaitIntervals \in Nat
  /\ {MaxCalls, MaxDepth, MaxWire, MaxLinks, MaxResets} \subseteq Nat

VARIABLES
  dev,      \* the RealDevice object, its calls and its backend
  waits,    \* the operations blocked in wait(), outermost first
  greeting, \* how many of them there were when onConnected emitted connected()
  wire,     \* messages from the device that the host has not handled yet
  hw,       \* the device at the far end: its identifier and its state
  hist,     \* history: what overtook an answer, calls left behind
  links,    \* links made so far (bounded by MaxLinks)
  resets    \* resets so far (bounded by MaxResets)

vars == <<dev, waits, greeting, wire, hw, hist, links, resets>>

IdentifyCall == 0                 \* identifyCall, the one call without an id
CallIds == 1..MaxCalls
Calls   == {IdentifyCall} \cup CallIds

Descriptions == Queries \ {"state"}
UserKinds == Ops \ {"identify"}
Kinds == {"unused", "identify", "exec", "timed"} \cup Queries
Content == Ids \cup Values \cup {"nothing", "bad", "empty", "done", "error"}

(* A device: its identifier, its state, and whether it has no sensors. *)
Hardware == [id : Ids, state : Values,
             bare : IF Descriptions = {} THEN {FALSE} ELSE BOOLEAN]

CallRecord == [kind : Kinds, st : {"WAIT", "EXEC", "DONE"},
               ok : BOOLEAN, ret : Content, timer : BOOLEAN]

(* The RealDevice object with its calls (call, exec: those registered by   *)
(* execCommand, posted: those whose onCommandDone is queued) and what its  *)
(* backend says of itself (up; sent: the calls it carried to the device).  *)
DeviceObject ==
  [backend : BOOLEAN, up : BOOLEAN, connected : BOOLEAN, id : Ids \cup {NoId},
   sync : 0..SyncWaitIntervals, syncTimer : BOOLEAN,
   loaded : [Queries -> BOOLEAN], cache : [Queries -> Content],
   exec : SUBSET CallIds, callId : 0..MaxCalls, posted : SUBSET CallIds,
   sent : SUBSET Calls, call : [Calls -> CallRecord]]

(* What may overtake an answer between its arrival and its use. *)
Causes == {"reset", "change", "link"}

History == [overtaken : [Calls -> SUBSET Causes],
            tainted : [Queries -> SUBSET Causes],
            orphans : SUBSET Calls]

Message == [t : {"syncr", "deviceinfo", "ok", "err", "statechanged", "reset"},
            c : Calls, v : Content]
-----------------------------------------------------------------------------
(***************************************************************************)
(* CommandCall                                                             *)
(***************************************************************************)
(* A call that is created in the constructor and has not been run. *)
NewCall(k) ==
  [kind |-> k, st |-> "WAIT", ok |-> FALSE, ret |-> "nothing", timer |-> FALSE]

(* Mutant: setupTimer is forgotten. *)
HasTimerNever(k) == k = "identify"

(* A command given by the user has no timer unless setupTimer was called. *)
HasTimer(k) == k # "exec"

(* onOkMsg and onErrorMsg: the first answer wins, later ones are ignored. *)
Finish(call, ok, v) ==
  IF call.st # "EXEC" THEN call
  ELSE [call EXCEPT !.st = "DONE", !.ok = ok, !.ret = v, !.timer = FALSE]

(* run: when the message cannot be written the call is DONE at once, with  *)
(* its timer running and without done() being emitted.                     *)
Run(call, written) ==
  IF written
    THEN [call EXCEPT !.st = "EXEC", !.timer = HasTimer(call.kind)]
    ELSE [call EXCEPT !.st = "DONE", !.ok = FALSE, !.ret = "error",
                      !.timer = HasTimer(call.kind)]

(* onError: a reset runs identification again and fails every other call. *)
OnError(call, err, written) ==
  IF err = "DEV_RESET" /\ call.st = "EXEC" /\ call.kind = "identify"
    THEN Run(call, written)
    ELSE Finish(call, FALSE, "error")
-----------------------------------------------------------------------------
(***************************************************************************)
(* RealDevice: the handlers, as operators on the object's state            *)
(***************************************************************************)
Pending(d) == {c \in Calls : d.call[c].st = "EXEC"}

(* writeMsgToDevice: there is a backend and it is connected. *)
CanWrite(d) == d.backend /\ d.up

NothingLoaded == [q \in Queries |-> FALSE]

(* stopCommands: nothing is stopped once the backend pointer is null.      *)
(* Calls of execCommand that end are posted: onCommandDone is queued.      *)
StopCommands(d, err) ==
  IF ~d.backend THEN d
  ELSE LET touched == (d.exec \cup {IdentifyCall}) \cap Pending(d)
           stopped == [d EXCEPT !.call = [c \in Calls |->
                         IF c \in touched
                           THEN OnError(d.call[c], err, CanWrite(d))
                           ELSE d.call[c]]]
       IN  [stopped EXCEPT !.posted = @ \cup (touched \cap d.exec),
                           !.sent = @ \cup (touched \cap Pending(stopped))]

(* Mutant: a reset keeps the cached state of the device. *)
OnDeviceResetKeepsState(d) ==
  [StopCommands(d, "DEV_RESET")
     EXCEPT !.sync = SyncWaitIntervals, !.syncTimer = TRUE]

OnDeviceReset(d) ==
  [StopCommands([d EXCEPT !.loaded = [q \in Queries |-> @[q] /\ q # "state"]],
                "DEV_RESET")
     EXCEPT !.sync = SyncWaitIntervals, !.syncTimer = TRUE]

(* onConnected, until connected() is emitted. *)
OnConnected(d) == [d EXCEPT !.connected = TRUE]

(* Mutants: a disconnection that keeps the cached descriptions, that lets  *)
(* the commands run on.                                                    *)
OnDisconnectedKeepsCache(d) ==
  IF ~d.connected THEN d
  ELSE StopCommands([d EXCEPT !.connected = FALSE, !.sync = 0,
                              !.syncTimer = FALSE], "DEV_DISCONNECTED")

OnDisconnectedKeepsCommands(d) ==
  IF ~d.connected THEN d
  ELSE [d EXCEPT !.connected = FALSE, !.loaded = NothingLoaded,
                 !.sync = 0, !.syncTimer = FALSE]

OnDisconnected(d) ==
  IF ~d.connected THEN d
  ELSE StopCommands([d EXCEPT !.connected = FALSE, !.loaded = NothingLoaded,
                              !.sync = 0, !.syncTimer = FALSE],
                    "DEV_DISCONNECTED")

OnBackendDestroyed(d) ==
  OnDisconnected([d EXCEPT !.backend = FALSE, !.up = FALSE, !.sent = {}])

(* The destructor of a backend: a HubDeviceBackend emits disconnected()    *)
(* before destroyedBeforeQObject(), the other backends emit only the       *)
(* latter.                                                                 *)
DestroyBackend(d, announced) ==
  OnBackendDestroyed(IF announced THEN OnDisconnected(d) ELSE d)

(* setBackend(b): the old backend is deleted, then b takes its place. *)
SetBackend(d, announced, up) ==
  LET freed == IF d.backend THEN DestroyBackend(d, announced) ELSE d
      attached == [freed EXCEPT !.backend = TRUE, !.up = up, !.sent = {}]
  IN  IF up THEN OnConnected(attached) ELSE OnDisconnected(attached)

TakeBackend(d) ==
  [StopCommands(d, "DEV_DESTROYED")
     EXCEPT !.backend = FALSE, !.up = FALSE, !.sent = {}]

(* Mutant: numbers are taken from the commands in progress and come back. *)
ExecCommandReusesIds(d, k) ==
  LET c == Cardinality(Pending(d) \cap CallIds) + 1
      written == d.connected /\ CanWrite(d)
  IN  [d EXCEPT !.callId = c,
                !.exec = @ \cup {c},
                !.call[c] = IF d.connected THEN Run(NewCall(k), written)
                                           ELSE NewCall(k),
                !.sent = IF written THEN @ \cup {c} ELSE @]

(* execCommand: while the device is disconnected the call is registered    *)
(* but never run, and its onErrorMsg is ignored because it is not EXEC.    *)
ExecCommand(d, k) ==
  LET c == d.callId + 1
      written == d.connected /\ CanWrite(d)
  IN  [d EXCEPT !.callId = c,
                !.exec = @ \cup {c},
                !.call[c] = IF d.connected THEN Run(NewCall(k), written)
                                           ELSE NewCall(k),
                !.sent = IF written THEN @ \cup {c} ELSE @]

(* Mutant: the identifier of the previous identification is kept. *)
StartIdentifyKeepsId(d) ==
  [d EXCEPT !.loaded = NothingLoaded,
            !.call[IdentifyCall] = Run(@, CanWrite(d)),
            !.sent = IF CanWrite(d) THEN @ \cup {IdentifyCall} ELSE @]

(* identify, up to its wait(). *)
StartIdentify(d) ==
  [d EXCEPT !.loaded = NothingLoaded,
            !.id = NoId,
            !.call[IdentifyCall] = Run(@, CanWrite(d)),
            !.sent = IF CanWrite(d) THEN @ \cup {IdentifyCall} ELSE @]

(* identify, after its wait(). *)
FinishIdentify(d) ==
  LET r == d.call[IdentifyCall]
  IN  IF ~(r.ok /\ r.ret \in Ids) THEN d
      ELSE IF d.id # NoId /\ d.id # r.ret THEN [d EXCEPT !.up = FALSE]
      ELSE [d EXCEPT !.id = r.ret]

(* getSensorsDescription, getControlsDescription and getState, after their *)
(* wait(): an empty description is returned but not kept as loaded.        *)
FinishQuery(d, c) ==
  LET r == d.call[c]
      q == r.kind
  IN  IF ~r.ok \/ r.ret = "bad" THEN d
      ELSE [d EXCEPT !.cache[q] = r.ret,
                     !.loaded[q] = @ \/ r.ret # "empty"]

Answered(d, c, ok, v) ==
  [d EXCEPT !.call[c] = Finish(@, ok, v),
            !.posted = @ \cup ({c} \cap Pending(d) \cap CallIds)]

(* onNewMessage and, for the zero byte of a restarted device, onDeviceReset *)
OnMessage(d, m) ==
  CASE m.t = "syncr"        -> [d EXCEPT !.sync = SyncWaitIntervals]
    [] m.t = "deviceinfo"   -> Answered(d, IdentifyCall, TRUE, m.v)
    [] m.t \in {"ok","err"} -> IF m.c \in d.exec
                                 THEN Answered(d, m.c, m.t = "ok", m.v)
                                 ELSE d
    [] m.t = "statechanged" -> [d EXCEPT !.cache = [q \in Queries |->
                                  IF q = "state" THEN m.v ELSE @[q]]]
    [] m.t = "reset"        -> OnDeviceReset(d)

OnTimeout(d, c) ==
  [Answered(d, c, FALSE, "error") EXCEPT !.call[c].timer = FALSE]

(* Mutant: the countdown goes on below zero. *)
OnSyncTimerOnceMore(d) ==
  IF d.sync >= 0 THEN [d EXCEPT !.sync = @ - 1]
  ELSE IF d.backend THEN OnDisconnected([d EXCEPT !.up = FALSE])
  ELSE d

(* Mutant: a device that stays silent is never dropped. *)
OnSyncTimerForgets(d) == [d EXCEPT !.sync = IF @ > 0 THEN @ - 1 ELSE @]

OnSyncTimer(d) ==
  IF d.sync > 0 THEN [d EXCEPT !.sync = @ - 1]
  ELSE IF d.backend THEN OnDisconnected([d EXCEPT !.up = FALSE])
  ELSE d
-----------------------------------------------------------------------------
(***************************************************************************)
(* The history: which answers were overtaken, between their arrival and    *)
(* their use, by a reset, a change of state or the loss of the link; which *)
(* cached values come from such an answer; the calls that were in progress *)
(* when their backend was destroyed.                                       *)
(***************************************************************************)
Returning == {c \in Calls : /\ \E i \in 1..Len(waits) : waits[i] = c
                            /\ dev.call[c].st = "DONE"}

Overtake(h, cause) ==
  [h EXCEPT !.overtaken = [c \in Calls |->
     IF c \in Returning THEN @[c] \cup {cause} ELSE @[c]]]

Orphan(h, d) ==
  [h EXCEPT !.orphans = IF d.connected THEN {} ELSE Pending(d)]

(* The state is told by the device that is connected. *)
Told(tainted) ==
  [q \in Queries |-> IF q = "state" /\ dev.connected THEN {} ELSE tainted[q]]

Keep(h, c, d) ==
  LET q == d.call[c].kind
  IN  IF FinishQuery(d, c) = d THEN h
      ELSE [h EXCEPT !.tainted[q] = h.overtaken[c], !.overtaken[c] = {}]
-----------------------------------------------------------------------------
Init ==
  /\ dev = [backend |-> FALSE, up |-> FALSE, connected |-> FALSE, id |-> NoId,
            sync |-> SyncWaitIntervals, syncTimer |-> FALSE,
            loaded |-> NothingLoaded, cache |-> [q \in Queries |-> "nothing"],
            exec |-> {}, callId |-> 0, posted |-> {}, sent |-> {},
            call |-> [c \in Calls |-> NewCall(IF c = IdentifyCall THEN "identify"
                                                             ELSE "unused")]]
  /\ waits = <<>>
  /\ greeting = <<>>
  /\ wire = <<>>
  /\ hw \in Hardware
  /\ hist = [overtaken |-> [c \in Calls |-> {}],
             tainted |-> [q \in Queries |-> {}], orphans |-> {}]
  /\ links = 0
  /\ resets = 0
-----------------------------------------------------------------------------
(***************************************************************************)
(* The operations of the object's users.  Each may run in the event loop   *)
(* of an operation that is waiting, or be called by those who receive      *)
(* connected().                                                            *)
(***************************************************************************)
Block(d, c) == waits' = IF d.call[c].st = "EXEC" THEN Append(waits, c) ELSE waits

Identify ==
  /\ "identify" \in Ops
  /\ dev.connected
  /\ IdentifyCall \notin Pending(dev)
  /\ Len(waits) < MaxDepth
  /\ dev' = StartIdentify(dev)
  /\ Block(dev', IdentifyCall)
  /\ hist' = [hist EXCEPT !.overtaken[IdentifyCall] = {}]
  /\ UNCHANGED <<greeting, wire, hw, links, resets>>

Query(q) ==
  /\ ~dev.loaded[q]
  /\ dev.callId < MaxCalls
  /\ Len(waits) < MaxDepth
  /\ dev' = ExecCommand(dev, q)
  /\ Block(dev', dev'.callId)
  /\ UNCHANGED <<greeting, wire, hw, hist, links, resets>>

Exec(k) ==
  /\ dev.callId < MaxCalls
  /\ dev' = ExecCommand(dev, k)
  /\ \/ UNCHANGED waits
     \/ Len(waits) < MaxDepth /\ Block(dev', dev'.callId)
  /\ UNCHANGED <<greeting, wire, hw, hist, links, resets>>

(* Events are handled, and wait() returns, in the main loop or in a wait:  *)
(* not while those who receive connected() are called.                     *)
InLoop == greeting # <<>> => greeting[Len(greeting)] < Len(waits)

(* onConnected, after them: also where the device is lost again.           *)
ConnectedReturns ==
  /\ ~InLoop
  /\ dev' = OnDeviceReset(dev)
  /\ greeting' = SubSeq(greeting, 1, Len(greeting) - 1)
  /\ UNCHANGED <<waits, wire, hw, hist, links, resets>>

(* The innermost wait() returns and its operation runs to its end. *)
Return ==
  /\ waits # <<>>
  /\ LET c == waits[Len(waits)]
         k == dev.call[c].kind
     IN  /\ c \notin Pending(dev)
         /\ waits' = SubSeq(waits, 1, Len(waits) - 1)
         /\ \/ /\ k = "identify"
               /\ dev' = FinishIdentify(dev)
               /\ UNCHANGED hist
            \/ /\ k \in Queries
               /\ dev' = FinishQuery(dev, c)
               /\ hist' = Keep(hist, c, dev)
            \/ /\ k \in UserKinds
               /\ UNCHANGED <<dev, hist>>
  /\ UNCHANGED <<greeting, wire, hw, links, resets>>
-----------------------------------------------------------------------------
(***************************************************************************)
(* The backend: attached, opened, closed, destroyed.  A closed backend     *)
(* reports it with a signal of its own, which may come later.              *)
(***************************************************************************)
NewLink == links < MaxLinks /\ links' = links + 1 /\ wire' = <<>>

(* setBackend.  The object is not used again once its backend was taken.   *)
AttachBackend ==
  /\ dev.connected => dev.backend
  /\ NewLink
  /\ \E announced, up \in BOOLEAN :
       /\ announced => dev.backend
       /\ dev' = SetBackend(dev, announced, up)
       /\ greeting' = IF up THEN Append(greeting, Len(waits)) ELSE greeting
  /\ hw' \in Hardware
  /\ hist' = Orphan(Overtake(hist, "link"), dev')
  /\ UNCHANGED <<waits, resets>>

BackendConnected ==
  /\ dev.backend /\ ~dev.up /\ ~dev.connected
  /\ NewLink
  /\ dev' = OnConnected([dev EXCEPT !.up = TRUE, !.sent = {}])
  /\ greeting' = Append(greeting, Len(waits))
  /\ \E v \in Values : hw' = [hw EXCEPT !.state = v]
  /\ hist' = Overtake(hist, "link")
  /\ UNCHANGED <<waits, resets>>

LinkCloses ==
  /\ dev.up
  /\ dev' = [dev EXCEPT !.up = FALSE]
  /\ UNCHANGED <<waits, greeting, wire, hw, hist, links, resets>>

BackendDisconnected ==
  /\ dev.backend /\ ~dev.up /\ dev.connected
  /\ dev' = OnDisconnected(dev)
  /\ hist' = Overtake(hist, "link")
  /\ UNCHANGED <<waits, greeting, wire, hw, links, resets>>

(* The backend is deleted: by setBackend(nullptr) or by its owner. *)
BackendDestroyed ==
  /\ dev.backend
  /\ \E announced \in BOOLEAN : dev' = DestroyBackend(dev, announced)
  /\ wire' = <<>>
  /\ hist' = Orphan(Overtake(hist, "link"), dev')
  /\ UNCHANGED <<waits, greeting, hw, links, resets>>

BackendTaken ==
  /\ dev.backend
  /\ dev' = TakeBackend(dev)
  /\ wire' = <<>>
  /\ hist' = Overtake(hist, "link")
  /\ UNCHANGED <<waits, greeting, hw, links, resets>>
-----------------------------------------------------------------------------
(***************************************************************************)
(* Events of the host's loop: a message, a timer, a queued slot.           *)
(***************************************************************************)
Deliver ==
  /\ wire # <<>>
  /\ dev.backend
  /\ dev.up \/ dev.connected \/ LateDelivery
  /\ LET m == Head(wire)
     IN  /\ dev' = OnMessage(dev, m)
         /\ hist' = CASE m.t = "reset" -> Overtake(hist, "reset")
                      [] m.t = "statechanged" ->
                           [Overtake(hist, "change") EXCEPT !.tainted = Told(@)]
                      [] OTHER -> hist
  /\ wire' = Tail(wire)
  /\ UNCHANGED <<waits, greeting, hw, links, resets>>

CallTimeout(c) ==
  /\ dev.call[c].timer
  /\ dev' = OnTimeout(dev, c)
  /\ UNCHANGED <<waits, greeting, wire, hw, hist, links, resets>>

SyncTimeout ==
  /\ dev.syncTimer
  /\ dev' = OnSyncTimer(dev)
  /\ hist' = IF dev'.connected THEN hist ELSE Overtake(hist, "link")
  /\ UNCHANGED <<waits, greeting, wire, hw, links, resets>>

(* Mutant: the end of one command unregisters all of them. *)
OnCommandDoneClearsAll(c) ==
  /\ c \in dev.posted
  /\ dev' = [dev EXCEPT !.posted = @ \ {c}, !.exec = {}]
  /\ UNCHANGED <<waits, greeting, wire, hw, hist, links, resets>>

OnCommandDone(c) ==
  /\ c \in dev.posted
  /\ dev' = [dev EXCEPT !.posted = @ \ {c}, !.exec = @ \ {c}]
  /\ UNCHANGED <<waits, greeting, wire, hw, hist, links, resets>>
-----------------------------------------------------------------------------
(***************************************************************************)
(* The device at the far end of an open link.                              *)
(***************************************************************************)
Send(t, c, v) ==
  /\ dev.up
  /\ Len(wire) < MaxWire
  /\ wire' = Append(wire, [t |-> t, c |-> c, v |-> v])

DeviceSyncs ==
  /\ dev.syncTimer /\ dev.sync < SyncWaitIntervals  \* a sync was written to it
  /\ Send("syncr", IdentifyCall, "nothing")
  /\ UNCHANGED <<dev, waits, greeting, hw, hist, links, resets>>

Reply(k) ==
  CASE k = "identify"     -> {hw.id, "bad"}
    [] k = "state"        -> {hw.state, "bad"}
    [] k \in Descriptions -> {IF hw.bare THEN "empty" ELSE hw.id, "bad"}
    [] OTHER              -> {"done"}

DeviceAnswers(c) ==
  /\ c \in dev.sent
  /\ \/ \E v \in Reply(dev.call[c].kind) :
          Send(IF c = IdentifyCall THEN "deviceinfo" ELSE "ok", c, v)
     \/ c # IdentifyCall /\ Send("err", c, "error")
  /\ dev' = [dev EXCEPT !.sent = @ \ {c}]
  /\ UNCHANGED <<waits, greeting, hw, hist, links, resets>>

DeviceChanges(v) ==
  /\ v # hw.state
  /\ Send("statechanged", IdentifyCall, v)
  /\ hw' = [hw EXCEPT !.state = v]
  /\ UNCHANGED <<dev, waits, greeting, hist, links, resets>>

DeviceResets ==
  /\ resets < MaxResets
  /\ resets' = resets + 1
  /\ Send("reset", IdentifyCall, "nothing")
  /\ \E v \in Values : hw' = [hw EXCEPT !.state = v]
  /\ dev' = [dev EXCEPT !.sent = {}]
  /\ UNCHANGED <<waits, greeting, hist, links>>
-----------------------------------------------------------------------------
Next ==
  \/ Identify
  \/ \E q \in Queries : Query(q)
  \/ \E k \in UserKinds : Exec(k)
  \/ ConnectedReturns
  \/ InLoop /\ Return
  \/ InLoop /\ AttachBackend
  \/ InLoop /\ BackendConnected
  \/ InLoop /\ LinkCloses
  \/ InLoop /\ BackendDisconnected
  \/ InLoop /\ BackendDestroyed
  \/ InLoop /\ BackendTaken
  \/ InLoop /\ Deliver
  \/ \E c \in Calls : InLoop /\ CallTimeout(c)
  \/ InLoop /\ SyncTimeout
  \/ \E c \in CallIds : InLoop /\ OnCommandDone(c)
  \/ DeviceSyncs
  \/ \E c \in Calls : DeviceAnswers(c)
  \/ \E v \in Values : DeviceChanges(v)
  \/ DeviceResets

(* The event loop handles every event that stays possible: timers, queued  *)
(* slots, queued data, the signal of a closed backend, and a wait() whose  *)
(* call has ended; and those who receive connected() come to an end, or    *)
(* wait.  Nothing is assumed of users and devices.                         *)
Fairness ==
  /\ WF_vars(ConnectedReturns)
  /\ WF_vars(InLoop /\ Return)
  /\ WF_vars(InLoop /\ Deliver)
  /\ WF_vars(InLoop /\ SyncTimeout)
  /\ WF_vars(InLoop /\ BackendDisconnected)
  /\ \A c \in Calls : WF_vars(InLoop /\ CallTimeout(c))
  /\ \A c \in CallIds : WF_vars(InLoop /\ OnCommandDone(c))

Spec == Init /\ [][Next]_vars

FairSpec == Spec /\ Fairness
-----------------------------------------------------------------------------
(***************************************************************************)
(* Properties                                                              *)
(***************************************************************************)
(* The types of the object, of its calls and of what surrounds it. *)
TypeOK ==
  /\ dev \in DeviceObject
  /\ waits \in Seq(Calls)
  /\ greeting \in Seq(Nat)
  /\ wire \in Seq(Message)
  /\ hw \in Hardware
  /\ hist \in History
  /\ links \in 0..MaxLinks
  /\ resets \in 0..MaxResets

(* An answer finds its call: every call that waits for one is registered   *)
(* under its id, so neither a queued onCommandDone of another call nor a   *)
(* stop of the commands may unregister it (RealDevice::execCommands).      *)
PendingIsRegistered == Pending(dev) \cap CallIds \subseteq dev.exec

(* Once the device is disconnected no command is left in progress, except  *)
(* those whose backend was destroyed under them (onBackendDestroyed clears *)
(* the pointer that stopCommands tests).                                   *)
DisconnectEndsCommands ==
  ~dev.connected => Pending(dev) \subseteq hist.orphans

(* The cached state is the device's state, up to the changes under way,    *)
(* unless the answer it came from was overtaken before getState used it.   *)
StateIsCurrent ==
  LET changes == {i \in 1..Len(wire) : wire[i].t = "statechanged"}
      last == {i \in changes : \A j \in changes : j <= i}
  IN  /\ "state" \in Queries /\ dev.connected /\ dev.up /\ dev.loaded["state"]
      /\ hist.tainted["state"] = {}
      /\ \A i \in 1..Len(wire) : wire[i].t # "reset"
      => IF changes = {} THEN hw.state = dev.cache["state"]
         ELSE \A i \in last : hw.state = wire[i].v

(* A description that is cached was given by the device that is connected, *)
(* unless the link changed before the answer was used.                     *)
DescriptionsAreOfThisDevice ==
  \A q \in Descriptions :
    dev.connected /\ dev.up /\ dev.loaded[q] /\ "link" \notin hist.tainted[q]
      => dev.cache[q] = hw.id

(* When an identification that succeeded returns and the object already    *)
(* has an identifier again, it is the same one: the test for a mismatch,   *)
(* and the disconnection it would lead to, are never reached.              *)
MismatchIsUnreachable ==
  LET r == dev.call[IdentifyCall]
  IN  /\ waits # <<>> /\ waits[Len(waits)] = IdentifyCall
      /\ r.st = "DONE" /\ r.ok /\ r.ret \in Ids
      => dev.id \in {NoId, r.ret}

(* Before the sync timer is started: a command without a timer of its own  *)
(* waits within the waits of those who receive connected(), so that they   *)
(* do not return either.                                                   *)
BeforeSyncTimer ==
  /\ greeting # <<>> /\ ~dev.syncTimer
  /\ \E i \in (greeting[Len(greeting)] + 1)..Len(waits) : dev.call[waits[i]].kind = "exec"

(* No operation stays blocked on a device that has fallen silent, with or  *)
(* without a timer of its own (the sync timer; CommandCallTests::          *)
(* testLongCommand), unless its backend was destroyed under it, or a       *)
(* command without a timer was started before the sync timer was: nothing  *)
(* ends that one.                                                          *)
SilenceReleasesWaiters ==
  <>[](wire = <<>>) /\ [](hist.orphans = {}) /\ []<>~BeforeSyncTimer
    => []<>(waits = <<>>)

(* A command with a timer ends whatever the device does: answers, resets,  *)
(* silence, a lost link or a destroyed backend.                            *)
TimedCommandsEnd ==
  \A c \in CallIds :
    (c \in Pending(dev) /\ dev.call[c].kind # "exec") ~> (c \notin Pending(dev))
-----------------------------------------------------------------------------
(***************************************************************************)
(* RealDevice implements CommandService: a call that was never run after   *)
(* execCommand is "refused"; the answers are those on the wire.            *)
(***************************************************************************)
Outcome(r) ==
  CASE r.kind = "unused" -> "none"
    [] r.kind # "unused" /\ r.st = "WAIT" -> "refused"
    [] r.st = "EXEC" -> "pending"
    [] r.st = "DONE" -> IF r.ok THEN "ok" ELSE "failed"

Result(r) == IF r.st = "DONE" /\ r.ok THEN r.ret ELSE "nothing"

Replies == {i \in 1..Len(wire) : wire[i].t = "ok" /\ wire[i].c \in CallIds}

Outcomes == [c \in CallIds |-> Outcome(dev.call[c])]
Results  == [c \in CallIds |-> Result(dev.call[c])]
Answers  == {[command |-> wire[i].c, value |-> wire[i].v] : i \in Replies}

Service == INSTANCE CommandService WITH
  Commands  <- CallIds,
  Results   <- Content,
  NoResult  <- "nothing",
  connected <- dev.connected,
  outcome   <- Outcomes,
  result    <- Results,
  answers   <- Answers

ImplementsCommandService == Service!Spec
=============================================================================
