--------------------------- MODULE CommandProcessor ---------------------------
(***************************************************************************)
(* The server's side of a client: one CommandProcessor per connection, the *)
(* virtual devices it registered, the storages it listens to.              *)
(*                                                                         *)
(* All clients are served in one thread.  exec_command and                 *)
(* register_virtual_device wait for a device in a nested event loop, in    *)
(* which messages of every client are handled, the waiting one included:   *)
(* "stack" holds the commands that wait, innermost last, and only the last *)
(* one may go on.  A message is handled, a connection is lost and a timer  *)
(* ticks in the innermost loop.                                            *)
(*                                                                         *)
(* deleteLater() posted in a loop is carried out in that loop or in an     *)
(* outer one: "del" is the number of commands that waited when it was      *)
(* called.  Records of processors and backends are used again once         *)
(* nothing refers to them, so that runs are unbounded.                     *)
(***************************************************************************)
EXTENDS Naturals, Sequences, FiniteSets, SequencesExt, Functions

CONSTANTS
  Procs,         \* connections at one time
  Users,         \* users but nullId
  Devs,          \* identifiers of virtual devices
  Backends,      \* virtual backends at one time
  Storages,      \* storages that exist
  None,          \* the null pointer, nullId
  maxSyncCount,  \* periods without an answer before a client is given up
  MaxDepth       \* bound: commands that wait at one time

ASSUME ConstantsAssumption ==
  /\ None \notin Procs \cup Users \cup Backends \cup Nat
  /\ {"unknown", "other"} \cap (Backends \cup {None}) = {}
  /\ maxSyncCount \in Nat \ {0} /\ MaxDepth \in Nat

VARIABLES
  proc,     \* the processors
  backend,  \* the VirtualDeviceBackend objects
  virt,     \* Devices::mVirtualBackends
  object,   \* the backend of the registry's device, if there is one
  stack,    \* the commands that wait for a device, innermost last
  busy,     \* the processor left by its client that goes on with its data
  spoiled   \* history: devices registered twice by one client, or whose
            \* backend was closed after it answered and before it was listed

vars == <<proc, backend, virt, object, stack, busy, spoiled>>

ProcRecord ==
  [st : {"free", "open", "closed", "left"}, uid : Users \cup {None},
   vdevs : [Devs -> Backends \cup {None}], subs : SUBSET Storages,
   work : 0..MaxDepth, need : BOOLEAN, del : 0..MaxDepth \cup {None},
   sync : 0..maxSyncCount]

(* cb: mMsgCb.  heard: the processor that destroyedBeforeQObject() reaches. *)
(* by: history, the user who registered it.                                 *)
BackendRecord ==
  [live : BOOLEAN, dev : Devs \cup {None}, cb : Procs \cup {None},
   heard : Procs \cup {None}, by : Users \cup {None}]

Frame ==
  [proc : Procs, by : Users, be : Backends \cup {None},
   phase : {"exec", "identify", "answered", "describe", "failed"}]

NoDevice == [d \in Devs |-> None]
FreeProc == [st |-> "free", uid |-> None, vdevs |-> NoDevice, subs |-> {},
             work |-> 0, need |-> FALSE, del |-> None, sync |-> 0]
FreeBackend == [live |-> FALSE, dev |-> None, cb |-> None, heard |-> None, by |-> None]

Alive(p) == proc[p].st # "free"
Depth == Len(stack)
Frames == ToSet(stack)

(* Nothing refers to the record any more. *)
UnusedProc(p) ==
  /\ ~Alive(p)
  /\ \A f \in Frames : f.proc # p
  /\ \A b \in Backends : p \notin {backend[b].cb, backend[b].heard}
UnusedBackend(b) ==
  /\ ~backend[b].live
  /\ \A f \in Frames : f.be # b
  /\ b \notin Range(virt) \cup Range(object) \cup UNION {Range(proc[p].vdevs) : p \in Procs}

Init ==
  /\ proc = [p \in Procs |-> FreeProc]
  /\ backend = [b \in Backends |-> FreeBackend]
  /\ virt = NoDevice
  /\ object = [d \in Devs |-> "unknown"]
  /\ stack = <<>>
  /\ busy = None
  /\ spoiled = {}
-----------------------------------------------------------------------------
(***************************************************************************)
(* What happens to a set of backends at once: the registry and the         *)
(* processors that are connected to their signals follow.                  *)
(***************************************************************************)
(* mutant: the processor does not follow the destruction of a backend. *)
ForgetNothing(prs, bs) == prs

(* onVDevDestroyed: the entry of the backend's identifier is removed. *)
Forget(prs, bs) ==
  [p \in Procs |-> [prs[p] EXCEPT !.vdevs =
     [d \in Devs |-> IF \E b \in bs : backend[b].dev = d /\ backend[b].heard = p
                       THEN None ELSE @[d]]]]

(* The destructors of bs. *)
Destroyed(bs) ==
  /\ backend' = [b \in Backends |-> IF b \in bs THEN FreeBackend ELSE backend[b]]
  /\ virt' = [d \in Devs |-> IF virt[d] \in bs THEN None ELSE virt[d]]
  /\ object' = [d \in Devs |-> IF object[d] \in bs THEN None ELSE object[d]]
  /\ spoiled' = {d \in spoiled : \E b \in Backends \ bs : backend[b].dev = d}

(* forceDisconnect() of bs, those of "deaf" after disconnect(this): a      *)
(* backend that the registry's device has is destroyed; one that is only   *)
(* being identified has lost its client.                                   *)
ForceDisconnected(bs, deaf, prs) ==
  LET gone == {b \in bs : \E d \in Devs : object[d] = b /\ backend[b].cb # None}
      closing == bs \ gone
      answered == {f.be : f \in {g \in Frames : g.phase = "answered"}}
  IN  /\ proc' = Forget(prs, gone \ deaf)
      /\ backend' = [b \in Backends |->
           CASE b \in gone -> FreeBackend
             [] b \in closing -> [backend[b] EXCEPT !.cb = None,
                  !.heard = IF b \in deaf THEN None ELSE @]
             [] OTHER -> backend[b]]
      /\ virt' = [d \in Devs |-> IF virt[d] \in gone THEN None ELSE virt[d]]
      /\ object' = [d \in Devs |-> IF object[d] \in gone THEN None ELSE object[d]]
      /\ stack' = [i \in DOMAIN stack |->
           IF stack[i].phase = "identify" /\ stack[i].be \in closing
             THEN [stack[i] EXCEPT !.phase = "failed"] ELSE stack[i]]
      /\ UNCHANGED busy
      /\ spoiled' = {d \in spoiled \cup {backend[b].dev : b \in closing \cap answered} :
                       \E b \in Backends \ gone : backend[b].dev = d}
-----------------------------------------------------------------------------
(***************************************************************************)
(* Connections.                                                            *)
(***************************************************************************)
(* A connection through the local socket may need no authentication. *)
Connect(p) ==
  /\ UnusedProc(p)
  /\ \E u \in Users \cup {None} :
       proc' = [proc EXCEPT ![p] = [FreeProc EXCEPT !.st = "open", !.uid = u,
                                                    !.sync = maxSyncCount]]
  /\ UNCHANGED <<backend, virt, object, stack, busy, spoiled>>

(* The connection is lost; disconnected() is queued. *)
ConnectionLost(p) ==
  /\ proc[p].st = "open"
  /\ proc' = [proc EXCEPT ![p].st = "closed"]
  /\ UNCHANGED <<backend, virt, object, stack, busy, spoiled>>

(* mutant: the processor is deleted at once although its commands wait. *)
DeletedLaterAlways(r) ==
  [r EXCEPT !.st = "left", !.del = IF @ = None THEN Depth ELSE @]

(* scheduleDelete: now, or when the last command ends. *)
Scheduled(r) ==
  IF r.work = 0 THEN [r EXCEPT !.st = "left", !.del = IF @ = None THEN Depth ELSE @]
                ELSE [r EXCEPT !.st = "left", !.need = TRUE]

(* onSocketDisconnected: the client is closed. *)
CloseClient(p) ==
  /\ proc[p].st = "closed"
  /\ proc' = [proc EXCEPT ![p] = Scheduled(@)]
  /\ UNCHANGED <<backend, virt, object, stack, busy, spoiled>>

Registered(p) == Range(proc[p].vdevs) \ {None}

(* mutant: the destructor leaves the virtual devices. *)
DeleteOnly(p) ==
  /\ proc[p].del # None /\ Depth <= proc[p].del
  /\ proc' = [proc EXCEPT ![p] = FreeProc]
  /\ UNCHANGED <<backend, virt, object, stack, busy, spoiled>>

(* The destructor, when the posted deletion is carried out. *)
Delete(p) ==
  /\ proc[p].del # None /\ Depth <= proc[p].del
  /\ ForceDisconnected(Registered(p), Registered(p), [proc EXCEPT ![p] = FreeProc])

(* onSyncTimer: when the client has not answered for too long, its virtual *)
(* devices are disconnected, the timer stops and the socket is closed.     *)
SyncTimer(p) ==
  /\ Alive(p) /\ proc[p].sync > 0
  /\ IF proc[p].sync > 1
       THEN /\ proc' = [proc EXCEPT ![p].sync = @ - 1]
            /\ UNCHANGED <<backend, virt, object, stack, busy, spoiled>>
       ELSE ForceDisconnected(Registered(p), Registered(p),
              [proc EXCEPT ![p].sync = 0, ![p].vdevs = NoDevice,
                           ![p].st = IF @ = "open" THEN "closed" ELSE @])
-----------------------------------------------------------------------------
(***************************************************************************)
(* Messages of the client.                                                 *)
(***************************************************************************)
(* Data that arrived before the connection was lost are handled before the *)
(* loss is; what follows a command that waited is handled whatever came in *)
(* between.                                                                *)
Hears(p) == busy = p \/ (busy = None /\ proc[p].st \in {"open", "closed"})

Syncr(p) ==
  /\ Hears(p) /\ proc[p].sync > 0
  /\ proc' = [proc EXCEPT ![p].sync = maxSyncCount]
  /\ UNCHANGED <<backend, virt, object, stack, busy, spoiled>>

(* mutant: the user may be changed while commands wait. *)
MayChangeUserWaiting(r) == r.vdevs = NoDevice /\ r.subs = {}

MayChangeUser(r) == r.vdevs = NoDevice /\ r.work = 0 /\ r.subs = {}

(* authenticate; a refusal changes nothing. *)
Authenticate(p) ==
  /\ Hears(p) /\ MayChangeUser(proc[p])
  /\ \E u \in Users : proc' = [proc EXCEPT ![p].uid = u]
  /\ UNCHANGED <<backend, virt, object, stack, busy, spoiled>>

(* A message of a user. *)
Command(p) == Hears(p) /\ proc[p].uid # None

Subscribe(p) ==
  /\ Command(p)
  /\ \E s \in Storages \ proc[p].subs : proc' = [proc EXCEPT ![p].subs = @ \cup {s}]
  /\ UNCHANGED <<backend, virt, object, stack, busy, spoiled>>

Unsubscribe(p) ==
  /\ Command(p)
  /\ \E s \in proc[p].subs : proc' = [proc EXCEPT ![p].subs = @ \ {s}]
  /\ UNCHANGED <<backend, virt, object, stack, busy, spoiled>>

(* onStorageRemoved, in every processor. *)
StorageRemoved ==
  /\ \E s \in Storages :
       /\ \E p \in Procs : s \in proc[p].subs
       /\ proc' = [p \in Procs |-> [proc[p] EXCEPT !.subs = @ \ {s}]]
  /\ UNCHANGED <<backend, virt, object, stack, busy, spoiled>>

Waits(p, phase, b) ==
  /\ stack' = Append(stack, [proc |-> p, by |-> proc[p].uid, be |-> b, phase |-> phase])
  /\ busy' = None

(* exec_command: the command of the device waits for its answer. *)
ExecCommand(p) ==
  /\ Command(p) /\ Depth < MaxDepth
  /\ Waits(p, "exec", None)
  /\ proc' = [proc EXCEPT ![p].work = @ + 1]
  /\ UNCHANGED <<backend, virt, object, spoiled>>

(* register_virtual_device: the processor's list has the new backend       *)
(* before the registry is asked, which refuses one whose identifier it has *)
(* and deletes it.                                                         *)
RegisterVDev(p, d) ==
  /\ Command(p) /\ Depth < MaxDepth
  /\ \E b \in Backends :
       /\ UnusedBackend(b)
       /\ IF virt[d] # None
            THEN /\ proc' = [proc EXCEPT ![p].vdevs[d] = None]
                 /\ UNCHANGED <<backend, stack, busy>>
            ELSE /\ proc' = [proc EXCEPT ![p].vdevs[d] = b, ![p].work = @ + 1]
                 /\ backend' = [backend EXCEPT ![b] =
                      [live |-> TRUE, dev |-> d, cb |-> p, heard |-> p,
                       by |-> proc[p].uid]]
                 /\ Waits(p, "identify", b)
  /\ spoiled' = IF proc[p].vdevs[d] = None THEN spoiled ELSE spoiled \cup {d}
  /\ UNCHANGED <<virt, object>>

(* disconnect_virtual_device *)
DisconnectVDev(p, d) ==
  /\ Command(p) /\ proc[p].vdevs[d] # None
  /\ ForceDisconnected({proc[p].vdevs[d]}, {}, proc)
-----------------------------------------------------------------------------
(***************************************************************************)
(* The innermost command goes on.                                          *)
(***************************************************************************)
Top == Last(stack)
Phase(phase) == stack # <<>> /\ Top.phase = phase

(* The command answers and the WorkLocker is destroyed. *)
Ended(r) ==
  [r EXCEPT !.work = @ - 1,
            !.del = IF r.work = 1 /\ r.need /\ @ = None THEN Depth - 1 ELSE @]

Ends(prs) ==
  /\ proc' = [prs EXCEPT ![Top.proc] = Ended(@)]
  /\ busy' = IF proc[Top.proc].st = "left" THEN Top.proc ELSE None
  /\ stack' = Front(stack)

(* The device answers, or its command fails. *)
ExecEnds ==
  /\ Phase("exec")
  /\ Ends(proc)
  /\ UNCHANGED <<backend, virt, object, spoiled>>

(* The backend itself answers the identification; the wait ends only after *)
(* the events that are there already.                                      *)
Answered ==
  /\ Phase("identify")
  /\ stack' = [stack EXCEPT ![Depth].phase = "answered"]
  /\ UNCHANGED <<proc, backend, virt, object, busy, spoiled>>

(* The device could not be identified: addDeviceFromBackend deletes it,    *)
(* with its backend.                                                       *)
NotIdentified ==
  /\ Phase("failed") \/ Phase("identify")
  /\ Destroyed({Top.be})
  /\ Ends(Forget(proc, {Top.be}))

Listed(b) ==
  /\ virt' = [virt EXCEPT ![backend[b].dev] = b]
  /\ UNCHANGED <<backend, spoiled>>

(* addDeviceFromBackend after the wait: a device that the registry has     *)
(* keeps the backend it has; without one it takes the new one.  Unless the *)
(* backend is closed, the queries about a new device, or about one that is *)
(* connected by setBackend, wait again.                                    *)
Identified ==
  /\ Phase("answered")
  /\ LET b == Top.be
         d == backend[b].dev
     IN  CASE object[d] \in {"unknown", None} /\ backend[b].cb # None ->
                /\ object' = [object EXCEPT ![d] = b]
                /\ stack' = [stack EXCEPT ![Depth].phase = "describe"]
                /\ UNCHANGED <<proc, backend, virt, busy, spoiled>>
           [] object[d] \in {"unknown", None} /\ backend[b].cb = None ->
                /\ object' = [object EXCEPT ![d] = b]
                /\ Listed(b)
                /\ Ends(proc)
           [] OTHER ->
                /\ Destroyed({b})
                /\ Ends(Forget(proc, {b}))

(* registerVirtualDevice after these queries: a backend that is still      *)
(* there is listed.                                                        *)
Described ==
  /\ Phase("describe")
  /\ IF backend[Top.be].live THEN Listed(Top.be) ELSE UNCHANGED <<backend, virt, spoiled>>
  /\ Ends(proc)
  /\ UNCHANGED object
-----------------------------------------------------------------------------
(***************************************************************************)
(* A device with the same identifier and a preferred connection: the       *)
(* virtual backend is destroyed.                                           *)
(***************************************************************************)
Preferred(d) ==
  /\ object[d] # "other"
  /\ IF object[d] \in Backends
       THEN /\ backend' = [backend EXCEPT ![object[d]] = FreeBackend]
            /\ virt' = [virt EXCEPT ![d] = IF @ = object[d] THEN None ELSE @]
            /\ proc' = Forget(proc, {object[d]})
            /\ spoiled' = {e \in spoiled : \E b \in Backends \ {object[d]} : backend[b].dev = e}
       ELSE UNCHANGED <<backend, virt, proc, spoiled>>
  /\ object' = [object EXCEPT ![d] = "other"]
  /\ UNCHANGED <<stack, busy>>

OtherLost(d) ==
  /\ object[d] = "other"
  /\ object' = [object EXCEPT ![d] = None]
  /\ UNCHANGED <<proc, backend, virt, stack, busy, spoiled>>
-----------------------------------------------------------------------------
(* The data of a client that has left are used up. *)
EndOfData ==
  /\ busy' = None
  /\ UNCHANGED <<proc, backend, virt, object, stack, spoiled>>

Message(p) ==
  \/ Syncr(p) \/ Authenticate(p) \/ Subscribe(p) \/ Unsubscribe(p) \/ ExecCommand(p)
  \/ \E d \in Devs : RegisterVDev(p, d) \/ DisconnectVDev(p, d)

Event ==
  \/ \E p \in Procs : Connect(p) \/ ConnectionLost(p) \/ CloseClient(p)
                        \/ Delete(p) \/ SyncTimer(p)
  \/ StorageRemoved
  \/ \E d \in Devs : Preferred(d) \/ OtherLost(d)

Step == Answered \/ ExecEnds \/ NotIdentified \/ Identified \/ Described

Next ==
  \/ \E p \in Procs : Message(p)
  \/ busy = None /\ (Event \/ Step)
  \/ busy # None /\ EndOfData

Spec == Init /\ [][Next]_vars
-----------------------------------------------------------------------------
TypeOK ==
  /\ proc \in [Procs -> ProcRecord]
  /\ backend \in [Backends -> BackendRecord]
  /\ virt \in [Devs -> Backends \cup {None}]
  /\ object \in [Devs -> Backends \cup {None, "unknown", "other"}]
  /\ stack \in Seq(Frame) /\ Depth <= MaxDepth
  /\ busy \in Procs \cup {None}
  /\ spoiled \subseteq Devs

(* The state has its types, and a processor is deleted only after its last *)
(* command has returned, whatever other commands wait above or below it    *)
(* (inWorkCommands, needDeleteThis and deleteLater).                       *)
NoCommandOfDeleted == TypeOK /\ \A f \in Frames : Alive(f.proc)

(* A backend never outlives the processor that it sends its messages to,   *)
(* unless the client registered the device twice.                          *)
CallbackAlive ==
  \A b \in Backends : backend[b].cb # None /\ backend[b].dev \notin spoiled
                        => Alive(backend[b].cb)

(* A processor's list has living backends of its own, and all that the     *)
(* registry lists of it, so that leaving or falling silent frees every     *)
(* identifier for other clients.                                           *)
ListsAgree ==
  /\ \A p \in Procs : \A b \in Registered(p) :
       backend[b].live /\ backend[b].cb \in {p, None}
  /\ \A d \in Devs \ spoiled :
       virt[d] # None =>
         /\ backend[virt[d]].live /\ object[d] = virt[d]
         /\ \E p \in Procs : proc[p].vdevs[d] = virt[d] /\ backend[virt[d]].cb = p

(* Commands that wait and virtual devices were permitted to the user of    *)
(* the connection: he may not change while there are any.                  *)
UserIsFixed ==
  /\ \A f \in Frames : f.by = proc[f.proc].uid
  /\ \A b \in Backends : backend[b].cb # None /\ backend[b].dev \notin spoiled
                           => backend[b].by = proc[backend[b].cb].uid
===============================================================================
