-------------------------------- MODULE Devices --------------------------------
(***************************************************************************)
(* The server's registry of devices: identified devices, the backends it   *)
(* opens itself (serial ports), incoming connections, virtual devices.     *)
(*                                                                         *)
(* Devices runs in the server's main thread.  Its handlers identify and    *)
(* describe devices synchronously: RealDevice::identify and the get...     *)
(* functions wait in nested event loops, in which other handlers run.  A   *)
(* destructor may be on the stack as well: the destruction of a serial     *)
(* backend opens the port again and identifies what is there before the    *)
(* destructor's caller goes on.  "stack" holds what is left to do of the   *)
(* active functions, innermost first; events are handled when it is empty  *)
(* or its head waits.                                                      *)
(***************************************************************************)
EXTENDS Naturals, Sequences

CONSTANTS
  Ids,          \* the identifiers of devices
  Ports,        \* the serial ports that the configuration names
  Kinds,        \* the kinds of backends, among "virtual", "tcp", "tty"
  None,         \* the null pointer, the null QUuid
  MaxBackends,  \* bound: backends ever created
  MaxFrames     \* bound: depth of the stack at which events are handled

ASSUME ConstantsAssumption ==
  /\ None \notin Ids \cup Ports \cup Nat
  /\ \A id \in Ids : id \notin Nat
  /\ Kinds \subseteq {"virtual", "tcp", "tty"}
  /\ {MaxBackends, MaxFrames} \subseteq Nat

VARIABLES
  backend,     \* the backends
  device,      \* the RealDevice objects
  identified,  \* mIdentifiedDevices
  out,         \* mOutBackendsByType[tty]
  tcpIn,       \* mTcpInBackends
  virt,        \* mVirtualBackends
  stack        \* what is left to do, innermost first

vars == <<backend, device, identified, out, tcpIn, virt, stack>>

(* Every backend ever created.  A RealDevice bears the name of the backend *)
(* or of the identifier that it was made for.                              *)
Backends == 1..MaxBackends
Objects  == Backends \cup Ids

(* st: unused, live, dying (its destructor is on the stack), dead.  key: a *)
(* port or, of a virtual device, an identifier.  said: disconnected() was  *)
(* emitted.  owner: the device whose slots are connected to its signals.   *)
(* hooked: the registry's slot is connected to destroyedBeforeQObject().   *)
BackendRecord ==
  [st : {"unused", "live", "dying", "dead"}, kind : {"virtual", "tcp", "tty", None},
   key : Ports \cup Ids \cup {None}, id : Ids \cup {None}, open : BOOLEAN,
   said : BOOLEAN, owner : Objects \cup {None}, hooked : BOOLEAN]

(* hooked: the registry's slots are connected to the device's signals. *)
DeviceRecord ==
  [st : {"unused", "live", "dead"}, id : Ids \cup {None},
   be : Backends \cup {None}, connected : BOOLEAN, hooked : BOOLEAN]

Frame ==
  [op : {"add", "list", "destroy", "freed"}, b : Backends]
    \cup [op : {"identify"}, d : Objects, res : Ids \cup {None}]
    \cup [op : {"identified", "describe", "delete"}, d : Objects]
    \cup [op : {"assign"}, d : Objects, b : Backends \cup {None}]
    \cup [op : {"check"}, ports : SUBSET Ports]
-----------------------------------------------------------------------------
(* DeviceTypesPriority: a serial port is preferred to a connection, and    *)
(* any connection to a virtual device.                                     *)
Priority(b) ==
  CASE backend[b].kind = "tty"     -> 3
    [] backend[b].kind = "tcp"     -> 2
    [] backend[b].kind = "virtual" -> 1

(* mutant: a connection of the same kind replaces the present one. *)
ShouldReplaceEqual(old, new) == Priority(new) >= Priority(old)

ShouldReplace(old, new) == Priority(new) > Priority(old)

Waiting == stack # <<>> => Head(stack).op \in {"identify", "describe"}

Top(op) == stack # <<>> /\ Head(stack).op = op

(* An event is handled in the innermost event loop.                        *)
Handle(frames) ==
  /\ Waiting
  /\ Len(stack) < MaxFrames
  /\ stack' = frames \o stack

(* The innermost function goes on: "frames" are what it leaves to do.      *)
Continue(frames) == stack' = frames \o Tail(stack)

Unused == {b \in Backends : backend[b].st = "unused"}
NewBackend == CHOOSE b \in Unused : TRUE

Freed == [st |-> "dead", kind |-> None, key |-> None, id |-> None, open |-> FALSE,
          said |-> FALSE, owner |-> None, hooked |-> FALSE]

Create(kind, key, id, open) ==
  backend' = [backend EXCEPT ![NewBackend] =
                [st |-> "live", kind |-> kind, key |-> key, id |-> id,
                 open |-> open, said |-> FALSE, owner |-> None, hooked |-> FALSE]]

(* addDeviceFromBackend, then entering the backend into its list.          *)
AddAndList(b) == <<[op |-> "add", b |-> b], [op |-> "list", b |-> b]>>

Check(ports) ==
  IF ports = {} THEN <<>> ELSE <<[op |-> "check", ports |-> ports]>>

(* onDisconnected: a device of the registry has its backend destroyed      *)
(* (onDeviceDisconnectedPrivate calls setBackend(0)).                      *)
Offline(d) == [device EXCEPT ![d].connected = FALSE]

Dropping(d) ==
  IF device[d].connected /\ device[d].hooked /\ device[d].be # None
    THEN <<[op |-> "destroy", b |-> device[d].be],
           [op |-> "assign", d |-> d, b |-> None]>>
    ELSE <<>>
-----------------------------------------------------------------------------
Init ==
  /\ backend = [b \in Backends |->
       [st |-> "unused", kind |-> None, key |-> None, id |-> None,
        open |-> FALSE, said |-> FALSE, owner |-> None, hooked |-> FALSE]]
  /\ device = [d \in Objects |->
       [st |-> "unused", id |-> None, be |-> None, connected |-> FALSE,
        hooked |-> FALSE]]
  /\ identified = [id \in Ids |-> None]
  /\ out = [p \in Ports |-> None]
  /\ tcpIn = {}
  /\ virt = [id \in Ids |-> None]
  /\ stack = <<>>
-----------------------------------------------------------------------------
(***************************************************************************)
(* The handlers, step by step between the points where they call another   *)
(* handler or wait.                                                        *)
(***************************************************************************)
(* checkDevicesFromConfig: the next port.  A port that is not there is not *)
(* listed; one that cannot be opened gives a closed backend.               *)
CheckPort ==
  /\ Top("check")
  /\ LET ports == Head(stack).ports
     IN  \E p \in ports :
           LET rest == Check(ports \ {p})
           IN  \/ Continue(rest) /\ UNCHANGED backend
               \/ /\ out[p] = None /\ Unused # {}
                  /\ \E id \in Ids, open \in BOOLEAN : Create("tty", p, id, open)
                  /\ Continue(AddAndList(NewBackend) \o rest)
  /\ UNCHANGED <<device, identified, out, tcpIn, virt>>

(* addDeviceFromBackend, up to the wait of identify. *)
AddDevice ==
  /\ Top("add")
  /\ LET b == Head(stack).b
         d == b
     IN  /\ device' = [device EXCEPT ![d] = [st |-> "live", id |-> None, be |-> b,
                         connected |-> backend[b].open, hooked |-> FALSE]]
         /\ backend' = [backend EXCEPT ![b].owner = d]
         /\ Continue(IF backend[b].open
                       THEN <<[op |-> "identify", d |-> d, res |-> None]>>
                       ELSE <<[op |-> "delete", d |-> d]>>)
  /\ UNCHANGED <<identified, out, tcpIn, virt>>

(* The wait of identify ends: with an answer, or without one. *)
IdentifyEnds ==
  /\ Top("identify")
  /\ LET f == Head(stack)
     IN  IF f.res = None
           THEN Continue(<<[op |-> "delete", d |-> f.d]>>) /\ UNCHANGED device
           ELSE /\ device' = [device EXCEPT ![f.d].id = f.res]
                /\ Continue(<<[op |-> "identified", d |-> f.d]>>)
  /\ UNCHANGED <<backend, identified, out, tcpIn, virt>>

(* mutant: mIdentifiedDevices is not looked up after the wait. *)
RegisterUnchecked ==
  /\ Top("identified")
  /\ LET d == Head(stack).d
     IN  /\ identified' = [identified EXCEPT ![device[d].id] = d]
         /\ device' = [device EXCEPT ![d].hooked = TRUE]
         /\ Continue(<<[op |-> "describe", d |-> d]>>)
  /\ UNCHANGED <<backend, out, tcpIn, virt>>

(* addDeviceFromBackend, after identify: the device is new, or its backend *)
(* replaces the one of the device that is registered, or is refused.       *)
RegisterDevice ==
  /\ Top("identified")
  /\ LET d == Head(stack).d
         b == device[d].be
         old == identified[device[d].id]
         delete == [op |-> "delete", d |-> d]
         oldBe == device[old].be
     IN  \/ /\ old = None
            /\ identified' = [identified EXCEPT ![device[d].id] = d]
            /\ device' = [device EXCEPT ![d].hooked = TRUE]
            /\ Continue(<<[op |-> "describe", d |-> d]>>)
            /\ UNCHANGED backend
         \/ /\ old # None
            /\ oldBe # None => ShouldReplace(oldBe, b)
            /\ device' = [device EXCEPT ![d].be = None]
            /\ backend' = [backend EXCEPT ![b].owner = None]
            /\ LET assign == [op |-> "assign", d |-> old, b |-> b]
               IN  Continue(IF oldBe = None THEN <<assign, delete>>
                            ELSE <<[op |-> "destroy", b |-> oldBe], assign, delete>>)
            /\ UNCHANGED identified
         \/ /\ old # None
            /\ oldBe # None /\ ~ShouldReplace(oldBe, b)
            /\ Continue(<<delete>>)
            /\ UNCHANGED <<backend, device, identified>>
  /\ UNCHANGED <<out, tcpIn, virt>>

(* The queries of onDeviceReIdentifiedPrivate, or those made when the      *)
(* device got connected, return.                                           *)
Described ==
  /\ Top("describe")
  /\ Continue(<<>>)
  /\ UNCHANGED <<backend, device, identified, out, tcpIn, virt>>

(* mutant: the destructor leaves the backend. *)
DeleteDeviceOnly ==
  /\ Top("delete")
  /\ LET d == Head(stack).d
         b == device[d].be
     IN  /\ device' = [device EXCEPT ![d] = [st |-> "dead", id |-> None, be |-> None,
                                             connected |-> FALSE, hooked |-> FALSE]]
         /\ backend' = IF b = None THEN backend ELSE [backend EXCEPT ![b].owner = None]
  /\ Continue(<<>>)
  /\ UNCHANGED <<identified, out, tcpIn, virt>>

(* ~RealDevice of a device that is not in the registry. *)
DeleteDevice ==
  /\ Top("delete")
  /\ LET d == Head(stack).d
         b == device[d].be
     IN  /\ device' = [device EXCEPT ![d] = [st |-> "dead", id |-> None, be |-> None,
                                             connected |-> FALSE, hooked |-> FALSE]]
         /\ IF b = None
              THEN Continue(<<>>) /\ UNCHANGED backend
              ELSE /\ backend' = [backend EXCEPT ![b].owner = None]
                   /\ Continue(<<[op |-> "destroy", b |-> b]>>)
  /\ UNCHANGED <<identified, out, tcpIn, virt>>

(* A destructor emits destroyedBeforeQObject(): first to its device        *)
(* (RealDevice::onBackendDestroyed; setBackend(0) finds no backend any     *)
(* more), then to the registry, which checks the ports again.              *)
DestroyBackend ==
  /\ Top("destroy")
  /\ LET b == Head(stack).b
         r == backend[b]
         d == r.owner
         freed == <<[op |-> "freed", b |-> b]>>
     IN  /\ backend' = [backend EXCEPT ![b].st = "dying", ![b].open = FALSE]
         /\ device' = IF d = None THEN device
                      ELSE [device EXCEPT ![d].be = None, ![d].connected = FALSE]
         /\ out' = IF r.hooked /\ r.kind = "tty"
                     THEN [out EXCEPT ![r.key] = None] ELSE out
         /\ tcpIn' = IF r.hooked THEN tcpIn \ {b} ELSE tcpIn
         /\ virt' = IF r.hooked /\ r.kind = "virtual"
                      THEN [virt EXCEPT ![r.key] = None] ELSE virt
         /\ Continue(IF r.hooked /\ r.kind = "tty" THEN Check(Ports) \o freed
                     ELSE freed)
  /\ UNCHANGED identified

BackendFreed ==
  /\ Top("freed")
  /\ backend' = [backend EXCEPT ![Head(stack).b] = Freed]
  /\ Continue(<<>>)
  /\ UNCHANGED <<device, identified, out, tcpIn, virt>>

(* mutant: the new backend counts as connected without isConnected(). *)
AssignConnected ==
  /\ Top("assign")
  /\ LET d == Head(stack).d
         b == Head(stack).b
     IN  /\ device' = [device EXCEPT ![d].be = b, ![d].connected = b # None]
         /\ backend' = IF b = None THEN backend
                       ELSE [backend EXCEPT ![b].owner = d]
  /\ Continue(<<>>)
  /\ UNCHANGED <<identified, out, tcpIn, virt>>

(* setBackend, after the old backend is gone: the new one takes its place, *)
(* whatever place that is now.  A device that gets connected by it emits   *)
(* connected(), and the queries of ServerInstance::onDeviceIdentified wait *)
(* before setBackend returns.                                              *)
AssignBackend ==
  /\ Top("assign")
  /\ LET d == Head(stack).d
         b == Head(stack).b
         up == b # None /\ backend[b].open
     IN  /\ device' = [device EXCEPT ![d].be = b, ![d].connected = up]
         /\ backend' = IF b = None THEN backend
                       ELSE [backend EXCEPT ![b].owner = d]
         /\ Continue(CASE device[d].connected /\ ~up /\ b # None ->
                              <<[op |-> "destroy", b |-> b],
                                [op |-> "assign", d |-> d, b |-> None]>>
                       [] ~device[d].connected /\ up ->
                              <<[op |-> "describe", d |-> d]>>
                       [] OTHER -> <<>>)
  /\ UNCHANGED <<identified, out, tcpIn, virt>>

(* mutant: without the test of the QPointer. *)
ListUnchecked ==
  /\ Top("list")
  /\ LET b == Head(stack).b
         r == backend[b]
     IN  /\ backend' = [backend EXCEPT ![b].hooked = TRUE]
         /\ out' = [p \in Ports |-> IF p = r.key THEN b ELSE out[p]]
         /\ tcpIn' = IF r.kind \in {"tty", "virtual"} THEN tcpIn ELSE tcpIn \cup {b}
         /\ virt' = [id \in Ids |-> IF id = r.key THEN b ELSE virt[id]]
  /\ Continue(<<>>)
  /\ UNCHANGED <<device, identified>>

(* addOutDevice, onNewTcpDeviceConnected and registerVirtualDevice, after  *)
(* addDeviceFromBackend: a backend that is still there is listed.          *)
ListBackend ==
  /\ Top("list")
  /\ LET b == Head(stack).b
         r == backend[b]
     IN  IF r.st # "live" THEN UNCHANGED <<backend, out, tcpIn, virt>>
         ELSE /\ backend' = [backend EXCEPT ![b].hooked = TRUE]
              /\ out' = IF r.kind = "tty" THEN [out EXCEPT ![r.key] = b] ELSE out
              /\ tcpIn' = IF r.kind = "tcp" THEN tcpIn \cup {b} ELSE tcpIn
              /\ virt' = IF r.kind = "virtual" THEN [virt EXCEPT ![r.key] = b]
                         ELSE virt
  /\ Continue(<<>>)
  /\ UNCHANGED <<device, identified>>
-----------------------------------------------------------------------------
(***************************************************************************)
(* Events.                                                                 *)
(***************************************************************************)
(* setupControllers: /dev has changed. *)
CheckDevicesFromConfig ==
  /\ "tty" \in Kinds
  /\ Unused # {}
  /\ Handle(Check(Ports))
  /\ UNCHANGED <<backend, device, identified, out, tcpIn, virt>>

NewTcpDeviceConnected ==
  /\ "tcp" \in Kinds /\ Unused # {}
  /\ \E id \in Ids : Create("tcp", None, id, TRUE)
  /\ Handle(AddAndList(NewBackend))
  /\ UNCHANGED <<device, identified, out, tcpIn, virt>>

RegisterVirtualDevice(id) ==
  /\ "virtual" \in Kinds /\ Unused # {}
  /\ virt[id] = None
  /\ Create("virtual", id, id, TRUE)
  /\ Handle(AddAndList(NewBackend))
  /\ UNCHANGED <<device, identified, out, tcpIn, virt>>

(* deviceById of an identifier that is not registered. *)
DeviceById(id) ==
  /\ identified[id] = None
  /\ Handle(<<>>)
  /\ identified' = [identified EXCEPT ![id] = id]
  /\ device' = [device EXCEPT ![id] =
       [st |-> "live", id |-> id, be |-> None, connected |-> FALSE, hooked |-> TRUE]]
  /\ UNCHANGED <<backend, out, tcpIn, virt>>

(* An answer to identify, for any of the calls that wait. *)
DeviceInfo(i) ==
  /\ Waiting
  /\ i \in 1..Len(stack)
  /\ stack[i].op = "identify" /\ stack[i].res = None
  /\ LET d == stack[i].d
     IN  /\ device[d].connected
         /\ backend[device[d].be].open
         /\ stack' = [stack EXCEPT ![i].res = backend[device[d].be].id]
  /\ UNCHANGED <<backend, device, identified, out, tcpIn, virt>>

(* A connection is lost; disconnected() of a socket is queued. *)
ConnectionLost(b) ==
  /\ Waiting
  /\ backend[b].st = "live" /\ backend[b].kind = "tcp" /\ backend[b].open
  /\ backend' = [backend EXCEPT ![b].open = FALSE]
  /\ UNCHANGED <<device, identified, out, tcpIn, virt, stack>>

(* disconnected(): queued by a socket, emitted at once by a serial port    *)
(* that goes away and by a virtual device that its owner disconnects.      *)
BackendDisconnected(b) ==
  /\ backend[b].st = "live"
  /\ backend[b].kind # "tcp" <=> backend[b].open
  /\ ~backend[b].said
  /\ backend' = [backend EXCEPT ![b].open = FALSE, ![b].said = TRUE]
  /\ LET d == backend[b].owner
     IN  IF d = None THEN Handle(<<>>) /\ UNCHANGED device
         ELSE device' = Offline(d) /\ Handle(Dropping(d))
  /\ UNCHANGED <<identified, out, tcpIn, virt>>

(* onSyncTimer of a device that has been silent: forceDisconnect closes a  *)
(* serial port without a signal, then onDisconnected is called.            *)
SyncFailed(d) ==
  /\ device[d].connected /\ device[d].be # None
  /\ backend' = [backend EXCEPT ![device[d].be].open = FALSE]
  /\ device' = Offline(d)
  /\ Handle(Dropping(d))
  /\ UNCHANGED <<identified, out, tcpIn, virt>>
-----------------------------------------------------------------------------
Run ==
  \/ CheckPort
  \/ AddDevice
  \/ IdentifyEnds
  \/ RegisterDevice
  \/ Described
  \/ DeleteDevice
  \/ DestroyBackend
  \/ BackendFreed
  \/ AssignBackend
  \/ ListBackend

Next ==
  \/ Run
  \/ CheckDevicesFromConfig
  \/ NewTcpDeviceConnected
  \/ \E id \in Ids : RegisterVirtualDevice(id) \/ DeviceById(id)
  \/ \E i \in 1..Len(stack) : DeviceInfo(i)
  \/ \E b \in Backends : ConnectionLost(b) \/ BackendDisconnected(b)
  \/ \E d \in Objects : SyncFailed(d)

Spec == Init /\ [][Next]_vars
-----------------------------------------------------------------------------
(* The types of the registry, of its devices and backends and of the stack. *)
TypeOK ==
  /\ backend \in [Backends -> BackendRecord]
  /\ device \in [Objects -> DeviceRecord]
  /\ identified \in [Ids -> Objects \cup {None}]
  /\ out \in [Ports -> Backends \cup {None}]
  /\ tcpIn \in SUBSET Backends
  /\ virt \in [Ids -> Backends \cup {None}]
  /\ stack \in Seq(Frame)
-----------------------------------------------------------------------------
Live(b) == backend[b].st = "live"

Frames == {stack[i] : i \in 1..Len(stack)}

(* The state has its types, and no list, device or suspended function      *)
(* keeps a backend or a device that has been deleted: handlers run while   *)
(* others wait with these pointers on their stacks, and only addOutDevice, *)
(* onNewTcpDeviceConnected and registerVirtualDevice test theirs           *)
(* (QPointer).                                                             *)
NoDangling ==
  /\ TypeOK
  /\ \A b \in {out[p] : p \in Ports} \cup tcpIn \cup {virt[id] : id \in Ids} :
       b # None => Live(b)
  /\ \A id \in Ids : identified[id] # None => device[identified[id]].st = "live"
  /\ \A d \in Objects : device[d].be # None => Live(device[d].be)
  /\ \A b \in Backends : Live(b) /\ backend[b].owner # None
                             => device[backend[b].owner].st = "live"
  /\ \A f \in Frames :
       CASE f.op \in {"add", "destroy"} -> Live(f.b)
         [] f.op \in {"list", "freed", "check"} -> TRUE
         [] f.op = "assign" -> /\ device[f.d].st = "live"
                               /\ f.b # None => Live(f.b)
         [] OTHER -> device[f.d].st = "live"

(* A device that the server knows is the only one with its identifier, and *)
(* mIdentifiedDevices leads to it: two connections of one device that are  *)
(* identified at the same time, or deviceById meanwhile, give one object.  *)
OneDevicePerId ==
  \A d \in Objects :
    device[d].hooked => device[d].id # None /\ identified[device[d].id] = d

(* When the handlers have returned, no half-identified device and no       *)
(* unlisted backend is left behind.                                        *)
NoLeak ==
  stack = <<>> =>
    /\ \A d \in Objects : device[d].st = "live" => device[d].hooked
    /\ \A b \in Backends : Live(b) => backend[b].owner # None /\ backend[b].hooked

ConnectedIsHonest ==
  \A d \in Objects :
    device[d].hooked /\ device[d].connected =>
      /\ device[d].be # None
      /\ LET r == backend[device[d].be]
         IN  /\ r.owner = d
             /\ r.open \/ (r.kind = "tcp" /\ ~r.said)

LinkIsOfItsDevice ==
  \A b \in Backends :
    LET d == backend[b].owner
    IN  Live(b) /\ d # None /\ device[d].hooked => backend[b].id = device[d].id

(* A known device that counts as connected has a connection that is open,  *)
(* or whose end it is still going to hear of; and whatever a known device  *)
(* receives comes from the device with its identifier, however its         *)
(* connections were replaced.                                              *)
LinksAreHonest == ConnectedIsHonest /\ LinkIsOfItsDevice

(* The only connection of a known device, while it is open, is destroyed   *)
(* for nothing but one of a preferred kind (DeviceTypesPriority).  With a  *)
(* second one (see ListedPortIsUsed) it is also destroyed when the other   *)
(* is lost: both call onDisconnected.                                      *)
OnlyPreferredReplaces ==
  [][\A b \in Backends :
       LET d == backend[b].owner
       IN  /\ Live(b) /\ backend[b].open /\ d # None /\ device[d].hooked
           /\ \A c \in Backends : Live(c) /\ backend[c].owner = d => c = b
           /\ backend'[b].st = "dying"
           => \E c \in Backends : /\ stack[2] = [op |-> "assign", d |-> d, b |-> c]
                                  /\ Priority(c) > Priority(b)]_vars

(* Claim of Devices.h on addDeviceFromBackend: it connects and identifies  *)
(* a device and destroys the backend if the device has a preferred one; so *)
(* a backend that it leaves is the one its device uses.  When a lost       *)
(* connection is destroyed by setBackend(0), the port is opened again from *)
(* inside, and setBackend then clears the new connection.                  *)
ListedPortIsUsed ==
  stack = <<>> =>
    \A p \in Ports :
      LET b == out[p]
      IN  b # None /\ backend[b].open => device[backend[b].owner].be = b
=============================================================================
