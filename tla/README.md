# A verification of the WLIOT framework

WLIOT (`ooolms/wl_iot_framework`) connects devices (Arduino boards, TCP devices,
hubs, virtual devices) to a server that identifies them, stores what their sensors
measure and lets clients and programs command them. This directory holds TLA+
modules for its core logic, TLC configurations that check them on small instances
and TLAPS proofs. `PROJECT.json` maps every definition to the lines it models and
lists the runs, the hazards and the theorems.

## 1. The system

| part | where (under `src/`) | state | operations | hard behaviour | module |
| --- | --- | --- | --- | --- | --- |
| **RealDevice, CommandCall** | `wliotproxy-src-base/libwliotproxy-base/{src,include/wliot}/devices` | connection, identifier, cached descriptions and state, sync countdown, commands in progress | `setBackend`, `takeBackend`, `identify`, `execCommand`, `getState`, ...; slots for messages, resets, timers | synchronous operations block in nested event loops: any other event and operation runs inside them; late answers; resets; backends destroyed under a command | `RealDevice`, `CommandService` |
| **Hub devices** (`HubDeviceBackend`, `RealDevice::onHubMsg`) | same | table of child backends | identified, lost, forced disconnect, relay | children deleted from inside their own signals | - |
| **StreamParser, Message**, the server's end of a link | same | parser state, current message | `pushData`, `dump`, escapes | split and re-entrant delivery, zero bytes | `DeviceLink` |
| **Device libraries** | `libwliotproxy-simple`, `ArduinoIdeLibrary/ARpc` | a buffer of fixed size, the number of the call being answered | parse, dispatch, answer, measure | never told of a new connection; the buffer runs full; restarts in the middle of a message | `DeviceLink` |
| **Backends** (`SerialDeviceBackend`, `TcpDeviceBackend`, ..., `SerialDriver`) | `wliotproxy-src-base/libwliotproxyd/src` | open or closed port or socket | open, close, read (signals, some queued) | data that arrives after the close | events of `RealDevice`, `Devices` |
| **Devices** (the registry) | `wliotproxy-src-server/wliotproxyd/Devices.cpp` | identified devices, devices by backend, virtual devices, in and out lists | add, identify, re-identify, disconnect, replace | its handlers wait in nested loops while devices come and go | `Devices` |
| **Storages** (`LastNValuesStorage`, `ContinuousStorage`, `SessionStorage`) over **DB drivers** (`DBDriverFixedBlocks`, `DBDriverChainedBlocks`, `DBDriverGTimeIndex`) | `wliotproxy-src-base/libwliotproxyd/src` | files, indices, counters, sessions | create, open, close, write, read, sessions, attributes | several files written one after the other; a stop in between; torn blocks; stale counters | `LastNValuesStorage`, `BlockFiles`, `ContinuousStorage`, `ValueLog`, `SessionStorage` |
| **Storages database** (`FSStoragesDatabase`, `FSSensorStorageHelper`, ...) | same | directory of storages | create, remove, open, names | directory and table disagree | - |
| **Data collection** (`DataCollectionUnit`, `ServerInstance`) and the session commands | `wliotproxy-src-server/wliotproxyd` | units by device and sensor, open storages | start and stop with the device's life, write | units are deleted later (`deleteLater`) than they are replaced | `DataCollection` |
| **CommandProcessor** and commands | `wliotproxy-src-server/wliotproxyd/{CommandProcessor.cpp,Commands}` | user, sync count, subscriptions, virtual devices | authenticate, execute, register, disconnect | deleted while a command works; virtual devices of a client that leaves | `CommandProcessor` |
| **AccessMgr** | `wliotproxy-src-server/wliotproxyd/AccessManagement` | users, groups, owners, rules, compiled policies | create, change, authorise, save and load | compiled policies against rules; several files; restart | `AccessMgr` |
| **Client library** (`ServerConnection`, `ServerCommandCall`, `DevicesList`, ...) | `wliotproxy-src-client/libwliotproxy` | socket, user, calls, list of devices | connect, authenticate, call, reconnect, reload | calls that wait while the connection is lost and made again; the list against notifications | `ServerConnection` |
| **VDIL** (`Program`, `BaseBlock`, the core blocks) and the process of a program (`wliotproxy-run-vdil`: `EngineRun`, `TimersThread`) | `wliotproxy-src-base/libVDIL`, `libVDIL-core-blocks`, `wliotproxy-src-server/wliotproxy-run-vdil` | dataflow graph, inputs, triggers, timers, a mutex | trigger, extract, prepare, evaluate, clean up | activations nest inside the waits of others; a thread polls timers without a lock | `EngineRun` |
| **Programs and scripts** (`BaseProgramsManager`, `JSProcessing`) | `wliotproxy-src-server/wliotproxyd/{Processing,JSProcessing,VDILProcessing}` | programs, auto-start list, configuration | add, start, stop, update, remove | files, processes and configuration disagree | - |
| StarNet bus, external services, UI, generators, CLI, example sketches, tests | `ArduinoIdeLibrary`, `wliotproxy-src-server`, `wliotproxy-src-base/libwliotproxy-ui*`, `TestDeviceWithUi`, `HubRS485_*`, `wliotproxy-src-tests` | - | I/O, layout | - | - |

The parts meet as follows. A backend hands bytes to the `StreamParser`, whose messages
a `RealDevice` handles. `Devices` owns the `RealDevice`s and moves backends between
them; its signals `deviceIdentified` and `deviceDisconnected` reach `ServerInstance`,
which starts and ends the collection of data, and the `CommandProcessor`s, which tell
their clients. A client's commands call `Devices`, `RealDevice`, the storages and
`AccessMgr`. The client library mirrors the server's devices in a list of its own. VDIL
programs run in processes of their own that are clients, too.

What makes each part correct, in short:

- **RealDevice**: what it keeps is about the device that is connected now; a command
  ends at most once, with its own answer; nothing stays blocked on a silent device.
- **The link**: what was written is handled once and in order, and whole, however it is
  cut; a new connection and a restart cost at most one message each; an answer is to a call
  that the device has handled.
- **Devices**: one object per identifier, no pointer to anything deleted, no open
  connection without an owner, the preferred connection wins.
- **Storages**: a value stays at its place, unchanged; a stop of the program loses at most
  the one written last, unless it leaves files that `open()` refuses; memory, data and
  index agree.
- **Data collection**: a unit writes to a session that is open, nothing that was stored
  changes, and no session that is written is removed.
- **CommandProcessor**: nothing of a client survives it; what waits was permitted to
  the user that the connection still has.
- **AccessMgr**: the server starts again with the same rules, unless a file was written
  in part or the users are lost, and no number of a user is given twice.
- **Client library**: ready means authenticated; once nothing is under way, its devices
  are the server's.
- **VDIL**: no trigger is lost, commands are given with the data of their own
  evaluation, every activation ends.

## 2. What is modelled

Two things shape almost every module.

*Nested event loops.* Qt's event loop is the scheduler of every process here, and what
looks synchronous (`identify()`, `getState()`, `exec_command`, a client's call) waits in
a nested `QEventLoop`. So each module has a stack of the functions that wait or of what
the active functions have left to do (`waits`, `stack`, `chunks`, `todo`), only the
innermost goes on, and an event may be handled in its loop. Between a read before a wait
and its use after it anything may have happened; the properties are about this.

*Files and stops.* What a program writes reaches the disk in steps, each may fail, and
the program may stop between any two. The storages and `AccessMgr` have one action per
operation on a file, and `Crash` or `Stop` between them.

A history variable records what the code does not keep and the properties need: what
overtook an answer, how often something failed, which numbers were ever given.

### RealDevice (`RealDevice.tla`, `CommandService.tla`, `MCRealDevice.tla`)

One `RealDevice`, its `CommandCall`s, the backend below it and the device at the far
end. An action is one event: a slot, a timer, the start of a synchronous operation, or
the return of the innermost `wait()`. The handlers call each other, so each is an
operator from the object's state, the record `dev`, to its next state.

| in the module | in the code |
| --- | --- |
| `dev.call`, `Run`, `Finish`, `OnError`, `CallTimeout` | `CommandCall`: state, result, timer; `run`, `onOkMsg` and `onErrorMsg`, `onError`, the timer |
| `dev.exec` | `execCommands`, call numbers to commands in progress |
| `dev.loaded`, `dev.cache` | `mSensorsLoaded`, `mControlsLoaded`, `mStateLoaded` and what they guard |
| `Identify`, `Query`, `Exec`, `Return` | `identify`, `getSensorsDescription` / `getControlsDescription` / `getState`, `execCommand`; what follows their `wait()` |
| `Deliver` | `onNewMessage`: ok, err, deviceinfo, statechanged, syncr; `onDeviceReset` |
| `AttachBackend`, `BackendConnected`, `BackendDisconnected`, `BackendDestroyed`, `BackendTaken` | `setBackend`, `onConnected` until it emits `connected()`, `onDisconnected`, `onBackendDestroyed`, `takeBackend` |
| `greeting`, `InLoop`, `ConnectedReturns` | `onConnected` suspended in `emit connected()` (`RealDevice.cpp:178`): those who receive it ask the device and wait (`ServerInstance.cpp:66`, `231`) before it resets the object and starts the sync timer; until they wait or are done, no event is handled |
| `SyncTimeout`, `OnCommandDone` | `onSyncTimer`; `onCommandDone`, a queued slot |
| `DeviceSyncs`, `DeviceAnswers`, `DeviceChanges`, `DeviceResets`, `LinkCloses` | the device and the transport (external): a call that was written is answered late or never, and `identify`, which a reset writes again, once for each time |

`CommandService` is the abstract specification: a command is carried at most once, only
while the device is connected; it succeeds only with an answer to this very command on
the link that carried it; its outcome does not change. The refinement mapping is at the
end of `RealDevice`.

`hist` excuses what no code can repair or what the headers disagree with (section 5):
`tainted`, a state or description taken from an answer that a reset, a change or the
loss of the link had overtaken after it arrived and before its `wait()` returned;
`orphans`, the calls whose backend was destroyed under them. So neither `StateIsCurrent` nor
`DescriptionsAreOfThisDevice` says anything of a value overtaken in this way, which
`getState` and the others do keep. They speak of all that may go wrong otherwise: what is
cached before, between and after such a wait, by the other waits around it, on a new
link, and while `connected()` is being received, when the object has not yet been reset.

### The link of a device (`DeviceLink.tla`, `MCDeviceLink.tla`)

The bytes between the server and one device, with both parsers: `StreamParser` of the
base library, whose `pushData` emits `newMessage` before it has parsed the rest (`chunks`),
and the one of `libwliotproxy-simple`, with one buffer of `bufSize` bytes and offsets for
the arguments. The server writes `identify`, calls with a function and arguments
(`CommandCall::run`) and `#identify_hub`. `DeviceReads` parses some bytes and, at the end of
a message, dispatches it as `RealDeviceMessageDispatch::processMessage` does and writes the
answer; `callId` is the pointer `callIdStr`, a place in the buffer that is read when the
answer is written (`CallId`). `ServerReads` and `ReceiverReturns` are a call of `pushData` and
the return of a receiver that waited. `DeviceRestarts`, `PortOpenedAgain` and
`SocketOpenedAgain` cut the link where it hurts: in the middle of a message, on one or both
sides. A device that restarts is in its `setup()` (`starting`), where it may write messages
(`MotorControlEthernet.ino:161`); `SetupEnds` writes the zero byte of `resetStream()` or, as
`HubRS485_Mega.ino:112`, none. `SocketOpenedAgain` is a sketch that resets its parser and its
stream for a new client (`MotorControlEthernet.ino:193`); a device that does not
(`Device.cpp:69`, or `resetParser()` alone) is a `PortOpenedAgain`, which keeps the device's
buffer and loses any part of what was under way. Every byte carries the number of its
message, which only the properties read: they compare what was handled with what was
written.

### Devices (`Devices.tla`, `MCDevices.tla`)

The registry with its `RealDevice` objects reduced to what it uses of them (identifier,
backend, connected), and the backends (serial, incoming TCP, virtual). A handler of
`Devices` may wait in `identify()` or `getSensorsDescription()`, and a destructor may
emit signals whose slots open a port and identify again; `stack` therefore holds the
rest of every active function, and an event is handled when the stack is empty or its
head waits. `AddDevice`, `IdentifyEnds`, `RegisterDevice`, `Described` and `DeleteDevice`
are `addDeviceFromBackend` from wait to wait; `DestroyBackend`, `BackendFreed` and
`AssignBackend` are the destructor of a backend and the two halves of `setBackend` around
it. A function that goes on after a call with a pointer it has read before does so in
the model too, and `NoDangling` says that the pointer is alive. A device object bears the
name of what it was made for, a backend (`addDeviceFromBackend`) or an identifier
(`deviceById`), each of which makes one at most.

### LastNValuesStorage (`LastNValuesStorage.tla`)

The circular buffer of a sensor's last N values in one file of fixed blocks
(`DBDriverFixedBlocks`) or in N files, `db.index`, and the copy in memory. `at` is the
position inside `writeSensorValue` or `create`, one step per operation on a file; each
may fail, and `Crash` may come between any two. The blocks that `create()` writes stay
in `QFile`'s buffer until the first read, write or close (`flushed`).

### ContinuousStorage (`BlockFiles.tla`, `ContinuousStorage.tla`, `ValueLog.tla`)

`BlockFiles` has the two formats of a file of blocks and the drivers that append to it,
as operators on a file and a driver: `Created`, `OpenDriver`, `Written`, `AfterAppend`
(what a stop leaves of a block that was in the buffer: all, nothing, a part).
`ContinuousStorage` uses them for `data.db` and `index.db`: `CreateData`, `CreateIndex`,
`SaveSettings` are `create()` in its order, `WriteValue`, `IndexAdd`, `IndexTime`,
`IndexPosition` are `writeSensorValue()` in its order, and `Search` is the search by
halves in the time index. `ValueLog` is what such a storage promises those who read it: a
log that only grows, of which a stop loses or damages the last value. One thing more may
happen, and the log says so: a block of fixed size that is cut (`DBDriverFixedBlocks.cpp:254`),
in `data.db` or in the index, or a size that is cut (`DBDriverChainedBlocks.cpp:118`), makes
`open()` refuse the files for good, and so does a stop within `create()`; nothing in the
repository repairs them. The log of such files is empty (`Refused`, `StopForGood`), and that
this happens only while a value is being written, or before there is any, is what is checked.

### SessionStorage and data collection (`SessionStorage.tla`, `DataCollection.tla`, `MCDataCollection.tla`)

`SessionStorage` has the directories of the sessions, the session that is written and
the sessions that are read, each with a driver and attributes of its own.
`DataCollection` extends it with the life of a device's `DataCollectionUnit`:
`DeviceConnected`, `UnitMade` (after a nested wait for the description of the sensors),
`DeviceLost`, `DeviceReplaced`, and `UnitDeleted`, the destructor that closes the write
session. `deleteLater()` takes effect in the event loop it was called in or an outer one,
before other events of that loop; `dying` says which. The commands on sessions are those
that `SessionStorageCommands` offers, and only in the modes in which it offers them.

### AccessMgr (`AccessMgr.tla`)

Users, groups, owners, rules and the policies compiled from them, and the files. A
command changes memory and leaves in `todo` the files it then writes; a file is truncated
(`Truncate`), then written (`WriteFile`), or written in part, which nobody notices
(`WritePart`: the first lines, and of the next one as much as can still be read or, in
`disk.torn`, as cannot), or cannot be opened (`WriteFails`: changes of users and groups
are undone to `before`, others stay in memory); `Stop` may come between. `Start` is
`readConfig` when no file is refused; `WriteRoot` is what `readUsers` writes before the
other files are read, and remains of a start that they refuse. `issued` are the ids that
were ever given to a file; at a stop it forgets those that are lost with the file and that
`max_uid_gid` could not be given before (`StillKnown`): these are given again. It takes two
failures. `unsaved` are the files that hold other than memory since a failure.

`ServerStartsAgain` names what can keep the server from starting: a torn line, a user who
was given to the users' file and is not in it any more, a group without members, a rule
for a group. `OwnRulesSurviveRestart` compares what a user may do with what the files
would give him: a start adds the flags that others imply (`AccessMgr.cpp:864`), which
`setDevicePolicyForUser` does not (line 668), so that a user may read the state of a
device after a restart, by a rule that lets him execute commands, and not before it.

### CommandProcessor (`CommandProcessor.tla`, `MCCommandProcessor.tla`)

The server's side of the clients: connections, users, subscriptions, the sync timer and
the virtual devices, with the part of the registry that these meet (`virt`, `object`).
`exec_command` and `register_virtual_device` wait; a frame of `stack` is such a command.
`Scheduled` and `Ended` are `scheduleDelete` and `~WorkLocker`: a processor is deleted
after its last command, by a `deleteLater()` that only the loop it was posted in, or an
outer one, carries out (`del`). What follows a command in data that have arrived already
is handled even if the client has left meanwhile (`busy`). `spoiled` excuses a device
that one client registered twice, or whose backend closed between its answer and its
listing: the hazards at `CommandProcessor.cpp:122` and `Devices.cpp:172`.

### The client (`ServerConnection.tla`, `MCServerConnection.tla`)

`ServerConnection`, `ServerCommandCall` and `DevicesList` in one thread, the socket in
another. `queue` is the order in which Qt hands posted events to the client's thread;
what the client posts to itself (`Own`) is handled before a wait tests its end. Calls that
are told the same at once (a disconnection, a new user) share an event, as no event between
theirs could tell the difference. A socket
that is closed by the other side reports an error, then its end, or its end alone; one
that could not be made reports an error alone. The server answers the calls of a
connection in order. `stack` holds the calls that wait and the loops over lists that go on
after each nested wait. `history` has what the code gets wrong, so that the properties can
except exactly it: `crossed`, an authentication of an earlier connection that returned into
the present one, or one that returned inside another; `late`, an answer that came after its
call had ended; `stale`, devices about which the list is wrong until a later message mends
it. A device gets stale in three ways. (1) Its loss, or the connection's, is handled while
its first identification waits: `onDeviceLostFromServer` does not find it in the list
(`DevicesList.cpp:181`), and `onDeviceIdentifiedFromServer` then enters it as connected
(`:165`). This is the plainest way in which a client's list goes wrong, it needs nothing but
a device that comes and goes quickly, and the run excepts it rather than shows it absent.
(2) A notification contradicts an older list that is still being applied
(`Results`, `Outdated`), or such a list is left over when the connection is lost. (3) The list
could not be had. What is left of the property: a notification that does not contradict
what is on its way, every identification of a device that the list has, and every list
without news about the device inside it leave the list as the server's; and a new list or
notification mends a stale device (`OnAnswer`, `Notified`).

### VDIL (`EngineRun.tla`, `MCEngineRun.tla`)

The process of one program. Triggers (`CommandArrives`, `NewValue`, `TimerDue`) set a
flag and queue an activation; `Activate` unfolds `onActivateProgram` into the statements
that it executes (`todo`): take the mutex, extract every source, release, prepare, evaluate
the sources (whose outputs set inputs, which evaluate blocks), wait for the timers of
delays, clean up. A loop over the sources is one statement, at the source that it has come to
(`Each`, `Later`). A storage is asked of the server while the mutex is held ("fetch"), a
command may wait for its answer ("ask"): both wait in nested loops. `ExtractTimer` and
`ClearTimer` are the two statements of `TimerBlock::extractDataInternal`, which the thread
of the timers may come between. The block kinds are a timer, a command for the virtual
device, a storage, a gate, a delay, and commands that wait or do not.

### Runs

| run | what it asks | instance | states |
| --- | --- | --- | --- |
| `device_knowledge` | is what the object keeps (state, descriptions, identifier) the connected device's, up to changes under way? | two devices, two values, two queries, two links, a reset | 1,313,926 |
| `device_commands` | do commands find their answers, end with the link and keep their outcome; does every wait on a silent device end (liveness); does RealDevice implement `CommandService`? | two commands, with and without timer, two links, a reset | 226,076 |
| `device_link` | which messages are handled whole and in order, how many does a cut or a restart cost, and which calls are answered? | four messages, a command whose argument has a separator and one whose rest, past the buffer of six bytes, reads as a call, a measurement with a zero byte, two faults | 378,015 |
| `devices` | dangling pointers, duplicates, leaks, wrong replacements, messages of another device | one device over serial, TCP and virtual with three backends; two devices, two ports, two backends | 435,770 |
| `last_n` | memory against files, no stored value lost | three blocks, eight writes, both layouts | 255,988 |
| `continuous` | drivers against files, settings against files, index against data, the search; does it implement `ValueLog`? | four values, three times, two faults | 591,238 |
| `sessions` | drivers and attributes against files, stored values under units that come and go | two sessions, two values, one fault | 677,380 |
| `access` | does the server start again, with the same rules, and never give a number twice? | root and two users, one group, one device, two faults | 3,958,213 |
| `command_processor` | what outlives a client, and whose commands and devices are these? | two connections, two users, two virtual backends of one device, three waiting commands | 536,060 |
| `client` | ready against authenticated, the list of devices against the server's | three sockets, one device, two nested waits | 2,334,170 |
| `vdil` | lost triggers, commands with old data, activations that never end (liveness) | three programs, three triggers | 273,214 |
| `devices_port` | (expects a violation) is a listed port's backend the one its device uses? | one port, two backends | about 1,400 |

`devices_port`: `Devices.h:84` says that `addDeviceFromBackend` takes a backend for its
device or destroys it. When a serial connection is lost, `setBackend(0)` is suspended in
the destructor of the old backend, the port is opened and identified again inside, and
`setBackend` then overwrites the new backend (`RealDevice.cpp:76`): it stays open and
listed but no device uses it, and its end disconnects the device's healthy connection.

### Bounds, and why they are enough

*RealDevice.* A wait goes wrong when one operation overtakes another that is blocked:
two calls and two nested waits give all pairs; `MaxWire` = 2 lets two messages overtake a
`wait()`, two links give a change of device, one reset a repeated identification.
`SyncWaitIntervals` is 4 in the code, 1 and 0 in the runs: every value of the countdown
but the last behaves the same. `StateOrIdentity` splits `device_knowledge` into the
behaviours about the state and those about identity, which share no field of the object
but the link; their product would not fit. The first ends with its link, after which
`StateIsCurrent` says nothing until there is another. `LateDelivery` (a closed backend hands over
what it had queued) is FALSE in the runs and arbitrary in the proofs.

*DeviceLink.* A buffer of six bytes holds the shortest messages (a name is one character).
Of the commands one has a name that must be escaped; two fill the buffer with the separator
behind the name or the first argument, so that the rest reads as a call (`call|2|x`) or as
`identify_hub`, which are the cases to fear. Four messages reuse the place that `callIdStr`
points to more than once. `WrittenOrRead`: either much is written, with the server
reading the answers one by one (two messages with a fault, or with two if they fit; a third
or a fourth with one message under way in each direction); or one message, with the device
measuring and the bytes to the server cut anywhere and read in nested loops. The two parts
meet only in the answers, which both have.

*Devices.* Three backends are one that is replaced, one that replaces and one that comes
meanwhile; six frames are two nested identifications with a destructor between them, and
the bound only delays an event until the stack is shorter. `OneOrTwo`: either one device
with every kind of backend, or two devices with two backends, where what can go wrong is
that one takes the other's link.

*Storages.* LastN: three blocks are the least for which a wrap, a neighbour and an
untouched block differ; eight writes turn the buffer two and a half times. Continuous:
four values give the search two halvings and an index that is one or two entries out of
step; two faults a stop while the traces of another are still there. Sessions: one that is
written and one that is read or removed; a unit that is dying and the one that follows it.

*AccessMgr.* The rules of users do not interact but through groups; one group with root
and a user has members, a moderator and a user outside. One fault undoes or
cuts a command; with two, the second meets the traces of the first (an id that
`max_uid_gid` does not have, then a stop while the users are written; a users' file that
was cut, then the root that a start writes). Behaviours are unbounded but for the numbers
of users, groups and faults; with two users and one fault the same properties hold.

*CommandProcessor, client.* Records are used again once nothing refers to them, so
behaviours are unbounded. Two connections and three waiting commands let a connection
wait twice around a command of the other. `FewSubscriptions` keeps subscriptions, which
only `authenticate` looks at, out of the deepest stacks. Three sockets are the present one,
the one that a waiting call belongs to, and one before; `MaxQueue` bounds what server and
socket have posted when the server sends more: it delays the server, it drops nothing.

*VDIL.* Three triggers are two that an activation may mix up and one that comes in its
nested loop. The three programs are a timer beside a delayed command, an answer to wait for
beside a storage, and a command whose source comes after a storage: each pair of block
kinds that share a flag, an input, the mutex or a loop.

Symmetry is used over interchangeable devices, values, ports, sessions, sockets,
connections, users and backends, and never in a run with a liveness property or a
refinement. `CHECK_DEADLOCK FALSE` stands where the bounded instance may really stop:
everything used up and nothing connected (RealDevice, Devices, DeviceLink, EngineRun), no
value or session left (storages), or nobody connected and a command processor or client
with nothing to do. `last_n` checks deadlock: a stop is always possible.

### Fairness

Two specifications have any; the others only say what may never happen.

`FairSpec` of RealDevice: weak fairness of what the event loop delivers by itself:
`Return` (`wait()` tests its state after each event), `ConnectedReturns` (those who receive
`connected()` come to an end, or wait), `Deliver` (data that were read),
`SyncTimeout` and `CallTimeout` (`QTimer`), `BackendDisconnected` (the signal of a closed
backend) and `OnCommandDone` (a queued call). Users, devices and transports owe nothing:
the device may be silent for ever, which is what `SilenceReleasesWaiters` is about. While
`connected()` is being received nothing is owed but that its receivers wait or are done.
One wait does not end: a command without a timer that is started in the receivers' waits,
when the sync timer does not run yet. Its receivers cannot return, so that the timer is
never started. `SilenceReleasesWaiters` sets aside just this, `BeforeSyncTimer`, and what is
suspended around it; without the exception the run finds it.

`Spec` of EngineRun: `Step` (the thread goes on), `Activate` (queued calls), `TimerActivates`
(the timers' thread), `DelayFires` (`QTimer`), and `Answer(1)`: the innermost call to the
server ends, because the server answers or the connection is given up. An outer call
need not be answered before the inner one has returned. Triggers owe nothing.

## 3. What is proved

### RealDevice (`RealDeviceProofs`)

For every number of calls, nested waits, links and resets, any set of devices, values and
operations, and with late delivery or without, under `ConstantsAssumption`:

- `TypeCorrect`: `Spec => []TypeOK`. One lemma per handler says that it maps a well-formed
  object to a well-formed object; each action then combines the handlers its code calls.
  `TypeOK` is inductive by itself.
- `RegisteredCorrect`: `Spec => []PendingIsRegistered`, and `DisconnectCorrect`:
  `Spec => []DisconnectEndsCommands`. Neither is inductive. A queued `onCommandDone` removes
  a command, so one has to know that no queued one is about a command still in progress;
  a new command takes the next number, so one has to know that numbers in use lie below
  it; and a reset starts `identifyCall` again, so one has to know that no other command
  may be started again. `InProgress` says these three; `Commands` is its conjunction with the
  two properties. Each handler is shown to be a step that only `Ends` calls (it starts none
  but `identifyCall`), a relation that composes, so that a handler made of others takes its
  proof from theirs.
- `StateCorrect`: `Spec => []StateIsCurrent`, `DescriptionsCorrect`:
  `Spec => []DescriptionsAreOfThisDevice`, and `MismatchCorrect`:
  `Spec => []MismatchIsUnreachable`. Whether what is cached is right depends on
  answers that are still on their way, so the inductive invariant, `Knowledge`, follows
  what a device says from the wire to the call and to the cache. `Carried` and
  `WaitOnce`: each call is answered once and waited for once. `WireTells` and
  `WireDescribes`: what is under way is true of the device, unless a change or a reset
  overtakes it. `StateKnown` and `Described` say the same of calls that have succeeded and
  of the cache; `Described` also says what a late description may do to a nested wait:
  once one of a former device is cached, no query that the present one was given (`Asked`)
  waits for the same, so that the order in which waits return does not bring the two
  together. `Forgotten`: after a disconnection nothing is left but what is late; it is what
  makes a new link safe while `connected()` is being received and nothing was reset. Both
  theorems say nothing of a value overtaken between its arrival and the return of its
  `wait()`, as their properties do. `Identified`: the
  identifier is that of the last answer to `identify`.
- `ServiceCorrect`: `Spec => ImplementsCommandService`. A step either ends calls (`Quiet`:
  none succeeds and none is started, and a link that is lost leaves none in progress, or
  all), which is a step `Connect`, `Disconnect`, `Fail` or `Lose` of `CommandService` or
  none at all; or it starts one call (`ExecServes`), puts one answer on the wire
  (`AnswerServes`) or gives one call its answer (`SucceedServes`). `Commands` and `Carried`
  are what makes the answer found that of this very command.

### Devices (`DevicesProofs`)

For any devices, ports and kinds of connections, any number of backends and any depth of
nested handlers, under `ConstantsAssumption`: `DanglingCorrect`, `RegistryCorrect`,
`LeakCorrect`, `LinksCorrect` and `ReplacementCorrect`, the five properties of the run
`devices`. None is inductive: what is true between two steps of a handler depends on what
the suspended handlers are about to do. The inductive invariant `IInv` is a conjunction:

- `Stack` says of each suspended function what it may rely on when it goes on (`Fits`),
  that a device not yet registered, or a backend without an owner, is in the hands of one
  function only (`Apart`), and that only the innermost is at a step that does not wait
  (`Deep`).
- `Pending` is the other direction: whatever is not registered, owned or listed is in the
  hands of some function.
- `Links`, `Fields`, `Lists`, `Registry` and `Honest` relate devices, backends, lists and
  `mIdentifiedDevices`; `Destroying` says why a backend is being destroyed.

A step replaces the innermost function by some functions, or puts some above all that wait;
`StepInv` shows once what such a step has to respect of the functions below, and
each action is shown to be one. `DyingIs` adds, for the action property, that nothing but
its destructor ends a backend.

### LastNValuesStorage (`LastNValuesStorageProofs`)

For every capacity N > 0 and every number of writes, under `ConstantsAssumption`:

- `TypeCorrect`: `Spec => []TypeOK`; in particular the number of the oldest block never
  leaves 0..N-1. `TypeOK` is not inductive: a step in the middle of a write presupposes an
  open storage, and one with fixed blocks never writes a filler. `Steps` adds this.
- `MemoryAgrees`: `Spec => []MemoryIsDisk`. In the middle of a write memory and files
  disagree in a definite way, one block or one turn apart; `Turned` says for each step how
  far memory has followed, and while `create()` fills the buffer how much of it is
  written. The arithmetic of the turn is in `Place` and `Rotate`: turning by one moves
  every value one place forward, makes the oldest block the newest, and touches no other.
- `StoredCorrect`: `Spec => []StoredStay`. `Ring` relates each value to the file's order:
  a value of write w that lies d blocks after `Head`, the block that the next write takes,
  satisfies N + w <= d + `Coming`, where `Coming` is the number of the write that may move
  `Head` next. So the block a write takes holds nothing younger than N writes, and two
  values less than N writes apart never compete for a block, whatever fails between the
  write of a block and that of the number of the oldest one.

### ContinuousStorage (`ContinuousStorageProofs`)

For any set of times and any number of values, stops and failures, under
`ConstantsAssumption`:

- `TypeCorrect`, `DriverCorrect` (`Spec => []DriverKnowsFile`) and `SettingsCorrect`
  (`Spec => []SettingsHaveFiles`), from one inductive invariant: beside the three it says at
  which step of `create()` and `writeSensorValue()` which file exists and which driver is
  open, that a block in a buffer is the last one of its file, and that a driver is open
  wherever the next step uses it.
- `IndexCorrect`: `Spec => []IndexFollowsData`, from `Indexed` beside `IInv`: the settings
  agree with what is open (`Settled`), each entry that index and values are apart is paid
  for by a stop or a failure, at every step of `writeSensorValue` (`Distance`), and while
  there was none the entries of all values but the one being written are right in the
  file and in memory (`Exact`).
- `Refinement`: `Spec => ImplementsValueLog`. Every step of the storage is a step of
  `ValueLog` or leaves the log and what is durable of it unchanged: `WriteValue` stores,
  `ReadValue`, `Close` and `Restart` flush, `Crash` stops, and it stops for good, as
  `StopInCreate` does, where it leaves files that `open()` refuses. It needs `Indexed` too
  (what is open is not refused, and before the settings are saved there are no values), and
  `Buffered`: only the open storage has a value in its buffer, and it has one until its entry
  is in the index, so that a stop that cuts the index comes before that value is safe.
- `SearchCorrect`: `Spec => []SearchFinds`. `Search` is a recursive function on the spans of
  the index; the prover has no induction over it, so a least span that is searched wrongly
  is supposed and refuted (`LeastOf`, by the well-foundedness of the naturals): `SearchDefined`
  shows in this way that the recursion has a solution, `HalvingFinds` that each solution
  finds an entry of the time asked for, or the place where it would be.

Both proofs about files of blocks, this one and the next, begin with the same lemmas about
`BlockFiles`: what a write does to the file and its driver, and what a stop leaves of it.

### SessionStorage and data collection (`EventLoopProofs`)

For any sets of sessions, units and values and any number of stops, under `SessionAssumption`:
`DriversCorrect` (`CollectionSpec => []DriversFitFiles`), `AttributesCorrect`
(`CollectionSpec => []WriterHasAttributes`) and `ValuesCorrect` (`CollectionSpec =>
ValuesStay`). The inductive invariant `IInv` speaks of the storage alone, whatever units and
commands do with it:
`WriterFits` and `ReadersFit` say that each open driver has a file that fits its count,
`NamesAreFree` that a name without a directory has no file and no driver, so that a
session created anew collides with none that is open. One lemma for each operation of
the storage shows that it keeps this; a step of a unit or a command is then one or two
of them in turn. For `ValuesStay`, every step but the removal of a session and a stop is
shown to keep all blocks of all sessions (`KeepingStep`).

### AccessMgr (`AccessMgrProofs`)

For any number of users, groups, devices, stops, failures and partial writes, under
`ConstantsAssumption` and `NoneAssumption`:

- `TypeCorrect`: `Spec => []TypeOK`.
- `IdsCorrect`: `Spec => IdsAreNew`. `Saved` says how far memory is ahead of `before`
  and of the files while a command writes; `Numbered`, that every id in `issued` is
  covered by `max_uid_gid` or by the users and groups stored, unless their file is lost,
  and that the last id in memory is at least all of these, the one of `before` too until a
  file is written. That a start finds the greatest of a set of numbers
  (`MaxIsGreatest`) is proved by well-foundedness, in place of an induction.
- `FatalCorrect`: `Spec => []ServerStartsAgain`, from `Named` beside them: every user
  whom groups, owners and rules name, in memory and in files, was once given to the users'
  file. What the three ways to write a file may make of it is stated once (`Rewritten`).
- `RulesCorrect`: `Spec => []OwnRulesSurviveRestart`, from `Ruling`: what is compiled of a
  user's own rule for a device has the flags of the rule or those that they imply, and
  without one none; and from `FilesAgree`: the file of a device that is not to be written
  and was not written in part has the rules of memory, which for a new user takes `Named`
  and `Numbered`.

### CommandProcessor (`ConnectionProofs`)

`ConnectionProofs` extends both CommandProcessor and DeviceLink, the server's ends of a
connection to a client and to a device.

For any number of connections, users, devices, backends and commands that wait, under
`ConstantsAssumption`: `CommandsCorrect`, `CallbackCorrect`, `ListsCorrect` and
`UserCorrect`, the four properties of the run, from one inductive invariant `Inv`:

- `Working`: `work` is the number of places in `stack` where a processor's commands wait
  (`Counted`); what is posted to delete it was posted below all of them (`Leaving`). With
  it, a deletion that is carried out finds no command of the processor, whatever commands
  of others were above or below.
- `Held`: a backend that sends to a processor is in its list (`Hearing`), and what is in a
  list lives and tells that processor of its end (`Listing`), each but for the devices in
  `spoiled`; `Registry` and `Identifying` say which backend the registry's device and each
  waiting command have, and that no two commands wait for the same.

Most steps that touch devices, from the destructor of a processor to a failed
identification, destroy some backends and mute others: `Losing` is this in general, shown
once to preserve `Held` (`LosingHeld`), and each handler is shown to be such a step.

### ServerConnection (`ServerConnectionProofs`)

For any number of sockets, devices, nested waits and posted events, under
`ConstantsAssumption`: `ReadyCorrect` (`Spec => []ReadyIffAuthenticated`) and
`FollowCorrect` (`Spec => []DevicesFollowServer`). Both speak of a state in which nothing is
left to do, which is the end of any number of waits and messages; the inductive invariant
`Inv` says what is true in between:

- `Basics`: each event of a call is for one that waits, and answers it once (`Addressed`);
  what a call was given (`Framed`); which sockets live and which calls are of the present one
  (`Connected`); that the socket's events come as "up", error, end, and nothing of the
  server after an end (`Ordered`); and that what the server sent it sent on an authenticated
  connection (`Answered`).
- `Users`: where the server has accepted a user of which the client knows nothing yet, a
  call that waits has been told or will be (`Hopeful`), unless that answer came too late.
- `Told`: the last message about a device, be it a notification or a list, is true.
- `Followed`, for every device that is not `stale` (the three ways in which the code itself
  makes the list wrong, see section 2): without a connection (`Dark`) it is
  not connected and no list or identification that waits will make it so (`Gone`); with one
  and no message about it left in the queue, it is what the server has, or a frame of the
  stack is about to add or to drop it, and every list that waits to be applied is right
  about it (`Agrees`). `Settled` says why a list that could not be had excuses devices.

The queue changes in one way only: an event leaves at one place, the others keep their
order, some are appended (`Moves`); the stack in one way below the frame that acts (`Under`).
`AddressedKept`, `OrderedKept` and `AnsweredGrows` are shown once for such a step, `BasicsKept`
combines them, and each action is shown to be one.

### EngineRun (`EventLoopProofs`)

`EventLoopProofs` extends both EngineRun and DataCollection, the components whose handlers an
event loop interrupts while they wait; their variables have nothing in common.

For any programs of the kinds of blocks that are modelled and any number of triggers, under
`ConstantsAssumption`: `TriggersCorrect` (`Spec => []TriggersAreSeen`), its types included. A
program that waits for no answer may still have any number of activations within one another,
as each may wait for the timers of its delays. The invariant `Promptly` says for such a program:

- `Phased`: what an activation does before its evaluation is at the front of `todo`, in its
  order, so that no other begins between; and what the sources are still to be asked for
  comes behind nothing but data for inputs.
- `Held`: a source with a trigger that no evaluation has seen has its flag set, and an
  activation is queued, or one is at the front that has not read the flag; or its data are
  with the activation at the front; or in the evaluation that has not come to it. For a timer
  the flag may be ahead of its activation, while the thread has not queued it (`thread`).
- `Known`: a source that was read has data, so that `prepareWorkData` stops at none.

`StepPuts` says what each statement puts in place of itself, `FrontAfter` what is then at the
front; with them, the steps of one activation are shown apart from those that begin one.

`CommandsCorrect`: `Spec => CommandsAreFresh`, for programs in which what a command gives goes
to a gate of its own (`ArgumentsAreGated`, a hypothesis of the theorem that the three programs
of the run satisfy). The property needs it: a block that takes an argument without its trigger
acts on every activation, as a command block gives its last argument again. Two invariants:

- `Timed`: whoever may set an input, the timer of a delay included, comes before a wait for the
  timers, so that no delay outlives the activation that started it.
- `Unmixed`, until an activation begins within another: there is one activation at most
  (`Alone`); up to `prepareWorkData` nothing is set and no delay runs (`Before`); from then on
  every input and every statement that sets one has data that `Fits` the block: of the
  present evaluation, and for the gate of a command its trigger and its argument.

### DeviceLink (`ConnectionProofs`)

For any commands and values (sequences of characters, `LinkAssumption`), any buffer of the
device and any number of messages to the server and of faults: `LinkHeard`, `LinkSpec =>
[]ServerHearsDevice`, for what the server is given, and `LinkDamage` (`LinkSpec =>
[]DamageIsBounded`) and `LinkLoss` (`LinkSpec => []OnlyFirstIsLost`) for what the device
handles. The server writes at most nine messages, as the model gives each call one digit for
its number.

- A message survives its bytes (`EscapedText`, `BytesAre`, `OriginOfWhole`): a parser that waits for a message
  makes of `Bytes(m, i)` the fields of `m`, with an end at the last byte and none before,
  whatever is in the fields. The parser's state after each byte is a recursive function,
  whose equation is shown to have a solution (`LeastOf`, as for `Search`).
- The inductive invariant `LinkInv` is about the bytes that nobody has parsed: what the innermost
  call of `pushData` has left, and behind it what is under way. From the server's parser as it
  stands, every message in these bytes is one of the device's, whole but for the first of a
  connection that began with bytes of an old one and for those in `link.joined`, which were
  written first after a restart (`Good`), and their numbers go up and come after those of the
  messages told (`Ordered`). That a connection is made again at any byte harms nothing else
  because the same is true of each rest of the stream from a fresh parser (`UpRight`). A
  restart leaves a first part of the stream, which is right as it stands (`PartRight`) and
  stays so when the next message is taken into `joined`; a zero byte at its end takes that
  message out of it again (`CutRight`), since the parser then starts afresh whatever it holds.

- The device's parser is compared with the server's. While a message fits, the buffer holds
  its fields one after the other (`LaidOut`), and at its end the device is given them as they
  were written (`WholeIsRead`). A full buffer drops what it has of a message and goes on inside
  of it, but never loses count of escapes: the byte that ends a message for the server's
  parser ends one for the device's (`Aligned`, `WholeEnds`), as a title begins with no
  escape, whatever the device's parser held when the message began.
- The invariant `DeviceRight` has the bytes `v` since the device was last clean, of which it
  has read `n` and come to the end of no message (`Reads`); a reset of its buffer may leave an
  escape that has begun. Bytes that are cut off by a port opened again are cut off `v` too, so
  that `v` may be the beginning of one message and all of the next. The numbers in `v` go up
  and follow those of the messages handled (`Placed`), which gives the order.
- `DamageIsBounded` follows from an account (`Paid`): the messages handled otherwise than they
  were written and those in `v` that are cut or too long (`Broken`) are no more than the faults
  and the messages too long. A fault adds at most one (`BrokenInTail`, `BrokenInPart`), and a
  message that is handled damaged takes its first byte's from the account (`ReadIs`).
- `OnlyFirstIsLost` follows from `Unlost`: of the connection's messages all that `v` reaches
  are whole in it, and of those before `v` all but the first have been handled. What is read
  as a message begins with the first byte of `v`; a message after the connection's first comes
  behind another that is whole, and whose end would have been read first, unless it begins `v`
  (`UnlostRead`).

### What is only model-checked

Of DeviceLink, `AnswersAreOfCalls`: the number of an answer is read from the buffer at a place
that was noted when the last call was handled, so the proof needs what each later message
leaves at that place. Out of the prover's
reach are liveness under fairness (`TimedCommandsEnd`, `SilenceReleasesWaiters`,
`OnlyTheMutexBlocks`) and whatever rests on ENABLED.

## 4. What is not modelled, and why

- *Hub devices* and the table of children in RealDevice: a hub's children share the
  identifier that `onHubMsg` takes from the wrong word (`RealDevice.cpp:302`), so that the
  table never holds more than one entry; what could be checked of it is what the hazards
  below already say.
- *Programs and scripts* (`BaseProgramsManager`): processes and files, one after the other,
  without nested waits; the hazards found by reading are listed below.
- *Storages database*: directories and names. The removal of a storage while a unit uses it is
  a hazard below (`DataCollectionUnit.cpp:51`) and is not an action of DataCollection.
- In *Devices*: outgoing TCP addresses (their backend is not connected when it is tested, so
  it is deleted at once), the TLS slot (no signal is connected to it), children of hubs,
  `terminate()`.
- In the *link*: a call of `pushData` that goes on after its parser was deleted: when a new
  connection replaces one whose message is being received in a nested loop, the old backend
  is deleted with its parser (`RealDevice.cpp:75`) and the suspended `pushData` uses it when its
  receiver returns (`StreamParser.cpp:31`, `:97`), which is undefined; in the model what was
  left to parse vanishes. What a hub passes on to the devices behind it. Hexadecimal escapes, which no part of the repository writes; `tryParse`, which
  reads configuration only; the sync timer of the device and its search for a server
  (`SrvReady`); messages of more than 30 arguments. On the StarNet bus each device parses and
  dispatches as here.
- In the *storages*: attributes (but one of a session), device names and export settings;
  `LastNValuesInMemoryStorage`, a bounded list; the session storage's time indexes, which no
  caller asks for.
- In *AccessMgr*: names and passwords; deletion of users, which is refused, and of groups,
  which needs a permission that nothing sets. A partial write ends before or behind a
  number, never between its digits (which would name another user from the tenth on).
- In *CommandProcessor*: what other commands answer; they neither wait nor keep state of
  the client, but for subscriptions.
- In the *client*: virtual devices, storages and sessions; the loop at `DevicesList.cpp:139`
  that does not end once a virtual device is registered would hide all that follows it.
- In *VDIL*: sub-programs and their timers (`BaseBlock.cpp:286`), the source of a device's state,
  which never has data (`DeviceStateSourceBlock.cpp:90`), the editor, the files, and blocks that
  compute a value from others at once.
- Drivers of serial ports and sockets, parsing of descriptions and values, logging and
  formatting; external services, user interfaces, generators and the command line, which are
  wrappers of I/O or of the parts above.

## 5. Where the repository disagrees with itself

One disagreement is a run that expects a violation (`devices_port`). The others were met while
modelling; the properties except exactly these cases, and the exceptions are named in them.

| the text | the code |
| --- | --- |
| `RealDevice.h:74`: `identify()` checks that the identifier has not changed | it forgets the identifier before it compares (`RealDevice.cpp:116`), so the check never fires: `MismatchIsUnreachable` |
| `RealDevice.h:130`: a reset makes the known state invalid | a state that arrived before the reset is kept when its `wait()` returns after it (`RealDevice.cpp:482`): `tainted` |
| `CommandCall.h:77`: a command without a timer may be interrupted by a disconnection | when the backend is destroyed, `stopCommands` tests a pointer that is null already (`RealDevice.cpp:340`), and the command waits on: `orphans` |
| `CommandCallTests`, `testLongCommand`: a command without a timer ends when its device falls silent | not one that is executed (`ExecDeviceCommandCommand.cpp:46`) while the receivers of `connected()` wait (`RealDevice.cpp:178`): the sync timer is started behind them, and they cannot return before the command has: `BeforeSyncTimer` |
| `LastNValuesStorage.h:29`: values are given in the order of writing | `db.index` is written before the block (`LastNValuesStorage.cpp:119`): after a stop in between the oldest value is given as the newest |
| `help.add_storage.txt:12`: an automatic session lasts from the device's connection to its loss | the unit is made after a nested wait in which the device may be lost, and deleted after the next one may have been made (`ServerInstance.cpp:231`) |
| `ServerConnection.h:99`: `isReady()` is true on an authenticated connection | an authentication of an earlier connection that returns into the present one sets the user of the present one (`ServerConnection.cpp:242`): `crossed` |
| `ServerConnection.h:196`: `deviceLost()` tells of a device's disconnection at the server | a loss that is handled while the first identification of the device waits is not noticed, and the device is then entered as connected (`DevicesList.cpp:164`, `:181`); a list is applied over newer notifications (`DevicesList.cpp:92`): `stale` |
| `Program.h:56`: on many triggers the program is evaluated only once, with the newest data | every trigger queues an activation of its own (`EngineRun.cpp:103`), and one that comes while a storage is asked of the server waits for the mutex that its own thread holds (`Program.cpp:112`): `SelfLocked` |
| `AccessMgr.cpp:864`: a rule that allows to execute commands (set up storages) allows to read the state (the storages) too | `setDevicePolicyForUser` puts the flags into the compiled policy as they are (`AccessMgr.cpp:668`), so that this comes true at the next start only: `Implied` in `OwnRulesSurviveRestart` |
| `StreamParserTests.cpp`, `testParsing`: a message pushed in two pieces is parsed whole | not when the first piece follows another message in one call of `pushData`, whose receiver waits in a loop in which the second piece is read (`StreamParser.cpp:97`): `nested` |
| `StreamWriter::resetStream()` and the examples: the server forgets a message that a restart has cut | some sketches write messages before it (`MotorControlEthernet.ino:161`, `SimpleDeviceESP8266.ino:118`), others never call it (`HubRS485_Mega.ino:112`): the first message after the restart is then parsed as the rest of the one that was cut, `joined` |
| `WLIOTProtocolDefs.cpp:45`: the server asks a hub for its devices with `#identify_hub` | the device libraries know `identify_hub` only (`RealDeviceMessageDispatch.cpp:212`) and do not answer the other, so that `RealDevice::identifyHub` (`RealDevice.cpp:347`) times out; and were it sent as they know it, they would answer with the number of the last call (`callIdStr`) and not of this message, which carries none |
| `ARpcStreamParserTest.cpp`, `testReset`: what was read before a zero byte is forgotten | an escape that has begun is not (`libwliotproxy-simple`, `StreamParser.cpp:77`) |

### Further hazards

Besides the hazards of `PROJECT.json`, reading the code showed these; no property is
about them, because their component is not modelled or because the model reaches the case and
no text of the repository claims the contrary.

| Line | What can go wrong |
|---|---|
| `CommandCall.cpp:89` | a command whose message cannot be written ends without done(): onCommandDone never removes it from execCommands, against the comment on done() in CommandCall.h:114-115 |
| `Devices.cpp:322` | a device whose connection closed after it answered is registered with a closed backend: disconnected() was emitted before the registry's slot was connected, the port stays listed and nothing opens it again |
| `Devices.cpp:140` | the list of open ports is tested before identification and filled after it: a second check of the ports in the nested loop opens the same port again (SerialDriver::open takes no lock on Linux), and the removal by port name then removes the other's entry |
| `LastNValuesStorage.cpp:117` | open(WriteOnly) truncates db.index before its new contents are written; a stop in between makes open() fail for good |
| `LastNValuesStorage.cpp:107` | the data file cannot be written: it is removed, but the value is added to memory and true is returned; with fixed blocks db.index advances although the block does not change |
| `DBDriverFixedBlocks.cpp:194` | the blocks of a new data.db stay in QFile's buffer until the first read or write; a stop leaves a file with a header and no block, whose every later updateBlock fails (blockIndex>=totalBlocksCount) |
| `DBDriverFixedBlocks.cpp:165` | updateBlock counts one more block each time, so that blocksCount() no longer is the number of blocks and readBlock passes its test beyond the end of the file |
| `Devices.cpp:268` | the registry keeps a pointer to the child backend of a hub after addDeviceFromBackend, whose nested wait may handle the message that the child was lost and delete it (the TODO in the code asks) |
| `HubDeviceBackend.cpp:42` | forceDisconnect emits forceDisconnectCalled after disconnected(), whose receivers may already have deleted the backend; the receiver of the second signal deletes it too |
| `RealDevice.cpp:302` | onHubMsg takes the identifier of the new child device from the word "device_identified" instead of the argument: it is the null identifier for every child, so that all children share one entry of hubDevicesMap and no later message finds its child |
| `ContinuousStorage.cpp:132` | close() leaves the time index open: a later open() of the same object fails at line 207 because the driver of the index is still open, and leaves the data driver open |
| `ContinuousStorage.cpp:113` | create() returns true when data.db could not be created |
| `DBDriverGTimeIndex.cpp:73` | a search in an index with no entry reads entry 0; a search in a longer one returns a position instead of the entry at this position |
| `SessionStorage.cpp:145` | close() closes the sessions but keeps mainReadSessionId, which then names a session that is not open |
| `SessionStorage.cpp:381` | removeSession removes data.db first and stops if metadata.ini, which exists only once an attribute was set, cannot be removed; index.db is never removed |
| `FSSensorStorageHelper.cpp:109` | removeDataExportConfig leaves its group open: every later call on the export settings works inside that group |
| `FSStoragesDatabase.cpp:186` | a storage whose directory could only be removed in part stays in the table, closed |
| `DataCollectionUnit.cpp:51` | the unit of a removed storage is deleted later, the storage at once (FSStoragesDatabase.cpp:190): the unit's destructor, and a measurement that arrives before it, use a deleted storage |
| `CommandProcessor.cpp:369` | deviceStateChanged is queued while deviceDisconnected is direct: a client may be told of a state after it was told that the device is lost |
| `BaseProgramsManager.cpp:170` | the process of an added program is not connected to onProcFinished: its CommandProcessor survives the process, and a restart makes a second one that answers the same messages |
| `BaseProgramsManager.cpp:206` | removeProgram deletes the process but, for a program added since the start, not its CommandProcessor, whose sync timer goes on using the process |
| `BaseProgramsManager.cpp:224` | updateProgram stops the program, truncates its file and returns when the file cannot be written: the program stays stopped and empty, and its configuration says that it runs |
| `DataCollectionUnit.cpp:42` | a unit of an automatic session is deleted later; the unit of the device's next connection may be made before: it cannot open its session, and the first unit then closes the session that is open |
| `ServerInstance.cpp:231` | the unit is made after a nested wait in which the device may have been lost: its session starts after the disconnection |
| `AccessMgr.cpp:487` | the compiled policies are not computed again when the members of a group change; after a restart they differ |
| `AccessMgr.cpp:527` | root may moderate a group without being a member, so that its last member may leave: a group without members cannot be read (line 156), and the server does not start any more |
| `AccessMgr.cpp:262` | reading the rules tests the wrong field, so that a file with a rule for a group, as written at line 300, is rejected at the next start |
| `CommandProcessor.cpp:122` | registering a virtual device twice replaces the entry in vDevs, and the destruction of the refused backend removes the entry (line 304): the first backend is no longer found by the destructor and keeps its pointer to the processor |
| `Devices.cpp:172` | a virtual backend that is closed between its answer and the end of the wait is listed although it will never emit anything again: its identifier cannot be registered any more until the server stops |
| `DevicesList.cpp:165` | a device enters the list only after its first identification has waited: its loss, or the connection's, that is handled meanwhile finds no such device (DevicesList.cpp:182), and the device is then entered as connected |
| `DevicesList.cpp:99` | a notification that is handled while reload() waits for a device's identification is newer than the list: reload then marks a device as lost that the server has, or keeps one that it lost |
| `DevicesList.cpp:139` | the loop that registers the virtual devices again after a connection never advances its iterator: with one virtual device registered it does not end |
| `Program.cpp:123` | prepareWorkData stops after the first source without data, but eval evaluates all sources: a command source after it is evaluated again with its old arguments and its old trigger, so that a command is carried out twice |
| `CommandBlock.cpp:155` | an activation that runs while a block waits for an answer replaces the data and triggers of the sources that the outer evaluation has not reached, and resets the inputs it has set |
| `BaseBlock.cpp:286` | the timer of a delay is added to the timers of its sub-program but removed from those of the program: waitForTimers of a sub-program with a delay never returns, and the set keeps a deleted timer |
| `DeviceStateSourceBlock.cpp:90` | the test for the helper is inverted: the source of a device's state never has data, and the sources after it are never prepared |
