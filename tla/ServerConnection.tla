--------------------------- MODULE ServerConnection ---------------------------
(***************************************************************************)
(* The client library: the connection to the server, its calls, and the    *)
(* list of devices that follows the server's.                              *)
(*                                                                         *)
(* The socket lives in a thread of its own.  Whatever it reports, and what *)
(* the objects of the client report to each other, are events posted to    *)
(* one queue that the client's thread handles in order.  A call waits for  *)
(* its answer by handling events, so that calls and handlers nest: "stack" *)
(* holds the functions that wait, innermost last, and those that go on     *)
(* with a list after each nested wait ("apply").  Events that the client   *)
(* posts to itself are handled before the innermost wait tests its end and *)
(* before timers; a call that ended takes its events with it.              *)
(*                                                                         *)
(* The server answers every call once, in the order of its own changes.    *)
(***************************************************************************)
EXTENDS Naturals, Sequences, FiniteSets, SequencesExt

CONSTANTS
  Links,      \* sockets, used again once nothing refers to them
  Devs,       \* devices
  None,       \* the null pointer
  MaxFrames,  \* bound: functions that wait at one time
  MaxQueue    \* bound: events of others in the queue when the server sends one

ASSUME ConstantsAssumption ==
  /\ None \notin Links \cup Devs
  /\ MaxFrames \in Nat /\ MaxQueue \in Nat

VARIABLES
  link,     \* the sockets, as the server sees them
  known,    \* the devices that the server has
  sock,     \* the current socket
  ready,    \* connectionReady
  authed,   \* mUid is not nullId
  devices,  \* the devices of DevicesList and whether they are connected
  stack,    \* the functions that wait, innermost last
  queue,    \* the posted events
  history   \* what the code gets wrong, see the properties

vars == <<link, known, sock, ready, authed, devices, stack, queue, history>>

Calls == {"connect", "authenticate", "list", "reload"}
Frame ==
  [op : Calls, link : Links, st : {"sent", "got", "done", "apply"},
   answered : BOOLEAN, ok : BOOLEAN, ids : SUBSET Devs, left : SUBSET Devs]
    \cup [op : {"add", "identify"}, dev : Devs, st : {"sent", "done"}]

(* Events of the socket, of the server and of the client itself.  "at" and *)
(* "calls" are places of the stack: calls that are told the same together  *)
(* share an event, as no event between theirs could tell the difference.   *)
Own == {"reply", "stop", "done", "info"}
Event ==
  [e : {"up", "error", "gone"}, link : Links]
    \cup [e : {"identified", "lost"}, dev : Devs]
    \cup [e : {"answer", "reply"}, at : 1..MaxFrames, ok : BOOLEAN, ids : SUBSET Devs]
    \cup [e : {"stop", "done", "info"}, calls : SUBSET (1..MaxFrames)]

Depth == Len(stack)
Top == Last(stack)
InLoop == stack # <<>> => Top.st # "apply"
Drained == \A x \in ToSet(queue) : x.e \notin Own
Turn == InLoop /\ Drained  \* timers and calls of the application

Call(op, l) ==
  [op |-> op, link |-> l, st |-> "sent", answered |-> FALSE, ok |-> FALSE,
   ids |-> {}, left |-> {}]
Tell(e, calls) == IF calls = {} THEN <<>> ELSE <<[e |-> e, calls |-> calls]>>
Answer(e, i, ok, ids) == [e |-> e, at |-> i, ok |-> ok, ids |-> ids]

(* The lists of the server that are still to be applied, or are being.     *)
Lists == {"list", "reload"}
Results ==
  {stack[i].ids : i \in {j \in 1..Depth : stack[j].op \in Lists /\ stack[j].ok}}
    \cup {x.ids : x \in {y \in ToSet(queue) :
                          y.e = "reply" /\ y.ok /\ stack[y.at].op \in Lists}}

(* The device is identified for the first time: it is not in the list yet, *)
(* so that its loss is not noticed, and will be entered as connected.      *)
Adding(d) == \E i \in 1..Depth : stack[i].op = "add" /\ stack[i].dev = d

(* What is going to be done to a device contradicts its newer state.       *)
Outdated(d, on) ==
  \/ \E ids \in Results : ~(d \in ids <=> on)
  \/ ~on /\ Adding(d)

Init ==
  /\ link = [l \in Links |-> [st |-> "free", auth |-> FALSE]]
  /\ known = {}
  /\ sock = None
  /\ ready = FALSE
  /\ authed = FALSE
  /\ devices = [d \in Devs |-> "none"]
  /\ stack = <<>>
  /\ queue = <<>>
  /\ history = [crossed |-> FALSE, late |-> FALSE, stale |-> {}]
-----------------------------------------------------------------------------
(***************************************************************************)
(* The socket's thread and the server.                                     *)
(***************************************************************************)
Room == Cardinality({k \in DOMAIN queue : queue[k].e \notin Own}) < MaxQueue
Post(xs) == queue' = queue \o xs
Client == <<sock, ready, authed, devices, history>>

Encrypted(l) ==
  /\ link[l].st = "new"
  /\ link' = [link EXCEPT ![l].st = "up"]
  /\ Post(<<[e |-> "up", link |-> l]>>)
  /\ UNCHANGED <<known, stack, Client>>

(* onNetError and disconnected(): a connection that the other side ends is *)
(* an error first; one that could not be made is only an error.            *)
LinkLost(l) ==
  /\ link[l].st \in {"new", "up"}
  /\ link' = [link EXCEPT ![l].st = "lost"]
  /\ LET error == <<[e |-> "error", link |-> l]>>
         gone  == <<[e |-> "gone", link |-> l]>>
     IN  \/ link[l].st = "new" /\ Post(error)
         \/ link[l].st = "up" /\ (Post(gone) \/ Post(error \o gone))
  /\ UNCHANGED <<known, stack, Client>>

(* Calls that the server has read and not answered, the first one first. *)
Unanswered(i) ==
  LET f == stack[i]
  IN  f.op \in Calls /\ f.st # "apply" /\ ~f.answered /\ link[f.link].st = "up"

ServerAnswers ==
  /\ Room
  /\ \E i \in DOMAIN stack :
       LET f == stack[i]
           auth == link[f.link].auth
       IN  /\ Unanswered(i)
           /\ \A j \in 1..(i - 1) : ~Unanswered(j)
           /\ stack' = [stack EXCEPT ![i].answered = TRUE]
           /\ IF f.op \in {"connect", "authenticate"}
                THEN \E ok \in BOOLEAN :
                       /\ link' = [link EXCEPT ![f.link].auth = @ \/ ok]
                       /\ Post(<<Answer("answer", i, ok, {})>>)
                ELSE /\ Post(<<Answer("answer", i, auth, IF auth THEN known ELSE {})>>)
                     /\ UNCHANGED link
  /\ UNCHANGED <<known, Client>>

(* A device of the server comes or goes; clients with a user are told. *)
ServerChanges(d) ==
  /\ Room
  /\ known' = IF d \in known THEN known \ {d} ELSE known \cup {d}
  /\ IF \E l \in Links : link[l].st = "up" /\ link[l].auth
       THEN Post(<<[e |-> IF d \in known THEN "lost" ELSE "identified", dev |-> d]>>)
       ELSE UNCHANGED queue
  /\ UNCHANGED <<link, stack, Client>>
-----------------------------------------------------------------------------
(***************************************************************************)
(* ServerConnection: connecting, and what the socket reports.              *)
(***************************************************************************)
Handles(e) == InLoop /\ queue # <<>> /\ Head(queue).e = e
Then(xs) == queue' = Tail(queue) \o xs

(* startConnectNet, by the application or the reconnection timer, which    *)
(* runs after the posted events and before a wait that is over returns.    *)
StartConnectNet(l) ==
  /\ Turn
  /\ sock = None
  /\ stack # <<>> => Top.st # "done"
  /\ \A x \in ToSet(queue) : x.e \notin {"up", "error", "gone"}
  /\ link[l].st \in {"free", "lost"}
  /\ \A i \in DOMAIN stack : stack[i].op \in Calls => stack[i].link # l
  /\ sock' = l
  /\ link' = [link EXCEPT ![l] = [st |-> "new", auth |-> FALSE]]
  /\ UNCHANGED <<known, ready, authed, devices, stack, queue, history>>

(* mutant: the user of the connection before is kept. *)
OnNetSocketConnectedKeepsUid ==
  /\ Handles("up") /\ Depth < MaxFrames
  /\ ready' = TRUE
  /\ stack' = Append(stack, Call("connect", Head(queue).link))
  /\ history' = [history EXCEPT !.crossed = FALSE, !.late = FALSE]
  /\ Then(<<>>)
  /\ UNCHANGED <<link, known, sock, authed, devices>>

(* onNetSocketConnected, up to the wait of authInternal. *)
OnNetSocketConnected ==
  /\ Handles("up") /\ Depth < MaxFrames
  /\ ready' = TRUE
  /\ authed' = FALSE
  /\ stack' = Append(stack, Call("connect", Head(queue).link))
  /\ history' = [history EXCEPT !.crossed = FALSE, !.late = FALSE]
  /\ Then(<<>>)
  /\ UNCHANGED <<link, known, sock, devices>>

Closed == sock' = None /\ ready' = FALSE /\ authed' = FALSE

OnConnectionError ==
  /\ Handles("error")
  /\ Closed
  /\ Then(<<>>)
  /\ UNCHANGED <<link, known, devices, stack, history>>

(* mutant: the devices stay connected. *)
AllStay == devices

(* DevicesList::onDisconnected *)
AllLost == [d \in Devs |-> IF devices[d] = "on" THEN "off" ELSE devices[d]]

(* Devices that are disconnected end their identification. *)
IdentifyEnds(ds) ==
  [i \in DOMAIN stack |-> IF stack[i].op = "identify" /\ stack[i].dev \in ds
                            THEN [stack[i] EXCEPT !.st = "done"] ELSE stack[i]]

(* Calls that have no result yet. *)
Waiting == {i \in DOMAIN stack : stack[i].op \in Calls /\ stack[i].st = "sent"}

(* onDevDisconnected: disconnected() reaches the list at once, the calls   *)
(* through the queue (one that has its result already is not changed).     *)
OnDevDisconnected ==
  /\ Handles("gone")
  /\ devices' = AllLost
  /\ stack' = IdentifyEnds({d \in Devs : devices[d] = "on"})
  /\ Then(Tell("stop", Waiting))
  /\ Closed
  /\ history' = [history EXCEPT !.stale = {d \in Devs : Results # {} \/ Adding(d)}]
  /\ UNCHANGED <<link, known>>
-----------------------------------------------------------------------------
(***************************************************************************)
(* ServerCommandCall: onMessage, onDisconnected, onConnected, onTimeout    *)
(* and setDone are all queued.                                             *)
(***************************************************************************)
Calling == <<link, known, sock, ready, authed, devices>>

(* onRawMessage: funcCallReplyMsg is queued to the calls.  What reload is  *)
(* told mends the list, but for listed devices that the client has as      *)
(* disconnected.                                                           *)
OnAnswer ==
  /\ Handles("answer")
  /\ LET x == Head(queue)
     IN  /\ Then(<<[x EXCEPT !.e = "reply"]>>)
         /\ history' = IF stack[x.at].op = "reload" /\ x.ok
              THEN [history EXCEPT !.stale =
                      {d \in @ : \/ d \in x.ids /\ devices[d] = "off"
                                \/ Outdated(d, d \in x.ids)}]
              ELSE history
  /\ UNCHANGED <<Calling, stack>>

Got(f) == [f EXCEPT !.st = IF @ = "done" THEN @ ELSE "got"]

OnReply ==
  /\ Handles("reply")
  /\ LET x == Head(queue)
         f == stack[x.at]
     IN  /\ stack' = [stack EXCEPT ![x.at] =
              [Got(f) EXCEPT !.ok = @ \/ x.ok, !.ids = x.ids, !.left = x.ids]]
         /\ Then(Tell("done", {x.at}))
  /\ UNCHANGED <<Calling, history>>

(* onDisconnected, or onConnected of a call that is not done. *)
OnStop ==
  /\ Handles("stop")
  /\ LET calls == Head(queue).calls
     IN  /\ stack' = [i \in DOMAIN stack |->
                        IF i \in calls THEN Got(stack[i]) ELSE stack[i]]
         /\ Then(Tell("done", calls))
  /\ UNCHANGED <<Calling, history>>

OnTimeout ==
  /\ Turn
  /\ \E i \in DOMAIN stack :
       /\ stack[i].op \in Calls /\ stack[i].st = "sent"
       /\ stack' = [stack EXCEPT ![i] = Got(@)]
       /\ Post(Tell("done", {i}))
  /\ UNCHANGED <<Calling, history>>

(* setDone, and the answer of a device of the list to its identification,  *)
(* which its backend gives itself.                                         *)
SetDone ==
  /\ Handles("done") \/ Handles("info")
  /\ stack' = [i \in DOMAIN stack |-> IF i \in Head(queue).calls
                  THEN [stack[i] EXCEPT !.st = "done"] ELSE stack[i]]
  /\ Then(<<>>)
  /\ UNCHANGED <<Calling, history>>

(* Calls of the application. *)
Authenticate ==
  /\ Turn /\ ready /\ Depth < MaxFrames
  /\ stack' = Append(stack, Call("authenticate", sock))
  /\ UNCHANGED <<Calling, queue, history>>

Reload ==
  /\ Turn /\ ready /\ authed /\ Depth < MaxFrames
  /\ stack' = Append(stack, Call("reload", sock))
  /\ UNCHANGED <<Calling, queue, history>>
-----------------------------------------------------------------------------
(***************************************************************************)
(* The end of a wait: the events of the call go with it, of which only the *)
(* answer can be left.                                                     *)
(***************************************************************************)
IsLeft(k) == queue[k].e = "answer" /\ queue[k].at = Depth
Remaining ==
  IF \E k \in DOMAIN queue : IsLeft(k)
    THEN RemoveAt(queue, CHOOSE k \in DOMAIN queue : IsLeft(k))
    ELSE queue

Ends(ops) == stack # <<>> /\ Top.st = "done" /\ Top.op \in ops /\ Drained
Replace(frames) == stack' = Front(stack) \o frames

(* mUid after authInternal. *)
UidAfter(f) == IF f.op = "connect" THEN f.ok ELSE authed \/ f.ok

(* onNetSocketConnected or authenticate after authInternal: the calls that *)
(* wait are told that the user changed, and the list is loaded.  A server  *)
(* that has not answered may still do what it was asked.                   *)
Authenticated ==
  /\ Ends({"connect", "authenticate"})
  /\ authed' = UidAfter(Top)
  /\ LET told == Top.op = "connect" \/ Top.ok
         load == told /\ ready /\ authed'
     IN  /\ Replace(IF load THEN <<Call("list", sock)>> ELSE <<>>)
         /\ queue' = Remaining \o (IF told THEN Tell("stop", Waiting) ELSE <<>>)
  /\ history' = [history EXCEPT
       !.crossed = @ \/ Top.link # sock
         \/ \E i \in 1..(Depth - 1) : stack[i].op \in {"connect", "authenticate"},
       !.late = @ \/ ~Top.answered \/ Remaining # queue]
  /\ \E auth \in {FALSE, ~Top.answered /\ link[Top.link].st = "up"} :
       link' = [link EXCEPT ![Top.link].auth = @ \/ auth]
  /\ UNCHANGED <<known, sock, ready, devices>>

(* listIdentified returns; whether it failed is not looked at. *)
Listed ==
  /\ Ends(Lists)
  /\ Replace(<<[Top EXCEPT !.st = "apply"]>>)
  /\ queue' = Remaining
  /\ history' = IF Top.ok \/ ~ready THEN history ELSE [history EXCEPT !.stale = Devs]
  /\ UNCHANGED Calling
-----------------------------------------------------------------------------
(***************************************************************************)
(* DevicesList.                                                            *)
(***************************************************************************)
(* onDeviceIdentifiedFromServer: a new device joins the list only after it *)
(* was identified.  "base" and "q" are the stack and the queue before; a   *)
(* device that is being identified is not identified again.                *)
DeviceIdentified(d, base, q) ==
  LET working == \E i \in DOMAIN base :
                   base[i].op = "identify" /\ base[i].dev = d /\ base[i].st = "sent"
      op == IF devices[d] = "none" THEN "add" ELSE "identify"
  IN  /\ devices' = IF op = "add" THEN devices ELSE [devices EXCEPT ![d] = "on"]
      /\ IF op = "identify" /\ working
           THEN stack' = base /\ queue' = q
           ELSE /\ Len(base) < MaxFrames
                /\ stack' = Append(base, [op |-> op, dev |-> d, st |-> "sent"])
                /\ queue' = q \o Tell("info", {Len(base) + 1})

(* What a notification does to the history.                                *)
Notified(d, on) ==
  history' = [history EXCEPT !.stale = IF Outdated(d, on) THEN @ \cup {d} ELSE @ \ {d}]

OnDeviceIdentified ==
  /\ Handles("identified")
  /\ LET d == Head(queue).dev
     IN  DeviceIdentified(d, stack, Tail(queue)) /\ Notified(d, TRUE)
  /\ UNCHANGED <<link, known, sock, ready, authed>>

(* onDeviceLostFromServer, of a set. *)
Lost(ds) == [d \in Devs |-> IF d \in ds /\ devices[d] = "on" THEN "off" ELSE devices[d]]

OnDeviceLost ==
  /\ Handles("lost")
  /\ LET d == Head(queue).dev
     IN  devices' = Lost({d}) /\ stack' = IdentifyEnds({d}) /\ Notified(d, FALSE)
  /\ Then(<<>>)
  /\ UNCHANGED <<link, known, sock, ready, authed>>

(* onDeviceIdentifiedFromServer after the wait. *)
Identified ==
  /\ Ends({"add", "identify"})
  /\ devices' = IF Top.op = "add" THEN [devices EXCEPT ![Top.dev] = "on"] ELSE devices
  /\ Replace(<<>>)
  /\ queue' = Remaining
  /\ UNCHANGED <<link, known, sock, ready, authed, history>>

Applies(op) == stack # <<>> /\ Top.st = "apply" /\ Top.op = op

(* The loop over the devices that the server listed; reload leaves out the *)
(* ones that the list has.                                                 *)
NextOfList ==
  /\ Applies("list") \/ Applies("reload")
  /\ \E d \in Top.left :
       LET base == [stack EXCEPT ![Depth].left = @ \ {d}]
       IN  IF Top.op = "reload" /\ devices[d] # "none"
             THEN stack' = base /\ UNCHANGED <<devices, queue>>
             ELSE DeviceIdentified(d, base, queue)
  /\ UNCHANGED <<link, known, sock, ready, authed, history>>

(* The end of the loop: reload loses the devices that were not listed. *)
Loaded ==
  /\ Applies("list") \/ Applies("reload")
  /\ Top.left = {}
  /\ devices' = IF Top.op = "reload" THEN Lost(Devs \ Top.ids) ELSE devices
  /\ Replace(<<>>)
  /\ UNCHANGED <<link, known, sock, ready, authed, queue, history>>
-----------------------------------------------------------------------------
Next ==
  \/ \E l \in Links : Encrypted(l) \/ LinkLost(l) \/ StartConnectNet(l)
  \/ ServerAnswers \/ \E d \in Devs : ServerChanges(d)
  \/ OnNetSocketConnected \/ OnConnectionError \/ OnDevDisconnected
  \/ OnAnswer \/ OnReply \/ OnStop \/ OnTimeout \/ SetDone
  \/ Authenticate \/ Reload
  \/ Authenticated \/ Listed
  \/ OnDeviceIdentified \/ OnDeviceLost \/ Identified \/ NextOfList \/ Loaded

Spec == Init /\ [][Next]_vars
-----------------------------------------------------------------------------
(* Types; every event of a call names a function that waits. *)
TypeOK ==
  /\ link \in [Links -> [st : {"free", "new", "up", "lost"}, auth : BOOLEAN]]
  /\ known \subseteq Devs
  /\ sock \in Links \cup {None}
  /\ ready \in BOOLEAN /\ authed \in BOOLEAN
  /\ devices \in [Devs -> {"none", "on", "off"}]
  /\ \A f \in ToSet(stack) : f \in Frame
  /\ \A x \in ToSet(queue) : x \in Event
  /\ \A x \in ToSet(queue) :
       /\ x.e \in {"answer", "reply"} => x.at <= Depth
       /\ x.e \in {"stop", "done", "info"} => x.calls \subseteq 1..Depth
  /\ history \in [crossed : BOOLEAN, late : BOOLEAN, stale : SUBSET Devs]

Ready == ready /\ authed
Quiet == stack = <<>> /\ queue = <<>>

ReadyIsAuthenticated == Ready /\ ~history.crossed => sock # None /\ link[sock].auth

AuthenticatedIsReady ==
  Quiet /\ ready /\ link[sock].auth /\ ~history.crossed /\ ~history.late => Ready

(* The state has its types.  isReady() is never true on a connection whose *)
(* user the server has not accepted; and a connection that the server has  *)
(* authenticated is ready once nothing is left to do, unless the answer    *)
(* came too late.  Excepted is the authentication of an earlier connection *)
(* that returned into the present one.                                     *)
ReadyIffAuthenticated == TypeOK /\ ReadyIsAuthenticated /\ AuthenticatedIsReady

(* Once nothing is left to do, a ready client has exactly the server's     *)
(* devices as connected ones, and a client without a connection none.      *)
(* Excepted are, until a later message mends it, what the code gets wrong  *)
(* (history.stale):                                                        *)
(*  - a device that is lost, or whose connection is, while its first       *)
(*    identification waits: onDeviceLostFromServer does not find it in the *)
(*    list, onDeviceIdentifiedFromServer then enters it as connected;      *)
(*  - one whose notification contradicts an older list that is still being *)
(*    applied, and every one while such a list is left over when the       *)
(*    connection is lost;                                                  *)
(*  - every one when the list could not be had: listIdentified's failure   *)
(*    is not looked at.                                                    *)
DevicesFollowServer ==
  /\ Quiet /\ Ready /\ ~history.crossed =>
       \A d \in Devs \ history.stale : devices[d] = "on" <=> d \in known
  /\ Quiet /\ sock = None => \A d \in Devs \ history.stale : devices[d] # "on"
===============================================================================
