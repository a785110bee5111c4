------------------------ MODULE ServerConnectionProofs ------------------------
(***************************************************************************)
(* What the run checks of ServerConnection on a small instance, proved for *)
(* any number of sockets, devices, nested waits and posted events.         *)
(***************************************************************************)
EXTENDS ServerConnection, SequenceTheorems, TLAPS

OfLink == {"up", "error", "gone"}
News == {"identified", "lost"}
Replies == {"answer", "reply"}
Tellings == {"stop", "done", "info"}

IsCall(i) == i \in 1..Depth /\ stack[i].op \in Calls

CallFrames ==
  [op : Calls, link : Links, st : {"sent", "got", "done", "apply"},
   answered : BOOLEAN, ok : BOOLEAN, ids : SUBSET Devs, left : SUBSET Devs]
DeviceFrames == [op : {"add", "identify"}, dev : Devs, st : {"sent", "done"}]

(***************************************************************************)
(* The inductive invariant.  Types:                                        *)
(***************************************************************************)
Typed ==
  /\ link \in [Links -> [st : {"free", "new", "up", "lost"}, auth : BOOLEAN]]
  /\ known \subseteq Devs
  /\ sock \in Links \cup {None}
  /\ ready \in BOOLEAN /\ authed \in BOOLEAN
  /\ devices \in [Devs -> {"none", "on", "off"}]
  /\ stack \in Seq(Frame) /\ Depth <= MaxFrames
  /\ queue \in Seq(Event)
  /\ history \in [crossed : BOOLEAN, late : BOOLEAN, stale : SUBSET Devs]

(* Each event of a call or a device names one that waits for it; a call is *)
(* answered once.                                                          *)
ForCall(x) ==
  /\ IsCall(x.at) /\ stack[x.at].st # "apply"
  /\ stack[x.at].answered /\ ~stack[x.at].ok
  /\ x.ids # {} => x.ok

Addressed ==
  /\ \A k \in 1..Len(queue) :
       /\ queue[k].e \in Replies => ForCall(queue[k])
       /\ queue[k].e \in {"stop", "done"} =>
            \A i \in queue[k].calls : IsCall(i) /\ stack[i].st # "apply"
       /\ queue[k].e = "info" => \A i \in queue[k].calls : i \in 1..Depth /\ ~IsCall(i)
  /\ \A j, k \in 1..Len(queue) :
       /\ queue[j].e \in Replies /\ queue[k].e \in Replies /\ queue[j].at = queue[k].at
       => j = k

(* What a call has been given. *)
FrameFits(f) ==
  /\ ~f.ok => f.ids = {}
  /\ f.ok => f.answered /\ f.st # "sent" /\ link[f.link].auth
  /\ f.left \subseteq f.ids /\ (f.st # "apply" => f.left = f.ids)
  /\ f.st = "apply" => f.op \in Lists
Framed == \A i \in 1..Depth : IsCall(i) => FrameFits(stack[i])

(* The connection, and the order of its events. *)
Parted == \A i \in 1..Depth : IsCall(i) => stack[i].link # sock

Connected ==
  /\ \A l \in Links \ {sock} : link[l].st \in {"free", "lost"}
  /\ sock = None => ~ready
  /\ sock # None =>
       /\ link[sock].st # "free"
       /\ link[sock].st = "new" => ~ready
       /\ ~ready => ~link[sock].auth /\ Parted
       /\ link[sock].st = "lost" =>
            \E k \in 1..Len(queue) :
              queue[k].e = "gone" \/ (queue[k].e = "error" /\ ~link[sock].auth)

OfSocket(x) ==
  IF sock = None THEN x.e = "gone"
  ELSE /\ x.link = sock /\ link[sock].st # "new"
       /\ x.e \in {"error", "gone"} => link[sock].st = "lost"
       /\ x.e = "up" => ~ready

InTurn(x, y) ==
  /\ x.e \in OfLink /\ y.e \in OfLink =>
       (x.e = "up" /\ y.e # "up") \/ (x.e = "error" /\ y.e = "gone")
  /\ x.e \in {"error", "gone"} => y.e \notin {"answer"} \cup News

OfServer(x) ==
  /\ x.e \in {"answer"} \cup News => ready
  /\ x.e \in News => link[sock].auth
  /\ x.e = "answer" => stack[x.at].link = sock
  /\ x.e \in Replies /\ x.ok => link[stack[x.at].link].auth

Ordered ==
  /\ \A k \in 1..Len(queue) : queue[k].e \in OfLink => OfSocket(queue[k])
  /\ \A j, k \in 1..Len(queue) : j < k => InTurn(queue[j], queue[k])

Answered == \A k \in 1..Len(queue) : OfServer(queue[k])

(* Users. *)
Hopeful(i) ==
  /\ IsCall(i) /\ stack[i].op \in {"connect", "authenticate"} /\ stack[i].link = sock
  /\ stack[i].answered
  /\ \/ stack[i].ok
     \/ \E k \in 1..Len(queue) :
          queue[k].e \in Replies /\ queue[k].at = i /\ queue[k].ok

Users ==
  /\ ReadyIsAuthenticated
  /\ ~history.crossed /\ ready /\ authed =>
       \A i \in 1..Depth : ~(stack[i].op = "connect" /\ stack[i].link = sock)
  /\ ready /\ link[sock].auth /\ ~authed /\ ~history.crossed /\ ~history.late =>
       \E i \in 1..Depth : Hopeful(i)

(* Devices.  The server's notifications reach the client, or there is no   *)
(* connection, or none with a user.                                        *)
Lit == sock # None /\ link[sock].st = "up" /\ link[sock].auth
Dark == IF sock = None THEN \A k \in 1..Len(queue) : queue[k].e # "gone"
        ELSE ~link[sock].auth

NewsOf(d, x) == x.e \in News /\ x.dev = d
Unchanged(d, n) == \A k \in 1..Len(queue) : n < k => ~NewsOf(d, queue[k])

HasList(i) == IsCall(i) /\ stack[i].op \in Lists /\ stack[i].ok
AnswerTo(x, ops) == stack[x.at].op \in ops /\ x.ok

Brings(i, d) ==
  /\ IsCall(i)
  /\ stack[i].op = "list" \/ (stack[i].op = "reload" /\ devices[d] = "none")
  /\ IF stack[i].st = "apply" THEN d \in stack[i].left ELSE ~stack[i].ok \/ d \in stack[i].ids

Drops(d) ==
  \/ \E i \in 1..Depth : HasList(i) /\ stack[i].op = "reload" /\ d \notin stack[i].ids
  \/ \E k \in 1..Len(queue) :
       queue[k].e = "reply" /\ AnswerTo(queue[k], {"reload"}) /\ d \notin queue[k].ids

(* The last message about a device is true. *)
Told ==
  Lit => \A d \in Devs : \A k \in 1..Len(queue) : Unchanged(d, k) =>
    /\ NewsOf(d, queue[k]) => (queue[k].e = "identified" <=> d \in known)
    /\ queue[k].e = "answer" /\ AnswerTo(queue[k], Lists) => (d \in queue[k].ids <=> d \in known)

(* Without a connection a device is not connected, nor will be. *)
Gone(d) ==
  /\ devices[d] # "on" /\ ~Adding(d)
  /\ \A i \in 1..Depth : ~HasList(i)
  /\ \A k \in 1..Len(queue) : queue[k].e = "reply" => ~AnswerTo(queue[k], Lists)

(* With one, and no message about it, a device is what the server has, or  *)
(* will be.                                                                *)
Agrees(d) ==
  /\ \A i \in 1..Depth : HasList(i) => (d \in stack[i].ids <=> d \in known)
  /\ \A k \in 1..Len(queue) :
       queue[k].e = "reply" /\ AnswerTo(queue[k], Lists) => (d \in queue[k].ids <=> d \in known)
  /\ Adding(d) => d \in known
  /\ devices[d] = "on" => d \in known \/ Drops(d)
  /\ Ready /\ ~history.crossed /\ d \in known =>
       devices[d] = "on" \/ Adding(d) \/ \E i \in 1..Depth : Brings(i, d)

(* A list that could not be had is dealt with at once. *)
Settled ==
  \A i \in 1..Depth :
    IsCall(i) /\ stack[i].st = "apply" /\ ~stack[i].ok =>
      i = Depth /\ (ready => history.stale = Devs)

Follows(d) ==
  d \notin history.stale => (Dark => Gone(d)) /\ (Lit /\ Unchanged(d, 0) => Agrees(d))
Followed == \A d \in Devs : Follows(d)

Basics == Typed /\ Addressed /\ Framed /\ Connected /\ Ordered /\ Answered

Inv == Basics /\ Users /\ Told /\ Settled /\ Followed
-----------------------------------------------------------------------------
(***************************************************************************)
(* Frames and events.                                                      *)
(***************************************************************************)
LinkEvents == [e : OfLink, link : Links]
NewsEvents == [e : News, dev : Devs]
ReplyEvents == [e : Replies, at : 1..MaxFrames, ok : BOOLEAN, ids : SUBSET Devs]
TellingEvents == [e : Tellings, calls : SUBSET (1..MaxFrames)]

LEMMA FrameIs ==
  /\ Frame = CallFrames \cup DeviceFrames
  /\ \A f \in Frame : /\ f.op \in Calls => f \in CallFrames
                      /\ f.op \notin Calls => f \in DeviceFrames
BY DEF Frame, CallFrames, DeviceFrames, Calls

LEMMA EventIs ==
  /\ Event = LinkEvents \cup NewsEvents \cup ReplyEvents \cup TellingEvents
  /\ \A x \in Event : /\ x.e \in OfLink => x \in LinkEvents
                      /\ x.e \in News => x \in NewsEvents
                      /\ x.e \in Replies => x \in ReplyEvents
                      /\ x.e \in Tellings => x \in TellingEvents
                      /\ x.e \in OfLink \cup News \cup Replies \cup Tellings
<1>1. Event = LinkEvents \cup NewsEvents \cup ReplyEvents \cup TellingEvents
  BY DEF Event, LinkEvents, NewsEvents, ReplyEvents, TellingEvents,
         OfLink, News, Replies, Tellings
<1>2. ASSUME NEW x \in LinkEvents PROVE x.e \in OfLink
  BY DEF LinkEvents
<1>3. ASSUME NEW x \in NewsEvents PROVE x.e \in News
  BY DEF NewsEvents
<1>4. ASSUME NEW x \in ReplyEvents PROVE x.e \in Replies
  BY DEF ReplyEvents
<1>5. ASSUME NEW x \in TellingEvents PROVE x.e \in Tellings
  BY DEF TellingEvents
<1>6. \A a : /\ a \in OfLink => a \notin News \cup Replies \cup Tellings
             /\ a \in News => a \notin Replies \cup Tellings
             /\ a \in Replies => a \notin Tellings
  BY DEF OfLink, News, Replies, Tellings
<1>. QED
  BY <1>1, <1>2, <1>3, <1>4, <1>5, <1>6

LEMMA CallIs ==
  ASSUME NEW op \in Calls, NEW l \in Links
  PROVE  /\ Call(op, l) \in Frame
         /\ Call(op, l).op = op /\ Call(op, l).link = l /\ Call(op, l).st = "sent"
         /\ ~Call(op, l).answered /\ ~Call(op, l).ok
         /\ Call(op, l).ids = {} /\ Call(op, l).left = {}
BY DEF Call, Frame

LEMMA TellIs ==
  ASSUME NEW e \in Tellings, NEW S \in SUBSET (1..MaxFrames)
  PROVE  /\ Tell(e, S) \in Seq(Event)
         /\ Len(Tell(e, S)) \in {0, 1}
         /\ Len(Tell(e, S)) = 0 <=> S = {}
         /\ \A k \in 1..Len(Tell(e, S)) :
              Tell(e, S)[k].e = e /\ Tell(e, S)[k].calls = S
<1>1. CASE S = {}
  BY <1>1 DEF Tell
<1>2. CASE S # {}
  <2>1. PICK x : x = [e |-> e, calls |-> S]
    OBVIOUS
  <2>2. x \in Event /\ x.e = e /\ x.calls = S
    BY <2>1 DEF Event, Tellings
  <2>. QED
    BY <1>2, <2>1, <2>2 DEF Tell
<1>. QED
  BY <1>1, <1>2

LEMMA TopIs ==
  ASSUME Typed, stack # <<>>
  PROVE  /\ Depth \in Nat /\ Depth > 0 /\ Depth <= MaxFrames
         /\ Top = stack[Depth] /\ Top \in Frame
         /\ Front(stack) \in Seq(Frame) /\ Len(Front(stack)) = Depth - 1
         /\ \A i \in 1..(Depth - 1) : Front(stack)[i] = stack[i]
<1>1. stack \in Seq(Frame) /\ Depth \in Nat /\ Depth # 0 /\ Depth <= MaxFrames
  BY LenProperties, EmptySeq DEF Typed, Depth
<1>2. Top = stack[Depth]
  BY DEF Top, Last, Depth
<1>3. Top \in Frame
  BY <1>1, <1>2, ElementOfSeq DEF Depth
<1>4. \A i \in 1..(Depth - 1) : stack[i] \in Frame
  BY <1>1, ElementOfSeq DEF Depth
<1>5. PICK n : n = Depth - 1
  OBVIOUS
<1>6. PICK s : s = SubSeq(stack, 1, n)
  OBVIOUS
<1>7. s \in Seq(Frame) /\ Len(s) = n /\ \A i \in 1..n : s[i] = stack[i]
  <2>1. 1 \in Int /\ n \in Int /\ 1 <= n + 1 /\ \A i \in 1..n : stack[i] \in Frame
    BY <1>1, <1>4, <1>5
  <2>2. /\ s \in Seq(Frame) /\ Len(s) = n - 1 + 1
        /\ \A i \in 1..(n - 1 + 1) : s[i] = stack[1 + i - 1]
    BY <1>1, <1>6, <2>1, SubSeqProperties
  <2>. QED
    BY <1>1, <1>5, <2>2
<1>8. Front(stack) = s
  BY <1>5, <1>6 DEF Front, Depth
<1>. QED
  BY <1>1, <1>2, <1>3, <1>5, <1>7, <1>8

LEMMA PlacesAre ==
  ASSUME Typed
  PROVE  /\ Depth \in Nat /\ Depth <= MaxFrames /\ MaxFrames \in Nat
         /\ Len(queue) \in Nat /\ DOMAIN stack = 1..Depth /\ DOMAIN queue = 1..Len(queue)
         /\ \A i \in 1..Depth : stack[i] \in Frame
         /\ \A k \in 1..Len(queue) : queue[k] \in Event
BY LenProperties, ElementOfSeq, ConstantsAssumption DEF Typed, Depth
-----------------------------------------------------------------------------
(***************************************************************************)
(* The queue.  A step takes the event at place p out, or none if p is 0,   *)
(* and posts the events xs: what is at k afterwards and not one of them    *)
(* was at Before(p, k).                                                    *)
(***************************************************************************)
Rest(p) == Len(queue) - (IF p = 0 THEN 0 ELSE 1)
Before(p, k) == IF p # 0 /\ p <= k THEN k + 1 ELSE k

Moves(p, xs) ==
  /\ p \in 0..Len(queue) /\ xs \in Seq(Event)
  /\ queue' \in Seq(Event) /\ Len(queue') = Rest(p) + Len(xs)
  /\ \A k \in 1..Rest(p) : queue'[k] = queue[Before(p, k)]
  /\ \A k \in 1..Len(xs) : queue'[Rest(p) + k] = xs[k]

LEMMA BeforeIs ==
  ASSUME Typed, NEW p, NEW xs, Moves(p, xs)
  PROVE  /\ Rest(p) \in Nat /\ p \in Nat /\ Len(xs) \in Nat
         /\ \A k \in 1..Rest(p) :
              /\ k \in 1..Len(queue')
              /\ Before(p, k) \in 1..Len(queue) /\ Before(p, k) # p
              /\ queue'[k] = queue[Before(p, k)]
         /\ \A j, k \in 1..Rest(p) : j < k <=> Before(p, j) < Before(p, k)
         /\ \A j \in 1..Len(queue) : j # p => \E k \in 1..Rest(p) : Before(p, k) = j
         /\ \A k \in 1..Len(queue') :
              k \in 1..Rest(p) \/ \E i \in 1..Len(xs) : k = Rest(p) + i /\ queue'[k] = xs[i]
         /\ \A i \in 1..Len(xs) : Rest(p) + i \in 1..Len(queue') /\ queue'[Rest(p) + i] = xs[i]
<1>1. PICK n : n = Len(queue)
  OBVIOUS
<1>2. PICK m : m = Len(xs)
  OBVIOUS
<1>3. n \in Nat /\ m \in Nat /\ p \in 0..n
  BY <1>1, <1>2, LenProperties DEF Typed, Moves
<1>4. PICK r : r = Rest(p)
  OBVIOUS
<1>5. r \in Nat /\ (p = 0 => r = n) /\ (p # 0 => r = n - 1)
  BY <1>1, <1>3, <1>4 DEF Rest
<1>6. Len(queue') = r + m
  BY <1>2, <1>4 DEF Moves
<1>7. ASSUME NEW k \in 1..r PROVE Before(p, k) \in 1..n /\ Before(p, k) # p
  BY <1>3, <1>5 DEF Before
<1>8. \A j, k \in 1..r : j < k <=> Before(p, j) < Before(p, k)
  BY <1>3, <1>5 DEF Before
<1>9. ASSUME NEW j \in 1..n, j # p PROVE \E k \in 1..r : Before(p, k) = j
  <2>1. CASE p # 0 /\ p < j
    <3>1. j - 1 \in 1..r /\ Before(p, j - 1) = j
      BY <1>3, <1>5, <1>9, <2>1 DEF Before
    <3>. QED
      BY <3>1
  <2>2. CASE ~(p # 0 /\ p < j)
    <3>1. j \in 1..r /\ Before(p, j) = j
      BY <1>3, <1>5, <1>9, <2>2 DEF Before
    <3>. QED
      BY <3>1
  <2>. QED
    BY <2>1, <2>2
<1>10. \A i \in 1..m : r + i \in 1..(r + m)
  BY <1>3, <1>5
<1>11. ASSUME NEW k \in 1..(r + m)
       PROVE  k \in 1..r \/ \E i \in 1..m : k = r + i
  <2>1. CASE k <= r
    BY <1>3, <1>5, <2>1
  <2>2. CASE ~(k <= r)
    <3>1. k - r \in 1..m /\ k = r + (k - r)
      BY <1>3, <1>5, <1>11, <2>2
    <3>. QED
      BY <3>1
  <2>. QED
    BY <2>1, <2>2
<1>12. \A k \in 1..r : k \in 1..(r + m)
  BY <1>3, <1>5
<1>13. \A k \in 1..r : queue'[k] = queue[Before(p, k)]
  BY <1>4 DEF Moves
<1>14. \A i \in 1..m : queue'[r + i] = xs[i]
  BY <1>2, <1>4 DEF Moves
<1>. QED
  BY <1>1, <1>2, <1>3, <1>4, <1>5, <1>6, <1>7, <1>8, <1>9, <1>10, <1>11, <1>12, <1>13, <1>14

LEMMA PostMoves ==
  ASSUME Typed, NEW xs \in Seq(Event), queue' = queue \o xs
  PROVE  Moves(0, xs)
<1>1. queue \in Seq(Event) /\ Len(queue) \in Nat /\ Len(xs) \in Nat
  BY LenProperties DEF Typed
<1>2. /\ queue' \in Seq(Event) /\ Len(queue') = Len(queue) + Len(xs)
      /\ \A k \in 1..(Len(queue) + Len(xs)) :
           queue'[k] = IF k <= Len(queue) THEN queue[k] ELSE xs[k - Len(queue)]
  BY <1>1, ConcatProperties
<1>3. Rest(0) = Len(queue)
  BY <1>1 DEF Rest
<1>4. \A k \in 1..Len(queue) : queue'[k] = queue[k]
  BY <1>1, <1>2
<1>5. ASSUME NEW k \in 1..Len(xs) PROVE queue'[Len(queue) + k] = xs[k]
  BY <1>1, <1>2
<1>6. \A k \in 1..Rest(0) : queue'[k] = queue[Before(0, k)]
  BY <1>3, <1>4 DEF Before
<1>7. \A k \in 1..Len(xs) : queue'[Rest(0) + k] = xs[k]
  BY <1>3, <1>5
<1>8. Len(queue') = Rest(0) + Len(xs)
  BY <1>2, <1>3
<1>9. 0 \in 0..Len(queue)
  BY <1>1
<1>. QED
  BY <1>2, <1>6, <1>7, <1>8, <1>9 DEF Moves

LEMMA ThenMoves ==
  ASSUME Typed, queue # <<>>, NEW xs \in Seq(Event), Then(xs)
  PROVE  Moves(1, xs) /\ Head(queue) = queue[1] /\ 1 \in 1..Len(queue)
<1>1. queue \in Seq(Event) /\ Len(queue) \in Nat /\ Len(xs) \in Nat /\ Len(queue) # 0
  BY LenProperties, EmptySeq DEF Typed
<1>2. /\ Tail(queue) \in Seq(Event) /\ Len(Tail(queue)) = Len(queue) - 1
      /\ \A k \in 1..(Len(queue) - 1) : Tail(queue)[k] = queue[k + 1]
  BY <1>1, HeadTailProperties
<1>3. PICK t : t = Tail(queue)
  OBVIOUS
<1>4. PICK n : n = Len(queue) - 1
  OBVIOUS
<1>5. n \in Nat /\ t \in Seq(Event) /\ Len(t) = n
  BY <1>1, <1>2, <1>3, <1>4
<1>6. queue' = t \o xs
  BY <1>3 DEF Then
<1>7. /\ queue' \in Seq(Event) /\ Len(queue') = n + Len(xs)
      /\ \A k \in 1..(n + Len(xs)) : queue'[k] = IF k <= n THEN t[k] ELSE xs[k - n]
  BY <1>5, <1>6, ConcatProperties
<1>8. Rest(1) = n
  BY <1>1, <1>4 DEF Rest
<1>9. ASSUME NEW k \in 1..n PROVE queue'[k] = queue[Before(1, k)]
  <2>1. k \in Nat /\ 1 <= k /\ k <= n /\ Before(1, k) = k + 1
    BY <1>5 DEF Before
  <2>2. queue'[k] = t[k]
    BY <1>1, <1>5, <1>7, <2>1
  <2>. QED
    BY <1>2, <1>3, <1>4, <2>1, <2>2
<1>10. ASSUME NEW k \in 1..Len(xs) PROVE queue'[n + k] = xs[k]
  BY <1>1, <1>5, <1>7
<1>11. Head(queue) = queue[1] /\ 1 \in 1..Len(queue)
  BY <1>1, HeadTailProperties
<1>. QED
  BY <1>1, <1>7, <1>8, <1>9, <1>10, <1>11 DEF Moves

LEMMA RemainingMoves ==
  ASSUME Typed, NEW xs \in Seq(Event), queue' = Remaining \o xs
  PROVE  \E p \in 0..Len(queue) :
           /\ Moves(p, xs)
           /\ p = 0 => Remaining = queue /\ \A k \in 1..Len(queue) : ~IsLeft(k)
           /\ p # 0 => Remaining # queue /\ IsLeft(p)
<1>1. queue \in Seq(Event) /\ Len(queue) \in Nat /\ Len(xs) \in Nat
      /\ DOMAIN queue = 1..Len(queue)
  BY LenProperties DEF Typed
<1>2. CASE \A k \in 1..Len(queue) : ~IsLeft(k)
  <2>1. Remaining = queue
    BY <1>1, <1>2 DEF Remaining
  <2>2. Moves(0, xs)
    BY <2>1, PostMoves
  <2>. QED
    BY <1>1, <1>2, <2>1, <2>2
<1>3. CASE \E k \in 1..Len(queue) : IsLeft(k)
  <2>1. PICK p : p = CHOOSE k \in DOMAIN queue : IsLeft(k)
    OBVIOUS
  <2>2. p \in 1..Len(queue) /\ IsLeft(p)
    BY <1>1, <1>3, <2>1
  <2>3. Remaining = RemoveAt(queue, p)
    BY <1>1, <1>3, <2>1 DEF Remaining
  <2>4. PICK a : a = SubSeq(queue, 1, p - 1)
    OBVIOUS
  <2>5. PICK b : b = SubSeq(queue, p + 1, Len(queue))
    OBVIOUS
  <2>6. \A i \in 1..Len(queue) : queue[i] \in Event
    BY <1>1, ElementOfSeq
  <2>7. /\ a \in Seq(Event) /\ Len(a) = p - 1
        /\ \A k \in 1..(p - 1) : a[k] = queue[k]
    <3>1. /\ 1 \in Int /\ p - 1 \in Int /\ (\A i \in 1..(p - 1) : queue[i] \in Event)
          /\ 1 <= (p - 1) + 1
      BY <1>1, <2>2, <2>6
    <3>. QED
      BY <1>1, <2>2, <2>4, <3>1, SubSeqProperties
  <2>8. /\ b \in Seq(Event) /\ Len(b) = Len(queue) - p
        /\ \A k \in 1..(Len(queue) - p) : b[k] = queue[p + k]
    <3>1. /\ p + 1 \in Int /\ Len(queue) \in Int
          /\ (\A i \in (p + 1)..Len(queue) : queue[i] \in Event)
          /\ p + 1 <= Len(queue) + 1
      BY <1>1, <2>2, <2>6
    <3>2. /\ b \in Seq(Event) /\ Len(b) = Len(queue) - (p + 1) + 1
          /\ \A k \in 1..(Len(queue) - (p + 1) + 1) : b[k] = queue[(p + 1) + k - 1]
      BY <1>1, <2>5, <3>1, SubSeqProperties
    <3>3. Len(queue) - (p + 1) + 1 = Len(queue) - p
      BY <1>1, <2>2
    <3>4. \A k \in 1..(Len(queue) - p) : (p + 1) + k - 1 = p + k
      BY <1>1, <2>2
    <3>. QED
      BY <3>2, <3>3, <3>4
  <2>9. PICK t : t = a \o b
    OBVIOUS
  <2>10. Remaining = t
    BY <2>3, <2>4, <2>5, <2>9 DEF RemoveAt
  <2>11. PICK n : n = Len(queue) - 1
    OBVIOUS
  <2>12. /\ n \in Nat /\ t \in Seq(Event) /\ Len(t) = n
         /\ \A k \in 1..n : t[k] = queue[Before(p, k)]
    <3>1. /\ t \in Seq(Event) /\ Len(t) = (p - 1) + (Len(queue) - p)
          /\ \A k \in 1..((p - 1) + (Len(queue) - p)) :
               t[k] = IF k <= p - 1 THEN a[k] ELSE b[k - (p - 1)]
      BY <2>7, <2>8, <2>9, ConcatProperties
    <3>2. n \in Nat /\ (p - 1) + (Len(queue) - p) = n
      BY <1>1, <2>2, <2>11
    <3>3. ASSUME NEW k \in 1..n PROVE t[k] = queue[Before(p, k)]
      <4>1. CASE k <= p - 1
        <5>1. k \in 1..(p - 1) /\ Before(p, k) = k
          BY <1>1, <2>2, <3>2, <4>1 DEF Before
        <5>. QED
          BY <2>7, <3>1, <3>2, <4>1, <5>1
      <4>2. CASE ~(k <= p - 1)
        <5>1. /\ k - (p - 1) \in 1..(Len(queue) - p) /\ Before(p, k) = k + 1
              /\ p + (k - (p - 1)) = k + 1
          BY <1>1, <2>2, <2>11, <3>2, <4>2 DEF Before
        <5>. QED
          BY <2>8, <3>1, <3>2, <4>2, <5>1
      <4>. QED
        BY <4>1, <4>2
    <3>. QED
      BY <3>1, <3>2, <3>3
  <2>13. t # queue
    BY <1>1, <2>11, <2>12
  <2>14. Rest(p) = n /\ p # 0 /\ p \in 0..Len(queue)
    BY <1>1, <2>2, <2>11 DEF Rest
  <2>15. /\ queue' \in Seq(Event) /\ Len(queue') = n + Len(xs)
         /\ \A k \in 1..(n + Len(xs)) : queue'[k] = IF k <= n THEN t[k] ELSE xs[k - n]
    BY <1>1, <2>10, <2>12, ConcatProperties
  <2>16. ASSUME NEW k \in 1..n PROVE queue'[k] = t[k]
    BY <1>1, <2>12, <2>15
  <2>17. ASSUME NEW k \in 1..Len(xs) PROVE queue'[n + k] = xs[k]
    BY <1>1, <2>12, <2>15
  <2>18. Moves(p, xs)
    BY <2>12, <2>14, <2>15, <2>16, <2>17 DEF Moves
  <2>. QED
    BY <2>2, <2>10, <2>13, <2>14, <2>18
<1>. QED
  BY <1>2, <1>3
-----------------------------------------------------------------------------
(***************************************************************************)
(* Steps in general.  The frames up to b stay what they are; only the one  *)
(* at c is given its result.                                               *)
(***************************************************************************)
Like(f, g) ==
  /\ g.op = f.op
  /\ f.op \in Calls =>
       /\ g.link = f.link /\ (f.answered => g.answered)
       /\ g.st = "apply" <=> f.st = "apply"
       /\ g.st = "sent" => f.st = "sent"
  /\ f.op \notin Calls => g.dev = f.dev
SameResult(f, g) ==
  f.op \in Calls =>
    /\ g.ok = f.ok /\ g.ids = f.ids
    /\ g.left \subseteq f.left /\ (f.st # "apply" => g.left = f.left)

Under(b, c) ==
  /\ b \in 0..Depth /\ b <= Depth'
  /\ \A i \in 1..b : Like(stack[i], stack'[i])
  /\ \A i \in 1..b : i # c => SameResult(stack[i], stack'[i])

Refers(x, b, c) ==
  /\ x.e \in Replies => x.at <= b /\ x.at # c
  /\ x.e \in Tellings => \A i \in x.calls : i <= b

(* What the client posts to itself. *)
Placed(p, xs, k) ==
  /\ xs[k].e \in Own
  /\ xs[k].e \in {"stop", "done"} =>
       \A i \in xs[k].calls : i \in 1..Depth' /\ stack'[i].op \in Calls /\ stack'[i].st # "apply"
  /\ xs[k].e = "info" =>
       \A i \in xs[k].calls : i \in 1..Depth' /\ stack'[i].op \notin Calls
  /\ xs[k].e = "reply" =>
       /\ Len(xs) = 1 /\ ForCall(xs[k])'
       /\ \A j \in 1..Len(queue) :
            j # p /\ queue[j].e \in Replies => queue[j].at # xs[k].at
       /\ xs[k].ok => link'[stack'[xs[k].at].link].auth

(* A step that leaves the connection alone. *)
Steady ==
  /\ sock' = sock /\ ready' = ready
  /\ \A l \in Links : /\ link'[l].st = link[l].st
                      /\ link[l].auth => link'[l].auth
                      /\ link'[l].auth /\ ~link[l].auth => l = sock /\ ready /\ link[l].st = "up"

Grows ==
  /\ sock' = sock /\ (ready => ready')
  /\ \A l \in Links : link[l].auth => link'[l].auth

LEMMA OwnAre ==
  /\ \A e \in Own : e \notin OfLink /\ e \notin News /\ e # "answer"
  /\ \A e \in Tellings : e \in Own /\ e \notin Replies
  /\ \A e \in Replies : e \notin OfLink /\ e \notin News
BY DEF Own, OfLink, News, Tellings, Replies

LEMMA AddressedKept ==
  ASSUME Typed, Typed', Addressed, NEW p, NEW xs, Moves(p, xs), NEW b, NEW c, Under(b, c),
         \A k \in 1..Len(queue) : k # p => Refers(queue[k], b, c),
         \A k \in 1..Len(xs) :
           \/ xs[k].e \in OfLink \cup News
           \/ Placed(p, xs, k)
           \/ /\ xs[k].e = "answer" /\ Len(xs) = 1 /\ ForCall(xs[k])'
              /\ \A j \in 1..Len(queue) :
                   j # p /\ queue[j].e \in Replies => queue[j].at # xs[k].at
  PROVE  Addressed'
<1>1. b \in Nat /\ b <= Depth /\ b <= Depth' /\ Depth \in Nat /\ Depth' \in Nat
  <2>1. Depth' \in Nat
    BY LenProperties DEF Typed, Depth
  <2>. QED
    BY <2>1, PlacesAre DEF Under
<1>2. /\ \A k \in 1..Rest(p) :
            /\ Before(p, k) \in 1..Len(queue) /\ Before(p, k) # p
            /\ queue'[k] = queue[Before(p, k)]
      /\ \A j, k \in 1..Rest(p) : Before(p, j) = Before(p, k) => j = k
      /\ \A k \in 1..Len(queue') :
            k \in 1..Rest(p) \/ \E i \in 1..Len(xs) : k = Rest(p) + i /\ queue'[k] = xs[i]
  <2>1. /\ Rest(p) \in Nat
        /\ \A k \in 1..Rest(p) : Before(p, k) \in 1..Len(queue)
        /\ \A j, k \in 1..Rest(p) : j < k <=> Before(p, j) < Before(p, k)
    BY BeforeIs
  <2>2. \A j, k \in 1..Rest(p) : Before(p, j) = Before(p, k) => j = k
    <3>. SUFFICES ASSUME NEW j \in 1..Rest(p), NEW k \in 1..Rest(p),
                         Before(p, j) = Before(p, k)
                  PROVE  j = k
      OBVIOUS
    <3>1. /\ j \in Int /\ k \in Int /\ Before(p, j) \in Int
          /\ ~(Before(p, j) < Before(p, k)) /\ ~(Before(p, k) < Before(p, j))
      BY <2>1
    <3>2. ~(j < k) /\ ~(k < j)
      BY <2>1, <3>1
    <3>. QED
      BY <3>1, <3>2
  <2>. QED
    BY <2>2, BeforeIs
<1>3. ASSUME NEW i \in 1..b
      PROVE  /\ i \in 1..Depth /\ i \in 1..Depth' /\ stack'[i].op = stack[i].op
             /\ stack[i].op \in Calls =>
                  /\ stack'[i].st = "apply" <=> stack[i].st = "apply"
                  /\ stack[i].answered => stack'[i].answered
                  /\ i # c => stack'[i].ok = stack[i].ok
  <2>1. i \in 1..Depth /\ i \in 1..Depth'
    BY <1>1
  <2>. QED
    BY <2>1 DEF Under, Like, SameResult
<1>4. ASSUME NEW x, x.e \in Replies => x.at \in 1..MaxFrames, ForCall(x), Refers(x, b, c),
             x.e \in Replies
      PROVE  ForCall(x)'
  <2>1. x.at \in 1..b /\ x.at # c
    BY <1>1, <1>4 DEF Refers, ForCall, IsCall
  <2>. QED
    BY <1>3, <1>4, <2>1 DEF ForCall, IsCall
<1>5. ASSUME NEW k \in 1..Len(queue')
      PROVE  /\ (queue[k].e \in Replies => ForCall(queue[k]))'
             /\ queue'[k].e \in {"stop", "done"} =>
                  \A i \in queue'[k].calls :
                    i \in 1..Depth' /\ stack'[i].op \in Calls /\ stack'[i].st # "apply"
             /\ queue'[k].e = "info" =>
                  \A i \in queue'[k].calls : i \in 1..Depth' /\ stack'[i].op \notin Calls
  <2>1. CASE k \in 1..Rest(p)
    <3>1. PICK j \in 1..Len(queue) : j # p /\ queue'[k] = queue[j]
      BY <1>2, <2>1
    <3>2. PICK x : x = queue[j]
      OBVIOUS
    <3>3. x \in Event /\ Refers(x, b, c)
      BY <3>1, <3>2, PlacesAre
    <3>4. CASE x.e \in Replies
      <4>1. ForCall(x) /\ x.at \in 1..MaxFrames
        BY <3>2, <3>3, <3>4, EventIs DEF Addressed, ReplyEvents
      <4>2. ForCall(x)'
        BY <1>4, <3>3, <3>4, <4>1
      <4>3. x.e \notin {"stop", "done", "info"}
        BY <3>4 DEF Replies
      <4>. QED
        BY <3>1, <3>2, <4>2, <4>3
    <3>5. CASE x.e \in {"stop", "done"}
      <4>1. \A i \in x.calls : IsCall(i) /\ stack[i].st # "apply"
        BY <3>2, <3>5 DEF Addressed
      <4>2. \A i \in x.calls : i <= b
        BY <3>3, <3>5 DEF Refers, Tellings
      <4>3. ASSUME NEW i \in x.calls
            PROVE  i \in 1..Depth' /\ stack'[i].op \in Calls /\ stack'[i].st # "apply"
        <5>1. i \in 1..b
          BY <1>1, <4>1, <4>2 DEF IsCall
        <5>. QED
          BY <1>3, <4>1, <5>1 DEF IsCall
      <4>4. x.e \notin Replies /\ x.e # "info"
        BY <3>5 DEF Replies
      <4>. QED
        BY <3>1, <3>2, <4>3, <4>4
    <3>6. CASE x.e = "info"
      <4>1. \A i \in x.calls : i \in 1..Depth /\ ~IsCall(i)
        BY <3>2, <3>6 DEF Addressed
      <4>2. \A i \in x.calls : i <= b
        BY <3>3, <3>6 DEF Refers, Tellings
      <4>3. ASSUME NEW i \in x.calls
            PROVE  i \in 1..Depth' /\ stack'[i].op \notin Calls
        <5>1. i \in 1..b
          BY <1>1, <4>1, <4>2
        <5>. QED
          BY <1>3, <4>1, <5>1 DEF IsCall
      <4>4. x.e \notin Replies /\ x.e \notin {"stop", "done"}
        BY <3>6 DEF Replies
      <4>. QED
        BY <3>1, <3>2, <4>3, <4>4
    <3>. QED
      BY <3>1, <3>2, <3>4, <3>5, <3>6
  <2>2. CASE k \notin 1..Rest(p)
    <3>1. PICK i \in 1..Len(xs) : k = Rest(p) + i /\ queue'[k] = xs[i]
      BY <1>2, <2>2
    <3>2. CASE xs[i].e \in OfLink \cup News
      BY <3>1, <3>2 DEF OfLink, News, Replies
    <3>3. CASE Placed(p, xs, i)
      <4>1. xs[i].e \in Replies => xs[i].e = "reply"
        BY <3>3 DEF Placed, Own, Replies
      <4>. QED
        BY <3>1, <3>3, <4>1 DEF Placed
    <3>4. CASE xs[i].e = "answer" /\ ForCall(xs[i])'
      BY <3>1, <3>4
    <3>. QED
      BY <3>2, <3>3, <3>4
  <2>. QED
    BY <2>1, <2>2
<1>6. ASSUME NEW j \in 1..Len(queue'), NEW k \in 1..Len(queue'),
             queue'[j].e \in Replies, queue'[k].e \in Replies, queue'[j].at = queue'[k].at
      PROVE  j = k
  <2>1. ASSUME NEW i \in 1..Len(xs), xs[i].e \in Replies
        PROVE  /\ Len(xs) = 1 /\ i = 1
               /\ \A m \in 1..Rest(p) : queue'[m].e \in Replies => queue'[m].at # xs[i].at
    <3>1. /\ Len(xs) = 1
          /\ \A m \in 1..Len(queue) : m # p /\ queue[m].e \in Replies => queue[m].at # xs[i].at
      <4>1. xs[i].e \notin OfLink \cup News
        BY <2>1, OwnAre
      <4>2. CASE Placed(p, xs, i)
        <5>1. xs[i].e = "reply"
          BY <2>1, <4>2 DEF Placed, Own, Replies
        <5>. QED
          BY <4>2, <5>1 DEF Placed
      <4>. QED
        BY <4>1, <4>2
    <3>2. i = 1
      BY <3>1
    <3>. QED
      BY <1>2, <3>1, <3>2
  <2>2. CASE j \in 1..Rest(p) /\ k \in 1..Rest(p)
    <3>1. Before(p, j) = Before(p, k)
      BY <1>2, <1>6, <2>2 DEF Addressed
    <3>. QED
      BY <1>2, <2>2, <3>1
  <2>3. CASE j \in 1..Rest(p) /\ k \notin 1..Rest(p)
    <3>1. PICK i \in 1..Len(xs) : queue'[k] = xs[i]
      BY <1>2, <2>3
    <3>. QED
      BY <1>6, <2>1, <2>3, <3>1
  <2>4. CASE j \notin 1..Rest(p) /\ k \in 1..Rest(p)
    <3>1. PICK i \in 1..Len(xs) : queue'[j] = xs[i]
      BY <1>2, <2>4
    <3>. QED
      BY <1>6, <2>1, <2>4, <3>1
  <2>5. CASE j \notin 1..Rest(p) /\ k \notin 1..Rest(p)
    <3>1. PICK i \in 1..Len(xs) : j = Rest(p) + i /\ queue'[j] = xs[i]
      BY <1>2, <2>5
    <3>2. PICK m \in 1..Len(xs) : k = Rest(p) + m /\ queue'[k] = xs[m]
      BY <1>2, <2>5
    <3>3. i = 1 /\ m = 1
      BY <1>6, <2>1, <3>1, <3>2
    <3>. QED
      BY <3>1, <3>2, <3>3
  <2>. QED
    BY <2>2, <2>3, <2>4, <2>5
<1>7. \A k \in 1..Len(queue') :
        /\ (queue[k].e \in Replies => ForCall(queue[k]))'
        /\ queue'[k].e \in {"stop", "done"} =>
             \A i \in queue'[k].calls : IsCall(i)' /\ stack'[i].st # "apply"
        /\ queue'[k].e = "info" => \A i \in queue'[k].calls : i \in 1..Depth' /\ ~IsCall(i)'
  BY <1>5 DEF IsCall
<1>. QED
  BY <1>6, <1>7 DEF Addressed
LEMMA FramedKept ==
  ASSUME Typed, Typed', Framed, NEW b, NEW c, Under(b, c),
         \A i \in 1..b : IsCall(i) /\ link[stack[i].link].auth => link'[stack[i].link].auth,
         \A i \in 1..Depth' : (i > b \/ i = c) => (IsCall(i) => FrameFits(stack[i]))'
  PROVE  Framed'
<1>1. b \in Nat /\ b <= Depth /\ b <= Depth' /\ Depth \in Nat /\ Depth' \in Nat
  <2>1. Depth' \in Nat
    BY LenProperties DEF Typed, Depth
  <2>. QED
    BY <2>1, PlacesAre DEF Under
<1>2. ASSUME NEW i \in 1..Depth', IsCall(i)' PROVE FrameFits(stack[i])'
  <2>1. CASE i > b \/ i = c
    BY <1>2, <2>1
  <2>2. CASE ~(i > b \/ i = c)
    <3>1. i \in 1..b /\ i \in 1..Depth /\ i # c
      BY <1>1, <2>2
    <3>2. Like(stack[i], stack'[i]) /\ SameResult(stack[i], stack'[i])
      BY <3>1 DEF Under
    <3>3. IsCall(i)
      BY <1>2, <3>1, <3>2 DEF Like, IsCall
    <3>4. FrameFits(stack[i])
      BY <3>1, <3>3 DEF Framed
    <3>5. /\ stack'[i].op = stack[i].op /\ stack'[i].link = stack[i].link
          /\ (stack[i].answered => stack'[i].answered)
          /\ stack'[i].left \subseteq stack[i].left
          /\ (stack[i].st # "apply" => stack'[i].left = stack[i].left)
          /\ (stack'[i].st = "apply" <=> stack[i].st = "apply")
          /\ (stack'[i].st = "sent" => stack[i].st = "sent")
          /\ stack'[i].ok = stack[i].ok /\ stack'[i].ids = stack[i].ids
      BY <3>2, <3>3 DEF Like, SameResult, IsCall
    <3>6. link[stack[i].link].auth => link'[stack[i].link].auth
      BY <3>1, <3>3
    <3>. QED
      BY <3>4, <3>5, <3>6 DEF FrameFits
  <2>. QED
    BY <2>1, <2>2
<1>. QED
  BY <1>2 DEF Framed

LEMMA ConnectedKept ==
  ASSUME Typed, Typed', Connected, Steady, NEW p, NEW xs, Moves(p, xs), NEW b, NEW c, Under(b, c),
         p # 0 => queue[p].e \notin OfLink,
         \A i \in 1..Depth' : i > b => (IsCall(i) => ready \/ stack[i].link # sock)'
  PROVE  Connected'
<1>1. \A l \in Links \ {sock'} : link'[l].st \in {"free", "lost"}
  BY DEF Connected, Steady
<1>2. sock' = None => ~ready'
  BY DEF Connected, Steady
<1>3. ASSUME sock' # None
      PROVE  /\ link'[sock'].st # "free"
             /\ link'[sock'].st = "new" => ~ready'
             /\ ~ready' => ~link'[sock'].auth /\ Parted'
             /\ link'[sock'].st = "lost" =>
                  \E k \in 1..Len(queue') :
                    queue'[k].e = "gone" \/ (queue'[k].e = "error" /\ ~link'[sock'].auth)
  <2>1. /\ sock \in Links /\ sock # None /\ link[sock].st # "free"
        /\ link[sock].st = "new" => ~ready
        /\ ~ready => ~link[sock].auth /\ Parted
        /\ link[sock].st = "lost" =>
             \E k \in 1..Len(queue) :
               queue[k].e = "gone" \/ (queue[k].e = "error" /\ ~link[sock].auth)
        /\ link'[sock].st = link[sock].st
        /\ link'[sock].auth /\ ~link[sock].auth => ready /\ link[sock].st = "up"
    BY <1>3 DEF Connected, Typed, Steady
  <2>2. ASSUME ~ready, NEW i \in 1..Depth', IsCall(i)' PROVE stack'[i].link # sock
    <3>1. b \in Nat /\ b <= Depth /\ Depth \in Nat /\ Depth' \in Nat
      <4>1. Depth' \in Nat
        BY LenProperties DEF Typed, Depth
      <4>. QED
        BY <4>1, PlacesAre DEF Under
    <3>2. CASE i > b
      BY <2>2, <3>2 DEF Steady
    <3>3. CASE ~(i > b)
      <4>1. i \in 1..b /\ i \in 1..Depth
        BY <3>1, <3>3
      <4>2. Like(stack[i], stack'[i])
        BY <4>1 DEF Under
      <4>3. IsCall(i) /\ stack'[i].link = stack[i].link
        BY <2>2, <4>1, <4>2 DEF Like, IsCall
      <4>. QED
        BY <2>1, <2>2, <4>1, <4>3 DEF Parted
    <3>. QED
      BY <3>2, <3>3
  <2>3. ~ready => Parted'
    BY <2>2 DEF Parted, Steady
  <2>4. ASSUME link[sock].st = "lost"
        PROVE  \E k \in 1..Len(queue') :
                 queue'[k].e = "gone" \/ (queue'[k].e = "error" /\ ~link'[sock].auth)
    <3>1. PICK j \in 1..Len(queue) :
            queue[j].e = "gone" \/ (queue[j].e = "error" /\ ~link[sock].auth)
      BY <2>1, <2>4
    <3>2. j # p
      BY <3>1 DEF OfLink
    <3>3. PICK k \in 1..Rest(p) : Before(p, k) = j
      BY <3>2, BeforeIs
    <3>4. k \in 1..Len(queue') /\ queue'[k] = queue[j]
      BY <3>3, BeforeIs
    <3>5. ~link[sock].auth => ~link'[sock].auth
      BY <2>1, <2>4
    <3>. QED
      BY <3>1, <3>4, <3>5
  <2>. QED
    BY <2>1, <2>3, <2>4 DEF Steady
<1>. QED
  BY <1>1, <1>2, <1>3 DEF Connected

LEMMA OrderedKept ==
  ASSUME Typed, Connected, Ordered, Steady, NEW p, NEW xs, Moves(p, xs), Len(xs) <= 1,
         \A k \in 1..Len(xs) :
           /\ xs[k].e \notin OfLink
           /\ xs[k].e \in {"answer"} \cup News => sock # None /\ link[sock].st = "up"
  PROVE  Ordered'
<1>1. Len(xs) \in Nat /\ Rest(p) \in Nat
  BY BeforeIs
<1>2. ASSUME NEW k \in 1..Len(queue'), queue'[k].e \in OfLink
      PROVE  \E j \in 1..Len(queue) : k \in 1..Rest(p) /\ j = Before(p, k) /\ queue'[k] = queue[j]
  BY <1>2, BeforeIs
<1>3. ASSUME NEW k \in 1..Len(queue'), queue'[k].e \in OfLink PROVE OfSocket(queue[k])'
  <2>1. PICK j \in 1..Len(queue) : queue'[k] = queue[j]
    BY <1>2, <1>3
  <2>2. OfSocket(queue[j])
    BY <1>3, <2>1 DEF Ordered
  <2>3. sock # None => sock \in Links
    BY DEF Typed
  <2>. QED
    BY <2>1, <2>2, <2>3 DEF OfSocket, Steady
<1>4. ASSUME NEW j \in 1..Len(queue'), NEW k \in 1..Len(queue'), j < k
      PROVE  InTurn(queue[j], queue[k])'
  <2>1. CASE queue'[j].e \notin OfLink
    BY <2>1 DEF InTurn, OfLink
  <2>2. CASE queue'[j].e \in OfLink
    <3>1. PICK m \in 1..Len(queue) :
            j \in 1..Rest(p) /\ m = Before(p, j) /\ queue'[j] = queue[m]
      BY <1>2, <2>2
    <3>2. CASE k \in 1..Rest(p)
      <4>1. PICK n \in 1..Len(queue) : n = Before(p, k) /\ queue'[k] = queue[n]
        BY <3>2, BeforeIs
      <4>2. m < n
        BY <1>4, <3>1, <3>2, <4>1, BeforeIs
      <4>3. InTurn(queue[m], queue[n])
        BY <4>2 DEF Ordered
      <4>. QED
        BY <3>1, <4>1, <4>3 DEF InTurn
    <3>3. CASE k \notin 1..Rest(p)
      <4>1. PICK i \in 1..Len(xs) : queue'[k] = xs[i]
        BY <3>3, BeforeIs
      <4>2. OfSocket(queue[m])
        BY <2>2, <3>1 DEF Ordered
      <4>3. ASSUME xs[i].e \in {"answer"} \cup News PROVE queue[m].e \notin {"error", "gone"}
        <5>1. sock # None /\ link[sock].st = "up"
          BY <4>3
        <5>. QED
          BY <4>2, <5>1 DEF OfSocket
      <4>4. xs[i].e \notin OfLink
        OBVIOUS
      <4>. QED
        BY <3>1, <4>1, <4>3, <4>4 DEF InTurn
    <3>. QED
      BY <3>2, <3>3
  <2>. QED
    BY <2>1, <2>2
<1>. QED
  BY <1>3, <1>4 DEF Ordered

LEMMA AnsweredGrows ==
  ASSUME Typed, Typed', Addressed, Connected, Answered, Grows,
         NEW p, NEW xs, Moves(p, xs), NEW b, NEW c, Under(b, c),
         \A k \in 1..Len(queue) : k # p => Refers(queue[k], b, c),
         \A k \in 1..Len(xs) : OfServer(xs[k])'
  PROVE  Answered'
<1>. SUFFICES ASSUME NEW k \in 1..Len(queue') PROVE OfServer(queue[k])'
  BY DEF Answered
<1>1. CASE k \in 1..Rest(p)
  <2>1. PICK j \in 1..Len(queue) : j # p /\ queue'[k] = queue[j]
    <3>1. /\ Before(p, k) \in 1..Len(queue) /\ Before(p, k) # p
          /\ queue'[k] = queue[Before(p, k)]
      BY <1>1, BeforeIs
    <3>. QED
      BY <3>1
  <2>2. OfServer(queue[j]) /\ queue[j] \in Event
    BY PlacesAre DEF Answered
  <2>3. ASSUME queue[j].e \in Replies
        PROVE  LET f == stack[queue[j].at]
                   g == stack'[queue[j].at]
               IN  f.link \in Links /\ g.link = f.link /\ queue[j].e = queue'[k].e
    <3>1. ForCall(queue[j]) /\ queue[j].at <= b /\ queue[j].at \in 1..MaxFrames
      BY <2>1, <2>2, <2>3, EventIs DEF Addressed, Refers, ReplyEvents
    <3>2. PICK i : i = queue[j].at
      OBVIOUS
    <3>3. i \in 1..b /\ IsCall(i)
      BY <3>1, <3>2, PlacesAre DEF ForCall, Under
    <3>4. Like(stack[i], stack'[i])
      BY <3>3 DEF Under
    <3>5. stack[i] \in CallFrames
      BY <3>3, PlacesAre, FrameIs DEF IsCall
    <3>. QED
      BY <2>1, <3>2, <3>3, <3>4, <3>5 DEF Like, IsCall, CallFrames
  <2>4. queue[j].e \in News => sock \in Links
    BY <2>2 DEF OfServer, Connected, Typed
  <2>5. "answer" \in Replies
    BY DEF Replies
  <2>. QED
    BY <2>1, <2>2, <2>3, <2>4, <2>5 DEF OfServer, Grows
<1>2. CASE k \notin 1..Rest(p)
  <2>1. PICK i \in 1..Len(xs) : queue'[k] = xs[i]
    BY <1>2, BeforeIs
  <2>2. OfServer(xs[i])'
    OBVIOUS
  <2>. QED
    BY <2>1, <2>2 DEF OfServer
<1>. QED
  BY <1>1, <1>2

LEMMA AnsweredKept ==
  ASSUME Typed, Typed', Addressed, Connected, Answered, Steady,
         NEW p, NEW xs, Moves(p, xs), NEW b, NEW c, Under(b, c),
         \A k \in 1..Len(queue) : k # p => Refers(queue[k], b, c),
         \A k \in 1..Len(xs) : OfServer(xs[k])'
  PROVE  Answered'
<1>1. Grows
  BY DEF Steady, Grows
<1>. QED
  BY <1>1, AnsweredGrows
(* A step of the client that leaves the connection alone. *)
LEMMA BasicsKept ==
  ASSUME Basics, Typed', Steady, NEW p, NEW xs, Moves(p, xs), Len(xs) <= 1,
         NEW b, NEW c, Under(b, c),
         p # 0 => queue[p].e \notin OfLink,
         \A k \in 1..Len(queue) : k # p => Refers(queue[k], b, c),
         \A k \in 1..Len(xs) : Placed(p, xs, k),
         \A i \in 1..Depth' : (i > b \/ i = c) => (IsCall(i) => FrameFits(stack[i]))',
         \A i \in 1..Depth' : i > b => (IsCall(i) => ready \/ stack[i].link # sock)'
  PROVE  Basics'
<1>1. Typed /\ Addressed /\ Framed /\ Connected /\ Ordered /\ Answered
  BY DEF Basics
<1>2. Addressed'
  BY <1>1, AddressedKept
<1>3. ASSUME NEW i \in 1..b, IsCall(i), link[stack[i].link].auth
      PROVE  link'[stack[i].link].auth
  <2>1. stack[i].link \in Links
    BY <1>1, <1>3, PlacesAre, FrameIs DEF IsCall, CallFrames
  <2>. QED
    BY <1>3, <2>1 DEF Steady
<1>4. Framed'
  BY <1>1, <1>3, FramedKept
<1>5. Connected'
  BY <1>1, ConnectedKept
<1>6. \A k \in 1..Len(xs) : xs[k].e \notin OfLink /\ xs[k].e \notin {"answer"} \cup News
  BY OwnAre DEF Placed
<1>7. Ordered'
  BY <1>1, <1>6, OrderedKept
<1>8. ASSUME NEW k \in 1..Len(xs) PROVE OfServer(xs[k])'
  <2>1. xs[k].e \in Replies => xs[k].e = "reply"
    BY <1>6 DEF Replies
  <2>. QED
    BY <1>6, <2>1 DEF OfServer, Placed
<1>9. Answered'
  BY <1>1, <1>8, AnsweredKept
<1>. QED
  BY <1>2, <1>4, <1>5, <1>7, <1>9 DEF Basics

LEMMA RefersAll ==
  ASSUME Typed, Addressed, NEW k \in 1..Len(queue)
  PROVE  Refers(queue[k], Depth, 0)
<1>1. queue[k] \in Event /\ Depth \in Nat
  BY PlacesAre
<1>2. queue[k].e \in Replies => queue[k].at \in 1..Depth
  BY DEF Addressed, ForCall, IsCall
<1>3. queue[k].e \in Tellings => \A i \in queue[k].calls : i \in 1..Depth
  BY DEF Addressed, Tellings, IsCall
<1>. QED
  BY <1>1, <1>2, <1>3 DEF Refers

(* At the end of a wait no event refers to the function that waited, but   *)
(* an answer that is left.                                                 *)
LEMMA RefersDrained ==
  ASSUME Typed, Addressed, stack # <<>>, Drained, NEW k \in 1..Len(queue), ~IsLeft(k)
  PROVE  Refers(queue[k], Depth - 1, 0)
<1>1. Refers(queue[k], Depth, 0)
  BY RefersAll
<1>2. queue[k].e \notin Own
  BY LenProperties DEF Typed, Drained, ToSet
<1>3. queue[k].e \notin Tellings /\ queue[k].e # "reply"
  BY <1>2 DEF Own, Tellings
<1>4. queue[k].e \in Replies => queue[k].at # Depth /\ queue[k].at \in 1..Depth
  <2>1. queue[k].e \in Replies => queue[k].at \in 1..Depth
    BY DEF Addressed, ForCall, IsCall
  <2>. QED
    BY <1>3, <2>1 DEF IsLeft, Replies
<1>5. Depth \in Nat
  BY PlacesAre
<1>. QED
  BY <1>3, <1>4, <1>5 DEF Refers

LEMMA RefersApplied ==
  ASSUME Typed, Addressed, stack # <<>>, Top.op \in Calls, Top.st = "apply",
         NEW k \in 1..Len(queue)
  PROVE  Refers(queue[k], Depth - 1, 0)
<1>1. Top = stack[Depth] /\ Depth \in Nat
  BY TopIs
<1>2. queue[k].e \in Replies => queue[k].at \in 1..Depth /\ queue[k].at # Depth
  BY <1>1 DEF Addressed, ForCall, IsCall
<1>3. queue[k].e \in Tellings => \A i \in queue[k].calls : i \in 1..Depth /\ i # Depth
  <2>1. CASE queue[k].e \in {"stop", "done"}
    BY <1>1, <2>1 DEF Addressed, IsCall
  <2>2. CASE queue[k].e = "info"
    BY <1>1, <2>2 DEF Addressed, IsCall
  <2>. QED
    BY <2>1, <2>2 DEF Tellings
<1>. QED
  BY <1>1, <1>2, <1>3 DEF Refers
-----------------------------------------------------------------------------
(***************************************************************************)
(* The stack.                                                              *)
(***************************************************************************)
LEMMA LikeIs ==
  /\ \A f : Like(f, f) /\ SameResult(f, f)
BY DEF Like, SameResult

LEMMA UnderSame ==
  ASSUME Typed, Typed', NEW b \in 0..Depth, b <= Depth',
         \A i \in 1..b : stack'[i] = stack[i]
  PROVE  Under(b, 0)
BY LikeIs DEF Under

LEMMA AppendIs ==
  ASSUME Typed, NEW f \in Frame, Depth < MaxFrames, stack' = Append(stack, f)
  PROVE  /\ stack' \in Seq(Frame) /\ Depth' = Depth + 1 /\ Depth' <= MaxFrames
         /\ stack'[Depth + 1] = f
         /\ \A i \in 1..Depth : stack'[i] = stack[i]
<1>1. stack \in Seq(Frame) /\ Depth \in Nat /\ MaxFrames \in Nat
  BY PlacesAre DEF Typed
<1>2. /\ stack' \in Seq(Frame) /\ Len(stack') = Len(stack) + 1
      /\ stack'[Len(stack) + 1] = f
      /\ \A i \in 1..Len(stack) : stack'[i] = stack[i]
  BY <1>1, AppendProperties
<1>. QED
  BY <1>1, <1>2 DEF Depth

LEMMA ExceptIs ==
  ASSUME Typed, NEW i \in 1..Depth, NEW f \in Frame, stack' = [stack EXCEPT ![i] = f]
  PROVE  /\ stack' \in Seq(Frame) /\ Depth' = Depth
         /\ stack'[i] = f
         /\ \A j \in 1..Depth : j # i => stack'[j] = stack[j]
<1>1. stack \in Seq(Frame) /\ Depth \in Nat
  BY PlacesAre DEF Typed
<1>2. stack' \in Seq(Frame) /\ Len(stack') = Len(stack)
  BY <1>1, ExceptSeq DEF Depth
<1>3. DOMAIN stack = 1..Depth
  BY PlacesAre
<1>. QED
  BY <1>2, <1>3 DEF Depth

LEMMA MapIs ==
  ASSUME Typed, stack' \in [1..Depth -> Frame]
  PROVE  stack' \in Seq(Frame) /\ Depth' = Depth
<1>1. Depth \in Nat
  BY PlacesAre
<1>2. stack' \in Seq(Frame)
  BY <1>1, SeqDef
<1>3. Len(stack') \in Nat /\ DOMAIN stack' = 1..Len(stack') /\ DOMAIN stack' = 1..Depth
  BY <1>2, LenProperties
<1>. QED
  BY <1>1, <1>2, <1>3 DEF Depth

LEMMA ReplaceIs ==
  ASSUME Typed, stack # <<>>, NEW fs \in Seq(Frame), Len(fs) <= 1, Replace(fs)
  PROVE  /\ stack' \in Seq(Frame) /\ Depth' = Depth - 1 + Len(fs) /\ Depth' <= MaxFrames
         /\ Len(fs) \in {0, 1}
         /\ \A i \in 1..(Depth - 1) : stack'[i] = stack[i]
         /\ Len(fs) = 1 => stack'[Depth] = fs[1]
<1>1. /\ Depth \in Nat /\ Depth > 0 /\ Depth <= MaxFrames /\ MaxFrames \in Nat
      /\ Front(stack) \in Seq(Frame) /\ Len(Front(stack)) = Depth - 1
      /\ \A i \in 1..(Depth - 1) : Front(stack)[i] = stack[i]
  BY TopIs, PlacesAre
<1>2. Len(fs) \in {0, 1}
  <2>1. Len(fs) \in Nat
    BY LenProperties
  <2>. QED
    BY <2>1
<1>3. PICK s : s = Front(stack)
  OBVIOUS
<1>4. stack' = s \o fs
  BY <1>3 DEF Replace
<1>5. PICK n : n = Depth - 1
  OBVIOUS
<1>6. n \in Nat /\ Len(s) = n /\ s \in Seq(Frame)
  BY <1>1, <1>3, <1>5
<1>7. /\ stack' \in Seq(Frame) /\ Len(stack') = n + Len(fs)
      /\ \A i \in 1..(n + Len(fs)) : stack'[i] = IF i <= n THEN s[i] ELSE fs[i - n]
  BY <1>4, <1>6, ConcatProperties
<1>8. ASSUME NEW i \in 1..n PROVE stack'[i] = stack[i]
  <2>1. i \in 1..(n + Len(fs)) /\ i <= n
    BY <1>2, <1>6
  <2>2. s[i] = stack[i]
    BY <1>1, <1>3, <1>5
  <2>. QED
    BY <1>7, <2>1, <2>2
<1>9. ASSUME Len(fs) = 1 PROVE stack'[n + 1] = fs[1]
  <2>1. n + 1 \in 1..(n + Len(fs)) /\ ~(n + 1 <= n) /\ (n + 1) - n = 1
    BY <1>6, <1>9
  <2>2. stack'[n + 1] = fs[(n + 1) - n]
    BY <1>7, <2>1
  <2>. QED
    BY <2>1, <2>2
<1>10. Len(stack') = Depth - 1 + Len(fs)
  BY <1>5, <1>7
<1>11. Depth = n + 1
  BY <1>1, <1>5
<1>12. Depth' = Depth - 1 + Len(fs)
  BY <1>10 DEF Depth
<1>13. Depth' <= MaxFrames
  BY <1>1, <1>2, <1>12
<1>. QED
  BY <1>2, <1>5, <1>7, <1>8, <1>9, <1>11, <1>12, <1>13
-----------------------------------------------------------------------------
(***************************************************************************)
(* Steps that leave users, news and devices alone.                         *)
(***************************************************************************)
LEMMA UsersKept ==
  ASSUME Typed, Typed', Connected, Users, sock' = sock, ready' = ready, authed' = authed,
         history'.crossed = history.crossed, history'.late = history.late,
         NEW b, NEW c, Under(b, c),
         \A l \in Links : link[l].auth => link'[l].auth,
         \A l \in Links : link'[l].auth /\ ~link[l].auth => \E i \in 1..Depth' : Hopeful(i)',
         \A i \in 1..Depth' : i > b => stack'[i].op # "connect",
         \A i \in 1..Depth : Hopeful(i) => Hopeful(i)'
  PROVE  Users'
<1>1. b \in Nat /\ b <= Depth /\ b <= Depth' /\ Depth \in Nat /\ Depth' \in Nat
  <2>1. Depth' \in Nat
    BY LenProperties DEF Typed, Depth
  <2>. QED
    BY <2>1, PlacesAre DEF Under
<1>2. ready => sock \in Links
  BY DEF Connected, Typed
<1>3. ReadyIsAuthenticated'
  BY <1>2 DEF Users, ReadyIsAuthenticated, Ready
<1>4. ASSUME ~history'.crossed, ready', authed', NEW i \in 1..Depth',
             stack'[i].op = "connect", stack'[i].link = sock'
      PROVE  FALSE
  <2>1. i \in 1..b /\ i \in 1..Depth
    BY <1>1, <1>4
  <2>2. Like(stack[i], stack'[i])
    BY <2>1 DEF Under
  <2>3. stack[i].op = "connect" /\ stack[i].link = sock
    BY <1>4, <2>2 DEF Like, Calls
  <2>. QED
    BY <1>4, <2>1, <2>3 DEF Users
<1>5. ASSUME ready', link'[sock'].auth, ~authed', ~history'.crossed, ~history'.late
      PROVE  \E i \in 1..Depth' : Hopeful(i)'
  <2>1. CASE link[sock].auth
    <3>1. PICK i \in 1..Depth : Hopeful(i)
      BY <1>5, <2>1 DEF Users
    <3>2. Hopeful(i)'
      BY <3>1
    <3>. QED
      BY <3>2 DEF Hopeful, IsCall
  <2>2. CASE ~link[sock].auth
    BY <1>2, <1>5, <2>2
  <2>. QED
    BY <2>1, <2>2
<1>. QED
  BY <1>3, <1>4, <1>5 DEF Users

LEMMA HopefulKept ==
  ASSUME Typed, Typed', Addressed, NEW p, NEW xs, Moves(p, xs), NEW b, NEW c, Under(b, c),
         sock' = sock, NEW i \in 1..b, i # c, Hopeful(i),
         p # 0 => ~(queue[p].e \in Replies /\ queue[p].at = i)
  PROVE  Hopeful(i)'
<1>1. i \in 1..Depth'
  <2>1. Depth' \in Nat /\ Depth \in Nat
    BY LenProperties, PlacesAre DEF Typed, Depth
  <2>. QED
    BY <2>1 DEF Under
<1>2. Like(stack[i], stack'[i]) /\ SameResult(stack[i], stack'[i])
  BY DEF Under
<1>3. /\ IsCall(i)' /\ stack'[i].op = stack[i].op /\ stack'[i].link = stack[i].link
      /\ stack'[i].answered /\ stack'[i].ok = stack[i].ok
  BY <1>1, <1>2 DEF Hopeful, IsCall, Like, SameResult
<1>4. ASSUME NEW j \in 1..Len(queue), queue[j].e \in Replies, queue[j].at = i, queue[j].ok
      PROVE  \E k \in 1..Len(queue') :
               queue'[k].e \in Replies /\ queue'[k].at = i /\ queue'[k].ok
  <2>1. j # p
    BY <1>4
  <2>2. PICK k \in 1..Rest(p) : Before(p, k) = j
    BY <2>1, BeforeIs
  <2>3. k \in 1..Len(queue') /\ queue'[k] = queue[j]
    BY <2>2, BeforeIs
  <2>. QED
    BY <1>4, <2>3
<1>. QED
  BY <1>3, <1>4 DEF Hopeful

LEMMA ToldKept ==
  ASSUME Basics, Told, Steady, Typed', known' = known,
         NEW p, NEW xs, Moves(p, xs), NEW b, NEW c, Under(b, c),
         \A k \in 1..Len(queue) : k # p => Refers(queue[k], b, c),
         p \in {0, 1} \/ queue[p].e \notin News,
         \A k \in 1..Len(xs) :
           /\ xs[k].e \notin News
           /\ xs[k].e = "answer" /\ AnswerTo(xs[k], Lists)' => xs[k].ids = known
  PROVE  Told'
<1>1. Typed /\ Addressed /\ Connected /\ Answered
  BY DEF Basics
<1>2. SUFFICES ASSUME Lit', NEW d \in Devs, NEW k \in 1..Len(queue'), Unchanged(d, k)'
               PROVE  /\ NewsOf(d, queue'[k]) => (queue'[k].e = "identified" <=> d \in known)
                      /\ queue'[k].e = "answer" /\ AnswerTo(queue[k], Lists)' =>
                           (d \in queue'[k].ids <=> d \in known)
  BY DEF Told, NewsOf
<1>3. sock \in Links /\ sock # None /\ link[sock].st = "up"
  BY <1>1, <1>2 DEF Lit, Steady, Typed
<1>4. CASE k \in 1..Rest(p)
  <2>1. PICK j \in 1..Len(queue) : j = Before(p, k) /\ j # p /\ queue'[k] = queue[j]
    <3>1. /\ Before(p, k) \in 1..Len(queue) /\ Before(p, k) # p
          /\ queue'[k] = queue[Before(p, k)]
      BY <1>1, <1>4, BeforeIs
    <3>. QED
      BY <3>1
  <2>2. ASSUME queue'[k].e = "answer", AnswerTo(queue[k], Lists)'
        PROVE  AnswerTo(queue[j], Lists) /\ stack[queue[j].at].link = sock
               /\ link[sock].auth
    <3>1. queue[j].e = "answer" /\ queue[j].e \in Replies /\ queue[j].ok
      BY <2>1, <2>2 DEF Replies, AnswerTo
    <3>2. ForCall(queue[j]) /\ queue[j].at <= b
      BY <1>1, <2>1, <3>1 DEF Addressed, Refers
    <3>3. queue[j].at \in 1..b
      BY <1>1, <3>2, PlacesAre DEF ForCall, IsCall, Under
    <3>4. PICK i : i = queue[j].at
      OBVIOUS
    <3>5. Like(stack[i], stack'[i])
      BY <3>3, <3>4 DEF Under
    <3>6. stack[i].op \in Lists
      BY <2>1, <2>2, <3>4, <3>5 DEF AnswerTo, Like
    <3>7. stack[i].link = sock /\ link[stack[i].link].auth
      BY <1>1, <3>1, <3>4 DEF Answered, OfServer
    <3>. QED
      BY <3>1, <3>4, <3>6, <3>7 DEF AnswerTo
  <2>3. ASSUME NewsOf(d, queue'[k]) PROVE link[sock].auth
    BY <1>1, <2>1, <2>3 DEF Answered, OfServer, NewsOf
  <2>4. CASE ~link[sock].auth
    BY <2>2, <2>3, <2>4
  <2>5. CASE link[sock].auth
    <3>1. Lit
      BY <1>3, <2>5 DEF Lit
    <3>2. ASSUME NEW m \in 1..Len(queue), j < m PROVE ~NewsOf(d, queue[m])
      <4>1. CASE m = p
        <5>1. m \in Nat /\ j \in Nat /\ j >= 1 /\ m # 1 /\ m # 0
          BY <1>1, <3>2, PlacesAre
        <5>. QED
          BY <4>1, <5>1 DEF NewsOf
      <4>2. CASE m # p
        <5>1. PICK n \in 1..Rest(p) : Before(p, n) = m
          BY <1>1, <4>2, BeforeIs
        <5>2. n \in 1..Len(queue') /\ queue'[n] = queue[m]
          BY <1>1, <5>1, BeforeIs
        <5>3. k < n
          BY <1>1, <1>4, <2>1, <3>2, <5>1, BeforeIs
        <5>. QED
          BY <1>2, <5>2, <5>3 DEF Unchanged, NewsOf
      <4>. QED
        BY <4>1, <4>2
    <3>3. Unchanged(d, j)
      BY <3>2 DEF Unchanged
    <3>4. /\ NewsOf(d, queue[j]) => (queue[j].e = "identified" <=> d \in known)
          /\ queue[j].e = "answer" /\ AnswerTo(queue[j], Lists) =>
               (d \in queue[j].ids <=> d \in known)
      BY <3>1, <3>3 DEF Told
    <3>. QED
      BY <2>1, <2>2, <3>4
  <2>. QED
    BY <2>4, <2>5
<1>5. CASE k \notin 1..Rest(p)
  <2>1. PICK i \in 1..Len(xs) : queue'[k] = xs[i]
    BY <1>1, <1>5, BeforeIs
  <2>. QED
    BY <2>1 DEF NewsOf, AnswerTo
<1>. QED
  BY <1>4, <1>5
LEMMA SteadyDark ==
  ASSUME Typed, Connected, Steady, NEW p, NEW xs, Moves(p, xs),
         p # 0 => queue[p].e \notin OfLink
  PROVE  (Dark' => Dark) /\ (Lit' => Lit \/ Dark)
<1>1. sock # None => sock \in Links
  BY DEF Typed
<1>2. ASSUME NEW j \in 1..Len(queue), queue[j].e = "gone"
      PROVE  \E k \in 1..Len(queue') : queue'[k].e = "gone"
  <2>1. j # p
    BY <1>2 DEF OfLink
  <2>2. PICK k \in 1..Rest(p) : Before(p, k) = j
    BY <2>1, BeforeIs
  <2>3. k \in 1..Len(queue') /\ queue'[k] = queue[j]
    BY <2>2, BeforeIs
  <2>. QED
    BY <1>2, <2>3
<1>3. Dark' => Dark
  BY <1>1, <1>2 DEF Dark, Steady
<1>4. Lit' => Lit \/ Dark
  BY <1>1 DEF Lit, Dark, Steady
<1>. QED
  BY <1>3, <1>4

(* A frame that stays has what it had. *)
LEMMA HasListKept ==
  ASSUME Typed, Typed', NEW b, NEW c, Under(b, c), NEW i \in 1..b, i # c
  PROVE  /\ i \in 1..Depth /\ i \in 1..Depth'
         /\ IsCall(i)' <=> IsCall(i)
         /\ HasList(i)' <=> HasList(i)
         /\ stack'[i].op = stack[i].op
         /\ IsCall(i) => /\ stack'[i].ids = stack[i].ids /\ stack'[i].ok = stack[i].ok
                         /\ stack'[i].st = "apply" <=> stack[i].st = "apply"
         /\ ~IsCall(i) => stack'[i].dev = stack[i].dev
<1>1. b \in Nat /\ b <= Depth /\ b <= Depth' /\ Depth \in Nat /\ Depth' \in Nat
  <2>1. Depth' \in Nat
    BY LenProperties DEF Typed, Depth
  <2>. QED
    BY <2>1, PlacesAre DEF Under
<1>2. i \in 1..Depth /\ i \in 1..Depth'
  BY <1>1
<1>3. Like(stack[i], stack'[i]) /\ SameResult(stack[i], stack'[i])
  BY DEF Under
<1>4. stack'[i].op = stack[i].op /\ (IsCall(i)' <=> IsCall(i))
  BY <1>2, <1>3 DEF Like, IsCall
<1>5. IsCall(i) => /\ stack'[i].ids = stack[i].ids /\ stack'[i].ok = stack[i].ok
                   /\ stack'[i].st = "apply" <=> stack[i].st = "apply"
  BY <1>3 DEF Like, SameResult, IsCall
<1>6. ~IsCall(i) => stack'[i].dev = stack[i].dev
  BY <1>2, <1>3 DEF Like, IsCall
<1>. QED
  BY <1>2, <1>4, <1>5, <1>6 DEF HasList

LEMMA RepliesKept ==
  ASSUME Typed, Typed', Addressed, NEW p, NEW xs, Moves(p, xs), NEW b, NEW c, Under(b, c),
         \A k \in 1..Len(queue) : k # p => Refers(queue[k], b, c),
         NEW k \in 1..Rest(p), NEW ops
  PROVE  LET j == Before(p, k)
         IN  /\ j \in 1..Len(queue) /\ j # p /\ queue'[k] = queue[j]
             /\ queue[j].e = "reply" => (AnswerTo(queue[k], ops)' <=> AnswerTo(queue[j], ops))
<1>1. PICK j : j = Before(p, k)
  OBVIOUS
<1>2. j \in 1..Len(queue) /\ j # p /\ queue'[k] = queue[j]
  BY <1>1, BeforeIs
<1>3. ASSUME queue[j].e = "reply"
      PROVE  AnswerTo(queue[k], ops)' <=> AnswerTo(queue[j], ops)
  <2>1. queue[j].e \in Replies
    BY <1>3 DEF Replies
  <2>2. ForCall(queue[j]) /\ queue[j].at <= b /\ queue[j].at # c
    BY <1>2, <2>1 DEF Addressed, Refers
  <2>3. PICK i : i = queue[j].at
    OBVIOUS
  <2>4. i \in 1..b
    BY <2>2, <2>3, PlacesAre DEF ForCall, IsCall, Under
  <2>5. stack'[i].op = stack[i].op
    BY <2>4 DEF Under, Like
  <2>6. queue'[k].e = queue[j].e /\ queue'[k].at = i /\ queue'[k].ok = queue[j].ok
    BY <1>2, <2>3
  <2>7. AnswerTo(queue[k], ops)' <=> stack'[i].op \in ops /\ queue[j].ok
    BY <2>6 DEF AnswerTo
  <2>8. (stack[queue[j].at].op \in ops /\ queue[j].ok) <=> (stack[i].op \in ops /\ queue[j].ok)
    BY <2>3
  <2>9. AnswerTo(queue[k], ops)' <=> AnswerTo(queue[j], ops)
    BY <2>5, <2>7, <2>8 DEF AnswerTo
  <2>. QED
    BY <2>9
<1>. QED
  BY <1>1, <1>2, <1>3
LEMMA GoneKept ==
  ASSUME Typed, Typed', Addressed, NEW p, NEW xs, Moves(p, xs), NEW b, NEW c, Under(b, c),
         \A k \in 1..Len(queue) : k # p => Refers(queue[k], b, c),
         NEW d, Gone(d), devices'[d] # "on",
         \A i \in 1..Depth' : (i > b \/ i = c) =>
           ~HasList(i)' /\ ~(stack'[i].op = "add" /\ stack'[i].dev = d),
         \A k \in 1..Len(xs) : xs[k].e = "reply" => ~AnswerTo(xs[k], Lists)'
  PROVE  Gone(d)'
<1>1. b \in Nat /\ Depth' \in Nat
  BY LenProperties, PlacesAre DEF Typed, Depth, Under
<1>2. ASSUME NEW i \in 1..Depth'
      PROVE  ~HasList(i)' /\ ~(stack'[i].op = "add" /\ stack'[i].dev = d)
  <2>1. CASE i > b \/ i = c
    BY <2>1
  <2>2. CASE ~(i > b \/ i = c)
    <3>1. i \in 1..b /\ i # c
      BY <1>1, <2>2
    <3>2. /\ i \in 1..Depth /\ stack'[i].op = stack[i].op
          /\ HasList(i)' <=> HasList(i)
          /\ ~IsCall(i) => stack'[i].dev = stack[i].dev
      BY <3>1, HasListKept
    <3>3. stack[i].op = "add" => ~IsCall(i)
      BY DEF IsCall, Calls
    <3>. QED
      BY <3>2, <3>3 DEF Gone, Adding
  <2>. QED
    BY <2>1, <2>2
<1>3. ASSUME NEW k \in 1..Len(queue'), queue'[k].e = "reply"
      PROVE  ~AnswerTo(queue[k], Lists)'
  <2>1. CASE k \in 1..Rest(p)
    <3>1. PICK j \in 1..Len(queue) :
            /\ queue'[k] = queue[j]
            /\ queue[j].e = "reply" => (AnswerTo(queue[k], Lists)' <=> AnswerTo(queue[j], Lists))
      <4>1. PICK j : j = Before(p, k)
        OBVIOUS
      <4>2. /\ j \in 1..Len(queue) /\ queue'[k] = queue[j]
            /\ queue[j].e = "reply" => (AnswerTo(queue[k], Lists)' <=> AnswerTo(queue[j], Lists))
        BY <2>1, <4>1, RepliesKept
      <4>. QED
        BY <4>2
    <3>. QED
      BY <1>3, <3>1 DEF Gone
  <2>2. CASE k \notin 1..Rest(p)
    <3>1. PICK i \in 1..Len(xs) : queue'[k] = xs[i]
      BY <2>2, BeforeIs
    <3>. QED
      BY <1>3, <3>1 DEF AnswerTo
  <2>. QED
    BY <2>1, <2>2
<1>. QED
  BY <1>2, <1>3 DEF Gone, Adding

LEMMA AgreesKept ==
  ASSUME Typed, Typed', Addressed, NEW p, NEW xs, Moves(p, xs), NEW b, Under(b, 0),
         \A k \in 1..Len(queue) : k # p => Refers(queue[k], b, 0),
         p # 0 => queue[p].e # "reply", \A k \in 1..Len(xs) : xs[k].e # "reply",
         NEW d, Agrees(d), devices'[d] = devices[d], d \in known' <=> d \in known,
         \A i \in 1..b : IsCall(i) => (d \in stack'[i].left <=> d \in stack[i].left),
         \A i \in 1..Depth' : i > b =>
           ~HasList(i)' /\ ~(stack'[i].op = "add" /\ stack'[i].dev = d),
         \A i \in 1..Depth : i > b =>
           stack[i].op \notin Lists /\ ~(stack[i].op = "add" /\ stack[i].dev = d),
         Ready' /\ ~history'.crossed =>
           (Ready /\ ~history.crossed) \/ \E i \in 1..Depth' : Brings(i, d)'
  PROVE  Agrees(d)'
<1>1. b \in Nat /\ Depth' \in Nat /\ Depth \in Nat /\ b <= Depth
  BY LenProperties, PlacesAre DEF Typed, Depth, Under
<1>2. ASSUME NEW i \in 1..b
      PROVE  /\ i \in 1..Depth /\ i \in 1..Depth' /\ stack'[i].op = stack[i].op
             /\ IsCall(i)' <=> IsCall(i)
             /\ HasList(i)' <=> HasList(i)
             /\ HasList(i) => stack'[i].ids = stack[i].ids
             /\ Brings(i, d) => Brings(i, d)'
             /\ stack[i].op = "add" => stack'[i].dev = stack[i].dev
  <2>1. i # 0
    BY <1>1
  <2>2. /\ i \in 1..Depth /\ i \in 1..Depth'
        /\ IsCall(i)' <=> IsCall(i)
        /\ HasList(i)' <=> HasList(i)
        /\ stack'[i].op = stack[i].op
        /\ IsCall(i) => /\ stack'[i].ids = stack[i].ids /\ stack'[i].ok = stack[i].ok
                        /\ stack'[i].st = "apply" <=> stack[i].st = "apply"
        /\ ~IsCall(i) => stack'[i].dev = stack[i].dev
    BY <2>1, HasListKept
  <2>3. stack[i].op = "add" => ~IsCall(i)
    BY DEF IsCall, Calls
  <2>4. IsCall(i) => (d \in stack'[i].left <=> d \in stack[i].left)
    OBVIOUS
  <2>5. Brings(i, d) => Brings(i, d)'
    BY <2>2, <2>4 DEF Brings
  <2>6. HasList(i) => stack'[i].ids = stack[i].ids
    BY <2>2 DEF HasList
  <2>. QED
    BY <2>2, <2>3, <2>5, <2>6
<1>3. ASSUME NEW i \in 1..Depth', HasList(i)'
      PROVE  i \in 1..Depth /\ HasList(i) /\ stack'[i].ids = stack[i].ids
  <2>1. i \in 1..b
    BY <1>1, <1>3
  <2>. QED
    BY <1>2, <1>3, <2>1
<1>4. ASSUME NEW i \in 1..Depth, HasList(i)
      PROVE  i \in 1..Depth' /\ HasList(i)' /\ stack'[i].ids = stack[i].ids
             /\ stack'[i].op = stack[i].op
  <2>1. i \in 1..b
    BY <1>1, <1>4 DEF HasList
  <2>. QED
    BY <1>2, <1>4, <2>1
<1>5. ASSUME NEW k \in 1..Len(queue'), queue'[k].e = "reply", NEW ops
      PROVE  \E j \in 1..Len(queue) :
               queue'[k] = queue[j] /\ (AnswerTo(queue[k], ops)' <=> AnswerTo(queue[j], ops))
  <2>1. k \in 1..Rest(p)
    <3>1. k \in 1..Rest(p) \/ \E i \in 1..Len(xs) : queue'[k] = xs[i]
      BY BeforeIs
    <3>2. ASSUME NEW i \in 1..Len(xs) PROVE queue'[k] # xs[i]
      BY <1>5
    <3>. QED
      BY <3>1, <3>2
  <2>2. PICK j : j = Before(p, k)
    OBVIOUS
  <2>3. /\ j \in 1..Len(queue) /\ queue'[k] = queue[j]
        /\ queue[j].e = "reply" => (AnswerTo(queue[k], ops)' <=> AnswerTo(queue[j], ops))
    BY <2>1, <2>2, RepliesKept
  <2>. QED
    BY <1>5, <2>3
<1>6. ASSUME NEW j \in 1..Len(queue), queue[j].e = "reply", NEW ops
      PROVE  \E k \in 1..Len(queue') :
               queue'[k] = queue[j] /\ (AnswerTo(queue[k], ops)' <=> AnswerTo(queue[j], ops))
  <2>1. j # p
    BY <1>1, <1>6
  <2>2. PICK k \in 1..Rest(p) : Before(p, k) = j
    BY <2>1, BeforeIs
  <2>3. /\ queue'[k] = queue[j]
        /\ queue[j].e = "reply" => (AnswerTo(queue[k], ops)' <=> AnswerTo(queue[j], ops))
    BY <2>2, RepliesKept
  <2>4. k \in 1..Len(queue')
    BY <2>2, BeforeIs
  <2>. QED
    BY <1>6, <2>3, <2>4
<1>7. Adding(d)' <=> Adding(d)
  <2>1. ASSUME NEW i \in 1..Depth', stack'[i].op = "add", stack'[i].dev = d PROVE Adding(d)
    <3>1. i \in 1..b
      BY <1>1, <2>1
    <3>. QED
      BY <1>2, <2>1, <3>1 DEF Adding
  <2>2. ASSUME NEW i \in 1..Depth, stack[i].op = "add", stack[i].dev = d PROVE Adding(d)'
    <3>1. i \in 1..b
      BY <1>1, <2>2
    <3>. QED
      BY <1>2, <2>2, <3>1 DEF Adding
  <2>. QED
    BY <2>1, <2>2 DEF Adding
<1>8. Drops(d) => Drops(d)'
  <2>1. ASSUME NEW i \in 1..Depth, HasList(i), stack[i].op = "reload", d \notin stack[i].ids
        PROVE  Drops(d)'
    BY <1>4, <2>1 DEF Drops
  <2>2. ASSUME NEW j \in 1..Len(queue), queue[j].e = "reply", AnswerTo(queue[j], {"reload"}),
               d \notin queue[j].ids
        PROVE  Drops(d)'
    <3>1. PICK k \in 1..Len(queue') :
            queue'[k] = queue[j]
            /\ (AnswerTo(queue[k], {"reload"})' <=> AnswerTo(queue[j], {"reload"}))
      BY <1>6, <2>2
    <3>2. queue'[k].e = "reply" /\ AnswerTo(queue[k], {"reload"})' /\ d \notin queue'[k].ids
      BY <2>2, <3>1
    <3>. QED
      BY <3>2 DEF Drops
  <2>. QED
    BY <2>1, <2>2 DEF Drops
<1>9. ASSUME NEW i \in 1..Depth, Brings(i, d) PROVE \E j \in 1..Depth' : Brings(j, d)'
  <2>1. i \in 1..b
    BY <1>1, <1>9 DEF Brings, Lists
  <2>. QED
    BY <1>2, <1>9, <2>1
<1>10. ASSUME NEW i \in 1..Depth', HasList(i)' PROVE d \in stack'[i].ids <=> d \in known'
  BY <1>3, <1>10 DEF Agrees
<1>11. ASSUME NEW k \in 1..Len(queue'), queue'[k].e = "reply", AnswerTo(queue[k], Lists)'
       PROVE  d \in queue'[k].ids <=> d \in known'
  <2>1. PICK j \in 1..Len(queue) :
          queue'[k] = queue[j] /\ (AnswerTo(queue[k], Lists)' <=> AnswerTo(queue[j], Lists))
    BY <1>5, <1>11
  <2>2. queue[j].e = "reply" /\ AnswerTo(queue[j], Lists)
    BY <1>11, <2>1
  <2>. QED
    BY <2>1, <2>2 DEF Agrees
<1>12. Adding(d)' => d \in known'
  BY <1>7 DEF Agrees
<1>13. devices'[d] = "on" => d \in known' \/ Drops(d)'
  BY <1>8 DEF Agrees
<1>14. Ready' /\ ~history'.crossed /\ d \in known' =>
         devices'[d] = "on" \/ Adding(d)' \/ \E i \in 1..Depth' : Brings(i, d)'
  BY <1>7, <1>9 DEF Agrees
<1>. QED
  BY <1>10, <1>11, <1>12, <1>13, <1>14 DEF Agrees
LEMMA FollowsKept ==
  ASSUME Typed, Typed', Addressed, NEW p, NEW xs, Moves(p, xs), NEW b, Under(b, 0),
         \A k \in 1..Len(queue) : k # p => Refers(queue[k], b, 0),
         p # 0 => queue[p].e # "reply", \A k \in 1..Len(xs) : xs[k].e # "reply",
         Dark' => Dark, Lit' => Lit \/ (Dark /\ ~(Ready' /\ ~history'.crossed)),
         NEW d, Follows(d), d \notin history'.stale => d \notin history.stale,
         p # 0 => ~NewsOf(d, queue[p]),
         devices'[d] = devices[d], d \in known' <=> d \in known,
         \A i \in 1..b : IsCall(i) => (d \in stack'[i].left <=> d \in stack[i].left),
         \A i \in 1..Depth' : i > b =>
           ~HasList(i)' /\ ~(stack'[i].op = "add" /\ stack'[i].dev = d),
         \A i \in 1..Depth : i > b =>
           stack[i].op \notin Lists /\ ~(stack[i].op = "add" /\ stack[i].dev = d),
         Ready' /\ ~history'.crossed =>
           (Ready /\ ~history.crossed) \/ \E i \in 1..Depth' : Brings(i, d)'
  PROVE  Follows(d)'
<1>. SUFFICES ASSUME d \notin history'.stale
              PROVE  (Dark' => Gone(d)') /\ (Lit' /\ Unchanged(d, 0)' => Agrees(d)')
  BY DEF Follows
<1>1. (Dark => Gone(d)) /\ (Lit /\ Unchanged(d, 0) => Agrees(d))
  BY DEF Follows
<1>2. b \in Nat
  BY PlacesAre DEF Under
<1>3. \A i \in 1..Depth' : (i > b \/ i = 0) =>
        ~HasList(i)' /\ ~(stack'[i].op = "add" /\ stack'[i].dev = d)
  BY <1>2
<1>4. ASSUME Gone(d) PROVE Gone(d)'
  <2>1. devices'[d] # "on"
    BY <1>4 DEF Gone
  <2>. QED
    BY <1>3, <1>4, <2>1, GoneKept
<1>5. ASSUME Lit', Unchanged(d, 0)' PROVE Agrees(d)'
  <2>1. CASE Lit
    <3>1. ASSUME NEW j \in 1..Len(queue) PROVE ~NewsOf(d, queue[j])
      <4>1. CASE j = p
        BY <1>2, <3>1, <4>1
      <4>2. CASE j # p
        <5>1. PICK k \in 1..Rest(p) : Before(p, k) = j
          BY <4>2, BeforeIs
        <5>2. k \in 1..Len(queue') /\ queue'[k] = queue[j]
          BY <5>1, BeforeIs
        <5>. QED
          BY <1>5, <5>2 DEF Unchanged, NewsOf
      <4>. QED
        BY <4>1, <4>2
    <3>2. Unchanged(d, 0)
      BY <3>1 DEF Unchanged
    <3>. QED
      BY <1>1, <2>1, <3>2, AgreesKept
  <2>2. CASE ~Lit
    <3>1. Gone(d) /\ ~(Ready' /\ ~history'.crossed)
      BY <1>1, <1>5, <2>2
    <3>. QED
      BY <1>4, <3>1 DEF Gone, Agrees
  <2>. QED
    BY <2>1, <2>2
<1>. QED
  BY <1>1, <1>4, <1>5

(* A step after which the server's messages do not reach the client. *)
LEMMA UnlitKept ==
  ASSUME ~Lit' PROVE Told'
BY DEF Told

LEMMA UnreadyKept ==
  ASSUME ~ready' PROVE Users'
BY DEF Users, ReadyIsAuthenticated, Ready

(* No list failed while an event is handled or a timer runs. *)
LEMMA SettledKept ==
  ASSUME Typed, Typed', Settled, InLoop \/ (stack # <<>> /\ Top.st # "apply"),
         NEW b, NEW c, Under(b, c), c \in 1..Depth' => stack'[c].st # "apply",
         \A i \in 1..Depth' : i > b => (IsCall(i) => stack[i].st # "apply" \/ stack[i].ok)'
  PROVE  Settled'
<1>1. b \in Nat /\ b <= Depth /\ Depth' \in Nat /\ Depth \in Nat
  BY LenProperties, PlacesAre DEF Typed, Depth, Under
<1>2. ASSUME NEW i \in 1..Depth', IsCall(i)', stack'[i].st = "apply", ~stack'[i].ok
      PROVE  FALSE
  <2>1. i \in 1..b /\ i # c
    BY <1>1, <1>2
  <2>2. /\ i \in 1..Depth /\ IsCall(i)
        /\ stack[i].st = "apply" /\ ~stack[i].ok
    BY <1>2, <2>1, HasListKept
  <2>3. i = Depth
    BY <2>2 DEF Settled
  <2>4. stack # <<>> /\ Top = stack[Depth]
    <3>1. stack # <<>>
      BY <1>1, <2>2, LenProperties DEF Depth
    <3>. QED
      BY <3>1, TopIs
  <2>. QED
    BY <2>2, <2>3, <2>4 DEF InLoop
<1>. QED
  BY <1>2 DEF Settled
-----------------------------------------------------------------------------
(***************************************************************************)
(* ServerCommandCall.                                                      *)
(***************************************************************************)
LEMMA SteadyIs ==
  ASSUME sock' = sock, ready' = ready, link' = link
  PROVE  Steady
BY DEF Steady

(* A call ends, or starts: nothing else changes. *)
LEMMA CallingKept ==
  ASSUME Inv, Typed', UNCHANGED <<Calling, history>>, InLoop,
         NEW p, NEW xs, Moves(p, xs), Len(xs) <= 1, p # 0 => p = 1 /\ queue[1].e \in Tellings,
         Depth <= Depth',
         \A i \in 1..Depth :
           /\ Like(stack[i], stack'[i]) /\ SameResult(stack[i], stack'[i])
           /\ IsCall(i) => stack'[i].left = stack[i].left,
         \A i \in 1..Depth' : i > Depth =>
           /\ ready /\ stack'[i].op \in Calls \ {"connect"} /\ FrameFits(stack[i])'
           /\ stack'[i].st # "apply" /\ ~stack'[i].ok,
         \A k \in 1..Len(xs) : Placed(p, xs, k) /\ xs[k].e # "reply"
  PROVE  Inv'
<1>1. /\ Basics /\ Users /\ Told /\ Settled /\ Followed
      /\ Typed /\ Addressed /\ Framed /\ Connected /\ Ordered /\ Answered
  BY DEF Inv, Basics
<1>2. /\ link' = link /\ known' = known /\ sock' = sock /\ ready' = ready /\ authed' = authed
      /\ devices' = devices /\ history' = history
  BY DEF Calling
<1>3. Steady
  BY <1>2, SteadyIs
<1>4. Depth \in Nat /\ Depth' \in Nat
  BY <1>1, LenProperties, PlacesAre DEF Typed, Depth
<1>5. Under(Depth, 0)
  BY <1>4 DEF Under
<1>6. \A k \in 1..Len(queue) : Refers(queue[k], Depth, 0)
  BY <1>1, RefersAll
<1>7. p # 0 => /\ queue[p].e \notin OfLink /\ queue[p].e \notin News
               /\ queue[p].e \notin Replies /\ queue[p].e # "reply"
  BY DEF Tellings, OfLink, News, Replies
<1>8. PICK b : b = Depth
  OBVIOUS
<1>9. \A i \in 1..Depth' : ~(i = 0)
  BY <1>4
<1>10. Basics'
  <2>1. \A i \in 1..Depth' : (i > b \/ i = 0) => (IsCall(i) => FrameFits(stack[i]))'
    BY <1>8, <1>9
  <2>2. \A i \in 1..Depth' : i > b => (IsCall(i) => ready \/ stack[i].link # sock)'
    BY <1>2, <1>8
  <2>. QED
    BY <1>1, <1>3, <1>5, <1>6, <1>7, <1>8, <2>1, <2>2, BasicsKept, SMTT(60)
<1>11. \A i \in 1..Depth : Hopeful(i) => Hopeful(i)'
  BY <1>1, <1>2, <1>4, <1>5, <1>7, HopefulKept
<1>12. Users'
  BY <1>1, <1>2, <1>5, <1>8, <1>11, UsersKept
<1>13. \A k \in 1..Len(xs) : xs[k].e \notin News /\ xs[k].e # "answer"
  BY OwnAre DEF Placed
<1>14. Told'
  BY <1>1, <1>2, <1>3, <1>5, <1>6, <1>13, ToldKept
<1>15. Settled'
  <2>1. \A i \in 1..Depth' : i > b => (IsCall(i) => stack[i].st # "apply" \/ stack[i].ok)'
    BY <1>8
  <2>. QED
    BY <1>1, <1>5, <1>8, <1>9, <2>1, SettledKept
<1>16. (Dark' => Dark) /\ (Lit' => Lit)
  <2>1. Dark' => Dark
    BY <1>1, <1>3, <1>7, SteadyDark
  <2>. QED
    BY <1>2, <2>1 DEF Lit
<1>17. ASSUME NEW d \in Devs PROVE Follows(d)'
  <2>1. Follows(d)
    BY <1>1 DEF Followed
  <2>2. \A i \in 1..Depth' : i > Depth =>
          ~HasList(i)' /\ ~(stack'[i].op = "add" /\ stack'[i].dev = d)
    BY DEF HasList, Calls
  <2>3. \A i \in 1..Depth : ~(i > Depth)
    BY <1>4
  <2>4. Ready' /\ ~history'.crossed => Ready /\ ~history.crossed
    BY <1>2 DEF Ready
  <2>5. p # 0 => ~NewsOf(d, queue[p])
    BY <1>7 DEF NewsOf
  <2>6. \A i \in 1..Depth : IsCall(i) => (d \in stack'[i].left <=> d \in stack[i].left)
    OBVIOUS
  <2>. QED
    BY <1>1, <1>2, <1>5, <1>6, <1>7, <1>16, <2>1, <2>2, <2>3, <2>4, <2>5, <2>6, FollowsKept
<1>. QED
  BY <1>10, <1>12, <1>14, <1>15, <1>17 DEF Inv, Followed
LEMMA TypedKept ==
  ASSUME Typed, NEW p, NEW xs, Moves(p, xs), stack' \in Seq(Frame), Depth' <= MaxFrames,
         UNCHANGED <<Calling, history>>
  PROVE  Typed'
BY DEF Typed, Moves, Calling

LEMMA GotIs ==
  ASSUME NEW f \in CallFrames, f.st # "apply"
  PROVE  /\ Got(f) \in Frame /\ Got(f) \in CallFrames /\ Like(f, Got(f)) /\ SameResult(f, Got(f))
         /\ Got(f).op = f.op /\ Got(f).left = f.left /\ Got(f).st \in {"got", "done"}
         /\ Got(f).link = f.link /\ Got(f).answered = f.answered
         /\ Got(f).ids = f.ids /\ Got(f).ok = f.ok
<1>1. PICK g : g = Got(f)
  OBVIOUS
<1>2. PICK s : s = (IF f.st = "done" THEN "done" ELSE "got")
  OBVIOUS
<1>3. s \in {"got", "done"} /\ g = [f EXCEPT !.st = s]
  BY <1>1, <1>2 DEF Got
<1>4. /\ g \in CallFrames /\ g.st = s /\ g.op = f.op /\ g.link = f.link /\ g.left = f.left
      /\ g.answered = f.answered /\ g.ok = f.ok /\ g.ids = f.ids
  BY <1>3 DEF CallFrames
<1>5. g \in Frame
  BY <1>4, FrameIs
<1>6. f.op \in Calls
  BY DEF CallFrames
<1>7. Like(f, g) /\ SameResult(f, g)
  BY <1>3, <1>4, <1>6 DEF Like, SameResult
<1>. QED
  BY <1>1, <1>3, <1>4, <1>5, <1>7

LEMMA DoneIs ==
  ASSUME NEW f \in Frame, f.op \in Calls => f.st # "apply"
  PROVE  LET g == [f EXCEPT !.st = "done"]
         IN  g \in Frame /\ Like(f, g) /\ SameResult(f, g) /\ (f.op \in Calls => g.left = f.left)
<1>1. PICK g : g = [f EXCEPT !.st = "done"]
  OBVIOUS
<1>2. CASE f.op \in Calls
  <2>1. f \in CallFrames
    BY <1>2, FrameIs
  <2>2. /\ g \in CallFrames /\ g.st = "done" /\ g.op = f.op /\ g.link = f.link
        /\ g.left = f.left /\ g.answered = f.answered /\ g.ok = f.ok /\ g.ids = f.ids
    BY <1>1, <2>1 DEF CallFrames
  <2>3. g \in Frame
    BY <2>2, FrameIs
  <2>. QED
    BY <1>1, <1>2, <2>2, <2>3 DEF Like, SameResult
<1>3. CASE f.op \notin Calls
  <2>1. f \in DeviceFrames
    BY <1>3, FrameIs
  <2>2. g \in DeviceFrames /\ g.st = "done" /\ g.op = f.op /\ g.dev = f.dev
    BY <1>1, <2>1 DEF DeviceFrames
  <2>3. g \in Frame
    BY <2>2, FrameIs
  <2>. QED
    BY <1>1, <1>3, <2>2, <2>3 DEF Like, SameResult
<1>. QED
  BY <1>2, <1>3

(* The event at the head of the queue. *)
LEMMA HandlesIs ==
  ASSUME Typed, NEW e, Handles(e)
  PROVE  /\ InLoop /\ queue # <<>> /\ 1 \in 1..Len(queue)
         /\ Head(queue) = queue[1] /\ queue[1].e = e /\ queue[1] \in Event
<1>1. queue \in Seq(Event) /\ Len(queue) \in Nat /\ Len(queue) # 0
  BY LenProperties, EmptySeq DEF Typed, Handles
<1>2. Head(queue) = queue[1] /\ 1 \in 1..Len(queue)
  BY <1>1, HeadTailProperties
<1>. QED
  BY <1>1, <1>2, PlacesAre DEF Handles

LEMMA OnStopKept ==
  ASSUME Inv, OnStop
  PROVE  Inv'
<1>1. Typed /\ Addressed
  BY DEF Inv, Basics
<1>2. Handles("stop")
  BY DEF OnStop
<1>3. /\ InLoop /\ queue # <<>> /\ 1 \in 1..Len(queue)
      /\ Head(queue) = queue[1] /\ queue[1].e = "stop" /\ queue[1] \in Event
  BY <1>1, <1>2, HandlesIs
<1>4. PICK calls : calls = Head(queue).calls
  OBVIOUS
<1>5. queue[1] \in TellingEvents
  BY <1>3, EventIs DEF Tellings
<1>6. calls \in SUBSET (1..MaxFrames)
  BY <1>3, <1>4, <1>5 DEF TellingEvents
<1>7. \A i \in calls : IsCall(i) /\ stack[i].st # "apply"
  BY <1>1, <1>3, <1>4 DEF Addressed
<1>8. PICK xs : xs = Tell("done", calls)
  OBVIOUS
<1>9. /\ xs \in Seq(Event) /\ Len(xs) \in {0, 1}
      /\ \A k \in 1..Len(xs) : xs[k].e = "done" /\ xs[k].calls = calls
  BY <1>6, <1>8, TellIs DEF Tellings
<1>10. Moves(1, xs)
  BY <1>1, <1>3, <1>4, <1>8, <1>9, ThenMoves DEF OnStop
<1>11. /\ Depth \in Nat /\ Depth <= MaxFrames /\ DOMAIN stack = 1..Depth
       /\ \A i \in 1..Depth : stack[i] \in Frame
  BY <1>1, PlacesAre
<1>12. stack' = [i \in 1..Depth |-> IF i \in calls THEN Got(stack[i]) ELSE stack[i]]
  BY <1>4, <1>11 DEF OnStop
<1>13. ASSUME NEW i \in 1..Depth
       PROVE  /\ stack'[i] \in Frame
              /\ Like(stack[i], stack'[i]) /\ SameResult(stack[i], stack'[i])
              /\ IsCall(i) => stack'[i].left = stack[i].left
              /\ i \in calls => stack'[i].op \in Calls /\ stack'[i].st # "apply"
  <2>1. CASE i \in calls
    <3>1. stack[i] \in CallFrames /\ stack[i].st # "apply" /\ stack[i].op \in Calls
      BY <1>7, <1>11, <2>1, FrameIs DEF IsCall
    <3>2. stack'[i] = Got(stack[i])
      BY <1>12, <2>1
    <3>. QED
      BY <3>1, <3>2, GotIs
  <2>2. CASE i \notin calls
    BY <1>11, <1>12, <2>2, LikeIs
  <2>. QED
    BY <2>1, <2>2
<1>14. stack' \in [1..Depth -> Frame]
  BY <1>12, <1>13
<1>15. stack' \in Seq(Frame) /\ Depth' = Depth
  BY <1>1, <1>14, MapIs
<1>16. UNCHANGED <<Calling, history>>
  BY DEF OnStop
<1>17. Typed'
  BY <1>1, <1>10, <1>11, <1>15, <1>16, TypedKept
<1>18. ASSUME NEW k \in 1..Len(xs) PROVE Placed(1, xs, k) /\ xs[k].e # "reply"
  <2>1. xs[k].e = "done" /\ xs[k].calls = calls
    BY <1>9
  <2>2. \A i \in calls : i \in 1..Depth' /\ stack'[i].op \in Calls /\ stack'[i].st # "apply"
    BY <1>7, <1>13, <1>15 DEF IsCall
  <2>. QED
    BY <2>1, <2>2 DEF Placed, Own
<1>19. queue[1].e \in Tellings /\ Len(xs) <= 1 /\ Depth <= Depth'
  BY <1>3, <1>9, <1>11, <1>15 DEF Tellings
<1>20. \A i \in 1..Depth' : ~(i > Depth)
  BY <1>11, <1>15
<1>. QED
  BY <1>3, <1>10, <1>13, <1>16, <1>17, <1>18, <1>19, <1>20, CallingKept
LEMMA SetDoneKept ==
  ASSUME Inv, SetDone
  PROVE  Inv'
<1>1. Typed /\ Addressed
  BY DEF Inv, Basics
<1>2. /\ InLoop /\ queue # <<>> /\ 1 \in 1..Len(queue)
      /\ Head(queue) = queue[1] /\ queue[1].e \in {"done", "info"}
  BY <1>1, HandlesIs DEF SetDone
<1>3. PICK calls : calls = Head(queue).calls
  OBVIOUS
<1>4. \A i \in calls : i \in 1..Depth /\ (IsCall(i) => stack[i].st # "apply")
  BY <1>1, <1>2, <1>3 DEF Addressed, IsCall
<1>5. PICK xs : xs = <<>>
  OBVIOUS
<1>6. xs \in Seq(Event) /\ Len(xs) = 0
  BY <1>5
<1>7. Moves(1, xs)
  BY <1>1, <1>2, <1>5, <1>6, ThenMoves DEF SetDone
<1>8. /\ Depth \in Nat /\ Depth <= MaxFrames /\ DOMAIN stack = 1..Depth
      /\ \A i \in 1..Depth : stack[i] \in Frame
  BY <1>1, PlacesAre
<1>9. stack' = [i \in 1..Depth |->
                  IF i \in calls THEN [stack[i] EXCEPT !.st = "done"] ELSE stack[i]]
  BY <1>3, <1>8 DEF SetDone
<1>10. ASSUME NEW i \in 1..Depth
       PROVE  /\ stack'[i] \in Frame
              /\ Like(stack[i], stack'[i]) /\ SameResult(stack[i], stack'[i])
              /\ IsCall(i) => stack'[i].left = stack[i].left
  <2>1. CASE i \in calls
    <3>1. stack[i].op \in Calls => stack[i].st # "apply"
      BY <1>4, <2>1 DEF IsCall
    <3>2. stack'[i] = [stack[i] EXCEPT !.st = "done"]
      BY <1>9, <2>1
    <3>. QED
      BY <1>8, <3>1, <3>2, DoneIs DEF IsCall
  <2>2. CASE i \notin calls
    BY <1>8, <1>9, <2>2, LikeIs
  <2>. QED
    BY <2>1, <2>2
<1>11. stack' \in [1..Depth -> Frame]
  BY <1>9, <1>10
<1>12. stack' \in Seq(Frame) /\ Depth' = Depth
  BY <1>1, <1>11, MapIs
<1>13. UNCHANGED <<Calling, history>>
  BY DEF SetDone
<1>14. Typed'
  BY <1>1, <1>7, <1>8, <1>12, <1>13, TypedKept
<1>15. \A k \in 1..Len(xs) : FALSE
  BY <1>6
<1>16. queue[1].e \in Tellings /\ Len(xs) <= 1 /\ Depth <= Depth'
  BY <1>2, <1>6, <1>8, <1>12 DEF Tellings
<1>17. \A i \in 1..Depth' : ~(i > Depth)
  BY <1>8, <1>12
<1>. QED
  BY <1>2, <1>7, <1>10, <1>13, <1>14, <1>15, <1>16, <1>17, CallingKept

LEMMA OnTimeoutKept ==
  ASSUME Inv, OnTimeout
  PROVE  Inv'
<1>1. Typed
  BY DEF Inv, Basics
<1>2. /\ Depth \in Nat /\ Depth <= MaxFrames /\ DOMAIN stack = 1..Depth /\ MaxFrames \in Nat
      /\ \A i \in 1..Depth : stack[i] \in Frame
  BY <1>1, PlacesAre
<1>3. PICK c \in 1..Depth :
        /\ stack[c].op \in Calls /\ stack[c].st = "sent"
        /\ stack' = [stack EXCEPT ![c] = Got(stack[c])]
        /\ Post(Tell("done", {c}))
  BY <1>2 DEF OnTimeout
<1>4. stack[c] \in CallFrames
  BY <1>2, <1>3, FrameIs
<1>5. PICK g : g = Got(stack[c])
  OBVIOUS
<1>6. /\ g \in Frame /\ Like(stack[c], g) /\ SameResult(stack[c], g) /\ g.left = stack[c].left
      /\ g.st # "apply" /\ g.op \in Calls
  BY <1>3, <1>4, <1>5, GotIs
<1>7. /\ stack' \in Seq(Frame) /\ Depth' = Depth /\ stack'[c] = g
      /\ \A i \in 1..Depth : i # c => stack'[i] = stack[i]
  BY <1>1, <1>3, <1>5, <1>6, ExceptIs
<1>8. PICK xs : xs = Tell("done", {c})
  OBVIOUS
<1>9. /\ xs \in Seq(Event) /\ Len(xs) \in {0, 1}
      /\ \A k \in 1..Len(xs) : xs[k].e = "done" /\ xs[k].calls = {c}
  <2>1. {c} \in SUBSET (1..MaxFrames)
    BY <1>2
  <2>. QED
    BY <1>8, <2>1, TellIs DEF Tellings
<1>10. Moves(0, xs)
  BY <1>1, <1>3, <1>8, <1>9, PostMoves DEF Post
<1>11. UNCHANGED <<Calling, history>> /\ InLoop
  BY DEF OnTimeout, Turn
<1>12. Typed'
  BY <1>1, <1>2, <1>7, <1>10, <1>11, TypedKept
<1>13. ASSUME NEW i \in 1..Depth
       PROVE  /\ Like(stack[i], stack'[i]) /\ SameResult(stack[i], stack'[i])
              /\ IsCall(i) => stack'[i].left = stack[i].left
  BY <1>6, <1>7, LikeIs
<1>14. ASSUME NEW k \in 1..Len(xs) PROVE Placed(0, xs, k) /\ xs[k].e # "reply"
  <2>1. xs[k].e = "done" /\ xs[k].calls = {c}
    BY <1>9
  <2>. QED
    BY <1>6, <1>7, <2>1 DEF Placed, Own
<1>15. Len(xs) <= 1
  BY <1>9
<1>16. Depth <= Depth' /\ \A i \in 1..Depth' : ~(i > Depth)
  BY <1>2, <1>7
<1>. QED
  BY <1>10, <1>11, <1>12, <1>13, <1>14, <1>15, <1>16, CallingKept

LEMMA CallKept ==
  ASSUME Inv, NEW op \in {"authenticate", "reload"}, Turn, ready, Depth < MaxFrames,
         stack' = Append(stack, Call(op, sock)), UNCHANGED <<Calling, queue, history>>
  PROVE  Inv'
<1>1. Typed /\ Connected
  BY DEF Inv, Basics
<1>2. sock \in Links /\ op \in Calls
  BY <1>1 DEF Typed, Connected, Calls
<1>3. PICK f : f = Call(op, sock)
  OBVIOUS
<1>4. /\ f \in Frame /\ f.op = op /\ f.link = sock /\ f.st = "sent"
      /\ ~f.answered /\ ~f.ok /\ f.ids = {} /\ f.left = {}
  BY <1>2, <1>3, CallIs
<1>5. /\ stack' \in Seq(Frame) /\ Depth' = Depth + 1 /\ Depth' <= MaxFrames
      /\ stack'[Depth + 1] = f
      /\ \A i \in 1..Depth : stack'[i] = stack[i]
  BY <1>1, <1>3, <1>4, AppendIs
<1>6. PICK xs : xs = <<>>
  OBVIOUS
<1>7. xs \in Seq(Event) /\ Len(xs) = 0
  BY <1>6
<1>8. queue' = queue \o xs
  <2>1. queue \in Seq(Event)
    BY <1>1 DEF Typed
  <2>. QED
    BY <1>6, <2>1
<1>9. Moves(0, xs)
  BY <1>1, <1>7, <1>8, PostMoves
<1>10. Typed'
  BY <1>1, <1>5, <1>9, TypedKept
<1>11. Depth \in Nat
  BY <1>1, PlacesAre
<1>12. ASSUME NEW i \in 1..Depth', i > Depth
       PROVE  /\ ready /\ stack'[i].op \in Calls \ {"connect"} /\ FrameFits(stack[i])'
              /\ stack'[i].st # "apply" /\ ~stack'[i].ok
  <2>1. stack'[i] = f
    <3>1. i = Depth + 1
      BY <1>5, <1>11, <1>12
    <3>. QED
      BY <1>5, <3>1
  <2>. QED
    BY <1>2, <1>4, <2>1 DEF FrameFits
<1>13. \A i \in 1..Depth :
         /\ Like(stack[i], stack'[i]) /\ SameResult(stack[i], stack'[i])
         /\ IsCall(i) => stack'[i].left = stack[i].left
  BY <1>5, LikeIs
<1>14. InLoop /\ Depth <= Depth' /\ Len(xs) <= 1 /\ \A k \in 1..Len(xs) : FALSE
  BY <1>5, <1>7, <1>11 DEF Turn
<1>. QED
  BY <1>9, <1>10, <1>12, <1>13, <1>14, CallingKept

LEMMA AuthenticateKept ==
  ASSUME Inv, Authenticate \/ Reload
  PROVE  Inv'
BY CallKept DEF Authenticate, Reload
-----------------------------------------------------------------------------
(***************************************************************************)
(* The server.                                                             *)
(***************************************************************************)
LEMMA OneIs ==
  ASSUME NEW x \in Event
  PROVE  <<x>> \in Seq(Event) /\ Len(<<x>>) = 1 /\ <<x>>[1] = x
OBVIOUS

LEMMA SettledSame ==
  ASSUME Typed, Typed', Settled, Depth' = Depth, Under(Depth, 0), ready' = ready,
         history'.stale = history.stale
  PROVE  Settled'
<1>1. Depth \in Nat
  BY PlacesAre
<1>2. ASSUME NEW i \in 1..Depth', IsCall(i)', stack'[i].st = "apply", ~stack'[i].ok
      PROVE  i = Depth' /\ (ready' => history'.stale = Devs)
  <2>1. i \in 1..Depth /\ i # 0
    BY <1>1
  <2>2. IsCall(i) /\ stack[i].st = "apply" /\ ~stack[i].ok
    BY <1>2, <2>1, HasListKept
  <2>. QED
    BY <2>1, <2>2 DEF Settled
<1>. QED
  BY <1>2 DEF Settled

(* A socket that is not lost is the current one. *)
LEMMA UpIs ==
  ASSUME Typed, Connected, NEW l \in Links, link[l].st \in {"new", "up"}
  PROVE  l = sock /\ sock \in Links /\ sock # None
<1>1. l = sock
  BY DEF Connected
<1>2. None \notin Links
  BY ConstantsAssumption
<1>. QED
  BY <1>1, <1>2

LEMMA ServerAnswersKept ==
  ASSUME Inv, ServerAnswers
  PROVE  Inv'
<1>1. /\ Basics /\ Users /\ Told /\ Settled /\ Followed
      /\ Typed /\ Addressed /\ Framed /\ Connected /\ Ordered /\ Answered
  BY DEF Inv, Basics
<1>2. /\ Depth \in Nat /\ Depth <= MaxFrames /\ DOMAIN stack = 1..Depth /\ MaxFrames \in Nat
      /\ \A i \in 1..Depth : stack[i] \in Frame
  BY <1>1, PlacesAre
<1>3. PICK i \in 1..Depth :
        /\ Unanswered(i)
        /\ stack' = [stack EXCEPT ![i].answered = TRUE]
        /\ IF stack[i].op \in {"connect", "authenticate"}
             THEN \E ok \in BOOLEAN :
                    /\ link' = [link EXCEPT ![stack[i].link].auth = @ \/ ok]
                    /\ Post(<<Answer("answer", i, ok, {})>>)
             ELSE /\ Post(<<Answer("answer", i, link[stack[i].link].auth,
                                   IF link[stack[i].link].auth THEN known ELSE {})>>)
                  /\ UNCHANGED link
  BY <1>2 DEF ServerAnswers
<1>4. PICK f : f = stack[i]
  OBVIOUS
<1>5. /\ f.op \in Calls /\ f.st # "apply" /\ ~f.answered /\ link[f.link].st = "up"
      /\ f \in CallFrames /\ f.link \in Links /\ IsCall(i)
  BY <1>2, <1>3, <1>4, FrameIs DEF Unanswered, CallFrames, IsCall
<1>6. f.link = sock /\ sock \in Links /\ sock # None /\ link[sock].st = "up"
  BY <1>1, <1>5, UpIs
<1>7. ready
  BY <1>1, <1>4, <1>5, <1>6 DEF Connected, Parted
<1>8. ~f.ok
  BY <1>1, <1>4, <1>5 DEF Framed, FrameFits
<1>9. PICK g : g = [f EXCEPT !.answered = TRUE]
  OBVIOUS
<1>10. /\ g \in CallFrames /\ g.op = f.op /\ g.link = f.link /\ g.st = f.st /\ g.answered
       /\ g.ok = f.ok /\ g.ids = f.ids /\ g.left = f.left
  BY <1>5, <1>9 DEF CallFrames
<1>11. g \in Frame /\ Like(f, g) /\ SameResult(f, g)
  BY <1>5, <1>10, FrameIs DEF Like, SameResult
<1>12. /\ stack' \in Seq(Frame) /\ Depth' = Depth /\ stack'[i] = g
       /\ \A j \in 1..Depth : j # i => stack'[j] = stack[j]
  <2>1. stack' = [stack EXCEPT ![i] = g]
    BY <1>2, <1>3, <1>4, <1>9
  <2>. QED
    BY <1>1, <1>11, <2>1, ExceptIs
<1>13. Under(Depth, 0)
  BY <1>2, <1>4, <1>11, <1>12, LikeIs DEF Under
<1>14. \E ok \in BOOLEAN, ids \in SUBSET Devs :
         /\ Post(<<Answer("answer", i, ok, ids)>>)
         /\ ids # {} => ok
         /\ f.op \in Lists /\ ok => ids = known
         /\ link' \in [Links -> [st : {"free", "new", "up", "lost"}, auth : BOOLEAN]]
         /\ \A l \in Links : /\ link'[l].st = link[l].st
                             /\ link[l].auth => link'[l].auth
                             /\ link'[l].auth /\ ~link[l].auth =>
                                  l = sock /\ ok /\ f.op \in {"connect", "authenticate"}
         /\ ok => link'[sock].auth
  <2>1. CASE f.op \in {"connect", "authenticate"}
    <3>1. PICK ok \in BOOLEAN :
            /\ link' = [link EXCEPT ![sock].auth = @ \/ ok]
            /\ Post(<<Answer("answer", i, ok, {})>>)
      BY <1>3, <1>4, <1>6, <2>1
    <3>2. link \in [Links -> [st : {"free", "new", "up", "lost"}, auth : BOOLEAN]]
      BY <1>1 DEF Typed
    <3>3. PICK v : v = [link[sock] EXCEPT !.auth = @ \/ ok]
      OBVIOUS
    <3>4. link[sock] \in [st : {"free", "new", "up", "lost"}, auth : BOOLEAN]
      BY <1>6, <3>2
    <3>5. /\ v \in [st : {"free", "new", "up", "lost"}, auth : BOOLEAN]
          /\ v.st = link[sock].st /\ v.auth = (link[sock].auth \/ ok)
      BY <3>3, <3>4
    <3>6. link' = [link EXCEPT ![sock] = v]
      BY <3>1, <3>2, <3>3, <1>6
    <3>7. /\ link' \in [Links -> [st : {"free", "new", "up", "lost"}, auth : BOOLEAN]]
          /\ \A l \in Links : l # sock => link'[l] = link[l]
          /\ link'[sock] = v
      BY <1>6, <3>2, <3>5, <3>6
    <3>8. f.op \notin Lists
      BY <2>1 DEF Lists
    <3>. QED
      BY <2>1, <3>1, <3>5, <3>7, <3>8
  <2>2. CASE f.op \notin {"connect", "authenticate"}
    <3>1. PICK ok : ok = link[sock].auth
      OBVIOUS
    <3>2. PICK ids : ids = (IF ok THEN known ELSE {})
      OBVIOUS
    <3>3. Post(<<Answer("answer", i, ok, ids)>>) /\ link' = link
      BY <1>3, <1>4, <1>6, <2>2, <3>1, <3>2
    <3>4. ok \in BOOLEAN /\ ids \in SUBSET Devs
      BY <1>1, <1>6, <3>1, <3>2 DEF Typed
    <3>5. link' \in [Links -> [st : {"free", "new", "up", "lost"}, auth : BOOLEAN]]
      BY <1>1, <3>3 DEF Typed
    <3>. QED
      BY <3>1, <3>2, <3>3, <3>4, <3>5
  <2>. QED
    BY <2>1, <2>2
<1>15. PICK ok \in BOOLEAN, ids \in SUBSET Devs :
         /\ Post(<<Answer("answer", i, ok, ids)>>)
         /\ ids # {} => ok
         /\ f.op \in Lists /\ ok => ids = known
         /\ link' \in [Links -> [st : {"free", "new", "up", "lost"}, auth : BOOLEAN]]
         /\ \A l \in Links : /\ link'[l].st = link[l].st
                             /\ link[l].auth => link'[l].auth
                             /\ link'[l].auth /\ ~link[l].auth =>
                                  l = sock /\ ok /\ f.op \in {"connect", "authenticate"}
         /\ ok => link'[sock].auth
  BY <1>14
<1>16. PICK x : x = Answer("answer", i, ok, ids)
  OBVIOUS
<1>17. x \in Event /\ x.e = "answer" /\ x.at = i /\ x.ok = ok /\ x.ids = ids
  BY <1>2, <1>16 DEF Answer, Event
<1>18. PICK xs : xs = <<x>>
  OBVIOUS
<1>19. xs \in Seq(Event) /\ Len(xs) = 1 /\ xs[1] = x
  BY <1>17, <1>18, OneIs
<1>20. Moves(0, xs)
  BY <1>1, <1>15, <1>16, <1>18, <1>19, PostMoves DEF Post
<1>21. /\ known' = known /\ sock' = sock /\ ready' = ready /\ authed' = authed
       /\ devices' = devices /\ history' = history
  BY DEF ServerAnswers, Client
<1>22. Typed'
  BY <1>1, <1>2, <1>12, <1>15, <1>20, <1>21 DEF Typed, Moves
<1>23. Steady
  BY <1>6, <1>7, <1>15, <1>21 DEF Steady
<1>24. \A k \in 1..Len(queue) : Refers(queue[k], Depth, 0)
  BY <1>1, RefersAll
<1>25. ForCall(x)'
  BY <1>2, <1>5, <1>8, <1>10, <1>12, <1>15, <1>17 DEF ForCall, IsCall
<1>26. \A k \in 1..Len(xs) : xs[k] = x
  BY <1>19
<1>27. \A j \in 1..Len(queue) : queue[j].e \in Replies => queue[j].at # i
  BY <1>1, <1>4, <1>5 DEF Addressed, ForCall
<1>28. Addressed'
  BY <1>1, <1>13, <1>17, <1>19, <1>20, <1>22, <1>24, <1>25, <1>26, <1>27, AddressedKept
<1>29. PICK b : b = Depth
  OBVIOUS
<1>30. \A j \in 1..Depth' : ~(j > b) /\ j # 0
  BY <1>2, <1>12, <1>29
<1>31. Framed'
  <2>1. ASSUME NEW j \in 1..b, IsCall(j), link[stack[j].link].auth
        PROVE  link'[stack[j].link].auth
    <3>1. stack[j].link \in Links
      BY <1>2, <2>1, FrameIs DEF IsCall, CallFrames
    <3>. QED
      BY <1>15, <2>1, <3>1
  <2>2. \A j \in 1..Depth' : (j > b \/ j = 0) => (IsCall(j) => FrameFits(stack[j]))'
    BY <1>30
  <2>. QED
    BY <1>1, <1>13, <1>22, <1>29, <2>1, <2>2, FramedKept
<1>32. Connected'
  <2>1. \A j \in 1..Depth' : j > b => (IsCall(j) => ready \/ stack[j].link # sock)'
    BY <1>30
  <2>. QED
    BY <1>1, <1>13, <1>20, <1>22, <1>23, <1>29, <2>1, ConnectedKept
<1>33. Ordered'
  <2>1. \A k \in 1..Len(xs) :
          /\ xs[k].e \notin OfLink
          /\ xs[k].e \in {"answer"} \cup News => sock # None /\ link[sock].st = "up"
    BY <1>6, <1>17, <1>26 DEF OfLink
  <2>2. Len(xs) <= 1
    BY <1>19
  <2>. QED
    BY <1>1, <1>20, <1>23, <2>1, <2>2, OrderedKept
<1>34. Answered'
  <2>1. OfServer(x)'
    BY <1>4, <1>6, <1>7, <1>10, <1>12, <1>15, <1>17, <1>21 DEF OfServer, News
  <2>2. \A k \in 1..Len(xs) : OfServer(xs[k])'
    BY <1>26, <2>1
  <2>. QED
    BY <1>1, <1>13, <1>20, <1>22, <1>23, <1>24, <2>2, AnsweredKept
<1>35. Basics'
  BY <1>22, <1>28, <1>31, <1>32, <1>33, <1>34 DEF Basics
<1>36. \A j \in 1..Depth : Hopeful(j) => Hopeful(j)'
  <2>1. \A j \in 1..Depth : j # 0
    BY <1>2
  <2>. QED
    BY <1>1, <1>13, <1>20, <1>21, <1>22, <2>1, HopefulKept
<1>37. ASSUME NEW l \in Links, link'[l].auth, ~link[l].auth PROVE Hopeful(i)'
  <2>1. ok /\ f.op \in {"connect", "authenticate"}
    BY <1>15, <1>37
  <2>2. PICK k \in 1..Len(queue') : queue'[k] = x
    BY <1>1, <1>19, <1>20, BeforeIs
  <2>3. queue'[k].e \in Replies /\ queue'[k].at = i /\ queue'[k].ok
    BY <1>17, <2>1, <2>2 DEF Replies
  <2>. QED
    BY <1>5, <1>6, <1>10, <1>12, <1>21, <2>1, <2>3 DEF Hopeful, IsCall
<1>38. Users'
  <2>1. \A j \in 1..Depth' : j > b => stack'[j].op # "connect"
    BY <1>30
  <2>2. i \in 1..Depth'
    BY <1>12
  <2>. QED
    BY <1>1, <1>13, <1>15, <1>21, <1>22, <1>29, <1>36, <1>37, <2>1, <2>2, UsersKept
<1>39. Told'
  <2>1. AnswerTo(x, Lists)' => x.ids = known
    BY <1>10, <1>12, <1>15, <1>17 DEF AnswerTo
  <2>2. \A k \in 1..Len(xs) :
          /\ xs[k].e \notin News
          /\ xs[k].e = "answer" /\ AnswerTo(xs[k], Lists)' => xs[k].ids = known
    BY <1>17, <1>26, <2>1 DEF News
  <2>. QED
    BY <1>1, <1>13, <1>20, <1>21, <1>22, <1>23, <1>24, <2>2, ToldKept
<1>40. Settled'
  BY <1>1, <1>12, <1>13, <1>21, <1>22, SettledSame
<1>41. (Dark' => Dark) /\ (Lit' => Lit \/ (Dark /\ ~(Ready' /\ ~history'.crossed)))
  <2>1. (Dark' => Dark) /\ (Lit' => Lit \/ Dark)
    BY <1>1, <1>20, <1>23, SteadyDark
  <2>2. Ready' /\ ~history'.crossed => link[sock].auth
    BY <1>1, <1>21 DEF Users, ReadyIsAuthenticated, Ready
  <2>3. Dark => ~link[sock].auth
    BY <1>6 DEF Dark
  <2>. QED
    BY <2>1, <2>2, <2>3
<1>42. ASSUME NEW d \in Devs PROVE Follows(d)'
  <2>1. Follows(d)
    BY <1>1, <1>42 DEF Followed
  <2>2. \A j \in 1..Depth' : j > b =>
          ~HasList(j)' /\ ~(stack'[j].op = "add" /\ stack'[j].dev = d)
    BY <1>30
  <2>3. \A j \in 1..Depth : ~(j > Depth)
    BY <1>2
  <2>4. Ready' /\ ~history'.crossed => Ready /\ ~history.crossed
    BY <1>21 DEF Ready
  <2>5. \A j \in 1..Depth : IsCall(j) => (d \in stack'[j].left <=> d \in stack[j].left)
    BY <1>4, <1>10, <1>12
  <2>6. \A k \in 1..Len(xs) : xs[k].e # "reply"
    BY <1>17, <1>26
  <2>. QED
    BY <1>1, <1>13, <1>20, <1>21, <1>22, <1>24, <1>29, <1>41,
       <2>1, <2>2, <2>3, <2>4, <2>5, <2>6, FollowsKept
<1>. QED
  BY <1>35, <1>38, <1>39, <1>40, <1>42 DEF Inv, Followed
LEMMA SameStack ==
  ASSUME Typed, stack' = stack
  PROVE  /\ Depth' = Depth /\ Under(Depth, 0)
         /\ \A j \in 1..Depth' : ~(j > Depth) /\ j # 0
<1>1. Depth \in Nat /\ Depth' = Depth
  BY PlacesAre DEF Depth
<1>. QED
  BY <1>1, LikeIs DEF Under

LEMMA ServerChangesKept ==
  ASSUME Inv, NEW e \in Devs, ServerChanges(e)
  PROVE  Inv'
<1>1. /\ Basics /\ Users /\ Told /\ Settled /\ Followed
      /\ Typed /\ Addressed /\ Framed /\ Connected /\ Ordered /\ Answered
  BY DEF Inv, Basics
<1>2. /\ link' = link /\ stack' = stack /\ sock' = sock /\ ready' = ready /\ authed' = authed
      /\ devices' = devices /\ history' = history
      /\ known' = IF e \in known THEN known \ {e} ELSE known \cup {e}
  BY DEF ServerChanges, Client
<1>3. PICK x : x = [e |-> IF e \in known THEN "lost" ELSE "identified", dev |-> e]
  OBVIOUS
<1>4. /\ x \in Event /\ x.e \in News /\ x.dev = e /\ (x.e = "identified" <=> e \in known')
      /\ x.e \notin Own
  <2>1. PICK n : n = (IF e \in known THEN "lost" ELSE "identified")
    OBVIOUS
  <2>2. n \in News /\ (n = "identified" <=> e \notin known)
    BY <2>1 DEF News
  <2>3. x = [e |-> n, dev |-> e]
    BY <1>3, <2>1
  <2>4. x \in NewsEvents /\ x.e = n /\ x.dev = e
    BY <2>2, <2>3 DEF NewsEvents
  <2>5. x \in Event
    BY <2>4, EventIs
  <2>6. e \in known' <=> e \notin known
    BY <1>2
  <2>7. n \notin Own
    BY <2>2 DEF News, Own
  <2>. QED
    BY <2>2, <2>4, <2>5, <2>6, <2>7
<1>5. (\E l \in Links : link[l].st = "up" /\ link[l].auth) <=> Lit
  <2>1. ASSUME NEW l \in Links, link[l].st = "up", link[l].auth PROVE Lit
    BY <1>1, <2>1, UpIs DEF Lit
  <2>2. ASSUME Lit PROVE sock \in Links
    BY <1>1, <2>2 DEF Lit, Typed
  <2>. QED
    BY <2>1, <2>2 DEF Lit
<1>6. PICK xs : xs = (IF Lit THEN <<x>> ELSE <<>>)
  OBVIOUS
<1>7. /\ xs \in Seq(Event) /\ Len(xs) <= 1 /\ (\A k \in 1..Len(xs) : xs[k] = x)
      /\ (Lit => Len(xs) = 1) /\ (~Lit => Len(xs) = 0)
  BY <1>4, <1>6, OneIs
<1>8. queue' = queue \o xs
  <2>1. queue \in Seq(Event)
    BY <1>1 DEF Typed
  <2>2. CASE Lit
    BY <1>3, <1>5, <1>6, <2>2 DEF ServerChanges, Post
  <2>3. CASE ~Lit
    BY <1>5, <1>6, <2>1, <2>3 DEF ServerChanges
  <2>. QED
    BY <2>2, <2>3
<1>9. Moves(0, xs)
  BY <1>1, <1>7, <1>8, PostMoves
<1>10. Typed'
  <2>1. known' \subseteq Devs
    BY <1>1, <1>2 DEF Typed
  <2>2. Depth' = Depth
    BY <1>1, <1>2, SameStack
  <2>. QED
    BY <1>1, <1>2, <1>9, <2>1, <2>2 DEF Typed, Moves
<1>11. Steady
  BY <1>2, SteadyIs
<1>12. /\ Depth' = Depth /\ Under(Depth, 0)
       /\ \A j \in 1..Depth' : ~(j > Depth) /\ j # 0
  BY <1>1, <1>2, SameStack
<1>13. \A k \in 1..Len(queue) : Refers(queue[k], Depth, 0)
  BY <1>1, RefersAll
<1>14. x.e \notin Replies /\ x.e \notin OfLink
  BY <1>4 DEF News, Replies, OfLink
<1>15. Addressed'
  BY <1>1, <1>4, <1>7, <1>9, <1>10, <1>12, <1>13, AddressedKept
<1>16. PICK b : b = Depth
  OBVIOUS
<1>17. Framed'
  <2>1. \A j \in 1..Depth' : (j > b \/ j = 0) => (IsCall(j) => FrameFits(stack[j]))'
    BY <1>12, <1>16
  <2>2. \A j \in 1..b : IsCall(j) /\ link[stack[j].link].auth => link'[stack[j].link].auth
    BY <1>2
  <2>. QED
    BY <1>1, <1>10, <1>12, <1>16, <2>1, <2>2, FramedKept
<1>18. Connected'
  <2>1. \A j \in 1..Depth' : j > b => (IsCall(j) => ready \/ stack[j].link # sock)'
    BY <1>12, <1>16
  <2>. QED
    BY <1>1, <1>9, <1>10, <1>11, <1>12, <1>16, <2>1, ConnectedKept
<1>19. Ordered'
  <2>1. \A k \in 1..Len(xs) :
          /\ xs[k].e \notin OfLink
          /\ xs[k].e \in {"answer"} \cup News => sock # None /\ link[sock].st = "up"
    <3>1. ASSUME NEW k \in 1..Len(xs) PROVE Lit
      BY <1>7
    <3>. QED
      BY <1>7, <1>14, <3>1 DEF Lit
  <2>. QED
    BY <1>1, <1>7, <1>9, <1>11, <2>1, OrderedKept
<1>20. Answered'
  <2>1. ASSUME NEW k \in 1..Len(xs) PROVE OfServer(xs[k])'
    <3>1. Lit /\ xs[k] = x
      BY <1>7
    <3>2. sock # None /\ link[sock].auth /\ link[sock].st = "up"
      BY <3>1 DEF Lit
    <3>3. ready
      BY <1>1, <3>2 DEF Connected
    <3>4. x.e # "answer"
      BY <1>4 DEF News
    <3>. QED
      BY <1>2, <1>14, <3>1, <3>2, <3>3, <3>4 DEF OfServer
  <2>. QED
    BY <1>1, <1>9, <1>10, <1>11, <1>12, <1>13, <2>1, AnsweredKept
<1>21. Basics'
  BY <1>10, <1>15, <1>17, <1>18, <1>19, <1>20 DEF Basics
<1>22. \A j \in 1..Depth : Hopeful(j) => Hopeful(j)'
  <2>1. \A j \in 1..Depth : j # 0
    BY <1>12
  <2>. QED
    BY <1>1, <1>2, <1>9, <1>10, <1>12, <2>1, HopefulKept
<1>23. Users'
  <2>1. \A j \in 1..Depth' : j > b => stack'[j].op # "connect"
    BY <1>12, <1>16
  <2>. QED
    BY <1>1, <1>2, <1>10, <1>12, <1>16, <1>22, <2>1, UsersKept
<1>24. Told'
  <2>. SUFFICES ASSUME Lit', NEW d \in Devs, NEW k \in 1..Len(queue'), Unchanged(d, k)'
                PROVE  /\ NewsOf(d, queue'[k]) => (queue'[k].e = "identified" <=> d \in known')
                       /\ queue'[k].e = "answer" /\ AnswerTo(queue[k], Lists)' =>
                            (d \in queue'[k].ids <=> d \in known')
    BY DEF Told, NewsOf
  <2>1. Lit
    BY <1>2 DEF Lit
  <2>2. Len(xs) = 1 /\ xs[1] = x
    BY <1>7, <2>1
  <2>3. Len(queue) \in Nat /\ Rest(0) = Len(queue)
    BY <1>1, PlacesAre DEF Rest
  <2>4. Len(queue') = Len(queue) + 1 /\ queue'[Len(queue) + 1] = x
    BY <1>9, <2>2, <2>3 DEF Moves
  <2>5. CASE k = Len(queue) + 1
    BY <1>2, <1>4, <2>4, <2>5 DEF NewsOf, News
  <2>6. CASE k # Len(queue) + 1
    <3>1. k \in 1..Len(queue) /\ k < Len(queue) + 1 /\ Len(queue) + 1 \in 1..Len(queue')
      BY <2>3, <2>4, <2>6
    <3>2. d # e
      BY <1>4, <2>4, <3>1 DEF Unchanged, NewsOf
    <3>3. \A j \in 1..Len(queue) : j \in 1..Len(queue') /\ queue'[j] = queue[j]
      BY <1>9, <2>3, <2>4 DEF Moves, Before
    <3>4. Unchanged(d, k)
      BY <3>3 DEF Unchanged, NewsOf
    <3>5. /\ NewsOf(d, queue[k]) => (queue[k].e = "identified" <=> d \in known)
          /\ queue[k].e = "answer" /\ AnswerTo(queue[k], Lists) =>
               (d \in queue[k].ids <=> d \in known)
      BY <1>1, <2>1, <3>1, <3>4 DEF Told
    <3>6. AnswerTo(queue[k], Lists)' <=> AnswerTo(queue[k], Lists)
      BY <1>2, <3>1, <3>3 DEF AnswerTo
    <3>7. d \in known' <=> d \in known
      BY <1>2, <3>2
    <3>8. queue'[k] = queue[k]
      BY <3>1, <3>3
    <3>. QED
      BY <3>5, <3>6, <3>7, <3>8
  <2>. QED
    BY <2>5, <2>6
<1>25. Settled'
  BY <1>1, <1>2, <1>10, <1>12, SettledSame
<1>26. (Dark' => Dark) /\ (Lit' => Lit)
  <2>1. Dark' => Dark
    BY <1>1, <1>9, <1>11, SteadyDark
  <2>. QED
    BY <1>2, <2>1 DEF Lit
<1>27. \A k \in 1..Len(xs) : xs[k].e # "reply"
  BY <1>7, <1>14 DEF Replies
<1>28. \A d : \A j \in 1..Depth' : j > b =>
          ~HasList(j)' /\ ~(stack'[j].op = "add" /\ stack'[j].dev = d)
  BY <1>12, <1>16
<1>29. ASSUME NEW d \in Devs PROVE Follows(d)'
  <2>1. Follows(d)
    BY <1>1, <1>29 DEF Followed
  <2>2. CASE d # e
    <3>1. d \in known' <=> d \in known
      BY <1>2, <2>2
    <3>2. \A j \in 1..Depth : ~(j > Depth)
      BY <1>12
    <3>3. Ready' /\ ~history'.crossed => Ready /\ ~history.crossed
      BY <1>2 DEF Ready
    <3>4. \A j \in 1..Depth : IsCall(j) => (d \in stack'[j].left <=> d \in stack[j].left)
      BY <1>2
    <3>. QED
      BY <1>1, <1>2, <1>9, <1>10, <1>12, <1>13, <1>16, <1>26, <1>27, <1>28,
         <2>1, <3>1, <3>2, <3>3, <3>4, FollowsKept
  <2>3. CASE d = e
    <3>1. ASSUME Lit', Unchanged(d, 0)' PROVE FALSE
      <4>1. Lit
        BY <1>2, <3>1 DEF Lit
      <4>2. 1 \in 1..Len(xs) /\ xs[1] = x
        BY <1>7, <4>1
      <4>3. PICK k \in 1..Len(queue') : queue'[k] = x
        BY <1>1, <1>9, <4>2, BeforeIs
      <4>4. k \in 1..Len(queue') /\ 0 < k
        OBVIOUS
      <4>. QED
        BY <1>4, <2>3, <3>1, <4>3, <4>4 DEF Unchanged, NewsOf
    <3>2. ASSUME Gone(d) PROVE Gone(d)'
      <4>1. devices'[d] # "on"
        BY <1>2, <3>2 DEF Gone
      <4>2. \A j \in 1..Depth' : (j > b \/ j = 0) =>
              ~HasList(j)' /\ ~(stack'[j].op = "add" /\ stack'[j].dev = d)
        BY <1>12, <1>16
      <4>. QED
        BY <1>1, <1>9, <1>10, <1>12, <1>13, <1>16, <1>27, <3>2, <4>1, <4>2, GoneKept
    <3>. QED
      BY <1>2, <1>26, <2>1, <3>1, <3>2 DEF Follows
  <2>. QED
    BY <2>2, <2>3
<1>. QED
  BY <1>21, <1>23, <1>24, <1>25, <1>29 DEF Inv, Followed
-----------------------------------------------------------------------------
(* The lists that are on their way. *)
LEMMA ResultsAre ==
  ASSUME Typed
  PROVE  /\ \A i \in 1..Depth : HasList(i) => stack[i].ids \in Results
         /\ \A k \in 1..Len(queue) :
              queue[k].e = "reply" /\ AnswerTo(queue[k], Lists) => queue[k].ids \in Results
<1>1. ASSUME NEW i \in 1..Depth, HasList(i) PROVE stack[i].ids \in Results
  BY <1>1 DEF Results, HasList
<1>2. ASSUME NEW k \in 1..Len(queue), queue[k].e = "reply", AnswerTo(queue[k], Lists)
      PROVE  queue[k].ids \in Results
  <2>1. queue[k] \in ToSet(queue)
    BY PlacesAre DEF ToSet
  <2>. QED
    BY <1>2, <2>1 DEF Results, AnswerTo
<1>. QED
  BY <1>1, <1>2

(* Nothing that is on its way contradicts the state "on" of the device. *)
LEMMA CurrentIs ==
  ASSUME Typed, NEW d, NEW on, ~Outdated(d, on)
  PROVE  /\ \A i \in 1..Depth : HasList(i) => (d \in stack[i].ids <=> on)
         /\ \A k \in 1..Len(queue) :
              queue[k].e = "reply" /\ AnswerTo(queue[k], Lists) => (d \in queue[k].ids <=> on)
         /\ Adding(d) => on
BY ResultsAre DEF Outdated
-----------------------------------------------------------------------------
(***************************************************************************)
(* The answers of the server reach their calls.                            *)
(***************************************************************************)
LEMMA OnAnswerKept ==
  ASSUME Inv, OnAnswer
  PROVE  Inv'
<1>1. /\ Basics /\ Users /\ Told /\ Settled /\ Followed
      /\ Typed /\ Addressed /\ Framed /\ Connected /\ Ordered /\ Answered
  BY DEF Inv, Basics
<1>2. /\ InLoop /\ queue # <<>> /\ 1 \in 1..Len(queue)
      /\ Head(queue) = queue[1] /\ queue[1].e = "answer" /\ queue[1] \in Event
  BY <1>1, HandlesIs DEF OnAnswer
<1>3. PICK x : x = queue[1]
  OBVIOUS
<1>4. x \in Event /\ x.e = "answer" /\ x.e \in Replies /\ x \in ReplyEvents
  BY <1>2, <1>3, EventIs DEF Replies
<1>5. ForCall(x) /\ OfServer(x)
  BY <1>1, <1>2, <1>3, <1>4 DEF Addressed, Answered
<1>6. PICK y : y = [x EXCEPT !.e = "reply"]
  OBVIOUS
<1>7. /\ y \in Event /\ y.e = "reply" /\ y.at = x.at /\ y.ok = x.ok /\ y.ids = x.ids
      /\ y.ok \in BOOLEAN
  <2>1. y \in ReplyEvents /\ y.e = "reply" /\ y.at = x.at /\ y.ok = x.ok /\ y.ids = x.ids
        /\ y.ok \in BOOLEAN
    BY <1>4, <1>6 DEF ReplyEvents, Replies
  <2>. QED
    BY <2>1, EventIs
<1>8. PICK xs : xs = <<y>>
  OBVIOUS
<1>9. xs \in Seq(Event) /\ Len(xs) = 1 /\ xs[1] = y /\ \A k \in 1..Len(xs) : xs[k] = y
  <2>1. xs \in Seq(Event) /\ Len(xs) = 1 /\ xs[1] = y
    BY <1>7, <1>8, OneIs
  <2>. QED
    BY <2>1
<1>10. Moves(1, xs)
  BY <1>1, <1>2, <1>3, <1>6, <1>8, <1>9, ThenMoves DEF OnAnswer
<1>11. /\ link' = link /\ known' = known /\ sock' = sock /\ ready' = ready /\ authed' = authed
       /\ devices' = devices /\ stack' = stack
  BY DEF OnAnswer, Calling
<1>12. history' = IF stack[x.at].op = "reload" /\ x.ok
         THEN [history EXCEPT !.stale =
                 {d \in history.stale : \/ d \in x.ids /\ devices[d] = "off"
                                        \/ Outdated(d, d \in x.ids)}]
         ELSE history
  BY <1>2, <1>3 DEF OnAnswer
<1>13. /\ history' \in [crossed : BOOLEAN, late : BOOLEAN, stale : SUBSET Devs]
       /\ history'.crossed = history.crossed /\ history'.late = history.late
       /\ stack[x.at].op = "reload" /\ x.ok =>
            history'.stale = {d \in history.stale : \/ d \in x.ids /\ devices[d] = "off"
                                                    \/ Outdated(d, d \in x.ids)}
       /\ ~(stack[x.at].op = "reload" /\ x.ok) => history'.stale = history.stale
  <2>1. history \in [crossed : BOOLEAN, late : BOOLEAN, stale : SUBSET Devs]
    BY <1>1 DEF Typed
  <2>2. PICK s : s = {d \in history.stale : \/ d \in x.ids /\ devices[d] = "off"
                                            \/ Outdated(d, d \in x.ids)}
    OBVIOUS
  <2>3. s \subseteq Devs
    BY <2>1, <2>2
  <2>. QED
    BY <1>12, <2>1, <2>2, <2>3
<1>14. Typed'
  <2>1. Depth' = Depth
    BY <1>1, <1>11, SameStack
  <2>. QED
    BY <1>1, <1>10, <1>11, <1>13, <2>1 DEF Typed, Moves
<1>15. Steady
  BY <1>11, SteadyIs
<1>16. /\ Depth' = Depth /\ Under(Depth, 0)
       /\ \A j \in 1..Depth' : ~(j > Depth) /\ j # 0
  BY <1>1, <1>11, SameStack
<1>17. \A k \in 1..Len(queue) : Refers(queue[k], Depth, 0)
  BY <1>1, RefersAll
<1>18. queue[1].e \notin OfLink /\ queue[1].e \notin News /\ queue[1].e # "reply"
  BY <1>2 DEF OfLink, News
<1>19. \A j \in 1..Len(queue) : j # 1 /\ queue[j].e \in Replies => queue[j].at # x.at
  BY <1>1, <1>2, <1>3, <1>4 DEF Addressed
<1>20. PICK b : b = Depth
  OBVIOUS
<1>21. Basics'
  <2>1. ForCall(y)'
    BY <1>5, <1>7, <1>11, <1>16 DEF ForCall, IsCall
  <2>2. y.ok => link'[stack'[y.at].link].auth
    BY <1>4, <1>5, <1>7, <1>11 DEF OfServer
  <2>3. Placed(1, xs, 1)
    BY <1>7, <1>9, <1>19, <2>1, <2>2 DEF Placed, Own
  <2>4. \A k \in 1..Len(xs) : Placed(1, xs, k)
    BY <1>9, <2>3
  <2>5. \A i \in 1..Depth' : (i > b \/ i = 0) => (IsCall(i) => FrameFits(stack[i]))'
    BY <1>16, <1>20
  <2>6. \A i \in 1..Depth' : i > b => (IsCall(i) => ready \/ stack[i].link # sock)'
    BY <1>16, <1>20
  <2>7. Len(xs) <= 1
    BY <1>9
  <2>. QED
    BY <1>1, <1>10, <1>14, <1>15, <1>16, <1>17, <1>18, <1>20, <2>4, <2>5, <2>6, <2>7, BasicsKept, SMTT(60)
<1>22. PICK n \in 1..Len(queue') : queue'[n] = y
  <2>1. 1 \in 1..Len(xs)
    BY <1>9
  <2>2. Rest(1) + 1 \in 1..Len(queue') /\ queue'[Rest(1) + 1] = xs[1]
    BY <1>1, <1>10, <2>1, BeforeIs
  <2>. QED
    BY <1>9, <2>2
<1>23. ASSUME NEW i \in 1..Depth, Hopeful(i) PROVE Hopeful(i)'
  <2>1. CASE i # x.at
    <3>1. ~(queue[1].e \in Replies /\ queue[1].at = i) /\ i # 0
      BY <1>3, <1>16, <2>1
    <3>. QED
      BY <1>1, <1>10, <1>11, <1>14, <1>16, <1>23, <3>1, HopefulKept
  <2>2. CASE i = x.at
    <3>1. ~stack[i].ok
      BY <1>5, <2>2 DEF ForCall
    <3>2. x.ok
      BY <1>3, <1>19, <1>23, <2>2, <3>1 DEF Hopeful
    <3>3. queue'[n].e \in Replies /\ queue'[n].at = i /\ queue'[n].ok
      BY <1>7, <1>22, <2>2, <3>2 DEF Replies
    <3>4. IsCall(i)'
      BY <1>11, <1>16, <1>23 DEF Hopeful, IsCall
    <3>. QED
      BY <1>11, <1>22, <1>23, <3>3, <3>4 DEF Hopeful
  <2>. QED
    BY <2>1, <2>2
<1>24. Users'
  <2>1. \A j \in 1..Depth' : j > b => stack'[j].op # "connect"
    BY <1>16, <1>20
  <2>. QED
    BY <1>1, <1>11, <1>13, <1>14, <1>16, <1>20, <1>23, <2>1, UsersKept
<1>25. Told'
  <2>1. \A k \in 1..Len(xs) : xs[k].e \notin News /\ xs[k].e # "answer"
    BY <1>7, <1>9 DEF News
  <2>. QED
    BY <1>1, <1>10, <1>11, <1>14, <1>15, <1>16, <1>17, <2>1, ToldKept
<1>26. Settled'
  <2>1. \A i \in 1..Depth' : i > b => (IsCall(i) => stack[i].st # "apply" \/ stack[i].ok)'
    BY <1>16, <1>20
  <2>. QED
    BY <1>1, <1>2, <1>14, <1>16, <1>20, <2>1, SettledKept
<1>27. (Dark' => Dark) /\ (Lit' => Lit)
  <2>1. Dark' => Dark
    BY <1>1, <1>10, <1>15, <1>18, SteadyDark
  <2>. QED
    BY <1>11, <2>1 DEF Lit
<1>28. \A v, ops : AnswerTo(v, ops)' <=> AnswerTo(v, ops)
  BY <1>11 DEF AnswerTo
<1>29. ASSUME NEW k \in 1..Len(queue') PROVE queue'[k] = y \/ \E j \in 1..Len(queue) : queue'[k] = queue[j]
  <2>1. k \in 1..Rest(1) \/ \E m \in 1..Len(xs) : queue'[k] = xs[m]
    BY <1>1, <1>10, BeforeIs
  <2>2. k \in 1..Rest(1) => Before(1, k) \in 1..Len(queue) /\ queue'[k] = queue[Before(1, k)]
    BY <1>1, <1>10, BeforeIs
  <2>. QED
    BY <1>9, <2>1, <2>2
<1>30. ASSUME NEW j \in 1..Len(queue), j # 1
       PROVE  \E k \in 1..Len(queue') : queue'[k] = queue[j]
  <2>1. PICK k \in 1..Rest(1) : Before(1, k) = j
    BY <1>1, <1>10, <1>30, BeforeIs
  <2>2. k \in 1..Len(queue') /\ queue'[k] = queue[j]
    BY <1>1, <1>10, <2>1, BeforeIs
  <2>. QED
    BY <2>2
<1>31. ASSUME Dark PROVE ~AnswerTo(x, Lists)
  <2>1. ASSUME x.ok PROVE link[sock].auth /\ sock # None
    BY <1>1, <1>4, <1>5, <2>1 DEF OfServer, Connected
  <2>. QED
    BY <1>31, <2>1 DEF AnswerTo, Dark
<1>32. ASSUME NEW d \in Devs, Dark, Follows(d), d \notin history'.stale PROVE Gone(d)'
  <2>1. ~AnswerTo(x, Lists)
    BY <1>31, <1>32
  <2>2. ~(stack[x.at].op = "reload" /\ x.ok)
    BY <2>1 DEF AnswerTo, Lists
  <2>3. Gone(d)
    BY <1>13, <1>32, <2>2 DEF Follows
  <2>4. devices'[d] # "on"
    BY <1>11, <2>3 DEF Gone
  <2>5. \A j \in 1..Depth' : (j > b \/ j = 0) =>
          ~HasList(j)' /\ ~(stack'[j].op = "add" /\ stack'[j].dev = d)
    BY <1>16, <1>20
  <2>6. ~AnswerTo(y, Lists)'
    BY <1>7, <1>11, <2>1 DEF AnswerTo
  <2>7. \A k \in 1..Len(xs) : xs[k].e = "reply" => ~AnswerTo(xs[k], Lists)'
    BY <1>9, <2>6
  <2>. QED
    BY <1>1, <1>10, <1>14, <1>16, <1>17, <1>20, <2>3, <2>4, <2>5, <2>7, GoneKept
<1>33. ASSUME NEW d \in Devs, Unchanged(d, 0)'
       PROVE  Unchanged(d, 0) /\ Unchanged(d, 1)
  <2>1. ASSUME NEW j \in 1..Len(queue) PROVE ~NewsOf(d, queue[j])
    <3>1. CASE j = 1
      BY <1>18, <3>1 DEF NewsOf
    <3>2. CASE j # 1
      <4>1. PICK k \in 1..Len(queue') : queue'[k] = queue[j]
        BY <1>30, <3>2
      <4>2. 0 < k
        OBVIOUS
      <4>. QED
        BY <1>33, <4>1, <4>2 DEF Unchanged, NewsOf
    <3>. QED
      BY <3>1, <3>2
  <2>. QED
    BY <2>1 DEF Unchanged
<1>34. ASSUME NEW d \in Devs, Lit, Unchanged(d, 1), AnswerTo(x, Lists)
       PROVE  d \in x.ids <=> d \in known
  BY <1>1, <1>2, <1>3, <1>4, <1>34 DEF Told
<1>35. \A j : HasList(j)' <=> HasList(j)
  BY <1>11, <1>16 DEF HasList, IsCall
<1>36. \A d : (Adding(d)' <=> Adding(d)) /\ \A j : Brings(j, d)' <=> Brings(j, d)
  BY <1>11, <1>16 DEF Adding, Brings, IsCall
<1>37. Ready' /\ ~history'.crossed <=> Ready /\ ~history.crossed
  BY <1>11, <1>13 DEF Ready
<1>38. ASSUME NEW d \in Devs, Lit', Unchanged(d, 0)', Follows(d), d \notin history'.stale
       PROVE  Agrees(d)'
  <2>1. Lit /\ Unchanged(d, 0) /\ Unchanged(d, 1)
    BY <1>27, <1>33, <1>38
  <2>2. AnswerTo(y, Lists)' => (d \in y.ids <=> d \in known')
    <3>1. AnswerTo(y, Lists)' => AnswerTo(x, Lists)
      BY <1>7, <1>11 DEF AnswerTo
    <3>. QED
      BY <1>7, <1>11, <1>34, <2>1, <3>1
  <2>3. CASE d \notin history.stale
    <3>1. Agrees(d)
      BY <1>38, <2>1, <2>3 DEF Follows
    <3>2. ASSUME NEW k \in 1..Len(queue'), queue'[k].e = "reply", AnswerTo(queue[k], Lists)'
          PROVE  d \in queue'[k].ids <=> d \in known'
      <4>1. CASE queue'[k] = y
        <5>1. AnswerTo(y, Lists)'
          BY <3>2, <4>1 DEF AnswerTo
        <5>. QED
          BY <2>2, <4>1, <5>1
      <4>2. CASE queue'[k] # y
        <5>1. PICK j \in 1..Len(queue) : queue'[k] = queue[j]
          BY <1>29, <4>2
        <5>2. AnswerTo(queue[j], Lists)
          BY <1>11, <3>2, <5>1 DEF AnswerTo
        <5>. QED
          BY <1>11, <3>1, <3>2, <5>1, <5>2 DEF Agrees
      <4>. QED
        BY <4>1, <4>2
    <3>3. Drops(d) => Drops(d)'
      <4>1. ASSUME NEW i \in 1..Depth, HasList(i), stack[i].op = "reload", d \notin stack[i].ids
            PROVE  Drops(d)'
        BY <1>11, <1>16, <1>35, <4>1 DEF Drops
      <4>2. ASSUME NEW j \in 1..Len(queue), queue[j].e = "reply",
                   AnswerTo(queue[j], {"reload"}), d \notin queue[j].ids
            PROVE  Drops(d)'
        <5>1. j # 1
          BY <1>18, <4>2
        <5>2. PICK k \in 1..Len(queue') : queue'[k] = queue[j]
          BY <1>30, <5>1
        <5>3. /\ queue'[k].e = "reply" /\ AnswerTo(queue[k], {"reload"})'
              /\ d \notin queue'[k].ids
          BY <1>11, <4>2, <5>2 DEF AnswerTo
        <5>. QED
          BY <5>3 DEF Drops
      <4>. QED
        BY <4>1, <4>2 DEF Drops
    <3>4. \A i \in 1..Depth' : HasList(i)' => (d \in stack'[i].ids <=> d \in known')
      BY <1>11, <1>16, <1>35, <3>1 DEF Agrees
    <3>5. Adding(d)' => d \in known'
      BY <1>11, <1>36, <3>1 DEF Agrees
    <3>6. devices'[d] = "on" => d \in known' \/ Drops(d)'
      BY <1>11, <3>1, <3>3 DEF Agrees
    <3>7. Ready' /\ ~history'.crossed /\ d \in known' =>
            devices'[d] = "on" \/ Adding(d)' \/ \E i \in 1..Depth' : Brings(i, d)'
      BY <1>11, <1>16, <1>36, <1>37, <3>1 DEF Agrees
    <3>. QED
      BY <3>2, <3>4, <3>5, <3>6, <3>7 DEF Agrees
  <2>4. CASE d \in history.stale
    <3>1. /\ stack[x.at].op = "reload" /\ x.ok
          /\ ~(d \in x.ids /\ devices[d] = "off") /\ ~Outdated(d, d \in x.ids)
      BY <1>13, <1>38, <2>4
    <3>2. AnswerTo(x, Lists) /\ (d \in x.ids <=> d \in known)
      BY <1>34, <2>1, <3>1 DEF AnswerTo, Lists
    <3>a. PICK on : on = (d \in x.ids)
      OBVIOUS
    <3>b. ~Outdated(d, on) /\ (on <=> d \in known)
      BY <3>1, <3>2, <3>a
    <3>c. /\ \A i \in 1..Depth : HasList(i) => (d \in stack[i].ids <=> on)
          /\ \A k \in 1..Len(queue) :
               queue[k].e = "reply" /\ AnswerTo(queue[k], Lists) =>
                 (d \in queue[k].ids <=> on)
          /\ Adding(d) => on
      BY <1>1, <3>b, CurrentIs
    <3>3. \A i \in 1..Depth : HasList(i) => (d \in stack[i].ids <=> d \in known)
      BY <3>b, <3>c
    <3>4. \A j \in 1..Len(queue) :
            queue[j].e = "reply" /\ AnswerTo(queue[j], Lists) =>
              (d \in queue[j].ids <=> d \in known)
      BY <3>b, <3>c
    <3>5. Adding(d) => d \in known
      BY <3>b, <3>c
    <3>6. \A i \in 1..Depth' : HasList(i)' => (d \in stack'[i].ids <=> d \in known')
      BY <1>11, <1>16, <1>35, <3>3
    <3>7. ASSUME NEW k \in 1..Len(queue'), queue'[k].e = "reply", AnswerTo(queue[k], Lists)'
          PROVE  d \in queue'[k].ids <=> d \in known'
      <4>1. CASE queue'[k] = y
        <5>1. AnswerTo(y, Lists)'
          BY <3>7, <4>1 DEF AnswerTo
        <5>. QED
          BY <2>2, <4>1, <5>1
      <4>2. CASE queue'[k] # y
        <5>1. PICK j \in 1..Len(queue) : queue'[k] = queue[j]
          BY <1>29, <4>2
        <5>2. AnswerTo(queue[j], Lists)
          BY <1>11, <3>7, <5>1 DEF AnswerTo
        <5>. QED
          BY <1>11, <3>4, <3>7, <5>1, <5>2
      <4>. QED
        BY <4>1, <4>2
    <3>8. AnswerTo(y, {"reload"})' /\ AnswerTo(y, Lists)'
      BY <1>7, <1>11, <3>1 DEF AnswerTo, Lists
    <3>9. d \notin known' => Drops(d)'
      <4>1. ASSUME d \notin known' PROVE Drops(d)'
        <5>1. d \notin y.ids
          BY <2>2, <3>8, <4>1
        <5>2. /\ queue'[n].e = "reply" /\ AnswerTo(queue[n], {"reload"})'
              /\ d \notin queue'[n].ids
          BY <1>7, <1>22, <3>8, <5>1 DEF AnswerTo
        <5>. QED
          BY <5>2 DEF Drops
      <4>. QED
        BY <4>1
    <3>10. d \in known' => devices'[d] = "on" \/ \E i \in 1..Depth' : Brings(i, d)'
      <4>1. devices[d] \in {"none", "on", "off"}
        BY <1>1 DEF Typed
      <4>2. ASSUME devices[d] = "none" PROVE Brings(x.at, d)
        BY <1>5, <3>1, <4>2 DEF ForCall, Brings
      <4>3. ASSUME devices[d] = "none" PROVE x.at \in 1..Depth' /\ Brings(x.at, d)'
        BY <1>5, <1>16, <1>36, <4>2, <4>3 DEF ForCall, IsCall
      <4>. QED
        BY <1>11, <3>1, <3>2, <4>1, <4>3
    <3>. QED
      BY <1>11, <1>36, <3>5, <3>6, <3>7, <3>9, <3>10 DEF Agrees
  <2>. QED
    BY <2>3, <2>4
<1>39. ASSUME NEW d \in Devs PROVE Follows(d)'
  <2>1. Follows(d)
    BY <1>1, <1>39 DEF Followed
  <2>. QED
    BY <1>27, <1>32, <1>38, <2>1 DEF Follows
<1>. QED
  BY <1>21, <1>24, <1>25, <1>26, <1>39 DEF Inv, Followed
LEMMA OnReplyKept ==
  ASSUME Inv, OnReply
  PROVE  Inv'
<1>1. /\ Basics /\ Users /\ Told /\ Settled /\ Followed
      /\ Typed /\ Addressed /\ Framed /\ Connected /\ Ordered /\ Answered
  BY DEF Inv, Basics
<1>2. /\ InLoop /\ queue # <<>> /\ 1 \in 1..Len(queue)
      /\ Head(queue) = queue[1] /\ queue[1].e = "reply" /\ queue[1] \in Event
  BY <1>1, HandlesIs DEF OnReply
<1>3. PICK x : x = queue[1]
  OBVIOUS
<1>4. x \in Event /\ x.e = "reply" /\ x.e \in Replies /\ x \in ReplyEvents
  BY <1>2, <1>3, EventIs DEF Replies
<1>5. ForCall(x) /\ OfServer(x)
  BY <1>1, <1>2, <1>3, <1>4 DEF Addressed, Answered
<1>6. PICK c : c = x.at
  OBVIOUS
<1>7. /\ Depth \in Nat /\ Depth <= MaxFrames /\ DOMAIN stack = 1..Depth /\ MaxFrames \in Nat
      /\ \A i \in 1..Depth : stack[i] \in Frame
  BY <1>1, PlacesAre
<1>8. PICK f : f = stack[c]
  OBVIOUS
<1>9. /\ c \in 1..Depth /\ c # 0 /\ c \in 1..MaxFrames /\ f.op \in Calls /\ f \in CallFrames
      /\ f.st # "apply" /\ f.answered /\ ~f.ok /\ IsCall(c)
      /\ x.ids # {} => x.ok
      /\ x.ok \in BOOLEAN /\ x.ids \in SUBSET Devs
      /\ x.ok => link[f.link].auth
  BY <1>4, <1>5, <1>6, <1>7, <1>8, FrameIs DEF ForCall, IsCall, ReplyEvents, OfServer
<1>10. PICK h : h = Got(f)
  OBVIOUS
<1>11. /\ h \in CallFrames /\ Like(f, h) /\ h.op = f.op /\ h.st \in {"got", "done"}
       /\ h.link = f.link /\ h.answered = f.answered /\ h.ok = f.ok
  BY <1>9, <1>10, GotIs
<1>12. PICK g : g = [h EXCEPT !.ok = x.ok, !.ids = x.ids, !.left = x.ids]
  OBVIOUS
<1>13. /\ g \in CallFrames /\ g.op = f.op /\ g.link = f.link /\ g.st = h.st
       /\ g.answered /\ g.ok = x.ok /\ g.ids = x.ids /\ g.left = x.ids
  BY <1>9, <1>11, <1>12 DEF CallFrames
<1>14. g \in Frame /\ Like(f, g)
  BY <1>9, <1>11, <1>13, FrameIs DEF Like
<1>15. g = [Got(f) EXCEPT !.ok = @ \/ x.ok, !.ids = x.ids, !.left = x.ids]
  <2>1. (h.ok \/ x.ok) = x.ok
    BY <1>9, <1>11
  <2>. QED
    BY <1>10, <1>12, <2>1
<1>16. /\ stack' \in Seq(Frame) /\ Depth' = Depth /\ stack'[c] = g
       /\ \A i \in 1..Depth : i # c => stack'[i] = stack[i]
  <2>1. stack' = [stack EXCEPT ![c] = g]
    BY <1>2, <1>3, <1>6, <1>8, <1>15 DEF OnReply
  <2>. QED
    BY <1>1, <1>9, <1>14, <2>1, ExceptIs
<1>17. PICK xs : xs = Tell("done", {c})
  OBVIOUS
<1>18. /\ xs \in Seq(Event) /\ Len(xs) \in {0, 1}
       /\ \A k \in 1..Len(xs) : xs[k].e = "done" /\ xs[k].calls = {c}
  <2>1. {c} \in SUBSET (1..MaxFrames)
    BY <1>9
  <2>. QED
    BY <1>17, <2>1, TellIs DEF Tellings
<1>19. Moves(1, xs)
  BY <1>1, <1>2, <1>3, <1>6, <1>17, <1>18, ThenMoves DEF OnReply
<1>20. /\ link' = link /\ known' = known /\ sock' = sock /\ ready' = ready /\ authed' = authed
       /\ devices' = devices /\ history' = history
       /\ UNCHANGED <<Calling, history>>
  BY DEF OnReply, Calling
<1>21. Typed'
  BY <1>1, <1>7, <1>16, <1>19, <1>20, TypedKept
<1>22. Steady
  BY <1>20, SteadyIs
<1>23. Under(Depth, c)
  BY <1>7, <1>8, <1>14, <1>16, LikeIs DEF Under
<1>24. \A j \in 1..Len(queue) : j # 1 /\ queue[j].e \in Replies => queue[j].at # c
  BY <1>1, <1>2, <1>3, <1>4, <1>6 DEF Addressed
<1>25. \A k \in 1..Len(queue) : k # 1 => Refers(queue[k], Depth, c)
  <2>1. ASSUME NEW k \in 1..Len(queue) PROVE Refers(queue[k], Depth, 0)
    BY <1>1, RefersAll
  <2>. QED
    BY <1>24, <2>1 DEF Refers
<1>26. PICK b : b = Depth
  OBVIOUS
<1>27. \A i \in 1..Depth' : ~(i > b)
  BY <1>7, <1>16, <1>26
<1>28. FrameFits(stack[c])'
  <2>1. g.st # "apply" /\ g.st # "sent"
    BY <1>11, <1>13
  <2>. QED
    BY <1>9, <1>13, <1>16, <1>20, <2>1 DEF FrameFits
<1>29. queue[1].e \notin OfLink /\ queue[1].e \notin News
  BY <1>2 DEF OfLink, News
<1>30. Basics'
  <2>1. \A i \in 1..Depth' : (i > b \/ i = c) => (IsCall(i) => FrameFits(stack[i]))'
    BY <1>27, <1>28
  <2>2. \A i \in 1..Depth' : i > b => (IsCall(i) => ready \/ stack[i].link # sock)'
    BY <1>27
  <2>3. Len(xs) <= 1
    BY <1>18
  <2>4. ASSUME NEW k \in 1..Len(xs) PROVE Placed(1, xs, k)
    <3>1. xs[k].e = "done" /\ xs[k].calls = {c}
      BY <1>18
    <3>2. c \in 1..Depth' /\ stack'[c].op \in Calls /\ stack'[c].st # "apply"
      BY <1>9, <1>11, <1>13, <1>16
    <3>. QED
      BY <3>1, <3>2 DEF Placed, Own
  <2>. QED
    BY <1>1, <1>19, <1>21, <1>22, <1>23, <1>25, <1>26, <1>29, <2>1, <2>2, <2>3, <2>4, BasicsKept, SMTT(60)
<1>31. ASSUME NEW i \in 1..Depth, Hopeful(i) PROVE Hopeful(i)'
  <2>1. CASE i # c
    <3>1. ~(queue[1].e \in Replies /\ queue[1].at = i)
      BY <1>3, <1>6, <2>1
    <3>. QED
      BY <1>1, <1>19, <1>20, <1>21, <1>23, <1>31, <2>1, <3>1, HopefulKept
  <2>2. CASE i = c
    <3>1. x.ok
      BY <1>3, <1>8, <1>9, <1>24, <1>31, <2>2 DEF Hopeful
    <3>. QED
      BY <1>8, <1>9, <1>13, <1>16, <1>20, <1>31, <2>2, <3>1 DEF Hopeful, IsCall
  <2>. QED
    BY <2>1, <2>2
<1>32. Users'
  <2>1. \A j \in 1..Depth' : j > b => stack'[j].op # "connect"
    BY <1>27
  <2>. QED
    BY <1>1, <1>20, <1>21, <1>23, <1>26, <1>31, <2>1, UsersKept
<1>33. Told'
  <2>1. \A k \in 1..Len(xs) : xs[k].e \notin News /\ xs[k].e # "answer"
    BY <1>18 DEF News
  <2>. QED
    BY <1>1, <1>19, <1>20, <1>21, <1>22, <1>23, <1>25, <2>1, ToldKept
<1>34. Settled'
  <2>1. \A i \in 1..Depth' : i > b => (IsCall(i) => stack[i].st # "apply" \/ stack[i].ok)'
    BY <1>27
  <2>2. stack'[c].st # "apply"
    BY <1>11, <1>13, <1>16
  <2>. QED
    BY <1>1, <1>2, <1>21, <1>23, <1>26, <2>1, <2>2, SettledKept
<1>35. (Dark' => Dark) /\ (Lit' => Lit)
  <2>1. Dark' => Dark
    BY <1>1, <1>19, <1>22, <1>29, SteadyDark
  <2>. QED
    BY <1>20, <2>1 DEF Lit
<1>36. \A k \in 1..Len(xs) : xs[k].e # "reply"
  BY <1>18
<1>37. HasList(c)' => AnswerTo(x, Lists)
  BY <1>6, <1>8, <1>13, <1>16 DEF HasList, AnswerTo
<1>38. ASSUME NEW d \in Devs, Gone(d) PROVE Gone(d)'
  <2>1. devices'[d] # "on"
    BY <1>20, <1>38 DEF Gone
  <2>2. ~AnswerTo(x, Lists)
    BY <1>2, <1>3, <1>4, <1>38 DEF Gone
  <2>3. stack'[c].op # "add"
    BY <1>9, <1>13, <1>16 DEF Calls
  <2>4. \A j \in 1..Depth' : (j > b \/ j = c) =>
          ~HasList(j)' /\ ~(stack'[j].op = "add" /\ stack'[j].dev = d)
    BY <1>27, <1>37, <2>2, <2>3
  <2>. QED
    BY <1>1, <1>19, <1>21, <1>23, <1>25, <1>26, <1>36, <1>38, <2>1, <2>4, GoneKept
<1>39. ASSUME NEW j \in 1..Len(queue), j # 1
       PROVE  \E k \in 1..Len(queue') : queue'[k] = queue[j]
  <2>1. PICK k \in 1..Rest(1) : Before(1, k) = j
    BY <1>1, <1>19, <1>39, BeforeIs
  <2>2. k \in 1..Len(queue') /\ queue'[k] = queue[j]
    BY <1>1, <1>19, <2>1, BeforeIs
  <2>. QED
    BY <2>2
<1>40. ASSUME NEW d \in Devs, Unchanged(d, 0)' PROVE Unchanged(d, 0)
  <2>1. ASSUME NEW j \in 1..Len(queue) PROVE ~NewsOf(d, queue[j])
    <3>1. CASE j = 1
      BY <1>29, <3>1 DEF NewsOf
    <3>2. CASE j # 1
      <4>1. PICK k \in 1..Len(queue') : queue'[k] = queue[j]
        BY <1>39, <3>2
      <4>2. 0 < k
        OBVIOUS
      <4>. QED
        BY <1>40, <4>1, <4>2 DEF Unchanged, NewsOf
    <3>. QED
      BY <3>1, <3>2
  <2>. QED
    BY <2>1 DEF Unchanged
<1>41. \A i \in 1..Depth : /\ stack'[i].op = stack[i].op /\ (IsCall(i)' <=> IsCall(i))
                           /\ stack[i].op = "add" => stack'[i].dev = stack[i].dev
  <2>1. ASSUME NEW i \in 1..Depth PROVE Like(stack[i], stack'[i])
    BY <1>23 DEF Under
  <2>. QED
    BY <1>16, <2>1 DEF Like, IsCall, Calls
<1>42. \A d : Adding(d)' <=> Adding(d)
  BY <1>16, <1>41 DEF Adding
<1>43. ASSUME NEW k \in 1..Len(queue'), queue'[k].e = "reply"
       PROVE  \E j \in 1..Len(queue) : queue'[k] = queue[j]
  <2>1. k \in 1..Rest(1) \/ \E m \in 1..Len(xs) : queue'[k] = xs[m]
    BY <1>1, <1>19, BeforeIs
  <2>2. k \in 1..Rest(1) => Before(1, k) \in 1..Len(queue) /\ queue'[k] = queue[Before(1, k)]
    BY <1>1, <1>19, BeforeIs
  <2>. QED
    BY <1>36, <1>43, <2>1, <2>2
<1>44. ASSUME NEW j \in 1..Len(queue), queue[j].e = "reply", NEW v, v = queue[j], NEW ops
       PROVE  AnswerTo(v, ops)' <=> AnswerTo(v, ops)
  <2>1. queue[j].e \in Replies
    BY <1>44 DEF Replies
  <2>2. v.at \in 1..Depth
    BY <1>1, <1>44, <2>1 DEF Addressed, ForCall, IsCall
  <2>. QED
    BY <1>41, <2>2 DEF AnswerTo
<1>45. ASSUME NEW d \in Devs, Agrees(d) PROVE Agrees(d)'
  <2>1. AnswerTo(x, Lists) => (d \in x.ids <=> d \in known)
    BY <1>2, <1>3, <1>4, <1>45 DEF Agrees
  <2>2. ASSUME NEW i \in 1..Depth', HasList(i)' PROVE d \in stack'[i].ids <=> d \in known'
    <3>1. CASE i = c
      BY <1>13, <1>16, <1>20, <1>37, <2>1, <2>2, <3>1
    <3>2. CASE i # c
      <4>1. stack'[i] = stack[i] /\ HasList(i)
        BY <1>16, <2>2, <3>2 DEF HasList, IsCall
      <4>. QED
        BY <1>16, <1>20, <1>45, <4>1 DEF Agrees
    <3>. QED
      BY <3>1, <3>2
  <2>3. ASSUME NEW k \in 1..Len(queue'), queue'[k].e = "reply", AnswerTo(queue[k], Lists)'
        PROVE  d \in queue'[k].ids <=> d \in known'
    <3>1. PICK j \in 1..Len(queue) : queue'[k] = queue[j]
      BY <1>43, <2>3
    <3>2. PICK v : v = queue[j]
      OBVIOUS
    <3>3. AnswerTo(v, Lists)'
      BY <2>3, <3>1, <3>2 DEF AnswerTo
    <3>4. queue[j].e = "reply"
      BY <2>3, <3>1
    <3>5. AnswerTo(v, Lists)
      BY <1>44, <3>2, <3>3, <3>4
    <3>6. AnswerTo(queue[j], Lists)
      BY <3>2, <3>5 DEF AnswerTo
    <3>. QED
      BY <1>20, <1>45, <3>1, <3>4, <3>6 DEF Agrees
  <2>4. Drops(d) => Drops(d)'
    <3>1. ASSUME NEW i \in 1..Depth, HasList(i), stack[i].op = "reload", d \notin stack[i].ids
          PROVE  Drops(d)'
      <4>1. i # c
        BY <1>8, <1>9, <3>1 DEF HasList
      <4>2. stack'[i] = stack[i] /\ HasList(i)'
        BY <1>16, <3>1, <4>1 DEF HasList, IsCall
      <4>. QED
        BY <1>16, <3>1, <4>2 DEF Drops
    <3>2. ASSUME NEW j \in 1..Len(queue), queue[j].e = "reply",
                 AnswerTo(queue[j], {"reload"}), d \notin queue[j].ids
          PROVE  Drops(d)'
      <4>1. CASE j = 1
        <5>1. f.op = "reload" /\ x.ok /\ d \notin x.ids
          BY <1>3, <1>6, <1>8, <3>2, <4>1 DEF AnswerTo
        <5>2. HasList(c)'
          BY <1>9, <1>13, <1>16, <5>1 DEF HasList, IsCall, Lists
        <5>. QED
          BY <1>9, <1>13, <1>16, <5>1, <5>2 DEF Drops
      <4>2. CASE j # 1
        <5>1. PICK k \in 1..Len(queue') : queue'[k] = queue[j]
          BY <1>39, <4>2
        <5>2. PICK v : v = queue[j]
          OBVIOUS
        <5>3. AnswerTo(v, {"reload"})
          BY <3>2, <5>2 DEF AnswerTo
        <5>4. AnswerTo(v, {"reload"})'
          BY <1>44, <3>2, <5>2, <5>3
        <5>5. /\ queue'[k].e = "reply" /\ AnswerTo(queue[k], {"reload"})'
              /\ d \notin queue'[k].ids
          BY <3>2, <5>1, <5>2, <5>4 DEF AnswerTo
        <5>. QED
          BY <5>5 DEF Drops
      <4>. QED
        BY <4>1, <4>2
    <3>. QED
      BY <3>1, <3>2 DEF Drops
  <2>5. ASSUME NEW i \in 1..Depth, Brings(i, d), d \in known PROVE i \in 1..Depth' /\ Brings(i, d)'
    <3>1. CASE i = c
      <4>1. f.op \in Lists
        BY <1>8, <2>5, <3>1 DEF Brings, Lists
      <4>2. ~g.ok \/ d \in g.ids
        BY <1>6, <1>8, <1>13, <2>1, <2>5, <4>1 DEF AnswerTo
      <4>3. IsCall(c)' /\ stack'[c].st # "apply"
        BY <1>9, <1>11, <1>13, <1>16 DEF IsCall
      <4>. QED
        BY <1>8, <1>13, <1>16, <1>20, <2>5, <3>1, <4>2, <4>3 DEF Brings
    <3>2. CASE i # c
      BY <1>16, <1>20, <2>5, <3>2 DEF Brings, IsCall
    <3>. QED
      BY <3>1, <3>2
  <2>6. Adding(d)' => d \in known'
    BY <1>20, <1>42, <1>45 DEF Agrees
  <2>7. devices'[d] = "on" => d \in known' \/ Drops(d)'
    BY <1>20, <1>45, <2>4 DEF Agrees
  <2>8. Ready' /\ ~history'.crossed /\ d \in known' =>
          devices'[d] = "on" \/ Adding(d)' \/ \E i \in 1..Depth' : Brings(i, d)'
    BY <1>20, <1>42, <1>45, <2>5 DEF Agrees, Ready
  <2>. QED
    BY <2>2, <2>3, <2>6, <2>7, <2>8 DEF Agrees
<1>46. ASSUME NEW d \in Devs PROVE Follows(d)'
  <2>1. Follows(d)
    BY <1>1, <1>46 DEF Followed
  <2>. QED
    BY <1>20, <1>35, <1>38, <1>40, <1>45, <2>1 DEF Follows
<1>. QED
  BY <1>30, <1>32, <1>33, <1>34, <1>46 DEF Inv, Followed
-----------------------------------------------------------------------------
(***************************************************************************)
(* The connection.                                                         *)
(***************************************************************************)
(* The socket reports: what it says of itself is in order. *)
LEMMA LinkStepKept ==
  ASSUME Inv, NEW l \in Links, l = sock, NEW st \in {"up", "lost"},
         link' = [link EXCEPT ![l].st = st],
         NEW xs \in Seq(Event), queue' = queue \o xs, \A k \in 1..Len(xs) : xs[k].e \in OfLink,
         UNCHANGED <<known, stack, Client>>,
         st = "up" => ~link[l].auth, Connected', Ordered'
  PROVE  Inv'
<1>1. /\ Basics /\ Users /\ Told /\ Settled /\ Followed
      /\ Typed /\ Addressed /\ Framed /\ Connected /\ Ordered /\ Answered
  BY DEF Inv, Basics
<1>2. /\ known' = known /\ stack' = stack /\ sock' = sock /\ ready' = ready /\ authed' = authed
      /\ devices' = devices /\ history' = history
  BY DEF Client
<1>3. /\ link' \in [Links -> [st : {"free", "new", "up", "lost"}, auth : BOOLEAN]]
      /\ link'[l].st = st
      /\ \A m \in Links : link'[m].auth = link[m].auth
  <2>1. link \in [Links -> [st : {"free", "new", "up", "lost"}, auth : BOOLEAN]]
    BY <1>1 DEF Typed
  <2>2. PICK v : v = [link[l] EXCEPT !.st = st]
    OBVIOUS
  <2>3. link[l] \in [st : {"free", "new", "up", "lost"}, auth : BOOLEAN]
    BY <2>1
  <2>4. /\ v \in [st : {"free", "new", "up", "lost"}, auth : BOOLEAN]
        /\ v.st = st /\ v.auth = link[l].auth
    BY <2>2, <2>3
  <2>5. link' = [link EXCEPT ![l] = v]
    BY <2>1, <2>2
  <2>. QED
    BY <2>1, <2>4, <2>5
<1>4. Moves(0, xs)
  BY <1>1, PostMoves
<1>5. /\ Depth' = Depth /\ Under(Depth, 0)
      /\ \A j \in 1..Depth' : ~(j > Depth) /\ j # 0
  BY <1>1, <1>2, SameStack
<1>6. Typed'
  BY <1>1, <1>2, <1>3, <1>4, <1>5 DEF Typed, Moves
<1>7. Grows
  BY <1>2, <1>3 DEF Grows
<1>8. \A k \in 1..Len(queue) : Refers(queue[k], Depth, 0)
  BY <1>1, RefersAll
<1>9. Addressed'
  BY <1>1, <1>4, <1>5, <1>6, <1>8, AddressedKept
<1>10. PICK b : b = Depth
  OBVIOUS
<1>11. Framed'
  <2>1. \A j \in 1..Depth' : (j > b \/ j = 0) => (IsCall(j) => FrameFits(stack[j]))'
    BY <1>5, <1>10
  <2>2. ASSUME NEW j \in 1..b, IsCall(j), link[stack[j].link].auth
        PROVE  link'[stack[j].link].auth
    <3>1. stack[j].link \in Links
      BY <1>1, <2>2, PlacesAre, FrameIs DEF IsCall, CallFrames
    <3>. QED
      BY <1>3, <2>2, <3>1
  <2>. QED
    BY <1>1, <1>5, <1>6, <1>10, <2>1, <2>2, FramedKept
<1>12. Answered'
  <2>1. ASSUME NEW k \in 1..Len(xs) PROVE OfServer(xs[k])'
    <3>1. xs[k].e \in OfLink
      BY <2>1
    <3>2. xs[k].e \notin Replies /\ xs[k].e \notin News /\ xs[k].e # "answer"
      BY <3>1 DEF OfLink, Replies, News
    <3>. QED
      BY <3>2 DEF OfServer
  <2>. QED
    BY <1>1, <1>4, <1>5, <1>6, <1>7, <1>8, <2>1, AnsweredGrows
<1>13. Basics'
  BY <1>6, <1>9, <1>11, <1>12 DEF Basics
<1>14. \A j \in 1..Depth : Hopeful(j) => Hopeful(j)'
  <2>1. \A j \in 1..Depth : j # 0
    BY <1>5
  <2>. QED
    BY <1>1, <1>2, <1>4, <1>5, <1>6, <2>1, HopefulKept
<1>15. Users'
  <2>1. \A j \in 1..Depth' : j > b => stack'[j].op # "connect"
    BY <1>5, <1>10
  <2>2. /\ \A m \in Links : link[m].auth => link'[m].auth
        /\ \A m \in Links : ~(link'[m].auth /\ ~link[m].auth)
    BY <1>3
  <2>. QED
    BY <1>1, <1>2, <1>5, <1>6, <1>10, <1>14, <2>1, <2>2, UsersKept
<1>16. ~Lit'
  BY <1>2, <1>3 DEF Lit
<1>17. Told'
  BY <1>16, UnlitKept
<1>18. Settled'
  BY <1>1, <1>2, <1>5, <1>6, SettledSame
<1>19. Dark' => Dark
  <2>1. sock # None
    BY ConstantsAssumption
  <2>. QED
    BY <1>2, <1>3, <2>1 DEF Dark
<1>20. \A k \in 1..Len(xs) : xs[k].e # "reply"
  BY DEF OfLink
<1>21. ASSUME NEW d \in Devs PROVE Follows(d)'
  <2>1. Follows(d)
    BY <1>1, <1>21 DEF Followed
  <2>2. \A j \in 1..Depth' : j > b =>
          ~HasList(j)' /\ ~(stack'[j].op = "add" /\ stack'[j].dev = d)
    BY <1>5, <1>10
  <2>3. \A j \in 1..Depth : ~(j > Depth)
    BY <1>5
  <2>4. Ready' /\ ~history'.crossed => Ready /\ ~history.crossed
    BY <1>2 DEF Ready
  <2>5. \A j \in 1..Depth : IsCall(j) => (d \in stack'[j].left <=> d \in stack[j].left)
    BY <1>2
  <2>. QED
    BY <1>1, <1>2, <1>4, <1>5, <1>6, <1>8, <1>10, <1>16, <1>19, <1>20,
       <2>1, <2>2, <2>3, <2>4, <2>5, FollowsKept
<1>. QED
  BY <1>13, <1>15, <1>17, <1>18, <1>21 DEF Inv, Followed

LEMMA EncryptedKept ==
  ASSUME Inv, NEW l \in Links, Encrypted(l)
  PROVE  Inv'
<1>1. Typed /\ Connected /\ Ordered
  BY DEF Inv, Basics
<1>2. /\ link[l].st = "new" /\ link' = [link EXCEPT ![l].st = "up"]
      /\ Post(<<[e |-> "up", link |-> l]>>) /\ UNCHANGED <<known, stack, Client>>
  BY DEF Encrypted
<1>3. l = sock /\ sock \in Links /\ sock # None
  BY <1>1, <1>2, UpIs
<1>4. sock' = sock /\ ready' = ready /\ stack' = stack /\ ~ready /\ ~link[sock].auth /\ Parted
  BY <1>1, <1>2, <1>3 DEF Client, Connected
<1>5. PICK x : x = [e |-> "up", link |-> l]
  OBVIOUS
<1>6. x \in Event /\ x.e = "up" /\ x.link = l /\ x.e \in OfLink
  BY <1>5 DEF Event, OfLink
<1>7. PICK xs : xs = <<x>>
  OBVIOUS
<1>8. xs \in Seq(Event) /\ Len(xs) = 1 /\ \A k \in 1..Len(xs) : xs[k] = x
  BY <1>6, <1>7, OneIs
<1>9. queue' = queue \o xs /\ Moves(0, xs)
  BY <1>1, <1>2, <1>5, <1>7, <1>8, PostMoves DEF Post
<1>10. /\ link'[l].st = "up" /\ link'[l].auth = link[l].auth
       /\ \A m \in Links : m # l => link'[m] = link[m]
  BY <1>1, <1>2 DEF Typed
<1>11. Depth' = Depth
  BY <1>1, <1>4, SameStack
<1>12. Connected'
  <2>1. Parted'
    BY <1>4, <1>11 DEF Parted, IsCall
  <2>2. \A m \in Links \ {sock'} : link'[m].st \in {"free", "lost"}
    BY <1>1, <1>3, <1>4, <1>10 DEF Connected
  <2>. QED
    BY <1>3, <1>4, <1>10, <2>1, <2>2 DEF Connected
<1>13. \A k \in 1..Len(queue) : queue[k].e \notin OfLink
  BY <1>1, <1>2, <1>3 DEF Ordered, OfSocket
<1>14. Ordered'
  <2>1. ASSUME NEW k \in 1..Len(queue')
        PROVE  queue'[k] = x \/ queue'[k].e \notin OfLink
    <3>1. k \in 1..Rest(0) \/ \E m \in 1..Len(xs) : queue'[k] = xs[m]
      BY <1>1, <1>9, BeforeIs
    <3>2. k \in 1..Rest(0) => Before(0, k) \in 1..Len(queue) /\ queue'[k] = queue[Before(0, k)]
      BY <1>1, <1>9, BeforeIs
    <3>. QED
      BY <1>8, <1>13, <3>1, <3>2
  <2>2. ASSUME NEW k \in 1..Len(queue'), queue'[k].e \in OfLink PROVE OfSocket(queue[k])'
    <3>1. queue'[k] = x
      BY <2>1, <2>2
    <3>. QED
      BY <1>3, <1>4, <1>6, <1>10, <3>1 DEF OfSocket
  <2>3. ASSUME NEW j \in 1..Len(queue'), NEW k \in 1..Len(queue'), j < k
        PROVE  InTurn(queue[j], queue[k])'
    <3>1. CASE queue'[j].e \notin OfLink
      BY <3>1 DEF InTurn, OfLink
    <3>2. CASE queue'[j] = x /\ queue'[k].e \notin OfLink
      BY <1>6, <3>2 DEF InTurn
    <3>3. CASE queue'[j] = x /\ queue'[k].e \in OfLink
      <4>1. Len(queue) \in Nat /\ Rest(0) = Len(queue) /\ Len(queue') = Len(queue) + 1
        BY <1>1, <1>8, <1>9, PlacesAre DEF Moves, Rest
      <4>2. \A i \in 1..Len(queue) : queue'[i] = queue[i]
        BY <1>9, <4>1 DEF Moves, Before
      <4>3. j \in 1..Len(queue)
        BY <2>3, <4>1
      <4>. QED
        BY <1>6, <1>13, <3>3, <4>2, <4>3
    <3>. QED
      BY <2>1, <3>1, <3>2, <3>3
  <2>. QED
    BY <2>2, <2>3 DEF Ordered
<1>15. \A k \in 1..Len(xs) : xs[k].e \in OfLink
  BY <1>6, <1>8
<1>. QED
  BY <1>2, <1>3, <1>4, <1>8, <1>9, <1>12, <1>14, <1>15, LinkStepKept
LEMMA TwoIs ==
  ASSUME NEW x \in Event, NEW y \in Event
  PROVE  /\ <<x>> \o <<y>> \in Seq(Event) /\ Len(<<x>> \o <<y>>) = 2
         /\ (<<x>> \o <<y>>)[1] = x /\ (<<x>> \o <<y>>)[2] = y
OBVIOUS

LEMMA LinkLostKept ==
  ASSUME Inv, NEW l \in Links, LinkLost(l)
  PROVE  Inv'
<1>1. Typed /\ Connected /\ Ordered
  BY DEF Inv, Basics
<1>2. PICK x : x = [e |-> "error", link |-> l]
  OBVIOUS
<1>3. PICK y : y = [e |-> "gone", link |-> l]
  OBVIOUS
<1>4. /\ x \in Event /\ x.e = "error" /\ x.link = l /\ y \in Event /\ y.e = "gone" /\ y.link = l
  BY <1>2, <1>3 DEF Event
<1>5. /\ link[l].st \in {"new", "up"} /\ link' = [link EXCEPT ![l].st = "lost"]
      /\ UNCHANGED <<known, stack, Client>>
      /\ \/ link[l].st = "new" /\ Post(<<x>>)
         \/ link[l].st = "up" /\ (Post(<<y>>) \/ Post(<<x>> \o <<y>>))
  BY <1>2, <1>3 DEF LinkLost
<1>6. l = sock /\ sock \in Links /\ sock # None
  BY <1>1, <1>5, UpIs
<1>7. sock' = sock /\ ready' = ready /\ stack' = stack
  BY <1>5 DEF Client
<1>8. \E xs \in Seq(Event) :
        /\ queue' = queue \o xs
        /\ \A k \in 1..Len(xs) : xs[k] = x \/ xs[k] = y
        /\ \A j, k \in 1..Len(xs) : j < k => xs[j] = x /\ xs[k] = y
        /\ \E k \in 1..Len(xs) : xs[k] = y \/ (xs[k] = x /\ link[l].st = "new")
  <2>1. CASE link[l].st = "new" /\ Post(<<x>>)
    <3>1. PICK xs : xs = <<x>>
      OBVIOUS
    <3>2. xs \in Seq(Event) /\ Len(xs) = 1 /\ xs[1] = x
      BY <1>4, <3>1, OneIs
    <3>3. \A k \in 1..Len(xs) : k = 1
      BY <3>2
    <3>4. 1 \in 1..Len(xs)
      BY <3>2
    <3>5. \A j, k \in 1..Len(xs) : ~(j < k)
      BY <3>2
    <3>. QED
      BY <2>1, <3>1, <3>2, <3>3, <3>4, <3>5 DEF Post
  <2>2. CASE Post(<<y>>)
    <3>1. PICK xs : xs = <<y>>
      OBVIOUS
    <3>2. xs \in Seq(Event) /\ Len(xs) = 1 /\ xs[1] = y
      BY <1>4, <3>1, OneIs
    <3>3. \A k \in 1..Len(xs) : k = 1
      BY <3>2
    <3>4. 1 \in 1..Len(xs)
      BY <3>2
    <3>5. \A j, k \in 1..Len(xs) : ~(j < k)
      BY <3>2
    <3>. QED
      BY <2>2, <3>1, <3>2, <3>3, <3>4, <3>5 DEF Post
  <2>3. CASE Post(<<x>> \o <<y>>)
    <3>1. PICK xs : xs = <<x>> \o <<y>>
      OBVIOUS
    <3>2. xs \in Seq(Event) /\ Len(xs) = 2 /\ xs[1] = x /\ xs[2] = y
      BY <1>4, <3>1, TwoIs
    <3>3. \A k \in 1..Len(xs) : k = 1 \/ k = 2
      BY <3>2
    <3>4. 2 \in 1..Len(xs)
      BY <3>2
    <3>5. \A j, k \in 1..Len(xs) : j < k => j = 1 /\ k = 2
      BY <3>2
    <3>. QED
      BY <2>3, <3>1, <3>2, <3>3, <3>4, <3>5 DEF Post
  <2>. QED
    BY <1>5, <2>1, <2>2, <2>3
<1>9. PICK xs \in Seq(Event) :
        /\ queue' = queue \o xs
        /\ \A k \in 1..Len(xs) : xs[k] = x \/ xs[k] = y
        /\ \A j, k \in 1..Len(xs) : j < k => xs[j] = x /\ xs[k] = y
        /\ \E k \in 1..Len(xs) : xs[k] = y \/ (xs[k] = x /\ link[l].st = "new")
  BY <1>8
<1>10. Moves(0, xs)
  BY <1>1, <1>9, PostMoves
<1>11. /\ link'[l].st = "lost" /\ link'[l].auth = link[l].auth
       /\ \A m \in Links : m # l => link'[m] = link[m]
  BY <1>1, <1>5 DEF Typed
<1>12. Depth' = Depth
  BY <1>1, <1>7, SameStack
<1>13. /\ Rest(0) = Len(queue) /\ Len(queue) \in Nat /\ Len(xs) \in Nat
       /\ Len(queue') = Len(queue) + Len(xs)
       /\ \A k \in 1..Len(queue) : queue'[k] = queue[k]
       /\ \A k \in 1..Len(xs) : queue'[Len(queue) + k] = xs[k]
       /\ \A k \in 1..Len(queue') :
            k \in 1..Len(queue) \/ \E m \in 1..Len(xs) : k = Len(queue) + m
  <2>1. Rest(0) = Len(queue) /\ Len(queue) \in Nat
    BY <1>1, PlacesAre DEF Rest
  <2>2. /\ \A k \in 1..Len(queue) : queue'[k] = queue[k]
        /\ \A k \in 1..Len(xs) : queue'[Len(queue) + k] = xs[k]
        /\ Len(queue') = Len(queue) + Len(xs)
    BY <1>10, <2>1 DEF Moves, Before
  <2>3. /\ Len(xs) \in Nat
        /\ \A k \in 1..Len(queue') :
             k \in 1..Len(queue) \/ \E m \in 1..Len(xs) : k = Len(queue) + m
    <3>1. Len(xs) \in Nat
      BY <1>1, <1>10, BeforeIs
    <3>2. \A k \in 1..Len(queue') :
            k \in 1..Rest(0) \/ \E m \in 1..Len(xs) : k = Rest(0) + m
      BY <1>1, <1>10, BeforeIs
    <3>. QED
      BY <2>1, <3>1, <3>2
  <2>. QED
    BY <2>1, <2>2, <2>3
<1>14. Connected'
  <2>1. ~ready => Parted'
    BY <1>1, <1>6, <1>7, <1>12 DEF Connected, Parted, IsCall
  <2>2. \A m \in Links \ {sock'} : link'[m].st \in {"free", "lost"}
    BY <1>1, <1>6, <1>7, <1>11 DEF Connected
  <2>3. \E k \in 1..Len(queue') :
          queue'[k].e = "gone" \/ (queue'[k].e = "error" /\ ~link'[sock].auth)
    <3>1. PICK m \in 1..Len(xs) : xs[m] = y \/ (xs[m] = x /\ link[l].st = "new")
      BY <1>9
    <3>2. PICK k : k = Len(queue) + m
      OBVIOUS
    <3>3. k \in 1..Len(queue') /\ queue'[k] = xs[m]
      BY <1>13, <3>2
    <3>4. link[l].st = "new" => ~link[l].auth
      BY <1>1, <1>6 DEF Connected
    <3>. QED
      BY <1>4, <1>6, <1>11, <3>1, <3>3, <3>4
  <2>4. ~ready => ~link[sock].auth
    BY <1>1, <1>6 DEF Connected
  <2>. QED
    BY <1>6, <1>7, <1>11, <2>1, <2>2, <2>3, <2>4 DEF Connected
<1>15. ASSUME NEW k \in 1..Len(queue), queue[k].e \in OfLink
       PROVE  queue[k].e = "up" /\ queue[k].link = sock /\ ~ready
  BY <1>1, <1>5, <1>6, <1>15 DEF Ordered, OfSocket, OfLink
<1>16. Ordered'
  <2>1. ASSUME NEW k \in 1..Len(queue'), queue'[k].e \in OfLink PROVE OfSocket(queue[k])'
    <3>1. CASE k \in 1..Len(queue)
      BY <1>6, <1>7, <1>11, <1>13, <1>15, <2>1, <3>1 DEF OfSocket
    <3>2. CASE k \notin 1..Len(queue)
      <4>1. queue'[k] = x \/ queue'[k] = y
        BY <1>9, <1>13, <3>2
      <4>. QED
        BY <1>4, <1>6, <1>7, <1>11, <4>1 DEF OfSocket
    <3>. QED
      BY <3>1, <3>2
  <2>2. ASSUME NEW j \in 1..Len(queue'), NEW k \in 1..Len(queue'), j < k
        PROVE  InTurn(queue[j], queue[k])'
    <3>1. CASE k \in 1..Len(queue)
      <4>1. j \in 1..Len(queue)
        BY <1>13, <2>2, <3>1
      <4>2. InTurn(queue[j], queue[k])
        BY <1>1, <2>2, <3>1, <4>1 DEF Ordered
      <4>. QED
        BY <1>13, <3>1, <4>1, <4>2 DEF InTurn
    <3>2. CASE j \in 1..Len(queue) /\ k \notin 1..Len(queue)
      <4>1. queue'[k] = x \/ queue'[k] = y
        BY <1>9, <1>13, <3>2
      <4>2. queue'[j].e \in OfLink => queue'[j].e = "up"
        BY <1>13, <1>15, <3>2
      <4>. QED
        BY <1>4, <4>1, <4>2 DEF InTurn, OfLink, News
    <3>3. CASE j \notin 1..Len(queue) /\ k \notin 1..Len(queue)
      <4>1. PICK m \in 1..Len(xs) : j = Len(queue) + m
        BY <1>13, <3>3
      <4>2. PICK n \in 1..Len(xs) : k = Len(queue) + n
        BY <1>13, <3>3
      <4>3. m < n
        BY <1>13, <2>2, <4>1, <4>2
      <4>4. queue'[j] = x /\ queue'[k] = y
        BY <1>9, <1>13, <4>1, <4>2, <4>3
      <4>. QED
        BY <1>4, <4>4 DEF InTurn, News
    <3>. QED
      BY <1>13, <2>2, <3>1, <3>2, <3>3
  <2>. QED
    BY <2>1, <2>2 DEF Ordered
<1>17. \A k \in 1..Len(xs) : xs[k].e \in OfLink
  BY <1>4, <1>9 DEF OfLink
<1>. QED
  BY <1>5, <1>6, <1>9, <1>14, <1>16, <1>17, LinkStepKept
LEMMA NoneIs ==
  ASSUME Typed
  PROVE  <<>> \in Seq(Event) /\ Len(<<>>) = 0 /\ queue \o <<>> = queue
<1>1. queue \in Seq(Event)
  BY DEF Typed
<1>. QED
  BY <1>1

LEMMA InTurnKept ==
  ASSUME Typed, Ordered, NEW p, NEW xs, Moves(p, xs), Len(xs) <= 1,
         \A k \in 1..Len(xs) : xs[k].e \notin OfLink /\ xs[k].e \notin {"answer"} \cup News
  PROVE  \A j, k \in 1..Len(queue') : j < k => InTurn(queue[j], queue[k])'
<1>. SUFFICES ASSUME NEW j \in 1..Len(queue'), NEW k \in 1..Len(queue'), j < k
              PROVE  InTurn(queue[j], queue[k])'
  OBVIOUS
<1>1. CASE j \notin 1..Rest(p)
  <2>1. PICK i \in 1..Len(xs) : queue'[j] = xs[i]
    BY <1>1, BeforeIs
  <2>. QED
    BY <2>1 DEF InTurn, OfLink
<1>2. CASE k \notin 1..Rest(p)
  <2>1. PICK i \in 1..Len(xs) : queue'[k] = xs[i]
    BY <1>2, BeforeIs
  <2>. QED
    BY <2>1 DEF InTurn
<1>3. CASE j \in 1..Rest(p) /\ k \in 1..Rest(p)
  <2>1. PICK m : m = Before(p, j)
    OBVIOUS
  <2>2. PICK n : n = Before(p, k)
    OBVIOUS
  <2>3. m \in 1..Len(queue) /\ n \in 1..Len(queue) /\ queue'[j] = queue[m] /\ queue'[k] = queue[n]
    BY <1>3, <2>1, <2>2, BeforeIs
  <2>4. m < n
    BY <1>3, <2>1, <2>2, BeforeIs
  <2>5. InTurn(queue[m], queue[n])
    BY <2>3, <2>4 DEF Ordered
  <2>. QED
    BY <2>3, <2>5 DEF InTurn
<1>. QED
  BY <1>1, <1>2, <1>3

LEMMA StartConnectNetKept ==
  ASSUME Inv, NEW l \in Links, StartConnectNet(l)
  PROVE  Inv'
<1>1. /\ Basics /\ Users /\ Told /\ Settled /\ Followed
      /\ Typed /\ Addressed /\ Framed /\ Connected /\ Ordered /\ Answered
  BY DEF Inv, Basics
<1>2. /\ known' = known /\ ready' = ready /\ authed' = authed /\ devices' = devices
      /\ stack' = stack /\ queue' = queue /\ history' = history /\ sock = None /\ sock' = l
      /\ link' = [link EXCEPT ![l] = [st |-> "new", auth |-> FALSE]]
  BY DEF StartConnectNet
<1>3. /\ Depth \in Nat /\ DOMAIN stack = 1..Depth /\ Len(queue) \in Nat
      /\ DOMAIN queue = 1..Len(queue)
      /\ \A i \in 1..Depth : stack[i] \in Frame
  BY <1>1, PlacesAre
<1>4. /\ link' \in [Links -> [st : {"free", "new", "up", "lost"}, auth : BOOLEAN]]
      /\ link'[l].st = "new" /\ ~link'[l].auth
      /\ \A m \in Links : m # l => link'[m] = link[m]
  BY <1>1, <1>2 DEF Typed
<1>5. PICK xs : xs = <<>>
  OBVIOUS
<1>6. xs \in Seq(Event) /\ Len(xs) = 0 /\ queue' = queue \o xs
  BY <1>1, <1>2, <1>5, NoneIs
<1>7. Moves(0, xs)
  BY <1>1, <1>6, PostMoves
<1>8. /\ Depth' = Depth /\ Under(Depth, 0)
      /\ \A j \in 1..Depth' : ~(j > Depth) /\ j # 0
  BY <1>1, <1>2, SameStack
<1>9. Typed'
  BY <1>1, <1>2, <1>4, <1>7, <1>8 DEF Typed, Moves
<1>10. l # None
  BY ConstantsAssumption
<1>11. ~ready
  BY <1>1, <1>2 DEF Connected
<1>12. \A k \in 1..Len(queue) : queue[k].e \notin OfLink
  <2>1. \A k \in 1..Len(queue) : queue[k] \in ToSet(queue)
    BY <1>3 DEF ToSet
  <2>. QED
    BY <2>1 DEF StartConnectNet, OfLink
<1>13. \A i \in 1..Depth : IsCall(i) => stack[i].link # l /\ stack[i].link \in Links
  BY <1>3, FrameIs DEF StartConnectNet, IsCall, CallFrames
<1>14. \A k \in 1..Len(queue) : Refers(queue[k], Depth, 0)
  BY <1>1, RefersAll
<1>15. \A k \in 1..Len(xs) : FALSE
  BY <1>6
<1>16. Addressed'
  BY <1>1, <1>7, <1>8, <1>9, <1>14, <1>15, AddressedKept
<1>17. PICK b : b = Depth
  OBVIOUS
<1>18. Framed'
  <2>1. \A j \in 1..Depth' : (j > b \/ j = 0) => (IsCall(j) => FrameFits(stack[j]))'
    BY <1>8, <1>17
  <2>2. \A j \in 1..b : IsCall(j) /\ link[stack[j].link].auth => link'[stack[j].link].auth
    BY <1>4, <1>13, <1>17
  <2>. QED
    BY <1>1, <1>8, <1>9, <1>17, <2>1, <2>2, FramedKept
<1>19. Connected'
  <2>1. \A m \in Links \ {sock'} : link'[m].st \in {"free", "lost"}
    <3>1. \A m \in Links : m # None
      BY ConstantsAssumption
    <3>. QED
      BY <1>1, <1>2, <1>4, <3>1 DEF Connected
  <2>2. Parted'
    BY <1>2, <1>8, <1>13 DEF Parted, IsCall
  <2>. QED
    BY <1>2, <1>4, <1>10, <1>11, <2>1, <2>2 DEF Connected
<1>20. Ordered'
  BY <1>2, <1>12 DEF Ordered, InTurn, OfLink
<1>21. Answered'
  <2>. SUFFICES ASSUME NEW k \in 1..Len(queue') PROVE OfServer(queue[k])'
    BY DEF Answered
  <2>1. k \in 1..Len(queue) /\ queue'[k] = queue[k]
    BY <1>2
  <2>2. OfServer(queue[k])
    BY <1>1, <2>1 DEF Answered
  <2>3. queue[k].e \notin {"answer"} \cup News
    BY <1>11, <2>2 DEF OfServer
  <2>4. ASSUME queue[k].e \in Replies
        PROVE  link'[stack'[queue[k].at].link].auth = link[stack[queue[k].at].link].auth
    <3>1. IsCall(queue[k].at)
      BY <1>1, <2>1, <2>4 DEF Addressed, ForCall
    <3>2. PICK i : i = queue[k].at
      OBVIOUS
    <3>3. i \in 1..Depth /\ stack[i].link # l /\ stack[i].link \in Links
      BY <1>13, <3>1, <3>2 DEF IsCall
    <3>. QED
      BY <1>2, <1>4, <3>2, <3>3
  <2>. QED
    BY <2>1, <2>2, <2>3, <2>4 DEF OfServer
<1>22. Basics'
  BY <1>9, <1>16, <1>18, <1>19, <1>20, <1>21 DEF Basics
<1>23. Users'
  BY <1>2, <1>11, UnreadyKept
<1>24. ~Lit'
  BY <1>2, <1>4 DEF Lit
<1>25. Told'
  BY <1>24, UnlitKept
<1>26. Settled'
  BY <1>1, <1>2, <1>8, <1>9, SettledSame
<1>27. Dark
  BY <1>2, <1>12 DEF Dark, OfLink
<1>28. ASSUME NEW d \in Devs PROVE Follows(d)'
  <2>1. Follows(d)
    BY <1>1, <1>28 DEF Followed
  <2>2. \A j \in 1..Depth' : j > b =>
          ~HasList(j)' /\ ~(stack'[j].op = "add" /\ stack'[j].dev = d)
    BY <1>8, <1>17
  <2>3. \A j \in 1..Depth : ~(j > Depth)
    BY <1>8
  <2>4. Ready' /\ ~history'.crossed => Ready /\ ~history.crossed
    BY <1>2 DEF Ready
  <2>5. \A j \in 1..Depth : IsCall(j) => (d \in stack'[j].left <=> d \in stack[j].left)
    BY <1>2
  <2>. QED
    BY <1>1, <1>2, <1>7, <1>8, <1>9, <1>14, <1>15, <1>17, <1>24, <1>27,
       <2>1, <2>2, <2>3, <2>4, <2>5, FollowsKept
<1>. QED
  BY <1>22, <1>23, <1>25, <1>26, <1>28 DEF Inv, Followed

LEMMA OnNetSocketConnectedKept ==
  ASSUME Inv, OnNetSocketConnected
  PROVE  Inv'
<1>1. /\ Basics /\ Users /\ Told /\ Settled /\ Followed
      /\ Typed /\ Addressed /\ Framed /\ Connected /\ Ordered /\ Answered
  BY DEF Inv, Basics
<1>2. /\ InLoop /\ queue # <<>> /\ 1 \in 1..Len(queue)
      /\ Head(queue) = queue[1] /\ queue[1].e = "up"
  BY <1>1, HandlesIs DEF OnNetSocketConnected
<1>3. /\ link' = link /\ known' = known /\ sock' = sock /\ ready' /\ ready' = TRUE
      /\ authed' = FALSE /\ devices' = devices
      /\ history' = [history EXCEPT !.crossed = FALSE, !.late = FALSE]
      /\ Depth < MaxFrames
  BY DEF OnNetSocketConnected
<1>4. OfSocket(queue[1]) /\ queue[1].e \in OfLink
  BY <1>1, <1>2 DEF Ordered, OfLink
<1>5. sock \in Links /\ sock # None /\ queue[1].link = sock /\ link[sock].st # "new" /\ ~ready
  BY <1>1, <1>2, <1>4 DEF OfSocket, Typed
<1>6. ~link[sock].auth /\ link[sock].st # "free"
  BY <1>1, <1>5 DEF Connected
<1>7. PICK f : f = Call("connect", sock)
  OBVIOUS
<1>8. /\ f \in Frame /\ f.op = "connect" /\ f.link = sock /\ f.st = "sent"
      /\ ~f.answered /\ ~f.ok /\ f.ids = {} /\ f.left = {}
  <2>1. "connect" \in Calls
    BY DEF Calls
  <2>. QED
    BY <1>5, <1>7, <2>1, CallIs
<1>9. /\ stack' \in Seq(Frame) /\ Depth' = Depth + 1 /\ Depth' <= MaxFrames
      /\ stack'[Depth + 1] = f
      /\ \A i \in 1..Depth : stack'[i] = stack[i]
  <2>1. stack' = Append(stack, f)
    BY <1>2, <1>5, <1>7 DEF OnNetSocketConnected
  <2>. QED
    BY <1>1, <1>3, <1>8, <2>1, AppendIs
<1>10. PICK xs : xs = <<>>
  OBVIOUS
<1>11. xs \in Seq(Event) /\ Len(xs) = 0 /\ Len(xs) <= 1 /\ \A k \in 1..Len(xs) : FALSE
  BY <1>10
<1>12. Moves(1, xs)
  BY <1>1, <1>2, <1>10, <1>11, ThenMoves DEF OnNetSocketConnected
<1>13. Depth \in Nat
  BY <1>1, PlacesAre
<1>14. /\ history' \in [crossed : BOOLEAN, late : BOOLEAN, stale : SUBSET Devs]
       /\ ~history'.crossed /\ ~history'.late /\ history'.stale = history.stale
  BY <1>1, <1>3 DEF Typed
<1>15. Typed'
  BY <1>1, <1>3, <1>9, <1>12, <1>14 DEF Typed, Moves
<1>16. PICK b : b = Depth
  OBVIOUS
<1>17. /\ b \in 0..Depth /\ b <= Depth' /\ \A i \in 1..b : stack'[i] = stack[i]
  BY <1>9, <1>13, <1>16
<1>18. Under(b, 0)
  BY <1>1, <1>15, <1>17, UnderSame
<1>19. \A i \in 1..Depth' : (i > b => stack'[i] = f) /\ i # 0
  <2>1. ASSUME NEW i \in 1..Depth', i > b PROVE i = Depth + 1
    BY <1>9, <1>13, <1>16, <2>1
  <2>2. \A i \in 1..Depth' : i # 0
    OBVIOUS
  <2>. QED
    BY <1>9, <2>1, <2>2
<1>20. \A k \in 1..Len(queue) : Refers(queue[k], b, 0)
  BY <1>1, <1>16, RefersAll
<1>21. Addressed'
  BY <1>1, <1>11, <1>12, <1>15, <1>18, <1>20, AddressedKept
<1>22. ASSUME NEW i \in 1..Depth', i > b
       PROVE  FrameFits(stack[i])' /\ stack'[i].st # "apply"
  <2>1. stack'[i] = f
    BY <1>19, <1>22
  <2>. QED
    BY <1>8, <2>1 DEF FrameFits
<1>23. Framed'
  BY <1>1, <1>3, <1>15, <1>18, <1>19, <1>22, FramedKept
<1>24. \A j \in 1..Len(queue) : j # 1 => j > 1
  BY <1>1, PlacesAre
<1>25. ASSUME NEW k \in 1..Len(queue'), queue'[k].e \in OfLink
       PROVE  queue'[k].e # "up" /\ OfSocket(queue[k])'
  <2>1. k \in 1..Rest(1)
    BY <1>1, <1>11, <1>12, BeforeIs
  <2>2. PICK j \in 1..Len(queue) : j # 1 /\ queue'[k] = queue[j]
    <3>1. /\ Before(1, k) \in 1..Len(queue) /\ Before(1, k) # 1
          /\ queue'[k] = queue[Before(1, k)]
      BY <1>1, <1>12, <2>1, BeforeIs
    <3>. QED
      BY <3>1
  <2>3. InTurn(queue[1], queue[j])
    BY <1>1, <1>2, <1>24, <2>2 DEF Ordered
  <2>4. queue[j].e # "up"
    BY <1>2, <1>4, <1>25, <2>2, <2>3 DEF InTurn
  <2>5. OfSocket(queue[j])
    BY <1>1, <1>25, <2>2 DEF Ordered
  <2>. QED
    BY <1>3, <1>5, <2>2, <2>4, <2>5 DEF OfSocket
<1>26. Connected'
  <2>1. ASSUME link[sock].st = "lost"
        PROVE  \E k \in 1..Len(queue') :
                 queue'[k].e = "gone" \/ (queue'[k].e = "error" /\ ~link'[sock].auth)
    <3>1. PICK j \in 1..Len(queue) :
            queue[j].e = "gone" \/ (queue[j].e = "error" /\ ~link[sock].auth)
      BY <1>1, <1>5, <2>1 DEF Connected
    <3>2. j # 1
      BY <1>2, <3>1
    <3>3. PICK k \in 1..Rest(1) : Before(1, k) = j
      BY <1>1, <1>12, <3>2, BeforeIs
    <3>4. k \in 1..Len(queue') /\ queue'[k] = queue[j]
      BY <1>1, <1>12, <3>3, BeforeIs
    <3>. QED
      BY <1>3, <3>1, <3>4
  <2>. QED
    BY <1>1, <1>3, <1>5, <1>6, <2>1 DEF Connected
<1>27. Ordered'
  <2>1. \A j, k \in 1..Len(queue') : j < k => InTurn(queue[j], queue[k])'
    BY <1>1, <1>11, <1>12, InTurnKept
  <2>. QED
    BY <1>25, <2>1 DEF Ordered
<1>28. Answered'
  <2>1. Grows
    BY <1>3 DEF Grows
  <2>. QED
    BY <1>1, <1>11, <1>12, <1>15, <1>18, <1>20, <2>1, AnsweredGrows
<1>29. Basics'
  BY <1>15, <1>21, <1>23, <1>26, <1>27, <1>28 DEF Basics
<1>30. Users'
  BY <1>3, <1>6 DEF Users, ReadyIsAuthenticated, Ready
<1>31. ~Lit'
  BY <1>3, <1>6 DEF Lit
<1>32. Told'
  BY <1>31, UnlitKept
<1>33. Settled'
  BY <1>1, <1>2, <1>15, <1>18, <1>19, <1>22, SettledKept
<1>34. Dark' => Dark
  BY <1>3, <1>5 DEF Dark
<1>35. ASSUME NEW d \in Devs PROVE Follows(d)'
  <2>1. Follows(d)
    BY <1>1, <1>35 DEF Followed
  <2>2. \A j \in 1..Depth' : j > b =>
          ~HasList(j)' /\ ~(stack'[j].op = "add" /\ stack'[j].dev = d)
    BY <1>8, <1>19 DEF HasList
  <2>3. \A j \in 1..Depth : ~(j > b)
    BY <1>13, <1>16
  <2>4. ~Ready'
    BY <1>3 DEF Ready
  <2>5. \A j \in 1..b : IsCall(j) => (d \in stack'[j].left <=> d \in stack[j].left)
    BY <1>17
  <2>6. ~NewsOf(d, queue[1]) /\ queue[1].e # "reply"
    BY <1>2 DEF NewsOf, News
  <2>. QED
    BY <1>1, <1>3, <1>11, <1>12, <1>14, <1>15, <1>18, <1>20, <1>31, <1>34,
       <2>1, <2>2, <2>3, <2>4, <2>5, <2>6, FollowsKept
<1>. QED
  BY <1>29, <1>30, <1>32, <1>33, <1>35 DEF Inv, Followed
LEMMA IdentifyEndsIs ==
  ASSUME Typed, NEW ds, stack' = IdentifyEnds(ds)
  PROVE  /\ stack' \in Seq(Frame) /\ Depth' = Depth /\ Depth' <= MaxFrames
         /\ Under(Depth, 0)
         /\ \A i \in 1..Depth : /\ stack'[i].op = stack[i].op
                                /\ stack[i].op # "identify" => stack'[i] = stack[i]
         /\ \A j \in 1..Depth' : ~(j > Depth) /\ j # 0
<1>1. /\ Depth \in Nat /\ Depth <= MaxFrames /\ DOMAIN stack = 1..Depth
      /\ \A i \in 1..Depth : stack[i] \in Frame
  BY PlacesAre
<1>2. stack' = [i \in 1..Depth |->
                  IF stack[i].op = "identify" /\ stack[i].dev \in ds
                    THEN [stack[i] EXCEPT !.st = "done"] ELSE stack[i]]
  BY <1>1 DEF IdentifyEnds
<1>3. ASSUME NEW i \in 1..Depth
      PROVE  /\ stack'[i] \in Frame
             /\ Like(stack[i], stack'[i]) /\ SameResult(stack[i], stack'[i])
             /\ stack[i].op # "identify" => stack'[i] = stack[i]
  <2>1. CASE stack[i].op = "identify" /\ stack[i].dev \in ds
    <3>1. stack[i].op \notin Calls
      BY <2>1 DEF Calls
    <3>2. stack'[i] = [stack[i] EXCEPT !.st = "done"]
      BY <1>2, <2>1
    <3>. QED
      BY <1>1, <2>1, <3>1, <3>2, DoneIs
  <2>2. CASE ~(stack[i].op = "identify" /\ stack[i].dev \in ds)
    BY <1>1, <1>2, <2>2, LikeIs
  <2>. QED
    BY <2>1, <2>2
<1>4. stack' \in [1..Depth -> Frame]
  BY <1>2, <1>3
<1>5. stack' \in Seq(Frame) /\ Depth' = Depth
  BY <1>4, MapIs
<1>6. Under(Depth, 0)
  BY <1>1, <1>3, <1>5 DEF Under
<1>7. \A j \in 1..Depth' : ~(j > Depth) /\ j # 0
  BY <1>1, <1>5
<1>8. \A i \in 1..Depth : stack'[i].op = stack[i].op
  BY <1>3 DEF Like
<1>. QED
  BY <1>1, <1>3, <1>5, <1>6, <1>7, <1>8

(* The connection is given up. *)
LEMMA ClosedBasics ==
  ASSUME Basics, Typed', Closed, link' = link, 1 \in 1..Len(queue),
         queue[1].e \in {"error", "gone"}, NEW xs, Moves(1, xs), Len(xs) <= 1,
         \A k \in 1..Len(xs) : Placed(1, xs, k) /\ xs[k].e \in Tellings,
         Depth' = Depth, Under(Depth, 0)
  PROVE  /\ Basics' /\ Users'
         /\ sock # None => link[sock].st = "lost"
         /\ \A k \in 1..Len(queue') :
              /\ queue'[k].e = "gone" => queue[1].e = "error"
              /\ queue'[k].e \in OfLink => queue'[k].e = "gone"
<1>1. Typed /\ Addressed /\ Framed /\ Connected /\ Ordered /\ Answered
  BY DEF Basics
<1>2. sock' = None /\ ~ready' /\ ready' = FALSE
  BY DEF Closed
<1>3. \A k \in 1..Len(queue) : Refers(queue[k], Depth, 0)
  BY <1>1, RefersAll
<1>4. Addressed'
  BY <1>1, <1>3, AddressedKept
<1>5. PICK b : b = Depth
  OBVIOUS
<1>6. \A j \in 1..Depth' : ~(j > b) /\ j # 0
  BY <1>1, <1>5, PlacesAre
<1>7. Framed'
  BY <1>1, <1>5, <1>6, FramedKept
<1>8. OfSocket(queue[1]) /\ queue[1].e \in OfLink
  BY <1>1 DEF Ordered, OfLink
<1>9. sock # None => link[sock].st = "lost"
  BY <1>8 DEF OfSocket
<1>10. Connected'
  <2>1. \A l \in Links : link[l].st \in {"free", "lost"}
    BY <1>1, <1>9, ConstantsAssumption DEF Connected
  <2>. QED
    BY <1>2, <2>1 DEF Connected
<1>11. \A j \in 1..Len(queue) : j # 1 => j > 1
  BY <1>1, PlacesAre
<1>12. \A k \in 1..Len(xs) : xs[k].e \notin OfLink /\ xs[k].e \notin {"answer"} \cup News
  BY OwnAre
<1>13. ASSUME NEW k \in 1..Len(queue')
       PROVE  /\ queue'[k].e = "gone" => queue[1].e = "error"
              /\ queue'[k].e \in OfLink => queue'[k].e = "gone"
              /\ queue'[k].e \notin {"answer"} \cup News
  <2>1. CASE k \in 1..Rest(1)
    <3>1. PICK j \in 1..Len(queue) : j # 1 /\ queue'[k] = queue[j]
      <4>1. /\ Before(1, k) \in 1..Len(queue) /\ Before(1, k) # 1
            /\ queue'[k] = queue[Before(1, k)]
        BY <1>1, <2>1, BeforeIs
      <4>. QED
        BY <4>1
    <3>2. InTurn(queue[1], queue[j])
      BY <1>1, <1>11, <3>1 DEF Ordered
    <3>3. queue[1].e # "up"
      OBVIOUS
    <3>. QED
      BY <1>8, <3>1, <3>2, <3>3 DEF InTurn, OfLink
  <2>2. CASE k \notin 1..Rest(1)
    <3>1. PICK i \in 1..Len(xs) : queue'[k] = xs[i]
      BY <1>1, <2>2, BeforeIs
    <3>2. "gone" \in OfLink
      BY DEF OfLink
    <3>. QED
      BY <1>12, <3>1, <3>2
  <2>. QED
    BY <2>1, <2>2
<1>14. Ordered'
  <2>1. \A j, k \in 1..Len(queue') : j < k => InTurn(queue[j], queue[k])'
    BY <1>1, <1>12, InTurnKept
  <2>. QED
    BY <1>2, <1>13, <2>1 DEF Ordered, OfSocket
<1>15. Answered'
  <2>. SUFFICES ASSUME NEW k \in 1..Len(queue') PROVE OfServer(queue[k])'
    BY DEF Answered
  <2>1. queue'[k].e \notin {"answer"} \cup News
    BY <1>13
  <2>2. ASSUME queue'[k].e \in Replies, queue'[k].ok
        PROVE  link'[stack'[queue'[k].at].link].auth
    <3>1. PICK j \in 1..Len(queue) : queue'[k] = queue[j]
      <4>1. k \in 1..Rest(1) \/ \E i \in 1..Len(xs) : queue'[k] = xs[i]
        BY <1>1, BeforeIs
      <4>2. \A i \in 1..Len(xs) : xs[i].e \notin Replies
        BY OwnAre
      <4>3. k \in 1..Rest(1) => Before(1, k) \in 1..Len(queue) /\ queue'[k] = queue[Before(1, k)]
        BY <1>1, BeforeIs
      <4>. QED
        BY <2>2, <4>1, <4>2, <4>3
    <3>2. PICK i : i = queue[j].at
      OBVIOUS
    <3>3. /\ i \in 1..Depth /\ stack[i].op \in Calls /\ link[stack[i].link].auth
      BY <1>1, <2>2, <3>1, <3>2 DEF Addressed, ForCall, IsCall, Answered, OfServer
    <3>4. stack'[i].link = stack[i].link
      BY <3>3 DEF Under, Like
    <3>. QED
      BY <3>1, <3>2, <3>3, <3>4
  <2>. QED
    BY <2>1, <2>2 DEF OfServer
<1>16. Users'
  BY <1>2, UnreadyKept
<1>. QED
  BY <1>4, <1>7, <1>9, <1>10, <1>13, <1>14, <1>15, <1>16 DEF Basics

LEMMA OnConnectionErrorKept ==
  ASSUME Inv, OnConnectionError
  PROVE  Inv'
<1>1. /\ Basics /\ Users /\ Told /\ Settled /\ Followed
      /\ Typed /\ Addressed /\ Framed /\ Connected /\ Ordered /\ Answered
  BY DEF Inv, Basics
<1>2. /\ InLoop /\ queue # <<>> /\ 1 \in 1..Len(queue)
      /\ Head(queue) = queue[1] /\ queue[1].e = "error"
  BY <1>1, HandlesIs DEF OnConnectionError
<1>3. /\ link' = link /\ known' = known /\ stack' = stack /\ devices' = devices
      /\ history' = history /\ Closed /\ sock' = None /\ ready' = FALSE /\ authed' = FALSE
  BY DEF OnConnectionError, Closed
<1>4. PICK xs : xs = <<>>
  OBVIOUS
<1>5. xs \in Seq(Event) /\ Len(xs) <= 1 /\ \A k \in 1..Len(xs) : FALSE
  BY <1>4
<1>6. Moves(1, xs)
  BY <1>1, <1>2, <1>4, <1>5, ThenMoves DEF OnConnectionError
<1>7. /\ Depth' = Depth /\ Under(Depth, 0)
      /\ \A j \in 1..Depth' : ~(j > Depth) /\ j # 0
  BY <1>1, <1>3, SameStack
<1>8. Typed'
  BY <1>1, <1>3, <1>6, <1>7 DEF Typed, Moves
<1>9. Basics' /\ Users'
  BY <1>1, <1>2, <1>3, <1>5, <1>6, <1>7, <1>8, ClosedBasics
<1>10. ~Lit'
  BY <1>3 DEF Lit
<1>11. Told'
  BY <1>10, UnlitKept
<1>12. PICK b : b = Depth
  OBVIOUS
<1>13. \A j \in 1..Depth' : ~(j > b) /\ j # 0
  BY <1>7, <1>12
<1>14. Settled'
  BY <1>1, <1>2, <1>7, <1>8, <1>12, <1>13, SettledKept
<1>15. ASSUME Dark' PROVE Dark
  <2>1. OfSocket(queue[1]) /\ queue[1].e # "gone"
    BY <1>1, <1>2 DEF Ordered, OfLink
  <2>2. sock # None /\ link[sock].st = "lost"
    BY <1>2, <2>1 DEF OfSocket
  <2>3. ASSUME NEW j \in 1..Len(queue), queue[j].e = "gone" PROVE FALSE
    <3>1. j # 1
      BY <2>1, <2>3
    <3>2. PICK k \in 1..Rest(1) : Before(1, k) = j
      BY <1>1, <1>6, <3>1, BeforeIs
    <3>3. k \in 1..Len(queue') /\ queue'[k] = queue[j]
      BY <1>1, <1>6, <3>2, BeforeIs
    <3>. QED
      BY <1>3, <1>15, <2>3, <3>3 DEF Dark
  <2>4. ~link[sock].auth
    BY <1>1, <2>2, <2>3 DEF Connected
  <2>. QED
    BY <2>2, <2>4 DEF Dark
<1>16. \A k \in 1..Len(queue) : Refers(queue[k], Depth, 0)
  BY <1>1, RefersAll
<1>17. ASSUME NEW d \in Devs PROVE Follows(d)'
  <2>1. Follows(d)
    BY <1>1, <1>17 DEF Followed
  <2>2. \A j \in 1..Depth' : j > b =>
          ~HasList(j)' /\ ~(stack'[j].op = "add" /\ stack'[j].dev = d)
    BY <1>13
  <2>3. \A j \in 1..Depth : ~(j > Depth)
    BY <1>7
  <2>4. ~Ready'
    BY <1>3 DEF Ready
  <2>5. \A j \in 1..Depth : IsCall(j) => (d \in stack'[j].left <=> d \in stack[j].left)
    BY <1>3
  <2>6. ~NewsOf(d, queue[1]) /\ queue[1].e # "reply"
    BY <1>2 DEF NewsOf, News
  <2>. QED
    BY <1>1, <1>3, <1>5, <1>6, <1>7, <1>8, <1>10, <1>12, <1>15, <1>16,
       <2>1, <2>2, <2>3, <2>4, <2>5, <2>6, FollowsKept
<1>. QED
  BY <1>9, <1>11, <1>14, <1>17 DEF Inv, Followed

LEMMA OnDevDisconnectedKept ==
  ASSUME Inv, OnDevDisconnected
  PROVE  Inv'
<1>1. /\ Basics /\ Users /\ Told /\ Settled /\ Followed
      /\ Typed /\ Addressed /\ Framed /\ Connected /\ Ordered /\ Answered
  BY DEF Inv, Basics
<1>2. /\ InLoop /\ queue # <<>> /\ 1 \in 1..Len(queue)
      /\ Head(queue) = queue[1] /\ queue[1].e = "gone"
  BY <1>1, HandlesIs DEF OnDevDisconnected
<1>3. /\ link' = link /\ known' = known /\ devices' = AllLost
      /\ Closed /\ sock' = None /\ ready' = FALSE /\ authed' = FALSE
      /\ history' = [history EXCEPT !.stale = {d \in Devs : Results # {} \/ Adding(d)}]
      /\ stack' = IdentifyEnds({d \in Devs : devices[d] = "on"})
  BY DEF OnDevDisconnected, Closed
<1>4. /\ stack' \in Seq(Frame) /\ Depth' = Depth /\ Depth' <= MaxFrames
      /\ Under(Depth, 0)
      /\ \A i \in 1..Depth : /\ stack'[i].op = stack[i].op
                             /\ stack[i].op # "identify" => stack'[i] = stack[i]
      /\ \A j \in 1..Depth' : ~(j > Depth) /\ j # 0
  BY <1>1, <1>3, IdentifyEndsIs
<1>5. /\ Depth \in Nat /\ Depth <= MaxFrames /\ DOMAIN stack = 1..Depth /\ MaxFrames \in Nat
      /\ \A i \in 1..Depth : stack[i] \in Frame
  BY <1>1, PlacesAre
<1>6. PICK calls : calls = Waiting
  OBVIOUS
<1>7. /\ calls \in SUBSET (1..MaxFrames)
      /\ \A i \in calls : i \in 1..Depth /\ stack[i].op \in Calls /\ stack[i].st = "sent"
  BY <1>5, <1>6 DEF Waiting
<1>8. PICK xs : xs = Tell("stop", calls)
  OBVIOUS
<1>9. /\ xs \in Seq(Event) /\ Len(xs) \in {0, 1}
      /\ \A k \in 1..Len(xs) : xs[k].e = "stop" /\ xs[k].calls = calls
  BY <1>7, <1>8, TellIs DEF Tellings
<1>10. Moves(1, xs)
  BY <1>1, <1>2, <1>6, <1>8, <1>9, ThenMoves DEF OnDevDisconnected
<1>11. /\ history' \in [crossed : BOOLEAN, late : BOOLEAN, stale : SUBSET Devs]
       /\ history'.stale = {d \in Devs : Results # {} \/ Adding(d)}
  <2>1. PICK s : s = {d \in Devs : Results # {} \/ Adding(d)}
    OBVIOUS
  <2>. QED
    BY <1>1, <1>3, <2>1 DEF Typed
<1>12. devices' \in [Devs -> {"none", "on", "off"}] /\ \A d \in Devs : devices'[d] # "on"
  BY <1>1, <1>3 DEF Typed, AllLost
<1>13. Typed'
  BY <1>1, <1>3, <1>4, <1>10, <1>11, <1>12 DEF Typed, Moves
<1>14. \A k \in 1..Len(xs) : Placed(1, xs, k) /\ xs[k].e \in Tellings
  <2>1. \A i \in calls : i \in 1..Depth' /\ stack'[i].op \in Calls /\ stack'[i].st # "apply"
    BY <1>4, <1>7 DEF Calls
  <2>. QED
    BY <1>9, <2>1 DEF Placed, Own, Tellings
<1>15. Len(xs) <= 1
  BY <1>9
<1>16. Basics' /\ Users'
  BY <1>1, <1>2, <1>3, <1>4, <1>10, <1>13, <1>14, <1>15, ClosedBasics
<1>17. ~Lit'
  BY <1>3 DEF Lit
<1>18. Told'
  BY <1>17, UnlitKept
<1>19. PICK b : b = Depth
  OBVIOUS
<1>20. \A j \in 1..Depth' : ~(j > b) /\ j # 0
  BY <1>4, <1>19
<1>21. Settled'
  BY <1>1, <1>2, <1>4, <1>13, <1>19, <1>20, SettledKept
<1>22. ASSUME NEW d \in Devs, Results = {}, ~Adding(d) PROVE Gone(d)'
  <2>1. ASSUME NEW i \in 1..Depth', HasList(i)' PROVE FALSE
    <3>1. i \in 1..Depth /\ HasList(i)
      BY <1>4, <2>1 DEF HasList, IsCall, Calls
    <3>. QED
      BY <1>1, <1>22, <3>1, ResultsAre
  <2>2. ~Adding(d)'
    <3>1. ASSUME NEW i \in 1..Depth', stack'[i].op = "add", stack'[i].dev = d PROVE FALSE
      <4>1. i \in 1..Depth /\ stack[i].op = "add" /\ stack[i].dev = d
        BY <1>4, <3>1
      <4>. QED
        BY <1>22, <4>1 DEF Adding
    <3>. QED
      BY <3>1 DEF Adding
  <2>3. ASSUME NEW k \in 1..Len(queue'), queue'[k].e = "reply", AnswerTo(queue[k], Lists)'
        PROVE  FALSE
    <3>1. PICK j \in 1..Len(queue) : queue'[k] = queue[j]
      <4>1. k \in 1..Rest(1) \/ \E i \in 1..Len(xs) : queue'[k] = xs[i]
        BY <1>1, <1>10, BeforeIs
      <4>2. k \in 1..Rest(1) => Before(1, k) \in 1..Len(queue) /\ queue'[k] = queue[Before(1, k)]
        BY <1>1, <1>10, BeforeIs
      <4>. QED
        BY <1>9, <2>3, <4>1, <4>2
    <3>2. queue[j].e = "reply" /\ queue[j].e \in Replies
      BY <2>3, <3>1 DEF Replies
    <3>3. PICK i : i = queue[j].at
      OBVIOUS
    <3>4. i \in 1..Depth
      BY <1>1, <3>2, <3>3 DEF Addressed, ForCall, IsCall
    <3>5. AnswerTo(queue[j], Lists)
      BY <1>4, <2>3, <3>1, <3>3, <3>4 DEF AnswerTo
    <3>. QED
      BY <1>1, <1>22, <3>2, <3>5, ResultsAre
  <2>. QED
    BY <1>12, <2>1, <2>2, <2>3 DEF Gone
<1>23. ASSUME NEW d \in Devs PROVE Follows(d)'
  BY <1>11, <1>17, <1>22 DEF Follows
<1>. QED
  BY <1>16, <1>18, <1>21, <1>23 DEF Inv, Followed
-----------------------------------------------------------------------------
(***************************************************************************)
(* The end of a wait.                                                      *)
(***************************************************************************)
LEMMA RemainingType ==
  ASSUME Typed
  PROVE  Remaining \in Seq(Event)
<1>1. queue \in Seq(Event) /\ DOMAIN queue = 1..Len(queue) /\ Len(queue) \in Nat
  BY LenProperties DEF Typed
<1>2. CASE ~\E k \in DOMAIN queue : IsLeft(k)
  BY <1>1, <1>2 DEF Remaining
<1>3. CASE \E k \in DOMAIN queue : IsLeft(k)
  <2>1. PICK p : p = CHOOSE k \in DOMAIN queue : IsLeft(k)
    OBVIOUS
  <2>2. p \in 1..Len(queue)
    BY <1>1, <1>3, <2>1
  <2>3. \A i \in 1..Len(queue) : queue[i] \in Event
    BY <1>1, ElementOfSeq
  <2>4. PICK a : a = SubSeq(queue, 1, p - 1)
    OBVIOUS
  <2>5. PICK b : b = SubSeq(queue, p + 1, Len(queue))
    OBVIOUS
  <2>6. a \in Seq(Event)
    <3>1. /\ 1 \in Int /\ p - 1 \in Int /\ (\A i \in 1..(p - 1) : queue[i] \in Event)
          /\ 1 <= (p - 1) + 1
      BY <1>1, <2>2, <2>3
    <3>. QED
      BY <1>1, <2>4, <3>1, SubSeqProperties
  <2>7. b \in Seq(Event)
    <3>1. /\ p + 1 \in Int /\ Len(queue) \in Int
          /\ (\A i \in (p + 1)..Len(queue) : queue[i] \in Event)
          /\ p + 1 <= Len(queue) + 1
      BY <1>1, <2>2, <2>3
    <3>. QED
      BY <1>1, <2>5, <3>1, SubSeqProperties
  <2>8. Remaining = a \o b
    BY <1>1, <1>3, <2>1, <2>4, <2>5 DEF Remaining, RemoveAt
  <2>. QED
    BY <2>6, <2>7, <2>8, ConcatProperties
<1>. QED
  BY <1>2, <1>3

(* The event that goes with the function that waited, if any, is the answer *)
(* that it did not wait for; no other refers to it.                        *)
LEMMA EndsMoves ==
  ASSUME Typed, Addressed, NEW ops, Ends(ops), NEW xs \in Seq(Event), queue' = Remaining \o xs
  PROVE  \E p \in 0..Len(queue) :
           /\ Moves(p, xs)
           /\ p = 0 => Remaining = queue /\ \A k \in 1..Len(queue) : ~IsLeft(k)
           /\ p # 0 => /\ Remaining # queue
                       /\ p \in 1..Len(queue) /\ queue[p].e = "answer" /\ queue[p].at = Depth
                       /\ queue[p].e \notin OfLink /\ queue[p].e \notin News /\ queue[p].e # "reply"
                       /\ Top.op \in Calls /\ Top.answered /\ ~Top.ok
           /\ \A k \in 1..Len(queue) : k # p => Refers(queue[k], Depth - 1, 0)
<1>1. PICK p \in 0..Len(queue) :
        /\ Moves(p, xs)
        /\ p = 0 => Remaining = queue /\ \A k \in 1..Len(queue) : ~IsLeft(k)
        /\ p # 0 => Remaining # queue /\ IsLeft(p)
  BY RemainingMoves
<1>2. Len(queue) \in Nat
  BY PlacesAre
<1>3. ASSUME p # 0
      PROVE  /\ p \in 1..Len(queue) /\ queue[p].e = "answer" /\ queue[p].at = Depth
             /\ queue[p].e \notin OfLink /\ queue[p].e \notin News /\ queue[p].e # "reply"
             /\ Top.op \in Calls /\ Top.answered /\ ~Top.ok
  <2>1. p \in 1..Len(queue) /\ queue[p].e = "answer" /\ queue[p].at = Depth
    BY <1>1, <1>2, <1>3 DEF IsLeft
  <2>2. queue[p].e \in Replies /\ queue[p].e \notin OfLink /\ queue[p].e \notin News /\ queue[p].e # "reply"
    BY <2>1 DEF Replies, OfLink, News
  <2>3. ForCall(queue[p])
    BY <2>1, <2>2 DEF Addressed
  <2>4. Top = stack[Depth]
    BY TopIs DEF Ends
  <2>. QED
    BY <2>1, <2>2, <2>3, <2>4 DEF ForCall, IsCall
<1>4. ASSUME NEW k \in 1..Len(queue), k # p PROVE Refers(queue[k], Depth - 1, 0)
  <2>1. ~IsLeft(k)
    <3>1. CASE p = 0
      BY <1>1, <3>1
    <3>2. CASE p # 0
      <4>1. ASSUME IsLeft(k) PROVE FALSE
        <5>1. /\ queue[k].e \in Replies /\ queue[p].e \in Replies
              /\ queue[k].at = queue[p].at /\ p \in 1..Len(queue)
          BY <1>3, <3>2, <4>1 DEF IsLeft, Replies
        <5>. QED
          BY <1>4, <5>1 DEF Addressed
      <4>. QED
        BY <4>1
    <3>. QED
      BY <3>1, <3>2
  <2>. QED
    BY <1>4, <2>1, RefersDrained DEF Ends
<1>. QED
  BY <1>1, <1>3, <1>4

(* A function returns. *)
LEMMA ReturnIs ==
  ASSUME Typed, stack # <<>>, Replace(<<>>)
  PROVE  /\ Depth \in Nat /\ Depth > 0 /\ Depth' = Depth - 1 /\ Depth' <= MaxFrames
         /\ Top = stack[Depth] /\ Top \in Frame /\ stack' \in Seq(Frame)
         /\ \A i \in 1..Depth' : /\ stack'[i] = stack[i] /\ i \in 1..Depth /\ i # Depth
                                 /\ ~(i > Depth') /\ i # 0
         /\ \A i \in 1..Depth : /\ i > Depth' => i = Depth
                                /\ i # Depth => i \in 1..Depth'
         /\ Under(Depth', 0)
<1>1. PICK fs : fs = <<>>
  OBVIOUS
<1>2. fs \in Seq(Frame) /\ Len(fs) = 0 /\ Len(fs) <= 1 /\ Replace(fs)
  BY <1>1
<1>3. /\ Depth \in Nat /\ Depth > 0 /\ Top = stack[Depth] /\ Top \in Frame
  BY TopIs
<1>4. /\ stack' \in Seq(Frame) /\ Depth' = Depth - 1 + Len(fs) /\ Depth' <= MaxFrames
      /\ \A i \in 1..(Depth - 1) : stack'[i] = stack[i]
  BY <1>2, ReplaceIs
<1>5. Depth' = Depth - 1
  BY <1>2, <1>3, <1>4
<1>6. /\ \A i \in 1..Depth' : i \in 1..Depth /\ i # Depth /\ ~(i > Depth') /\ i # 0
      /\ \A i \in 1..Depth : (i > Depth' => i = Depth) /\ (i # Depth => i \in 1..Depth')
      /\ Depth' \in 0..Depth /\ Depth' <= Depth'
  BY <1>3, <1>5
<1>7. \A i \in 1..Depth' : stack'[i] = stack[i]
  BY <1>4, <1>5
<1>8. Under(Depth', 0)
  BY <1>6, <1>7, LikeIs DEF Under
<1>. QED
  BY <1>3, <1>4, <1>5, <1>6, <1>7, <1>8

LEMMA UnchangedKept ==
  ASSUME Typed, NEW p, NEW xs, Moves(p, xs), NEW d, Unchanged(d, 0)'
  PROVE  /\ \A j \in 1..Len(queue) : j # p => ~NewsOf(d, queue[j])
         /\ p = 0 \/ ~NewsOf(d, queue[p]) => Unchanged(d, 0)
         /\ p = 1 => Unchanged(d, 1)
<1>1. ASSUME NEW j \in 1..Len(queue), j # p PROVE ~NewsOf(d, queue[j])
  <2>1. PICK k \in 1..Rest(p) : Before(p, k) = j
    BY <1>1, BeforeIs
  <2>2. k \in 1..Len(queue') /\ queue'[k] = queue[j] /\ 0 < k
    BY <2>1, BeforeIs
  <2>. QED
    BY <2>2 DEF Unchanged, NewsOf
<1>2. \A j \in 1..Len(queue) : j # 0 /\ ~(1 < 1)
  OBVIOUS
<1>. QED
  BY <1>1, <1>2 DEF Unchanged

(* A list that was not had while the client is ready leaves every device   *)
(* stale.                                                                  *)
LEMMA LoadedKept ==
  ASSUME Inv, Loaded
  PROVE  Inv'
<1>1. /\ Basics /\ Users /\ Told /\ Settled /\ Followed
      /\ Typed /\ Addressed /\ Framed /\ Connected /\ Ordered /\ Answered
  BY DEF Inv, Basics
<1>2. /\ link' = link /\ known' = known /\ sock' = sock /\ ready' = ready /\ authed' = authed
      /\ queue' = queue /\ history' = history /\ Replace(<<>>)
      /\ stack # <<>> /\ Top.st = "apply" /\ Top.op \in Lists /\ Top.op \in Calls /\ Top.left = {}
      /\ devices' = IF Top.op = "reload" THEN Lost(Devs \ Top.ids) ELSE devices
  BY DEF Loaded, Applies, Lists, Calls
<1>3. PICK b : b = Depth'
  OBVIOUS
<1>4. /\ Depth \in Nat /\ Depth > 0 /\ b = Depth - 1 /\ b <= MaxFrames
      /\ Top = stack[Depth] /\ Top \in Frame /\ stack' \in Seq(Frame)
      /\ \A i \in 1..Depth' : /\ stack'[i] = stack[i] /\ i \in 1..Depth /\ i # Depth
                              /\ ~(i > b) /\ i # 0
      /\ \A i \in 1..Depth : /\ i > b => i = Depth
                             /\ i # Depth => i \in 1..Depth'
      /\ Under(b, 0)
  BY <1>1, <1>2, <1>3, ReturnIs
<1>5. PICK xs : xs = <<>>
  OBVIOUS
<1>6. xs \in Seq(Event) /\ Len(xs) <= 1 /\ queue' = queue \o xs /\ \A k \in 1..Len(xs) : FALSE
  BY <1>1, <1>2, <1>5, NoneIs
<1>7. Moves(0, xs)
  BY <1>1, <1>6, PostMoves
<1>8. /\ devices' \in [Devs -> {"none", "on", "off"}]
      /\ \A d \in Devs : /\ devices'[d] = "on" =>
                              devices[d] = "on" /\ (Top.op = "reload" => d \in Top.ids)
                         /\ devices[d] = "none" => devices'[d] = "none"
                         /\ devices[d] = "on" /\ (Top.op = "reload" => d \in Top.ids) =>
                              devices'[d] = "on"
  BY <1>1, <1>2 DEF Typed, Lost
<1>9. Typed'
  BY <1>1, <1>2, <1>3, <1>4, <1>7, <1>8 DEF Typed, Moves
<1>10. Steady
  BY <1>2, SteadyIs
<1>11. \A k \in 1..Len(queue) : Refers(queue[k], b, 0)
  BY <1>1, <1>2, <1>4, RefersApplied
<1>12. Basics'
  BY <1>1, <1>4, <1>6, <1>7, <1>9, <1>10, <1>11, BasicsKept, SMTT(60)
<1>13. ASSUME NEW i \in 1..Depth, Hopeful(i) PROVE Hopeful(i)'
  <2>1. i # Depth
    BY <1>2, <1>4, <1>13 DEF Hopeful, Lists
  <2>2. i \in 1..b /\ i # 0
    BY <1>3, <1>4, <2>1
  <2>. QED
    BY <1>1, <1>2, <1>4, <1>7, <1>9, <1>13, <2>2, HopefulKept
<1>14. Users'
  BY <1>1, <1>2, <1>4, <1>9, <1>13, UsersKept
<1>15. Told'
  BY <1>1, <1>2, <1>4, <1>6, <1>7, <1>9, <1>10, <1>11, ToldKept
<1>16. Settled'
  <2>1. ASSUME NEW i \in 1..Depth', IsCall(i)', stack'[i].st = "apply", ~stack'[i].ok
        PROVE  FALSE
    BY <1>1, <1>4, <2>1 DEF Settled, IsCall
  <2>. QED
    BY <2>1 DEF Settled
<1>17. \A k \in 1..Len(queue) : queue[k].e = "reply" =>
         \A ops : AnswerTo(queue[k], ops)' <=> AnswerTo(queue[k], ops)
  <2>. SUFFICES ASSUME NEW k \in 1..Len(queue), queue[k].e = "reply", NEW ops
                PROVE  AnswerTo(queue[k], ops)' <=> AnswerTo(queue[k], ops)
    OBVIOUS
  <2>1. PICK i : i = queue[k].at
    OBVIOUS
  <2>2. queue[k].e \in Replies
    BY DEF Replies
  <2>3. i \in 1..Depth /\ i <= b
    BY <1>1, <1>11, <2>1, <2>2 DEF Addressed, ForCall, IsCall, Refers
  <2>4. i \in 1..Depth'
    BY <1>3, <1>4, <2>3
  <2>5. stack'[i] = stack[i]
    BY <1>4, <2>4
  <2>. QED
    BY <1>2, <2>1, <2>5 DEF AnswerTo
<1>18. (Dark' <=> Dark) /\ (Lit' <=> Lit) /\ (Ready' <=> Ready) /\ \A d : Unchanged(d, 0)' <=> Unchanged(d, 0)
  BY <1>2 DEF Dark, Lit, Ready, Unchanged, NewsOf
<1>19. \A i \in 1..Depth' : (IsCall(i)' <=> IsCall(i)) /\ (HasList(i)' <=> HasList(i))
  BY <1>4 DEF IsCall, HasList
<1>20. ASSUME NEW d \in Devs, Gone(d) PROVE Gone(d)'
  BY <1>2, <1>4, <1>8, <1>17, <1>19, <1>20 DEF Gone, Adding
<1>21. ASSUME NEW d \in Devs, Agrees(d), Lit, d \notin history.stale PROVE Agrees(d)'
  <2>1. ready
    BY <1>1, <1>21 DEF Lit, Connected
  <2>2. Top.ok
    <3>1. IsCall(Depth)
      BY <1>2, <1>4 DEF IsCall
    <3>. QED
      BY <1>1, <1>2, <1>4, <1>21, <2>1, <3>1 DEF Settled
  <2>3. HasList(Depth)
    BY <1>2, <1>4, <2>2 DEF HasList, IsCall
  <2>4. d \in Top.ids <=> d \in known
    BY <1>4, <1>21, <2>3 DEF Agrees
  <2>5. \A i \in 1..Depth' : HasList(i)' => (d \in stack'[i].ids <=> d \in known')
    BY <1>2, <1>4, <1>19, <1>21 DEF Agrees
  <2>6. ASSUME NEW k \in 1..Len(queue'), queue'[k].e = "reply", AnswerTo(queue[k], Lists)'
        PROVE  d \in queue'[k].ids <=> d \in known'
    BY <1>2, <1>17, <1>21, <2>6 DEF Agrees
  <2>7. Adding(d)' => d \in known'
    BY <1>2, <1>4, <1>21 DEF Agrees, Adding
  <2>8. ASSUME devices'[d] = "on", d \notin known' PROVE Drops(d)'
    <3>1. devices[d] = "on" /\ (Top.op = "reload" => d \in Top.ids)
      BY <1>8, <2>8
    <3>2. Drops(d)
      BY <1>2, <1>21, <2>8, <3>1 DEF Agrees
    <3>3. ASSUME NEW i \in 1..Depth, HasList(i), stack[i].op = "reload", d \notin stack[i].ids
          PROVE  Drops(d)'
      <4>1. i # Depth
        BY <1>4, <3>1, <3>3
      <4>. QED
        BY <1>4, <1>19, <3>3, <4>1 DEF Drops
    <3>4. ASSUME NEW k \in 1..Len(queue), queue[k].e = "reply", AnswerTo(queue[k], {"reload"}),
                 d \notin queue[k].ids
          PROVE  Drops(d)'
      BY <1>2, <1>17, <3>4 DEF Drops
    <3>. QED
      BY <3>2, <3>3, <3>4 DEF Drops
  <2>9. ASSUME Ready', ~history'.crossed, d \in known'
        PROVE  devices'[d] = "on" \/ Adding(d)' \/ \E i \in 1..Depth' : Brings(i, d)'
    <3>1. devices[d] = "on" \/ Adding(d) \/ \E i \in 1..Depth : Brings(i, d)
      BY <1>2, <1>18, <1>21, <2>9 DEF Agrees
    <3>2. CASE devices[d] = "on"
      BY <1>2, <1>8, <2>4, <2>9, <3>2
    <3>3. CASE Adding(d)
      <4>1. PICK i \in 1..Depth : stack[i].op = "add" /\ stack[i].dev = d
        BY <3>3 DEF Adding
      <4>2. i # Depth
        BY <1>2, <1>4, <4>1 DEF Lists
      <4>. QED
        BY <1>4, <4>1, <4>2 DEF Adding
    <3>4. ASSUME NEW i \in 1..Depth, Brings(i, d) PROVE i \in 1..Depth' /\ Brings(i, d)'
      <4>1. i # Depth
        BY <1>2, <1>4, <3>4 DEF Brings
      <4>2. i \in 1..Depth' /\ stack'[i] = stack[i] /\ (IsCall(i)' <=> IsCall(i))
        BY <1>4, <1>19, <4>1
      <4>. QED
        BY <1>8, <3>4, <4>2 DEF Brings
    <3>. QED
      BY <3>1, <3>2, <3>3, <3>4
  <2>. QED
    BY <2>5, <2>6, <2>7, <2>8, <2>9 DEF Agrees
<1>22. ASSUME NEW d \in Devs PROVE Follows(d)'
  <2>1. Follows(d)
    BY <1>1, <1>22 DEF Followed
  <2>. QED
    BY <1>2, <1>18, <1>20, <1>21, <2>1 DEF Follows
<1>. QED
  BY <1>12, <1>14, <1>15, <1>16, <1>22 DEF Inv, Followed

(* The device that was to join the list is connected from now on. *)
LEMMA IdentifiedKept ==
  ASSUME Inv, Identified
  PROVE  Inv'
<1>1. /\ Basics /\ Users /\ Told /\ Settled /\ Followed
      /\ Typed /\ Addressed /\ Framed /\ Connected /\ Ordered /\ Answered
  BY DEF Inv, Basics
<1>2. /\ link' = link /\ known' = known /\ sock' = sock /\ ready' = ready /\ authed' = authed
      /\ history' = history /\ Replace(<<>>)
      /\ Ends({"add", "identify"}) /\ stack # <<>> /\ Top.st = "done"
      /\ Top.op \in {"add", "identify"} /\ Top.op \notin Calls /\ Top.op \notin Lists
      /\ devices' = IF Top.op = "add" THEN [devices EXCEPT ![Top.dev] = "on"] ELSE devices
  BY DEF Identified, Ends, Lists, Calls
<1>3. PICK b : b = Depth'
  OBVIOUS
<1>4. /\ Depth \in Nat /\ Depth > 0 /\ b = Depth - 1 /\ b <= MaxFrames
      /\ Top = stack[Depth] /\ Top \in Frame /\ stack' \in Seq(Frame)
      /\ \A i \in 1..Depth' : /\ stack'[i] = stack[i] /\ i \in 1..Depth /\ i # Depth
                              /\ ~(i > b) /\ i # 0
      /\ \A i \in 1..Depth : /\ i > b => i = Depth
                             /\ i # Depth => i \in 1..Depth'
      /\ Under(b, 0)
  BY <1>1, <1>2, <1>3, ReturnIs
<1>5. PICK xs : xs = <<>>
  OBVIOUS
<1>6. xs \in Seq(Event) /\ Len(xs) <= 1 /\ queue' = Remaining \o xs /\ \A k \in 1..Len(xs) : FALSE
  <2>1. xs \in Seq(Event) /\ Len(xs) <= 1 /\ \A k \in 1..Len(xs) : FALSE
    BY <1>5
  <2>2. Remaining \in Seq(Event)
    BY <1>1, RemainingType
  <2>3. queue' = Remaining
    BY DEF Identified
  <2>. QED
    BY <1>5, <2>1, <2>2, <2>3
<1>7. PICK p \in 0..Len(queue) :
        /\ Moves(p, xs)
        /\ p # 0 => /\ p \in 1..Len(queue) /\ queue[p].at = Depth
                    /\ queue[p].e \notin OfLink /\ queue[p].e \notin News /\ queue[p].e # "reply"
        /\ \A k \in 1..Len(queue) : k # p => Refers(queue[k], Depth - 1, 0)
  BY <1>1, <1>2, <1>6, EndsMoves
<1>8. Top.dev \in Devs
  BY <1>2, <1>4, FrameIs DEF DeviceFrames
<1>9. /\ devices' \in [Devs -> {"none", "on", "off"}]
      /\ \A d \in Devs : /\ Top.op = "add" /\ d = Top.dev => devices'[d] = "on"
                         /\ ~(Top.op = "add" /\ d = Top.dev) => devices'[d] = devices[d]
  BY <1>1, <1>2, <1>8 DEF Typed
<1>10. Typed'
  BY <1>1, <1>2, <1>3, <1>4, <1>7, <1>9 DEF Typed, Moves
<1>11. Steady
  BY <1>2, SteadyIs
<1>12. \A k \in 1..Len(queue) : k # p => Refers(queue[k], b, 0)
  BY <1>4, <1>7
<1>13. Basics'
  <2>1. /\ Under(b, 0)
        /\ \A i \in 1..Depth' : ~(i > b) /\ i # 0
    BY <1>4
  <2>2. /\ Moves(p, xs) /\ Len(xs) <= 1 /\ \A k \in 1..Len(xs) : FALSE
        /\ p # 0 => queue[p].e \notin OfLink
    BY <1>6, <1>7
  <2>. QED
    BY <1>1, <1>10, <1>11, <1>12, <2>1, <2>2, BasicsKept, SMTT(60)
<1>14. ASSUME NEW i \in 1..Depth, Hopeful(i) PROVE Hopeful(i)'
  <2>1. i # Depth
    BY <1>2, <1>4, <1>14 DEF Hopeful, IsCall
  <2>2. i \in 1..b /\ i # 0
    BY <1>3, <1>4, <2>1
  <2>3. p # 0 => ~(queue[p].e \in Replies /\ queue[p].at = i)
    BY <1>7, <2>1
  <2>. QED
    BY <1>1, <1>2, <1>4, <1>7, <1>10, <1>14, <2>2, <2>3, HopefulKept
<1>15. Users'
  BY <1>1, <1>2, <1>4, <1>10, <1>14, UsersKept
<1>16. Told'
  <2>1. p \in {0, 1} \/ queue[p].e \notin News
    BY <1>7
  <2>. QED
    BY <1>1, <1>2, <1>4, <1>6, <1>7, <1>10, <1>11, <1>12, <2>1, ToldKept
<1>17. Settled'
  <2>1. stack # <<>> /\ Top.st # "apply"
    BY <1>2
  <2>. QED
    BY <1>1, <1>4, <1>10, <2>1, SettledKept
<1>18. (Dark' => Dark) /\ (Lit' => Lit)
  <2>1. Dark' => Dark
    BY <1>1, <1>7, <1>11, SteadyDark
  <2>. QED
    BY <1>2, <2>1 DEF Lit
<1>19. \A d : p # 0 => ~NewsOf(d, queue[p])
  BY <1>7 DEF NewsOf
<1>20. ASSUME NEW d \in Devs, Follows(d), ~(Top.op = "add" /\ d = Top.dev)
       PROVE  Follows(d)'
  <2>1. \A i \in 1..Depth : i > b =>
          stack[i].op \notin Lists /\ ~(stack[i].op = "add" /\ stack[i].dev = d)
    BY <1>2, <1>4, <1>20
  <2>2. Ready' /\ ~history'.crossed => Ready /\ ~history.crossed
    BY <1>2 DEF Ready
  <2>3. \A i \in 1..b : IsCall(i) => (d \in stack'[i].left <=> d \in stack[i].left)
    BY <1>3, <1>4
  <2>4. /\ \A k \in 1..Len(xs) : xs[k].e # "reply"
        /\ p # 0 => queue[p].e # "reply" /\ ~NewsOf(d, queue[p])
        /\ devices'[d] = devices[d]
        /\ d \in known' <=> d \in known
        /\ d \notin history'.stale => d \notin history.stale
    BY <1>2, <1>6, <1>7, <1>9, <1>19, <1>20
  <2>5. \A i \in 1..Depth' : i > b =>
          ~HasList(i)' /\ ~(stack'[i].op = "add" /\ stack'[i].dev = d)
    BY <1>4
  <2>6. Moves(p, xs) /\ Under(b, 0)
    BY <1>4, <1>7
  <2>. QED
    BY <1>1, <1>10, <1>12, <1>18, <1>20, <2>1, <2>2, <2>3, <2>4, <2>5, <2>6, FollowsKept
<1>21. ASSUME NEW d \in Devs, Follows(d), Top.op = "add", d = Top.dev PROVE Follows(d)'
  <2>1. Adding(d)
    BY <1>4, <1>21 DEF Adding
  <2>2. d \notin history.stale => ~Dark /\ ~Dark'
    BY <1>18, <1>21, <2>1 DEF Follows, Gone
  <2>3. ASSUME Lit', Unchanged(d, 0)', d \notin history'.stale PROVE Agrees(d)'
    <3>1. Unchanged(d, 0)
      BY <1>1, <1>7, <1>19, <2>3, UnchangedKept
    <3>2. Agrees(d) /\ d \in known
      BY <1>2, <1>18, <1>21, <2>1, <2>3, <3>1 DEF Follows, Agrees
    <3>3. devices'[d] = "on" /\ d \in known'
      BY <1>2, <1>9, <1>21, <3>2
    <3>4. ASSUME NEW i \in 1..Depth', HasList(i)' PROVE d \in stack'[i].ids
      <4>1. HasList(i)
        BY <1>4, <3>4 DEF HasList, IsCall
      <4>. QED
        BY <1>4, <3>2, <4>1 DEF Agrees
    <3>5. ASSUME NEW k \in 1..Len(queue'), queue'[k].e = "reply", AnswerTo(queue[k], Lists)'
          PROVE  d \in queue'[k].ids
      <4>1. k \in 1..Rest(p)
        BY <1>1, <1>6, <1>7, BeforeIs
      <4>2. PICK j : j = Before(p, k)
        OBVIOUS
      <4>3. /\ j \in 1..Len(queue) /\ queue'[k] = queue[j]
            /\ queue[j].e = "reply" => (AnswerTo(queue[k], Lists)' <=> AnswerTo(queue[j], Lists))
        BY <1>1, <1>4, <1>7, <1>10, <1>12, <4>1, <4>2, RepliesKept
      <4>. QED
        BY <3>2, <3>5, <4>3 DEF Agrees
    <3>. QED
      BY <3>3, <3>4, <3>5 DEF Agrees
  <2>. QED
    BY <1>2, <2>2, <2>3 DEF Follows
<1>22. ASSUME NEW d \in Devs PROVE Follows(d)'
  BY <1>1, <1>20, <1>21, <1>22 DEF Followed
<1>. QED
  BY <1>13, <1>15, <1>16, <1>17, <1>22 DEF Inv, Followed

(* The list goes through what it was given. *)
LEMMA ListedKept ==
  ASSUME Inv, Listed
  PROVE  Inv'
<1>1. /\ Basics /\ Users /\ Told /\ Settled /\ Followed
      /\ Typed /\ Addressed /\ Framed /\ Connected /\ Ordered /\ Answered
  BY DEF Inv, Basics
<1>2. /\ link' = link /\ known' = known /\ sock' = sock /\ ready' = ready /\ authed' = authed
      /\ devices' = devices
      /\ Ends({"list", "reload"}) /\ stack # <<>> /\ Top.st = "done" /\ Top.st # "apply"
      /\ Top.op \in Lists /\ Top.op \in Calls
      /\ history' = IF Top.ok \/ ~ready THEN history ELSE [history EXCEPT !.stale = Devs]
  BY DEF Listed, Ends, Lists, Calls, Calling
<1>3. /\ Depth \in Nat /\ Depth > 0 /\ Depth <= MaxFrames /\ Top = stack[Depth] /\ Top \in CallFrames
      /\ IsCall(Depth) /\ Depth \in 1..Depth
  <2>1. /\ Depth \in Nat /\ Depth > 0 /\ Depth <= MaxFrames /\ Top = stack[Depth] /\ Top \in Frame
    BY <1>1, <1>2, TopIs
  <2>2. Depth \in 1..Depth
    BY <2>1
  <2>. QED
    BY <1>2, <2>1, <2>2, FrameIs DEF IsCall
<1>4. PICK g : g = [Top EXCEPT !.st = "apply"]
  OBVIOUS
<1>5. /\ g \in Frame /\ g.op = Top.op /\ g.link = Top.link /\ g.st = "apply"
      /\ g.answered = Top.answered /\ g.ok = Top.ok /\ g.ids = Top.ids /\ g.left = Top.left
  <2>1. g \in CallFrames
    BY <1>3, <1>4 DEF CallFrames
  <2>2. /\ g.op = Top.op /\ g.link = Top.link /\ g.st = "apply"
        /\ g.answered = Top.answered /\ g.ok = Top.ok /\ g.ids = Top.ids /\ g.left = Top.left
    BY <1>3, <1>4 DEF CallFrames
  <2>. QED
    BY <2>1, <2>2, FrameIs
<1>6. PICK fs : fs = <<g>>
  OBVIOUS
<1>7. fs \in Seq(Frame) /\ Len(fs) = 1 /\ Len(fs) <= 1 /\ fs[1] = g
  BY <1>5, <1>6
<1>8. Replace(fs)
  BY <1>4, <1>6 DEF Listed
<1>9. PICK b : b = Depth - 1
  OBVIOUS
<1>10. /\ stack' \in Seq(Frame) /\ Depth' = Depth /\ Depth' <= MaxFrames /\ stack'[Depth] = g
       /\ \A i \in 1..b : stack'[i] = stack[i]
  <2>1. /\ stack' \in Seq(Frame) /\ Depth' = Depth - 1 + Len(fs) /\ Depth' <= MaxFrames
        /\ \A i \in 1..(Depth - 1) : stack'[i] = stack[i]
        /\ stack'[Depth] = fs[1]
    BY <1>1, <1>2, <1>7, <1>8, ReplaceIs
  <2>2. Depth' = Depth
    BY <1>3, <1>7, <2>1
  <2>. QED
    BY <1>7, <1>9, <2>1, <2>2
<1>11. PICK xs : xs = <<>>
  OBVIOUS
<1>12. xs \in Seq(Event) /\ Len(xs) <= 1 /\ queue' = Remaining \o xs /\ \A k \in 1..Len(xs) : FALSE
  <2>1. xs \in Seq(Event) /\ Len(xs) <= 1 /\ \A k \in 1..Len(xs) : FALSE
    BY <1>11
  <2>2. Remaining \in Seq(Event)
    BY <1>1, RemainingType
  <2>3. queue' = Remaining
    BY DEF Listed
  <2>. QED
    BY <1>11, <2>1, <2>2, <2>3
<1>13. PICK p \in 0..Len(queue) :
         /\ Moves(p, xs)
         /\ p # 0 => /\ p \in 1..Len(queue) /\ queue[p].at = Depth
                     /\ queue[p].e \notin OfLink /\ queue[p].e \notin News /\ queue[p].e # "reply"
         /\ \A k \in 1..Len(queue) : k # p => Refers(queue[k], Depth - 1, 0)
  BY <1>1, <1>2, <1>12, EndsMoves
<1>14. \A i \in 1..Depth :
         /\ i # Depth => i \in 1..b
         /\ i \in 1..b <=> ~(i > b)
         /\ i \in 1..b => i # Depth
         /\ stack'[i] = IF i = Depth THEN g ELSE stack[i]
  <2>1. \A i \in 1..Depth : /\ i # Depth => i \in 1..b
                            /\ i \in 1..b <=> ~(i > b)
                            /\ i \in 1..b => i # Depth
    BY <1>3, <1>9
  <2>. QED
    BY <1>10, <2>1
<1>15. b \in 0..Depth /\ b <= Depth' /\ \A i \in 1..b : i \in 1..Depth
  BY <1>3, <1>9, <1>10
<1>16. Under(b, 0)
  BY <1>10, <1>15, LikeIs DEF Under
<1>17. /\ history' \in [crossed : BOOLEAN, late : BOOLEAN, stale : SUBSET Devs]
       /\ history'.crossed = history.crossed /\ history'.late = history.late
       /\ Top.ok \/ ~ready => history'.stale = history.stale
       /\ ~(Top.ok \/ ~ready) => history'.stale = Devs
  BY <1>1, <1>2 DEF Typed
<1>18. Typed'
  BY <1>1, <1>2, <1>10, <1>13, <1>17 DEF Typed, Moves
<1>19. Steady
  BY <1>2, SteadyIs
<1>20. \A k \in 1..Len(queue) : k # p => Refers(queue[k], b, 0)
  BY <1>9, <1>13
<1>21. \A i \in 1..Depth' : i \in 1..Depth /\ i # 0 /\ (i > b => i = Depth)
  BY <1>10, <1>14
<1>22. FrameFits(Top)
  BY <1>1, <1>3 DEF Framed
<1>23. Basics'
  <2>1. FrameFits(g)'
    BY <1>2, <1>5, <1>22 DEF FrameFits
  <2>2. \A i \in 1..Depth' : (i > b \/ i = 0) => (IsCall(i) => FrameFits(stack[i]))'
    BY <1>10, <1>21, <2>1
  <2>3. ready \/ Top.link # sock
    <3>1. Top.link \in Links
      BY <1>3 DEF CallFrames
    <3>2. CASE sock = None
      BY <3>1, <3>2, ConstantsAssumption
    <3>3. CASE sock # None
      BY <1>1, <1>3, <3>3 DEF Connected, Parted
    <3>. QED
      BY <3>2, <3>3
  <2>4. \A i \in 1..Depth' : i > b => (IsCall(i) => ready \/ stack[i].link # sock)'
    BY <1>2, <1>5, <1>10, <1>21, <2>3
  <2>. QED
    BY <1>1, <1>12, <1>13, <1>16, <1>18, <1>19, <1>20, <2>2, <2>4, BasicsKept, SMTT(60)
<1>24. ASSUME NEW i \in 1..Depth, Hopeful(i) PROVE Hopeful(i)'
  <2>1. i # Depth
    BY <1>2, <1>3, <1>24 DEF Hopeful, Lists
  <2>2. i \in 1..b /\ i # 0
    BY <1>14, <2>1
  <2>3. p # 0 => ~(queue[p].e \in Replies /\ queue[p].at = i)
    BY <1>13, <2>1
  <2>. QED
    BY <1>1, <1>2, <1>13, <1>16, <1>18, <1>24, <2>2, <2>3, HopefulKept
<1>25. Users'
  <2>1. \A i \in 1..Depth' : i > b => stack'[i].op # "connect"
    BY <1>2, <1>5, <1>10, <1>21 DEF Lists
  <2>. QED
    BY <1>1, <1>2, <1>16, <1>17, <1>18, <1>24, <2>1, UsersKept
<1>26. Told'
  <2>1. p \in {0, 1} \/ queue[p].e \notin News
    BY <1>13
  <2>. QED
    BY <1>1, <1>2, <1>12, <1>13, <1>16, <1>18, <1>19, <1>20, <2>1, ToldKept
<1>27. Settled'
  <2>1. ASSUME NEW i \in 1..Depth', IsCall(i)', stack'[i].st = "apply", ~stack'[i].ok
        PROVE  i = Depth' /\ (ready' => history'.stale = Devs)
    <3>1. i = Depth
      BY <1>1, <1>2, <1>3, <1>14, <1>21, <2>1 DEF Settled, IsCall
    <3>. QED
      BY <1>2, <1>5, <1>10, <1>17, <2>1, <3>1
  <2>. QED
    BY <2>1 DEF Settled
<1>28. (Dark' => Dark) /\ (Lit' => Lit)
  <2>1. Dark' => Dark
    BY <1>1, <1>13, <1>19, SteadyDark
  <2>. QED
    BY <1>2, <2>1 DEF Lit
<1>29. \A i \in 1..Depth : /\ stack'[i].op = stack[i].op
                           /\ IsCall(i)' <=> IsCall(i)
                           /\ HasList(i)' <=> HasList(i)
                           /\ IsCall(i) => stack'[i].ids = stack[i].ids
                           /\ stack[i].op = "add" => stack'[i] = stack[i]
  <2>1. \A i \in 1..Depth : stack'[i].op = stack[i].op
    BY <1>3, <1>5, <1>14
  <2>2. \A i \in 1..Depth : stack[i].op = "add" => stack'[i] = stack[i]
    BY <1>2, <1>3, <1>14 DEF Lists
  <2>3. \A i \in 1..Depth : IsCall(i)' <=> IsCall(i)
    BY <1>10, <2>1 DEF IsCall
  <2>4. \A i \in 1..Depth : IsCall(i) => stack'[i].ids = stack[i].ids /\ stack'[i].ok = stack[i].ok
    BY <1>3, <1>5, <1>14
  <2>5. \A i \in 1..Depth : HasList(i)' <=> HasList(i)
    BY <2>1, <2>3, <2>4 DEF HasList
  <2>. QED
    BY <2>1, <2>2, <2>3, <2>4, <2>5
<1>30. \A d : Adding(d)' <=> Adding(d)
  BY <1>10, <1>29 DEF Adding
<1>31. ASSUME NEW d \in Devs, Gone(d) PROVE Gone(d)'
  <2>1. \A i \in 1..Depth' : (i > b \/ i = 0) =>
          ~HasList(i)' /\ ~(stack'[i].op = "add" /\ stack'[i].dev = d)
    BY <1>2, <1>3, <1>21, <1>29, <1>31 DEF Gone, Lists
  <2>2. devices'[d] # "on"
    BY <1>2, <1>31 DEF Gone
  <2>. QED
    BY <1>1, <1>12, <1>13, <1>16, <1>18, <1>20, <1>31, <2>1, <2>2, GoneKept
<1>32. ASSUME NEW k \in 1..Len(queue'), NEW ops
       PROVE  \E j \in 1..Len(queue) :
                /\ queue'[k] = queue[j]
                /\ queue[j].e = "reply" => (AnswerTo(queue[k], ops)' <=> AnswerTo(queue[j], ops))
  <2>1. k \in 1..Rest(p)
    BY <1>1, <1>12, <1>13, BeforeIs
  <2>2. PICK j : j = Before(p, k)
    OBVIOUS
  <2>3. /\ j \in 1..Len(queue) /\ queue'[k] = queue[j]
        /\ queue[j].e = "reply" => (AnswerTo(queue[k], ops)' <=> AnswerTo(queue[j], ops))
    BY <1>1, <1>13, <1>16, <1>18, <1>20, <2>1, <2>2, RepliesKept
  <2>. QED
    BY <2>3
<1>33. ASSUME NEW j \in 1..Len(queue), queue[j].e = "reply", NEW ops
       PROVE  \E k \in 1..Len(queue') :
                queue'[k] = queue[j] /\ (AnswerTo(queue[k], ops)' <=> AnswerTo(queue[j], ops))
  <2>1. j # p
    BY <1>13, <1>33
  <2>2. PICK k \in 1..Rest(p) : Before(p, k) = j
    BY <1>1, <1>13, <2>1, BeforeIs
  <2>3. /\ queue'[k] = queue[j]
        /\ queue[j].e = "reply" => (AnswerTo(queue[k], ops)' <=> AnswerTo(queue[j], ops))
    BY <1>1, <1>13, <1>16, <1>18, <1>20, <2>2, RepliesKept
  <2>4. k \in 1..Len(queue')
    BY <1>1, <1>13, <2>2, BeforeIs
  <2>. QED
    BY <1>33, <2>3, <2>4
<1>34. ASSUME NEW d \in Devs, Agrees(d), Lit, d \notin history'.stale PROVE Agrees(d)'
  <2>1. ready
    BY <1>1, <1>34 DEF Lit, Connected
  <2>2. Top.ok
    BY <1>17, <1>34, <2>1
  <2>3. ASSUME NEW i \in 1..Depth', HasList(i)' PROVE d \in stack'[i].ids <=> d \in known'
    BY <1>2, <1>21, <1>29, <1>34, <2>3 DEF Agrees, HasList
  <2>4. ASSUME NEW k \in 1..Len(queue'), queue'[k].e = "reply", AnswerTo(queue[k], Lists)'
        PROVE  d \in queue'[k].ids <=> d \in known'
    <3>1. PICK j \in 1..Len(queue) :
            /\ queue'[k] = queue[j]
            /\ queue[j].e = "reply" => (AnswerTo(queue[k], Lists)' <=> AnswerTo(queue[j], Lists))
      BY <1>32
    <3>. QED
      BY <1>2, <1>34, <2>4, <3>1 DEF Agrees
  <2>5. Adding(d)' => d \in known'
    BY <1>2, <1>30, <1>34 DEF Agrees
  <2>6. ASSUME devices'[d] = "on", d \notin known' PROVE Drops(d)'
    <3>1. Drops(d)
      BY <1>2, <1>34, <2>6 DEF Agrees
    <3>2. ASSUME NEW i \in 1..Depth, HasList(i), stack[i].op = "reload", d \notin stack[i].ids
          PROVE  Drops(d)'
      BY <1>10, <1>29, <3>2 DEF Drops, HasList
    <3>3. ASSUME NEW j \in 1..Len(queue), queue[j].e = "reply", AnswerTo(queue[j], {"reload"}),
                 d \notin queue[j].ids
          PROVE  Drops(d)'
      <4>1. PICK k \in 1..Len(queue') :
              /\ queue'[k] = queue[j]
              /\ AnswerTo(queue[k], {"reload"})' <=> AnswerTo(queue[j], {"reload"})
        BY <1>33, <3>3
      <4>. QED
        BY <3>3, <4>1 DEF Drops
    <3>. QED
      BY <3>1, <3>2, <3>3 DEF Drops
  <2>7. ASSUME NEW i \in 1..Depth, Brings(i, d) PROVE i \in 1..Depth' /\ Brings(i, d)'
    <3>1. CASE i = Depth
      <4>1. d \in Top.left
        BY <1>2, <1>3, <1>22, <2>2, <2>7, <3>1 DEF Brings, FrameFits
      <4>. QED
        BY <1>2, <1>3, <1>5, <1>10, <1>29, <2>7, <3>1, <4>1 DEF Brings
    <3>2. CASE i # Depth
      BY <1>2, <1>10, <1>14, <1>29, <2>7, <3>2 DEF Brings
    <3>. QED
      BY <3>1, <3>2
  <2>8. ASSUME Ready', ~history'.crossed, d \in known'
        PROVE  devices'[d] = "on" \/ Adding(d)' \/ \E i \in 1..Depth' : Brings(i, d)'
    <3>1. Ready /\ ~history.crossed
      BY <1>2, <1>17, <2>8 DEF Ready
    <3>. QED
      BY <1>2, <1>30, <1>34, <2>7, <2>8, <3>1 DEF Agrees
  <2>. QED
    BY <2>3, <2>4, <2>5, <2>6, <2>8 DEF Agrees
<1>35. ASSUME NEW d \in Devs PROVE Follows(d)'
  <2>1. Follows(d)
    BY <1>1, <1>35 DEF Followed
  <2>2. d \notin history'.stale => d \notin history.stale
    BY <1>17
  <2>3. Unchanged(d, 0)' => Unchanged(d, 0)
    BY <1>1, <1>13, UnchangedKept DEF NewsOf
  <2>. QED
    BY <1>28, <1>31, <1>34, <2>1, <2>2, <2>3 DEF Follows
<1>. QED
  BY <1>23, <1>25, <1>26, <1>27, <1>35 DEF Inv, Followed
-----------------------------------------------------------------------------
(***************************************************************************)
(* Notifications.                                                          *)
(***************************************************************************)
(* The list joins a device, or identifies it once more, or is at it. *)
Joins(d, base, q, xs, n) ==
  /\ queue' = q \o xs /\ Len(xs) <= 1
  /\ \A k \in 1..Len(xs) :
       xs[k].e = "info" /\ xs[k].calls = {Len(base) + 1} /\ n = 1
  /\ stack' \in Seq(Frame) /\ Len(stack') = Len(base) + n /\ Len(stack') <= MaxFrames
  /\ \A i \in 1..Len(base) : stack'[i] = base[i]
  /\ n = 1 => /\ stack'[Len(base) + 1].op \in {"add", "identify"}
              /\ stack'[Len(base) + 1].dev = d
              /\ stack'[Len(base) + 1].op = "add" <=> devices[d] = "none"
  /\ devices' \in [Devs -> {"none", "on", "off"}]
  /\ \A e \in Devs : e # d => devices'[e] = devices[e]
  /\ devices'[d] = "on" \/ (n = 1 /\ stack'[Len(base) + 1].op = "add")

LEMMA DeviceIdentifiedIs ==
  ASSUME Typed, NEW d \in Devs, NEW base \in Seq(Frame), Len(base) <= MaxFrames,
         NEW q \in Seq(Event), DeviceIdentified(d, base, q)
  PROVE  \E xs \in Seq(Event), n \in {0, 1} : Joins(d, base, q, xs, n)
<1>1. PICK op : op = IF devices[d] = "none" THEN "add" ELSE "identify"
  OBVIOUS
<1>2. op \in {"add", "identify"} /\ (op = "add" <=> devices[d] = "none")
  BY <1>1
<1>3. devices' = IF op = "add" THEN devices ELSE [devices EXCEPT ![d] = "on"]
  BY <1>1 DEF DeviceIdentified
<1>4. /\ devices' \in [Devs -> {"none", "on", "off"}]
      /\ \A e \in Devs : e # d => devices'[e] = devices[e]
      /\ op # "add" => devices'[d] = "on"
  BY <1>3 DEF Typed
<1>5. Len(base) \in Nat /\ MaxFrames \in Nat
  BY LenProperties, ConstantsAssumption
<1>6. CASE stack' = base /\ queue' = q /\ op = "identify"
  <2>1. PICK xs : xs = <<>>
    OBVIOUS
  <2>2. xs \in Seq(Event) /\ Len(xs) <= 1 /\ queue' = q \o xs /\ \A k \in 1..Len(xs) : FALSE
    BY <1>6, <2>1
  <2>3. Len(stack') = Len(base) + 0
    BY <1>5, <1>6
  <2>4. op # "add"
    BY <1>6
  <2>5. /\ stack' \in Seq(Frame) /\ Len(stack') = Len(base) + 0 /\ Len(stack') <= MaxFrames
        /\ \A i \in 1..Len(base) : stack'[i] = base[i]
    BY <1>5, <1>6, <2>3
  <2>6. devices'[d] = "on" /\ 0 # 1 /\ 0 \in {0, 1}
    BY <1>4, <2>4
  <2>. QED
    BY <1>4, <2>2, <2>5, <2>6 DEF Joins
<1>7. CASE /\ Len(base) < MaxFrames
           /\ stack' = Append(base, [op |-> op, dev |-> d, st |-> "sent"])
           /\ queue' = q \o Tell("info", {Len(base) + 1})
  <2>1. PICK f : f = [op |-> op, dev |-> d, st |-> "sent"]
    OBVIOUS
  <2>2. f \in Frame /\ f.op = op /\ f.dev = d
    BY <1>2, <2>1, FrameIs DEF DeviceFrames
  <2>3. /\ stack' \in Seq(Frame) /\ Len(stack') = Len(base) + 1
        /\ stack'[Len(base) + 1] = f
        /\ \A i \in 1..Len(base) : stack'[i] = base[i]
    BY <1>7, <2>1, <2>2, AppendProperties
  <2>4. Len(base) + 1 \in 1..MaxFrames /\ Len(stack') <= MaxFrames
    BY <1>5, <1>7, <2>3
  <2>5. PICK S : S = {Len(base) + 1}
    OBVIOUS
  <2>6. PICK xs : xs = Tell("info", S)
    OBVIOUS
  <2>7. S \in SUBSET (1..MaxFrames) /\ "info" \in Tellings
    BY <2>4, <2>5 DEF Tellings
  <2>8. /\ xs \in Seq(Event) /\ Len(xs) \in {0, 1}
        /\ \A k \in 1..Len(xs) : xs[k].e = "info" /\ xs[k].calls = S
    BY <2>6, <2>7, TellIs
  <2>9. queue' = q \o xs
    BY <1>7, <2>5, <2>6
  <2>10. Len(xs) <= 1
    BY <2>8
  <2>. QED
    BY <1>2, <1>4, <2>2, <2>3, <2>4, <2>5, <2>8, <2>9, <2>10 DEF Joins
<1>8. \/ stack' = base /\ queue' = q /\ op = "identify"
      \/ /\ Len(base) < MaxFrames
         /\ stack' = Append(base, [op |-> op, dev |-> d, st |-> "sent"])
         /\ queue' = q \o Tell("info", {Len(base) + 1})
  BY <1>1 DEF DeviceIdentified
<1>. QED
  BY <1>6, <1>7, <1>8

(* What the server says is true, and reaches a client with a user.         *)
LEMMA NewsIs ==
  ASSUME Basics, Told, queue # <<>>, 1 \in 1..Len(queue), queue[1].e \in News,
         NEW xs, Moves(1, xs), NEW d, d = queue[1].dev
  PROVE  /\ ~Dark /\ ready /\ sock # None /\ d \in Devs
         /\ Lit /\ Unchanged(d, 0)' => (queue[1].e = "identified" <=> d \in known)
<1>1. Typed /\ Connected /\ Answered
  BY DEF Basics
<1>2. ready /\ link[sock].auth
  BY <1>1 DEF Answered, OfServer
<1>3. sock # None /\ ~Dark
  BY <1>1, <1>2 DEF Connected, Dark
<1>5. d \in Devs
  BY <1>1, PlacesAre, EventIs DEF NewsEvents
<1>6. Unchanged(d, 0)' => Unchanged(d, 1)
  BY <1>1, UnchangedKept
<1>7. NewsOf(d, queue[1])
  BY DEF NewsOf
<1>8. Lit /\ Unchanged(d, 1) => (queue[1].e = "identified" <=> d \in known)
  BY <1>5, <1>7 DEF Told
<1>. QED
  BY <1>2, <1>3, <1>5, <1>6, <1>8

LEMMA NotifiedIs ==
  ASSUME Typed, NEW d \in Devs, NEW on \in BOOLEAN, Notified(d, on)
  PROVE  /\ history' \in [crossed : BOOLEAN, late : BOOLEAN, stale : SUBSET Devs]
         /\ history'.crossed = history.crossed /\ history'.late = history.late
         /\ \A e \in Devs : e # d /\ e \notin history'.stale => e \notin history.stale
         /\ d \notin history'.stale => ~Outdated(d, on)
<1>1. PICK s : s = IF Outdated(d, on) THEN history.stale \cup {d} ELSE history.stale \ {d}
  OBVIOUS
<1>2. history' = [history EXCEPT !.stale = s]
  BY <1>1 DEF Notified
<1>3. history \in [crossed : BOOLEAN, late : BOOLEAN, stale : SUBSET Devs]
  BY DEF Typed
<1>4. s \subseteq Devs
  BY <1>1, <1>3
<1>5. /\ history' \in [crossed : BOOLEAN, late : BOOLEAN, stale : SUBSET Devs]
      /\ history'.crossed = history.crossed /\ history'.late = history.late
      /\ history'.stale = s
  BY <1>2, <1>3, <1>4
<1>. QED
  BY <1>1, <1>5

LEMMA OnDeviceLostKept ==
  ASSUME Inv, OnDeviceLost
  PROVE  Inv'
<1>1. /\ Basics /\ Users /\ Told /\ Settled /\ Followed
      /\ Typed /\ Addressed /\ Framed /\ Connected /\ Ordered /\ Answered
  BY DEF Inv, Basics
<1>2. /\ InLoop /\ queue # <<>> /\ 1 \in 1..Len(queue)
      /\ Head(queue) = queue[1] /\ queue[1].e = "lost" /\ queue[1] \in Event
  BY <1>1, HandlesIs DEF OnDeviceLost
<1>3. PICK d : d = queue[1].dev
  OBVIOUS
<1>4. /\ link' = link /\ known' = known /\ sock' = sock /\ ready' = ready /\ authed' = authed
      /\ devices' = Lost({d}) /\ stack' = IdentifyEnds({d}) /\ Notified(d, FALSE)
  BY <1>2, <1>3 DEF OnDeviceLost
<1>5. PICK xs : xs = <<>>
  OBVIOUS
<1>6. xs \in Seq(Event) /\ Len(xs) <= 1 /\ \A k \in 1..Len(xs) : FALSE
  BY <1>5
<1>7. Moves(1, xs)
  BY <1>1, <1>2, <1>5, <1>6, ThenMoves DEF OnDeviceLost
<1>8. queue[1].e \in News
  BY <1>2 DEF News
<1>9. /\ ~Dark /\ ready /\ sock # None /\ d \in Devs
      /\ Lit /\ Unchanged(d, 0)' => d \notin known
  BY <1>1, <1>2, <1>3, <1>7, <1>8, NewsIs
<1>10. /\ history' \in [crossed : BOOLEAN, late : BOOLEAN, stale : SUBSET Devs]
       /\ history'.crossed = history.crossed /\ history'.late = history.late
       /\ \A e \in Devs : e # d /\ e \notin history'.stale => e \notin history.stale
       /\ d \notin history'.stale => ~Outdated(d, FALSE)
  BY <1>1, <1>4, <1>9, NotifiedIs
<1>11. /\ stack' \in Seq(Frame) /\ Depth' = Depth /\ Depth' <= MaxFrames
       /\ Under(Depth, 0)
       /\ \A i \in 1..Depth : /\ stack'[i].op = stack[i].op
                              /\ stack[i].op # "identify" => stack'[i] = stack[i]
       /\ \A j \in 1..Depth' : ~(j > Depth) /\ j # 0
  BY <1>1, <1>4, IdentifyEndsIs
<1>12. /\ devices' \in [Devs -> {"none", "on", "off"}] /\ devices'[d] # "on"
       /\ \A e \in Devs : e # d => devices'[e] = devices[e]
  BY <1>1, <1>4, <1>9 DEF Typed, Lost
<1>13. Typed'
  BY <1>1, <1>4, <1>7, <1>10, <1>11, <1>12 DEF Typed, Moves
<1>14. Steady
  BY <1>4, SteadyIs
<1>15. PICK b : b = Depth
  OBVIOUS
<1>16. Under(b, 0) /\ \A j \in 1..Depth' : ~(j > b) /\ j # 0
  BY <1>11, <1>15
<1>17. \A k \in 1..Len(queue) : Refers(queue[k], b, 0)
  BY <1>1, <1>15, RefersAll
<1>18. queue[1].e \notin OfLink /\ queue[1].e \notin Replies /\ queue[1].e # "reply"
  BY <1>2 DEF OfLink, Replies
<1>19. Basics'
  BY <1>1, <1>6, <1>7, <1>13, <1>14, <1>16, <1>17, <1>18, BasicsKept, SMTT(60)
<1>20. ASSUME NEW i \in 1..Depth, Hopeful(i) PROVE Hopeful(i)'
  <2>1. i \in 1..b /\ i # 0
    BY <1>11, <1>15
  <2>. QED
    BY <1>1, <1>4, <1>7, <1>13, <1>16, <1>18, <1>20, <2>1, HopefulKept
<1>21. Users'
  BY <1>1, <1>4, <1>10, <1>13, <1>16, <1>20, UsersKept
<1>22. Told'
  BY <1>1, <1>4, <1>6, <1>7, <1>13, <1>14, <1>16, <1>17, ToldKept
<1>23. Settled'
  BY <1>1, <1>2, <1>13, <1>16, SettledKept
<1>24. ~Dark' /\ (Lit' => Lit)
  BY <1>4, <1>9 DEF Lit, Dark
<1>25. ASSUME NEW e \in Devs, e # d PROVE Follows(e)'
  <2>1. Follows(e)
    BY <1>1, <1>25 DEF Followed
  <2>2. \A j \in 1..Depth : ~(j > b)
    BY <1>11, <1>15
  <2>3. Ready' /\ ~history'.crossed => Ready /\ ~history.crossed
    BY <1>4, <1>10 DEF Ready
  <2>4. \A j \in 1..b : IsCall(j) => (e \in stack'[j].left <=> e \in stack[j].left)
    BY <1>11, <1>15 DEF IsCall, Calls
  <2>5. ~NewsOf(e, queue[1])
    BY <1>3, <1>25 DEF NewsOf
  <2>6. e \notin history'.stale => e \notin history.stale
    BY <1>10, <1>25
  <2>7. devices'[e] = devices[e] /\ (e \in known' <=> e \in known)
    BY <1>4, <1>12, <1>25
  <2>. QED
    BY <1>1, <1>6, <1>7, <1>13, <1>16, <1>17, <1>18, <1>24,
       <2>1, <2>2, <2>3, <2>4, <2>5, <2>6, <2>7, FollowsKept
<1>26. Follows(d)'
  <2>1. ASSUME Lit', Unchanged(d, 0)', d \notin history'.stale PROVE Agrees(d)'
    <3>1. d \notin known'
      BY <1>4, <1>9, <1>24, <2>1
    <3>2. /\ \A i \in 1..Depth : HasList(i) => d \notin stack[i].ids
          /\ \A k \in 1..Len(queue) :
               queue[k].e = "reply" /\ AnswerTo(queue[k], Lists) => d \notin queue[k].ids
          /\ ~Adding(d)
      BY <1>1, <1>10, <2>1, CurrentIs
    <3>3. \A i \in 1..Depth' : HasList(i)' => d \notin stack'[i].ids
      BY <1>11, <3>2 DEF HasList, IsCall, Calls
    <3>4. ~Adding(d)'
      BY <1>11, <3>2 DEF Adding
    <3>5. ASSUME NEW k \in 1..Len(queue'), queue'[k].e = "reply", AnswerTo(queue[k], Lists)'
          PROVE  d \notin queue'[k].ids
      <4>1. k \in 1..Rest(1)
        BY <1>1, <1>6, <1>7, BeforeIs
      <4>2. PICK j : j = Before(1, k)
        OBVIOUS
      <4>3. /\ j \in 1..Len(queue) /\ queue'[k] = queue[j]
            /\ queue[j].e = "reply" => (AnswerTo(queue[k], Lists)' <=> AnswerTo(queue[j], Lists))
        BY <1>1, <1>7, <1>13, <1>16, <1>17, <4>1, <4>2, RepliesKept
      <4>. QED
        BY <3>2, <3>5, <4>3
    <3>. QED
      BY <1>12, <3>1, <3>3, <3>4, <3>5 DEF Agrees
  <2>. QED
    BY <1>24, <2>1 DEF Follows
<1>27. \A e \in Devs : Follows(e)'
  BY <1>25, <1>26
<1>. QED
  BY <1>19, <1>21, <1>22, <1>23, <1>27 DEF Inv, Followed

LEMMA OnDeviceIdentifiedKept ==
  ASSUME Inv, OnDeviceIdentified
  PROVE  Inv'
<1>1. /\ Basics /\ Users /\ Told /\ Settled /\ Followed
      /\ Typed /\ Addressed /\ Framed /\ Connected /\ Ordered /\ Answered
  BY DEF Inv, Basics
<1>2. /\ InLoop /\ queue # <<>> /\ 1 \in 1..Len(queue)
      /\ Head(queue) = queue[1] /\ queue[1].e = "identified" /\ queue[1] \in Event
  BY <1>1, HandlesIs DEF OnDeviceIdentified
<1>3. PICK d : d = queue[1].dev
  OBVIOUS
<1>4. /\ link' = link /\ known' = known /\ sock' = sock /\ ready' = ready /\ authed' = authed
      /\ DeviceIdentified(d, stack, Tail(queue)) /\ Notified(d, TRUE)
  BY <1>2, <1>3 DEF OnDeviceIdentified
<1>5. d \in Devs
  BY <1>2, <1>3, EventIs DEF News, NewsEvents
<1>6. PICK n : n = Depth
  OBVIOUS
<1>7. /\ stack \in Seq(Frame) /\ n = Len(stack) /\ n \in Nat /\ n <= MaxFrames /\ MaxFrames \in Nat
      /\ Tail(queue) \in Seq(Event)
  BY <1>1, <1>2, <1>6, PlacesAre, HeadTailProperties DEF Typed, Depth
<1>8. PICK q : q = Tail(queue)
  OBVIOUS
<1>9. \E xs \in Seq(Event), m \in {0, 1} : Joins(d, stack, q, xs, m)
  <2>1. q \in Seq(Event) /\ Len(stack) <= MaxFrames /\ DeviceIdentified(d, stack, q)
    BY <1>4, <1>7, <1>8
  <2>. QED
    BY <1>1, <1>5, <1>7, <2>1, DeviceIdentifiedIs
<1>10. PICK xs \in Seq(Event), m \in {0, 1} :
        /\ queue' = Tail(queue) \o xs /\ Len(xs) <= 1
        /\ \A k \in 1..Len(xs) : xs[k].e = "info" /\ xs[k].calls = {n + 1} /\ m = 1
        /\ stack' \in Seq(Frame) /\ Len(stack') = n + m /\ Len(stack') <= MaxFrames
        /\ \A i \in 1..n : stack'[i] = stack[i]
        /\ m = 1 => /\ stack'[n + 1].op \in {"add", "identify"}
                    /\ stack'[n + 1].dev = d
                    /\ stack'[n + 1].op = "add" <=> devices[d] = "none"
        /\ devices' \in [Devs -> {"none", "on", "off"}]
        /\ \A e \in Devs : e # d => devices'[e] = devices[e]
        /\ devices'[d] = "on" \/ (m = 1 /\ stack'[n + 1].op = "add")
  BY <1>7, <1>8, <1>9 DEF Joins
<1>11. Moves(1, xs)
  BY <1>1, <1>2, <1>10, ThenMoves DEF Then
<1>12. queue[1].e \in News
  BY <1>2 DEF News
<1>13. /\ ~Dark /\ ready /\ sock # None
       /\ Lit /\ Unchanged(d, 0)' => d \in known
  BY <1>1, <1>2, <1>3, <1>11, <1>12, NewsIs
<1>14. /\ history' \in [crossed : BOOLEAN, late : BOOLEAN, stale : SUBSET Devs]
       /\ history'.crossed = history.crossed /\ history'.late = history.late
       /\ \A e \in Devs : e # d /\ e \notin history'.stale => e \notin history.stale
       /\ d \notin history'.stale => ~Outdated(d, TRUE)
  BY <1>1, <1>4, <1>5, NotifiedIs
<1>15. /\ Depth' = n + m /\ Depth' \in Nat /\ Depth' <= MaxFrames /\ n <= Depth'
       /\ \A i \in 1..n : i \in 1..Depth' /\ i # 0
       /\ \A i \in 1..Depth' : /\ i \in 1..n \/ (m = 1 /\ i = n + 1)
                               /\ i > n => m = 1 /\ i = n + 1
                               /\ i # 0
  <2>1. Depth' = n + m
    BY <1>10 DEF Depth
  <2>2. m \in {0, 1} /\ Depth' <= MaxFrames
    BY <1>10 DEF Depth
  <2>3. Depth' \in Nat /\ n <= Depth' /\ \A i \in 1..n : i \in 1..Depth' /\ i # 0
    BY <1>7, <2>1, <2>2
  <2>4. \A i \in 1..Depth' : /\ i \in 1..n \/ (m = 1 /\ i = n + 1)
                             /\ i > n => m = 1 /\ i = n + 1
                             /\ i # 0
    <3>1. CASE m = 0
      BY <1>7, <2>1, <3>1
    <3>2. CASE m = 1
      BY <1>7, <2>1, <3>2
    <3>. QED
      BY <2>2, <3>1, <3>2
  <2>. QED
    BY <2>1, <2>2, <2>3, <2>4
<1>16. Typed'
  BY <1>1, <1>4, <1>10, <1>11, <1>14, <1>15 DEF Typed, Moves
<1>17. Steady
  BY <1>4, SteadyIs
<1>18. Under(n, 0)
  <2>1. n \in 0..Depth /\ \A i \in 1..n : stack'[i] = stack[i]
    BY <1>6, <1>7, <1>10
  <2>. QED
    BY <1>1, <1>15, <1>16, <2>1, UnderSame
<1>19. \A k \in 1..Len(queue) : Refers(queue[k], n, 0)
  BY <1>1, <1>6, RefersAll
<1>20. queue[1].e \notin OfLink /\ queue[1].e \notin Replies /\ queue[1].e # "reply"
  BY <1>2 DEF OfLink, Replies
<1>21. \A i \in 1..Depth' : i > n =>
         stack'[i].op \in {"add", "identify"} /\ stack'[i].op \notin Calls /\ stack'[i].dev = d
  BY <1>10, <1>15 DEF Calls
<1>22. \A k \in 1..Len(xs) :
         Placed(1, xs, k) /\ xs[k].e \notin News /\ xs[k].e # "answer" /\ xs[k].e # "reply"
  <2>. SUFFICES ASSUME NEW k \in 1..Len(xs)
                PROVE  Placed(1, xs, k) /\ xs[k].e \notin News /\ xs[k].e # "answer"
                         /\ xs[k].e # "reply"
    OBVIOUS
  <2>1. xs[k].e = "info" /\ xs[k].calls = {n + 1} /\ m = 1
    BY <1>10
  <2>2. n + 1 \in 1..Depth' /\ n + 1 > n
    BY <1>7, <1>15, <2>1
  <2>3. stack'[n + 1].op \notin Calls
    BY <1>21, <2>2
  <2>. QED
    BY <2>1, <2>2, <2>3 DEF Placed, Own, News
<1>23. Basics'
  <2>1. \A i \in 1..Depth' : i > n => ~IsCall(i)'
    BY <1>21 DEF IsCall
  <2>. QED
    BY <1>1, <1>10, <1>11, <1>15, <1>16, <1>17, <1>18, <1>19, <1>20, <1>22, <2>1, BasicsKept, SMTT(60)
<1>24. ASSUME NEW i \in 1..Depth, Hopeful(i) PROVE Hopeful(i)'
  <2>1. i \in 1..n /\ i # 0
    BY <1>6, <1>15
  <2>. QED
    BY <1>1, <1>4, <1>11, <1>16, <1>18, <1>20, <1>24, <2>1, HopefulKept
<1>25. Users'
  <2>1. \A i \in 1..Depth' : i > n => stack'[i].op # "connect"
    BY <1>21
  <2>. QED
    BY <1>1, <1>4, <1>14, <1>16, <1>18, <1>24, <2>1, UsersKept
<1>26. Told'
  BY <1>1, <1>4, <1>11, <1>16, <1>17, <1>18, <1>19, <1>22, ToldKept
<1>27. Settled'
  <2>1. \A i \in 1..Depth' : i > n => ~IsCall(i)'
    BY <1>21 DEF IsCall
  <2>2. ~(0 \in 1..Depth')
    OBVIOUS
  <2>. QED
    BY <1>1, <1>2, <1>16, <1>18, <2>1, <2>2, SettledKept
<1>28. ~Dark' /\ (Lit' => Lit)
  BY <1>4, <1>13 DEF Lit, Dark
<1>29. ASSUME NEW e \in Devs, e # d PROVE Follows(e)'
  <2>1. Follows(e)
    BY <1>1, <1>29 DEF Followed
  <2>2. \A j \in 1..Depth : ~(j > n)
    BY <1>6, <1>7
  <2>3. Ready' /\ ~history'.crossed => Ready /\ ~history.crossed
    BY <1>4, <1>14 DEF Ready
  <2>4. \A j \in 1..n : IsCall(j) => (e \in stack'[j].left <=> e \in stack[j].left)
    BY <1>10
  <2>5. ~NewsOf(e, queue[1])
    BY <1>3, <1>29 DEF NewsOf
  <2>6. e \notin history'.stale => e \notin history.stale
    BY <1>14, <1>29
  <2>7. devices'[e] = devices[e] /\ (e \in known' <=> e \in known)
    BY <1>4, <1>10, <1>29
  <2>8. \A j \in 1..Depth' : j > n =>
          ~HasList(j)' /\ ~(stack'[j].op = "add" /\ stack'[j].dev = e)
    BY <1>21, <1>29 DEF HasList, IsCall
  <2>9. \A k \in 1..Len(xs) : xs[k].e # "reply"
    BY <1>22
  <2>. QED
    BY <1>1, <1>11, <1>16, <1>18, <1>19, <1>20, <1>28,
       <2>1, <2>2, <2>3, <2>4, <2>5, <2>6, <2>7, <2>8, <2>9, FollowsKept
<1>30. Follows(d)'
  <2>1. ASSUME Lit', Unchanged(d, 0)', d \notin history'.stale PROVE Agrees(d)'
    <3>1. d \in known'
      BY <1>4, <1>13, <1>28, <2>1
    <3>2. /\ \A i \in 1..Depth : HasList(i) => d \in stack[i].ids
          /\ \A k \in 1..Len(queue) :
               queue[k].e = "reply" /\ AnswerTo(queue[k], Lists) => d \in queue[k].ids
      BY <1>1, <1>5, <1>14, <2>1, CurrentIs
    <3>3. ASSUME NEW i \in 1..Depth', HasList(i)' PROVE d \in stack'[i].ids
      <4>1. CASE i \in 1..n
        BY <1>6, <1>10, <3>2, <3>3, <4>1 DEF HasList, IsCall
      <4>2. CASE i = n + 1 /\ m = 1
        BY <1>10, <3>3, <4>2 DEF HasList, Lists
      <4>. QED
        BY <1>15, <4>1, <4>2
    <3>4. devices'[d] = "on" \/ Adding(d)'
      <4>1. CASE m = 1 /\ stack'[n + 1].op = "add"
        <5>1. n + 1 \in 1..Depth'
          BY <1>7, <1>15, <4>1
        <5>. QED
          BY <1>10, <4>1, <5>1 DEF Adding
      <4>. QED
        BY <1>10, <4>1
    <3>5. ASSUME NEW k \in 1..Len(queue'), queue'[k].e = "reply", AnswerTo(queue[k], Lists)'
          PROVE  d \in queue'[k].ids
      <4>1. k \in 1..Rest(1)
        <5>1. k \in 1..Rest(1) \/ \E i \in 1..Len(xs) : queue'[k] = xs[i]
          BY <1>1, <1>11, BeforeIs
        <5>. QED
          BY <1>22, <3>5, <5>1
      <4>2. PICK j : j = Before(1, k)
        OBVIOUS
      <4>3. /\ j \in 1..Len(queue) /\ queue'[k] = queue[j]
            /\ queue[j].e = "reply" => (AnswerTo(queue[k], Lists)' <=> AnswerTo(queue[j], Lists))
        BY <1>1, <1>11, <1>16, <1>18, <1>19, <4>1, <4>2, RepliesKept
      <4>. QED
        BY <3>2, <3>5, <4>3
    <3>. QED
      BY <3>1, <3>3, <3>4, <3>5 DEF Agrees
  <2>. QED
    BY <1>28, <2>1 DEF Follows
<1>31. \A e \in Devs : Follows(e)'
  BY <1>29, <1>30
<1>. QED
  BY <1>23, <1>25, <1>26, <1>27, <1>31 DEF Inv, Followed

(* The next device of a list that was had. *)
LEMMA NextOfListKept ==
  ASSUME Inv, NextOfList
  PROVE  Inv'
<1>1. /\ Basics /\ Users /\ Told /\ Settled /\ Followed
      /\ Typed /\ Addressed /\ Framed /\ Connected /\ Ordered /\ Answered
  BY DEF Inv, Basics
<1>2. /\ link' = link /\ known' = known /\ sock' = sock /\ ready' = ready /\ authed' = authed
      /\ history' = history
      /\ stack # <<>> /\ Top.st = "apply" /\ Top.op \in Lists /\ Top.op \in Calls
  BY DEF NextOfList, Applies, Lists, Calls
<1>3. PICK n : n = Depth
  OBVIOUS
<1>4. /\ n \in Nat /\ n > 0 /\ n <= MaxFrames /\ Top = stack[n] /\ Top \in CallFrames
      /\ IsCall(n) /\ n \in 1..Depth /\ n = Len(stack) /\ stack \in Seq(Frame)
      /\ MaxFrames \in Nat /\ DOMAIN stack = 1..n
  <2>1. /\ n \in Nat /\ n > 0 /\ n <= MaxFrames /\ Top = stack[n] /\ Top \in Frame
    BY <1>1, <1>2, <1>3, TopIs
  <2>2. n \in 1..Depth
    BY <1>3, <2>1
  <2>3. IsCall(n) /\ Top \in CallFrames
    BY <1>2, <2>1, <2>2, FrameIs DEF IsCall
  <2>. QED
    BY <1>1, <1>3, <2>1, <2>2, <2>3, PlacesAre DEF Typed, Depth
<1>5. FrameFits(Top)
  BY <1>1, <1>4 DEF Framed
<1>6. PICK d \in Top.left :
        LET base == [stack EXCEPT ![Depth].left = @ \ {d}]
        IN  IF Top.op = "reload" /\ devices[d] # "none"
              THEN stack' = base /\ UNCHANGED <<devices, queue>>
              ELSE DeviceIdentified(d, base, queue)
  BY DEF NextOfList
<1>7. d \in Devs /\ d \in Top.ids /\ Top.ok
  BY <1>4, <1>5 DEF FrameFits, CallFrames
<1>8. PICK g : g = [Top EXCEPT !.left = Top.left \ {d}]
  OBVIOUS
<1>9. /\ g \in Frame /\ Like(Top, g) /\ SameResult(Top, g) /\ g.left = Top.left \ {d}
      /\ g.op = Top.op /\ g.link = Top.link /\ g.st = "apply" /\ g.ok = Top.ok /\ g.ids = Top.ids
  <2>1. /\ g \in CallFrames /\ g.left = Top.left \ {d} /\ g.answered = Top.answered
        /\ g.op = Top.op /\ g.link = Top.link /\ g.st = Top.st /\ g.ok = Top.ok /\ g.ids = Top.ids
    BY <1>4, <1>8 DEF CallFrames
  <2>2. g \in Frame
    BY <2>1, FrameIs
  <2>3. Like(Top, g) /\ SameResult(Top, g)
    BY <1>2, <2>1 DEF Like, SameResult
  <2>. QED
    BY <1>2, <2>1, <2>2, <2>3
<1>10. PICK base : base = [stack EXCEPT ![n] = g]
  OBVIOUS
<1>11. /\ base \in Seq(Frame) /\ Len(base) = n
       /\ \A i \in 1..n : base[i] = IF i = n THEN g ELSE stack[i]
  <2>1. base \in Seq(Frame) /\ Len(base) = Len(stack)
    BY <1>3, <1>4, <1>9, <1>10, ExceptSeq DEF Depth
  <2>. QED
    BY <1>4, <1>10, <2>1
<1>12. base = [stack EXCEPT ![Depth].left = @ \ {d}]
  BY <1>3, <1>4, <1>8, <1>10
<1>13. IF Top.op = "reload" /\ devices[d] # "none"
         THEN stack' = base /\ UNCHANGED <<devices, queue>>
         ELSE DeviceIdentified(d, base, queue)
  BY <1>6, <1>12
<1>14. \E xs \in Seq(Event), m \in {0, 1} :
         /\ queue' = queue \o xs /\ Len(xs) <= 1
         /\ \A k \in 1..Len(xs) : xs[k].e = "info" /\ xs[k].calls = {n + 1} /\ m = 1
         /\ stack' \in Seq(Frame) /\ Len(stack') = n + m /\ Len(stack') <= MaxFrames
         /\ \A i \in 1..n : stack'[i] = base[i]
         /\ m = 1 => /\ stack'[n + 1].op \in {"add", "identify"}
                     /\ stack'[n + 1].dev = d
                     /\ stack'[n + 1].op = "add" <=> devices[d] = "none"
         /\ devices' \in [Devs -> {"none", "on", "off"}]
         /\ \A e \in Devs : e # d => devices'[e] = devices[e]
         /\ \/ devices'[d] = "on" \/ (m = 1 /\ stack'[n + 1].op = "add")
            \/ devices'[d] = devices[d] /\ Top.op = "reload" /\ devices[d] # "none"
  <2>1. CASE Top.op = "reload" /\ devices[d] # "none"
    <3>1. PICK xs : xs = <<>>
      OBVIOUS
    <3>2. xs \in Seq(Event) /\ Len(xs) <= 1 /\ queue' = queue \o xs /\ \A k \in 1..Len(xs) : FALSE
      BY <1>1, <1>13, <2>1, <3>1, NoneIs
    <3>3. /\ stack' \in Seq(Frame) /\ Len(stack') = n + 0 /\ Len(stack') <= MaxFrames
          /\ \A i \in 1..n : stack'[i] = base[i]
      BY <1>4, <1>11, <1>13, <2>1
    <3>4. /\ devices' \in [Devs -> {"none", "on", "off"}]
          /\ devices' = devices
      BY <1>1, <1>13, <2>1 DEF Typed
    <3>5. 0 # 1 /\ 0 \in {0, 1}
      OBVIOUS
    <3>. QED
      BY <2>1, <3>2, <3>3, <3>4, <3>5
  <2>2. CASE ~(Top.op = "reload" /\ devices[d] # "none")
    <3>1. PICK q : q = queue
      OBVIOUS
    <3>2. /\ DeviceIdentified(d, base, q) /\ q \in Seq(Event) /\ Typed
          /\ base \in Seq(Frame) /\ Len(base) <= MaxFrames
      BY <1>1, <1>4, <1>11, <1>13, <2>2, <3>1 DEF Typed
    <3>3. \E xs \in Seq(Event), m \in {0, 1} : Joins(d, base, q, xs, m)
      BY <1>7, <3>2, DeviceIdentifiedIs
    <3>. QED
      BY <1>11, <3>1, <3>3 DEF Joins
  <2>. QED
    BY <2>1, <2>2
<1>15. PICK xs \in Seq(Event), m \in {0, 1} :
         /\ queue' = queue \o xs /\ Len(xs) <= 1
         /\ \A k \in 1..Len(xs) : xs[k].e = "info" /\ xs[k].calls = {n + 1} /\ m = 1
         /\ stack' \in Seq(Frame) /\ Len(stack') = n + m /\ Len(stack') <= MaxFrames
         /\ \A i \in 1..n : stack'[i] = base[i]
         /\ m = 1 => /\ stack'[n + 1].op \in {"add", "identify"}
                     /\ stack'[n + 1].dev = d
                     /\ stack'[n + 1].op = "add" <=> devices[d] = "none"
         /\ devices' \in [Devs -> {"none", "on", "off"}]
         /\ \A e \in Devs : e # d => devices'[e] = devices[e]
         /\ \/ devices'[d] = "on" \/ (m = 1 /\ stack'[n + 1].op = "add")
            \/ devices'[d] = devices[d] /\ Top.op = "reload" /\ devices[d] # "none"
  BY <1>14
<1>16. Moves(0, xs)
  BY <1>1, <1>15, PostMoves
<1>17. \A i \in 1..n : stack'[i] = IF i = n THEN g ELSE stack[i]
  BY <1>11, <1>15
<1>18. /\ Depth' = n + m /\ Depth' \in Nat /\ Depth' <= MaxFrames /\ n <= Depth'
       /\ \A i \in 1..n : i \in 1..Depth' /\ i # 0
       /\ \A i \in 1..Depth' : /\ i \in 1..n \/ (m = 1 /\ i = n + 1)
                               /\ i > n => m = 1 /\ i = n + 1
                               /\ i # 0
  <2>1. Depth' = n + m /\ Depth' <= MaxFrames
    BY <1>15 DEF Depth
  <2>2. CASE m = 0
    BY <1>4, <2>1, <2>2
  <2>3. CASE m = 1
    BY <1>4, <2>1, <2>3
  <2>. QED
    BY <1>15, <2>1, <2>2, <2>3
<1>19. Typed'
  BY <1>1, <1>2, <1>15, <1>16, <1>18 DEF Typed, Moves
<1>20. Steady
  BY <1>2, SteadyIs
<1>21. Under(n, 0)
  <2>1. n \in 0..Depth
    BY <1>3, <1>4
  <2>2. \A i \in 1..n : Like(stack[i], stack'[i]) /\ SameResult(stack[i], stack'[i])
    BY <1>4, <1>9, <1>17, LikeIs
  <2>. QED
    BY <1>18, <2>1, <2>2 DEF Under
<1>22. \A k \in 1..Len(queue) : Refers(queue[k], n, 0)
  BY <1>1, <1>3, RefersAll
<1>23. \A i \in 1..Depth' : i > n =>
         stack'[i].op \in {"add", "identify"} /\ stack'[i].op \notin Calls /\ stack'[i].dev = d
  BY <1>15, <1>18 DEF Calls
<1>24. \A k \in 1..Len(xs) :
         Placed(0, xs, k) /\ xs[k].e \notin News /\ xs[k].e # "answer" /\ xs[k].e # "reply"
  <2>. SUFFICES ASSUME NEW k \in 1..Len(xs)
                PROVE  Placed(0, xs, k) /\ xs[k].e \notin News /\ xs[k].e # "answer"
                         /\ xs[k].e # "reply"
    OBVIOUS
  <2>1. xs[k].e = "info" /\ xs[k].calls = {n + 1} /\ m = 1
    BY <1>15
  <2>2. n + 1 \in 1..Depth' /\ n + 1 > n
    BY <1>4, <1>18, <2>1
  <2>3. stack'[n + 1].op \notin Calls
    BY <1>23, <2>2
  <2>. QED
    BY <2>1, <2>2, <2>3 DEF Placed, Own, News
<1>25. Basics'
  <2>1. \A i \in 1..Depth' : i > n => ~IsCall(i)'
    BY <1>23 DEF IsCall
  <2>. QED
    BY <1>1, <1>15, <1>16, <1>18, <1>19, <1>20, <1>21, <1>22, <1>24, <2>1, BasicsKept, SMTT(60)
<1>26. ASSUME NEW i \in 1..Depth, Hopeful(i) PROVE Hopeful(i)'
  <2>1. i \in 1..n /\ i # 0
    BY <1>3, <1>18
  <2>. QED
    BY <1>1, <1>2, <1>16, <1>19, <1>21, <1>26, <2>1, HopefulKept
<1>27. Users'
  <2>1. \A i \in 1..Depth' : i > n => stack'[i].op # "connect"
    BY <1>23
  <2>. QED
    BY <1>1, <1>2, <1>19, <1>21, <1>26, <2>1, UsersKept
<1>28. Told'
  BY <1>1, <1>2, <1>16, <1>19, <1>20, <1>21, <1>22, <1>24, ToldKept
<1>29. \A i \in 1..n :
         /\ stack'[i].op = stack[i].op /\ (IsCall(i)' <=> IsCall(i)) /\ (HasList(i)' <=> HasList(i))
         /\ IsCall(i) => stack'[i].st = stack[i].st /\ stack'[i].ok = stack[i].ok
                           /\ stack'[i].ids = stack[i].ids
         /\ i # n => stack'[i] = stack[i]
  <2>1. \A i \in 1..n : stack'[i].op = stack[i].op
    BY <1>4, <1>9, <1>17
  <2>2. \A i \in 1..n : IsCall(i)' <=> IsCall(i)
    BY <1>3, <1>18, <2>1 DEF IsCall
  <2>3. \A i \in 1..n : stack'[i].st = stack[i].st /\ stack'[i].ok = stack[i].ok
                          /\ stack'[i].ids = stack[i].ids
    BY <1>2, <1>4, <1>9, <1>17
  <2>. QED
    BY <1>17, <2>1, <2>2, <2>3 DEF HasList
<1>30. Settled'
  <2>1. ASSUME NEW i \in 1..Depth', IsCall(i)', stack'[i].st = "apply", ~stack'[i].ok
        PROVE  FALSE
    <3>1. i \in 1..n
      BY <1>4, <1>18, <1>23, <2>1 DEF IsCall
    <3>2. IsCall(i) /\ stack[i].st = "apply" /\ ~stack[i].ok
      BY <1>29, <2>1, <3>1
    <3>3. i = n
      BY <1>1, <1>3, <3>1, <3>2 DEF Settled
    <3>. QED
      BY <1>4, <1>7, <3>2, <3>3
  <2>. QED
    BY <2>1 DEF Settled
<1>31. (Dark' => Dark) /\ (Lit' => Lit)
  <2>1. Dark' => Dark
    BY <1>1, <1>16, <1>20, SteadyDark
  <2>. QED
    BY <1>2, <2>1 DEF Lit
<1>32. ASSUME NEW e \in Devs, e # d PROVE Follows(e)'
  <2>1. Follows(e)
    BY <1>1, <1>32 DEF Followed
  <2>2. \A j \in 1..Depth : ~(j > n)
    BY <1>3, <1>4
  <2>3. Ready' /\ ~history'.crossed => Ready /\ ~history.crossed
    BY <1>2 DEF Ready
  <2>4. \A j \in 1..n : IsCall(j) => (e \in stack'[j].left <=> e \in stack[j].left)
    BY <1>4, <1>9, <1>17, <1>32
  <2>5. e \notin history'.stale => e \notin history.stale
    BY <1>2
  <2>6. devices'[e] = devices[e] /\ (e \in known' <=> e \in known)
    BY <1>2, <1>15, <1>32
  <2>7. \A j \in 1..Depth' : j > n =>
          ~HasList(j)' /\ ~(stack'[j].op = "add" /\ stack'[j].dev = e)
    BY <1>23, <1>32 DEF HasList, IsCall
  <2>8. \A k \in 1..Len(xs) : xs[k].e # "reply"
    BY <1>24
  <2>. QED
    BY <1>1, <1>16, <1>19, <1>21, <1>22, <1>31,
       <2>1, <2>2, <2>3, <2>4, <2>5, <2>6, <2>7, <2>8, FollowsKept
<1>33. HasList(n)
  BY <1>2, <1>4, <1>7 DEF HasList
<1>34. Follows(d)'
  <2>1. Follows(d)
    BY <1>1, <1>7 DEF Followed
  <2>2. d \notin history'.stale => ~Dark'
    BY <1>2, <1>4, <1>31, <1>33, <2>1 DEF Follows, Gone
  <2>3. ASSUME Lit', Unchanged(d, 0)', d \notin history'.stale PROVE Agrees(d)'
    <3>1. Unchanged(d, 0)
      BY <1>1, <1>16, <2>3, UnchangedKept
    <3>2. Agrees(d)
      BY <1>2, <1>31, <2>1, <2>3, <3>1 DEF Follows
    <3>3. d \in known /\ d \in known'
      BY <1>2, <1>4, <1>7, <1>33, <3>2 DEF Agrees
    <3>4. ASSUME NEW i \in 1..Depth', HasList(i)' PROVE d \in stack'[i].ids
      <4>1. i \in 1..n
        BY <1>4, <1>18, <1>23, <3>4 DEF HasList, IsCall
      <4>2. HasList(i) /\ stack'[i].ids = stack[i].ids
        BY <1>29, <3>4, <4>1 DEF HasList
      <4>. QED
        BY <1>3, <3>2, <3>3, <4>1, <4>2 DEF Agrees
    <3>5. ASSUME NEW k \in 1..Len(queue'), queue'[k].e = "reply", AnswerTo(queue[k], Lists)'
          PROVE  d \in queue'[k].ids
      <4>1. k \in 1..Rest(0)
        <5>1. k \in 1..Rest(0) \/ \E i \in 1..Len(xs) : queue'[k] = xs[i]
          BY <1>1, <1>16, BeforeIs
        <5>. QED
          BY <1>24, <3>5, <5>1
      <4>2. PICK j : j = Before(0, k)
        OBVIOUS
      <4>3. /\ j \in 1..Len(queue) /\ queue'[k] = queue[j]
            /\ queue[j].e = "reply" => (AnswerTo(queue[k], Lists)' <=> AnswerTo(queue[j], Lists))
        BY <1>1, <1>16, <1>19, <1>21, <1>22, <4>1, <4>2, RepliesKept
      <4>. QED
        BY <3>2, <3>3, <3>5, <4>3 DEF Agrees
    <3>6. ASSUME Ready', ~history'.crossed
          PROVE  devices'[d] = "on" \/ Adding(d)' \/ \E i \in 1..Depth' : Brings(i, d)'
      <4>1. CASE devices'[d] = "on"
        BY <4>1
      <4>2. CASE m = 1 /\ stack'[n + 1].op = "add"
        <5>1. n + 1 \in 1..Depth'
          BY <1>4, <1>18, <4>2
        <5>. QED
          BY <1>15, <4>2, <5>1 DEF Adding
      <4>3. CASE devices'[d] = devices[d] /\ Top.op = "reload" /\ devices[d] # "none"
        <5>1. devices[d] = "on" \/ Adding(d) \/ \E i \in 1..Depth : Brings(i, d)
          BY <1>2, <3>2, <3>3, <3>6 DEF Agrees, Ready
        <5>2. CASE Adding(d)
          <6>1. PICK i \in 1..Depth : stack[i].op = "add" /\ stack[i].dev = d
            BY <5>2 DEF Adding
          <6>2. i # n
            BY <1>2, <1>4, <6>1 DEF Lists
          <6>3. i \in 1..Depth' /\ stack'[i] = stack[i]
            BY <1>3, <1>18, <1>29, <6>2
          <6>. QED
            BY <6>1, <6>3 DEF Adding
        <5>3. ASSUME NEW i \in 1..Depth, Brings(i, d) PROVE i \in 1..Depth' /\ Brings(i, d)'
          <6>1. i # n
            BY <1>4, <4>3, <5>3 DEF Brings
          <6>2. i \in 1..Depth' /\ stack'[i] = stack[i] /\ (IsCall(i)' <=> IsCall(i))
            BY <1>3, <1>18, <1>29, <6>1
          <6>. QED
            BY <4>3, <5>3, <6>2 DEF Brings
        <5>. QED
          BY <4>3, <5>1, <5>2, <5>3
      <4>. QED
        BY <1>15, <4>1, <4>2, <4>3
    <3>. QED
      BY <3>3, <3>4, <3>5, <3>6 DEF Agrees
  <2>. QED
    BY <2>2, <2>3 DEF Follows
<1>35. \A e \in Devs : Follows(e)'
  BY <1>32, <1>34
<1>. QED
  BY <1>25, <1>27, <1>28, <1>30, <1>35 DEF Inv, Followed
-----------------------------------------------------------------------------
(***************************************************************************)
(* The user.                                                               *)
(***************************************************************************)
Logins == {"connect", "authenticate"}

LEMMA AuthenticatedKept ==
  ASSUME Inv, Authenticated
  PROVE  Inv'
<1>1. /\ Basics /\ Users /\ Told /\ Settled /\ Followed
      /\ Typed /\ Addressed /\ Framed /\ Connected /\ Ordered /\ Answered
  BY DEF Inv, Basics
<1>2. /\ known' = known /\ sock' = sock /\ ready' = ready /\ devices' = devices
      /\ authed' = UidAfter(Top)
      /\ Ends(Logins) /\ stack # <<>> /\ Top.st = "done" /\ Drained
      /\ Top.op \in Logins /\ Top.op \in Calls /\ Top.op \notin Lists /\ Top.op # "add"
  BY DEF Authenticated, Ends, Logins, Lists, Calls
<1>3. PICK n : n = Depth
  OBVIOUS
<1>4. PICK b : b = n - 1
  OBVIOUS
<1>5. /\ n \in Nat /\ n > 0 /\ n <= MaxFrames /\ Top = stack[n] /\ Top \in CallFrames
      /\ IsCall(n) /\ n \in 1..Depth /\ MaxFrames \in Nat
  <2>1. /\ n \in Nat /\ n > 0 /\ n <= MaxFrames /\ Top = stack[n] /\ Top \in Frame
    BY <1>1, <1>2, <1>3, TopIs
  <2>2. n \in 1..Depth
    BY <1>3, <2>1
  <2>. QED
    BY <1>1, <1>2, <2>1, <2>2, FrameIs, PlacesAre DEF IsCall
<1>6. FrameFits(Top)
  BY <1>1, <1>5 DEF Framed
<1>7. /\ b \in Nat /\ b \in 0..Depth
      /\ \A i \in 1..Depth : /\ i # n => i \in 1..b
                             /\ i > b => i = n
      /\ \A i \in 1..b : i \in 1..Depth /\ i # n /\ i # 0
  BY <1>3, <1>4, <1>5
<1>8. PICK told \in BOOLEAN : told <=> (Top.op = "connect" \/ Top.ok)
  <2>1. (Top.op = "connect" \/ Top.ok) \in BOOLEAN
    OBVIOUS
  <2>. QED
    BY <2>1
<1>9. PICK load \in BOOLEAN : load <=> (told /\ ready /\ authed')
  <2>1. (told /\ ready /\ authed') \in BOOLEAN
    OBVIOUS
  <2>. QED
    BY <2>1
<1>10. PICK f : f = Call("list", sock)
  OBVIOUS
<1>11. ASSUME load
       PROVE  /\ f \in Frame /\ f.op = "list" /\ f.link = sock /\ f.st = "sent" /\ ready
              /\ ~f.answered /\ ~f.ok /\ f.ids = {} /\ f.left = {}
  <2>1. ready /\ sock \in Links /\ "list" \in Calls
    BY <1>1, <1>9, <1>11 DEF Connected, Typed, Calls
  <2>. QED
    BY <1>10, <2>1, CallIs
<1>12. PICK fs : fs = IF load THEN <<f>> ELSE <<>>
  OBVIOUS
<1>13. /\ fs \in Seq(Frame) /\ Len(fs) <= 1 /\ (load => Len(fs) = 1 /\ fs[1] = f)
       /\ ~load => Len(fs) = 0
  <2>1. CASE load
    BY <1>11, <1>12, <2>1
  <2>2. CASE ~load
    BY <1>12, <2>2
  <2>. QED
    BY <2>1, <2>2
<1>14. Replace(fs)
  BY <1>8, <1>9, <1>10, <1>12 DEF Authenticated
<1>15. /\ stack' \in Seq(Frame) /\ Depth' <= MaxFrames /\ b <= Depth'
       /\ \A i \in 1..b : stack'[i] = stack[i]
       /\ \A i \in 1..Depth' : i > b => load /\ i = n /\ stack'[i] = f
       /\ load => n \in 1..Depth' /\ stack'[n] = f
  <2>1. /\ stack' \in Seq(Frame) /\ Depth' = Depth - 1 + Len(fs) /\ Depth' <= MaxFrames
        /\ \A i \in 1..(Depth - 1) : stack'[i] = stack[i]
        /\ Len(fs) = 1 => stack'[Depth] = fs[1]
    BY <1>1, <1>2, <1>13, <1>14, ReplaceIs
  <2>2. \A i \in 1..b : stack'[i] = stack[i]
    BY <1>3, <1>4, <2>1
  <2>3. CASE load
    <3>1. Depth' = n /\ stack'[n] = f
      <4>1. Len(fs) = 1 /\ fs[1] = f
        BY <1>13, <2>3
      <4>2. Depth' = n - 1 + 1
        BY <1>3, <2>1, <4>1
      <4>3. stack'[n] = f
        BY <1>3, <2>1, <4>1
      <4>. QED
        BY <1>5, <4>2, <4>3
    <3>2. n \in 1..Depth' /\ b <= Depth' /\ \A i \in 1..Depth' : i > b => i = n
      BY <1>4, <1>5, <1>7, <3>1
    <3>. QED
      BY <2>1, <2>2, <2>3, <3>1, <3>2
  <2>4. CASE ~load
    <3>1. Depth' = b
      BY <1>3, <1>4, <1>5, <1>13, <2>1, <2>4
    <3>2. b <= Depth' /\ \A i \in 1..Depth' : ~(i > b)
      BY <1>7, <3>1
    <3>. QED
      BY <2>1, <2>2, <2>4, <3>2
  <2>. QED
    BY <2>3, <2>4
<1>16. PICK calls : calls = Waiting
  OBVIOUS
<1>17. /\ calls \in SUBSET (1..MaxFrames)
       /\ \A i \in calls : i \in 1..b /\ stack[i].op \in Calls /\ stack[i].st = "sent"
  <2>1. \A i \in calls : i \in 1..Depth /\ stack[i].op \in Calls /\ stack[i].st = "sent"
    BY <1>1, <1>16, PlacesAre DEF Waiting
  <2>2. \A i \in calls : i # n
    BY <1>2, <1>5, <2>1
  <2>3. \A i \in 1..Depth : i \in 1..MaxFrames
    BY <1>3, <1>5
  <2>. QED
    BY <1>7, <2>1, <2>2, <2>3
<1>18. PICK xs : xs = IF told THEN Tell("stop", calls) ELSE <<>>
  OBVIOUS
<1>19. /\ xs \in Seq(Event) /\ Len(xs) <= 1
       /\ \A k \in 1..Len(xs) : xs[k].e = "stop" /\ xs[k].calls = calls
  <2>1. CASE told
    <3>1. "stop" \in Tellings
      BY DEF Tellings
    <3>2. /\ xs \in Seq(Event) /\ Len(xs) \in {0, 1}
          /\ \A k \in 1..Len(xs) : xs[k].e = "stop" /\ xs[k].calls = calls
      BY <1>17, <1>18, <2>1, <3>1, TellIs
    <3>3. Len(xs) <= 1
      BY <3>2
    <3>. QED
      BY <3>2, <3>3
  <2>2. CASE ~told
    BY <1>18, <2>2
  <2>. QED
    BY <2>1, <2>2
<1>20. queue' = Remaining \o xs
  BY <1>8, <1>16, <1>18 DEF Authenticated
<1>21. PICK p \in 0..Len(queue) :
         /\ Moves(p, xs)
         /\ p = 0 => \A k \in 1..Len(queue) : ~IsLeft(k)
         /\ p # 0 => /\ Remaining # queue
                     /\ p \in 1..Len(queue) /\ queue[p].at = Depth
                     /\ queue[p].e \notin OfLink /\ queue[p].e \notin News /\ queue[p].e # "reply"
         /\ \A k \in 1..Len(queue) : k # p => Refers(queue[k], Depth - 1, 0)
  BY <1>1, <1>2, <1>19, <1>20, EndsMoves
<1>22. PICK auth \in {FALSE, ~Top.answered /\ link[Top.link].st = "up"} :
         link' = [link EXCEPT ![Top.link].auth = @ \/ auth]
  BY DEF Authenticated
<1>23. PICK h : h = (link[Top.link].auth \/ auth)
  OBVIOUS
<1>24. /\ h \in BOOLEAN /\ Top.link \in Links
       /\ link' = [link EXCEPT ![Top.link].auth = h]
  BY <1>5, <1>22, <1>23 DEF CallFrames
<1>25. /\ link' \in [Links -> [st : {"free", "new", "up", "lost"}, auth : BOOLEAN]]
       /\ \A l \in Links : link'[l].st = link[l].st
       /\ \A l \in Links : l # Top.link => link'[l].auth = link[l].auth
       /\ link'[Top.link].auth = h
  <2>1. PICK g : g = [link[Top.link] EXCEPT !.auth = h]
    OBVIOUS
  <2>2. link \in [Links -> [st : {"free", "new", "up", "lost"}, auth : BOOLEAN]]
    BY <1>1 DEF Typed
  <2>3. /\ g \in [st : {"free", "new", "up", "lost"}, auth : BOOLEAN]
        /\ g.st = link[Top.link].st /\ g.auth = h
    BY <1>24, <2>1, <2>2
  <2>4. link' = [link EXCEPT ![Top.link] = g]
    BY <1>24, <2>1
  <2>. QED
    BY <1>24, <2>2, <2>3, <2>4
<1>26. \A l \in Links :
         /\ link[l].auth => link'[l].auth
         /\ link'[l].auth /\ ~link[l].auth =>
              l = Top.link /\ ~Top.answered /\ link[l].st = "up"
  <2>1. auth => ~Top.answered /\ link[Top.link].st = "up"
    BY <1>22
  <2>. QED
    BY <1>23, <1>25, <2>1
<1>27. ASSUME NEW l \in Links, link'[l].auth, ~link[l].auth
       PROVE  l = sock /\ ready /\ link[l].st = "up"
  <2>1. l = Top.link /\ link[l].st = "up"
    BY <1>26, <1>27
  <2>2. l = sock /\ sock # None
    BY <1>1, <2>1, UpIs
  <2>3. ready
    BY <1>1, <1>5, <2>1, <2>2 DEF Connected, Parted
  <2>. QED
    BY <2>1, <2>2, <2>3
<1>28. Steady
  BY <1>2, <1>25, <1>26, <1>27 DEF Steady
<1>29. authed' \in BOOLEAN
  BY <1>1, <1>2, <1>5 DEF UidAfter, Typed, CallFrames
<1>30. /\ history' \in [crossed : BOOLEAN, late : BOOLEAN, stale : SUBSET Devs]
       /\ history'.stale = history.stale
       /\ ~history'.crossed =>
            /\ ~history.crossed /\ Top.link = sock
            /\ \A i \in 1..b : stack[i].op \notin Logins
       /\ ~history'.late => ~history.late /\ Top.answered /\ Remaining = queue
  <2>1. PICK c : c = (history.crossed \/ Top.link # sock
                      \/ \E i \in 1..(Depth - 1) : stack[i].op \in {"connect", "authenticate"})
    OBVIOUS
  <2>2. PICK a : a = (history.late \/ ~Top.answered \/ Remaining # queue)
    OBVIOUS
  <2>3. c \in BOOLEAN /\ a \in BOOLEAN
    BY <2>1, <2>2
  <2>4. history' = [history EXCEPT !.crossed = c, !.late = a]
    BY <2>1, <2>2 DEF Authenticated
  <2>5. /\ history' \in [crossed : BOOLEAN, late : BOOLEAN, stale : SUBSET Devs]
        /\ history'.stale = history.stale /\ history'.crossed = c /\ history'.late = a
    BY <1>1, <2>3, <2>4 DEF Typed
  <2>6. ~c => /\ ~history.crossed /\ Top.link = sock
              /\ \A i \in 1..b : stack[i].op \notin Logins
    BY <1>3, <1>4, <2>1 DEF Logins
  <2>. QED
    BY <2>2, <2>5, <2>6
<1>31. Typed'
  BY <1>1, <1>2, <1>15, <1>21, <1>25, <1>29, <1>30 DEF Typed, Moves
<1>32. Under(b, 0)
  BY <1>7, <1>15, LikeIs DEF Under
<1>33. \A k \in 1..Len(queue) : k # p => Refers(queue[k], b, 0)
  BY <1>3, <1>4, <1>21
<1>34. \A i \in 1..Depth' : i # 0 /\ (i \in 1..b \/ i > b)
  <2>1. Depth' \in Nat
    BY <1>31, LenProperties DEF Typed, Depth
  <2>. QED
    BY <1>7, <2>1
<1>35. \A k \in 1..Len(xs) :
         Placed(p, xs, k) /\ xs[k].e \notin News /\ xs[k].e # "answer" /\ xs[k].e # "reply"
  <2>1. \A i \in calls : i \in 1..Depth' /\ stack'[i].op \in Calls /\ stack'[i].st # "apply"
    <3>1. \A i \in 1..b : i \in 1..Depth'
      <4>1. Depth' \in Nat
        BY <1>31, LenProperties DEF Typed, Depth
      <4>. QED
        BY <1>7, <1>15, <4>1
    <3>. QED
      BY <1>15, <1>17, <3>1
  <2>. QED
    BY <1>19, <2>1 DEF Placed, Own, News
<1>36. Basics'
  <2>1. load => FrameFits(f)'
    BY <1>11 DEF FrameFits
  <2>2. \A i \in 1..Depth' : (i > b \/ i = 0) => (IsCall(i) => FrameFits(stack[i]))'
    BY <1>15, <1>34, <2>1
  <2>3. \A i \in 1..Depth' : i > b => (IsCall(i) => ready \/ stack[i].link # sock)'
    BY <1>2, <1>11, <1>15
  <2>. QED
    BY <1>1, <1>19, <1>21, <1>28, <1>31, <1>32, <1>33, <1>35, <2>2, <2>3, BasicsKept, SMTT(60)
<1>37. ASSUME ~history'.crossed, ready'
       PROVE  sock \in Links /\ sock # None /\ Top.link = sock /\ ready /\ ~history.crossed
  BY <1>1, <1>2, <1>5, <1>30, <1>37 DEF Connected, CallFrames
(* A login that the server accepted was to be seen here. *)
<1>38. ReadyIsAuthenticated'
  <2>1. ASSUME ready', authed', ~history'.crossed PROVE sock' # None /\ link'[sock'].auth
    <3>1. sock \in Links /\ sock # None /\ Top.link = sock /\ ready /\ ~history.crossed
      BY <1>37, <2>1
    <3>2. Top.ok \/ (Top.op = "authenticate" /\ authed)
      BY <1>2, <2>1 DEF UidAfter, Logins
    <3>3. Top.ok => link[sock].auth
      BY <1>6, <3>1 DEF FrameFits
    <3>4. authed => link[sock].auth
      BY <1>1, <3>1 DEF Users, ReadyIsAuthenticated, Ready
    <3>. QED
      BY <1>2, <1>26, <3>1, <3>2, <3>3, <3>4
  <2>. QED
    BY <2>1 DEF ReadyIsAuthenticated, Ready
<1>39. ASSUME ~history'.crossed, NEW i \in 1..Depth' PROVE stack'[i].op # "connect"
  <2>1. CASE i \in 1..b
    BY <1>15, <1>30, <1>39, <2>1 DEF Logins
  <2>2. CASE i > b
    BY <1>11, <1>15, <2>2
  <2>. QED
    BY <1>34, <2>1, <2>2
<1>40. ASSUME ready', link'[sock'].auth, ~authed', ~history'.crossed, ~history'.late
       PROVE  FALSE
  <2>1. sock \in Links /\ sock # None /\ Top.link = sock /\ ready /\ ~history.crossed
    BY <1>37, <1>40
  <2>2. Top.answered /\ Remaining = queue /\ ~history.late
    BY <1>30, <1>40
  <2>3. link[sock].auth
    BY <1>2, <1>26, <1>40, <2>1, <2>2
  <2>4. ~Top.ok /\ ~authed
    <3>1. ~Top.ok /\ (Top.op = "authenticate" => ~authed)
      BY <1>2, <1>40 DEF UidAfter
    <3>2. Top.op = "connect" => ~authed
      BY <1>1, <1>5, <2>1 DEF Users
    <3>. QED
      BY <1>2, <3>1, <3>2 DEF Logins
  <2>5. PICK i \in 1..Depth : Hopeful(i)
    BY <1>1, <2>1, <2>2, <2>3, <2>4 DEF Users
  <2>6. i = n
    BY <1>7, <1>30, <1>40, <2>5 DEF Hopeful, Logins
  <2>7. PICK k \in 1..Len(queue) : queue[k].e \in Replies /\ queue[k].at = n
    BY <1>5, <2>4, <2>5, <2>6 DEF Hopeful
  <2>8. queue[k].e # "reply"
    <3>1. queue[k] \in ToSet(queue)
      BY <1>1, PlacesAre DEF ToSet
    <3>. QED
      BY <1>2, <3>1 DEF Drained, Own
  <2>9. IsLeft(k)
    BY <1>3, <2>7, <2>8 DEF IsLeft, Replies
  <2>. QED
    BY <1>21, <2>2, <2>9
<1>41. Users'
  BY <1>38, <1>39, <1>40 DEF Users
<1>42. Told'
  <2>1. p \in {0, 1} \/ queue[p].e \notin News
    BY <1>21
  <2>. QED
    BY <1>1, <1>2, <1>21, <1>28, <1>31, <1>32, <1>33, <1>35, <2>1, ToldKept
<1>43. Settled'
  <2>1. \A i \in 1..Depth' : i > b => stack'[i].st # "apply"
    BY <1>11, <1>15
  <2>2. Top.st # "apply" /\ ~(0 \in 1..Depth')
    BY <1>2
  <2>. QED
    BY <1>1, <1>2, <1>31, <1>32, <2>1, <2>2, SettledKept
<1>44. Dark' => Dark
  BY <1>1, <1>21, <1>28, SteadyDark
<1>45. Lit' => Lit \/ (Dark /\ ~(Ready' /\ ~history'.crossed))
  <2>1. Lit' => Lit \/ Dark
    BY <1>1, <1>21, <1>28, SteadyDark
  <2>2. ASSUME Lit', Dark, Ready', ~history'.crossed PROVE FALSE
    <3>1. ready' /\ authed' /\ link'[sock].auth /\ sock # None /\ ~link[sock].auth
      BY <1>2, <2>2 DEF Ready, Lit, Dark
    <3>2. sock \in Links /\ Top.link = sock /\ ready /\ ~history.crossed
      BY <1>37, <2>2, <3>1
    <3>3. ~Top.answered
      BY <1>26, <3>1, <3>2
    <3>4. ~Top.ok
      BY <1>6, <3>3 DEF FrameFits
    <3>5. authed
      BY <1>2, <3>1, <3>4 DEF UidAfter
    <3>. QED
      BY <1>1, <3>1, <3>2, <3>5 DEF Users, ReadyIsAuthenticated, Ready
  <2>. QED
    BY <2>1, <2>2
<1>46. ASSUME NEW d \in Devs, Ready', ~history'.crossed
       PROVE  (Ready /\ ~history.crossed) \/ \E i \in 1..Depth' : Brings(i, d)'
  <2>1. ready' /\ authed'
    BY <1>46 DEF Ready
  <2>2. ready /\ ~history.crossed
    BY <1>37, <1>46, <2>1
  <2>3. CASE authed
    BY <2>2, <2>3 DEF Ready
  <2>4. CASE ~authed
    <3>1. Top.ok
      BY <1>2, <2>1, <2>4 DEF UidAfter
    <3>2. load
      BY <1>8, <1>9, <2>1, <2>2, <3>1
    <3>3. n \in 1..Depth' /\ stack'[n] = f /\ "list" \in Calls
      BY <1>15, <3>2 DEF Calls
    <3>4. IsCall(n)' /\ Brings(n, d)'
      BY <1>11, <3>2, <3>3 DEF IsCall, Brings
    <3>. QED
      BY <3>3, <3>4
  <2>. QED
    BY <2>3, <2>4
<1>47. ASSUME NEW d \in Devs PROVE Follows(d)'
  <2>1. Follows(d)
    BY <1>1, <1>47 DEF Followed
  <2>2. \A i \in 1..Depth' : i > b =>
          ~HasList(i)' /\ ~(stack'[i].op = "add" /\ stack'[i].dev = d)
    BY <1>11, <1>15 DEF HasList
  <2>3. \A i \in 1..Depth : i > b =>
          stack[i].op \notin Lists /\ ~(stack[i].op = "add" /\ stack[i].dev = d)
    BY <1>2, <1>5, <1>7
  <2>4. \A i \in 1..b : IsCall(i) => (d \in stack'[i].left <=> d \in stack[i].left)
    BY <1>15
  <2>5. p # 0 => queue[p].e # "reply" /\ ~NewsOf(d, queue[p])
    BY <1>21 DEF NewsOf
  <2>6. /\ devices'[d] = devices[d] /\ (d \in known' <=> d \in known)
        /\ d \notin history'.stale => d \notin history.stale
    BY <1>2, <1>30
  <2>7. \A k \in 1..Len(xs) : xs[k].e # "reply"
    BY <1>35
  <2>. QED
    BY <1>1, <1>21, <1>31, <1>32, <1>33, <1>44, <1>45, <1>46, <1>47,
       <2>1, <2>2, <2>3, <2>4, <2>5, <2>6, <2>7, FollowsKept
<1>. QED
  BY <1>36, <1>41, <1>42, <1>43, <1>47 DEF Inv, Followed
-----------------------------------------------------------------------------
(***************************************************************************)
(* The invariant, and what it says once nothing is left to do.             *)
(***************************************************************************)
LEMMA InitInv ==
  ASSUME Init
  PROVE  Inv
<1>1. /\ sock = None /\ ~ready /\ ready = FALSE /\ authed = FALSE /\ known = {}
      /\ stack = <<>> /\ queue = <<>>
      /\ link = [l \in Links |-> [st |-> "free", auth |-> FALSE]]
      /\ devices = [d \in Devs |-> "none"]
      /\ history = [crossed |-> FALSE, late |-> FALSE, stale |-> {}]
  BY DEF Init
<1>2. stack \in Seq(Frame) /\ Depth = 0 /\ queue \in Seq(Event) /\ Len(queue) = 0
  BY <1>1 DEF Depth
<1>3. /\ link \in [Links -> [st : {"free", "new", "up", "lost"}, auth : BOOLEAN]]
      /\ \A l \in Links : link[l].st = "free"
  BY <1>1
<1>4. Typed
  <2>1. history \in [crossed : BOOLEAN, late : BOOLEAN, stale : SUBSET Devs]
    BY <1>1
  <2>2. devices \in [Devs -> {"none", "on", "off"}]
    BY <1>1
  <2>3. Depth <= MaxFrames
    BY <1>2, ConstantsAssumption
  <2>. QED
    BY <1>1, <1>2, <1>3, <2>1, <2>2, <2>3 DEF Typed
<1>5. \A i \in 1..Depth : FALSE
  BY <1>2
<1>6. \A k \in 1..Len(queue) : FALSE
  BY <1>2
<1>7. Addressed /\ Ordered /\ Answered
  BY <1>6 DEF Addressed, Ordered, Answered
<1>8. Framed /\ Settled
  BY <1>5 DEF Framed, Settled
<1>9. Connected
  BY <1>1, <1>3 DEF Connected
<1>10. Users
  BY <1>1 DEF Users, ReadyIsAuthenticated, Ready
<1>11. ~Lit
  BY <1>1 DEF Lit
<1>12. Told
  BY <1>11 DEF Told
<1>13. ASSUME NEW d \in Devs PROVE Follows(d)
  <2>1. devices[d] # "on"
    BY <1>1
  <2>2. Gone(d)
    BY <1>5, <1>6, <2>1 DEF Gone, Adding
  <2>. QED
    BY <1>11, <2>2 DEF Follows
<1>. QED
  BY <1>4, <1>7, <1>8, <1>9, <1>10, <1>12, <1>13 DEF Inv, Basics, Followed

LEMMA NextInv ==
  ASSUME Inv, [Next]_vars
  PROVE  Inv'
<1>1. CASE \E l \in Links : Encrypted(l) \/ LinkLost(l) \/ StartConnectNet(l)
  BY <1>1, EncryptedKept, LinkLostKept, StartConnectNetKept
<1>2. CASE ServerAnswers \/ \E d \in Devs : ServerChanges(d)
  BY <1>2, ServerAnswersKept, ServerChangesKept
<1>3. CASE OnNetSocketConnected \/ OnConnectionError \/ OnDevDisconnected
  BY <1>3, OnNetSocketConnectedKept, OnConnectionErrorKept, OnDevDisconnectedKept
<1>4. CASE OnAnswer \/ OnReply \/ OnStop \/ OnTimeout \/ SetDone
  BY <1>4, OnAnswerKept, OnReplyKept, OnStopKept, OnTimeoutKept, SetDoneKept
<1>5. CASE Authenticate \/ Reload
  BY <1>5, AuthenticateKept
<1>6. CASE Authenticated \/ Listed
  BY <1>6, AuthenticatedKept, ListedKept
<1>7. CASE OnDeviceIdentified \/ OnDeviceLost \/ Identified \/ NextOfList \/ Loaded
  BY <1>7, OnDeviceIdentifiedKept, OnDeviceLostKept, IdentifiedKept, NextOfListKept, LoadedKept
<1>8. CASE UNCHANGED vars
  BY <1>8 DEF vars, Inv, Basics, Typed, Addressed, ForCall, IsCall, Depth, Framed, FrameFits,
     Connected, Parted, Ordered, OfSocket, InTurn, Answered, OfServer, Users, Hopeful,
     ReadyIsAuthenticated, Ready, Told, Lit, Unchanged, NewsOf, AnswerTo, Settled, Followed,
     Follows, Dark, Gone, Adding, HasList, Agrees, Drops, Brings
<1>. QED
  BY <1>1, <1>2, <1>3, <1>4, <1>5, <1>6, <1>7, <1>8 DEF Next

LEMMA InvariantHolds ==
  Spec => []Inv
<1>1. Init => Inv
  BY InitInv
<1>2. Inv /\ [Next]_vars => Inv'
  BY NextInv
<1>. QED
  BY <1>1, <1>2, PTL DEF Spec

LEMMA TypesHold ==
  ASSUME Inv
  PROVE  TypeOK
<1>1. Typed /\ Addressed
  BY DEF Inv, Basics
<1>2. \A f \in ToSet(stack) : f \in Frame
  BY <1>1, PlacesAre DEF ToSet
<1>3. ASSUME NEW x \in ToSet(queue)
      PROVE  /\ x \in Event
             /\ x.e \in {"answer", "reply"} => x.at <= Depth
             /\ x.e \in {"stop", "done", "info"} => x.calls \subseteq 1..Depth
  <2>1. PICK k \in 1..Len(queue) : x = queue[k]
    BY <1>1, PlacesAre DEF ToSet
  <2>2. x \in Event
    BY <1>1, <2>1, PlacesAre
  <2>3. x.e \in {"answer", "reply"} => x.at \in 1..Depth
    BY <1>1, <2>1 DEF Addressed, ForCall, IsCall, Replies
  <2>4. x.e \in {"stop", "done", "info"} => x.calls \subseteq 1..Depth
    BY <1>1, <2>1 DEF Addressed, IsCall
  <2>5. \A i \in 1..Depth : i <= Depth
    OBVIOUS
  <2>. QED
    BY <2>2, <2>3, <2>4, <2>5
<1>. QED
  BY <1>1, <1>2, <1>3 DEF TypeOK, Typed

(* Once nothing is left to do, a client with a user hears the server.      *)
LEMMA QuietIs ==
  ASSUME Inv, Quiet
  PROVE  /\ \A i \in 1..Depth : FALSE
         /\ \A k \in 1..Len(queue) : FALSE
         /\ Ready /\ ~history.crossed => Lit
         /\ sock = None => Dark
         /\ \A d : Unchanged(d, 0)
<1>1. Depth = 0 /\ Len(queue) = 0
  BY DEF Quiet, Depth
<1>2. (\A i \in 1..Depth : FALSE) /\ (\A k \in 1..Len(queue) : FALSE)
  BY <1>1
<1>3. ASSUME Ready, ~history.crossed PROVE Lit
  <2>1. Typed /\ Connected /\ Users
    BY DEF Inv, Basics
  <2>2. ready /\ sock # None /\ link[sock].auth
    BY <1>3, <2>1 DEF Users, ReadyIsAuthenticated, Ready
  <2>3. link[sock].st \in {"free", "new", "up", "lost"}
    BY <2>1, <2>2 DEF Typed
  <2>4. link[sock].st \notin {"free", "new", "lost"}
    BY <1>2, <2>1, <2>2 DEF Connected
  <2>. QED
    BY <2>2, <2>3, <2>4 DEF Lit
<1>. QED
  BY <1>2, <1>3 DEF Dark, Unchanged

(* The state has its types, a client that isReady() has a connection that  *)
(* the server has authenticated, and a connection that it has              *)
(* authenticated is ready once nothing is left to do, unless the answer    *)
(* came too late: ReadyIffAuthenticated, for any number of sockets,        *)
(* devices, nested waits and events.                                       *)
THEOREM ReadyCorrect ==
  Spec => []ReadyIffAuthenticated
<1>1. ASSUME Inv PROVE ReadyIffAuthenticated
  <2>1. TypeOK
    BY <1>1, TypesHold
  <2>2. Users
    BY <1>1 DEF Inv
  <2>3. AuthenticatedIsReady
    <3>1. ASSUME Quiet, ready, link[sock].auth, ~history.crossed, ~history.late PROVE Ready
      <4>1. \A i \in 1..Depth : FALSE
        BY <1>1, <3>1, QuietIs
      <4>. QED
        BY <2>2, <3>1, <4>1 DEF Users, Ready
    <3>. QED
      BY <3>1 DEF AuthenticatedIsReady
  <2>. QED
    BY <2>1, <2>2, <2>3 DEF ReadyIffAuthenticated, Users
<1>. QED
  BY <1>1, InvariantHolds, PTL

(* Once nothing is left to do, a ready client has exactly the server's     *)
(* devices as connected ones, and a client without a connection none, but  *)
(* for those that a notification reached while an older list was applied   *)
(* or a list could not be had: DevicesFollowServer.                        *)
THEOREM FollowCorrect ==
  Spec => []DevicesFollowServer
<1>1. ASSUME Inv PROVE DevicesFollowServer
  <2>1. \A d \in Devs : Follows(d)
    BY <1>1 DEF Inv, Followed
  <2>2. ASSUME Quiet, Ready, ~history.crossed, NEW d \in Devs \ history.stale
        PROVE  devices[d] = "on" <=> d \in known
    <3>1. /\ \A i \in 1..Depth : FALSE
          /\ \A k \in 1..Len(queue) : FALSE
          /\ Lit /\ Unchanged(d, 0)
      BY <1>1, <2>2, QuietIs
    <3>2. Agrees(d)
      BY <2>1, <2>2, <3>1 DEF Follows
    <3>. QED
      BY <2>2, <3>1, <3>2 DEF Agrees, Drops, Adding
  <2>3. ASSUME Quiet, sock = None, NEW d \in Devs \ history.stale
        PROVE  devices[d] # "on"
    <3>1. Dark
      BY <1>1, <2>3, QuietIs
    <3>. QED
      BY <2>1, <2>3, <3>1 DEF Follows, Gone
  <2>. QED
    BY <2>2, <2>3 DEF DevicesFollowServer
<1>. QED
  BY <1>1, InvariantHolds, PTL
===============================================================================
