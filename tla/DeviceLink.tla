------------------------------ MODULE DeviceLink ------------------------------
(***************************************************************************)
(* The bytes between the server and one device.                            *)
(*                                                                         *)
(* The server's StreamParser grows strings and emits newMessage in the     *)
(* middle of pushData; a receiver may wait in a nested event loop (a child *)
(* of a hub is identified there), where pushData is called again with the  *)
(* next bytes.  "chunks" holds, innermost last, what the calls of pushData *)
(* that are emitting a message have not parsed yet.                        *)
(*                                                                         *)
(* The device's parser has one buffer of bufSize bytes.  It is not told    *)
(* when the server closes the port and opens it again: what it has read of *)
(* a message stays before what is written over the new connection.  The    *)
(* number of a call stays in this buffer too: what answers the call reads  *)
(* it from the place that callIdStr points to.                             *)
(*                                                                         *)
(* A device that starts runs its setup(), in which it may write messages   *)
(* and reads nothing.  Some sketches end it with a zero byte, which makes  *)
(* the server forget what it has read of a message; others never write it. *)
(*                                                                         *)
(* A byte on the wire carries the number of the message it belongs to,     *)
(* which only the properties read.                                         *)
(***************************************************************************)
EXTENDS Naturals, Sequences, FiniteSets, SequencesExt

CONSTANTS
  Commands,    \* the commands of the server: a function and its arguments
  Values,      \* the values of the measurements that the device sends
  bufSize,     \* the size of the device's buffer
  MaxWritten,  \* bound: messages that the server writes, numbered by a digit
  MaxMeasured, \* bound: measurements that the device writes
  MaxNested,   \* bound: calls of pushData that wait at one time
  MaxFaults    \* bound: connections made again and restarts of the device

ASSUME LinkAssumption ==
  /\ {bufSize, MaxWritten, MaxMeasured, MaxNested, MaxFaults} \subseteq Nat
  /\ MaxWritten <= 9
  /\ Commands \subseteq Seq(Seq(STRING)) \ {<<>>}
  /\ Values \subseteq Seq(STRING)

VARIABLES
  down,     \* bytes under way to the device
  up,       \* bytes under way to the server
  device,   \* the device's StreamParser
  callId,   \* callIdStr: a place in the device's buffer, 0 for emptyCallId
  starting, \* the device is in its setup()
  server,   \* the server's StreamParser
  chunks,   \* what the calls of pushData have left, innermost last
  written,  \* history: the messages of the server
  sent,     \* history: the messages of the device
  heard,    \* history: the numbers of the messages the device has handled
  handled,  \* history: these messages, as the device has read them
  answered, \* history: which of them each message of the device answers, or 0
  told,     \* history: the messages the server was given, since it connected
  link      \* history of the connection

linkVars == <<down, up, device, callId, starting, server, chunks, written, sent,
              heard, handled, answered, told, link>>

(* What the server is given: the message with whose end it ends, and       *)
(* whether it is this message from its first byte on.                      *)
Told == [i : Nat, whole : BOOLEAN]

(* from: the server's first message.  left: bytes of the connection before *)
(* were under way.  nested: bytes were read while earlier ones were not    *)
(* parsed yet.  restarted: the device was.  joined: the messages that the  *)
(* device has written, or will write next, first after a restart with no   *)
(* zero byte before them.  Of all connections: faults, and harm, the       *)
(* faults that may cut a message of the server.                            *)
LinkRecord ==
  [from : Nat \ {0}, left : BOOLEAN, nested : BOOLEAN, restarted : BOOLEAN,
   joined : SUBSET Nat, faults : 0..MaxFaults, harm : 0..MaxFaults]

Esc == "\\"
Sep == "|"
End == "\n"
Nul == "0-byte"
Digit == <<"1", "2", "3", "4", "5", "6", "7", "8", "9">>
-----------------------------------------------------------------------------
(***************************************************************************)
(* Writing.                                                                *)
(***************************************************************************)
EscapeChar(ch) ==
  CASE ch = End          -> <<Esc, "n">>
    [] ch = Nul          -> <<Esc, "0">>
    [] ch \in {Esc, Sep} -> <<Esc, ch>>
    [] OTHER             -> <<ch>>

Escape(text) == FlattenSeq([i \in 1..Len(text) |-> EscapeChar(text[i])])

Dump(fields) ==
  Escape(fields[1])
  \o FlattenSeq([k \in 1..(Len(fields) - 1) |-> <<Sep>> \o Escape(fields[k + 1])])
  \o <<End>>

(* The bytes of message number i. *)
Bytes(fields, i) ==
  LET text == Dump(fields) IN [k \in 1..Len(text) |-> [c |-> text[k], i |-> i]]

ZeroByte == [c |-> Nul, i |-> 0]

(* What was parsed, against what was written: the number of the message,   *)
(* if it is this message from its first byte to its last, else Damaged.    *)
Damaged == 0
TextOf(field) == [j \in 1..Len(field) |-> field[j].c]
MessageOf(fields) == [k \in 1..Len(fields) |-> TextOf(fields[k])]
Origin(fields, last, all) ==
  LET i == last.i
  IN  IF /\ i \in 1..Len(all)
         /\ MessageOf(fields) = all[i]
         /\ \A k \in 1..Len(fields) : \A j \in 1..Len(fields[k]) :
              fields[k][j].i = i
        THEN i ELSE Damaged
-----------------------------------------------------------------------------
(***************************************************************************)
(* The server's parser.                                                    *)
(***************************************************************************)
NoMessage == <<<<>>>>          \* an empty title and no argument
FreshParser == [esc |-> FALSE, fields |-> NoMessage]

(* Mutant: the zero byte drops the title but not the arguments. *)
ResetKeepsArgs(p) == [p EXCEPT !.esc = FALSE, !.fields[1] = <<>>]

Reset(p) == [p EXCEPT !.esc = FALSE, !.fields = NoMessage]

Grow(fields, b) == [fields EXCEPT ![Len(fields)] = Append(@, b)]

ParseCharInEscapeState(p, b) ==
  [esc |-> FALSE,
   fields |-> Grow(p.fields, CASE b.c = "n" -> [b EXCEPT !.c = End]
                               [] b.c = "0" -> [b EXCEPT !.c = Nul]
                               [] OTHER     -> b)]

(* The end of a message leaves the parser as it was made; that the message *)
(* is emitted is in PushData.                                              *)
ParseCharInNormalState(p, b) ==
  CASE b.c = Esc -> [p EXCEPT !.esc = TRUE]
    [] b.c = Sep -> [p EXCEPT !.fields = Append(@, <<>>)]
    [] b.c = End -> FreshParser
    [] OTHER     -> [p EXCEPT !.fields = Grow(@, b)]

ParseByte(p, b) ==
  IF b.c = Nul THEN Reset(p)
  ELSE IF p.esc THEN ParseCharInEscapeState(p, b)
  ELSE ParseCharInNormalState(p, b)

(* The parser after each of these bytes. *)
Parsed(p, bytes) ==
  LET after[k \in 0..Len(bytes)] ==
        IF k = 0 THEN p ELSE ParseByte(after[k - 1], bytes[k])
  IN  after

(* The bytes at which a message is complete; after: the parser. *)
MessageEnds(after, bytes) == {k \in 1..Len(bytes) : bytes[k].c = End /\ ~after[k - 1].esc}

(* pushData with these bytes, over the calls below: they are parsed up to  *)
(* the end of a message, which is emitted with the rest still to come.     *)
PushData(below, bytes) ==
  LET after == Parsed(server, bytes)
      ends  == MessageEnds(after, bytes)
  IN  \/ /\ ends = {}
         /\ server' = after[Len(bytes)]
         /\ chunks' = below
         /\ UNCHANGED told
      \/ \E k \in ends :
           /\ \A j \in ends : k <= j
           /\ server' = after[k]
           /\ chunks' = Append(below, SubSeq(bytes, k + 1, Len(bytes)))
           /\ told' = Append(told,
                [i     |-> bytes[k].i,
                 whole |-> Origin(after[k - 1].fields, bytes[k], sent) # Damaged])
-----------------------------------------------------------------------------
(***************************************************************************)
(* The device's parser: a buffer, and where the arguments start in it.     *)
(***************************************************************************)
FreshBuffer == [esc |-> FALSE, buf |-> <<>>, args |-> <<>>]

(* Mutant: the arguments of the message before are kept. *)
ResetBufferKeepsArgs(p) == [p EXCEPT !.buf = <<>>]

(* reset does not touch the state: an escape that has begun stays. *)
ResetBuffer(p) == [p EXCEPT !.buf = <<>>, !.args = <<>>]

PutInBuffer(p, b) ==
  IF p.esc
    THEN [p EXCEPT !.esc = FALSE,
                   !.buf = Append(@, CASE b.c = "n" -> [b EXCEPT !.c = End]
                                       [] b.c = "0" -> [b EXCEPT !.c = Nul]
                                       [] OTHER     -> b)]
  ELSE CASE b.c = Esc -> [p EXCEPT !.esc = TRUE]
         [] b.c = Sep -> [p EXCEPT !.buf = Append(@, [b EXCEPT !.c = Nul]),
                                   !.args = Append(@, Len(p.buf) + 2)]
         [] b.c = End -> ResetBuffer(p)
         [] OTHER     -> [p EXCEPT !.buf = Append(@, b)]

(* Mutant: the buffer is taken to be full one byte too early. *)
PutByteTooEarly(p, b) ==
  LET q == IF b.c = Nul THEN ResetBuffer(p) ELSE PutInBuffer(p, b)
  IN  IF Len(q.buf) + 1 = bufSize THEN ResetBuffer(q) ELSE q

PutByte(p, b) ==
  LET q == IF b.c = Nul THEN ResetBuffer(p) ELSE PutInBuffer(p, b)
  IN  IF Len(q.buf) = bufSize THEN ResetBuffer(q) ELSE q

(* The buffer after each of these bytes. *)
Put(p, bytes) ==
  LET after[k \in 0..Len(bytes)] ==
        IF k = 0 THEN p ELSE PutByte(after[k - 1], bytes[k])
  IN  after

(* The string that starts at a place of the buffer, up to the next zero. *)
StringAt(p, start) ==
  LET rest == SubSeq(p.buf, start, Len(p.buf))
      k == SelectInSeq(rest, LAMBDA b : b.c = Nul)
  IN  IF k = 0 THEN rest ELSE SubSeq(rest, 1, k - 1)

FieldsOf(p) ==
  <<StringAt(p, 1)>> \o [k \in 1..Len(p.args) |-> StringAt(p, p.args[k])]
-----------------------------------------------------------------------------
(***************************************************************************)
(* RealDeviceMessageDispatch and the code of the device's user.            *)
(***************************************************************************)
(* identify stands for sync as well, and #identify_hub, which the          *)
(* dispatcher does not know, for the messages to the devices behind a hub, *)
(* which it passes on and does not answer.  A name is one character here;  *)
(* that of the message identify_hub is cut where a call has the end of its *)
(* name and its number.                                                    *)
Identify == <<<<"identify">>>>
IdentifyHub == <<<<"#identify_hub">>>>
HubTitle == <<"iden", "t", "ify_hub">>
Call(id, command) == <<<<"call">>, id>> \o command

Info == <<<<"deviceinfo">>, <<"uuid">>>>
Ok(id, results) == <<<<"ok">>, id>> \o results
Err(id) == <<<<"err">>, id, <<"text">>>>
Meas(v) == <<<<"meas">>, v>>

Proper(m) == Len(m) >= 3 /\ m[2] # <<>> /\ m[3] # <<>>

(* Where callIdStr points when the message in this buffer is answered. *)
CallPlace(p) ==
  LET m == MessageOf(FieldsOf(p))
  IN  IF m[1] # <<"call">> THEN callId ELSE IF Proper(m) THEN p.args[1] ELSE 0

(* Mutant: the number of the first call that was answered is kept. *)
CallIdFirst(p, place) ==
  LET oks == SelectSeq(sent, LAMBDA r : r[1] = <<"ok">>)
  IN  IF oks # <<>> THEN oks[1][2]
      ELSE IF place = 0 THEN <<>> ELSE TextOf(StringAt(p, place))

(* The C string at this place. *)
CallId(p, place) == IF place = 0 THEN <<>> ELSE TextOf(StringAt(p, place))

(* The user's code that answers a command does so with its first argument, *)
(* here, or with its name.                                                 *)
Result(m) == IF Len(m) > 3 THEN m[4] ELSE m[3]

(* What may be answered to a message: nothing to an unknown one; the user's *)
(* code answers a command, or leaves that to the dispatcher, which answers *)
(* the commands that begin with # itself.  A device is a hub, or it is not. *)
Answers(m, id) ==
  CASE m[1] = <<"identify">> -> {<<Info>>}
    [] m[1] = HubTitle       -> {<<Ok(id, <<>>)>>, <<Err(id)>>}
    [] m[1] = <<"call">>     ->
         IF Proper(m) THEN {<<Ok(id, <<Result(m)>>)>>, <<Err(id)>>} ELSE {<<Err(id)>>}
    [] OTHER -> {<<>>}

(* The device's writer: whole messages, which answer that message. *)
DeviceWrites(messages, message) ==
  /\ sent' = sent \o messages
  /\ answered' = answered \o [k \in 1..Len(messages) |-> message]
  /\ up' = up \o FlattenSeq([k \in 1..Len(messages) |->
                              Bytes(messages[k], Len(sent) + k)])
-----------------------------------------------------------------------------
LinkInit ==
  /\ down = <<>> /\ up = <<>>
  /\ device = FreshBuffer /\ callId = 0 /\ starting = FALSE
  /\ server = FreshParser /\ chunks = <<>>
  /\ written = <<>> /\ sent = <<>> /\ heard = <<>> /\ handled = <<>>
  /\ answered = <<>> /\ told = <<>>
  /\ link = [from |-> 1, left |-> FALSE, nested |-> FALSE, restarted |-> FALSE,
             joined |-> {}, faults |-> 0, harm |-> 0]

Requests(id) == {Identify, IdentifyHub} \cup {Call(id, c) : c \in Commands}

ServerWrites ==
  /\ Len(written) < MaxWritten
  /\ LET i == Len(written) + 1
     IN  \E m \in Requests(<<Digit[i]>>) :
           /\ written' = Append(written, m)
           /\ down' = down \o Bytes(m, i)
  /\ UNCHANGED <<up, device, callId, starting, server, chunks, sent, heard, handled,
                 answered, told, link>>

(* The device reads some bytes, at most up to the end of a message, which  *)
(* it then handles.                                                        *)
DeviceReads ==
  /\ down # <<>> /\ ~starting
  /\ LET after == Put(device, down)
         ends  == MessageEnds(after, down)
     IN  \E n \in 1..Len(down) :
           /\ \A k \in ends : n <= k
           /\ down' = SubSeq(down, n + 1, Len(down))
           /\ device' = after[n]
           /\ \/ /\ n \notin ends
                 /\ UNCHANGED <<up, callId, sent, heard, handled, answered>>
              \/ /\ n \in ends
                 /\ LET p      == after[n - 1]
                        fields == FieldsOf(p)
                        m      == MessageOf(fields)
                    IN  /\ heard' = Append(heard, Origin(fields, down[n], written))
                        /\ handled' = Append(handled, m)
                        /\ callId' = CallPlace(p)
                        /\ \E a \in Answers(m, CallId(p, CallPlace(p))) :
                             DeviceWrites(a, Len(heard) + 1)
  /\ UNCHANGED <<starting, server, chunks, written, told, link>>

(* A measurement, an info message, or one of a device behind a hub. *)
DeviceMeasures ==
  /\ Len(SelectSeq(sent, LAMBDA m : m[1] = <<"meas">>)) < MaxMeasured
  /\ \E v \in Values : DeviceWrites(<<Meas(v)>>, 0)
  /\ UNCHANGED <<down, device, callId, starting, server, chunks, written, heard, handled,
                 told, link>>

(* Some of the bytes that have arrived, in one call of pushData. *)
ServerReads ==
  /\ Len(chunks) <= MaxNested
  /\ \E n \in 1..Len(up) :
       /\ PushData(chunks, SubSeq(up, 1, n))
       /\ up' = SubSeq(up, n + 1, Len(up))
  /\ link' = [link EXCEPT !.nested = @ \/ \E k \in 1..Len(chunks) : chunks[k] # <<>>]
  /\ UNCHANGED <<down, device, callId, starting, written, sent, heard, handled, answered>>

(* The receiver of a message returns: pushData goes on. *)
ReceiverReturns ==
  /\ chunks # <<>>
  /\ PushData(Front(chunks), Last(chunks))
  /\ UNCHANGED <<down, up, device, callId, starting, written, sent, heard, handled,
                 answered, link>>

(* What it has not sent is lost, and what arrives while it starts. *)
DeviceRestarts ==
  /\ link.faults < MaxFaults
  /\ \E k \in 0..Len(up) : up' = SubSeq(up, 1, k)
  /\ \E k \in 1..(Len(down) + 1) : down' = SubSeq(down, k, Len(down))
  /\ device' = FreshBuffer /\ callId' = 0 /\ starting' = TRUE
  /\ link' = [link EXCEPT !.restarted = TRUE, !.joined = @ \cup {Len(sent) + 1},
                          !.faults = @ + 1, !.harm = @ + 1]
  /\ UNCHANGED <<server, chunks, written, sent, heard, handled, answered, told>>

(* The end of setup(), with resetStream or without it. *)
SetupEnds ==
  /\ starting
  /\ starting' = FALSE
  /\ \/ UNCHANGED <<up, link>>
     \/ /\ up' = Append(up, ZeroByte)
        /\ link' = [link EXCEPT !.joined = @ \ {Len(sent) + 1}]
  /\ UNCHANGED <<down, device, callId, server, chunks, written, sent, heard, handled,
                 answered, told>>

(* A new connection has a new StdHighLevelDeviceBackend with a new parser. *)
(* The old one is deleted: what its calls of pushData had left is gone.    *)
Connects(left, harm) ==
  /\ link.faults < MaxFaults
  /\ server' = FreshParser /\ chunks' = <<>> /\ told' = <<>>
  /\ link' = [from |-> Len(written) + 1, left |-> left, nested |-> FALSE,
              restarted |-> FALSE, joined |-> IF left THEN link.joined ELSE {},
              faults |-> link.faults + 1, harm |-> link.harm + harm]
  /\ UNCHANGED <<callId, starting, written, sent, heard, handled, answered>>

(* A serial port is closed and opened: the device does not notice.  So is  *)
(* a socket whose device does not call resetParser and resetStream.        *)
PortOpenedAgain ==
  /\ \E k \in 0..Len(down) : down' = SubSeq(down, 1, k)
  /\ \E k \in 1..(Len(up) + 1) : up' = SubSeq(up, k, Len(up))
  /\ Connects(up' # <<>>, 1)
  /\ UNCHANGED device

(* Some TCP devices call resetParser and resetStream for a new connection. *)
SocketOpenedAgain ==
  /\ ~starting
  /\ down' = <<>> /\ up' = <<ZeroByte>>
  /\ device' = ResetBuffer(device)
  /\ Connects(FALSE, 0)

LinkNext ==
  \/ ServerWrites
  \/ DeviceReads
  \/ DeviceMeasures
  \/ ServerReads
  \/ ReceiverReturns
  \/ DeviceRestarts
  \/ SetupEnds
  \/ PortOpenedAgain
  \/ SocketOpenedAgain

LinkSpec == LinkInit /\ [][LinkNext]_linkVars
-----------------------------------------------------------------------------
(***************************************************************************)
(* Properties                                                              *)
(***************************************************************************)
Increasing(s) ==
  \A j, k \in 1..Len(s) :
    j < k /\ s[j] # Damaged /\ s[k] # Damaged => s[j] < s[k]

(* The server is given the device's messages whole, once and in order,     *)
(* however they are cut.  Only the first of a connection that begins with  *)
(* bytes of the one before may be a part of a message, and the first that  *)
(* the device writes after a restart may begin with what the restart cut,  *)
(* if the sketch writes no zero byte before it (resetStream).  Excepted    *)
(* are connections in which a receiver of a message waited in a nested     *)
(* loop while bytes read before were not parsed yet                        *)
(* (StreamParser::pushData).                                               *)
ServerHearsDevice ==
  ~link.nested =>
    /\ \A j, k \in 1..Len(told) : j < k => told[j].i < told[k].i
    /\ \A k \in 1..Len(told) :
         told[k].whole \/ (k = 1 /\ link.left) \/ told[k].i \in link.joined

(* The device's buffer takes the message, and its fields are C strings.    *)
Fits(m) ==
  /\ Len(FlattenSeq(m)) + Len(m) - 1 < bufSize
  /\ \A k \in 1..Len(m) : ~Contains(m[k], Nul)

(* The device handles the server's messages once and in order.  Each cut   *)
(* of the connection, each restart and each message that is too long for   *)
(* its buffer makes it handle at most one message that was not written     *)
(* (StreamParser::putByte).                                                *)
DamageIsBounded ==
  /\ Increasing(heard)
  /\ Cardinality({k \in 1..Len(heard) : heard[k] = Damaged})
       <= link.harm + Cardinality({i \in 1..Len(written) : ~Fits(written[i])})

(* A new connection loses at most its first message to what the device has *)
(* left of the old one: of the later ones that fit into the buffer none is *)
(* missing once a message written after it was handled, unless the device  *)
(* was restarted.                                                          *)
OnlyFirstIsLost ==
  ~link.restarted =>
    \A k \in 1..Len(heard) : \A i \in (link.from + 1)..(heard[k] - 1) :
      Fits(written[i]) => Contains(heard, i)

(* An answer with the number of a call, which the server is given, was     *)
(* written for a call that the device has handled, with the number and for *)
(* the command of this one, and there is no other for it                   *)
(* (processMessage, callIdStr).  It was the server's call with this number *)
(* unless it was none of the server's at all: the rest of a message that   *)
(* did not fit into the buffer, or parts of two that a cut has joined.     *)
(* There are at most as many of these as cuts and misfits.                 *)
Misfits == {i \in 1..Len(written) : ~Fits(written[i])}
Given(k) == sent[told[k].i]
Cause(k) == answered[told[k].i]
AnswersAreOfCalls ==
  LET answers == {k \in 1..Len(told) :
                    /\ told[k].whole
                    /\ Given(k)[1] \in {<<"ok">>, <<"err">>}
                    /\ \E i \in 1..MaxWritten : Given(k)[2] = <<Digit[i]>>}
      foreign == {k \in answers : heard[Cause(k)] = Damaged}
  IN  /\ \A k \in answers :
           LET m == handled[Cause(k)]
           IN  /\ m[1] = <<"call">>
               /\ Given(k) \in {Ok(m[2], <<Result(m)>>), Err(m[2])}
      /\ \A j, k \in answers : Cause(j) = Cause(k) => j = k
      /\ \A k \in answers \ foreign : Given(k)[2] = <<Digit[heard[Cause(k)]]>>
      /\ Cardinality(foreign) <= link.harm + Cardinality(Misfits)
=============================================================================
