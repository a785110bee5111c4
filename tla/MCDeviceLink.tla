----------------------------- MODULE MCDeviceLink -----------------------------
(* Instances of DeviceLink for TLC. *)
EXTENDS DeviceLink

(* A name that must be escaped, and two commands that are too long for the *)
(* buffer, which they fill with the separator after the name or the first  *)
(* argument: the rest of one is a call of its own, that of the other a     *)
(* message to a hub.  The value of a measurement has a zero byte.          *)
MCCommands ==
  {<<<<Sep>>>>, <<<<"f">>, <<"call">>, <<"2">>, <<"x">>>>, <<<<"f">>, HubTitle>>}
MCValues == {<<Nul>>}

(* Bounds of the run device_link.  Either the server writes much: up to    *)
(* two messages and one fault, or two faults if they fit into the device's *)
(* buffer; or a third of them and one fault, with one message under way in *)
(* each direction, at most one that does not fit, and none for a hub; or a *)
(* fourth, if all fit.  It then reads the answers one by one.  Or it       *)
(* writes one message, the device measures, and the bytes to the server    *)
(* are cut anywhere and read in nested loops.                              *)
OfOne(bytes) == \A j, k \in 1..Len(bytes) : bytes[j].i = bytes[k].i
WholeOrNone(bytes) ==
  bytes # <<>> /\ bytes[1].i # 0 => bytes = Bytes(sent[bytes[1].i], bytes[1].i)
ToHub == {IdentifyHub} \cup {Call(<<Digit[i]>>, <<<<"f">>, HubTitle>>) : i \in 1..MaxWritten}

ManyWritten ==
  /\ link.faults <= 1 \/ (Len(written) <= 2 /\ Misfits = {})
  /\ Len(written) > 1 => OfOne(up)
  /\ Len(written) > 2 =>
       /\ OfOne(down) /\ WholeOrNone(up)
       /\ Cardinality(Misfits) <= 1 /\ ToSet(written) \cap ToHub = {}
  /\ Len(written) > 3 => up = <<>> /\ Misfits = {}
  /\ server = FreshParser
  /\ \A k \in 1..Len(chunks) : chunks[k] = <<>>
  /\ \A k \in 1..Len(sent) : sent[k][1] # <<"meas">>
ManyRead == Len(written) <= 1 /\ link.faults <= 1
WrittenOrRead == ManyWritten \/ ManyRead
=============================================================================
