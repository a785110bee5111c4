-------------------------------- MODULE ValueLog --------------------------------
(***************************************************************************)
(* What a storage that keeps every value promises to those who read it:    *)
(* the values stay as they were stored, in their order.  A stop of the     *)
(* program loses the last one, or leaves it damaged; or, while that one is *)
(* not safe, it takes all of them, in a file that is refused for good.     *)
(***************************************************************************)
EXTENDS Naturals, Sequences

CONSTANTS
  Values,   \* what may be stored
  Damaged   \* what is left of a value that was cut short

VARIABLES
  log,      \* the values stored so far
  durable,  \* how many of them a stop leaves, unless it takes all
  refused   \* nothing can be read or stored any more

vars == <<log, durable, refused>>

Init == log = <<>> /\ durable = 0 /\ refused = FALSE

Store ==
  \E v \in Values :
    /\ ~refused
    /\ log' = Append(log, v)
    /\ durable' = Len(log)
    /\ UNCHANGED refused

Flush ==
  /\ durable' = Len(log)
  /\ UNCHANGED <<log, refused>>

Stop ==
  /\ durable < Len(log)
  /\ log' \in {log, SubSeq(log, 1, durable),
               Append(SubSeq(log, 1, durable), Damaged)}
  /\ durable' = Len(log')
  /\ UNCHANGED refused

(* Only while a value is not safe, or before there is any.                 *)
StopForGood ==
  /\ durable < Len(log) \/ log = <<>>
  /\ log' = <<>> /\ durable' = 0
  /\ refused' = TRUE

Next == Store \/ Flush \/ Stop \/ StopForGood

Spec == Init /\ [][Next]_vars

(* A stop finds at most one value that is not safe yet.                    *)
AlmostDurable == durable <= Len(log) /\ Len(log) <= durable + 1
=============================================================================
