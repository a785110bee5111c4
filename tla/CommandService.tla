---------------------------- MODULE CommandService ----------------------------
(***************************************************************************)
(* What RealDevice and CommandCall promise to whoever executes a command   *)
(* on a device, with no mention of event loops, backends, timers or queues *)
(* of messages:                                                            *)
(*   - a command is carried to the device at most once, and only while the *)
(*     device is connected;                                                *)
(*   - it succeeds only with an answer the device gave to this command on  *)
(*     the link that carried it, and its result is that answer's;          *)
(*   - once it has ended its outcome does not change.                      *)
(* That a command ends is left to the implementation: one without a timer  *)
(* may stay in progress.                                                   *)
(***************************************************************************)
CONSTANTS Commands, Results, NoResult

VARIABLES
  connected,  \* is the device connected?
  outcome,    \* of each command: none, refused, pending, failed or ok
  result,     \* of each command that succeeded
  answers     \* the answers the device gave, not received yet

vars == <<connected, outcome, result, answers>>

Answer == [command : Commands, value : Results]

Init ==
  /\ connected = FALSE
  /\ outcome = [c \in Commands |-> "none"]
  /\ result = [c \in Commands |-> NoResult]
  /\ answers = {}

With(S, o) == [c \in Commands |-> IF c \in S THEN o ELSE outcome[c]]

PendingCommands == {c \in Commands : outcome[c] = "pending"}

(* Execute: while the device is disconnected the command is refused.  When *)
(* it cannot be written to the device it fails at once.                    *)
Execute(c) ==
  /\ outcome[c] = "none"
  /\ \E o \in IF connected THEN {"pending", "failed"} ELSE {"refused"} :
       outcome' = With({c}, o)
  /\ UNCHANGED <<connected, result, answers>>

(* The device answers a command that it was given, no matter whether its   *)
(* caller still waits, but only once.                                      *)
DeviceAnswer(a) ==
  /\ connected
  /\ outcome[a.command] \in {"pending", "failed"}
  /\ \A b \in answers : b.command # a.command
  /\ answers' = answers \cup {a}
  /\ UNCHANGED <<connected, outcome, result>>

Succeed(a) ==
  /\ a \in answers
  /\ outcome[a.command] = "pending"
  /\ outcome' = With({a.command}, "ok")
  /\ result' = [result EXCEPT ![a.command] = a.value]
  /\ answers' = answers \ {a}
  /\ UNCHANGED connected

Fail(S) ==
  /\ S # {} /\ S \subseteq PendingCommands
  /\ outcome' = With(S, "failed")
  /\ answers' \in SUBSET answers
  /\ UNCHANGED <<connected, result>>

(* An answer that comes too late, or that is lost with its link. *)
Lose ==
  /\ answers' \in SUBSET answers
  /\ UNCHANGED <<connected, outcome, result>>

(* The link is made and lost.  The loss fails everything in progress; when *)
(* the link is destroyed under the commands they are left as they were.    *)
Connect ==
  /\ connected' = TRUE
  /\ answers' = {}
  /\ UNCHANGED <<outcome, result>>

Disconnect ==
  /\ connected
  /\ connected' = FALSE
  /\ answers' \in SUBSET answers
  /\ \E S \in {{}, PendingCommands} : outcome' = With(S, "failed")
  /\ UNCHANGED result

Next ==
  \/ \E c \in Commands : Execute(c)
  \/ \E a \in Answer : DeviceAnswer(a) \/ Succeed(a)
  \/ \E S \in SUBSET Commands : Fail(S)
  \/ Lose
  \/ Connect
  \/ Disconnect

Spec == Init /\ [][Next]_vars
=============================================================================
