------------------------------- MODULE MCDevices -------------------------------
(* Instances of Devices for TLC. *)
EXTENDS Devices, FiniteSets, TLC

(* Identifiers and ports are interchangeable. *)
Symmetry == Permutations(Ids) \cup Permutations(Ports)

(* Bound of the run devices: either one device and one port with every     *)
(* kind of backend, or two devices and two ports with two backends, none   *)
(* of them virtual, and fewer nested handlers.                             *)
Used == {b \in Backends : backend[b].st # "unused"}
Names == {device[o].id : o \in Objects}
         \cup {backend[b].id : b \in Used} \cup {backend[b].key : b \in Used}
OneDevice ==
  Cardinality(Names \cap Ids) <= 1 /\ Cardinality(Names \cap Ports) <= 1
TwoDevices ==
  /\ Cardinality(Used) <= 2 /\ Len(stack) < MaxFrames
  /\ \A b \in Used : backend[b].kind # "virtual"
OneOrTwo == OneDevice \/ TwoDevices
=============================================================================
