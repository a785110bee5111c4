---------------------------- MODULE MCRealDevice ----------------------------
EXTENDS RealDevice, TLC

(* Devices and state values are interchangeable. *)
Symmetry == Permutations(Ids) \cup Permutations(Values)

(* Bound of the run device_knowledge: either the state is asked for, twice, *)
(* over one open link to a device that is not silent (after it nothing is   *)
(* said of the state), or the sensors are, once, with identifications, over *)
(* two links.                                                               *)
Asked == {dev.call[c].kind : c \in CallIds}
AboutState ==
  /\ "sensors" \notin Asked /\ dev.call[IdentifyCall].st = "WAIT"
  /\ links <= 1 /\ (links = 1 => dev.up) /\ ~hw.bare
  /\ dev.connected => dev.sync = SyncWaitIntervals
AboutIdentity ==
  /\ "state" \notin Asked /\ dev.cache["state"] = "nothing"
  /\ dev.callId <= 1 /\ Len(wire) <= 1
  /\ \A i \in 1..Len(wire) : wire[i].t # "statechanged"
StateOrIdentity == AboutState \/ AboutIdentity
=============================================================================
