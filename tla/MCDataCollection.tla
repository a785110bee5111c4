---------------------------- MODULE MCDataCollection ----------------------------
(* Instances of DataCollection for TLC. *)
EXTENDS DataCollection, TLC

(* Sessions are interchangeable. *)
Symmetry == Permutations(SessionIds)
=============================================================================
