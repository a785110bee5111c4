------------------------- MODULE MCServerConnection -------------------------
(* Sockets are interchangeable. *)
EXTENDS ServerConnection, TLC

Symmetry == Permutations(Links)
===============================================================================
