-------------------------- MODULE MCCommandProcessor --------------------------
EXTENDS CommandProcessor

Symmetry == Permutations(Procs) \cup Permutations(Users) \cup Permutations(Backends)

(* Bound: subscriptions, which only authenticate looks at, are not combined *)
(* with the deepest stacks.                                                 *)
FewSubscriptions == (\E p \in Procs : proc[p].subs # {}) => Depth <= 1
===============================================================================
