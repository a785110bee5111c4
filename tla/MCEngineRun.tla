------------------------------ MODULE MCEngineRun ------------------------------
(* Programs for TLC. *)
EXTENDS EngineRun, TLC

To(b, i) == [to |-> b, i |-> i]

(* A timer that acts; a command that acts, some time later. *)
Delaying ==
  [kind  |-> <<"timer", "act", "command", "gate", "delay", "act">>,
   links |-> << <<To(2, 1)>>, <<>>, <<To(4, 1), To(4, 2)>>,
                <<To(5, 1)>>, <<To(6, 1)>>, <<>> >>]

(* A timer and a storage, with an answer to wait for in either. *)
Asking ==
  [kind  |-> <<"timer", "ask", "act", "storage", "act">>,
   links |-> << <<To(2, 1)>>, <<To(3, 1)>>, <<>>, <<To(5, 1)>>, <<>> >>]

(* A command whose source comes after a storage. *)
Storing ==
  [kind  |-> <<"storage", "command", "gate", "act">>,
   links |-> << <<>>, <<To(3, 1), To(3, 2)>>, <<To(4, 1)>>, <<>> >>]

ThreePrograms == {Delaying, Asking, Storing}

ASSUME ProgramsAreGated == ArgumentsAreGated

================================================================================
