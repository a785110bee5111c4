------------------------------- MODULE EngineRun -------------------------------
(***************************************************************************)
(* The process that runs one VDIL program (wliotproxy-run-vdil): a graph   *)
(* of blocks that is evaluated whenever a trigger activates it.  All but   *)
(* the thread that polls the timers happens in one thread, where a call    *)
(* that waits, for an answer of the server or for the timers of delays,    *)
(* runs a nested event loop: todo is what the active functions have still  *)
(* to do, the innermost first, and an event is handled when nothing is     *)
(* left or the first entry waits.                                          *)
(***************************************************************************)
EXTENDS Naturals, Sequences, FiniteSetsExt

CONSTANTS
  Programs,    \* records: kind, a sequence, of every block; links, of its outputs
  Vals,        \* arguments of commands and values in storages
  Invalid,     \* DataUnit of an invalid type
  MaxTriggers  \* bound: triggers of all kinds

SourceKinds == {"timer", "command", "storage"}
Kinds       == SourceKinds \cup {"gate", "delay", "ask", "act"}

(* The outputs of a block in their order, each linked to one input.  The   *)
(* first of a command is its trigger, the second its argument.             *)
ASSUME ConstantsAssumption ==
  /\ MaxTriggers \in Nat
  /\ Vals # {} /\ Vals \cap BOOLEAN = {} /\ Invalid \notin Vals \cup BOOLEAN
  /\ \A p \in Programs :
       /\ p.kind \in Seq(Kinds)
       /\ p.links \in [DOMAIN p.kind -> Seq([to : DOMAIN p.kind, i : 1..2])]
       /\ \A b \in DOMAIN p.kind : p.kind[b] = "command" => Len(p.links[b]) = 2

VARIABLES
  prg,       \* the program
  todo,      \* the rest of every active function
  queue,     \* queued calls of onActivateProgram
  thread,    \* TimersThread: the block whose activation it is about to queue, or 0
  locked,    \* nextDataLock
  source,    \* of every source block: its fields
  input,     \* of every block: the data of its inputs
  delays,    \* the blocks whose evalTimer runs
  triggers,  \* triggers so far (bounded by MaxTriggers)
  owed,      \* history: sources with a trigger that no evaluation has seen
  nested     \* history: an activation has begun within another one

data == <<source, input, delays>>
hist == <<triggers, owed, nested>>
vars == <<prg, todo, queue, thread, locked, data, hist>>

Blocks  == DOMAIN prg.kind
Sources == {b \in Blocks : prg.kind[b] \in SourceKinds}
Data    == Vals \cup BOOLEAN \cup {Invalid}

(* A statement that is still to be executed: about block b, for "set" its  *)
(* input i, with data v; done: the answer that it waits for has come.      *)
Statement == [op : {"lock", "extract", "clear", "fetch", "unlock", "prepare",
                    "source", "set", "ask", "timers", "cleanup"},
              b : Nat, i : 0..2, v : Data, done : BOOLEAN]

Do(op, b)     == [op |-> op, b |-> b, i |-> 0, v |-> Invalid, done |-> FALSE]
Set(b, i, v)  == [op |-> "set", b |-> b, i |-> i, v |-> v, done |-> FALSE]

(* The sources are visited in the order of their numbers: the loop over    *)
(* those in S is at the first of them.                                     *)
Each(op, S) == IF S = {} THEN <<>> ELSE <<Do(op, Min(S))>>
Later(b)    == {s \in Sources : s > b}

Next1(op) == todo # <<>> /\ todo[1].op = op
B    == todo[1].b
Rest == Tail(todo)

(* The event loop runs: nothing is active, or the innermost function waits *)
Loop == todo # <<>> => todo[1].op \in {"fetch", "ask", "timers"}

Idle == todo = <<>> /\ queue = 0

(* No call that waits for the server is in the program. *)
Prompt == \A b \in Blocks : prg.kind[b] \notin {"storage", "ask"}

NoInputs == [b \in Blocks |-> [i \in 1..2 |-> Invalid]]

(* BlockOutput::setData of output k. *)
Output(b, k, v) == LET l == prg.links[b][k] IN <<Set(l.to, l.i, v)>>
Outputs(b, v) == [k \in 1..Len(prg.links[b]) |-> Output(b, k, v)[1]]
-----------------------------------------------------------------------------
(* The flags of the triggers are not initialised (SourceBlock.h). *)
Init ==
  /\ prg \in Programs
  /\ todo = <<>>
  /\ queue = 0
  /\ thread = 0
  /\ locked = FALSE
  /\ source \in [Sources -> [now : {CHOOSE v \in Vals : TRUE}, due : {FALSE},
                             next : {Invalid}, work : {Invalid},
                             nextTrig : BOOLEAN, workTrig : BOOLEAN]]
  /\ input = NoInputs
  /\ delays = {}
  /\ triggers = 0
  /\ owed = {}
  /\ nested = FALSE
-----------------------------------------------------------------------------
(***************************************************************************)
(* The triggers: a command for the virtual device, a value in a storage, a *)
(* timer, which another thread notices.  The first two only set a flag and *)
(* queue an activation; the flag of a timer is read and cleared without a  *)
(* lock.                                                                   *)
(***************************************************************************)
Triggered == triggers < MaxTriggers /\ triggers' = triggers + 1

Arrives(s, v) ==
  /\ Loop /\ Triggered
  /\ source' = [source EXCEPT ![s].now = v, ![s].nextTrig = TRUE]
  /\ queue' = queue + 1
  /\ owed' = owed \cup {s}
  /\ UNCHANGED <<prg, todo, thread, locked, input, delays, nested>>

CommandArrives(s, v) == prg.kind[s] = "command" /\ Arrives(s, v)
NewValue(s, v)       == prg.kind[s] = "storage" /\ Arrives(s, v)

TimerDue(s) ==
  /\ prg.kind[s] = "timer" /\ thread = 0 /\ Triggered
  /\ thread' = s
  /\ source' = [source EXCEPT ![s].due = TRUE]
  /\ owed' = owed \cup {s}
  /\ UNCHANGED <<prg, todo, queue, locked, input, delays, nested>>

TimerActivates ==
  /\ thread # 0
  /\ queue' = queue + 1
  /\ thread' = 0
  /\ UNCHANGED <<prg, todo, locked, data, hist>>
-----------------------------------------------------------------------------
(***************************************************************************)
(* An activation.                                                          *)
(***************************************************************************)
(* onActivateProgram *)
Activate ==
  /\ queue > 0 /\ Loop
  /\ queue' = queue - 1
  /\ todo' = <<Do("lock", 0), Do("prepare", 0), Do("timers", 0), Do("cleanup", 0)>>
             \o todo
  /\ nested' = (todo # <<>> \/ nested)
  /\ UNCHANGED <<prg, thread, locked, data, triggers, owed>>

(* The mutex is not recursive: who holds it waits for ever. *)
Lock ==
  /\ Next1("lock") /\ ~locked
  /\ locked' = TRUE
  /\ todo' = Each("extract", Sources) \o <<Do("unlock", 0)>> \o Rest
  /\ UNCHANGED <<prg, queue, thread, data, hist>>

Unlock ==
  /\ Next1("unlock")
  /\ locked' = FALSE
  /\ todo' = Rest
  /\ UNCHANGED <<prg, queue, thread, data, hist>>

ExtractCommand ==
  /\ Next1("extract") /\ prg.kind[B] = "command"
  /\ source' = [source EXCEPT ![B].next = source[B].now]
  /\ todo' = Each("extract", Later(B)) \o Rest
  /\ UNCHANGED <<prg, queue, thread, locked, input, delays, hist>>

(* The flag is read here and cleared in the next statement. *)
ExtractTimer ==
  /\ Next1("extract") /\ prg.kind[B] = "timer"
  /\ source' = [source EXCEPT ![B].next = source[B].due]
  /\ todo' = <<Do("clear", B)>> \o Rest
  /\ UNCHANGED <<prg, queue, thread, locked, input, delays, hist>>

(* A timer that has become due since the flag was read is lost. *)
ClearTimer ==
  /\ Next1("clear")
  /\ source' = [source EXCEPT ![B].due = FALSE]
  /\ owed' = IF source[B].due /\ ~source[B].next THEN owed \ {B} ELSE owed
  /\ todo' = Each("extract", Later(B)) \o Rest
  /\ UNCHANGED <<prg, queue, thread, locked, input, delays, triggers, nested>>

(* The values of a storage are asked of the server. *)
ExtractStorage ==
  /\ Next1("extract") /\ prg.kind[B] = "storage"
  /\ todo' = <<Do("fetch", B)>> \o Rest
  /\ UNCHANGED <<prg, queue, thread, locked, data, hist>>

(* The first source without data ends the extraction. *)
(* mutant: the extraction is left with the mutex locked. *)
AbandonedLocked == Tail(Rest)

Abandoned == Rest

Fetched ==
  /\ Next1("fetch") /\ todo[1].done
  /\ source' = [source EXCEPT ![B].next = todo[1].v]
  /\ todo' = IF todo[1].v = Invalid THEN Abandoned
                                    ELSE Each("extract", Later(B)) \o Rest
  /\ UNCHANGED <<prg, queue, thread, locked, input, delays, hist>>

(* The sources up to the first one without data get their new data, that   *)
(* one included; the others keep their old data and old triggers.          *)
Prepared(s) == \A r \in Sources : r < s => source[r].next # Invalid

Prepare ==
  /\ Next1("prepare")
  /\ source' = [s \in Sources |->
       IF Prepared(s)
         THEN [source[s] EXCEPT !.work = source[s].next, !.next = source[s].work,
                                !.workTrig = source[s].nextTrig, !.nextTrig = FALSE]
         ELSE source[s]]
  /\ todo' = Each("source", Sources) \o Rest
  /\ UNCHANGED <<prg, queue, thread, locked, input, delays, hist>>

(* SourceBlock::eval: every output gets the data, but those of a command   *)
(* its trigger and its argument.                                           *)
EvalSource ==
  /\ Next1("source")
  /\ LET s == source[B]
     IN  /\ todo' = (CASE prg.kind[B] # "command" -> Outputs(B, s.work)
                         [] prg.kind[B] = "command" /\ s.work # Invalid ->
                              Output(B, 1, s.workTrig) \o Output(B, 2, s.work)
                         [] OTHER -> <<>>)
                    \o Each("source", Later(B)) \o Rest
         /\ owed' = IF IF prg.kind[B] = "timer" THEN s.work = TRUE ELSE s.workTrig
                     THEN owed \ {B} ELSE owed
  /\ UNCHANGED <<prg, queue, thread, locked, data, triggers, nested>>
-----------------------------------------------------------------------------
(***************************************************************************)
(* BlockInput::setData and the blocks.  Data of another type are refused;  *)
(* a block is evaluated when all of its inputs are set.                    *)
(***************************************************************************)
InputsOf(k) == IF k = "gate" THEN {1, 2} ELSE {1}

Filled == [input EXCEPT ![B][todo[1].i] = todo[1].v]
Ready  == \A i \in InputsOf(prg.kind[B]) : Filled[B][i] # Invalid

SetInput(kinds) ==
  /\ Next1("set")
  /\ prg.kind[B] \in kinds
  /\ input' = IF todo[1].v = Invalid THEN input ELSE Filled
  /\ UNCHANGED <<prg, queue, thread, locked, source, hist>>

Evaluated == todo[1].v # Invalid /\ Ready

(* ConditionTransitionBlock *)
Gate ==
  /\ SetInput({"gate"})
  /\ todo' = (IF Evaluated /\ Filled[B][1] = TRUE THEN Outputs(B, Filled[B][2])
                                                  ELSE <<>>) \o Rest
  /\ UNCHANGED delays

(* DelayBlock: a timer that runs is replaced. *)
Delay ==
  /\ SetInput({"delay"})
  /\ delays' = IF Evaluated THEN delays \cup {B} ELSE delays
  /\ todo' = Rest

(* CommandBlock that gives its command and goes on. *)
Act ==
  /\ SetInput({"act"})
  /\ todo' = Rest
  /\ UNCHANGED delays

(* CommandBlock that waits for the answer to its command. *)
Ask ==
  /\ SetInput({"ask"})
  /\ todo' = (IF Evaluated THEN <<Do("ask", B)>> ELSE <<>>) \o Rest
  /\ UNCHANGED delays

Answered ==
  /\ Next1("ask") /\ todo[1].done
  /\ todo' = Outputs(B, todo[1].v) \o Rest
  /\ UNCHANGED <<prg, queue, thread, locked, data, hist>>

(* DelayBlock::evalOnTimer *)
DelayFires(b) ==
  /\ b \in delays /\ Loop
  /\ delays' = delays \ {b}
  /\ todo' = Outputs(b, input[b][1]) \o todo
  /\ UNCHANGED <<prg, queue, thread, locked, source, input, hist>>

TimersDone ==
  /\ Next1("timers") /\ delays = {}
  /\ todo' = Rest
  /\ UNCHANGED <<prg, queue, thread, locked, data, hist>>

(* mutant: the inputs of the blocks are kept. *)
CleanupNothing ==
  /\ Next1("cleanup")
  /\ todo' = Rest
  /\ nested' = (nested /\ Rest # <<>>)
  /\ UNCHANGED <<prg, queue, thread, locked, data, triggers, owed>>

(* mutant: the flags of the triggers are reset here instead of in Prepare. *)
CleanupTriggers ==
  /\ Next1("cleanup")
  /\ input' = NoInputs
  /\ source' = [s \in Sources |-> [source[s] EXCEPT !.nextTrig = FALSE]]
  /\ todo' = Rest
  /\ nested' = (nested /\ Rest # <<>>)
  /\ UNCHANGED <<prg, queue, thread, locked, delays, triggers, owed>>

(* cleanupAfterEval *)
Cleanup ==
  /\ Next1("cleanup")
  /\ input' = NoInputs
  /\ todo' = Rest
  /\ nested' = (nested /\ Rest # <<>>)
  /\ UNCHANGED <<prg, queue, thread, locked, source, delays, triggers, owed>>
-----------------------------------------------------------------------------
(* The server answers a call, be it an outer one; or the connection ends,  *)
(* and with it the call.                                                   *)
Answer(n) ==
  /\ Loop
  /\ n <= Len(todo) /\ todo[n].op \in {"fetch", "ask"} /\ ~todo[n].done
  /\ \E v \in IF todo[n].op = "ask" THEN BOOLEAN
                                    ELSE {source[todo[n].b].now, Invalid} :
       todo' = [todo EXCEPT ![n].done = TRUE, ![n].v = v]
  /\ UNCHANGED <<prg, queue, thread, locked, data, hist>>

Step ==
  \/ Lock \/ Unlock \/ ExtractCommand \/ ExtractTimer \/ ClearTimer
  \/ ExtractStorage \/ Fetched \/ Prepare \/ EvalSource
  \/ Gate \/ Delay \/ Act \/ Ask \/ Answered \/ TimersDone \/ Cleanup

Next ==
  \/ Step
  \/ Activate
  \/ TimerActivates
  \/ \E s \in Sources : \/ TimerDue(s)
                        \/ \E v \in Vals : CommandArrives(s, v) \/ NewValue(s, v)
  \/ \E b \in Blocks : DelayFires(b)
  \/ \E n \in 1..Len(todo) : Answer(n)

(* The thread goes on, its event loop handles what has arrived, and every  *)
(* call of the innermost function ends: the server answers it, or is found *)
(* to be silent and the connection is closed.                              *)
Fairness ==
  /\ WF_vars(Step)
  /\ WF_vars(Activate)
  /\ WF_vars(TimerActivates)
  /\ WF_vars(Answer(1))
  /\ WF_vars(\E b \in Blocks : DelayFires(b))

Spec == Init /\ [][Next]_vars /\ Fairness
-----------------------------------------------------------------------------
TypeOK ==
  /\ prg \in Programs
  /\ todo \in Seq(Statement)
  /\ queue \in 0..MaxTriggers
  /\ thread \in Sources \cup {0}
  /\ locked \in BOOLEAN
  /\ source \in [Sources -> [now : Data, due : BOOLEAN, next : Data, work : Data,
                             nextTrig : BOOLEAN, workTrig : BOOLEAN]]
  /\ input \in [Blocks -> [1..2 -> Data]]
  /\ delays \subseteq Blocks
  /\ triggers \in 0..MaxTriggers
  /\ owed \subseteq Sources
  /\ nested \in BOOLEAN

(* The state has its types.  A program without calls that wait has seen    *)
(* every command and every timer once it is idle, however many activations *)
(* ran within one another, except a timer that became due between the two  *)
(* statements of TimerBlock::extractDataInternal.                          *)
TriggersAreSeen ==
  /\ TypeOK
  /\ Prompt /\ Idle /\ thread = 0 => owed = {}

(* What a command gives goes to a gate of its own, which its trigger opens *)
(* for its argument: a hypothesis on programs, for the proofs.             *)
ArgumentsAreGated ==
  \A p \in Programs : \A s \in DOMAIN p.kind : p.kind[s] = "command" =>
    LET gate == p.links[s][1].to
    IN  /\ p.kind[gate] = "gate"
        /\ p.links[s] = <<[to |-> gate, i |-> 1], [to |-> gate, i |-> 2]>>
        /\ \A b \in DOMAIN p.kind : \A k \in DOMAIN p.links[b] :
             p.links[b][k].to = gate => b = s

(* A command for which the gate opens was given, and its argument is that  *)
(* of the last one that was prepared: no input is left from an earlier     *)
(* evaluation, unless an evaluation was begun within another, which the    *)
(* inputs do not tell apart.                                               *)
CommandsAreFresh ==
  [][\A b \in Blocks :
       /\ Next1("set") /\ B = b /\ prg.kind[b] = "act" /\ todo[1].v \in Vals
       /\ ~nested
       => \E s \in Sources : /\ source[s].work = todo[1].v
                             /\ prg.kind[s] = "command" => source[s].workTrig]_vars

(* The thread waits for the mutex that it holds: a storage was asked of    *)
(* the server, and an activation came before the answer.                   *)
SelfLocked ==
  Next1("lock") /\ locked /\ \E n \in 1..Len(todo) : todo[n].op = "fetch"

(* Every activation ends, whatever the server answers, except by waiting   *)
(* for the mutex of extractSources in a loop nested in extractSources.     *)
OnlyTheMutexBlocks == []<>Idle \/ <>SelfLocked
=============================================================================
