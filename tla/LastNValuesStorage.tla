--------------------------- MODULE LastNValuesStorage ---------------------------
(***************************************************************************)
(* The storage of a sensor's last N values: a circular buffer in N blocks  *)
(* (of one file, or in N files), the file db.index with the number of the  *)
(* oldest block, and a copy of the values in memory.  A write touches the  *)
(* files one after the other; each operation on a file may fail, and the   *)
(* program may stop between any two.                                       *)
(*                                                                         *)
(* Values are the numbers of the writes; 0 is the value create() fills the *)
(* buffer with.                                                            *)
(***************************************************************************)
EXTENDS Naturals, FiniteSets

CONSTANTS
  N,          \* the capacity: stored_count
  NoData,     \* a block that is missing or empty
  Absent,     \* db.index does not exist
  Empty,      \* db.index is empty
  MaxWrites   \* bound: writes

ASSUME ConstantsAssumption ==
  /\ N \in Nat \ {0} /\ MaxWrites \in Nat
  /\ NoData \notin Nat
  /\ Absent \notin Nat /\ Empty \notin Nat /\ Absent # Empty

VARIABLES
  dbType,    \* "files" or "fixed", from the settings
  index,     \* the contents of db.index
  block,     \* the blocks
  sound,     \* data.db has a header and whole blocks
  flushed,   \* no block waits in data.db's buffer
  ram,       \* the members of the object
  at,        \* what writeSensorValue, or create, is about to do
  begun,     \* history: the writes so far
  stored,    \* history: the writes that returned true with their data written
  failed     \* history: an operation on a file has failed since open or create

vars == <<dbType, index, block, sound, flushed, ram, at, begun, stored, failed>>

Slots  == 0..(N - 1)
Values == 0..MaxWrites

(* total: totalBlocksCount of the driver.                                  *)
Closed == [opened |-> FALSE, startIndex |-> 0, values |-> <<>>, total |-> 0]

(* fill: the initial values that create() has still to write.              *)
Idle == [step |-> "idle", slot |-> 0, v |-> 0, fill |-> 0]
-----------------------------------------------------------------------------
(* mutant: db.index stays behind. *)
FollowingStays(slot) == slot

(* (startIndex + storedCount + 1) % storedCount *)
Following(slot) == (slot + N + 1) % N

(* mutant: the index is not added. *)
BlockFromZero(start, k) == block[k - 1]

(* readValueData: the block of the k-th oldest value. *)
BlockOf(start, k) == block[(start + k - 1) % N]

Reads(start) == [k \in 1..N |-> BlockOf(start, k)]

(* values.removeFirst(), values.append(data) *)
Shift(values, v) == [k \in 1..N |-> IF k < N THEN values[k + 1] ELSE v]

Present == {s \in Slots : block[s] # NoData}

Start(v, slot, fill) ==
  [step |-> IF dbType = "files" THEN "data" ELSE "index",
   slot |-> slot, v |-> v, fill |-> fill]

(* writeSensorValue returns: to create() while that fills the buffer.      *)
Return(ok, slot) ==
  at' = IF ok /\ at.fill > 1 THEN Start(0, slot, at.fill - 1) ELSE Idle
-----------------------------------------------------------------------------
Init ==
  /\ dbType \in {"files", "fixed"}
  /\ index = Absent
  /\ block = [s \in Slots |-> NoData]
  /\ sound = (dbType = "files")
  /\ flushed = TRUE
  /\ ram = Closed
  /\ at = Idle
  /\ begun = 0
  /\ stored = {}
  /\ failed = FALSE

(* create: db.index is created, then gets its first contents. *)
Create ==
  /\ at = Idle /\ ~ram.opened /\ index = Absent
  /\ index' = Empty
  /\ at' = [Idle EXCEPT !.step = "create"]
  /\ UNCHANGED <<dbType, block, sound, flushed, ram, begun, stored, failed>>

CreateBuffer ==
  /\ at.step = "create"
  /\ index' = 0
  /\ failed' = FALSE
  /\ ram' = [opened |-> TRUE, startIndex |-> 0, values |-> [k \in 1..N |-> 0],
             total |-> 0]
  /\ at' = IF dbType = "fixed" THEN [Idle EXCEPT !.step = "blocks"]
           ELSE Start(0, 0, N)
  /\ UNCHANGED <<dbType, block, sound, flushed, begun, stored>>

(* create: the blocks are written, in a buffer. *)
CreateBlocks ==
  /\ at.step = "blocks"
  /\ sound' = TRUE
  /\ block' = [s \in Slots |-> 0]
  /\ flushed' = FALSE
  /\ ram' = [ram EXCEPT !.total = N]
  /\ at' = Idle
  /\ UNCHANGED <<dbType, index, begun, stored, failed>>

Write ==
  /\ at = Idle /\ ram.opened /\ begun < MaxWrites
  /\ begun' = begun + 1
  /\ at' = Start(begun + 1, ram.startIndex, 0)
  /\ UNCHANGED <<dbType, index, block, sound, flushed, ram, stored, failed>>

(* open(WriteOnly) creates or truncates the file of the oldest value. *)
OpenDataFile ==
  /\ at.step = "data"
  /\ block' = [block EXCEPT ![at.slot] = NoData]
  /\ at' = [at EXCEPT !.step = "index"]
  /\ UNCHANGED <<dbType, index, sound, flushed, ram, begun, stored, failed>>

(* A file cannot be opened: writeSensorValue returns false. *)
OpenFails ==
  /\ at.step \in {"data", "index"}
  /\ at' = Idle
  /\ failed' = TRUE
  /\ UNCHANGED <<dbType, index, block, sound, flushed, ram, begun, stored>>

OpenIndexFile ==
  /\ at.step = "index"
  /\ index' = Empty
  /\ at' = [at EXCEPT !.step = "write index"]
  /\ UNCHANGED <<dbType, block, sound, flushed, ram, begun, stored, failed>>

(* db.index is written and closed; an error goes unnoticed.  With files,   *)
(* startIndex follows at once.                                             *)
WriteIndex ==
  /\ at.step = "write index"
  /\ \/ index' = Following(at.slot) /\ UNCHANGED failed
     \/ failed' = TRUE /\ UNCHANGED index
  /\ IF dbType = "files"
       THEN ram' = [ram EXCEPT !.startIndex = Following(at.slot)]
       ELSE UNCHANGED ram
  /\ at' = [at EXCEPT !.step = "write data"]
  /\ UNCHANGED <<dbType, block, sound, flushed, begun, stored>>

(* The data file is written, or removed; true is returned in either case.  *)
WriteDataFile ==
  /\ at.step = "write data" /\ dbType = "files"
  /\ \/ /\ block' = [block EXCEPT ![at.slot] = at.v]
        /\ stored' = IF at.v = 0 THEN stored ELSE stored \cup {at.v}
        /\ UNCHANGED failed
     \/ failed' = TRUE /\ UNCHANGED <<block, stored>>
  /\ ram' = [ram EXCEPT !.values = Shift(ram.values, at.v)]
  /\ Return(TRUE, ram.startIndex)
  /\ UNCHANGED <<dbType, index, sound, flushed, begun>>

(* updateBlock, which also counts one more block; the value is read again, *)
(* which empties the buffer.                                               *)
UpdateBlock ==
  /\ at.step = "write data" /\ dbType = "fixed"
  /\ \/ /\ at.slot < ram.total
        /\ block' = [block EXCEPT ![at.slot] = at.v]
        /\ stored' = stored \cup {at.v}
        /\ flushed' = TRUE
        /\ ram' = [ram EXCEPT !.startIndex = Following(at.slot),
                              !.values = Shift(ram.values, at.v),
                              !.total = ram.total + 1]
        /\ UNCHANGED failed
     \/ /\ ram' = [ram EXCEPT !.startIndex = Following(at.slot)]
        /\ failed' = TRUE
        /\ UNCHANGED <<block, stored, flushed>>
  /\ at' = Idle
  /\ UNCHANGED <<dbType, index, sound, begun>>

(* open, where it succeeds: db.index can be read, data.db is sound. *)
Open ==
  /\ at = Idle /\ ~ram.opened
  /\ index \in Nat /\ sound
  /\ ram' = [opened |-> TRUE, startIndex |-> index, values |-> Reads(index),
             total |-> IF dbType = "fixed" THEN Cardinality(Present) ELSE 0]
  /\ failed' = FALSE
  /\ UNCHANGED <<dbType, index, block, sound, flushed, at, begun, stored>>

Close ==
  /\ at = Idle /\ ram.opened
  /\ ram' = Closed
  /\ flushed' = TRUE
  /\ UNCHANGED <<dbType, index, block, sound, at, begun, stored, failed>>

(* The program stops.  Of a buffer that was not written, the file has got  *)
(* some blocks, and perhaps part of one.                                   *)
Crash ==
  /\ ram' = Closed
  /\ at' = Idle
  /\ flushed' = TRUE
  /\ IF flushed THEN UNCHANGED <<block, sound>>
     ELSE /\ \E n \in 0..N :
               block' = [s \in Slots |-> IF s < n THEN block[s] ELSE NoData]
          /\ sound' \in BOOLEAN
  /\ UNCHANGED <<dbType, index, begun, stored, failed>>
-----------------------------------------------------------------------------
Next ==
  \/ Create
  \/ CreateBuffer
  \/ CreateBlocks
  \/ Write
  \/ OpenDataFile
  \/ OpenFails
  \/ OpenIndexFile
  \/ WriteIndex
  \/ WriteDataFile
  \/ UpdateBlock
  \/ Open
  \/ Close
  \/ Crash

Spec == Init /\ [][Next]_vars
-----------------------------------------------------------------------------
(* The types of the files, of the object and of the history.               *)
TypeOK ==
  /\ dbType \in {"files", "fixed"}
  /\ index \in Slots \cup {Absent, Empty}
  /\ block \in [Slots -> Values \cup {NoData}]
  /\ sound \in BOOLEAN
  /\ flushed \in BOOLEAN
  /\ ram \in [opened : BOOLEAN, startIndex : Slots, total : Nat,
              values : [1..N -> Values \cup {NoData}] \cup {<<>>}]
  /\ ram.opened => ram.values \in [1..N -> Values \cup {NoData}]
  /\ at \in [step : {"idle", "create", "blocks", "data", "index",
                     "write index", "write data"},
             slot : Slots, v : Values, fill : 0..N]
  /\ begun \in 0..MaxWrites
  /\ stored \in SUBSET (1..MaxWrites)
  /\ failed \in BOOLEAN

(* What valueAt returns is what a new start of the program would read from *)
(* the files, as long as no operation on a file has failed: the two copies *)
(* of the circular buffer turn together.                                   *)
MemoryIsDisk ==
  at = Idle /\ ram.opened /\ ~failed =>
    /\ index = ram.startIndex
    /\ ram.values = Reads(index)

(* A value that was stored stays among the values, in the order of         *)
(* writing, until N later writes have begun, whatever happens to them and  *)
(* wherever the program stops, as long as db.index can be read at all.     *)
StoredStay ==
  index \in Nat /\ sound =>
    LET recent == {w \in stored : begun - w < N}
        place(w) == {k \in 1..N : BlockOf(index, k) = w}
    IN  /\ \A w \in recent : place(w) # {}
        /\ \A w, x \in recent : w < x =>
             \A j \in place(w), k \in place(x) : j < k
=============================================================================
