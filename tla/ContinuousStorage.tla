--------------------------- MODULE ContinuousStorage ---------------------------
(***************************************************************************)
(* The storage that keeps every value of a sensor: the file data.db and,   *)
(* if it was asked for, index.db, with the time and the position of every  *)
(* value.  The program may stop between any two writes, and a write to the *)
(* index may fail, which writeSensorValue does not notice.                 *)
(***************************************************************************)
EXTENDS Integers, Sequences, BlockFiles

CONSTANTS
  Times,       \* the times of the values
  MaxValues,   \* bound: values written
  MaxFaults    \* bound: stops, and failures of a write to the index

ASSUME ConstantsAssumption ==
  /\ Times \subseteq Nat \ {0}
  /\ MaxValues \in Nat /\ MaxFaults \in Nat

VARIABLES
  fixed,     \* the values have one size: fbDb is used, otherwise cbDb
  settings,  \* metadata.ini: "none", "plain", "indexed" (db_type, gt_index)
  data,      \* data.db
  dataDrv,   \* fbDb or cbDb
  index,     \* index.db
  indDrv,    \* the driver inside indDb
  loaded,    \* times and dbIndexes of indDb
  opened,
  hasIndex,  \* mHasGTIndex
  at,        \* what create or writeSensorValue is about to do
  accepted,  \* history: how many values were written
  faults     \* history: stops and failures so far

files   == <<settings, data, index>>
drivers == <<dataDrv, indDrv, loaded>>
vars == <<fixed, settings, data, dataDrv, index, indDrv, loaded, opened,
          hasIndex, at, accepted, faults>>

Stored  == [v : 1..MaxValues, ts : Times]
Entries == [ts : Times \cup {0}, at : Nat]

Idle == [step |-> "idle", ts |-> 0]
Then(step, ts) == [step |-> step, ts |-> ts]
-----------------------------------------------------------------------------
Init ==
  /\ fixed \in BOOLEAN
  /\ settings = "none"
  /\ data = NoFile /\ index = NoFile
  /\ dataDrv = Closed /\ indDrv = Closed
  /\ loaded = <<>>
  /\ opened = FALSE
  /\ hasIndex = FALSE
  /\ at = Idle
  /\ accepted = 0
  /\ faults = 0

(* mutant: the settings are saved before the index is there. *)
CreateDataAndSettings ==
  /\ at = Idle /\ ~opened
  /\ CanCreate(data, dataDrv)
  /\ data' = Created
  /\ dataDrv' = NewDriver
  /\ hasIndex' \in BOOLEAN
  /\ settings' = IF hasIndex' THEN "indexed" ELSE "plain"
  /\ at' = Then(IF hasIndex' THEN "create index" ELSE "save", 0)
  /\ UNCHANGED <<fixed, index, indDrv, loaded, opened, accepted, faults>>

(* createAs...Db: data.db, then index.db, then the settings. *)
CreateData ==
  /\ at = Idle /\ ~opened
  /\ CanCreate(data, dataDrv)
  /\ data' = Created
  /\ dataDrv' = NewDriver
  /\ hasIndex' \in BOOLEAN
  /\ at' = Then(IF hasIndex' THEN "create index" ELSE "save", 0)
  /\ UNCHANGED <<fixed, settings, index, indDrv, loaded, opened, accepted, faults>>

CreateIndex ==
  /\ at.step = "create index"
  /\ CanCreate(index, indDrv)
  /\ index' = Created
  /\ indDrv' = NewDriver
  /\ at' = Then("save", 0)
  /\ UNCHANGED <<fixed, settings, data, dataDrv, loaded, opened, hasIndex,
                 accepted, faults>>

SaveSettings ==
  /\ at.step = "save"
  /\ settings' = IF hasIndex THEN "indexed" ELSE "plain"
  /\ opened' = TRUE
  /\ at' = Idle
  /\ UNCHANGED <<fixed, data, dataDrv, index, indDrv, loaded, hasIndex,
                 accepted, faults>>

(* writeSensorValue: the block, *)
WriteValue(ts) ==
  /\ at = Idle /\ opened
  /\ accepted < MaxValues
  /\ data' = Written(data, dataDrv, [v |-> accepted + 1, ts |-> ts])
  /\ dataDrv' = AfterWrite(dataDrv)
  /\ accepted' = accepted + 1
  /\ at' = IF hasIndex THEN Then("add", ts) ELSE Idle
  /\ UNCHANGED <<fixed, settings, index, indDrv, loaded, opened, hasIndex, faults>>

(* mutant: the block's number, counted from 1. *)
PositionFromOne == dataDrv.count

(* append(ts, blocksCount() - 1) *)
Position == dataDrv.count - 1

(* indDb->append: a block of zeros, its time, its position.  Each seek     *)
(* empties the buffer of index.db; that of data.db stays as it is.         *)
IndexAdd ==
  /\ at.step = "add"
  /\ index' = Written(index, indDrv, [ts |-> 0, at |-> 0])
  /\ indDrv' = AfterWrite(indDrv)
  /\ at' = Then("time", at.ts)
  /\ UNCHANGED <<fixed, settings, data, dataDrv, loaded, opened, hasIndex,
                 accepted, faults>>

IndexTime ==
  /\ at.step = "time"
  /\ index' = Noted(index, indDrv, [ts |-> at.ts, at |-> 0])
  /\ at' = Then("position", at.ts)
  /\ UNCHANGED <<fixed, settings, data, drivers, opened, hasIndex, accepted, faults>>

IndexPosition ==
  /\ at.step = "position"
  /\ index' = Noted(index, indDrv, [ts |-> at.ts, at |-> Position])
  /\ loaded' = Append(loaded, [ts |-> at.ts, at |-> Position])
  /\ at' = Idle
  /\ UNCHANGED <<fixed, settings, data, dataDrv, indDrv, opened, hasIndex,
                 accepted, faults>>

(* append returns false: the value counts as written all the same. *)
IndexFails ==
  /\ at.step \in {"add", "time", "position"} /\ faults < MaxFaults
  /\ faults' = faults + 1
  /\ indDrv' = [indDrv EXCEPT !.late = FALSE]
  /\ at' = Idle
  /\ UNCHANGED <<fixed, files, dataDrv, loaded, opened, hasIndex, accepted>>

(* valueAt: the seek empties the buffer. *)
ReadValue ==
  /\ at = Idle /\ opened /\ dataDrv.count > 0 /\ dataDrv.late
  /\ dataDrv' = [dataDrv EXCEPT !.late = FALSE]
  /\ UNCHANGED <<fixed, files, indDrv, loaded, opened, hasIndex, at, accepted, faults>>

(* close: the index stays open. *)
Close ==
  /\ at = Idle /\ opened
  /\ dataDrv' = Closed
  /\ opened' = FALSE
  /\ UNCHANGED <<fixed, files, indDrv, loaded, hasIndex, at, accepted, faults>>

(* open *)
Open ==
  /\ at = Idle /\ ~opened
  /\ settings # "none"
  /\ CanOpen(data, dataDrv)
  /\ dataDrv' = OpenDriver(data)
  /\ hasIndex' = (settings = "indexed")
  /\ hasIndex' => CanOpen(index, indDrv)
  /\ IF hasIndex' THEN indDrv' = OpenDriver(index) /\ loaded' = index.blocks
     ELSE UNCHANGED <<indDrv, loaded>>
  /\ opened' = TRUE
  /\ UNCHANGED <<fixed, files, at, accepted, faults>>

(* open, where the index cannot be opened: the data driver stays open. *)
OpenWithoutIndex ==
  /\ at = Idle /\ ~opened
  /\ settings = "indexed"
  /\ CanOpen(data, dataDrv) /\ ~CanOpen(index, indDrv)
  /\ dataDrv' = OpenDriver(data)
  /\ hasIndex' = TRUE
  /\ index' = Touched(index)
  /\ UNCHANGED <<fixed, settings, data, indDrv, loaded, opened, at, accepted, faults>>

(* The object is deleted, and made again by the next start: the buffers    *)
(* are written.                                                            *)
Restart ==
  /\ at = Idle
  /\ dataDrv' = Closed /\ indDrv' = Closed
  /\ loaded' = <<>>
  /\ opened' = FALSE
  /\ hasIndex' = FALSE
  /\ UNCHANGED <<fixed, files, at, accepted, faults>>

(* The program stops between creating data.db and writing its header. *)
StopInCreate ==
  /\ at = Idle /\ ~opened /\ faults < MaxFaults
  /\ CanCreate(data, dataDrv)
  /\ data' = Touched(data)
  /\ faults' = faults + 1
  /\ UNCHANGED <<fixed, settings, index, drivers, opened, hasIndex, at, accepted>>

(* What a stop leaves of the index: its last write was a new block, the    *)
(* time in it, or the position.                                            *)
IndexAfterStop ==
  CASE at.step = "time" -> AfterAppend(index, indDrv, TRUE)
    [] at.step = "position" ->
         AfterNote(index, indDrv, [ts |-> 0, at |-> 0])
    [] OTHER ->
         IF index.blocks = <<>> THEN {index}
         ELSE AfterNote(index, indDrv, [index.blocks[Len(index.blocks)] EXCEPT !.at = 0])

(* The program stops. *)
Crash ==
  /\ faults < MaxFaults
  /\ faults' = faults + 1
  /\ data' \in AfterAppend(data, dataDrv, fixed)
  /\ index' \in IndexAfterStop
  /\ dataDrv' = Closed /\ indDrv' = Closed
  /\ loaded' = <<>>
  /\ opened' = FALSE
  /\ hasIndex' = FALSE
  /\ at' = Idle
  /\ UNCHANGED <<fixed, settings, accepted>>
-----------------------------------------------------------------------------
Next ==
  \/ CreateData
  \/ CreateIndex
  \/ SaveSettings
  \/ \E ts \in Times : WriteValue(ts)
  \/ IndexAdd
  \/ IndexTime
  \/ IndexPosition
  \/ IndexFails
  \/ ReadValue
  \/ Close
  \/ Open
  \/ OpenWithoutIndex
  \/ Restart
  \/ StopInCreate
  \/ Crash

Spec == Init /\ [][Next]_vars
-----------------------------------------------------------------------------
(* mutant: the middle is taken for the last entry. *)
SearchKeepsEnd(times, ts) ==
  LET f[s \in 0..Len(times), e \in 0..Len(times)] ==
        IF e - s <= 1 THEN s
        ELSE LET mid == s + ((e - s) \div 2)
             IN  IF times[mid + 1] = ts THEN mid
                 ELSE IF times[mid + 1] < ts THEN f[mid, e] ELSE f[s, mid]
  IN  f[0, Len(times) - 1]

(* findIndex, for two entries at least: a search by halves, between an    *)
(* entry and a later one.                                                  *)
Spans(times) ==
  {w \in (0..(Len(times) - 1)) \X (0..(Len(times) - 1)) : w[1] < w[2]}

Search(times, ts) ==
  LET f[w \in Spans(times)] ==
        LET s   == w[1]
            e   == w[2]
            mid == s + ((e - s) \div 2)
        IN  IF e - s = 1 THEN (IF times[e + 1] = ts THEN e ELSE s)
            ELSE IF times[mid + 1] = ts THEN mid
            ELSE IF times[mid + 1] < ts THEN f[<<mid, e>>] ELSE f[<<s, mid>>]
  IN  f[<<0, Len(times) - 1>>]

LoadedTimes == [k \in 1..Len(loaded) |-> loaded[k].ts]

(* findInGTIndex, of an index that is not empty. *)
FindIndex(ts) ==
  IF Len(loaded) <= 1 THEN loaded[1].at ELSE Search(LoadedTimes, ts)
-----------------------------------------------------------------------------
(* The types of the files, of the drivers and of the object.               *)
TypeOK ==
  /\ fixed \in BOOLEAN /\ opened \in BOOLEAN /\ hasIndex \in BOOLEAN
  /\ settings \in {"none", "plain", "indexed"}
  /\ data \in FilesOf(Stored) /\ index \in FilesOf(Entries)
  /\ dataDrv \in Drivers /\ indDrv \in Drivers
  /\ loaded \in Seq(Entries)
  /\ at \in [step : {"idle", "create index", "save", "add", "time", "position"},
             ts : Times \cup {0}]
  /\ accepted \in 0..MaxValues
  /\ faults \in 0..MaxFaults

(* The driver that appends to data.db knows of every block in it, also in  *)
(* a file that a stop has cut short: no value is written over another.     *)
DriverKnowsFile ==
  dataDrv.opened =>
    /\ data.is = "whole"
    /\ dataDrv.count = Len(data.blocks)
    /\ indDrv.opened => indDrv.count = Len(index.blocks)

(* The settings, from which open() decides which files to open, are saved  *)
(* last: a stop within create() never leaves settings without their files. *)
SettingsHaveFiles ==
  settings # "none" =>
    /\ data.is \in {"whole", "broken"}
    /\ settings = "indexed" => index.is \in {"whole", "broken"}

(* Without a stop or a failure, entry k of the index is the time and the   *)
(* position of value k, in memory as in the file; every stop and every     *)
(* failure puts the index at most one entry out of step with the values:   *)
(* before them or behind them.                                             *)
IndexFollowsData ==
  opened /\ hasIndex /\ at = Idle =>
    /\ faults = 0 =>
         /\ loaded = index.blocks
         /\ loaded = [k \in 1..Len(data.blocks) |->
                        [ts |-> data.blocks[k].ts, at |-> k - 1]]
    /\ Len(index.blocks) <= Len(data.blocks) + faults
    /\ Len(data.blocks) <= Len(index.blocks) + faults

(* In an index whose times ascend, findInGTIndex finds an entry of the     *)
(* time asked for, if there is one; otherwise the last entry before it,    *)
(* the first one if there is none, or, behind the last entry, the last but *)
(* one.                                                                    *)
SearchFinds ==
  LET times == LoadedTimes
      sorted == \A i, j \in 1..Len(times) : i < j => times[i] <= times[j]
  IN  opened /\ hasIndex /\ Len(times) > 1 /\ sorted =>
        \A ts \in Times :
          LET p == FindIndex(ts) + 1
          IN  IF \E k \in 1..Len(times) : times[k] = ts THEN times[p] = ts
              ELSE /\ times[p] < ts \/ p = 1
                   /\ times[p + 1] > ts \/ p + 1 = Len(times)

(* Neither open() nor create() ever succeeds any more: a stop has left a   *)
(* file that ends within a block or has no header, or has come before the  *)
(* settings were saved.                                                    *)
Refused ==
  /\ at.step \notin {"create index", "save"}
  /\ data.is # "absent"
  /\ \/ data.is # "whole"
     \/ settings = "none"
     \/ settings = "indexed" /\ index.is # "whole"

(* No value is ever changed or lost but the one written last, until a stop *)
(* within that write, or within create(), leaves a file that open()        *)
(* refuses: the storage, as it can be read, implements ValueLog.           *)
Log == INSTANCE ValueLog WITH
  Values  <- Stored,
  Damaged <- Torn,
  log     <- IF Refused THEN <<>> ELSE data.blocks,
  durable <- IF Refused THEN 0
             ELSE IF dataDrv.late THEN Len(data.blocks) - 1
             ELSE Len(data.blocks),
  refused <- Refused

ImplementsValueLog == Log!Spec
=============================================================================
