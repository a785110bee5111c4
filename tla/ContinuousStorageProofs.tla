------------------------ MODULE ContinuousStorageProofs ------------------------
(***************************************************************************)
(* Proofs about ContinuousStorage, for any values, times, stops and        *)
(* failures: its invariants, and that it implements ValueLog.              *)
(***************************************************************************)
EXTENDS ContinuousStorage, SequenceTheorems, WellFoundedInduction,
        NaturalsInduction, TLAPS

(***************************************************************************)
(* What the drivers of BlockFiles do to a file, and what a stop leaves of  *)
(* it, for blocks of any kind.                                             *)
(***************************************************************************)
States == {"absent", "bare", "whole", "broken"}

LEMMA WrittenAppends ==
  ASSUME NEW B, NEW f \in [is : States, blocks : Seq(B)], NEW d \in Drivers, NEW b \in B,
         d.count = Len(f.blocks)
  PROVE  Written(f, d, b) = [f EXCEPT !.blocks = Append(f.blocks, b)]
<1> DEFINE s == f.blocks
           t == [i \in 1..(Len(s) + 1) |-> IF i = Len(s) + 1 THEN b ELSE s[i]]
<1>1. s \in Seq(B) /\ Len(s) \in Nat
  BY LenProperties
<1>2. t = Append(s, b)
  <2>1. \A i \in 1..(Len(s) + 1) : t[i] \in B
    BY <1>1, ElementOfSeq
  <2>2. t \in Seq(B)
    BY <1>1, <2>1
  <2>3. Append(s, b) \in Seq(B) /\ Len(Append(s, b)) = Len(s) + 1
    BY <1>1
  <2>4. Len(t) = Len(s) + 1
    BY <1>1
  <2>5. \A i \in 1..Len(t) : t[i] = Append(s, b)[i]
    BY <1>1, <2>4
  <2>. QED
    BY <2>2, <2>3, <2>4, <2>5, SeqEqual
<1>3. Written(f, d, b) = [f EXCEPT !.blocks = t]
  <2>1. (IF d.count < Len(f.blocks) THEN Len(f.blocks) ELSE d.count + 1) = Len(s) + 1
    BY <1>1
  <2>2. d.count + 1 = Len(s) + 1
    OBVIOUS
  <2>. QED
    BY <2>1, <2>2 DEF Written
<1>. QED
  BY <1>2, <1>3

LEMMA AfterWriteType ==
  ASSUME NEW d \in Drivers
  PROVE  /\ AfterWrite(d) \in Drivers
         /\ AfterWrite(d).opened = d.opened /\ AfterWrite(d).late
         /\ AfterWrite(d).count = d.count + 1
<1>1. d.count + 1 \in Nat
  BY DEF Drivers
<1>2. AfterWrite(d) \in Drivers
  BY <1>1 DEF AfterWrite, Drivers
<1>3. AfterWrite(d).opened = d.opened
  BY DEF AfterWrite, Drivers
<1>4. AfterWrite(d).late = TRUE
  BY DEF AfterWrite, Drivers
<1>5. AfterWrite(d).count = d.count + 1
  BY DEF AfterWrite, Drivers
<1>. QED
  BY <1>2, <1>3, <1>4, <1>5

LEMMA WrittenType ==
  ASSUME NEW B, NEW f \in [is : States, blocks : Seq(B)], NEW d \in Drivers, NEW b \in B,
         d.count = Len(f.blocks)
  PROVE  /\ Written(f, d, b) \in [is : States, blocks : Seq(B)]
         /\ Written(f, d, b).is = f.is
         /\ AfterWrite(d) \in Drivers /\ AfterWrite(d).opened = d.opened
         /\ AfterWrite(d).count = Len(Written(f, d, b).blocks)
         /\ Len(Written(f, d, b).blocks) = Len(f.blocks) + 1
<1>1. Len(f.blocks) \in Nat /\ f.blocks \in Seq(B)
  BY LenProperties
<1>2. Append(f.blocks, b) \in Seq(B) /\ Len(Append(f.blocks, b)) = Len(f.blocks) + 1
  BY <1>1
<1>3. /\ AfterWrite(d) \in Drivers /\ AfterWrite(d).opened = d.opened
      /\ AfterWrite(d).count = Len(f.blocks) + 1
  BY <1>1, AfterWriteType
<1>4. Written(f, d, b) = [is |-> f.is, blocks |-> Append(f.blocks, b)]
  BY WrittenAppends
<1>5. f.is \in States
  OBVIOUS
<1>. QED
  BY <1>2, <1>3, <1>4, <1>5

LEMMA NotedType ==
  ASSUME NEW B, NEW f \in [is : States, blocks : Seq(B)], NEW d \in Drivers, NEW b \in B,
         d.count = Len(f.blocks), d.count > 0
  PROVE  /\ Noted(f, d, b) \in [is : States, blocks : Seq(B)]
         /\ Noted(f, d, b).is = f.is
         /\ Len(Noted(f, d, b).blocks) = Len(f.blocks)
<1>1. d.count \in 1..Len(f.blocks)
  BY LenProperties DEF Drivers
<1>2. /\ [f.blocks EXCEPT ![d.count] = b] \in Seq(B)
      /\ Len([f.blocks EXCEPT ![d.count] = b]) = Len(f.blocks)
  BY <1>1, ExceptSeq
<1>3. Noted(f, d, b) = [f EXCEPT !.blocks = [f.blocks EXCEPT ![d.count] = b]]
  BY DEF Noted
<1>. QED
  BY <1>2, <1>3

(* What a stop leaves of a file. *)
LEMMA AppendLost ==
  ASSUME NEW B, NEW f \in [is : States, blocks : Seq(B)], NEW d \in Drivers,
         NEW whole \in BOOLEAN, whole \/ Torn \in B,
         d.late => f.is = "whole" /\ Len(f.blocks) > 0,
         NEW g \in AfterAppend(f, d, whole)
  PROVE  /\ g \in [is : States, blocks : Seq(B)]
         /\ g.is = f.is \/ (f.is = "whole" /\ g.is = "broken")
         /\ ~d.late => g = f
         /\ d.late => LET before == SubSeq(f.blocks, 1, Len(f.blocks) - 1)
                      IN  g.blocks \in {f.blocks, before, Append(before, Torn)}
<1> DEFINE before == SubSeq(f.blocks, 1, Len(f.blocks) - 1)
<1>1. f.blocks \in Seq(B) /\ f.is \in States
  OBVIOUS
<1>2. CASE ~d.late
  BY <1>1, <1>2 DEF AfterAppend
<1>3. CASE d.late
  <2>1. before \in Seq(B)
    <3>1. Len(f.blocks) - 1 \in Int /\ \A i \in 1..(Len(f.blocks) - 1) : f.blocks[i] \in B
      BY <1>1, ElementOfSeq, LenProperties
    <3>. QED
      BY <3>1, SubSeqProperties
  <2>2. ~whole => Append(before, Torn) \in Seq(B)
    BY <2>1
  <2>3. \/ g = f
        \/ g = [f EXCEPT !.blocks = before]
        \/ g = [is |-> "broken", blocks |-> before]
        \/ ~whole /\ g = [f EXCEPT !.blocks = Append(before, Torn)]
    BY <1>3 DEF AfterAppend
  <2>. HIDE DEF before
  <2>4. CASE g = f
    BY <1>1, <1>3, <2>4 DEF before
  <2>5. CASE g = [f EXCEPT !.blocks = before]
    <3>1. g = [is |-> f.is, blocks |-> before]
      BY <2>5
    <3>. QED
      BY <1>1, <1>3, <2>1, <3>1 DEF before
  <2>6. CASE g = [is |-> "broken", blocks |-> before]
    BY <1>1, <1>3, <2>1, <2>6 DEF States, before
  <2>7. CASE ~whole /\ g = [f EXCEPT !.blocks = Append(before, Torn)]
    <3>1. g = [is |-> f.is, blocks |-> Append(before, Torn)]
      BY <2>7
    <3>. QED
      BY <1>1, <1>3, <2>2, <2>7, <3>1 DEF before
  <2>. QED
    BY <2>3, <2>4, <2>5, <2>6, <2>7
<1>. QED
  BY <1>2, <1>3

LEMMA NoteLost ==
  ASSUME NEW B, NEW f \in [is : States, blocks : Seq(B)], NEW d \in Drivers, NEW old \in B,
         d.late => Len(f.blocks) > 0 /\ d.count = Len(f.blocks),
         NEW g \in AfterNote(f, d, old)
  PROVE  g \in [is : States, blocks : Seq(B)] /\ g.is = f.is
<1>1. CASE ~d.late
  BY <1>1 DEF AfterNote
<1>2. CASE d.late
  <2>1. g = f \/ g = Noted(f, d, old)
    BY <1>2 DEF AfterNote, Noted
  <2>2. d.count > 0
    BY <1>2
  <2>. QED
    BY <1>2, <2>1, <2>2, NotedType
<1>. QED
  BY <1>1, <1>2

(***************************************************************************)
(* The inductive invariant.  Types: as TypeOK, but no entry of the index   *)
(* is ever torn.  DriversFit: an open driver knows its file, to the last   *)
(* block, and only an open driver has something in its buffer.  Steps:     *)
(* what is open at every step of create and writeSensorValue, and that     *)
(* there is the block that the next step changes.                          *)
(***************************************************************************)
DataFile  == [is : States, blocks : Seq(Stored \cup {Torn})]
IndexFile == [is : States, blocks : Seq(Entries)]
AtType == [step : {"idle", "create index", "save", "add", "time", "position"},
           ts : Times \cup {0}]

Types ==
  /\ fixed \in BOOLEAN /\ opened \in BOOLEAN /\ hasIndex \in BOOLEAN
  /\ settings \in {"none", "plain", "indexed"}
  /\ data \in DataFile /\ index \in IndexFile
  /\ dataDrv \in Drivers /\ indDrv \in Drivers
  /\ loaded \in Seq(Entries)
  /\ at \in AtType
  /\ accepted \in 0..MaxValues
  /\ faults \in 0..MaxFaults

DriversFit ==
  /\ dataDrv.opened => data.is = "whole" /\ dataDrv.count = Len(data.blocks)
  /\ indDrv.opened => index.is = "whole" /\ indDrv.count = Len(index.blocks)
  /\ dataDrv.late => dataDrv.opened /\ Len(data.blocks) > 0
  /\ indDrv.late => indDrv.opened /\ Len(index.blocks) > 0

NoBlocks == data.is \in {"absent", "bare"} => data.blocks = <<>>

Steps ==
  /\ opened => dataDrv.opened /\ (hasIndex => indDrv.opened)
  /\ at.step \in {"create index", "save"} => ~opened /\ dataDrv.opened
  /\ at.step = "create index" => hasIndex
  /\ at.step = "save" /\ hasIndex => indDrv.opened
  /\ at.step \in {"add", "time", "position"} => opened /\ hasIndex /\ Len(data.blocks) > 0
  /\ at.step \in {"time", "position"} => Len(index.blocks) > 0

IInv == Types /\ DriversFit /\ NoBlocks /\ Steps /\ SettingsHaveFiles

LEMMA Bounds == MaxValues \in Nat /\ MaxFaults \in Nat /\ Times \subseteq Nat \ {0}
BY ConstantsAssumption

LEMMA TypesAreOK == Types => TypeOK
<1>. SUFFICES ASSUME Types PROVE TypeOK
  OBVIOUS
<1>1. data \in FilesOf(Stored)
  BY DEF Types, DataFile, FilesOf, States
<1>2. index \in FilesOf(Entries)
  <2>1. Seq(Entries) \subseteq Seq(Entries \cup {Torn})
    BY SeqMonotonic
  <2>. QED
    BY <2>1 DEF Types, IndexFile, FilesOf, States
<1>. QED
  BY <1>1, <1>2 DEF Types, TypeOK, AtType

(* Files and drivers that were just made. *)
LEMMA Fresh ==
  /\ <<>> \in Seq(Entries) /\ Len(<<>>) = 0
  /\ NoFile \in DataFile /\ NoFile \in IndexFile
  /\ Created \in DataFile /\ Created \in IndexFile
  /\ NoFile.is = "absent" /\ NoFile.blocks = <<>>
  /\ Created.is = "whole" /\ Created.blocks = <<>>
  /\ Closed \in Drivers /\ ~Closed.opened /\ ~Closed.late
  /\ NewDriver \in Drivers /\ NewDriver.opened /\ ~NewDriver.late /\ NewDriver.count = 0
  /\ Idle \in AtType /\ Idle.step = "idle"
<1>1. <<>> \in Seq(Stored \cup {Torn}) /\ <<>> \in Seq(Entries) /\ Len(<<>>) = 0
  BY EmptySeq
<1>. QED
  BY <1>1 DEF NoFile, Created, Closed, NewDriver, Idle, DataFile, IndexFile, States,
              Drivers, AtType

LEMMA InitInv == Init => IInv
<1>. SUFFICES ASSUME Init PROVE IInv
  OBVIOUS
<1>1. 0 \in 0..MaxValues /\ 0 \in 0..MaxFaults
  BY Bounds
<1>2. Types
  BY <1>1, Fresh DEF Init, Types
<1>. QED
  BY <1>2, Fresh DEF Init, IInv, DriversFit, NoBlocks, Steps, SettingsHaveFiles

LEMMA CreateInv == IInv /\ (CreateData \/ CreateIndex \/ SaveSettings) => IInv'
<1>. SUFFICES ASSUME IInv, CreateData \/ CreateIndex \/ SaveSettings PROVE IInv'
  OBVIOUS
<1>1. CASE CreateData
  <2>1. at' \in AtType /\ at'.step = IF hasIndex' THEN "create index" ELSE "save"
    BY <1>1 DEF CreateData, Then, AtType
  <2>2. data.is = "absent" /\ settings = "none"
    BY <1>1 DEF CreateData, CanCreate, IInv, SettingsHaveFiles
  <2>3. Types'
    BY <1>1, <2>1, Fresh DEF CreateData, IInv, Types
  <2>. QED
    BY <1>1, <2>1, <2>2, <2>3, Fresh
       DEF CreateData, IInv, DriversFit, NoBlocks, Steps, SettingsHaveFiles, Then
<1>2. CASE CreateIndex
  <2>1. at' \in AtType /\ at'.step = "save"
    BY <1>2 DEF CreateIndex, Then, AtType
  <2>2. Types'
    BY <1>2, <2>1, Fresh DEF CreateIndex, IInv, Types
  <2>. QED
    BY <1>2, <2>1, <2>2, Fresh
       DEF CreateIndex, IInv, DriversFit, NoBlocks, Steps, SettingsHaveFiles
<1>3. CASE SaveSettings
  <2>1. Types'
    BY <1>3, Fresh DEF SaveSettings, IInv, Types
  <2>. QED
    BY <1>3, <2>1, Fresh
       DEF SaveSettings, IInv, Types, DriversFit, NoBlocks, Steps, SettingsHaveFiles
<1>. QED
  BY <1>1, <1>2, <1>3

(* writeSensorValue, up to the end or a failure of the index. *)
LEMMA WriteInv ==
  IInv /\ ((\E ts \in Times : WriteValue(ts)) \/ IndexAdd \/ IndexTime \/ IndexPosition
           \/ IndexFails) => IInv'
<1>. SUFFICES ASSUME IInv,
                     (\E ts \in Times : WriteValue(ts)) \/ IndexAdd \/ IndexTime
                       \/ IndexPosition \/ IndexFails
              PROVE  IInv'
  OBVIOUS
<1>0. /\ data \in DataFile /\ index \in IndexFile /\ dataDrv \in Drivers /\ indDrv \in Drivers
      /\ Len(data.blocks) \in Nat /\ Len(index.blocks) \in Nat
  BY LenProperties DEF IInv, Types, DataFile, IndexFile
<1>1. ASSUME NEW ts \in Times, WriteValue(ts) PROVE IInv'
  <2> DEFINE b == [v |-> accepted + 1, ts |-> ts]
  <2>1. b \in Stored \cup {Torn} /\ accepted + 1 \in 0..MaxValues
    BY <1>1, Bounds DEF WriteValue, IInv, Types, Stored
  <2>2. dataDrv.opened /\ dataDrv.count = Len(data.blocks)
    BY <1>1 DEF WriteValue, IInv, DriversFit, Steps
  <2>. HIDE DEF b
  <2>3. data' = Written(data, dataDrv, b) /\ dataDrv' = AfterWrite(dataDrv)
    BY <1>1 DEF WriteValue, b
  <2>4. /\ data' \in DataFile /\ data'.is = data.is /\ dataDrv' \in Drivers
        /\ dataDrv'.opened /\ dataDrv'.count = Len(data'.blocks)
        /\ Len(data'.blocks) = Len(data.blocks) + 1
    <3> DEFINE B == Stored \cup {Torn}
    <3>1. data \in [is : States, blocks : Seq(B)] /\ b \in B
      BY <1>0, <2>1 DEF DataFile
    <3>2. DataFile = [is : States, blocks : Seq(B)]
      BY DEF DataFile
    <3>. HIDE DEF B
    <3>. QED
      BY <1>0, <2>2, <2>3, <3>1, <3>2, WrittenType
  <2>5. at' \in AtType /\ at'.step = IF hasIndex THEN "add" ELSE "idle"
    BY <1>1, Fresh DEF WriteValue, Then, AtType
  <2>6. Types'
    BY <1>1, <2>1, <2>4, <2>5 DEF WriteValue, IInv, Types
  <2>7. DriversFit'
    BY <1>0, <1>1, <2>2, <2>4 DEF WriteValue, IInv, DriversFit
  <2>8. NoBlocks' /\ SettingsHaveFiles'
    BY <1>1, <2>2, <2>4 DEF WriteValue, IInv, DriversFit, NoBlocks, SettingsHaveFiles
  <2>9. Steps'
    <3>1. opened' /\ (hasIndex' => indDrv'.opened)
      BY <1>1 DEF WriteValue, IInv, Steps
    <3>3. Len(data'.blocks) > 0
      BY <1>0, <2>4
    <3>2. at'.step = IF hasIndex' THEN "add" ELSE "idle"
      BY <1>1, <2>5 DEF WriteValue
    <3>. QED
      BY <2>4, <3>1, <3>2, <3>3 DEF Steps
  <2>. QED
    BY <2>6, <2>7, <2>8, <2>9 DEF IInv
<1>2. CASE IndexAdd
  <2> DEFINE b == [ts |-> 0, at |-> 0]
  <2>1. b \in Entries
    BY DEF Entries
  <2>2. indDrv.opened /\ indDrv.count = Len(index.blocks)
    BY <1>2 DEF IndexAdd, IInv, DriversFit, Steps
  <2>. HIDE DEF b
  <2>3. index' = Written(index, indDrv, b) /\ indDrv' = AfterWrite(indDrv)
    BY <1>2 DEF IndexAdd, b
  <2>4. /\ index' \in IndexFile /\ index'.is = index.is /\ indDrv' \in Drivers
        /\ indDrv'.opened /\ indDrv'.count = Len(index'.blocks)
        /\ Len(index'.blocks) = Len(index.blocks) + 1
    BY <1>0, <2>1, <2>2, <2>3, WrittenType DEF IndexFile
  <2>5. at' \in AtType /\ at'.step = "time"
    BY <1>2 DEF IndexAdd, IInv, Types, Then, AtType
  <2>6. Types'
    BY <1>2, <2>4, <2>5 DEF IndexAdd, IInv, Types
  <2>7. DriversFit'
    BY <1>0, <1>2, <2>2, <2>4 DEF IndexAdd, IInv, DriversFit
  <2>8. NoBlocks' /\ SettingsHaveFiles'
    BY <1>2, <2>4 DEF IndexAdd, IInv, NoBlocks, SettingsHaveFiles
  <2>9. Steps'
    <3>1. opened' /\ hasIndex' /\ dataDrv'.opened /\ Len(data'.blocks) > 0
      BY <1>2 DEF IndexAdd, IInv, Steps
    <3>2. Len(index'.blocks) > 0
      BY <1>0, <2>4
    <3>. QED
      BY <2>4, <2>5, <3>1, <3>2 DEF Steps
  <2>. QED
    BY <2>6, <2>7, <2>8, <2>9 DEF IInv
<1>3. ASSUME NEW b \in Entries, at.step \in {"time", "position"}, index' = Noted(index, indDrv, b)
      PROVE  /\ index' \in IndexFile /\ index'.is = index.is
             /\ Len(index'.blocks) = Len(index.blocks)
  <2>1. indDrv.count = Len(index.blocks) /\ indDrv.count > 0
    BY <1>0, <1>3 DEF IInv, DriversFit, Steps
  <2>. QED
    BY <1>0, <1>3, <2>1, NotedType DEF IndexFile
<1>4. CASE IndexTime
  <2>1. [ts |-> at.ts, at |-> 0] \in Entries
    BY DEF IInv, Types, AtType, Entries
  <2>2. /\ index' \in IndexFile /\ index'.is = index.is
        /\ Len(index'.blocks) = Len(index.blocks)
    BY <1>3, <1>4, <2>1 DEF IndexTime
  <2>3. at' \in AtType /\ at'.step = "position"
    BY <1>4 DEF IndexTime, IInv, Types, Then, AtType
  <2>4. Types'
    BY <1>4, <2>2, <2>3 DEF IndexTime, drivers, IInv, Types
  <2>. QED
    BY <1>4, <2>2, <2>3, <2>4
       DEF IndexTime, drivers, IInv, DriversFit, NoBlocks, Steps, SettingsHaveFiles
<1>5. CASE IndexPosition
  <2>1. Position \in Nat
    BY <1>0, <1>5 DEF IndexPosition, Position, IInv, DriversFit, Steps
  <2>2. [ts |-> at.ts, at |-> Position] \in Entries
    BY <2>1 DEF IInv, Types, AtType, Entries
  <2>3. /\ index' \in IndexFile /\ index'.is = index.is
        /\ Len(index'.blocks) = Len(index.blocks)
    BY <1>3, <1>5, <2>2 DEF IndexPosition
  <2>4. loaded' \in Seq(Entries)
    BY <1>5, <2>2 DEF IndexPosition, IInv, Types
  <2>5. Types'
    BY <1>5, <2>3, <2>4, Fresh DEF IndexPosition, IInv, Types
  <2>. QED
    BY <1>5, <2>3, <2>5, Fresh
       DEF IndexPosition, IInv, DriversFit, NoBlocks, Steps, SettingsHaveFiles
<1>6. CASE IndexFails
  <2>1. /\ indDrv' \in Drivers /\ indDrv'.opened = indDrv.opened
        /\ indDrv'.count = indDrv.count /\ ~indDrv'.late
    BY <1>0, <1>6 DEF IndexFails, Drivers
  <2>2. faults + 1 \in 0..MaxFaults
    BY <1>6, Bounds DEF IndexFails, IInv, Types
  <2>3. Types'
    BY <1>6, <2>1, <2>2, Fresh DEF IndexFails, files, IInv, Types
  <2>. QED
    BY <1>6, <2>1, <2>3, Fresh
       DEF IndexFails, files, IInv, DriversFit, NoBlocks, Steps, SettingsHaveFiles
<1>. QED
  BY <1>1, <1>2, <1>4, <1>5, <1>6

LEMMA OpenDriverType ==
  ASSUME NEW B, NEW f \in [is : States, blocks : Seq(B)]
  PROVE  /\ OpenDriver(f) \in Drivers
         /\ OpenDriver(f).opened /\ ~OpenDriver(f).late
         /\ OpenDriver(f).count = Len(f.blocks)
BY LenProperties DEF OpenDriver, Drivers

(* Reading, closing and opening. *)
LEMMA OpenInv == IInv /\ (ReadValue \/ Close \/ Open \/ OpenWithoutIndex) => IInv'
<1>. SUFFICES ASSUME IInv, ReadValue \/ Close \/ Open \/ OpenWithoutIndex PROVE IInv'
  OBVIOUS
<1>1. CASE ReadValue
  <2>1. /\ dataDrv' \in Drivers /\ dataDrv'.opened = dataDrv.opened
        /\ dataDrv'.count = dataDrv.count /\ ~dataDrv'.late
    BY <1>1 DEF ReadValue, IInv, Types, Drivers
  <2>2. Types'
    BY <1>1, <2>1 DEF ReadValue, files, IInv, Types
  <2>. QED
    BY <1>1, <2>1, <2>2
       DEF ReadValue, files, IInv, DriversFit, NoBlocks, Steps, SettingsHaveFiles
<1>2. CASE Close
  <2>1. Types'
    BY <1>2, Fresh DEF Close, files, IInv, Types
  <2>2. at'.step = "idle" /\ ~opened'
    BY <1>2, Fresh DEF Close
  <2>. QED
    BY <1>2, <2>1, <2>2, Fresh
       DEF Close, files, IInv, DriversFit, NoBlocks, Steps, SettingsHaveFiles
<1>3. CASE Open
  <2>1. /\ dataDrv' \in Drivers /\ dataDrv'.opened /\ ~dataDrv'.late
        /\ dataDrv'.count = Len(data.blocks)
    BY <1>3, OpenDriverType DEF Open, IInv, Types, DataFile
  <2>2. CASE hasIndex'
    <3>1. /\ indDrv' \in Drivers /\ indDrv'.opened /\ ~indDrv'.late
          /\ indDrv'.count = Len(index.blocks)
      BY <1>3, <2>2, OpenDriverType DEF Open, IInv, Types, IndexFile
    <3>2. loaded' \in Seq(Entries)
      BY <1>3, <2>2 DEF Open, IInv, Types, IndexFile
    <3>3. Types'
      BY <1>3, <2>1, <3>1, <3>2 DEF Open, files, IInv, Types
    <3>4. DriversFit'
      BY <1>3, <2>1, <2>2, <3>1 DEF Open, CanOpen, files, DriversFit
    <3>. QED
      BY <1>3, <2>1, <3>1, <3>3, <3>4, Fresh
         DEF Open, files, IInv, NoBlocks, Steps, SettingsHaveFiles
  <2>3. CASE ~hasIndex'
    <3>1. Types'
      BY <1>3, <2>1, <2>3 DEF Open, files, IInv, Types
    <3>2. DriversFit'
      BY <1>3, <2>1, <2>3 DEF Open, CanOpen, files, IInv, DriversFit
    <3>. QED
      BY <1>3, <2>1, <2>3, <3>1, <3>2, Fresh
         DEF Open, files, IInv, NoBlocks, Steps, SettingsHaveFiles
  <2>. QED
    BY <2>2, <2>3
<1>4. CASE OpenWithoutIndex
  <2>1. /\ dataDrv' \in Drivers /\ dataDrv'.opened /\ ~dataDrv'.late
        /\ dataDrv'.count = Len(data.blocks)
    BY <1>4, OpenDriverType DEF OpenWithoutIndex, IInv, Types, DataFile
  <2>2. index' = index
    BY <1>4 DEF OpenWithoutIndex, Touched, IInv, SettingsHaveFiles
  <2>3. Types'
    BY <1>4, <2>1, <2>2 DEF OpenWithoutIndex, IInv, Types
  <2>. QED
    BY <1>4, <2>1, <2>2, <2>3, Fresh
       DEF OpenWithoutIndex, CanOpen, IInv, DriversFit, NoBlocks, Steps, SettingsHaveFiles
<1>. QED
  BY <1>1, <1>2, <1>3, <1>4

(* The end of the program, between operations and within them. *)
LEMMA StopInv == IInv /\ (Restart \/ StopInCreate \/ Crash) => IInv'
<1>. SUFFICES ASSUME IInv, Restart \/ StopInCreate \/ Crash PROVE IInv'
  OBVIOUS
<1>1. CASE Restart
  <2>1. Types'
    BY <1>1, Fresh DEF Restart, files, IInv, Types
  <2>. QED
    BY <1>1, <2>1, Fresh
       DEF Restart, files, IInv, DriversFit, NoBlocks, Steps, SettingsHaveFiles
<1>2. CASE StopInCreate
  <2>1. /\ data.is = "absent" /\ data' = [data EXCEPT !.is = "bare"] /\ ~dataDrv.opened
    BY <1>2 DEF StopInCreate, CanCreate, Touched
  <2>2. data' \in DataFile /\ data'.is = "bare" /\ data'.blocks = data.blocks
    BY <2>1 DEF IInv, Types, DataFile, States
  <2>3. faults + 1 \in 0..MaxFaults
    BY <1>2, Bounds DEF StopInCreate, IInv, Types
  <2>4. Types'
    BY <1>2, <2>2, <2>3 DEF StopInCreate, drivers, IInv, Types
  <2>5. settings = "none"
    BY <2>1 DEF IInv, SettingsHaveFiles
  <2>. QED
    BY <1>2, <2>1, <2>2, <2>4, <2>5
       DEF StopInCreate, drivers, IInv, DriversFit, NoBlocks, Steps, SettingsHaveFiles
<1>3. CASE Crash
  <2>1. /\ data' \in DataFile
        /\ data'.is = data.is \/ (data.is = "whole" /\ data'.is = "broken")
        /\ ~dataDrv.late => data' = data
    <3> DEFINE B == Stored \cup {Torn}
    <3>1. DataFile = [is : States, blocks : Seq(B)] /\ Torn \in B
      BY DEF DataFile
    <3>. HIDE DEF B
    <3>2. /\ data \in [is : States, blocks : Seq(B)] /\ dataDrv \in Drivers /\ fixed \in BOOLEAN
          /\ data' \in AfterAppend(data, dataDrv, fixed)
          /\ dataDrv.late => data.is = "whole" /\ Len(data.blocks) > 0
      BY <1>3, <3>1 DEF Crash, IInv, Types, DriversFit
    <3>. QED
      BY <3>1, <3>2, AppendLost
  <2>2. index' \in IndexFile /\ (index'.is = index.is \/ (index.is = "whole" /\ index'.is = "broken"))
    <3>1. /\ index \in [is : States, blocks : Seq(Entries)] /\ indDrv \in Drivers
          /\ indDrv.late => index.is = "whole" /\ Len(index.blocks) > 0
                             /\ indDrv.count = Len(index.blocks)
      BY DEF IInv, Types, DriversFit, IndexFile
    <3>2. CASE at.step = "time"
      <4>1. index' \in AfterAppend(index, indDrv, TRUE)
        BY <1>3, <3>2 DEF Crash, IndexAfterStop
      <4>. QED
        BY <3>1, <4>1, AppendLost DEF IndexFile
    <3>3. CASE at.step = "position"
      <4>1. index' \in AfterNote(index, indDrv, [ts |-> 0, at |-> 0])
        BY <1>3, <3>3 DEF Crash, IndexAfterStop
      <4>2. [ts |-> 0, at |-> 0] \in Entries
        BY DEF Entries
      <4>. QED
        BY <3>1, <4>1, <4>2, NoteLost DEF IndexFile
    <3>4. CASE at.step \notin {"time", "position"}
      <4> DEFINE old == [index.blocks[Len(index.blocks)] EXCEPT !.at = 0]
      <4>1. index' = index \/ (index.blocks # <<>> /\ index' \in AfterNote(index, indDrv, old))
        BY <1>3, <3>4 DEF Crash, IndexAfterStop
      <4>2. ASSUME index.blocks # <<>> PROVE old \in Entries
        <5>1. Len(index.blocks) \in 1..Len(index.blocks)
          BY <3>1, <4>2, EmptySeq, LenProperties
        <5>2. index.blocks[Len(index.blocks)] \in Entries
          BY <3>1, <5>1, ElementOfSeq
        <5>. QED
          BY <5>2 DEF Entries
      <4>. HIDE DEF old
      <4>3. CASE index' = index
        BY <3>1, <4>3 DEF IndexFile
      <4>4. CASE index.blocks # <<>> /\ index' \in AfterNote(index, indDrv, old)
        BY <3>1, <4>2, <4>4, NoteLost DEF IndexFile
      <4>. QED
        BY <4>1, <4>3, <4>4
    <3>. QED
      BY <3>2, <3>3, <3>4
  <2>3. faults + 1 \in 0..MaxFaults
    BY <1>3, Bounds DEF Crash, IInv, Types
  <2>4. Types'
    BY <1>3, <2>1, <2>2, <2>3, Fresh DEF Crash, IInv, Types
  <2>5. NoBlocks'
    BY <2>1 DEF IInv, NoBlocks, DriversFit
  <2>6. SettingsHaveFiles'
    BY <1>3, <2>1, <2>2 DEF Crash, IInv, SettingsHaveFiles
  <2>. QED
    BY <1>3, <2>4, <2>5, <2>6, Fresh DEF Crash, IInv, DriversFit, Steps
<1>. QED
  BY <1>1, <1>2, <1>3

LEMMA NextInv == IInv /\ [Next]_vars => IInv'
<1>1. IInv /\ UNCHANGED vars => IInv'
  <2>. SUFFICES ASSUME IInv, UNCHANGED vars PROVE IInv'
    OBVIOUS
  <2>1. Types'
    BY DEF vars, IInv, Types
  <2>2. DriversFit'
    BY DEF vars, IInv, DriversFit
  <2>3. NoBlocks' /\ SettingsHaveFiles'
    BY DEF vars, IInv, NoBlocks, SettingsHaveFiles
  <2>4. Steps'
    BY DEF vars, IInv, Steps
  <2>. QED
    BY <2>1, <2>2, <2>3, <2>4 DEF IInv
<1>. QED
  BY <1>1, CreateInv, WriteInv, OpenInv, StopInv DEF Next

LEMMA Invariant == Spec => []IInv
BY InitInv, NextInv, PTL DEF Spec
-----------------------------------------------------------------------------
(***************************************************************************)
(* The properties.                                                         *)
(***************************************************************************)
(* The files, the drivers and the object of writeSensorValue, open and     *)
(* close always have their types; no value is cut but by a stop.           *)
THEOREM TypeCorrect == Spec => []TypeOK
<1>1. IInv => TypeOK
  BY TypesAreOK DEF IInv
<1>. QED
  BY <1>1, Invariant, PTL

(* The drivers of data.db and index.db know of every block in their files, *)
(* so that no write ever goes over a value (DBDriverFixedBlocks,           *)
(* DBDriverChainedBlocks).                                                 *)
THEOREM DriverCorrect == Spec => []DriverKnowsFile
<1>1. IInv => DriverKnowsFile
  BY DEF IInv, DriversFit, DriverKnowsFile
<1>. QED
  BY <1>1, Invariant, PTL

(* A stop within create() never leaves settings without the files that     *)
(* open() expects.                                                         *)
THEOREM SettingsCorrect == Spec => []SettingsHaveFiles
<1>1. IInv => SettingsHaveFiles
  BY DEF IInv
<1>. QED
  BY <1>1, Invariant, PTL

(***************************************************************************)
(* The index.  Settled: what the settings say is what open() does, and     *)
(* before there are settings nothing is stored.  Distance: how far the     *)
(* index may be from the values at each step, one stop or failure for      *)
(* every entry.  Exact: while there was none, the first Done entries, in   *)
(* the file and in memory, are those of the values; of the last value, the *)
(* time is still at hand.                                                  *)
(***************************************************************************)
Creating == at.step \in {"create index", "save"} => settings = "none"

Settled ==
  /\ opened /\ hasIndex => settings = "indexed"
  /\ opened /\ ~hasIndex => settings = "plain"
  /\ settings = "none" => data.blocks = <<>> /\ index.blocks = <<>> /\ loaded = <<>>
  /\ Creating

Adding == IF at.step = "add" THEN 1 ELSE 0

Distance ==
  settings = "indexed" =>
    /\ Len(index.blocks) + Adding <= Len(data.blocks) + faults
    /\ Len(data.blocks) <= Len(index.blocks) + Adding + faults

Done == IF at.step = "idle" THEN Len(data.blocks) ELSE Len(data.blocks) - 1
Entry(k) == [ts |-> data.blocks[k].ts, at |-> k - 1]

Exact ==
  settings = "indexed" /\ faults = 0 =>
    /\ Len(index.blocks) = Len(data.blocks) - Adding
    /\ \A k \in 1..Done : index.blocks[k] = Entry(k)
    /\ opened => Len(loaded) = Done /\ \A k \in 1..Done : loaded[k] = Entry(k)
    /\ at.step # "idle" => at.ts = data.blocks[Len(data.blocks)].ts

Indexed == Settled /\ Distance /\ Exact

LEMMA Lengths ==
  IInv => /\ Len(data.blocks) \in Nat /\ Len(index.blocks) \in Nat /\ Len(loaded) \in Nat
          /\ data.blocks \in Seq(Stored \cup {Torn}) /\ index.blocks \in Seq(Entries)
          /\ loaded \in Seq(Entries) /\ faults \in Nat
BY LenProperties, Bounds DEF IInv, Types, DataFile, IndexFile

LEMMA Counts ==
  IInv => /\ Len(data.blocks) \in Nat /\ Len(index.blocks) \in Nat /\ Len(loaded) \in Nat
          /\ faults \in Nat
BY Lengths

LEMMA IndexedInit == Init => Indexed
<1>. SUFFICES ASSUME Init PROVE Indexed
  OBVIOUS
<1>1. Creating
  BY Fresh DEF Init, Creating
<1>. QED
  BY <1>1, Fresh DEF Init, Indexed, Settled, Distance, Exact

(* Steps that leave the files, and forget at most what is in memory. *)
LEMMA IndexedQuiet ==
  ASSUME Indexed, data' = data, index' = index, settings' = settings,
         faults' = faults, at' = at,
         loaded' = loaded \/ loaded' = <<>>,
         opened' => opened /\ loaded' = loaded /\ hasIndex' = hasIndex
  PROVE  Indexed'
<1>1. Settled'
  <2>1. /\ opened' /\ hasIndex' => settings' = "indexed"
        /\ opened' /\ ~hasIndex' => settings' = "plain"
    BY DEF Indexed, Settled
  <2>2. settings' = "none" => data'.blocks = <<>> /\ index'.blocks = <<>> /\ loaded' = <<>>
    BY DEF Indexed, Settled
  <2>3. Creating'
    BY DEF Indexed, Settled, Creating
  <2>. QED
    BY <2>1, <2>2, <2>3 DEF Settled
<1>2. Distance'
  BY DEF Indexed, Distance, Adding
<1>3. Exact'
  <2>1. Done' = Done /\ Adding' = Adding /\ \A k : Entry(k)' = Entry(k)
    BY DEF Done, Adding, Entry
  <2>. QED
    BY <2>1 DEF Indexed, Exact
<1>. QED
  BY <1>1, <1>2, <1>3 DEF Indexed

LEMMA IndexedCreate ==
  ASSUME IInv, Indexed, CreateData \/ CreateIndex \/ SaveSettings
  PROVE  Indexed'
<1>1. settings = "none" /\ ~opened
  <2>1. CASE CreateData
    <3>1. data.is = "absent" /\ ~opened
      BY <2>1 DEF CreateData, CanCreate
    <3>. QED
      BY <3>1 DEF IInv, SettingsHaveFiles
  <2>2. CASE CreateIndex \/ SaveSettings
    <3>1. at.step \in {"create index", "save"}
      BY <2>2 DEF CreateIndex, SaveSettings
    <3>. QED
      BY <3>1 DEF IInv, Steps, Indexed, Settled, Creating
  <2>. QED
    BY <2>1, <2>2
<1>2. /\ data'.blocks = <<>> /\ index'.blocks = <<>> /\ loaded' = <<>> /\ faults' = faults
  <2>1. data.blocks = <<>> /\ index.blocks = <<>> /\ loaded = <<>>
    BY <1>1 DEF Indexed, Settled
  <2>2. (data' = data \/ data' = Created) /\ (index' = index \/ index' = Created)
    BY DEF CreateData, CreateIndex, SaveSettings
  <2>3. loaded' = loaded /\ faults' = faults
    BY DEF CreateData, CreateIndex, SaveSettings
  <2>. QED
    BY <2>1, <2>2, <2>3, Fresh
<1>3. CASE CreateData \/ CreateIndex
  <2>1. settings' = settings /\ opened' = opened
    BY <1>3 DEF CreateData, CreateIndex
  <2>2. Settled'
    BY <1>1, <1>2, <2>1 DEF Settled, Creating
  <2>3. Distance' /\ Exact'
    BY <1>1, <2>1 DEF Distance, Exact
  <2>. QED
    BY <2>2, <2>3 DEF Indexed
<1>4. CASE SaveSettings
  <2>1. at'.step = "idle" /\ settings' = IF hasIndex' THEN "indexed" ELSE "plain"
    BY <1>4, Fresh DEF SaveSettings
  <2>2. Settled'
    BY <2>1 DEF Settled, Creating
  <2>3. Done' = 0 /\ Adding' = 0
    BY <1>2, <2>1, Fresh DEF Done, Adding
  <2>. QED
    BY <1>2, <2>1, <2>2, <2>3, Fresh, Lengths DEF Indexed, Distance, Exact
<1>. QED
  BY <1>3, <1>4

LEMMA IndexedWrite ==
  ASSUME IInv, Indexed, NEW ts \in Times, WriteValue(ts)
  PROVE  Indexed'
<1> DEFINE b == [v |-> accepted + 1, ts |-> ts]
           B == Stored \cup {Torn}
<1>1. b \in Stored /\ b.ts = ts
  BY Bounds DEF WriteValue, IInv, Types, Stored
<1>. HIDE DEF b
<1>2. /\ data \in [is : States, blocks : Seq(B)] /\ b \in B /\ dataDrv \in Drivers
      /\ dataDrv.count = Len(data.blocks)
  BY <1>1 DEF WriteValue, IInv, Types, DataFile, DriversFit, Steps
<1>. HIDE DEF B
<1>3. data' = [data EXCEPT !.blocks = Append(data.blocks, b)]
  <2>1. data' = Written(data, dataDrv, b)
    BY DEF WriteValue, b
  <2>. QED
    BY <1>2, <2>1, WrittenAppends
<1>4. data'.blocks = Append(data.blocks, b)
  BY <1>2, <1>3
<1>5. /\ Len(data'.blocks) = Len(data.blocks) + 1
      /\ data'.blocks[Len(data'.blocks)] = b
      /\ \A k \in 1..Len(data.blocks) : data'.blocks[k] = data.blocks[k]
  BY <1>2, <1>4, AppendProperties, LenProperties
<1>6. /\ opened /\ opened' /\ hasIndex' = hasIndex /\ settings' = settings /\ index' = index
      /\ loaded' = loaded /\ faults' = faults /\ at.step = "idle"
  BY Fresh DEF WriteValue
<1>7. at'.step = (IF hasIndex THEN "add" ELSE "idle") /\ (hasIndex => at'.ts = ts)
  BY Fresh DEF WriteValue, Then
<1>8. Settled'
  <2>1. Creating'
    BY <1>7 DEF Creating
  <2>. QED
    BY <1>6, <2>1 DEF Indexed, Settled
<1>9. CASE ~hasIndex
  <2>1. settings' = "plain"
    BY <1>6, <1>9 DEF Indexed, Settled
  <2>2. Distance' /\ Exact'
    BY <2>1 DEF Distance, Exact
  <2>. QED
    BY <1>8, <2>2 DEF Indexed
<1>10. CASE hasIndex
  <2>1. Adding = 0 /\ Adding' = 1 /\ Done = Len(data.blocks) /\ Done' = Len(data.blocks)
    BY <1>2, <1>5, <1>6, <1>7, <1>10, Lengths DEF Adding, Done
  <2>2. \A k \in 1..Done : Entry(k)' = Entry(k)
    BY <1>5, <2>1 DEF Entry
  <2>3. settings = "indexed"
    BY <1>6, <1>10 DEF Indexed, Settled
  <2>4. Distance'
    <3>1. /\ Len(index.blocks) <= Len(data.blocks) + faults
          /\ Len(data.blocks) <= Len(index.blocks) + faults
      BY <2>1, <2>3, Counts DEF Indexed, Distance
    <3>2. /\ Len(index'.blocks) + 1 <= Len(data'.blocks) + faults'
          /\ Len(data'.blocks) <= Len(index'.blocks) + 1 + faults'
      <4>1. /\ Len(index'.blocks) = Len(index.blocks) /\ faults' = faults
            /\ Len(data'.blocks) = Len(data.blocks) + 1
        BY <1>5, <1>6
      <4>2. ASSUME NEW i \in Nat, NEW d \in Nat, NEW f \in Nat, i <= d + f, d <= i + f
            PROVE  i + 1 <= (d + 1) + f /\ d + 1 <= i + 1 + f
        BY <4>2
      <4>. QED
        BY <3>1, <4>1, <4>2, Counts
    <3>. QED
      BY <2>1, <3>2 DEF Distance
  <2>5. Exact'
    BY <1>1, <1>5, <1>6, <1>7, <1>10, <2>1, <2>2, <2>3, Lengths DEF Indexed, Exact
  <2>. QED
    BY <1>8, <2>4, <2>5 DEF Indexed
<1>. QED
  BY <1>9, <1>10

(* The entry of a value: a block, its time, its position. *)
LEMMA IndexedAdd ==
  ASSUME IInv, Indexed, IndexAdd
  PROVE  Indexed'
<1> DEFINE b == [ts |-> 0, at |-> 0]
<1>1. /\ index \in [is : States, blocks : Seq(Entries)] /\ b \in Entries /\ indDrv \in Drivers
      /\ indDrv.count = Len(index.blocks)
  BY DEF IndexAdd, IInv, Types, IndexFile, DriversFit, Steps, Entries
<1>2. index' = Written(index, indDrv, b)
  BY DEF IndexAdd
<1>. HIDE DEF b
<1>3. index'.blocks = Append(index.blocks, b)
  BY <1>1, <1>2, WrittenAppends
<1>4. /\ Len(index'.blocks) = Len(index.blocks) + 1
      /\ \A k \in 1..Len(index.blocks) : index'.blocks[k] = index.blocks[k]
  BY <1>1, <1>3, AppendProperties, LenProperties
<1>5. /\ opened /\ opened' /\ hasIndex /\ hasIndex' /\ settings' = settings /\ data' = data
      /\ loaded' = loaded /\ faults' = faults /\ at.step = "add"
  BY DEF IndexAdd, IInv, Steps
<1>6. at'.step = "time" /\ at'.ts = at.ts
  BY DEF IndexAdd, Then
<1>7. settings = "indexed"
  BY <1>5 DEF Indexed, Settled
<1>8. Settled'
  BY <1>5, <1>6, <1>7 DEF Settled, Creating
<1>9. Adding = 1 /\ Adding' = 0 /\ Done' = Done /\ Done = Len(data.blocks) - 1
  BY <1>5, <1>6 DEF Adding, Done
<1>10. \A k : Entry(k)' = Entry(k)
  BY <1>5 DEF Entry
<1>11. Distance'
  BY <1>4, <1>5, <1>7, <1>9, Counts DEF Indexed, Distance
<1>12. Exact'
  <2>. SUFFICES ASSUME faults = 0
                PROVE  /\ Len(index'.blocks) = Len(data'.blocks) - Adding'
                       /\ \A k \in 1..Done' : index'.blocks[k] = Entry(k)'
                       /\ Len(loaded') = Done' /\ \A k \in 1..Done' : loaded'[k] = Entry(k)'
                       /\ at'.ts = data'.blocks[Len(data'.blocks)].ts
    BY <1>5 DEF Exact
  <2>1. /\ Len(index.blocks) = Len(data.blocks) - 1
        /\ \A k \in 1..Done : index.blocks[k] = Entry(k)
        /\ Len(loaded) = Done /\ \A k \in 1..Done : loaded[k] = Entry(k)
        /\ at.ts = data.blocks[Len(data.blocks)].ts
    BY <1>5, <1>7, <1>9 DEF Indexed, Exact
  <2>2. Len(index'.blocks) = Len(data'.blocks) - Adding'
    BY <1>4, <1>5, <1>9, <2>1, Counts
  <2>. QED
    BY <1>4, <1>5, <1>6, <1>9, <1>10, <2>1, <2>2
<1>. QED
  BY <1>8, <1>11, <1>12 DEF Indexed

LEMMA NotedLast ==
  ASSUME IInv, at.step \in {"time", "position"}, NEW b \in Entries,
         index' = Noted(index, indDrv, b)
  PROVE  /\ Len(index'.blocks) = Len(index.blocks)
         /\ Len(index.blocks) > 0
         /\ index'.blocks[Len(index.blocks)] = b
         /\ \A k \in 1..(Len(index.blocks) - 1) : index'.blocks[k] = index.blocks[k]
<1>1. /\ index \in [is : States, blocks : Seq(Entries)] /\ indDrv \in Drivers
      /\ indDrv.count = Len(index.blocks) /\ Len(index.blocks) > 0
  BY DEF IInv, Types, IndexFile, DriversFit, Steps
<1>2. index'.blocks = [index.blocks EXCEPT ![Len(index.blocks)] = b]
  BY <1>1 DEF Noted
<1>3. Len(index.blocks) \in 1..Len(index.blocks)
  BY <1>1, LenProperties
<1>. QED
  BY <1>1, <1>2, <1>3, ExceptSeq, LenProperties

LEMMA IndexedTime ==
  ASSUME IInv, Indexed, IndexTime
  PROVE  Indexed'
<1> DEFINE b == [ts |-> at.ts, at |-> 0]
<1>1. b \in Entries
  BY DEF IInv, Types, AtType, Entries
<1>2. index' = Noted(index, indDrv, b) /\ at.step = "time"
  BY DEF IndexTime
<1>. HIDE DEF b
<1>3. /\ Len(index'.blocks) = Len(index.blocks)
      /\ \A k \in 1..(Len(index.blocks) - 1) : index'.blocks[k] = index.blocks[k]
  BY <1>1, <1>2, NotedLast
<1>4. /\ opened /\ opened' /\ hasIndex /\ hasIndex' /\ settings' = settings /\ data' = data
      /\ loaded' = loaded /\ faults' = faults
  BY <1>2 DEF IndexTime, drivers, IInv, Steps
<1>5. at'.step = "position" /\ at'.ts = at.ts
  BY DEF IndexTime, Then
<1>6. settings = "indexed"
  BY <1>4 DEF Indexed, Settled
<1>7. Settled'
  BY <1>4, <1>5, <1>6 DEF Settled, Creating
<1>8. Adding = 0 /\ Adding' = 0 /\ Done' = Done /\ Done = Len(data.blocks) - 1
  BY <1>2, <1>4, <1>5 DEF Adding, Done
<1>9. \A k : Entry(k)' = Entry(k)
  BY <1>4 DEF Entry
<1>10. Distance'
  BY <1>3, <1>4, <1>6, <1>8, Counts DEF Indexed, Distance
<1>11. Exact'
  <2>. SUFFICES ASSUME faults = 0
                PROVE  /\ Len(index'.blocks) = Len(data'.blocks) - Adding'
                       /\ \A k \in 1..Done' : index'.blocks[k] = Entry(k)'
                       /\ Len(loaded') = Done' /\ \A k \in 1..Done' : loaded'[k] = Entry(k)'
                       /\ at'.ts = data'.blocks[Len(data'.blocks)].ts
    BY <1>4 DEF Exact
  <2>1. /\ Len(index.blocks) = Len(data.blocks)
        /\ \A k \in 1..Done : index.blocks[k] = Entry(k)
        /\ Len(loaded) = Done /\ \A k \in 1..Done : loaded[k] = Entry(k)
        /\ at.ts = data.blocks[Len(data.blocks)].ts
    BY <1>2, <1>4, <1>6, <1>8, Lengths DEF Indexed, Exact
  <2>. QED
    BY <1>3, <1>4, <1>5, <1>8, <1>9, <2>1
<1>. QED
  BY <1>7, <1>10, <1>11 DEF Indexed

LEMMA IndexedPosition ==
  ASSUME IInv, Indexed, IndexPosition
  PROVE  Indexed'
<1> DEFINE b == [ts |-> at.ts, at |-> Len(data.blocks) - 1]
<1>1. Position = Len(data.blocks) - 1 /\ Len(data.blocks) - 1 \in Nat
  BY Lengths DEF IndexPosition, Position, IInv, DriversFit, Steps
<1>2. b \in Entries
  BY <1>1 DEF IInv, Types, AtType, Entries
<1>3. index' = Noted(index, indDrv, b) /\ loaded' = Append(loaded, b) /\ at.step = "position"
  BY <1>1 DEF IndexPosition
<1>. HIDE DEF b
<1>4. /\ Len(index'.blocks) = Len(index.blocks)
      /\ Len(index.blocks) > 0
      /\ index'.blocks[Len(index.blocks)] = b
      /\ \A k \in 1..(Len(index.blocks) - 1) : index'.blocks[k] = index.blocks[k]
  BY <1>2, <1>3, NotedLast
<1>5. /\ Len(loaded') = Len(loaded) + 1
      /\ loaded'[Len(loaded) + 1] = b
      /\ \A k \in 1..Len(loaded) : loaded'[k] = loaded[k]
  BY <1>2, <1>3, Lengths, AppendProperties
<1>6. /\ opened /\ opened' /\ hasIndex /\ hasIndex' /\ settings' = settings /\ data' = data
      /\ faults' = faults /\ at'.step = "idle"
  BY <1>3, Fresh DEF IndexPosition, IInv, Steps
<1>7. settings = "indexed"
  BY <1>6 DEF Indexed, Settled
<1>8. Settled'
  BY <1>6, <1>7 DEF Settled, Creating
<1>9. /\ Adding = 0 /\ Adding' = 0
      /\ Done' = Len(data.blocks) /\ Done = Len(data.blocks) - 1
  BY <1>3, <1>6 DEF Adding, Done
<1>10. \A k : Entry(k)' = Entry(k)
  BY <1>6 DEF Entry
<1>11. Distance'
  BY <1>4, <1>6, <1>7, <1>9, Counts DEF Indexed, Distance
<1>12. Exact'
  <2>. SUFFICES ASSUME faults = 0
                PROVE  /\ Len(index'.blocks) = Len(data'.blocks) - Adding'
                       /\ \A k \in 1..Done' : index'.blocks[k] = Entry(k)'
                       /\ Len(loaded') = Done' /\ \A k \in 1..Done' : loaded'[k] = Entry(k)'
    BY <1>6 DEF Exact
  <2>1. /\ Len(index.blocks) = Len(data.blocks)
        /\ \A k \in 1..Done : index.blocks[k] = Entry(k)
        /\ Len(loaded) = Done /\ \A k \in 1..Done : loaded[k] = Entry(k)
        /\ at.ts = data.blocks[Len(data.blocks)].ts
    BY <1>3, <1>6, <1>7, <1>9, Lengths DEF Indexed, Exact
  <2>2. b = Entry(Len(data.blocks))
    BY <2>1 DEF b, Entry
  <2>3. \A k \in 1..Done' : k \in 1..Done \/ k = Len(data.blocks)
    BY <1>1, <1>9, Lengths
  <2>4. Len(index'.blocks) = Len(data'.blocks) - Adding' /\ Len(loaded') = Done'
    BY <1>4, <1>5, <1>6, <1>9, <2>1, Lengths
  <2>5. ASSUME NEW k \in 1..Done' PROVE index'.blocks[k] = Entry(k)' /\ loaded'[k] = Entry(k)'
    <3>1. CASE k \in 1..Done
      BY <1>4, <1>5, <1>9, <1>10, <2>1, <3>1
    <3>2. CASE k = Len(data.blocks)
      BY <1>4, <1>5, <1>9, <1>10, <2>1, <2>2, <3>2, Lengths
    <3>. QED
      BY <2>3, <3>1, <3>2
  <2>. QED
    BY <2>4, <2>5
<1>. QED
  BY <1>8, <1>11, <1>12 DEF Indexed

LEMMA IndexedOpen ==
  ASSUME IInv, Indexed, Open
  PROVE  Indexed'
<1>1. /\ data' = data /\ index' = index /\ settings' = settings /\ faults' = faults
      /\ at' = at /\ at.step = "idle" /\ settings # "none"
      /\ hasIndex' = (settings = "indexed")
      /\ hasIndex' => loaded' = index.blocks
  BY Fresh DEF Open, files
<1>2. Settled'
  <2>1. settings \in {"plain", "indexed"}
    BY <1>1 DEF IInv, Types
  <2>2. Creating'
    BY <1>1 DEF Creating
  <2>. QED
    BY <1>1, <2>1, <2>2 DEF Settled
<1>3. Adding' = Adding /\ Done' = Done /\ \A k : Entry(k)' = Entry(k)
  BY <1>1 DEF Adding, Done, Entry
<1>4. Distance'
  BY <1>1, <1>3 DEF Indexed, Distance
<1>5. Exact'
  <2>. SUFFICES ASSUME settings = "indexed", faults = 0
                PROVE  /\ Len(index'.blocks) = Len(data'.blocks) - Adding'
                       /\ \A k \in 1..Done' : index'.blocks[k] = Entry(k)'
                       /\ Len(loaded') = Done' /\ \A k \in 1..Done' : loaded'[k] = Entry(k)'
                       /\ at'.step = "idle"
    BY <1>1 DEF Exact
  <2>1. /\ Len(index.blocks) = Len(data.blocks) - Adding
        /\ \A k \in 1..Done : index.blocks[k] = Entry(k)
    BY DEF Indexed, Exact
  <2>2. Adding = 0 /\ Done = Len(data.blocks) /\ loaded' = index.blocks
    BY <1>1 DEF Adding, Done
  <2>. QED
    BY <1>1, <1>3, <2>1, <2>2, Counts
<1>. QED
  BY <1>2, <1>4, <1>5 DEF Indexed

(* A failure, or a stop, costs one entry at most on either side. *)
LEMMA IndexedCut ==
  ASSUME IInv, Indexed, settings' = settings, faults' = faults + 1, at'.step = "idle",
         Len(data'.blocks) \in {Len(data.blocks), Len(data.blocks) - 1},
         \/ Len(index'.blocks) = Len(index.blocks)
         \/ at.step = "time" /\ Len(index'.blocks) = Len(index.blocks) - 1,
         data.blocks = <<>> => data'.blocks = <<>>,
         index.blocks = <<>> => index'.blocks = <<>>,
         loaded' = loaded \/ loaded' = <<>>,
         opened' => opened /\ hasIndex' = hasIndex
  PROVE  Indexed'
<1>1. Settled'
  <2>1. /\ opened' /\ hasIndex' => settings' = "indexed"
        /\ opened' /\ ~hasIndex' => settings' = "plain"
    BY DEF Indexed, Settled
  <2>2. settings' = "none" => data'.blocks = <<>> /\ index'.blocks = <<>> /\ loaded' = <<>>
    BY DEF Indexed, Settled
  <2>3. Creating'
    BY DEF Creating
  <2>. QED
    BY <2>1, <2>2, <2>3 DEF Settled
<1>2. Adding' = 0 /\ Adding \in {0, 1} /\ (at.step = "time" => Adding = 0)
  BY DEF Adding
<1>3. Distance'
  <2>. SUFFICES ASSUME settings = "indexed"
                PROVE  /\ Len(index'.blocks) <= Len(data'.blocks) + (faults + 1)
                       /\ Len(data'.blocks) <= Len(index'.blocks) + (faults + 1)
    <3>1. Len(index'.blocks) \in Int /\ Len(data'.blocks) \in Int
      BY Counts
    <3>. QED
      BY <1>2, <3>1 DEF Distance
  <2>1. /\ Len(index.blocks) + Adding <= Len(data.blocks) + faults
        /\ Len(data.blocks) <= Len(index.blocks) + Adding + faults
    BY DEF Indexed, Distance
  <2> DEFINE m == Len(index.blocks)
             n == Len(data.blocks)
             cutM == Len(index'.blocks)
             cutN == Len(data'.blocks)
  <2>2. m \in Nat /\ n \in Nat /\ faults \in Nat
    BY Counts
  <2>3. /\ cutM \in {m, m - 1} /\ cutN \in {n, n - 1}
        /\ cutM # m => Adding = 0
    BY <1>2
  <2>4. m + Adding <= n + faults /\ n <= m + Adding + faults
    BY <2>1
  <2>. HIDE DEF m, n, cutM, cutN
  <2>5. cutM <= cutN + (faults + 1) /\ cutN <= cutM + (faults + 1)
    BY <1>2, <2>2, <2>3, <2>4
  <2>. QED
    BY <2>5 DEF cutM, cutN
<1>4. Exact'
  BY Lengths DEF Exact
<1>. QED
  BY <1>1, <1>3, <1>4 DEF Indexed

LEMMA IndexedStop ==
  ASSUME IInv, Indexed, Crash
  PROVE  Indexed'
<1> DEFINE B == Stored \cup {Torn}
<1>1. /\ data \in [is : States, blocks : Seq(B)] /\ dataDrv \in Drivers /\ fixed \in BOOLEAN
      /\ Torn \in B /\ data' \in AfterAppend(data, dataDrv, fixed)
      /\ dataDrv.late => data.is = "whole" /\ Len(data.blocks) > 0
  BY DEF Crash, IInv, Types, DriversFit, DataFile
<1>. HIDE DEF B
<1>2. /\ Len(data'.blocks) \in {Len(data.blocks), Len(data.blocks) - 1}
      /\ data.blocks = <<>> => data'.blocks = <<>>
  <2>1. CASE ~dataDrv.late
    <3>1. data' = data
      BY <1>1, <2>1, AppendLost
    <3>. QED
      BY <3>1
  <2>2. CASE dataDrv.late
    <3> DEFINE before == SubSeq(data.blocks, 1, Len(data.blocks) - 1)
    <3>1. data'.blocks \in {data.blocks, before, Append(before, Torn)}
      BY <1>1, <2>2, AppendLost
    <3>2. before \in Seq(B) /\ Len(before) = Len(data.blocks) - 1
      <4>1. Len(data.blocks) - 1 \in Nat
            /\ \A i \in 1..(Len(data.blocks) - 1) : data.blocks[i] \in B
        BY <1>1, <2>2, ElementOfSeq, LenProperties
      <4>. QED
        BY <4>1, SubSeqProperties
    <3>. HIDE DEF before
    <3>3. Len(Append(before, Torn)) = Len(data.blocks)
      BY <1>1, <2>2, <3>2, LenProperties
    <3>4. data.blocks # <<>>
      BY <1>1, <2>2, EmptySeq
    <3>. QED
      BY <3>1, <3>2, <3>3, <3>4
  <2>. QED
    BY <2>1, <2>2
<1>3. /\ index \in [is : States, blocks : Seq(Entries)] /\ indDrv \in Drivers
      /\ indDrv.late => index.is = "whole" /\ Len(index.blocks) > 0
                         /\ indDrv.count = Len(index.blocks)
  BY DEF IInv, Types, DriversFit, IndexFile
<1>4. ASSUME NEW old \in Entries, index' \in AfterNote(index, indDrv, old)
      PROVE  Len(index'.blocks) = Len(index.blocks)
  <2>1. CASE ~indDrv.late
    BY <1>4, <2>1 DEF AfterNote
  <2>2. CASE indDrv.late
    <3>1. index' = index \/ index' = Noted(index, indDrv, old)
      BY <1>4, <2>2 DEF AfterNote, Noted
    <3>. QED
      BY <1>3, <2>2, <3>1, NotedType
  <2>. QED
    BY <2>1, <2>2
<1>5. CASE at.step = "time"
  <2>1. index' \in AfterAppend(index, indDrv, TRUE)
    BY <1>5 DEF Crash, IndexAfterStop
  <2>2. index' = index \/ index'.blocks = SubSeq(index.blocks, 1, Len(index.blocks) - 1)
    BY <1>3, <2>1 DEF AfterAppend
  <2>3. Len(index.blocks) > 0
    BY <1>5 DEF IInv, Steps
  <2>4. index.blocks # <<>>
    BY <2>3, EmptySeq
  <2>5. Len(SubSeq(index.blocks, 1, Len(index.blocks) - 1)) = Len(index.blocks) - 1
    <3>1. Len(index.blocks) - 1 \in Nat
          /\ \A i \in 1..(Len(index.blocks) - 1) : index.blocks[i] \in Entries
      BY <1>3, <2>3, ElementOfSeq, LenProperties
    <3>. QED
      BY <3>1, SubSeqProperties
  <2>6. Len(index'.blocks) \in {Len(index.blocks), Len(index.blocks) - 1}
    BY <2>2, <2>5
  <2>. QED
    BY <1>2, <1>5, <2>4, <2>6, IndexedCut, Fresh DEF Crash
<1>6. CASE at.step # "time"
  <2>1. Len(index'.blocks) = Len(index.blocks) /\ (index.blocks = <<>> => index'.blocks = <<>>)
    <3>1. CASE at.step = "position"
      <4>1. index' \in AfterNote(index, indDrv, [ts |-> 0, at |-> 0])
        BY <3>1 DEF Crash, IndexAfterStop
      <4>2. [ts |-> 0, at |-> 0] \in Entries
        BY DEF Entries
      <4>3. Len(index.blocks) > 0
        BY <3>1 DEF IInv, Steps
      <4>. QED
        BY <1>4, <4>1, <4>2, <4>3, EmptySeq
    <3>2. CASE at.step # "position"
      <4> DEFINE old == [index.blocks[Len(index.blocks)] EXCEPT !.at = 0]
      <4>1. index' = index \/ (index.blocks # <<>> /\ index' \in AfterNote(index, indDrv, old))
        BY <1>6, <3>2 DEF Crash, IndexAfterStop
      <4>2. ASSUME index.blocks # <<>> PROVE old \in Entries
        <5>1. Len(index.blocks) \in 1..Len(index.blocks)
          BY <1>3, <4>2, EmptySeq, LenProperties
        <5>2. index.blocks[Len(index.blocks)] \in Entries
          BY <1>3, <5>1, ElementOfSeq
        <5>. QED
          BY <5>2 DEF Entries
      <4>. HIDE DEF old
      <4>. QED
        BY <1>4, <4>1, <4>2
    <3>. QED
      BY <3>1, <3>2
  <2>. QED
    BY <1>2, <2>1, IndexedCut, Fresh DEF Crash
<1>. QED
  BY <1>5, <1>6

LEMMA IndexedNext == IInv /\ Indexed /\ [Next]_vars => Indexed'
<1>. SUFFICES ASSUME IInv, Indexed, [Next]_vars PROVE Indexed'
  OBVIOUS
<1>1. CASE CreateData \/ CreateIndex \/ SaveSettings
  BY <1>1, IndexedCreate
<1>2. CASE \E ts \in Times : WriteValue(ts)
  BY <1>2, IndexedWrite
<1>3. CASE IndexAdd \/ IndexTime \/ IndexPosition
  BY <1>3, IndexedAdd, IndexedTime, IndexedPosition
<1>4. CASE IndexFails
  BY <1>4, IndexedCut, Fresh DEF IndexFails, files
<1>5. CASE ReadValue
  BY <1>5, IndexedQuiet DEF ReadValue, files
<1>6. CASE Close \/ Restart
  BY <1>6, IndexedQuiet DEF Close, Restart, files
<1>7. CASE Open
  BY <1>7, IndexedOpen
<1>8. CASE OpenWithoutIndex
  <2>1. index' = index /\ data' = data /\ ~opened'
    BY <1>8 DEF OpenWithoutIndex, Touched, IInv, SettingsHaveFiles
  <2>. QED
    BY <1>8, <2>1, IndexedQuiet DEF OpenWithoutIndex
<1>9. CASE StopInCreate
  <2>1. /\ data'.blocks = data.blocks /\ index' = index /\ loaded' = loaded /\ at' = at
        /\ at.step = "idle" /\ settings' = settings /\ faults' = faults + 1
        /\ opened' = opened /\ hasIndex' = hasIndex
    BY <1>9, Fresh DEF StopInCreate, CanCreate, Touched, drivers, IInv, Types, DataFile
  <2>. QED
    BY <2>1, IndexedCut
<1>10. CASE Crash
  BY <1>10, IndexedStop
<1>11. CASE UNCHANGED vars
  BY <1>11, IndexedQuiet DEF vars
<1>. QED
  BY <1>1, <1>2, <1>3, <1>4, <1>5, <1>6, <1>7, <1>8, <1>9, <1>10, <1>11 DEF Next

(* DBDriverGTimeIndex: while nothing has failed and the program was never  *)
(* stopped, entry k is the time and the position of value k; every stop    *)
(* and every failure that writeSensorValue does not notice puts the index  *)
(* at most one entry out of step.                                          *)
THEOREM IndexCorrect == Spec => []IndexFollowsData
<1>1. IInv /\ Indexed => IndexFollowsData
  <2>. SUFFICES ASSUME IInv, Indexed, opened, hasIndex, at = Idle PROVE IndexFollowsData
    BY DEF IndexFollowsData
  <2> DEFINE F == [k \in 1..Len(data.blocks) |-> [ts |-> data.blocks[k].ts, at |-> k - 1]]
  <2>1. settings = "indexed" /\ Adding = 0 /\ Done = Len(data.blocks)
    BY Fresh DEF Indexed, Settled, Adding, Done
  <2>2. /\ Len(index.blocks) <= Len(data.blocks) + faults
        /\ Len(data.blocks) <= Len(index.blocks) + faults
    BY <2>1, Lengths DEF Indexed, Distance
  <2>3. ASSUME faults = 0 PROVE loaded = index.blocks /\ loaded = F
    <3>1. /\ Len(index.blocks) = Len(data.blocks) /\ Len(loaded) = Len(data.blocks)
          /\ \A k \in 1..Len(data.blocks) : index.blocks[k] = Entry(k) /\ loaded[k] = Entry(k)
      BY <2>1, <2>3, Lengths DEF Indexed, Exact
    <3>2. loaded = index.blocks
      BY <3>1, Lengths, SeqEqual
    <3>3. loaded = [k \in 1..Len(loaded) |-> loaded[k]]
      BY Lengths
    <3>. QED
      BY <3>1, <3>2, <3>3 DEF Entry
  <2>. QED
    BY <2>2, <2>3 DEF IndexFollowsData
<1>. QED
  BY <1>1, Invariant, IndexedInit, IndexedNext, PTL DEF Spec
-----------------------------------------------------------------------------
(***************************************************************************)
(* ContinuousStorage implements ValueLog.  Only while the storage is open  *)
(* is there something in the buffer of data.db, and there is from the      *)
(* block to its entry in the index: only a stop there can make open()      *)
(* refuse the files.                                                       *)
(***************************************************************************)
Buffered ==
  /\ dataDrv.late => opened
  /\ at.step \in {"add", "time", "position"} => dataDrv.late

LInv == IInv /\ Indexed /\ Buffered

LEMMA LogInit == Init => Log!Init /\ Buffered
<1>. SUFFICES ASSUME Init PROVE Log!Init /\ Buffered
  OBVIOUS
<1>1. ~Refused
  BY Fresh DEF Init, Refused
<1>. QED
  BY <1>1, Fresh DEF Init, Log!Init, Buffered

LEMMA BufferedNext == IInv /\ Buffered /\ [Next]_vars => Buffered'
<1>. SUFFICES ASSUME IInv, Buffered, [Next]_vars PROVE Buffered'
  OBVIOUS
<1>1. CASE CreateData \/ CreateIndex \/ SaveSettings
  <2>1. at'.step \in {"create index", "save", "idle"}
    <3>1. CASE CreateData
      BY <3>1 DEF CreateData, Then
    <3>2. CASE CreateIndex
      BY <3>2 DEF CreateIndex, Then
    <3>3. CASE SaveSettings
      BY <3>3, Fresh DEF SaveSettings
    <3>. QED
      BY <1>1, <3>1, <3>2, <3>3
  <2>2. dataDrv' = NewDriver \/ (dataDrv' = dataDrv /\ (opened => opened'))
    BY <1>1 DEF CreateData, CreateIndex, SaveSettings
  <2>. QED
    BY <2>1, <2>2, Fresh DEF Buffered
<1>2. ASSUME NEW ts \in Times, WriteValue(ts) PROVE Buffered'
  <2>1. dataDrv'.late
    BY <1>2, AfterWriteType DEF WriteValue, IInv, Types
  <2>. QED
    BY <1>2, <2>1 DEF WriteValue, Buffered
<1>3. CASE IndexAdd \/ IndexTime \/ IndexPosition \/ IndexFails
  BY <1>3, Fresh DEF IndexAdd, IndexTime, IndexPosition, IndexFails, drivers, files, Then, Buffered
<1>4. CASE ReadValue
  <2>1. ~dataDrv'.late
    BY <1>4 DEF ReadValue, IInv, Types, Drivers
  <2>. QED
    BY <1>4, <2>1, Fresh DEF ReadValue, Buffered
<1>5. CASE Open \/ OpenWithoutIndex
  <2>1. ~dataDrv'.late
    BY <1>5, OpenDriverType DEF Open, OpenWithoutIndex, IInv, Types, DataFile
  <2>. QED
    BY <1>5, <2>1, Fresh DEF Open, OpenWithoutIndex, files, Buffered
<1>6. CASE Close \/ Restart \/ Crash
  BY <1>6, Fresh DEF Close, Restart, Crash, Buffered
<1>7. CASE StopInCreate
  BY <1>7, Fresh DEF StopInCreate, drivers, Buffered
<1>8. CASE UNCHANGED vars
  BY <1>8 DEF vars, Buffered
<1>. QED
  BY <1>1, <1>2, <1>3, <1>4, <1>5, <1>6, <1>7, <1>8 DEF Next

(* What can be written or is just being made is not refused.               *)
LEMMA OpenedIsReadable == IInv /\ Indexed /\ opened => ~Refused
BY DEF IInv, DriversFit, Steps, Indexed, Settled, Refused

(* Steps that leave the blocks of data.db alone, and the files as readable *)
(* as they were, store nothing, and may write the buffer.                  *)
LEMMA LogQuiet ==
  ASSUME data'.blocks = data.blocks, dataDrv'.late => dataDrv.late,
         Refused' <=> Refused
  PROVE  [Log!Next]_(Log!vars)
<1>1. CASE Refused
  <2>1. Refused /\ Refused' /\ Refused' = Refused
    BY <1>1
  <2>. QED
    BY <2>1 DEF Log!vars
<1>2. CASE ~Refused
  <2>1. ~Refused' /\ ~Refused /\ Refused' = Refused
    BY <1>2
  <2>. QED
    BY <2>1 DEF Log!Next, Log!Flush, Log!vars
<1>. QED
  BY <1>1, <1>2

LEMMA LogWrite ==
  ASSUME IInv, Indexed, IInv', Indexed', NEW ts \in Times, WriteValue(ts)
  PROVE  Log!Store
<1> DEFINE b == [v |-> accepted + 1, ts |-> ts]
           B == Stored \cup {Torn}
<1>1. b \in Stored
  BY Bounds DEF WriteValue, IInv, Types, Stored
<1>. HIDE DEF b
<1>2. /\ data \in [is : States, blocks : Seq(B)] /\ b \in B /\ dataDrv \in Drivers
      /\ dataDrv.count = Len(data.blocks)
  BY <1>1 DEF WriteValue, IInv, Types, DataFile, DriversFit, Steps
<1>. HIDE DEF B
<1>3. data' = [data EXCEPT !.blocks = Append(data.blocks, b)] /\ dataDrv' = AfterWrite(dataDrv)
  <2>1. data' = Written(data, dataDrv, b) /\ dataDrv' = AfterWrite(dataDrv)
    BY DEF WriteValue, b
  <2>. QED
    BY <1>2, <2>1, WrittenAppends
<1>4. data'.blocks = Append(data.blocks, b) /\ dataDrv'.late
  BY <1>2, <1>3, AfterWriteType
<1>5. Len(data'.blocks) - 1 = Len(data.blocks)
  BY <1>2, <1>4, LenProperties
<1>6. ~Refused /\ ~Refused'
  <2>1. opened /\ opened'
    BY DEF WriteValue
  <2>2. IInv' /\ Indexed' /\ opened' => ~Refused'
    BY OpenedIsReadable, PTL
  <2>. QED
    BY <2>1, <2>2, OpenedIsReadable
<1>7. Refused' = Refused
  BY <1>6 DEF Refused
<1>. QED
  BY <1>1, <1>4, <1>5, <1>6, <1>7 DEF Log!Store

LEMMA CrashOfIndex ==
  ASSUME IInv, Crash, at.step # "time"
  PROVE  index'.is = index.is
<1>1. /\ index \in [is : States, blocks : Seq(Entries)] /\ indDrv \in Drivers
      /\ indDrv.late => Len(index.blocks) > 0 /\ indDrv.count = Len(index.blocks)
  BY DEF IInv, Types, DriversFit, IndexFile
<1>2. CASE at.step = "position"
  <2>1. index' \in AfterNote(index, indDrv, [ts |-> 0, at |-> 0])
    BY <1>2 DEF Crash, IndexAfterStop
  <2>2. [ts |-> 0, at |-> 0] \in Entries
    BY DEF Entries
  <2>. QED
    BY <1>1, <2>1, <2>2, NoteLost
<1>3. CASE at.step # "position"
  <2> DEFINE old == [index.blocks[Len(index.blocks)] EXCEPT !.at = 0]
  <2>1. index' = index \/ (index.blocks # <<>> /\ index' \in AfterNote(index, indDrv, old))
    BY <1>3 DEF Crash, IndexAfterStop
  <2>2. ASSUME index.blocks # <<>> PROVE old \in Entries
    <3>1. Len(index.blocks) \in 1..Len(index.blocks)
      BY <1>1, <2>2, EmptySeq, LenProperties
    <3>2. index.blocks[Len(index.blocks)] \in Entries
      BY <1>1, <3>1, ElementOfSeq
    <3>. QED
      BY <3>2 DEF Entries
  <2>. HIDE DEF old
  <2>. QED
    BY <1>1, <2>1, <2>2, NoteLost
<1>. QED
  BY <1>2, <1>3

LEMMA LogStop ==
  ASSUME LInv, Crash
  PROVE  [Log!Next]_(Log!vars)
<1> DEFINE B == Stored \cup {Torn}
           before == SubSeq(data.blocks, 1, Len(data.blocks) - 1)
<1>1. /\ data \in [is : States, blocks : Seq(B)] /\ dataDrv \in Drivers /\ fixed \in BOOLEAN
      /\ Torn \in B /\ data' \in AfterAppend(data, dataDrv, fixed)
      /\ dataDrv.late => data.is = "whole" /\ Len(data.blocks) > 0
  BY DEF Crash, LInv, IInv, Types, DriversFit, DataFile
<1>. HIDE DEF B
<1>2. dataDrv' = Closed /\ ~dataDrv'.late /\ at'.step = "idle" /\ settings' = settings
  BY Fresh DEF Crash
<1>3. CASE dataDrv.late
  <2>1. opened /\ ~Refused
    BY <1>3, OpenedIsReadable DEF LInv, Buffered
  <2>2. data'.blocks \in {data.blocks, before, Append(before, Torn)}
    BY <1>1, <1>3, AppendLost
  <2>3. Len(data.blocks) - 1 < Len(data.blocks)
    BY <1>1, LenProperties
  <2>. HIDE DEF before
  <2>4. CASE Refused'
    BY <1>3, <2>1, <2>3, <2>4 DEF Log!Next, Log!StopForGood
  <2>5. CASE ~Refused'
    <3>1. Refused' = Refused
      BY <2>1, <2>5 DEF Refused
    <3>. QED
      BY <1>2, <1>3, <2>1, <2>2, <2>3, <2>5, <3>1 DEF Log!Next, Log!Stop, before
  <2>. QED
    BY <2>4, <2>5
<1>4. CASE ~dataDrv.late
  <2>1. data' = data
    BY <1>1, <1>4, AppendLost
  <2>2. at.step \notin {"add", "time", "position"}
    BY <1>4 DEF LInv, Buffered
  <2>3. index'.is = index.is
    BY <2>2, CrashOfIndex DEF LInv
  <2>4. CASE at.step \in {"create index", "save"}
    <3>1. settings = "none" /\ data.blocks = <<>> /\ ~Refused
      BY <2>4 DEF LInv, Indexed, Settled, Creating, Refused
    <3>2. Refused'
      BY <1>2, <2>1, <2>4, <3>1 DEF Refused, LInv, IInv, Steps, DriversFit
    <3>. QED
      BY <3>1, <3>2 DEF Log!Next, Log!StopForGood
  <2>5. CASE at.step \notin {"create index", "save"}
    <3>1. Refused' <=> Refused
      BY <1>2, <2>1, <2>3, <2>5 DEF Refused
    <3>. QED
      BY <1>2, <2>1, <3>1, LogQuiet
  <2>. QED
    BY <2>4, <2>5
<1>. QED
  BY <1>3, <1>4

LEMMA LogNext == LInv /\ LInv' /\ [Next]_vars => [Log!Next]_(Log!vars)
<1>. SUFFICES ASSUME LInv, LInv', [Next]_vars PROVE [Log!Next]_(Log!vars)
  OBVIOUS
<1>1. IInv /\ Indexed /\ IInv' /\ Indexed'
  BY DEF LInv
<1>2. (opened => ~Refused) /\ (opened' => ~Refused')
  <2>1. IInv' /\ Indexed' /\ opened' => ~Refused'
    BY OpenedIsReadable, PTL
  <2>. QED
    BY <1>1, <2>1, OpenedIsReadable
<1>3. CASE CreateData
  <2>1. /\ data.is = "absent" /\ data.blocks = <<>> /\ data' = Created /\ dataDrv' = NewDriver
        /\ at'.step \in {"create index", "save"}
    BY <1>1, <1>3, Fresh DEF CreateData, CanCreate, Then, IInv, NoBlocks
  <2>2. ~Refused /\ ~Refused'
    BY <2>1 DEF Refused
  <2>. QED
    BY <2>1, <2>2, Fresh, LogQuiet
<1>4. CASE CreateIndex
  <2>1. /\ at.step = "create index" /\ at'.step = "save" /\ data' = data /\ dataDrv' = dataDrv
    BY <1>4 DEF CreateIndex, Then
  <2>2. ~Refused /\ ~Refused'
    BY <2>1 DEF Refused
  <2>. QED
    BY <2>1, <2>2, LogQuiet
<1>5. CASE SaveSettings
  <2>1. at.step = "save" /\ opened' /\ data' = data /\ dataDrv' = dataDrv
    BY <1>5 DEF SaveSettings
  <2>2. ~Refused /\ ~Refused'
    BY <1>2, <2>1 DEF Refused
  <2>. QED
    BY <2>1, <2>2, LogQuiet
<1>6. CASE IndexAdd \/ IndexTime \/ IndexPosition \/ IndexFails
  <2>1. opened /\ opened' /\ data' = data /\ dataDrv' = dataDrv
    BY <1>1, <1>6 DEF IndexAdd, IndexTime, IndexPosition, IndexFails, drivers, files, IInv, Steps
  <2>. QED
    BY <1>2, <2>1, LogQuiet
<1>7. CASE ReadValue
  <2>1. opened /\ opened' /\ data' = data /\ (dataDrv'.late => dataDrv.late)
    BY <1>7 DEF ReadValue, files
  <2>. QED
    BY <1>2, <2>1, LogQuiet
<1>8. CASE Close \/ Restart
  <2>1. /\ data' = data /\ index' = index /\ settings' = settings /\ at' = at
        /\ ~dataDrv'.late
    BY <1>8, Fresh DEF Close, Restart, files
  <2>2. Refused' <=> Refused
    BY <2>1 DEF Refused
  <2>. QED
    BY <2>1, <2>2, LogQuiet
<1>9. CASE Open \/ OpenWithoutIndex
  <2>1. data' = data /\ settings' = settings /\ at' = at /\ ~dataDrv'.late
    BY <1>1, <1>9, OpenDriverType DEF Open, OpenWithoutIndex, files, IInv, Types, DataFile
  <2>2. index' = index
    BY <1>1, <1>9 DEF Open, OpenWithoutIndex, files, Touched, IInv, SettingsHaveFiles
  <2>3. Refused' <=> Refused
    BY <2>1, <2>2 DEF Refused
  <2>. QED
    BY <2>1, <2>3, LogQuiet
<1>10. CASE StopInCreate
  <2>1. /\ data.is = "absent" /\ data'.is = "bare" /\ data.blocks = <<>>
        /\ at' = at /\ at.step = "idle" /\ dataDrv' = dataDrv
    BY <1>1, <1>10, Fresh DEF StopInCreate, CanCreate, Touched, drivers, IInv, Types, DataFile,
       NoBlocks
  <2>2. ~Refused /\ Refused'
    BY <2>1 DEF Refused
  <2>. QED
    BY <2>1, <2>2 DEF Log!Next, Log!StopForGood
<1>11. CASE \E ts \in Times : WriteValue(ts)
  BY <1>1, <1>11, LogWrite DEF Log!Next
<1>12. CASE Crash
  BY <1>12, LogStop
<1>13. CASE UNCHANGED vars
  <2>1. Refused' <=> Refused
    BY <1>13 DEF vars, Refused
  <2>. QED
    BY <1>13, <2>1, LogQuiet DEF vars
<1>. QED
  BY <1>3, <1>4, <1>5, <1>6, <1>7, <1>8, <1>9, <1>10, <1>11, <1>12, <1>13 DEF Next

(* The storage promises what ValueLog says, under stops and failures of    *)
(* the index at any point: a stop takes or damages the value that was      *)
(* written last, or, within that write or within create(), leaves files    *)
(* that open() refuses (DBDriverFixedBlocks::readHeader,                   *)
(* DBDriverChainedBlocks::readHeaderAndBlockOffsets), and with them all.   *)
THEOREM Refinement == Spec => ImplementsValueLog
<1>1. Spec => []LInv
  <2>1. Init => LInv
    BY InitInv, IndexedInit, LogInit DEF LInv
  <2>2. LInv /\ [Next]_vars => LInv'
    BY NextInv, IndexedNext, BufferedNext DEF LInv
  <2>. QED
    BY <2>1, <2>2, PTL DEF Spec
<1>2. Init => Log!Init
  BY LogInit
<1>. QED
  BY <1>1, <1>2, LogNext, PTL DEF Spec, ImplementsValueLog, Log!Spec
-----------------------------------------------------------------------------
(* The least of a set of numbers: induction without an operator. *)
LEMMA LeastOf ==
  ASSUME NEW T, T \subseteq Nat, T # {}
  PROVE  \E x \in T : \A y \in T : x <= y
<1> DEFINE R == {w \in Nat \X Nat : w[1] < w[2]}
<1>1. IsWellFoundedOn(OpToRel(<, Nat), Nat)
  BY NatLessThanWellFounded
<1>2. OpToRel(<, Nat) = R
  BY DEF OpToRel
<1>3. PICK x \in T : \A y \in T : ~ (<<y, x>> \in R)
  <2> HIDE DEF R
  <2>. QED
    BY <1>1, <1>2, WFMin
<1>4. ASSUME NEW y \in T PROVE x <= y
  <2>1. x \in Nat /\ y \in Nat
    OBVIOUS
  <2>2. ~ (<<y, x>> \in R)
    BY <1>3
  <2>3. ~ (y < x)
    BY <2>1, <2>2
  <2>. QED
    BY <2>1, <2>3
<1>. QED
  BY <1>4

(***************************************************************************)
(* The search by halves: one step of it, with g for what is to come.       *)
(***************************************************************************)
Halved(times, ts, g, s, e) ==
  LET mid == s + ((e - s) \div 2)
  IN  IF e - s = 1 THEN (IF times[e + 1] = ts THEN e ELSE s)
      ELSE IF times[mid + 1] = ts THEN mid
      ELSE IF times[mid + 1] < ts THEN g[<<mid, e>>] ELSE g[<<s, mid>>]

LEMMA SpanIs ==
  ASSUME NEW times, NEW w \in Spans(times), Len(times) \in Nat
  PROVE  /\ w[1] \in Nat /\ w[2] \in Nat /\ w[1] < w[2] /\ w[2] <= Len(times) - 1
         /\ w = <<w[1], w[2]>>
BY DEF Spans

LEMMA SpansAre ==
  ASSUME NEW times, Len(times) \in Nat, NEW s \in Nat, NEW e \in Nat, s < e,
         e <= Len(times) - 1
  PROVE  <<s, e>> \in Spans(times)
<1>1. s \in 0..(Len(times) - 1) /\ e \in 0..(Len(times) - 1)
  OBVIOUS
<1>. QED
  BY <1>1 DEF Spans

LEMMA MiddleIs ==
  ASSUME NEW s \in Nat, NEW e \in Nat, s < e, e - s # 1
  PROVE  LET mid == s + ((e - s) \div 2)
         IN  mid \in Nat /\ s < mid /\ mid < e
<1>1. PICK d : d = e - s
  OBVIOUS
<1>2. d \in Nat /\ d >= 2
  BY <1>1
<1>3. d \div 2 \in Nat /\ d \div 2 >= 1 /\ d \div 2 < d
  BY <1>2
<1>. QED
  BY <1>1, <1>2, <1>3

(* The equation of Search has a solution. *)
LEMMA SearchDefined ==
  ASSUME NEW times, Len(times) \in Nat, NEW ts
  PROVE  \E f : f = [w \in Spans(times) |-> Halved(times, ts, f, w[1], w[2])]
<1> DEFINE Right(g, n) ==
             /\ g = [w \in Spans(times) |-> g[w]]
             /\ \A w \in Spans(times) :
                  w[2] - w[1] < n => g[w] = Halved(times, ts, g, w[1], w[2])
           Wrong == {n \in Nat : ~ \E g : Right(g, n)}
<1>1. Wrong = {}
  <2>1. SUFFICES ASSUME Wrong # {} PROVE FALSE
    OBVIOUS
  <2>2. PICK n \in Wrong : \A m \in Wrong : n <= m
    <3>1. Wrong \subseteq Nat
      OBVIOUS
    <3> HIDE DEF Wrong
    <3>. QED
      BY <2>1, <3>1, LeastOf
  <2>3. n \in Nat /\ ~ \E g : Right(g, n)
    OBVIOUS
  <2>4. n # 0
    <3>1. ASSUME n = 0 PROVE FALSE
      <4>1. PICK g : g = [w \in Spans(times) |-> 0]
        OBVIOUS
      <4>2. ASSUME NEW w \in Spans(times) PROVE ~ (w[2] - w[1] < n)
        BY <3>1, <4>2, SpanIs
      <4>3. g = [w \in Spans(times) |-> g[w]]
        BY <4>1
      <4>. QED
        BY <2>3, <4>2, <4>3
    <3>. QED
      BY <3>1
  <2>5. PICK m : m = n - 1
    OBVIOUS
  <2>11. m \in Nat /\ n = m + 1
    BY <2>3, <2>4, <2>5
  <2>6. PICK g : Right(g, m)
    <3>1. m \notin Wrong
      <4> HIDE DEF Wrong
      <4>. QED
        BY <2>2, <2>3, <2>11
    <3>. QED
      BY <2>11, <3>1
  <2>7. PICK h : h = [w \in Spans(times) |-> Halved(times, ts, g, w[1], w[2])]
    OBVIOUS
  <2>8. ASSUME NEW w \in Spans(times), w[2] - w[1] < m PROVE h[w] = g[w]
    BY <2>6, <2>7, <2>8
  <2>9. ASSUME NEW w \in Spans(times), w[2] - w[1] < n
        PROVE  h[w] = Halved(times, ts, h, w[1], w[2])
    <3>1. PICK s, e : s = w[1] /\ e = w[2]
      OBVIOUS
    <3>2. s \in Nat /\ e \in Nat /\ s < e /\ e <= Len(times) - 1
      BY <3>1, SpanIs
    <3>3. PICK mid : mid = s + ((e - s) \div 2)
      OBVIOUS
    <3>4. CASE e - s = 1
      BY <2>7, <3>1, <3>4 DEF Halved
    <3>5. CASE e - s # 1
      <4>1. mid \in Nat /\ s < mid /\ mid < e
        BY <3>2, <3>3, <3>5, MiddleIs
      <4>2. /\ <<s, mid>> \in Spans(times) /\ <<mid, e>> \in Spans(times)
            /\ mid - s < m /\ e - mid < m
        BY <2>11, <2>9, <3>1, <3>2, <4>1, SpansAre
      <4>3. h[<<s, mid>>] = g[<<s, mid>>] /\ h[<<mid, e>>] = g[<<mid, e>>]
        BY <2>8, <4>2
      <4>4. Halved(times, ts, h, s, e) = Halved(times, ts, g, s, e)
        BY <3>3, <4>3 DEF Halved
      <4>. QED
        BY <2>7, <3>1, <4>4
    <3>. QED
      BY <3>4, <3>5
  <2>10. h = [w \in Spans(times) |-> h[w]]
    BY <2>7
  <2>. QED
    BY <2>3, <2>9, <2>10
<1>2. PICK g : Right(g, Len(times))
  <2>1. Len(times) \notin Wrong
    BY <1>1
  <2>. QED
    BY <2>1
<1>3. ASSUME NEW w \in Spans(times) PROVE g[w] = Halved(times, ts, g, w[1], w[2])
  <2>1. w[2] - w[1] < Len(times)
    BY SpanIs
  <2>. QED
    BY <1>2, <2>1
<1>. QED
  BY <1>2, <1>3

(* What the search finds in times that ascend. *)
Finds(times, ts, p) ==
  IF \E k \in 1..Len(times) : times[k] = ts THEN times[p] = ts
  ELSE /\ times[p] < ts \/ p = 1
       /\ times[p + 1] > ts \/ p + 1 = Len(times)

(* Halving keeps the time asked for between the ends. *)
LEMMA HalvingFinds ==
  ASSUME NEW times \in Seq(Nat), Len(times) > 1, NEW ts \in Nat,
         \A i, j \in 1..Len(times) : i < j => times[i] <= times[j]
  PROVE  Finds(times, ts, Search(times, ts) + 1)
<1> DEFINE n == Len(times)
           Between(s, e) == /\ s = 0 \/ times[s + 1] < ts
                            /\ e = n - 1 \/ times[e + 1] > ts
<1>1. n \in Nat /\ \A k \in 1..n : times[k] \in Nat
  BY LenProperties, ElementOfSeq
<1> DEFINE P(f) == f = [w \in Spans(times) |-> Halved(times, ts, f, w[1], w[2])]
<1>2. PICK f : f = CHOOSE h : P(h)
  OBVIOUS
<1>3. P(f)
  <2>1. \E h : P(h)
    BY <1>1, SearchDefined
  <2> HIDE DEF P
  <2>. QED
    BY <1>2, <2>1
<1>4. Search(times, ts) = f[<<0, n - 1>>]
  BY <1>2 DEF Search, Halved
<1> DEFINE Wrong == {m \in Nat : \E s, e \in Nat :
             /\ s < e /\ e <= n - 1 /\ m = e - s
             /\ Between(s, e) /\ ~Finds(times, ts, f[<<s, e>>] + 1)}
<1>5. Wrong = {}
  <2>1. SUFFICES ASSUME Wrong # {} PROVE FALSE
    OBVIOUS
  <2>2. PICK m \in Wrong : \A k \in Wrong : m <= k
    <3>1. Wrong \subseteq Nat
      OBVIOUS
    <3> HIDE DEF Wrong
    <3>. QED
      BY <2>1, <3>1, LeastOf
  <2>3. PICK s \in Nat, e \in Nat :
          /\ s < e /\ e <= n - 1 /\ m = e - s
          /\ Between(s, e) /\ ~Finds(times, ts, f[<<s, e>>] + 1)
    OBVIOUS
  <2>4. f[<<s, e>>] = Halved(times, ts, f, s, e)
    <3>1. <<s, e>> \in Spans(times)
      BY <1>1, <2>3, SpansAre
    <3>2. <<s, e>>[1] = s /\ <<s, e>>[2] = e
      OBVIOUS
    <3>. QED
      BY <1>3, <3>1, <3>2
  <2>5. PICK mid : mid = s + ((e - s) \div 2)
    OBVIOUS
  <2>6. s \in Nat /\ e \in Nat /\ s < e /\ e <= n - 1 /\ n \in Nat
    BY <1>1, <2>3
  <2>7. CASE e - s = 1
    <3>1. s + 1 = e /\ e \in 1..n /\ e + 1 \in 1..n /\ s + 1 \in 1..n
      BY <1>1, <2>3, <2>7
    <3>2. times[e] \in Nat /\ times[e + 1] \in Nat
      BY <1>1, <3>1
    <3>3. CASE times[e + 1] = ts
      <4>1. f[<<s, e>>] + 1 = e + 1
        BY <2>4, <2>7, <3>3 DEF Halved
      <4>. QED
        BY <2>3, <3>1, <3>3, <4>1 DEF Finds
    <3>4. CASE times[e + 1] # ts
      <4>1. f[<<s, e>>] + 1 = e
        BY <2>4, <2>7, <3>1, <3>4 DEF Halved
      <4>2. ASSUME NEW k \in 1..n, times[k] = ts PROVE times[e] = ts
        <5>1. CASE k < e
          <6>1. times[k] <= times[e] /\ s # 0
            BY <3>1, <5>1
          <6>2. times[e] < ts
            BY <2>3, <3>1, <6>1
          <6>. QED
            BY <3>2, <4>2, <6>1, <6>2
        <5>2. CASE k > e + 1
          <6>1. times[e + 1] <= times[k] /\ e # n - 1
            BY <1>1, <3>1, <5>2
          <6>2. times[e + 1] > ts
            BY <2>3, <6>1
          <6>. QED
            BY <3>2, <4>2, <6>1, <6>2
        <5>. QED
          BY <3>1, <3>4, <4>2, <5>1, <5>2
      <4>3. times[e] < ts \/ e = 1 \/ times[e] = ts
        BY <2>3, <3>1
      <4>4. times[e + 1] > ts \/ e + 1 = n
        BY <2>3, <3>1
      <4>. QED
        BY <2>3, <3>1, <4>1, <4>2, <4>3, <4>4 DEF Finds
    <3>. QED
      BY <3>3, <3>4
  <2>8. CASE e - s # 1
    <3>1. mid \in Nat /\ s < mid /\ mid < e
      BY <2>3, <2>5, <2>8, MiddleIs
    <3>2. mid + 1 \in 1..n /\ times[mid + 1] \in Nat
      <4>1. mid + 1 \in 1..n
        BY <1>1, <2>3, <3>1
      <4>. QED
        BY <1>1, <4>1
    <3>3. CASE times[mid + 1] = ts
      <4>1. f[<<s, e>>] = mid
        BY <2>4, <2>5, <2>8, <3>3 DEF Halved
      <4>. QED
        BY <2>3, <3>2, <3>3, <4>1 DEF Finds
    <3>4. CASE times[mid + 1] < ts
      <4>1. f[<<s, e>>] = f[<<mid, e>>]
        BY <2>4, <2>5, <2>8, <3>2, <3>4 DEF Halved
      <4>2. Between(mid, e) /\ ~Finds(times, ts, f[<<mid, e>>] + 1)
        BY <2>3, <3>4, <4>1
      <4>3. PICK k : k = e - mid
        OBVIOUS
      <4>4. k \in Nat /\ mid < e /\ e <= n - 1
        <5> HIDE DEF n
        <5>. QED
          BY <2>6, <3>1, <4>3
      <4>5. k \in Wrong
        <5> HIDE DEF Between
        <5>. QED
          BY <3>1, <4>2, <4>3, <4>4
      <4>. QED
        <5> HIDE DEF Wrong
        <5>. QED
          BY <2>2, <2>3, <3>1, <4>3, <4>5
    <3>5. CASE times[mid + 1] > ts
      <4>1. f[<<s, e>>] = f[<<s, mid>>]
        BY <2>4, <2>5, <2>8, <3>2, <3>5 DEF Halved
      <4>2. Between(s, mid) /\ ~Finds(times, ts, f[<<s, mid>>] + 1)
        BY <2>3, <3>5, <4>1
      <4>3. PICK k : k = mid - s
        OBVIOUS
      <4>4. k \in Nat /\ s < mid /\ mid <= n - 1
        <5> HIDE DEF n
        <5>. QED
          BY <2>6, <3>1, <4>3
      <4>5. k \in Wrong
        <5> HIDE DEF Between
        <5>. QED
          BY <3>1, <4>2, <4>3, <4>4
      <4>. QED
        <5> HIDE DEF Wrong
        <5>. QED
          BY <2>2, <2>3, <3>1, <4>3, <4>5
    <3>. QED
      BY <3>2, <3>3, <3>4, <3>5
  <2>. QED
    BY <2>7, <2>8
<1>6. PICK e : e = n - 1
  OBVIOUS
<1>7. e \in Nat /\ 0 < e
  BY <1>1, <1>6
<1>8. Finds(times, ts, f[<<0, e>>] + 1)
  <2>1. e \notin Wrong
    BY <1>5
  <2>2. 0 < e /\ e <= n - 1 /\ e = e - 0 /\ Between(0, e)
    BY <1>6, <1>7
  <2>. QED
    <3> HIDE DEF Between
    <3>. QED
      BY <1>7, <2>1, <2>2
<1>. QED
  BY <1>4, <1>6, <1>8

LEMMA LoadedFinds ==
  ASSUME loaded \in Seq(Entries)
  PROVE  SearchFinds
<1> SUFFICES ASSUME Len(LoadedTimes) > 1, NEW ts \in Times,
                    \A i, j \in 1..Len(LoadedTimes) : i < j => LoadedTimes[i] <= LoadedTimes[j]
             PROVE  Finds(LoadedTimes, ts, FindIndex(ts) + 1)
  BY DEF SearchFinds, Finds
<1>1. Len(loaded) \in Nat /\ \A k \in 1..Len(loaded) : loaded[k] \in Entries
  BY LenProperties, ElementOfSeq
<1>2. \A k \in 1..Len(loaded) : loaded[k].ts \in Nat
  <2>1. Times \cup {0} \subseteq Nat
    BY ConstantsAssumption
  <2>2. \A x \in Entries : x.ts \in Times \cup {0}
    BY DEF Entries
  <2>. QED
    BY <1>1, <2>1, <2>2
<1>3. LoadedTimes \in Seq(Nat) /\ Len(LoadedTimes) = Len(loaded)
  BY <1>1, <1>2 DEF LoadedTimes
<1>4. ts \in Nat
  BY ConstantsAssumption
<1>5. FindIndex(ts) = Search(LoadedTimes, ts)
  BY <1>1, <1>3 DEF FindIndex
<1>. QED
  BY <1>3, <1>4, <1>5, HalvingFinds

(* In an index whose times ascend, findInGTIndex finds an entry of the     *)
(* time asked for, if there is one, and otherwise the place where it would *)
(* be: DBDriverGTimeIndex::findIndex ends, and ends there, for an index of *)
(* any length and any times.                                               *)
THEOREM SearchCorrect == Spec => []SearchFinds
<1>1. TypeOK => SearchFinds
  BY LoadedFinds DEF TypeOK
<1>. QED
  BY <1>1, TypeCorrect, PTL
===============================================================================
