----------------------------- MODULE EventLoopProofs -----------------------------
(***************************************************************************)
(* Proofs about the two components whose handlers an event loop interrupts *)
(* while they wait: EngineRun, the run of a program, for any programs,     *)
(* data and triggers; and DataCollection with the SessionStorage under it, *)
(* for any sessions, values, stops and failures.                           *)
(***************************************************************************)
EXTENDS EngineRun, DataCollection, SequenceTheorems, WellFoundedInduction,
        NaturalsInduction, TLAPS

(***************************************************************************)
(* What the drivers of BlockFiles do to a file, and what a stop leaves of  *)
(* it, for blocks of any kind.                                             *)
(***************************************************************************)
States == {"absent", "bare", "whole", "broken"}

LEMMA WrittenAppends ==
  ASSUME NEW Kind, NEW f \in [is : States, blocks : Seq(Kind)], NEW d \in Drivers, NEW b \in Kind,
         d.count = Len(f.blocks)
  PROVE  Written(f, d, b) = [f EXCEPT !.blocks = Append(f.blocks, b)]
<1> DEFINE s == f.blocks
           t == [i \in 1..(Len(s) + 1) |-> IF i = Len(s) + 1 THEN b ELSE s[i]]
<1>1. s \in Seq(Kind) /\ Len(s) \in Nat
  BY LenProperties
<1>2. t = Append(s, b)
  <2>1. \A i \in 1..(Len(s) + 1) : t[i] \in Kind
    BY <1>1, ElementOfSeq
  <2>2. t \in Seq(Kind)
    BY <1>1, <2>1
  <2>3. Append(s, b) \in Seq(Kind) /\ Len(Append(s, b)) = Len(s) + 1
    BY <1>1
  <2>4. Len(t) = Len(s) + 1
    BY <1>1
  <2>5. \A i \in 1..Len(t) : t[i] = Append(s, b)[i]
    BY <1>1, <2>4
  <2>. QED
    BY <2>2, <2>3, <2>4, <2>5, SeqEqual
<1>3. Written(f, d, b) = [f EXCEPT !.blocks = t]
  <2>1. (IF d.count < Len(f.blocks) THEN Len(f.blocks) ELSE d.count + 1) = Len(s) + 1
    BY <1>1
  <2>2. d.count + 1 = Len(s) + 1
    OBVIOUS
  <2>. QED
    BY <2>1, <2>2 DEF Written
<1>. QED
  BY <1>2, <1>3

LEMMA AfterWriteType ==
  ASSUME NEW d \in Drivers
  PROVE  /\ AfterWrite(d) \in Drivers
         /\ AfterWrite(d).opened = d.opened /\ AfterWrite(d).late
         /\ AfterWrite(d).count = d.count + 1
<1>1. d.count + 1 \in Nat
  BY DEF Drivers
<1>2. AfterWrite(d) \in Drivers
  BY <1>1 DEF AfterWrite, Drivers
<1>3. AfterWrite(d).opened = d.opened
  BY DEF AfterWrite, Drivers
<1>4. AfterWrite(d).late = TRUE
  BY DEF AfterWrite, Drivers
<1>5. AfterWrite(d).count = d.count + 1
  BY DEF AfterWrite, Drivers
<1>. QED
  BY <1>2, <1>3, <1>4, <1>5

(* What a stop leaves of a file. *)
LEMMA AppendLost ==
  ASSUME NEW Kind, NEW f \in [is : States, blocks : Seq(Kind)], NEW d \in Drivers,
         NEW whole \in BOOLEAN, whole \/ Torn \in Kind,
         d.late => f.is = "whole" /\ Len(f.blocks) > 0,
         NEW g \in AfterAppend(f, d, whole)
  PROVE  /\ g \in [is : States, blocks : Seq(Kind)]
         /\ g.is = f.is \/ (f.is = "whole" /\ g.is = "broken")
         /\ ~d.late => g = f
         /\ d.late => LET before == SubSeq(f.blocks, 1, Len(f.blocks) - 1)
                      IN  g.blocks \in {f.blocks, before, Append(before, Torn)}
<1> DEFINE before == SubSeq(f.blocks, 1, Len(f.blocks) - 1)
<1>1. f.blocks \in Seq(Kind) /\ f.is \in States
  OBVIOUS
<1>2. CASE ~d.late
  BY <1>1, <1>2 DEF AfterAppend
<1>3. CASE d.late
  <2>1. before \in Seq(Kind)
    <3>1. Len(f.blocks) - 1 \in Int /\ \A i \in 1..(Len(f.blocks) - 1) : f.blocks[i] \in Kind
      BY <1>1, ElementOfSeq, LenProperties
    <3>. QED
      BY <3>1, SubSeqProperties
  <2>2. ~whole => Append(before, Torn) \in Seq(Kind)
    BY <2>1
  <2>3. \/ g = f
        \/ g = [f EXCEPT !.blocks = before]
        \/ g = [is |-> "broken", blocks |-> before]
        \/ ~whole /\ g = [f EXCEPT !.blocks = Append(before, Torn)]
    BY <1>3 DEF AfterAppend
  <2>. HIDE DEF before
  <2>4. CASE g = f
    BY <1>1, <1>3, <2>4 DEF before
  <2>5. CASE g = [f EXCEPT !.blocks = before]
    <3>1. g = [is |-> f.is, blocks |-> before]
      BY <2>5
    <3>. QED
      BY <1>1, <1>3, <2>1, <3>1 DEF before
  <2>6. CASE g = [is |-> "broken", blocks |-> before]
    BY <1>1, <1>3, <2>1, <2>6 DEF States, before
  <2>7. CASE ~whole /\ g = [f EXCEPT !.blocks = Append(before, Torn)]
    <3>1. g = [is |-> f.is, blocks |-> Append(before, Torn)]
      BY <2>7
    <3>. QED
      BY <1>1, <1>3, <2>2, <2>7, <3>1 DEF before
  <2>. QED
    BY <2>3, <2>4, <2>5, <2>6, <2>7
<1>. QED
  BY <1>2, <1>3

SampleBlocks == 1..MaxValues \cup {Torn}
DataFile == [is : States, blocks : Seq(SampleBlocks)]

(***************************************************************************)
(* The inductive invariant, a statement about the storage alone: its       *)
(* types; a name without a directory has no file; the session that is      *)
(* written is open and whole, its driver knows every block, has something  *)
(* in its buffer only if there is a block, and has the attribute of the    *)
(* file; those that are read are open and whole.                           *)
(***************************************************************************)
StorageTypes ==
  /\ fixed \in BOOLEAN /\ opened \in BOOLEAN
  /\ session \in [SessionIds -> Directories]
  /\ writeId \in Maybe(SessionIds) /\ mainRead \in Maybe(SessionIds)
  /\ writer \in Drivers
  /\ reader \in [SessionIds -> Drivers]
  /\ writeAttr \in Maybe(Values)
  /\ readAttr \in [SessionIds -> Maybe(Values)]
  /\ faults \in 0..MaxFaults

UnitTypes ==
  /\ mode \in {"auto", "manual"}
  /\ connected \in BOOLEAN /\ unit \in BOOLEAN /\ describing \in BOOLEAN
  /\ dying \in {"no", "now", "later"}

NamesAreFree == \A i \in SessionIds : ~session[i].dir => session[i] = NoSession

WriterFits ==
  writeId # None =>
    /\ opened /\ session[writeId].data.is = "whole"
    /\ writer.opened /\ writer.count = Len(session[writeId].data.blocks)
    /\ writer.late => writer.count > 0
    /\ writeAttr = session[writeId].attr

ReadersFit ==
  \A i \in SessionIds : reader[i].opened =>
    /\ opened /\ session[i].data.is = "whole"
    /\ reader[i].count <= Len(session[i].data.blocks)

StorageInv == StorageTypes /\ NamesAreFree /\ WriterFits /\ ReadersFit

IInv == StorageInv /\ UnitTypes

(* The blocks of s stay in t. *)
Kept(s, t) ==
  /\ Len(t.data.blocks) >= Len(s.data.blocks)
  /\ SubSeq(t.data.blocks, 1, Len(s.data.blocks)) = s.data.blocks

AllKept == \A i \in SessionIds : Kept(session[i], session'[i])
-----------------------------------------------------------------------------
(***************************************************************************)
(* Types of the parts of a session.                                        *)
(***************************************************************************)
LEMMA Bounds == MaxValues \in Nat /\ MaxFaults \in Nat /\ None \notin SessionIds
BY SessionAssumption

LEMMA DirectoryParts ==
  ASSUME NEW s \in Directories
  PROVE  /\ s.data \in DataFile /\ s.data.is \in States
         /\ s.data.blocks \in Seq(SampleBlocks) /\ Len(s.data.blocks) \in Nat
         /\ s.attr \in Maybe(Values)
<1>1. s.data \in DataFile
  BY DEF Directories, FilesOf, DataFile, States, SampleBlocks
<1>2. s.data.is \in States /\ s.data.blocks \in Seq(SampleBlocks)
  BY <1>1 DEF DataFile
<1>. QED
  BY <1>1, <1>2, LenProperties DEF Directories

LEMMA DataReplaced ==
  ASSUME NEW s \in Directories, NEW f \in DataFile
  PROVE  LET t == [s EXCEPT !.data = f]
         IN  t \in Directories /\ t.dir = s.dir /\ t.data = f /\ t.attr = s.attr
<1> DEFINE t == [s EXCEPT !.data = f]
<1>1. f \in FilesOf(1..MaxValues)
  BY DEF FilesOf, DataFile, States, SampleBlocks
<1>2. t \in Directories
  BY <1>1 DEF Directories
<1>3. t.dir = s.dir
  BY DEF Directories
<1>4. t.data = f
  BY DEF Directories
<1>5. t.attr = s.attr
  BY DEF Directories
<1>. QED
  BY <1>2, <1>3, <1>4, <1>5

LEMMA AttributeReplaced ==
  ASSUME NEW s \in Directories, NEW v \in Maybe(Values)
  PROVE  LET t == [s EXCEPT !.attr = v, !.meta = TRUE]
         IN  t \in Directories /\ t.dir = s.dir /\ t.data = s.data /\ t.attr = v
<1> DEFINE t == [s EXCEPT !.attr = v, !.meta = TRUE]
<1>1. t \in Directories
  BY DEF Directories
<1>2. t.dir = s.dir
  BY DEF Directories
<1>3. t.data = s.data
  BY DEF Directories
<1>4. t.attr = v
  BY DEF Directories
<1>. QED
  BY <1>1, <1>2, <1>3, <1>4

LEMMA Fresh ==
  /\ NoFile \in DataFile /\ NoFile.is = "absent" /\ NoFile.blocks = <<>>
  /\ Created \in DataFile /\ Created.is = "whole" /\ Created.blocks = <<>>
  /\ Touched(NoFile) \in DataFile /\ Touched(NoFile).blocks = <<>>
  /\ NoSession \in Directories /\ ~NoSession.dir /\ NoSession.data = NoFile
  /\ NoSession.attr = None
  /\ Closed \in Drivers /\ ~Closed.opened
  /\ NewDriver \in Drivers /\ NewDriver.opened /\ ~NewDriver.late /\ NewDriver.count = 0
  /\ Len(<<>>) = 0
<1>1. <<>> \in Seq(SampleBlocks) /\ Len(<<>>) = 0
  BY EmptySeq
<1>2. /\ NoFile \in DataFile /\ NoFile.is = "absent" /\ NoFile.blocks = <<>>
      /\ Created \in DataFile /\ Created.is = "whole" /\ Created.blocks = <<>>
  BY <1>1 DEF NoFile, Created, DataFile, States
<1>3. Touched(NoFile) \in DataFile /\ Touched(NoFile).blocks = <<>>
  <2>1. Touched(NoFile) = [is |-> "bare", blocks |-> <<>>]
    BY DEF Touched, NoFile
  <2>. QED
    BY <1>1, <2>1 DEF DataFile, States
<1>4. NoSession \in Directories
  BY <1>2 DEF NoSession, Directories, FilesOf, DataFile, States, SampleBlocks, Maybe
<1>. QED
  BY <1>1, <1>2, <1>3, <1>4 DEF NoSession, Closed, NewDriver, Drivers

LEMMA NothingLost == ASSUME NEW s \in Directories PROVE Kept(s, s)
<1>1. s.data.blocks \in Seq(SampleBlocks) /\ Len(s.data.blocks) \in Nat
  BY DirectoryParts
<1>2. SubSeq(s.data.blocks, 1, Len(s.data.blocks)) = s.data.blocks
  BY <1>1, SubSeqFull
<1>. QED
  BY <1>1, <1>2 DEF Kept

LEMMA SameBlocks ==
  ASSUME NEW s \in Directories, NEW t, t.data.blocks = s.data.blocks
  PROVE  Kept(s, t)
BY NothingLost DEF Kept

(* A file that is opened for the first time, but not created. *)
LEMMA TouchedType ==
  ASSUME NEW f \in DataFile
  PROVE  Touched(f) \in DataFile /\ Touched(f).blocks = f.blocks
<1>1. CASE f.is = "absent"
  <2>1. Touched(f) = [is |-> "bare", blocks |-> f.blocks]
    BY <1>1 DEF Touched, DataFile
  <2>. QED
    BY <2>1 DEF DataFile, States
<1>. QED
  BY <1>1 DEF Touched

LEMMA OpenDriverType ==
  ASSUME NEW f \in DataFile
  PROVE  /\ OpenDriver(f) \in Drivers /\ OpenDriver(f).opened /\ ~OpenDriver(f).late
         /\ OpenDriver(f).count = Len(f.blocks)
<1>1. Len(f.blocks) \in Nat
  BY LenProperties DEF DataFile
<1>. QED
  BY <1>1 DEF OpenDriver, Drivers

LEMMA AppendKeeps ==
  ASSUME NEW q \in Seq(SampleBlocks), NEW b \in SampleBlocks
  PROVE  SubSeq(Append(q, b), 1, Len(q)) = q
<1> DEFINE r == SubSeq(Append(q, b), 1, Len(q))
<1>1. /\ Len(q) \in Nat /\ 1 \in Int /\ Len(q) \in Int
      /\ \A k \in 1..Len(q) : Append(q, b)[k] = q[k] /\ q[k] \in SampleBlocks
  BY LenProperties, AppendProperties, ElementOfSeq
<1>2. /\ r \in Seq(SampleBlocks) /\ Len(r) = Len(q)
      /\ \A k \in 1..Len(q) : r[k] = Append(q, b)[k]
  <2>1. /\ r \in Seq(SampleBlocks)
        /\ Len(r) = IF 1 <= Len(q) THEN Len(q) - 1 + 1 ELSE 0
        /\ \A k \in 1..(Len(q) - 1 + 1) : r[k] = Append(q, b)[1 + k - 1]
    BY <1>1, SubSeqProperties
  <2>. QED
    BY <1>1, <2>1
<1>. HIDE DEF r
<1>3. \A k \in 1..Len(r) : r[k] = q[k]
  BY <1>1, <1>2
<1>4. r = q
  BY <1>2, <1>3, SeqEqual
<1>. QED
  BY <1>4 DEF r

(* One session is changed. *)
LEMMA OneSession ==
  ASSUME StorageTypes, NEW i \in SessionIds, NEW s \in Directories,
         session' = [session EXCEPT ![i] = s], Kept(session[i], s)
  PROVE  /\ session' \in [SessionIds -> Directories]
         /\ session'[i] = s
         /\ \A j \in SessionIds : j # i => session'[j] = session[j]
         /\ AllKept
<1>1. /\ session' \in [SessionIds -> Directories]
      /\ session'[i] = s
      /\ \A j \in SessionIds : j # i => session'[j] = session[j]
  BY DEF StorageTypes
<1>2. ASSUME NEW j \in SessionIds PROVE Kept(session[j], session'[j])
  BY <1>1, NothingLost DEF StorageTypes
<1>. QED
  BY <1>1, <1>2 DEF AllKept
-----------------------------------------------------------------------------
(***************************************************************************)
(* The operations of the storage.                                          *)
(***************************************************************************)
LEMMA UnchangedStorage ==
  StorageInv /\ UNCHANGED storageVars => StorageInv' /\ AllKept
<1>. SUFFICES ASSUME StorageInv, UNCHANGED storageVars PROVE StorageInv' /\ AllKept
  OBVIOUS
<1>1. AllKept
  BY NothingLost DEF AllKept, StorageInv, StorageTypes, storageVars
<1>. QED
  BY <1>1 DEF StorageInv, StorageTypes, NamesAreFree, WriterFits, ReadersFit,
              storageVars, members

LEMMA OpenStorageInv == StorageInv /\ OpenStorage => StorageInv' /\ AllKept
<1>. SUFFICES ASSUME StorageInv, OpenStorage PROVE StorageInv' /\ AllKept
  OBVIOUS
<1>1. AllKept
  BY NothingLost DEF AllKept, StorageInv, StorageTypes, OpenStorage
<1>. QED
  BY <1>1 DEF StorageInv, StorageTypes, NamesAreFree, WriterFits, ReadersFit, OpenStorage

LEMMA CloseStorageInv == StorageInv /\ CloseStorage => StorageInv' /\ AllKept
<1>. SUFFICES ASSUME StorageInv, CloseStorage PROVE StorageInv' /\ AllKept
  OBVIOUS
<1>1. AllKept
  BY NothingLost DEF AllKept, StorageInv, StorageTypes, CloseStorage
<1>2. StorageTypes'
  BY Fresh DEF StorageInv, StorageTypes, CloseStorage, Maybe
<1>. QED
  BY <1>1, <1>2, Fresh
     DEF StorageInv, NamesAreFree, WriterFits, ReadersFit, CloseStorage

LEMMA CloseWriteInv == StorageInv /\ CloseMainWriteSession => StorageInv' /\ AllKept
<1>. SUFFICES ASSUME StorageInv, CloseMainWriteSession PROVE StorageInv' /\ AllKept
  OBVIOUS
<1>1. AllKept
  BY NothingLost DEF AllKept, StorageInv, StorageTypes, CloseMainWriteSession
<1>2. StorageTypes'
  BY Fresh DEF StorageInv, StorageTypes, CloseMainWriteSession, Maybe
<1>. QED
  BY <1>1, <1>2
     DEF StorageInv, NamesAreFree, WriterFits, ReadersFit, CloseMainWriteSession

(* A new session takes the place of a name without files, which no driver  *)
(* has open.                                                               *)
LEMMA NewSession ==
  ASSUME StorageInv, NEW i \in SessionIds, ~session[i].dir,
         NEW title \in BOOLEAN, NEW f \in DataFile, f.blocks = <<>>,
         session' = [session EXCEPT ![i] =
                       [NoSession EXCEPT !.dir = TRUE, !.title = title, !.data = f]]
  PROVE  /\ session' \in [SessionIds -> Directories] /\ NamesAreFree' /\ AllKept
         /\ session'[i].data = f /\ session'[i].attr = None
         /\ \A j \in SessionIds : j # i => session'[j] = session[j]
         /\ writeId # i /\ ~reader[i].opened
<1> DEFINE s == [NoSession EXCEPT !.dir = TRUE, !.title = title, !.data = f]
<1>1. s \in Directories /\ s.dir = TRUE /\ s.data = f /\ s.attr = None
  <2>1. NoSession \in Directories /\ NoSession.attr = None /\ f \in FilesOf(1..MaxValues)
    BY Fresh DEF FilesOf, DataFile, States, SampleBlocks
  <2>2. s \in Directories
    BY <2>1 DEF Directories
  <2>3. s.dir = TRUE
    BY <2>1 DEF Directories
  <2>4. s.data = f
    BY <2>1 DEF Directories
  <2>5. s.attr = NoSession.attr
    BY <2>1 DEF Directories
  <2>. QED
    BY <2>1, <2>2, <2>3, <2>4, <2>5
<1>2. session' = [session EXCEPT ![i] = s]
  OBVIOUS
<1>. HIDE DEF s
<1>3. session[i] = NoSession
  BY DEF StorageInv, NamesAreFree
<1>4. Kept(session[i], s)
  BY <1>1, <1>3, Fresh, SameBlocks
<1>5. /\ session' \in [SessionIds -> Directories] /\ session'[i] = s /\ AllKept
      /\ \A j \in SessionIds : j # i => session'[j] = session[j]
  BY <1>1, <1>2, <1>4, OneSession DEF StorageInv
<1>6. NamesAreFree'
  BY <1>1, <1>5 DEF StorageInv, NamesAreFree
<1>7. writeId # i /\ ~reader[i].opened
  BY <1>3, Fresh, Bounds DEF StorageInv, WriterFits, ReadersFit
<1>. QED
  BY <1>1, <1>5, <1>6, <1>7

LEMMA CreateInv ==
  ASSUME NEW i \in SessionIds, StorageInv, CreateSession(i) \/ CreateSessionFails(i)
  PROVE  StorageInv' /\ AllKept
<1>1. \E title \in BOOLEAN, f \in DataFile :
        /\ f.blocks = <<>>
        /\ session' = [session EXCEPT ![i] =
                         [NoSession EXCEPT !.dir = TRUE, !.title = title, !.data = f]]
  BY Fresh DEF CreateSession, CreateSessionFails
<1>2. ~session[i].dir /\ UNCHANGED <<fixed, members>>
  BY DEF CreateSession, CreateSessionFails
<1>3. /\ session' \in [SessionIds -> Directories] /\ NamesAreFree' /\ AllKept
      /\ \A j \in SessionIds : j # i => session'[j] = session[j]
      /\ writeId # i /\ ~reader[i].opened
  BY <1>1, <1>2, NewSession
<1>4. faults' \in 0..MaxFaults
  <2>1. faults \in 0..MaxFaults
    BY DEF StorageInv, StorageTypes
  <2>2. CASE CreateSession(i)
    BY <2>1, <2>2 DEF CreateSession
  <2>3. CASE CreateSessionFails(i)
    <3>1. faults < MaxFaults /\ faults' = faults + 1
      BY <2>3 DEF CreateSessionFails
    <3>. QED
      BY <2>1, <3>1, Bounds
  <2>. QED
    BY <2>2, <2>3
<1>5. StorageTypes'
  BY <1>2, <1>3, <1>4 DEF StorageInv, StorageTypes, members
<1>6. WriterFits' /\ ReadersFit'
  BY <1>2, <1>3 DEF StorageInv, StorageTypes, WriterFits, ReadersFit, members, Maybe
<1>. QED
  BY <1>3, <1>5, <1>6 DEF StorageInv

LEMMA StartInv ==
  ASSUME NEW i \in SessionIds, StorageInv, StartSession(i)
  PROVE  StorageInv' /\ AllKept
<1>1. /\ session' \in [SessionIds -> Directories] /\ NamesAreFree' /\ AllKept
      /\ session'[i].data = Created /\ session'[i].attr = None
      /\ \A j \in SessionIds : j # i => session'[j] = session[j]
      /\ writeId # i /\ ~reader[i].opened
  BY Fresh, NewSession DEF StartSession
<1>2. StorageTypes'
  BY <1>1, Fresh DEF StartSession, StorageInv, StorageTypes, Maybe
<1>3. WriterFits'
  <2>1. CASE writeId = None
    BY <1>1, <2>1, Fresh DEF StartSession, WriterFits
  <2>2. CASE writeId # None
    BY <1>1, <2>2 DEF StartSession, StorageInv, StorageTypes, WriterFits, Maybe
  <2>. QED
    BY <2>1, <2>2
<1>4. ReadersFit'
  BY <1>1 DEF StartSession, StorageInv, ReadersFit
<1>. QED
  BY <1>1, <1>2, <1>3, <1>4 DEF StorageInv

(* A session of which only the file data.db was touched by a failing open. *)
LEMMA TouchedSession ==
  ASSUME StorageInv, NEW i \in SessionIds, session[i].dir,
         session' = [session EXCEPT ![i].data = Touched(@)],
         session[i].data.is # "whole"
  PROVE  /\ session' \in [SessionIds -> Directories] /\ NamesAreFree' /\ AllKept
         /\ \A j \in SessionIds : j # i => session'[j] = session[j]
         /\ writeId # i /\ ~reader[i].opened
<1> DEFINE s == [session[i] EXCEPT !.data = Touched(session[i].data)]
<1>1. session[i] \in Directories
  BY DEF StorageInv, StorageTypes
<1>2. session[i].data \in DataFile
  BY <1>1, DirectoryParts
<1>3. Touched(session[i].data) \in DataFile
      /\ Touched(session[i].data).blocks = session[i].data.blocks
  BY <1>2, TouchedType
<1>4. s \in Directories /\ s.dir = session[i].dir
      /\ s.data = Touched(session[i].data)
  BY <1>1, <1>3, DataReplaced
<1>5. session' = [session EXCEPT ![i] = s]
  OBVIOUS
<1>. HIDE DEF s
<1>6. Kept(session[i], s)
  BY <1>1, <1>3, <1>4, SameBlocks
<1>7. /\ session' \in [SessionIds -> Directories] /\ session'[i] = s /\ AllKept
      /\ \A j \in SessionIds : j # i => session'[j] = session[j]
  BY <1>4, <1>5, <1>6, OneSession DEF StorageInv
<1>8. NamesAreFree'
  BY <1>4, <1>7 DEF StorageInv, NamesAreFree
<1>9. writeId # i /\ ~reader[i].opened
  BY Bounds DEF StorageInv, WriterFits, ReadersFit
<1>. QED
  BY <1>7, <1>8, <1>9

LEMMA OpenWriteInv ==
  ASSUME NEW i \in SessionIds, StorageInv, OpenMainWriteSession(i)
  PROVE  StorageInv' /\ AllKept
<1>1. session[i] \in Directories /\ session[i].data \in DataFile
  BY DirectoryParts DEF StorageInv, StorageTypes
<1>2. CASE CanOpen(session[i].data, Closed)
  <2>1. /\ OpenDriver(session[i].data) \in Drivers /\ OpenDriver(session[i].data).opened
        /\ ~OpenDriver(session[i].data).late
        /\ OpenDriver(session[i].data).count = Len(session[i].data.blocks)
    BY <1>1, OpenDriverType
  <2>2. /\ writer' = OpenDriver(session[i].data) /\ writeAttr' = session[i].attr
        /\ writeId' = i
        /\ UNCHANGED <<session, fixed, opened, reader, readAttr, mainRead, faults>>
    BY <1>2 DEF OpenMainWriteSession
  <2>3. AllKept
    BY <2>2, NothingLost DEF AllKept, StorageInv, StorageTypes
  <2>4. session[i].attr \in Maybe(Values)
    BY <1>1, DirectoryParts
  <2>5. StorageTypes'
    BY <2>1, <2>2, <2>4 DEF StorageInv, StorageTypes, Maybe
  <2>6. WriterFits'
    BY <1>2, <2>1, <2>2 DEF WriterFits, CanOpen, OpenMainWriteSession
  <2>. QED
    BY <2>2, <2>3, <2>5, <2>6 DEF StorageInv, NamesAreFree, ReadersFit
<1>3. CASE ~CanOpen(session[i].data, Closed)
  <2>1. session[i].data.is # "whole"
    BY <1>3, Fresh DEF CanOpen
  <2>2. /\ session' = [session EXCEPT ![i].data = Touched(@)] /\ session[i].dir
        /\ UNCHANGED <<writer, writeAttr, writeId, fixed, opened, reader, readAttr,
                       mainRead, faults>>
    BY <1>3 DEF OpenMainWriteSession
  <2>3. /\ session' \in [SessionIds -> Directories] /\ NamesAreFree' /\ AllKept
        /\ \A j \in SessionIds : j # i => session'[j] = session[j]
        /\ writeId # i /\ ~reader[i].opened
    BY <2>1, <2>2, TouchedSession
  <2>4. StorageTypes'
    BY <2>2, <2>3 DEF StorageInv, StorageTypes
  <2>5. WriterFits' /\ ReadersFit'
    BY <2>2, <2>3 DEF StorageInv, StorageTypes, WriterFits, ReadersFit, Maybe
  <2>. QED
    BY <2>3, <2>4, <2>5 DEF StorageInv
<1>. QED
  BY <1>2, <1>3

(* openSession, for a command that reads. *)
LEMMA OpenSessionInv ==
  ASSUME NEW i \in SessionIds, StorageInv, opened, session[i].dir, OpenSession(i),
         UNCHANGED <<fixed, opened, writeId, writer, writeAttr, faults>>,
         mainRead' \in Maybe(SessionIds)
  PROVE  StorageInv' /\ AllKept
<1>1. session[i] \in Directories /\ session[i].data \in DataFile
  BY DirectoryParts DEF StorageInv, StorageTypes
<1>2. CASE IsOpen(i)
  <2>1. UNCHANGED <<session, reader, readAttr>>
    BY <1>2 DEF OpenSession
  <2>2. AllKept
    BY <2>1, NothingLost DEF AllKept, StorageInv, StorageTypes
  <2>. QED
    BY <2>1, <2>2 DEF StorageInv, StorageTypes, NamesAreFree, WriterFits, ReadersFit
<1>3. CASE ~IsOpen(i) /\ CanOpen(session[i].data, Closed)
  <2>1. /\ OpenDriver(session[i].data) \in Drivers
        /\ OpenDriver(session[i].data).count = Len(session[i].data.blocks)
    BY <1>1, OpenDriverType
  <2>2. /\ reader' = [reader EXCEPT ![i] = OpenDriver(session[i].data)]
        /\ readAttr' = [readAttr EXCEPT ![i] = session[i].attr]
        /\ UNCHANGED session
    BY <1>3 DEF OpenSession
  <2>3. AllKept
    BY <2>2, NothingLost DEF AllKept, StorageInv, StorageTypes
  <2>4. session[i].attr \in Maybe(Values)
    BY <1>1, DirectoryParts
  <2>5. StorageTypes'
    BY <2>1, <2>2, <2>4 DEF StorageInv, StorageTypes
  <2>6. ReadersFit'
    <3>1. session[i].data.is = "whole" /\ Len(session[i].data.blocks) \in Nat
      BY <1>1, <1>3, DirectoryParts DEF CanOpen
    <3>. QED
      BY <2>1, <2>2, <3>1 DEF StorageInv, StorageTypes, ReadersFit
  <2>. QED
    BY <2>2, <2>3, <2>5, <2>6 DEF StorageInv, NamesAreFree, WriterFits
<1>4. CASE ~IsOpen(i) /\ ~CanOpen(session[i].data, Closed)
  <2>1. session[i].data.is # "whole"
    BY <1>4, Fresh DEF CanOpen
  <2>2. session' = [session EXCEPT ![i].data = Touched(@)] /\ UNCHANGED <<reader, readAttr>>
    BY <1>4 DEF OpenSession
  <2>3. /\ session' \in [SessionIds -> Directories] /\ NamesAreFree' /\ AllKept
        /\ \A j \in SessionIds : j # i => session'[j] = session[j]
        /\ writeId # i /\ ~reader[i].opened
    BY <2>1, <2>2, TouchedSession
  <2>4. StorageTypes'
    BY <2>2, <2>3 DEF StorageInv, StorageTypes
  <2>5. WriterFits' /\ ReadersFit'
    BY <2>2, <2>3 DEF StorageInv, StorageTypes, WriterFits, ReadersFit, Maybe
  <2>. QED
    BY <2>3, <2>4, <2>5 DEF StorageInv
<1>. QED
  BY <1>2, <1>3, <1>4

LEMMA ReadInv ==
  ASSUME NEW i \in SessionIds, StorageInv, GetAttribute(i) \/ GetSamples(i)
  PROVE  StorageInv' /\ AllKept
<1>1. mainRead \in Maybe(SessionIds)
  BY DEF StorageInv, StorageTypes
<1>2. CASE GetAttribute(i)
  BY <1>1, <1>2, OpenSessionInv DEF GetAttribute
<1>3. CASE GetSamples(i)
  <2>1. mainRead' \in Maybe(SessionIds)
    BY <1>1, <1>3 DEF GetSamples, Maybe
  <2>. QED
    BY <1>3, <2>1, OpenSessionInv DEF GetSamples
<1>. QED
  BY <1>2, <1>3

LEMMA SetAttributeInv ==
  ASSUME NEW i \in SessionIds, NEW v \in Maybe(Values), StorageInv, SetAttribute(i, v)
  PROVE  StorageInv' /\ AllKept
<1> DEFINE s == [session[i] EXCEPT !.attr = v, !.meta = TRUE]
<1>1. session[i] \in Directories /\ session[i].data \in DataFile
  BY DirectoryParts DEF StorageInv, StorageTypes
<1>2. s \in Directories /\ s.dir = session[i].dir /\ s.data = session[i].data /\ s.attr = v
  <2>1. s \in Directories
    BY <1>1 DEF Directories
  <2>2. s.dir = session[i].dir
    BY <1>1 DEF Directories
  <2>3. s.data = session[i].data
    BY <1>1 DEF Directories
  <2>4. s.attr = v
    BY <1>1 DEF Directories
  <2>. QED
    BY <2>1, <2>2, <2>3, <2>4
<1>3. session' = [session EXCEPT ![i] = s]
  <2>1. session' = [session EXCEPT ![i].attr = v, ![i].meta = TRUE]
    BY DEF SetAttribute
  <2>. QED
    BY <2>1 DEF StorageInv, StorageTypes
<1>. HIDE DEF s
<1>4. Kept(session[i], s)
  BY <1>1, <1>2, SameBlocks
<1>5. /\ session' \in [SessionIds -> Directories] /\ session'[i] = s /\ AllKept
      /\ \A j \in SessionIds : j # i => session'[j] = session[j]
  BY <1>2, <1>3, <1>4, OneSession DEF StorageInv
<1>6. opened /\ session[i].dir /\ UNCHANGED <<fixed, opened, writeId, writer, mainRead, faults>>
  BY DEF SetAttribute
<1>7. /\ writeId = i => writeAttr' = v
      /\ writeId # i => UNCHANGED writeAttr
  BY DEF SetAttribute
<1>8. writeAttr' \in Maybe(Values) /\ readAttr' \in [SessionIds -> Maybe(Values)]
  BY DEF SetAttribute, StorageInv, StorageTypes
<1>9. /\ reader' \in [SessionIds -> Drivers]
      /\ \A j \in SessionIds : reader'[j] = reader[j]
           \/ /\ j = i /\ session[i].data.is = "whole"
              /\ reader'[j].count = Len(session[i].data.blocks)
  <2>1. CASE IsOpen(i)
    BY <2>1 DEF SetAttribute, StorageInv, StorageTypes
  <2>2. CASE ~IsOpen(i)
    <3>1. /\ OpenDriver(session[i].data) \in Drivers
          /\ OpenDriver(session[i].data).count = Len(session[i].data.blocks)
      BY <1>1, OpenDriverType
    <3>2. session[i].data.is = "whole"
          /\ reader' = [reader EXCEPT ![i] = OpenDriver(session[i].data)]
      BY <2>2 DEF SetAttribute, CanOpen
    <3>. QED
      BY <3>1, <3>2 DEF StorageInv, StorageTypes
  <2>. QED
    BY <2>1, <2>2
<1>10. StorageTypes'
  BY <1>5, <1>6, <1>8, <1>9 DEF StorageInv, StorageTypes
<1>11. NamesAreFree'
  BY <1>2, <1>5, <1>6 DEF StorageInv, NamesAreFree
<1>12. WriterFits'
  BY <1>2, <1>5, <1>6, <1>7 DEF StorageInv, StorageTypes, WriterFits, Maybe
<1>13. ReadersFit'
  <2>1. Len(session[i].data.blocks) \in Nat
    BY <1>1, DirectoryParts
  <2>. QED
    BY <1>2, <1>5, <1>6, <1>9, <2>1 DEF StorageInv, ReadersFit
<1>. QED
  BY <1>5, <1>10, <1>11, <1>12, <1>13 DEF StorageInv

LEMMA WriteInv == StorageInv /\ WriteSensorValue => StorageInv' /\ AllKept
<1>. SUFFICES ASSUME StorageInv, WriteSensorValue PROVE StorageInv' /\ AllKept
  OBVIOUS
<1> DEFINE w == writeId
           f == session[w].data
           b == writer.count + 1
           g == Written(f, writer, b)
           s == [session[w] EXCEPT !.data = g]
<1>1. /\ w \in SessionIds /\ session[w] \in Directories /\ f \in DataFile
      /\ f.blocks \in Seq(SampleBlocks) /\ Len(f.blocks) \in Nat
      /\ writer \in Drivers /\ writer.count = Len(f.blocks) /\ b \in SampleBlocks
  <2>1. w \in SessionIds /\ session[w] \in Directories
    BY DEF WriteSensorValue, StorageInv, StorageTypes, Maybe
  <2>2. f \in DataFile /\ f.blocks \in Seq(SampleBlocks) /\ Len(f.blocks) \in Nat
    BY <2>1, DirectoryParts
  <2>3. writer \in Drivers /\ writer.count = Len(f.blocks)
    BY DEF WriteSensorValue, StorageInv, StorageTypes, WriterFits
  <2>4. b \in SampleBlocks
    BY <2>2, <2>3, Bounds DEF WriteSensorValue, SampleBlocks
  <2>. QED
    BY <2>1, <2>2, <2>3, <2>4
<1>2. /\ session' = [session EXCEPT ![w] = s] /\ writer' = AfterWrite(writer) /\ opened
      /\ UNCHANGED <<fixed, opened, writeId, writeAttr, reader, readAttr, mainRead, faults>>
  BY DEF WriteSensorValue
<1>. HIDE DEF b
<1>3. g = [f EXCEPT !.blocks = Append(f.blocks, b)]
  <2>1. f \in [is : States, blocks : Seq(SampleBlocks)]
    BY <1>1 DEF DataFile
  <2>. HIDE DEF f
  <2>. QED
    BY <1>1, <2>1, WrittenAppends
<1>4. /\ g \in DataFile /\ g.is = f.is /\ g.blocks = Append(f.blocks, b)
      /\ Len(g.blocks) = Len(f.blocks) + 1
  <2>1. Append(f.blocks, b) \in Seq(SampleBlocks) /\ Len(Append(f.blocks, b)) = Len(f.blocks) + 1
    BY <1>1, AppendProperties
  <2>2. g = [is |-> f.is, blocks |-> Append(f.blocks, b)]
    BY <1>1, <1>3 DEF DataFile
  <2>3. f.is \in States
    BY <1>1 DEF DataFile
  <2>. QED
    BY <2>1, <2>2, <2>3 DEF DataFile
<1>. HIDE DEF g
<1>5. s \in Directories /\ s.dir = session[w].dir /\ s.data = g /\ s.attr = session[w].attr
  BY <1>1, <1>4, DataReplaced
<1>. HIDE DEF s
<1>6. Kept(session[w], s)
  <2>1. SubSeq(g.blocks, 1, Len(f.blocks)) = f.blocks
    BY <1>1, <1>4, AppendKeeps
  <2>. QED
    BY <1>1, <1>4, <1>5, <2>1 DEF Kept
<1>7. /\ session' \in [SessionIds -> Directories] /\ session'[w] = s /\ AllKept
      /\ \A j \in SessionIds : j # w => session'[j] = session[j]
  BY <1>1, <1>2, <1>5, <1>6, OneSession DEF StorageInv
<1>8. /\ writer' \in Drivers /\ writer'.opened = writer.opened
      /\ writer'.count = Len(f.blocks) + 1
  BY <1>1, <1>2, AfterWriteType
<1>9. StorageTypes'
  BY <1>2, <1>7, <1>8 DEF StorageInv, StorageTypes
<1>10. NamesAreFree'
  <2>1. s.dir
    <3>1. session[w].data.is = "whole"
      BY <1>1, Bounds DEF StorageInv, WriterFits
    <3>. QED
      BY <1>1, <1>5, <3>1, Fresh DEF StorageInv, NamesAreFree
  <2>. QED
    BY <1>7, <2>1 DEF StorageInv, NamesAreFree
<1>11. WriterFits'
  BY <1>1, <1>2, <1>4, <1>5, <1>7, <1>8 DEF StorageInv, WriterFits
<1>12. ReadersFit'
  <2>1. ASSUME NEW j \in SessionIds, reader[j].opened
        PROVE  /\ session'[j].data.is = "whole"
               /\ reader[j].count <= Len(session'[j].data.blocks)
    <3>1. /\ session[j].data.is = "whole"
          /\ reader[j].count <= Len(session[j].data.blocks) /\ reader[j].count \in Nat
      BY <2>1 DEF StorageInv, StorageTypes, ReadersFit, Drivers
    <3>2. CASE j = w
      <4>1. session'[j].data = g /\ f.is = "whole" /\ reader[j].count <= Len(f.blocks)
        BY <1>5, <1>7, <3>1, <3>2
      <4>. HIDE DEF f
      <4>2. reader[j].count <= Len(g.blocks)
        BY <1>1, <1>4, <3>1, <4>1
      <4>. QED
        BY <1>4, <4>1, <4>2
    <3>. QED
      BY <1>7, <3>1, <3>2
  <2>. QED
    BY <1>2, <2>1 DEF ReadersFit
<1>. QED
  BY <1>7, <1>9, <1>10, <1>11, <1>12 DEF StorageInv

(* A session that is removed loses all its blocks, or none. *)
LEMMA RemovedParts ==
  ASSUME NEW s \in Directories, s.dir
  PROVE  /\ Removed(s) \in Directories
         /\ ~Removed(s).dir => Removed(s) = NoSession
         /\ Removed(s).data.blocks \in {s.data.blocks, <<>>}
<1> DEFINE t == [s EXCEPT !.data = NoFile]
           u == [s EXCEPT !.data = NoFile, !.meta = FALSE, !.attr = None]
<1>1. t \in Directories /\ t.dir = s.dir /\ t.data = NoFile
  BY Fresh, DataReplaced
<1>2. u \in Directories /\ u.dir = s.dir /\ u.data = NoFile
  <2>1. NoFile \in FilesOf(1..MaxValues)
    BY Fresh DEF DataFile, FilesOf, States, SampleBlocks
  <2>2. u \in Directories
    BY <2>1 DEF Directories, Maybe
  <2>3. u.dir = s.dir
    BY DEF Directories
  <2>4. u.data = NoFile
    BY DEF Directories
  <2>. QED
    BY <2>2, <2>3, <2>4
<1>3. Removed(s) \in {s, t, u, NoSession}
  BY DEF Removed
<1>. HIDE DEF t, u
<1>. QED
  BY <1>1, <1>2, <1>3, Fresh

LEMMA RemoveInv ==
  ASSUME NEW i \in SessionIds, StorageInv, RemoveSession(i)
  PROVE  /\ StorageInv'
         /\ \A j \in SessionIds :
              Kept(session[j], session'[j]) \/ (session'[j].data.blocks = <<>> /\ writeId # j)
<1> DEFINE s == Removed(session[i])
<1>1. session[i] \in Directories /\ session[i].dir /\ writeId # i
  BY DEF RemoveSession, StorageInv, StorageTypes
<1>2. /\ s \in Directories /\ (~s.dir => s = NoSession)
      /\ s.data.blocks \in {session[i].data.blocks, <<>>}
  BY <1>1, RemovedParts
<1>3. session' = [session EXCEPT ![i] = s]
  BY DEF RemoveSession
<1>. HIDE DEF s
<1>4. /\ session' \in [SessionIds -> Directories] /\ session'[i] = s
      /\ \A j \in SessionIds : j # i => session'[j] = session[j]
  BY <1>2, <1>3 DEF StorageInv, StorageTypes
<1>5. /\ reader' = [reader EXCEPT ![i] = Closed]
      /\ readAttr' = [readAttr EXCEPT ![i] = None]
      /\ mainRead' \in {None, mainRead}
      /\ UNCHANGED <<fixed, opened, writeId, writer, writeAttr, faults>>
  BY DEF RemoveSession
<1>6. StorageTypes'
  BY <1>4, <1>5, Fresh DEF StorageInv, StorageTypes, Maybe
<1>7. NamesAreFree'
  BY <1>2, <1>4 DEF StorageInv, NamesAreFree
<1>8. WriterFits'
  BY <1>1, <1>4, <1>5 DEF StorageInv, StorageTypes, WriterFits, Maybe
<1>9. ReadersFit'
  BY <1>4, <1>5, Fresh DEF StorageInv, StorageTypes, ReadersFit
<1>10. ASSUME NEW j \in SessionIds
       PROVE  Kept(session[j], session'[j])
                \/ (session'[j].data.blocks = <<>> /\ writeId # j)
  <2>1. session[j] \in Directories
    BY DEF StorageInv, StorageTypes
  <2>2. CASE j # i
    BY <1>4, <2>1, <2>2, NothingLost
  <2>3. CASE j = i
    BY <1>1, <1>2, <1>4, <2>1, <2>3, SameBlocks
  <2>. QED
    BY <2>2, <2>3
<1>. QED
  BY <1>6, <1>7, <1>8, <1>9, <1>10 DEF StorageInv

(* What a stop leaves of the session that was written. *)
LEMMA StopInv ==
  ASSUME StorageInv, StopStorage, faults < MaxFaults, faults' = faults + 1
  PROVE  /\ StorageInv'
         /\ \A j \in SessionIds :
              \/ Kept(session[j], session'[j])
              \/ LET old  == session[j].data.blocks
                     kept == SubSeq(old, 1, Len(old) - 1)
                 IN  writeId = j /\ session'[j].data.blocks \in {kept, Append(kept, Torn)}
<1>1. /\ opened' = FALSE /\ writeId' = None /\ writer' = Closed /\ writeAttr' = None
      /\ reader' = [i \in SessionIds |-> Closed]
      /\ readAttr' = [i \in SessionIds |-> None]
      /\ mainRead' = None /\ UNCHANGED fixed
  BY DEF StopStorage
<1>2. faults' \in 0..MaxFaults
  BY Bounds DEF StorageInv, StorageTypes
<1>3. ASSUME session' \in [SessionIds -> Directories], NamesAreFree'
      PROVE  StorageInv'
  <2>1. StorageTypes'
    BY <1>1, <1>2, <1>3, Fresh DEF StorageInv, StorageTypes, Maybe
  <2>2. WriterFits' /\ ReadersFit'
    BY <1>1, Fresh DEF WriterFits, ReadersFit
  <2>. QED
    BY <1>3, <2>1, <2>2 DEF StorageInv
<1>4. CASE writeId = None
  <2>1. UNCHANGED session
    BY <1>4 DEF StopStorage
  <2>2. StorageInv'
    BY <1>3, <2>1 DEF StorageInv, StorageTypes, NamesAreFree
  <2>3. \A j \in SessionIds : Kept(session[j], session'[j])
    BY <2>1, NothingLost DEF StorageInv, StorageTypes
  <2>. QED
    BY <2>2, <2>3
<1>5. CASE writeId # None
  <2> DEFINE w == writeId
             f == session[w].data
  <2>1. PICK g \in AfterAppend(f, writer, fixed) : session' = [session EXCEPT ![w].data = g]
    BY <1>5 DEF StopStorage
  <2> DEFINE s == [session[w] EXCEPT !.data = g]
             kept == SubSeq(f.blocks, 1, Len(f.blocks) - 1)
  <2>2. /\ w \in SessionIds /\ session[w] \in Directories /\ f \in DataFile
        /\ writer \in Drivers /\ fixed \in BOOLEAN
    BY <1>5, DirectoryParts DEF StorageInv, StorageTypes, Maybe
  <2>3. f.is = "whole" /\ (writer.late => Len(f.blocks) > 0)
    BY <1>5 DEF StorageInv, WriterFits
  <2>4. /\ g \in DataFile
        /\ ~writer.late => g = f
        /\ writer.late => g.blocks \in {f.blocks, kept, Append(kept, Torn)}
    <3>1. f \in [is : States, blocks : Seq(SampleBlocks)] /\ Torn \in SampleBlocks
      BY <2>2 DEF DataFile, SampleBlocks
    <3>. HIDE DEF f
    <3>. QED
      BY <2>1, <2>2, <2>3, <3>1, AppendLost DEF DataFile
  <2>5. session[w].dir
    BY <2>2, <2>3, Fresh DEF StorageInv, NamesAreFree
  <2>6. s \in Directories /\ s.dir = session[w].dir /\ s.data = g
    BY <2>2, <2>4, DataReplaced
  <2>7. session' = [session EXCEPT ![w] = s]
    BY <2>1
  <2>. HIDE DEF s
  <2>8. /\ session' \in [SessionIds -> Directories] /\ session'[w] = s
        /\ \A j \in SessionIds : j # w => session'[j] = session[j]
    BY <2>2, <2>6, <2>7 DEF StorageInv, StorageTypes
  <2>9. StorageInv'
    <3>1. NamesAreFree'
      BY <2>5, <2>6, <2>8 DEF StorageInv, NamesAreFree
    <3>. QED
      BY <1>3, <2>8, <3>1
  <2>10. ASSUME NEW j \in SessionIds, j # w PROVE Kept(session[j], session'[j])
    BY <2>8, <2>10, NothingLost DEF StorageInv, StorageTypes
  <2>11. Kept(session[w], session'[w]) \/ session'[w].data.blocks \in {kept, Append(kept, Torn)}
    <3>1. CASE g.blocks = f.blocks
      BY <2>2, <2>6, <2>8, <3>1, SameBlocks
    <3>2. CASE g.blocks # f.blocks
      BY <2>4, <2>6, <2>8, <3>2
    <3>. QED
      BY <3>1, <3>2
  <2>. QED
    BY <2>9, <2>10, <2>11
<1>. QED
  BY <1>4, <1>5
-----------------------------------------------------------------------------
(***************************************************************************)
(* The steps.                                                              *)
(***************************************************************************)
LEMMA InitInv == CollectionInit => IInv
<1>. SUFFICES ASSUME CollectionInit PROVE IInv
  OBVIOUS
<1>1. StorageTypes
  BY Fresh, Bounds DEF CollectionInit, StorageInit, StorageTypes, Maybe
<1>2. NamesAreFree /\ WriterFits /\ ReadersFit
  BY Fresh DEF CollectionInit, StorageInit, NamesAreFree, WriterFits, ReadersFit
<1>3. UnitTypes
  BY DEF CollectionInit, UnitTypes
<1>. QED
  BY <1>1, <1>2, <1>3 DEF IInv, StorageInv

LEMMA UnitStep == UnitTypes /\ [CollectionNext]_collectionVars => UnitTypes'
<1>. SUFFICES ASSUME UnitTypes, [CollectionNext]_collectionVars PROVE UnitTypes'
  OBVIOUS
<1>1. CASE DeviceConnected \/ DeviceReplaced \/ DeviceLost
  BY <1>1 DEF UnitTypes, DeviceConnected, DeviceReplaced, DeviceLost
<1>2. CASE UnitMade \/ UnitDeleted
  BY <1>2 DEF UnitTypes, UnitMade, UnitDeleted
<1>3. CASE Terminate \/ Crash
  BY <1>3 DEF UnitTypes, Terminate, Crash
<1>4. CASE \/ UNCHANGED collectionVars
           \/ Measurement \/ StorageOpened \/ SessionCreate \/ SessionStart \/ SessionStop
           \/ SessionRemove \/ SessionAttr \/ SamplesCount
  <2>1. UNCHANGED unitVars
    BY <1>4 DEF collectionVars, Measurement, StorageOpened, SessionCreate, SessionStart,
                SessionStop, SessionRemove, SessionAttr, SamplesCount
  <2>. QED
    BY <2>1 DEF UnitTypes, unitVars
<1>. QED
  BY <1>1, <1>2, <1>3, <1>4 DEF CollectionNext

(* Every step but a removal and a stop keeps all blocks. *)
LEMMA KeepingStep ==
  ASSUME StorageInv, [CollectionNext]_collectionVars, ~SessionRemove, ~Crash
  PROVE  StorageInv' /\ AllKept
<1>1. CASE UNCHANGED collectionVars \/ DeviceConnected \/ DeviceReplaced \/ DeviceLost
  <2>1. UNCHANGED storageVars
    BY <1>1 DEF collectionVars, DeviceConnected, DeviceReplaced, DeviceLost
  <2>. QED
    BY <2>1, UnchangedStorage
<1>2. CASE UnitMade
  <2>1. \/ UNCHANGED storageVars
        \/ \E i \in SessionIds : StartSession(i) \/ CreateSessionFails(i)
    BY <1>2 DEF UnitMade
  <2>. QED
    BY <2>1, UnchangedStorage, StartInv, CreateInv
<1>3. CASE UnitDeleted \/ SessionStop
  BY <1>3, CloseWriteInv DEF UnitDeleted, SessionStop
<1>4. CASE Measurement
  BY <1>4, WriteInv DEF Measurement
<1>5. CASE StorageOpened
  BY <1>5, OpenStorageInv DEF StorageOpened
<1>6. CASE SessionCreate
  BY <1>6, CreateInv DEF SessionCreate
<1>7. CASE SessionStart
  BY <1>7, OpenWriteInv DEF SessionStart
<1>8. CASE SessionAttr
  BY <1>8, ReadInv, SetAttributeInv DEF SessionAttr
<1>9. CASE SamplesCount
  BY <1>9, ReadInv DEF SamplesCount
<1>10. CASE Terminate
  BY <1>10, CloseStorageInv DEF Terminate
<1>. QED
  BY <1>1, <1>2, <1>3, <1>4, <1>5, <1>6, <1>7, <1>8, <1>9, <1>10 DEF CollectionNext

LEMMA StepInv == IInv /\ [CollectionNext]_collectionVars => IInv'
<1>. SUFFICES ASSUME IInv, [CollectionNext]_collectionVars PROVE StorageInv'
  BY UnitStep DEF IInv
<1>1. CASE SessionRemove
  BY <1>1, RemoveInv DEF SessionRemove, IInv
<1>2. CASE Crash
  BY <1>2, StopInv DEF Crash, IInv
<1>3. CASE ~SessionRemove /\ ~Crash
  BY <1>3, KeepingStep DEF IInv
<1>. QED
  BY <1>1, <1>2, <1>3

LEMMA Invariance == CollectionSpec => []IInv
<1>. QED
  BY InitInv, StepInv, PTL DEF CollectionSpec
-----------------------------------------------------------------------------
(* The types, and: the driver that writes a session knows of every block   *)
(* of its file, those that read one of no more than there are, and no      *)
(* session that is open is without its files, whoever creates, removes or  *)
(* opens sessions (SessionStorage, DataCollectionUnit).                    *)
THEOREM DriversCorrect == CollectionSpec => []DriversFitFiles
<1>1. IInv => DriversFitFiles
  <2>. SUFFICES ASSUME IInv PROVE DriversFitFiles
    OBVIOUS
  <2>1. CollectionTypeOK
    BY DEF IInv, StorageInv, StorageTypes, UnitTypes, CollectionTypeOK
  <2>2. writeId # None =>
          writer = [opened |-> TRUE, late |-> writer.late,
                    count |-> Len(session[writeId].data.blocks)]
    <3>. SUFFICES ASSUME writeId # None
                  PROVE  writer = [opened |-> TRUE, late |-> writer.late,
                                   count |-> Len(session[writeId].data.blocks)]
      OBVIOUS
    <3>1. writer \in Drivers /\ writer.opened = TRUE
      BY DEF IInv, StorageInv, StorageTypes, WriterFits, Drivers
    <3>2. writer.count = Len(session[writeId].data.blocks)
      BY DEF IInv, StorageInv, WriterFits
    <3>. QED
      BY <3>1, <3>2 DEF Drivers
  <2>. QED
    BY <2>1, <2>2 DEF IInv, StorageInv, WriterFits, ReadersFit, DriversFitFiles
<1>. QED
  BY <1>1, Invariance, PTL

(* The session that is written has the attribute of its file, whichever    *)
(* way the attribute was set, and although the same session may be open    *)
(* for reading (SessionStorage).                                           *)
THEOREM AttributesCorrect == CollectionSpec => []WriterHasAttributes
<1>1. IInv => WriterHasAttributes
  BY DEF IInv, StorageInv, WriterFits, WriterHasAttributes
<1>. QED
  BY <1>1, Invariance, PTL

(* No step takes or changes a value of a session, but a removal of one     *)
(* that is not written, and a stop, which takes or damages the last one of *)
(* the session that was written (SessionStorage).                          *)
THEOREM ValuesCorrect == CollectionSpec => ValuesStay
<1> DEFINE Stay(i) ==
      LET old  == session[i].data.blocks
          new  == session'[i].data.blocks
          kept == SubSeq(old, 1, Len(old) - 1)
      IN  \/ Len(new) >= Len(old) /\ SubSeq(new, 1, Len(old)) = old
          \/ faults' > faults /\ writeId = i /\ new \in {kept, Append(kept, Torn)}
          \/ new = <<>> /\ writeId # i /\ mode = "manual"
<1>1. IInv /\ [CollectionNext]_collectionVars => \A i \in SessionIds : Stay(i)
  <2>. SUFFICES ASSUME IInv, [CollectionNext]_collectionVars, NEW i \in SessionIds PROVE Stay(i)
    OBVIOUS
  <2>1. CASE SessionRemove
    <3>1. mode = "manual"
      BY <2>1 DEF SessionRemove
    <3>2. Kept(session[i], session'[i])
            \/ (session'[i].data.blocks = <<>> /\ writeId # i)
      BY <2>1, RemoveInv DEF SessionRemove, IInv
    <3>. QED
      BY <3>1, <3>2 DEF Kept
  <2>2. CASE Crash
    <3>1. faults < MaxFaults /\ faults' = faults + 1 /\ StopStorage
      BY <2>2 DEF Crash
    <3>2. faults' > faults
      BY <3>1, Bounds DEF IInv, StorageInv, StorageTypes
    <3>3. \/ Kept(session[i], session'[i])
          \/ LET old  == session[i].data.blocks
                 kept == SubSeq(old, 1, Len(old) - 1)
             IN  writeId = i /\ session'[i].data.blocks \in {kept, Append(kept, Torn)}
      BY <3>1, StopInv DEF IInv
    <3>. QED
      BY <3>2, <3>3 DEF Kept
  <2>3. CASE ~SessionRemove /\ ~Crash
    BY <2>3, KeepingStep DEF IInv, AllKept, Kept
  <2>. QED
    BY <2>1, <2>2, <2>3
<1>2. IInv /\ [CollectionNext]_collectionVars => [\A i \in SessionIds : Stay(i)]_collectionVars
  BY <1>1
<1>. QED
  BY <1>2, Invariance, PTL DEF CollectionSpec, ValuesStay

-----------------------------------------------------------------------------
(***************************************************************************)
(* Programs, statements and what is put before the rest of them.           *)
(***************************************************************************)
LEMMA LeastOf ==
  ASSUME NEW T, T \subseteq Nat, T # {}
  PROVE  \E x \in T : \A y \in T : x <= y
<1> DEFINE R == {w \in Nat \X Nat : w[1] < w[2]}
<1>1. IsWellFoundedOn(OpToRel(<, Nat), Nat)
  BY NatLessThanWellFounded
<1>2. OpToRel(<, Nat) = R
  BY DEF OpToRel
<1>3. PICK x \in T : \A y \in T : ~ (<<y, x>> \in R)
  <2> HIDE DEF R
  <2>. QED
    BY <1>1, <1>2, WFMin
<1>4. ASSUME NEW y \in T PROVE x <= y
  <2>1. x \in Nat /\ y \in Nat
    OBVIOUS
  <2>2. ~ (<<y, x>> \in R)
    BY <1>3
  <2>3. ~ (y < x)
    BY <2>1, <2>2
  <2>. QED
    BY <2>1, <2>3
<1>. QED
  BY <1>4

LEMMA LinksAre ==
  ASSUME prg \in Programs, NEW b \in Blocks
  PROVE  /\ Blocks \subseteq Nat \ {0}
         /\ Sources \subseteq Blocks
         /\ prg.kind[b] \in Kinds
         /\ Len(prg.links[b]) \in Nat
         /\ prg.kind[b] = "command" => Len(prg.links[b]) = 2
         /\ \A k \in 1..Len(prg.links[b]) :
              prg.links[b][k].to \in Blocks /\ prg.links[b][k].i \in 1..2
<1>1. prg.kind \in Seq(Kinds)
  BY ConstantsAssumption
<1>2. prg.links \in [DOMAIN prg.kind -> Seq([to : DOMAIN prg.kind, i : 1..2])]
  BY ConstantsAssumption
<1>3. prg.links[b] \in Seq([to : DOMAIN prg.kind, i : 1..2])
  BY <1>2 DEF Blocks
<1>4. prg.kind[b] = "command" => Len(prg.links[b]) = 2
  BY ConstantsAssumption DEF Blocks
<1>5. Blocks \subseteq Nat \ {0} /\ prg.kind[b] \in Kinds
  BY <1>1 DEF Blocks
<1>6. \A k \in 1..Len(prg.links[b]) : prg.links[b][k] \in [to : Blocks, i : 1..2]
  <2>1. \A T : \A l \in Seq(T) : \A k \in 1..Len(l) : l[k] \in T
    OBVIOUS
  <2>2. prg.links[b] \in Seq([to : Blocks, i : 1..2])
    BY <1>3 DEF Blocks
  <2>. QED
    BY <2>1, <2>2
<1>7. Len(prg.links[b]) \in Nat
  BY <1>3
<1>. QED
  BY <1>4, <1>5, <1>6, <1>7 DEF Sources

LEMMA BlocksAre ==
  ASSUME prg \in Programs
  PROVE  Blocks \subseteq Nat \ {0} /\ Sources \subseteq Blocks /\ Sources \subseteq Nat
<1>1. prg.kind \in Seq(Kinds)
  BY ConstantsAssumption
<1>. QED
  BY <1>1 DEF Blocks, Sources

(* A statement is about a block of its kind. *)
Proper == {st \in Statement :
             /\ st.op \in {"extract", "clear", "fetch", "source"} => st.b \in Sources
             /\ st.op = "clear" => prg.kind[st.b] = "timer"
             /\ st.op = "fetch" => prg.kind[st.b] = "storage"
             /\ st.op \in {"set", "ask"} => st.b \in Blocks
             /\ st.op = "set" => st.i \in 1..2}

LEMMA DoIsProper ==
  ASSUME NEW op \in {"lock", "extract", "clear", "fetch", "unlock", "prepare",
                     "source", "ask", "timers", "cleanup"}, NEW b \in Nat,
         op \in {"extract", "clear", "fetch", "source"} => b \in Sources,
         op = "clear" => prg.kind[b] = "timer", op = "fetch" => prg.kind[b] = "storage",
         op = "ask" => b \in Blocks
  PROVE  Do(op, b) \in Proper /\ Do(op, b).op = op /\ Do(op, b).b = b
BY DEF Proper, Statement, Do, Data

LEMMA EachIs ==
  ASSUME prg \in Programs, NEW op \in {"extract", "source"}, NEW S, S \subseteq Sources
  PROVE  /\ Each(op, S) \in Seq(Proper)
         /\ S = {} => Each(op, S) = <<>> /\ Len(Each(op, S)) = 0
         /\ S # {} => /\ Len(Each(op, S)) = 1
                      /\ Each(op, S)[1].op = op
                      /\ Each(op, S)[1].b \in S
                      /\ \A s \in S : Each(op, S)[1].b <= s
<1>1. CASE S = {}
  BY <1>1 DEF Each
<1>2. CASE S # {}
  <2>1. S \subseteq Nat
    BY BlocksAre
  <2>2. PICK x \in S : \A y \in S : x <= y
    BY <1>2, <2>1, LeastOf
  <2>3. Min(S) \in S /\ \A y \in S : Min(S) <= y
    BY <2>2 DEF Min
  <2>4. Do(op, Min(S)) \in Proper /\ Do(op, Min(S)).op = op /\ Do(op, Min(S)).b = Min(S)
    <3>1. Min(S) \in Nat /\ Min(S) \in Sources
      BY <2>1, <2>3
    <3>2. op \notin {"ask", "clear", "fetch"}
      OBVIOUS
    <3>. QED
      BY <3>1, <3>2, DoIsProper
  <2>5. Each(op, S) = <<Do(op, Min(S))>>
    BY <1>2 DEF Each
  <2> HIDE DEF Each
  <2>. QED
    BY <1>2, <2>3, <2>4, <2>5
<1>. QED
  BY <1>1, <1>2

LEMMA OutputIs ==
  ASSUME prg \in Programs, NEW b \in Blocks, NEW k \in 1..Len(prg.links[b]), NEW v \in Data
  PROVE  /\ Output(b, k, v) \in Seq(Proper) /\ Len(Output(b, k, v)) = 1
         /\ Output(b, k, v)[1] = Set(prg.links[b][k].to, prg.links[b][k].i, v)
         /\ Output(b, k, v)[1] \in Proper
         /\ Output(b, k, v)[1].op = "set" /\ Output(b, k, v)[1].v = v
         /\ Output(b, k, v)[1].b = prg.links[b][k].to
         /\ Output(b, k, v)[1].i = prg.links[b][k].i
<1>1. prg.links[b][k].to \in Blocks /\ prg.links[b][k].i \in 1..2 /\ Blocks \subseteq Nat
  BY LinksAre
<1>2. Set(prg.links[b][k].to, prg.links[b][k].i, v) \in Proper
  <2>1. PICK c \in Blocks : c = prg.links[b][k].to
    BY <1>1
  <2>2. PICK i \in 1..2 : i = prg.links[b][k].i
    BY <1>1
  <2>3. c \in Nat /\ i \in 0..2
    BY <1>1
  <2>4. Set(c, i, v) \in Statement
    BY <2>3 DEF Statement, Set
  <2>5. Set(c, i, v).op = "set" /\ Set(c, i, v).b = c /\ Set(c, i, v).i = i
    BY DEF Set
  <2>6. Set(c, i, v) \in Proper
    BY <2>4, <2>5 DEF Proper
  <2>. QED
    BY <2>1, <2>2, <2>6
<1>. QED
  BY <1>2 DEF Output, Set

LEMMA OutputsAre ==
  ASSUME prg \in Programs, NEW b \in Blocks, NEW v \in Data
  PROVE  /\ Outputs(b, v) \in Seq(Proper)
         /\ Len(Outputs(b, v)) = Len(prg.links[b])
         /\ \A k \in 1..Len(prg.links[b]) :
              Outputs(b, v)[k] = Set(prg.links[b][k].to, prg.links[b][k].i, v)
         /\ \A k \in DOMAIN Outputs(b, v) : /\ Outputs(b, v)[k].op = "set"
                                            /\ Outputs(b, v)[k].v = v
<1>1. Len(prg.links[b]) \in Nat
  BY LinksAre
<1>2. \A k \in 1..Len(prg.links[b]) :
        /\ Output(b, k, v)[1] = Set(prg.links[b][k].to, prg.links[b][k].i, v)
        /\ Output(b, k, v)[1] \in Proper
        /\ Output(b, k, v)[1].op = "set" /\ Output(b, k, v)[1].v = v
  BY OutputIs
<1>3. Outputs(b, v) = [k \in 1..Len(prg.links[b]) |-> Output(b, k, v)[1]]
  BY DEF Outputs
<1>. QED
  BY <1>1, <1>2, <1>3

(* P is put before what is left of t after its first statement. *)
LEMMA JoinedIs ==
  ASSUME NEW S, NEW P \in Seq(S), NEW t \in Seq(S)
  PROVE  /\ P \o t \in Seq(S) /\ Len(P \o t) = Len(P) + Len(t)
         /\ \A n \in 1..Len(P) : (P \o t)[n] = P[n]
         /\ \A n \in (Len(P) + 1)..(Len(P) + Len(t)) : (P \o t)[n] = t[n - Len(P)]
  OBVIOUS

LEMMA PairIs ==
  ASSUME NEW S, NEW a \in Seq(S), Len(a) = 1, NEW c \in Seq(S), Len(c) = 1
  PROVE  /\ a \o c \in Seq(S) /\ Len(a \o c) = 2
         /\ (a \o c)[1] = a[1] /\ (a \o c)[2] = c[1]
<1>1. a \o c \in Seq(S) /\ Len(a \o c) = Len(a) + Len(c)
  BY JoinedIs
<1>2. (a \o c)[1] = a[1]
  BY JoinedIs
<1>3. (a \o c)[2] = c[1]
  <2>1. 2 \in (Len(a) + 1)..(Len(a) + Len(c)) /\ 2 - Len(a) = 1
    OBVIOUS
  <2>2. (a \o c)[2] = c[2 - Len(a)]
    BY <2>1, JoinedIs
  <2>. QED
    BY <2>1, <2>2
<1>. QED
  BY <1>1, <1>2, <1>3

LEMMA RestIs ==
  ASSUME NEW S, NEW t \in Seq(S), t # <<>>
  PROVE  /\ Tail(t) \in Seq(S) /\ Len(Tail(t)) = Len(t) - 1 /\ Len(t) >= 1
         /\ t[1] \in S
         /\ \A n \in 1..(Len(t) - 1) : Tail(t)[n] = t[n + 1]
  OBVIOUS

-----------------------------------------------------------------------------
(***************************************************************************)
(* Types, and what each step puts before the rest.                         *)
(***************************************************************************)
(* An activation is queued for each trigger, but at once. *)
Counted == queue + (IF thread = 0 THEN 0 ELSE 1) <= triggers

SourceData == [now : Data, due : BOOLEAN, next : Data, work : Data,
               nextTrig : BOOLEAN, workTrig : BOOLEAN]

(* A timer has told whether it was due, or was not asked yet. *)
TimersTell ==
  \A s \in Sources : prg.kind[s] = "timer" =>
    /\ source[s].next \in BOOLEAN \cup {Invalid}
    /\ source[s].work \in BOOLEAN \cup {Invalid}

Typed ==
  /\ TypeOK
  /\ todo \in Seq(Proper)
  /\ Counted
  /\ \A s \in Sources : source[s].now \in Vals
  /\ TimersTell

LEMMA ProperAreStatements == Seq(Proper) \subseteq Seq(Statement)
BY DEF Proper

LEMMA StillTheProgram ==
  ASSUME prg' = prg
  PROVE  /\ Blocks' = Blocks /\ Sources' = Sources /\ Proper' = Proper
         /\ NoInputs' = NoInputs /\ (Prompt' <=> Prompt)
BY DEF Blocks, Sources, Proper, NoInputs, Prompt

LEMMA TypesAre ==
  ASSUME Typed, todo # <<>>
  PROVE  /\ prg \in Programs
         /\ Rest \in Seq(Proper)
         /\ todo[1] \in Proper
         /\ todo[1].v \in Data
         /\ B \in Nat
         /\ todo[1].op \in {"extract", "clear", "fetch", "source"} => B \in Sources
         /\ todo[1].op \in {"set", "ask"} => B \in Blocks
         /\ todo[1].op = "set" => todo[1].i \in 1..2
         /\ todo[1].op = "clear" => prg.kind[B] = "timer"
         /\ todo[1].op = "fetch" => prg.kind[B] = "storage"
         /\ Later(B) \subseteq Sources
<1>1. prg \in Programs /\ todo \in Seq(Proper)
  BY DEF Typed, TypeOK
<1>2. Rest \in Seq(Proper) /\ todo[1] \in Proper
  BY <1>1, RestIs DEF Rest
<1>. QED
  BY <1>1, <1>2 DEF Proper, Statement, B, Later

Sets(P) == \A k \in DOMAIN P : P[k].op = "set"

(* What is put there, by the statement that is executed. *)
Puts(P) ==
  \/ todo[1].op = "lock" /\ P = Each("extract", Sources) \o <<Do("unlock", 0)>>
  \/ todo[1].op \in {"unlock", "timers", "cleanup"} /\ P = <<>>
  \/ /\ todo[1].op = "extract"
     /\ \/ prg.kind[B] = "command" /\ P = Each("extract", Later(B))
        \/ prg.kind[B] = "timer" /\ P = <<Do("clear", B)>>
        \/ prg.kind[B] = "storage" /\ P = <<Do("fetch", B)>>
  \/ todo[1].op = "clear" /\ P = Each("extract", Later(B))
  \/ todo[1].op = "fetch" /\ P \in {<<>>, Each("extract", Later(B))}
  \/ todo[1].op = "prepare" /\ P = Each("source", Sources)
  \/ /\ todo[1].op = "source"
     /\ \E O \in Seq(Proper) : Sets(O) /\ P = O \o Each("source", Later(B))
  \/ /\ todo[1].op = "set"
     /\ \/ Sets(P)
        \/ prg.kind[B] = "ask" /\ P = <<Do("ask", B)>>
  \/ todo[1].op = "ask" /\ Sets(P)

LEMMA NothingBefore ==
  ASSUME Typed, todo # <<>>
  PROVE  <<>> \in Seq(Proper) /\ <<>> \o Rest = Rest /\ Sets(<<>>)
BY TypesAre DEF Sets

LEMMA EvaluatedIs ==
  ASSUME Typed, Next1("source")
  PROVE  LET s == source[B]
             O == CASE prg.kind[B] # "command" -> Outputs(B, s.work)
                    [] prg.kind[B] = "command" /\ s.work # Invalid ->
                         Output(B, 1, s.workTrig) \o Output(B, 2, s.work)
                    [] OTHER -> <<>>
         IN  O \in Seq(Proper) /\ Sets(O)
<1>1. todo # <<>> /\ todo[1].op = "source"
  BY DEF Next1
<1>2. B \in Sources /\ B \in Blocks /\ prg \in Programs
  BY <1>1, TypesAre, BlocksAre
<1>3. source[B].work \in Data /\ source[B].workTrig \in Data
  BY <1>2 DEF Typed, TypeOK, Data
<1>4. CASE prg.kind[B] # "command"
  BY <1>2, <1>3, <1>4, OutputsAre DEF Sets
<1>5. CASE prg.kind[B] = "command" /\ source[B].work = Invalid
  BY <1>5 DEF Sets
<1>6. CASE prg.kind[B] = "command" /\ source[B].work # Invalid
  <2>1. Len(prg.links[B]) = 2
    BY <1>2, <1>6, LinksAre
  <2>2. PICK a : a = Output(B, 1, source[B].workTrig)
    OBVIOUS
  <2>3. PICK c : c = Output(B, 2, source[B].work)
    OBVIOUS
  <2>4. a \in Seq(Proper) /\ Len(a) = 1 /\ a[1].op = "set"
    <3>1. 1 \in 1..Len(prg.links[B])
      BY <2>1
    <3>. QED
      BY <1>2, <1>3, <2>2, <3>1, OutputIs
  <2>5. c \in Seq(Proper) /\ Len(c) = 1 /\ c[1].op = "set"
    <3>1. 2 \in 1..Len(prg.links[B])
      BY <2>1
    <3>. QED
      BY <1>2, <1>3, <2>3, <3>1, OutputIs
  <2>6. a \o c \in Seq(Proper) /\ Sets(a \o c)
    <3>1. a \o c \in Seq(Proper) /\ Len(a \o c) = 2
      BY <2>4, <2>5, PairIs
    <3>2. (a \o c)[1] = a[1] /\ (a \o c)[2] = c[1]
      BY <2>4, <2>5, PairIs
    <3>3. \A k \in DOMAIN (a \o c) : k = 1 \/ k = 2
      BY <3>1
    <3>. QED
      BY <2>4, <2>5, <3>1, <3>2, <3>3 DEF Sets
  <2>. QED
    BY <1>6, <2>2, <2>3, <2>6
<1>. QED
  BY <1>4, <1>5, <1>6

LEMMA SetsPut ==
  ASSUME NEW P, Sets(P), todo[1].op = "set"
  PROVE  Puts(P)
BY DEF Puts, Sets

LEMMA SetPuts ==
  ASSUME Typed, Gate \/ Delay \/ Act \/ Ask
  PROVE  \E P \in Seq(Proper) : Puts(P) /\ todo' = P \o Rest
<1>1. todo # <<>> /\ todo[1].op = "set"
  BY DEF Gate, Delay, Act, Ask, SetInput, Next1
<1>2. B \in Blocks /\ prg \in Programs /\ B \in Nat
  BY <1>1, TypesAre
<1>3. CASE Gate
  <2>1. CASE Evaluated /\ Filled[B][1] = TRUE
    <3>1. input \in [Blocks -> [1..2 -> Data]] /\ todo[1].v \in Data /\ todo[1].i \in 1..2
      BY <1>1, TypesAre DEF Typed, TypeOK
    <3>2. Filled[B][2] \in Data
      BY <1>2, <3>1 DEF Filled
    <3>3. Outputs(B, Filled[B][2]) \in Seq(Proper) /\ Sets(Outputs(B, Filled[B][2]))
      BY <1>2, <3>2, OutputsAre DEF Sets
    <3>4. todo' = Outputs(B, Filled[B][2]) \o Rest
      BY <1>3, <2>1 DEF Gate
    <3>. QED
      BY <1>1, <3>3, <3>4, SetsPut
  <2>2. CASE ~ (Evaluated /\ Filled[B][1] = TRUE)
    <3>1. todo' = <<>> \o Rest
      BY <1>3, <2>2 DEF Gate
    <3>. QED
      BY <1>1, <3>1, NothingBefore, SetsPut
  <2>. QED
    BY <2>1, <2>2
<1>4. CASE Delay \/ Act
  <2>1. todo' = <<>> \o Rest
    BY <1>1, <1>4, NothingBefore DEF Delay, Act
  <2>. QED
    BY <1>1, <2>1, NothingBefore, SetsPut
<1>5. CASE Ask
  <2>1. CASE Evaluated
    <3>1. <<Do("ask", B)>> \in Seq(Proper)
      BY <1>2, DoIsProper
    <3>2. todo' = <<Do("ask", B)>> \o Rest /\ prg.kind[B] = "ask"
      BY <1>5, <2>1 DEF Ask, SetInput
    <3>. QED
      BY <1>1, <3>1, <3>2 DEF Puts
  <2>2. CASE ~Evaluated
    <3>1. todo' = <<>> \o Rest
      BY <1>5, <2>2 DEF Ask
    <3>. QED
      BY <1>1, <3>1, NothingBefore, SetsPut
  <2>. QED
    BY <2>1, <2>2
<1>. QED
  BY <1>3, <1>4, <1>5

LEMMA StepPuts ==
  ASSUME Typed, Step
  PROVE  /\ todo # <<>> /\ prg' = prg
         /\ \E P \in Seq(Proper) : Puts(P) /\ todo' = P \o Rest
<1>1. todo # <<>> /\ prg' = prg
  BY DEF Step, Lock, Unlock, ExtractCommand, ExtractTimer, ClearTimer, ExtractStorage,
         Fetched, Prepare, EvalSource, Gate, Delay, Act, Ask, Answered, TimersDone,
         Cleanup, SetInput, Next1
<1>2. /\ prg \in Programs /\ Rest \in Seq(Proper) /\ B \in Nat /\ Later(B) \subseteq Sources
      /\ todo[1].op \in {"extract", "clear", "fetch", "source"} => B \in Sources
      /\ todo[1].op \in {"set", "ask"} => B \in Blocks
      /\ todo[1].v \in Data
  BY <1>1, TypesAre
<1>3. /\ Each("extract", Sources) \in Seq(Proper)
      /\ Each("source", Sources) \in Seq(Proper)
      /\ Each("extract", Later(B)) \in Seq(Proper)
      /\ Each("source", Later(B)) \in Seq(Proper)
  BY <1>2, EachIs
<1>4. CASE Lock
  <2>1. Do("unlock", 0) \in Proper
    BY DoIsProper
  <2>2. PICK P : P = Each("extract", Sources) \o <<Do("unlock", 0)>>
    OBVIOUS
  <2>3. P \in Seq(Proper)
    BY <1>3, <2>1, <2>2
  <2>4. todo' = P \o Rest /\ todo[1].op = "lock"
    BY <1>4, <2>2 DEF Lock, Next1
  <2>. QED
    BY <1>1, <2>2, <2>3, <2>4 DEF Puts
<1>5. CASE Unlock \/ TimersDone \/ Cleanup
  <2>1. todo' = <<>> \o Rest /\ todo[1].op \in {"unlock", "timers", "cleanup"}
    BY <1>1, <1>5, NothingBefore DEF Unlock, TimersDone, Cleanup, Next1
  <2>. QED
    BY <1>1, <2>1, NothingBefore DEF Puts
<1>6. CASE ExtractCommand
  BY <1>1, <1>3, <1>6 DEF ExtractCommand, Puts, Next1
<1>7. CASE ExtractTimer
  <2>1. <<Do("clear", B)>> \in Seq(Proper)
    BY <1>2, <1>7, DoIsProper DEF ExtractTimer, Next1
  <2>. QED
    BY <1>1, <1>7, <2>1 DEF ExtractTimer, Puts, Next1
<1>8. CASE ClearTimer
  BY <1>1, <1>3, <1>8 DEF ClearTimer, Puts, Next1
<1>9. CASE ExtractStorage
  <2>1. <<Do("fetch", B)>> \in Seq(Proper)
    BY <1>2, <1>9, DoIsProper DEF ExtractStorage, Next1
  <2>. QED
    BY <1>1, <1>9, <2>1 DEF ExtractStorage, Puts, Next1
<1>10. CASE Fetched
  <2>1. todo' = Each("extract", Later(B)) \o Rest \/ todo' = <<>> \o Rest
    BY <1>1, <1>10, NothingBefore DEF Fetched, Abandoned
  <2>. QED
    BY <1>1, <1>3, <1>10, <2>1, NothingBefore DEF Fetched, Puts, Next1
<1>11. CASE Prepare
  BY <1>1, <1>3, <1>11 DEF Prepare, Puts, Next1
<1>12. CASE EvalSource
  <2> DEFINE s == source[B]
             O == CASE prg.kind[B] # "command" -> Outputs(B, s.work)
                    [] prg.kind[B] = "command" /\ s.work # Invalid ->
                         Output(B, 1, s.workTrig) \o Output(B, 2, s.work)
                    [] OTHER -> <<>>
  <2>1. O \in Seq(Proper) /\ Sets(O)
    BY <1>12, EvaluatedIs DEF EvalSource
  <2>2. todo' = O \o Each("source", Later(B)) \o Rest /\ todo[1].op = "source"
    BY <1>12 DEF EvalSource, Next1
  <2> HIDE DEF O
  <2>3. O \o Each("source", Later(B)) \in Seq(Proper)
    BY <1>3, <2>1
  <2>4. PICK P : P = O \o Each("source", Later(B))
    OBVIOUS
  <2>5. Puts(P)
    BY <2>1, <2>2, <2>4 DEF Puts
  <2>6. todo' = P \o Rest
    BY <2>2, <2>4
  <2>. QED
    BY <1>1, <2>3, <2>4, <2>5, <2>6
<1>13. CASE Gate \/ Delay \/ Act \/ Ask
  BY <1>1, <1>13, SetPuts
<1>14. CASE Answered
  <2>1. Next1("ask") /\ todo' = Outputs(B, todo[1].v) \o Rest
    BY <1>14 DEF Answered
  <2>2. Outputs(B, todo[1].v) \in Seq(Proper) /\ Sets(Outputs(B, todo[1].v))
    BY <1>2, <2>1, OutputsAre DEF Sets, Next1
  <2>. QED
    BY <1>1, <2>1, <2>2 DEF Puts, Next1
<1>. QED
  BY <1>4, <1>5, <1>6, <1>7, <1>8, <1>9, <1>10, <1>11, <1>12, <1>13, <1>14 DEF Step

LEMMA ProgramStays ==
  ASSUME Typed, Next
  PROVE  /\ prg' = prg
         /\ Blocks' = Blocks /\ Sources' = Sources /\ Proper' = Proper
         /\ NoInputs' = NoInputs /\ (Prompt' <=> Prompt)
<1>1. prg' = prg
  BY StepPuts DEF Next, Activate, TimerActivates, TimerDue, CommandArrives, NewValue, Arrives,
         DelayFires, Answer
<1>. QED
  BY <1>1, StillTheProgram

LEMMA ActivationIs ==
  LET A == <<Do("lock", 0), Do("prepare", 0), Do("timers", 0), Do("cleanup", 0)>>
  IN  A \in Seq(Proper)
<1>1. \A op \in {"lock", "prepare", "timers", "cleanup"} : Do(op, 0) \in Proper
  BY DoIsProper
<1>. QED
  BY <1>1

LEMMA FiresIs ==
  ASSUME Typed, NEW b \in Blocks, DelayFires(b)
  PROVE  /\ Outputs(b, input[b][1]) \in Seq(Proper)
         /\ Sets(Outputs(b, input[b][1]))
         /\ todo' = Outputs(b, input[b][1]) \o todo
<1>1. prg \in Programs /\ input[b][1] \in Data
  BY DEF Typed, TypeOK
<1>. QED
  BY <1>1, OutputsAre DEF DelayFires, Sets

LEMMA AnswerIs ==
  ASSUME Typed, NEW n \in 1..Len(todo), Answer(n)
  PROVE  /\ todo' \in Seq(Proper) /\ Len(todo') = Len(todo)
         /\ \A k \in 1..Len(todo) : /\ todo'[k].op = todo[k].op
                                    /\ todo'[k].b = todo[k].b
                                    /\ todo'[k].i = todo[k].i
                                    /\ k # n => todo'[k] = todo[k]
         /\ todo[n].op \in {"fetch", "ask"}
         /\ todo[n].op = "ask" => todo'[n].v \in BOOLEAN
<1>1. todo \in Seq(Proper)
  BY DEF Typed
<1>2. todo[n] \in Proper /\ todo[n].op \in {"fetch", "ask"}
  BY <1>1 DEF Answer
<1>3. todo[n].op = "fetch" => source[todo[n].b].now \in Data
  BY <1>2 DEF Typed, TypeOK, Proper
<1>4. PICK v \in Data : /\ todo' = [todo EXCEPT ![n].done = TRUE, ![n].v = v]
                        /\ todo[n].op = "ask" => v \in BOOLEAN
  BY <1>2, <1>3 DEF Answer, Data
<1>5. PICK st : st = [todo[n] EXCEPT !.done = TRUE, !.v = v]
  OBVIOUS
<1>6. st \in Statement
  BY <1>2, <1>5 DEF Proper, Statement
<1>7. st.op = todo[n].op /\ st.b = todo[n].b /\ st.i = todo[n].i /\ st.v = v
  BY <1>2, <1>5 DEF Proper, Statement
<1>8. st \in Proper
  BY <1>2, <1>6, <1>7 DEF Proper
<1>9. todo' = [todo EXCEPT ![n] = st]
  BY <1>1, <1>2, <1>4, <1>5
<1>10. todo' \in Seq(Proper) /\ Len(todo') = Len(todo)
  BY <1>1, <1>8, <1>9
<1>11. \A k \in 1..Len(todo) : todo'[k] = IF k = n THEN st ELSE todo[k]
  BY <1>1, <1>9
<1>. QED
  BY <1>2, <1>4, <1>7, <1>10, <1>11

LEMMA TodoTyped ==
  ASSUME Typed, Next
  PROVE  todo' \in Seq(Proper)
<1>1. todo \in Seq(Proper)
  BY DEF Typed
<1>2. CASE Step
  <2>1. PICK P \in Seq(Proper) : todo # <<>> /\ todo' = P \o Rest
    BY <1>2, StepPuts
  <2>2. Rest \in Seq(Proper)
    BY <2>1, TypesAre
  <2>. QED
    BY <2>1, <2>2, JoinedIs
<1>3. CASE Activate
  BY <1>1, <1>3, ActivationIs, JoinedIs DEF Activate
<1>4. CASE \E b \in Blocks : DelayFires(b)
  BY <1>1, <1>4, FiresIs, JoinedIs
<1>5. CASE \E n \in 1..Len(todo) : Answer(n)
  BY <1>5, AnswerIs
<1>6. CASE todo' = todo
  BY <1>1, <1>6
<1>. QED
  BY <1>2, <1>3, <1>4, <1>5, <1>6 DEF Next, TimerActivates, TimerDue, CommandArrives,
         NewValue, Arrives

LEMMA SourceTyped ==
  ASSUME Typed, Next
  PROVE  /\ source' \in [Sources -> SourceData]
         /\ \A s \in Sources : source'[s].now \in Vals
<1>1. source \in [Sources -> SourceData] /\ \A s \in Sources : source[s].now \in Vals
  BY DEF Typed, TypeOK, SourceData
<1>2. ASSUME NEW s \in Sources, NEW v \in Vals, Arrives(s, v)
      PROVE  source' \in [Sources -> SourceData] /\ \A r \in Sources : source'[r].now \in Vals
  BY <1>1, <1>2 DEF Arrives, SourceData, Data
<1>3. ASSUME NEW s \in Sources, TimerDue(s)
      PROVE  source' \in [Sources -> SourceData] /\ \A r \in Sources : source'[r].now \in Vals
  BY <1>1, <1>3 DEF TimerDue, SourceData
<1>4. CASE ExtractCommand
  BY <1>1, <1>4, TypesAre DEF ExtractCommand, SourceData, Next1
<1>5. CASE ExtractTimer
  BY <1>1, <1>5, TypesAre DEF ExtractTimer, SourceData, Next1, Data
<1>6. CASE ClearTimer
  BY <1>1, <1>6, TypesAre DEF ClearTimer, SourceData, Next1
<1>7. CASE Fetched
  BY <1>1, <1>7, TypesAre DEF Fetched, SourceData, Next1
<1>8. CASE Prepare
  <2>1. ASSUME NEW s \in Sources
        PROVE  source'[s] \in SourceData /\ source'[s].now = source[s].now
    BY <1>1, <1>8 DEF Prepare, SourceData
  <2>2. source' = [s \in Sources |-> source'[s]]
    BY <1>8 DEF Prepare
  <2>. QED
    BY <1>1, <2>1, <2>2
<1>9. CASE source' = source
  BY <1>1, <1>9
<1>. QED
  BY <1>2, <1>3, <1>4, <1>5, <1>6, <1>7, <1>8, <1>9
  DEF Next, Step, Lock, Unlock, ExtractStorage, EvalSource, Gate, Delay, Act, Ask, SetInput,
      Answered, TimersDone, Cleanup, Activate, TimerActivates, CommandArrives, NewValue,
      DelayFires, Answer, data

LEMMA TimersTyped ==
  ASSUME Typed, Next
  PROVE  TimersTell'
<1>1. /\ source \in [Sources -> SourceData] /\ TimersTell
      /\ prg' = prg /\ Sources' = Sources
  BY ProgramStays DEF Typed, TypeOK, SourceData
<1> SUFFICES ASSUME NEW s \in Sources, prg.kind[s] = "timer"
             PROVE  /\ source'[s].next \in BOOLEAN \cup {Invalid}
                    /\ source'[s].work \in BOOLEAN \cup {Invalid}
  BY <1>1 DEF TimersTell
<1>2. CASE /\ source'[s].work = source[s].work
           /\ source'[s].next = source[s].next \/ source'[s].next \in BOOLEAN
  BY <1>1, <1>2 DEF TimersTell
<1>3. CASE source'[s].next = source[s].work /\ source'[s].work = source[s].next
  BY <1>1, <1>3 DEF TimersTell
<1>4. ASSUME NEW r \in Sources, NEW v \in Vals, Arrives(r, v) PROVE <1>2!1
  BY <1>1, <1>4 DEF Arrives, SourceData
<1>5. ASSUME NEW r \in Sources, TimerDue(r) PROVE <1>2!1
  BY <1>1, <1>5 DEF TimerDue, SourceData
<1>6. CASE ExtractCommand
  <2>1. s # B
    BY <1>6 DEF ExtractCommand
  <2>2. source'[s] = source[s]
    BY <1>1, <1>6, <2>1 DEF ExtractCommand
  <2>. QED
    BY <1>2, <2>2
<1>7. CASE ExtractTimer
  <2>1. B \in Sources /\ source[B].due \in BOOLEAN
    BY <1>1, <1>7, TypesAre DEF ExtractTimer, Next1, SourceData
  <2>2. <1>2!1
    BY <1>1, <1>7, <2>1 DEF ExtractTimer, SourceData
  <2>. QED
    BY <1>2, <2>2
<1>8. CASE ClearTimer
  <2>1. <1>2!1
    BY <1>1, <1>8 DEF ClearTimer, SourceData
  <2>. QED
    BY <1>2, <2>1
<1>9. CASE Fetched
  <2>1. s # B
    BY <1>9, TypesAre DEF Fetched, Next1
  <2>2. source'[s] = source[s]
    BY <1>1, <1>9, <2>1 DEF Fetched
  <2>. QED
    BY <1>2, <2>2
<1>10. CASE Prepare
  <2>1. source'[s] = IF Prepared(s)
         THEN [source[s] EXCEPT !.work = source[s].next, !.next = source[s].work,
                                !.workTrig = source[s].nextTrig, !.nextTrig = FALSE]
         ELSE source[s]
    BY <1>10 DEF Prepare
  <2>2. CASE Prepared(s)
    <3>1. source'[s].next = source[s].work /\ source'[s].work = source[s].next
      BY <1>1, <2>1, <2>2 DEF SourceData
    <3>. QED
      BY <1>3, <3>1
  <2>3. CASE ~Prepared(s)
    BY <1>2, <2>1, <2>3
  <2>. QED
    BY <2>2, <2>3
<1>11. CASE source' = source
  BY <1>2, <1>11
<1>. QED
  BY <1>2, <1>4, <1>5, <1>6, <1>7, <1>8, <1>9, <1>10, <1>11
  DEF Next, Step, Lock, Unlock, ExtractStorage, EvalSource, Gate, Delay, Act, Ask, SetInput,
      Answered, TimersDone, Cleanup, Activate, TimerActivates, CommandArrives, NewValue,
      DelayFires, Answer, data

LEMMA InputTyped ==
  ASSUME Typed, Next
  PROVE  input' \in [Blocks -> [1..2 -> Data]]
<1>1. input \in [Blocks -> [1..2 -> Data]]
  BY DEF Typed, TypeOK
<1>2. CASE Gate \/ Delay \/ Act \/ Ask
  <2>1. Next1("set") /\ input' = IF todo[1].v = Invalid THEN input ELSE Filled
    BY <1>2 DEF Gate, Delay, Act, Ask, SetInput
  <2>2. B \in Blocks /\ todo[1].i \in 1..2 /\ todo[1].v \in Data
    BY <2>1, TypesAre DEF Next1
  <2>3. Filled \in [Blocks -> [1..2 -> Data]]
    BY <1>1, <2>2 DEF Filled
  <2>. QED
    BY <1>1, <2>1, <2>3
<1>3. CASE Cleanup
  BY <1>3 DEF Cleanup, NoInputs, Data
<1>4. CASE input' = input
  BY <1>1, <1>4
<1>. QED
  BY <1>2, <1>3, <1>4
  DEF Next, Step, Lock, Unlock, ExtractCommand, ExtractTimer, ClearTimer, ExtractStorage,
      Fetched, Prepare, EvalSource, Answered, TimersDone, Activate, TimerActivates, TimerDue,
      CommandArrives, NewValue, Arrives, DelayFires, Answer, data

LEMMA OthersTyped ==
  ASSUME Typed, Next
  PROVE  /\ queue' \in 0..MaxTriggers /\ thread' \in Sources \cup {0} /\ locked' \in BOOLEAN
         /\ delays' \subseteq Blocks /\ triggers' \in 0..MaxTriggers /\ owed' \subseteq Sources
         /\ nested' \in BOOLEAN /\ Counted'
<1>1. /\ MaxTriggers \in Nat /\ Sources \subseteq Nat \ {0} /\ prg \in Programs
      /\ queue \in 0..MaxTriggers /\ thread \in Sources \cup {0} /\ locked \in BOOLEAN
      /\ delays \subseteq Blocks /\ triggers \in 0..MaxTriggers /\ owed \subseteq Sources
      /\ nested \in BOOLEAN /\ queue + (IF thread = 0 THEN 0 ELSE 1) <= triggers
  BY ConstantsAssumption, BlocksAre DEF Typed, TypeOK, Counted
<1>2. CASE Activate
  <2>1. nested' \in BOOLEAN
    BY <1>2 DEF Activate
  <2>2. queue' = queue - 1 /\ queue > 0 /\ UNCHANGED <<thread, locked, delays, triggers, owed>>
    BY <1>2 DEF Activate, data
  <2>3. queue' \in 0..MaxTriggers
    BY <1>1, <2>2
  <2>4. queue' + (IF thread' = 0 THEN 0 ELSE 1) <= triggers'
    BY <1>1, <2>2
  <2>. QED
    BY <1>1, <2>1, <2>2, <2>3, <2>4 DEF Counted
<1>3. CASE TimerActivates
  BY <1>1, <1>3 DEF TimerActivates, Counted, data, hist
<1>4. ASSUME NEW s \in Sources, TimerDue(s)
      PROVE  /\ queue' = queue /\ thread = 0 /\ thread' = s /\ triggers' = triggers + 1
             /\ triggers' <= MaxTriggers /\ owed' = owed \cup {s}
             /\ UNCHANGED <<locked, delays, nested>>
  BY <1>1, <1>4 DEF TimerDue, Triggered
<1>5. ASSUME NEW s \in Sources, NEW v \in Vals, Arrives(s, v)
      PROVE  /\ queue' = queue + 1 /\ thread' = thread /\ triggers' = triggers + 1
             /\ triggers' <= MaxTriggers /\ owed' = owed \cup {s}
             /\ UNCHANGED <<locked, delays, nested>>
  BY <1>1, <1>5 DEF Arrives, Triggered
<1>6. CASE /\ UNCHANGED <<queue, thread, triggers>>
           /\ locked' \in BOOLEAN /\ delays' \subseteq Blocks /\ owed' \subseteq owed
           /\ nested' \in BOOLEAN
  BY <1>1, <1>6 DEF Counted
<1>7. ASSUME Step PROVE <1>6!1
  <2>1. UNCHANGED <<queue, thread, triggers>>
    BY <1>7 DEF Step, Lock, Unlock, ExtractCommand, ExtractTimer, ClearTimer, ExtractStorage,
           Fetched, Prepare, EvalSource, Gate, Delay, Act, Ask, SetInput, Answered, TimersDone,
           Cleanup, hist
  <2>2. locked' \in BOOLEAN
    BY <1>1, <1>7 DEF Step, Lock, Unlock, ExtractCommand, ExtractTimer, ClearTimer,
           ExtractStorage, Fetched, Prepare, EvalSource, Gate, Delay, Act, Ask, SetInput,
           Answered, TimersDone, Cleanup
  <2>3. nested' \in BOOLEAN
    BY <1>1, <1>7 DEF Step, Lock, Unlock, ExtractCommand, ExtractTimer, ClearTimer,
           ExtractStorage, Fetched, Prepare, EvalSource, Gate, Delay, Act, Ask, SetInput,
           Answered, TimersDone, Cleanup, hist
  <2>4. owed' \subseteq owed
    BY <1>1, <1>7 DEF Step, Lock, Unlock, ExtractCommand, ExtractTimer, ClearTimer,
           ExtractStorage, Fetched, Prepare, EvalSource, Gate, Delay, Act, Ask, SetInput,
           Answered, TimersDone, Cleanup, hist
  <2>5. delays' \subseteq Blocks
    <3>1. CASE Delay
      <4>1. B \in Blocks
        BY <3>1, TypesAre DEF Delay, SetInput, Next1
      <4>. QED
        BY <1>1, <3>1, <4>1 DEF Delay
    <3>2. CASE delays' = delays
      BY <1>1, <3>2
    <3>. QED
      BY <1>7, <3>1, <3>2 DEF Step, Lock, Unlock, ExtractCommand, ExtractTimer, ClearTimer,
             ExtractStorage, Fetched, Prepare, EvalSource, Gate, Act, Ask, SetInput,
             Answered, TimersDone, Cleanup, data
  <2>. QED
    BY <2>1, <2>2, <2>3, <2>4, <2>5
<1>8. CASE \E s \in Sources : TimerDue(s)
  <2>1. PICK s \in Sources : TimerDue(s)
    BY <1>8
  <2>2. /\ queue' = queue /\ thread = 0 /\ thread' = s /\ triggers' = triggers + 1
        /\ triggers' <= MaxTriggers /\ owed' = owed \cup {s}
        /\ UNCHANGED <<locked, delays, nested>>
    BY <1>4, <2>1
  <2>3. s # 0 /\ triggers' \in 0..MaxTriggers /\ queue' + 1 <= triggers'
    BY <1>1, <2>2
  <2>4. Counted'
    BY <1>1, <2>2, <2>3 DEF Counted
  <2>. QED
    BY <1>1, <2>2, <2>3, <2>4
<1>9. CASE \E s \in Sources : \E v \in Vals : Arrives(s, v)
  <2>1. PICK s \in Sources, v \in Vals : Arrives(s, v)
    BY <1>9
  <2>2. /\ queue' = queue + 1 /\ thread' = thread /\ triggers' = triggers + 1
        /\ triggers' <= MaxTriggers /\ owed' = owed \cup {s}
        /\ UNCHANGED <<locked, delays, nested>>
    BY <1>5, <2>1
  <2>3. queue' \in 0..MaxTriggers /\ triggers' \in 0..MaxTriggers
    BY <1>1, <2>2
  <2>4. Counted'
    BY <1>1, <2>2 DEF Counted
  <2>. QED
    BY <1>1, <2>2, <2>3, <2>4
<1>10. CASE \E b \in Blocks : DelayFires(b)
  BY <1>1, <1>6, <1>10 DEF DelayFires, hist
<1>11. CASE \E n \in 1..Len(todo) : Answer(n)
  BY <1>1, <1>6, <1>11 DEF Answer, data, hist
<1>. QED
  BY <1>2, <1>3, <1>6, <1>7, <1>8, <1>9, <1>10, <1>11 DEF Next, CommandArrives, NewValue

LEMMA TypedStep ==
  ASSUME Typed, Next
  PROVE  Typed'
<1>1. /\ prg' \in Programs
      /\ Blocks' = Blocks /\ Sources' = Sources /\ Proper' = Proper
  BY ProgramStays DEF Typed, TypeOK
<1>2. todo' \in Seq(Proper)
  BY TodoTyped
<1>3. todo' \in Seq(Statement)
  BY <1>2, ProperAreStatements
<1>. QED
  BY <1>1, <1>2, <1>3, SourceTyped, TimersTyped, InputTyped, OthersTyped DEF Typed, TypeOK, SourceData

LEMMA TypedInit == Init => Typed
<1> SUFFICES ASSUME Init PROVE Typed
  OBVIOUS
<1>1. (CHOOSE v \in Vals : TRUE) \in Vals
  BY ConstantsAssumption
<1>2. source \in [Sources -> SourceData] /\ \A s \in Sources : source[s].now \in Vals
  BY <1>1 DEF Init, SourceData, Data
<1>9. TimersTell
  BY DEF Init, TimersTell
<1>3. NoInputs \in [Blocks -> [1..2 -> Data]]
  BY DEF NoInputs, Data
<1>4. todo \in Seq(Proper) /\ todo \in Seq(Statement)
  BY DEF Init
<1>5. /\ prg \in Programs /\ queue = 0 /\ thread = 0 /\ triggers = 0
      /\ delays = {} /\ owed = {} /\ input = NoInputs
  BY DEF Init
<1>6. 0 \in 0..MaxTriggers
  BY ConstantsAssumption
<1>7. locked \in BOOLEAN /\ nested \in BOOLEAN
  BY DEF Init
<1>8. Counted
  BY DEF Init, Counted
<1>. QED
  BY <1>2, <1>3, <1>4, <1>5, <1>6, <1>7, <1>8, <1>9 DEF Typed, TypeOK, SourceData

-----------------------------------------------------------------------------
(***************************************************************************)
(* A program without calls that wait.  What an activation does before its  *)
(* evaluation is at the front of todo, in its order, and what the sources  *)
(* are still to be asked for comes behind nothing but data for inputs.     *)
(***************************************************************************)
Phased(t) ==
  /\ \A n \in 1..Len(t) :
       /\ t[n].op \notin {"fetch", "ask"}
       /\ t[n].op \in {"lock", "extract", "clear"} => n = 1
       /\ t[n].op = "unlock" => \/ n = 1
                                \/ n = 2 /\ t[1].op \in {"extract", "clear"}
       /\ t[n].op = "prepare" => \/ n = 1
                                 \/ n = 2 /\ t[1].op \in {"lock", "unlock"}
                                 \/ n = 3 /\ t[1].op \in {"extract", "clear"}
       /\ t[n].op \in {"source", "set"} => \A m \in 1..(n - 1) : t[m].op = "set"
  /\ Len(t) > 0 /\ t[1].op \in {"extract", "clear"} =>
       Len(t) >= 3 /\ t[2].op = "unlock" /\ t[3].op = "prepare"
  /\ Len(t) > 0 /\ t[1].op \in {"lock", "unlock"} => Len(t) >= 2 /\ t[2].op = "prepare"

(* From k on, only what is to be done when an evaluation ends. *)
Ending(t, k) == \A n \in k..Len(t) : t[n].op \in {"timers", "cleanup"}

LEMMA OpsAre ==
  ASSUME NEW t \in Seq(Proper), NEW n \in 1..Len(t)
  PROVE  t[n].op \in {"lock", "extract", "clear", "fetch", "unlock", "prepare",
                      "source", "set", "ask", "timers", "cleanup"}
<1>1. t[n] \in Proper
  OBVIOUS
<1>. QED
  BY <1>1 DEF Proper, Statement

(* With the statement at the front, what the rest is. *)
LEMMA RestOfPhased ==
  ASSUME NEW t \in Seq(Proper), Phased(t), t # <<>>
  PROVE  /\ t[1].op \in {"lock", "unlock"} =>
              Len(t) >= 2 /\ t[2].op = "prepare" /\ Ending(t, 3)
         /\ t[1].op \in {"extract", "clear"} =>
              Len(t) >= 3 /\ t[2].op = "unlock" /\ t[3].op = "prepare" /\ Ending(t, 4)
         /\ t[1].op \in {"prepare", "source", "timers", "cleanup"} => Ending(t, 2)
         /\ t[1].op \notin {"fetch", "ask"}
<1>1. Len(t) \in Nat /\ Len(t) > 0 /\ 1 \in 1..Len(t)
  OBVIOUS
<1>2. ASSUME NEW n \in 1..Len(t), n > 1
      PROVE  /\ 1 \in 1..(n - 1)
             /\ t[n].op \in {"lock", "extract", "clear", "fetch", "unlock", "prepare",
                              "source", "set", "ask", "timers", "cleanup"}
  BY <1>2, OpsAre
<1>3. ASSUME t[1].op \in {"lock", "unlock"}, NEW n \in 3..Len(t)
      PROVE  t[n].op \in {"timers", "cleanup"}
  <2>1. n \in 1..Len(t) /\ n > 1 /\ n # 1 /\ n # 2
    OBVIOUS
  <2>. QED
    BY <1>2, <1>3, <2>1 DEF Phased
<1>4. ASSUME t[1].op \in {"extract", "clear"}, NEW n \in 4..Len(t)
      PROVE  t[n].op \in {"timers", "cleanup"}
  <2>1. n \in 1..Len(t) /\ n > 1 /\ n # 1 /\ n # 2 /\ n # 3
    OBVIOUS
  <2>. QED
    BY <1>2, <1>4, <2>1 DEF Phased
<1>5. ASSUME t[1].op \in {"prepare", "source", "timers", "cleanup"}, NEW n \in 2..Len(t)
      PROVE  t[n].op \in {"timers", "cleanup"}
  <2>1. n \in 1..Len(t) /\ n > 1 /\ n # 1
    OBVIOUS
  <2>. QED
    BY <1>2, <1>5, <2>1 DEF Phased
<1>. QED
  BY <1>1, <1>3, <1>4, <1>5 DEF Phased, Ending

(* The sources are evaluated, or all that is left is for inputs and to end. *)
Calm(t) ==
  \A n \in 1..Len(t) :
    /\ t[n].op \in {"set", "source", "timers", "cleanup"}
    /\ t[n].op \in {"source", "set"} => \A m \in 1..(n - 1) : t[m].op = "set"

LEMMA CalmIsPhased ==
  ASSUME NEW t \in Seq(Proper), Calm(t)
  PROVE  Phased(t)
<1>1. Len(t) > 0 => 1 \in 1..Len(t)
  OBVIOUS
<1>. QED
  BY <1>1 DEF Calm, Phased

LEMMA PhasedIsCalm ==
  ASSUME NEW t \in Seq(Proper), Phased(t),
         t # <<>> => t[1].op \in {"set", "source", "timers", "cleanup"}
  PROVE  Calm(t)
<1> SUFFICES ASSUME NEW n \in 1..Len(t)
             PROVE  t[n].op \in {"set", "source", "timers", "cleanup"}
  BY DEF Calm, Phased
<1>1. t # <<>> /\ t[1].op \in {"set", "source", "timers", "cleanup"}
  OBVIOUS
<1>2. t[n].op \in {"lock", "extract", "clear", "fetch", "unlock", "prepare",
                   "source", "set", "ask", "timers", "cleanup"}
  BY OpsAre
<1>. QED
  BY <1>1, <1>2 DEF Phased

LEMMA CalmRest ==
  ASSUME NEW t \in Seq(Proper), Calm(t), t # <<>>
  PROVE  Calm(Tail(t))
<1> DEFINE r == Tail(t)
<1>1. /\ Len(r) = Len(t) - 1 /\ Len(t) \in Nat /\ \A n \in 1..(Len(t) - 1) : r[n] = t[n + 1]
  BY RestIs
<1> HIDE DEF r
<1>2. ASSUME NEW n \in 1..Len(r)
      PROVE  n + 1 \in 1..Len(t) /\ r[n] = t[n + 1]
  BY <1>1
<1>3. ASSUME NEW n \in 1..Len(r), r[n].op \in {"source", "set"}, NEW m \in 1..(n - 1)
      PROVE  r[m].op = "set"
  <2>1. m + 1 \in 1..((n + 1) - 1) /\ m \in 1..Len(r)
    BY <1>1
  <2>2. r[m] = t[m + 1] /\ r[n] = t[n + 1] /\ n + 1 \in 1..Len(t)
    BY <1>2, <2>1
  <2>. QED
    BY <1>3, <2>1, <2>2 DEF Calm
<1>4. \A n \in 1..Len(r) : r[n].op \in {"set", "source", "timers", "cleanup"}
  BY <1>2 DEF Calm
<1>. QED
  <2>1. Calm(r)
    BY <1>3, <1>4 DEF Calm
  <2>. QED
    BY <2>1 DEF r

LEMMA CalmBehindSets ==
  ASSUME NEW O \in Seq(Proper), Sets(O), NEW r \in Seq(Proper), Calm(r)
  PROVE  Calm(O \o r)
<1> DEFINE t == O \o r
<1>1. /\ Len(t) = Len(O) + Len(r) /\ Len(O) \in Nat /\ Len(r) \in Nat
      /\ \A n \in 1..Len(O) : t[n] = O[n]
      /\ \A n \in (Len(O) + 1)..(Len(O) + Len(r)) : t[n] = r[n - Len(O)]
  BY JoinedIs
<1> HIDE DEF t
<1>2. ASSUME NEW n \in 1..Len(O) PROVE t[n].op = "set" /\ n <= Len(t)
  BY <1>1 DEF Sets
<1>3. ASSUME NEW n \in 1..Len(t), n > Len(O)
      PROVE  n - Len(O) \in 1..Len(r) /\ t[n] = r[n - Len(O)]
  BY <1>1, <1>3
<1>4. ASSUME NEW n \in 1..Len(t)
      PROVE  t[n].op \in {"set", "source", "timers", "cleanup"}
  BY <1>1, <1>2, <1>3 DEF Calm
<1>5. ASSUME NEW n \in 1..Len(t), t[n].op \in {"source", "set"}, NEW m \in 1..(n - 1)
      PROVE  t[m].op = "set"
  <2>1. m \in 1..Len(t) /\ m < n
    BY <1>1
  <2>2. CASE m <= Len(O)
    <3>1. m \in 1..Len(O)
      BY <2>1, <2>2, <1>1
    <3>. QED
      BY <3>1, <1>2
  <2>3. CASE m > Len(O)
    <3>1. n > Len(O)
      BY <2>1, <2>3, <1>1
    <3>2. n - Len(O) \in 1..Len(r) /\ t[n] = r[n - Len(O)] /\ t[m] = r[m - Len(O)]
      BY <1>3, <2>1, <2>3, <3>1
    <3>3. m - Len(O) \in 1..((n - Len(O)) - 1)
      BY <1>1, <2>1, <2>3
    <3>. QED
      BY <1>5, <3>2, <3>3 DEF Calm
  <2>. QED
    BY <1>1, <2>1, <2>2, <2>3
<1>. QED
  <2>1. Calm(t)
    BY <1>4, <1>5 DEF Calm
  <2>. QED
    BY <2>1 DEF t

LEMMA FrontIsPhased ==
  ASSUME NEW t \in Seq(Proper),
         \/ Len(t) >= 1 /\ t[1].op = "prepare" /\ Ending(t, 2)
         \/ /\ Len(t) >= 2 /\ t[1].op \in {"lock", "unlock"} /\ t[2].op = "prepare"
            /\ Ending(t, 3)
         \/ /\ Len(t) >= 3 /\ t[1].op \in {"extract", "clear"} /\ t[2].op = "unlock"
            /\ t[3].op = "prepare" /\ Ending(t, 4)
  PROVE  Phased(t)
<1>1. Len(t) \in Nat
  OBVIOUS
<1>2. CASE Len(t) >= 1 /\ t[1].op = "prepare" /\ Ending(t, 2)
  <2>1. ASSUME NEW n \in 1..Len(t) PROVE n = 1 \/ t[n].op \in {"timers", "cleanup"}
    BY <1>2 DEF Ending
  <2>. QED
    BY <1>2, <2>1 DEF Phased
<1>3. CASE /\ Len(t) >= 2 /\ t[1].op \in {"lock", "unlock"} /\ t[2].op = "prepare"
           /\ Ending(t, 3)
  <2>1. ASSUME NEW n \in 1..Len(t) PROVE n = 1 \/ n = 2 \/ t[n].op \in {"timers", "cleanup"}
    BY <1>3 DEF Ending
  <2>. QED
    BY <1>3, <2>1 DEF Phased
<1>4. CASE /\ Len(t) >= 3 /\ t[1].op \in {"extract", "clear"} /\ t[2].op = "unlock"
           /\ t[3].op = "prepare" /\ Ending(t, 4)
  <2>1. ASSUME NEW n \in 1..Len(t)
        PROVE  n = 1 \/ n = 2 \/ n = 3 \/ t[n].op \in {"timers", "cleanup"}
    BY <1>4 DEF Ending
  <2>. QED
    BY <1>4, <2>1 DEF Phased
<1>. QED
  BY <1>2, <1>3, <1>4

LEMMA LoopIsCalm ==
  ASSUME NEW t \in Seq(Proper),
         \/ Ending(t, 1)
         \/ Len(t) >= 1 /\ t[1].op = "source" /\ Ending(t, 2)
  PROVE  Calm(t)
<1>1. ASSUME NEW n \in 1..Len(t)
      PROVE  \/ n = 1 /\ t[n].op = "source"
             \/ t[n].op \in {"timers", "cleanup"}
  BY DEF Ending
<1>. QED
  BY <1>1 DEF Calm

(* Each step keeps the order. *)
LEMMA PutIs ==
  ASSUME NEW S, NEW P \in Seq(S), NEW t \in Seq(S), t # <<>>, NEW u, u = P \o Tail(t)
  PROVE  /\ u \in Seq(S) /\ Len(u) = Len(P) + Len(t) - 1 /\ Len(t) >= 1
         /\ Len(P) \in Nat /\ Len(t) \in Nat
         /\ \A n \in 1..Len(P) : u[n] = P[n]
         /\ \A n \in (Len(P) + 1)..Len(u) : u[n] = t[n - Len(P) + 1]
<1>1. /\ Tail(t) \in Seq(S) /\ Len(Tail(t)) = Len(t) - 1 /\ Len(t) >= 1 /\ Len(t) \in Nat
      /\ \A n \in 1..(Len(t) - 1) : Tail(t)[n] = t[n + 1]
  BY RestIs
<1>2. /\ u \in Seq(S) /\ Len(u) = Len(P) + Len(Tail(t)) /\ Len(P) \in Nat
      /\ \A n \in 1..Len(P) : u[n] = P[n]
      /\ \A n \in (Len(P) + 1)..(Len(P) + Len(Tail(t))) : u[n] = Tail(t)[n - Len(P)]
  BY <1>1, JoinedIs
<1>3. ASSUME NEW n \in (Len(P) + 1)..Len(u) PROVE u[n] = t[n - Len(P) + 1]
  <2>1. n - Len(P) \in 1..(Len(t) - 1)
    BY <1>1, <1>2
  <2>. QED
    BY <1>1, <1>2, <2>1
<1>. QED
  BY <1>1, <1>2, <1>3

LEMMA JoinedThrice ==
  ASSUME NEW O \in Seq(Proper), NEW L \in Seq(Proper), NEW q \in Seq(Proper)
  PROVE  (O \o L) \o q = O \o (L \o q)
BY ConcatAssociative

LEMMA PhasedPuts ==
  ASSUME Typed, Prompt, Phased(todo), todo # <<>>,
         NEW P \in Seq(Proper), Puts(P), NEW u, u = P \o Rest
  PROVE  /\ Phased(u)
         /\ todo[1].op \in {"prepare", "source", "set", "timers", "cleanup"} => Calm(u)
<1>1. prg \in Programs /\ todo \in Seq(Proper) /\ Later(B) \subseteq Sources
  BY TypesAre DEF Typed, TypeOK
<1>2. /\ u \in Seq(Proper) /\ Len(u) = Len(P) + Len(todo) - 1 /\ Len(todo) >= 1
      /\ Len(P) \in Nat /\ Len(todo) \in Nat
      /\ \A n \in 1..Len(P) : u[n] = P[n]
      /\ \A n \in (Len(P) + 1)..Len(u) : u[n] = todo[n - Len(P) + 1]
  BY <1>1, PutIs DEF Rest
<1>3. /\ todo[1].op \in {"lock", "unlock"} =>
           Len(todo) >= 2 /\ todo[2].op = "prepare" /\ Ending(todo, 3)
      /\ todo[1].op \in {"extract", "clear"} =>
           /\ Len(todo) >= 3 /\ todo[2].op = "unlock" /\ todo[3].op = "prepare"
           /\ Ending(todo, 4)
      /\ todo[1].op \in {"prepare", "source", "timers", "cleanup"} => Ending(todo, 2)
      /\ todo[1].op \notin {"fetch", "ask"}
  BY <1>1, RestOfPhased
<1>4. ASSUME NEW k \in Nat, k > 0, Ending(todo, k), NEW j, j = Len(P) + k - 1, j > Len(P)
      PROVE  Ending(u, j)
  <2>1. ASSUME NEW n \in j..Len(u) PROVE u[n].op \in {"timers", "cleanup"}
    <3>1. n \in (Len(P) + 1)..Len(u) /\ n - Len(P) + 1 \in k..Len(todo)
      BY <1>2, <1>4
    <3>. QED
      BY <1>2, <1>4, <3>1 DEF Ending
  <2>. QED
    BY <2>1 DEF Ending
<1>12. /\ Len(todo) >= 2 => u[Len(P) + 1] = todo[2] /\ Len(u) >= Len(P) + 1
       /\ Len(todo) >= 3 => u[Len(P) + 2] = todo[3] /\ Len(u) >= Len(P) + 2
  <2>1. ASSUME NEW k \in 2..Len(todo) PROVE u[Len(P) + k - 1] = todo[k] /\ Len(u) >= Len(P) + k - 1
    <3>1. PICK n : n = Len(P) + k - 1
      OBVIOUS
    <3>2. n \in (Len(P) + 1)..Len(u) /\ n - Len(P) + 1 = k
      BY <1>2, <3>1
    <3>3. u[n] = todo[n - Len(P) + 1] /\ Len(u) >= n
      BY <1>2, <3>2
    <3>4. u[n] = todo[k]
      BY <3>2, <3>3
    <3>. QED
      BY <3>1, <3>3, <3>4
  <2>2. ASSUME Len(todo) >= 2 PROVE u[Len(P) + 1] = todo[2] /\ Len(u) >= Len(P) + 1
    <3>1. 2 \in 2..Len(todo) /\ Len(P) + 2 - 1 = Len(P) + 1
      BY <1>2, <2>2
    <3>. QED
      BY <2>1, <3>1
  <2>3. ASSUME Len(todo) >= 3 PROVE u[Len(P) + 2] = todo[3] /\ Len(u) >= Len(P) + 2
    <3>1. 3 \in 2..Len(todo) /\ Len(P) + 3 - 1 = Len(P) + 2
      BY <1>2, <2>3
    <3>. QED
      BY <2>1, <3>1
  <2>. QED
    BY <2>2, <2>3
<1>5. CASE todo[1].op = "lock"
  <2>1. PICK E : E = Each("extract", Sources)
    OBVIOUS
  <2>2. /\ E \in Seq(Proper) /\ Len(E) \in {0, 1} /\ P = E \o <<Do("unlock", 0)>>
        /\ Len(E) = 1 => E[1].op = "extract"
    <3>1. P = E \o <<Do("unlock", 0)>>
      BY <1>5, <2>1 DEF Puts
    <3>. QED
      BY <1>1, <2>1, <3>1, EachIs
  <2>3. Do("unlock", 0) \in Proper /\ Do("unlock", 0).op = "unlock"
    BY DoIsProper
  <2>4. PICK U : U = <<Do("unlock", 0)>>
    OBVIOUS
  <2>5. U \in Seq(Proper) /\ Len(U) = 1 /\ U[1].op = "unlock"
    BY <2>3, <2>4
  <2>6. /\ Len(P) = Len(E) + 1
        /\ \A n \in 1..Len(E) : P[n] = E[n]
        /\ \A n \in (Len(E) + 1)..(Len(E) + 1) : P[n] = U[n - Len(E)]
    BY <2>2, <2>4, <2>5, JoinedIs
  <2>7. P[Len(E) + 1].op = "unlock" /\ (Len(E) = 1 => P[1].op = "extract")
    BY <2>2, <2>5, <2>6
  <2>8. u[Len(P) + 1] = todo[2] /\ Len(u) >= Len(P) + 1
    BY <1>3, <1>5, <1>12
  <2>9. Ending(u, Len(P) + 2)
    BY <1>2, <1>3, <1>4, <1>5
  <2>10. CASE Len(E) = 0
    <3>1. Len(u) >= 2 /\ u[1].op = "unlock" /\ u[2].op = "prepare" /\ Ending(u, 3)
      BY <1>2, <1>3, <1>5, <2>6, <2>7, <2>8, <2>9, <2>10
    <3>. QED
      BY <1>2, <1>5, <3>1, FrontIsPhased
  <2>11. CASE Len(E) = 1
    <3>1. /\ Len(u) >= 3 /\ u[1].op = "extract" /\ u[2].op = "unlock" /\ u[3].op = "prepare"
          /\ Ending(u, 4)
      <4>1. Len(P) = 2 /\ P[1].op = "extract" /\ P[2].op = "unlock"
        BY <2>6, <2>7, <2>11
      <4>2. u[1] = P[1] /\ u[2] = P[2] /\ u[3] = todo[2] /\ Len(u) >= 3 /\ Ending(u, 4)
        BY <1>2, <2>8, <2>9, <4>1
      <4>. QED
        BY <1>3, <1>5, <4>1, <4>2
    <3>. QED
      BY <1>2, <1>5, <3>1, FrontIsPhased
  <2>. QED
    BY <2>2, <2>10, <2>11
<1>6. CASE todo[1].op = "unlock"
  <2>1. P = <<>> /\ Len(P) = 0
    BY <1>6 DEF Puts
  <2>2. Len(u) >= 1 /\ u[1] = todo[2]
    BY <1>2, <1>3, <1>6, <2>1
  <2>3. Ending(u, 2)
    BY <1>3, <1>4, <1>6, <2>1
  <2>. QED
    BY <1>2, <1>3, <1>6, <2>2, <2>3, FrontIsPhased
<1>7. CASE todo[1].op \in {"extract", "clear"}
  <2>1. Len(P) \in {0, 1} /\ (Len(P) = 1 => P[1].op \in {"extract", "clear"})
    <3>1. CASE P = Each("extract", Later(B))
      BY <1>1, <3>1, EachIs
    <3>2. CASE P = <<Do("clear", B)>>
      BY <3>2 DEF Do
    <3>3. B \in Blocks
      <4>1. B \in Sources
        BY <1>7, TypesAre
      <4>. QED
        BY <4>1, <1>1, BlocksAre
    <3>. QED
      BY <1>7, <3>1, <3>2, <3>3 DEF Puts, Prompt
  <2>2. u[Len(P) + 1] = todo[2] /\ u[Len(P) + 2] = todo[3] /\ Len(u) >= Len(P) + 2
    BY <1>3, <1>7, <1>12
  <2>3. Ending(u, Len(P) + 3)
    BY <1>2, <1>3, <1>4, <1>7
  <2>4. CASE Len(P) = 0
    <3>1. Len(u) >= 2 /\ u[1].op = "unlock" /\ u[2].op = "prepare" /\ Ending(u, 3)
      BY <1>3, <1>7, <2>2, <2>3, <2>4
    <3>. QED
      BY <1>2, <1>7, <3>1, FrontIsPhased
  <2>5. CASE Len(P) = 1
    <3>1. /\ Len(u) >= 3 /\ u[1].op \in {"extract", "clear"} /\ u[2].op = "unlock"
          /\ u[3].op = "prepare" /\ Ending(u, 4)
      BY <1>2, <1>3, <1>7, <2>1, <2>2, <2>3, <2>5
    <3>. QED
      BY <1>2, <1>7, <3>1, FrontIsPhased
  <2>. QED
    BY <2>1, <2>4, <2>5
<1>8. CASE todo[1].op = "prepare"
  <2>1. Len(P) \in {0, 1} /\ (Len(P) = 1 => P[1].op = "source")
    BY <1>1, <1>8, EachIs DEF Puts
  <2>2. Ending(u, Len(P) + 1)
    BY <1>2, <1>3, <1>4, <1>8
  <2>3. \/ Ending(u, 1)
        \/ Len(u) >= 1 /\ u[1].op = "source" /\ Ending(u, 2)
    BY <1>2, <2>1, <2>2
  <2>. QED
    BY <1>2, <2>3, LoopIsCalm, CalmIsPhased
<1>9. CASE todo[1].op = "source"
  <2>1. PICK O \in Seq(Proper) : Sets(O) /\ P = O \o Each("source", Later(B))
    BY <1>9 DEF Puts
  <2>2. PICK L : L = Each("source", Later(B))
    OBVIOUS
  <2>3. L \in Seq(Proper) /\ Len(L) \in {0, 1} /\ (Len(L) = 1 => L[1].op = "source")
    BY <1>1, <2>2, EachIs
  <2>4. PICK w : w = L \o Tail(todo)
    OBVIOUS
  <2>5. /\ w \in Seq(Proper) /\ Len(w) = Len(L) + Len(todo) - 1
        /\ \A n \in 1..Len(L) : w[n] = L[n]
        /\ \A n \in (Len(L) + 1)..Len(w) : w[n] = todo[n - Len(L) + 1]
    BY <1>1, <2>3, <2>4, PutIs
  <2>6. ASSUME NEW n \in (Len(L) + 1)..Len(w) PROVE w[n].op \in {"timers", "cleanup"}
    <3>1. n - Len(L) + 1 \in 2..Len(todo)
      BY <1>2, <2>3, <2>5
    <3>. QED
      BY <1>3, <1>9, <2>5, <3>1 DEF Ending
  <2>7. \/ Ending(w, 1)
        \/ Len(w) >= 1 /\ w[1].op = "source" /\ Ending(w, 2)
    <3>1. Ending(w, Len(L) + 1)
      BY <2>6 DEF Ending
    <3>2. CASE Len(L) = 1
      <4>1. Len(w) >= 1 /\ w[1] = L[1] /\ Ending(w, 2)
        BY <1>2, <2>5, <3>1, <3>2
      <4>. QED
        BY <2>3, <3>2, <4>1
    <3>3. CASE Len(L) = 0
      BY <3>1, <3>3
    <3>. QED
      BY <2>3, <3>2, <3>3
  <2>8. Calm(w)
    BY <2>5, <2>7, LoopIsCalm
  <2>9. u = O \o w
    <3>1. Tail(todo) \in Seq(Proper)
      BY <1>1, RestIs
    <3>2. u = (O \o L) \o Tail(todo)
      BY <2>1, <2>2 DEF Rest
    <3>. QED
      <4>1. PICK q \in Seq(Proper) : q = Tail(todo)
        BY <3>1
      <4>2. (O \o L) \o q = O \o (L \o q)
        BY <2>1, <2>3, <4>1, JoinedThrice
      <4>. QED
        BY <2>4, <3>2, <4>1, <4>2
  <2>10. Calm(u)
    BY <2>1, <2>5, <2>8, <2>9, CalmBehindSets
  <2>. QED
    BY <1>2, <2>10, CalmIsPhased
<1>10. CASE todo[1].op \in {"set", "timers", "cleanup"}
  <2>1. Sets(P)
    <3>1. B \in Blocks \/ todo[1].op # "set"
      BY TypesAre
    <3>. QED
      BY <1>10, <3>1 DEF Puts, Prompt, Sets
  <2>2. Calm(todo) /\ Calm(Tail(todo)) /\ Tail(todo) \in Seq(Proper)
    BY <1>1, <1>10, PhasedIsCalm, CalmRest, RestIs
  <2>3. Calm(u)
    BY <2>1, <2>2, CalmBehindSets DEF Rest
  <2>. QED
    BY <1>2, <2>3, CalmIsPhased
<1>11. todo[1].op \in {"lock", "extract", "clear", "fetch", "unlock", "prepare",
                       "source", "set", "ask", "timers", "cleanup"}
  BY <1>1, <1>2, OpsAre
<1>. QED
  BY <1>3, <1>5, <1>6, <1>7, <1>8, <1>9, <1>10, <1>11

-----------------------------------------------------------------------------
(***************************************************************************)
(* No argument is left from an earlier evaluation, while no activation has *)
(* begun within another one.                                               *)
(***************************************************************************)
(* Data that a source gives to the evaluation, a command only if it came. *)
Worked(v) ==
  \E s \in Sources : /\ source[s].work = v
                     /\ prg.kind[s] = "command" => source[s].workTrig

(* Data for input i of block b: of the gate of a command, what the command *)
(* has; of another block, nothing old.                                     *)
GateOf(s, b) == prg.kind[s] = "command" /\ prg.links[s][1].to = b

Fits(b, i, v) ==
  /\ v # Invalid => \A s \in Sources : GateOf(s, b) =>
       v = IF i = 1 THEN source[s].workTrig ELSE source[s].work
  /\ v \in Vals /\ (\A s \in Sources : ~GateOf(s, b)) => Worked(v)

(* What the inputs of the blocks hold. *)
InputsFit(q) == \A b \in Blocks : \A i \in 1..2 : Fits(b, i, q[b][i])

(* A statement of an evaluation. *)
Evaluates(st) ==
  /\ st.op \in {"source", "set", "ask", "timers", "cleanup"}
  /\ st.op = "set" => Fits(st.b, st.i, st.v)
  /\ st.op = "ask" => st.v \notin Vals /\ prg.kind[st.b] = "ask"

Evaluating(t) == \A n \in 1..Len(t) : Evaluates(t[n])

(* What an activation does before its evaluation. *)
Before(t) ==
  \E k \in 1..Len(t) :
    /\ t[k].op = "prepare"
    /\ \A n \in 1..(k - 1) : t[n].op \in {"lock", "extract", "clear", "fetch", "unlock"}
    /\ Ending(t, k + 1)

(* Whoever sets data, or a timer of a delay, waits for the timers later.   *)
Waiting(t) ==
  \A n \in 1..Len(t) :
    t[n].op \notin {"timers", "cleanup"} => \E m \in (n + 1)..Len(t) : t[m].op = "timers"

Timed ==
  /\ Waiting(todo)
  /\ delays # {} => \E n \in 1..Len(todo) : todo[n].op = "timers"
  /\ \A b \in delays : prg.kind[b] = "delay"

(* There is one activation: what ends it is the last. *)
Alone(t) ==
  /\ t # <<>> => t[Len(t)].op = "cleanup"
  /\ \A n \in 1..Len(t) : t[n].op = "cleanup" => n = Len(t)

Unmixed ==
  ~nested =>
    /\ Alone(todo)
    /\ todo = <<>> => input = NoInputs
    /\ \/ Before(todo) /\ input = NoInputs /\ delays = {}
       \/ /\ Evaluating(todo)
          /\ InputsFit(input)

LEMMA GatesAre ==
  ASSUME ArgumentsAreGated, prg \in Programs, NEW s \in Sources, prg.kind[s] = "command"
  PROVE  LET gate == prg.links[s][1].to
         IN  /\ gate \in Blocks /\ prg.kind[gate] = "gate"
             /\ prg.links[s][1].i = 1 /\ prg.links[s][2].to = gate /\ prg.links[s][2].i = 2
             /\ Len(prg.links[s]) = 2
             /\ \A b \in Blocks : \A k \in 1..Len(prg.links[b]) :
                  prg.links[b][k].to = gate => b = s
<1>1. s \in Blocks /\ s \in DOMAIN prg.kind
  BY DEF Sources, Blocks
<1>2. PICK gate : gate = prg.links[s][1].to
  OBVIOUS
<1>3. /\ prg.kind[gate] = "gate"
      /\ prg.links[s] = <<[to |-> gate, i |-> 1], [to |-> gate, i |-> 2]>>
      /\ \A b \in DOMAIN prg.kind : \A k \in DOMAIN prg.links[b] :
           prg.links[b][k].to = gate => b = s
  BY <1>1, <1>2 DEF ArgumentsAreGated
<1>4. prg.links[s][1].i = 1 /\ prg.links[s][2].to = gate /\ prg.links[s][2].i = 2
      /\ Len(prg.links[s]) = 2
  BY <1>3
<1>5. gate \in Blocks
  BY <1>1, <1>2, <1>4, LinksAre
<1>6. \A b \in Blocks : prg.links[b] \in Seq([to : Blocks, i : 1..2])
  BY ConstantsAssumption DEF Blocks
<1>7. \A b \in Blocks : DOMAIN prg.links[b] = 1..Len(prg.links[b])
  BY <1>6
<1>. QED
  BY <1>2, <1>3, <1>4, <1>5, <1>7 DEF Blocks

LEMMA FitsOthers ==
  ASSUME ArgumentsAreGated, prg \in Programs, NEW b \in Blocks, prg.kind[b] # "command",
         NEW k \in 1..Len(prg.links[b]), NEW v, v \in Vals => Worked(v)
  PROVE  Fits(prg.links[b][k].to, prg.links[b][k].i, v)
<1>1. \A s \in Sources : ~GateOf(s, prg.links[b][k].to)
  BY GatesAre DEF GateOf
<1>. QED
  BY <1>1 DEF Fits

LEMMA OutputsEvaluate ==
  ASSUME ArgumentsAreGated, prg \in Programs, NEW b \in Blocks, prg.kind[b] # "command",
         NEW v \in Data, v \in Vals => Worked(v)
  PROVE  Outputs(b, v) \in Seq(Proper) /\ Evaluating(Outputs(b, v))
<1>1. PICK O : O = Outputs(b, v)
  OBVIOUS
<1>2. /\ O \in Seq(Proper) /\ Len(O) = Len(prg.links[b])
      /\ \A k \in 1..Len(prg.links[b]) :
           O[k] = Set(prg.links[b][k].to, prg.links[b][k].i, v)
  BY <1>1, OutputsAre
<1>3. ASSUME NEW k \in 1..Len(O) PROVE Evaluates(O[k])
  <2>1. Fits(prg.links[b][k].to, prg.links[b][k].i, v)
    BY <1>2, <1>3, FitsOthers
  <2>3. O[k] = Set(prg.links[b][k].to, prg.links[b][k].i, v)
    BY <1>2, <1>3
  <2>2. /\ O[k].op = "set" /\ O[k].b = prg.links[b][k].to
        /\ O[k].i = prg.links[b][k].i /\ O[k].v = v
    BY <2>3 DEF Set
  <2>. QED
    BY <2>1, <2>2 DEF Evaluates
<1>. QED
  BY <1>1, <1>2, <1>3 DEF Evaluating

LEMMA CommandEvaluates ==
  ASSUME ArgumentsAreGated, Typed, NEW s \in Sources, prg.kind[s] = "command"
  PROVE  LET O == Output(s, 1, source[s].workTrig) \o Output(s, 2, source[s].work)
         IN  O \in Seq(Proper) /\ Evaluating(O)
<1>1. prg \in Programs /\ s \in Blocks /\ source[s].work \in Data /\ source[s].workTrig \in Data
  BY BlocksAre DEF Typed, TypeOK, Data
<1>2. PICK gate : gate = prg.links[s][1].to
  OBVIOUS
<1>3. /\ prg.links[s][1].i = 1 /\ prg.links[s][2].to = gate /\ prg.links[s][2].i = 2
      /\ Len(prg.links[s]) = 2
      /\ \A r \in Sources : GateOf(r, gate) => r = s
  <2>1. \A r \in Sources : GateOf(r, gate) => r = s
    BY <1>1, <1>2, GatesAre DEF GateOf
  <2>. QED
    BY <1>1, <1>2, <2>1, GatesAre
<1>4. GateOf(s, gate)
  BY <1>2 DEF GateOf
<1>5. Fits(gate, 1, source[s].workTrig) /\ Fits(gate, 2, source[s].work)
  BY <1>3, <1>4 DEF Fits
<1>6. PICK a, c : a = Output(s, 1, source[s].workTrig) /\ c = Output(s, 2, source[s].work)
  OBVIOUS
<1>7. /\ a \in Seq(Proper) /\ Len(a) = 1 /\ a[1].op = "set" /\ a[1].b = gate /\ a[1].i = 1
      /\ a[1].v = source[s].workTrig
  <2>1. 1 \in 1..Len(prg.links[s])
    BY <1>3
  <2>. QED
    BY <1>1, <1>2, <1>3, <1>6, <2>1, OutputIs
<1>8. /\ c \in Seq(Proper) /\ Len(c) = 1 /\ c[1].op = "set" /\ c[1].b = gate /\ c[1].i = 2
      /\ c[1].v = source[s].work
  <2>1. 2 \in 1..Len(prg.links[s])
    BY <1>3
  <2>. QED
    BY <1>1, <1>2, <1>3, <1>6, <2>1, OutputIs
<1>9. Evaluates(a[1]) /\ Evaluates(c[1])
  BY <1>5, <1>7, <1>8 DEF Evaluates
<1>10. PICK O : O = a \o c
  OBVIOUS
<1>11. O \in Seq(Proper) /\ Len(O) = 2 /\ O[1] = a[1] /\ O[2] = c[1]
  BY <1>7, <1>8, <1>10, PairIs
<1>12. \A k \in 1..Len(O) : k = 1 \/ k = 2
  BY <1>11
<1>13. Evaluating(O)
  BY <1>9, <1>11, <1>12 DEF Evaluating
<1>. QED
  BY <1>6, <1>10, <1>11, <1>13

LEMMA EvaluatingJoined ==
  ASSUME NEW P \in Seq(Proper), NEW t \in Seq(Proper), Evaluating(P), Evaluating(t)
  PROVE  Evaluating(P \o t)
<1>1. PICK u : u = P \o t
  OBVIOUS
<1>2. /\ Len(P) \in Nat /\ Len(t) \in Nat /\ Len(u) = Len(P) + Len(t)
      /\ \A n \in 1..Len(P) : u[n] = P[n]
      /\ \A n \in (Len(P) + 1)..(Len(P) + Len(t)) : u[n] = t[n - Len(P)]
  BY <1>1, JoinedIs
<1>3. ASSUME NEW n \in 1..Len(u) PROVE Evaluates(u[n])
  <2>1. CASE n <= Len(P)
    <3>1. n \in 1..Len(P)
      BY <1>2, <2>1
    <3>. QED
      BY <1>2, <3>1 DEF Evaluating
  <2>2. CASE n > Len(P)
    <3>1. n \in (Len(P) + 1)..(Len(P) + Len(t)) /\ n - Len(P) \in 1..Len(t)
      BY <1>2, <2>2
    <3>. QED
      BY <1>2, <3>1 DEF Evaluating
  <2>. QED
    BY <1>2, <2>1, <2>2
<1>. QED
  BY <1>1, <1>3 DEF Evaluating

LEMMA EvaluatingRest ==
  ASSUME Typed, todo # <<>>, Evaluating(todo)
  PROVE  Evaluating(Rest) /\ Evaluates(todo[1]) /\ Rest \in Seq(Proper)
<1>1. todo \in Seq(Proper)
  BY DEF Typed
<1>2. /\ Len(todo) \in Nat /\ Len(todo) >= 1 /\ Rest \in Seq(Proper)
      /\ Len(Rest) = Len(todo) - 1
      /\ \A n \in 1..(Len(todo) - 1) : Rest[n] = todo[n + 1]
  BY <1>1, RestIs DEF Rest
<1>3. ASSUME NEW n \in 1..Len(Rest) PROVE Evaluates(Rest[n])
  <2>1. n + 1 \in 1..Len(todo) /\ Rest[n] = todo[n + 1]
    BY <1>2, <1>3
  <2>. QED
    BY <2>1 DEF Evaluating
<1>. QED
  BY <1>2, <1>3 DEF Evaluating

-----------------------------------------------------------------------------
(***************************************************************************)
(* No trigger is forgotten: what each owed source waits for.               *)
(***************************************************************************)
Preparing ==
  todo # <<>> /\ todo[1].op \in {"lock", "extract", "clear", "unlock", "prepare"}

(* The data of source s were extracted by the activation at the front. *)
Read(s) ==
  \/ Next1("unlock") \/ Next1("prepare")
  \/ Next1("extract") /\ s < B
  \/ Next1("clear") /\ s <= B

(* Source s is still to be evaluated. *)
Coming(s) == \E n \in 1..Len(todo) : todo[n].op = "source" /\ todo[n].b <= s

Known == \A s \in Sources : Read(s) => source[s].next # Invalid

HeldCommand(s) ==
  \/ source[s].nextTrig /\ (queue > 0 \/ Preparing)
  \/ source[s].workTrig /\ Coming(s)

HeldTimer(s) ==
  \/ source[s].due /\ (thread = s \/ queue > 0 \/ (Preparing /\ ~Read(s)))
  \/ source[s].next = TRUE /\ Read(s)
  \/ source[s].work = TRUE /\ Coming(s)

Held == \A s \in owed : IF prg.kind[s] = "timer" THEN HeldTimer(s) ELSE HeldCommand(s)

Promptly == Prompt => Phased(todo) /\ Known /\ Held

(* What is at the front after a statement, and which sources are to come. *)
Fronts(u) ==
  /\ u \in Seq(Proper)
  /\ todo[1].op \in {"lock", "clear"} \/ (todo[1].op = "extract" /\ prg.kind[B] = "command")
       => LET S == IF todo[1].op = "lock" THEN Sources ELSE Later(B)
          IN  /\ u # <<>>
              /\ S = {} => u[1].op = "unlock"
              /\ S # {} => /\ u[1].op = "extract" /\ u[1].b \in S
                           /\ \A s \in S : u[1].b <= s
  /\ todo[1].op = "extract" /\ prg.kind[B] # "command"
       => u # <<>> /\ u[1].op = "clear" /\ u[1].b = B /\ prg.kind[B] = "timer"
  /\ todo[1].op = "unlock" => u # <<>> /\ u[1].op = "prepare"
  /\ todo[1].op = "prepare" =>
       \A s \in Sources : \E n \in 1..Len(u) : u[n].op = "source" /\ u[n].b <= s
  /\ todo[1].op = "source" =>
       \A s \in Later(B) : \E n \in 1..Len(u) : u[n].op = "source" /\ u[n].b <= s
  /\ \A k \in 2..Len(todo) : \E n \in 1..Len(u) : u[n] = todo[k]

LEMMA FrontAfter ==
  ASSUME Typed, Prompt, Phased(todo), todo # <<>>,
         NEW P \in Seq(Proper), Puts(P), NEW u, u = P \o Rest
  PROVE  Fronts(u)
<1>1. /\ prg \in Programs /\ todo \in Seq(Proper) /\ Later(B) \subseteq Sources
      /\ todo[1].op \in {"extract", "clear", "fetch", "source"} => B \in Sources
  BY TypesAre DEF Typed, TypeOK
<1>2. /\ u \in Seq(Proper) /\ Len(u) = Len(P) + Len(todo) - 1 /\ Len(todo) >= 1
      /\ Len(P) \in Nat /\ Len(todo) \in Nat
      /\ \A n \in 1..Len(P) : u[n] = P[n]
      /\ \A n \in (Len(P) + 1)..Len(u) : u[n] = todo[n - Len(P) + 1]
  BY <1>1, PutIs DEF Rest
<1>3. /\ todo[1].op \in {"lock", "unlock"} => Len(todo) >= 2 /\ todo[2].op = "prepare"
      /\ todo[1].op \in {"extract", "clear"} => Len(todo) >= 3 /\ todo[2].op = "unlock"
  BY <1>1, RestOfPhased
<1>4. ASSUME NEW k \in 2..Len(todo) PROVE \E n \in 1..Len(u) : u[n] = todo[k]
  <2>1. PICK n : n = Len(P) + k - 1
    OBVIOUS
  <2>2. n \in (Len(P) + 1)..Len(u) /\ n - Len(P) + 1 = k /\ n \in 1..Len(u)
    BY <1>2, <2>1
  <2>3. u[n] = todo[n - Len(P) + 1]
    BY <1>2, <2>2
  <2>. QED
    BY <2>2, <2>3
<1>5. ASSUME Len(P) > 0 PROVE u # <<>> /\ u[1] = P[1]
  <2>1. Len(u) >= 1 /\ u[1] = P[1]
    BY <1>2, <1>5
  <2>2. Len(<<>>) = 0
    OBVIOUS
  <2>3. u # <<>>
    BY <2>1, <2>2
  <2>. QED
    BY <2>1, <2>3
<1>6. ASSUME Len(P) = 0, Len(todo) >= 2 PROVE u # <<>> /\ u[1] = todo[2]
  <2>1. Len(u) >= 1 /\ u[1] = todo[2]
    <3>1. 1 \in (Len(P) + 1)..Len(u) /\ 1 - Len(P) + 1 = 2
      BY <1>2, <1>6
    <3>2. u[1] = todo[1 - Len(P) + 1]
      BY <1>2, <3>1
    <3>. QED
      BY <3>1, <3>2
  <2>2. Len(<<>>) = 0
    OBVIOUS
  <2>3. u # <<>>
    BY <2>1, <2>2
  <2>. QED
    BY <2>1, <2>3
<1>7. ASSUME todo[1].op \in {"lock", "clear"} \/ (todo[1].op = "extract" /\ prg.kind[B] = "command"),
             NEW S, S = IF todo[1].op = "lock" THEN Sources ELSE Later(B)
      PROVE  /\ u # <<>>
             /\ S = {} => u[1].op = "unlock"
             /\ S # {} => /\ u[1].op = "extract" /\ u[1].b \in S
                          /\ \A s \in S : u[1].b <= s
  <2>1. PICK E : E = Each("extract", S)
    OBVIOUS
  <2>2. /\ E \in Seq(Proper)
        /\ S = {} => Len(E) = 0
        /\ S # {} => /\ Len(E) = 1 /\ E[1].op = "extract" /\ E[1].b \in S
                     /\ \A s \in S : E[1].b <= s
    <3>1. S \subseteq Sources
      BY <1>1, <1>7
    <3>. QED
      BY <1>1, <2>1, <3>1, EachIs
  <2>3. CASE todo[1].op = "lock"
    <3>1. PICK U : U = <<Do("unlock", 0)>>
      OBVIOUS
    <3>2. U \in Seq(Proper) /\ Len(U) = 1 /\ U[1].op = "unlock"
      BY <3>1, DoIsProper
    <3>3. P = E \o U
      BY <1>7, <2>1, <2>3, <3>1 DEF Puts
    <3>4. /\ Len(P) = Len(E) + 1
          /\ \A n \in 1..Len(E) : P[n] = E[n]
          /\ \A n \in (Len(E) + 1)..(Len(E) + 1) : P[n] = U[n - Len(E)]
      BY <2>2, <3>2, <3>3, JoinedIs
    <3>5. S = {} => P[1].op = "unlock"
      BY <2>2, <3>2, <3>4
    <3>6. S # {} => P[1] = E[1]
      BY <2>2, <3>4
    <3>7. Len(P) > 0
      BY <2>2, <3>4
    <3>. QED
      BY <1>5, <2>2, <3>5, <3>6, <3>7
  <2>4. CASE todo[1].op # "lock"
    <3>1. P = E
      BY <1>7, <2>1, <2>4 DEF Puts
    <3>2. Len(todo) >= 2 /\ todo[2].op = "unlock"
      BY <1>2, <1>3, <1>7, <2>4
    <3>. QED
      BY <1>2, <1>5, <1>6, <2>2, <3>1, <3>2
  <2>. QED
    BY <2>3, <2>4
<1>8. ASSUME todo[1].op = "extract", prg.kind[B] # "command"
      PROVE  u # <<>> /\ u[1].op = "clear" /\ u[1].b = B /\ prg.kind[B] = "timer"
  <2>1. B \in Blocks
    BY <1>1, <1>8, BlocksAre
  <2>2. P = <<Do("clear", B)>> /\ prg.kind[B] = "timer"
    BY <1>8, <2>1 DEF Puts, Prompt
  <2>. QED
    BY <1>5, <2>2 DEF Do
<1>9. ASSUME todo[1].op = "unlock" PROVE u # <<>> /\ u[1].op = "prepare"
  <2>1. Len(P) = 0
    BY <1>9 DEF Puts
  <2>. QED
    BY <1>3, <1>6, <1>9, <2>1
<1>10. ASSUME todo[1].op = "prepare", NEW s \in Sources
       PROVE  \E n \in 1..Len(u) : u[n].op = "source" /\ u[n].b <= s
  <2>1. Len(P) = 1 /\ P[1].op = "source" /\ P[1].b <= s
    BY <1>1, <1>10, EachIs DEF Puts
  <2>2. 1 \in 1..Len(u) /\ u[1] = P[1]
    BY <1>2, <2>1
  <2>. QED
    BY <2>1, <2>2
<1>11. ASSUME todo[1].op = "source", NEW s \in Later(B)
       PROVE  \E n \in 1..Len(u) : u[n].op = "source" /\ u[n].b <= s
  <2>1. PICK O \in Seq(Proper) : Sets(O) /\ P = O \o Each("source", Later(B))
    BY <1>11 DEF Puts
  <2>2. PICK L : L = Each("source", Later(B))
    OBVIOUS
  <2>3. L \in Seq(Proper) /\ Len(L) = 1 /\ L[1].op = "source" /\ L[1].b <= s
    BY <1>1, <1>11, <2>2, EachIs
  <2>4. /\ Len(P) = Len(O) + 1 /\ Len(O) \in Nat
        /\ \A n \in (Len(O) + 1)..(Len(O) + 1) : P[n] = L[n - Len(O)]
    <3>1. P = O \o L
      BY <2>1, <2>2
    <3>2. O \in Seq(Proper)
      BY <2>1
    <3>. QED
      BY <2>3, <3>1, <3>2, JoinedIs
  <2>5. P[Len(O) + 1] = L[1] /\ Len(O) + 1 \in 1..Len(P)
    BY <2>4
  <2>6. u[Len(O) + 1] = L[1] /\ Len(O) + 1 \in 1..Len(u)
    BY <1>2, <2>5
  <2>. QED
    BY <2>3, <2>6
<1>. QED
  BY <1>2, <1>4, <1>7, <1>8, <1>9, <1>10, <1>11 DEF Fronts

LEMMA ActivatedIs ==
  ASSUME Typed, Activate
  PROVE  /\ todo' \in Seq(Proper) /\ Len(todo') = 4 + Len(todo)
         /\ todo'[1].op = "lock" /\ todo'[2].op = "prepare"
         /\ todo'[3].op = "timers" /\ todo'[4].op = "cleanup"
         /\ \A n \in 5..(4 + Len(todo)) : todo'[n] = todo[n - 4]
<1>1. todo \in Seq(Proper)
  BY DEF Typed
<1>2. PICK A : A = <<Do("lock", 0), Do("prepare", 0), Do("timers", 0), Do("cleanup", 0)>>
  OBVIOUS
<1>3. /\ A \in Seq(Proper) /\ Len(A) = 4 /\ A[1].op = "lock" /\ A[2].op = "prepare"
      /\ A[3].op = "timers" /\ A[4].op = "cleanup"
  BY <1>2, ActivationIs DEF Do
<1>4. todo' = A \o todo
  BY <1>2 DEF Activate
<1>5. /\ todo' \in Seq(Proper) /\ Len(todo') = 4 + Len(todo)
      /\ \A n \in 1..4 : todo'[n] = A[n]
      /\ \A n \in 5..(4 + Len(todo)) : todo'[n] = todo[n - 4]
  <2>1. /\ A \o todo \in Seq(Proper) /\ Len(A \o todo) = Len(A) + Len(todo)
        /\ \A n \in 1..Len(A) : (A \o todo)[n] = A[n]
        /\ \A n \in (Len(A) + 1)..(Len(A) + Len(todo)) : (A \o todo)[n] = todo[n - Len(A)]
    BY <1>1, <1>3, JoinedIs
  <2>2. Len(A) + 1 = 5
    BY <1>3
  <2>. QED
    BY <1>3, <1>4, <2>1, <2>2
<1>. QED
  BY <1>3, <1>5

LEMMA PhasedStep ==
  ASSUME Typed, Prompt, Phased(todo), Next
  PROVE  Phased(todo')
<1>1. todo \in Seq(Proper)
  BY DEF Typed
<1>2. CASE Step
  BY <1>2, StepPuts, PhasedPuts
<1>3. todo # <<>> /\ Loop => todo[1].op = "timers"
  BY <1>1, RestOfPhased DEF Loop
<1>4. CASE Activate
  <2>4. /\ todo' \in Seq(Proper) /\ Len(todo') = 4 + Len(todo)
        /\ todo'[1].op = "lock" /\ todo'[2].op = "prepare"
        /\ todo'[3].op \in {"timers", "cleanup"} /\ todo'[4].op \in {"timers", "cleanup"}
        /\ \A n \in 5..(4 + Len(todo)) : todo'[n] = todo[n - 4]
    BY <1>4, ActivatedIs
  <2>5. ASSUME NEW n \in 1..Len(todo) PROVE todo[n].op \in {"timers", "cleanup"}
    <3>1. todo # <<>>
      BY <1>1
    <3>2. todo[1].op = "timers" /\ Ending(todo, 2)
      BY <1>1, <1>3, <1>4, <3>1, RestOfPhased DEF Activate
    <3>. QED
      BY <1>1, <3>2 DEF Ending
  <2>6. ASSUME NEW n \in 3..Len(todo') PROVE todo'[n].op \in {"timers", "cleanup"}
    <3>1. n = 3 \/ n = 4 \/ (n \in 5..(4 + Len(todo)) /\ n - 4 \in 1..Len(todo))
      BY <1>1, <2>4
    <3>. QED
      BY <2>4, <2>5, <3>1
  <2>7. Len(todo') >= 2 /\ todo'[1].op = "lock" /\ todo'[2].op = "prepare"
    BY <1>1, <2>4
  <2>8. Ending(todo', 3)
    BY <2>6 DEF Ending
  <2>. QED
    BY <2>4, <2>7, <2>8, FrontIsPhased
<1>5. CASE \E b \in Blocks : DelayFires(b)
  <2>1. PICK b \in Blocks : DelayFires(b)
    BY <1>5
  <2>2. PICK O \in Seq(Proper) : Sets(O) /\ todo' = O \o todo
    BY <2>1, FiresIs
  <2>3. Calm(todo)
    BY <1>1, <1>3, <2>1, PhasedIsCalm DEF DelayFires
  <2>4. Calm(O \o todo) /\ O \o todo \in Seq(Proper)
    BY <1>1, <2>2, <2>3, CalmBehindSets
  <2>. QED
    BY <2>2, <2>4, CalmIsPhased
<1>6. CASE \E n \in 1..Len(todo) : Answer(n)
  BY <1>6 DEF Answer, Phased
<1>7. CASE todo' = todo
  BY <1>7
<1>. QED
  BY <1>2, <1>4, <1>5, <1>6, <1>7 DEF Next, TimerActivates, TimerDue, CommandArrives,
         NewValue, Arrives

(* What a step that puts something before the rest leaves of this. *)
(* Which sources are read, after each statement. *)
LEMMA ReadAfter ==
  ASSUME Typed, Prompt, Phased(todo), Step, NEW s \in Sources
  PROVE  /\ todo # <<>>
         /\ Next1("lock") => ~Read(s) /\ ~Read(s)' /\ Preparing /\ Preparing'
         /\ Next1("extract") \/ Next1("clear") => /\ Preparing /\ Preparing'
                                               /\ Read(s)' <=> (Read(s) \/ s = B)
         /\ Next1("unlock") => Read(s) /\ Read(s)' /\ Preparing /\ Preparing'
         /\ Next1("prepare") => Preparing /\ Read(s)
         /\ Next1("source") \/ Next1("set") \/ Next1("timers") \/ Next1("cleanup") =>
              ~Preparing /\ ~Read(s)
         /\ Next1("prepare") \/ Next1("source") \/ Next1("set") \/ Next1("timers")
              \/ Next1("cleanup") => ~Preparing' /\ ~Read(s)'
         /\ Coming(s) => \/ Coming(s)'
                         \/ Next1("source") /\ s = B
         /\ Next1("prepare") => Coming(s)'
<1>1. /\ prg \in Programs /\ Sources \subseteq Nat /\ Sources' = Sources /\ todo # <<>>
      /\ todo \in Seq(Proper) /\ Len(todo) \in Nat /\ Len(todo) >= 1
  BY StepPuts, StillTheProgram, BlocksAre, RestIs DEF Typed, TypeOK
<1>2. PICK P \in Seq(Proper) : Puts(P) /\ todo' = P \o Rest
  BY StepPuts
<1>3. PICK u : u = todo'
  OBVIOUS
<1>4. Fronts(u)
  BY <1>1, <1>2, <1>3, FrontAfter
<1>5. /\ Preparing' <=> u # <<>> /\ u[1].op \in {"lock", "extract", "clear", "unlock", "prepare"}
      /\ Read(s)' <=> /\ u # <<>>
                      /\ \/ u[1].op = "unlock" \/ u[1].op = "prepare"
                         \/ u[1].op = "extract" /\ s < u[1].b
                         \/ u[1].op = "clear" /\ s <= u[1].b
      /\ Coming(s)' <=> \E n \in 1..Len(u) : u[n].op = "source" /\ u[n].b <= s
  BY <1>3 DEF Preparing, Read, Next1, B, Coming
<1>6. ASSUME Next1("lock") PROVE ~Read(s) /\ ~Read(s)' /\ Preparing /\ Preparing'
  <2>1. todo[1].op = "lock"
    BY <1>6 DEF Next1
  <2>2. u # <<>> /\ u[1].op = "extract" /\ u[1].b \in Sources /\ u[1].b <= s
    BY <1>4, <2>1 DEF Fronts
  <2>3. Preparing /\ ~Read(s)
    BY <1>1, <2>1 DEF Read, Preparing, Next1
  <2>4. Preparing'
    BY <1>5, <2>2
  <2>5. ~ (s < u[1].b)
    <3>1. PICK c \in Sources : c = u[1].b /\ c <= s
      BY <2>2
    <3>2. c \in Nat /\ s \in Nat
      BY <1>1
    <3>. QED
      BY <3>1, <3>2
  <2>6. ~Read(s)'
    BY <1>5, <2>2, <2>5
  <2>. QED
    BY <2>3, <2>4, <2>6
<1>7. ASSUME Next1("extract") \/ Next1("clear")
      PROVE  Preparing /\ Preparing' /\ (Read(s)' <=> (Read(s) \/ s = B))
  <2>1. todo[1].op \in {"extract", "clear"} /\ B \in Sources /\ B \in Nat /\ s \in Nat
    BY <1>1, <1>7, TypesAre DEF Next1
  <2>2. Preparing
    BY <1>1, <2>1 DEF Preparing
  <2>3. Read(s) \/ s = B <=> s <= B
    BY <1>1, <2>1 DEF Read, Next1
  <2>4. CASE todo[1].op = "extract" /\ prg.kind[B] # "command"
    BY <1>4, <1>5, <2>2, <2>3, <2>4 DEF Fronts
  <2>5. CASE todo[1].op = "clear" \/ prg.kind[B] = "command"
    <3>1. /\ u # <<>>
          /\ Later(B) = {} => u[1].op = "unlock"
          /\ Later(B) # {} => /\ u[1].op = "extract" /\ u[1].b \in Later(B)
                              /\ \A r \in Later(B) : u[1].b <= r
      BY <1>4, <2>1, <2>5 DEF Fronts
    <3>2. s \in Later(B) <=> s > B
      BY DEF Later
    <3>3. CASE Later(B) = {}
      BY <1>5, <2>1, <2>2, <2>3, <3>1, <3>2, <3>3
    <3>4. CASE Later(B) # {}
      <4>1. u[1].b \in Nat /\ u[1].b > B /\ (s > B => u[1].b <= s)
        BY <1>1, <3>1, <3>2, <3>4 DEF Later
      <4>2. s < u[1].b <=> s <= B
        BY <2>1, <4>1
      <4>. QED
        BY <1>5, <2>2, <2>3, <3>1, <3>4, <4>2
    <3>. QED
      BY <3>3, <3>4
  <2>. QED
    BY <2>1, <2>4, <2>5
<1>8. ASSUME Next1("unlock") PROVE Read(s) /\ Read(s)' /\ Preparing /\ Preparing'
  BY <1>1, <1>4, <1>5, <1>8 DEF Fronts, Read, Preparing, Next1
<1>9. ASSUME Next1("prepare") PROVE Preparing /\ Read(s) /\ Coming(s)'
  BY <1>1, <1>4, <1>5, <1>9 DEF Fronts, Read, Preparing, Next1
<1>10. ASSUME Next1("source") \/ Next1("set") \/ Next1("timers") \/ Next1("cleanup")
       PROVE  ~Preparing /\ ~Read(s)
  BY <1>10 DEF Read, Preparing, Next1
<1>11. ASSUME Next1("prepare") \/ Next1("source") \/ Next1("set") \/ Next1("timers")
                \/ Next1("cleanup")
       PROVE  ~Preparing' /\ ~Read(s)'
  <2>1. todo[1].op \in {"prepare", "source", "set", "timers", "cleanup"}
    BY <1>11 DEF Next1
  <2>2. Calm(u)
    BY <1>1, <1>2, <1>3, <2>1, PhasedPuts
  <2>3. u # <<>> => u[1].op \in {"set", "source", "timers", "cleanup"}
    BY <1>4, <2>2, RestIs DEF Calm, Fronts
  <2>. QED
    BY <1>5, <2>3
<1>12. ASSUME Coming(s) PROVE Coming(s)' \/ (Next1("source") /\ s = B)
  <2>1. PICK k \in 1..Len(todo) : todo[k].op = "source" /\ todo[k].b <= s
    BY <1>12 DEF Coming
  <2>2. CASE k = 1
    <3>1. Next1("source") /\ B <= s /\ B \in Nat /\ s \in Nat
      BY <1>1, <2>1, <2>2, TypesAre DEF Next1, B
    <3>2. CASE s > B
      <4>1. s \in Later(B)
        BY <3>2 DEF Later
      <4>. QED
        BY <1>4, <1>5, <3>1, <4>1 DEF Next1, Fronts
    <3>. QED
      BY <3>1, <3>2
  <2>3. CASE k # 1
    <3>1. k \in 2..Len(todo)
      BY <2>3
    <3>. QED
      BY <1>4, <1>5, <2>1, <3>1 DEF Fronts
  <2>. QED
    BY <2>2, <2>3
<1>. QED
  BY <1>1, <1>6, <1>7, <1>8, <1>9, <1>10, <1>11, <1>12

(* What holds of a source stays so when its data and what comes do. *)
LEMMA HeldWhileSame ==
  ASSUME NEW s, prg' = prg, source'[s] = source[s], Coming(s) => Coming(s)',
         queue > 0 => queue' > 0,
         thread = s => thread' = s \/ queue' > 0,
         Preparing <=> Preparing', Read(s) <=> Read(s)',
         IF prg.kind[s] = "timer" THEN HeldTimer(s) ELSE HeldCommand(s)
  PROVE  (IF prg.kind[s] = "timer" THEN HeldTimer(s) ELSE HeldCommand(s))'
BY DEF HeldTimer, HeldCommand

LEMMA KindsArePrompt ==
  ASSUME Typed, Prompt, NEW s \in Sources
  PROVE  prg.kind[s] \in {"timer", "command"}
<1>1. s \in Blocks /\ prg.kind[s] \in SourceKinds
  BY BlocksAre DEF Typed, TypeOK, Sources
<1>. QED
  BY <1>1 DEF Prompt, SourceKinds

LEMMA WaitingStep ==
  ASSUME Typed, Prompt, Phased(todo), Known, Held,
         \/ Activate \/ TimerActivates \/ \E b \in Blocks : DelayFires(b)
         \/ \E s \in Sources : TimerDue(s)
         \/ \E s \in Sources : \E v \in Vals : CommandArrives(s, v) \/ NewValue(s, v)
  PROVE  Known' /\ Held'
<1>1. /\ prg \in Programs /\ Sources \subseteq Nat \ {0} /\ todo \in Seq(Proper)
      /\ source \in [Sources -> SourceData] /\ owed \subseteq Sources /\ queue \in Nat
      /\ thread \in Sources \cup {0}
  BY BlocksAre DEF Typed, TypeOK, SourceData
<1>2. todo # <<>> /\ Loop => todo[1].op = "timers"
  BY <1>1, RestOfPhased DEF Loop
<1>3. Loop => ~Preparing /\ \A s \in Sources : ~Read(s)
  BY <1>2 DEF Preparing, Read, Next1
<1>4. Loop => \A s \in Sources : ~Coming(s)
  <2> SUFFICES ASSUME Loop, NEW s \in Sources, Coming(s) PROVE FALSE
    OBVIOUS
  <2>1. PICK k \in 1..Len(todo) : todo[k].op = "source"
    BY DEF Coming
  <2>2. todo # <<>>
    BY <1>1, <2>1
  <2>3. Calm(todo) /\ todo[1].op = "timers" /\ Ending(todo, 2)
    BY <1>1, <1>2, <2>2, PhasedIsCalm, RestOfPhased
  <2>. QED
    BY <2>1, <2>3 DEF Ending
<1>5. CASE Activate
  <2>1. /\ Loop /\ queue > 0 /\ source' = source /\ prg' = prg /\ owed' = owed
        /\ thread' = thread
    BY <1>5 DEF Activate, data
  <2>2. todo' # <<>> /\ todo'[1].op = "lock"
    <3>1. Len(todo') = 4 + Len(todo) /\ todo'[1].op = "lock"
      BY <1>5, ActivatedIs
    <3>2. Len(<<>>) = 0 /\ Len(todo) \in Nat
      BY <1>1
    <3>. QED
      BY <3>1, <3>2
  <2>3. Preparing' /\ \A s \in Sources : ~Read(s)'
    BY <2>2 DEF Preparing, Read, Next1
  <2>4. ASSUME NEW s \in owed
        PROVE  (IF prg.kind[s] = "timer" THEN HeldTimer(s) ELSE HeldCommand(s))'
    <3>1. ~Coming(s) /\ ~Read(s) /\ ~Read(s)' /\ Preparing'
      BY <1>1, <1>3, <1>4, <2>1, <2>3
    <3>2. IF prg.kind[s] = "timer" THEN HeldTimer(s) ELSE HeldCommand(s)
      BY DEF Held
    <3>. QED
      BY <2>1, <3>1, <3>2 DEF HeldTimer, HeldCommand
  <2>5. Known'
    BY <2>1, <2>3, StillTheProgram DEF Known
  <2>. QED
    BY <2>1, <2>4, <2>5 DEF Held
<1>6. CASE TimerActivates
  <2>1. /\ todo' = todo /\ source' = source /\ prg' = prg /\ owed' = owed
        /\ queue' = queue + 1
    BY <1>6 DEF TimerActivates, data, hist
  <2>2. /\ Preparing' <=> Preparing
        /\ \A s : (Read(s)' <=> Read(s)) /\ (Coming(s)' <=> Coming(s))
    BY <2>1 DEF Preparing, Read, Next1, B, Coming
  <2>3. queue' > 0
    BY <1>1, <2>1
  <2>4. ASSUME NEW s \in owed
        PROVE  (IF prg.kind[s] = "timer" THEN HeldTimer(s) ELSE HeldCommand(s))'
    BY <2>1, <2>2, <2>3, HeldWhileSame DEF Held
  <2>5. Known'
    BY <2>1, <2>2, StillTheProgram DEF Known
  <2>. QED
    BY <2>1, <2>4, <2>5 DEF Held
<1>7. CASE \E b \in Blocks : DelayFires(b)
  <2>1. PICK b \in Blocks : DelayFires(b)
    BY <1>7
  <2>2. /\ Loop /\ source' = source /\ prg' = prg /\ owed' = owed /\ queue' = queue
        /\ thread' = thread
    BY <2>1 DEF DelayFires, hist
  <2>3. PICK O \in Seq(Proper) : Sets(O) /\ todo' = O \o todo
    BY <2>1, FiresIs
  <2>4. Calm(todo')
    BY <1>1, <1>2, <2>2, <2>3, PhasedIsCalm, CalmBehindSets
  <2>5. todo' \in Seq(Proper)
    BY <1>1, <2>3, JoinedIs
  <2>6. todo' # <<>> => todo'[1].op \in {"set", "source", "timers", "cleanup"}
    BY <2>4, <2>5, RestIs DEF Calm
  <2>7. ~Preparing' /\ \A s \in Sources : ~Read(s)'
    BY <2>6 DEF Preparing, Read, Next1
  <2>8. ASSUME NEW s \in owed
        PROVE  (IF prg.kind[s] = "timer" THEN HeldTimer(s) ELSE HeldCommand(s))'
    <3>1. ~Coming(s) /\ ~Read(s) /\ ~Read(s)' /\ ~Preparing /\ ~Preparing'
      BY <1>1, <1>3, <1>4, <2>2, <2>7
    <3>. QED
      BY <2>2, <3>1, HeldWhileSame DEF Held
  <2>9. Known'
    BY <2>2, <2>7, StillTheProgram DEF Known
  <2>. QED
    BY <2>2, <2>8, <2>9 DEF Held
<1>8. CASE \E s \in Sources : TimerDue(s)
  <2>1. PICK s \in Sources : TimerDue(s)
    BY <1>8
  <2>2. /\ todo' = todo /\ prg' = prg /\ owed' = owed \cup {s} /\ queue' = queue
        /\ thread = 0 /\ thread' = s /\ prg.kind[s] = "timer"
        /\ source' = [source EXCEPT ![s].due = TRUE]
    BY <2>1 DEF TimerDue
  <2>3. /\ Preparing' <=> Preparing
        /\ \A r : (Read(r)' <=> Read(r)) /\ (Coming(r)' <=> Coming(r))
    BY <2>2 DEF Preparing, Read, Next1, B, Coming
  <2>4. ASSUME NEW r \in owed'
        PROVE  (IF prg.kind[r] = "timer" THEN HeldTimer(r) ELSE HeldCommand(r))'
    <3>1. CASE r = s
      <4>1. source'[s].due = TRUE
        BY <1>1, <2>2 DEF SourceData
      <4>. QED
        BY <2>2, <3>1, <4>1 DEF HeldTimer
    <3>2. CASE r # s
      <4>1. r \in owed /\ r \in Sources /\ source'[r] = source[r] /\ thread # r
        BY <1>1, <2>2, <2>4, <3>2
      <4>. QED
        BY <2>2, <2>3, <4>1, HeldWhileSame DEF Held
    <3>. QED
      BY <3>1, <3>2
  <2>5. Known'
    <3>1. \A r \in Sources : source'[r].next = source[r].next
      BY <1>1, <2>2 DEF SourceData
    <3>. QED
      BY <2>2, <2>3, <3>1, StillTheProgram DEF Known
  <2>. QED
    BY <2>4, <2>5 DEF Held
<1>9. CASE \E s \in Sources : \E v \in Vals : CommandArrives(s, v) \/ NewValue(s, v)
  <2>1. PICK s \in Sources, v \in Vals : Arrives(s, v) /\ prg.kind[s] \in {"command", "storage"}
    BY <1>9 DEF CommandArrives, NewValue
  <2>2. /\ todo' = todo /\ prg' = prg /\ owed' = owed \cup {s} /\ queue' = queue + 1
        /\ thread' = thread
        /\ source' = [source EXCEPT ![s].now = v, ![s].nextTrig = TRUE]
    BY <2>1 DEF Arrives
  <2>3. /\ Preparing' <=> Preparing
        /\ \A r : (Read(r)' <=> Read(r)) /\ (Coming(r)' <=> Coming(r))
    BY <2>2 DEF Preparing, Read, Next1, B, Coming
  <2>4. queue' > 0
    BY <1>1, <2>2
  <2>5. ASSUME NEW r \in owed'
        PROVE  (IF prg.kind[r] = "timer" THEN HeldTimer(r) ELSE HeldCommand(r))'
    <3>1. CASE r = s
      <4>1. source'[s].nextTrig = TRUE
        BY <1>1, <2>2 DEF SourceData
      <4>. QED
        BY <2>1, <2>2, <2>4, <3>1, <4>1 DEF HeldCommand
    <3>2. CASE r # s
      <4>1. r \in owed /\ r \in Sources /\ source'[r] = source[r]
        BY <1>1, <2>2, <2>5, <3>2
      <4>. QED
        BY <2>2, <2>3, <2>4, <4>1, HeldWhileSame DEF Held
    <3>. QED
      BY <3>1, <3>2
  <2>6. Known'
    <3>1. \A r \in Sources : source'[r].next = source[r].next
      BY <1>1, <2>2 DEF SourceData
    <3>. QED
      BY <2>2, <2>3, <3>1, StillTheProgram DEF Known
  <2>. QED
    BY <2>5, <2>6 DEF Held
<1>. QED
  BY <1>5, <1>6, <1>7, <1>8, <1>9

LEMMA ExtractStep ==
  ASSUME Typed, Prompt, Phased(todo), Known, Held, ExtractCommand \/ ExtractTimer \/ ClearTimer
  PROVE  Known' /\ Held'
<1>1. /\ prg \in Programs /\ Sources \subseteq Nat \ {0}
      /\ source \in [Sources -> SourceData] /\ owed \subseteq Sources
      /\ \A s \in Sources : source[s].now \in Vals
  BY BlocksAre DEF Typed, TypeOK, SourceData
<1>2. Step /\ (Next1("extract") \/ Next1("clear")) /\ todo # <<>>
  BY DEF Step, ExtractCommand, ExtractTimer, ClearTimer, Next1
<1>3. /\ Preparing /\ Preparing' /\ prg' = prg
      /\ \A s \in Sources : /\ Read(s)' <=> (Read(s) \/ s = B)
                            /\ Coming(s) => Coming(s)'
  <2>1. B \in Sources
    BY <1>2, TypesAre DEF Next1
  <2>. QED
    BY <1>2, <2>1, ReadAfter, StepPuts DEF Next1
<1>4. B \in Sources /\ B \in Nat /\ (Next1("extract") => ~Read(B))
      /\ (Next1("clear") => Read(B))
  BY <1>1, <1>2, TypesAre DEF Next1, Read
<1>5. /\ queue' = queue /\ thread' = thread
      /\ \A s \in Sources : s # B => source'[s] = source[s]
      /\ owed' \subseteq owed
  BY <1>1 DEF ExtractCommand, ExtractTimer, ClearTimer, hist
<1>6. source'[B].next # Invalid
  <2>1. CASE ExtractCommand
    BY <1>1, <1>4, <2>1, ConstantsAssumption DEF ExtractCommand, SourceData
  <2>2. CASE ExtractTimer
    <3>1. source'[B].next = source[B].due /\ source[B].due \in BOOLEAN
      BY <1>1, <1>4, <2>2 DEF ExtractTimer, SourceData
    <3>. QED
      BY <3>1, ConstantsAssumption
  <2>3. CASE ClearTimer
    <3>1. source'[B].next = source[B].next
      BY <1>1, <1>4, <2>3 DEF ClearTimer, SourceData
    <3>2. Read(B)
      BY <1>4, <2>3 DEF ClearTimer
    <3>. QED
      BY <1>4, <3>1, <3>2 DEF Known
  <2>. QED
    BY <2>1, <2>2, <2>3
<1>7. Known'
  <2>1. ASSUME NEW s \in Sources, Read(s)' PROVE source'[s].next # Invalid
    BY <1>3, <1>5, <1>6, <2>1 DEF Known
  <2>. QED
    BY <1>3, <2>1, StillTheProgram DEF Known
<1>8. ASSUME NEW s \in owed', s # B
      PROVE  (IF prg.kind[s] = "timer" THEN HeldTimer(s) ELSE HeldCommand(s))'
  <2>1. s \in owed /\ s \in Sources /\ source'[s] = source[s] /\ (Read(s)' <=> Read(s))
        /\ (Coming(s) => Coming(s)')
    BY <1>1, <1>3, <1>5, <1>8
  <2>2. IF prg.kind[s] = "timer" THEN HeldTimer(s) ELSE HeldCommand(s)
    BY <2>1 DEF Held
  <2>. QED
    BY <1>3, <1>5, <2>1, <2>2, HeldWhileSame
<1>9. ASSUME NEW s \in owed', s = B
      PROVE  (IF prg.kind[s] = "timer" THEN HeldTimer(s) ELSE HeldCommand(s))'
  <2>1. /\ s \in owed /\ s \in Sources /\ Read(s)' /\ (Coming(s) => Coming(s)')
        /\ source'[s].nextTrig = source[s].nextTrig /\ source'[s].workTrig = source[s].workTrig
        /\ source'[s].work = source[s].work
    BY <1>1, <1>3, <1>5, <1>9 DEF ExtractCommand, ExtractTimer, ClearTimer, SourceData
  <2>2. IF prg.kind[s] = "timer" THEN HeldTimer(s) ELSE HeldCommand(s)
    BY <2>1 DEF Held
  <2>3. CASE prg.kind[s] # "timer"
    BY <1>3, <1>5, <2>1, <2>2, <2>3 DEF HeldCommand
  <2>4. CASE prg.kind[s] = "timer" /\ ExtractTimer
    <3>1. source'[s].next = source[s].due /\ ~Read(s) /\ source[s].due \in BOOLEAN
      BY <1>1, <1>4, <1>9, <2>4 DEF ExtractTimer, SourceData
    <3>2. source[s].due => source'[s].next = TRUE
      BY <3>1
    <3>. QED
      BY <1>3, <2>1, <2>2, <2>4, <3>1, <3>2 DEF HeldTimer
  <2>5. CASE prg.kind[s] = "timer" /\ ClearTimer
    <3>1. /\ source'[s].next = source[s].next /\ Read(s) /\ source[s].due \in BOOLEAN
          /\ ~ (source[s].due /\ ~source[s].next)
      BY <1>1, <1>4, <1>9, <2>5 DEF ClearTimer, SourceData
    <3>2. source[s].next \in BOOLEAN
      BY <2>1, <2>5, <3>1 DEF Typed, TimersTell, Known
    <3>3. source[s].due => source[s].next = TRUE
      BY <3>1, <3>2
    <3>. QED
      BY <1>3, <2>1, <2>2, <2>5, <3>1, <3>3 DEF HeldTimer
  <2>6. ~ (prg.kind[s] = "timer" /\ ExtractCommand)
    BY <1>9 DEF ExtractCommand
  <2>. QED
    BY <2>3, <2>4, <2>5, <2>6
<1>. QED
  <2>1. \A s \in owed' : (IF prg.kind[s] = "timer" THEN HeldTimer(s) ELSE HeldCommand(s))'
    BY <1>8, <1>9
  <2>. QED
    BY <1>7, <2>1 DEF Held

LEMMA PrepareStep ==
  ASSUME Typed, Prompt, Phased(todo), Known, Held, Prepare
  PROVE  Known' /\ Held'
<1>1. /\ prg \in Programs /\ Sources \subseteq Nat \ {0}
      /\ source \in [Sources -> SourceData] /\ owed \subseteq Sources
  BY BlocksAre DEF Typed, TypeOK, SourceData
<1>2. Step /\ Next1("prepare")
  BY DEF Step, Prepare
<1>3. /\ prg' = prg
      /\ \A s \in Sources : Preparing /\ Read(s) /\ ~Preparing' /\ ~Read(s)' /\ Coming(s)'
  BY <1>2, ReadAfter, StepPuts
<1>4. \A s \in Sources : Prepared(s)
  BY <1>3 DEF Known, Prepared
<1>5. \A s \in Sources : /\ source'[s].work = source[s].next
                        /\ source'[s].workTrig = source[s].nextTrig
                        /\ source'[s].due = source[s].due
  <2> TAKE s \in Sources
  <2>1. source'[s] = [source[s] EXCEPT !.work = source[s].next, !.next = source[s].work,
                                !.workTrig = source[s].nextTrig, !.nextTrig = FALSE]
    BY <1>4 DEF Prepare
  <2>2. source[s] \in SourceData
    BY <1>1
  <2>. QED
    BY <2>1, <2>2 DEF SourceData
<1>6. queue' = queue /\ thread' = thread /\ owed' = owed
  BY DEF Prepare, hist
<1>7. \A s \in Sources : ~Coming(s)
  <2> SUFFICES ASSUME NEW s \in Sources, Coming(s) PROVE FALSE
    OBVIOUS
  <2>1. PICK k \in 1..Len(todo) : todo[k].op = "source"
    BY DEF Coming
  <2>2. todo \in Seq(Proper) /\ todo # <<>> /\ todo[1].op = "prepare"
    BY <1>2 DEF Typed, Next1
  <2>3. Ending(todo, 2)
    BY <2>2, RestOfPhased
  <2>. QED
    BY <2>1, <2>2, <2>3 DEF Ending
<1>8. Known'
  BY <1>3, StillTheProgram DEF Known
<1>9. ASSUME NEW s \in owed'
      PROVE  (IF prg.kind[s] = "timer" THEN HeldTimer(s) ELSE HeldCommand(s))'
  <2>1. s \in owed /\ s \in Sources
    BY <1>1, <1>6, <1>9
  <2>2. IF prg.kind[s] = "timer" THEN HeldTimer(s) ELSE HeldCommand(s)
    BY <2>1 DEF Held
  <2>3. CASE prg.kind[s] = "timer"
    <3>1. \/ source[s].due /\ (thread = s \/ queue > 0)
          \/ source[s].next = TRUE
      BY <1>3, <1>7, <2>1, <2>2, <2>3 DEF HeldTimer
    <3>2. HeldTimer(s)'
      BY <1>3, <1>5, <1>6, <2>1, <3>1 DEF HeldTimer
    <3>. QED
      BY <1>3, <2>3, <3>2
  <2>4. CASE prg.kind[s] # "timer"
    <3>1. source[s].nextTrig
      BY <1>7, <2>1, <2>2, <2>4 DEF HeldCommand
    <3>2. HeldCommand(s)'
      BY <1>3, <1>5, <2>1, <3>1 DEF HeldCommand
    <3>. QED
      BY <1>3, <2>4, <3>2
  <2>. QED
    BY <2>3, <2>4
<1>. QED
  BY <1>8, <1>9 DEF Held

LEMMA EvalStep ==
  ASSUME Typed, Prompt, Phased(todo), Known, Held, EvalSource
  PROVE  Known' /\ Held'
<1>1. /\ prg \in Programs /\ Sources \subseteq Nat \ {0}
      /\ source \in [Sources -> SourceData] /\ owed \subseteq Sources
  BY BlocksAre DEF Typed, TypeOK, SourceData
<1>2. Step /\ Next1("source")
  BY DEF Step, EvalSource
<1>3. /\ prg' = prg
      /\ \A s \in Sources : /\ ~Preparing /\ ~Read(s) /\ ~Preparing' /\ ~Read(s)'
                            /\ Coming(s) => Coming(s)' \/ s = B
  BY <1>2, ReadAfter, StepPuts
<1>4. /\ queue' = queue /\ thread' = thread /\ source' = source
      /\ owed' = IF IF prg.kind[B] = "timer" THEN source[B].work = TRUE ELSE source[B].workTrig
                   THEN owed \ {B} ELSE owed
  BY DEF EvalSource, data
<1>5. Known'
  BY <1>3, StillTheProgram DEF Known
<1>6. ASSUME NEW s \in owed'
      PROVE  (IF prg.kind[s] = "timer" THEN HeldTimer(s) ELSE HeldCommand(s))'
  <2>1. s \in owed /\ s \in Sources
    BY <1>1, <1>4, <1>6
  <2>2. IF prg.kind[s] = "timer" THEN HeldTimer(s) ELSE HeldCommand(s)
    BY <2>1 DEF Held
  <2>3. s = B => ~ (IF prg.kind[B] = "timer" THEN source[B].work = TRUE ELSE source[B].workTrig)
    BY <1>4, <1>6
  <2>4. CASE prg.kind[s] = "timer"
    <3>1. HeldTimer(s)'
      BY <1>3, <1>4, <2>1, <2>2, <2>3, <2>4 DEF HeldTimer
    <3>. QED
      BY <1>3, <2>4, <3>1
  <2>5. CASE prg.kind[s] # "timer"
    <3>1. HeldCommand(s)'
      BY <1>3, <1>4, <2>1, <2>2, <2>3, <2>5 DEF HeldCommand
    <3>. QED
      BY <1>3, <2>5, <3>1
  <2>. QED
    BY <2>4, <2>5
<1>. QED
  BY <1>5, <1>6 DEF Held

LEMMA OtherStep ==
  ASSUME Typed, Prompt, Phased(todo), Known, Held,
         \/ Lock \/ Unlock \/ Gate \/ Delay \/ Act \/ TimersDone \/ Cleanup
  PROVE  Known' /\ Held'
<1>1. /\ prg \in Programs /\ Sources \subseteq Nat \ {0} /\ owed \subseteq Sources
  BY BlocksAre DEF Typed, TypeOK
<1>2. /\ Step
      /\ \/ Next1("lock") \/ Next1("unlock") \/ Next1("set") \/ Next1("timers")
         \/ Next1("cleanup")
  BY DEF Step, Lock, Unlock, Gate, Delay, Act, SetInput, TimersDone, Cleanup
<1>3. /\ prg' = prg
      /\ \A s \in Sources : /\ (Preparing <=> Preparing') /\ (Read(s) <=> Read(s)')
                            /\ Coming(s) => Coming(s)'
  BY <1>2, ReadAfter, StepPuts DEF Next1
<1>4. queue' = queue /\ thread' = thread /\ source' = source /\ owed' = owed
  BY DEF Lock, Unlock, Gate, Delay, Act, SetInput, TimersDone, Cleanup, data, hist
<1>5. ASSUME NEW s \in owed'
      PROVE  (IF prg.kind[s] = "timer" THEN HeldTimer(s) ELSE HeldCommand(s))'
  <2>1. s \in owed /\ s \in Sources
    BY <1>1, <1>4, <1>5
  <2>2. IF prg.kind[s] = "timer" THEN HeldTimer(s) ELSE HeldCommand(s)
    BY <2>1 DEF Held
  <2>. QED
    BY <1>3, <1>4, <2>1, <2>2, HeldWhileSame
<1>6. Known'
  BY <1>3, <1>4, StillTheProgram DEF Known
<1>. QED
  BY <1>5, <1>6 DEF Held

LEMMA NoWaits ==
  ASSUME Typed, Prompt, Phased(todo)
  PROVE  /\ ~ (ExtractStorage \/ Fetched \/ Ask \/ Answered)
         /\ \A n \in 1..Len(todo) : ~Answer(n)
<1>1. prg \in Programs /\ todo \in Seq(Proper)
  BY DEF Typed, TypeOK
<1>2. ~ExtractStorage
  <2> SUFFICES ASSUME ExtractStorage PROVE FALSE
    OBVIOUS
  <2>1. B \in Sources /\ prg.kind[B] = "storage"
    BY TypesAre DEF ExtractStorage, Next1
  <2>. QED
    BY <2>1, KindsArePrompt
<1>3. ~Ask
  <2> SUFFICES ASSUME Ask PROVE FALSE
    OBVIOUS
  <2>1. B \in Blocks /\ prg.kind[B] = "ask"
    BY TypesAre DEF Ask, SetInput, Next1
  <2>. QED
    BY <2>1 DEF Prompt
<1>4. ~Fetched /\ ~Answered
  BY <1>1, RestOfPhased DEF Fetched, Answered, Next1
<1>5. ASSUME NEW n \in 1..Len(todo), Answer(n) PROVE FALSE
  BY <1>5 DEF Answer, Phased
<1>. QED
  BY <1>2, <1>3, <1>4, <1>5

LEMMA PromptlyStep ==
  ASSUME Typed, Promptly, Next
  PROVE  Promptly'
<1> SUFFICES ASSUME Prompt PROVE Phased(todo)' /\ Known' /\ Held'
  BY ProgramStays DEF Promptly
<1>1. Phased(todo) /\ Known /\ Held
  BY DEF Promptly
<1>2. Phased(todo')
  BY <1>1, PhasedStep
<1>3. Phased(todo)'
  BY <1>2 DEF Phased
<1>. QED
  BY <1>1, <1>3, WaitingStep, ExtractStep, PrepareStep, EvalStep, OtherStep, NoWaits
  DEF Next, Step

LEMMA PromptlyInit == Init => Promptly
<1> SUFFICES ASSUME Init, Prompt PROVE Phased(todo) /\ Known /\ Held
  BY DEF Promptly
<1>1. todo = <<>> /\ owed = {}
  BY DEF Init
<1>. QED
  BY <1>1 DEF Phased, Known, Held, Read, Next1

LEMMA EachEvaluates ==
  ASSUME prg \in Programs, NEW S, S \subseteq Sources
  PROVE  Each("source", S) \in Seq(Proper) /\ Evaluating(Each("source", S))
<1>1. PICK P : P = Each("source", S)
  OBVIOUS
<1>2. P \in Seq(Proper) /\ (Len(P) = 0 \/ (Len(P) = 1 /\ P[1].op = "source"))
  BY <1>1, EachIs
<1>3. ASSUME NEW n \in 1..Len(P) PROVE Evaluates(P[n])
  <2>1. PICK q : q = Len(P)
    OBVIOUS
  <2>2. n \in 1..q /\ (q = 0 \/ q = 1) /\ (q = 1 => P[1].op = "source")
    BY <1>2, <2>1
  <2>3. n = 1 /\ q = 1
    BY <2>2
  <2>4. P[n].op = "source"
    BY <2>2, <2>3
  <2>. QED
    BY <2>4 DEF Evaluates
<1>. QED
  BY <1>1, <1>2, <1>3 DEF Evaluating

(* The data at the front are put into an input. *)
LEMMA FilledFits ==
  ASSUME Typed, Next1("set"), Evaluating(todo), InputsFit(input)
  PROVE  InputsFit(Filled)
<1>1. todo # <<>> /\ todo[1].op = "set" /\ Evaluates(todo[1])
  BY EvaluatingRest DEF Next1
<1>2. B \in Blocks /\ todo[1].i \in 1..2
  BY <1>1, TypesAre
<1>3. Fits(B, todo[1].i, todo[1].v)
  BY <1>1 DEF Evaluates, B
<1>4. input \in [Blocks -> [1..2 -> Data]]
  BY DEF Typed, TypeOK
<1>5. \A b \in Blocks : \A i \in 1..2 :
        Filled[b][i] = IF b = B /\ i = todo[1].i THEN todo[1].v ELSE input[b][i]
  BY <1>2, <1>4 DEF Filled
<1>. QED
  BY <1>3, <1>5 DEF InputsFit

(* An open gate passes on the argument of a command that came. *)
LEMMA OpenGate ==
  ASSUME ArgumentsAreGated, Typed, Next1("set"), prg.kind[B] = "gate",
         Evaluated, Filled[B][1] = TRUE, InputsFit(Filled)
  PROVE  Filled[B][2] \in Vals => Worked(Filled[B][2])
<1>1. B \in Blocks /\ prg \in Programs /\ Invalid # TRUE /\ Invalid \notin Vals
  BY TypesAre, ConstantsAssumption DEF Next1
<1>2. Fits(B, 1, Filled[B][1]) /\ Fits(B, 2, Filled[B][2])
  BY <1>1 DEF InputsFit
<1>3. CASE \E s \in Sources : GateOf(s, B)
  <2>1. PICK s \in Sources : GateOf(s, B)
    BY <1>3
  <2>2. source[s].workTrig = TRUE
    BY <1>1, <1>2, <2>1 DEF Fits
  <2>3. Filled[B][2] \in Vals => source[s].work = Filled[B][2]
    BY <1>1, <1>2, <2>1 DEF Fits
  <2>. QED
    BY <2>2, <2>3 DEF Worked
<1>4. CASE \A s \in Sources : ~GateOf(s, B)
  BY <1>2, <1>4 DEF Fits
<1>. QED
  BY <1>3, <1>4

(* What is put in front during an evaluation belongs to it. *)
LEMMA EvaluationPuts ==
  ASSUME ArgumentsAreGated, Typed, Step, Evaluating(todo), InputsFit(input)
  PROVE  \E P \in Seq(Proper) : Evaluating(P) /\ todo' = P \o Rest
<1>1. todo # <<>> /\ Evaluates(todo[1]) /\ prg \in Programs
  BY StepPuts, EvaluatingRest DEF Typed, TypeOK
<1>2. todo[1].op \in {"source", "set", "ask", "timers", "cleanup"}
  BY <1>1 DEF Evaluates
<1>3. <<>> \in Seq(Proper) /\ Evaluating(<<>>) /\ <<>> \o Rest = Rest
  BY <1>1, NothingBefore DEF Evaluating
<1>4. CASE EvalSource
  <2>1. B \in Sources /\ B \in Blocks /\ source[B].work \in Data /\ Later(B) \subseteq Sources
    BY <1>1, <1>4, TypesAre, BlocksAre DEF EvalSource, Next1, Typed, TypeOK
  <2>2. PICK O : O = CASE prg.kind[B] # "command" -> Outputs(B, source[B].work)
                       [] prg.kind[B] = "command" /\ source[B].work # Invalid ->
                            Output(B, 1, source[B].workTrig) \o Output(B, 2, source[B].work)
                       [] OTHER -> <<>>
    OBVIOUS
  <2>3. O \in Seq(Proper) /\ Evaluating(O)
    <3>1. CASE prg.kind[B] # "command"
      <4>1. Worked(source[B].work)
        BY <2>1, <3>1 DEF Worked
      <4>2. O = Outputs(B, source[B].work)
        BY <2>2, <3>1
      <4>3. Outputs(B, source[B].work) \in Seq(Proper) /\ Evaluating(Outputs(B, source[B].work))
        BY <1>1, <2>1, <3>1, <4>1, OutputsEvaluate
      <4>. QED
        BY <4>2, <4>3
    <3>2. CASE prg.kind[B] = "command" /\ source[B].work = Invalid
      BY <1>3, <2>2, <3>2
    <3>3. CASE prg.kind[B] = "command" /\ source[B].work # Invalid
      BY <2>1, <2>2, <3>3, CommandEvaluates
    <3>. QED
      BY <3>1, <3>2, <3>3
  <2>4. PICK E \in Seq(Proper) : E = Each("source", Later(B)) /\ Evaluating(E)
    BY <1>1, <2>1, EachEvaluates
  <2>5. todo' = O \o E \o Rest
    BY <1>4, <2>2, <2>4 DEF EvalSource
  <2>6. PICK P : P = O \o E
    OBVIOUS
  <2>7. P \in Seq(Proper) /\ Evaluating(P)
    BY <2>3, <2>4, <2>6, EvaluatingJoined, JoinedIs
  <2>. QED
    BY <2>5, <2>6, <2>7
<1>5. CASE Gate
  <2>1. Next1("set") /\ prg.kind[B] = "gate"
    BY <1>5 DEF Gate, SetInput
  <2>2. B \in Blocks /\ todo[1].i \in 1..2 /\ todo[1].v \in Data
    BY <1>1, <2>1, TypesAre DEF Next1
  <2>3. Filled[B][2] \in Data
    BY <2>2 DEF Filled, Typed, TypeOK
  <2>4. CASE Evaluated /\ Filled[B][1] = TRUE
    <3>1. Filled[B][2] \in Vals => Worked(Filled[B][2])
      BY <2>1, <2>4, FilledFits, OpenGate
    <3>2. todo' = Outputs(B, Filled[B][2]) \o Rest
      BY <1>5, <2>4 DEF Gate
    <3>. QED
      BY <1>1, <2>1, <2>2, <2>3, <3>1, <3>2, OutputsEvaluate
  <2>5. CASE ~ (Evaluated /\ Filled[B][1] = TRUE)
    BY <1>3, <1>5, <2>5 DEF Gate
  <2>. QED
    BY <2>4, <2>5
<1>6. CASE Ask
  <2>1. B \in Nat /\ B \in Blocks
    BY <1>1, <1>6, TypesAre DEF Ask, SetInput, Next1
  <2>2. PICK st : st = Do("ask", B)
    OBVIOUS
  <2>3. st \in Proper /\ st.op = "ask" /\ st.v \notin Vals /\ prg.kind[st.b] = "ask"
    <3>1. st \in Proper /\ st.op = "ask" /\ st.b = B /\ prg.kind[B] = "ask"
      BY <1>6, <2>1, <2>2, DoIsProper DEF Ask, SetInput
    <3>2. st.v = Invalid
      BY <2>2 DEF Do
    <3>. QED
      BY <3>1, <3>2, ConstantsAssumption
  <2>4. Evaluates(st)
    BY <2>3 DEF Evaluates
  <2>5. PICK P : P = <<st>>
    OBVIOUS
  <2>6. P \in Seq(Proper) /\ Evaluating(P)
    <3>1. P \in Seq(Proper) /\ Len(P) = 1 /\ P[1] = st
      BY <2>3, <2>5
    <3>. QED
      BY <2>4, <3>1 DEF Evaluating
  <2>7. todo' = P \o Rest \/ todo' = <<>> \o Rest
    BY <1>6, <2>2, <2>5 DEF Ask
  <2>. QED
    BY <1>3, <2>6, <2>7
<1>7. CASE Answered
  <2>1. todo[1].op = "ask" /\ todo' = Outputs(B, todo[1].v) \o Rest
    BY <1>7 DEF Answered, Next1
  <2>2. todo[1].v \notin Vals /\ todo[1].v \in Data /\ B \in Blocks
    BY <1>1, <2>1, TypesAre DEF Evaluates
  <2>3. prg.kind[B] # "command"
    BY <1>1, <2>1 DEF Evaluates, B
  <2>. QED
    BY <1>1, <2>1, <2>2, <2>3, OutputsEvaluate
<1>8. CASE Delay \/ Act \/ TimersDone \/ Cleanup
  BY <1>3, <1>8 DEF Delay, Act, TimersDone, Cleanup
<1>9. ~ (\/ Lock \/ Unlock \/ ExtractCommand \/ ExtractTimer \/ ClearTimer
         \/ ExtractStorage \/ Fetched \/ Prepare)
  BY <1>2 DEF Lock, Unlock, ExtractCommand, ExtractTimer, ClearTimer, ExtractStorage,
              Fetched, Prepare, Next1
<1>. QED
  BY <1>4, <1>5, <1>6, <1>7, <1>8, <1>9 DEF Step

(* The inputs that an evaluation sets. *)
LEMMA EvaluationSets ==
  ASSUME Typed, Step, Evaluating(todo), InputsFit(input)
  PROVE  InputsFit(input')
<1>1. todo # <<>> /\ prg \in Programs
  BY StepPuts DEF Typed, TypeOK
<1>2. CASE Gate \/ Delay \/ Act \/ Ask
  <2>1. Next1("set") /\ input' = IF todo[1].v = Invalid THEN input ELSE Filled
    BY <1>2 DEF Gate, Delay, Act, Ask, SetInput
  <2>. QED
    BY <2>1, FilledFits
<1>3. CASE Cleanup
  <2>1. \A b \in Blocks : \A i \in 1..2 : input'[b][i] = Invalid
    BY <1>3 DEF Cleanup, NoInputs
  <2>2. \A b, i : Fits(b, i, Invalid)
    BY ConstantsAssumption DEF Fits
  <2>. QED
    BY <2>1, <2>2 DEF InputsFit
<1>4. CASE input' = input
  BY <1>4
<1>. QED
  BY <1>2, <1>3, <1>4 DEF Step, Lock, Unlock, ExtractCommand, ExtractTimer, ClearTimer,
       ExtractStorage, Fetched, Prepare, EvalSource, Answered, TimersDone, data

(* As long as no source is prepared, what fits goes on fitting. *)
LEMMA SameFits ==
  ASSUME prg' = prg,
         \A s \in Sources : /\ source'[s].work = source[s].work
                            /\ source'[s].workTrig = source[s].workTrig
  PROVE  /\ Evaluating(todo') => Evaluating(todo)'
         /\ InputsFit(input') => InputsFit(input)'
<1>1. Sources' = Sources /\ Blocks' = Blocks
  BY StillTheProgram
<1>2. \A v : Worked(v) => Worked(v)'
  BY <1>1 DEF Worked
<1>3. \A b, i, v : Fits(b, i, v) => Fits(b, i, v)'
  BY <1>1, <1>2 DEF Fits, GateOf
<1>4. \A st : Evaluates(st) => Evaluates(st)'
  BY <1>3 DEF Evaluates
<1>5. ASSUME Evaluating(todo'), NEW n \in 1..Len(todo') PROVE Evaluates(todo[n])'
  <2>1. Evaluates(todo'[n])
    BY <1>5 DEF Evaluating
  <2>. QED
    BY <1>4, <2>1 DEF Evaluates, Fits, GateOf, Worked
<1>6. ASSUME InputsFit(input'), NEW b \in Blocks, NEW i \in 1..2 PROVE Fits(b, i, input[b][i])'
  <2>1. PICK v : v = input'[b][i]
    OBVIOUS
  <2>2. Fits(b, i, v)
    BY <1>6, <2>1 DEF InputsFit
  <2>3. Fits(b, i, v)'
    BY <1>3, <2>2
  <2>. QED
    BY <2>1, <2>3 DEF Fits, GateOf, Worked
<1>. QED
  BY <1>1, <1>5, <1>6 DEF Evaluating, InputsFit

LEMMA WorkStays ==
  ASSUME Typed, Next, ~Prepare
  PROVE  \A s \in Sources : /\ source'[s].work = source[s].work
                            /\ source'[s].workTrig = source[s].workTrig
<1>1. source \in [Sources -> SourceData]
  BY DEF Typed, TypeOK, SourceData
<1>2. CASE source' = source
  BY <1>2
<1>3. CASE ExtractCommand \/ ExtractTimer \/ ClearTimer \/ Fetched
  BY <1>1, <1>3 DEF ExtractCommand, ExtractTimer, ClearTimer, Fetched, SourceData
<1>4. ASSUME NEW r \in Sources, NEW v \in Vals, Arrives(r, v)
      PROVE  \A s \in Sources : /\ source'[s].work = source[s].work
                                /\ source'[s].workTrig = source[s].workTrig
  BY <1>1, <1>4 DEF Arrives, SourceData
<1>5. ASSUME NEW r \in Sources, TimerDue(r)
      PROVE  \A s \in Sources : /\ source'[s].work = source[s].work
                                /\ source'[s].workTrig = source[s].workTrig
  BY <1>1, <1>5 DEF TimerDue, SourceData
<1>. QED
  BY <1>2, <1>3, <1>4, <1>5
  DEF Next, Step, Lock, Unlock, ExtractStorage, EvalSource, Gate, Delay, Act, Ask, SetInput,
      Answered, TimersDone, Cleanup, Activate, TimerActivates, CommandArrives, NewValue,
      DelayFires, Answer, data

(* What is put in front of statements that wait for the timers waits too. *)
LEMMA WaitingJoined ==
  ASSUME NEW P \in Seq(Proper), NEW t \in Seq(Proper), Waiting(t),
         P = <<>> \/ \E m \in 1..Len(t) : t[m].op = "timers"
  PROVE  Waiting(P \o t)
<1>1. PICK u : u = P \o t
  OBVIOUS
<1>2. /\ Len(P) \in Nat /\ Len(t) \in Nat /\ Len(u) = Len(P) + Len(t)
      /\ \A n \in 1..Len(P) : u[n] = P[n]
      /\ \A n \in (Len(P) + 1)..(Len(P) + Len(t)) : u[n] = t[n - Len(P)]
  BY <1>1, JoinedIs
<1>3. ASSUME NEW n \in 1..Len(u), u[n].op \notin {"timers", "cleanup"}
      PROVE  \E m \in (n + 1)..Len(u) : u[m].op = "timers"
  <2>1. CASE n <= Len(P)
    <3>1. P # <<>>
      BY <1>2, <2>1
    <3>2. PICK m \in 1..Len(t) : t[m].op = "timers"
      BY <3>1
    <3>3. m + Len(P) \in (n + 1)..Len(u) /\ m + Len(P) \in (Len(P) + 1)..(Len(P) + Len(t))
          /\ (m + Len(P)) - Len(P) = m
      BY <1>2, <2>1
    <3>. QED
      BY <1>2, <3>2, <3>3
  <2>2. CASE n > Len(P)
    <3>1. n \in (Len(P) + 1)..(Len(P) + Len(t)) /\ n - Len(P) \in 1..Len(t)
      BY <1>2, <2>2
    <3>2. u[n] = t[n - Len(P)]
      BY <1>2, <3>1
    <3>3. PICK m \in ((n - Len(P)) + 1)..Len(t) : t[m].op = "timers"
      BY <1>3, <3>1, <3>2 DEF Waiting
    <3>4. m + Len(P) \in (n + 1)..Len(u) /\ m + Len(P) \in (Len(P) + 1)..(Len(P) + Len(t))
          /\ (m + Len(P)) - Len(P) = m
      BY <1>2, <3>1, <3>3
    <3>. QED
      BY <1>2, <3>3, <3>4
  <2>. QED
    BY <1>2, <2>1, <2>2
<1>. QED
  BY <1>1, <1>3 DEF Waiting

LEMMA WaitingRest ==
  ASSUME Typed, todo # <<>>, Waiting(todo)
  PROVE  /\ Waiting(Rest)
         /\ todo[1].op \notin {"timers", "cleanup"} =>
              \E m \in 1..Len(Rest) : Rest[m].op = "timers"
<1>1. todo \in Seq(Proper)
  BY DEF Typed
<1>2. /\ Len(todo) \in Nat /\ Len(todo) >= 1 /\ Len(Rest) = Len(todo) - 1
      /\ \A n \in 1..(Len(todo) - 1) : Rest[n] = todo[n + 1]
  BY <1>1, RestIs DEF Rest
<1>3. ASSUME NEW n \in 1..Len(todo), todo[n].op \notin {"timers", "cleanup"}
      PROVE  \E m \in n..Len(Rest) : Rest[m].op = "timers"
  <2>1. PICK m \in (n + 1)..Len(todo) : todo[m].op = "timers"
    BY <1>3 DEF Waiting
  <2>2. m - 1 \in n..Len(Rest) /\ m - 1 \in 1..(Len(todo) - 1) /\ (m - 1) + 1 = m
    BY <1>2, <2>1
  <2>. QED
    BY <1>2, <2>1, <2>2
<1>4. ASSUME NEW n \in 1..Len(Rest), Rest[n].op \notin {"timers", "cleanup"}
      PROVE  \E m \in (n + 1)..Len(Rest) : Rest[m].op = "timers"
  <2>1. n + 1 \in 1..Len(todo) /\ Rest[n] = todo[n + 1]
    BY <1>2, <1>4
  <2>. QED
    BY <1>3, <1>4, <2>1
<1>5. 1 \in 1..Len(todo)
  BY <1>2
<1>. QED
  BY <1>3, <1>4, <1>5 DEF Waiting

LEMMA TimedStep ==
  ASSUME Typed, Timed, Next
  PROVE  Timed'
<1>1. /\ todo \in Seq(Proper) /\ Len(todo) \in Nat /\ prg' = prg /\ Waiting(todo)
      /\ delays # {} => \E n \in 1..Len(todo) : todo[n].op = "timers"
      /\ \A b \in delays : prg.kind[b] = "delay"
  BY ProgramStays DEF Typed, Timed
<1>2. CASE Step
  <2>1. PICK P \in Seq(Proper) : todo # <<>> /\ Puts(P) /\ todo' = P \o Rest
    BY <1>2, StepPuts
  <2>2. Rest \in Seq(Proper) /\ Len(P) \in Nat /\ Len(Rest) \in Nat
    BY <2>1, TypesAre
  <2>3. /\ Waiting(Rest)
        /\ todo[1].op \notin {"timers", "cleanup"} =>
             \E m \in 1..Len(Rest) : Rest[m].op = "timers"
    BY <1>1, <2>1, WaitingRest
  <2>4. todo[1].op \in {"timers", "cleanup"} => P = <<>>
    BY <2>1 DEF Puts
  <2>5. Waiting(todo')
    BY <2>1, <2>2, <2>3, <2>4, WaitingJoined
  <2>6. \A b \in delays' : prg.kind[b] = "delay"
    BY <1>1, <1>2 DEF Step, Lock, Unlock, ExtractCommand, ExtractTimer, ClearTimer,
       ExtractStorage, Fetched, Prepare, EvalSource, Gate, Delay, Act, Ask, SetInput, Answered,
       TimersDone, Cleanup, data
  <2>7. ASSUME delays' # {} PROVE \E m \in 1..Len(Rest) : Rest[m].op = "timers"
    <3>1. CASE todo[1].op \notin {"timers", "cleanup"}
      BY <2>3, <3>1
    <3>2. CASE todo[1].op = "timers"
      BY <1>2, <2>7, <3>2 DEF Step, Lock, Unlock, ExtractCommand, ExtractTimer, ClearTimer,
         ExtractStorage, Fetched, Prepare, EvalSource, Gate, Delay, Act, Ask, SetInput, Answered,
         TimersDone, Cleanup, data, Next1
    <3>3. CASE todo[1].op = "cleanup"
      <4>1. delays # {}
        BY <1>2, <2>7, <3>3 DEF Step, Lock, Unlock, ExtractCommand, ExtractTimer, ClearTimer,
           ExtractStorage, Fetched, Prepare, EvalSource, Gate, Delay, Act, Ask, SetInput,
           Answered, TimersDone, Cleanup, data, Next1
      <4>2. PICK n \in 1..Len(todo) : todo[n].op = "timers"
        BY <1>1, <4>1
      <4>3. n # 1 /\ n - 1 \in 1..Len(Rest) /\ Rest[n - 1] = todo[(n - 1) + 1]
        BY <1>1, <2>1, <3>3, <4>2, RestIs DEF Rest
      <4>. QED
        BY <4>2, <4>3
    <3>. QED
      BY <3>1, <3>2, <3>3
  <2>8. ASSUME delays' # {} PROVE \E n \in 1..Len(todo') : todo'[n].op = "timers"
    <3>1. PICK m \in 1..Len(Rest) : Rest[m].op = "timers"
      BY <2>7, <2>8
    <3>2. /\ Len(todo') = Len(P) + Len(Rest)
          /\ \A n \in (Len(P) + 1)..(Len(P) + Len(Rest)) : todo'[n] = Rest[n - Len(P)]
      BY <2>1, <2>2, JoinedIs
    <3>3. m + Len(P) \in (Len(P) + 1)..(Len(P) + Len(Rest)) /\ (m + Len(P)) - Len(P) = m
      BY <2>2
    <3>4. todo'[m + Len(P)].op = "timers" /\ m + Len(P) \in 1..Len(todo')
      BY <2>2, <3>1, <3>2, <3>3
    <3>. QED
      BY <3>4
  <2>. QED
    BY <1>1, <2>5, <2>6, <2>8 DEF Timed, Waiting
<1>3. CASE Activate
  <2>1. /\ todo' \in Seq(Proper) /\ Len(todo') = 4 + Len(todo)
        /\ todo'[3].op = "timers" /\ todo'[4].op = "cleanup"
        /\ \A n \in 5..(4 + Len(todo)) : todo'[n] = todo[n - 4]
    BY <1>3, ActivatedIs
  <2>2. delays' = delays
    BY <1>3 DEF Activate, data
  <2>3. ASSUME NEW n \in 1..Len(todo'), todo'[n].op \notin {"timers", "cleanup"}
        PROVE  \E m \in (n + 1)..Len(todo') : todo'[m].op = "timers"
    <3>1. CASE n <= 4
      <4>1. n # 3 /\ n # 4
        BY <2>1, <2>3
      <4>2. 3 \in (n + 1)..Len(todo')
        BY <1>1, <2>1, <3>1, <4>1
      <4>. QED
        BY <2>1, <4>2
    <3>2. CASE n > 4
      <4>1. n \in 5..(4 + Len(todo)) /\ n - 4 \in 1..Len(todo)
        BY <1>1, <2>1, <3>2
      <4>2. PICK m \in ((n - 4) + 1)..Len(todo) : todo[m].op = "timers"
        BY <1>1, <2>1, <2>3, <4>1 DEF Waiting
      <4>3. m + 4 \in 5..(4 + Len(todo)) /\ m + 4 \in (n + 1)..Len(todo') /\ (m + 4) - 4 = m
        BY <1>1, <2>1, <4>1, <4>2
      <4>. QED
        BY <2>1, <4>2, <4>3
    <3>. QED
      BY <1>1, <2>1, <3>1, <3>2
  <2>4. 3 \in 1..Len(todo')
    BY <1>1, <2>1
  <2>. QED
    BY <1>1, <2>1, <2>2, <2>3, <2>4 DEF Timed, Waiting
<1>4. CASE \E b \in Blocks : DelayFires(b)
  <2>1. PICK b \in Blocks : DelayFires(b)
    BY <1>4
  <2>2. PICK O \in Seq(Proper) : todo' = O \o todo
    BY <2>1, FiresIs
  <2>3. delays' \subseteq delays /\ \E n \in 1..Len(todo) : todo[n].op = "timers"
    BY <1>1, <2>1 DEF DelayFires
  <2>4. Waiting(todo')
    BY <1>1, <2>2, <2>3, WaitingJoined
  <2>5. PICK m \in 1..Len(todo) : todo[m].op = "timers"
    BY <2>3
  <2>6. /\ Len(O) \in Nat /\ Len(todo') = Len(O) + Len(todo)
        /\ \A n \in (Len(O) + 1)..(Len(O) + Len(todo)) : todo'[n] = todo[n - Len(O)]
    BY <1>1, <2>2, JoinedIs
  <2>7. m + Len(O) \in (Len(O) + 1)..(Len(O) + Len(todo)) /\ (m + Len(O)) - Len(O) = m
        /\ m + Len(O) \in 1..Len(todo')
    BY <1>1, <2>6
  <2>8. todo'[m + Len(O)].op = "timers"
    BY <2>5, <2>6, <2>7
  <2>. QED
    BY <1>1, <2>3, <2>4, <2>7, <2>8 DEF Timed, Waiting
<1>5. CASE \E n \in 1..Len(todo) : Answer(n)
  <2>1. PICK n \in 1..Len(todo) : Answer(n)
    BY <1>5
  <2>2. Len(todo') = Len(todo) /\ \A k \in 1..Len(todo) : todo'[k].op = todo[k].op
    BY <2>1, AnswerIs
  <2>3. delays' = delays
    BY <2>1 DEF Answer, data
  <2>. QED
    BY <1>1, <2>2, <2>3 DEF Timed, Waiting
<1>6. CASE todo' = todo /\ delays' = delays
  BY <1>1, <1>6 DEF Timed
<1>. QED
  BY <1>2, <1>3, <1>4, <1>5, <1>6 DEF Next, TimerActivates, TimerDue, CommandArrives, NewValue,
     Arrives, data

LEMMA PutOps ==
  ASSUME Typed, todo # <<>>, NEW P \in Seq(Proper), Puts(P), NEW k \in 1..Len(P)
  PROVE  /\ todo[1].op \in {"lock", "extract", "clear", "fetch", "unlock"} =>
              P[k].op \in {"lock", "extract", "clear", "fetch", "unlock"}
         /\ todo[1].op = "prepare" => P[k].op = "source"
         /\ P[k].op # "cleanup"
<1>1. prg \in Programs /\ Later(B) \subseteq Sources
  BY TypesAre
<1>2. ASSUME NEW op \in {"extract", "source"}, NEW S, S \subseteq Sources,
             NEW j \in 1..Len(Each(op, S))
      PROVE  Each(op, S)[j].op = op
  <2>1. Len(Each(op, S)) \in {0, 1} /\ (Len(Each(op, S)) = 1 => Each(op, S)[1].op = op)
    BY <1>1, <1>2, EachIs
  <2>2. j = 1 /\ Len(Each(op, S)) = 1
    <3>1. PICK q : q = Len(Each(op, S))
      OBVIOUS
    <3>2. q \in {0, 1} /\ j \in 1..q
      BY <2>1, <3>1
    <3>3. j = 1 /\ q = 1
      BY <3>2
    <3>. QED
      BY <3>1, <3>3
  <2>. QED
    BY <2>1, <2>2
<1>3. ASSUME NEW st, P = <<st>> PROVE P[k] = st
  BY <1>3
<1>4. CASE todo[1].op = "lock"
  <2>1. PICK E \in Seq(Proper) : E = Each("extract", Sources)
    BY <1>1, EachIs
  <2>2. PICK U : U = <<Do("unlock", 0)>>
    OBVIOUS
  <2>3. U \in Seq(Proper) /\ Len(U) = 1 /\ U[1].op = "unlock"
    <3>1. Do("unlock", 0) \in Proper /\ Do("unlock", 0).op = "unlock"
      BY DoIsProper
    <3>. QED
      BY <2>2, <3>1
  <2>4. P = E \o U
    BY <1>4, <2>1, <2>2 DEF Puts
  <2>5. /\ Len(E) \in Nat /\ Len(P) = Len(E) + 1
        /\ \A n \in 1..Len(E) : P[n] = E[n]
        /\ \A n \in (Len(E) + 1)..(Len(E) + 1) : P[n] = U[n - Len(E)]
    BY <2>3, <2>4, JoinedIs
  <2>6. CASE k \in 1..Len(E)
    <3>1. E[k].op = "extract"
      BY <1>2, <2>1, <2>6
    <3>. QED
      BY <1>4, <2>5, <2>6, <3>1
  <2>7. CASE k = Len(E) + 1
    BY <1>4, <2>3, <2>5, <2>7
  <2>. QED
    BY <2>5, <2>6, <2>7
<1>5. CASE todo[1].op \in {"unlock", "timers", "cleanup"}
  BY <1>5 DEF Puts
<1>6. CASE todo[1].op = "extract"
  <2>1. CASE P = Each("extract", Later(B))
    BY <1>1, <1>2, <1>6, <2>1
  <2>2. CASE P = <<Do("clear", B)>> \/ P = <<Do("fetch", B)>>
    <3>1. P[k].op \in {"clear", "fetch"}
      BY <1>3, <2>2 DEF Do
    <3>. QED
      BY <1>6, <3>1
  <2>. QED
    BY <1>6, <2>1, <2>2 DEF Puts
<1>7. CASE todo[1].op \in {"clear", "fetch"}
  <2>1. P = Each("extract", Later(B))
    BY <1>7 DEF Puts
  <2>. QED
    BY <1>1, <1>2, <1>7, <2>1
<1>8. CASE todo[1].op = "prepare"
  <2>1. P = Each("source", Sources)
    BY <1>8 DEF Puts
  <2>2. P[k].op = "source"
    BY <1>2, <2>1
  <2>. QED
    BY <1>8, <2>2
<1>9. CASE todo[1].op = "source"
  <2>1. PICK O \in Seq(Proper) : Sets(O) /\ P = O \o Each("source", Later(B))
    BY <1>9 DEF Puts
  <2>2. PICK E \in Seq(Proper) : E = Each("source", Later(B))
    BY <1>1, EachIs
  <2>3. /\ Len(O) \in Nat /\ Len(E) \in Nat /\ Len(P) = Len(O) + Len(E)
        /\ \A n \in 1..Len(O) : P[n] = O[n]
        /\ \A n \in (Len(O) + 1)..(Len(O) + Len(E)) : P[n] = E[n - Len(O)]
    BY <2>1, <2>2, JoinedIs
  <2>4. CASE k <= Len(O)
    <3>1. O[k].op = "set" /\ P[k] = O[k]
      BY <2>1, <2>3, <2>4 DEF Sets
    <3>. QED
      BY <1>9, <3>1
  <2>5. CASE k > Len(O)
    <3>1. k - Len(O) \in 1..Len(E) /\ k \in (Len(O) + 1)..(Len(O) + Len(E))
      BY <2>3, <2>5
    <3>2. E[k - Len(O)].op = "source" /\ P[k] = E[k - Len(O)]
      BY <1>1, <1>2, <2>2, <2>3, <3>1
    <3>. QED
      BY <1>9, <3>2
  <2>. QED
    BY <2>3, <2>4, <2>5
<1>10. CASE todo[1].op \in {"set", "ask"}
  <2>1. CASE Sets(P)
    <3>1. P[k].op = "set"
      BY <2>1 DEF Sets
    <3>. QED
      BY <1>10, <3>1
  <2>2. CASE P = <<Do("ask", B)>>
    <3>1. P[k].op = "ask"
      BY <1>3, <2>2 DEF Do
    <3>. QED
      BY <1>10, <3>1
  <2>. QED
    BY <1>10, <2>1, <2>2 DEF Puts
<1>11. todo \in Seq(Proper) /\ 1 \in 1..Len(todo)
  BY DEF Typed
<1>12. todo[1].op \in {"lock", "extract", "clear", "fetch", "unlock", "prepare",
                       "source", "set", "ask", "timers", "cleanup"}
  BY <1>11, OpsAre
<1>. QED
  BY <1>4, <1>5, <1>6, <1>7, <1>8, <1>9, <1>10, <1>12

LEMMA AloneStep ==
  ASSUME Typed, Step, Alone(todo)
  PROVE  Alone(todo')
<1>1. PICK P \in Seq(Proper) : todo # <<>> /\ Puts(P) /\ todo' = P \o Rest
  BY StepPuts
<1>2. /\ Len(todo') = Len(P) + Len(todo) - 1 /\ Len(todo) >= 1
      /\ Len(P) \in Nat /\ Len(todo) \in Nat
      /\ \A n \in 1..Len(P) : todo'[n] = P[n]
      /\ \A n \in (Len(P) + 1)..Len(todo') : todo'[n] = todo[n - Len(P) + 1]
  BY <1>1, PutIs DEF Rest, Typed
<1>3. ASSUME NEW n \in 1..Len(todo'), todo'[n].op = "cleanup" PROVE n = Len(todo')
  <2>1. n \notin 1..Len(P)
    BY <1>1, <1>2, <1>3, PutOps
  <2>2. n \in (Len(P) + 1)..Len(todo') /\ n - Len(P) + 1 \in 1..Len(todo)
    BY <1>2, <2>1
  <2>3. todo[n - Len(P) + 1].op = "cleanup"
    BY <1>2, <1>3, <2>2
  <2>4. n - Len(P) + 1 = Len(todo)
    BY <2>2, <2>3 DEF Alone
  <2>. QED
    BY <1>2, <2>4
<1>4. ASSUME todo' # <<>> PROVE todo'[Len(todo')].op = "cleanup"
  <2>1. todo[Len(todo)].op = "cleanup"
    BY <1>1 DEF Alone
  <2>2. CASE Len(todo) = 1
    <3>1. P = <<>>
      BY <1>1, <2>1, <2>2 DEF Puts
    <3>2. Len(todo') = 0 /\ todo' \in Seq(Proper)
      BY <1>2, <2>2, <3>1, TodoTyped DEF Next
    <3>. QED
      BY <1>4, <3>2
  <2>3. CASE Len(todo) > 1
    <3>1. Len(todo') \in (Len(P) + 1)..Len(todo') /\ Len(todo') - Len(P) + 1 = Len(todo)
      BY <1>2, <2>3
    <3>. QED
      BY <1>2, <2>1, <3>1
  <2>4. Len(todo) = 1 \/ Len(todo) > 1
    <3>1. PICK q \in Nat : q = Len(todo)
      BY <1>2
    <3>2. q >= 1
      BY <1>2, <3>1
    <3>3. q = 1 \/ q > 1
      BY <3>2
    <3>. QED
      BY <3>1, <3>3
  <2>. QED
    BY <2>2, <2>3, <2>4
<1>. QED
  BY <1>3, <1>4 DEF Alone

LEMMA NoInputsFit ==
  InputsFit(NoInputs) /\ (prg' = prg => InputsFit(NoInputs)')
<1>1. /\ \A b, i : Fits(b, i, Invalid)
      /\ \A b, i : Fits(b, i, Invalid)'
  BY ConstantsAssumption DEF Fits
<1>2. \A b \in Blocks : \A i \in 1..2 : NoInputs[b][i] = Invalid
  BY DEF NoInputs
<1>3. prg' = prg => Blocks' = Blocks /\ NoInputs' = NoInputs
  BY StillTheProgram
<1>. QED
  BY <1>1, <1>2, <1>3 DEF InputsFit

(* Before the evaluation nothing is set. *)
LEMMA BeforeStep ==
  ASSUME Typed, Step, Before(todo), input = NoInputs, delays = {}
  PROVE  /\ input' = NoInputs /\ delays' = {}
         /\ Before(todo') \/ Evaluating(todo)'
<1>1. PICK P \in Seq(Proper) : todo # <<>> /\ Puts(P) /\ todo' = P \o Rest
  BY StepPuts
<1>2. /\ Len(todo') = Len(P) + Len(todo) - 1 /\ Len(todo) >= 1
      /\ Len(P) \in Nat /\ Len(todo) \in Nat
      /\ \A n \in 1..Len(P) : todo'[n] = P[n]
      /\ \A n \in (Len(P) + 1)..Len(todo') : todo'[n] = todo[n - Len(P) + 1]
  BY <1>1, PutIs DEF Rest, Typed
<1>3. PICK k \in 1..Len(todo) :
        /\ todo[k].op = "prepare"
        /\ \A n \in 1..(k - 1) :
             todo[n].op \in {"lock", "extract", "clear", "fetch", "unlock"}
        /\ \A n \in (k + 1)..Len(todo) : todo[n].op \in {"timers", "cleanup"}
  BY DEF Before, Ending
<1>4. todo[1].op \in {"lock", "extract", "clear", "fetch", "unlock", "prepare"}
  <2>1. k = 1 \/ 1 \in 1..(k - 1)
    OBVIOUS
  <2>. QED
    BY <1>3, <2>1
<1>5. input' = NoInputs /\ delays' = {}
  BY <1>4 DEF Step, Lock, Unlock, ExtractCommand, ExtractTimer, ClearTimer,
     ExtractStorage, Fetched, Prepare, EvalSource, Gate, Delay, Act, Ask, SetInput, Answered,
     TimersDone, Cleanup, data, Next1
<1>6. CASE k = 1
  <2>1. ASSUME NEW n \in 1..Len(todo') PROVE todo'[n].op \in {"source", "timers", "cleanup"}
    <3>1. CASE n <= Len(P)
      <4>1. n \in 1..Len(P)
        BY <1>2, <3>1
      <4>2. P[n].op = "source"
        BY <1>1, <1>3, <1>6, <4>1, PutOps
      <4>. QED
        BY <1>2, <4>1, <4>2
    <3>2. CASE n > Len(P)
      <4>1. n \in (Len(P) + 1)..Len(todo') /\ n - Len(P) + 1 \in (k + 1)..Len(todo)
        BY <1>2, <1>6, <3>2
      <4>. QED
        BY <1>2, <1>3, <4>1
    <3>. QED
      BY <1>2, <3>1, <3>2
  <2>2. Evaluating(todo)'
    BY <2>1 DEF Evaluating, Evaluates
  <2>. QED
    BY <1>5, <2>2
<1>7. CASE k > 1
  <2>1. PICK j : j = Len(P) + k - 1
    OBVIOUS
  <2>2. /\ j \in 1..Len(todo') /\ j \in (Len(P) + 1)..Len(todo') /\ j - Len(P) + 1 = k
    BY <1>2, <1>7, <2>1
  <2>3. todo'[j].op = "prepare"
    BY <1>2, <1>3, <2>2
  <2>4. ASSUME NEW n \in 1..(j - 1)
        PROVE  todo'[n].op \in {"lock", "extract", "clear", "fetch", "unlock"}
    <3>1. todo[1].op \in {"lock", "extract", "clear", "fetch", "unlock"}
      BY <1>3, <1>7
    <3>2. CASE n <= Len(P)
      <4>1. n \in 1..Len(P)
        BY <1>2, <2>2, <3>2
      <4>2. P[n].op \in {"lock", "extract", "clear", "fetch", "unlock"}
        BY <1>1, <3>1, <4>1, PutOps
      <4>. QED
        BY <1>2, <4>1, <4>2
    <3>3. CASE n > Len(P)
      <4>1. n \in (Len(P) + 1)..Len(todo') /\ n - Len(P) + 1 \in 1..(k - 1)
        BY <1>2, <2>1, <2>2, <3>3
      <4>. QED
        BY <1>2, <1>3, <4>1
    <3>. QED
      BY <1>2, <2>2, <3>2, <3>3
  <2>5. ASSUME NEW n \in (j + 1)..Len(todo') PROVE todo'[n].op \in {"timers", "cleanup"}
    <3>1. n \in (Len(P) + 1)..Len(todo') /\ n - Len(P) + 1 \in (k + 1)..Len(todo)
      BY <1>2, <2>1, <2>2
    <3>. QED
      BY <1>2, <1>3, <3>1
  <2>6. Before(todo')
    BY <2>2, <2>3, <2>4, <2>5 DEF Before, Ending
  <2>. QED
    BY <1>5, <2>6
<1>. QED
  BY <1>6, <1>7

LEMMA EvaluationStep ==
  ASSUME ArgumentsAreGated, Typed, Step, Evaluating(todo), InputsFit(input)
  PROVE  Evaluating(todo)' /\ InputsFit(input)'
<1>1. todo # <<>> /\ prg' = prg /\ Evaluates(todo[1]) /\ Evaluating(Rest)
      /\ Rest \in Seq(Proper)
  BY StepPuts, EvaluatingRest
<1>2. PICK P \in Seq(Proper) : Evaluating(P) /\ todo' = P \o Rest
  BY EvaluationPuts
<1>3. Evaluating(todo')
  BY <1>1, <1>2, EvaluatingJoined
<1>4. ~Prepare
  BY <1>1 DEF Prepare, Next1, Evaluates
<1>5. \A s \in Sources : /\ source'[s].work = source[s].work
                         /\ source'[s].workTrig = source[s].workTrig
  BY <1>4, WorkStays DEF Next
<1>6. InputsFit(input')
  BY EvaluationSets
<1>. QED
  BY <1>1, <1>3, <1>5, <1>6, SameFits

LEMMA ActivationUnmixed ==
  ASSUME Typed, Timed, Unmixed, Activate, ~nested'
  PROVE  Unmixed'
<1>1. todo = <<>> /\ ~nested
  BY DEF Activate
<1>2. input = NoInputs /\ delays = {}
  BY <1>1 DEF Unmixed, Timed
<1>3. PICK u : u = <<Do("lock", 0), Do("prepare", 0), Do("timers", 0), Do("cleanup", 0)>>
  OBVIOUS
<1>4. /\ Len(u) = 4 /\ u[1].op = "lock" /\ u[2].op = "prepare"
      /\ u[3].op = "timers" /\ u[4].op = "cleanup"
  BY <1>3 DEF Do
<1>5. todo' = u
  <2>1. u \in Seq(Proper)
    BY <1>3, ActivationIs
  <2>. QED
    BY <1>1, <1>3, <2>1 DEF Activate
<1>6. input' = NoInputs' /\ delays' = {} /\ prg' = prg
  BY <1>2, StillTheProgram DEF Activate, data
<1>7. \A n \in 1..4 : n = 1 \/ n = 2 \/ n = 3 \/ n = 4
  OBVIOUS
<1>8. Alone(u)
  BY <1>4, <1>7 DEF Alone
<1>9. Before(u)
  <2>1. 2 \in 1..Len(u) /\ \A n \in 1..1 : n = 1
    BY <1>4
  <2>2. Ending(u, 3)
    BY <1>4, <1>7 DEF Ending
  <2>. QED
    BY <1>4, <2>1, <2>2 DEF Before
<1>10. u # <<>>
  BY <1>4
<1>. QED
  BY <1>5, <1>6, <1>8, <1>9, <1>10 DEF Unmixed, Alone, Before, Ending

LEMMA UnmixedStep ==
  ASSUME ArgumentsAreGated, Typed, Timed, Unmixed, Next
  PROVE  Unmixed'
<1>. SUFFICES ASSUME ~nested' PROVE Unmixed'
  BY DEF Unmixed
<1>1. /\ todo \in Seq(Proper) /\ Len(todo) \in Nat /\ prg' = prg
      /\ Blocks' = Blocks /\ NoInputs' = NoInputs
  BY ProgramStays DEF Typed
<1>2. CASE Activate
  BY <1>2, ActivationUnmixed
<1>3. CASE nested /\ ~Activate
  <2>1. Cleanup
    BY <1>3 DEF Next, Step, Lock, Unlock, ExtractCommand, ExtractTimer, ClearTimer, ExtractStorage,
       Fetched, Prepare, EvalSource, Gate, Delay, Act, Ask, SetInput, Answered, TimersDone,
       TimerActivates, TimerDue, CommandArrives, NewValue, Arrives, DelayFires, Answer, hist
  <2>2. todo' = <<>> /\ input' = NoInputs
    BY <1>3, <2>1 DEF Cleanup
  <2>3. Alone(todo)' /\ Evaluating(todo)'
    <3>1. Len(todo') = 0 /\ 1..0 = {}
      BY <2>2
    <3>. QED
      BY <3>1 DEF Alone, Evaluating
  <2>4. InputsFit(input)'
    BY <1>1, <2>2, NoInputsFit
  <2>. QED
    BY <1>1, <2>2, <2>3, <2>4 DEF Unmixed
<1>4. CASE ~nested /\ Step
  <2>1. Alone(todo) /\ Alone(todo')
    BY <1>4, AloneStep DEF Unmixed
  <2>2. todo' = <<>> => input' = NoInputs
    <3>1. ASSUME todo' = <<>> PROVE Cleanup
      <4>1. PICK P \in Seq(Proper) : todo # <<>> /\ Puts(P) /\ todo' = P \o Rest
        BY <1>4, StepPuts
      <4>2. Len(todo') = Len(P) + Len(todo) - 1 /\ Len(P) \in Nat /\ Len(todo) >= 1
        BY <1>1, <4>1, PutIs DEF Rest
      <4>3. Len(todo') = 0
        BY <3>1
      <4>4. Len(todo) = 1
        <5>1. PICK p \in Nat, q \in Nat : p = Len(P) /\ q = Len(todo)
          BY <1>1, <4>2
        <5>2. 0 = p + q - 1 /\ q >= 1
          BY <4>2, <4>3, <5>1
        <5>3. q = 1
          BY <5>2
        <5>. QED
          BY <5>1, <5>3
      <4>5. todo[1].op = "cleanup"
        BY <2>1, <4>1, <4>4 DEF Alone
      <4>. QED
        BY <1>4, <4>5 DEF Step, Lock, Unlock, ExtractCommand, ExtractTimer, ClearTimer,
           ExtractStorage, Fetched, Prepare, EvalSource, Gate, Delay, Act, Ask, SetInput,
           Answered, TimersDone, Next1
    <3>. QED
      BY <3>1 DEF Cleanup
  <2>3. CASE Before(todo) /\ input = NoInputs /\ delays = {}
    <3>1. /\ input' = NoInputs /\ delays' = {}
          /\ Before(todo') \/ Evaluating(todo)'
      BY <1>4, <2>3, BeforeStep
    <3>2. InputsFit(input)'
      BY <1>1, <3>1, NoInputsFit
    <3>. QED
      BY <1>1, <2>1, <2>2, <3>1, <3>2 DEF Unmixed, Alone, Before, Ending
  <2>4. CASE Evaluating(todo) /\ InputsFit(input)
    <3>1. Evaluating(todo)' /\ InputsFit(input)'
      BY <1>4, <2>4, EvaluationStep
    <3>. QED
      BY <1>1, <2>1, <2>2, <3>1 DEF Unmixed, Alone
  <2>. QED
    BY <1>4, <2>3, <2>4 DEF Unmixed
<1>5. CASE ~nested /\ \E b \in Blocks : DelayFires(b)
  <2>1. PICK b \in Blocks : DelayFires(b)
    BY <1>5
  <2>2. PICK O : O = Outputs(b, input[b][1])
    OBVIOUS
  <2>3. O \in Seq(Proper) /\ Sets(O) /\ todo' = O \o todo
    BY <2>1, <2>2, FiresIs
  <2>4. delays # {} /\ prg.kind[b] = "delay" /\ input' = input
    BY <2>1 DEF DelayFires, Timed
  <2>5. Alone(todo) /\ Evaluating(todo) /\ InputsFit(input)
    BY <1>5, <2>4 DEF Unmixed
  <2>6. prg \in Programs /\ input[b][1] \in Data
    BY DEF Typed, TypeOK
  <2>7. \A s \in Sources : ~GateOf(s, b)
    BY <2>4, <2>6, GatesAre DEF GateOf
  <2>8. Fits(b, 1, input[b][1])
    BY <2>5 DEF InputsFit
  <2>9. input[b][1] \in Vals => Worked(input[b][1])
    BY <2>7, <2>8 DEF Fits
  <2>10. Evaluating(O)
    BY <2>2, <2>4, <2>6, <2>9, OutputsEvaluate
  <2>11. Evaluating(todo')
    BY <1>1, <2>3, <2>5, <2>10, EvaluatingJoined
  <2>12. ~Prepare
    BY <2>1 DEF DelayFires, Prepare, Next1, Loop
  <2>13. Evaluating(todo)' /\ InputsFit(input)'
    BY <1>1, <2>4, <2>5, <2>11, <2>12, WorkStays, SameFits
  <2>14. /\ Len(O) \in Nat /\ Len(todo') = Len(O) + Len(todo)
         /\ \A n \in 1..Len(O) : todo'[n] = O[n]
         /\ \A n \in (Len(O) + 1)..(Len(O) + Len(todo)) : todo'[n] = todo[n - Len(O)]
    BY <1>1, <2>3, JoinedIs
  <2>15. todo # <<>> /\ Len(todo) >= 1
    <3>1. \E n \in 1..Len(todo) : todo[n].op = "timers"
      BY <2>4 DEF Timed
    <3>2. Len(todo) >= 1
      BY <1>1, <3>1
    <3>. QED
      BY <3>2
  <2>16. todo'[Len(todo')].op = "cleanup"
    <3>1. Len(todo') \in (Len(O) + 1)..(Len(O) + Len(todo)) /\ Len(todo') - Len(O) = Len(todo)
      BY <1>1, <2>14, <2>15
    <3>. QED
      BY <2>5, <2>14, <2>15, <3>1 DEF Alone
  <2>17. ASSUME NEW n \in 1..Len(todo'), todo'[n].op = "cleanup" PROVE n = Len(todo')
    <3>1. n \notin 1..Len(O)
      BY <2>3, <2>14, <2>17 DEF Sets
    <3>2. n \in (Len(O) + 1)..(Len(O) + Len(todo)) /\ n - Len(O) \in 1..Len(todo)
      BY <1>1, <2>14, <3>1
    <3>3. n - Len(O) = Len(todo)
      BY <2>5, <2>14, <2>17, <3>2 DEF Alone
    <3>. QED
      BY <2>14, <3>3
  <2>18. todo' # <<>>
    <3>1. Len(todo') # 0
      BY <1>1, <2>14, <2>15
    <3>. QED
      BY <3>1
  <2>. QED
    BY <2>13, <2>16, <2>17, <2>18 DEF Unmixed, Alone
<1>6. CASE ~nested /\ \E n \in 1..Len(todo) : Answer(n)
  <2>1. PICK n \in 1..Len(todo) : Answer(n)
    BY <1>6
  <2>2. /\ todo' \in Seq(Proper) /\ Len(todo') = Len(todo)
        /\ \A k \in 1..Len(todo) : /\ todo'[k].op = todo[k].op /\ todo'[k].b = todo[k].b
                                   /\ k # n => todo'[k] = todo[k]
        /\ todo[n].op \in {"fetch", "ask"}
        /\ todo[n].op = "ask" => todo'[n].v \in BOOLEAN
    BY <2>1, AnswerIs
  <2>3. input' = input /\ delays' = delays
    BY <2>1 DEF Answer, data
  <2>4. Len(todo) >= 1 /\ todo # <<>> /\ todo' # <<>>
    <3>1. Len(todo) >= 1 /\ Len(todo) # 0 /\ Len(todo') # 0
      BY <1>1, <2>2
    <3>. QED
      BY <3>1
  <2>5. Alone(todo')
    <3>1. Alone(todo) /\ Len(todo) \in 1..Len(todo)
      BY <1>1, <1>6, <2>4 DEF Unmixed
    <3>. QED
      BY <2>2, <2>4, <3>1 DEF Alone
  <2>6. CASE Before(todo) /\ input = NoInputs /\ delays = {}
    <3>1. PICK k \in 1..Len(todo) :
            /\ todo[k].op = "prepare"
            /\ \A j \in 1..(k - 1) :
                 todo[j].op \in {"lock", "extract", "clear", "fetch", "unlock"}
            /\ \A j \in (k + 1)..Len(todo) : todo[j].op \in {"timers", "cleanup"}
      BY <2>6 DEF Before, Ending
    <3>2. \A j \in 1..Len(todo) : todo'[j].op = todo[j].op
      BY <2>2
    <3>3. 1..(k - 1) \subseteq 1..Len(todo) /\ (k + 1)..Len(todo) \subseteq 1..Len(todo)
      BY <1>1
    <3>4. /\ k \in 1..Len(todo') /\ todo'[k].op = "prepare"
          /\ \A j \in 1..(k - 1) :
               todo'[j].op \in {"lock", "extract", "clear", "fetch", "unlock"}
          /\ \A j \in (k + 1)..Len(todo') : todo'[j].op \in {"timers", "cleanup"}
      BY <2>2, <3>1, <3>2, <3>3
    <3>5. Before(todo')
      BY <3>4 DEF Before, Ending
    <3>. QED
      BY <1>1, <2>3, <2>4, <2>5, <2>6, <3>5 DEF Unmixed, Alone, Before, Ending
  <2>7. CASE Evaluating(todo) /\ InputsFit(input)
    <3>1. ASSUME NEW k \in 1..Len(todo') PROVE Evaluates(todo'[k])
      <4>1. k \in 1..Len(todo) /\ Evaluates(todo[k])
        BY <2>2, <2>7 DEF Evaluating
      <4>2. CASE k = n
        <5>1. todo[n].op = "ask" /\ todo'[n].v \notin Vals
          BY <2>2, <4>1, <4>2, ConstantsAssumption DEF Evaluates
        <5>. QED
          BY <2>2, <4>1, <4>2, <5>1 DEF Evaluates
      <4>3. CASE k # n
        BY <2>2, <4>1, <4>3
      <4>. QED
        BY <4>2, <4>3
    <3>2. Evaluating(todo')
      BY <3>1 DEF Evaluating
    <3>3. ~Prepare
      BY <2>1 DEF Answer, Prepare, Next1, Loop
    <3>4. Evaluating(todo)' /\ InputsFit(input)'
      BY <1>1, <2>3, <2>7, <3>2, <3>3, WorkStays, SameFits
    <3>. QED
      BY <2>4, <2>5, <3>4 DEF Unmixed, Alone
  <2>. QED
    BY <1>6, <2>6, <2>7 DEF Unmixed
<1>7. CASE ~nested /\ todo' = todo /\ input' = input /\ delays' = delays /\ ~Prepare
  <2>1. Evaluating(todo) /\ InputsFit(input) => Evaluating(todo)' /\ InputsFit(input)'
    BY <1>1, <1>7, WorkStays, SameFits
  <2>. QED
    BY <1>1, <1>7, <2>1 DEF Unmixed, Alone, Before, Ending
<1>8. Next => \/ Step \/ Activate
              \/ \E b \in Blocks : DelayFires(b)
              \/ \E n \in 1..Len(todo) : Answer(n)
              \/ todo' = todo /\ input' = input /\ delays' = delays
  BY DEF Next, TimerActivates, TimerDue, CommandArrives, NewValue, Arrives, data
<1>. QED
  BY <1>2, <1>3, <1>4, <1>5, <1>6, <1>7, <1>8 DEF Step

LEMMA TypedInv == Init /\ [][Next]_vars => []Typed
<1>1. Typed /\ [Next]_vars => Typed'
  <2>1. ASSUME Typed, UNCHANGED vars PROVE Typed'
    BY <2>1, StillTheProgram
    DEF Typed, TypeOK, Counted, TimersTell, vars, data, hist
  <2>. QED
    BY <2>1, TypedStep
<1>. QED
  BY <1>1, TypedInit, PTL

(* In a program that waits for no answer, every command and every timer was *)
(* seen by an evaluation once nothing is left to do, whatever activations   *)
(* ran within one another.                                                  *)
THEOREM TriggersCorrect == Spec => []TriggersAreSeen
<1>1. Typed /\ Promptly /\ [Next]_vars => Promptly'
  <2>1. ASSUME Promptly, UNCHANGED vars PROVE Promptly'
    <3>1. /\ prg' = prg /\ todo' = todo /\ source' = source /\ queue' = queue
          /\ thread' = thread /\ owed' = owed
      BY <2>1 DEF vars, data, hist
    <3>2. Sources' = Sources /\ (Prompt' <=> Prompt)
      BY <3>1, StillTheProgram
    <3>. QED
      BY <2>1, <3>1, <3>2 DEF Promptly, Phased, Known, Held, HeldTimer, HeldCommand, Read,
             Next1, B, Preparing, Coming
  <2>. QED
    BY <2>1, PromptlyStep
<1>2. Typed /\ Promptly => TriggersAreSeen
  <2> SUFFICES ASSUME Typed, Promptly, Prompt, Idle, thread = 0 PROVE owed = {}
    BY DEF Typed, TriggersAreSeen
  <2>1. todo = <<>> /\ queue = 0 /\ owed \subseteq Sources /\ Sources \subseteq Nat \ {0}
    BY BlocksAre DEF Idle, Typed, TypeOK
  <2> SUFFICES ASSUME NEW s \in owed PROVE FALSE
    OBVIOUS
  <2>2. ~Coming(s) /\ ~Read(s) /\ ~Preparing /\ thread # s
    BY <2>1 DEF Coming, Read, Next1, Preparing
  <2>. QED
    BY <2>1, <2>2 DEF Promptly, Held, HeldTimer, HeldCommand
<1>. QED
  BY <1>1, <1>2, PromptlyInit, TypedInv, PTL DEF Spec

(* While nothing is active there is nothing to be mixed up. *)
LEMMA UnmixedInit == Init => Timed /\ Unmixed
<1>. SUFFICES ASSUME Init PROVE Timed /\ Unmixed
  OBVIOUS
<1>1. todo = <<>> /\ input = NoInputs /\ delays = {} /\ 1..Len(todo) = {}
  BY DEF Init
<1>2. InputsFit(input)
  BY <1>1, NoInputsFit
<1>. QED
  BY <1>1, <1>2 DEF Timed, Unmixed, Waiting, Alone, Evaluating

(* A command that is given comes from a command that came. *)
LEMMA GivenIsWorked ==
  ASSUME ArgumentsAreGated, Typed, Unmixed, ~nested,
         Next1("set"), prg.kind[B] = "act", todo[1].v \in Vals
  PROVE  Worked(todo[1].v)
<1>1. todo # <<>> /\ todo[1].op = "set" /\ B \in Blocks /\ prg \in Programs
      /\ todo \in Seq(Proper) /\ 1 \in 1..Len(todo)
  BY TypesAre DEF Next1, Typed
<1>2. ~Before(todo)
  <2>. SUFFICES ASSUME NEW k \in 1..Len(todo), todo[k].op = "prepare",
                       \A n \in 1..(k - 1) :
                         todo[n].op \in {"lock", "extract", "clear", "fetch", "unlock"}
                PROVE  FALSE
    BY DEF Before
  <2>1. k # 1
    BY <1>1
  <2>2. 1 \in 1..(k - 1)
    BY <2>1
  <2>. QED
    BY <1>1, <2>2
<1>3. Fits(B, todo[1].i, todo[1].v)
  BY <1>1, <1>2 DEF Unmixed, Evaluating, Evaluates, B
<1>4. ASSUME NEW s \in Sources PROVE ~GateOf(s, B)
  BY <1>1, GatesAre DEF GateOf
<1>. QED
  BY <1>3, <1>4 DEF Fits

(* A block that gives commands gives one only for data that a source has   *)
(* and, if the source is a command, only when that command was received    *)
(* for the evaluation that goes on: while no activation began within       *)
(* another, cleanupAfterEval leaves no argument to a later trigger.  For   *)
(* the programs that join an argument with its trigger in a gate.          *)
THEOREM CommandsCorrect ==
  ASSUME ArgumentsAreGated
  PROVE  Spec => CommandsAreFresh
<1>1. Typed /\ Timed /\ Unmixed /\ [Next]_vars => Timed' /\ Unmixed'
  <2>1. ASSUME Typed, Timed, Unmixed, UNCHANGED vars PROVE Timed' /\ Unmixed'
    <3>1. /\ prg' = prg /\ todo' = todo /\ source' = source /\ input' = input
          /\ delays' = delays /\ nested' = nested
      BY <2>1 DEF vars, data, hist
    <3>2. Sources' = Sources /\ Blocks' = Blocks /\ NoInputs' = NoInputs
      BY <3>1 DEF Sources, Blocks, NoInputs
    <3>. QED
      BY <2>1, <3>1, <3>2 DEF Timed, Waiting, Unmixed, Alone, Before, Ending, Evaluating,
         Evaluates, InputsFit, Fits, GateOf, Worked
  <2>. QED
    BY <2>1, TimedStep, UnmixedStep
<1>2. Typed /\ Unmixed /\ [Next]_vars =>
        [\A b \in Blocks :
           /\ Next1("set") /\ B = b /\ prg.kind[b] = "act" /\ todo[1].v \in Vals
           /\ ~nested
           => \E s \in Sources : /\ source[s].work = todo[1].v
                                 /\ prg.kind[s] = "command" => source[s].workTrig]_vars
  BY GivenIsWorked DEF Worked
<1>. QED
  BY <1>1, <1>2, UnmixedInit, TypedInv, PTL DEF Spec, CommandsAreFresh
================================================================================
