------------------------ MODULE LastNValuesStorageProofs ------------------------
(***************************************************************************)
(* Proofs about LastNValuesStorage, for every capacity and any number of   *)
(* writes, errors and stops of the program.                                *)
(***************************************************************************)
EXTENDS LastNValuesStorage, FiniteSetTheorems, TLAPS

(***************************************************************************)
(* The circular buffer.                                                    *)
(***************************************************************************)
LEMMA Capacity == N \in Nat /\ N > 0 /\ MaxWrites \in Nat
BY ConstantsAssumption

LEMMA Turn ==
  ASSUME NEW a \in Nat
  PROVE  /\ a < N => a % N = a
         /\ N <= a /\ a < 2 * N => a % N = a - N
         /\ a = 2 * N => a % N = 0
BY Capacity, Z3

LEMMA FollowingIs ==
  ASSUME NEW s \in Slots
  PROVE  Following(s) = IF s = N - 1 THEN 0 ELSE s + 1
BY Capacity, Turn DEF Slots, Following

LEMMA FollowingType == \A s \in Slots : Following(s) \in Slots
BY Capacity, FollowingIs DEF Slots

(* The block of the k-th oldest value; turning the buffer by one moves     *)
(* every value one place forward and makes the oldest block the newest.    *)
LEMMA Place ==
  ASSUME NEW s \in Slots, NEW k \in 1..N
  PROVE  /\ (s + k - 1) % N \in Slots
         /\ (s + k - 1) % N = IF s + k - 1 < N THEN s + k - 1 ELSE s + k - 1 - N
<1>. s + k - 1 \in Nat /\ s + k - 1 < 2 * N
  BY Capacity DEF Slots
<1>. QED
  BY Capacity, Turn DEF Slots

LEMMA Rotate ==
  ASSUME NEW s \in Slots
  PROVE  /\ \A k \in 1..(N - 1) : /\ (Following(s) + k - 1) % N = (s + (k + 1) - 1) % N
                                  /\ (Following(s) + k - 1) % N # s
         /\ (Following(s) + N - 1) % N = s
         /\ s % N = s
         /\ \A k \in 1..N : k > 1 => (s + k - 1) % N # s
<1>1. ASSUME NEW k \in 1..(N - 1)
      PROVE  /\ (Following(s) + k - 1) % N = (s + (k + 1) - 1) % N
             /\ (Following(s) + k - 1) % N # s
  <2>. /\ Following(s) \in Slots
       /\ k \in 1..N /\ k + 1 \in 1..N
    BY Capacity, FollowingType
  <2>1. (Following(s) + k - 1) % N = IF Following(s) + k - 1 < N THEN Following(s) + k - 1
                                     ELSE Following(s) + k - 1 - N
    BY Place
  <2>2. (s + (k + 1) - 1) % N = IF s + (k + 1) - 1 < N THEN s + (k + 1) - 1
                                ELSE s + (k + 1) - 1 - N
    BY Place
  <2>. QED
    BY <2>1, <2>2, Capacity, FollowingIs DEF Slots
<1>2. (Following(s) + N - 1) % N = s
  <2>1. (Following(s) + N - 1) % N = IF Following(s) + N - 1 < N THEN Following(s) + N - 1
                                     ELSE Following(s) + N - 1 - N
    BY Capacity, FollowingType, Place
  <2>. QED
    BY <2>1, Capacity, FollowingIs DEF Slots
<1>3. s % N = s
  BY Capacity, Turn DEF Slots
<1>4. \A k \in 1..N : k > 1 => (s + k - 1) % N # s
  BY Capacity, Place DEF Slots
<1>. QED
  BY <1>1, <1>2, <1>3, <1>4

LEMMA BlockOfType ==
  ASSUME TypeOK, NEW s \in Slots, NEW k \in 1..N
  PROVE  BlockOf(s, k) \in Values \cup {NoData}
BY Place DEF BlockOf, TypeOK

LEMMA PresentType == Cardinality(Present) \in Nat
<1>1. IsFiniteSet(Slots)
  BY Capacity, FS_Interval DEF Slots
<1>2. IsFiniteSet(Present)
  BY <1>1, FS_Subset DEF Present
<1>. QED
  BY <1>2, FS_CardinalityType
-----------------------------------------------------------------------------
(***************************************************************************)
(* The inductive invariant.  Steps: which steps of a write and of create   *)
(* there are.  Matches: from the k-th value on, memory agrees with the     *)
(* files.  Turned: how far the copy in memory has turned at every step, as *)
(* long as no operation has failed.                                        *)
(***************************************************************************)
Steps ==
  /\ at.step = "idle" => at = Idle
  /\ at.step = "create" => ~ram.opened
  /\ at.step \notin {"idle", "create"} => ram.opened
  /\ at.step = "data" \/ at.fill > 0 => dbType = "files"
  /\ at.step = "blocks" => dbType = "fixed"
  /\ at.step # "idle" /\ dbType = "fixed" => at.step \in {"create", "blocks"} \/ at.v # 0

Matches(start, written) ==
  \A k \in 1..N : k > written => ram.values[k] = BlockOf(start, k)

Opened == IF dbType = "fixed" THEN 0 ELSE IF at.fill = 0 THEN 1 ELSE at.fill

Turned ==
  ram.opened /\ ~failed =>
    /\ at.step = "idle" => index = ram.startIndex /\ Matches(index, 0)
    /\ at.step = "blocks" =>
         /\ index = 0 /\ ram.startIndex = 0
         /\ \A k \in 1..N : ram.values[k] = 0
    /\ at.step = "data" =>
         /\ index = at.slot /\ ram.startIndex = at.slot
         /\ Matches(at.slot, at.fill)
    /\ at.step = "index" =>
         /\ index = at.slot /\ ram.startIndex = at.slot
         /\ Matches(at.slot, Opened)
    /\ at.step = "write index" =>
         /\ ram.startIndex = at.slot
         /\ Matches(at.slot, Opened)
    /\ at.step = "write data" =>
         /\ index = Following(at.slot)
         /\ ram.startIndex = IF dbType = "files" THEN index ELSE at.slot
         /\ Matches(at.slot, Opened)
-----------------------------------------------------------------------------
(***************************************************************************)
(* Type correctness.                                                       *)
(***************************************************************************)
AtSteps == {"idle", "create", "blocks", "data", "index", "write index", "write data"}
AtType == [step : AtSteps, slot : Slots, v : Values, fill : 0..N]
ValueLists == [1..N -> Values \cup {NoData}]
RamType == [opened : BOOLEAN, startIndex : Slots, total : Nat,
            values : ValueLists \cup {<<>>}]

LEMMA TypeParts ==
  TypeOK <=> /\ dbType \in {"files", "fixed"}
             /\ index \in Slots \cup {Absent, Empty}
             /\ block \in [Slots -> Values \cup {NoData}]
             /\ sound \in BOOLEAN
             /\ flushed \in BOOLEAN
             /\ ram \in RamType
             /\ ram.opened => ram.values \in ValueLists
             /\ at \in AtType
             /\ begun \in 0..MaxWrites
             /\ stored \in SUBSET (1..MaxWrites)
             /\ failed \in BOOLEAN
BY DEF TypeOK, AtSteps, AtType, RamType, ValueLists

LEMMA Zeros == 0 \in Slots /\ 0 \in Values /\ 0 \in 0..N /\ N \in 0..N
BY Capacity DEF Slots, Values

LEMMA IdleType == Idle \in AtType
BY Zeros DEF Idle, AtType, AtSteps

LEMMA ClosedType == Closed \in RamType /\ ~Closed.opened
BY Zeros DEF Closed, RamType

LEMMA StartType ==
  ASSUME NEW v \in Values, NEW slot \in Slots, NEW fill \in 0..N
  PROVE  Start(v, slot, fill) \in AtType
BY DEF Start, AtType, AtSteps

LEMMA Written == \A v \in Values : v # 0 => v \in 1..MaxWrites
BY Capacity DEF Values

LEMMA ShiftType ==
  ASSUME NEW values \in ValueLists, NEW v \in Values
  PROVE  /\ Shift(values, v) \in ValueLists
         /\ Shift(values, v) = [k \in 1..N |-> IF k < N THEN values[k + 1] ELSE v]
<1>1. \A k \in 1..N : (IF k < N THEN values[k + 1] ELSE v) \in Values \cup {NoData}
  BY Capacity DEF ValueLists
<1>. QED
  BY <1>1 DEF Shift, ValueLists

LEMMA TypeInit == Init => TypeOK
<1>. SUFFICES ASSUME Init PROVE TypeOK
  OBVIOUS
<1>1. ram \in RamType /\ ~ram.opened /\ at \in AtType
  BY ClosedType, IdleType DEF Init
<1>2. /\ sound \in BOOLEAN
      /\ begun \in 0..MaxWrites
      /\ index \in Slots \cup {Absent, Empty}
      /\ block \in [Slots -> Values \cup {NoData}]
  BY Capacity DEF Init
<1>3. /\ dbType \in {"files", "fixed"}
      /\ flushed \in BOOLEAN /\ failed \in BOOLEAN
      /\ stored \in SUBSET (1..MaxWrites)
  BY DEF Init
<1>. QED
  BY <1>1, <1>2, <1>3, TypeParts

LEMMA TypeStep == TypeOK /\ Steps /\ [Next]_vars => TypeOK'
<1>. SUFFICES ASSUME TypeOK, Steps, [Next]_vars
              PROVE  TypeOK'
  OBVIOUS
<1>. DEFINE Goal ==
             /\ dbType' \in {"files", "fixed"}
             /\ index' \in Slots \cup {Absent, Empty}
             /\ block' \in [Slots -> Values \cup {NoData}]
             /\ sound' \in BOOLEAN
             /\ flushed' \in BOOLEAN
             /\ ram' \in RamType
             /\ ram'.opened => ram'.values \in ValueLists
             /\ at' \in AtType
             /\ begun' \in 0..MaxWrites
             /\ stored' \in SUBSET (1..MaxWrites)
             /\ failed' \in BOOLEAN
<1>g. SUFFICES Goal
  BY DEF TypeOK, AtSteps, AtType, RamType, ValueLists
<1>t. /\ dbType \in {"files", "fixed"}
      /\ index \in Slots \cup {Absent, Empty}
      /\ block \in [Slots -> Values \cup {NoData}]
      /\ sound \in BOOLEAN
      /\ flushed \in BOOLEAN
      /\ ram \in RamType
      /\ ram.opened => ram.values \in ValueLists
      /\ at \in AtType
      /\ begun \in 0..MaxWrites
      /\ stored \in SUBSET (1..MaxWrites)
      /\ failed \in BOOLEAN
  BY TypeParts
<1>f. /\ at.step \in AtSteps /\ at.slot \in Slots /\ at.v \in Values /\ at.fill \in 0..N
      /\ ram.opened \in BOOLEAN /\ ram.startIndex \in Slots /\ ram.total \in Nat
  BY <1>t DEF AtType, RamType
<1>1. CASE Create
  <2>1. at' \in AtType
    BY <1>1, IdleType DEF Create, AtType, AtSteps
  <2>. QED
    BY <1>1, <1>t, <2>1 DEF Create
<1>2. CASE CreateBuffer
  <2>1. at' \in AtType
    <3>1. [Idle EXCEPT !.step = "blocks"] \in AtType
      BY IdleType DEF AtType, AtSteps
    <3>. QED
      BY <1>2, <3>1, StartType, Zeros DEF CreateBuffer
  <2>2. ram' \in RamType /\ ram'.values \in ValueLists
    <3>1. [k \in 1..N |-> 0] \in ValueLists
      BY Zeros DEF ValueLists
    <3>. QED
      BY <1>2, <3>1, Zeros DEF CreateBuffer, RamType
  <2>. QED
    BY <1>2, <1>t, <2>1, <2>2, Zeros DEF CreateBuffer
<1>3. CASE CreateBlocks
  <2>1. ram' \in RamType /\ (ram'.opened => ram'.values \in ValueLists)
    BY <1>3, <1>t, Capacity DEF CreateBlocks, RamType
  <2>2. block' \in [Slots -> Values \cup {NoData}]
    BY <1>3, Zeros DEF CreateBlocks
  <2>. QED
    BY <1>3, <1>t, <2>1, <2>2, IdleType DEF CreateBlocks
<1>4. CASE Write
  <2>1. begun + 1 \in Values /\ begun' \in 0..MaxWrites
    BY <1>4, <1>t, Capacity DEF Write, Values
  <2>2. at' \in AtType
    BY <1>4, <1>f, <2>1, StartType, Zeros DEF Write
  <2>. QED
    BY <1>4, <1>t, <2>1, <2>2 DEF Write
<1>5. CASE OpenDataFile
  <2>1. at' \in AtType /\ block' \in [Slots -> Values \cup {NoData}]
    BY <1>5, <1>t DEF OpenDataFile, AtType, AtSteps
  <2>. QED
    BY <1>5, <1>t, <2>1 DEF OpenDataFile
<1>6. CASE OpenFails
  BY <1>6, <1>t, IdleType DEF OpenFails
<1>7. CASE OpenIndexFile
  <2>1. at' \in AtType
    BY <1>7, <1>t DEF OpenIndexFile, AtType, AtSteps
  <2>. QED
    BY <1>7, <1>t, <2>1 DEF OpenIndexFile
<1>8. CASE WriteIndex
  <2>1. Following(at.slot) \in Slots
    BY <1>f, FollowingType
  <2>2. at' \in AtType
    BY <1>8, <1>t DEF WriteIndex, AtType, AtSteps
  <2>3. ram' \in RamType /\ (ram'.opened => ram'.values \in ValueLists)
    BY <1>8, <1>t, <2>1 DEF WriteIndex, RamType
  <2>4. index' \in Slots \cup {Absent, Empty} /\ failed' \in BOOLEAN
    BY <1>8, <1>t, <2>1 DEF WriteIndex
  <2>. QED
    BY <1>8, <1>t, <2>2, <2>3, <2>4 DEF WriteIndex
<1>9. CASE WriteDataFile
  <2>1. ram.values \in ValueLists
    BY <1>9, <1>t DEF WriteDataFile, Steps
  <2>2. ram' \in RamType /\ (ram'.opened => ram'.values \in ValueLists)
    BY <1>9, <1>t, <1>f, <2>1, ShiftType DEF WriteDataFile, RamType
  <2>3. at' \in AtType
    <3>1. at.fill > 1 => at.fill - 1 \in 0..N
      BY <1>f, Capacity
    <3>. QED
      BY <1>9, <1>f, <3>1, StartType, IdleType, Zeros DEF WriteDataFile, Return
  <2>4. block' \in [Slots -> Values \cup {NoData}] /\ failed' \in BOOLEAN
    BY <1>9, <1>t, <1>f DEF WriteDataFile
  <2>5. stored' \in SUBSET (1..MaxWrites)
    <3>1. stored' \in {stored, stored \cup {at.v}} /\ (at.v = 0 => stored' = stored)
      BY <1>9 DEF WriteDataFile
    <3>. QED
      BY <1>t, <1>f, <3>1, Written
  <2>. QED
    BY <1>9, <1>t, <2>2, <2>3, <2>4, <2>5 DEF WriteDataFile
<1>10. CASE UpdateBlock
  <2>1. ram.values \in ValueLists /\ at.v # 0 /\ Following(at.slot) \in Slots
    BY <1>10, <1>t, <1>f, FollowingType DEF UpdateBlock, Steps
  <2>2. ram' \in RamType /\ (ram'.opened => ram'.values \in ValueLists)
    <3>1. Shift(ram.values, at.v) \in ValueLists /\ ram.total + 1 \in Nat
      BY <1>f, <2>1, ShiftType
    <3>2. LET r == [ram EXCEPT !.startIndex = Following(at.slot),
                              !.values = Shift(ram.values, at.v),
                              !.total = ram.total + 1]
          IN  r \in RamType /\ r.values \in ValueLists
      BY <1>t, <2>1, <3>1 DEF RamType
    <3>3. LET r == [ram EXCEPT !.startIndex = Following(at.slot)]
          IN  r \in RamType /\ r.values \in ValueLists
      BY <1>t, <2>1 DEF RamType
    <3>. QED
      BY <1>10, <3>2, <3>3 DEF UpdateBlock
  <2>3. /\ block' \in [Slots -> Values \cup {NoData}]
        /\ failed' \in BOOLEAN /\ flushed' \in BOOLEAN
    BY <1>10, <1>t, <1>f DEF UpdateBlock
  <2>4. stored' \in SUBSET (1..MaxWrites)
    <3>1. stored' \in {stored, stored \cup {at.v}}
      BY <1>10 DEF UpdateBlock
    <3>. QED
      BY <1>t, <1>f, <2>1, <3>1, Written
  <2>. QED
    BY <1>10, <1>t, <2>2, <2>3, <2>4, IdleType DEF UpdateBlock
<1>11. CASE Open
  <2>1. index \in Slots
    BY <1>11, <1>t, ConstantsAssumption DEF Open
  <2>2. Reads(index) \in ValueLists
    BY <2>1, BlockOfType DEF Reads, ValueLists
  <2>3. ram' \in RamType /\ (ram'.opened => ram'.values \in ValueLists)
    BY <1>11, <2>1, <2>2, PresentType DEF Open, RamType
  <2>. QED
    BY <1>11, <1>t, <2>3 DEF Open
<1>12. CASE Close
  BY <1>12, <1>t, ClosedType DEF Close
<1>13. CASE Crash
  <2>1. block' \in [Slots -> Values \cup {NoData}] /\ sound' \in BOOLEAN
    BY <1>13, <1>t DEF Crash
  <2>. QED
    BY <1>13, <1>t, <2>1, ClosedType, IdleType DEF Crash
<1>14. CASE UNCHANGED vars
  BY <1>14, <1>t DEF vars
<1>. QED
  BY <1>1, <1>2, <1>3, <1>4, <1>5, <1>6, <1>7, <1>8, <1>9, <1>10, <1>11, <1>12,
     <1>13, <1>14 DEF Next
-----------------------------------------------------------------------------
(***************************************************************************)
(* The steps of a write and of create.                                     *)
(***************************************************************************)
LEMMA StepsInit == Init => Steps
BY DEF Init, Steps, Idle, Closed

LEMMA StepsStep == TypeOK /\ Steps /\ [Next]_vars => Steps'
<1>. SUFFICES ASSUME TypeOK, Steps, [Next]_vars
              PROVE  Steps'
  OBVIOUS
<1>t. /\ dbType \in {"files", "fixed"}
      /\ at \in AtType /\ at.step \in AtSteps
      /\ at.slot \in Slots /\ at.v \in Values /\ at.fill \in 0..N
      /\ ram \in RamType /\ begun \in 0..MaxWrites
  BY TypeParts DEF AtType
<1>i. Idle.step = "idle" /\ Idle.fill = 0
  BY DEF Idle
<1>s. ASSUME NEW v, NEW slot, NEW fill
      PROVE  /\ Start(v, slot, fill).step = IF dbType = "files" THEN "data" ELSE "index"
             /\ Start(v, slot, fill).v = v
             /\ Start(v, slot, fill).slot = slot
             /\ Start(v, slot, fill).fill = fill
  BY DEF Start
<1>1. CASE Create
  <2>1. at'.step = "create" /\ at'.fill = 0 /\ ~ram.opened
    BY <1>1, <1>i, <1>t DEF Create, Idle
  <2>. QED
    BY <1>1, <2>1 DEF Create, Steps
<1>2. CASE CreateBuffer
  <2>1. /\ ram'.opened
        /\ \/ dbType = "fixed" /\ at'.step = "blocks" /\ at'.fill = 0
           \/ dbType = "files" /\ at'.step = "data"
    BY <1>2, <1>t, <1>s DEF CreateBuffer, Idle
  <2>. QED
    BY <1>2, <2>1 DEF CreateBuffer, Steps
<1>3. CASE CreateBlocks
  BY <1>3, <1>i DEF CreateBlocks, Steps
<1>4. CASE Write
  <2>1. /\ at'.step = IF dbType = "files" THEN "data" ELSE "index"
        /\ at'.fill = 0 /\ at'.v # 0
    <3>1. begun + 1 # 0
      BY <1>t, Capacity
    <3>. QED
      BY <1>4, <1>s, <3>1 DEF Write
  <2>. QED
    BY <1>4, <1>t, <2>1 DEF Write, Steps
<1>5. CASE OpenDataFile
  <2>1. at'.step = "index" /\ at'.fill = at.fill /\ at'.v = at.v
    BY <1>5, <1>t DEF OpenDataFile, AtType
  <2>. QED
    BY <1>5, <1>t, <2>1 DEF OpenDataFile, Steps
<1>6. CASE OpenFails
  BY <1>6, <1>i DEF OpenFails, Steps
<1>7. CASE OpenIndexFile
  <2>1. at'.step = "write index" /\ at'.fill = at.fill /\ at'.v = at.v
    BY <1>7, <1>t DEF OpenIndexFile, AtType
  <2>. QED
    BY <1>7, <1>t, <2>1 DEF OpenIndexFile, Steps
<1>8. CASE WriteIndex
  <2>1. at'.step = "write data" /\ at'.fill = at.fill /\ at'.v = at.v
    BY <1>8, <1>t DEF WriteIndex, AtType
  <2>2. ram'.opened = ram.opened
    BY <1>8, <1>t DEF WriteIndex, RamType
  <2>. QED
    BY <1>8, <1>t, <2>1, <2>2 DEF WriteIndex, Steps
<1>9. CASE WriteDataFile
  <2>1. ram'.opened /\ dbType = "files"
    BY <1>9, <1>t DEF WriteDataFile, Steps, RamType
  <2>2. at' = Idle \/ at'.step = "data"
    <3>1. Start(0, ram.startIndex, at.fill - 1).step = "data"
      BY <1>s, <2>1
    <3>. QED
      BY <1>9, <3>1 DEF WriteDataFile, Return
  <2>. QED
    BY <1>9, <1>i, <2>1, <2>2 DEF WriteDataFile, Steps
<1>10. CASE UpdateBlock
  <2>1. at' = Idle
    BY <1>10 DEF UpdateBlock
  <2>. QED
    BY <2>1, <1>i DEF Steps
<1>11. CASE Open
  BY <1>11, <1>i DEF Open, Steps
<1>12. CASE Close
  BY <1>12, <1>i DEF Close, Steps
<1>13. CASE Crash
  BY <1>13, <1>i DEF Crash, Steps
<1>14. CASE UNCHANGED vars
  BY <1>14 DEF vars, Steps
<1>. QED
  BY <1>1, <1>2, <1>3, <1>4, <1>5, <1>6, <1>7, <1>8, <1>9, <1>10, <1>11, <1>12,
     <1>13, <1>14 DEF Next

(* The files, the object and the history keep their types: db.index never  *)
(* leaves 0..N-1, whatever fails and wherever the program stops.           *)
THEOREM TypeCorrect == Spec => []TypeOK
<1>. Spec => [](TypeOK /\ Steps)
  BY TypeInit, StepsInit, TypeStep, StepsStep, PTL DEF Spec
<1>. QED
  BY PTL
-----------------------------------------------------------------------------
(***************************************************************************)
(* Memory and files turn together.                                         *)
(***************************************************************************)
LEMMA TurnedInit == Init => Turned
BY ClosedType DEF Init, Turned

LEMMA TurnedStep == TypeOK /\ Steps /\ Turned /\ [Next]_vars => Turned'
<1>. SUFFICES ASSUME TypeOK, Steps, Turned, [Next]_vars, ram'.opened, ~failed'
              PROVE  Turned'
  BY DEF Turned
<1>t. /\ dbType \in {"files", "fixed"}
      /\ at \in AtType /\ at.step \in AtSteps
      /\ at.slot \in Slots /\ at.v \in Values /\ at.fill \in 0..N
      /\ ram \in RamType
      /\ ram.opened => ram.values \in ValueLists
      /\ index \in Slots \cup {Absent, Empty}
      /\ block \in [Slots -> Values \cup {NoData}]
  BY TypeParts DEF AtType
<1>b. failed' # TRUE /\ (failed' = failed => ~failed)
  <2>1. failed' # TRUE
    OBVIOUS
  <2>2. failed' = failed => ~failed
    OBVIOUS
  <2>. QED
    BY <2>1, <2>2
<1>i. Idle.step = "idle" /\ Idle.fill = 0
  BY DEF Idle
<1>s. ASSUME NEW v, NEW slot, NEW fill
      PROVE  /\ Start(v, slot, fill).step = IF dbType = "files" THEN "data" ELSE "index"
             /\ Start(v, slot, fill).slot = slot
             /\ Start(v, slot, fill).fill = fill
  BY DEF Start
<1>1. CASE Create
  BY <1>1 DEF Create
<1>2. CASE CreateBuffer
  <2>1. /\ index' = 0 /\ ram'.startIndex = 0
        /\ \A k \in 1..N : ram'.values[k] = 0
    BY <1>2 DEF CreateBuffer
  <2>2. \/ at'.step = "blocks"
        \/ at'.step = "data" /\ at'.slot = 0 /\ at'.fill = N
    <3>1. [Idle EXCEPT !.step = "blocks"].step = "blocks"
      BY DEF Idle
    <3>. QED
      BY <1>2, <1>t, <1>s, <3>1 DEF CreateBuffer
  <2>3. \A k \in 1..N : ~(k > N)
    BY Capacity
  <2>. QED
    BY <2>1, <2>2, <2>3 DEF Turned, Matches
<1>3. CASE CreateBlocks
  <2>1. /\ index = 0 /\ ram.startIndex = 0 /\ index' = 0
        /\ \A k \in 1..N : ram.values[k] = 0
    BY <1>3 DEF CreateBlocks, Turned, Steps
  <2>2. ram'.startIndex = 0 /\ ram'.values = ram.values
    BY <1>3, <1>t, <2>1 DEF CreateBlocks, RamType
  <2>3. \A k \in 1..N : block'[(0 + k - 1) % N] = 0
    BY <1>3, Place, Zeros DEF CreateBlocks
  <2>4. at'.step = "idle"
    BY <1>3, <1>i DEF CreateBlocks
  <2>. QED
    BY <2>1, <2>2, <2>3, <2>4 DEF Turned, Matches, BlockOf
<1>4. CASE Write
  <2>1. index = ram.startIndex /\ Matches(index, 0)
    BY <1>4, <1>i DEF Write, Turned
  <2>2. /\ at'.step = IF dbType = "files" THEN "data" ELSE "index"
        /\ at'.slot = ram.startIndex /\ at'.fill = 0
    BY <1>4, <1>s DEF Write
  <2>3. dbType' = dbType /\ index' = index /\ block' = block /\ ram' = ram
    BY <1>4 DEF Write
  <2>4. \A k \in 1..N : ram'.values[k] = block'[(at'.slot + k - 1) % N]
    <3>1. \A k \in 1..N : k > 0
      BY Capacity
    <3>. QED
      BY <2>1, <2>2, <2>3, <3>1 DEF Matches, BlockOf
  <2>. QED
    BY <2>1, <2>2, <2>3, <2>4 DEF Turned, Matches, BlockOf
<1>5. CASE OpenDataFile
  <2>1. /\ dbType = "files" /\ ram.opened
        /\ index = at.slot /\ ram.startIndex = at.slot /\ Matches(at.slot, at.fill)
    BY <1>5 DEF OpenDataFile, Turned, Steps
  <2>2. at'.step = "index" /\ at'.slot = at.slot /\ at'.fill = at.fill
    BY <1>5, <1>t DEF OpenDataFile, AtType
  <2>3. dbType' = dbType /\ index' = index /\ ram' = ram
    BY <1>5 DEF OpenDataFile
  <2>4. ASSUME NEW k \in 1..N, k > 1
        PROVE  block'[(at.slot + k - 1) % N] = block[(at.slot + k - 1) % N]
    BY <1>5, <1>t, <2>4, Place, Rotate DEF OpenDataFile
  <2>5. Opened' >= at.fill /\ Opened' >= 1
    BY <1>t, <2>1, <2>2, <2>3, Capacity DEF Opened
  <2>6. ASSUME NEW k \in 1..N, k > Opened'
        PROVE  ram'.values[k] = block'[(at'.slot + k - 1) % N]
    <3>1. k > 1 /\ k > at.fill
      <4>. Opened' \in Nat
        BY <1>t, <2>2, Capacity DEF Opened
      <4>. QED
        BY <1>t, <2>5, <2>6, Capacity
    <3>. QED
      BY <2>1, <2>2, <2>3, <2>4, <3>1 DEF Matches, BlockOf
  <2>. QED
    BY <2>1, <2>2, <2>3, <2>6 DEF Turned, Matches, BlockOf
<1>6. CASE OpenFails
  BY <1>6 DEF OpenFails
<1>7. CASE OpenIndexFile
  <2>1. at'.step = "write index" /\ at'.slot = at.slot /\ at'.fill = at.fill
    BY <1>7, <1>t DEF OpenIndexFile, AtType
  <2>2. /\ dbType' = dbType /\ block' = block /\ ram' = ram
        /\ ram.startIndex = at.slot /\ Matches(at.slot, Opened)
    BY <1>7 DEF OpenIndexFile, Turned
  <2>. QED
    BY <2>1, <2>2 DEF Turned, Matches, BlockOf, Opened
<1>8. CASE WriteIndex
  <2>1. at'.step = "write data" /\ at'.slot = at.slot /\ at'.fill = at.fill
    BY <1>8, <1>t DEF WriteIndex, AtType
  <2>2. /\ dbType' = dbType /\ block' = block /\ index' = Following(at.slot)
        /\ ram'.values = ram.values
        /\ ram'.startIndex = IF dbType = "files" THEN Following(at.slot) ELSE ram.startIndex
    BY <1>8, <1>t DEF WriteIndex, RamType
  <2>3. ram.startIndex = at.slot /\ Matches(at.slot, Opened)
    <3>1. ram.opened /\ ~failed
      <4>1. ~failed
        BY <1>8, <1>b DEF WriteIndex
      <4>. QED
        BY <1>8, <4>1 DEF WriteIndex, Steps
    <3>. QED
      BY <1>8, <3>1 DEF WriteIndex, Turned
  <2>4. Following(at.slot)' = Following(at.slot)
    BY <2>1 DEF Following
  <2>. QED
    BY <2>1, <2>2, <2>3, <2>4 DEF Turned, Matches, BlockOf, Opened
<1>9. CASE WriteDataFile
  <2>1. /\ dbType = "files" /\ ram.opened /\ ~failed
        /\ index = Following(at.slot) /\ ram.startIndex = index
        /\ Matches(at.slot, Opened)
    <3>1. ~failed
      BY <1>9, <1>b DEF WriteDataFile
    <3>. QED
      BY <1>9, <3>1 DEF WriteDataFile, Turned, Steps
  <2>2. /\ dbType' = dbType /\ index' = index
        /\ block' = [block EXCEPT ![at.slot] = at.v]
    BY <1>9 DEF WriteDataFile
  <2>3. /\ ram'.startIndex = index
        /\ ram'.values = [k \in 1..N |-> IF k < N THEN ram.values[k + 1] ELSE at.v]
    BY <1>9, <1>t, <2>1, ShiftType DEF WriteDataFile, RamType
  <2>4. IF at.fill > 1
          THEN at'.step = "data" /\ at'.slot = index /\ at'.fill = at.fill - 1
          ELSE at'.step = "idle"
    <3>1. LET r == Start(0, ram.startIndex, at.fill - 1)
          IN  r.step = "data" /\ r.slot = index /\ r.fill = at.fill - 1
      BY <1>s, <2>1
    <3>2. at' = IF at.fill > 1 THEN Start(0, ram.startIndex, at.fill - 1) ELSE Idle
      BY <1>9 DEF WriteDataFile, Return
    <3>. QED
      BY <1>i, <3>1, <3>2
  <2>5. ASSUME NEW k \in 1..N, k + 1 > at.fill
        PROVE  ram'.values[k] = block'[(index + k - 1) % N]
    <3>1. CASE k = N
      BY <1>t, <2>1, <2>2, <2>3, <3>1, Rotate
    <3>2. CASE k # N
      <4>. k \in 1..(N - 1) /\ k + 1 \in 1..N /\ k < N
        BY <3>2, Capacity
      <4>1. k + 1 > Opened
        BY <1>t, <2>1, <2>5, Capacity DEF Opened
      <4>2. ram.values[k + 1] = block[(at.slot + (k + 1) - 1) % N]
        BY <2>1, <4>1 DEF Matches, BlockOf
      <4>3. /\ (index + k - 1) % N = (at.slot + (k + 1) - 1) % N
            /\ (index + k - 1) % N # at.slot
        BY <1>t, <2>1, Rotate
      <4>4. (index + k - 1) % N \in Slots
        BY <1>t, <2>1, FollowingType, Place
      <4>. QED
        BY <1>t, <2>2, <2>3, <4>2, <4>3, <4>4
    <3>. QED
      BY <3>1, <3>2
  <2>6. CASE at.fill > 1
    <3>1. \A k \in 1..N : k > at.fill - 1 => k + 1 > at.fill
      BY <1>t, Capacity
    <3>. QED
      BY <2>1, <2>2, <2>3, <2>4, <2>5, <2>6, <3>1 DEF Turned, Matches, BlockOf
  <2>7. CASE ~(at.fill > 1)
    <3>1. \A k \in 1..N : k + 1 > at.fill
      BY <1>t, <2>7, Capacity
    <3>. QED
      BY <2>1, <2>2, <2>3, <2>4, <2>5, <2>7, <3>1 DEF Turned, Matches, BlockOf
  <2>. QED
    BY <2>6, <2>7
<1>10. CASE UpdateBlock
  <2>1. /\ dbType = "fixed" /\ ram.opened /\ ~failed
        /\ index = Following(at.slot) /\ Matches(at.slot, 0)
    <3>1. ~failed
      BY <1>10, <1>b DEF UpdateBlock
    <3>. QED
      BY <1>10, <3>1 DEF UpdateBlock, Turned, Steps, Opened
  <2>2. index' = index /\ at' = Idle /\ block' = [block EXCEPT ![at.slot] = at.v]
    BY <1>10 DEF UpdateBlock
  <2>3. /\ ram'.startIndex = index
        /\ ram'.values = [k \in 1..N |-> IF k < N THEN ram.values[k + 1] ELSE at.v]
    BY <1>10, <1>t, <2>1, ShiftType DEF UpdateBlock, RamType
  <2>4. ASSUME NEW k \in 1..N
        PROVE  ram'.values[k] = block'[(index + k - 1) % N]
    <3>1. CASE k = N
      BY <1>t, <2>1, <2>2, <2>3, <3>1, Rotate
    <3>2. CASE k # N
      <4>. k \in 1..(N - 1) /\ k + 1 \in 1..N /\ k < N
        BY <3>2, Capacity
      <4>1. ram.values[k + 1] = block[(at.slot + (k + 1) - 1) % N]
        BY <2>1, Capacity DEF Matches, BlockOf
      <4>2. /\ (index + k - 1) % N = (at.slot + (k + 1) - 1) % N
            /\ (index + k - 1) % N # at.slot
        BY <1>t, <2>1, Rotate
      <4>3. (index + k - 1) % N \in Slots
        BY <1>t, <2>1, FollowingType, Place
      <4>. QED
        BY <1>t, <2>2, <2>3, <4>1, <4>2, <4>3
    <3>. QED
      BY <3>1, <3>2
  <2>. QED
    BY <1>i, <2>2, <2>3, <2>4 DEF Turned, Matches, BlockOf
<1>11. CASE Open
  <2>1. /\ index' = index /\ block' = block /\ ram'.startIndex = index
        /\ ram'.values = Reads(index) /\ at'.step = "idle"
    BY <1>11, <1>i DEF Open
  <2>2. \A k \in 1..N : ram'.values[k] = block'[(index' + k - 1) % N]
    BY <2>1 DEF Reads, BlockOf
  <2>. QED
    BY <2>1, <2>2 DEF Turned, Matches, BlockOf
<1>12. CASE Close
  BY <1>12, ClosedType DEF Close
<1>13. CASE Crash
  BY <1>13, ClosedType DEF Crash
<1>14. CASE UNCHANGED vars
  BY <1>14 DEF vars, Turned, Matches, BlockOf, Opened, Following
<1>. QED
  BY <1>1, <1>2, <1>3, <1>4, <1>5, <1>6, <1>7, <1>8, <1>9, <1>10, <1>11, <1>12,
     <1>13, <1>14 DEF Next

(* What valueAt returns is what a new start would read from the files, as  *)
(* long as no operation on a file has failed since open or create.         *)
THEOREM MemoryAgrees == Spec => []MemoryIsDisk
<1>1. TypeOK /\ Turned => MemoryIsDisk
  <2>. SUFFICES ASSUME TypeOK, Turned, at = Idle, ram.opened, ~failed
                PROVE  index = ram.startIndex /\ ram.values = Reads(index)
    BY DEF MemoryIsDisk
  <2>1. index = ram.startIndex /\ Matches(index, 0)
    BY DEF Turned, Idle
  <2>2. ram.values = [k \in 1..N |-> ram.values[k]]
    BY TypeParts DEF ValueLists
  <2>3. \A k \in 1..N : k > 0
    BY Capacity
  <2>. QED
    BY <2>1, <2>2, <2>3 DEF Matches, Reads
<1>2. Spec => [](TypeOK /\ Steps /\ Turned)
  BY TypeInit, StepsInit, TurnedInit, TypeStep, StepsStep, TurnedStep, PTL DEF Spec
<1>. QED
  BY <1>1, <1>2, PTL
-----------------------------------------------------------------------------
(***************************************************************************)
(* Stored values stay.  The blocks are a circle that begins at Head, where *)
(* the next write goes; a write moves Head by one block, or not at all.    *)
(* Coming is the number of the write that may move it next, so that the    *)
(* value of write w is among the last N - (Coming - w) blocks: it goes out *)
(* with write w + N, not before.  Circle says this, and that the values    *)
(* lie in the order of their writes, and that none is missing.             *)
(***************************************************************************)
PreSteps   == {"data", "index", "write index"}
WriteSteps == PreSteps \cup {"write data"}

Dist(h, s) == IF h <= s THEN s - h ELSE s - h + N

Head ==
  IF ~ram.opened THEN index
  ELSE IF at.step = "write data" THEN Following(at.slot) ELSE ram.startIndex

Coming == IF at.step \in PreSteps THEN begun ELSE begun + 1

Circle(blk, st, bg, h, coming) ==
  /\ \A s \in Slots : blk[s] \in st => N + blk[s] <= Dist(h, s) + coming
  /\ \A s, t \in Slots :
       blk[s] \in st /\ blk[t] \in st /\ blk[s] < blk[t] /\ bg < blk[s] + N =>
         Dist(h, s) < Dist(h, t)
  /\ \A w \in st : bg < w + N => \E s \in Slots : blk[s] = w

(* Heads: where Head is, in memory and in db.index.  NothingYet: until     *)
(* create has written everything nothing is stored.  Numbers: the value    *)
(* that is written is new.  OldIsOut: the block it goes to is free, or     *)
(* holds a value that N later writes have followed.                        *)
Heads ==
  /\ index = Absent => ~ram.opened
  /\ ~flushed => dbType = "fixed"
  /\ at.fill > 0 => at.v = 0
  /\ at.step \in PreSteps => at.slot = ram.startIndex
  /\ at.step = "write index" => index = Empty
  /\ at.step = "write data" /\ dbType = "files" => ram.startIndex = Following(at.slot)
  /\ index \in Nat => index = Head

NothingYet ==
  \/ index = Absent \/ ~flushed \/ at.step \in {"create", "blocks"}
  \/ at.step \in WriteSteps /\ at.v = 0
  => stored = {}

Numbers ==
  /\ \A w \in stored : w <= begun
  /\ \A s \in Slots : block[s] \in Nat => block[s] <= begun
  /\ at.step \in WriteSteps /\ at.v # 0 =>
       /\ at.v = begun /\ at.v \notin stored
       /\ \A s \in Slots : block[s] # at.v

OldIsOut ==
  at.step \in WriteSteps /\ block[at.slot] \in stored => block[at.slot] + N <= begun

Ring ==
  /\ Heads /\ NothingYet /\ Numbers /\ OldIsOut
  /\ ram.opened \/ index \in Nat => Circle(block, stored, begun, Head, Coming)
-----------------------------------------------------------------------------
LEMMA DistType ==
  ASSUME NEW h \in Slots, NEW s \in Slots
  PROVE  /\ Dist(h, s) \in 0..(N - 1)
         /\ Dist(h, h) = 0
         /\ Dist(Following(h), h) = N - 1
         /\ s # h => Dist(h, s) > 0 /\ Dist(Following(h), s) = Dist(h, s) - 1
         /\ s # h => Dist(Following(h), s) < N - 1
         /\ (h + Dist(h, s)) % N = s
<1>1. /\ Dist(h, s) \in 0..(N - 1) /\ Dist(h, h) = 0
      /\ s # h => Dist(h, s) > 0
  BY Capacity DEF Slots, Dist
<1>2. /\ Dist(Following(h), h) = N - 1
      /\ s # h => Dist(Following(h), s) = Dist(h, s) - 1
  BY Capacity, FollowingIs DEF Slots, Dist
<1>3. (h + Dist(h, s)) % N = s
  <2>1. CASE h <= s
    BY <2>1, Capacity, Turn DEF Slots, Dist
  <2>2. CASE ~(h <= s)
    <3> DEFINE a == h + Dist(h, s)
    <3>1. a \in Nat /\ a < 2 * N /\ N <= a /\ a - N = s
      BY <2>2, Capacity DEF Slots, Dist
    <3>. HIDE DEF a
    <3>2. a % N = a - N
      BY <3>1, Turn
    <3>. QED
      BY <3>1, <3>2 DEF a
  <2>. QED
    BY <2>1, <2>2
<1>4. s # h => Dist(Following(h), s) < N - 1
  BY <1>1, <1>2, Capacity
<1>. QED
  BY <1>1, <1>2, <1>3, <1>4

LEMMA DistOfPlace ==
  ASSUME NEW h \in Slots, NEW k \in 1..N
  PROVE  (h + k - 1) % N \in Slots /\ Dist(h, (h + k - 1) % N) = k - 1
BY Capacity, Place DEF Slots, Dist

Sets == SUBSET (1..MaxWrites)

LEMMA Number == ASSUME NEW st \in Sets, NEW w \in st PROVE w \in Nat
BY Capacity DEF Sets

(* Nothing stored. *)
LEMMA CircleEmpty ==
  ASSUME NEW blk, NEW bg, NEW h, NEW coming
  PROVE  Circle(blk, {}, bg, h, coming)
BY DEF Circle

(* No move, but a later write may be the next to move. *)
LEMMA CircleWaits ==
  ASSUME NEW st \in Sets, NEW blk, NEW bg \in Nat, NEW h \in Slots,
         NEW c \in Nat, NEW d \in Nat, c <= d,
         Circle(blk, st, bg, h, c)
  PROVE  Circle(blk, st, bg, h, d)
<1>1. ASSUME NEW s \in Slots, blk[s] \in st PROVE N + blk[s] <= Dist(h, s) + d
  <2>1. N + blk[s] <= Dist(h, s) + c
    BY <1>1 DEF Circle
  <2>2. blk[s] \in Nat /\ Dist(h, s) \in Nat /\ N \in Nat
    BY <1>1, Number, DistType, Capacity
  <2>. QED
    BY <2>1, <2>2
<1>. QED
  BY <1>1 DEF Circle

(* A write begins. *)
LEMMA CircleBegins ==
  ASSUME NEW st \in Sets, NEW blk, NEW bg \in Nat, NEW h \in Slots,
         Circle(blk, st, bg, h, bg + 1)
  PROVE  /\ Circle(blk, st, bg + 1, h, bg + 1)
         /\ blk[h] \in st => blk[h] + N <= bg + 1
<1>1. \A w \in st : bg + 1 < w + N => bg < w + N
  BY Number, Capacity
<1>2. blk[h] \in st => blk[h] + N <= bg + 1
  <2>1. blk[h] \in st => N + blk[h] <= Dist(h, h) + (bg + 1)
    BY DEF Circle
  <2>. QED
    BY <2>1, Number, DistType, Capacity
<1>. QED
  BY <1>1, <1>2 DEF Circle

(* Head moves. *)
LEMMA CircleMoves ==
  ASSUME NEW st \in Sets, NEW blk, NEW bg \in Nat, NEW h \in Slots,
         blk[h] \in st => blk[h] + N <= bg,
         Circle(blk, st, bg, h, bg)
  PROVE  Circle(blk, st, bg, Following(h), bg + 1)
<1> DEFINE g == Following(h)
<1>1. ASSUME NEW s \in Slots, blk[s] \in st PROVE N + blk[s] <= Dist(g, s) + (bg + 1)
  <2>1. blk[s] \in Nat /\ N \in Nat /\ N > 0
    BY <1>1, Number, Capacity
  <2>2. CASE s = h
    <3>1. Dist(g, s) = N - 1
      BY <2>2, DistType
    <3>. QED
      BY <1>1, <2>1, <2>2, <3>1
  <2>3. CASE s # h
    <3>1. Dist(g, s) = Dist(h, s) - 1 /\ Dist(h, s) \in 0..(N - 1)
      BY <2>3, DistType
    <3>2. N + blk[s] <= Dist(h, s) + bg
      BY <1>1 DEF Circle
    <3>. QED
      BY <2>1, <3>1, <3>2
  <2>. QED
    BY <2>2, <2>3
<1>2. ASSUME NEW s \in Slots, NEW t \in Slots, blk[s] \in st, blk[t] \in st,
             blk[s] < blk[t], bg < blk[s] + N
      PROVE  Dist(g, s) < Dist(g, t)
  <2>1. blk[s] \in Nat /\ N \in Nat /\ N > 0
    BY <1>2, Number, Capacity
  <2>2. s # h
    BY <1>2, <2>1
  <2>3. Dist(h, s) < Dist(h, t)
    BY <1>2 DEF Circle
  <2>4. /\ Dist(g, s) = Dist(h, s) - 1 /\ Dist(g, s) < N - 1
        /\ Dist(h, s) \in 0..(N - 1) /\ Dist(h, t) \in 0..(N - 1)
    BY <2>2, DistType
  <2>5. CASE t = h
    BY <2>4, <2>5, DistType
  <2>6. CASE t # h
    <3>1. Dist(g, t) = Dist(h, t) - 1
      BY <2>6, DistType
    <3>. QED
      BY <2>3, <2>4, <3>1
  <2>. QED
    BY <2>5, <2>6
<1>3. \A w \in st : bg < w + N => \E s \in Slots : blk[s] = w
  BY DEF Circle
<1>. QED
  BY <1>1, <1>2, <1>3 DEF Circle

(* A block is emptied, which held no value, or one that is out. *)
LEMMA CircleClears ==
  ASSUME NEW st \in Sets, NEW blk \in [Slots -> Values \cup {NoData}],
         NEW bg \in Nat, NEW h \in Slots, NEW c \in Nat, NEW s \in Slots,
         blk[s] \in st => blk[s] + N <= bg,
         Circle(blk, st, bg, h, c)
  PROVE  Circle([blk EXCEPT ![s] = NoData], st, bg, h, c)
<1> DEFINE new == [blk EXCEPT ![s] = NoData]
<1>1. NoData \notin st
  BY ConstantsAssumption, Number DEF Sets
<1>2. \A t \in Slots : new[t] \in st => t # s /\ new[t] = blk[t]
  BY <1>1
<1>3. ASSUME NEW w \in st, bg < w + N PROVE \E t \in Slots : new[t] = w
  <2>1. PICK t \in Slots : blk[t] = w
    BY <1>3 DEF Circle
  <2>2. t # s
    BY <1>3, <2>1, Number, Capacity
  <2>. QED
    BY <2>1, <2>2
<1>. HIDE DEF new
<1>4. Circle(new, st, bg, h, c)
  BY <1>2, <1>3 DEF Circle
<1>. QED
  BY <1>4 DEF new

(* The block before Head gets a value that is newer than all others. *)
LEMMA CircleGets ==
  ASSUME NEW st \in Sets, NEW blk \in [Slots -> Values \cup {NoData}],
         NEW bg \in 1..MaxWrites, NEW s \in Slots,
         blk[s] \in st => blk[s] + N <= bg,
         \A w \in st : w <= bg, bg \notin st, \A t \in Slots : blk[t] # bg,
         Circle(blk, st, bg, Following(s), bg + 1)
  PROVE  Circle([blk EXCEPT ![s] = bg], st \cup {bg}, bg, Following(s), bg + 1)
<1> DEFINE new == [blk EXCEPT ![s] = bg]
           all == st \cup {bg}
           h   == Following(s)
<1>1. new[s] = bg /\ \A t \in Slots : t # s => new[t] = blk[t] /\ blk[t] # bg
  OBVIOUS
<1>2. /\ N \in Nat /\ N > 0 /\ bg \in Nat /\ h \in Slots
      /\ \A w \in st : w \in Nat /\ w < bg
  <2>1. ASSUME NEW w \in st PROVE w \in Nat /\ w < bg
    <3>1. w \in Nat /\ w <= bg /\ w # bg
      BY Number
    <3>. QED
      BY <3>1
  <2>. QED
    BY <2>1, Capacity, FollowingType
<1>3. Dist(h, s) = N - 1 /\ \A t \in Slots : t # s => Dist(h, t) < N - 1
  BY DistType
<1>. HIDE DEF new, h
<1>4. ASSUME NEW t \in Slots, new[t] \in all PROVE N + new[t] <= Dist(h, t) + (bg + 1)
  <2>1. CASE t = s
    BY <1>1, <1>2, <1>3, <2>1
  <2>2. CASE t # s
    BY <1>1, <1>4, <2>2 DEF Circle, h
  <2>. QED
    BY <2>1, <2>2
<1>5. ASSUME NEW t \in Slots, NEW u \in Slots, new[t] \in all, new[u] \in all,
             new[t] < new[u], bg < new[t] + N
      PROVE  Dist(h, t) < Dist(h, u)
  <2>1. t # s
    <3>1. CASE t = s /\ u = s
      BY <1>1, <1>2, <1>5, <3>1
    <3>2. CASE t = s /\ u # s
      <4>1. new[u] \in st /\ new[t] = bg
        BY <1>1, <1>5, <3>2
      <4>2. new[u] < bg /\ new[u] \in Nat
        BY <1>2, <4>1
      <4>. QED
        BY <1>2, <1>5, <4>1, <4>2
    <3>. QED
      BY <3>1, <3>2
  <2>2. CASE u = s
    BY <1>3, <2>1, <2>2
  <2>3. CASE u # s
    BY <1>1, <1>5, <2>1, <2>3 DEF Circle, h
  <2>. QED
    BY <2>2, <2>3
<1>6. ASSUME NEW w \in all, bg < w + N PROVE \E t \in Slots : new[t] = w
  <2>1. CASE w = bg
    BY <1>1, <2>1
  <2>2. CASE w # bg
    <3>1. PICK t \in Slots : blk[t] = w
      BY <1>6, <2>2 DEF Circle
    <3>2. t # s
      BY <1>2, <1>6, <2>2, <3>1
    <3>. QED
      BY <1>1, <3>1, <3>2
  <2>. QED
    BY <2>1, <2>2
<1>7. Circle(new, all, bg, h, bg + 1)
  BY <1>4, <1>5, <1>6 DEF Circle
<1>. QED
  BY <1>7 DEF new, h
-----------------------------------------------------------------------------
(***************************************************************************)
(* The steps of the program keep the ring.                                 *)
(***************************************************************************)
LEMMA RingParts ==
  ASSUME TypeOK, Steps, Ring
  PROVE  /\ dbType \in {"files", "fixed"}
         /\ index \in Slots \cup {Absent, Empty}
         /\ (index \in Nat <=> index \in Slots)
         /\ block \in [Slots -> Values \cup {NoData}]
         /\ begun \in 0..MaxWrites /\ begun \in Nat /\ stored \in Sets
         /\ at \in AtType /\ at.step \in AtSteps
         /\ at.slot \in Slots /\ at.v \in Values /\ at.fill \in 0..N
         /\ ram \in RamType /\ ram.startIndex \in Slots
         /\ ram.opened => Head \in Slots
         /\ at.step \in WriteSteps => ram.opened
<1>1. /\ dbType \in {"files", "fixed"}
      /\ index \in Slots \cup {Absent, Empty}
      /\ block \in [Slots -> Values \cup {NoData}]
      /\ begun \in 0..MaxWrites /\ stored \in Sets
      /\ at \in AtType /\ ram \in RamType
  BY TypeParts DEF Sets
<1>2. index \in Nat <=> index \in Slots
  BY <1>1, ConstantsAssumption, Capacity DEF Slots
<1>3. /\ at.step \in AtSteps
      /\ at.slot \in Slots /\ at.v \in Values /\ at.fill \in 0..N
      /\ ram.startIndex \in Slots
  BY <1>1 DEF AtType, RamType
<1>4. ram.opened => Head \in Slots
  BY <1>3, FollowingType DEF Head
<1>5. at.step \in WriteSteps => ram.opened
  BY DEF Steps, WriteSteps, PreSteps
<1>6. begun \in Nat
  BY <1>1, Capacity
<1>. QED
  BY <1>1, <1>2, <1>3, <1>4, <1>5, <1>6

LEMMA RingInit == Init => Ring
<1>. SUFFICES ASSUME Init PROVE Ring
  OBVIOUS
<1>1. /\ index = Absent /\ Absent \notin Nat /\ ~ram.opened /\ flushed
      /\ at.step = "idle" /\ at.fill = 0 /\ at.slot = 0 /\ stored = {}
      /\ block = [s \in Slots |-> NoData] /\ NoData \notin Nat
  BY ClosedType, ConstantsAssumption DEF Init, Idle
<1>2. Heads /\ NothingYet /\ Numbers /\ OldIsOut
  BY <1>1 DEF Heads, NothingYet, Numbers, OldIsOut, WriteSteps, PreSteps
<1>. QED
  BY <1>1, <1>2 DEF Ring

LEMMA IdleIs == Idle.step = "idle" /\ Idle.fill = 0 /\ Idle.v = 0 /\ Idle.slot = 0
BY DEF Idle

LEMMA StartIs ==
  ASSUME NEW v, NEW slot, NEW fill
  PROVE  /\ Start(v, slot, fill).step = IF dbType = "files" THEN "data" ELSE "index"
         /\ Start(v, slot, fill).slot = slot
         /\ Start(v, slot, fill).v = v /\ Start(v, slot, fill).fill = fill
BY DEF Start

(* No write is on its way. *)
LEMMA IdleRing ==
  ASSUME at.step \notin WriteSteps, at.fill = 0, Heads, NothingYet,
         \A w \in stored : w <= begun,
         \A s \in Slots : block[s] \in Nat => block[s] <= begun,
         ram.opened \/ index \in Nat => Circle(block, stored, begun, Head, begun + 1)
  PROVE  Ring
BY DEF Ring, Numbers, OldIsOut, Coming, WriteSteps

LEMMA CreateRing ==
  ASSUME TypeOK, Steps, Ring, Create \/ CreateBuffer \/ CreateBlocks
  PROVE  Ring'
<1>1. stored = {} /\ stored' = {} /\ begun' = begun /\ begun \in Nat
  <2>1. stored = {}
    BY DEF Create, CreateBuffer, CreateBlocks, Ring, NothingYet
  <2>2. stored' = stored /\ begun' = begun
    BY DEF Create, CreateBuffer, CreateBlocks
  <2>. QED
    BY <2>1, <2>2, RingParts
<1>2. \A s \in Slots : block'[s] \in Nat => block'[s] <= begun
  <2>1. CASE CreateBlocks
    BY <1>1, <2>1 DEF CreateBlocks
  <2>2. CASE block' = block
    BY <2>2 DEF Ring, Numbers
  <2>. QED
    BY <2>1, <2>2 DEF Create, CreateBuffer
<1>3. \A h, c : Circle(block', stored', begun', h, c)
  BY <1>1, CircleEmpty
<1>4. CASE Create
  <2>1. at'.step = "create" /\ at'.fill = 0
    BY <1>4, IdleIs DEF Create, Idle
  <2>2. /\ index' = Empty /\ Empty # Absent /\ Empty \notin Nat /\ ~ram'.opened
        /\ flushed' = flushed /\ dbType' = dbType
    BY <1>4, ConstantsAssumption DEF Create
  <2>3. Heads'
    <3>1. /\ index' = Absent => ~ram'.opened
          /\ at'.fill > 0 => at'.v = 0
          /\ index' \in Nat => index' = Head'
      BY <2>1, <2>2
    <3>2. ~flushed' => dbType' = "fixed"
      BY <2>2 DEF Ring, Heads
    <3>3. at'.step \notin PreSteps \cup {"write index", "write data"}
      BY <2>1 DEF PreSteps
    <3>. QED
      BY <3>1, <3>2, <3>3 DEF Heads
  <2>. QED
    BY <1>1, <1>2, <1>3, <2>1, <2>3
       DEF Ring, NothingYet, Numbers, OldIsOut, WriteSteps, PreSteps
<1>5. CASE CreateBuffer
  <2>1. /\ index' = 0 /\ 0 # Absent /\ ram'.opened /\ ram'.startIndex = 0
        /\ flushed' = flushed /\ dbType' = dbType
    BY <1>5, ConstantsAssumption DEF CreateBuffer
  <2>2. \/ at'.step = "blocks" /\ at'.fill = 0
        \/ at'.step \in {"data", "index"} /\ at'.slot = 0 /\ at'.v = 0
    <3>1. CASE dbType = "fixed"
      BY <1>5, <3>1 DEF CreateBuffer, Idle
    <3>2. CASE dbType # "fixed"
      <4>1. at' = Start(0, 0, N)
        BY <1>5, <3>2 DEF CreateBuffer
      <4>2. LET r == Start(0, 0, N)
            IN  r.step \in {"data", "index"} /\ r.slot = 0 /\ r.v = 0
        BY StartIs
      <4>. QED
        BY <4>1, <4>2
    <3>. QED
      BY <3>1, <3>2
  <2>3. Heads'
    <3>1. Head' = 0
      BY <2>1, <2>2 DEF Head
    <3>2. ~flushed' => dbType' = "fixed"
      BY <2>1 DEF Ring, Heads
    <3>3. at'.fill > 0 => at'.v = 0
      BY <2>2
    <3>. QED
      BY <2>1, <2>2, <3>1, <3>2, <3>3 DEF Heads, PreSteps
  <2>4. Numbers'
    BY <1>1, <1>2, <2>2 DEF Numbers, WriteSteps, PreSteps
  <2>. QED
    BY <1>1, <1>3, <2>3, <2>4 DEF Ring, NothingYet, OldIsOut
<1>6. CASE CreateBlocks
  <2>1. /\ at' = Idle /\ index' = index /\ dbType' = dbType /\ dbType = "fixed"
        /\ ram'.opened = ram.opened /\ ram'.startIndex = ram.startIndex
        /\ ram.opened /\ at.step = "blocks"
    BY <1>6, RingParts DEF CreateBlocks, Steps, RamType
  <2>2. Heads'
    BY <2>1, IdleIs DEF Ring, Heads, Head, PreSteps
  <2>3. Numbers'
    BY <1>1, <1>2, <2>1, IdleIs DEF Numbers, WriteSteps, PreSteps
  <2>. QED
    BY <1>1, <1>3, <2>2, <2>3 DEF Ring, NothingYet, OldIsOut
<1>. QED
  BY <1>4, <1>5, <1>6

LEMMA WriteRing ==
  ASSUME TypeOK, Steps, Ring, Write
  PROVE  Ring'
<1>1. /\ at = Idle /\ ram.opened /\ begun' = begun + 1
      /\ at' = Start(begun + 1, ram.startIndex, 0)
      /\ UNCHANGED <<dbType, index, block, flushed, ram, stored>>
  BY DEF Write
<1>2. /\ at'.step \in {"data", "index"} /\ at'.slot = ram.startIndex
      /\ at'.v = begun + 1 /\ at'.fill = 0
  <2>1. LET r == Start(begun + 1, ram.startIndex, 0)
        IN  /\ r.step \in {"data", "index"} /\ r.slot = ram.startIndex
            /\ r.v = begun + 1 /\ r.fill = 0
    BY StartIs
  <2>. QED
    BY <1>1, <2>1
<1>3. Head = ram.startIndex /\ Head' = ram.startIndex
  BY <1>1, <1>2, IdleIs DEF Head, PreSteps
<1>4. Circle(block, stored, begun, ram.startIndex, begun + 1)
  BY <1>1, <1>3, IdleIs DEF Ring, Coming, PreSteps
<1>5. /\ Circle(block, stored, begun + 1, ram.startIndex, begun + 1)
      /\ block[ram.startIndex] \in stored => block[ram.startIndex] + N <= begun + 1
  BY <1>4, RingParts, CircleBegins
<1>6. Heads'
  <2>1. ~flushed' => dbType' = "fixed"
    BY <1>1 DEF Ring, Heads
  <2>2. at'.fill > 0 => at'.v = 0
    BY <1>2
  <2>3. index' = Absent => ~ram'.opened
    BY <1>1 DEF Ring, Heads
  <2>4. index' \in Nat => index' = Head'
    BY <1>1, <1>3 DEF Ring, Heads
  <2>. QED
    BY <1>1, <1>2, <2>1, <2>2, <2>3, <2>4 DEF Heads, PreSteps
<1>7. begun + 1 # 0 /\ at'.v # 0
  BY <1>2, RingParts
<1>8. NothingYet'
  BY <1>1, <1>2, <1>7 DEF Ring, NothingYet, PreSteps
<1>9. Numbers'
  <2>1. begun \in Nat /\ \A w \in stored : w \in Nat /\ w <= begun
    BY RingParts, Number DEF Ring, Numbers
  <2>2. \A w \in stored : w <= begun + 1 /\ w # begun + 1
    BY <2>1
  <2>3. \A s \in Slots : block[s] \in Nat => block[s] <= begun
    BY DEF Ring, Numbers
  <2>4. \A s \in Slots : block[s] # begun + 1 /\ (block[s] \in Nat => block[s] <= begun + 1)
    BY <2>1, <2>3
  <2>. QED
    BY <1>1, <1>2, <2>2, <2>4 DEF Numbers
<1>10. OldIsOut'
  BY <1>1, <1>2, <1>5 DEF OldIsOut
<1>11. Circle(block, stored, begun, Head, Coming)'
  BY <1>1, <1>2, <1>3, <1>5 DEF Coming, PreSteps
<1>. QED
  BY <1>6, <1>8, <1>9, <1>10, <1>11 DEF Ring

(* A write stops before it has moved Head, or the program does. *)
LEMMA FailRing ==
  ASSUME TypeOK, Steps, Ring, OpenFails
  PROVE  Ring'
<1>1. /\ at' = Idle /\ at.step \in PreSteps /\ ram.opened
      /\ UNCHANGED <<dbType, index, block, flushed, ram, begun, stored>>
  BY DEF OpenFails, PreSteps, Steps
<1>2. Head = ram.startIndex /\ Head' = ram.startIndex
  BY <1>1, IdleIs DEF Head, PreSteps
<1>3. Circle(block, stored, begun, ram.startIndex, begun + 1)
  <2>1. Circle(block, stored, begun, ram.startIndex, begun)
    BY <1>1, <1>2 DEF Ring, Coming
  <2>2. begun <= begun + 1 /\ begun + 1 \in Nat
    BY RingParts
  <2>. QED
    BY <2>1, <2>2, RingParts, CircleWaits
<1>4. Heads'
  BY <1>1, <1>2, IdleIs DEF Ring, Heads, PreSteps
<1>5. NothingYet'
  BY <1>1, IdleIs DEF Ring, NothingYet, WriteSteps, PreSteps
<1>6. /\ at'.step \notin WriteSteps /\ at'.fill = 0
      /\ at'.step \notin PreSteps
  BY <1>1, IdleIs DEF WriteSteps, PreSteps
<1>7. Numbers' /\ OldIsOut'
  BY <1>1, <1>6 DEF Ring, Numbers, OldIsOut
<1>8. Circle(block, stored, begun, Head, Coming)'
  BY <1>1, <1>2, <1>3, <1>6 DEF Coming
<1>. QED
  BY <1>4, <1>5, <1>7, <1>8 DEF Ring

LEMMA OpenFilesRing ==
  ASSUME TypeOK, Steps, Ring, OpenDataFile \/ OpenIndexFile
  PROVE  Ring'
<1>1. /\ at.step \in PreSteps /\ at'.step \in PreSteps
      /\ at'.slot = at.slot /\ at'.v = at.v /\ at'.fill = at.fill
      /\ ram.opened
      /\ UNCHANGED <<dbType, flushed, ram, begun, stored>>
  BY RingParts DEF OpenDataFile, OpenIndexFile, PreSteps, AtType, WriteSteps
<1>2. Head = ram.startIndex /\ Head' = ram.startIndex
  BY <1>1 DEF Head, PreSteps
<1>3. /\ Coming = begun /\ Coming' = begun
      /\ Circle(block, stored, begun, ram.startIndex, begun)
      /\ at.slot = ram.startIndex /\ at.step # "write data" /\ at'.step # "write data"
  BY <1>1, <1>2 DEF Ring, Heads, Coming, PreSteps
<1>4. index' \in {index, Empty} /\ Empty \notin Nat /\ Empty # Absent
  BY ConstantsAssumption DEF OpenDataFile, OpenIndexFile
<1>5. Heads'
  <2>1. at'.step = "write index" => index' = Empty
    BY RingParts DEF OpenDataFile, OpenIndexFile, AtType
  <2>. QED
    BY <1>1, <1>2, <1>3, <1>4, <2>1 DEF Ring, Heads
<1>6. NothingYet'
  BY <1>1, <1>4 DEF Ring, NothingYet, WriteSteps, PreSteps
<1>7. CASE block' = block
  BY <1>1, <1>2, <1>3, <1>5, <1>6, <1>7 DEF Ring, Numbers, OldIsOut, WriteSteps
<1>8. CASE OpenDataFile
  <2>1. block' = [block EXCEPT ![at.slot] = NoData]
    BY <1>8 DEF OpenDataFile
  <2>2. block[at.slot] \in stored => block[at.slot] + N <= begun
    BY <1>1 DEF Ring, OldIsOut, WriteSteps
  <2>3. Circle(block', stored, begun, ram.startIndex, begun)
    BY <1>3, <2>1, <2>2, RingParts, CircleClears
  <2>4. /\ block'[at.slot] = NoData /\ NoData \notin Nat /\ NoData \notin stored
        /\ \A s \in Slots : block'[s] \in {NoData, block[s]}
    BY <2>1, RingParts, ConstantsAssumption, Number
  <2>5. Numbers'
    <3>1. \A s \in Slots : block'[s] \in Nat => block'[s] <= begun
      BY <2>4 DEF Ring, Numbers
    <3>2. at.v # 0 => \A s \in Slots : block'[s] # at.v
      BY <1>1, <2>4, Capacity, RingParts DEF Ring, Numbers, WriteSteps, Values
    <3>. QED
      BY <1>1, <3>1, <3>2 DEF Ring, Numbers, WriteSteps
  <2>6. OldIsOut'
    BY <1>1, <2>4 DEF OldIsOut
  <2>. QED
    BY <1>1, <1>2, <1>3, <1>5, <1>6, <2>3, <2>5, <2>6 DEF Ring
<1>. QED
  BY <1>7, <1>8 DEF OpenIndexFile

LEMMA WriteIndexRing ==
  ASSUME TypeOK, Steps, Ring, WriteIndex
  PROVE  Ring'
<1>1. /\ at.step \in PreSteps /\ at'.step = "write data"
      /\ at'.slot = at.slot /\ at'.v = at.v /\ at'.fill = at.fill
      /\ ram.opened /\ ram'.opened
      /\ dbType = "files" => ram'.startIndex = Following(at.slot)
      /\ index' = Following(at.slot) \/ index' = index
      /\ UNCHANGED <<dbType, flushed, block, begun, stored>>
  BY RingParts DEF WriteIndex, PreSteps, AtType, RamType, WriteSteps
<1>2. Head = at.slot /\ Head' = Following(at.slot)
  BY <1>1 DEF Ring, Heads, Head, PreSteps
<1>3. Coming = begun /\ Coming' = begun + 1
  BY <1>1 DEF Coming, PreSteps
<1>4. block[at.slot] \in stored => block[at.slot] + N <= begun
  BY <1>1 DEF Ring, OldIsOut, WriteSteps
<1>5. Circle(block, stored, begun, Following(at.slot), begun + 1)
  <2>1. Circle(block, stored, begun, at.slot, begun)
    BY <1>1, <1>2, <1>3 DEF Ring
  <2>. QED
    BY <1>4, <2>1, RingParts, CircleMoves
<1>6. Following(at.slot) \in Nat /\ Absent \notin Nat
  BY RingParts, FollowingType, ConstantsAssumption, Capacity DEF Slots
<1>7. Heads'
  <2>1. index' \in Nat => index' = Following(at.slot)
    <3>1. at.step = "write index"
      BY DEF WriteIndex
    <3>. QED
      BY <1>1, <3>1, ConstantsAssumption DEF Ring, Heads
  <2>. QED
    BY <1>1, <1>2, <1>6, <2>1 DEF Ring, Heads, PreSteps
<1>8. NothingYet'
  BY <1>1, <1>6 DEF Ring, Heads, NothingYet, WriteSteps, PreSteps
<1>9. Numbers' /\ OldIsOut'
  BY <1>1, <1>4 DEF Ring, Numbers, OldIsOut, WriteSteps
<1>. QED
  BY <1>1, <1>2, <1>3, <1>5, <1>7, <1>8, <1>9 DEF Ring

(* The value is written to the block before Head, or is not. *)
Put ==
  /\ at.step = "write data"
  /\ \/ UNCHANGED <<block, stored>>
     \/ /\ block' = [block EXCEPT ![at.slot] = at.v]
        /\ stored' = IF at.v = 0 THEN stored ELSE stored \cup {at.v}

LEMMA PutRing ==
  ASSUME TypeOK, Steps, Ring, Put
  PROVE  /\ Head = Following(at.slot)
         /\ Circle(block', stored', begun, Following(at.slot), begun + 1)
         /\ \A w \in stored' : w <= begun
         /\ \A s \in Slots : block'[s] \in Nat => block'[s] <= begun
<1>0. begun \in Nat /\ MaxWrites \in Nat /\ begun <= MaxWrites
  BY RingParts, Capacity
<1>1. ram.opened /\ Head = Following(at.slot) /\ Coming = begun + 1
  BY RingParts DEF Put, Head, Coming, WriteSteps, PreSteps
<1>2. /\ Circle(block, stored, begun, Following(at.slot), begun + 1)
      /\ \A w \in stored : w <= begun
      /\ \A s \in Slots : block[s] \in Nat => block[s] <= begun
      /\ block[at.slot] \in stored => block[at.slot] + N <= begun
  BY <1>1 DEF Put, Ring, Numbers, OldIsOut, WriteSteps
<1>3. CASE UNCHANGED <<block, stored>>
  BY <1>1, <1>2, <1>3
<1>4. ASSUME block' = [block EXCEPT ![at.slot] = at.v], at.v = 0 => stored' = stored,
             at.v # 0 => stored' = stored \cup {at.v}
      PROVE  /\ Circle(block', stored', begun, Following(at.slot), begun + 1)
             /\ \A w \in stored' : w <= begun
             /\ \A s \in Slots : block'[s] \in Nat => block'[s] <= begun
  <2>1. block'[at.slot] = at.v /\ \A s \in Slots : s # at.slot => block'[s] = block[s]
    BY <1>4, RingParts
  <2>2. CASE at.v = 0
    <3>1. stored = {} /\ stored' = {}
      BY <1>4, <2>2 DEF Put, Ring, NothingYet, WriteSteps
    <3>2. 0 <= begun
      BY <1>0
    <3>. QED
      BY <1>1, <1>2, <2>1, <2>2, <3>1, <3>2, CircleEmpty
  <2>3. CASE at.v # 0
    <3>1. /\ at.v = begun /\ begun \notin stored
          /\ \A s \in Slots : block[s] # begun
      BY <2>3 DEF Put, Ring, Numbers, WriteSteps
    <3>2. begun \in 1..MaxWrites
      <4>1. begun # 0
        BY <2>3, <3>1
      <4>. QED
        BY <1>0, <4>1
    <3>3. /\ block' = [block EXCEPT ![at.slot] = begun]
          /\ stored' = stored \cup {begun}
      BY <1>4, <2>3, <3>1
    <3>4. Circle([block EXCEPT ![at.slot] = begun], stored \cup {begun}, begun,
                 Following(at.slot), begun + 1)
      BY <1>2, <3>1, <3>2, RingParts, CircleGets
    <3>5. begun <= begun
      BY <1>0
    <3>. QED
      BY <1>1, <1>2, <2>1, <3>1, <3>3, <3>4, <3>5
  <2>. QED
    BY <2>2, <2>3
<1>5. \/ UNCHANGED <<block, stored>>
      \/ /\ block' = [block EXCEPT ![at.slot] = at.v]
         /\ at.v = 0 => stored' = stored
         /\ at.v # 0 => stored' = stored \cup {at.v}
  BY DEF Put
<1>. QED
  BY <1>1, <1>3, <1>4, <1>5

LEMMA WriteDataRing ==
  ASSUME TypeOK, Steps, Ring, WriteDataFile
  PROVE  Ring'
<1>1. /\ at.step = "write data" /\ dbType = "files" /\ ram.opened /\ Put
      /\ UNCHANGED <<dbType, index, flushed, begun>>
  BY RingParts DEF WriteDataFile, Put, WriteSteps
<1>2. ram.startIndex = Following(at.slot)
  BY <1>1 DEF Ring, Heads
<1>3. ram'.opened /\ ram'.startIndex = ram.startIndex
  BY <1>1, RingParts DEF WriteDataFile, RamType
<1>4. /\ Head = ram.startIndex
      /\ Circle(block', stored', begun, ram.startIndex, begun + 1)
      /\ \A w \in stored' : w <= begun
      /\ \A s \in Slots : block'[s] \in Nat => block'[s] <= begun
  BY <1>1, <1>2, PutRing
<1>5. flushed /\ flushed'
  BY <1>1 DEF Ring, Heads
<1>6. index # Absent /\ (index \in Nat => index = ram.startIndex)
  BY <1>1, <1>4 DEF Ring, Heads
<1>7. CASE at.fill > 1
  <2>1. at.v = 0 /\ stored = {} /\ stored' = {}
    <3>1. at.fill > 0
      BY <1>7, RingParts, Capacity
    <3>2. at.v = 0
      BY <3>1 DEF Ring, Heads
    <3>3. stored = {}
      BY <1>1, <3>2 DEF Ring, NothingYet, WriteSteps
    <3>4. stored' = stored
      BY <1>1, <3>2 DEF Put
    <3>. QED
      BY <3>2, <3>3, <3>4
  <2>2. at'.step = "data" /\ at'.slot = ram.startIndex /\ at'.v = 0
    <3> DEFINE rest == at.fill - 1
    <3>1. at' = Start(0, ram.startIndex, rest)
      BY <1>7 DEF WriteDataFile, Return
    <3>. HIDE DEF rest
    <3>2. LET r == Start(0, ram.startIndex, rest)
          IN  r.step = "data" /\ r.slot = ram.startIndex /\ r.v = 0
      <4>1. dbType = "files"
        BY <1>1
      <4>. QED
        BY <4>1, StartIs
    <3>. QED
      BY <3>1, <3>2
  <2>3. Head' = ram.startIndex
    BY <1>3, <2>2 DEF Head
  <2>4. Heads'
    BY <1>1, <1>3, <1>5, <1>6, <2>2, <2>3 DEF Heads
  <2>5. NothingYet' /\ OldIsOut'
    BY <2>1 DEF NothingYet, OldIsOut
  <2>6. Numbers'
    BY <1>1, <1>4, <2>2 DEF Numbers
  <2>. QED
    BY <2>1, <2>4, <2>5, <2>6, CircleEmpty DEF Ring
<1>8. CASE ~(at.fill > 1)
  <2>1. at' = Idle
    BY <1>8 DEF WriteDataFile, Return
  <2>2. at'.step \notin WriteSteps /\ at'.step = "idle" /\ at'.fill = 0 /\ at'.v = 0
    BY <2>1, IdleIs DEF WriteSteps, PreSteps
  <2>3. Head' = ram.startIndex /\ Coming' = begun + 1
    BY <1>1, <1>3, <2>2 DEF Head, Coming, PreSteps
  <2>4. Heads'
    BY <1>1, <1>3, <1>5, <1>6, <2>2, <2>3 DEF Heads, PreSteps
  <2>5. NothingYet' /\ OldIsOut'
    BY <1>1, <1>5, <1>6, <2>2 DEF NothingYet, OldIsOut
  <2>6. Numbers'
    BY <1>1, <1>4, <2>2 DEF Numbers
  <2>. QED
    BY <1>1, <1>4, <2>3, <2>4, <2>5, <2>6 DEF Ring
<1>. QED
  BY <1>7, <1>8

LEMMA UpdateRing ==
  ASSUME TypeOK, Steps, Ring, UpdateBlock
  PROVE  Ring'
<1>1. /\ at.step = "write data" /\ dbType = "fixed" /\ ram.opened /\ at.v # 0
      /\ at' = Idle
      /\ UNCHANGED <<dbType, index, begun>>
  BY DEF UpdateBlock, Steps
<1>2. \/ UNCHANGED <<block, stored, flushed>>
      \/ /\ block' = [block EXCEPT ![at.slot] = at.v]
         /\ stored' = stored \cup {at.v} /\ flushed' = TRUE
  BY DEF UpdateBlock
<1>3. ram'.opened /\ ram'.startIndex = Following(at.slot)
  BY <1>1, RingParts DEF UpdateBlock, RamType
<1>4. /\ Head = Following(at.slot)
      /\ Circle(block', stored', begun, Following(at.slot), begun + 1)
      /\ \A w \in stored' : w <= begun
      /\ \A s \in Slots : block'[s] \in Nat => block'[s] <= begun
  <2>1. Put
    BY <1>1, <1>2 DEF Put
  <2>. QED
    BY <1>1, <2>1, PutRing
<1>5. at'.step \notin WriteSteps /\ at'.step = "idle" /\ at'.fill = 0 /\ at'.v = 0
  BY <1>1, IdleIs DEF WriteSteps, PreSteps
<1>6. Head' = Following(at.slot) /\ Coming' = begun + 1
  BY <1>1, <1>3, <1>5 DEF Head, Coming, PreSteps
<1>7. index # Absent /\ (index \in Nat => index = Following(at.slot))
  BY <1>1, <1>4 DEF Ring, Heads
<1>8. Heads'
  BY <1>1, <1>3, <1>5, <1>6, <1>7 DEF Heads, PreSteps
<1>9. NothingYet'
  BY <1>1, <1>2, <1>5, <1>7 DEF Ring, NothingYet
<1>10. Numbers' /\ OldIsOut'
  BY <1>1, <1>4, <1>5 DEF Numbers, OldIsOut
<1>. QED
  BY <1>1, <1>4, <1>6, <1>8, <1>9, <1>10 DEF Ring

LEMMA OpenRing ==
  ASSUME TypeOK, Steps, Ring, Open \/ Close
  PROVE  Ring'
<1>1. /\ at = Idle /\ at' = Idle
      /\ UNCHANGED <<dbType, index, block, begun, stored>>
      /\ flushed' = flushed \/ flushed' = TRUE
      /\ index # Absent
  BY ConstantsAssumption DEF Open, Close, Ring, Heads
<1>2. at.step = "idle" /\ at'.step = "idle" /\ at'.fill = 0 /\ at'.v = 0
  BY <1>1, IdleIs
<1>3. /\ ram'.opened \/ index' \in Nat => Head' = Head
      /\ ram'.opened \/ index' \in Nat => ram.opened \/ index \in Nat
      /\ index' \in Nat => index' = Head'
  <2>1. CASE Open
    <3>1. /\ ~ram.opened /\ index \in Nat /\ ram'.opened /\ ram'.startIndex = index
      BY <2>1 DEF Open
    <3>. QED
      BY <1>1, <1>2, <3>1 DEF Head
  <2>2. CASE Close
    <3>1. ram.opened /\ ~ram'.opened
      BY <2>2, ClosedType DEF Close
    <3>2. index \in Nat => index = Head
      BY DEF Ring, Heads
    <3>. QED
      BY <1>1, <3>1, <3>2 DEF Head
  <2>. QED
    BY <2>1, <2>2
<1>4. Coming = begun + 1 /\ Coming' = begun + 1
  BY <1>1, <1>2 DEF Coming, PreSteps
<1>5. Heads'
  <2>1. ~flushed' => dbType' = "fixed"
    <3>1. ~flushed => dbType = "fixed"
      BY DEF Ring, Heads
    <3>2. CASE flushed' = flushed
      BY <1>1, <3>1, <3>2
    <3>3. CASE flushed' = TRUE
      BY <3>3
    <3>. QED
      BY <1>1, <3>2, <3>3
  <2>2. at'.fill > 0 => at'.v = 0
    BY <1>2
  <2>. QED
    BY <1>1, <1>2, <1>3, <2>1, <2>2 DEF Heads, PreSteps
<1>6. NothingYet'
  BY <1>1, <1>2 DEF Ring, NothingYet, WriteSteps, PreSteps
<1>7. Numbers' /\ OldIsOut'
  BY <1>1, <1>2 DEF Ring, Numbers, OldIsOut, WriteSteps, PreSteps
<1>8. ram'.opened \/ index' \in Nat => Circle(block, stored, begun, Head, Coming)'
  BY <1>1, <1>3, <1>4 DEF Ring
<1>. QED
  BY <1>5, <1>6, <1>7, <1>8 DEF Ring

LEMMA CrashRing ==
  ASSUME TypeOK, Steps, Ring, Crash
  PROVE  Ring'
<1>1. /\ ~ram'.opened /\ at'.step = "idle" /\ at'.fill = 0 /\ at'.v = 0 /\ flushed'
      /\ UNCHANGED <<dbType, index, begun, stored>>
  BY ClosedType, IdleIs DEF Crash
<1>2. Head' = index /\ Coming' = begun + 1
  BY <1>1 DEF Head, Coming, PreSteps
<1>3. Heads'
  BY <1>1, <1>2 DEF Heads, PreSteps
<1>4. OldIsOut'
  BY <1>1 DEF OldIsOut, WriteSteps, PreSteps
<1>5. NothingYet'
  <2>1. index = Absent => stored = {}
    BY DEF Ring, NothingYet
  <2>. QED
    BY <1>1, <2>1 DEF NothingYet, WriteSteps, PreSteps
<1>6. \A s \in Slots : block'[s] \in {block[s], NoData}
  BY DEF Crash
<1>7. Numbers'
  <2>1. \A s \in Slots : block'[s] \in Nat => block'[s] <= begun
    BY <1>6, ConstantsAssumption DEF Ring, Numbers
  <2>2. \A w \in stored : w <= begun
    BY DEF Ring, Numbers
  <2>. QED
    BY <1>1, <2>1, <2>2 DEF Numbers
<1>8. ASSUME index \in Nat PROVE Circle(block, stored, begun, Head, Coming)'
  <2>1. CASE ~flushed
    <3>1. stored = {}
      BY <2>1 DEF Ring, NothingYet
    <3>. QED
      BY <1>1, <3>1, CircleEmpty
  <2>2. CASE flushed
    <3>1. block' = block
      BY <2>2 DEF Crash
    <3>2. /\ Head = index /\ index \in Slots
          /\ Circle(block, stored, begun, index, Coming)
      BY <1>8, RingParts DEF Ring, Heads
    <3>3. Coming \in Nat /\ begun + 1 \in Nat /\ Coming <= begun + 1
      BY RingParts DEF Coming
    <3>4. Circle(block, stored, begun, index, begun + 1)
      BY <3>2, <3>3, RingParts, CircleWaits
    <3>. QED
      BY <1>1, <1>2, <3>1, <3>4
  <2>. QED
    BY <2>1, <2>2
<1>. QED
  BY <1>1, <1>3, <1>4, <1>5, <1>7, <1>8 DEF Ring

LEMMA RingStep == TypeOK /\ Steps /\ Ring /\ [Next]_vars => Ring'
<1>. SUFFICES ASSUME TypeOK, Steps, Ring, [Next]_vars PROVE Ring'
  OBVIOUS
<1>1. CASE UNCHANGED vars
  BY <1>1 DEF vars, Ring, Heads, Head, Coming, NothingYet, Numbers, OldIsOut, Circle,
              Following
<1>2. CASE Create \/ CreateBuffer \/ CreateBlocks
  BY <1>2, CreateRing
<1>3. CASE Write
  BY <1>3, WriteRing
<1>4. CASE OpenDataFile \/ OpenIndexFile
  BY <1>4, OpenFilesRing
<1>5. CASE OpenFails
  BY <1>5, FailRing
<1>6. CASE WriteIndex
  BY <1>6, WriteIndexRing
<1>7. CASE WriteDataFile
  BY <1>7, WriteDataRing
<1>8. CASE UpdateBlock
  BY <1>8, UpdateRing
<1>9. CASE Open \/ Close
  BY <1>9, OpenRing
<1>10. CASE Crash
  BY <1>10, CrashRing
<1>. QED
  BY <1>1, <1>2, <1>3, <1>4, <1>5, <1>6, <1>7, <1>8, <1>9, <1>10 DEF Next

(* A stored value stays, in the order of the writes, until N later writes  *)
(* have begun, whatever fails and wherever the program stops in them, as   *)
(* long as db.index can be read at all.                                    *)
THEOREM StoredCorrect == Spec => []StoredStay
<1>1. TypeOK /\ Steps /\ Ring => StoredStay
  <2>. SUFFICES ASSUME TypeOK, Steps, Ring, index \in Nat PROVE StoredStay
    BY DEF StoredStay
  <2>1. /\ index \in Slots /\ stored \in Sets /\ begun \in Nat
        /\ Circle(block, stored, begun, index, Coming)
    BY RingParts DEF Ring, Heads
  <2> DEFINE recent == {w \in stored : begun - w < N}
             place(w) == {k \in 1..N : BlockOf(index, k) = w}
             slot(k) == (index + k - 1) % N
  <2>2. \A w \in recent : w \in stored /\ begun < w + N
    BY <2>1, Number, Capacity
  <2>3. \A k \in 1..N : slot(k) \in Slots /\ Dist(index, slot(k)) = k - 1
    BY <2>1, DistOfPlace
  <2>4. \A w \in recent : place(w) # {}
    <3>. SUFFICES ASSUME NEW w \in recent PROVE \E k \in 1..N : BlockOf(index, k) = w
      OBVIOUS
    <3>1. PICK s \in Slots : block[s] = w
      BY <2>1, <2>2 DEF Circle
    <3> DEFINE k == Dist(index, s) + 1
    <3>2. k \in 1..N /\ index + k - 1 = index + Dist(index, s)
      <4>1. Dist(index, s) \in 0..(N - 1) /\ index \in Nat /\ N \in Nat
        BY <2>1, DistType, Capacity
      <4>. QED
        BY <4>1
    <3>3. BlockOf(index, k) = block[(index + Dist(index, s)) % N]
      BY <3>2 DEF BlockOf
    <3>4. (index + Dist(index, s)) % N = s
      BY <2>1, DistType
    <3>. QED
      BY <3>1, <3>2, <3>3, <3>4
  <2>5. \A w, x \in recent : w < x => \A j \in place(w), k \in place(x) : j < k
    <3>. SUFFICES ASSUME NEW w \in recent, NEW x \in recent, w < x,
                         NEW j \in place(w), NEW k \in place(x)
                  PROVE  j < k
      OBVIOUS
    <3>1. /\ j \in 1..N /\ k \in 1..N
          /\ block[slot(j)] = w /\ block[slot(k)] = x
      BY DEF BlockOf
    <3>2. /\ slot(j) \in Slots /\ Dist(index, slot(j)) = j - 1
          /\ slot(k) \in Slots /\ Dist(index, slot(k)) = k - 1
      BY <2>3, <3>1
    <3>. HIDE DEF slot
    <3>3. Dist(index, slot(j)) < Dist(index, slot(k))
      BY <2>1, <2>2, <3>1, <3>2 DEF Circle
    <3>. QED
      BY <3>1, <3>2, <3>3
  <2>. QED
    BY <2>4, <2>5 DEF StoredStay
<1>2. Spec => [](TypeOK /\ Steps /\ Ring)
  BY TypeInit, StepsInit, RingInit, TypeStep, StepsStep, RingStep, PTL DEF Spec
<1>. QED
  BY <1>1, <1>2, PTL
=============================================================================
