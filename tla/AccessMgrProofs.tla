---------------------------- MODULE AccessMgrProofs ----------------------------
(***************************************************************************)
(* Proofs about AccessMgr, for any numbers of users, groups, stops and     *)
(* failures, and any set of devices.                                       *)
(***************************************************************************)
EXTENDS AccessMgr, FiniteSetTheorems, SequenceTheorems, TLAPS

(***************************************************************************)
(* Numbers, partial functions, and the files that are left to be written.  *)
(***************************************************************************)
LEMMA MaxIsGreatest ==
  ASSUME NEW N \in Nat, NEW S, S \subseteq 0..N, S # {}
  PROVE  Max(S) \in S /\ \A s \in S : s <= Max(S)
<1> DEFINE Above(s) == s..N
           R == StrictSubsetOrdering(0..N)
           F == FiniteSubsetsOf(0..N)
           T == {Above(s) : s \in S}
<1>1. \A s \in S : Above(s) \in SUBSET (0..N)
  OBVIOUS
<1>2. \A A \in SUBSET (0..N) : IsFiniteSet(A)
  <2>1. 0 \in Int /\ N \in Int
    OBVIOUS
  <2>2. IsFiniteSet(0..N)
    BY <2>1, FS_Interval
  <2>. QED
    BY <2>2, FS_Subset
<1>3. T \subseteq F
  <2> HIDE DEF Above
  <2>. QED
    BY <1>1, <1>2 DEF FiniteSubsetsOf
<1>4. T # {}
  OBVIOUS
<1>5. PICK t \in T : \A y \in T : ~ (<<y, t>> \in R)
  <2>1. IsWellFoundedOn(R, F)
    BY FS_StrictSubsetOrderingWellFounded
  <2> HIDE DEF R, F, T
  <2>. QED
    BY <1>3, <1>4, <2>1, WFMin
<1>6. PICK m \in S : t = Above(m)
  OBVIOUS
<1>7. \A s \in S : m >= s
  <2> SUFFICES ASSUME NEW s \in S, m < s PROVE FALSE
    OBVIOUS
  <2>1. Above(s) \subseteq Above(m) /\ Above(s) # Above(m)
    <3>1. m \in Above(m) /\ m \notin Above(s)
      OBVIOUS
    <3>. QED
      BY <3>1
  <2>2. Above(s) \in T
    OBVIOUS
  <2>3. Above(s) \in SUBSET (0..N) /\ Above(m) \in SUBSET (0..N)
    OBVIOUS
  <2>4. <<Above(s), Above(m)>> \in R
    <3> HIDE DEF Above
    <3>. QED
      BY <2>1, <2>3 DEF StrictSubsetOrdering
  <2>. QED
    <3> HIDE DEF Above, R, T
    <3>. QED
      BY <1>5, <1>6, <2>2, <2>4
<1>. QED
  BY <1>7 DEF Max

LEMMA PartialIs ==
  ASSUME NEW S, NEW T, NEW f \in Partial(S, T)
  PROVE  /\ DOMAIN f \subseteq S
         /\ f \in [DOMAIN f -> T]
         /\ \A x \in DOMAIN f : f[x] \in T
BY DEF Partial

LEMMA EmptyFunType ==
  ASSUME NEW S, NEW T
  PROVE  EmptyFun \in Partial(S, T) /\ DOMAIN EmptyFun = {}
<1>1. EmptyFun \in [{} -> T]
  BY DEF EmptyFun
<1>. QED
  BY <1>1 DEF Partial

LEMMA WithType ==
  ASSUME NEW S, NEW T, NEW f \in Partial(S, T), NEW x \in S, NEW y \in T
  PROVE  /\ With(f, x, y) \in Partial(S, T)
         /\ DOMAIN With(f, x, y) = DOMAIN f \cup {x}
         /\ With(f, x, y)[x] = y
         /\ \A z \in DOMAIN f \ {x} : With(f, x, y)[z] = f[z]
<1>1. DOMAIN f \cup {x} \in SUBSET S
  BY PartialIs
<1>2. With(f, x, y) \in [DOMAIN f \cup {x} -> T]
  BY PartialIs DEF With
<1>. QED
  BY <1>1, <1>2 DEF With, Partial

LEMMA RestrictType ==
  ASSUME NEW S, NEW T, NEW f \in Partial(S, T), NEW D \in SUBSET DOMAIN f
  PROVE  /\ Restrict(f, D) \in Partial(S, T)
         /\ DOMAIN Restrict(f, D) = D
         /\ \A z \in D : Restrict(f, D)[z] = f[z]
<1>1. D \in SUBSET S
  BY PartialIs
<1>2. Restrict(f, D) \in [D -> T]
  BY PartialIs DEF Restrict
<1>. QED
  BY <1>1, <1>2 DEF Restrict, Partial

LEMMA WithoutType ==
  ASSUME NEW S, NEW T, NEW f \in Partial(S, T), NEW x
  PROVE  /\ Without(f, x) \in Partial(S, T)
         /\ DOMAIN Without(f, x) = DOMAIN f \ {x}
         /\ \A z \in DOMAIN f \ {x} : Without(f, x)[z] = f[z]
BY RestrictType DEF Without

Todo ==
  {<<>>, <<"users">>, <<"users", "ids">>, <<"groups">>, <<"groups", "ids">>,
   <<"ids">>, <<"owners">>}
  \cup {<<d>> : d \in Devices} \cup {<<"owners", d>> : d \in Devices}

LEMMA OneOrTwo ==
  ASSUME NEW a, NEW b
  PROVE  /\ Head(<<a, b>>) = a /\ Tail(<<a, b>>) = <<b>>
         /\ Head(<<a>>) = a /\ Tail(<<a>>) = <<>>
         /\ Len(<<a, b>>) = 2 /\ Range(<<a, b>>) = {a, b}
         /\ Len(<<a>>) = 1 /\ Range(<<a>>) = {a}
<1> DEFINE S == {a, b}
<1>1. <<a, b>> \in Seq(S) /\ <<b>> \in Seq(S) /\ <<a>> \in Seq(S)
  OBVIOUS
<1>2. Len(<<a, b>>) = 2 /\ Len(<<b>>) = 1 /\ Len(<<a>>) = 1
  OBVIOUS
<1>3. /\ Tail(<<a, b>>) \in Seq(S) /\ Len(Tail(<<a, b>>)) = 1
      /\ Tail(<<a, b>>)[1] = b
  BY <1>1, <1>2
<1>4. Tail(<<a, b>>) = <<b>>
  BY <1>1, <1>2, <1>3, SeqEqual
<1>5. Tail(<<a>>) \in Seq(S) /\ Len(Tail(<<a>>)) = 0
  BY <1>1, <1>2
<1>6. Tail(<<a>>) = <<>>
  BY <1>5, EmptySeq
<1>7. Range(<<a, b>>) = {a, b}
  <2>1. DOMAIN <<a, b>> = {1, 2} /\ <<a, b>>[1] = a /\ <<a, b>>[2] = b
    OBVIOUS
  <2>. QED
    BY <2>1 DEF Range
<1>8. Range(<<a>>) = {a}
  <2>1. DOMAIN <<a>> = {1} /\ <<a>>[1] = a
    OBVIOUS
  <2>. QED
    BY <2>1 DEF Range
<1>. QED
  BY <1>2, <1>4, <1>6, <1>7, <1>8

(* What is known of the files that are left. *)
TodoFacts(t) ==
  /\ Len(t) <= 2 /\ Range(t) \subseteq Files
  /\ t = <<>> => Range(t) = {}
  /\ t # <<>> => /\ Head(t) \in Files /\ Tail(t) \in Todo
                 /\ Range(t) = {Head(t)} \cup Range(Tail(t))
                 /\ Range(Tail(t)) \cap {"users", "groups"} = {}
                 /\ Tail(t) # <<>> => Head(Tail(t)) \notin {"users", "groups"}
                 /\ Head(t) \in {"users", "groups"} => Range(t) \cap Devices = {}

LEMMA TodoIs ==
  ASSUME NEW t \in Todo
  PROVE  TodoFacts(t)
<1>0. Range(<<>>) = {}
  BY DEF Range
<1>1. CASE t = <<>>
  <2>1. Len(t) = 0
    BY <1>1
  <2>. QED
    BY <1>0, <1>1, <2>1 DEF TodoFacts
<1>2. ASSUME NEW f \in Files, t = <<f>>
      PROVE  TodoFacts(t)
  <2>1. Head(t) = f /\ Tail(t) = <<>> /\ Len(t) = 1 /\ Range(t) = {f}
    BY <1>2, OneOrTwo
  <2>2. Len(t) <= 2 /\ <<>> \in Todo /\ t # <<>>
    BY <2>1 DEF Todo
  <2>3. f \in {"users", "groups"} => {f} \cap Devices = {}
    BY ConstantsAssumption
  <2>. QED
    BY <1>0, <2>1, <2>2, <2>3, Zenon DEF TodoFacts
<1>3. ASSUME NEW f \in Files, NEW g \in {"ids"} \cup Devices, t = <<f, g>>,
             f \in {"users", "groups"} => g = "ids"
      PROVE  TodoFacts(t)
  <2>1. <<g>> \in Todo /\ g \in Files
    BY DEF Todo, Files
  <2>2. Head(<<g>>) = g /\ Range(<<g>>) = {g} /\ g \notin {"users", "groups"}
    <3>1. Head(<<g>>) = g /\ Range(<<g>>) = {g}
      BY <2>1, OneOrTwo
    <3>. QED
      BY <3>1, ConstantsAssumption
  <2>3. Head(t) = f /\ Tail(t) = <<g>> /\ Len(t) = 2 /\ Range(t) = {f, g}
    BY <1>3, <2>1, OneOrTwo
  <2>4. Len(t) <= 2 /\ t # <<>>
    BY <2>3
  <2>5. f \in {"users", "groups"} => {f, g} \cap Devices = {}
    BY <1>3, ConstantsAssumption
  <2>. QED
    BY <2>1, <2>2, <2>3, <2>4, <2>5, Zenon DEF TodoFacts
<1>. QED
  BY <1>1, <1>2, <1>3, ConstantsAssumption DEF Todo, Files
-----------------------------------------------------------------------------
(***************************************************************************)
(* The types.                                                              *)
(***************************************************************************)
LastIds  == [uid : Ids, gid : Gids \cup {0}]
Disks    == [users : SUBSET Ids, groups : Partial(Gids, Group),
             owners : Partial(Devices, Ids),
             rules : [Devices -> RulesSet \cup {None}],
             ids : LastIds, torn : SUBSET Files]
Before   == [users : SUBSET Ids, groups : Partial(Gids, Group), lastId : LastIds]

Types ==
  /\ ready \in BOOLEAN /\ cut \in BOOLEAN
  /\ users \in SUBSET Ids
  /\ groups \in Partial(Gids, Group)
  /\ owner \in Partial(Devices, Ids)
  /\ rules \in Partial(Devices, RulesSet)
  /\ compiled \in [Ids -> Policy]
  /\ lastId \in LastIds
  /\ disk \in Disks
  /\ todo \in Todo
  /\ before \in Before
  /\ issued \in [uid : SUBSET Ids, gid : SUBSET Gids, forgotten : SUBSET Ids]
  /\ unsaved \in SUBSET Files
  /\ faults \in 0..MaxFaults

LEMMA TypesAreTypeOK ==
  ASSUME Types
  PROVE  TypeOK
<1>1. Len(todo) <= 2 /\ Range(todo) \subseteq Files
  BY TodoIs DEF Types, TodoFacts
<1>2. /\ disk.users \subseteq Ids /\ disk.torn \cup unsaved \subseteq Files
      /\ disk.groups \in Partial(Gids, Group) /\ disk.owners \in Partial(Devices, Ids)
      /\ disk.rules \in [Devices -> RulesSet \cup {None}]
      /\ before.users \subseteq Ids
  BY DEF Types, Disks, Before
<1>. QED
  BY <1>1, <1>2 DEF Types, TypeOK, LastIds

LEMMA Constants == MaxUsers \in Nat /\ MaxGroups \in Nat /\ MaxFaults \in Nat
BY ConstantsAssumption

LEMMA FlagsAreFlags ==
  /\ Given \subseteq Flags /\ {} \in Given
  /\ \A f \in Given : Implied(f) \in Flags
BY DEF Given, Flags, Implied

LEMMA NoRulesType == NoRules \in RulesSet /\ NoPolicy \in Policy
BY EmptyFunType DEF NoRules, NoPolicy, RulesSet, Policy

LEMMA CompileType ==
  ASSUME NEW R \in Partial(Devices, RulesSet), NEW G \in Partial(Gids, Group)
  PROVE  Compile(R, G) \in [Ids -> Policy]
<1> SUFFICES ASSUME NEW u \in Ids PROVE Compile(R, G)[u] \in Policy
  BY DEF Compile
<1> DEFINE own == {d \in DOMAIN R : u \in DOMAIN R[d].user}
           of(d) == {g \in DOMAIN R[d].group : g \in DOMAIN G /\ u \in G[g].uids}
           shared == {d \in DOMAIN R \ own : of(d) # {}}
           mine == [d \in own |-> Implied(R[d].user[u])]
           theirs == [d \in shared |-> Implied(R[d].group[Max(of(d))])]
<1>1. Compile(R, G)[u] = [self |-> mine, group |-> theirs]
  BY DEF Compile
<1>2. DOMAIN R \subseteq Devices /\ \A d \in DOMAIN R : R[d] \in RulesSet
  BY PartialIs
<1>3. \A d \in own : Implied(R[d].user[u]) \in Flags
  <2> SUFFICES ASSUME NEW d \in own PROVE Implied(R[d].user[u]) \in Flags
    OBVIOUS
  <2>1. R[d].user \in Partial(Ids, Given)
    BY <1>2 DEF RulesSet
  <2>2. R[d].user[u] \in Given
    BY <2>1, PartialIs
  <2>. QED
    BY <2>2, FlagsAreFlags
<1>4. \A d \in shared : Implied(R[d].group[Max(of(d))]) \in Flags
  <2> SUFFICES ASSUME NEW d \in shared PROVE Implied(R[d].group[Max(of(d))]) \in Flags
    OBVIOUS
  <2> DEFINE f == R[d].group
  <2>1. f \in Partial(Gids, Given)
    BY <1>2 DEF RulesSet
  <2>2. DOMAIN f \subseteq Gids /\ \A g \in DOMAIN f : f[g] \in Given
    <3> HIDE DEF f
    <3>. QED
      BY <2>1, PartialIs
  <2>3. of(d) \subseteq DOMAIN f /\ of(d) # {}
    OBVIOUS
  <2>4. Max(of(d)) \in of(d)
    <3>1. of(d) \subseteq 0..MaxGroups
      BY <2>2, <2>3 DEF Gids
    <3> HIDE DEF of
    <3>. QED
      BY <2>3, <3>1, MaxIsGreatest, Constants
  <2>5. f[Max(of(d))] \in Given
    <3> HIDE DEF f, of
    <3>. QED
      BY <2>2, <2>3, <2>4
  <2>. QED
    BY <2>5, FlagsAreFlags
<1>5. mine \in Partial(Devices, Flags)
  <2>1. own \in SUBSET Devices
    BY <1>2
  <2>2. mine \in [own -> Flags]
    BY <1>3
  <2>. QED
    BY <2>1, <2>2 DEF Partial
<1>6. theirs \in Partial(Devices, Flags)
  <2>1. shared \in SUBSET Devices
    BY <1>2
  <2>2. theirs \in [shared -> Flags]
    BY <1>4
  <2>. QED
    BY <2>1, <2>2 DEF Partial
<1>. QED
  BY <1>1, <1>5, <1>6 DEF Policy

LEMMA RulesReadType ==
  ASSUME Types
  PROVE  /\ RulesRead \in Partial(Devices, RulesSet)
         /\ DOMAIN RulesRead = {x \in Devices : disk.rules[x] # None}
         /\ \A d \in DOMAIN RulesRead : RulesRead[d].group = EmptyFun
<1> DEFINE D == {x \in Devices : disk.rules[x] # None}
           user(d) == Restrict(disk.rules[d].user, DOMAIN disk.rules[d].user \cap Known)
<1>1. RulesRead = [d \in D |-> [user |-> user(d), group |-> EmptyFun]]
  BY DEF RulesRead
<1>2. \A d \in D : user(d) \in Partial(Ids, Given)
  <2> SUFFICES ASSUME NEW d \in D PROVE user(d) \in Partial(Ids, Given)
    OBVIOUS
  <2>1. disk.rules[d].user \in Partial(Ids, Given)
    BY DEF Types, Disks, RulesSet
  <2>. QED
    BY <2>1, RestrictType
<1>3. RulesRead \in [D -> RulesSet]
  BY <1>1, <1>2, EmptyFunType DEF RulesSet
<1>. QED
  BY <1>1, <1>3 DEF Partial
-----------------------------------------------------------------------------
(***************************************************************************)
(* What the steps that write a file make of the files.                     *)
(***************************************************************************)
(* The moderators, members and owners are among U. *)
NamesIn(G, O, U) ==
  /\ \A g \in DOMAIN G : G[g].moderator \in U /\ G[g].uids \subseteq U
  /\ \A d \in DOMAIN O : O[d] \in U

LEMMA NamesInMore ==
  ASSUME NEW G, NEW O, NEW U, NEW V, NamesIn(G, O, U), U \subseteq V
  PROVE  NamesIn(G, O, V)
BY DEF NamesIn

(* The names in the rules of a device are among U. *)
RuleNames(r, U) == r # None => DOMAIN r.user \subseteq U

(* The files D differ from those on disk in file f only, and name no one   *)
(* that they or memory did not name.                                       *)
Rewritten(f, D) ==
  /\ D \in Disks
  /\ D.ids = disk.ids \/ (f = "ids" /\ D.ids = lastId)
  /\ IF f = "users" THEN D.users \subseteq users ELSE D.users = disk.users
  /\ f # "groups" => D.groups = disk.groups
  /\ \A U : /\ NamesIn(groups, owner, U) /\ NamesIn(disk.groups, disk.owners, U)
            => NamesIn(D.groups, D.owners, U)
  /\ \A d \in Devices : f # d => D.rules[d] = disk.rules[d]
  /\ \A d \in Devices : \A U :
        DOMAIN RulesOf(d).user \subseteq U /\ RuleNames(disk.rules[d], U)
        => RuleNames(D.rules[d], U)

LEMMA RulesOfType ==
  ASSUME Types, NEW d \in Devices
  PROVE  RulesOf(d) \in RulesSet
BY PartialIs, NoRulesType DEF Types, RulesOf

LEMMA TruncatedIs ==
  ASSUME Types, NEW f \in Files, ~AtOnce(f)
  PROVE  /\ Rewritten(f, Truncated(f))
         /\ f = "users" => Truncated(f).users = {}
<1> DEFINE D == Truncated(f)
<1>0. /\ EmptyFun \in Partial(Gids, Group) /\ EmptyFun \in Partial(Devices, Ids)
      /\ NoRules \in RulesSet /\ DOMAIN EmptyFun = {} /\ DOMAIN NoRules.user = {}
  BY EmptyFunType, NoRulesType DEF NoRules
<1>1. f # "ids" /\ disk \in Disks
  BY DEF AtOnce, Types
<1>2. ASSUME f = "users" PROVE Rewritten(f, D)
  <2>1. D = [disk EXCEPT !.users = {}, !.torn = @ \ {f}]
    BY <1>2, ConstantsAssumption DEF Truncated
  <2>2. D \in Disks
    BY <1>1, <2>1 DEF Disks
  <2>. QED
    BY <1>1, <1>2, <2>1, <2>2, ConstantsAssumption DEF Rewritten, Disks
<1>3. ASSUME f = "groups" PROVE Rewritten(f, D)
  <2>1. D = [disk EXCEPT !.groups = EmptyFun, !.torn = @ \ {f}]
    BY <1>3, ConstantsAssumption DEF Truncated
  <2>2. D \in Disks
    BY <1>0, <1>1, <2>1 DEF Disks
  <2>3. \A U : NamesIn(disk.groups, disk.owners, U) => NamesIn(EmptyFun, disk.owners, U)
    BY <1>0 DEF NamesIn
  <2>4. /\ D.ids = disk.ids /\ D.users = disk.users /\ D.groups = EmptyFun
        /\ D.owners = disk.owners /\ D.rules = disk.rules
    BY <1>1, <2>1 DEF Disks
  <2>5. Rewritten(f, D)
    <3> HIDE DEF D
    <3>. QED
      BY <1>3, <2>2, <2>3, <2>4, ConstantsAssumption DEF Rewritten
  <2>. QED
    BY <2>5
<1>4. ASSUME f = "owners" PROVE Rewritten(f, D)
  <2>1. D = [disk EXCEPT !.owners = EmptyFun, !.torn = @ \ {f}]
    BY <1>4, ConstantsAssumption DEF Truncated
  <2>2. D \in Disks
    BY <1>0, <1>1, <2>1 DEF Disks
  <2>3. \A U : NamesIn(disk.groups, disk.owners, U) => NamesIn(disk.groups, EmptyFun, U)
    BY <1>0 DEF NamesIn
  <2>. QED
    BY <1>1, <1>4, <2>1, <2>2, <2>3, ConstantsAssumption DEF Rewritten, Disks
<1>5. ASSUME f \in Devices PROVE Rewritten(f, D)
  <2>1. D = [disk EXCEPT !.rules[f] = NoRules, !.torn = @ \ {f}]
    BY <1>5, ConstantsAssumption DEF Truncated
  <2>2. D \in Disks
    <3> DEFINE R == [disk.rules EXCEPT ![f] = NoRules]
    <3>1. R \in [Devices -> RulesSet \cup {None}]
      BY <1>0, <1>1, <1>5 DEF Disks
    <3>2. D = [disk EXCEPT !.rules = R, !.torn = @ \ {f}]
      BY <2>1
    <3> HIDE DEF R
    <3>. QED
      BY <1>1, <3>1, <3>2 DEF Disks
  <2>3. /\ D.ids = disk.ids /\ D.users = disk.users /\ D.groups = disk.groups
        /\ D.owners = disk.owners
        /\ \A d \in Devices : D.rules[d] = IF d = f THEN NoRules ELSE disk.rules[d]
    BY <1>1, <1>5, <2>1 DEF Disks
  <2>4. \A U : RuleNames(NoRules, U)
    BY <1>0 DEF RuleNames
  <2>5. \A d \in Devices : \A U : RuleNames(disk.rules[d], U) => RuleNames(D.rules[d], U)
    BY <2>3, <2>4
  <2>6. f \notin {"ids", "users", "groups"}
    BY <1>5, ConstantsAssumption
  <2>7. Rewritten(f, D)
    <3> HIDE DEF D
    <3>. QED
      BY <2>2, <2>3, <2>5, <2>6 DEF Rewritten
  <2>. QED
    BY <2>7
<1>6. Rewritten(f, D)
  BY <1>1, <1>2, <1>3, <1>4, <1>5 DEF Files
<1>7. f = "users" => D.users = {}
  <2>1. f = "users" => D = [disk EXCEPT !.users = {}, !.torn = @ \ {f}]
    BY ConstantsAssumption DEF Truncated
  <2>. QED
    BY <1>1, <2>1 DEF Disks
<1>. QED
  BY <1>6, <1>7

(* The rules of users that the file of a device gives. *)
FileOf(d) == IF disk.rules[d] = None THEN EmptyFun ELSE disk.rules[d].user

LEMMA OnDiskIs ==
  ASSUME Types, NEW f \in Files
  PROVE  /\ Rewritten(f, OnDisk(f))
         /\ f = "users" => OnDisk(f).users = users
         /\ f = "groups" => OnDisk(f).groups = groups
         /\ f = "ids" => OnDisk(f).ids = lastId
         /\ f \in Devices => \/ f \in DOMAIN rules /\ OnDisk(f).rules[f] = rules[f]
                             \/ f \notin DOMAIN rules /\ OnDisk(f).rules[f] = None
<1> DEFINE D == OnDisk(f)
<1>1. disk \in Disks /\ users \in SUBSET Ids /\ groups \in Partial(Gids, Group)
      /\ owner \in Partial(Devices, Ids) /\ lastId \in LastIds
      /\ \A d \in DOMAIN rules : rules[d] \in RulesSet
  BY PartialIs DEF Types
<1>2. CASE f = "users"
  <2>1. D = [disk EXCEPT !.users = users]
    BY <1>2, ConstantsAssumption DEF OnDisk
  <2>2. D \in Disks
    BY <1>1, <2>1 DEF Disks
  <2>. QED
    BY <1>1, <1>2, <2>1, <2>2, ConstantsAssumption DEF Rewritten, Disks
<1>3. CASE f = "groups"
  <2>1. D = [disk EXCEPT !.groups = groups]
    BY <1>3, ConstantsAssumption DEF OnDisk
  <2>2. D \in Disks
    BY <1>1, <2>1 DEF Disks
  <2>3. \A U : NamesIn(groups, owner, U) /\ NamesIn(disk.groups, disk.owners, U)
               => NamesIn(groups, disk.owners, U)
    BY DEF NamesIn
  <2>. QED
    BY <1>1, <1>3, <2>1, <2>2, <2>3, ConstantsAssumption DEF Rewritten, Disks
<1>4. CASE f = "owners"
  <2>1. D = [disk EXCEPT !.owners = owner]
    BY <1>4, ConstantsAssumption DEF OnDisk
  <2>2. D \in Disks
    BY <1>1, <2>1 DEF Disks
  <2>3. \A U : NamesIn(groups, owner, U) /\ NamesIn(disk.groups, disk.owners, U)
               => NamesIn(disk.groups, owner, U)
    BY DEF NamesIn
  <2>. QED
    BY <1>1, <1>4, <2>1, <2>2, <2>3, ConstantsAssumption DEF Rewritten, Disks
<1>5. CASE f = "ids"
  <2>1. D = [disk EXCEPT !.ids = lastId]
    BY <1>5, ConstantsAssumption DEF OnDisk
  <2>2. D \in Disks
    BY <1>1, <2>1 DEF Disks
  <2>. QED
    BY <1>1, <1>5, <2>1, <2>2, ConstantsAssumption DEF Rewritten, Disks
<1>6. CASE f \in Devices
  <2> DEFINE r == IF f \in DOMAIN rules THEN rules[f] ELSE None
  <2>1. D = [disk EXCEPT !.rules[f] = r, !.torn = @ \ {f}]
    BY <1>6, ConstantsAssumption DEF OnDisk
  <2>2. r \in RulesSet \cup {None}
    BY <1>1
  <2>3. D \in Disks
    <3> HIDE DEF r
    <3>. QED
      BY <1>1, <1>6, <2>1, <2>2 DEF Disks
  <2>4. /\ D.ids = disk.ids /\ D.users = disk.users /\ D.groups = disk.groups
        /\ D.owners = disk.owners
        /\ \A d \in Devices : D.rules[d] = IF d = f THEN r ELSE disk.rules[d]
    BY <1>1, <1>6, <2>1 DEF Disks
  <2>5. \A U : DOMAIN RulesOf(f).user \subseteq U => RuleNames(r, U)
    BY DEF RuleNames, RulesOf
  <2>6. D.rules[f] = r
    BY <1>6, <2>4
  <2> HIDE DEF D
  <2>7. Rewritten(f, D)
    <3> HIDE DEF r
    <3>. QED
      BY <1>6, <2>3, <2>4, <2>5, ConstantsAssumption DEF Rewritten
  <2>8. f \notin {"users", "groups", "ids"}
    BY <1>6, ConstantsAssumption
  <2>. QED
    BY <2>6, <2>7, <2>8 DEF D
<1>. QED
  BY <1>2, <1>3, <1>4, <1>5, <1>6 DEF Files

LEMMA LinesType ==
  ASSUME NEW S, NEW T, NEW f \in Partial(S, T), NEW k \in DOMAIN f, NEW y \in T
  PROVE  /\ Lines(f, k) \in Partial(S, T)
         /\ DOMAIN Lines(f, k) \subseteq DOMAIN f
         /\ \A x \in DOMAIN Lines(f, k) : Lines(f, k)[x] = f[x]
         /\ With(Lines(f, k), k, y) \in Partial(S, T)
         /\ DOMAIN With(Lines(f, k), k, y) \subseteq DOMAIN f
         /\ With(Lines(f, k), k, y)[k] = y
         /\ \A x \in DOMAIN With(Lines(f, k), k, y) \ {k} :
              With(Lines(f, k), k, y)[x] = f[x]
<1> DEFINE D == {x \in DOMAIN f : x < k}
<1>1. Lines(f, k) = Restrict(f, D) /\ D \in SUBSET DOMAIN f
  BY DEF Lines
<1>2. k \in S
  BY PartialIs
<1> HIDE DEF D
<1>3. /\ Lines(f, k) \in Partial(S, T) /\ DOMAIN Lines(f, k) = D
      /\ \A x \in D : Lines(f, k)[x] = f[x]
  BY <1>1, RestrictType
<1>4. ASSUME NEW l \in Partial(S, T)
      PROVE  /\ With(l, k, y) \in Partial(S, T)
             /\ DOMAIN With(l, k, y) = DOMAIN l \cup {k}
             /\ With(l, k, y)[k] = y
             /\ \A x \in DOMAIN l \ {k} : With(l, k, y)[x] = l[x]
  <2> DEFINE w == With(l, k, y)
  <2>1. w = [z \in DOMAIN l \cup {k} |-> IF z = k THEN y ELSE l[z]]
    BY DEF With
  <2>2. DOMAIN l \cup {k} \in SUBSET S /\ \A z \in DOMAIN l : l[z] \in T
    BY <1>2, PartialIs
  <2>3. w \in [DOMAIN l \cup {k} -> T]
    BY <2>1, <2>2
  <2> HIDE DEF w
  <2>4. w \in Partial(S, T)
    BY <2>2, <2>3 DEF Partial
  <2>. QED
    BY <2>1, <2>4 DEF w
<1>5. /\ With(Lines(f, k), k, y) \in Partial(S, T)
      /\ DOMAIN With(Lines(f, k), k, y) = D \cup {k}
      /\ With(Lines(f, k), k, y)[k] = y
      /\ \A x \in D \ {k} : With(Lines(f, k), k, y)[x] = Lines(f, k)[x]
  BY <1>3, <1>4
<1>. QED
  BY <1>1, <1>3, <1>5

LEMMA GroupsInPartAre ==
  ASSUME Types, NEW p \in GroupsInPart
  PROVE  /\ p \in Partial(Gids, Group)
         /\ \A U, O : NamesIn(groups, O, U) => NamesIn(p, O, U)
<1>1. groups \in Partial(Gids, Group)
  BY DEF Types
<1>2. PICK k \in DOMAIN groups :
        \/ p = Lines(groups, k)
        \/ \E U \in SUBSET Ids :
             p = With(Lines(groups, k), k, [groups[k] EXCEPT !.uids = @ \cap U])
  BY DEF GroupsInPart
<1>3. groups[k] \in Group
  BY <1>1, <1>2, PartialIs
<1>4. CASE p = Lines(groups, k)
  BY <1>1, <1>2, <1>3, <1>4, LinesType DEF NamesIn
<1>5. ASSUME NEW V \in SUBSET Ids, NEW y, y = [groups[k] EXCEPT !.uids = @ \cap V],
             p = With(Lines(groups, k), k, y)
      PROVE  /\ p \in Partial(Gids, Group)
             /\ \A U, O : NamesIn(groups, O, U) => NamesIn(p, O, U)
  <2>1. y \in Group /\ y.moderator = groups[k].moderator /\ y.uids \subseteq groups[k].uids
    BY <1>3, <1>5 DEF Group
  <2>2. /\ p \in Partial(Gids, Group) /\ DOMAIN p \subseteq DOMAIN groups /\ p[k] = y
        /\ \A x \in DOMAIN p \ {k} : p[x] = groups[x]
    <3>1. p = With(Lines(groups, k), k, y) /\ y \in Group
      BY <1>5, <2>1
    <3>. QED
      BY <1>1, <3>1, LinesType
  <2>. QED
    BY <2>1, <2>2 DEF NamesIn
<1>. QED
  BY <1>2, <1>4, <1>5

LEMMA RulesInPartAre ==
  ASSUME NEW r \in RulesSet, NEW p \in RulesInPart(r)
  PROVE  p \in RulesSet /\ DOMAIN p.user \subseteq DOMAIN r.user
<1>0. r.user \in Partial(Ids, Given) /\ r.group \in Partial(Gids, Given)
      /\ EmptyFun \in Partial(Ids, Given) /\ DOMAIN EmptyFun = {} /\ {} \in Given
  BY EmptyFunType, FlagsAreFlags DEF RulesSet
<1>1. ASSUME NEW k \in DOMAIN r.group,
             \/ p = [user |-> EmptyFun, group |-> Lines(r.group, k)]
             \/ p = [user |-> EmptyFun, group |-> With(Lines(r.group, k), k, {})]
      PROVE  p \in RulesSet /\ DOMAIN p.user \subseteq DOMAIN r.user
  <2>1. /\ Lines(r.group, k) \in Partial(Gids, Given)
        /\ With(Lines(r.group, k), k, {}) \in Partial(Gids, Given)
    BY <1>0, LinesType
  <2>. QED
    BY <1>0, <1>1, <2>1 DEF RulesSet
<1>2. ASSUME NEW k \in DOMAIN r.user,
             \/ p = [r EXCEPT !.user = Lines(@, k)]
             \/ p = [r EXCEPT !.user = With(Lines(@, k), k, {})]
      PROVE  p \in RulesSet /\ DOMAIN p.user \subseteq DOMAIN r.user
  <2>1. /\ Lines(r.user, k) \in Partial(Ids, Given)
        /\ With(Lines(r.user, k), k, {}) \in Partial(Ids, Given)
        /\ DOMAIN Lines(r.user, k) \subseteq DOMAIN r.user
        /\ DOMAIN With(Lines(r.user, k), k, {}) \subseteq DOMAIN r.user
    BY <1>0, LinesType
  <2>. QED
    BY <1>2, <2>1 DEF RulesSet
<1>. QED
  BY <1>1, <1>2 DEF RulesInPart

LEMMA PartOnDiskIs ==
  ASSUME Types, NEW f \in Files, ~AtOnce(f), NEW D \in PartOnDisk(f),
         NEW T \in SUBSET {f}, NEW E, E = [D EXCEPT !.torn = @ \cup T]
  PROVE  Rewritten(f, E)
<1>1. f # "ids" /\ disk \in Disks /\ owner \in Partial(Devices, Ids) /\ users \subseteq Ids
      /\ T \subseteq Files
  BY DEF AtOnce, Types
<1>2. CASE f = "users"
  <2>1. PICK p \in UsersInPart : D = [disk EXCEPT !.users = p]
    BY <1>2, ConstantsAssumption DEF PartOnDisk
  <2>2. p \subseteq users
    BY DEF UsersInPart
  <2>3. E = [disk EXCEPT !.users = p, !.torn = @ \cup T]
    BY <1>1, <2>1 DEF Disks
  <2>4. E \in Disks
    BY <1>1, <2>2, <2>3 DEF Disks
  <2>. QED
    BY <1>1, <1>2, <2>2, <2>3, <2>4, ConstantsAssumption DEF Rewritten, Disks
<1>3. CASE f = "groups"
  <2>1. PICK p \in GroupsInPart : D = [disk EXCEPT !.groups = p]
    BY <1>3, ConstantsAssumption DEF PartOnDisk
  <2>2. /\ p \in Partial(Gids, Group)
        /\ \A U, O : NamesIn(groups, O, U) => NamesIn(p, O, U)
    BY GroupsInPartAre
  <2>3. E = [disk EXCEPT !.groups = p, !.torn = @ \cup T]
    BY <1>1, <2>1 DEF Disks
  <2>4. E \in Disks
    BY <1>1, <2>2, <2>3 DEF Disks
  <2>5. \A U : NamesIn(groups, owner, U) /\ NamesIn(disk.groups, disk.owners, U)
               => NamesIn(p, disk.owners, U)
    BY <2>2 DEF NamesIn
  <2>6. /\ E.ids = disk.ids /\ E.users = disk.users /\ E.groups = p
        /\ E.owners = disk.owners /\ E.rules = disk.rules
    BY <1>1, <2>3 DEF Disks
  <2>. QED
    BY <1>3, <2>4, <2>5, <2>6, ConstantsAssumption DEF Rewritten
<1>4. CASE f = "owners"
  <2>1. PICK p \in OwnersInPart : D = [disk EXCEPT !.owners = p]
    BY <1>4, ConstantsAssumption DEF PartOnDisk
  <2>2. PICK S \in SUBSET DOMAIN owner : p = Restrict(owner, S)
    BY DEF OwnersInPart
  <2>3. /\ p \in Partial(Devices, Ids) /\ DOMAIN p = S
        /\ \A x \in S : p[x] = owner[x]
    BY <1>1, <2>2, RestrictType
  <2>4. E = [disk EXCEPT !.owners = p, !.torn = @ \cup T]
    BY <1>1, <2>1 DEF Disks
  <2>5. E \in Disks
    BY <1>1, <2>3, <2>4 DEF Disks
  <2>6. \A U : NamesIn(groups, owner, U) /\ NamesIn(disk.groups, disk.owners, U)
               => NamesIn(disk.groups, p, U)
    BY <2>2, <2>3 DEF NamesIn
  <2>7. /\ E.ids = disk.ids /\ E.users = disk.users /\ E.groups = disk.groups
        /\ E.owners = p /\ E.rules = disk.rules
    BY <1>1, <2>4 DEF Disks
  <2>. QED
    BY <1>4, <2>5, <2>6, <2>7, ConstantsAssumption DEF Rewritten
<1>5. CASE f \in Devices
  <2>1. PICK p \in RulesInPart(rules[f]) : D = [disk EXCEPT !.rules[f] = p]
    BY <1>5, ConstantsAssumption DEF PartOnDisk
  <2>2. f \in DOMAIN rules /\ rules[f] \in RulesSet
    BY <1>5, PartialIs DEF AtOnce, Types
  <2>3. p \in RulesSet /\ DOMAIN p.user \subseteq DOMAIN rules[f].user
    BY <2>2, RulesInPartAre
  <2>4. E = [disk EXCEPT !.rules[f] = p, !.torn = @ \cup T]
    BY <1>1, <2>1 DEF Disks
  <2>5. E \in Disks
    <3> DEFINE R == [disk.rules EXCEPT ![f] = p]
    <3>1. R \in [Devices -> RulesSet \cup {None}]
      BY <1>1, <1>5, <2>3 DEF Disks
    <3>2. E = [disk EXCEPT !.rules = R, !.torn = @ \cup T]
      BY <2>4
    <3> HIDE DEF R
    <3>. QED
      BY <1>1, <3>1, <3>2 DEF Disks
  <2>6. /\ E.ids = disk.ids /\ E.users = disk.users /\ E.groups = disk.groups
        /\ E.owners = disk.owners
        /\ \A d \in Devices : E.rules[d] = IF d = f THEN p ELSE disk.rules[d]
    BY <1>1, <1>5, <2>4 DEF Disks
  <2>7. RulesOf(f) = rules[f]
    BY <2>2 DEF RulesOf
  <2>8. \A U : DOMAIN RulesOf(f).user \subseteq U => RuleNames(p, U)
    BY <2>3, <2>7 DEF RuleNames
  <2>9. f \notin {"ids", "users", "groups"}
    BY <1>5, ConstantsAssumption
  <2>10. \A d \in Devices : \A U :
           DOMAIN RulesOf(d).user \subseteq U /\ RuleNames(disk.rules[d], U)
           => RuleNames(E.rules[d], U)
    BY <2>6, <2>8
  <2>. QED
    BY <2>5, <2>6, <2>9, <2>10 DEF Rewritten
<1>. QED
  BY <1>1, <1>2, <1>3, <1>4, <1>5 DEF Files
-----------------------------------------------------------------------------
(***************************************************************************)
(* The types are kept.                                                     *)
(***************************************************************************)
LEMMA LastIdReadType ==
  ASSUME Types
  PROVE  /\ LastIdRead \in [uid : Ids, gid : Gids \cup {0}]
         /\ disk.ids.uid <= LastIdRead.uid /\ \A u \in disk.users : u <= LastIdRead.uid
         /\ disk.ids.gid <= LastIdRead.gid
         /\ \A g \in DOMAIN disk.groups : g <= LastIdRead.gid
<1> DEFINE U == {disk.ids.uid} \cup disk.users
           G == {disk.ids.gid} \cup DOMAIN disk.groups
<1>1. U \subseteq 0..MaxUsers /\ U # {}
  BY DEF Types, Disks, LastIds, Ids
<1>2. G \subseteq 0..MaxGroups /\ G # {}
  <2>1. DOMAIN disk.groups \subseteq Gids
    BY PartialIs DEF Types, Disks
  <2>. QED
    BY <2>1, Constants DEF Types, Disks, LastIds, Gids
<1>3. Max(U) \in U /\ \A i \in U : i <= Max(U)
  BY <1>1, MaxIsGreatest, Constants
<1>4. Max(G) \in G /\ \A i \in G : i <= Max(G)
  BY <1>2, MaxIsGreatest, Constants
<1>5. LastIdRead.uid = Max(U) /\ LastIdRead.gid = Max(G)
      /\ LastIdRead = [uid |-> Max(U), gid |-> Max(G)]
  BY DEF LastIdRead
<1>6. Max(U) \in Ids /\ Max(G) \in Gids \cup {0}
  BY <1>1, <1>2, <1>3, <1>4, Constants DEF Ids, Gids
<1>. QED
  BY <1>3, <1>4, <1>5, <1>6

LEMMA RuledType ==
  ASSUME NEW S, NEW f \in Partial(S, Given), NEW x \in S, NEW flags \in Given
  PROVE  Ruled(f, x, flags) \in Partial(S, Given)
<1>1. CASE flags = {}
  BY <1>1, WithoutType DEF Ruled
<1>2. CASE flags # {}
  BY <1>2, WithType DEF Ruled
<1>. QED
  BY <1>1, <1>2

LEMMA TypesStep ==
  ASSUME Types, cut => ~AtOnce(Head(todo)), Next
  PROVE  Types'
<1>1. ASSUME Start PROVE Types'
  <2>1. Known \in SUBSET Ids
    BY Constants DEF Types, Disks, Known, Ids, rootUid
  <2>2. rules' \in Partial(Devices, RulesSet) /\ compiled' \in [Ids -> Policy]
    <3>1. rules' \in Partial(Devices, RulesSet)
      BY <1>1, RulesReadType DEF Start
    <3>2. groups' \in Partial(Gids, Group)
      BY <1>1 DEF Start, Types, Disks
    <3>. QED
      BY <1>1, <3>1, <3>2, CompileType DEF Start
  <2>3. lastId' \in LastIds
    BY <1>1, LastIdReadType DEF Start, LastIds
  <2>4. users' \in SUBSET Ids /\ groups' \in Partial(Gids, Group)
        /\ owner' \in Partial(Devices, Ids)
    BY <1>1 DEF Start, Types, Disks
  <2>5. disk' \in Disks
    <3> HIDE DEF LastIds
    <3>. QED
      BY <1>1, <2>3 DEF Start, Types, Disks
  <2>6. before' = [users |-> users', groups |-> groups', lastId |-> lastId']
    BY <1>1 DEF Start, Now
  <2>. QED
    BY <1>1, <2>2, <2>3, <2>4, <2>5, <2>6 DEF Start, Types, Before
<1>2. ASSUME CreateUser PROVE Types'
  <2>1. lastId.uid + 1 \in Ids
    BY <1>2, Constants DEF CreateUser, Types, LastIds, Ids
  <2>2. lastId' = [lastId EXCEPT !.uid = @ + 1]
    BY <1>2 DEF CreateUser
  <2>3. lastId' \in LastIds /\ lastId'.uid \in Ids
    BY <2>1, <2>2 DEF Types, LastIds
  <2>4. users' \in SUBSET Ids
    BY <1>2, <2>3 DEF CreateUser, Types
  <2>5. todo' \in Todo
    BY <1>2 DEF CreateUser, Command, Todo
  <2>. QED
    BY <1>2, <2>3, <2>4, <2>5 DEF CreateUser, Command, Types
<1>3. ASSUME SetPass PROVE Types'
  BY <1>3 DEF SetPass, Command, Types, Todo
<1>4. ASSUME NEW u \in users, CreateUsersGroup(u) PROVE Types'
  <2>1. lastId.gid + 1 \in Gids
    BY <1>4, Constants DEF CreateUsersGroup, Types, LastIds, Gids
  <2>2. lastId' = [lastId EXCEPT !.gid = @ + 1]
    BY <1>4 DEF CreateUsersGroup
  <2>3. lastId' \in LastIds /\ lastId'.gid \in Gids
    BY <2>1, <2>2 DEF Types, LastIds
  <2>4. [moderator |-> u, uids |-> {u}] \in Group
    BY DEF Types, Group
  <2>5. groups' \in Partial(Gids, Group)
    BY <1>4, <2>3, <2>4, WithType DEF CreateUsersGroup, Types
  <2>6. todo' \in Todo
    BY <1>4 DEF CreateUsersGroup, Command, Todo
  <2>. QED
    BY <1>4, <2>3, <2>5, <2>6 DEF CreateUsersGroup, Command, Types
<1>5. ASSUME NEW g \in DOMAIN groups, NEW u \in users,
             AddUserToGroup(g, u) \/ DelUserFromGroup(g, u) \/ ChangeModerator(g, u)
      PROVE  Types'
  <2>1. groups \in [DOMAIN groups -> Group] /\ DOMAIN groups \in SUBSET Gids
    BY PartialIs DEF Types
  <2>2. groups[g] \in Group /\ u \in Ids
    BY <2>1 DEF Types
  <2>3. /\ [groups[g] EXCEPT !.uids = @ \cup {u}] \in Group
        /\ [groups[g] EXCEPT !.uids = @ \ {u}] \in Group
        /\ [groups[g] EXCEPT !.moderator = u] \in Group
    BY <2>2 DEF Group
  <2>4. groups' \in [DOMAIN groups -> Group]
    BY <1>5, <2>1, <2>3 DEF AddUserToGroup, DelUserFromGroup, ChangeModerator
  <2>5. groups' \in Partial(Gids, Group)
    BY <2>1, <2>4 DEF Partial
  <2>6. todo' \in Todo
    BY <1>5 DEF AddUserToGroup, DelUserFromGroup, ChangeModerator, Command, Todo
  <2>. QED
    BY <1>5, <2>5, <2>6
    DEF AddUserToGroup, DelUserFromGroup, ChangeModerator, Command, Types
<1>6. ASSUME NEW d \in Devices, NEW u \in users, SetDevOwner(d, u) PROVE Types'
  <2>1. owner' \in Partial(Devices, Ids)
    BY <1>6, WithType DEF SetDevOwner, Types
  <2>2. rules' \in Partial(Devices, RulesSet)
    BY <1>6, WithoutType DEF SetDevOwner, Types
  <2>3. compiled' \in [Ids -> Policy]
    BY <1>6, <2>2, CompileType DEF SetDevOwner, Types
  <2>4. todo' \in Todo
    BY <1>6 DEF SetDevOwner, Command, Todo
  <2>. QED
    BY <1>6, <2>1, <2>2, <2>3, <2>4 DEF SetDevOwner, Command, Types
<1>7. ASSUME NEW d \in Devices, NEW u \in users \ {rootUid}, NEW flags \in Given,
             SetDevicePolicyForUser(d, u, flags)
      PROVE  Types'
  <2> DEFINE r == RulesOf(d)
  <2>1. u \in Ids /\ flags \in Flags
    BY FlagsAreFlags DEF Types
  <2>2. r \in RulesSet /\ Ruled(r.user, u, flags) \in Partial(Ids, Given)
    <3>1. r \in RulesSet
      BY RulesOfType
    <3>. QED
      BY <2>1, <3>1, RuledType DEF RulesSet
  <2> DEFINE s == [r EXCEPT !.user = Ruled(@, u, flags)]
  <2>3. s \in RulesSet
    BY <2>2 DEF RulesSet
  <2>4. rules' \in Partial(Devices, RulesSet)
    <3>1. rules' = With(rules, d, s) /\ rules \in Partial(Devices, RulesSet)
      BY <1>7 DEF SetDevicePolicyForUser, Types
    <3> HIDE DEF s
    <3>. QED
      BY <2>3, <3>1, WithType
  <2>5. compiled[u].self \in Partial(Devices, Flags) /\ compiled[u].group \in Partial(Devices, Flags)
    BY <2>1 DEF Types, Policy
  <2>6. [self |-> With(compiled[u].self, d, flags), group |-> Without(compiled[u].group, d)] \in Policy
    BY <2>1, <2>5, WithType, WithoutType DEF Policy
  <2>7. compiled' \in [Ids -> Policy]
    BY <1>7, <2>1, <2>6 DEF SetDevicePolicyForUser, Types
  <2>8. todo' \in Todo
    BY <1>7 DEF SetDevicePolicyForUser, Command, Todo
  <2>. QED
    BY <1>7, <2>4, <2>7, <2>8 DEF SetDevicePolicyForUser, Command, Types
<1>8. ASSUME NEW d \in Devices, NEW g \in DOMAIN groups, NEW flags \in Given,
             SetDevicePolicyForUsersGroup(d, g, flags)
      PROVE  Types'
  <2> DEFINE r == RulesOf(d)
  <2>1. g \in Gids /\ flags \in Flags
    BY FlagsAreFlags, PartialIs DEF Types
  <2>2. r \in RulesSet /\ Ruled(r.group, g, flags) \in Partial(Gids, Given)
    <3>1. r \in RulesSet /\ r.group \in Partial(Gids, Given)
      BY RulesOfType DEF RulesSet
    <3>. QED
      BY <2>1, <3>1, RuledType
  <2> DEFINE s == [r EXCEPT !.group = Ruled(@, g, flags)]
  <2>3. s \in RulesSet
    BY <2>2 DEF RulesSet
  <2>4. rules' \in Partial(Devices, RulesSet)
    <3>1. rules' = With(rules, d, s) /\ rules \in Partial(Devices, RulesSet)
      BY <1>8 DEF SetDevicePolicyForUsersGroup, Types
    <3> HIDE DEF s
    <3>. QED
      BY <2>3, <3>1, WithType
  <2>5. \A u \in Ids : [compiled[u] EXCEPT !.group = With(@, d, flags)] \in Policy
    <3> SUFFICES ASSUME NEW u \in Ids
                 PROVE  [compiled[u] EXCEPT !.group = With(@, d, flags)] \in Policy
      OBVIOUS
    <3>1. compiled[u] \in Policy /\ compiled[u].group \in Partial(Devices, Flags)
      BY DEF Types, Policy
    <3>2. With(compiled[u].group, d, flags) \in Partial(Devices, Flags)
      BY <2>1, <3>1, WithType
    <3>. QED
      BY <3>1, <3>2 DEF Policy
  <2>6. compiled' \in [Ids -> Policy]
    BY <1>8, <2>5 DEF SetDevicePolicyForUsersGroup, Types
  <2>7. todo' \in Todo
    BY <1>8 DEF SetDevicePolicyForUsersGroup, Command, Todo
  <2>. QED
    BY <1>8, <2>4, <2>6, <2>7 DEF SetDevicePolicyForUsersGroup, Command, Types
<1>9. ASSUME WriteRoot PROVE Types'
  <2>1. rootUid \in Ids /\ "users" \in Files /\ faults' \in 0..MaxFaults
    BY <1>9, Constants DEF WriteRoot, rootUid, Ids, Files, Types
  <2>2. disk' \in Disks
    BY <1>9, <2>1 DEF WriteRoot, Types, Disks
  <2>. QED
    BY <1>9, <2>1, <2>2 DEF WriteRoot, memory, Types
<1>10. ASSUME Truncate PROVE Types'
  <2>1. Head(todo) \in Files
    BY <1>10, TodoIs DEF Truncate, Types, TodoFacts
  <2>2. disk' \in Disks
    BY <1>10, <2>1, TruncatedIs DEF Truncate, Rewritten
  <2>. QED
    BY <1>10, <2>2 DEF Truncate, memory, Types
<1>11. ASSUME NextFile, UNCHANGED memory, todo # <<>>
       PROVE  todo' \in Todo /\ cut' \in BOOLEAN /\ before' \in Before
  <2>1. Tail(todo) \in Todo
    BY <1>11, TodoIs DEF Types, TodoFacts
  <2>2. Now \in Before
    BY DEF Now, Before, Types
  <2>. QED
    BY <1>11, <2>1, <2>2 DEF NextFile, Types
<1>12. /\ users \in SUBSET Ids /\ DOMAIN groups \in SUBSET Gids
       /\ \A f : Issued(f) \in [uid : SUBSET Ids, gid : SUBSET Gids, forgotten : SUBSET Ids]
  BY PartialIs DEF Types, Issued
<1>13. ASSUME WriteFile PROVE Types'
  <2>1. Head(todo) \in Files
    BY <1>13, TodoIs DEF WriteFile, Types, TodoFacts
  <2>2. disk' \in Disks
    BY <1>13, <2>1, OnDiskIs DEF WriteFile, Rewritten
  <2>3. todo' \in Todo /\ cut' \in BOOLEAN /\ before' \in Before
    BY <1>11, <1>13 DEF WriteFile
  <2>4. issued' \in [uid : SUBSET Ids, gid : SUBSET Gids, forgotten : SUBSET Ids]
    BY <1>12, <1>13 DEF WriteFile
  <2>. QED
    BY <1>13, <2>2, <2>3, <2>4 DEF WriteFile, memory, Types
<1>14. ASSUME WritePart, cut => ~AtOnce(Head(todo)) PROVE Types'
  <2>1. Head(todo) \in Files
    BY <1>14, TodoIs DEF WritePart, Types, TodoFacts
  <2>2. disk' \in Disks
    <3>1. PICK D \in PartOnDisk(Head(todo)), T \in SUBSET {Head(todo)} :
            disk' = [D EXCEPT !.torn = @ \cup T]
      BY <1>14 DEF WritePart
    <3>2. Rewritten(Head(todo), disk')
      BY <1>14, <2>1, <3>1, PartOnDiskIs DEF WritePart
    <3>. QED
      BY <3>2 DEF Rewritten
  <2>3. todo' \in Todo /\ cut' \in BOOLEAN /\ before' \in Before
    BY <1>11, <1>14 DEF WritePart
  <2>4. issued' \in [uid : SUBSET Ids, gid : SUBSET Gids, forgotten : SUBSET Ids]
    BY <1>12, <1>14 DEF WritePart
  <2>5. faults' \in 0..MaxFaults /\ unsaved' \in SUBSET Files
    BY <1>14, <2>1, Constants DEF WritePart, Types
  <2>. QED
    BY <1>14, <2>2, <2>3, <2>4, <2>5 DEF WritePart, memory, Types
<1>15. ASSUME WriteFails PROVE Types'
  <2>1. Head(todo) \in Files /\ Tail(todo) \in Todo /\ <<>> \in Todo
    BY <1>15, TodoIs DEF WriteFails, Types, TodoFacts, Todo
  <2>2. faults' \in 0..MaxFaults
    BY <1>15, Constants DEF WriteFails, Types
  <2>3. CASE Head(todo) \in {"users", "groups"}
    <3>1. /\ users' = before.users /\ groups' = before.groups /\ lastId' = before.lastId
          /\ todo' = <<>> /\ before' = before /\ unsaved' = unsaved
      BY <1>15, <2>3 DEF WriteFails
    <3>. QED
      BY <1>15, <2>1, <2>2, <3>1 DEF WriteFails, Types, Before
  <2>4. CASE Head(todo) \notin {"users", "groups"}
    <3>1. /\ NextFile /\ unsaved' = unsaved \cup {Head(todo)}
          /\ UNCHANGED <<ready, users, groups, lastId, owner, rules, compiled, disk, issued>>
      BY <1>15, <2>4 DEF WriteFails
    <3>2. todo' \in Todo /\ cut' \in BOOLEAN /\ before' \in Before
      BY <1>11, <1>15, <3>1 DEF WriteFails, memory
    <3>. QED
      BY <2>1, <2>2, <3>1, <3>2 DEF Types
  <2>. QED
    BY <2>3, <2>4
<1>16. ASSUME Stop PROVE Types'
  <2>1. /\ EmptyFun \in Partial(Gids, Group) /\ EmptyFun \in Partial(Devices, Ids)
        /\ EmptyFun \in Partial(Devices, RulesSet)
    BY EmptyFunType
  <2>2. 0 \in Ids /\ <<>> \in Todo /\ faults' \in 0..MaxFaults
    BY <1>16, Constants DEF Stop, Types, Ids, Todo
  <2>3. issued' \in [uid : SUBSET Ids, gid : SUBSET Gids, forgotten : SUBSET Ids]
    BY <1>16 DEF Stop, StillKnown, Types
  <2>4. /\ users' = {} /\ groups' = EmptyFun /\ lastId' = [uid |-> 0, gid |-> 0]
        /\ before' = [users |-> users', groups |-> groups', lastId |-> lastId']
    BY <1>16 DEF Stop, Now
  <2>5. lastId' \in LastIds /\ before' \in Before
    BY <2>1, <2>2, <2>4 DEF LastIds, Before
  <2>. QED
    BY <1>16, <2>1, <2>2, <2>3, <2>4, <2>5, NoRulesType DEF Stop, Types
<1>. QED
  BY <1>1, <1>2, <1>3, <1>4, <1>5, <1>6, <1>7, <1>8, <1>9, <1>10, <1>13, <1>14, <1>15, <1>16
  DEF Next, UserCommand, GroupCommand, DevCommand
-----------------------------------------------------------------------------
(***************************************************************************)
(* What memory, files and history have of each other.                      *)
(***************************************************************************)
Writing(f) == todo # <<>> /\ Head(todo) = f

(* Nothing of the command is written yet. *)
FirstFile == todo = <<>> \/ Writing("users") \/ Writing("groups")

Lost(f) == (cut /\ Writing(f)) \/ f \in unsaved

Saved ==
  /\ ~ready => todo = <<>> /\ ~cut /\ unsaved = {}
  /\ cut => todo # <<>> /\ ~AtOnce(Head(todo))
  /\ ready /\ todo = <<>> => before = Now
  /\ ready => before.users \subseteq users /\ DOMAIN before.groups \subseteq DOMAIN groups
  /\ ready /\ FirstFile /\ ~Writing("users") => users = before.users
  /\ ready /\ "users" \notin unsaved =>
       /\ ~Writing("users") => disk.users = users
       /\ Writing("users") /\ ~cut => disk.users = before.users

(* The numbers in use are below those that memory will give next, and what *)
(* was ever given to a file is known to max_uid_gid, to the file or to     *)
(* memory, unless the file was lost.                                       *)
InMemory ==
  /\ \A u \in users : u <= lastId.uid
  /\ \A g \in DOMAIN groups : g <= lastId.gid
  /\ \A u \in before.users : u <= before.lastId.uid
  /\ \A g \in DOMAIN before.groups : g <= before.lastId.gid
  /\ \A i \in issued.uid : i <= lastId.uid /\ (i <= disk.ids.uid \/ i \in users)
  /\ \A i \in issued.gid : i <= lastId.gid /\ (i <= disk.ids.gid \/ i \in DOMAIN groups)

BeforeWriting ==
  /\ \A i \in issued.uid :
       i <= before.lastId.uid /\ (i <= disk.ids.uid \/ i \in before.users)
  /\ \A i \in issued.gid :
       i <= before.lastId.gid /\ (i <= disk.ids.gid \/ i \in DOMAIN before.groups)

Numbered ==
  /\ ready => InMemory /\ (FirstFile => BeforeWriting)
  /\ \A i \in issued.uid : i <= disk.ids.uid \/ i \in disk.users \/ Lost("users")
  /\ \A i \in issued.gid : i <= disk.ids.gid \/ i \in DOMAIN disk.groups \/ Lost("groups")

LEMMA AllNaturals ==
  ASSUME Types
  PROVE  /\ lastId.uid \in Nat /\ lastId.gid \in Nat
         /\ before.lastId.uid \in Nat /\ before.lastId.gid \in Nat
         /\ disk.ids.uid \in Nat /\ disk.ids.gid \in Nat
         /\ users \subseteq Nat /\ disk.users \subseteq Nat
         /\ DOMAIN groups \subseteq Nat /\ DOMAIN disk.groups \subseteq Nat
         /\ issued.uid \subseteq Nat /\ issued.gid \subseteq Nat
<1>1. Ids \subseteq Nat /\ Gids \subseteq Nat /\ Gids \cup {0} \subseteq Nat
  BY Constants DEF Ids, Gids
<1>2. DOMAIN groups \subseteq Gids /\ DOMAIN disk.groups \subseteq Gids
  BY PartialIs DEF Types, Disks
<1>3. users \subseteq Ids /\ disk.users \subseteq Ids
  BY DEF Types, Disks
<1>4. \A l \in LastIds : l.uid \in Nat /\ l.gid \in Nat
  <2>1. \A l \in LastIds : l.uid \in Ids /\ l.gid \in Gids \cup {0}
    BY DEF LastIds
  <2>. QED
    BY <1>1, <2>1
<1>5. lastId \in LastIds /\ before.lastId \in LastIds /\ disk.ids \in LastIds
  BY DEF Types, Before, Disks
<1>6. issued.uid \subseteq Ids /\ issued.gid \subseteq Gids
  BY DEF Types
<1>7. users \subseteq Nat /\ disk.users \subseteq Nat
  BY <1>1, <1>3
<1>8. DOMAIN groups \subseteq Nat /\ DOMAIN disk.groups \subseteq Nat
  BY <1>1, <1>2
<1>9. issued.uid \subseteq Nat /\ issued.gid \subseteq Nat
  BY <1>1, <1>6
<1>. QED
  BY <1>4, <1>5, <1>7, <1>8, <1>9

LEMMA TypesInit ==
  ASSUME Init
  PROVE  Types /\ Saved /\ Numbered
<1>1. EmptyFun \in Partial(Gids, Group) /\ EmptyFun \in Partial(Devices, Ids)
      /\ EmptyFun \in Partial(Devices, RulesSet)
  BY EmptyFunType
<1>2. 0 \in Ids /\ 0 \in 0..MaxFaults /\ <<>> \in Todo
  BY Constants DEF Ids, Todo
<1>3. lastId \in LastIds /\ disk.ids \in LastIds /\ disk.users = {}
  BY <1>2 DEF Init, LastIds
<1>4. before \in Before
  <2>1. before = [users |-> users, groups |-> groups, lastId |-> lastId]
    BY DEF Init, Now
  <2>. QED
    BY <1>1, <1>3, <2>1 DEF Init, Before
<1>5. disk \in Disks
  <2>1. [uid |-> 0, gid |-> 0] \in LastIds
    BY <1>2 DEF LastIds
  <2> HIDE DEF LastIds
  <2>. QED
    BY <1>1, <2>1 DEF Init, Disks
<1>6. Types
  BY <1>1, <1>2, <1>3, <1>4, <1>5, NoRulesType DEF Init, Types, rootUid
<1>7. Saved
  BY DEF Init, Saved
<1>8. Numbered
  BY DEF Init, Numbered, rootUid
<1>. QED
  BY <1>6, <1>7, <1>8

LEMMA HeadOfTodo ==
  ASSUME NEW a, NEW b
  PROVE  Head(<<a>>) = a /\ Head(<<a, b>>) = a /\ <<a>> # <<>> /\ <<a, b>> # <<>>
BY OneOrTwo

(* What a command finds, and leaves. *)
LEMMA CommandBegins ==
  ASSUME Types, Saved, NEW files, Command(files)
  PROVE  /\ ready /\ ready' /\ todo = <<>> /\ ~cut /\ ~cut' /\ todo' = files
         /\ before = Now /\ before.users = users /\ before.groups = groups
         /\ before.lastId = lastId /\ users = before.users
         /\ UNCHANGED <<disk, before, issued, unsaved>>
         /\ FirstFile /\ \A f : ~Writing(f)
BY DEF Command, Types, Saved, Now, FirstFile, Writing

(* What a command does to the users and groups, in general. *)
Extends(files) ==
  /\ Command(files)
  /\ files # <<>>
  /\ users \subseteq users' /\ users' \subseteq users \cup {lastId'.uid}
  /\ DOMAIN groups \subseteq DOMAIN groups'
  /\ DOMAIN groups' \subseteq DOMAIN groups \cup {lastId'.gid}
  /\ lastId'.uid \in {lastId.uid, lastId.uid + 1}
  /\ lastId'.gid \in {lastId.gid, lastId.gid + 1}
  /\ Head(files) # "users" => users' = users

LEMMA CommandsExtend ==
  ASSUME Types, UserCommand \/ GroupCommand \/ DevCommand
  PROVE  \E files : Extends(files)
<1>1. ASSUME CreateUser PROVE Extends(<<"users", "ids">>)
  BY <1>1, HeadOfTodo DEF CreateUser, Types, LastIds, Extends
<1>2. ASSUME SetPass PROVE Extends(<<"users">>)
  BY <1>2, HeadOfTodo DEF SetPass, Extends
<1>3. ASSUME NEW u \in users, CreateUsersGroup(u) PROVE Extends(<<"groups", "ids">>)
  <2>1. /\ lastId'.uid = lastId.uid /\ lastId'.gid = lastId.gid + 1 /\ users' = users
        /\ DOMAIN groups' = DOMAIN groups \cup {lastId'.gid}
    BY <1>3 DEF CreateUsersGroup, With, Types, LastIds
  <2>. QED
    BY <1>3, <2>1, HeadOfTodo DEF CreateUsersGroup, Extends
<1>4. ASSUME NEW g \in DOMAIN groups, NEW u \in users,
             AddUserToGroup(g, u) \/ DelUserFromGroup(g, u) \/ ChangeModerator(g, u)
      PROVE  Extends(<<"groups">>)
  <2>1. /\ Command(<<"groups">>) /\ users' = users /\ lastId' = lastId
        /\ \E x : groups' = [groups EXCEPT ![g] = x]
    BY <1>4 DEF AddUserToGroup, DelUserFromGroup, ChangeModerator
  <2>2. DOMAIN groups' = DOMAIN groups
    BY <2>1
  <2>. QED
    BY <2>1, <2>2, HeadOfTodo DEF Extends
<1>5. ASSUME NEW d, NEW f, Command(f), f = <<d>> \/ f = <<"owners">> \/ f = <<"owners", d>>,
             UNCHANGED <<users, groups, lastId>>
      PROVE  Extends(f)
  BY <1>5, HeadOfTodo DEF Extends
<1>6. ASSUME NEW d, NEW u, SetDevOwner(d, u) PROVE \E files : Extends(files)
  <2>1. Command(<<"owners", d>>) \/ Command(<<"owners">>)
    BY <1>6 DEF SetDevOwner
  <2>. QED
    BY <1>5, <1>6, <2>1 DEF SetDevOwner
<1>7. ASSUME NEW d, NEW x, NEW flags,
             SetDevicePolicyForUser(d, x, flags) \/ SetDevicePolicyForUsersGroup(d, x, flags)
      PROVE  Extends(<<d>>)
  BY <1>5, <1>7 DEF SetDevicePolicyForUser, SetDevicePolicyForUsersGroup
<1>. QED
  BY <1>1, <1>2, <1>3, <1>4, <1>6, <1>7 DEF UserCommand, GroupCommand, DevCommand

(* What the end of a file's writing does, whether it was written whole, in *)
(* part or, where the command goes on, not at all.                         *)
Done(f) ==
  /\ ready /\ todo # <<>> /\ f = Head(todo) /\ f \in Files
  /\ NextFile /\ UNCHANGED memory /\ ~cut'
  /\ ~Writing("users")' /\ ~Writing("groups")'
  /\ FirstFile' => todo' = <<>> /\ before' = Now
  /\ before' = Now \/ before' = before
  /\ Rewritten(f, disk') \/ (disk' = disk /\ f \notin {"users", "groups"})
  /\ issued' = Issued(f)
  /\ \A g : g # f => (g \in unsaved' <=> g \in unsaved)
  /\ f \in unsaved' \/ disk' = OnDisk(f)

LEMMA DoneIs ==
  ASSUME Types, Saved, WriteFile \/ WritePart \/ WriteFails
  PROVE  \/ Done(Head(todo))
         \/ WriteFails /\ Head(todo) \in {"users", "groups"}
<1> DEFINE f == Head(todo)
<1>1. /\ ready /\ todo # <<>> /\ TodoFacts(todo)
  BY TodoIs DEF WriteFile, WritePart, WriteFails, Types, Saved
<1>2. f \in Files /\ (Tail(todo) # <<>> => Head(Tail(todo)) \notin {"users", "groups"})
  BY <1>1 DEF TodoFacts
<1>3. ASSUME NextFile, UNCHANGED memory
      PROVE  /\ ~cut' /\ ~Writing("users")' /\ ~Writing("groups")'
             /\ FirstFile' => todo' = <<>> /\ before' = Now
             /\ before' = Now \/ before' = before
  BY <1>1, <1>2, <1>3 DEF NextFile, Writing, FirstFile
<1>4. CASE WriteFile
  <2>1. Rewritten(f, disk')
    BY <1>2, <1>4, OnDiskIs DEF WriteFile
  <2>. QED
    BY <1>1, <1>2, <1>3, <1>4, <2>1 DEF WriteFile, Done
<1>5. CASE WritePart
  <2>1. PICK D \in PartOnDisk(f), T \in SUBSET {f} : disk' = [D EXCEPT !.torn = @ \cup T]
    BY <1>5 DEF WritePart
  <2>2. ~AtOnce(f)
    BY <1>5 DEF WritePart, Saved
  <2>3. Rewritten(f, disk')
    BY <1>2, <2>1, <2>2, PartOnDiskIs
  <2>. QED
    BY <1>1, <1>2, <1>3, <1>5, <2>3 DEF WritePart, Done
<1>6. CASE WriteFails /\ f \notin {"users", "groups"}
  <2>1. /\ NextFile /\ unsaved' = unsaved \cup {f} /\ UNCHANGED <<memory, disk, issued>>
    BY <1>6 DEF WriteFails, memory
  <2>2. issued' = Issued(f)
    BY <1>6, <2>1 DEF Issued
  <2>. QED
    BY <1>1, <1>2, <1>3, <1>6, <2>1, <2>2 DEF Done
<1>. QED
  BY <1>4, <1>5, <1>6

(* The command gives up. *)
LEMMA GivesUp ==
  ASSUME Types, Saved, WriteFails, Head(todo) \in {"users", "groups"}
  PROVE  /\ ready /\ ready' /\ todo # <<>> /\ todo' = <<>> /\ ~cut /\ ~cut'
         /\ users' = before.users /\ groups' = before.groups /\ lastId' = before.lastId
         /\ UNCHANGED <<disk, before, issued, unsaved, owner, rules, compiled>>
         /\ before' = Now' /\ FirstFile /\ FirstFile'
         /\ Writing(Head(todo))
<1>1. UNCHANGED <<disk, before, issued, unsaved, owner, rules, compiled>>
  BY DEF WriteFails
<1>2. before = [users |-> before.users, groups |-> before.groups, lastId |-> before.lastId]
  BY DEF Types, Before
<1>. QED
  BY <1>1, <1>2 DEF WriteFails, Saved, Now, FirstFile, Writing

LEMMA SavedStep ==
  ASSUME Types, Saved, Next
  PROVE  Saved'
<1>1. ASSUME WriteRoot PROVE Saved'
  BY <1>1 DEF WriteRoot, Saved, memory
<1>2. ASSUME Start PROVE Saved'
  <2>1. /\ disk'.users = disk.users /\ users' = disk.users /\ groups' = disk.groups
        /\ before' = Now' /\ todo' = <<>> /\ ~cut' /\ ready'
    BY <1>2 DEF Start, Types, Disks, Saved
  <2>2. before'.users = users' /\ before'.groups = groups'
    BY <2>1 DEF Now
  <2>. QED
    BY <2>1, <2>2 DEF Saved, Writing
<1>3. ASSUME NEW files, Extends(files) PROVE Saved'
  <2>1. Command(files) /\ files # <<>>
    BY <1>3 DEF Extends
  <2>2. /\ ready /\ ready' /\ ~cut' /\ todo' = files /\ before' = before /\ disk' = disk
        /\ before.users = users /\ before.groups = groups /\ unsaved' = unsaved
        /\ todo = <<>> /\ ~Writing("users")
    BY <2>1, CommandBegins
  <2>3. "users" \notin unsaved => disk.users = users
    BY <2>2 DEF Saved
  <2>. QED
    BY <1>3, <2>1, <2>2, <2>3 DEF Saved, Writing, Extends
<1>4. ASSUME Truncate PROVE Saved'
  <2>1. /\ UNCHANGED memory /\ UNCHANGED <<todo, before, unsaved>> /\ ~cut /\ cut' /\ ready
        /\ todo # <<>> /\ ~AtOnce(Head(todo)) /\ disk' = Truncated(Head(todo))
        /\ Head(todo) \in Files
    BY <1>4, TodoIs DEF Truncate, Types, Saved, TodoFacts
  <2>2. ~Writing("users") => disk'.users = disk.users
    BY <2>1, TruncatedIs DEF Rewritten, Writing
  <2>3. ~AtOnce(Head(todo))'
    BY <2>1 DEF AtOnce, memory
  <2>. QED
    BY <2>1, <2>2, <2>3 DEF Saved, Writing, FirstFile, Now, memory
<1>5. ASSUME NEW f, Done(f) PROVE Saved'
  <2>1. /\ ready' /\ ~cut' /\ ~Writing("users")' /\ users' = users /\ groups' = groups
        /\ (FirstFile' \/ todo' = <<>>) => before' = Now'
    BY <1>5 DEF Done, memory, Now, FirstFile
  <2>2. /\ before'.users \subseteq users' /\ DOMAIN before'.groups \subseteq DOMAIN groups'
        /\ (FirstFile' \/ todo' = <<>>) => users' = before'.users
    BY <1>5, <2>1 DEF Done, Saved, Now
  <2>3. "users" \notin unsaved' => disk'.users = users
    <3>1. CASE f = "users"
      BY <1>5, <3>1, OnDiskIs DEF Done
    <3>2. CASE f # "users"
      <4>1. disk'.users = disk.users /\ ("users" \in unsaved' <=> "users" \in unsaved)
        BY <1>5, <3>2 DEF Done, Rewritten
      <4>2. ~Writing("users")
        BY <1>5, <3>2 DEF Done, Writing
      <4>. QED
        BY <1>5, <4>1, <4>2 DEF Done, Saved
    <3>. QED
      BY <3>1, <3>2
  <2>. QED
    BY <2>1, <2>2, <2>3 DEF Saved
<1>6. ASSUME WriteFails, Head(todo) \in {"users", "groups"} PROVE Saved'
  <2>1. /\ ready /\ ready' /\ todo # <<>> /\ todo' = <<>> /\ ~cut /\ ~cut'
        /\ users' = before.users /\ groups' = before.groups
        /\ UNCHANGED <<disk, before, unsaved>>
        /\ before' = Now' /\ FirstFile
    BY <1>6, GivesUp
  <2>2. "users" \notin unsaved => disk.users = before.users
    BY <2>1 DEF Saved
  <2>. QED
    BY <2>1, <2>2 DEF Saved, Writing
<1>7. ASSUME Stop PROVE Saved'
  BY <1>7 DEF Stop, Saved
<1>. QED
  BY <1>1, <1>2, <1>3, <1>4, <1>5, <1>6, <1>7, CommandsExtend, DoneIs DEF Next

LEMMA NumberedStep ==
  ASSUME Types, Types', Saved, Numbered, Next
  PROVE  Numbered'
<1>1. ASSUME WriteRoot PROVE Numbered'
  <2>1. /\ ~ready' /\ disk'.ids = disk.ids /\ disk.users \subseteq disk'.users
        /\ disk'.groups = disk.groups /\ UNCHANGED <<issued, unsaved, todo, cut>>
    BY <1>1 DEF WriteRoot, memory, Types, Disks
  <2>. QED
    BY <2>1 DEF Numbered, Lost, Writing
<1>2. ASSUME Start PROVE Numbered'
  <2>1. /\ users' = disk.users /\ groups' = disk.groups /\ lastId' = LastIdRead
        /\ before'.users = users' /\ before'.groups = groups' /\ before'.lastId = lastId'
        /\ disk'.users = disk.users /\ disk'.groups = disk.groups /\ disk'.ids = lastId'
        /\ issued' = issued /\ ~Lost("users") /\ ~Lost("groups")
    BY <1>2 DEF Start, Types, Disks, Saved, Lost, Now
  <2>2. /\ disk.ids.uid <= lastId'.uid /\ (\A u \in disk.users : u <= lastId'.uid)
        /\ disk.ids.gid <= lastId'.gid /\ (\A g \in DOMAIN disk.groups : g <= lastId'.gid)
        /\ lastId'.uid \in Nat /\ lastId'.gid \in Nat
    BY <2>1, LastIdReadType, Constants DEF Ids, Gids
  <2>3. (\A i \in issued.uid : i <= lastId'.uid) /\ \A i \in issued.gid : i <= lastId'.gid
    BY <2>1, <2>2, AllNaturals DEF Numbered
  <2>. QED
    BY <2>1, <2>2, <2>3 DEF Numbered, InMemory, BeforeWriting
<1>3. ASSUME NEW files, Extends(files) PROVE Numbered'
  <2>1. Command(files)
    BY <1>3 DEF Extends
  <2>2. /\ ready /\ FirstFile /\ ~cut /\ ~cut'
        /\ before.users = users /\ before.groups = groups /\ before.lastId = lastId
        /\ UNCHANGED <<disk, before, issued, unsaved>>
    BY <2>1, CommandBegins
  <2>3. InMemory /\ BeforeWriting
    BY <2>2 DEF Numbered
  <2>4. lastId'.uid \in Nat /\ lastId'.uid >= lastId.uid
        /\ lastId'.gid \in Nat /\ lastId'.gid >= lastId.gid
    BY <1>3, AllNaturals DEF Extends
  <2>5. InMemory'
    <3>1. (\A u \in users' : u <= lastId'.uid) /\ \A g \in DOMAIN groups' : g <= lastId'.gid
      BY <1>3, <2>3, <2>4, AllNaturals DEF Extends, InMemory
    <3>2. /\ \A i \in issued.uid : i <= lastId'.uid /\ (i <= disk.ids.uid \/ i \in users')
          /\ \A i \in issued.gid : i <= lastId'.gid /\ (i <= disk.ids.gid \/ i \in DOMAIN groups')
      BY <1>3, <2>3, <2>4, AllNaturals DEF Extends, InMemory
    <3>. QED
      BY <2>2, <2>3, <3>1, <3>2 DEF InMemory
  <2>6. BeforeWriting'
    BY <2>2, <2>3 DEF BeforeWriting
  <2>. QED
    BY <2>2, <2>5, <2>6 DEF Numbered, Lost
<1>4. ASSUME Truncate PROVE Numbered'
  <2>1. /\ UNCHANGED memory /\ UNCHANGED <<todo, before, unsaved, issued>> /\ ~cut /\ cut'
        /\ ~AtOnce(Head(todo)) /\ disk' = Truncated(Head(todo)) /\ Head(todo) \in Files
        /\ todo # <<>>
    BY <1>4, TodoIs DEF Truncate, Types, TodoFacts
  <2>2. Rewritten(Head(todo), disk') /\ Head(todo) # "ids"
    BY <2>1, TruncatedIs DEF AtOnce
  <2>3. /\ disk'.ids = disk.ids
        /\ ~Writing("users") => disk'.users = disk.users
        /\ ~Writing("groups") => disk'.groups = disk.groups
    BY <2>1, <2>2 DEF Rewritten, Writing
  <2>. QED
    BY <2>1, <2>3 DEF Numbered, InMemory, BeforeWriting, Lost, Writing, FirstFile, memory
<1>5. ASSUME NEW f, Done(f) PROVE Numbered'
  <2>1. /\ ready /\ UNCHANGED <<ready, users, groups, lastId>> /\ ~cut'
        /\ FirstFile' => before' = Now
        /\ before' = Now \/ before' = before
    BY <1>5 DEF Done, memory
  <2>2. /\ issued'.uid = IF f = "users" THEN issued.uid \cup users ELSE issued.uid
        /\ issued'.gid = IF f = "groups" THEN issued.gid \cup DOMAIN groups ELSE issued.gid
    BY <1>5 DEF Done, Issued, Types
  <2>3. disk'.ids = disk.ids \/ disk'.ids = lastId
    BY <1>5 DEF Done, Rewritten
  <2>4. /\ \A i \in issued'.uid : i <= lastId.uid /\ (i <= disk'.ids.uid \/ i \in users)
        /\ \A i \in issued'.gid : i <= lastId.gid /\ (i <= disk'.ids.gid \/ i \in DOMAIN groups)
    BY <2>1, <2>2, <2>3, AllNaturals DEF Numbered, InMemory
  <2>5. InMemory'
    BY <2>1, <2>4 DEF Numbered, InMemory, Now
  <2>6. FirstFile' => BeforeWriting'
    BY <2>1, <2>4 DEF BeforeWriting, Now
  <2>7. \A i \in issued'.uid : i <= disk'.ids.uid \/ i \in disk'.users \/ "users" \in unsaved'
    <3>1. CASE f = "users" /\ f \notin unsaved'
      <4>1. disk'.users = users
        BY <1>5, <3>1, OnDiskIs DEF Done
      <4>. QED
        BY <2>4, <4>1
    <3>2. CASE f # "users"
      <4>1. disk'.users = disk.users /\ ("users" \in unsaved' <=> "users" \in unsaved)
            /\ issued'.uid = issued.uid /\ ~Writing("users")
        BY <1>5, <2>2, <3>2 DEF Done, Rewritten, Writing
      <4>2. \A i \in issued.uid : i <= lastId.uid
        BY <2>1 DEF Numbered, InMemory
      <4>. QED
        BY <2>3, <4>1, <4>2 DEF Numbered, Lost
    <3>. QED
      BY <3>1, <3>2
  <2>8. \A i \in issued'.gid :
          i <= disk'.ids.gid \/ i \in DOMAIN disk'.groups \/ "groups" \in unsaved'
    <3>1. CASE f = "groups" /\ f \notin unsaved'
      <4>1. disk'.groups = groups
        BY <1>5, <3>1, OnDiskIs DEF Done
      <4>. QED
        BY <2>4, <4>1
    <3>2. CASE f # "groups"
      <4>1. disk'.groups = disk.groups /\ ("groups" \in unsaved' <=> "groups" \in unsaved)
            /\ issued'.gid = issued.gid /\ ~Writing("groups")
        BY <1>5, <2>2, <3>2 DEF Done, Rewritten, Writing
      <4>2. \A i \in issued.gid : i <= lastId.gid
        BY <2>1 DEF Numbered, InMemory
      <4>. QED
        BY <2>3, <4>1, <4>2 DEF Numbered, Lost
    <3>. QED
      BY <3>1, <3>2
  <2>. QED
    BY <2>5, <2>6, <2>7, <2>8 DEF Numbered, Lost
<1>6. ASSUME WriteFails, Head(todo) \in {"users", "groups"} PROVE Numbered'
  <2>1. /\ ready /\ todo' = <<>> /\ ~cut /\ ~cut' /\ FirstFile
        /\ users' = before.users /\ groups' = before.groups /\ lastId' = before.lastId
        /\ UNCHANGED <<disk, before, issued, unsaved>>
    BY <1>6, GivesUp
  <2>2. InMemory /\ BeforeWriting
    BY <2>1 DEF Numbered
  <2>3. InMemory' /\ BeforeWriting'
    BY <2>1, <2>2 DEF InMemory, BeforeWriting
  <2>. QED
    BY <2>1, <2>3 DEF Numbered, Lost
<1>7. ASSUME Stop PROVE Numbered'
  <2>1. /\ ~ready' /\ disk' = disk /\ ~cut' /\ ready /\ unsaved' = {}
        /\ issued'.uid = IF Lost("users")
                           THEN issued.uid \cap 0..disk.ids.uid ELSE issued.uid
        /\ issued'.gid = IF Lost("groups")
                           THEN issued.gid \cap 0..disk.ids.gid ELSE issued.gid
    BY <1>7 DEF Stop, StillKnown, Saved, Writing, Lost
  <2>2. \A i \in issued'.uid : i <= disk.ids.uid \/ i \in disk.users
    BY <2>1, AllNaturals DEF Numbered
  <2>3. \A i \in issued'.gid : i <= disk.ids.gid \/ i \in DOMAIN disk.groups
    BY <2>1, AllNaturals DEF Numbered
  <2>. QED
    BY <2>1, <2>2, <2>3 DEF Numbered
<1>. QED
  BY <1>1, <1>2, <1>3, <1>4, <1>5, <1>6, <1>7, CommandsExtend, DoneIs DEF Next

LEMMA Unchanged ==
  ASSUME Types, Saved, Numbered, UNCHANGED vars
  PROVE  Types' /\ Saved' /\ Numbered'
<1> USE DEF vars, memory
<1>1. Types'
  BY DEF Types
<1>2. Saved'
  BY DEF Saved, Writing, FirstFile, Now, AtOnce
<1>3. Numbered'
  BY DEF Numbered, InMemory, BeforeWriting, FirstFile, Lost, Writing
<1>. QED
  BY <1>1, <1>2, <1>3

Kept == Types /\ Saved /\ Numbered

LEMMA KeptStep ==
  ASSUME Kept, Next
  PROVE  Kept'
<1>1. Types'
  BY TypesStep DEF Kept, Saved
<1>. QED
  BY <1>1, SavedStep, NumberedStep DEF Kept

LEMMA Invariant == Spec => []Kept
<1>1. Init => Kept
  BY TypesInit DEF Kept
<1>2. Kept /\ [Next]_vars => Kept'
  BY KeptStep, Unchanged DEF Kept
<1>. QED
  BY <1>1, <1>2, PTL DEF Spec

(* The state of AccessMgr has its types in every behaviour. *)
THEOREM TypeCorrect == Spec => []TypeOK
<1>1. Kept => TypeOK
  BY TypesAreTypeOK DEF Kept
<1>. QED
  BY <1>1, Invariant, PTL

(* IdsAreNew, for any number of stops and failures: createUser and         *)
(* createUsersGroup go beyond every id that max_uid_gid, the users and     *)
(* groups themselves or memory remember, and the ids that none of them     *)
(* remembers any more are those that StillKnown leaves out.                *)
THEOREM IdsCorrect == Spec => IdsAreNew
<1> DEFINE Fresh == ready /\ ready' =>
             /\ lastId'.uid > lastId.uid => lastId'.uid \notin issued.uid
             /\ lastId'.gid > lastId.gid => lastId'.gid \notin issued.gid
<1>1. ASSUME Kept, [Next]_vars PROVE [Fresh]_vars
  <2> SUFFICES ASSUME Next, ready, ready' PROVE Fresh
    BY <1>1
  <2> USE <1>1 DEF Kept
  <2>1. (\A i \in issued.uid : i <= lastId.uid) /\ \A i \in issued.gid : i <= lastId.gid
    BY DEF Numbered, InMemory
  <2>2. CASE lastId' = lastId
    BY <2>2, AllNaturals
  <2>3. ASSUME NEW files, Extends(files) PROVE Fresh
    BY <2>1, <2>3, AllNaturals DEF Extends
  <2>4. ASSUME WriteFails, Head(todo) \in {"users", "groups"} PROVE Fresh
    BY <2>1, <2>4, GivesUp, AllNaturals
  <2>. QED
    BY <2>2, <2>3, <2>4, CommandsExtend, DoneIs
    DEF Next, WriteRoot, Start, Truncate, Done, memory, Stop
<1>. QED
  BY <1>1, Invariant, PTL DEF Spec, IdsAreNew
-----------------------------------------------------------------------------
(***************************************************************************)
(* What keeps the server from starting.                                    *)
(***************************************************************************)
(* The users that were ever given to the users' file. *)
Ever == issued.uid \cup issued.forgotten

NamedFiles ==
  /\ rootUid \in Ever /\ disk.users \subseteq Ever
  /\ NamesIn(disk.groups, disk.owners, Ever)
  /\ \A d \in Devices : RuleNames(disk.rules[d], Ever)

NamedMemory ==
  /\ ~Writing("users") => users \subseteq Ever
  /\ before.users \subseteq Ever
  /\ NamesIn(groups, owner, Ever)
  /\ NamesIn(before.groups, owner, Ever)
  /\ \A d \in Devices : DOMAIN RulesOf(d).user \subseteq Ever

Named == NamedFiles /\ (ready => NamedMemory)

LEMMA CommandNames ==
  ASSUME Types, Saved, Named, UserCommand \/ GroupCommand \/ DevCommand
  PROVE  Named'
<1>1. ASSUME NEW files, Extends(files), NamesIn(groups', owner', Ever),
             \A d \in Devices : DOMAIN RulesOf(d)'.user \subseteq Ever,
             \A d \in DOMAIN owner' : owner'[d] \in Ever
      PROVE  Named'
  <2>1. Command(files) /\ files # <<>>
    BY <1>1 DEF Extends
  <2>2. /\ ready /\ todo' = files /\ before.users = users /\ before.groups = groups
        /\ UNCHANGED <<disk, before, issued>> /\ Ever' = Ever /\ ~Writing("users")
    BY <2>1, CommandBegins DEF Ever
  <2>3. users \subseteq Ever
    BY <2>2 DEF Named, NamedMemory
  <2>4. ~Writing("users")' => users' \subseteq Ever
    BY <1>1, <2>1, <2>2, <2>3 DEF Extends, Writing
  <2>5. NamesIn(before'.groups, owner', Ever)
    BY <1>1, <2>2 DEF Named, NamedMemory, NamesIn
  <2>6. NamedMemory'
    BY <1>1, <2>2, <2>3, <2>4, <2>5 DEF NamedMemory
  <2>7. NamedFiles'
    BY <2>2 DEF Named, NamedFiles
  <2>. QED
    BY <2>6, <2>7 DEF Named
<1>2. PICK files : Extends(files)
  BY CommandsExtend
<1>3. NamedMemory /\ users \subseteq Ever
  <2>1. ready /\ ~Writing("users")
    BY <1>2, CommandBegins DEF Extends
  <2>. QED
    BY <2>1 DEF Named, NamedMemory
<1>4. NamesIn(groups, owner, Ever) /\ \A d \in DOMAIN owner : owner[d] \in Ever
  BY <1>3 DEF NamedMemory, NamesIn
<1>5. (\A d \in Devices : DOMAIN RulesOf(d).user \subseteq Ever)
  BY <1>3 DEF NamedMemory
<1>6. CASE CreateUser \/ SetPass
  <2>1. UNCHANGED <<groups, owner, rules>>
    BY <1>6 DEF CreateUser, SetPass
  <2>2. \A d \in Devices : RulesOf(d)' = RulesOf(d)
    BY <2>1 DEF RulesOf
  <2>. QED
    BY <1>1, <1>2, <1>4, <1>5, <2>1, <2>2
<1>7. ASSUME NEW u \in users, CreateUsersGroup(u) PROVE Named'
  <2> DEFINE g == lastId'.gid
  <2>1. /\ UNCHANGED <<owner, rules>> /\ DOMAIN groups' = DOMAIN groups \cup {g}
        /\ groups'[g] = [moderator |-> u, uids |-> {u}]
        /\ \A h \in DOMAIN groups \ {g} : groups'[h] = groups[h]
    BY <1>7 DEF CreateUsersGroup, With
  <2>2. groups'[g].moderator \in Ever /\ groups'[g].uids \subseteq Ever
    BY <1>3, <2>1
  <2>3. NamesIn(groups', owner', Ever)
    <3> HIDE DEF g
    <3>. QED
      BY <1>4, <2>1, <2>2 DEF NamesIn
  <2>4. \A d \in Devices : RulesOf(d)' = RulesOf(d)
    BY <2>1 DEF RulesOf
  <2>. QED
    BY <1>1, <1>2, <1>4, <1>5, <2>1, <2>3, <2>4
<1>8. ASSUME NEW g \in DOMAIN groups, NEW u \in users,
             AddUserToGroup(g, u) \/ DelUserFromGroup(g, u) \/ ChangeModerator(g, u)
      PROVE  Named'
  <2>1. UNCHANGED <<owner, rules>>
    BY <1>8 DEF AddUserToGroup, DelUserFromGroup, ChangeModerator
  <2>2. groups[g] \in Group
    BY PartialIs DEF Types
  <2>3. /\ DOMAIN groups' = DOMAIN groups
        /\ \A h \in DOMAIN groups \ {g} : groups'[h] = groups[h]
        /\ \/ groups'[g] = [groups[g] EXCEPT !.uids = @ \cup {u}]
           \/ groups'[g] = [groups[g] EXCEPT !.uids = @ \ {u}]
           \/ groups'[g] = [groups[g] EXCEPT !.moderator = u]
    BY <1>8 DEF AddUserToGroup, DelUserFromGroup, ChangeModerator
  <2>4. groups'[g].moderator \in Ever /\ groups'[g].uids \subseteq Ever
    BY <1>3, <1>4, <2>2, <2>3 DEF NamesIn, Group
  <2>5. NamesIn(groups', owner', Ever)
    BY <1>4, <2>1, <2>3, <2>4 DEF NamesIn
  <2>6. \A d \in Devices : RulesOf(d)' = RulesOf(d)
    BY <2>1 DEF RulesOf
  <2>. QED
    BY <1>1, <1>2, <1>4, <1>5, <2>1, <2>5, <2>6
<1>9. ASSUME NEW d \in Devices, NEW u \in users, SetDevOwner(d, u) PROVE Named'
  <2>1. /\ groups' = groups /\ DOMAIN owner' = DOMAIN owner \cup {d}
        /\ owner'[d] = u /\ \A e \in DOMAIN owner \ {d} : owner'[e] = owner[e]
    BY <1>9 DEF SetDevOwner, With
  <2>2. NamesIn(groups', owner', Ever) /\ \A e \in DOMAIN owner' : owner'[e] \in Ever
    BY <1>3, <1>4, <2>1 DEF NamesIn
  <2>3. \A e \in Devices : DOMAIN RulesOf(e)'.user \subseteq DOMAIN RulesOf(e).user
    <3>1. /\ DOMAIN rules' = DOMAIN rules \ {d}
          /\ \A e \in DOMAIN rules' : rules'[e] = rules[e]
      BY <1>9 DEF SetDevOwner, Without, Restrict
    <3>. QED
      BY <3>1, EmptyFunType DEF RulesOf, NoRules
  <2>4. \A e \in Devices : DOMAIN RulesOf(e)'.user \subseteq Ever
    BY <1>5, <2>3
  <2>. QED
    BY <1>1, <1>2, <2>2, <2>4
<1>10. ASSUME NEW d \in Devices, NEW s, rules' = With(rules, d, s),
              DOMAIN s.user \subseteq Ever, UNCHANGED <<groups, owner>>
       PROVE  Named'
  <2>1. RulesOf(d)' = s /\ \A e \in Devices \ {d} : RulesOf(e)' = RulesOf(e)
    BY <1>10 DEF With, RulesOf
  <2>2. \A e \in Devices : DOMAIN RulesOf(e)'.user \subseteq Ever
    BY <1>5, <1>10, <2>1
  <2>. QED
    BY <1>1, <1>2, <1>4, <1>10, <2>2
<1>11. ASSUME NEW d \in Devices, NEW u \in users \ {rootUid}, NEW flags \in Given,
              SetDevicePolicyForUser(d, u, flags)
       PROVE  Named'
  <2> DEFINE r == RulesOf(d)
             s == [r EXCEPT !.user = Ruled(@, u, flags)]
  <2>1. r \in RulesSet /\ DOMAIN r.user \subseteq Ever
    BY <1>5, RulesOfType
  <2>2. DOMAIN Ruled(r.user, u, flags) \subseteq DOMAIN r.user \cup {u}
    BY DEF Ruled, With, Without, Restrict
  <2>3. DOMAIN s.user \subseteq Ever
    <3>1. s.user = Ruled(r.user, u, flags)
      BY <2>1 DEF RulesSet
    <3>. QED
      BY <1>3, <2>1, <2>2, <3>1
  <2>4. rules' = With(rules, d, s) /\ UNCHANGED <<groups, owner>>
    BY <1>11 DEF SetDevicePolicyForUser
  <2> HIDE DEF s
  <2>. QED
    BY <1>10, <2>3, <2>4
<1>12. ASSUME NEW d \in Devices, NEW g \in DOMAIN groups, NEW flags \in Given,
              SetDevicePolicyForUsersGroup(d, g, flags)
       PROVE  Named'
  <2> DEFINE r == RulesOf(d)
             s == [r EXCEPT !.group = Ruled(@, g, flags)]
  <2>1. r \in RulesSet /\ DOMAIN r.user \subseteq Ever
    BY <1>5, RulesOfType
  <2>2. s.user = r.user
    BY <2>1 DEF RulesSet
  <2>3. rules' = With(rules, d, s) /\ UNCHANGED <<groups, owner>>
    BY <1>12 DEF SetDevicePolicyForUsersGroup
  <2> HIDE DEF s
  <2>. QED
    BY <1>10, <2>1, <2>2, <2>3
<1>. QED
  BY <1>6, <1>7, <1>8, <1>9, <1>11, <1>12 DEF UserCommand, GroupCommand, DevCommand

LEMMA NamedStep ==
  ASSUME Types, Saved, Named, Next
  PROVE  Named'
<1>1. ASSUME WriteRoot PROVE Named'
  <2>1. /\ ~ready' /\ issued' = issued /\ disk'.users \subseteq disk.users \cup {rootUid}
        /\ disk'.groups = disk.groups /\ disk'.owners = disk.owners /\ disk'.rules = disk.rules
    BY <1>1 DEF WriteRoot, memory, Types, Disks
  <2>. QED
    BY <2>1 DEF Named, NamedFiles, Ever
<1>2. ASSUME Start PROVE Named'
  <2>1. /\ users' = disk.users /\ groups' = disk.groups /\ owner' = disk.owners
        /\ rules' = RulesRead /\ before'.users = users' /\ before'.groups = groups'
        /\ disk'.users = disk.users /\ disk'.groups = disk.groups
        /\ disk'.owners = disk.owners /\ disk'.rules = disk.rules /\ Ever' = Ever
    BY <1>2 DEF Start, Types, Disks, Now, Ever
  <2>2. \A d \in Devices : DOMAIN RulesOf(d)'.user \subseteq Ever
    <3> SUFFICES ASSUME NEW d \in Devices PROVE DOMAIN RulesOf(d)'.user \subseteq Ever
      OBVIOUS
    <3>1. CASE d \in DOMAIN RulesRead
      <4> DEFINE f == disk.rules[d].user
      <4>1. disk.rules[d] # None /\ RulesRead[d].user = Restrict(f, DOMAIN f \cap Known)
        BY <3>1 DEF RulesRead
      <4>2. DOMAIN RulesRead[d].user \subseteq DOMAIN f
        <5> HIDE DEF f
        <5>. QED
          BY <4>1 DEF Restrict
      <4>3. DOMAIN f \subseteq Ever
        BY <4>1 DEF Named, NamedFiles, RuleNames
      <4>. QED
        BY <2>1, <3>1, <4>2, <4>3 DEF RulesOf
    <3>2. CASE d \notin DOMAIN RulesRead
      BY <2>1, <3>2, EmptyFunType DEF RulesOf, NoRules
    <3>. QED
      BY <3>1, <3>2
  <2>3. NamedMemory'
    BY <2>1, <2>2 DEF Named, NamedFiles, NamedMemory
  <2>. QED
    BY <2>1, <2>3 DEF Named, NamedFiles
<1>3. CASE UserCommand \/ GroupCommand \/ DevCommand
  BY <1>3, CommandNames
<1>4. ASSUME Truncate PROVE Named'
  <2>1. /\ UNCHANGED memory /\ UNCHANGED <<todo, before, issued>> /\ ready /\ Ever' = Ever
        /\ ~AtOnce(Head(todo)) /\ disk' = Truncated(Head(todo)) /\ Head(todo) \in Files
    BY <1>4, TodoIs DEF Truncate, Types, TodoFacts, Saved, Ever
  <2>2. Rewritten(Head(todo), disk') /\ (Head(todo) = "users" => disk'.users = {})
    BY <2>1, TruncatedIs
  <2>3. NamedMemory
    BY <2>1 DEF Named
  <2>4. NamedMemory'
    BY <2>1, <2>3 DEF NamedMemory, Writing, RulesOf, memory
  <2>5. disk'.users \subseteq Ever
    BY <2>2 DEF Rewritten, Named, NamedFiles
  <2>6. NamesIn(disk'.groups, disk'.owners, Ever)
    BY <2>2, <2>3 DEF Rewritten, Named, NamedFiles, NamedMemory
  <2>7. \A d \in Devices : RuleNames(disk'.rules[d], Ever)
    BY <2>2, <2>3 DEF Rewritten, Named, NamedFiles, NamedMemory
  <2>. QED
    BY <2>1, <2>4, <2>5, <2>6, <2>7 DEF Named, NamedFiles
<1>5. ASSUME NEW f, Done(f) PROVE Named'
  <2>1. /\ ready /\ UNCHANGED <<ready, users, groups, owner, rules>> /\ ~Writing("users")'
        /\ before' = Now \/ before' = before
        /\ f = Head(todo) /\ todo # <<>>
    BY <1>5 DEF Done, memory
  <2>2. Ever \subseteq Ever' /\ (f = "users" => users \subseteq Ever')
    BY <1>5 DEF Done, Issued, Types, Ever
  <2>3. NamedMemory
    BY <2>1 DEF Named
  <2>4. users \subseteq Ever'
    BY <2>1, <2>2, <2>3 DEF NamedMemory, Writing
  <2>5. NamesIn(groups, owner, Ever') /\ NamesIn(before.groups, owner, Ever')
    BY <2>2, <2>3, NamesInMore DEF NamedMemory
  <2>6. \A d \in Devices : DOMAIN RulesOf(d).user \subseteq Ever'
    BY <2>2, <2>3 DEF NamedMemory
  <2>7. NamedMemory'
    BY <2>1, <2>2, <2>3, <2>4, <2>5, <2>6 DEF NamedMemory, Now, RulesOf
  <2>8. NamesIn(disk.groups, disk.owners, Ever')
    BY <2>2, NamesInMore DEF Named, NamedFiles
  <2>9. \A d \in Devices : RuleNames(disk.rules[d], Ever')
    BY <2>2 DEF Named, NamedFiles, RuleNames
  <2>10. disk'.users \subseteq Ever' /\ NamesIn(disk'.groups, disk'.owners, Ever')
    BY <1>5, <2>2, <2>4, <2>5, <2>8 DEF Done, Rewritten, Named, NamedFiles
  <2>11. \A d \in Devices : RuleNames(disk'.rules[d], Ever')
    BY <1>5, <2>6, <2>9 DEF Done, Rewritten
  <2>. QED
    BY <2>2, <2>7, <2>10, <2>11 DEF Named, NamedFiles
<1>6. ASSUME WriteFails, Head(todo) \in {"users", "groups"} PROVE Named'
  <2>1. /\ ready /\ users' = before.users /\ groups' = before.groups
        /\ UNCHANGED <<disk, before, issued, owner, rules>> /\ Ever' = Ever
    BY <1>6, GivesUp DEF Ever
  <2>2. NamedMemory'
    BY <2>1 DEF Named, NamedMemory, RulesOf
  <2>. QED
    BY <2>1, <2>2 DEF Named, NamedFiles
<1>7. ASSUME Stop PROVE Named'
  <2>1. ~ready' /\ disk' = disk
    BY <1>7 DEF Stop
  <2>2. Ever' = Ever
    BY <1>7 DEF Stop, StillKnown, Ever, Types
  <2>. QED
    BY <2>1, <2>2 DEF Named, NamedFiles
<1>. QED
  BY <1>1, <1>2, <1>3, <1>4, <1>5, <1>6, <1>7, DoneIs DEF Next

LEMMA NamedInit ==
  ASSUME Init
  PROVE  Named
<1>1. DOMAIN EmptyFun = {} /\ ~ready
  BY EmptyFunType DEF Init
<1>2. /\ disk.users = {} /\ disk.groups = EmptyFun /\ disk.owners = EmptyFun
      /\ \A d \in Devices : disk.rules[d] = None
  BY DEF Init
<1>3. rootUid \in Ever
  BY DEF Init, Ever
<1>4. \A U : NamesIn(EmptyFun, EmptyFun, U)
  BY <1>1 DEF NamesIn
<1>. QED
  BY <1>1, <1>2, <1>3, <1>4 DEF Named, NamedFiles, RuleNames

LEMMA NamedUnchanged ==
  ASSUME Named, UNCHANGED vars
  PROVE  Named'
BY DEF Named, NamedFiles, NamedMemory, Ever, Writing, RulesOf, vars, memory

(* ServerStartsAgain, for any number of stops, failures and partial        *)
(* writes: moderators, members, owners and rules name only users who were  *)
(* once given to the users' file, in memory and in every file, so that a   *)
(* start that is refused finds a torn line, a memberless group, a rule for *)
(* a group, or misses such a user.                                         *)
THEOREM FatalCorrect == Spec => []ServerStartsAgain
<1> DEFINE I == Kept /\ Named
<1>1. Init => I
  BY TypesInit, NamedInit DEF Kept
<1>2. I /\ [Next]_vars => I'
  <2>1. ASSUME I, Next PROVE I'
    BY <2>1, KeptStep, NamedStep DEF Kept
  <2>2. ASSUME I, UNCHANGED vars PROVE I'
    BY <2>2, Unchanged, NamedUnchanged DEF Kept
  <2>. QED
    BY <2>1, <2>2
<1>3. I => ServerStartsAgain
  <2> SUFFICES ASSUME I, disk.torn = {}, Ever \subseteq Known,
                      \A g \in DOMAIN disk.groups : disk.groups[g].uids # {},
                      RulesReadable
               PROVE  Readable
    BY TypesAreTypeOK DEF ServerStartsAgain, RulesReadable, Kept, Ever
  <2>1. NamesIn(disk.groups, disk.owners, Known)
    BY NamesInMore DEF Named, NamedFiles
  <2>. QED
    BY <2>1 DEF Readable, GroupsReadable, OwnersReadable, NamesIn, Range
<1>. QED
  BY <1>1, <1>2, <1>3, PTL DEF Spec
-----------------------------------------------------------------------------
(***************************************************************************)
(* Rules and compiled policies.                                            *)
(***************************************************************************)
(* What a policy must have for a rule, or for the absence of one. *)
Agrees(self, d, user, u) ==
  /\ u \in DOMAIN user => d \in DOMAIN self /\ self[d] \in {user[u], Implied(user[u])}
  /\ u \notin DOMAIN user /\ d \in DOMAIN self => self[d] = {}

Ruling == ready => \A d \in Devices, u \in Ids : Agrees(compiled[u].self, d, RulesOf(d).user, u)

LEMMA CompileAgrees ==
  ASSUME NEW R, NEW G, NEW d, NEW u \in Ids
  PROVE  LET self == Compile(R, G)[u].self
         IN  IF d \in DOMAIN R THEN Agrees(self, d, R[d].user, u) ELSE d \notin DOMAIN self
<1> DEFINE own == {e \in DOMAIN R : u \in DOMAIN R[e].user}
           mine == [e \in own |-> Implied(R[e].user[u])]
<1>1. Compile(R, G)[u].self = mine
  BY DEF Compile
<1>2. d \in DOMAIN R => Agrees(mine, d, R[d].user, u)
  BY DEF Agrees
<1>. QED
  BY <1>1, <1>2

LEMMA CompiledAgrees ==
  ASSUME rules' \in Partial(Devices, RulesSet), NEW G, compiled' = Compile(rules', G)
  PROVE  Ruling'
<1> SUFFICES ASSUME NEW d \in Devices, NEW u \in Ids
             PROVE  Agrees(compiled'[u].self, d, RulesOf(d)'.user, u)
  BY DEF Ruling
<1>1. CASE d \in DOMAIN rules'
  BY <1>1, CompileAgrees DEF RulesOf
<1>2. CASE d \notin DOMAIN rules'
  <2>1. RulesOf(d)'.user = EmptyFun
    BY <1>2 DEF RulesOf, NoRules
  <2>2. d \notin DOMAIN compiled'[u].self
    BY <1>2, CompileAgrees
  <2>. QED
    BY <2>1, <2>2, EmptyFunType DEF Agrees
<1>. QED
  BY <1>1, <1>2

LEMMA RulingStep ==
  ASSUME Types, Types', Saved, Ruling, Next
  PROVE  Ruling'
<1>1. ASSUME Start PROVE Ruling'
  BY <1>1, CompiledAgrees DEF Start, Types
<1>2. ASSUME UNCHANGED <<ready, rules, compiled>> PROVE Ruling'
  BY <1>2 DEF Ruling, RulesOf
<1>3. ASSUME UserCommand \/ GroupCommand PROVE Ruling'
  BY <1>2, <1>3
  DEF UserCommand, CreateUser, SetPass, GroupCommand, CreateUsersGroup, AddUserToGroup,
      DelUserFromGroup, ChangeModerator, Command
<1>4. ASSUME NEW d \in Devices, NEW u \in users, SetDevOwner(d, u) PROVE Ruling'
  <2>1. CASE d \in DOMAIN rules
    BY <1>4, <2>1, CompiledAgrees DEF SetDevOwner, Types
  <2>2. CASE d \notin DOMAIN rules
    <3>1. DOMAIN rules' = DOMAIN rules /\ \A e \in DOMAIN rules : rules'[e] = rules[e]
      BY <1>4, <2>2 DEF SetDevOwner, Without, Restrict
    <3>2. \A e \in Devices : RulesOf(e)' = RulesOf(e)
      BY <3>1 DEF RulesOf
    <3>3. UNCHANGED <<ready, compiled>>
      BY <1>4, <2>2 DEF SetDevOwner, Command
    <3>. QED
      BY <3>2, <3>3 DEF Ruling
  <2>. QED
    BY <2>1, <2>2
<1>5. ASSUME NEW d \in Devices, NEW s, ready, ready', rules' = With(rules, d, s)
      PROVE  /\ RulesOf(d)' = s
             /\ \A e \in Devices \ {d} : RulesOf(e)' = RulesOf(e)
  BY <1>5 DEF With, RulesOf
<1>6. ASSUME NEW d \in Devices, NEW u \in users \ {rootUid}, NEW flags \in Given,
             SetDevicePolicyForUser(d, u, flags)
      PROVE  Ruling'
  <2> DEFINE user == RulesOf(d).user
             self == compiled[u].self
  <2>1. /\ ready /\ ready'
        /\ rules' = With(rules, d, [RulesOf(d) EXCEPT !.user = Ruled(@, u, flags)])
    BY <1>6 DEF SetDevicePolicyForUser, Command
  <2>2. /\ RulesOf(d)' = [RulesOf(d) EXCEPT !.user = Ruled(@, u, flags)]
        /\ \A e \in Devices \ {d} : RulesOf(e)' = RulesOf(e)
    BY <1>5, <2>1
  <2>3. RulesOf(d) \in RulesSet /\ u \in Ids
    BY RulesOfType DEF Types
  <2>4. user \in Partial(Ids, Given)
    BY <2>3 DEF RulesSet
  <2>5. RulesOf(d)'.user = Ruled(user, u, flags)
    BY <2>2, <2>3 DEF RulesSet
  <2>6. /\ compiled'[u].self = With(self, d, flags)
        /\ \A x \in Ids \ {u} : compiled'[x].self = compiled[x].self
    BY <1>6, <2>3 DEF SetDevicePolicyForUser, Types
  <2>7. /\ d \in DOMAIN compiled'[u].self /\ compiled'[u].self[d] = flags
        /\ \A e \in Devices \ {d} :
             /\ e \in DOMAIN compiled'[u].self <=> e \in DOMAIN self
             /\ e \in DOMAIN self => compiled'[u].self[e] = self[e]
    BY <2>6 DEF With
  <2>8. /\ DOMAIN RulesOf(d)'.user =
             IF flags = {} THEN DOMAIN user \ {u} ELSE DOMAIN user \cup {u}
        /\ flags # {} => RulesOf(d)'.user[u] = flags
        /\ \A z \in DOMAIN user \ {u} : RulesOf(d)'.user[z] = user[z]
    <3> HIDE DEF user
    <3>. QED
      BY <2>5 DEF Ruled, With, Without, Restrict
  <2>9. Agrees(compiled'[u].self, d, RulesOf(d)'.user, u)
    BY <2>7, <2>8 DEF Agrees
  <2>10. ASSUME NEW x \in Ids \ {u}
         PROVE  Agrees(compiled'[x].self, d, RulesOf(d)'.user, x)
    <3>1. Agrees(compiled[x].self, d, user, x)
      BY <2>1 DEF Ruling
    <3> HIDE DEF user
    <3>. QED
      BY <2>6, <2>8, <3>1 DEF Agrees
  <2>11. ASSUME NEW e \in Devices \ {d}, NEW x \in Ids
         PROVE  Agrees(compiled'[x].self, e, RulesOf(e)'.user, x)
    <3>1. Agrees(compiled[x].self, e, RulesOf(e).user, x)
      BY <2>1 DEF Ruling
    <3>. QED
      BY <2>2, <2>6, <2>7, <3>1 DEF Agrees
  <2>. QED
    BY <2>9, <2>10, <2>11 DEF Ruling
<1>7. ASSUME NEW d \in Devices, NEW g \in DOMAIN groups, NEW flags \in Given,
             SetDevicePolicyForUsersGroup(d, g, flags)
      PROVE  Ruling'
  <2>1. /\ ready /\ ready'
        /\ rules' = With(rules, d, [RulesOf(d) EXCEPT !.group = Ruled(@, g, flags)])
    BY <1>7 DEF SetDevicePolicyForUsersGroup, Command
  <2>2. /\ RulesOf(d)' = [RulesOf(d) EXCEPT !.group = Ruled(@, g, flags)]
        /\ \A e \in Devices \ {d} : RulesOf(e)' = RulesOf(e)
    BY <1>5, <2>1
  <2>3. \A e \in Devices : RulesOf(e)'.user = RulesOf(e).user
    BY <2>2, RulesOfType DEF RulesSet
  <2>4. \A u \in Ids : compiled'[u].self = compiled[u].self
    BY <1>7 DEF SetDevicePolicyForUsersGroup, Types, Policy
  <2>. QED
    BY <2>1, <2>3, <2>4 DEF Ruling
<1>8. ASSUME Stop PROVE Ruling'
  BY <1>8 DEF Stop, Ruling
<1>. QED
  BY <1>1, <1>2, <1>3, <1>4, <1>6, <1>7, <1>8
  DEF Next, DevCommand, WriteRoot, Truncate, WriteFile, WritePart, WriteFails, memory

-----------------------------------------------------------------------------
(***************************************************************************)
(* Rules and their files.                                                  *)
(***************************************************************************)
(* The rules f and g of users say the same of u. *)
Same(f, g, u) ==
  /\ u \in DOMAIN f <=> u \in DOMAIN g
  /\ u \in DOMAIN f => f[u] = g[u]

(* Users who were lost and whose number was given again may find rules of  *)
(* those who had it before.                                                *)
FilesAgree ==
  ready => \A d \in Devices \ (unsaved \cup Range(todo)), u \in users \ issued.forgotten :
             Same(FileOf(d), RulesOf(d).user, u)

LEMMA FilesAgreeStep ==
  ASSUME Kept, Named, FilesAgree, Next
  PROVE  FilesAgree'
<1> USE DEF Kept
<1>1. ASSUME Start PROVE FilesAgree'
  <2>1. /\ users' = disk.users /\ rules' = RulesRead /\ disk'.rules = disk.rules
    BY <1>1 DEF Start, Types, Disks
  <2> SUFFICES ASSUME NEW d \in Devices, NEW u \in disk.users
               PROVE  Same(FileOf(d)', RulesOf(d)'.user, u)
    BY <2>1 DEF FilesAgree
  <2>2. CASE disk.rules[d] = None
    <3>1. RulesOf(d)'.user = EmptyFun /\ FileOf(d)' = EmptyFun
      BY <2>1, <2>2 DEF RulesOf, NoRules, FileOf, RulesRead
    <3>. QED
      BY <3>1 DEF Same
  <2>3. CASE disk.rules[d] # None
    <3> DEFINE f == disk.rules[d].user
               g == Restrict(f, DOMAIN f \cap Known)
    <3>1. FileOf(d)' = f /\ RulesOf(d)'.user = g
      BY <2>1, <2>3 DEF RulesOf, FileOf, RulesRead
    <3>2. DOMAIN g = DOMAIN f \cap Known /\ \A x \in DOMAIN g : g[x] = f[x]
      <4> HIDE DEF f
      <4>. QED
        BY DEF Restrict
    <3>3. u \in Known
      BY DEF Known
    <3> HIDE DEF f, g
    <3>. QED
      BY <3>1, <3>2, <3>3 DEF Same
  <2>. QED
    BY <2>2, <2>3
<1>2. ASSUME NEW files, Extends(files)
      PROVE  /\ ready /\ ready' /\ todo = <<>> /\ todo' = files
             /\ UNCHANGED <<disk, issued, unsaved>>
             /\ \A d \in Devices : FileOf(d)' = FileOf(d)
  BY <1>2, CommandBegins DEF Extends, FileOf
<1>3. Range(<<>>) = {}
  BY DEF Range
<1>4. ASSUME NEW files, Extends(files), users' = users,
             \A d \in Devices \ Range(files) : RulesOf(d)' = RulesOf(d)
      PROVE  FilesAgree'
  <2> SUFFICES ASSUME NEW d \in Devices \ (unsaved' \cup Range(todo')),
                      NEW u \in users' \ issued'.forgotten
               PROVE  Same(FileOf(d)', RulesOf(d)'.user, u)
    BY DEF FilesAgree
  <2>1. d \in Devices \ (unsaved \cup Range(todo)) /\ u \in users \ issued.forgotten
    BY <1>2, <1>3, <1>4
  <2>2. Same(FileOf(d), RulesOf(d).user, u)
    BY <1>2, <1>4, <2>1 DEF FilesAgree
  <2>. QED
    BY <1>2, <1>4, <2>2
<1>5. PICK files : UserCommand \/ GroupCommand \/ DevCommand => Extends(files)
  BY CommandsExtend
<1>6. ASSUME SetPass \/ GroupCommand PROVE FilesAgree'
  <2>1. Extends(files)
    BY <1>5, <1>6 DEF UserCommand
  <2>2. UNCHANGED <<users, rules>>
    BY <1>6 DEF SetPass, GroupCommand, CreateUsersGroup, AddUserToGroup, DelUserFromGroup,
                ChangeModerator
  <2>3. \A d \in Devices : RulesOf(d)' = RulesOf(d)
    BY <2>2 DEF RulesOf
  <2>. QED
    BY <1>4, <2>1, <2>2, <2>3
<1>7. ASSUME CreateUser PROVE FilesAgree'
  <2>1. Extends(files) /\ UNCHANGED rules /\ users' = users \cup {lastId'.uid}
        /\ lastId'.uid = lastId.uid + 1
    BY <1>5, <1>7 DEF UserCommand, CreateUser, Types, LastIds
  <2> SUFFICES ASSUME NEW d \in Devices \ (unsaved' \cup Range(todo')),
                      NEW u \in users' \ issued'.forgotten
               PROVE  Same(FileOf(d)', RulesOf(d)'.user, u)
    BY DEF FilesAgree
  <2>2. FileOf(d)' = FileOf(d) /\ RulesOf(d)' = RulesOf(d)
    BY <1>2, <2>1 DEF RulesOf
  <2>3. CASE u \in users
    BY <1>2, <1>3, <2>1, <2>2, <2>3 DEF FilesAgree
  <2>4. CASE u = lastId'.uid
    <3>1. u \notin issued.uid
      BY <1>2, <2>1, <2>4, AllNaturals DEF Numbered, InMemory
    <3>2. u \notin Ever
      BY <1>2, <2>1, <3>1 DEF Ever
    <3>3. u \notin DOMAIN RulesOf(d).user
      BY <1>2, <2>1, <3>2 DEF Named, NamedMemory
    <3>4. u \notin DOMAIN FileOf(d)
      BY <3>2, EmptyFunType DEF FileOf, Named, NamedFiles, RuleNames
    <3>. QED
      BY <2>2, <3>3, <3>4 DEF Same
  <2>. QED
    BY <2>1, <2>3, <2>4
<1>8. ASSUME NEW d \in Devices, NEW fs, Extends(fs), d \in Range(fs), users' = users,
             \A e \in Devices \ {d} : RulesOf(e)' = RulesOf(e)
      PROVE  FilesAgree'
  BY <1>4, <1>8
<1>9. ASSUME NEW d, NEW fs, Command(fs), fs = <<d>> \/ fs = <<"owners">> \/ fs = <<"owners", d>>,
             UNCHANGED <<users, groups, lastId>>
      PROVE  Extends(fs)
  BY <1>9, HeadOfTodo DEF Extends
<1>10. ASSUME NEW d \in Devices, NEW u, SetDevOwner(d, u) PROVE FilesAgree'
  <2>1. users' = users /\ UNCHANGED <<groups, lastId>>
    BY <1>10 DEF SetDevOwner
  <2>2. \A e \in Devices \ {d} : RulesOf(e)' = RulesOf(e)
    BY <1>10 DEF SetDevOwner, Without, Restrict, RulesOf
  <2>3. CASE d \in DOMAIN rules
    <3>1. Extends(<<"owners", d>>)
      BY <1>9, <1>10, <2>1, <2>3 DEF SetDevOwner
    <3>2. Range(<<"owners", d>>) = {"owners", d}
      BY OneOrTwo
    <3>3. d \in Range(<<"owners", d>>)
      BY <3>2
    <3>. QED
      BY <1>8, <2>1, <2>2, <3>1, <3>3
  <2>4. CASE d \notin DOMAIN rules
    <3>1. Extends(<<"owners">>)
      BY <1>9, <1>10, <2>1, <2>4 DEF SetDevOwner
    <3>2. RulesOf(d)' = RulesOf(d)
      BY <1>10, <2>4 DEF SetDevOwner, Without, Restrict, RulesOf
    <3>. QED
      BY <1>4, <2>1, <2>2, <3>1, <3>2
  <2>. QED
    BY <2>3, <2>4
<1>11. ASSUME NEW d \in Devices, NEW x, NEW flags,
              SetDevicePolicyForUser(d, x, flags) \/ SetDevicePolicyForUsersGroup(d, x, flags)
       PROVE  FilesAgree'
  <2>1. /\ Command(<<d>>) /\ UNCHANGED <<users, groups, lastId>>
        /\ \E r : rules' = With(rules, d, r)
    BY <1>11 DEF SetDevicePolicyForUser, SetDevicePolicyForUsersGroup
  <2>2. Extends(<<d>>) /\ d \in Range(<<d>>)
    BY <1>9, <2>1, OneOrTwo
  <2>3. \A e \in Devices \ {d} : RulesOf(e)' = RulesOf(e)
    BY <2>1 DEF With, RulesOf
  <2>. QED
    BY <1>8, <2>1, <2>2, <2>3
<1>12. ASSUME Truncate PROVE FilesAgree'
  <2>1. /\ UNCHANGED memory /\ UNCHANGED <<todo, issued, unsaved>>
        /\ ~AtOnce(Head(todo)) /\ disk' = Truncated(Head(todo)) /\ Head(todo) \in Files
        /\ Head(todo) \in Range(todo)
    BY <1>12, TodoIs DEF Truncate, TodoFacts, Types
  <2>2. \A d \in Devices \ Range(todo) : disk'.rules[d] = disk.rules[d]
    BY <2>1, TruncatedIs DEF Rewritten
  <2>3. \A d \in Devices \ Range(todo) : FileOf(d)' = FileOf(d) /\ RulesOf(d)' = RulesOf(d)
    BY <2>1, <2>2 DEF FileOf, RulesOf, memory
  <2>. QED
    BY <2>1, <2>3 DEF FilesAgree, memory
<1>13. ASSUME NEW f, Done(f) PROVE FilesAgree'
  <2>1. /\ ready /\ UNCHANGED <<users, rules>> /\ f \in Files /\ issued'.forgotten = issued.forgotten
        /\ Range(todo) = {f} \cup Range(todo')
        /\ \A g : g # f => (g \in unsaved' <=> g \in unsaved)
        /\ \A d \in Devices : RulesOf(d)' = RulesOf(d)
    BY <1>13, TodoIs DEF Done, NextFile, TodoFacts, Types, memory, RulesOf, Issued
  <2> SUFFICES ASSUME NEW d \in Devices \ (unsaved' \cup Range(todo')),
                      NEW u \in users \ issued.forgotten
               PROVE  Same(FileOf(d)', RulesOf(d).user, u)
    BY <2>1 DEF FilesAgree
  <2>2. CASE d # f
    <3>1. disk'.rules[d] = disk.rules[d]
      BY <1>13, <2>2 DEF Done, Rewritten
    <3>2. Same(FileOf(d), RulesOf(d).user, u)
      BY <2>1, <2>2 DEF FilesAgree
    <3>. QED
      BY <3>1, <3>2 DEF FileOf
  <2>3. CASE d = f
    <3>1. disk' = OnDisk(f)
      BY <1>13, <2>3 DEF Done
    <3>2. \/ f \in DOMAIN rules /\ disk'.rules[f] = rules[f]
          \/ f \notin DOMAIN rules /\ disk'.rules[f] = None
      BY <2>1, <2>3, <3>1, OnDiskIs
    <3>3. f \in DOMAIN rules => rules[f] # None
      BY PartialIs, NoneAssumption DEF Types
    <3>4. FileOf(f)' = RulesOf(f).user
      BY <3>2, <3>3 DEF FileOf, RulesOf, NoRules
    <3>. QED
      BY <2>3, <3>4 DEF Same
  <2>. QED
    BY <2>2, <2>3
<1>14. ASSUME WriteFails, Head(todo) \in {"users", "groups"} PROVE FilesAgree'
  <2>1. /\ ready /\ todo' = <<>> /\ users' = before.users /\ before.users \subseteq users
        /\ UNCHANGED <<disk, issued, unsaved, rules>>
    BY <1>14, GivesUp DEF Saved
  <2>2. Range(todo) \cap Devices = {}
    BY <1>14, TodoIs DEF WriteFails, TodoFacts, Types
  <2>. QED
    BY <2>1, <2>2 DEF FilesAgree, FileOf, RulesOf
<1>15. ASSUME Stop \/ WriteRoot PROVE FilesAgree'
  BY <1>15 DEF Stop, WriteRoot, memory, FilesAgree
<1>. QED
  BY <1>1, <1>6, <1>7, <1>10, <1>11, <1>12, <1>13, <1>14, <1>15, DoneIs
  DEF Next, UserCommand, DevCommand

(* OwnRulesSurviveRestart: the commands keep the compiled policies piece   *)
(* by piece in agreement with the rules, but for the flags that others     *)
(* imply, and the rules with the file of their device, so that a start     *)
(* gives every user what he has or what his flags imply.                   *)
THEOREM RulesCorrect == Spec => []OwnRulesSurviveRestart
<1> DEFINE I == Kept /\ Named /\ Ruling /\ FilesAgree
<1>1. Init => I
  <2>1. Init => ready = FALSE
    BY DEF Init
  <2>. QED
    BY <2>1, TypesInit, NamedInit DEF Kept, Ruling, FilesAgree
<1>2. I /\ [Next]_vars => I'
  <2>1. ASSUME I, Next PROVE I'
    BY <2>1, KeptStep, NamedStep, RulingStep, FilesAgreeStep DEF Kept
  <2>2. ASSUME I, UNCHANGED vars PROVE I'
    BY <2>2, Unchanged, NamedUnchanged
    DEF Kept, Ruling, FilesAgree, FileOf, RulesOf, vars, memory
  <2>. QED
    BY <2>1, <2>2
<1>3. I => OwnRulesSurviveRestart
  <2> SUFFICES ASSUME I, ready, todo = <<>>, NEW d \in Devices,
                      NEW u \in users \ issued.forgotten,
                      d \notin unsaved, "users" \notin unsaved,
                      u \in DOMAIN RulesOf(d).user \/ d \notin DOMAIN compiled[u].group
               PROVE  LET now  == Effective(compiled[u], d)
                          then == Effective(Compile(RulesRead, disk.groups)[u], d)
                      IN  now \subseteq then /\ then \subseteq Implied(now)
    BY DEF OwnRulesSurviveRestart
  <2> DEFINE p == Compile(RulesRead, disk.groups)[u]
             user == RulesOf(d).user
             mine == compiled[u].self
  <2>1. u \in Ids /\ Agrees(mine, d, user, u)
    BY DEF Kept, Types, Ruling
  <2>2. disk.users = users /\ u \in Known
    BY DEF Kept, Saved, Writing, Known
  <2>3. Same(FileOf(d), user, u)
    <3>1. Range(<<>>) = {}
      BY DEF Range
    <3>. QED
      BY <3>1 DEF FilesAgree
  <2>4. ASSUME u \in DOMAIN user
        PROVE  Effective(p, d) = Implied(user[u])
    <3> DEFINE f == disk.rules[d].user
               g == Restrict(f, DOMAIN f \cap Known)
    <3>1. disk.rules[d] # None /\ f = FileOf(d) /\ u \in DOMAIN f /\ f[u] = user[u]
      BY <2>3, <2>4, EmptyFunType DEF FileOf, Same
    <3>2. d \in DOMAIN RulesRead /\ RulesRead[d].user = g
      BY <3>1 DEF RulesRead
    <3>3. u \in DOMAIN g /\ g[u] = user[u]
      <4> HIDE DEF f, user
      <4>. QED
        BY <2>2, <3>1 DEF Restrict
    <3>4. d \in DOMAIN p.self /\ p.self[d] = Implied(RulesRead[d].user[u])
      <4> HIDE DEF g, f, user
      <4>. QED
        BY <2>1, <3>2, <3>3 DEF Compile
    <3> HIDE DEF p, g, f, user
    <3>. QED
      BY <3>2, <3>3, <3>4 DEF Effective
  <2>5. ASSUME u \notin DOMAIN user
        PROVE  Effective(p, d) = {}
    <3>1. d \in DOMAIN RulesRead => u \notin DOMAIN RulesRead[d].user
      <4> SUFFICES ASSUME d \in DOMAIN RulesRead PROVE u \notin DOMAIN RulesRead[d].user
        OBVIOUS
      <4> DEFINE f == disk.rules[d].user
      <4>1. disk.rules[d] # None /\ RulesRead[d].user = Restrict(f, DOMAIN f \cap Known)
        BY DEF RulesRead
      <4>2. u \notin DOMAIN f
        BY <2>3, <2>5, <4>1 DEF FileOf, Same
      <4>3. DOMAIN RulesRead[d].user \subseteq DOMAIN f
        <5> HIDE DEF f
        <5>. QED
          BY <4>1 DEF Restrict
      <4>. QED
        BY <4>2, <4>3
    <3>2. \A e \in DOMAIN RulesRead : DOMAIN RulesRead[e].group = {}
      BY RulesReadType, EmptyFunType DEF Kept
    <3>3. d \notin DOMAIN p.self
      BY <2>1, <3>1 DEF Compile
    <3>4. d \notin DOMAIN p.group
      BY <2>1, <3>2 DEF Compile
    <3> HIDE DEF p
    <3>. QED
      BY <3>3, <3>4 DEF Effective
  <2>6. CASE u \in DOMAIN user
    <3>1. Effective(compiled[u], d) \in {user[u], Implied(user[u])}
      BY <2>1, <2>6 DEF Agrees, Effective
    <3> HIDE DEF p, user
    <3>. QED
      BY <2>4, <2>6, <3>1 DEF Implied, p
  <2>7. CASE u \notin DOMAIN user
    <3>1. Effective(compiled[u], d) = {}
      BY <2>1, <2>7 DEF Agrees, Effective
    <3> HIDE DEF p, user
    <3>. QED
      BY <2>5, <2>7, <3>1 DEF Implied, p
  <2>. QED
    BY <2>6, <2>7
<1>. QED
  BY <1>1, <1>2, <1>3, PTL DEF Spec
===============================================================================
