------------------------------- MODULE AccessMgr -------------------------------
(***************************************************************************)
(* The users, groups of users, owners of devices and rules of devices that *)
(* the server keeps in memory and in files, and the policy of each user    *)
(* that it compiles from the rules.                                        *)
(*                                                                         *)
(* A file is written by truncating it and writing it anew, max_uid_gid is  *)
(* replaced at once; the program may stop in between, and nobody looks how *)
(* much of it was written.  A file that cannot be read keeps the server    *)
(* from starting, after readUsers may have written root to the users.      *)
(*                                                                         *)
(* Names and passwords are left out: a name is the id's.  Every command    *)
(* that changes anything is open to root, so that who calls makes no       *)
(* difference to what may happen; rules for root have no effect.  Users    *)
(* and groups are never deleted: `user del' is refused, `grp del' is until *)
(* users may manage groups, which nothing sets.                            *)
(***************************************************************************)
EXTENDS Naturals, Sequences, FiniteSets, FiniteSetsExt, Functions

CONSTANTS
  Devices,
  None,       \* a file that is not there; a device without rules
  MaxUsers,   \* bound: users created
  MaxGroups,  \* bound: groups created
  MaxFaults   \* bound: stops, and files that cannot be opened

ASSUME ConstantsAssumption ==
  /\ {MaxUsers, MaxGroups, MaxFaults} \subseteq Nat
  /\ Devices \cap {"users", "groups", "owners", "ids"} = {}

VARIABLES
  ready,
  users,      \* ids
  groups,     \* userGroups: the moderator and the members of each
  owner,      \* deviceOwners
  rules,      \* devicesPolicy
  compiled,   \* compiledUsersPolicy
  lastId,     \* maxUserId, maxUserGroupId
  disk,       \* the files
  todo,       \* the files that the command still has to write
  cut,        \* the first of them has been truncated
  before,     \* what the command puts back when it cannot store its change
  issued,     \* history: the ids that were ever stored (see StillKnown)
  unsaved,    \* history: files that hold less or other than memory since then
  faults      \* history: stops and failures so far

memory == <<ready, users, groups, owner, rules, compiled, lastId>>
vars   == <<memory, disk, todo, cut, before, issued, unsaved, faults>>

rootUid == 0
Ids  == 0..MaxUsers
Gids == 1..MaxGroups

(* EXECUTE_COMMANDS implies READ_STATE, as SETUP_STORAGES implies          *)
(* READ_STORAGES: the other pair behaves the same.                         *)
Flags == SUBSET {"EXECUTE_COMMANDS", "READ_STATE"}
Given == {{}, {"EXECUTE_COMMANDS"}}   \* the flags of a rule that is set
Implied(f) == IF "EXECUTE_COMMANDS" \in f THEN f \cup {"READ_STATE"} ELSE f

EmptyFun == [x \in {} |-> x]
Partial(S, T) == UNION {[D -> T] : D \in SUBSET S}
Without(f, x) == Restrict(f, DOMAIN f \ {x})
With(f, x, y) == [z \in DOMAIN f \cup {x} |-> IF z = x THEN y ELSE f[z]]

Group == [moderator : Ids, uids : SUBSET Ids]

(* userFlags and groupFlags of a device; selfPolicy and groupPolicy of a   *)
(* user.                                                                   *)
RulesSet == [user : Partial(Ids, Given), group : Partial(Gids, Given)]
Policy   == [self : Partial(Devices, Flags), group : Partial(Devices, Flags)]
NoRules  == [user |-> EmptyFun, group |-> EmptyFun]
NoPolicy == [self |-> EmptyFun, group |-> EmptyFun]

ASSUME NoneAssumption == None \notin RulesSet

Now == [users |-> users, groups |-> groups, lastId |-> lastId]

Files == {"users", "groups", "owners", "ids"} \cup Devices
-----------------------------------------------------------------------------
(* compileUsersPolicy.  Where several groups give a user a rule, the last  *)
(* one counts; an own rule replaces those of the groups.                   *)
Compile(R, G) ==
  [u \in Ids |->
    LET own == {d \in DOMAIN R : u \in DOMAIN R[d].user}
        of(d) == {g \in DOMAIN R[d].group : g \in DOMAIN G /\ u \in G[g].uids}
        shared == {d \in DOMAIN R \ own : of(d) # {}}
    IN  [self  |-> [d \in own |-> Implied(R[d].user[u])],
         group |-> [d \in shared |-> Implied(R[d].group[Max(of(d))])]]]

(* userCanAccessDevice, for a user who does not own the device. *)
Effective(policy, d) ==
  IF d \in DOMAIN policy.self THEN policy.self[d]
  ELSE IF d \in DOMAIN policy.group THEN policy.group[d]
  ELSE {}
-----------------------------------------------------------------------------
(* What the files hold once they are written. "torn" are those of which    *)
(* the last line is not whole.                                             *)
OnDisk(f) ==
  CASE f = "users"   -> [disk EXCEPT !.users = users]
    [] f = "groups"  -> [disk EXCEPT !.groups = groups]
    [] f = "owners"  -> [disk EXCEPT !.owners = owner]
    [] f = "ids"     -> [disk EXCEPT !.ids = lastId]
    [] f \in Devices -> [disk EXCEPT !.rules[f] =
                           IF f \in DOMAIN rules THEN rules[f] ELSE None,
                                     !.torn = @ \ {f}]

Truncated(f) ==
  CASE f = "users"   -> [disk EXCEPT !.users = {}, !.torn = @ \ {f}]
    [] f = "groups"  -> [disk EXCEPT !.groups = EmptyFun, !.torn = @ \ {f}]
    [] f = "owners"  -> [disk EXCEPT !.owners = EmptyFun, !.torn = @ \ {f}]
    [] f \in Devices -> [disk EXCEPT !.rules[f] = NoRules, !.torn = @ \ {f}]

(* What they hold when only a part could be written: the lines before one, *)
(* and of this one so much that it cannot be read (torn), nothing, or, of  *)
(* a group, some of its members and, of a rule, no flags.                  *)
Lines(fun, k) == Restrict(fun, {x \in DOMAIN fun : x < k})

UsersInPart == {{u \in users : u < k} : k \in users}

GroupsInPart ==
  {Lines(groups, k) : k \in DOMAIN groups}
  \cup {With(Lines(groups, k), k, [groups[k] EXCEPT !.uids = @ \cap U]) :
          k \in DOMAIN groups, U \in SUBSET Ids}

OwnersInPart == {Restrict(owner, D) : D \in SUBSET DOMAIN owner}

RulesInPart(r) ==
  {[user |-> EmptyFun, group |-> Lines(r.group, k)] : k \in DOMAIN r.group}
  \cup {[user |-> EmptyFun, group |-> With(Lines(r.group, k), k, {})] :
          k \in DOMAIN r.group}
  \cup {[r EXCEPT !.user = Lines(@, k)] : k \in DOMAIN r.user}
  \cup {[r EXCEPT !.user = With(Lines(@, k), k, {})] : k \in DOMAIN r.user}

PartOnDisk(f) ==
  CASE f = "users"   -> {[disk EXCEPT !.users = p] : p \in UsersInPart}
    [] f = "groups"  -> {[disk EXCEPT !.groups = p] : p \in GroupsInPart}
    [] f = "owners"  -> {[disk EXCEPT !.owners = p] : p \in OwnersInPart}
    [] f \in Devices -> {[disk EXCEPT !.rules[f] = p] : p \in RulesInPart(rules[f])}

Known == disk.users \cup {rootUid}

(* The tests of readUserGroups: a group without members cannot be read.    *)
GroupsReadable ==
  \A g \in DOMAIN disk.groups :
    /\ disk.groups[g].moderator \in Known
    /\ disk.groups[g].uids # {} /\ disk.groups[g].uids \subseteq Known

OwnersReadable == Range(disk.owners) \subseteq Known

(* readSingleDevicePolicies looks for the "g" of a rule for a group in the *)
(* field of the id: such a rule cannot be read.                            *)
RulesReadable ==
  \A d \in Devices : disk.rules[d] # None => disk.rules[d].group = EmptyFun

(* readConfigFile refuses a line with too few fields, and the lines'       *)
(* readers refuse an empty number.                                         *)
Readable == disk.torn = {} /\ GroupsReadable /\ OwnersReadable /\ RulesReadable

(* Rules of users that do not exist are ignored. *)
RulesRead ==
  [d \in {x \in Devices : disk.rules[x] # None} |->
     [user |-> Restrict(disk.rules[d].user,
                        DOMAIN disk.rules[d].user \cap Known),
      group |-> EmptyFun]]
-----------------------------------------------------------------------------
Init ==
  /\ ready = FALSE
  /\ users = {} /\ groups = EmptyFun /\ owner = EmptyFun /\ rules = EmptyFun
  /\ compiled = [u \in Ids |-> NoPolicy]
  /\ lastId = [uid |-> 0, gid |-> 0]
  /\ disk = [users |-> {}, groups |-> EmptyFun, owners |-> EmptyFun,
             rules |-> [d \in Devices |-> None], ids |-> [uid |-> 0, gid |-> 0],
             torn |-> {}]
  /\ todo = <<>> /\ cut = FALSE /\ before = Now
  /\ issued = [uid |-> {rootUid}, gid |-> {}, forgotten |-> {}]
  /\ unsaved = {}
  /\ faults = 0

(* mutant: the ids that are in use are not counted. *)
LastIdOfFile == disk.ids

(* The greatest id is that of max_uid_gid or, if the program stopped       *)
(* before it was written, that of a user or a group.                       *)
LastIdRead ==
  [uid |-> Max({disk.ids.uid} \cup disk.users),
   gid |-> Max({disk.ids.gid} \cup DOMAIN disk.groups)]

(* readUsers: a users file without root, or none, is written again with    *)
(* root, whether or not the other files can be read then.                  *)
WriteRoot ==
  /\ ~ready /\ rootUid \notin disk.users /\ "users" \notin disk.torn
  /\ \/ disk' = [disk EXCEPT !.users = @ \cup {rootUid}]
        /\ UNCHANGED faults
     \/ disk' = [disk EXCEPT !.torn = @ \cup {"users"}]
        /\ faults < MaxFaults /\ faults' = faults + 1
  /\ UNCHANGED <<memory, todo, cut, before, issued, unsaved>>

(* readConfig, when no file is refused. *)
Start ==
  /\ ~ready /\ Readable /\ rootUid \in disk.users
  /\ ready' = TRUE
  /\ users' = disk.users
  /\ groups' = disk.groups
  /\ owner' = disk.owners
  /\ rules' = RulesRead
  /\ compiled' = Compile(rules', groups')
  /\ lastId' = LastIdRead
  /\ before' = Now'
  /\ disk' = [disk EXCEPT !.ids = lastId']
  /\ UNCHANGED <<todo, cut, issued, unsaved, faults>>

(* A command: what it changes in memory, and the files it then writes.     *)
Command(files) ==
  /\ ready /\ todo = <<>>
  /\ todo' = files
  /\ UNCHANGED <<ready, disk, cut, before, issued, unsaved, faults>>

CreateUser ==
  /\ Command(<<"users", "ids">>)
  /\ lastId.uid < MaxUsers
  /\ lastId' = [lastId EXCEPT !.uid = @ + 1]
  /\ users' = users \cup {lastId'.uid}
  /\ UNCHANGED <<groups, owner, rules, compiled>>

(* userSetPass *)
SetPass ==
  /\ Command(<<"users">>)
  /\ UNCHANGED <<users, groups, owner, rules, compiled, lastId>>

CreateUsersGroup(moderator) ==
  /\ Command(<<"groups", "ids">>)
  /\ lastId.gid < MaxGroups
  /\ lastId' = [lastId EXCEPT !.gid = @ + 1]
  /\ groups' = With(groups, lastId'.gid,
                    [moderator |-> moderator, uids |-> {moderator}])
  /\ UNCHANGED <<users, owner, rules, compiled>>

AddUserToGroup(g, u) ==
  /\ u \notin groups[g].uids
  /\ Command(<<"groups">>)
  /\ groups' = [groups EXCEPT ![g].uids = @ \cup {u}]
  /\ UNCHANGED <<users, owner, rules, compiled, lastId>>

DelUserFromGroup(g, u) ==
  /\ u \in groups[g].uids /\ groups[g].moderator # u
  /\ Command(<<"groups">>)
  /\ groups' = [groups EXCEPT ![g].uids = @ \ {u}]
  /\ UNCHANGED <<users, owner, rules, compiled, lastId>>

(* changeUsersGroupModerator: root need not be a member. *)
ChangeModerator(g, u) ==
  /\ u = rootUid \/ u \in groups[g].uids
  /\ Command(<<"groups">>)
  /\ groups' = [groups EXCEPT ![g].moderator = u]
  /\ UNCHANGED <<users, owner, rules, compiled, lastId>>

(* mutant: the policies are not compiled again. *)
SetDevOwnerKeepsPolicies(d, u) ==
  /\ Command(IF d \in DOMAIN rules THEN <<"owners", d>> ELSE <<"owners">>)
  /\ owner' = With(owner, d, u)
  /\ rules' = Without(rules, d)
  /\ UNCHANGED <<users, groups, compiled, lastId>>

(* setDevOwner: the rules of the owner before go. *)
SetDevOwner(d, u) ==
  /\ Command(IF d \in DOMAIN rules THEN <<"owners", d>> ELSE <<"owners">>)
  /\ owner' = With(owner, d, u)
  /\ rules' = Without(rules, d)
  /\ compiled' = IF d \in DOMAIN rules THEN Compile(rules', groups) ELSE compiled
  /\ UNCHANGED <<users, groups, lastId>>

RulesOf(d) == IF d \in DOMAIN rules THEN rules[d] ELSE NoRules
Ruled(f, id, flags) == IF flags = {} THEN Without(f, id) ELSE With(f, id, flags)

SetDevicePolicyForUser(d, u, flags) ==
  /\ Command(<<d>>)
  /\ rules' = With(rules, d, [RulesOf(d) EXCEPT !.user = Ruled(@, u, flags)])
  /\ compiled' = [compiled EXCEPT ![u] = [self  |-> With(@.self, d, flags),
                                          group |-> Without(@.group, d)]]
  /\ UNCHANGED <<users, groups, owner, lastId>>

SetDevicePolicyForUsersGroup(d, g, flags) ==
  /\ Command(<<d>>)
  /\ rules' = With(rules, d, [RulesOf(d) EXCEPT !.group = Ruled(@, g, flags)])
  /\ compiled' = [u \in Ids |->
       IF u \in groups[g].uids /\ d \notin DOMAIN compiled[u].self
         THEN [compiled[u] EXCEPT !.group = With(@, d, flags)]
         ELSE compiled[u]]
  /\ UNCHANGED <<users, groups, owner, lastId>>
-----------------------------------------------------------------------------
(* open(WriteOnly); the file of a device without rules is removed, and     *)
(* max_uid_gid replaced, at once.                                          *)
AtOnce(f) == f = "ids" \/ (f \in Devices /\ f \notin DOMAIN rules)

Truncate ==
  /\ todo # <<>> /\ ~cut /\ ~AtOnce(Head(todo))
  /\ disk' = Truncated(Head(todo))
  /\ cut' = TRUE
  /\ UNCHANGED <<memory, todo, before, issued, unsaved, faults>>

(* The file at the head of todo is done with. *)
NextFile ==
  /\ todo' = Tail(todo)
  /\ cut' = FALSE
  /\ before' = IF todo' = <<>> THEN Now ELSE before

(* The ids that are given to the file. *)
Issued(f) ==
  CASE f = "users"  -> [issued EXCEPT !.uid = @ \cup users]
    [] f = "groups" -> [issued EXCEPT !.gid = @ \cup DOMAIN groups]
    [] OTHER        -> issued

WriteFile ==
  /\ todo # <<>>
  /\ cut \/ AtOnce(Head(todo))
  /\ disk' = OnDisk(Head(todo))
  /\ NextFile
  /\ issued' = Issued(Head(todo))
  /\ unsaved' = unsaved \ {Head(todo)}
  /\ UNCHANGED <<memory, faults>>

(* Only a part is written: write() and close() are not asked.  *)
WritePart ==
  /\ todo # <<>> /\ cut /\ faults < MaxFaults
  /\ faults' = faults + 1
  /\ \E d \in PartOnDisk(Head(todo)), T \in SUBSET {Head(todo)} :
       disk' = [d EXCEPT !.torn = @ \cup T]
  /\ NextFile
  /\ issued' = Issued(Head(todo))
  /\ unsaved' = unsaved \cup {Head(todo)}
  /\ UNCHANGED memory

(* mutant: the user that could not be stored stays. *)
WriteFailsKeepsUser ==
  /\ todo # <<>> /\ ~cut /\ faults < MaxFaults
  /\ faults' = faults + 1
  /\ \/ /\ Head(todo) \in {"users", "groups"}
        /\ groups' = before.groups /\ lastId' = before.lastId
        /\ todo' = <<>>
        /\ UNCHANGED <<users, before, unsaved>>
     \/ /\ Head(todo) \notin {"users", "groups"}
        /\ NextFile
        /\ unsaved' = unsaved \cup {Head(todo)}
        /\ UNCHANGED <<users, groups, lastId>>
  /\ UNCHANGED <<ready, owner, rules, compiled, disk, cut, issued>>

(* The file cannot be opened: a change of users or groups is undone, any   *)
(* other stays in memory only.                                             *)
WriteFails ==
  /\ todo # <<>> /\ ~cut /\ faults < MaxFaults
  /\ faults' = faults + 1
  /\ \/ /\ Head(todo) \in {"users", "groups"}
        /\ users' = before.users /\ groups' = before.groups
        /\ lastId' = before.lastId
        /\ todo' = <<>>
        /\ UNCHANGED <<before, unsaved>>
     \/ /\ Head(todo) \notin {"users", "groups"}
        /\ NextFile
        /\ unsaved' = unsaved \cup {Head(todo)}
        /\ UNCHANGED <<users, groups, lastId>>
  /\ UNCHANGED <<ready, owner, rules, compiled, disk, cut, issued>>

(* The program stops, at the end of a command or within one.  The ids of    *)
(* users (groups) that are lost with their file, or with the part of it    *)
(* that was not written, and that max_uid_gid could not be given before    *)
(* are not known to anyone any more.                                       *)
StillKnown ==
  LET lost(f) == (cut /\ Head(todo) = f) \/ f \in unsaved
      uids == IF lost("users") THEN issued.uid \cap 0..disk.ids.uid ELSE issued.uid
  IN  [uid |-> uids,
       gid |-> IF lost("groups") THEN issued.gid \cap 0..disk.ids.gid ELSE issued.gid,
       forgotten |-> issued.forgotten \cup (issued.uid \ uids)]

Stop ==
  /\ ready
  /\ issued' = StillKnown
  /\ todo # <<>> => faults < MaxFaults
  /\ faults' = IF todo = <<>> THEN faults ELSE faults + 1
  /\ ready' = FALSE
  /\ users' = {} /\ groups' = EmptyFun /\ owner' = EmptyFun /\ rules' = EmptyFun
  /\ compiled' = [u \in Ids |-> NoPolicy]
  /\ lastId' = [uid |-> 0, gid |-> 0]
  /\ todo' = <<>> /\ cut' = FALSE /\ before' = Now' /\ unsaved' = {}
  /\ UNCHANGED disk

(* The commands `apm user', `apm grp' and `apm dev'.                       *)
UserCommand == CreateUser \/ SetPass

GroupCommand ==
  \/ \E u \in users : CreateUsersGroup(u)
  \/ \E g \in DOMAIN groups, u \in users :
       \/ AddUserToGroup(g, u)
       \/ DelUserFromGroup(g, u)
       \/ ChangeModerator(g, u)

DevCommand ==
  \/ \E d \in Devices, u \in users : SetDevOwner(d, u)
  \/ \E d \in Devices, u \in users \ {rootUid}, flags \in Given :
       SetDevicePolicyForUser(d, u, flags)
  \/ \E d \in Devices, g \in DOMAIN groups, flags \in Given :
       SetDevicePolicyForUsersGroup(d, g, flags)

Next ==
  \/ WriteRoot
  \/ Start
  \/ UserCommand
  \/ GroupCommand
  \/ DevCommand
  \/ Truncate
  \/ WriteFile
  \/ WritePart
  \/ WriteFails
  \/ Stop

Spec == Init /\ [][Next]_vars
-----------------------------------------------------------------------------
(* The types of the memory and of the files.                               *)
TypeOK ==
  /\ ready \in BOOLEAN /\ cut \in BOOLEAN
  /\ users \subseteq Ids /\ before.users \subseteq Ids
  /\ groups \in Partial(Gids, Group) /\ disk.groups \in Partial(Gids, Group)
  /\ owner \in Partial(Devices, Ids) /\ disk.owners \in Partial(Devices, Ids)
  /\ rules \in Partial(Devices, RulesSet)
  /\ disk.rules \in [Devices -> RulesSet \cup {None}]
  /\ compiled \in [Ids -> Policy]
  /\ lastId \in [uid : Ids, gid : Gids \cup {0}]
  /\ disk.users \subseteq Ids /\ disk.torn \cup unsaved \subseteq Files
  /\ Len(todo) <= 2 /\ Range(todo) \subseteq Files
  /\ faults \in 0..MaxFaults

(* The state has its types.  The server starts again after any stop and    *)
(* any file that could not be opened, unless a file ends in a line that    *)
(* was written in part, or a user who was given to the users' file is not  *)
(* in it any more: a stop or a failure within its writing, after which a   *)
(* start that is refused leaves root alone in it.  What else keeps it from *)
(* starting are a group that was left without members and a rule for a     *)
(* group.                                                                  *)
ServerStartsAgain ==
  /\ TypeOK
  /\ ~Readable =>
       \/ disk.torn # {}
       \/ ~(issued.uid \cup issued.forgotten \subseteq Known)
       \/ \E g \in DOMAIN disk.groups : disk.groups[g].uids = {}
       \/ \E d \in Devices : disk.rules[d] # None /\ disk.rules[d].group # EmptyFun

(* What a user may do with a device by a rule of his own, and when there   *)
(* is no rule, is what he may do after a restart, which reads the files    *)
(* and compiles the policies anew (readSingleDevicePolicies).  What comes  *)
(* to it then are the flags that the rule's imply: compileUsersPolicy adds *)
(* them, setDevicePolicyForUser does not.  Excepted are devices and users  *)
(* whose file could not be written whole, and users who were given the     *)
(* number of one who was lost (StillKnown).                                *)
OwnRulesSurviveRestart ==
  ready /\ todo = <<>> /\ Readable =>
    \A d \in Devices, u \in users \ issued.forgotten :
      LET now  == Effective(compiled[u], d)
          then == Effective(Compile(RulesRead, disk.groups)[u], d)
      IN  /\ {d, "users"} \cap unsaved = {}
          /\ u \in DOMAIN RulesOf(d).user \/ d \notin DOMAIN compiled[u].group
          => now \subseteq then /\ then \subseteq Implied(now)

(* The id of a new user, or group, is that of no other that was ever       *)
(* stored, which files may still name: not even after a stop before        *)
(* max_uid_gid was written, or within the writing of the users.  Excepted  *)
(* are ids that were lost with their file when max_uid_gid could not be    *)
(* written before (StillKnown).                                            *)
IdsAreNew ==
  [][ready /\ ready' =>
       /\ lastId'.uid > lastId.uid => lastId'.uid \notin issued.uid
       /\ lastId'.gid > lastId.gid => lastId'.gid \notin issued.gid]_vars
=============================================================================
