------------------------------- MODULE Groups -------------------------------
(***************************************************************************)
(* Groups, partitions and memberships: the tables component_groups and     *)
(* component_group_members, and the requests that write and read them.     *)
(*                                                                         *)
(* A request is a transaction of several statements, each of which sees    *)
(* what is committed when it runs (read committed).  What a transaction    *)
(* has inserted is seen by the others only as a conflict: they wait for    *)
(* its end.  A statement that ends its transaction is one step with the    *)
(* commit.                                                                 *)
(***************************************************************************)
EXTENDS Integers, Sequences, FiniteSets

CONSTANTS
  Client,        \* requests that are served at the same time
  Component,     \* xnames
  Name,          \* labels and partition names that pass verification
  Posts,         \* groups and partitions that are posted
  Patches,       \* what patches ask for
  NoGroup,
  MaxRequests    \* bound on the model: requests served

Namespace == {"group", "partition"}
Value == {"a", "b"}    \* of a description or of tags

(* sm.Group and sm.Partition, of which a partition is in no exclusive      *)
(* group; and GroupPatch and PartitionPatch.                               *)
Group == [ns : Namespace, name : STRING, excl : STRING, desc : Value, tags : Value]
Patch == [desc : Value \cup {"nil"}, tags : Value \cup {"nil"}]

ASSUME GroupsAssumption ==
  /\ Posts \subseteq [group : Group, ids : Seq(Component)]
  /\ Patches \subseteq Patch
  /\ NoGroup \notin Group
  /\ "%%partition%%" \notin Name    \* VerifyGroupField: no "%"
  /\ MaxRequests \in Nat

Gid == 1 .. MaxRequests       \* the UUIDs of groups; a request makes one at most

VARIABLES
  components,   \* the xnames that have a row in components
  groups,       \* component_groups by id
  members,      \* component_group_members
  tx,           \* the request of each client and its transaction
  requests,
  posted,       \* the ids each group was posted with
  leftOut       \* the ids taken out of each group since

vars == <<components, groups, members, tx, requests, posted, leftOut>>

Member == [id : Component, group : Gid, ns : Seq(Name \cup {"%", "%%partition%%"})]

Target == Namespace \X Name
Filter == Name \cup {"", "NULL"}

Op == {"post", "addmember", "delmember", "patch", "get", "list"}

Idle == [pc |-> "idle", op |-> "none", target |-> <<>>, row |-> NoGroup, gid |-> 0,
         ids |-> <<>>, rows |-> {}, patch |-> <<>>, filter |-> "", part |-> 0,
         todo |-> {}, answer |-> "none"]

-------------------------------------------------------------------------------
(* Mutant of MemberNamespace: exclusive groups are not told from others. *)
MemberNamespaceLabel(g) ==
  IF g.ns = "partition" THEN <<"%%partition%%">> ELSE <<g.name>>

(* The namespace that the members of a group must be unique in: its label, *)
(* its exclusive group or that of the partitions.  Names have no "%", so   *)
(* the three never clash.                                                  *)
MemberNamespace(g) ==
  IF g.ns = "partition" THEN <<"%%partition%%">>
  ELSE IF g.excl # "" THEN <<"%", g.excl>>
  ELSE <<g.name>>

Exists(gid) == groups[gid] # NoGroup
Named(t) == {gid \in Gid : Exists(gid) /\ <<groups[gid].ns, groups[gid].name>> = t}

(* GetMembersTx *)
MembersOf(gid) == {m.id : m \in {r \in members : r.group = gid}}

(* GetMembersFilterTx: the members of a group joined with all memberships  *)
(* of the same components in the group itself or in the partition, and     *)
(* counted.  Without a partition it is all memberships in partitions.      *)
Joined(id, gid, part) ==
  {m \in members : m.id = id /\ (m.group = gid \/ m.group = part)}
JoinedNull(id, gid) ==
  {m \in members : m.id = id /\ (m.group = gid \/ m.ns = <<"%%partition%%">>)}

(* Mutant of FilteredMembers: who is in the group has one row at least. *)
FilteredMembersAny(gid, part) ==
  {id \in MembersOf(gid) :
     IF part # 0 THEN Cardinality(Joined(id, gid, part)) >= 1
     ELSE Cardinality(JoinedNull(id, gid)) >= 1}

FilteredMembers(gid, part) ==
  {id \in MembersOf(gid) :
     IF part # 0 THEN Cardinality(Joined(id, gid, part)) = 2
     ELSE Cardinality(JoinedNull(id, gid)) = 1}

(* GetMemberships: the groups of a component, and a partition of it. *)
GroupLabels(id) ==
  {groups[m.group].name : m \in {r \in members : r.id = id /\ groups[r.group].ns = "group"}}
PartitionNames(id) ==
  {groups[m.group].name : m \in {r \in members : r.id = id /\ groups[r.group].ns = "partition"}}

-------------------------------------------------------------------------------
(* What a transaction has written and not committed. *)
Pending(c) == tx[c].pc \in {"rows", "foreign", "commit"}
Inserted(c) == IF Pending(c) /\ tx[c].op = "post" THEN {tx[c].row} ELSE {}

SameName(g, h) == g.ns = h.ns /\ g.name = h.name
SameMember(m, n) == m.id = n.id /\ (m.group = n.group \/ m.ns = n.ns)

(* The row that client c inserts next. *)
NextRow(c) == [id |-> Head(tx[c].ids), group |-> tx[c].gid,
               ns |-> MemberNamespace(tx[c].row)]

(* Client c has to wait for the end of the transaction of d. *)
WaitsFor(c, d) ==
  /\ c # d
  /\ \/ /\ tx[c].pc = "insert"
        /\ \E g \in Inserted(d) : SameName(g, tx[c].row)
     \/ /\ tx[c].pc = "rows" /\ tx[c].ids # <<>>
        /\ \E m \in tx[d].rows : SameMember(m, NextRow(c))
Waits(c) == \E d \in Client : WaitsFor(c, d)

(* The rows that foreign keys keep from deletion until a transaction ends: *)
(* those its inserted rows refer to, once they have been looked up.        *)
KeepsComponent(c, id) == tx[c].pc = "commit" /\ \E m \in tx[c].rows : m.id = id
KeepsGroup(c, gid) == tx[c].pc = "commit" /\ \E m \in tx[c].rows : m.group = gid

TypeOK ==
  /\ components \subseteq Component
  /\ groups \in [Gid -> Group \cup {NoGroup}]
  /\ members \subseteq Member
  /\ \A c \in Client :
       /\ tx[c].pc \in {"idle", "insert", "lookup", "rows", "foreign", "commit",
                        "delete", "update", "part", "read", "next"}
       /\ tx[c].op \in Op \cup {"none"}
       /\ tx[c].row \in Group \cup {NoGroup} /\ tx[c].gid \in Gid \cup {0}
       /\ tx[c].ids \in Seq(Component) /\ tx[c].rows \subseteq Member
       /\ tx[c].part \in Gid \cup {0} /\ tx[c].todo \subseteq Target
  /\ requests \in 0 .. MaxRequests
  /\ posted \in [Gid -> SUBSET Component] /\ leftOut \in [Gid -> SUBSET Component]

Init ==
  /\ components = Component
  /\ groups = [gid \in Gid |-> NoGroup]
  /\ members = {}
  /\ tx = [c \in Client |-> Idle]
  /\ requests = 0
  /\ posted = [gid \in Gid |-> {}] /\ leftOut = [gid \in Gid |-> {}]

-------------------------------------------------------------------------------
(* What the database does for a request: its first statement, and what the *)
(* others need.                                                            *)
Asked(op, pc, t) == [Idle EXCEPT !.op = op, !.pc = pc, !.target = t]

InsertGroup(p) ==
  [Asked("post", "insert", <<"group", p.group.name>>)
     EXCEPT !.row = p.group, !.ids = p.ids, !.gid = requests + 1]

InsertPartition(p) ==
  [Asked("post", "insert", <<"partition", p.group.name>>)
     EXCEPT !.row = p.group, !.ids = p.ids, !.gid = requests + 1]

UpdateGroup(label, p) ==
  [Asked("patch", "lookup", <<"group", label>>) EXCEPT !.patch = p]

UpdatePartition(name, p) ==
  [Asked("patch", "lookup", <<"partition", name>>) EXCEPT !.patch = p]

AddGroupMember(label, id) ==
  [Asked("addmember", "lookup", <<"group", label>>) EXCEPT !.ids = <<id>>]

AddPartitionMember(name, id) ==
  [Asked("addmember", "lookup", <<"partition", name>>) EXCEPT !.ids = <<id>>]

DeleteGroupMember(label, id) ==
  [Asked("delmember", "lookup", <<"group", label>>) EXCEPT !.ids = <<id>>]

DeletePartitionMember(name, id) ==
  [Asked("delmember", "lookup", <<"partition", name>>) EXCEPT !.ids = <<id>>]

(* The members may be filtered by a partition, or by NULL for none. *)
GetGroup(label, filter) ==
  [Asked("get", "lookup", <<"group", label>>) EXCEPT !.filter = filter]

GetPartition(name) == Asked("get", "lookup", <<"partition", name>>)

GetGroupLabels == {name \in Name : Named(<<"group", name>>) # {}}
GetPartitionNames == {name \in Name : Named(<<"partition", name>>) # {}}

(* A request of client c comes.  The names in it have been normalized; who *)
(* asks for one that does not pass verification is answered at once.       *)
Begin(c, r) ==
  /\ tx[c].pc = "idle" /\ requests < MaxRequests
  /\ requests' = requests + 1
  /\ tx' = [tx EXCEPT ![c] = r]
  /\ UNCHANGED <<components, groups, members, posted, leftOut>>

Invalid == [Idle EXCEPT !.answer = "invalid"]

VerifyGroup(g) == g.name \in Name /\ g.excl \in Name \cup {""}
VerifyPartition(p) == p.name \in Name

DoGroupsPost(c, p) ==
  /\ p.group.ns = "group"
  /\ Begin(c, IF VerifyGroup(p.group) THEN InsertGroup(p) ELSE Invalid)

DoPartitionsPost(c, p) ==
  /\ p.group.ns = "partition"
  /\ Begin(c, IF VerifyPartition(p.group) THEN InsertPartition(p) ELSE Invalid)

(* A patch of nothing is answered with an error and goes on all the same. *)
DoGroupPatch(c, label, p) == Begin(c, UpdateGroup(label, p))
DoPartitionPatch(c, name, p) == Begin(c, UpdatePartition(name, p))

DoGroupMembersPost(c, label, id) == Begin(c, AddGroupMember(label, id))
DoPartitionMembersPost(c, name, id) == Begin(c, AddPartitionMember(name, id))
DoGroupMemberDelete(c, label, id) == Begin(c, DeleteGroupMember(label, id))
DoPartitionMemberDelete(c, name, id) == Begin(c, DeletePartitionMember(name, id))

DoGroupGet(c, label, filter) == Begin(c, GetGroup(label, filter))
DoPartitionGet(c, name) == Begin(c, GetPartition(name))

(* A list gets, one after the other, those that there are when it begins.  *)
DoGroupsGet(c, filter) ==
  Begin(c, [Asked("list", "next", <<>>) EXCEPT !.filter = filter,
                                               !.todo = {"group"} \X GetGroupLabels])
DoPartitionsGet(c) ==
  Begin(c, [Asked("list", "next", <<>>) EXCEPT !.todo = {"partition"} \X GetPartitionNames])

-------------------------------------------------------------------------------
Go(c, pc) == tx' = [tx EXCEPT ![c].pc = pc]

(* The transaction ends, and with it the request. *)
Answer(c, a) == tx' = [tx EXCEPT ![c] = [Idle EXCEPT !.answer = a]]

(* With everything undone. *)
Refuse(c, a) ==
  /\ Answer(c, a)
  /\ UNCHANGED <<components, groups, members, requests, posted, leftOut>>

Unwritten == UNCHANGED <<components, groups, members, requests, posted, leftOut>>

(* Mutant of InsertEmpty: the empty group is committed by itself. *)
InsertEmptyAtOnce(c) ==
  /\ ~ Waits(c)
  /\ IF Named(tx[c].target) # {} THEN Refuse(c, "duplicate")
     ELSE /\ Go(c, "rows")
          /\ groups' = [groups EXCEPT ![tx[c].gid] = tx[c].row]
          /\ posted' = [posted EXCEPT ![tx[c].gid] =
                          {tx[c].ids[i] : i \in DOMAIN tx[c].ids}]
          /\ UNCHANGED <<components, members, requests, leftOut>>

(* Names are unique among groups, and among partitions. *)
InsertEmpty(c) ==
  /\ ~ Waits(c)
  /\ IF Named(tx[c].target) # {} THEN Refuse(c, "duplicate")
     ELSE Go(c, "rows") /\ Unwritten

InsertEmptyGroup(c) ==
  tx[c].pc = "insert" /\ tx[c].target[1] = "group" /\ InsertEmpty(c)
InsertEmptyPartition(c) ==
  tx[c].pc = "insert" /\ tx[c].target[1] = "partition" /\ InsertEmpty(c)

(* What comes after a group or partition is looked up by its name. *)
AfterLookup ==
  [addmember |-> "rows", delmember |-> "delete", patch |-> "update", get |-> "part",
   list |-> "part"]

GetEmpty(c) ==
  /\ IF Named(tx[c].target) = {}
     THEN IF tx[c].op \in {"get", "list"}
          THEN tx' = [tx EXCEPT ![c].pc = "part", ![c].gid = 0, ![c].row = NoGroup]
          ELSE Answer(c, "nogroup")
     ELSE \E gid \in Named(tx[c].target) :
            tx' = [tx EXCEPT ![c].pc = AfterLookup[tx[c].op],
                             ![c].gid = gid, ![c].row = groups[gid]]
  /\ Unwritten

GetEmptyGroup(c) ==
  tx[c].pc = "lookup" /\ tx[c].target[1] = "group" /\ GetEmpty(c)
GetEmptyPartition(c) ==
  tx[c].pc = "lookup" /\ tx[c].target[1] = "partition" /\ GetEmpty(c)

(* Mutant of InsertMember: a refused request leaves its transaction open. *)
InsertMemberNoRollback(c) ==
  /\ tx[c].pc = "rows" /\ tx[c].ids # <<>> /\ ~ Waits(c)
  /\ ~ \E m \in members \cup tx[c].rows : SameMember(m, NextRow(c))
  /\ tx' = [tx EXCEPT ![c].rows = @ \cup {NextRow(c)}, ![c].ids = Tail(@)]
  /\ Unwritten

(* InsertMembersTx: the rows of one statement, one after the other ...     *)
InsertMember(c) ==
  /\ tx[c].pc = "rows" /\ tx[c].ids # <<>> /\ ~ Waits(c)
  /\ IF \E m \in members \cup tx[c].rows : SameMember(m, NextRow(c))
     THEN Refuse(c, IF \E m \in members \cup tx[c].rows :
                         m.id = NextRow(c).id /\ m.group = tx[c].gid
                    THEN "duplicate" ELSE "exclusive")
     ELSE /\ tx' = [tx EXCEPT ![c].rows = @ \cup {NextRow(c)}, ![c].ids = Tail(@)]
          /\ Unwritten

RowsDone(c) ==
  /\ tx[c].pc = "rows" /\ tx[c].ids = <<>>
  /\ Go(c, "foreign")
  /\ Unwritten

(* ... and at its end the foreign keys.  ParsePgDBError has one answer for *)
(* both of them.                                                           *)
CheckForeignKeys(c) ==
  /\ tx[c].pc = "foreign"
  /\ IF /\ \A m \in tx[c].rows : m.id \in components
        /\ tx[c].op = "post" \/ Exists(tx[c].gid) \/ tx[c].rows = {}
     THEN Go(c, "commit") /\ Unwritten
     ELSE Refuse(c, "nocomponent")

(* InsertGroup, InsertPartition, AddGroupMember and AddPartitionMember. *)
Commit(c) ==
  LET gid == tx[c].gid
      ids == {m.id : m \in tx[c].rows}
  IN  /\ tx[c].pc = "commit"
      /\ members' = members \cup tx[c].rows
      /\ IF tx[c].op = "post"
         THEN /\ groups' = [groups EXCEPT ![gid] = tx[c].row]
              /\ posted' = [posted EXCEPT ![gid] = ids]
              /\ UNCHANGED leftOut
         ELSE /\ leftOut' = [leftOut EXCEPT ![gid] = @ \ ids]
              /\ UNCHANGED <<groups, posted>>
      /\ Answer(c, "done")
      /\ UNCHANGED <<components, requests>>

(* DeleteMemberTx and its commit. *)
DeleteMember(c) ==
  LET id == Head(tx[c].ids)
      out == {m \in members : m.group = tx[c].gid /\ m.id = id}
  IN  /\ tx[c].pc = "delete"
      /\ members' = members \ out
      /\ leftOut' = [leftOut EXCEPT ![tx[c].gid] = @ \cup {m.id : m \in out}]
      /\ Answer(c, IF out = {} THEN "nomember" ELSE "done")
      /\ UNCHANGED <<components, groups, requests, posted>>

(* Mutant of Patched: a field that is not given is written. *)
PatchedNil(g, read, p) ==
  [g EXCEPT !.desc = IF p.desc # read.desc THEN p.desc ELSE @,
            !.tags = IF p.tags # read.tags THEN p.tags ELSE @]

(* Only the fields that are *)
(* not as they were when the group was read are written.  To a group that  *)
(* is gone there is nothing to write, and nobody looks.                    *)
Patched(g, read, p) ==
  [g EXCEPT !.desc = IF p.desc # "nil" /\ p.desc # read.desc THEN p.desc ELSE @,
            !.tags = IF p.tags # "nil" /\ p.tags # read.tags THEN p.tags ELSE @]

UpdateEmpty(c) ==
  LET gid == tx[c].gid
  IN  /\ groups' = IF Exists(gid)
                   THEN [groups EXCEPT ![gid] = Patched(@, tx[c].row, tx[c].patch)]
                   ELSE groups
      /\ Answer(c, "done")
      /\ UNCHANGED <<components, members, requests, posted, leftOut>>

UpdateEmptyGroup(c) ==
  tx[c].pc = "update" /\ tx[c].target[1] = "group" /\ UpdateEmpty(c)
UpdateEmptyPartition(c) ==
  tx[c].pc = "update" /\ tx[c].target[1] = "partition" /\ UpdateEmpty(c)

(* The partition to filter by is looked up in the same transaction. *)
GetFilter(c) ==
  /\ tx[c].pc = "part"
  /\ IF tx[c].filter \in {"", "NULL"} THEN Go(c, "read")
     ELSE IF Named(<<"partition", tx[c].filter>>) = {} THEN Answer(c, "nopartition")
     ELSE \E gid \in Named(<<"partition", tx[c].filter>>) :
            tx' = [tx EXCEPT ![c].pc = "read", ![c].part = gid]
  /\ Unwritten

(* GetGroup and GetPartition: the members of the group that was found.  A  *)
(* list goes on with the next name, whether it was found or not.           *)
GetMembers(c) ==
  LET ids == IF tx[c].filter = "" THEN MembersOf(tx[c].gid)
             ELSE FilteredMembers(tx[c].gid, tx[c].part)
  IN  /\ tx[c].pc = "read"
      /\ IF tx[c].op = "list" THEN Go(c, "next")
         ELSE Answer(c, CASE tx[c].row = NoGroup -> "nogroup"
                          [] tx[c].row # NoGroup /\ ids = {} -> "empty"
                          [] OTHER -> "done")
      /\ Unwritten

NextOfList(c) ==
  /\ tx[c].pc = "next"
  /\ IF tx[c].todo = {} THEN Answer(c, "done")
     ELSE \E t \in tx[c].todo :
            tx' = [tx EXCEPT ![c].pc = "lookup", ![c].target = t, ![c].todo = @ \ {t}]
  /\ Unwritten

(* The database finds transactions that wait for each other and ends one. *)
Deadlocked(c) ==
  \E S \in SUBSET Client : c \in S /\ \A d \in S : \E e \in S : WaitsFor(d, e)
Abort(c) == Deadlocked(c) /\ Refuse(c, "failed")

(* The client's instance ends: the database rolls the transaction back. *)
Crash(c) == tx[c].pc # "idle" /\ requests < MaxRequests /\ Refuse(c, "none")

-------------------------------------------------------------------------------
(* One statement deletes a group or partition, and its members with it. It *)
(* waits for transactions whose members refer to the group.                *)
Delete(t) ==
  /\ requests < MaxRequests
  /\ \E gid \in Named(t) :
       /\ \A c \in Client : ~ KeepsGroup(c, gid)
       /\ groups' = [groups EXCEPT ![gid] = NoGroup]
       /\ members' = {m \in members : m.group # gid}
  /\ requests' = requests + 1
  /\ UNCHANGED <<components, tx, posted, leftOut>>

DeleteGroup(label) == Delete(<<"group", label>>)
DeletePartition(name) == Delete(<<"partition", name>>)

(* A component is deleted, with its memberships. *)
DeleteComponent(id) ==
  /\ requests < MaxRequests
  /\ id \in components
  /\ \A c \in Client : ~ KeepsComponent(c, id)
  /\ components' = components \ {id}
  /\ members' = {m \in members : m.id # id}
  /\ leftOut' = [gid \in Gid |->
                   IF id \in MembersOf(gid) THEN leftOut[gid] \cup {id} ELSE leftOut[gid]]
  /\ requests' = requests + 1
  /\ UNCHANGED <<groups, tx, posted>>

Request(c) ==
  \/ \E p \in Posts : DoGroupsPost(c, p) \/ DoPartitionsPost(c, p)
  \/ \E name \in Name :
       \/ \E id \in Component :
            \/ DoGroupMembersPost(c, name, id) \/ DoGroupMemberDelete(c, name, id)
            \/ DoPartitionMembersPost(c, name, id) \/ DoPartitionMemberDelete(c, name, id)
       \/ \E p \in Patches : DoGroupPatch(c, name, p) \/ DoPartitionPatch(c, name, p)
       \/ DoPartitionGet(c, name)
       \/ \E filter \in Filter : DoGroupGet(c, name, filter)
  \/ \E filter \in Filter : DoGroupsGet(c, filter)
  \/ DoPartitionsGet(c)

Step(c) ==
  \/ InsertEmptyGroup(c) \/ InsertEmptyPartition(c)
  \/ GetEmptyGroup(c) \/ GetEmptyPartition(c)
  \/ InsertMember(c) \/ RowsDone(c) \/ CheckForeignKeys(c) \/ Commit(c)
  \/ DeleteMember(c) \/ UpdateEmptyGroup(c) \/ UpdateEmptyPartition(c)
  \/ GetFilter(c) \/ GetMembers(c) \/ NextOfList(c)

Next ==
  \/ \E c \in Client : Request(c) \/ Step(c) \/ Abort(c) \/ Crash(c)
  \/ \E name \in Name : DeleteGroup(name) \/ DeletePartition(name)
  \/ \E id \in Component : DeleteComponent(id)

Spec == Init /\ [][Next]_vars

(* A handler runs on; the database ends deadlocks. *)
Fairness == \A c \in Client : WF_vars(Step(c)) /\ WF_vars(Abort(c))

FairSpec == Spec /\ Fairness

-------------------------------------------------------------------------------
(* Committed memberships never overlap where they must not: no component   *)
(* is in two partitions, or in two groups of one exclusive group, whatever *)
(* is posted and added at the same time ("the member list must not overlap *)
(* with any existing partition").  None is of a group or a component that  *)
(* is gone.                                                                *)
Exclude(g, h) ==
  g.ns = h.ns /\ (g.ns = "partition" \/ (g.excl # "" /\ g.excl = h.excl))

Disjoint ==
  \A m \in members :
    /\ Exists(m.group) /\ m.id \in components
    /\ \A n \in members :
         m.id = n.id /\ m.group # n.group => ~ Exclude(groups[m.group], groups[n.group])

(* The ways to ask who is where agree: the members of a group filtered by  *)
(* a partition are those of both, and without a partition those that have  *)
(* none by their own memberships (GetMembersFilterTx counts joined rows,   *)
(* GetMemberships keeps one partition of a component).                     *)
ViewsAgree ==
  \A g \in {gid \in Gid : Exists(gid) /\ groups[gid].ns = "group"} :
    /\ \A p \in {gid \in Gid : Exists(gid) /\ groups[gid].ns = "partition"} :
         /\ FilteredMembers(g, p) = MembersOf(g) \cap MembersOf(p)
         /\ \A id \in FilteredMembers(g, p) :
              /\ groups[g].name \in GroupLabels(id)
              /\ PartitionNames(id) = {groups[p].name}
    /\ FilteredMembers(g, 0) = {id \in MembersOf(g) : PartitionNames(id) = {}}

(* A group or partition is never seen with some of the members it was      *)
(* posted with: those that it does not have were taken out or deleted,     *)
(* wherever a request failed, waited, deadlocked or crashed (InsertGroup). *)
AllOrNothing ==
  \A gid \in Gid : Exists(gid) => posted[gid] \subseteq MembersOf(gid) \cup leftOut[gid]

(* Every request is answered: transactions that wait for each other's rows *)
(* end, with an error for one of them.                                     *)
RequestsEnd == \A c \in Client : (tx[c].pc # "idle") ~> (tx[c].pc = "idle")
===============================================================================
