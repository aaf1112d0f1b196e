----------------------------- MODULE GroupsProofs -----------------------------
(***************************************************************************)
(* Proofs about Groups, for any clients, components, names and posts.      *)
(***************************************************************************)
EXTENDS Groups, FiniteSetTheorems, TLAPS

-------------------------------------------------------------------------------
(* The inductive invariant.  A row of a group whose name has passed        *)
(* verification, and a transaction.                                        *)
GroupRow ==
  {g \in Group : /\ g.name \in Name
                 /\ g.ns = "group" => g.excl \in Name \cup {""}}

Answers == {"none", "invalid", "duplicate", "exclusive", "nogroup", "nocomponent", "done",
            "nomember", "nopartition", "empty", "failed"}

Phases == {"idle", "insert", "lookup", "rows", "foreign", "commit",
           "delete", "update", "part", "read", "next"}

Transaction ==
  [pc : Phases,
   op : Op \cup {"none"}, target : Target \cup {<<>>}, row : GroupRow \cup {NoGroup},
   gid : Gid \cup {0}, ids : Seq(Component), rows : SUBSET Member,
   patch : Patches \cup {<<>>}, filter : Filter, part : Gid \cup {0},
   todo : SUBSET Target, answer : Answers]

TypeInv ==
  /\ components \subseteq Component
  /\ groups \in [Gid -> GroupRow \cup {NoGroup}]
  /\ members \subseteq Member
  /\ tx \in [Client -> Transaction]
  /\ requests \in 0 .. MaxRequests
  /\ posted \in [Gid -> SUBSET Component] /\ leftOut \in [Gid -> SUBSET Component]

(* What a transaction has at each of its statements. *)
Phase(t) ==
  /\ t.op = "post" => t.pc \in {"insert", "rows", "foreign", "commit"}
  /\ t.pc \in {"insert", "rows", "foreign", "commit"} =>
       t.op \in {"post", "addmember"} /\ t.row \in GroupRow /\ t.gid \in Gid
  /\ t.pc = "insert" => t.op = "post"
  /\ t.pc \notin {"rows", "foreign", "commit"} => t.rows = {}
  /\ t.pc = "lookup" => t.op \in {"addmember", "delmember", "patch", "get", "list"}
  /\ t.pc \in {"part", "read"} => t.op \in {"get", "list"}
  /\ t.pc = "next" => t.op = "list"
  /\ t.op \in {"addmember", "delmember"} /\ t.pc \in {"lookup", "delete"} => t.ids # <<>>
  /\ t.pc = "delete" => t.op = "delmember" /\ t.gid \in Gid
  /\ t.pc = "update" => t.gid \in Gid /\ t.row \in GroupRow /\ t.op = "patch"
  /\ t.op = "patch" => t.patch \in Patches

(* What it knows of the tables stays so until its end: the group that it   *)
(* posts is not there yet, the one that it adds to keeps its namespace, its *)
(* rows meet none that is committed, and once its foreign keys have been    *)
(* looked up, what they refer to is there.                                  *)
Held(t) ==
  /\ t.gid <= requests
  /\ t.op = "post" => ~ Exists(t.gid)
  /\ t.op = "addmember" /\ t.gid \in Gid =>
       (Exists(t.gid) => MemberNamespace(groups[t.gid]) = MemberNamespace(t.row))
  /\ \A m \in t.rows :
       /\ m.group = t.gid /\ m.ns = MemberNamespace(t.row)
       /\ \A n \in members : ~ SameMember(m, n)
  /\ \A m, n \in t.rows : SameMember(m, n) => m = n
  /\ t.pc = "commit" =>
       /\ \A m \in t.rows : m.id \in components
       /\ t.op = "post" \/ t.rows = {} \/ Exists(t.gid)

(* The rows of two transactions do not meet, and nobody else knows a group *)
(* that is being posted.                                                   *)
Apart(t, u) ==
  /\ \A m \in t.rows, n \in u.rows : ~ SameMember(m, n)
  /\ t.op = "post" => t.gid # u.gid

Transactions ==
  \A c \in Client :
    /\ Phase(tx[c]) /\ Held(tx[c])
    /\ \A d \in Client \ {c} : Apart(tx[c], tx[d])

(* The constraints of the tables: foreign keys, the namespace of each      *)
(* member, and the two unique keys of members.                             *)
Tables ==
  /\ \A gid \in Gid : Exists(gid) => gid <= requests
  /\ \A m \in members :
       /\ Exists(m.group) /\ m.id \in components
       /\ m.ns = MemberNamespace(groups[m.group])
  /\ \A m, n \in members : SameMember(m, n) => m = n

IInv == TypeInv /\ Transactions /\ Tables

-------------------------------------------------------------------------------
(* The operators of the model *)

LEMMA MemberNamespaceType ==
  ASSUME NEW g \in GroupRow
  PROVE  MemberNamespace(g) \in Seq(Name \cup {"%", "%%partition%%"})
  <1> DEFINE S == Name \cup {"%", "%%partition%%"}
  <1>1. \A a \in S : <<a>> \in Seq(S)
    OBVIOUS
  <1>2. \A a, b \in S : <<a, b>> \in Seq(S)
    OBVIOUS
  <1>3. /\ g.name \in S /\ "%" \in S /\ "%%partition%%" \in S
        /\ g.ns # "partition" /\ g.excl # "" => g.excl \in S
    BY DEF GroupRow, Group, Namespace
  <1> HIDE DEF S
  <1>4. MemberNamespace(g) \in Seq(S)
    BY <1>1, <1>2, <1>3 DEF MemberNamespace
  <1> QED  BY <1>4 DEF S

(* A namespace says of a group whether it is a partition. *)
LEMMA PartitionNamespace ==
  ASSUME NEW g \in GroupRow
  PROVE  MemberNamespace(g) = <<"%%partition%%">> <=> g.ns = "partition"
  BY GroupsAssumption DEF MemberNamespace, GroupRow, Group, Namespace

(* Groups that exclude each other share their namespace. *)
LEMMA ExcludeNamespace ==
  ASSUME NEW g, NEW h, Exclude(g, h)
  PROVE  MemberNamespace(g) = MemberNamespace(h)
  BY DEF MemberNamespace, Exclude

(* A patch leaves what a namespace is made of. *)
LEMMA PatchedType ==
  ASSUME NEW g \in GroupRow, NEW read \in GroupRow, NEW p \in Patches
  PROVE  /\ Patched(g, read, p) \in GroupRow
         /\ MemberNamespace(Patched(g, read, p)) = MemberNamespace(g)
  <1>1. p \in Patch
    BY GroupsAssumption
  <1> QED  BY <1>1 DEF Patched, Patch, Value, GroupRow, Group, MemberNamespace

LEMMA IdleTransaction == Idle \in Transaction /\ Phase(Idle)
  BY DEF Idle, Transaction, Phases, Answers, Filter, Phase

LEMMA AskedType ==
  ASSUME NEW op \in Op, NEW ph \in Phases, NEW t \in Target \cup {<<>>}
  PROVE  /\ Asked(op, ph, t) \in Transaction
         /\ Asked(op, ph, t).rows = {} /\ Asked(op, ph, t).gid = 0
         /\ Asked(op, ph, t).op = op /\ Asked(op, ph, t).pc = ph
  BY IdleTransaction DEF Asked, Transaction, Idle

LEMMA NoGroupRow == NoGroup \notin GroupRow
  BY GroupsAssumption DEF GroupRow

LEMMA SameMemberSym ==
  ASSUME NEW m, NEW n
  PROVE  SameMember(m, n) <=> SameMember(n, m)
  BY DEF SameMember

-------------------------------------------------------------------------------
(* Steps that leave the tables alone *)

TablesUnchanged == UNCHANGED <<components, groups, members, posted, leftOut>>

(* The transaction of c becomes u, which fits the others as they are.      *)
LEMMA TxStep ==
  ASSUME IInv, NEW c \in Client, NEW u \in Transaction, Phase(u),
         TablesUnchanged, tx' = [tx EXCEPT ![c] = u],
         requests' \in 0 .. MaxRequests, requests <= requests',
         Held(u)',
         \A d \in Client \ {c} : Apart(u, tx[d]) /\ Apart(tx[d], u)
  PROVE  IInv'
  <1> USE DEF IInv
  <1>1. TypeInv'
    BY DEF TypeInv, TablesUnchanged
  <1>2. requests \in Nat /\ requests' \in Nat
    BY GroupsAssumption DEF TypeInv
  <1>3. ASSUME NEW d \in Client \ {c} PROVE Phase(tx'[d]) /\ Held(tx[d])'
    <2>1. tx'[d] = tx[d] /\ tx[d] \in Transaction /\ Phase(tx[d]) /\ Held(tx[d])
      BY DEF TypeInv, Transactions
    <2>2. tx[d].gid \in Nat
      BY <2>1, GroupsAssumption DEF Transaction, Gid
    <2>3. tx[d].gid <= requests'
      BY <1>2, <2>1, <2>2 DEF Held
    <2> QED  BY <2>1, <2>3 DEF Held, TablesUnchanged, Exists, SameMember, MemberNamespace
  <1>4. tx'[c] = u
    BY DEF TypeInv
  <1>5. ASSUME NEW d \in Client, NEW e \in Client \ {d} PROVE Apart(tx[d], tx[e])'
    <2>1. tx'[d] = (IF d = c THEN u ELSE tx[d]) /\ tx'[e] = (IF e = c THEN u ELSE tx[e])
      BY DEF TypeInv
    <2> QED  BY <2>1 DEF Transactions, Apart, SameMember
  <1>6. Transactions'
    BY <1>3, <1>4, <1>5 DEF Transactions, Apart, SameMember, Phase
  <1>7. Tables'
    BY <1>2, GroupsAssumption DEF Tables, TablesUnchanged, Exists, Gid, SameMember
  <1> QED  BY <1>1, <1>6, <1>7

(* A transaction that has written nothing, and posts nothing: it may know  *)
(* a group that is there.                                                  *)
LEMMA Reads ==
  ASSUME IInv, NEW c \in Client, NEW u \in Transaction, Phase(u),
         TablesUnchanged, tx' = [tx EXCEPT ![c] = u],
         requests' \in 0 .. MaxRequests, requests <= requests',
         u.rows = {}, u.op # "post",
         u.gid \in {0, tx[c].gid} \/ (u.gid \in Gid /\ Exists(u.gid)),
         u.op = "addmember" => u.gid = 0 \/ (u.gid \in Gid /\ u.row = groups[u.gid])
  PROVE  IInv'
  <1>1. requests \in Nat /\ requests' \in Nat
    BY GroupsAssumption DEF IInv, TypeInv
  <1>2. tx[c] \in Transaction /\ Held(tx[c])
    BY DEF IInv, TypeInv, Transactions
  <1>3. u.gid \in Nat /\ u.gid <= requests'
    <2>1. u.gid <= requests
      BY <1>1, <1>2 DEF IInv, Tables, Held
    <2>2. u.gid \in Nat
      BY GroupsAssumption DEF Transaction, Gid
    <2> QED  BY <1>1, <2>1, <2>2
  <1>5. Held(u)'
    <2>1. u.op = "addmember" /\ u.gid \in Gid => MemberNamespace(groups[u.gid]) = MemberNamespace(u.row)
      BY DEF Gid
    <2>2. u.op = "addmember" /\ u.gid \in Gid =>
            (MemberNamespace(groups[u.gid]) = MemberNamespace(u.row))'
      BY <2>1 DEF TablesUnchanged, MemberNamespace
    <2> QED  BY <1>3, <2>2 DEF Held
  <1>6. ASSUME NEW d \in Client \ {c} PROVE Apart(u, tx[d]) /\ Apart(tx[d], u)
    <2>1. Apart(tx[d], tx[c]) /\ Held(tx[d]) /\ Phase(tx[d])
      BY DEF IInv, Transactions
    <2>2. tx[d].op = "post" => tx[d].gid \in Gid /\ ~ Exists(tx[d].gid) /\ tx[d].gid # tx[c].gid
      BY <2>1 DEF Apart, Held, Phase
    <2>3. tx[d].op = "post" => tx[d].gid # u.gid
      BY <2>2 DEF Gid
    <2> QED  BY <2>3 DEF Apart
  <1> QED  BY <1>5, <1>6, TxStep

(* The answer to a request, with its transaction undone. *)
LEMMA AnswerStep ==
  ASSUME IInv, NEW c \in Client, NEW a \in Answers, Answer(c, a), TablesUnchanged,
         UNCHANGED requests
  PROVE  IInv'
  <1> DEFINE u == [Idle EXCEPT !.answer = a]
  <1>1. u \in Transaction /\ Phase(u) /\ u.rows = {} /\ u.op = "none" /\ u.gid = 0
    BY IdleTransaction DEF Idle, Transaction, Phase
  <1>2. requests' \in 0 .. MaxRequests /\ requests <= requests'
    BY GroupsAssumption DEF IInv, TypeInv
  <1>3. tx' = [tx EXCEPT ![c] = u]
    BY DEF Answer
  <1> HIDE DEF u
  <1> QED  BY <1>1, <1>2, <1>3, Reads

LEMMA RefuseStep ==
  ASSUME IInv, NEW c \in Client, NEW a \in Answers, Refuse(c, a)
  PROVE  IInv'
  BY AnswerStep DEF Refuse, TablesUnchanged

(* A request comes that posts nothing. *)
LEMMA BeginStep ==
  ASSUME IInv, NEW c \in Client, NEW r \in Transaction, Phase(r), Begin(c, r),
         r.rows = {}, r.op # "post", r.gid = 0
  PROVE  IInv'
  <1>1. requests' \in 0 .. MaxRequests /\ requests <= requests'
    BY GroupsAssumption DEF IInv, TypeInv, Begin
  <1> QED  BY <1>1, Reads DEF Begin, TablesUnchanged

(* A group is posted: its UUID is new. *)
LEMMA PostStep ==
  ASSUME IInv, NEW c \in Client, NEW p \in Posts,
         NEW r \in {InsertGroup(p), InsertPartition(p)}, Begin(c, r),
         p.group \in GroupRow
  PROVE  IInv'
  <1>1. /\ requests \in Nat /\ requests' \in 0 .. MaxRequests /\ requests <= requests'
        /\ requests' = requests + 1
    BY GroupsAssumption DEF IInv, TypeInv, Begin
  <1>2. p.ids \in Seq(Component)
    BY GroupsAssumption
  <1>3. r.rows = {} /\ r.op = "post" /\ r.pc = "insert" /\ r.gid = requests + 1 /\ r.row = p.group
    BY DEF InsertGroup, InsertPartition, Asked, Idle
  <1>4. requests + 1 \in Gid
    BY <1>1 DEF Gid
  <1>5. r \in Transaction
    <2>1. p.group.name \in Name
      BY DEF GroupRow
    <2>2. <<"group", p.group.name>> \in Target /\ <<"partition", p.group.name>> \in Target
      BY <2>1 DEF Target, Namespace
    <2>3. /\ Asked("post", "insert", <<"group", p.group.name>>) \in Transaction
          /\ Asked("post", "insert", <<"partition", p.group.name>>) \in Transaction
      BY <2>2, AskedType DEF Op, Phases
    <2>4. ASSUME NEW t \in Transaction
          PROVE  [t EXCEPT !.row = p.group, !.ids = p.ids, !.gid = requests + 1] \in Transaction
      BY <1>2, <1>4 DEF Transaction
    <2> QED  BY <2>3, <2>4 DEF InsertGroup, InsertPartition
  <1>6. Phase(r)
    BY <1>3, <1>4 DEF Phase
  <1>7. ~ Exists(requests + 1)
    BY <1>1, <1>4 DEF IInv, Tables
  <1>8. Held(r)'
    BY <1>1, <1>3, <1>7 DEF Held, Begin, Exists
  <1>9. ASSUME NEW d \in Client \ {c} PROVE Apart(r, tx[d]) /\ Apart(tx[d], r)
    <2>1. Held(tx[d]) /\ tx[d] \in Transaction
      BY DEF IInv, TypeInv, Transactions
    <2>2. tx[d].gid \in Nat /\ tx[d].gid <= requests
      BY <2>1, GroupsAssumption DEF Held, Transaction, Gid
    <2> QED  BY <1>1, <1>3, <2>2 DEF Apart
  <1> QED  BY <1>1, <1>5, <1>6, <1>8, <1>9, TxStep DEF Begin, TablesUnchanged

LEMMA RequestStep ==
  ASSUME IInv, NEW c \in Client, Request(c)
  PROVE  IInv'
  <1>1. ASSUME NEW p \in Posts, DoGroupsPost(c, p) \/ DoPartitionsPost(c, p) PROVE IInv'
    <2>1. p.group \in Group
      BY GroupsAssumption
    <2>2. CASE p.group \in GroupRow /\ \E r \in {InsertGroup(p), InsertPartition(p)} : Begin(c, r)
      BY <2>2, PostStep
    <2>3. CASE Begin(c, Invalid)
      <3>1. Invalid \in Transaction /\ Phase(Invalid)
        BY IdleTransaction DEF Invalid, Idle, Transaction, Answers, Phase
      <3>2. Invalid.rows = {} /\ Invalid.op = "none" /\ Invalid.gid = 0
        BY DEF Invalid, Idle
      <3> QED  BY <2>3, <3>1, <3>2, BeginStep
    <2> QED
      BY <1>1, <2>1, <2>2, <2>3
      DEF DoGroupsPost, DoPartitionsPost, VerifyGroup, VerifyPartition, GroupRow
  <1>2. ASSUME NEW name \in Name, NEW id \in Component, NEW ns \in Namespace,
               NEW op \in {"addmember", "delmember"},
               Begin(c, [Asked(op, "lookup", <<ns, name>>) EXCEPT !.ids = <<id>>])
        PROVE  IInv'
    <2> DEFINE t == Asked(op, "lookup", <<ns, name>>)
               r == [t EXCEPT !.ids = <<id>>]
    <2>1. /\ t \in Transaction /\ t.rows = {} /\ t.gid = 0 /\ t.op = op /\ t.pc = "lookup"
      BY AskedType DEF Op, Phases, Target
    <2> HIDE DEF t
    <2>2. <<id>> \in Seq(Component) /\ <<id>> # <<>>
      OBVIOUS
    <2>3. r \in Transaction
      BY <2>1, <2>2 DEF Transaction
    <2>4. r.rows = {} /\ r.gid = 0 /\ r.op = op /\ r.pc = "lookup" /\ r.ids = <<id>>
      BY <2>1 DEF Transaction
    <2>5. Phase(r)
      BY <2>2, <2>4 DEF Phase
    <2>6. Begin(c, r)
      BY <1>2 DEF t
    <2> HIDE DEF r
    <2> QED  BY <2>3, <2>4, <2>5, <2>6, BeginStep
  <1>3. ASSUME NEW name \in Name, NEW ns \in Namespace, NEW p \in Patches,
               Begin(c, [Asked("patch", "lookup", <<ns, name>>) EXCEPT !.patch = p])
        PROVE  IInv'
    <2> DEFINE t == Asked("patch", "lookup", <<ns, name>>)
               r == [t EXCEPT !.patch = p]
    <2>1. /\ t \in Transaction /\ t.rows = {} /\ t.gid = 0 /\ t.op = "patch" /\ t.pc = "lookup"
      BY AskedType DEF Op, Phases, Target
    <2> HIDE DEF t
    <2>2. r \in Transaction
      BY <2>1 DEF Transaction
    <2>3. r.rows = {} /\ r.gid = 0 /\ r.op = "patch" /\ r.pc = "lookup" /\ r.patch = p
      BY <2>1 DEF Transaction
    <2>4. Phase(r)
      BY <2>3 DEF Phase
    <2>5. Begin(c, r)
      BY <1>3 DEF t
    <2> HIDE DEF r
    <2> QED  BY <2>2, <2>3, <2>4, <2>5, BeginStep
  <1>4. ASSUME NEW name \in Name, NEW ns \in Namespace, NEW filter \in Filter,
               Begin(c, [Asked("get", "lookup", <<ns, name>>) EXCEPT !.filter = filter])
        PROVE  IInv'
    <2> DEFINE t == Asked("get", "lookup", <<ns, name>>)
               r == [t EXCEPT !.filter = filter]
    <2>1. /\ t \in Transaction /\ t.rows = {} /\ t.gid = 0 /\ t.op = "get" /\ t.pc = "lookup"
      BY AskedType DEF Op, Phases, Target
    <2> HIDE DEF t
    <2>2. r \in Transaction
      BY <2>1 DEF Transaction
    <2>3. r.rows = {} /\ r.gid = 0 /\ r.op = "get" /\ r.pc = "lookup"
      BY <2>1 DEF Transaction
    <2>4. Phase(r)
      BY <2>3 DEF Phase
    <2>5. Begin(c, r)
      BY <1>4 DEF t
    <2> HIDE DEF r
    <2> QED  BY <2>2, <2>3, <2>4, <2>5, BeginStep
  <1>5. ASSUME NEW name \in Name, DoPartitionGet(c, name) PROVE IInv'
    <2> DEFINE t == Asked("get", "lookup", <<"partition", name>>)
    <2>1. /\ t \in Transaction /\ t.rows = {} /\ t.gid = 0 /\ t.op = "get" /\ t.pc = "lookup"
      BY AskedType DEF Op, Phases, Target, Namespace
    <2>2. Begin(c, t)
      BY <1>5 DEF DoPartitionGet, GetPartition
    <2> HIDE DEF t
    <2> QED  BY <2>1, <2>2, BeginStep DEF Phase
  <1>6. ASSUME NEW todo \in SUBSET Target, NEW filter \in Filter,
               Begin(c, [Asked("list", "next", <<>>) EXCEPT !.filter = filter, !.todo = todo])
               \/ Begin(c, [Asked("list", "next", <<>>) EXCEPT !.todo = todo])
        PROVE  IInv'
    <2> DEFINE t == Asked("list", "next", <<>>)
               r == [t EXCEPT !.filter = filter, !.todo = todo]
               s == [t EXCEPT !.todo = todo]
    <2>1. /\ t \in Transaction /\ t.rows = {} /\ t.gid = 0 /\ t.op = "list" /\ t.pc = "next"
      BY AskedType DEF Op, Phases
    <2> HIDE DEF t
    <2>2. r \in Transaction /\ s \in Transaction
      BY <2>1 DEF Transaction
    <2>3. /\ r.rows = {} /\ r.gid = 0 /\ r.op = "list" /\ r.pc = "next"
          /\ s.rows = {} /\ s.gid = 0 /\ s.op = "list" /\ s.pc = "next"
      BY <2>1 DEF Transaction
    <2>4. Phase(r) /\ Phase(s)
      BY <2>3 DEF Phase
    <2>5. Begin(c, r) \/ Begin(c, s)
      BY <1>6 DEF t
    <2> HIDE DEF r, s
    <2> QED  BY <2>2, <2>3, <2>4, <2>5, BeginStep
  <1>7. /\ {"group"} \X GetGroupLabels \in SUBSET Target
        /\ {"partition"} \X GetPartitionNames \in SUBSET Target
    BY DEF GetGroupLabels, GetPartitionNames, Target, Namespace
  <1>8. "group" \in Namespace /\ "partition" \in Namespace /\ "" \in Filter
    BY DEF Namespace, Filter
  <1> QED
    BY <1>1, <1>2, <1>3, <1>4, <1>5, <1>6, <1>7, <1>8
    DEF Request, DoGroupMembersPost, DoGroupMemberDelete, DoPartitionMembersPost,
        DoPartitionMemberDelete, DoGroupPatch, DoPartitionPatch, DoGroupGet, DoGroupsGet,
        DoPartitionsGet, AddGroupMember, AddPartitionMember, DeleteGroupMember,
        DeletePartitionMember, UpdateGroup, UpdatePartition, GetGroup

-------------------------------------------------------------------------------
(* The statements of an insert *)

LEMMA GoStep ==
  ASSUME IInv, NEW c \in Client, NEW ph \in {"rows", "foreign", "commit"},
         tx[c].pc \in {"insert", "rows", "foreign"}, Go(c, ph),
         TablesUnchanged, UNCHANGED requests,
         ph = "commit" => /\ \A m \in tx[c].rows : m.id \in components
                          /\ tx[c].op = "post" \/ tx[c].rows = {} \/ Exists(tx[c].gid)
  PROVE  IInv'
  <1>1. tx[c] \in Transaction /\ Phase(tx[c]) /\ Held(tx[c])
    BY DEF IInv, TypeInv, Transactions
  <1>2. PICK u \in Transaction : u = [tx[c] EXCEPT !.pc = ph]
    BY <1>1 DEF Transaction, Phases
  <1>3. /\ u.pc = ph /\ u.op = tx[c].op /\ u.row = tx[c].row /\ u.gid = tx[c].gid
        /\ u.rows = tx[c].rows /\ u.patch = tx[c].patch
    BY <1>1, <1>2 DEF Transaction
  <1>4. tx' = [tx EXCEPT ![c] = u]
    BY <1>2 DEF Go
  <1>5. requests' \in 0 .. MaxRequests /\ requests <= requests'
    BY GroupsAssumption DEF IInv, TypeInv
  <1>6. Phase(u)
    BY <1>1, <1>3 DEF Phase
  <1>7. Held(u)
    BY <1>1, <1>3 DEF Held
  <1>8. Held(u)'
    BY <1>7 DEF Held, TablesUnchanged, Exists, SameMember, MemberNamespace
  <1>9. ASSUME NEW d \in Client \ {c} PROVE Apart(u, tx[d]) /\ Apart(tx[d], u)
    <2>1. Apart(tx[c], tx[d]) /\ Apart(tx[d], tx[c])
      BY DEF IInv, Transactions
    <2> QED  BY <1>3, <2>1 DEF Apart
  <1> QED  BY <1>2, <1>4, <1>5, <1>6, <1>8, <1>9, TxStep

LEMMA InsertEmptyStep ==
  ASSUME IInv, NEW c \in Client, InsertEmptyGroup(c) \/ InsertEmptyPartition(c)
  PROVE  IInv'
  <1>1. tx[c].pc = "insert" /\ InsertEmpty(c)
    BY DEF InsertEmptyGroup, InsertEmptyPartition
  <1> QED
    BY <1>1, GoStep, RefuseStep DEF InsertEmpty, Unwritten, TablesUnchanged, Answers

LEMMA CheckForeignKeysStep ==
  ASSUME IInv, NEW c \in Client, CheckForeignKeys(c)
  PROVE  IInv'
  <1>1. CASE Refuse(c, "nocomponent")
    BY <1>1, RefuseStep DEF Answers
  <1>2. CASE ~ Refuse(c, "nocomponent")
    BY <1>2, GoStep DEF CheckForeignKeys, Unwritten, TablesUnchanged
  <1> QED  BY <1>1, <1>2

(* A row is inserted only when it meets none of those that are committed,  *)
(* and none of those that another transaction has inserted.                *)
LEMMA InsertMemberStep ==
  ASSUME IInv, NEW c \in Client, InsertMember(c)
  PROVE  IInv'
  <1> DEFINE t == tx[c]
             row == NextRow(c)
  <1>1. t \in Transaction /\ Phase(t) /\ Held(t)
    BY DEF IInv, TypeInv, Transactions
  <1>2. t.pc = "rows" /\ t.ids # <<>> /\ ~ Waits(c)
    BY DEF InsertMember
  <1>3. t.op \in {"post", "addmember"} /\ t.row \in GroupRow /\ t.gid \in Gid
    BY <1>1, <1>2 DEF Phase
  <1>4. CASE \E m \in members \cup t.rows : SameMember(m, row)
    <2>1. Refuse(c, "duplicate") \/ Refuse(c, "exclusive")
      BY <1>4 DEF InsertMember
    <2> QED  BY <2>1, RefuseStep DEF Answers
  <1>5. CASE ~ \E m \in members \cup t.rows : SameMember(m, row)
    <2>1. Head(t.ids) \in Component /\ Tail(t.ids) \in Seq(Component)
      BY <1>1, <1>2 DEF Transaction
    <2>2. row \in Member /\ row.group = t.gid /\ row.ns = MemberNamespace(t.row)
      BY <1>3, <2>1, MemberNamespaceType DEF NextRow, Member
    <2> HIDE DEF row
    <2>3. PICK u \in Transaction : u = [t EXCEPT !.rows = @ \cup {row}, !.ids = Tail(@)]
      BY <1>1, <2>1, <2>2 DEF Transaction
    <2>4. tx' = [tx EXCEPT ![c] = u] /\ Unwritten
      BY <1>5, <2>3 DEF InsertMember, row
    <2>5. /\ u.pc = t.pc /\ u.op = t.op /\ u.row = t.row /\ u.gid = t.gid
          /\ u.rows = t.rows \cup {row} /\ u.patch = t.patch
      BY <1>1, <2>3 DEF Transaction
    <2>6. Phase(u)
      BY <1>1, <1>2, <2>5 DEF Phase
    <2>7. \A m, n \in u.rows : SameMember(m, n) => m = n
      BY <1>1, <1>5, <2>5 DEF Held, SameMember
    <2>8. \A m \in u.rows, n \in members : ~ SameMember(m, n)
      BY <1>1, <1>5, <2>5 DEF Held, SameMember
    <2>9. Held(u)
      BY <1>1, <1>2, <2>2, <2>5, <2>7, <2>8 DEF Held
    <2>10. Held(u)'
      BY <2>4, <2>9 DEF Held, Unwritten, Exists, SameMember, MemberNamespace
    <2>11. ASSUME NEW d \in Client \ {c} PROVE Apart(u, tx[d]) /\ Apart(tx[d], u)
      <3>1. Apart(t, tx[d]) /\ Apart(tx[d], t)
        BY DEF IInv, Transactions
      <3>2. \A m \in tx[d].rows : ~ SameMember(m, row)
        BY <1>2 DEF Waits, WaitsFor, row
      <3> QED  BY <2>5, <3>1, <3>2 DEF Apart, SameMember
    <2>12. requests' \in 0 .. MaxRequests /\ requests <= requests'
      BY <2>4, GroupsAssumption DEF IInv, TypeInv, Unwritten
    <2> QED
      BY <2>4, <2>3, <2>6, <2>10, <2>11, <2>12, TxStep DEF Unwritten, TablesUnchanged
  <1> QED  BY <1>4, <1>5

-------------------------------------------------------------------------------
(* The statements that read *)

LEMMA GetEmptyStep ==
  ASSUME IInv, NEW c \in Client, GetEmptyGroup(c) \/ GetEmptyPartition(c)
  PROVE  IInv'
  <1> DEFINE t == tx[c]
  <1>1. t.pc = "lookup" /\ GetEmpty(c)
    BY DEF GetEmptyGroup, GetEmptyPartition
  <1>2. t \in Transaction /\ Phase(t)
    BY DEF IInv, TypeInv, Transactions
  <1>3. /\ TablesUnchanged /\ UNCHANGED requests
        /\ requests' \in 0 .. MaxRequests /\ requests <= requests'
    <2>1. Unwritten
      BY <1>1 DEF GetEmpty
    <2> QED  BY <2>1, GroupsAssumption DEF Unwritten, TablesUnchanged, IInv, TypeInv
  <1>4. t.op \in {"addmember", "delmember", "patch", "get", "list"} /\ t.rows = {}
    BY <1>1, <1>2 DEF Phase
  <1>5. CASE Answer(c, "nogroup")
    BY <1>3, <1>5, AnswerStep DEF Answers
  <1>6. CASE t.op \in {"get", "list"} /\ tx' = [tx EXCEPT ![c].pc = "part", ![c].gid = 0, ![c].row = NoGroup]
    <2>1. PICK u \in Transaction : u = [t EXCEPT !.pc = "part", !.gid = 0, !.row = NoGroup]
      BY <1>2 DEF Transaction, Phases
    <2>2. u.pc = "part" /\ u.gid = 0 /\ u.op = t.op /\ u.rows = {}
      BY <1>2, <1>4, <2>1 DEF Transaction
    <2>3. Phase(u)
      BY <1>6, <2>2 DEF Phase
    <2>4. tx' = [tx EXCEPT ![c] = u]
      BY <1>6, <2>1
    <2> QED  BY <1>3, <1>6, <2>2, <2>3, <2>4, Reads
  <1>7. ASSUME NEW gid \in Named(t.target),
               tx' = [tx EXCEPT ![c].pc = AfterLookup[t.op], ![c].gid = gid, ![c].row = groups[gid]]
        PROVE  IInv'
    <2>1. gid \in Gid /\ Exists(gid) /\ groups[gid] \in GroupRow
      BY DEF Named, Exists, IInv, TypeInv
    <2>2. AfterLookup[t.op] \in {"rows", "delete", "update", "part"}
      BY <1>4 DEF AfterLookup
    <2>3. PICK u \in Transaction :
            u = [t EXCEPT !.pc = AfterLookup[t.op], !.gid = gid, !.row = groups[gid]]
      BY <1>2, <2>1, <2>2 DEF Transaction, Phases
    <2>4. /\ u.pc = AfterLookup[t.op] /\ u.gid = gid /\ u.op = t.op /\ u.rows = {}
          /\ u.row = groups[gid] /\ u.ids = t.ids /\ u.patch = t.patch
      BY <1>2, <1>4, <2>3 DEF Transaction
    <2>5. Phase(u)
      BY <1>1, <1>2, <1>4, <2>1, <2>4 DEF Phase, AfterLookup
    <2>6. tx' = [tx EXCEPT ![c] = u]
      BY <1>7, <2>3
    <2> QED  BY <1>3, <1>4, <2>1, <2>4, <2>5, <2>6, Reads
  <1> QED  BY <1>1, <1>4, <1>5, <1>6, <1>7 DEF GetEmpty

(* A get or a list goes on, with nothing written. *)
LEMMA ReadOn ==
  ASSUME IInv, NEW c \in Client, tx[c].pc \in {"part", "read", "next"},
         NEW ph \in {"lookup", "read", "next"}, ph # "read" => tx[c].op = "list",
         NEW part \in Gid \cup {0}, NEW target \in Target \cup {<<>>}, NEW todo \in SUBSET Target,
         tx' = [tx EXCEPT ![c].pc = ph, ![c].part = part, ![c].target = target, ![c].todo = todo],
         Unwritten
  PROVE  IInv'
  <1>1. tx[c] \in Transaction /\ Phase(tx[c])
    BY DEF IInv, TypeInv, Transactions
  <1>2. TablesUnchanged /\ requests' \in 0 .. MaxRequests /\ requests <= requests'
    BY GroupsAssumption DEF Unwritten, TablesUnchanged, IInv, TypeInv
  <1>3. PICK u \in Transaction :
          u = [tx[c] EXCEPT !.pc = ph, !.part = part, !.target = target, !.todo = todo]
    <2>1. ph \in Phases
      BY DEF Phases
    <2> QED  BY <1>1, <2>1 DEF Transaction
  <1>4. /\ u.pc = ph /\ u.gid = tx[c].gid /\ u.op = tx[c].op /\ u.rows = tx[c].rows
        /\ tx[c].op \in {"get", "list"} /\ tx[c].rows = {}
    BY <1>1, <1>3 DEF Transaction, Phase
  <1>5. Phase(u)
    BY <1>4 DEF Phase
  <1>6. tx' = [tx EXCEPT ![c] = u]
    BY <1>3
  <1> QED  BY <1>2, <1>4, <1>5, <1>6, Reads

LEMMA GetFilterStep ==
  ASSUME IInv, NEW c \in Client, GetFilter(c)
  PROVE  IInv'
  <1>1. tx[c] \in Transaction /\ Phase(tx[c]) /\ tx[c].pc = "part" /\ Unwritten
    BY DEF IInv, TypeInv, Transactions, GetFilter
  <1>2. ASSUME NEW part \in Gid \cup {0}, tx' = [tx EXCEPT ![c].pc = "read", ![c].part = part]
        PROVE  IInv'
    <2>1. tx' = [tx EXCEPT ![c].pc = "read", ![c].part = part, ![c].target = tx[c].target,
                           ![c].todo = tx[c].todo]
      BY <1>1, <1>2 DEF Transaction, IInv, TypeInv
    <2>2. tx[c].target \in Target \cup {<<>>} /\ tx[c].todo \in SUBSET Target
      BY <1>1 DEF Transaction
    <2> QED  BY <1>1, <2>1, <2>2, ReadOn
  <1>3. CASE Go(c, "read")
    <2>1. tx' = [tx EXCEPT ![c].pc = "read", ![c].part = tx[c].part]
      BY <1>1, <1>3 DEF Go, Transaction, IInv, TypeInv
    <2>2. tx[c].part \in Gid \cup {0}
      BY <1>1 DEF Transaction
    <2> QED  BY <1>2, <2>1, <2>2
  <1>4. CASE Answer(c, "nopartition")
    BY <1>1, <1>4, AnswerStep DEF Answers, Unwritten, TablesUnchanged
  <1> QED  BY <1>2, <1>3, <1>4 DEF GetFilter, Named

LEMMA GetMembersStep ==
  ASSUME IInv, NEW c \in Client, GetMembers(c)
  PROVE  IInv'
  <1>1. tx[c] \in Transaction /\ tx[c].pc = "read" /\ Unwritten
    BY DEF IInv, TypeInv, GetMembers
  <1>2. CASE tx[c].op = "list" /\ Go(c, "next")
    <2>1. tx' = [tx EXCEPT ![c].pc = "next", ![c].part = tx[c].part, ![c].target = tx[c].target,
                           ![c].todo = tx[c].todo]
      BY <1>1, <1>2 DEF Go, Transaction, IInv, TypeInv
    <2>2. /\ tx[c].part \in Gid \cup {0} /\ tx[c].target \in Target \cup {<<>>}
          /\ tx[c].todo \in SUBSET Target
      BY <1>1 DEF Transaction
    <2> QED  BY <1>1, <1>2, <2>1, <2>2, ReadOn
  <1>3. CASE \E a \in Answers : Answer(c, a)
    BY <1>1, <1>3, AnswerStep DEF Unwritten, TablesUnchanged
  <1>4. "nogroup" \in Answers /\ "empty" \in Answers /\ "done" \in Answers
    BY DEF Answers
  <1> QED  BY <1>2, <1>3, <1>4 DEF GetMembers

LEMMA NextOfListStep ==
  ASSUME IInv, NEW c \in Client, NextOfList(c)
  PROVE  IInv'
  <1>1. tx[c] \in Transaction /\ Phase(tx[c]) /\ tx[c].pc = "next" /\ Unwritten
    BY DEF IInv, TypeInv, Transactions, NextOfList
  <1>2. CASE Answer(c, "done")
    BY <1>1, <1>2, AnswerStep DEF Answers, Unwritten, TablesUnchanged
  <1>3. ASSUME NEW t \in tx[c].todo,
               tx' = [tx EXCEPT ![c].pc = "lookup", ![c].target = t, ![c].todo = @ \ {t}]
        PROVE  IInv'
    <2>1. /\ tx[c].part \in Gid \cup {0} /\ t \in Target \cup {<<>>}
          /\ tx[c].todo \ {t} \in SUBSET Target /\ tx[c].op = "list"
      BY <1>1 DEF Transaction, Phase
    <2>2. PICK todo \in SUBSET Target : todo = tx[c].todo \ {t}
      BY <2>1
    <2>3. tx' = [tx EXCEPT ![c].pc = "lookup", ![c].part = tx[c].part, ![c].target = t,
                           ![c].todo = todo]
      BY <1>1, <1>3, <2>2 DEF Transaction, IInv, TypeInv
    <2> QED  BY <1>1, <2>1, <2>3, ReadOn
  <1> QED  BY <1>2, <1>3 DEF NextOfList

-------------------------------------------------------------------------------
(* The statements that write *)

TablesType ==
  /\ components \subseteq Component
  /\ groups \in [Gid -> GroupRow \cup {NoGroup}]
  /\ members \subseteq Member
  /\ requests \in 0 .. MaxRequests
  /\ posted \in [Gid -> SUBSET Component] /\ leftOut \in [Gid -> SUBSET Component]

(* A transaction ends with a write that the others can bear. *)
LEMMA WriteStep ==
  ASSUME IInv, NEW c \in Client, NEW a \in Answers, Answer(c, a),
         TablesType', Tables', UNCHANGED requests,
         \A d \in Client \ {c} : Held(tx[d]) => Held(tx[d])'
  PROVE  IInv'
  <1>1. PICK u : u = [Idle EXCEPT !.answer = a]
    OBVIOUS
  <1>2. u \in Transaction /\ Phase(u) /\ u.rows = {} /\ u.op = "none" /\ u.gid = 0 /\ u.pc = "idle"
    BY <1>1, IdleTransaction DEF Idle, Transaction, Phase
  <1>3. tx' = [tx EXCEPT ![c] = u]
    BY <1>1 DEF Answer
  <1>4. TypeInv'
    BY <1>2, <1>3 DEF IInv, TypeInv, TablesType
  <1>5. Held(u)'
    <2>1. requests \in Nat /\ requests' = requests
      BY GroupsAssumption DEF IInv, TypeInv
    <2> QED  BY <1>2, <2>1 DEF Held
  <1>6. ASSUME NEW d \in Client PROVE (Phase(tx[d]) /\ Held(tx[d]))'
    <2>1. CASE d = c
      BY <1>2, <1>3, <1>5, <2>1 DEF IInv, TypeInv
    <2>2. CASE d # c
      <3>1. tx'[d] = tx[d]
        BY <1>3, <2>2 DEF IInv, TypeInv
      <3>2. Held(tx[d])' /\ Phase(tx[d])
        BY <2>2 DEF IInv, Transactions
      <3> QED  BY <3>1, <3>2
    <2> QED  BY <2>1, <2>2
  <1>7. ASSUME NEW d \in Client, NEW e \in Client \ {d} PROVE Apart(tx[d], tx[e])'
    <2>1. tx'[d] = (IF d = c THEN u ELSE tx[d]) /\ tx'[e] = (IF e = c THEN u ELSE tx[e])
      BY <1>3 DEF IInv, TypeInv
    <2>2. Apart(tx[d], tx[e]) /\ Phase(tx[d])
      BY DEF IInv, Transactions
    <2>3. tx[d].op = "post" => tx[d].gid # 0
      BY <2>2 DEF Phase, Gid
    <2> QED  BY <1>2, <2>1, <2>2, <2>3 DEF Apart, SameMember
  <1> QED  BY <1>4, <1>6, <1>7 DEF IInv, Transactions

(* The rows become visible, of a new group or of one that is there. *)
LEMMA CommitStep ==
  ASSUME IInv, NEW c \in Client, Commit(c)
  PROVE  IInv'
  <1> DEFINE t == tx[c]
             gid == t.gid
  <1>1. /\ t \in Transaction /\ Phase(t) /\ Held(t) /\ t.pc = "commit"
        /\ TypeInv /\ Tables
    BY DEF IInv, TypeInv, Transactions, Commit
  <1>2. t.op \in {"post", "addmember"} /\ t.row \in GroupRow /\ gid \in Gid /\ t.rows \subseteq Member
    BY <1>1 DEF Phase, Transaction
  <1>3. /\ members' = members \cup t.rows
        /\ UNCHANGED <<components, requests>> /\ Answer(c, "done")
    BY DEF Commit
  <1>4. groups' = IF t.op = "post" THEN [groups EXCEPT ![gid] = t.row] ELSE groups
    BY DEF Commit
  <1>5. \A g \in Gid : Exists(g)' <=> Exists(g) \/ (t.op = "post" /\ g = gid)
    BY <1>1, <1>2, <1>4, NoGroupRow DEF TypeInv, Exists
  <1>6. \A g \in Gid : Exists(g) => groups'[g] = groups[g]
    BY <1>1, <1>2, <1>4 DEF TypeInv, Held
  <1>7. {m.id : m \in t.rows} \in SUBSET Component
    BY <1>2 DEF Member
  <1>8. TablesType'
    <2>1. groups' \in [Gid -> GroupRow \cup {NoGroup}]
      BY <1>1, <1>2, <1>4 DEF TypeInv
    <2>2. posted' \in [Gid -> SUBSET Component] /\ leftOut' \in [Gid -> SUBSET Component]
      BY <1>1, <1>7 DEF TypeInv, Commit
    <2> QED  BY <1>1, <1>2, <1>3, <2>1, <2>2 DEF TablesType, TypeInv
  <1>9. Tables'
    <2>1. \A g \in Gid : Exists(g)' => g <= requests'
      BY <1>1, <1>3, <1>5 DEF Tables, Held
    <2>2. ASSUME NEW m \in members PROVE Exists(m.group)' /\ m.id \in components'
                                         /\ m.ns = MemberNamespace(groups'[m.group])
      BY <1>1, <1>3, <1>5, <1>6 DEF Tables, TypeInv, Member
    <2>3. ASSUME NEW m \in t.rows PROVE Exists(m.group)' /\ m.id \in components'
                                        /\ m.ns = MemberNamespace(groups'[m.group])
      <3>1. m.group = gid /\ m.ns = MemberNamespace(t.row) /\ m.id \in components
        BY <1>1 DEF Held
      <3>2. CASE t.op = "post"
        BY <1>1, <1>2, <1>3, <1>4, <1>5, <3>1, <3>2 DEF TypeInv
      <3>3. CASE t.op = "addmember"
        <4>1. Exists(gid)
          BY <1>1, <3>3 DEF Held
        <4>2. MemberNamespace(groups[gid]) = MemberNamespace(t.row)
          BY <1>1, <1>2, <3>3, <4>1 DEF Held
        <4> QED  BY <1>2, <1>3, <1>5, <1>6, <3>1, <4>1, <4>2
      <3> QED  BY <1>2, <3>2, <3>3
    <2>4. \A m, n \in members' : SameMember(m, n) => m = n
      BY <1>1, <1>3, SameMemberSym DEF Tables, Held
    <2> QED  BY <1>3, <2>1, <2>2, <2>3, <2>4 DEF Tables, MemberNamespace, SameMember
  <1>10. ASSUME NEW d \in Client \ {c}, Held(tx[d]) PROVE Held(tx[d])'
    <2>1. PICK v \in Transaction : v = tx[d]
      BY DEF IInv, TypeInv
    <2>2. Phase(v) /\ Held(v) /\ Apart(t, v) /\ Apart(v, t)
      BY <1>10, <2>1 DEF IInv, Transactions
    <2>3. v.gid \in Gid => (Exists(v.gid)' <=> Exists(v.gid))
      BY <1>5, <2>2 DEF Apart
    <2>4. v.gid <= requests' /\ (v.op = "post" => ~ Exists(v.gid)')
      BY <1>3, <2>2, <2>3 DEF Held, Phase
    <2>5. v.op = "addmember" /\ v.gid \in Gid /\ Exists(v.gid)'
            => MemberNamespace(groups'[v.gid]) = MemberNamespace(v.row)
      BY <1>6, <2>2, <2>3 DEF Held
    <2>6. \A m \in v.rows : \A n \in members' : ~ SameMember(m, n)
      BY <1>3, <2>2 DEF Held, Apart
    <2>7. v.pc = "commit" => v.op = "post" \/ v.rows = {} \/ Exists(v.gid)'
      BY <2>2, <2>3 DEF Held, Phase
    <2>8. /\ \A m \in v.rows : m.group = v.gid /\ m.ns = MemberNamespace(v.row)
          /\ \A m, n \in v.rows : SameMember(m, n) => m = n
          /\ v.pc = "commit" => \A m \in v.rows : m.id \in components'
      BY <1>3, <2>2 DEF Held
    <2>9. Held(v)'
      BY <2>4, <2>5, <2>6, <2>7, <2>8 DEF Held, MemberNamespace, SameMember
    <2>10. tx'[d] = v
      BY <1>3, <2>1 DEF Answer, IInv, TypeInv
    <2> QED  BY <2>9, <2>10 DEF Held, Exists, MemberNamespace, SameMember
  <1> QED  BY <1>3, <1>8, <1>9, <1>10, WriteStep DEF Answers

(* A step that takes rows away, or patches a group, leaves what the others *)
(* hold, unless their foreign keys refer to what is gone.                  *)
LEMMA Kept ==
  ASSUME IInv, NEW d \in Client, tx'[d] = tx[d],
         requests' \in Nat, requests <= requests', members' \subseteq members,
         \A g \in Gid : Exists(g)' =>
           Exists(g) /\ MemberNamespace(groups'[g]) = MemberNamespace(groups[g]),
         tx[d].pc = "commit" =>
           /\ \A m \in tx[d].rows : m.id \in components'
           /\ \A m \in tx[d].rows : Exists(m.group) => Exists(m.group)'
  PROVE  Held(tx[d])'
  <1>1. PICK v \in Transaction : v = tx[d]
    BY DEF IInv, TypeInv
  <1>2. Phase(v) /\ Held(v)
    BY <1>1 DEF IInv, Transactions
  <1>3. v.gid \in Nat /\ requests \in Nat
    BY GroupsAssumption DEF Transaction, Gid, IInv, TypeInv
  <1>4. v.gid <= requests' /\ (v.op = "post" => ~ Exists(v.gid)')
    BY <1>2, <1>3 DEF Held, Phase
  <1>5. v.op = "addmember" /\ v.gid \in Gid /\ Exists(v.gid)'
          => MemberNamespace(groups'[v.gid]) = MemberNamespace(v.row)
    BY <1>2 DEF Held
  <1>6. /\ \A m \in v.rows :
             /\ m.group = v.gid /\ m.ns = MemberNamespace(v.row)
             /\ \A n \in members' : ~ SameMember(m, n)
        /\ \A m, n \in v.rows : SameMember(m, n) => m = n
    BY <1>2 DEF Held
  <1>7. v.pc = "commit" => /\ \A m \in v.rows : m.id \in components'
                           /\ v.op = "post" \/ v.rows = {} \/ Exists(v.gid)'
    BY <1>1, <1>2 DEF Held
  <1>8. Held(v)'
    BY <1>4, <1>5, <1>6, <1>7 DEF Held, MemberNamespace, SameMember
  <1> QED  BY <1>1, <1>8 DEF Held, Exists, MemberNamespace, SameMember

LEMMA DeleteMemberStep ==
  ASSUME IInv, NEW c \in Client, DeleteMember(c)
  PROVE  IInv'
  <1> DEFINE out == {m \in members : m.group = tx[c].gid /\ m.id = Head(tx[c].ids)}
  <1>1. /\ members' = members \ out /\ UNCHANGED <<components, groups, requests, posted>>
        /\ leftOut' = [leftOut EXCEPT ![tx[c].gid] = @ \cup {m.id : m \in out}]
        /\ \E a \in {"nomember", "done"} : Answer(c, a)
    BY DEF DeleteMember
  <1>2. {m.id : m \in out} \in SUBSET Component
    BY DEF IInv, TypeInv, Member
  <1> HIDE DEF out
  <1>3. TablesType'
    BY <1>1, <1>2 DEF TablesType, IInv, TypeInv
  <1>4. Tables'
    BY <1>1 DEF Tables, IInv, Exists, MemberNamespace, SameMember
  <1>5. ASSUME NEW d \in Client \ {c} PROVE Held(tx[d])'
    <2>1. tx'[d] = tx[d]
      BY <1>1 DEF Answer, IInv, TypeInv
    <2>2. requests' \in Nat /\ requests <= requests'
      BY <1>1, GroupsAssumption DEF IInv, TypeInv
    <2>3. \A g : Exists(g)' <=> Exists(g)
      BY <1>1 DEF Exists
    <2>4. tx[d].pc = "commit" => \A m \in tx[d].rows : m.id \in components'
      BY <1>1 DEF IInv, Transactions, Held
    <2> QED  BY <1>1, <2>1, <2>2, <2>3, <2>4, Kept
  <1> QED  BY <1>1, <1>3, <1>4, <1>5, WriteStep DEF Answers

LEMMA UpdateEmptyStep ==
  ASSUME IInv, NEW c \in Client, UpdateEmptyGroup(c) \/ UpdateEmptyPartition(c)
  PROVE  IInv'
  <1> DEFINE t == tx[c]
  <1>1. /\ t.pc = "update" /\ t \in Transaction /\ Phase(t)
        /\ UNCHANGED <<components, members, requests, posted, leftOut>> /\ Answer(c, "done")
        /\ groups' = IF Exists(t.gid)
                     THEN [groups EXCEPT ![t.gid] = Patched(groups[t.gid], t.row, t.patch)]
                     ELSE groups
    BY DEF IInv, TypeInv, Transactions, UpdateEmptyGroup, UpdateEmptyPartition, UpdateEmpty
  <1>2. t.gid \in Gid /\ t.row \in GroupRow /\ t.patch \in Patches
    BY <1>1 DEF Phase
  <1>3. groups \in [Gid -> GroupRow \cup {NoGroup}]
    BY DEF IInv, TypeInv
  <1>4. Exists(t.gid) => /\ Patched(groups[t.gid], t.row, t.patch) \in GroupRow
                         /\ MemberNamespace(Patched(groups[t.gid], t.row, t.patch))
                              = MemberNamespace(groups[t.gid])
    BY <1>2, <1>3, PatchedType DEF Exists
  <1>5. /\ groups' \in [Gid -> GroupRow \cup {NoGroup}]
        /\ \A g \in Gid : Exists(g)' <=> Exists(g)
        /\ \A g \in Gid : Exists(g) => MemberNamespace(groups'[g]) = MemberNamespace(groups[g])
    BY <1>1, <1>2, <1>3, <1>4, NoGroupRow DEF Exists
  <1>6. TablesType'
    BY <1>1, <1>5 DEF TablesType, IInv, TypeInv
  <1>7. Tables'
    <2>1. \A m \in members : m.group \in Gid
      BY DEF IInv, TypeInv, Member
    <2>2. \A m \in members' : Exists(m.group)' /\ m.id \in components'
                              /\ m.ns = MemberNamespace(groups'[m.group])
      BY <1>1, <1>5, <2>1 DEF IInv, Tables
    <2> QED  BY <1>1, <1>5, <2>2 DEF IInv, Tables, MemberNamespace, SameMember
  <1>8. ASSUME NEW d \in Client \ {c} PROVE Held(tx[d])'
    <2>1. tx'[d] = tx[d]
      BY <1>1 DEF Answer, IInv, TypeInv
    <2>2. requests' \in Nat /\ requests <= requests'
      BY <1>1, GroupsAssumption DEF IInv, TypeInv
    <2>3. tx[d].pc = "commit" => \A m \in tx[d].rows : m.id \in components' /\ m.group \in Gid
      BY <1>1 DEF IInv, TypeInv, Transactions, Held, Transaction, Member
    <2> QED  BY <1>1, <1>5, <2>1, <2>2, <2>3, Kept
  <1> QED  BY <1>1, <1>6, <1>7, <1>8, WriteStep DEF Answers

(* A write of somebody else, which all transactions can bear. *)
LEMMA OutsideStep ==
  ASSUME IInv, TablesType', Tables', UNCHANGED tx, \A d \in Client : Held(tx[d])'
  PROVE  IInv'
  <1>1. TypeInv'
    BY DEF IInv, TypeInv, TablesType
  <1>2. Transactions'
    BY DEF IInv, Transactions, Apart, Phase, SameMember
  <1> QED  BY <1>1, <1>2 DEF IInv

LEMMA DeleteStep ==
  ASSUME IInv, NEW t, Delete(t)
  PROVE  IInv'
  <1>1. /\ requests' = requests + 1 /\ requests < MaxRequests /\ requests \in Nat
        /\ requests' \in 0 .. MaxRequests
        /\ UNCHANGED <<components, tx, posted, leftOut>>
    BY GroupsAssumption DEF Delete, IInv, TypeInv
  <1>2. PICK gid \in Gid :
          /\ \A c \in Client : ~ KeepsGroup(c, gid)
          /\ groups' = [groups EXCEPT ![gid] = NoGroup]
          /\ members' = {m \in members : m.group # gid}
    BY DEF Delete, Named
  <1>3. \A g \in Gid : /\ Exists(g)' <=> Exists(g) /\ g # gid
                       /\ g # gid => groups'[g] = groups[g]
    BY <1>2 DEF Exists, IInv, TypeInv
  <1>4. TablesType'
    BY <1>1, <1>2 DEF TablesType, IInv, TypeInv
  <1>5. Tables'
    <2>1. \A m \in members : m.group \in Gid
      BY DEF IInv, TypeInv, Member
    <2>2. \A g \in Gid : Exists(g)' => g <= requests'
      BY <1>1, <1>3 DEF IInv, Tables, Gid
    <2>3. \A m \in members' : Exists(m.group)' /\ m.id \in components'
                              /\ m.ns = MemberNamespace(groups'[m.group])
      BY <1>1, <1>2, <1>3, <2>1 DEF IInv, Tables
    <2> QED  BY <1>2, <2>2, <2>3 DEF IInv, Tables, MemberNamespace, SameMember
  <1>6. ASSUME NEW d \in Client PROVE Held(tx[d])'
    <2>1. tx'[d] = tx[d] /\ members' \subseteq members /\ requests' \in Nat /\ requests <= requests'
      BY <1>1, <1>2
    <2>2. \A g \in Gid : Exists(g)' =>
            Exists(g) /\ MemberNamespace(groups'[g]) = MemberNamespace(groups[g])
      BY <1>3
    <2>3. tx[d].pc = "commit" => \A m \in tx[d].rows :
            m.id \in components' /\ m.group \in Gid /\ m.group # gid
      BY <1>1, <1>2 DEF IInv, TypeInv, Transactions, Held, Transaction, Member, KeepsGroup
    <2>4. tx[d].pc = "commit" =>
            /\ \A m \in tx[d].rows : m.id \in components'
            /\ \A m \in tx[d].rows : Exists(m.group) => Exists(m.group)'
      BY <1>3, <2>3
    <2> QED  BY <2>1, <2>2, <2>4, Kept
  <1> QED  BY <1>1, <1>4, <1>5, <1>6, OutsideStep

LEMMA DeleteComponentStep ==
  ASSUME IInv, NEW id \in Component, DeleteComponent(id)
  PROVE  IInv'
  <1>1. /\ requests' = requests + 1 /\ requests < MaxRequests /\ requests \in Nat
        /\ requests' \in 0 .. MaxRequests /\ UNCHANGED <<groups, tx, posted>>
        /\ components' = components \ {id} /\ members' = {m \in members : m.id # id}
        /\ \A c \in Client : ~ KeepsComponent(c, id)
    BY GroupsAssumption DEF DeleteComponent, IInv, TypeInv
  <1>2. leftOut' \in [Gid -> SUBSET Component]
    BY DEF DeleteComponent, IInv, TypeInv
  <1>3. TablesType'
    BY <1>1, <1>2 DEF TablesType, IInv, TypeInv
  <1>4. \A g : Exists(g)' <=> Exists(g)
    BY <1>1 DEF Exists
  <1>5. Tables'
    <2>1. \A g \in Gid : Exists(g)' => g <= requests'
      BY <1>1, <1>4 DEF IInv, Tables, Gid
    <2> QED  BY <1>1, <1>4, <2>1 DEF IInv, Tables, MemberNamespace, SameMember
  <1>6. ASSUME NEW d \in Client PROVE Held(tx[d])'
    <2>1. tx'[d] = tx[d] /\ members' \subseteq members /\ requests' \in Nat /\ requests <= requests'
      BY <1>1
    <2>2. \A g \in Gid : Exists(g)' =>
            Exists(g) /\ MemberNamespace(groups'[g]) = MemberNamespace(groups[g])
      BY <1>1, <1>4
    <2>3. tx[d].pc = "commit" =>
            /\ \A m \in tx[d].rows : m.id \in components'
            /\ \A m \in tx[d].rows : Exists(m.group) => Exists(m.group)'
      BY <1>1, <1>4 DEF IInv, Transactions, Held, KeepsComponent
    <2> QED  BY <2>1, <2>2, <2>3, Kept
  <1> QED  BY <1>1, <1>3, <1>5, <1>6, OutsideStep

-------------------------------------------------------------------------------
LEMMA InvInit == Init => IInv
  <1> SUFFICES ASSUME Init PROVE IInv
    OBVIOUS
  <1>1. MaxRequests \in Nat /\ \A c \in Client : tx[c] = Idle
    BY GroupsAssumption DEF Init
  <1>2. Idle.rows = {} /\ Idle.gid = 0 /\ Idle.op = "none" /\ Idle.pc = "idle"
    BY DEF Idle
  <1>3. TypeInv
    BY <1>1, IdleTransaction DEF Init, TypeInv
  <1>4. Held(Idle)
    BY <1>2 DEF Held, Init
  <1>5. Transactions
    BY <1>1, <1>2, <1>4, IdleTransaction DEF Transactions, Apart
  <1>6. Tables
    BY DEF Init, Tables, Exists
  <1> QED  BY <1>3, <1>5, <1>6 DEF IInv

THEOREM InvStep == IInv /\ [Next]_vars => IInv'
  <1> SUFFICES ASSUME IInv, [Next]_vars PROVE IInv'
    OBVIOUS
  <1>1. ASSUME NEW c \in Client, Request(c) PROVE IInv'
    BY <1>1, RequestStep
  <1>2. ASSUME NEW c \in Client, Step(c) PROVE IInv'
    <2>1. CASE RowsDone(c)
      BY <2>1, GoStep DEF RowsDone, Unwritten, TablesUnchanged
    <2> QED
      BY <1>2, <2>1, InsertEmptyStep, GetEmptyStep, InsertMemberStep, CheckForeignKeysStep,
         CommitStep, DeleteMemberStep, UpdateEmptyStep, GetFilterStep, GetMembersStep,
         NextOfListStep
      DEF Step
  <1>3. ASSUME NEW c \in Client, Abort(c) \/ Crash(c) PROVE IInv'
    BY <1>3, RefuseStep DEF Abort, Crash, Answers
  <1>4. ASSUME NEW name \in Name, DeleteGroup(name) \/ DeletePartition(name) PROVE IInv'
    BY <1>4, DeleteStep DEF DeleteGroup, DeletePartition
  <1>5. ASSUME NEW id \in Component, DeleteComponent(id) PROVE IInv'
    BY <1>5, DeleteComponentStep
  <1>6. CASE UNCHANGED vars
    <2>1. TablesType'
      BY <1>6 DEF IInv, TypeInv, TablesType, vars
    <2>2. Tables'
      BY <1>6 DEF IInv, Tables, Exists, SameMember, MemberNamespace, vars
    <2>3. ASSUME NEW d \in Client PROVE Held(tx[d])'
      <3>1. Held(tx[d])
        BY DEF IInv, Transactions
      <3> QED  BY <1>6, <3>1 DEF Held, Exists, SameMember, MemberNamespace, vars
    <2> QED  BY <1>6, <2>1, <2>2, <2>3, OutsideStep DEF vars
  <1> QED  BY <1>1, <1>2, <1>3, <1>4, <1>5, <1>6 DEF Next

(* The inductive invariant holds in every reachable state. *)
THEOREM InvCorrect == Spec => []IInv
  <1> QED  BY InvInit, InvStep, PTL DEF Spec

(* Every variable keeps its type. *)
THEOREM TypeCorrect == Spec => []TypeOK
  <1>1. GroupRow \subseteq Group
    BY DEF GroupRow
  <1>2. IInv => TypeOK
    <2> SUFFICES ASSUME IInv PROVE TypeOK
      OBVIOUS
    <2>1. ASSUME NEW c \in Client
          PROVE  /\ tx[c].pc \in Phases /\ tx[c].op \in Op \cup {"none"}
                 /\ tx[c].row \in Group \cup {NoGroup} /\ tx[c].gid \in Gid \cup {0}
                 /\ tx[c].ids \in Seq(Component) /\ tx[c].rows \subseteq Member
                 /\ tx[c].part \in Gid \cup {0} /\ tx[c].todo \subseteq Target
      BY <1>1 DEF IInv, TypeInv, Transaction
    <2> QED  BY <1>1, <2>1 DEF IInv, TypeInv, TypeOK, Phases
  <1> QED  BY <1>2, InvCorrect, PTL

-------------------------------------------------------------------------------
(* No component is in two partitions, or in two groups of one exclusive    *)
(* group: the unique key of the namespace that was written with each       *)
(* member suffices, though a group may have been patched or deleted and    *)
(* posted again since (InsertMembersTx).                                   *)
THEOREM MembersDisjoint == Spec => []Disjoint
  <1>1. IInv => Disjoint
    BY ExcludeNamespace DEF IInv, Tables, Disjoint, SameMember
  <1> QED  BY <1>1, InvCorrect, PTL

-------------------------------------------------------------------------------
(* A group is posted whole or not at all *)

LEMMA AllOrNothingStep == IInv /\ AllOrNothing /\ [Next]_vars => AllOrNothing'
  <1> SUFFICES ASSUME IInv, AllOrNothing, [Next]_vars,
                      NEW gid \in Gid, Exists(gid)'
               PROVE  posted'[gid] \subseteq MembersOf(gid)' \cup leftOut'[gid]
    BY DEF AllOrNothing
  <1> USE DEF MembersOf
  <1>1. CASE UNCHANGED <<groups, members, posted, leftOut>>
    BY <1>1 DEF AllOrNothing, Exists
  <1>2. ASSUME NEW c \in Client, Commit(c)
        PROVE  posted'[gid] \subseteq MembersOf(gid)' \cup leftOut'[gid]
    <2> DEFINE t == tx[c]
               ids == {m.id : m \in t.rows}
    <2>1. t.gid \in Gid /\ \A m \in t.rows : m.group = t.gid
      BY <1>2 DEF Commit, IInv, Transactions, Phase, Held
    <2>2. members' = members \cup t.rows
      BY <1>2 DEF Commit
    <2>3. MembersOf(gid) \subseteq MembersOf(gid)' /\ (gid = t.gid => ids \subseteq MembersOf(gid)')
      BY <2>1, <2>2
    <2>4. CASE t.op = "post"
      <3>1. /\ groups' = [groups EXCEPT ![t.gid] = t.row]
            /\ posted' = [posted EXCEPT ![t.gid] = ids] /\ leftOut' = leftOut
        BY <1>2, <2>4 DEF Commit
      <3>2. CASE gid = t.gid
        BY <2>1, <2>3, <3>1, <3>2 DEF IInv, TypeInv
      <3>3. CASE gid # t.gid
        BY <2>1, <2>3, <3>1, <3>3 DEF IInv, TypeInv, AllOrNothing, Exists
      <3> QED  BY <3>2, <3>3
    <2>5. CASE t.op # "post"
      <3>1. /\ leftOut' = [leftOut EXCEPT ![t.gid] = @ \ ids]
            /\ groups' = groups /\ posted' = posted
        BY <1>2, <2>5 DEF Commit
      <3>2. posted[gid] \subseteq MembersOf(gid) \cup leftOut[gid]
        BY <3>1 DEF AllOrNothing, Exists
      <3> QED  BY <2>1, <2>3, <3>1, <3>2 DEF IInv, TypeInv
    <2> QED  BY <2>4, <2>5
  <1>3. ASSUME NEW c \in Client, DeleteMember(c)
        PROVE  posted'[gid] \subseteq MembersOf(gid)' \cup leftOut'[gid]
    <2> DEFINE out == {m \in members : m.group = tx[c].gid /\ m.id = Head(tx[c].ids)}
    <2>1. /\ members' = members \ out /\ groups' = groups /\ posted' = posted
          /\ leftOut' = [leftOut EXCEPT ![tx[c].gid] = @ \cup {m.id : m \in out}]
      BY <1>3 DEF DeleteMember
    <2>2. posted[gid] \subseteq MembersOf(gid) \cup leftOut[gid]
      BY <2>1 DEF AllOrNothing, Exists
    <2>3. \A m \in members : m.group = gid =>
            m.id \in MembersOf(gid)' \/ m.id \in leftOut'[gid]
      BY <2>1 DEF IInv, TypeInv
    <2>4. leftOut[gid] \subseteq leftOut'[gid]
      BY <2>1 DEF IInv, TypeInv
    <2> QED  BY <2>1, <2>2, <2>3, <2>4
  <1>4. ASSUME NEW c \in Client, UpdateEmptyGroup(c) \/ UpdateEmptyPartition(c)
        PROVE  posted'[gid] \subseteq MembersOf(gid)' \cup leftOut'[gid]
    <2>1. UNCHANGED <<members, posted, leftOut>>
      BY <1>4 DEF UpdateEmptyGroup, UpdateEmptyPartition, UpdateEmpty
    <2>2. Exists(gid)
      BY <1>4 DEF UpdateEmptyGroup, UpdateEmptyPartition, UpdateEmpty, Exists, IInv, TypeInv
    <2> QED  BY <2>1, <2>2 DEF AllOrNothing
  <1>5. ASSUME NEW t, Delete(t)
        PROVE  posted'[gid] \subseteq MembersOf(gid)' \cup leftOut'[gid]
    <2>1. PICK g \in Gid : /\ groups' = [groups EXCEPT ![g] = NoGroup]
                           /\ members' = {m \in members : m.group # g}
                           /\ UNCHANGED <<posted, leftOut>>
      BY <1>5 DEF Delete, Named
    <2>2. gid # g /\ Exists(gid)
      BY <2>1 DEF Exists, IInv, TypeInv
    <2> QED  BY <2>1, <2>2 DEF AllOrNothing
  <1>6. ASSUME NEW id \in Component, DeleteComponent(id)
        PROVE  posted'[gid] \subseteq MembersOf(gid)' \cup leftOut'[gid]
    <2>1. posted[gid] \subseteq MembersOf(gid) \cup leftOut[gid]
      BY <1>6 DEF DeleteComponent, AllOrNothing, Exists
    <2>2. /\ posted' = posted /\ members' = {m \in members : m.id # id}
          /\ leftOut'[gid] = IF id \in MembersOf(gid) THEN leftOut[gid] \cup {id} ELSE leftOut[gid]
      BY <1>6 DEF DeleteComponent
    <2> QED  BY <2>1, <2>2
  <1>7. ASSUME NEW c \in Client, Request(c) \/ Abort(c) \/ Crash(c)
        PROVE  UNCHANGED <<groups, members, posted, leftOut>>
    BY <1>7
    DEF Request, Abort, Crash, Refuse, Begin, DoGroupsPost, DoPartitionsPost,
        DoGroupMembersPost, DoGroupMemberDelete, DoPartitionMembersPost,
        DoPartitionMemberDelete, DoGroupPatch, DoPartitionPatch, DoGroupGet, DoPartitionGet,
        DoGroupsGet, DoPartitionsGet
  <1>8. ASSUME NEW c \in Client,
               \/ InsertEmptyGroup(c) \/ InsertEmptyPartition(c) \/ GetEmptyGroup(c)
               \/ GetEmptyPartition(c) \/ InsertMember(c) \/ RowsDone(c) \/ CheckForeignKeys(c)
               \/ GetFilter(c) \/ GetMembers(c) \/ NextOfList(c)
        PROVE  UNCHANGED <<groups, members, posted, leftOut>>
    BY <1>8
    DEF InsertEmptyGroup, InsertEmptyPartition, InsertEmpty, GetEmptyGroup, GetEmptyPartition,
        GetEmpty, InsertMember, RowsDone, CheckForeignKeys, GetFilter, GetMembers, NextOfList,
        Refuse, Unwritten
  <1> QED
    BY <1>1, <1>2, <1>3, <1>4, <1>5, <1>6, <1>7, <1>8
    DEF Next, Step, DeleteGroup, DeletePartition, vars

(* A group or partition is never seen with some of the members it was      *)
(* posted with, whatever fails, waits, deadlocks or crashes meanwhile      *)
(* (InsertGroup, InsertPartition).                                         *)
THEOREM PostedWhole == Spec => []AllOrNothing
  <1>1. Init => AllOrNothing
    BY DEF Init, AllOrNothing, Exists
  <1> QED  BY <1>1, AllOrNothingStep, InvCorrect, PTL DEF Spec

-------------------------------------------------------------------------------
(* The ways to ask who is where agree *)

LEMMA Cardinalities ==
  ASSUME NEW x, NEW y, x # y
  PROVE  Cardinality({x}) = 1 /\ Cardinality({x, y}) = 2
  <1>1. IsFiniteSet({x}) /\ Cardinality({x}) = 1
    BY FS_Singleton
  <1>2. Cardinality({x} \cup {y}) = 2
    BY <1>1, FS_AddElement
  <1>3. {x} \cup {y} = {x, y}
    OBVIOUS
  <1> QED  BY <1>1, <1>2, <1>3

(* A row is in a partition if its namespace says so, and a component has   *)
(* one such row at most.                                                   *)
LEMMA Partitions ==
  ASSUME IInv
  PROVE  /\ \A m \in members :
              /\ m.group \in Gid /\ groups[m.group] \in GroupRow
              /\ m.ns = <<"%%partition%%">> <=> groups[m.group].ns = "partition"
         /\ \A m, n \in members :
              /\ m.id = n.id /\ m.group = n.group => m = n
              /\ /\ m.id = n.id
                 /\ groups[m.group].ns = "partition" /\ groups[n.group].ns = "partition"
                 => m = n
  <1>1. ASSUME NEW m \in members
        PROVE  /\ m.group \in Gid /\ groups[m.group] \in GroupRow
               /\ m.ns = <<"%%partition%%">> <=> groups[m.group].ns = "partition"
    <2>1. m.group \in Gid /\ groups[m.group] \in GroupRow
      BY DEF IInv, TypeInv, Tables, Exists, Member
    <2>2. m.ns = MemberNamespace(groups[m.group])
      BY DEF IInv, Tables
    <2> QED  BY <2>1, <2>2, PartitionNamespace
  <1>2. \A m, n \in members : m.id = n.id /\ (m.group = n.group \/ m.ns = n.ns) => m = n
    BY DEF IInv, Tables, SameMember
  <1> QED  BY <1>1, <1>2

(* The rows that are joined for a member of a group.                       *)
LEMMA JoinedRows ==
  ASSUME IInv, NEW g \in Gid, groups[g].ns = "group", NEW m \in members, m.group = g
  PROVE  /\ \A p \in Gid : groups[p].ns = "partition" =>
              (Cardinality(Joined(m.id, g, p)) = 2 <=> m.id \in MembersOf(p))
         /\ Cardinality(JoinedNull(m.id, g)) = 1 <=> PartitionNames(m.id) = {}
  <1>1. ASSUME NEW p \in Gid, groups[p].ns = "partition"
        PROVE  Cardinality(Joined(m.id, g, p)) = 2 <=> m.id \in MembersOf(p)
    <2>1. CASE m.id \in MembersOf(p)
      <3>1. PICK n \in members : n.group = p /\ n.id = m.id
        BY <2>1 DEF MembersOf
      <3>2. Joined(m.id, g, p) = {m, n} /\ m # n
        BY <1>1, <3>1, Partitions DEF Joined
      <3>3. Cardinality({m, n}) = 2
        BY <3>2, Cardinalities
      <3> QED  BY <2>1, <3>2, <3>3
    <2>2. CASE m.id \notin MembersOf(p)
      <3>1. Joined(m.id, g, p) = {m}
        BY <2>2, Partitions DEF Joined, MembersOf
      <3>2. Cardinality(Joined(m.id, g, p)) = 1
        BY <3>1, FS_Singleton
      <3> QED  BY <2>2, <3>2
    <2> QED  BY <2>1, <2>2
  <1>2. CASE PartitionNames(m.id) = {}
    <2>1. \A n \in members : n.id = m.id => groups[n.group].ns # "partition"
      BY <1>2 DEF PartitionNames
    <2>2. JoinedNull(m.id, g) = {m}
      BY <2>1, Partitions DEF JoinedNull
    <2> QED  BY <1>1, <1>2, <2>2, FS_Singleton
  <1>3. CASE PartitionNames(m.id) # {}
    <2>1. PICK n \in members : n.id = m.id /\ groups[n.group].ns = "partition"
      BY <1>3 DEF PartitionNames
    <2>2. JoinedNull(m.id, g) = {m, n} /\ m # n
      BY <2>1, Partitions DEF JoinedNull
    <2>3. Cardinality({m, n}) = 2
      BY <2>2, Cardinalities
    <2>4. Cardinality(JoinedNull(m.id, g)) # 1
      BY <2>2, <2>3
    <2> QED  BY <1>1, <1>3, <2>4
  <1> QED  BY <1>1, <1>2, <1>3

(* The members of a group filtered by a partition are those of both, and   *)
(* those without a partition the ones whose memberships name none: what is *)
(* counted in the join (GetMembersFilterTx) agrees with what is kept of a  *)
(* component's memberships (GetMemberships), since the unique keys leave   *)
(* one row at most of a component in a group, and one in a partition.      *)
THEOREM ViewsCorrect == Spec => []ViewsAgree
  <1>1. ASSUME IInv, NEW g \in Gid, groups[g].ns = "group"
        PROVE  /\ \A p \in Gid : groups[p].ns = "partition" =>
                    /\ FilteredMembers(g, p) = MembersOf(g) \cap MembersOf(p)
                    /\ \A id \in FilteredMembers(g, p) :
                         /\ groups[g].name \in GroupLabels(id)
                         /\ PartitionNames(id) = {groups[p].name}
               /\ FilteredMembers(g, 0) = {id \in MembersOf(g) : PartitionNames(id) = {}}
    <2>1. \A id \in MembersOf(g) : \E m \in members : m.group = g /\ m.id = id
      BY DEF MembersOf
    <2>2. \A id \in MembersOf(g) :
            /\ \A p \in Gid : groups[p].ns = "partition" =>
                 (Cardinality(Joined(id, g, p)) = 2 <=> id \in MembersOf(p))
            /\ Cardinality(JoinedNull(id, g)) = 1 <=> PartitionNames(id) = {}
      BY <1>1, <2>1, JoinedRows
    <2>3. \A p \in Gid : p # 0
      BY GroupsAssumption DEF Gid
    <2>4. ASSUME NEW p \in Gid, groups[p].ns = "partition"
          PROVE  FilteredMembers(g, p) = MembersOf(g) \cap MembersOf(p)
      BY <2>2, <2>3, <2>4 DEF FilteredMembers
    <2>5. ASSUME NEW p \in Gid, groups[p].ns = "partition",
                 NEW id \in MembersOf(g) \cap MembersOf(p)
          PROVE  groups[g].name \in GroupLabels(id) /\ PartitionNames(id) = {groups[p].name}
      <3>1. PICK m \in members : m.group = g /\ m.id = id
        BY <2>1
      <3>2. PICK n \in members : n.group = p /\ n.id = id
        BY DEF MembersOf
      <3>3. groups[g].name \in GroupLabels(id)
        BY <1>1, <3>1 DEF GroupLabels
      <3>4. {r \in members : r.id = id /\ groups[r.group].ns = "partition"} = {n}
        BY <1>1, <2>5, <3>2, Partitions
      <3> QED  BY <3>2, <3>3, <3>4 DEF PartitionNames
    <2>6. FilteredMembers(g, 0) = {id \in MembersOf(g) : PartitionNames(id) = {}}
      BY <2>2 DEF FilteredMembers
    <2> QED  BY <2>4, <2>5, <2>6
  <1>2. IInv => ViewsAgree
    BY <1>1 DEF ViewsAgree
  <1> QED  BY <1>2, InvCorrect, PTL
===============================================================================
