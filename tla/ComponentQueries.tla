-------------------------- MODULE ComponentQueries --------------------------
(***************************************************************************)
(* How a filter of components becomes the rows a request reads or          *)
(* changes: the options and their normalisation (hmsds-api-filters.go),    *)
(* the builder of the GET requests (query-shared-sq.go), the older one of  *)
(* the updates (query-shared.go), and the requests that use them.  The     *)
(* functions are pure, and so are the definitions: a WHERE clause is the   *)
(* set of rows it selects.                                                 *)
(*                                                                         *)
(* An argument is [neg, val]: val with or without a "!" before it.  A      *)
(* filter gives a sequence of arguments for each field; the fields or...   *)
(* are the private ones of StateOrFlag and RoleOrSubRole.                  *)
(***************************************************************************)
EXTENDS Integers, Sequences, FiniteSets, SequencesExt

CONSTANTS
  Components,    \* the rows of the table, each with its groups and partition
  Number,        \* what a string of digits stands for
  Above,         \* the ancestors of an xname
  Norm(_, _),    \* the normal form of a field's value, "" if it has none
  Words          \* the texts that a request may hold

NoPart == "-"
Blank  == ""      \* the empty text, and no error

NumberFields == {"nid", "nid_start", "nid_end"}
OrFields     == {"orState", "orFlag", "orRole", "orSubRole"}
PlainFields  == {"id", "type", "state", "flag", "enabled", "softwarestatus",
                 "role", "subrole", "subtype", "arch", "class",
                 "reservation_disabled", "locked"}
Fields == PlainFields \cup NumberFields \cup OrFields \cup {"group", "partition"}

Argument == [neg : BOOLEAN, val : Words]
Filter   == [Fields -> Seq(Argument)]

NoFilter == [c \in Fields |-> <<>>]
Yes(v)   == [neg |-> FALSE, val |-> v]
No(v)    == [neg |-> TRUE,  val |-> v]

Values(args, neg) ==
  {args[i].val : i \in {j \in DOMAIN args : args[j].neg = neg}}

Failed(err) == [err |-> err, rows |-> {}]
Found(rows) == [err |-> Blank,  rows |-> rows]

First(failures) ==
  CHOOSE i \in failures : \A j \in failures : i <= j

-----------------------------------------------------------------------------
(* The options.                                                            *)

IDs(f, ids) == [f EXCEPT !["id"] = IF ids = <<>> THEN <<Yes(Blank)>> ELSE ids]

States(f, states) == [f EXCEPT !["state"] = states]

(* Whatever its arguments, StateOrFlag negates them: a further "!" of      *)
(* NotStateOrFlag is trimmed with the first.                               *)
StateOrFlag(f, state, flag) ==
  [f EXCEPT !["orState"] = <<No(state)>>, !["orFlag"] = <<No(flag)>>]
NotStateOrFlag(f, state, flag) == StateOrFlag(f, state, flag)

RoleOrSubRole(f, role, subRole) ==
  [f EXCEPT !["orRole"] = <<No(role)>>, !["orSubRole"] = <<No(subRole)>>]
NotRoleOrSubRole(f, role, subRole) == RoleOrSubRole(f, role, subRole)

Role(f, arg) == [f EXCEPT !["role"] = Append(@, arg)]

(* FlagCondNoChange(flag): the update keeps this flag.                     *)
FlagCondNoChange(kept, flag) == IF kept = "Locked" THEN kept ELSE flag

-----------------------------------------------------------------------------
(* Verification and normalisation.                                         *)

IsNumeric(v) == v = Blank \/ v \in DOMAIN Number

NidStrTransform(v) == IF v = Blank THEN "-1" ELSE IF IsNumeric(v) THEN v ELSE Blank

StrToDbBool(v) ==
  IF v \in {"true", "t", "1"} THEN "1"
  ELSE IF v \in {"false", "f", "0"} THEN "0" ELSE Blank

ValidGroupField(v) == IF v = "NULL" THEN v ELSE Norm("group", v)

Parse(c, v) ==
  CASE c \in NumberFields           -> NidStrTransform(v)
    [] c = "enabled"                -> StrToDbBool(v)
    [] c \in {"group", "partition"} -> ValidGroupField(v)
    [] c \in {"softwarestatus", "locked", "reservation_disabled"} -> v
    [] OTHER                        -> Norm(c, v)

(* The fields VerifyNormalize looks at, in its order: may the field be     *)
(* empty, may it be negated, and the error.                                *)
Check(c, empty, strict, err) == [c |-> c, empty |-> empty, strict |-> strict, err |-> err]
Checks ==
  << Check("id", FALSE, FALSE, "BadID"),            Check("type", TRUE, FALSE, "BadType"),
     Check("state", FALSE, FALSE, "BadState"),      Check("flag", FALSE, FALSE, "BadFlag"),
     Check("orState", FALSE, FALSE, "BadState"),    Check("orFlag", FALSE, FALSE, "BadFlag"),
     Check("orRole", TRUE, FALSE, "BadRole"),       Check("orSubRole", TRUE, FALSE, "BadSubRole"),
     Check("enabled", FALSE, FALSE, "NoMatch"),     Check("role", TRUE, FALSE, "BadRole"),
     Check("subrole", TRUE, FALSE, "BadSubRole"),   Check("subtype", TRUE, FALSE, "BadSubtype"),
     Check("arch", TRUE, FALSE, "BadArch"),         Check("class", TRUE, FALSE, "BadClass"),
     Check("nid", TRUE, FALSE, "NotAnInt"),         Check("nid_start", FALSE, FALSE, "NotAnInt"),
     Check("nid_end", FALSE, FALSE, "NotAnInt"),    Check("group", FALSE, TRUE, "NoGroup"),
     Check("partition", FALSE, TRUE, "NoPartition") >>

CheckFilterField(args, k) ==
  \A i \in DOMAIN args :
    Parse(k.c, args[i].val) = Blank => k.empty /\ args[i].val = Blank

CheckFilterFieldStrict(args, k) ==
  \A i \in DOMAIN args : ~args[i].neg /\ Parse(k.c, args[i].val) # Blank

VerifyNormalize(f) ==
  LET bad == {i \in DOMAIN Checks :
                LET k == Checks[i] IN
                IF k.strict THEN ~CheckFilterFieldStrict(f[k.c], k)
                            ELSE ~CheckFilterField(f[k.c], k)}
  IN [err |-> IF bad = {} THEN Blank ELSE Checks[First(bad)].err,
      f   |-> [c \in Fields |->
                 [i \in DOMAIN f[c] |-> [f[c][i] EXCEPT !.val = Parse(c, @)]]]]

-----------------------------------------------------------------------------
(* The builder of the GET requests.                                        *)

(* One column: IN the positive values, NOT IN the negated ones.            *)
WhereComponentCol(args, value) ==
  /\ Values(args, FALSE) # {} => value \in Values(args, FALSE)
  /\ value \notin Values(args, TRUE)

Numbered(v) == IF v = "-1" THEN -1 ELSE Number[v]

(* Ranges are OR'd with each other and with the list; an end without a     *)
(* start has no lower bound of its own.  A negated number reaches the      *)
(* database as it is, which refuses it.                                    *)
WhereComponentNIDCol(f, nid) ==
  LET starts == f["nid_start"]
      ends   == f["nid_end"]
      From(i)  == nid >= Numbered(starts[i].val)
      UpTo(i)  == nid <= Numbered(ends[i].val)
  IN IF starts = <<>> /\ ends = <<>>
     THEN /\ Values(f["nid"], FALSE) # {} =>
               \E v \in Values(f["nid"], FALSE) : nid = Numbered(v)
          /\ \A v \in Values(f["nid"], TRUE) : nid # Numbered(v)
     ELSE /\ \/ \E i \in DOMAIN starts : From(i) /\ (i \in DOMAIN ends => UpTo(i))
             \/ \E i \in DOMAIN ends \ DOMAIN starts : UpTo(i)
             \/ \E v \in Values(f["nid"], FALSE) : nid = Numbered(v)
          /\ starts = <<>> => nid >= 0

NumbersRefused(f) ==
  /\ f["nid_start"] # <<>> \/ f["nid_end"] # <<>>
  /\ \E c \in NumberFields : Values(f[c], TRUE) # {}

WhereComponentCols(f) ==
  {r \in Components : /\ \A c \in PlainFields : WhereComponentCol(f[c], r[c])
                      /\ WhereComponentNIDCol(f, r.nid)}

(* LEFT JOIN with the members and their groups: a row for each membership, *)
(* or one with NULL.                                                       *)
Null == [ns |-> "NULL", name |-> "NULL"]
Memberships(r) ==
  {[ns |-> "group", name |-> g] : g \in r.groups} \cup
  {[ns |-> "partition", name |-> p] : p \in {r.part} \ {NoPart}}

LeftJoin(rows, spaces) ==
  UNION {LET m == {x \in Memberships(r) : x.ns \in spaces}
         IN {<<r, x>> : x \in IF m = {} THEN {Null} ELSE m} : r \in rows}

WhereComponentGrpCol(joined, groups, parts) ==
  IF groups = {} /\ parts = {} THEN joined
  ELSE {j \in joined : \/ j[2].ns = "group"     /\ j[2].name \in groups
                       \/ j[2].ns = "partition" /\ j[2].name \in parts}

(* GROUP BY the id HAVING COUNT( * ) = 2                                   *)
HavingAny(kept)  == kept
HavingBoth(kept) == {j \in kept : Cardinality({k \in kept : k[1] = j[1]}) = 2}

(* joinComponentsWithGroups: the rows are pairs of a component and one of  *)
(* its memberships.                                                        *)
JoinComponentsWithGroups(rows, groupArgs, partArgs) ==
  LET intersection == Len(partArgs) = 1 /\ Len(groupArgs) = 1
      groups == Values(groupArgs, FALSE)
      parts  == Values(partArgs, FALSE)
      partNULL  == Len(partArgs) = 1 /\ parts = {"NULL"}
      groupNULL == Len(groupArgs) = 1 /\ groups = {"NULL"}
      spaces == (IF partNULL  \/ ~groupNULL THEN {"partition"} ELSE {}) \cup
                (IF groupNULL \/ ~partNULL  THEN {"group"} ELSE {})
      joined == LeftJoin(rows, spaces)
      kept   == WhereComponentGrpCol(joined, groups, parts)
  IN IF ~intersection /\ partArgs # <<>> /\ groupArgs # <<>>
     THEN Failed("MultipleGroupAndPart")
     ELSE IF partNULL /\ groupArgs # <<>> /\ ~groupNULL THEN Failed("NullPartBadGroup")
     ELSE IF groupNULL /\ partArgs # <<>> /\ ~partNULL THEN Failed("NullGroupBadPart")
     ELSE IF partNULL \/ groupNULL THEN Found({j \in joined : j[2] = Null})
     ELSE IF "NULL" \in groups THEN Failed("NullBadMixGroup")
     ELSE IF "NULL" \in parts  THEN Failed("NullBadMixPart")
     ELSE Found(IF intersection THEN HavingBoth(kept) ELSE kept)

NoMembership(rows) == {<<r, Null>> : r \in rows}

(* The database refuses a negated number once the query is built.          *)
Sent(f, q) == IF q.err = Blank /\ NumbersRefused(f) THEN Failed("sql") ELSE q

QueryOf(v, rows, join) ==
  IF v.err # Blank THEN Failed(v.err)
  ELSE Sent(v.f, IF join THEN JoinComponentsWithGroups(rows, v.f["group"], v.f["partition"])
                 ELSE Found(NoMembership(rows)))

Verified(v, join) == QueryOf(v, WhereComponentCols(v.f), join)
MakeComponentQuery(f, withGroups) ==
  Verified(VerifyNormalize(f), f["group"] # <<>> \/ f["partition"] # <<>> \/ withGroups)

(* With memberships to return, a filter of groups first selects the ids:   *)
(* the second join then finds all memberships of each.                     *)
AllMemberships(q) ==
  IF q.err # Blank THEN q ELSE JoinComponentsWithGroups({j[1] : j \in q.rows}, <<>>, <<>>)

SelectComponentsOnce(f, withGroups) == MakeComponentQuery(f, withGroups)
SelectComponents(f, withGroups) ==
  IF withGroups /\ (f["group"] # <<>> \/ f["partition"] # <<>>)
  THEN AllMemberships(MakeComponentQuery(f, FALSE))
  ELSE MakeComponentQuery(f, withGroups)

(* With a type the ids stand for all that is below them.                   *)
Within(q, ids, typed) ==
  IF q.err # Blank \/ ids = {} THEN q
  ELSE Found({j \in q.rows : IF typed THEN ({j[1].id} \cup Above[j[1].id]) \cap ids # {}
                             ELSE j[1].id \in ids})
SelectComponentsHierarchy(f, ids) == Within(MakeComponentQuery(f, FALSE), ids, f["type"] # <<>>)

-----------------------------------------------------------------------------
(* The builder of the updates.  It does not verify first: an argument that *)
(* has no normal form is an error when its turn comes.                     *)

BadArgument(args, c) ==
  \E i \in DOMAIN args : args[i].val # Blank /\ Parse(c, args[i].val) = Blank

Parsed(args, c) == [i \in DOMAIN args |-> [args[i] EXCEPT !.val = Parse(c, @)]]

(* doQueryArgSet: the positive values OR'd, the negated ones AND'd, the    *)
(* two joined by AND.                                                      *)
DoQueryArg(args, c, value) == WhereComponentCol(Parsed(args, c), value)

(* doQueryArgsWithOR: the same clauses of two columns, all joined by OR.   *)
Clauses(args, c, value) ==
  LET yes == Values(Parsed(args, c), FALSE)
      no  == Values(Parsed(args, c), TRUE)
  IN (IF yes = {} THEN {} ELSE {value \in yes}) \cup
     (IF no  = {} THEN {} ELSE {value \notin no})
DoQueryArgsWithOR(f, c1, c2, v1, v2) ==
  LET clauses == Clauses(f[c1], c1, v1) \cup Clauses(f[c2], c2, v2)
  IN clauses # {} => TRUE \in clauses

(* The ranges of numbers: as above, but for the check of each.             *)
BadNumbers(f) ==
  IF f["nid_start"] = <<>> /\ f["nid_end"] = <<>> THEN BadArgument(f["nid"], "nid")
  ELSE \E c \in NumberFields : \E i \in DOMAIN f[c] :
         f[c][i].neg \/ ~IsNumeric(f[c][i].val)

EmptyNumbers(f) ==
  /\ f["nid_start"] # <<>> \/ f["nid_end"] # <<>>
  /\ \E c \in NumberFields : Blank \in Values(f[c], FALSE)

WhereOrder ==
  << "id", "type", "orState", "orFlag", "state", "flag", "softwarestatus", "enabled",
     "orRole", "orSubRole", "role", "subrole", "subtype", "arch", "class" >>

SetCompWhereQuery(f) ==
  LET bad == {i \in DOMAIN WhereOrder : BadArgument(f[WhereOrder[i]], WhereOrder[i])}
  IN IF bad # {} THEN Failed(WhereOrder[First(bad)])
     ELSE IF BadNumbers(f) THEN Failed("NotAnInt")
     ELSE IF EmptyNumbers(f) THEN Failed("sql")
     ELSE Found({r \in Components :
            /\ \A i \in DOMAIN WhereOrder :
                 WhereOrder[i] \notin OrFields =>
                   DoQueryArg(f[WhereOrder[i]], WhereOrder[i], r[WhereOrder[i]])
            /\ DoQueryArgsWithOR(f, "orState", "orFlag", r.state, r.flag)
            /\ DoQueryArgsWithOR(f, "orRole", "orSubRole", r.role, r.subrole)
            /\ WhereComponentNIDCol([c \in Fields |-> Parsed(f[c], c)], r.nid)})

(* GetComponentIDsTx: the ids of the rows, by way of GetIDListTx.          *)
GetComponentIDs(f) == SetCompWhereQuery(f)
IdsOfRows(rows)    == {r.id : r \in rows}
GetIDList(rows)    == SetToSeq({Yes(x) : x \in IdsOfRows(rows)})

(* startCompUpdate takes the ids as they are, not by way of IDs: none is   *)
(* no condition.  finishCompUpdate adds the further filter.                *)
StartCompUpdate(ids) == SetCompWhereQuery([NoFilter EXCEPT !["id"] = ids])
Both(start, rest) ==
  IF start.err # Blank THEN start ELSE IF rest.err # Blank THEN rest
  ELSE Found(start.rows \cap rest.rows)
FinishCompUpdate(ids, f) == Both(StartCompUpdate(ids), SetCompWhereQuery(f))

(* What UpdateCompStatesTx writes into each row it touches.                *)
Written(r, state, flag) ==
  [r EXCEPT !.state = state, !.flag = FlagCondNoChange(r.flag, flag)]

(* UpdateCompStatesTx: restricted to the rows that need the change, or,    *)
(* once these have been read, to the ids alone.                            *)
UpdateCompStatesTx(ids, state, flag, start, noVerify) ==
  IF ids = <<>> THEN Failed("ArgNil")
  ELSE IF state = Blank THEN Failed("BadState")
  ELSE FinishCompUpdate(ids,
         IF noVerify THEN NoFilter
         ELSE States(NotStateOrFlag(NoFilter, state, flag), start))

(* What an update comes to: the ids that it tells, and the rows it has     *)
(* changed.                                                                *)
Rejected(err) == [err |-> err, told |-> {}, rows |-> {}]
Committed(told, q) ==
  IF q.err # Blank THEN Rejected(q.err) ELSE [err |-> Blank, told |-> told, rows |-> q.rows]

(* UpdateCompStates of one id: the statement tells whether it has changed. *)
UpdateOne(ids, state, flag, start) ==
  LET q == UpdateCompStatesTx(ids, state, flag, start, FALSE)
  IN Committed(IF q.rows = {} THEN {} ELSE {ids[1].val}, q)

(* Mutant of UpdateMany: all that were asked for are written.              *)
UpdateAsked(ids, state, flag, start) ==
  LET affected == GetComponentIDs(States(NotStateOrFlag(IDs(NoFilter, ids), state, flag), start))
      q == IF affected.err # Blank \/ affected.rows = {} THEN affected
           ELSE UpdateCompStatesTx(ids, state, flag, start, TRUE)
  IN Committed(IdsOfRows(affected.rows), q)

(* Of more, those that need the change are read first, and then written.   *)
UpdateMany(ids, state, flag, start) ==
  LET affected == GetComponentIDs(States(NotStateOrFlag(IDs(NoFilter, ids), state, flag), start))
      q == IF affected.err # Blank \/ affected.rows = {} THEN affected
           ELSE UpdateCompStatesTx(GetIDList(affected.rows), state, flag, start, TRUE)
  IN Committed(IdsOfRows(affected.rows), q)

UpdateCompStates(ids, state, flag, start) ==
  IF ids = <<>> THEN Rejected("ArgMissing")
  ELSE IF Len(ids) = 1 THEN UpdateOne(ids, state, flag, start)
  ELSE IF state = Blank THEN Rejected("BadState")
  ELSE UpdateMany(ids, state, flag, start)

BulkUpdateCompRoleTx(ids) ==
  IF ids = <<>> THEN Failed("ArgNil")
  ELSE Found({r \in Components : r.id \in Values(ids, FALSE)})

OtherRoles(ids, role, subRole) ==
  GetComponentIDs(IF subRole = Blank THEN Role(IDs(NoFilter, ids), No(role))
                  ELSE NotRoleOrSubRole(IDs(NoFilter, ids), role, subRole))

BulkUpdateCompRole(ids, role, subRole) ==
  LET affected == OtherRoles(ids, role, subRole)
      q == IF affected.err # Blank \/ affected.rows = {} THEN affected
           ELSE BulkUpdateCompRoleTx(GetIDList(affected.rows))
  IN IF ids = <<>> THEN Rejected("ArgMissing")
     ELSE IF role = Blank THEN Rejected("NoMatch")
     ELSE Committed(IdsOfRows(affected.rows), q)

-----------------------------------------------------------------------------
(* The requests.                                                           *)

Code(err) == IF err = Blank THEN 200 ELSE IF err = "sql" THEN 500 ELSE 400

(* The rows of an answer: each component with the memberships shown.       *)
Answer(q) ==
  [code |-> Code(q.err),
   rows |-> {[id |-> r.id, of |-> {j[2] : j \in {k \in q.rows : k[1] = r}} \ {Null}]
               : r \in {j[1] : j \in q.rows}}]
Plain(q) ==
  [code |-> Code(q.err), rows |-> {[id |-> j[1].id, of |-> {}] : j \in q.rows}]
Refused == [code |-> 400, rows |-> {}]
Missing == [code |-> 404, rows |-> {}]

DoComponentsGet(f) == Plain(SelectComponents(f, FALSE))

DoMembershipsGet(f) == Answer(SelectComponents(f, TRUE))

(* "s0" and "all" among the ids, and no xname restricts the answer.        *)
GetComponentsQuery(f, ids) ==
  SelectComponentsHierarchy(f, IF ids \cap {"s0", "all"} # {} THEN {} ELSE ids)

DoComponentsQueryGet(f, xname) == Plain(GetComponentsQuery(f, {xname}))

DoComponentsQueryPost(f, ids) ==
  IF ids = {} THEN Refused ELSE Plain(GetComponentsQuery(f, ids))

DoComponentGet(xname) ==
  LET r == {c \in Components : c.id = Norm("id", xname)}
  IN IF xname = Blank THEN Refused ELSE IF r = {} THEN Missing
     ELSE Plain(Found(NoMembership(r)))

DoComponentByNIDGet(nid) ==
  LET r == {c \in Components : c.nid = Number[nid]}
  IN IF nid \notin DOMAIN Number THEN Refused ELSE IF r = {} THEN Missing
     ELSE Plain(Found(NoMembership(r)))

(* The elements of s at some of its positions, in order.                   *)
Pick(s, positions) ==
  [k \in 1 .. Cardinality(positions) |->
     s[CHOOSE i \in positions : Cardinality({j \in positions : j <= i}) = k]]

(* A range is the sequence of what "-" separates: its first and last are   *)
(* the bounds, and a lone one is a number; a lone "" is dropped.           *)
NidRangeToCompFilter(ranges, f) ==
  LET Pairs  == Pick(ranges, {i \in DOMAIN ranges : Len(ranges[i]) > 1})
      Lone   == Pick(ranges, {i \in DOMAIN ranges : Len(ranges[i]) = 1 /\ ranges[i][1] # Blank})
      bad    == \E i \in DOMAIN Pairs : Blank \in {Pairs[i][1], Pairs[i][Len(Pairs[i])]}
  IN [err |-> IF bad THEN "BadRange" ELSE Blank,
      f |-> [f EXCEPT !["nid_start"] = [i \in DOMAIN Pairs |-> Yes(Pairs[i][1])] \o @,
                      !["nid_end"] = [i \in DOMAIN Pairs |-> Yes(Pairs[i][Len(Pairs[i])])] \o @,
                      !["nid"] = [i \in DOMAIN Lone |-> Yes(Lone[i][1])] \o @]]

(* The filter comes from the same body; the numbers in it are dropped.     *)
NoNumbers(f) == [c \in Fields |-> IF c \in NumberFields THEN <<>> ELSE f[c]]

DoComponentByNIDQueryPost(f, ranges) ==
  LET q == NidRangeToCompFilter(ranges, NoNumbers(f))
  IN IF ranges = <<>> \/ q.err # Blank THEN Refused
     ELSE Plain(SelectComponents(q.f, FALSE))
=============================================================================
