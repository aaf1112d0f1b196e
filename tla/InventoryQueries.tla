-------------------------- MODULE InventoryQueries --------------------------
(***************************************************************************)
(* The requests that read the hardware inventory, its history, the         *)
(* Redfish, component and service endpoints and the Ethernet interfaces:   *)
(* what each makes of its parameters, and the rows its query selects.      *)
(*                                                                         *)
(* A form gives the values of each parameter, as a sequence.  Where the    *)
(* code glues pieces of SQL together, a piece is the sequence of what its  *)
(* ORs separate: AND binds tighter, so a piece appended by AND meets only  *)
(* the last alternative, unless there are parentheses.                     *)
(***************************************************************************)
EXTENDS ComponentQueries

CONSTANTS
  Locations,        \* hwinv_by_loc, with its FRU and the partition of the view
  FRUs,             \* hwinv_by_fru
  History,          \* hwinv_hist
  RFEndpoints, CompEndpoints, ServiceEndpoints,
  EthInterfaces,    \* comp_eth_interfaces, each with its addresses
  Mentions(_, _),   \* does a text contain another, whatever the case?
  QueryRequests     \* the requests that are made

VARIABLES request, answer
asked == <<request, answer>>

Alternatives(e) == {e[i] : i \in DOMAIN e}
Holds(e)    == UNION Alternatives(e)
Paren(e)    == <<Holds(e)>>
And(e, g)   == IF e = <<>> THEN g ELSE
               SubSeq(e, 1, Len(e) - 1) \o <<e[Len(e)] \cap g[1]>> \o Tail(g)

Members(s) == {s[i] : i \in DOMAIN s}

(* A conjunct `column IN (values)` for each parameter that has values.     *)
In(rows, columns, f) ==
  {r \in rows : \A c \in columns : f[c] # <<>> => r[c] \in Members(f[c])}

-----------------------------------------------------------------------------
(* The query of an xname with its parents or children.                     *)

(* id SIMILAR TO the xname, then, if more follows, a letter first.         *)
Under(rows, id) == {r \in rows : r.id = id \/ id \in Above[r.id]}

WithID(rows, ids) == {r \in rows : r.id \in ids}

(* The type is given, and with the children: a subquery finds the ids, and *)
(* the query those that start with one of them.  With no id found, the     *)
(* expression that is left has an empty first part: every xname matches.   *)
UnderSelected(rows, ids) ==
  IF ids = {} THEN rows ELSE UNION {Under(rows, id) : id \in ids}

(* getHWInvByLocQuery                                                      *)
HWInvByLocQuery(f) ==
  LET outer     == f.children /\ f.type # <<>> /\ ~f.parents
      hierarchy == f.children \/ (f.type # <<>> /\ ~f.parents)
      parentIDs == IF ~f.parents THEN {}
                   ELSE UNION {Above[id] : id \in Members(f.id)}
      byId == IF f.id = <<>> THEN <<>>
              ELSE IF hierarchy THEN [i \in DOMAIN f.id |-> Under(Locations, f.id[i])]
              ELSE <<WithID(Locations, Members(f.id) \cup parentIDs)>>
      byType == IF f.type = <<>> \/ (f.parents /\ f.children) THEN byId
                ELSE And(byId, <<{r \in Locations : r.type \in Members(f.type)}>>)
      main == IF outer THEN <<UnderSelected(Locations, {r.id : r \in Holds(byType)})>>
              ELSE byType
      withParents ==
        IF ~hierarchy \/ parentIDs \ {"s0"} = {} THEN main
        ELSE (IF main = <<>> THEN <<>> ELSE Paren(main)) \o <<WithID(Locations, parentIDs \ {"s0"})>>
      all == IF withParents = <<>> THEN <<Locations>> ELSE withParents
  IN Holds(IF f.partition = <<>> THEN all
           ELSE And(all, <<{r \in Locations : r.partition \in Members(f.partition)}>>))

-----------------------------------------------------------------------------
(* The other queries: conjuncts only.  A manufacturer is looked for within *)
(* the text.                                                               *)

MadeBy(rows, manufacturers) ==
  {r \in rows : manufacturers # <<>> =>
                  \E m \in Members(manufacturers) : Mentions(r.manufacturer, m)}

GetHWInvByLocFilter(f) ==
  MadeBy(In(Locations, {"id", "type", "partnumber", "serialnumber", "fruid", "partition"}, f),
         f["manufacturer"])

GetHWInvByFRUFilter(f) ==
  MadeBy(In(FRUs, {"type", "partnumber", "serialnumber", "fruid"}, f), f["manufacturer"])

(* After the start and before the end, both excluded.                      *)
GetHWInvHistFilterTx(f) ==
  {r \in In(History, {"id", "fruid", "eventtype"}, f) :
     /\ f["starttime"] # <<>> => r.time > Number[f["starttime"][1]]
     /\ f["endtime"] # <<>>   => r.time < Number[f["endtime"][1]]}

(* An address or a network: a row for each address that has it, then one   *)
(* for each interface.                                                     *)
GetCompEthInterfaceFilter(f) ==
  {r \in In(EthInterfaces, {"id", "macaddress", "componentid", "type"}, f) :
     /\ f["ipaddress"] # <<>> => \E a \in r.addrs : a.ip \in Members(f["ipaddress"])
     /\ f["network"] # <<>>   => \E a \in r.addrs : a.net \in Members(f["network"])
     /\ f["newerthan"] # <<>> => r.time > Number[f["newerthan"][1]]
     /\ f["olderthan"] # <<>> => r.time < Number[f["olderthan"][1]]}

(* The builders of the endpoints: as in updates of components, an argument *)
(* may be negated.                                                         *)
EPQuery(rows, columns, f) ==
  {r \in rows : \A c \in columns : DoQueryArg(f[c], c, r[c])}
EPBadArg(columns, f) == \E c \in columns : BadArgument(f[c], c)

BuildRedfishEPQuery(f) ==
  IF EPBadArg({"id", "type"}, f) THEN Failed("BadArg")
  ELSE Found(EPQuery(RFEndpoints, {"id", "type", "fqdn", "uuid", "macaddr", "ipaddress", "laststatus"}, f))

BuildCompEPQuery(f) ==
  IF EPBadArg({"id", "redfish_ep", "redfish_type", "type"}, f) THEN Failed("BadArg")
  ELSE Found(EPQuery(CompEndpoints, {"id", "redfish_ep", "redfish_type", "type"}, f))

BuildServiceEPQuery(f) ==
  IF EPBadArg({"redfish_ep", "service"}, f) THEN Failed("BadArg")
  ELSE Found(EPQuery(ServiceEndpoints, {"redfish_ep", "service"}, f))

-----------------------------------------------------------------------------
(* The requests.  Normal and Invalid: the loop over a parameter's values   *)
(* that every handler has.                                                 *)

Invalid(f, c) == \E v \in Members(f[c]) : Norm(c, v) = Blank
Normal(f, columns) ==
  [c \in DOMAIN f |-> IF c \in columns THEN [i \in DOMAIN f[c] |-> Norm(c, f[c][i])] ELSE f[c]]

Listing(rows) == [code |-> 200, rows |-> rows]
Broken     == [code |-> 500, rows |-> {}]
One(rows)  == IF rows = {} THEN Missing ELSE Listing(rows)
Reply(q)   == [code |-> Code(q.err), rows |-> q.rows]

(* One row by its key.  Where the filter verifies the xname, a bad one is  *)
(* the client's error; where it is only normalised, no row has it.         *)
DoHWInvByLocationGet(xname) ==
  IF xname = Blank THEN Refused ELSE One(WithID(Locations, {Norm("id", xname)}))

DoHWInvByLocationGetAll(f) ==
  IF \E c \in {"id", "type", "partition"} : Invalid(f, c) THEN Refused
  ELSE Listing(GetHWInvByLocFilter(Normal(f, {"id", "type", "partition"})))

DoHWInvByFRUGet(fruid) ==
  IF fruid = Blank THEN Refused ELSE One({r \in FRUs : r.fruid = fruid})

DoHWInvByFRUGetAll(f) ==
  IF Invalid(f, "type") THEN Refused ELSE Listing(GetHWInvByFRUFilter(Normal(f, {"type"})))

(* ParseBool of the first value; "" and the rest are refused.              *)
Bool(s) == s[1] \in {"1", "t", "true"}
BadBool(s) == s # <<>> /\ s[1] \notin {"1", "t", "true", "0", "f", "false"}

(* The kind of xname decides: a partition is one more partition, s0 and    *)
(* all ask for everything; the children are the default unless the parents *)
(* are asked for.                                                          *)
OrOfPartition(f, xname, scope) ==
  IF scope = "partition" THEN [f EXCEPT !["partition"] = Append(@, xname)] ELSE f
QueryFilterBoth(f, xname, scope) ==
  LET n == Normal(OrOfPartition(f, xname, scope), {"type", "partition"})
  IN [id |-> IF scope \in {"partition", "system"} THEN <<>> ELSE <<Norm("id", xname)>>,
      type |-> n["type"], partition |-> n["partition"],
      parents |-> f["parents"] # <<>> /\ Bool(f["parents"]),
      children |-> f["children"] = <<>> \/ Bool(f["children"])]
QueryFilter(f, xname, scope) ==
  LET parents == f["parents"] # <<>> /\ Bool(f["parents"])
      n == Normal(OrOfPartition(f, xname, scope), {"type", "partition"})
  IN [id |-> IF scope \in {"partition", "system"} THEN <<>> ELSE <<Norm("id", xname)>>,
      type |-> n["type"], partition |-> n["partition"],
      parents |-> parents,
      children |-> IF f["children"] # <<>> THEN Bool(f["children"]) ELSE ~parents]

(* NewSystemHWInventory: the arrays of the answer, and what is rolled up   *)
(* into a node or a power distribution unit that is in the answer too.  An *)
(* outlet without its unit is left out, whatever the comment says.         *)
Arrays ==
  {"Cabinet", "Chassis", "ComputeModule", "RouterModule", "NodeEnclosure", "HSNBoard", "MgmtSwitch",
   "MgmtHLSwitch", "CDUMgmtSwitch", "Node", "NodeAccel", "Processor", "Memory", "Drive", "NodeHsnNic",
   "CabinetPDU", "CabinetPDUOutlet", "CabinetPDUPowerConnector", "CMMRectifier",
   "NodeEnclosurePowerSupply", "NodeAccelRiser", "NodeBMC", "RouterBMC"}
NodeParts == {"Processor", "NodeAccel", "Memory", "Drive", "NodeHsnNic", "NodeAccelRiser"}
Outlets   == {"CabinetPDUOutlet", "CabinetPDUPowerConnector"}

NewSystemHWInventory(rows, nested) ==
  LET listed == {r \in rows : r.type \in Arrays}
      Parents(r) == {p \in listed : /\ nested /\ p.id \in Above[r.id]
                                   /\ \/ r.type \in NodeParts /\ p.type = "Node"
                                      \/ r.type \in Outlets /\ p.type = "CabinetPDU"}
      orphans == {r \in listed : Parents(r) = {}}
      kept == IF nested THEN {r \in orphans : r.type \notin Outlets} ELSE orphans
  IN {[top |-> t, below |-> {r \in listed : t \in Parents(r)}] : t \in kept}

FullyFlat(f) == f["format"] # <<>> /\ f["format"][1] = "fullyflat"

DoHWInvByLocationQueryGet(f, xname, scope) ==
  IF \/ scope = "invalid"
     \/ \E c \in {"type", "partition"} : Invalid(OrOfPartition(f, xname, scope), c)
     \/ \E c \in {"parents", "children"} : BadBool(f[c])
     \/ f["format"] # <<>> /\ f["format"][1] \notin {"fullyflat", "nestnodesonly"}
  THEN Refused ELSE Listing(NewSystemHWInventory(HWInvByLocQuery(QueryFilter(f, xname, scope)),
                                              ~FullyFlat(f)))

(* A time that does not parse is found by the query: not the client's      *)
(* error, says the answer.                                                 *)
BadTime(f) ==
  \E c \in {"starttime", "endtime"} : f[c] # <<>> /\ f[c][1] \notin DOMAIN Number

HwInvHistGet(f, id, byLoc) ==
  IF (IF byLoc THEN Norm("id", id) = Blank ELSE id = Blank) \/ Invalid(f, "eventtype") THEN Refused
  ELSE IF BadTime(f) THEN Broken
  ELSE Listing(GetHWInvHistFilterTx(
         [Normal(f, {"eventtype"}) EXCEPT !["id"] = IF byLoc THEN <<Norm("id", id)>> ELSE <<>>,
                                          !["fruid"] = IF byLoc THEN <<>> ELSE <<id>>]))

HwInvHistGetAll(f) ==
  IF Invalid(f, "id") \/ Invalid(f, "eventtype") THEN Refused
  ELSE IF BadTime(f) THEN Broken
  ELSE Listing(GetHWInvHistFilterTx(Normal(f, {"id", "eventtype"})))

DoRedfishEndpointGet(xname) ==
  IF xname = Blank THEN Refused ELSE One(WithID(RFEndpoints, {Norm("id", xname)}))
DoRedfishEndpointsGet(f)    == Reply(BuildRedfishEPQuery(f))
DoRedfishEndpointQueryGet(xname) ==
  IF xname \in {Blank, "all", "s0"} THEN Listing(RFEndpoints) ELSE Refused

DoComponentEndpointGet(xname) ==
  IF Norm("id", xname) = Blank THEN Refused ELSE One(WithID(CompEndpoints, {Norm("id", xname)}))
DoComponentEndpointsGet(f)    == Reply(BuildCompEPQuery(f))
DoComponentEndpointQueryGet(xname) ==
  IF xname \in {Blank, "all", "s0"} THEN Listing(CompEndpoints) ELSE Refused

DoServiceEndpointGet(svc, xname) ==
  LET s == Norm("service", svc)
      e == Norm("redfish_ep", xname)
  IN IF Blank \in {svc, xname, s, e} THEN Refused
     ELSE One({r \in ServiceEndpoints : r.service = s /\ r.redfish_ep = e})
DoServiceEndpointsGetAll(f) == Reply(BuildServiceEPQuery(f))
DoServiceEndpointsGet(f, svc) ==
  Reply(BuildServiceEPQuery([f EXCEPT !["service"] = <<Yes(svc)>>]))

BadInterfaceTime(f) ==
  \E c \in {"newerthan", "olderthan"} : f[c] # <<>> /\ f[c][1] \notin DOMAIN Number

ToLower(s) == [i \in DOMAIN s |-> Norm("mac", s[i])]

(* Both joins give the alias ip to the addresses: the database refuses the *)
(* statement that looks for an address and a network.                      *)
DoCompEthInterfacesGet(f) ==
  IF \/ Blank \in Members(f["id"]) \cup Members(f["macaddress"])
     \/ \E v \in Members(f["componentid"]) : v # Blank /\ Norm("id", v) = Blank
     \/ Invalid(f, "type") \/ BadInterfaceTime(f)
  THEN Refused
  ELSE IF f["ipaddress"] # <<>> /\ f["network"] # <<>> THEN Broken
  ELSE Listing(GetCompEthInterfaceFilter(
         [Normal(f, {"componentid", "type"}) EXCEPT !["id"] = ToLower(@), !["macaddress"] = ToLower(@)]))

DoCompEthInterfaceGet(id) ==
  IF id = Blank THEN Refused ELSE One(WithID(EthInterfaces, {Norm("mac", id)}))

-----------------------------------------------------------------------------
(* One request and its answer: the builders keep no state of their own.    *)

Form(columns) == [c \in columns |-> <<>>]
Params ==
  [ locations |-> {"id", "type", "manufacturer", "partnumber", "serialnumber", "fruid", "partition"},
    frus      |-> {"type", "manufacturer", "partnumber", "serialnumber", "fruid"},
    history   |-> {"id", "fruid", "eventtype", "starttime", "endtime"},
    rfeps     |-> {"id", "type", "fqdn", "uuid", "macaddr", "ipaddress", "laststatus"},
    ceps      |-> {"id", "redfish_ep", "redfish_type", "type"},
    seps      |-> {"redfish_ep", "service"},
    interfaces |-> {"id", "macaddress", "componentid", "type", "ipaddress", "network",
                    "olderthan", "newerthan"} ]
Listings == DOMAIN Params
QueryParams == {"type", "partition", "parents", "children", "format"}
Scopes == {"xname", "partition", "system", "invalid"}

Texts(k)     == [Params[k] -> Seq(Words)]
Arguments(k) == [Params[k] -> Seq(Argument)]
Normed(args, c, neg) == {Parse(c, v) : v \in Values(args, neg)}

(* UpdateCompStates and BulkUpdateCompRole are given normal forms: their   *)
(* callers have read the ids, the state, the flag and the roles, and       *)
(* normalised; the states to start from are those of a table in the code.  *)
NormalValues(args, c) == \A i \in DOMAIN args : args[i] = Yes(Norm(c, args[i].val))
IsRequest(r) ==
  \/ r \in [kind : {"components", "memberships"}, form : Filter]
  \/ r \in [kind : {"componentQuery"}, form : Filter, ids : SUBSET Words]
  \/ r \in [kind : {"nids"}, form : Filter, ranges : Seq(Seq(Words) \ {<<>>})]
  \/ r \in [kind : {"nid"}, nid : Words]
  \/ /\ r \in [kind : {"update"}, ids : Seq(Argument), state : Words, flag : Words,
                start : Seq(Argument)]
     /\ NormalValues(r.ids, "id") /\ NormalValues(r.start, "state")
     /\ Norm("orState", r.state) = r.state /\ Norm("orFlag", r.flag) = r.flag
  \/ /\ r \in [kind : {"roles"}, ids : Seq(Argument), role : Words, sub : Words]
     /\ NormalValues(r.ids, "id")
     /\ Norm("role", r.role) = r.role /\ Norm("orRole", r.role) = r.role
     /\ Norm("orSubRole", r.sub) = r.sub
  \/ r \in [kind : {"hardware"}, form : [QueryParams -> Seq(Words)], xname : Words, scope : Scopes]
  \/ \E k \in {"locations", "frus", "history", "interfaces"} : r \in [kind : {k}, form : Texts(k)]
  \/ \E k \in {"rfeps", "ceps", "seps"} : r \in [kind : {k}, form : Arguments(k)]
  \/ r \in [kind : {"one"}, of : Listings \cup {"components", "fruHistory"}, id : Words]
  \/ r \in [kind : {"every"}, of : {"rfeps", "ceps"}, id : Words]
  \/ r \in [kind : {"service"}, form : Arguments("seps"), id : Words]

(* What the tables hold: the keys are not empty, components have normal    *)
(* ids of their own, an xname is below all that is above an xname above    *)
(* it, and no part has two nodes or units.                                 *)
IsRow(r, columns) == r = [c \in DOMAIN r |-> r[c]] /\ columns \subseteq DOMAIN r
ComponentsAssumption ==
  /\ IsFiniteSet(Components)
  /\ \A r \in Components : /\ IsRow(r, PlainFields \cup {"nid", "groups", "part"})
                           /\ r.id \in Words \ {Blank} /\ Norm("id", r.id) = r.id
                           /\ r.nid \in Nat \cup {-1}
  /\ \A r, t \in Components : r.id = t.id => r = t
KeysAssumption ==
  /\ \A r \in Locations : r.id \notin {Blank, "s0"}
  /\ \A r \in RFEndpoints \cup CompEndpoints \cup EthInterfaces : r.id # Blank
  /\ \A r \in ServiceEndpoints : r.redfish_ep # Blank
  /\ \A r \in FRUs \cup History : r.fruid # Blank
TreeAssumption ==
  /\ \A r, t \in Locations : t.id \in Above[r.id] => Above[t.id] \subseteq Above[r.id]
  /\ \A r \in Locations : r.type \in Arrays
  /\ \A r, t, u \in Locations :
       /\ {t.id, u.id} \subseteq Above[r.id] /\ t.type = u.type
       /\ t.type \in {"Node", "CabinetPDU"}
       => t = u
ASSUME TablesAssumption == ComponentsAssumption /\ KeysAssumption /\ TreeAssumption
ASSUME WordsAssumption ==
  /\ DOMAIN Number \subseteq Words \ {Blank, "-1"} /\ \A n \in DOMAIN Number : Number[n] \in Nat
  /\ {Blank, "NULL", "EventService"} \subseteq Words
  /\ Norm("id", Blank) = Blank /\ Norm("redfish_ep", Blank) = Blank
  /\ Norm("service", "EventService") = "EventService"
ASSUME RequestsAssumption == \A r \in QueryRequests : IsRequest(r)

(* The answer to an update: who is told.                                   *)
Update(r) ==
  IF r.kind = "update" THEN UpdateCompStates(r.ids, r.state, r.flag, r.start)
  ELSE BulkUpdateCompRole(r.ids, r.role, r.sub)
Outcome(u) == [code |-> Code(u.err), rows |-> {[id |-> x] : x \in u.told}]

List(k, f) ==     \* fruHistory: the same collection
  CASE k = "components" -> DoComponentsGet(f)
    [] k = "locations"  -> DoHWInvByLocationGetAll(f)
    [] k = "frus"       -> DoHWInvByFRUGetAll(f)
    [] k \in {"history", "fruHistory"} -> HwInvHistGetAll(f)
    [] k = "rfeps"      -> DoRedfishEndpointsGet(f)
    [] k = "ceps"       -> DoComponentEndpointsGet(f)
    [] k = "seps"       -> DoServiceEndpointsGetAll(f)
    [] k = "interfaces" -> DoCompEthInterfacesGet(f)

Single(k, id) ==
  CASE k = "components" -> DoComponentGet(id)
    [] k = "locations"  -> DoHWInvByLocationGet(id)
    [] k = "frus"       -> DoHWInvByFRUGet(id)
    [] k = "history"    -> HwInvHistGet(Form(Params["history"]), id, TRUE)
    [] k = "fruHistory" -> HwInvHistGet(Form(Params["history"]), id, FALSE)
    [] k = "rfeps"      -> DoRedfishEndpointGet(id)
    [] k = "ceps"       -> DoComponentEndpointGet(id)
    [] k = "seps"       -> DoServiceEndpointGet("EventService", id)
    [] k = "interfaces" -> DoCompEthInterfaceGet(id)

Every(k, id) ==
  IF k = "rfeps" THEN DoRedfishEndpointQueryGet(id) ELSE DoComponentEndpointQueryGet(id)

(* The listing that asks for the same one. *)
Only(k, id) ==
  CASE k = "components"               -> [NoFilter EXCEPT !["id"] = <<Yes(id)>>]
    [] k \in {"rfeps", "ceps"}        -> [Form(Params[k]) EXCEPT !["id"] = <<Yes(id)>>]
    [] k = "seps" -> [Form(Params[k]) EXCEPT !["redfish_ep"] = <<Yes(id)>>,
                                             !["service"] = <<Yes("EventService")>>]
    [] k = "fruHistory"               -> [Form(Params["history"]) EXCEPT !["fruid"] = <<id>>]
    [] k = "frus"                     -> [Form(Params[k]) EXCEPT !["fruid"] = <<id>>]
    [] OTHER                          -> [Form(Params[k]) EXCEPT !["id"] = <<id>>]

NotYet == [code |-> 0, rows |-> {}]
QueryInit == request \in QueryRequests /\ answer = NotYet

On(kind) == answer = NotYet /\ request.kind = kind /\ UNCHANGED request
QueryNext ==
  \/ On("components")     /\ answer' = DoComponentsGet(request.form)
  \/ On("memberships")    /\ answer' = DoMembershipsGet(request.form)
  \/ On("componentQuery")
       /\ \E x \in request.ids : /\ request.ids = {x}
                               /\ answer' = DoComponentsQueryGet(request.form, x)
  \/ On("componentQuery") /\ answer' = DoComponentsQueryPost(request.form, request.ids)
  \/ On("nids")           /\ answer' = DoComponentByNIDQueryPost(request.form, request.ranges)
  \/ On("nid")            /\ answer' = DoComponentByNIDGet(request.nid)
  \/ On("update")         /\ answer' = Outcome(Update(request))
  \/ On("roles")          /\ answer' = Outcome(Update(request))
  \/ On("hardware")       /\ answer' = DoHWInvByLocationQueryGet(request.form, request.xname,
                                                               request.scope)
  \/ On("one")            /\ answer' = Single(request.of, request.id)
  \/ On("every")          /\ answer' = Every(request.of, request.id)
  \/ On("service")        /\ answer' = DoServiceEndpointsGet(request.form, request.id)
  \/ \E k \in Listings : On(k) /\ answer' = List(k, request.form)
QuerySpec == QueryInit /\ [][QueryNext]_asked

Done(kinds) == answer # NotYet /\ request.kind \in kinds /\ answer.code = 200

-----------------------------------------------------------------------------
(* What a filter of components means, component by component.              *)

Asked(args, c, value) ==
  /\ Normed(args, c, FALSE) = {} \/ value \in Normed(args, c, FALSE)
  /\ value \notin Normed(args, c, TRUE)

InRange(f, nid) ==
  LET Low(i)  == IF i \in DOMAIN f["nid_start"] THEN Numbered(Parse("nid", f["nid_start"][i].val)) ELSE 0
      High(i) == IF i \in DOMAIN f["nid_end"] THEN Numbered(Parse("nid", f["nid_end"][i].val)) ELSE nid
  IN \E i \in DOMAIN f["nid_start"] \cup DOMAIN f["nid_end"] : nid \in Low(i) .. High(i)
HasNumber(f, nid) ==
  LET list == {Numbered(v) : v \in Normed(f["nid"], "nid", FALSE)}
  IN IF f["nid_start"] = <<>> /\ f["nid_end"] = <<>>
     THEN /\ list = {} \/ nid \in list
          /\ ~\E v \in Normed(f["nid"], "nid", TRUE) : nid = Numbered(v)
     ELSE nid \in list \/ InRange(f, nid)

MemberOf(mine, args, c) ==
  LET names == Normed(args, c, FALSE)
  IN IF names = {"NULL"} THEN mine = {} ELSE names = {} \/ mine \cap names # {}
PartsOf(r) == {r.part} \ {NoPart}

Meant(f, r) ==
  /\ \A c \in PlainFields : Asked(f[c], c, r[c])
  /\ HasNumber(f, r.nid)
  /\ MemberOf(r.groups, f["group"], "group")
  /\ MemberOf(PartsOf(r), f["partition"], "partition")

(* An end without a start also selects what has no number, when another    *)
(* range has a start; and when none has, the number -1 finds nothing.      *)
LooseEnd(f) ==
  IF f["nid_start"] # <<>> THEN Len(f["nid_end"]) > Len(f["nid_start"])
  ELSE f["nid_end"] # <<>> /\ Yes(Blank) \in Members(f["nid"])

(* A listing of components, and one of memberships, holds a component if   *)
(* and only if each field of the filter is met by it, the lists of groups  *)
(* and of partitions among them, whatever joins and counts find it; the    *)
(* memberships are all those of the component, not only those asked for    *)
(* (selectComponents, joinComponentsWithGroups).  A query of a part of the *)
(* system restricts it to that part when a type is given, else to the ids. *)
ComponentsMatch ==
  /\ Done({"components", "memberships"}) /\ ~LooseEnd(request.form) =>
       answer.rows =
         {[id |-> r.id,
           of |-> IF request.kind = "memberships" THEN Memberships(r) ELSE {}]
            : r \in {c \in Components : Meant(request.form, c)}}
  /\ Done({"componentQuery"}) /\ ~LooseEnd(request.form) =>
       answer.rows =
         {[id |-> r.id, of |-> {}] : r \in {c \in Components :
            /\ Meant(request.form, c)
            /\ \/ request.ids \cap {"s0", "all"} # {}
               \/ c.id \in request.ids
               \/ request.form["type"] # <<>> /\ Above[c.id] \cap request.ids # {}}}
  /\ Done({"nids"}) =>
       answer.rows =
         {[id |-> r.id, of |-> {}] : r \in {c \in Components :
            LET given == Members(request.ranges) \ {<<Blank>>} IN
            /\ Meant(NoNumbers(request.form), c)
            /\ \/ given = {}
               \/ \E b \in given : Number[b[1]] <= c.nid /\ c.nid <= Number[b[Len(b)]]}}

(* Does a request of an update ask to change a component?                  *)
NeedsUpdate(q, r) ==
  IF q.kind = "update"
  THEN Asked(q.start, "state", r.state) /\ (r.state # q.state \/ r.flag # q.flag)
  ELSE r.role # q.role \/ q.sub \notin {Blank, r.subrole}

(* Whatever the path of an update (one statement for one id, else a read   *)
(* and a write of what was read, each built by another function), it       *)
(* changes the components with the ids that start in one of the states     *)
(* given and differ in what is asked, each of them in earnest, and tells   *)
(* just these.  Without ids, where the statement would have no condition,  *)
(* or without a value it is refused and changes nothing (UpdateCompStates, *)
(* BulkUpdateCompRole, startCompUpdate, finishCompUpdate).                 *)
UpdatesAgree ==
  answer # NotYet /\ request.kind \in {"update", "roles"} =>
    LET value   == IF request.kind = "update" THEN request.state ELSE request.role
        changed == {r \in Components : Asked(request.ids, "id", r.id) /\ NeedsUpdate(request, r)}
    IN IF request.ids = <<>> \/ value = Blank
       THEN answer.code = 400 /\ Update(request).rows = {}
       ELSE /\ answer = [code |-> 200, rows |-> {[id |-> r.id] : r \in changed}]
            /\ Update(request).rows = changed
            /\ request.kind = "update" =>
                 \A r \in changed :
                   Written(r, request.state, request.flag) # r \/ r.flag = "Locked"

-----------------------------------------------------------------------------
(* The hardware inventory.                                                 *)

Wants(c) == Members(Normal(request.form, {"type", "partition"})[c])
Parts    == Wants("partition") \cup
            (IF request.scope = "partition" THEN {Norm("partition", request.xname)} ELSE {})
Whole    == request.scope # "xname"
Top      == Norm("id", request.xname)
Beneath(r, id) == r.id = id \/ id \in Above[r.id]
InPart(r) == Parts = {} \/ r.partition \in Parts
Typed(r)  == Wants("type") = {} \/ r.type \in Wants("type")
Parents   == request.form["parents"] # <<>> /\ Bool(request.form["parents"])
Children  == IF request.form["children"] = <<>> THEN ~Parents ELSE Bool(request.form["children"])

NoneOfType == Children /\ ~Parents /\ ~\E r \in Locations : Typed(r) /\ (Whole \/ Beneath(r, Top))
Relatives  == ~Whole /\ Parents /\ Children

Given == UNION {{x.top} \cup x.below : x \in answer.rows}
Nested == ~FullyFlat(request.form)

(* A query of the hardware under an xname answers, with its children, the  *)
(* locations of the types asked for and all below them; with its parents,  *)
(* those of the types among it and its ancestors; with both, every         *)
(* relative; and of these only what is in the partitions (the comments of  *)
(* getHWInvByLocQuery).  Rolled up, none of them is lost, but outlets      *)
(* without their unit, and none is shown twice or under another            *)
(* (NewSystemHWInventory).  Two cases it gets wrong are left out: no       *)
(* location of the type, and relatives within a partition.                 *)
InventoryMatches ==
  Done({"hardware"}) /\ ~NoneOfType /\ ~(Relatives /\ Parts # {}) =>
    LET meant ==
          {r \in Locations :
             /\ InPart(r)
             /\ IF Relatives THEN Beneath(r, Top) \/ r.id \in Above[Top]
                ELSE IF Children /\ ~Parents
                THEN \E t \in Locations : Typed(t) /\ Beneath(r, t.id) /\ (Whole \/ Beneath(t, Top))
                ELSE /\ Wants("type") # {} /\ ~(Parents /\ Children) => Typed(r)
                     /\ \/ Whole \/ r.id = Top
                        \/ Parents /\ r.id \in Above[Top]
                        \/ ~Parents /\ Wants("type") # {} /\ Beneath(r, Top)}
        loose == {r \in meant : /\ Nested /\ r.type \in Outlets
                              /\ ~\E u \in meant : u.type = "CabinetPDU" /\ u.id \in Above[r.id]}
    IN /\ Given = meant \ loose
       /\ \A x, y \in answer.rows : y.top \notin x.below /\ (x # y => x.below \cap y.below = {})
       /\ \A x \in answer.rows : \A r \in x.below : Nested /\ x.top.id \in Above[r.id]

(* "a custom WHERE... string that filters out entries that do not match    *)
(* ALL of the non-empty strings in the filter struct": no answer holds a   *)
(* location of another partition, or one that is unrelated to the xname    *)
(* (GetHWInvByLocQueryFilter).                                             *)
FiltersHold ==
  Done({"hardware"}) =>
    \A r \in Given : InPart(r) /\ (Whole \/ Beneath(r, Top) \/ r.id \in Above[Top])

(* One more parameter never adds a row to a listing: whatever alternatives *)
(* and joins a parameter brings, each narrows what the others select.      *)
(* Numbers and their ranges are one parameter (WhereComponentNIDCol).  The *)
(* request for one entry finds it if and only if the listing of its        *)
(* collection, which has a builder of its own, finds it by the same id;    *)
(* the request for all endpoints answers the unfiltered listing, and the   *)
(* one for a service what the listing answers for that service.            *)
ListingsAgree ==
  /\ Done(Listings \cup {"components"}) =>
       \A c \in DOMAIN request.form \ NumberFields :
         LET wider == List(request.kind, [request.form EXCEPT ![c] = <<>>])
         IN wider.code = 200 => answer.rows \subseteq wider.rows
  /\ answer # NotYet /\ request.kind = "one" =>
       answer.rows = List(request.of, Only(request.of, request.id)).rows
  /\ Done({"every"}) => answer.rows = List(request.of, Form(Params[request.of])).rows
  /\ Done({"service"}) =>
       answer.rows = {r \in List("seps", [request.form EXCEPT !["service"] = <<>>]).rows :
                        r.service = Norm("service", request.id)}
=============================================================================
