----------------------------- MODULE MCQueries -----------------------------
(* A small system, and one request about it, or the report of an endpoint. *)
EXTENDS InventoryQueries, MCReports

Chassis == "x0c0"
Slot    == "x0c0s0"
Bmc     == "x0c0s0b0"
Node0   == "x0c0s0b0n0"
Node1   == "x0c0s0b0n1"
Node2   == "x0c0s1b0n0"
Cpu     == "x0c0s0b0n0p0"
Disk    == "x0c0s0b0n0g0k0"
Pdu     == "x0m0p0"
Plug    == "x0m0p0v1"

MCWords == STRING

MCAbove ==
  [x \in {Chassis, Slot, Bmc, Node0, Node1, Node2, Cpu, Disk, Pdu, Plug} |->
     {"s0", "x0"} \cup
     CASE x = Chassis -> {}
       [] x = Slot    -> {Chassis}
       [] x = Bmc     -> {Chassis, Slot}
       [] x = Node2   -> {Chassis, "x0c0s1", "x0c0s1b0"}
       [] x = Cpu     -> {Chassis, Slot, Bmc, Node0}
       [] x = Disk    -> {Chassis, Slot, Bmc, Node0, "x0c0s0b0n0g0"}
       [] x = Pdu     -> {"x0m0"}
       [] x = Plug    -> {"x0m0", Pdu}
       [] OTHER       -> {Chassis, Slot, Bmc}]

LOCAL Spelled == [NODE |-> "Node", X0C0S0B0N0 |-> Node0, G1 |-> "g1", FE |-> "fe", bad |-> ""]
MCNorm(c, v) == IF c = "mac" /\ v = "bad" THEN v ELSE IF v \in DOMAIN Spelled THEN Spelled[v] ELSE v
MCNumber == [n \in {"0", "1", "2", "3"} |->
               CASE n = "0" -> 0 [] n = "1" -> 1 [] n = "2" -> 2 [] OTHER -> 3]
MCMentions(text, part) == text = part \/ (text = "Cray Inc" /\ part = "Cray")

LOCAL ComponentRow(id, type, state, flag, role, nid, groups, part) ==
  [id |-> id, type |-> type, state |-> state, flag |-> flag, role |-> role, nid |-> nid,
   groups |-> groups, part |-> part, enabled |-> "1", softwarestatus |-> "", subrole |-> "Worker",
   subtype |-> "", arch |-> "X86", class |-> "River", reservation_disabled |-> "0",
   locked |-> "0"]

(* A group and a partition share a name. *)
MCComponents ==
  { ComponentRow(Node0, "Node", "Ready", "OK", "Compute", 1, {"g1", "g2"}, "g1"),
    ComponentRow(Node1, "Node", "Off", "Locked", "Compute", 2, {"g1"}, "p2"),
    ComponentRow(Node2, "Node", "On", "Warning", "Service", 3, {}, "g1"),
    ComponentRow(Bmc, "NodeBMC", "Ready", "Locked", "", -1, {}, NoPart) }

LOCAL LocationRow(id, type, partition, fruid, manufacturer) ==
  [id |-> id, type |-> type, partition |-> partition, fruid |-> fruid,
   manufacturer |-> manufacturer, partnumber |-> "100", serialnumber |-> fruid]
MCLocations ==
  { LocationRow(Chassis, "Chassis", NoPart, "f1", "Cray Inc"),
    LocationRow(Node0, "Node", "g1", "f2", "Cray Inc"),
    LocationRow(Cpu, "Processor", "g1", "f3", "AMD"),
    LocationRow(Node1, "Node", "p2", "f4", "Cray Inc"),
    LocationRow(Disk, "Drive", "g1", "f5", "AMD"),
    LocationRow(Pdu, "CabinetPDU", NoPart, "f6", "Cray Inc"),
    LocationRow(Plug, "CabinetPDUPowerConnector", NoPart, "f7", "Cray Inc") }
MCFRUs == {[type |-> l.type, fruid |-> l.fruid, manufacturer |-> l.manufacturer,
            partnumber |-> l.partnumber, serialnumber |-> l.serialnumber] : l \in MCLocations}
MCHistory ==
  { [id |-> Node0, fruid |-> "f2", eventtype |-> "Added", time |-> 1],
    [id |-> Node0, fruid |-> "f2", eventtype |-> "Removed", time |-> 2],
    [id |-> Node1, fruid |-> "f2", eventtype |-> "Added", time |-> 3] }
MCRFEndpoints ==
  { [id |-> b, type |-> "NodeBMC", fqdn |-> b, uuid |-> "", macaddr |-> "", ipaddress |-> "",
     laststatus |-> s] : b \in {Bmc}, s \in {"DiscoverOK"} }
MCCompEndpoints ==
  { [id |-> n, redfish_ep |-> Bmc, redfish_type |-> "ComputerSystem", type |-> "Node"]
      : n \in {Node0, Node1} }
MCServiceEndpoints ==
  { [redfish_ep |-> Bmc, service |-> s] : s \in {"EventService", "UpdateService"} }
MCEthInterfaces ==
  { [id |-> "fe", macaddress |-> "fe", componentid |-> Node0, type |-> "Node", time |-> 1,
     addrs |-> {[ip |-> "10.1", net |-> "hmn"], [ip |-> "10.2", net |-> ""]}],
    [id |-> "ff", macaddress |-> "ff", componentid |-> "", type |-> "", time |-> 2, addrs |-> {}] }

-----------------------------------------------------------------------------
(* The requests: up to three parameters of a listing, and the rest.        *)

ComponentArguments ==
  { <<"id", <<Yes("X0C0S0B0N0"), Yes(Bmc)>>>>, <<"id", <<No(Node1)>>>>,
    <<"type", <<Yes("NODE")>>>>, <<"state", <<Yes("Ready"), Yes("Off"), No("Off")>>>>,
    <<"flag", <<No("OK")>>>>, <<"role", <<Yes("")>>>>, <<"enabled", <<Yes("true")>>>>,
    <<"enabled", <<Yes("")>>>>, <<"class", <<No("bad")>>>>,
    <<"nid", <<Yes("1")>>>>, <<"nid", <<No("2")>>>>, <<"nid_start", <<Yes("2")>>>>,
    <<"nid_start", <<Yes("1"), Yes("3")>>>>, <<"nid_end", <<Yes("2")>>>>,
    <<"nid_end", <<Yes("1"), Yes("0")>>>>,
    <<"group", <<Yes("G1")>>>>, <<"group", <<Yes("g1"), Yes("g2")>>>>,
    <<"group", <<Yes("NULL")>>>>, <<"group", <<Yes("g2"), Yes("NULL")>>>>,
    <<"group", <<No("g1")>>>>, <<"partition", <<Yes("g1")>>>>,
    <<"partition", <<Yes("NULL")>>>>, <<"partition", <<Yes("g1"), Yes("p2")>>>> }

With(base, args) ==
  [c \in DOMAIN base |->
     IF \E a \in args : a[1] = c THEN (CHOOSE a \in args : a[1] = c)[2] ELSE base[c]]
Forms(base, args) ==
  {With(base, {a, b, c}) : a \in args, b \in args, c \in args}
Pairs(base, args) == {With(base, {a, b}) : a \in args, b \in args}

MCTexts ==
  [ locations |-> {<<"id", <<"X0C0S0B0N0", Chassis>>>>, <<"type", <<"NODE">>>>, <<"type", <<"bad">>>>,
                   <<"manufacturer", <<"Cray", "AMD">>>>, <<"fruid", <<"f2">>>>,
                   <<"partition", <<"G1">>>>},
    frus      |-> {<<"type", <<"NODE">>>>, <<"manufacturer", <<"Cray">>>>, <<"fruid", <<"f2", "f3">>>>},
    history   |-> {<<"id", <<Node0>>>>, <<"fruid", <<"f2">>>>, <<"eventtype", <<"Added">>>>,
                   <<"starttime", <<"1">>>>, <<"endtime", <<"3">>>>, <<"endtime", <<"noon">>>>},
    interfaces |-> {<<"id", <<"FE">>>>, <<"componentid", <<"">>>>, <<"type", <<"NODE">>>>,
                    <<"ipaddress", <<"10.1">>>>, <<"network", <<"hmn">>>>, <<"network", <<"">>>>,
                    <<"olderthan", <<"2">>>>, <<"newerthan", <<"noon">>>>} ]
Args ==
  [ rfeps |-> {<<"id", <<Yes(Bmc)>>>>, <<"type", <<No("NODE")>>>>,
               <<"laststatus", <<No("DiscoverOK")>>>>, <<"id", <<Yes("bad")>>>>},
    ceps  |-> {<<"id", <<Yes(Node0)>>>>, <<"type", <<Yes("NODE")>>>>, <<"redfish_ep", <<No(Bmc)>>>>},
    seps  |-> {<<"redfish_ep", <<Yes(Bmc)>>>>, <<"service", <<Yes("EventService")>>>>} ]

Queries ==
  { [With(Form(QueryParams), {a, b, c, d})
       EXCEPT !["format"] = e]
      : a \in {<<"type", <<t>>>> : t \in {"NODE", "Processor", "bad"}} \cup {<<"format", <<>>>>},
        b \in {<<"partition", <<"G1">>>>, <<"partition", <<>>>>},
        c \in {<<"parents", s>> : s \in {<<>>, <<"true">>, <<"0">>}},
        d \in {<<"children", s>> : s \in {<<>>, <<"1">>, <<"false">>, <<"maybe">>}},
        e \in {<<>>, <<"fullyflat">>, <<"hierarchical">>} }

Ranges == {<<"1", "2">>, <<"3">>, <<"0", "9", "1">>, <<"", "2">>, <<"">>}

Scope(x) ==
  CASE x = "bad" -> "invalid" [] x = "g1" -> "partition" [] x = "s0" -> "system" [] OTHER -> "xname"

MCQueryRequests ==
  {[kind |-> "components", form |-> f] : f \in Forms(NoFilter, ComponentArguments)} \cup
  {[kind |-> "memberships", form |-> f] : f \in Pairs(NoFilter, ComponentArguments)} \cup
  {[kind |-> "componentQuery", form |-> f, ids |-> ids]
     : f \in Pairs(NoFilter, {<<"type", <<Yes("NODE")>>>>, <<"group", <<Yes("g1")>>>>}),
       ids \in {{}, {"s0"}, {Slot}, {Node0, Chassis}}} \cup
  {[kind |-> "nids", form |-> f, ranges |-> r]
     : f \in {With(NoFilter, {a}) : a \in {<<"nid", <<Yes("9")>>>>, <<"partition", <<Yes("g1")>>>>}},
       r \in {<<>>} \cup {<<a>> : a \in Ranges} \cup {<<a, b>> : a, b \in Ranges}} \cup
  {[kind |-> "nid", nid |-> n] : n \in {"1", "0", "one"}} \cup
  {[kind |-> "update", ids |-> ids, state |-> s, flag |-> "OK", start |-> start]
     : ids \in {<<>>, <<Yes(Bmc)>>, <<Yes(Node0), Yes(Node1)>>, <<Yes(Node0), Yes(Bmc)>>},
       s \in {"Off", "Ready", ""}, start \in {<<>>, <<Yes("Ready"), Yes("On")>>, <<Yes("Off")>>}} \cup
  {[kind |-> "roles", ids |-> ids, role |-> r, sub |-> s]
     : ids \in {<<>>, <<Yes(Node0), Yes(Bmc)>>}, r \in {"Compute", "Service", ""},
       s \in {"", "Worker", "Storage"}} \cup
  {[kind |-> "hardware", form |-> f, xname |-> x, scope |-> Scope(x)]
     : f \in Queries, x \in {Chassis, Slot, "X0C0S0B0N0", Cpu, Plug, "g1", "s0", "bad"}} \cup
  UNION {{[kind |-> k, form |-> f] : f \in Forms(Form(Params[k]), MCTexts[k])} : k \in DOMAIN MCTexts} \cup
  UNION {{[kind |-> k, form |-> f] : f \in Pairs(Form(Params[k]), Args[k])} : k \in DOMAIN Args} \cup
  {[kind |-> "one", of |-> k, id |-> x]
     : k \in Listings \cup {"components", "fruHistory"},
       x \in {"X0C0S0B0N0", Node1, Bmc, "f2", "f9", "FE", "EventService", "bad"}} \cup
  {[kind |-> "every", of |-> k, id |-> x] : k \in {"rfeps", "ceps"}, x \in {"all", "s0", Bmc}} \cup
  {[kind |-> "service", form |-> f, id |-> x]
     : f \in Pairs(Form(Params["seps"]), Args["seps"]), x \in {"EventService", "Tasks"}}

(* A request is answered, or a report discovered.                          *)
SomeRequest == CHOOSE r \in MCQueryRequests : r.kind = "nid"
SomeReport  == CHOOSE r \in Reports : r.type = "RouterBMC"

Init ==
  \/ QueryInit /\ report = SomeReport /\ stored = NotStored("none")
  \/ ReportInit /\ request = SomeRequest /\ answer = Missing
Next ==
  \/ QueryNext /\ UNCHANGED discovery
  \/ Discover /\ UNCHANGED asked
Spec == Init /\ [][Next]_<<asked, discovery>>
=============================================================================
