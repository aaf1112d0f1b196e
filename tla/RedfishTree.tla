---------------------------- MODULE RedfishTree ----------------------------
(***************************************************************************)
(* What a discovery makes of the resources a Redfish endpoint serves       *)
(* (pkg/redfish, cmd/smd/discover.go and components.go): the first phase   *)
(* reads them, the second names what it knows, and the rows that are       *)
(* stored are built from the result.                                       *)
(*                                                                         *)
(* A report says of each resource whether it is not there ("missing",      *)
(* 404), cannot be read ("failed") or decoded ("garbled"), is read ("ok"), *)
(* or is not referred to at all ("none"); of a list, its members too, in   *)
(* the order the code sorts them.  An id is the sequence of the letters    *)
(* and numbers that the code adds to the xname of the endpoint, or to what *)
(* precedes its b.  A MAC address is a number, 0 for none.                 *)
(***************************************************************************)
EXTENDS Integers, Sequences, FiniteSets, Functions

CONSTANTS
  EndpointReports,  \* what the endpoints report
  At,               \* where the endpoint is: the numbers of its xname
  Env(_)            \* what is known besides of a component, by its id

Unsaid == ""        \* what is not given

Verifying == "VerifyingData"
NoSupport == "RedfishSubtypeNoSupport"
Switches  == {"MgmtSwitch", "MgmtHLSwitch", "CDUMgmtSwitch"}

Unread(r) == r.got \in {"failed", "missing"}
Items(l)  == IF l.got = "ok" THEN l.members ELSE <<>>

(* discoverRemotePhase1 of one resource.  Some are optional: 404 only      *)
(* means that there is no such component.                                  *)
Reading(r) ==
  IF r.got = "ok" THEN Verifying
  ELSE IF r.got = "garbled" THEN "EPResponseFailedDecode" ELSE "HTTPsGetFailed"
OptionalSilently(r) == IF Unread(r) THEN NoSupport ELSE Reading(r)
Optional(r) == IF r.got = "missing" THEN NoSupport ELSE Reading(r)
(* One that may not be referred to.                                        *)
Referred(l) == IF l.got = "none" THEN Verifying ELSE Reading(l)

(* discoverLocalPhase2 of a collection, as its parent sees it.             *)
ChildStatus(children) ==
  IF \A c \in children : c.status \in {"DiscoverOK", NoSupport}
  THEN "DiscoverOK" ELSE "ChildVerificationFailed"
WithBelow(d, below) == [self |-> [d EXCEPT !.status = ChildStatus(below)], below |-> below]

(* getStandardFRUID: the fields that are there; without a serial number,   *)
(* or both of the others, the location stands for the part.                *)
GetStandardFRUID(type, id, fru) ==
  IF fru.serial = Unsaid \/ (fru.maker = Unsaid /\ fru.part = Unsaid) THEN <<"FRUIDfor", id>>
  ELSE SelectSeq(<<type, fru.maker, fru.part, fru.serial>>, LAMBDA f : f # Unsaid)

(* The state and flag of a component: of the chassis and the manager, and  *)
(* of the others, whose power state may be left out.                       *)
PowerStateOf(r) ==
  CASE r.power \in {"Off", "PoweringOn"}  -> "Off"
    [] r.power \in {"On", "PoweringOff"} -> "On"
    [] OTHER -> "Populated"
HealthFlag(r, flag) ==
  CASE r.health = "Warning" -> "Warning" [] r.health = "Critical" -> "Alert" [] OTHER -> flag

ChassisState(r) ==
  LET state == PowerStateOf(r) IN
  [state |-> state,
   flag  |-> IF state = "Populated" THEN "OK"
             ELSE HealthFlag(r, IF r.state = "Enabled" THEN "OK" ELSE "Warning")]
ManagerState(r, own) ==
  LET power == IF own THEN "Ready" ELSE PowerStateOf(r) IN
  [state |-> IF power = "On" /\ r.state = "Enabled" /\ r.health \in {"OK", Unsaid} THEN "Ready" ELSE power,
   flag  |-> IF power = "Populated" THEN "OK"
             ELSE HealthFlag(r, IF r.state \in {"Enabled", Unsaid} THEN "OK" ELSE "Warning")]
NodeState(r) ==
  [state |-> IF r.power = Unsaid /\ r.health = "OK" /\ r.state = "Enabled" THEN "On" ELSE PowerStateOf(r),
   flag  |-> HealthFlag(r, "OK")]
PartState(r) == [state |-> "Populated", flag |-> "OK"]

(* A resource that was not, and one that was discovered.                   *)
Undiscovered(oid, status) ==
  [oid |-> oid, status |-> status, type |-> Unsaid, id |-> <<>>, ordinal |-> -1, present |-> FALSE,
   info |-> [maker |-> Unsaid, part |-> Unsaid, serial |-> Unsaid], fru |-> <<>>, state |-> Unsaid, flag |-> Unsaid]
Discovered(oid, type, id, ordinal, r, component) ==
  LET present == r.state # "Absent" IN
  [oid |-> oid, status |-> "DiscoverOK", type |-> type, id |-> id, ordinal |-> ordinal,
   present |-> present, info |-> r.fru,
   fru   |-> IF present THEN GetStandardFRUID(type, id, r.fru) ELSE <<>>,
   state |-> IF present THEN component.state ELSE "Empty",
   flag  |-> IF present THEN component.flag ELSE "OK"]

-----------------------------------------------------------------------------
(* The children of a system.                                               *)

(* Each counter is moved by the resources that were read, in the order of  *)
(* their names; an accelerator that is no GPU counts with the GPUs and is  *)
(* named as a processor.                                                   *)
IsAccelerator(p) == p.kind \in {"GPU", "Accelerator"}
GetProcessorOrdinal(ps, i) ==
  Cardinality({j \in 1 .. i - 1 : ps[j].got = "ok" /\ (IsAccelerator(ps[j]) <=> IsAccelerator(ps[i]))})

Processor(s, oid, id, i) ==
  LET ps == Items(s.processors)
      n  == GetProcessorOrdinal(ps, i)
      at == oid \o <<"processors", i>>
  IN IF Optional(ps[i]) # Verifying THEN Undiscovered(at, Optional(ps[i]))
     ELSE IF ps[i].kind = "GPU"
     THEN Discovered(at, "NodeAccel", Append(id, <<"a", n>>), n, ps[i], PartState(ps[i]))
     ELSE Discovered(at, "Processor", Append(id, <<"p", n>>), n, ps[i], PartState(ps[i]))
Processors(s, oid, id) == {Processor(s, oid, id, i) : i \in DOMAIN Items(s.processors)}

(* An empty slot may only say so in its serial number.                     *)
Filled(m) == IF m.state = Unsaid /\ m.fru.serial = "NO DIMM" THEN [m EXCEPT !.state = "Absent"] ELSE m
MemoryModule(s, oid, id, i) ==
  LET m  == Items(s.memory)[i]
      at == oid \o <<"memory", i>>
  IN IF Optional(m) # Verifying THEN Undiscovered(at, Optional(m))
     ELSE Discovered(at, "Memory", Append(id, <<"d", i - 1>>), i - 1, Filled(m), PartState(m))
Memory(s, oid, id) == {MemoryModule(s, oid, id, i) : i \in DOMAIN Items(s.memory)}

(* A number for a name is the ordinal, of a group and of a drive; else its *)
(* place in the list.                                                      *)
GetStorageCollectionOrdinal(gs, g) == IF gs[g].name >= 0 THEN gs[g].name ELSE g - 1
GetDriveOrdinal(ds, i) == IF ds[i].name >= 0 THEN ds[i].name ELSE i - 1

(* The drives of a system.  A group that cannot be read has none.          *)
GroupedDrives(s) ==
  LET gs == Items(s.storage) IN
  UNION {{[group |-> g, place |-> i] : i \in DOMAIN Items(gs[g])} : g \in DOMAIN gs}

Drive(s, oid, id, g, i) ==
  LET gs == Items(s.storage)
      ds == Items(gs[g])
      n  == GetDriveOrdinal(ds, i)
      at == oid \o <<"storage", g, i>>
  IN IF Optional(ds[i]) # Verifying THEN Undiscovered(at, Optional(ds[i]))
     ELSE Discovered(at, "Drive", id \o <<<<"g", GetStorageCollectionOrdinal(gs, g)>>, <<"k", n>>>>,
                     n, ds[i], PartState(ds[i]))
Drives(s, oid, id) == {Drive(s, oid, id, x.group, x.place) : x \in GroupedDrives(s)}

(* The assembly of the node's chassis: those of its entries that are       *)
(* risers.                                                                 *)
Risers(s) == {i \in DOMAIN Items(s.assembly) : Items(s.assembly)[i].kind = "Riser"}
GetNodeAccelRiserOrdinal(s, i) == Cardinality({j \in Risers(s) : j < i})

NodeAccelRiser(s, oid, id, i) ==
  LET n == GetNodeAccelRiserOrdinal(s, i)
      r == Items(s.assembly)[i]
  IN Discovered(oid \o <<"assembly", i>>, "NodeAccelRiser", Append(id, <<"r", n>>), n, r, PartState(r))
NodeAccelRisers(s, oid, id) == {NodeAccelRiser(s, oid, id, i) : i \in Risers(s)}

NetworkAdapter(s, oid, id, i) ==
  LET n  == Items(s.adapters)[i]
      at == oid \o <<"adapters", i>>
  IN IF Reading(n) # Verifying THEN Undiscovered(at, Reading(n))
     ELSE Discovered(at, "NodeHsnNic", Append(id, <<"h", i - 1>>), i - 1,
                     [n EXCEPT !.state = "Enabled"], PartState(n))
NetworkAdapters(s, oid, id) == {NetworkAdapter(s, oid, id, i) : i \in DOMAIN Items(s.adapters)}

(* HPE's devices: GPUs, but for the switches among them, and the network   *)
(* cards of some makers.  They are numbered within their subtype.          *)
IsNic(d) == d.kind \in {"LOM NIC", "PCIe NIC"}
GetHpeDeviceOrdinal(ds, i) ==
  Cardinality({j \in 1 .. i - 1 : /\ ds[j].got = "ok" /\ ds[j].kind = ds[i].kind
                                  /\ IsNic(ds[i]) => ds[j].known})
HpeDevice(s, oid, id, i) ==
  LET ds == Items(s.devices)
      n  == GetHpeDeviceOrdinal(ds, i)
      at == oid \o <<"devices", i>>
  IN IF Optional(ds[i]) # Verifying THEN Undiscovered(at, Optional(ds[i]))
     ELSE IF ds[i].kind = "GPU" /\ ds[i].known
     THEN Discovered(at, "NodeAccel", Append(id, <<"a", n>>), n, ds[i], PartState(ds[i]))
     ELSE IF IsNic(ds[i]) /\ ds[i].known
     THEN Discovered(at, "NodeHsnNic", Append(id, <<"h", n>>), n, ds[i], PartState(ds[i]))
     ELSE Undiscovered(at, NoSupport)
HpeDevices(s, oid, id) == {HpeDevice(s, oid, id, i) : i \in DOMAIN Items(s.devices)}

-----------------------------------------------------------------------------
(* Systems.  What a node's chassis refers to (looked up under the name of  *)
(* the system, or one of its maker's) is given with the system.  A list    *)
(* that cannot be decoded is taken for an empty one, and Foxconn's chassis *)
(* may not have the power.                                                 *)
HasDevices(s) == s.maker = "hpe" /\ s.devices.got # "none"
ControlsStatus(s) == IF s.maker = "foxconn" THEN Verifying ELSE Referred(s.controls)
PowerStatus(s) == IF s.maker = "foxconn" /\ Unread(s.supply) THEN Verifying ELSE Referred(s.supply)
CardsUnread(s) == IF HasDevices(s) THEN Unread(s.devices) ELSE Unread(s.adapters)
PartsUnread(s) == Unread(s.processors) \/ Unread(s.memory)

SystemPhase1(s) ==
  IF Reading(s) # Verifying THEN Reading(s)
  ELSE IF Unread(s.action) THEN "HTTPsGetFailed"
  ELSE IF ControlsStatus(s) # Verifying THEN ControlsStatus(s)
  ELSE IF PowerStatus(s) # Verifying THEN PowerStatus(s)
  ELSE IF CardsUnread(s) \/ Unread(s.nics) \/ PartsUnread(s) \/ Unread(s.storage)
  THEN "HTTPsGetFailed" ELSE Verifying

(* Physical systems only, or those of no type if there is none.            *)
IsPhysical(s) == s.got = "ok" /\ s.type = "Physical"
GetSystemOrdinal(ss, i) ==
  Cardinality({j \in 1 .. i - 1 : ss[j].got = "ok" /\ ss[j].type \in {"Physical", Unsaid}})
IsNode(ss, i) ==
  \/ ss[i].type = "Physical"
  \/ ss[i].type = Unsaid /\ ~\E j \in DOMAIN ss : IsPhysical(ss[j])

Cards(s, oid, id) == IF HasDevices(s) THEN HpeDevices(s, oid, id) ELSE NetworkAdapters(s, oid, id)
PartsBelow(s, oid, id) ==
  Processors(s, oid, id) \cup Memory(s, oid, id) \cup Drives(s, oid, id) \cup
  NodeAccelRisers(s, oid, id) \cup Cards(s, oid, id)
Alone(oid, status) == [self |-> Undiscovered(oid, status), below |-> {}]

System(ss, i) ==
  LET s   == ss[i]
      oid == <<"systems", i>>
      n   == GetSystemOrdinal(ss, i)
      id  == <<<<"n", n>>>>
  IN IF SystemPhase1(s) # Verifying THEN Alone(oid, SystemPhase1(s))
     ELSE IF ~IsNode(ss, i) THEN Alone(oid, NoSupport)
     ELSE WithBelow(Discovered(oid, "Node", id, n, s, NodeState(s)), PartsBelow(s, oid, id))

-----------------------------------------------------------------------------
(* Chassis.                                                                *)

NumSystems(ep) == Len(Items(ep.systems))
EnclosureOf(ep) == IF NumSystems(ep) > 0 THEN "NodeEnclosure" ELSE "Invalid"

(* A maker that is not named passes for any.                               *)
MayBe(c, maker) == c.maker \in {maker, Unsaid}
BladeType(ep, c) ==
  IF ep.type # "ChassisBMC" \/ ~MayBe(c, "cray") THEN "Invalid"
  ELSE IF c.name = "blade" THEN "ComputeModule" ELSE IF c.name = "perif" THEN "RouterModule" ELSE "Invalid"
GetChassisHMSType(ep, c) ==
  IF c.type = "Enclosure" /\ ep.type = "ChassisBMC" /\ MayBe(c, "cray") THEN "Chassis"
  ELSE IF c.type = "Enclosure" /\ ep.type = "RouterBMC" THEN "HSNBoard"
  ELSE IF c.type \in {"Enclosure", "RackMount"} THEN (IF c.maker = "foxconn" THEN "Invalid" ELSE EnclosureOf(ep))
  ELSE IF c.type = "StandAlone" THEN (IF MayBe(c, "gigabyte") THEN EnclosureOf(ep) ELSE "Invalid")
  ELSE IF c.type = "Blade" THEN BladeType(ep, c)
  ELSE IF c.type = "Drawer" /\ ep.type \in Switches THEN ep.type
  ELSE IF c.type = "Zone" /\ c.maker = "foxconn" THEN "NodeEnclosure" ELSE "Invalid"

(* The chassis before it of the same type whose name begins alike.         *)
GetChassisOrdinal(cs, i) ==
  Cardinality({j \in 1 .. i - 1 : /\ cs[j].got = "ok" /\ cs[j].type = cs[i].type
                                  /\ cs[i].name # Unsaid /\ cs[j].name = cs[i].name})

(* At most one id.  An enclosure has the number of its controller.         *)
GetChassisHMSID(ep, type, ordinal) ==
  IF type \in Switches THEN {<<>>}
  ELSE IF ep.type \in Switches \cup {"CabinetPDUController"} THEN {}
  ELSE IF type \in {"HSNBoard", "NodeEnclosure"} THEN {<<<<"e", 0>>>>}
  ELSE IF type = "Chassis" THEN {<<<<"c", 0>>>>}
  ELSE IF type = "ComputeModule" THEN {<<<<"s", ordinal>>>>} ELSE {<<<<"r", ordinal>>>>}

(* Only a node controller's xname with an e is that of a node enclosure.   *)
ChassisIDIsOfType(ep, type) == type = "NodeEnclosure" => ep.type = "NodeBMC"

(* The supplies of the chassis' power.  Power that cannot be read has none,*)
(* and neither has one that miscounts them.                                *)
SuppliesOf(c) == IF c.supply.got = "ok" /\ c.supply.counted THEN c.supply.members ELSE <<>>

GetPowerSupplyHMSType(ep, c) ==
  LET type == GetChassisHMSType(ep, c) IN
  IF type = "NodeEnclosure" THEN "NodeEnclosurePowerSupply"
  ELSE IF type = "Chassis" THEN "CMMRectifier" ELSE Unsaid

(* In the order of their names; their part numbers are not used.           *)
PowerSupply(ep, c, oid, id, i) ==
  LET p    == SuppliesOf(c)[i]
      type == GetPowerSupplyHMSType(ep, c)
      at   == oid \o <<"supplies", i>>
  IN IF type = Unsaid THEN Undiscovered(at, "VerificationFailed")
     ELSE Discovered(at, type, Append(id, <<"t", i - 1>>), i - 1,
                     [p EXCEPT !.fru.part = Unsaid], PartState(p))
PowerSupplies(ep, c, oid, id) == {PowerSupply(ep, c, oid, id, i) : i \in DOMAIN SuppliesOf(c)}

ChassisPhase1(c) == IF c.skipped THEN NoSupport ELSE Optional(c)

OneChassis(ep, cs, i) ==
  LET c == cs[i]
      oid == <<"chassis", i>>
      type == GetChassisHMSType(ep, c)
      n == GetChassisOrdinal(cs, i)
      ids == GetChassisHMSID(ep, type, n)
      id == CHOOSE x \in ids : TRUE
      state == IF type = "HSNBoard" /\ c.state = "Absent" THEN [c EXCEPT !.state = "Disabled"] ELSE c
  IN IF ChassisPhase1(c) # Verifying THEN Alone(oid, ChassisPhase1(c))
     ELSE IF type = "Invalid" \/ ids = {} THEN Alone(oid, NoSupport)
     ELSE IF ~ChassisIDIsOfType(ep, type) THEN Alone(oid, "VerificationFailed")
     ELSE WithBelow(Discovered(oid, type, id, n, state, ChassisState(state)),
                    PowerSupplies(ep, c, oid, id))

-----------------------------------------------------------------------------
(* Managers.                                                               *)

ManagerPhase1(m) ==
  IF Reading(m) # Verifying THEN Reading(m)
  ELSE IF Unread(m.action) \/ Unread(m.nics) THEN "HTTPsGetFailed" ELSE Verifying

GetManagerHMSType(ep, ms, i) ==
  IF ep.type \in Switches THEN "Invalid"
  ELSE IF Len(ms) = 1 \/ ms[i].own THEN ep.type
  ELSE IF ms[i].manages THEN "NodeBMC"
  ELSE IF ms[i].type # "EnclosureManager" THEN "Invalid"
  ELSE IF NumSystems(ep) > 0 THEN "NodeBMC" ELSE "ChassisBMC"

GetManagerOrdinal(ms, i) ==
  Cardinality({j \in 1 .. i - 1 : (IF ms[j].got = "ok" THEN ms[j].type ELSE Unsaid) = ms[i].type})

(* Only the endpoint's own manager has an id: the endpoint's.              *)
Manager(ep, ms, i) ==
  LET m == ms[i]
      oid == <<"managers", i>>
      type == GetManagerHMSType(ep, ms, i)
  IN IF ManagerPhase1(m) # Verifying THEN Undiscovered(oid, ManagerPhase1(m))
     ELSE IF type # ep.type \/ GetManagerOrdinal(ms, i) # 0 THEN Undiscovered(oid, NoSupport)
     ELSE Discovered(oid, type, <<>>, 0, m, ManagerState(m, TRUE))

-----------------------------------------------------------------------------
(* Power distribution units and their outlets.                             *)

PDUPhase1(p) ==
  IF Reading(p) # Verifying THEN Reading(p)
  ELSE IF Unread(p.outlets) THEN "HTTPsGetFailed" ELSE Verifying

(* Their numbers in an id begin with 0 for units, with 1 for outlets.      *)
GetPDUHMSID(ordinal)         == <<<<"p", ordinal>>>>
GetOutletHMSID(pdu, ordinal) == Append(pdu.id, <<"v", ordinal + 1>>)

(* An outlet is known by its place in the unit; its part is the unit's.    *)
OutletFRU(d, pdu) ==
  IF ~d.present THEN <<>>
  ELSE IF pdu.fru = <<>> THEN <<"FRUIDfor", d.id>> ELSE <<d.type, d.ordinal, pdu.fru>>

PDUOutlet(p, pdu, i) ==
  LET o  == Items(p.outlets)[i]
      at == pdu.oid \o <<"outlets", i>>
      d  == Discovered(at, "CabinetPDUPowerConnector", GetOutletHMSID(pdu, i - 1), i - 1, o, NodeState(o))
  IN IF Reading(o) # Verifying THEN Undiscovered(at, Reading(o)) ELSE [d EXCEPT !.fru = OutletFRU(d, pdu)]
PDUOutlets(p, pdu) == {PDUOutlet(p, pdu, i) : i \in DOMAIN Items(p.outlets)}

RackPDU(ep, ps, i) ==
  LET p == ps[i]
      oid == <<"pdus", i>>
      self == Discovered(oid, "CabinetPDU", GetPDUHMSID(i - 1), i - 1, p, NodeState(p))
  IN IF PDUPhase1(p) # Verifying THEN Alone(oid, PDUPhase1(p))
     ELSE IF ep.type # "CabinetPDUController" THEN Alone(oid, NoSupport)
     ELSE WithBelow(self, PDUOutlets(p, self))

-----------------------------------------------------------------------------
(* The endpoint.  Controllers that are not for nodes need no systems, and  *)
(* those of power distribution no chassis.  A root that cannot be decoded  *)
(* refers to nothing, and the usual places are tried.                      *)

HasChassis(ep) == ep.type # "CabinetPDUController"
HasSystems(ep) == ep.type = "NodeBMC"
PowerOf(ep) == IF ep.root.got = "ok" THEN ep.power ELSE [got |-> "none", members |-> <<>>]

PrePhase1(ep) ==
  IF ~ep.valid THEN "EndpointInvalid" ELSE IF ~ep.enabled THEN "EndpointNotEnabled"
  ELSE IF Unread(ep.root) THEN "HTTPsGetFailed" ELSE Verifying
ChassisStatus(ep) == IF Unread(ep.chassis) /\ ~HasChassis(ep) THEN Verifying ELSE Referred(ep.chassis)
GetSystems(ep)    == IF Unread(ep.systems) /\ ~HasSystems(ep) THEN Verifying ELSE Referred(ep.systems)

RemotePhase1(ep) ==
  IF PrePhase1(ep) # Verifying THEN PrePhase1(ep)
  ELSE IF ChassisStatus(ep) # Verifying THEN ChassisStatus(ep)
  ELSE IF Referred(ep.managers) # Verifying THEN Referred(ep.managers)
  ELSE IF GetSystems(ep) # Verifying THEN GetSystems(ep) ELSE Referred(PowerOf(ep))

(* What each of the second phase's steps finds.                            *)
LocalPhase2(ep) ==
  [chassis  |-> {OneChassis(ep, Items(ep.chassis), i) : i \in DOMAIN Items(ep.chassis)},
   managers |-> {Manager(ep, Items(ep.managers), i) : i \in DOMAIN Items(ep.managers)},
   pdus     |-> {RackPDU(ep, Items(PowerOf(ep)), i) : i \in DOMAIN Items(PowerOf(ep))},
   systems  |-> {System(Items(ep.systems), i) : i \in DOMAIN Items(ep.systems)}]
NothingFound == [chassis |-> {}, managers |-> {}, pdus |-> {}, systems |-> {}]

CheckPhase2(found) ==
  [status |-> ChildStatus({x.self : x \in found.chassis \cup found.pdus \cup found.systems}
                            \cup found.managers),
   found  |-> found]

(* GetRootInfo: the status, and what was found.                            *)
RootInfo(ep) ==
  IF RemotePhase1(ep) # Verifying THEN [status |-> RemotePhase1(ep), found |-> NothingFound]
  ELSE CheckPhase2(LocalPhase2(ep))

-----------------------------------------------------------------------------
(* What is stored of an endpoint that was discovered.                      *)

Good(ds) == {d \in ds : d.status = "DiscoverOK"}
GoodTrees(ts) == {t \in ts : t.self.status = "DiscoverOK"}

(* A component and its endpoint for each of them; of what hangs below,     *)
(* for outlets only.                                                       *)
DiscoverComponentEndpointArray(found) ==
  {t.self : t \in GoodTrees(found.chassis \cup found.systems \cup found.pdus)}
    \cup Good(found.managers) \cup UNION {Good(t.below) : t \in GoodTrees(found.pdus)}
DiscoverComponentArray(found) == DiscoverComponentEndpointArray(found)

(* The nodes of an endpoint may share a part.  Go visits its map in any    *)
(* order: the first one with a part is compared with the others, and when  *)
(* it has the same, each of them and the first too is told apart by its    *)
(* ordinal.                                                                *)
Suffixed(d) == [d EXCEPT !.fru = <<"_", d.ordinal, d.fru>>]
SameAs(first, nodes) == {d \in nodes \ {first} : d.present /\ d.fru = first.fru}
SharedFRUsLater(nodes, first) ==
  {IF d \in SameAs(first, nodes) THEN Suffixed(d) ELSE d : d \in nodes}
SharedFRUs(nodes, first) ==
  {IF d \in SameAs(first, nodes) \/ (d = first /\ SameAs(first, nodes) # {})
   THEN Suffixed(d) ELSE d : d \in nodes}

NodesOf(found) == {t.self : t \in GoodTrees(found.systems)}
WithPart(nodes) == {d \in nodes : d.present}
NoNode == Undiscovered(<<>>, NoSupport)
FirstSeen(nodes) == IF WithPart(nodes) = {} THEN {NoNode} ELSE WithPart(nodes)

(* DiscoverHWInvByLocArray, with the node that is visited first.  What is  *)
(* found is a row, with its part unless it is empty: of the systems, of    *)
(* what they consist of, and of managers only those of nodes and routers.  *)
ChassisLocations(found) ==
  {t.self : t \in GoodTrees(found.chassis)} \cup UNION {Good(t.below) : t \in GoodTrees(found.chassis)}
NodeLocations(found, first) == SharedFRUs(NodesOf(found), first)
NodePartLocations(found) == UNION {Good(t.below) : t \in GoodTrees(found.systems)}
PDULocations(found) ==
  {t.self : t \in GoodTrees(found.pdus)} \cup UNION {Good(t.below) : t \in GoodTrees(found.pdus)}
ManagerLocations(found) == {m \in Good(found.managers) : m.type \in {"NodeBMC", "RouterBMC"}}

DiscoverHWInvByLocArray(found, first) ==
  ChassisLocations(found) \cup NodeLocations(found, first) \cup NodePartLocations(found) \cup
  PDULocations(found) \cup ManagerLocations(found)

(* NewHWInvByLocs: a location that a client posts, its part described as   *)
(* it is answered.  The part's id is made anew, but for an outlet's.       *)
ChassisTypes == {"Cabinet", "Chassis", "ComputeModule", "RouterModule", "NodeEnclosure", "HSNBoard"} \cup Switches
NodeTypes    == {"Node", "NodeAccel", "Processor", "Memory", "Drive", "NodeHsnNic", "NodeAccelRiser"}
PowerTypes   == {"CabinetPDU", "CMMRectifier", "NodeEnclosurePowerSupply"}
Outlet       == {"CabinetPDUOutlet", "CabinetPDUPowerConnector"}
ManagerTypes == {"NodeBMC", "RouterBMC"}
Postable(d) ==
  d.present /\ d.type \in ChassisTypes \cup NodeTypes \cup PowerTypes \cup Outlet \cup ManagerTypes
PostedFRU(d) ==
  IF d.type \in Outlet THEN (IF d.fru = <<>> THEN <<"FRUIDfor", d.id>> ELSE d.fru)
  ELSE GetStandardFRUID(d.type, d.id, d.info)

(* DiscoverServiceEndpointArray: a service that cannot be read has an      *)
(* entry too, without its information.                                     *)
DiscoverServiceEndpointArray(ep) ==
  IF ep.root.got # "ok" THEN {}
  ELSE {[service |-> s, known |-> ep.services[s] = "ok"]
          : s \in {x \in DOMAIN ep.services : ep.services[x] # "none"}}

-----------------------------------------------------------------------------
(* Network interfaces.                                                     *)

(* Where no interface is shown, those of some nodes are known to precede   *)
(* the lowest address of their manager.                                    *)
LowestMAC(m) ==
  LET macs == {e.mac : e \in {x \in Range(Items(m.nics)) : x.got = "ok" /\ x.mac # 0}}
  IN IF macs = {} THEN 0 ELSE CHOOSE x \in macs : \A y \in macs : x <= y
ComputedMACs(s, m) ==
  IF /\ s.hidden = "intel" \/ (s.hidden = "gigabyte" /\ m.firmware = "12")
     /\ LowestMAC(m) # 0
  THEN <<LowestMAC(m) - 2, LowestMAC(m) - 1>> ELSE <<>>
(* by: the manager that the system names, or, if it names none that is     *)
(* there, the one that Go visits first.                                    *)
ManagerOf(s, ms)  == ms[IF s.by \in DOMAIN ms THEN s.by ELSE 1]
ComputedBy(s, ms) == IF ms = <<>> THEN <<>> ELSE ComputedMACs(s, ManagerOf(s, ms))

MACOf(e) == IF e.got # "ok" THEN 0 ELSE e.mac

(* The main address of a system, whose managers are ms: the permanent one. *)
MainOf(e) == IF e.got = "ok" /\ e.permanent # 0 THEN e.permanent ELSE MACOf(e)
SystemMAC(s, ms) ==
  LET es == Items(s.nics)
      mine == {i \in DOMAIN es : Len(es) = 1 \/ es[i].main}
  IN IF es = <<>> THEN (IF ComputedBy(s, ms) = <<>> THEN 0 ELSE ComputedBy(s, ms)[1])
     ELSE IF mine = {} THEN 0 ELSE MainOf(es[CHOOSE i \in mine : TRUE])

(* The main address of a manager, whose interfaces are visited in an       *)
(* order: the last one seen that is both enabled and well, if any.         *)
MACStep(acc, e) ==
  LET iface == IF e.got = "ok" /\ e.enabled THEN e.mac ELSE acc.iface
      on    == IF e.got = "ok" /\ e.state = "Enabled" THEN e.mac ELSE acc.on
      ok    == IF e.got = "ok" /\ e.state = "Enabled" /\ e.health = "OK" THEN e.mac ELSE acc.ok
  IN [iface |-> iface, on |-> on, ok |-> ok,
      main |-> IF iface = ok \/ (acc.main = 0 /\ iface = on) THEN iface ELSE acc.main]
NoMAC == [iface |-> 0, on |-> 0, ok |-> 0, main |-> 0]
MACsSeen(es) ==
  LET seen[n \in 0 .. Len(es)] == IF n = 0 THEN NoMAC ELSE MACStep(seen[n - 1], es[n]) IN seen[Len(es)]
ManagerMAC(es) ==
  LET seen == MACsSeen(es)
  IN IF seen.main # 0 THEN seen.main
     ELSE IF Len(es) = 1 THEN MACOf(es[1])
     ELSE IF seen.iface # 0 THEN seen.iface ELSE IF seen.ok # 0 THEN seen.ok ELSE seen.on

(* DiscoverCompEthInterfaceArray: an interface for each address of a       *)
(* system or a manager; the endpoint's own has the endpoint's IP address.  *)
AddressOf(e) == IF e.got # "ok" THEN 0 ELSE IF e.mac # 0 THEN e.mac ELSE e.permanent
Shown(r) == {AddressOf(e) : e \in Range(Items(r.nics))} \ {0}
AddressesOf(s, ms) == IF Items(s.nics) = <<>> /\ ms # <<>> THEN Range(ComputedBy(s, ms)) ELSE Shown(s)

DiscoverCompEthInterfaceArray(ep, found) ==
  LET ms == Items(ep.managers) IN
  (UNION {{[mac |-> a, of |-> d.id, ip |-> FALSE] : a \in AddressesOf(Items(ep.systems)[d.oid[2]], ms)}
            : d \in NodesOf(found)})
  \cup UNION {{[mac |-> a, of |-> d.id, ip |-> a = ep.mac] : a \in Shown(ms[d.oid[2]])}
           : d \in Good(found.managers)}

-----------------------------------------------------------------------------
(* What a component is given that Redfish does not tell.  Env has what SLS *)
(* and the node map say of it, a record or NoInfo, and whether the chassis *)
(* above it has a controller here.                                         *)

NoInfo == [nid |-> 0, role |-> Unsaid, subrole |-> Unsaid, class |-> Unsaid]

(* GetBogusNID: a number made of those in the xname.                       *)
GetBogusNID(node) ==
  (At.cabinet + 1) * 16384 + At.chassis * 2048 + At.slot * 32 + At.controller * 4 + node

(* GetCompDefaults: the subrole comes from where the role comes.           *)
FromNodeMap(env) == IF env.sls.nid = 0 \/ env.sls.role = Unsaid THEN env.nodemap ELSE NoInfo
RoleFrom(env) ==
  IF env.sls.role # Unsaid THEN env.sls ELSE IF FromNodeMap(env).role # Unsaid THEN FromNodeMap(env)
  ELSE [NoInfo EXCEPT !.role = "Compute"]
DefaultNID(env, node) ==
  IF env.sls.nid # 0 THEN env.sls.nid ELSE IF FromNodeMap(env).nid # 0 THEN FromNodeMap(env).nid
  ELSE GetBogusNID(node)
GetCompDefaults(env, node) ==
  [nid |-> DefaultNID(env, node), role |-> RoleFrom(env).role, subrole |-> RoleFrom(env).subrole,
   class |-> env.sls.class]

(* The class that is not given: of what hangs in a chassis with a          *)
(* controller, as of that chassis, Mountain.                               *)
ClassOf(type, env) ==
  IF type \in {"CabinetPDU", "CabinetPDUPowerConnector", "CabinetPDUController", "CDUMgmtSwitch"} THEN Unsaid
  ELSE IF type \in {"Chassis", "ChassisBMC"} \/ env.cmm THEN "Mountain" ELSE "River"

Component(d) ==
  LET defaults == IF d.type = "Node" THEN GetCompDefaults(Env(d.id), d.ordinal) ELSE NoInfo
  IN [oid |-> d.oid, id |-> d.id, type |-> d.type, state |-> d.state, flag |-> d.flag,
      nid |-> defaults.nid, role |-> defaults.role, subrole |-> defaults.subrole,
      class |-> IF defaults.class # Unsaid THEN defaults.class ELSE ClassOf(d.type, Env(d.id))]

-----------------------------------------------------------------------------
(* doDiscovery of an endpoint: GetRootInfo, and what updateFromRfEndpoint   *)
(* stores of it, all in one transaction or, after a failure, the status.   *)

VARIABLES report, stored
discovery == <<report, stored>>

NotStored(status) ==
  [status |-> status, components |-> {}, hwinv |-> {}, services |-> {}, interfaces |-> {}]
Stored(ep, found, first) ==
  [status     |-> "DiscoverOK",
   components |-> {Component(d) : d \in DiscoverComponentArray(found)},
   hwinv      |-> DiscoverHWInvByLocArray(found, first),
   services   |-> DiscoverServiceEndpointArray(ep),
   interfaces |-> DiscoverCompEthInterfaceArray(ep, found)]

ReportInit == report \in EndpointReports /\ stored = NotStored("DiscoveryStarted")
Discover ==
  /\ stored.status = "DiscoveryStarted"
  /\ LET root == RootInfo(report) IN
     IF root.status # "DiscoverOK" THEN stored' = NotStored(root.status)
     ELSE \E first \in FirstSeen(NodesOf(root.found)) : stored' = Stored(report, root.found, first)
  /\ UNCHANGED report
ReportSpec == ReportInit /\ [][Discover]_discovery

-----------------------------------------------------------------------------
(* Reports, and where they come from.                                      *)

Gots == {"ok", "missing", "failed", "garbled"}
IsList(l) ==
  /\ l.got \in Gots \cup {"none"}
  /\ Len(l.members) \in Nat /\ DOMAIN l.members = 1 .. Len(l.members)
  /\ l.got = "none" => Len(l.members) = 0
AreRead(l) == IsList(l) /\ \A i \in DOMAIN l.members : l.members[i].got \in Gots
AreNamed(l) == AreRead(l) /\ \A i \in DOMAIN l.members : l.members[i].name \in Int

IsSystem(s) ==
  /\ AreRead(s.processors) /\ AreRead(s.memory) /\ AreRead(s.assembly) /\ AreRead(s.adapters)
  /\ AreRead(s.devices) /\ AreRead(s.nics)
  /\ AreNamed(s.storage) /\ \A g \in DOMAIN s.storage.members : AreNamed(s.storage.members[g])
Controllers == {"ChassisBMC", "NodeBMC", "RouterBMC", "CabinetPDUController"} \cup Switches
IsReport(ep) ==
  /\ ep.type \in Controllers /\ ep.root.got \in Gots
  /\ AreRead(ep.chassis) /\ AreRead(ep.managers) /\ AreRead(ep.systems) /\ AreRead(ep.power)
  /\ \A i \in DOMAIN ep.chassis.members : IsList(ep.chassis.members[i].supply)
  /\ \A i \in DOMAIN ep.managers.members : AreRead(ep.managers.members[i].nics)
  /\ \A i \in DOMAIN ep.power.members : AreRead(ep.power.members[i].outlets)
  /\ \A i \in DOMAIN ep.systems.members : IsSystem(ep.systems.members[i])

ASSUME ReportsAssumption == \A ep \in EndpointReports : IsReport(ep)
ASSUME AtAssumption ==
  At.cabinet \in Nat /\ At.chassis \in Nat /\ At.slot \in Nat /\ At.controller \in Nat

-----------------------------------------------------------------------------
(* What a report lists and a discovery may not lose: all but what is not   *)
(* there, what is of no supported kind, and what hangs below a list that   *)
(* cannot be decoded or one of the few whose failures are passed over.     *)
There(l)  == IF l.got = "garbled" THEN {} ELSE {i \in DOMAIN l.members : l.members[i].got # "missing"}
Passed(l) == IF l.got = "ok" THEN DOMAIN l.members ELSE {}

ListedDrives(s, oid) ==
  UNION {{oid \o <<"storage", g, i>> : i \in There(s.storage.members[g])}
           : g \in {h \in Passed(s.storage) : s.storage.members[h].got = "ok"}}
ListedCards(s, oid) ==
  IF HasDevices(s)
  THEN {oid \o <<"devices", i>> : i \in {j \in There(s.devices) :
          LET d == s.devices.members[j] IN d.known /\ d.kind \in {"GPU", "LOM NIC", "PCIe NIC"}}}
  ELSE {oid \o <<"adapters", i>> : i \in IF s.adapters.got = "garbled" THEN {} ELSE DOMAIN s.adapters.members}
ListedParts(s, oid) ==
  {oid \o <<"processors", i>> : i \in There(s.processors)} \cup
  {oid \o <<"memory", i>> : i \in There(s.memory)} \cup
  {oid \o <<"assembly", i>> : i \in {j \in Passed(s.assembly) : s.assembly.members[j].kind = "Riser"}} \cup
  ListedDrives(s, oid) \cup ListedCards(s, oid)

ListedSystems(ep) ==
  LET ss == IF Unread(ep.systems) THEN <<>> ELSE ep.systems.members
      physical == {i \in DOMAIN ss : ss[i].type = "Physical"}
  IN IF physical # {} THEN physical ELSE {i \in DOMAIN ss : ss[i].type = Unsaid}

ListedChassis(ep) ==
  {i \in IF Unread(ep.chassis) THEN {} ELSE DOMAIN ep.chassis.members :
     LET c == ep.chassis.members[i]
         type == GetChassisHMSType(ep, c)
     IN ~c.skipped /\ c.got # "missing" /\ type # "Invalid" /\ GetChassisHMSID(ep, type, 0) # {}}
ListedSupplies(c) == IF c.supply.counted THEN Passed(c.supply) ELSE {}

ListedPDUs(ep) ==
  IF ep.root.got = "ok" /\ ep.type = "CabinetPDUController" THEN DOMAIN ep.power.members ELSE {}
ListedOutlets(p) == IF p.outlets.got = "garbled" THEN {} ELSE DOMAIN p.outlets.members

(* The endpoint's own manager, or the first of its kind that is.           *)
ListedManagers(ep) ==
  LET ms == ep.managers.members IN
  {i \in DOMAIN ms : ms[i].own /\ ep.type \notin Switches /\ \A j \in 1 .. i - 1 : ms[j].type # ms[i].type}

Listed(ep) ==
  {<<"chassis", i>> : i \in ListedChassis(ep)} \cup {<<"systems", i>> : i \in ListedSystems(ep)} \cup
  {<<"pdus", i>> : i \in ListedPDUs(ep)} \cup {<<"managers", i>> : i \in ListedManagers(ep)} \cup
  (UNION {{<<"chassis", i>> \o <<"supplies", k>> : k \in ListedSupplies(ep.chassis.members[i])}
            : i \in ListedChassis(ep)}) \cup
  (UNION {ListedParts(ep.systems.members[i], <<"systems", i>>) : i \in ListedSystems(ep)}) \cup
  UNION {{<<"pdus", i>> \o <<"outlets", k>> : k \in ListedOutlets(ep.power.members[i])} : i \in ListedPDUs(ep)}

(* Where two of an endpoint may have one id: what is numbered after the    *)
(* endpoint alone, accelerators that are named as processors, the GPUs of  *)
(* two lists, the cards of two kinds, and names that are only partly       *)
(* numbers, or the same ones.                                              *)
NumbersClash(l) ==
  \E i, k \in DOMAIN l.members :
    /\ i # k /\ l.members[i].name >= 0
    /\ l.members[k].name < 0 \/ l.members[k].name = l.members[i].name
CrowdedSystem(s) ==
  \/ \E p \in Range(s.processors.members) : p.kind = "Accelerator" \/ (p.kind = "GPU" /\ HasDevices(s))
  \/ \E d, e \in Range(s.devices.members) : IsNic(d) /\ IsNic(e) /\ d.kind # e.kind
  \/ NumbersClash(s.storage) \/ \E g \in Range(s.storage.members) : NumbersClash(g)
Crowded(ep) ==
  \/ \E i, k \in DOMAIN ep.chassis.members :
       LET Type(j) == GetChassisHMSType(ep, ep.chassis.members[j])
       IN i # k /\ Type(i) = Type(k) /\ Type(i) \in {"NodeEnclosure", "HSNBoard", "Chassis"} \cup Switches
  \/ \E i, k \in DOMAIN ep.managers.members :
       LET ms == ep.managers.members
           Own(j) == GetManagerHMSType(ep, ms, j) = ep.type /\ GetManagerOrdinal(ms, j) = 0
       IN i # k /\ Own(i) /\ Own(k)
  \/ \E s \in Range(ep.systems.members) : CrowdedSystem(s)

(* Of the rows that are stored.                                            *)
Apart(rows) == \A r, q \in rows : r.id = q.id => r.oid = q.oid
Nodes(rows) == {r \in rows : r.type = "Node"}
HasGivenNID(id) == Env(id).sls.nid # 0 \/ Env(id).nodemap.nid # 0
NumbersApart(nodes) ==
  \A r, q \in nodes : r.nid = q.nid => r.oid = q.oid \/ HasGivenNID(r.id) \/ HasGivenNID(q.id)
PostedAgain(r) ==
  /\ Postable(r)
  /\ r.fru = PostedFRU(r) \/ (r.type = "Node" /\ r.fru = <<"_", r.ordinal, PostedFRU(r)>>)
MainIsStored(r, ep, interfaces) ==
  LET s == ep.systems.members[r.oid[2]] IN
  \/ SystemMAC(s, Items(ep.managers)) \in {0} \cup {x.mac : x \in {y \in interfaces : y.of = r.id}}
  \/ \E n \in Range(s.nics.members) : n.permanent \notin {0, n.mac}

(* A discovery that is good has stored whatever the endpoint lists, each   *)
(* under an id of its own and each node with a number of its own, unless   *)
(* it is given: a resource that could not be read or decoded makes the     *)
(* discovery fail instead, however deep it is, but for the few kinds whose *)
(* failures are passed over (the phases of pkg/redfish,                    *)
(* updateFromRfEndpoint).  The main address of a node is among the         *)
(* interfaces stored for it, but where a card has two; and what is stored  *)
(* of a part gives it its id again when it is posted (NewHWInvByLocs), but *)
(* for nodes told apart by a suffix.                                       *)
WholeTree ==
  stored.status = "DiscoverOK" =>
    /\ Listed(report) \subseteq {r.oid : r \in stored.components \cup stored.hwinv}
    /\ Crowded(report) \/ (Apart(stored.components) /\ Apart(stored.hwinv))
    /\ NumbersApart(Nodes(stored.components))
    /\ \A r \in stored.hwinv : r.present => PostedAgain(r)
    /\ \A r \in Nodes(stored.components) : MainIsStored(r, report, stored.interfaces)

(* Nodes of one part each have a part of their own, the same in any order. *)
PartsToldApart(found, hwinv) ==
  (\A d, e \in WithPart(NodesOf(found)) : d.fru = e.fru) =>
    /\ \A first \in FirstSeen(NodesOf(found)) : hwinv = DiscoverHWInvByLocArray(found, first)
    /\ \A r, q \in WithPart(Nodes(hwinv)) : r.fru = q.fru => r.oid = q.oid

(* The orders in which Go may visit a map, and the interfaces of a manager *)
(* of which one is enabled and well, each with an address of its own.      *)
Orders(list) == {[i \in DOMAIN list |-> list[f[i]]] : f \in Bijection(DOMAIN list, DOMAIN list)}
Well(e) == e.got = "ok" /\ e.enabled /\ e.state = "Enabled" /\ e.health = "OK"
OneIsWell(es) ==
  /\ \E i \in DOMAIN es : Well(es[i]) /\ \A k \in DOMAIN es : Well(es[k]) => k = i
  /\ \A i, k \in DOMAIN es : es[i].got = "ok" /\ es[k].got = "ok" =>
       es[i].mac # 0 /\ (es[i].mac = es[k].mac => i = k)

(* Neither the parts nor the main address depend on the order in which Go  *)
(* visits its maps: nodes that share one part are told apart, all of them, *)
(* whichever comes first, and a manager with one interface that is enabled *)
(* and well has its address (DiscoverHWInvByLocArray,                      *)
(* discoverComponentEPEthInterfaces).                                      *)
OrderIsFree ==
  stored.status = "DiscoverOK" =>
    /\ PartsToldApart(RootInfo(report).found, stored.hwinv)
    /\ \A m \in Range(Items(report.managers)) : OneIsWell(Items(m.nics)) =>
         \A es \in Orders(Items(m.nics)) : \E e \in Range(es) : Well(e) /\ ManagerMAC(es) = e.mac
=============================================================================
