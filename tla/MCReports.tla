----------------------------- MODULE MCReports -----------------------------
(* Reports of four endpoints, each with up to two changes.                 *)
EXTENDS RedfishTree

LOCAL None    == [got |-> "none", members |-> <<>>, counted |-> TRUE]
LOCAL Ok(ms)  == [None EXCEPT !.got = "ok", !.members = ms]
LOCAL Item ==
  [got |-> "ok", state |-> "Enabled", power |-> "", health |-> "OK", kind |-> "", name |-> -1,
   known |-> TRUE, fru |-> [maker |-> "m", part |-> "p", serial |-> "s"], members |-> <<>>,
   mac |-> 0, permanent |-> 0, enabled |-> TRUE, main |-> FALSE]
LOCAL Part(kind, name) == [Item EXCEPT !.kind = kind, !.name = name]
LOCAL Nic(mac) == [Item EXCEPT !.mac = mac]

LOCAL Top(type, maker) ==
  [got |-> "ok", state |-> "Enabled", power |-> "On", health |-> "OK", type |-> type, maker |-> maker,
   name |-> "", fru |-> Item.fru, nics |-> None, action |-> None, controls |-> None, supply |-> None,
   devices |-> None, adapters |-> None, processors |-> None, memory |-> None, storage |-> None,
   assembly |-> None, outlets |-> None, hidden |-> "", by |-> 1, skipped |-> FALSE, own |-> FALSE,
   manages |-> FALSE, firmware |-> ""]

LOCAL Endpoint(type, chassis, managers, systems, power) ==
  [type |-> type, valid |-> TRUE, enabled |-> TRUE, root |-> Ok(<<>>), chassis |-> Ok(chassis),
   managers |-> Ok(managers), systems |-> Ok(systems), power |-> power,
   services |-> [s \in {"EventService", "TaskService"} |-> "ok"], mac |-> 7]

LOCAL Node ==
  [Top("Physical", "") EXCEPT
     !.processors = Ok(<<Part("CPU", -1), Part("GPU", -1), Part("CPU", -1)>>),
     !.memory = Ok(<<Part("", -1), Part("", -1)>>),
     !.storage = Ok(<<[Part("", -1) EXCEPT !.members = <<Part("", 1), Part("", 0)>>]>>),
     !.adapters = Ok(<<Part("", -1)>>),
     !.assembly = Ok(<<Part("Riser", -1), Part("Board", -1), Part("Riser", -1)>>),
     !.nics = Ok(<<Nic(1), [Nic(2) EXCEPT !.permanent = 2, !.main = TRUE]>>)]
LOCAL Own(type) == [Top(type, "") EXCEPT !.own = TRUE, !.nics = Ok(<<Nic(7), Nic(8)>>)]

Bases ==
  { [Endpoint("NodeBMC", <<Top("RackMount", "")>>, <<Own("BMC")>>,
               <<Node, [Node EXCEPT !.nics = Ok(<<Nic(3)>>)]>>, None)
       EXCEPT !.chassis.members[1].supply = Ok(<<Part("", -1), Part("", -1)>>)],
    Endpoint("ChassisBMC",
             <<[Top("Enclosure", "cray") EXCEPT !.supply = Ok(<<Part("", -1), Part("", -1)>>)],
               [Top("Blade", "cray") EXCEPT !.name = "blade"],
               [Top("Blade", "cray") EXCEPT !.name = "perif"],
               [Top("Blade", "cray") EXCEPT !.name = "blade"]>>,
             <<Own("EnclosureManager"), Top("BMC", "")>>, <<>>, None),
    Endpoint("RouterBMC", <<Top("Enclosure", "cray")>>, <<Own("BMC")>>, <<>>, None),
    Endpoint("CabinetPDUController", <<>>, <<Own("BMC")>>, <<>>,
             Ok(<<[Top("RackPDU", "") EXCEPT !.outlets = Ok(<<Item, Item>>)],
                  [Top("RackPDU", "") EXCEPT !.outlets = Ok(<<Item, Item>>)]>>)) }

(* The changes: what is not read, or what is reported otherwise.           *)
LOCAL Bad == {"missing", "failed", "garbled"}
Changes ==
  {<<k, g>> : k \in {"root", "chassis", "managers", "systems", "power", "manager", "manager.nics",
                     "manager.action", "chassis1", "supply", "pdu", "outlets", "outlet", "system",
                     "nics", "controls", "system.supply", "processors", "processor", "memory", "dimm",
                     "storage", "group", "drive", "adapters", "adapter", "devices", "device",
                     "assembly"}, g \in Bad} \cup
  {<<"ep.type", "MgmtSwitch">>, <<"off", "">>, <<"invalid", "">>, <<"maker", "foxconn">>,
   <<"maker", "gigabyte">>, <<"skip", "">>, <<"miscount", "">>, <<"virtual", "">>,
   <<"typeless", "">>, <<"hpe", "">>, <<"absent", "dimm">>, <<"absent", "node">>,
   <<"absent", "outlet">>, <<"absent", "chassis">>, <<"nodes", "differ">>, <<"nodes", "unknown">>,
   <<"drive", "unnamed">>, <<"group", "named">>, <<"accelerator", "">>, <<"hidden", "intel">>,
   <<"hidden", "second">>,
   <<"nics", "mute">>, <<"nics", "swapped">>, <<"nics", "none">>, <<"nics", "renamed">>, <<"service", "failed">>,
   <<"many", "managers">>, <<"many", "chassis">>}

LOCAL Devices == Ok(<<Part("GPU", -1), Part("Switch", -1), Part("PCIe NIC", -1), Part("GPU", -1)>>)

LOCAL ChangeSystem(s, place, how) ==
  CASE place = "system"     -> [s EXCEPT !.got = how]
    [] place = "controls"   -> [s EXCEPT !.controls.got = how]
    [] place = "system.supply" -> [s EXCEPT !.supply.got = how]
    [] place = "nics" /\ how \in Bad -> [s EXCEPT !.nics.got = how]
    [] place = "processors" -> [s EXCEPT !.processors.got = how]
    [] place = "processor"  -> [s EXCEPT !.processors.members[1].got = how]
    [] place = "memory"     -> [s EXCEPT !.memory.got = how]
    [] place = "dimm"       -> [s EXCEPT !.memory.members[1].got = how]
    [] place = "storage"    -> [s EXCEPT !.storage.got = how]
    [] place = "group" /\ how \in Bad -> [s EXCEPT !.storage.members[1].got = how]
    [] place = "drive" /\ how \in Bad -> [s EXCEPT !.storage.members[1].members[2].got = how]
    [] place = "drive"      -> [s EXCEPT !.storage.members[1].members[1].name = -1]
    [] place = "group"      -> [s EXCEPT !.storage.members[1].name = 3]
    [] place = "adapters"   -> [s EXCEPT !.adapters.got = how]
    [] place = "adapter"    -> [s EXCEPT !.adapters.members[1].got = how]
    [] place = "hpe"        -> [s EXCEPT !.maker = "hpe", !.devices = Devices]
    [] place = "devices"    -> [s EXCEPT !.maker = "hpe", !.devices = [Devices EXCEPT !.got = how]]
    [] place = "device"     -> [s EXCEPT !.maker = "hpe",
                                         !.devices = [Devices EXCEPT !.members[1].got = how]]
    [] place = "assembly"   -> [s EXCEPT !.assembly.got = how]
    [] place = "maker"      -> [s EXCEPT !.maker = how]
    [] place = "virtual"    -> [s EXCEPT !.type = "Virtual"]
    [] place = "typeless"   -> [s EXCEPT !.type = ""]
    [] <<place, how>> = <<"absent", "dimm">> ->
         [s EXCEPT !.memory.members[2].state = "", !.memory.members[2].fru.serial = "NO DIMM"]
    [] <<place, how>> = <<"absent", "node">> -> [s EXCEPT !.state = "Absent"]
    [] <<place, how>> = <<"nodes", "differ">>  -> [s EXCEPT !.fru.serial = "t"]
    [] <<place, how>> = <<"nodes", "unknown">> -> [s EXCEPT !.fru.serial = ""]
    [] place = "accelerator" -> [s EXCEPT !.processors.members[2].kind = "Accelerator"]
    [] <<place, how>> = <<"nics", "renamed">> -> [s EXCEPT !.nics.members[2].permanent = 9]
    [] place = "hidden"     -> [s EXCEPT !.hidden = "intel", !.nics = None,
                                         !.by = IF how = "second" THEN 2 ELSE 1]
    [] OTHER -> s

LOCAL ChangeManager(m, place, how) ==
  CASE place = "manager"        -> [m EXCEPT !.got = how]
    [] place = "manager.nics"   -> [m EXCEPT !.nics.got = how]
    [] place = "manager.action" -> [m EXCEPT !.action.got = how]
    [] <<place, how>> = <<"nics", "mute">>    -> [m EXCEPT !.nics.members[1].state = ""]
    [] <<place, how>> = <<"nics", "swapped">> -> [m EXCEPT !.nics.members[2].health = "Warning"]
    [] <<place, how>> = <<"nics", "none">>    -> [m EXCEPT !.nics = None]
    [] OTHER -> m

LOCAL ChangeChassis(c, place, how) ==
  CASE place = "chassis1" -> [c EXCEPT !.got = how]
    [] place = "supply"   -> [c EXCEPT !.supply.got = how]
    [] place = "miscount" -> [c EXCEPT !.supply.counted = FALSE]
    [] place = "skip"     -> [c EXCEPT !.skipped = TRUE]
    [] place = "maker"    -> [c EXCEPT !.maker = how]
    [] <<place, how>> = <<"absent", "chassis">> -> [c EXCEPT !.state = "Absent"]
    [] OTHER -> c

LOCAL ChangePDU(p, place, how) ==
  CASE place = "pdu"     -> [p EXCEPT !.got = how]
    [] place = "outlets" -> [p EXCEPT !.outlets.got = how]
    [] place = "outlet"  -> [p EXCEPT !.outlets.members[2].got = how]
    [] <<place, how>> = <<"absent", "outlet">> -> [p EXCEPT !.outlets.members[1].state = "Absent"]
    [] OTHER -> p

LOCAL ChangeEndpoint(ep, place, how) ==
  CASE place = "root"     -> [ep EXCEPT !.root.got = how]
    [] place = "chassis"  -> [ep EXCEPT !.chassis.got = how]
    [] place = "managers" -> [ep EXCEPT !.managers.got = how]
    [] place = "systems"  -> [ep EXCEPT !.systems.got = how]
    [] place = "power"    -> [ep EXCEPT !.power.got = how]
    [] place = "ep.type"  -> [ep EXCEPT !.type = how]
    [] place = "off"      -> [ep EXCEPT !.enabled = FALSE]
    [] place = "invalid"  -> [ep EXCEPT !.valid = FALSE]
    [] place = "service"  -> [ep EXCEPT !.services["TaskService"] = how]
    [] <<place, how>> = <<"many", "managers">> ->
         [ep EXCEPT !.managers.members = Append(@, Top("BMC", ""))]
    [] <<place, how>> = <<"many", "chassis">> ->
         [ep EXCEPT !.chassis.members = Append(@, Top("Enclosure", "cray"))]
    [] OTHER -> ep

LOCAL First(list, Edit(_)) == IF list = <<>> THEN <<>> ELSE [list EXCEPT ![1] = Edit(@)]
Change(ep, c) ==
  LET e == ChangeEndpoint(ep, c[1], c[2]) IN
  [e EXCEPT !.chassis.members  = First(@, LAMBDA x : ChangeChassis(x, c[1], c[2])),
            !.managers.members = First(@, LAMBDA x : ChangeManager(x, c[1], c[2])),
            !.systems.members  = First(@, LAMBDA x : ChangeSystem(x, c[1], c[2])),
            !.power.members    = First(@, LAMBDA x : ChangePDU(x, c[1], c[2]))]
Base(type) == CHOOSE b \in Bases : b.type = type
Report(type, changes) == MapThenFoldSet(LAMBDA f, ep : Change(ep, f), Base(type), LAMBDA c : c,
                                        LAMBDA S : CHOOSE c \in S : TRUE, changes)
Telling(b) == {c \in Changes : Change(b, c) # b}
TwoChanges == UNION {{[of |-> b.type, changes |-> {c, d}] : c, d \in Telling(b)} : b \in Bases}
Reports == {Report(p.of, p.changes) : p \in TwoChanges}

-----------------------------------------------------------------------------
(* What is known besides: of the first node in SLS and in the node map.    *)
MCAt == [cabinet |-> 1, chassis |-> 0, slot |-> 3, controller |-> 1]
MCEnv(id) ==
  LET n == IF id = <<>> THEN 0 ELSE id[1][2] IN
  [cmm     |-> n = 1,
   sls     |-> IF n = 0 THEN [nid |-> 1, role |-> "", subrole |-> "", class |-> "Hill"] ELSE NoInfo,
   nodemap |-> IF n = 0 THEN [nid |-> 2, role |-> "Service", subrole |-> "Worker", class |-> ""] ELSE NoInfo]
=============================================================================
