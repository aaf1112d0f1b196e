------------------------------ MODULE RFEvents ------------------------------
(***************************************************************************)
(* Redfish events (cmd/smd/rfevent.go, rfevent-monitor.go, msgbus.go): the *)
(* monitor that reads them from the message bus, the worker pool that      *)
(* handles them, the cache of component endpoints that turns a URI into an *)
(* xname, and the state updates that come out.                             *)
(*                                                                         *)
(* A step of a worker is one access to the cache, which a read-write lock  *)
(* makes atomic, or one access to the database.  An event has one record:  *)
(* the records of an event are handled one after the other, like events of *)
(* one worker.                                                             *)
(***************************************************************************)
EXTENDS Integers, Sequences, FiniteSets

CONSTANTS
  Endpoint,   \* RedfishEndpoints, the controllers that send events
  Cep,        \* ComponentEndpoints; a controller is one of its own, but for a PDU's
  EpOf,       \* the controller of each
  UriOf,      \* its URI there; controllers of a kind use the same URIs
  TypeOf,     \* "module" (a slot or a router card), "card" or "node"
  BmcsOf,     \* of a module, the controllers in it, in order
  FlavourOf,  \* which events a controller sends: "resource", "simple", "alert", "foxconn"
  FirstNode,  \* the node <controller>n0
  Worker,     \* workers of the pool
  NoEvent,    \* what a closed reader delivers
  QueueSize,  \* jobs the pool's channel holds
  MaxSwitches, \* bound on the model: how often power is switched
  MaxStores,   \* bound on the model: how often discovery or a user writes ComponentEndpoints
  MaxFaults    \* bound on the model: failed calls, signals and restarts

State == {"Empty", "Off", "On", "Ready"}
Kind == {"resource", "simple", "alert", "foxconn"}
Op == {"on", "off", "none"}
Event == [from : Endpoint, kind : Kind, uri : {UriOf[c] : c \in Cep}, op : Op]

ASSUME EventAssumption ==
  /\ EpOf \in [Cep -> Endpoint]
  /\ TypeOf \in [Cep -> {"module", "card", "node"}]
  /\ BmcsOf \in [{c \in Cep : TypeOf[c] = "module"} -> Seq(Endpoint)]
  /\ FlavourOf \in [Endpoint -> Kind]
  /\ FirstNode \in [Endpoint -> Cep]
  /\ NoEvent \notin Event
  /\ QueueSize \in Nat \ {0}
  /\ MaxSwitches \in Nat /\ MaxStores \in Nat /\ MaxFaults \in Nat

VARIABLES
  table,    \* component_endpoints: the rows there are
  cache,    \* smapCompEP: the rows it maps
  sync,     \* its syncNum
  state,    \* the components' states
  power,    \* what is powered in truth
  bus,      \* events that nobody read yet
  reader,   \* the thread that reads the bus: "open" or "ended"
  queue,    \* JobQueue of wpRFEvent
  job,      \* what each worker does
  asked,    \* controllers whose discovery was started
  doubt,    \* history: components an event of which was lost, overtaken or misdirected
  switches, stores, faults

rvars == <<table, cache, sync, state, power, bus, reader, queue, job, asked, doubt,
           switches, stores, faults>>

(* A lookup that a parser makes: of the component at a URI, of the         *)
(* children of a controller, or of an endpoint by its xname.  The parser   *)
(* gives the event up if a lookup fails that it must have.                 *)
Key == [what : {"uri", "children", "value"}, id : Endpoint \cup Cep,
        uri : {UriOf[c] : c \in Cep}, must : BOOLEAN]

(* todo: lookups to make; ids: the components of the update so far; snum,  *)
(* round, synced: as in the code; stable: history, rows that were there    *)
(* since the first check.                                                  *)
Idle == [at |-> "idle"]
Job == [at : {"lookup", "check", "sync", "again", "ask", "update"}, ev : Event,
        todo : Seq(Key), ids : SUBSET Cep, op : Op, snum : Nat, round : 0 .. 1,
        synced : BOOLEAN, stable : SUBSET Cep]

RfTypeOK ==
  /\ table \subseteq Cep /\ cache \subseteq Cep
  /\ sync \in Nat
  /\ state \in [Cep -> State]
  /\ power \in [Cep -> BOOLEAN]
  /\ bus \in Seq(Event)
  /\ reader \in {"open", "ended"}
  /\ queue \in Seq(Event \cup {NoEvent}) /\ Len(queue) <= QueueSize
  /\ job \in [Worker -> Job \cup {Idle}]
  /\ asked \subseteq Endpoint
  /\ doubt \subseteq Cep
  /\ switches \in 0 .. MaxSwitches /\ stores \in 0 .. MaxStores /\ faults \in 0 .. MaxFaults

(* What is in a module. *)
Within(m) == {c \in Cep : \E i \in DOMAIN BmcsOf[m] : EpOf[c] = BmcsOf[m][i]}

(* The modules are powered or not, and nothing was discovered yet. *)
RfInit ==
  /\ table = {} /\ cache = {} /\ sync = 0
  /\ state = [c \in Cep |-> "Empty"]
  /\ \E on \in BOOLEAN :
       power = [c \in Cep |-> \/ on
                              \/ TypeOf[c] = "card" /\ \A m \in DOMAIN BmcsOf : c \notin Within(m)]
  /\ bus = <<>> /\ reader = "open" /\ queue = <<>>
  /\ job = [w \in Worker |-> Idle]
  /\ asked = {} /\ doubt = {}
  /\ switches = 0 /\ stores = 0 /\ faults = 0

-------------------------------------------------------------------------------
(* The hardware and the rest of the system *)

(* The component that an event is about, and with it those whose power it *)
(* switches.                                                              *)
Reported(ev) == {c \in Cep : EpOf[c] = ev.from /\ UriOf[c] = ev.uri}
About(ev) ==
  Reported(ev) \cup UNION {Within(m) : m \in {c \in Reported(ev) : TypeOf[c] = "module"}}

Send(c, op) ==
  bus' = Append(bus, [from |-> EpOf[c], kind |-> FlavourOf[EpOf[c]],
                      uri |-> UriOf[c], op |-> op])

(* A module takes power away from all within it, and gives it to the cards *)
(* only.  An alert may not say which way the power went.                   *)
Switch(c) ==
  /\ switches < MaxSwitches
  /\ TypeOf[c] \in {"module", "node"}
  /\ TypeOf[c] = "node" => \A m \in Cep : TypeOf[m] = "module" /\ c \in Within(m) => power[m]
  /\ switches' = switches + 1
  /\ power' = [d \in Cep |->
       CASE d = c -> ~power[c]
         [] d # c /\ TypeOf[c] = "module" /\ d \in Within(c) ->
              ~power[c] /\ TypeOf[d] = "card"
         [] OTHER -> power[d]]
  /\ LET op == IF power[c] THEN "off" ELSE "on"
     IN \/ Send(c, op)
        \/ FlavourOf[EpOf[c]] = "alert" /\ Send(c, "none")
  /\ UNCHANGED <<table, cache, sync, state, reader, queue, job, asked, doubt, stores, faults>>

(* The heartbeat tracker finds that a node has booted. *)
Boots(c) ==
  /\ TypeOf[c] = "node" /\ power[c] /\ state[c] = "On"
  /\ state' = [state EXCEPT ![c] = "Ready"]
  /\ UNCHANGED <<table, cache, sync, power, bus, reader, queue, job, asked, doubt,
                 switches, stores, faults>>

(* History: a row that goes away was not there all the time. *)
Forget(rows) ==
  job' = [w \in Worker |->
            IF job[w] = Idle THEN Idle ELSE [job[w] EXCEPT !.stable = @ \ rows]]

(* Discovery stores what it found of a controller, all of it or only a     *)
(* part, with the power states it read.  It is in module Discovery in      *)
(* detail; here it reads and writes in one step.                           *)
Store(e, rows) ==
  /\ stores < MaxStores
  /\ rows # {} /\ rows \subseteq {c \in Cep : EpOf[c] = e}
  /\ e \in Cep => power[e] /\ e \in rows
  /\ stores' = stores + 1
  /\ table' = table \cup rows
  /\ state' = [c \in Cep |->
       CASE c \notin rows -> state[c]
         [] c \in rows /\ power[c] -> IF state[c] = "Ready" THEN "Ready" ELSE "On"
         [] OTHER -> "Off"]
  /\ asked' = asked \ {e}
  /\ UNCHANGED <<cache, sync, power, bus, reader, queue, job, doubt, switches, faults>>

(* A user deletes the RedfishEndpoint: its ComponentEndpoints go with it   *)
(* and their components are Empty.                                         *)
Delete(e) ==
  LET rows == {c \in table : EpOf[c] = e}
  IN /\ stores < MaxStores
     /\ rows # {}
     /\ stores' = stores + 1
     /\ table' = table \ rows
     /\ state' = [c \in Cep |-> IF c \in rows THEN "Empty" ELSE state[c]]
     /\ asked' = asked \ {e}
     /\ Forget(rows)
     /\ UNCHANGED <<cache, sync, power, bus, reader, queue, doubt, switches, faults>>

-------------------------------------------------------------------------------
(* The monitor and the pool *)

(* rfEventMonitor reads the next event and queues it; Queue drops it when  *)
(* the channel is full, and nobody looks at what it returns.               *)
ReadNext ==
  /\ reader = "open" /\ bus # <<>>
  /\ bus' = Tail(bus)
  /\ \/ /\ Len(queue) < QueueSize
        /\ queue' = Append(queue, Head(bus))
        /\ UNCHANGED doubt
     \/ /\ Len(queue) = QueueSize
        /\ doubt' = doubt \cup About(Head(bus))
        /\ UNCHANGED queue
  /\ UNCHANGED <<table, cache, sync, state, power, reader, job, asked, switches, stores, faults>>

(* SIGTERM ends the thread that reads the bus, which catches the signal,   *)
(* and not smd.  From then on MsgBusReadNext returns "" at once and never  *)
(* an error, so the monitor does not reconnect.                            *)
Signal ==
  /\ faults < MaxFaults /\ reader = "open"
  /\ reader' = "ended"
  /\ faults' = faults + 1
  /\ UNCHANGED <<table, cache, sync, state, power, bus, queue, job, asked, doubt,
                 switches, stores>>

Spin ==
  /\ reader = "ended" /\ Len(queue) < QueueSize
  /\ queue' = Append(queue, NoEvent)
  /\ UNCHANGED <<table, cache, sync, state, power, bus, reader, job, asked, doubt,
                 switches, stores, faults>>

(* smd is killed and started again: the events it had read are lost. *)
InHand == ({queue[i] : i \in DOMAIN queue} \ {NoEvent})
            \cup {job[w].ev : w \in {v \in Worker : job[v] # Idle}}

Restart ==
  /\ faults < MaxFaults
  /\ faults' = faults + 1
  /\ cache' = {} /\ sync' = 0
  /\ queue' = <<>> /\ job' = [w \in Worker |-> Idle] /\ asked' = {}
  /\ reader' = "open"
  /\ doubt' = doubt \cup UNION {About(ev) : ev \in InHand}
  /\ UNCHANGED <<table, state, power, bus, switches, stores>>

-------------------------------------------------------------------------------
(* The parsers: which lookups an event asks for.  An event without a URI   *)
(* is left out: it comes to nothing, but for the parsers of Foxconn, which *)
(* then take the first node.                                               *)

UriKey(ev) == [what |-> "uri", id |-> ev.from, uri |-> ev.uri, must |-> TRUE]
ChildrenKey(b, ev) == [what |-> "children", id |-> b, uri |-> ev.uri, must |-> FALSE]
ValueKey(c, ev) == [what |-> "value", id |-> c, uri |-> ev.uri, must |-> ev.kind = "alert"]

Begin(ev) ==
  [at |-> "lookup", ev |-> ev, todo |-> <<UriKey(ev)>>, ids |-> {}, op |-> ev.op,
   snum |-> 0, round |-> 0, synced |-> FALSE, stable |-> {}]

(* The credentials of a node are needed to read its inventory once it is   *)
(* on, whatever becomes of it.                                             *)
Credentials(ev, c) ==
  IF ev.op = "on" /\ TypeOf[c] = "node" THEN <<ValueKey(c, ev)>> ELSE <<>>

(* The parsers' further lookups once the component at the URI is known.    *)
(* powerStateCMM: the children of the controllers in a module.             *)
PowerStateCMM(ev, c) == [i \in DOMAIN BmcsOf[c] |-> ChildrenKey(BmcsOf[c][i], ev)]

PowerStateNC(ev, c) == Credentials(ev, c)

ResourcePowerStateChanged(ev, c) ==
  IF TypeOf[c] = "module" THEN PowerStateCMM(ev, c) ELSE PowerStateNC(ev, c)

AlertSystemPowerOnOff(ev, c) == Credentials(ev, c)

(* This one needs them before it knows what the event is about, and gives  *)
(* up without.                                                             *)
AlertSystemPower(ev, c) == IF ev.op = "off" THEN <<>> ELSE <<ValueKey(c, ev)>>

(* GetEventActionParser *)
Further(ev, c) ==
  CASE ev.kind = "resource" -> ResourcePowerStateChanged(ev, c)
    [] ev.kind = "alert" -> AlertSystemPower(ev, c)
    [] OTHER -> AlertSystemPowerOnOff(ev, c)

(* The component that an update names.  Foxconn's parsers look the origin  *)
(* up and then name the first node: the xname they found is another        *)
(* variable, of the block.                                                 *)
Named(ev, c) == IF ev.kind = "foxconn" THEN FirstNode[ev.from] ELSE c

(* Mutant of Affected: a module that comes up brings its nodes with it. *)
AffectedAll(op, rows) == rows

(* generateNcChildIDs: only cards come up with a module, all goes down. *)
Affected(op, rows) ==
  IF op = "on" THEN {c \in rows : TypeOf[c] = "card"} ELSE rows

-------------------------------------------------------------------------------
(* The cache *)

(* Mutant of Hit: the URI alone is the key. *)
HitUri(k) ==
  CASE k.what = "uri" -> {c \in cache : UriOf[c] = k.uri}
    [] k.what = "children" -> {c \in cache : EpOf[c] = k.id}
    [] k.what = "value" -> cache \cap {k.id}

(* What the cache knows for a key. *)
Hit(k) ==
  CASE k.what = "uri" -> {c \in cache : EpOf[c] = k.id /\ UriOf[c] = k.uri}
    [] k.what = "children" -> {c \in cache : EpOf[c] = k.id}
    [] k.what = "value" -> cache \cap {k.id}

(* checkSyncCompEP looks for the endpoint's own row, and for any child of  *)
(* a controller that has none.                                             *)
InTable(id) == IF id \in Cep THEN id \in table ELSE \E c \in table : EpOf[c] = id

Goto(w, j) == job' = [job EXCEPT ![w] = j]
AtStep(w, s) == job[w] # Idle /\ job[w].at = s
KeyOf(w) == Head(job[w].todo)

(* The next lookup, the question to Redfish if the event did not say which *)
(* way the power went, or the update.                                      *)
NextOf(j) ==
  [j EXCEPT !.at = CASE j.todo # <<>> -> "lookup"
                     [] j.todo = <<>> /\ j.op = "none" -> "ask"
                     [] OTHER -> "update",
            !.snum = 0, !.round = 0, !.synced = FALSE, !.stable = {}]

Dropped(w) == Goto(w, Idle)

(* Mutant of Missed: a lookup that is not needed is made again. *)
MissedAgain(w) ==
  IF KeyOf(w).must THEN Dropped(w) ELSE Goto(w, NextOf(job[w]))

(* The lookup found nothing, or failed. *)
Missed(w) ==
  IF KeyOf(w).must THEN Dropped(w)
  ELSE Goto(w, NextOf([job[w] EXCEPT !.todo = Tail(@)]))

(* History: what is within a module that is not known itself. *)
Unplaced(w) ==
  IF KeyOf(w).what = "uri" THEN About(job[w].ev) \ Reported(job[w].ev) ELSE {}

(* History: what a list of children should have had and did not. *)
Lacking(w) ==
  IF KeyOf(w).what = "children"
  THEN Affected(job[w].op, {c \in table : EpOf[c] = KeyOf(w).id} \ Hit(KeyOf(w))) ELSE {}

Found(w) ==
  LET k == KeyOf(w)
      j == job[w]
      rest == [j EXCEPT !.todo = Tail(@)]
  IN CASE k.what = "uri" ->
            LET c == CHOOSE c \in Hit(k) : TRUE
            IN Goto(w, NextOf([rest EXCEPT !.ids = {Named(j.ev, c)},
                                           !.todo = Further(j.ev, Named(j.ev, c))]))
       [] k.what = "children" ->
            Goto(w, NextOf([rest EXCEPT !.ids = @ \cup Affected(j.op, Hit(k))]))
       [] k.what = "value" -> Goto(w, NextOf(rest))

Others == <<table, state, power, bus, reader, switches, stores>>

-------------------------------------------------------------------------------
(* A worker *)

(* History: an event that is taken while an earlier one about the same     *)
(* component is being handled may be overtaken by it.                      *)
Take(w) ==
  /\ job[w] = Idle /\ queue # <<>>
  /\ queue' = Tail(queue)
  /\ IF Head(queue) = NoEvent
     THEN UNCHANGED <<job, doubt>>
     ELSE /\ Goto(w, Begin(Head(queue)))
          /\ doubt' = doubt \cup
               (About(Head(queue)) \cap
                  UNION {About(job[v].ev) : v \in {x \in Worker : job[x] # Idle}})
  /\ UNCHANGED <<cache, sync, asked, faults, Others>>

(* The first look at the cache, and that after a sync.  If that one fails  *)
(* too and another worker made the sync, the row may have come after it    *)
(* had read the table: check once more.                                    *)
Lookup(w) ==
  /\ AtStep(w, "lookup")
  /\ IF Hit(KeyOf(w)) # {} THEN Found(w) /\ doubt' = doubt \cup Lacking(w)
     ELSE Goto(w, [job[w] EXCEPT !.at = "check", !.snum = sync]) /\ UNCHANGED doubt
  /\ UNCHANGED <<cache, sync, queue, asked, faults, Others>>

Check(w) ==
  /\ AtStep(w, "check")
  /\ IF InTable(KeyOf(w).id)
     THEN /\ Goto(w, [job[w] EXCEPT !.at = "sync",
                                    !.stable = IF job[w].round = 0 THEN table ELSE @])
          /\ UNCHANGED doubt
     ELSE Missed(w) /\ doubt' = doubt \cup Unplaced(w)
  /\ UNCHANGED <<cache, sync, queue, asked, faults, Others>>

(* TrySync: only if nobody has since snum was read. *)
TrySync(w) ==
  /\ AtStep(w, "sync")
  /\ \/ /\ sync # job[w].snum
        /\ Goto(w, [job[w] EXCEPT !.at = "again", !.synced = FALSE])
        /\ UNCHANGED <<cache, sync>>
     \/ /\ sync = job[w].snum
        /\ cache' = table /\ sync' = sync + 1
        /\ Goto(w, [job[w] EXCEPT !.at = "again", !.synced = TRUE])
  /\ UNCHANGED <<queue, asked, doubt, faults, Others>>

(* Mutant of MayRetry: one check is enough. *)
MayRetryNot(j) == FALSE

MayRetry(j) == j.round = 0 /\ ~j.synced

Again(w) ==
  /\ AtStep(w, "again")
  /\ IF Hit(KeyOf(w)) # {} THEN Found(w) /\ doubt' = doubt \cup Lacking(w)
     ELSE IF MayRetry(job[w])
     THEN /\ Goto(w, [job[w] EXCEPT !.at = "check", !.snum = sync, !.round = 1])
          /\ UNCHANGED doubt
     ELSE Missed(w) /\ doubt' = doubt \cup Unplaced(w)
  /\ UNCHANGED <<cache, sync, queue, asked, faults, Others>>

(* The database fails the lookup, three times in a row for errors that may *)
(* pass; or the endpoint was found, and the database or the secure store   *)
(* has no credentials for it (GetCompEPInfo).                              *)
NoCredentials(w) ==
  /\ AtStep(w, "lookup") \/ AtStep(w, "again")
  /\ KeyOf(w).what = "value" /\ Hit(KeyOf(w)) # {}

LookupFails(w) ==
  /\ faults < MaxFaults
  /\ AtStep(w, "check") \/ AtStep(w, "sync") \/ NoCredentials(w)
  /\ faults' = faults + 1
  /\ Missed(w)
  /\ doubt' = doubt \cup About(job[w].ev)
  /\ UNCHANGED <<cache, sync, queue, asked, Others>>

(* getCompEPState: Redfish says how it is now. *)
Ask(w) ==
  /\ AtStep(w, "ask")
  /\ LET on == \A c \in job[w].ids : power[c]
     IN Goto(w, [job[w] EXCEPT !.at = "update", !.op = IF on THEN "on" ELSE "off"])
  /\ UNCHANGED <<cache, sync, queue, asked, doubt, faults, Others>>

AskFails(w) ==
  /\ faults < MaxFaults
  /\ AtStep(w, "ask")
  /\ faults' = faults + 1
  /\ Dropped(w)
  /\ doubt' = doubt \cup About(job[w].ev)
  /\ UNCHANGED <<cache, sync, queue, asked, Others>>

(* doCompUpdate, in module CompState in detail: rows that may not make the *)
(* transition are left out.                                                *)
StartStates(op) == IF op = "on" THEN {"On", "Off"} ELSE {"On", "Off", "Ready"}

NewState(op) == IF op = "on" THEN "On" ELSE "Off"

Update(w) ==
  LET j == job[w]
      fit == {c \in j.ids : state[c] \in StartStates(j.op)}
  IN /\ AtStep(w, "update")
     /\ state' = [c \in Cep |-> IF c \in fit THEN NewState(j.op) ELSE state[c]]
     /\ asked' = IF j.ev.kind = "resource" /\ j.op = "on"
                 THEN asked \cup (j.ids \cap Endpoint) ELSE asked
     /\ Goto(w, Idle)
     /\ UNCHANGED <<table, cache, sync, power, bus, reader, queue, doubt,
                    switches, stores, faults>>

(* The error is logged and the event forgotten. *)
UpdateFails(w) ==
  /\ faults < MaxFaults
  /\ AtStep(w, "update")
  /\ faults' = faults + 1
  /\ Dropped(w)
  /\ doubt' = doubt \cup About(job[w].ev)
  /\ UNCHANGED <<cache, sync, queue, asked, Others>>

Work(w) == \/ Take(w) \/ Lookup(w) \/ Check(w) \/ TrySync(w) \/ Again(w)
           \/ Ask(w) \/ Update(w)
Fails(w) == LookupFails(w) \/ AskFails(w) \/ UpdateFails(w)

RfNext ==
  \/ \E c \in Cep : Switch(c) \/ Boots(c)
  \/ \E e \in Endpoint : Delete(e) \/ \E rows \in SUBSET Cep : Store(e, rows)
  \/ ReadNext \/ Signal \/ Spin \/ Restart
  \/ \E w \in Worker : Work(w) \/ Fails(w)

(* The scheduler runs the monitor and every worker that has something to do. *)
RfFairness == WF_rvars(ReadNext) /\ \A w \in Worker : WF_rvars(Work(w))

RfSpec == RfInit /\ [][RfNext]_rvars /\ RfFairness

-------------------------------------------------------------------------------
(* Properties *)

Ends(w) == job[w] # Idle /\ job'[w] = Idle

(* A lookup by URI fails, with no call having failed, only if it was of a   *)
(* row that was not in the table all the time since the controller was     *)
(* found there: a sync that another worker began too early hides no row    *)
(* (getIDForURI with checkSyncCompEP and TrySync).                         *)
LookupFindsPresent ==
  [][\A w \in Worker :
       AtStep(w, "again") /\ Ends(w) /\ faults' = faults /\ KeyOf(w).what = "uri" =>
         \A c \in job[w].stable : EpOf[c] # KeyOf(w).id \/ UriOf[c] # KeyOf(w).uri]_rvars

(* An update names the component whose power the event is about, and those *)
(* within it: doHandleRFEvent changes no other, whatever the cache holds   *)
(* and whichever rows come and go meanwhile.                               *)
OnlyItsOwn ==
  [][\A w \in Worker : AtStep(w, "update") /\ Ends(w) =>
       \A c \in Cep : state'[c] # state[c] => c \in About(job[w].ev)]_rvars

(* When every event has been handled, and none was lost or overtaken, was  *)
(* of a module that was not discovered or was answered from a list of      *)
(* children that lacked a row, the state of a discovered component says    *)
(* whether it has power.                                                   *)
Quiet == bus = <<>> /\ queue = <<>> /\ \A w \in Worker : job[w] = Idle

StateFollowsPower ==
  Quiet => \A c \in table \ doubt : (state[c] # "Off") = power[c]

(* The handling of an event ends, also of one that never finds its row. *)
JobsEnd == \A w \in Worker : []<>(job[w] = Idle)

(* The monitor reconnects when its connection is lost (the comment of      *)
(* StartRFEventMonitor).                                                   *)
MonitorReconnects == [](reader = "ended" => <>(reader = "open"))

(* A module that goes down takes all of its discovered components with it  *)
(* (the comment of generateNcChildIDs).                                    *)
OffReachesAll ==
  [][\A w \in Worker : AtStep(w, "update") /\ Ends(w) /\ faults' = faults
       /\ job[w].op = "off" =>
       \A m \in job[w].ids : TypeOf[m] = "module" => Within(m) \cap table \subseteq job[w].ids
    ]_rvars
=============================================================================
