----------------------------- MODULE Discovery -----------------------------
(***************************************************************************)
(* Who discovers a RedfishEndpoint, and when.  Requests and events start   *)
(* discoveries as goroutines of one of several HSM instances; the status   *)
(* DiscoveryStarted in the endpoint's row keeps others from starting one;  *)
(* DiscoveryUpdater refreshes the row's time stamp for the discoveries in  *)
(* its instance's discMap; DiscoverySync takes over those whose time stamp *)
(* is 30 minutes old.  Instances crash.                                    *)
(*                                                                         *)
(* A step is a statement or transaction of the database, or the use of     *)
(* discMap under its lock.  What a discovery finds and stores under the    *)
(* endpoint is the subject of module Inventory.                            *)
(***************************************************************************)
EXTENDS Naturals, FiniteSets

CONSTANTS
  Endpoint,     \* xnames of RedfishEndpoints
  Instance,     \* HSM instances that share the database
  Front,        \* those that requests and events come to (bound)
  Named,        \* endpoints that requests on a single one name (bound)
  Settings,     \* what POST and PUT say of enabled and redisc
  Patches,      \* what PATCH says of them: {} for a field that is not given
  NoRow,        \* no RedfishEndpoint of that name
  MaxJobs,      \* goroutines at a time (bound)
  MaxRequests,  \* requests and events that come (bound)
  MaxFaults     \* crashes and database errors (bound)

Status == {"NotYetQueried", "DiscoveryStarted", "DiscoverOK", "Failed", "StoreFailed"}

(* Time is counted in steps of ten minutes.                                *)
Orphaned == 3
Row == [enabled : BOOLEAN, redisc : BOOLEAN, status : Status, age : 0 .. Orphaned]

Setting == [enabled : BOOLEAN, redisc : BOOLEAN]
Patch == [enabled : SUBSET BOOLEAN, redisc : SUBSET BOOLEAN]
NoPatch == [enabled |-> {}, redisc |-> {}]
ASSUME DiscoveryAssumption ==
  /\ Front \subseteq Instance /\ Named \subseteq Endpoint
  /\ Settings \subseteq Setting /\ Patches \subseteq Patch
  /\ Instance # {} /\ NoRow \notin Row
  /\ MaxJobs \in Nat /\ MaxRequests \in Nat /\ MaxFaults \in Nat

Slot == 1 .. MaxJobs
NoRead == [e \in {} |-> NoRow]
NoJob == [pc |-> "none", on |-> CHOOSE i \in Instance : TRUE, ids |-> {},
          force |-> FALSE, read |-> NoRead, patch |-> NoPatch]

VARIABLES
  rows,      \* table rf_endpoints
  job,       \* the goroutines: on which instance, at which statement, on what
  discMap,   \* per instance: how many of its goroutines discover an endpoint
  updater,   \* DiscoveryUpdater of an instance: what it read, under discMapLock
  due,       \* steps of time since DiscoveryUpdater ran; Failing: it cannot
  up,        \* the instances that run
  requests, faults,
  abandoned  \* endpoints whose discovery was lost to a crash or an error

vars == <<rows, job, discMap, updater, due, up, requests, faults, abandoned>>

-------------------------------------------------------------------------------
(* DiscoveryUpdater runs every 20 minutes. *)
UpdateDueLate == 3       \* mutant: every 30 minutes
UpdateDue == 2
Failing == 4

Exists(e) == rows[e] # NoRow

(* What is used of a row after it has been read: not its age, and its      *)
(* status only to decide who is discovered.                                *)
Read(e) == [rows[e] EXCEPT !.age = 0]
Content(row) == [row EXCEPT !.age = 0, !.status = "NotYetQueried"]

Started(e) == Exists(e) /\ rows[e].status = "DiscoveryStarted"

(* The statements between the marking of an endpoint and the result. *)
Active == {"add", "query", "okremove", "failremove", "failed", "store", "storefailed"}
Discovers(s, e) == job[s].pc \in Active /\ e \in job[s].ids

Free == {s \in Slot : job[s].pc = "none"}
Running(i) == {s \in Slot : job[s].pc # "none" /\ job[s].on = i}

TypeOK ==
  /\ rows \in [Endpoint -> Row \cup {NoRow}]
  /\ \A s \in Slot :
       /\ job[s].pc \in Active \cup {"none", "patch", "read", "mark"}
       /\ job[s].on \in Instance /\ job[s].ids \subseteq Endpoint /\ job[s].force \in BOOLEAN
       /\ \A e \in DOMAIN job[s].read : job[s].read[e] \in Row
       /\ job[s].patch \in Patch
  /\ discMap \in [Instance -> [Endpoint -> Nat]]
  /\ \A i \in Instance, e \in Endpoint : discMap[i][e] <= Cardinality(Running(i))
  /\ \A i \in Instance : \A e \in DOMAIN updater[i] : updater[i][e] \in Row
  /\ due \in [Instance -> 0 .. Failing]
  /\ up \subseteq Instance
  /\ requests \in 0 .. MaxRequests /\ faults \in 0 .. MaxFaults
  /\ abandoned \subseteq Endpoint

(* All endpoints have been registered with the same settings, or none.     *)
New(s) == [enabled |-> s.enabled, redisc |-> s.redisc, status |-> "NotYetQueried", age |-> 0]
Init ==
  /\ \E row \in {NoRow} \cup {New(s) : s \in Settings} : rows = [e \in Endpoint |-> row]
  /\ job = [s \in Slot |-> NoJob]
  /\ discMap = [i \in Instance |-> [e \in Endpoint |-> 0]]
  /\ updater = [i \in Instance |-> NoRead]
  /\ due = [i \in Instance |-> 0]
  /\ up = Instance
  /\ requests = 0 /\ faults = 0
  /\ abandoned = {}

-------------------------------------------------------------------------------
(* Instance i starts the goroutines of set new, in the lowest free slots.  *)
Lowest(S) == {T \in SUBSET S : \A s \in T, t \in S \ T : s < t}
Onto(S, new) == {f \in [S -> new] : \A n \in new : \E s \in S : f[s] = n}

Spawn(i, free, new) ==
  \E slots \in Lowest(free) :
    /\ Cardinality(slots) = Cardinality(new)
    /\ \E place \in Onto(slots, new) :
         job' = [s \in Slot |-> IF s \in slots THEN [place[s] EXCEPT !.on = i]
                               ELSE IF s \in free THEN NoJob ELSE job[s]]

Starter(ids, force) == [NoJob EXCEPT !.pc = "read", !.ids = ids, !.force = force]

(* discoverFromEndpoint, for an endpoint as the caller has it: only if it  *)
(* is enabled and to be rediscovered.                                      *)
DiscoverFromEndpoint(e, ep, force) ==
  IF ep.redisc /\ ep.enabled THEN {Starter({e}, force)} ELSE {}

(* discoverFromEndpoints: update is false for who asks for a discovery.    *)
DiscoverFromEndpoints(ids, ep, update, force) ==
  LET filtered == {e \in ids : (update => ep[e].redisc) /\ ep[e].enabled}
  IN IF filtered = {} THEN {} ELSE {Starter(filtered, force)}

(* A request or an event is handled by instance i. *)
Request(i) ==
  /\ i \in up \cap Front /\ requests < MaxRequests
  /\ requests' = requests + 1
  /\ UNCHANGED <<discMap, updater, due, up, faults>>

(* InsertRFEndpoints: all of them or none. *)
DoRedfishEndpointsPost(i, ids, s) ==
  /\ Request(i)
  /\ \A e \in ids : ~Exists(e)
  /\ rows' = [e \in Endpoint |-> IF e \in ids THEN New(s) ELSE rows[e]]
  /\ Spawn(i, Free, DiscoverFromEndpoints(ids, rows', TRUE, FALSE))
  /\ UNCHANGED abandoned

(* UpdateRFEndpointNoDiscInfo: the status stays. *)
DoRedfishEndpointPut(i, e, s) ==
  /\ Request(i)
  /\ Exists(e)
  /\ rows' = [rows EXCEPT ![e].enabled = s.enabled, ![e].redisc = s.redisc]
  /\ Spawn(i, Free, DiscoverFromEndpoint(e, rows'[e], FALSE))
  /\ UNCHANGED abandoned

Given(field, old) == IF field = {} THEN old ELSE CHOOSE b \in field : TRUE
Patched(row, p) == [row EXCEPT !.enabled = Given(p.enabled, @), !.redisc = Given(p.redisc, @)]

(* PatchRFEndpointNoDiscInfo: reads the row, and updates it if there is    *)
(* anything to change; UpdatePatched is the second statement.              *)
DoRedfishEndpointPatch(i, e, p) ==
  /\ Request(i)
  /\ Exists(e)
  /\ IF Patched(rows[e], p) = rows[e]
     THEN Spawn(i, Free, DiscoverFromEndpoint(e, rows[e], FALSE))
     ELSE Spawn(i, Free, {[NoJob EXCEPT !.pc = "patch", !.ids = {e}, !.patch = p,
                                        !.read = [f \in {e} |-> Content(rows[e])]]})
  /\ UNCHANGED <<rows, abandoned>>

(* DeleteRFEndpointByIDSetEmpty, DeleteRFEndpointsAllSetEmpty *)
Deleted(ids) ==
  /\ rows' = [e \in Endpoint |-> IF e \in ids THEN NoRow ELSE rows[e]]
  /\ abandoned' = abandoned \ ids
  /\ UNCHANGED job

DoRedfishEndpointDelete(i, e) == Request(i) /\ Exists(e) /\ Deleted({e})
DoRedfishEndpointsDeleteAll(i) ==
  Request(i) /\ (\E e \in Endpoint : Exists(e)) /\ Deleted(Endpoint)

(* The endpoints named, or all there are. *)
DoInventoryDiscoverPost(i, ids, force) ==
  /\ Request(i)
  /\ \A e \in ids : Exists(e)
  /\ Spawn(i, Free, DiscoverFromEndpoints(ids, rows, FALSE, force))
  /\ UNCHANGED <<rows, abandoned>>

(* powerStateCMM: an event says that power is on, discover the controller. *)
PowerStateCMM(i, e) ==
  /\ Request(i)
  /\ Exists(e)
  /\ Spawn(i, Free, DiscoverFromEndpoint(e, rows[e], FALSE))
  /\ UNCHANGED <<rows, abandoned>>

-------------------------------------------------------------------------------
(* A goroutine comes to statement pc, or ends. *)
Goto(s, pc) == job' = [job EXCEPT ![s] = IF pc = "none" THEN NoJob ELSE [@ EXCEPT !.pc = pc]]
Local == UNCHANGED <<updater, due, up, requests>>

UpdatePatched(s) ==
  /\ job[s].pc = "patch"
  /\ \A e \in job[s].ids :
       LET ep == Patched(job[s].read[e], job[s].patch)
       IN IF Exists(e)
          THEN /\ rows' = [rows EXCEPT ![e].enabled = ep.enabled, ![e].redisc = ep.redisc]
               /\ Spawn(job[s].on, Free \cup {s}, DiscoverFromEndpoint(e, rows'[e], FALSE))
          ELSE /\ Goto(s, "none") /\ UNCHANGED rows
  /\ UNCHANGED <<discMap, updater, due, up, requests, faults, abandoned>>

(* UpdateRFEndpointForDiscover: first it reads the rows, without locks.    *)
(* If one of them is gone none is discovered.                              *)
AllFound(ids) == \A e \in ids : Exists(e)

ReadForDiscover(s) ==
  /\ job[s].pc = "read"
  /\ job' = [job EXCEPT ![s] = IF AllFound(job[s].ids)
                               THEN [@ EXCEPT !.pc = "mark", !.read = [e \in job[s].ids |-> Read(e)]]
                               ELSE NoJob]
  /\ UNCHANGED <<rows, discMap, faults, abandoned>> /\ Local

(* What it then writes: whole rows, as they were read, with the status and *)
(* the time of this attempt.                                               *)
Write(e, read, status) ==
  IF Exists(e) THEN [read EXCEPT !.status = status, !.age = 0] ELSE NoRow
Marked(ids, read) ==
  [e \in Endpoint |-> IF e \in ids THEN Write(e, read[e], "DiscoveryStarted") ELSE rows[e]]

(* The endpoints that are not being discovered, unless forced. *)
ForDiscover(ids, read, force) ==
  {e \in ids : force \/ read[e].status # "DiscoveryStarted"}

MarkForDiscover(s) ==
  /\ job[s].pc = "mark"
  /\ LET ids == ForDiscover(job[s].ids, job[s].read, job[s].force)
     IN /\ rows' = Marked(ids, job[s].read)
        /\ Spawn(job[s].on, Free \cup {s},
                 {[NoJob EXCEPT !.pc = "add", !.ids = {e},
                                !.read = [f \in {e} |-> Content(job[s].read[e])]] : e \in ids})
        /\ abandoned' = abandoned \ ids
  /\ UNCHANGED <<discMap, updater, due, up, requests, faults>>

(* Mutant of MapUnlocked: discMap is used without its lock. *)
MapUnlockedNot(i) == TRUE

(* discMapLock is free: DiscoveryUpdater keeps it while it uses the database. *)
MapUnlocked(i) == updater[i] = NoRead

DiscoveryMapAdd(s) ==
  /\ job[s].pc = "add" /\ MapUnlocked(job[s].on)
  /\ \A e \in job[s].ids : discMap' = [discMap EXCEPT ![job[s].on][e] = @ + 1]
  /\ Goto(s, "query")
  /\ UNCHANGED <<rows, faults, abandoned>> /\ Local

(* GetRootInfo: asks Redfish, unless the endpoint is not enabled. *)
GetRootInfo(s) ==
  /\ job[s].pc = "query"
  /\ \/ Goto(s, "failremove")
     \/ (\A e \in job[s].ids : job[s].read[e].enabled) /\ Goto(s, "okremove")
  /\ UNCHANGED <<rows, discMap, faults, abandoned>> /\ Local

(* Mutant of OneLess: the last of an endpoint's discoveries leaves it in.  *)
OneLessKept(n) == IF n <= 1 THEN n ELSE n - 1
OneLess(n) == IF n <= 1 THEN 0 ELSE n - 1

(* updateFromRfEndpoint: in each case the endpoint leaves discMap first. *)
DiscoveryMapRemove(s) ==
  /\ job[s].pc \in {"okremove", "failremove"} /\ MapUnlocked(job[s].on)
  /\ \A e \in job[s].ids :
       discMap' = [discMap EXCEPT ![job[s].on][e] = OneLess(@)]
  /\ Goto(s, IF job[s].pc = "okremove" THEN "store" ELSE "failed")
  /\ UNCHANGED <<rows, faults, abandoned>> /\ Local

(* The end of a discovery: the whole row as it was read when it began,     *)
(* with the result.                                                        *)
Finish(s, status) ==
  /\ rows' = [e \in Endpoint |-> IF e \in job[s].ids
                                 THEN Write(e, job[s].read[e], status) ELSE rows[e]]
  /\ abandoned' = abandoned \ job[s].ids
  /\ Goto(s, "none")
  /\ UNCHANGED <<discMap, faults>> /\ Local

(* UpdateRFEndpoint after a failure; the database may fail too. *)
UpdateRFEndpoint(s) ==
  /\ job[s].pc \in {"failed", "storefailed"}
  /\ \/ Finish(s, IF job[s].pc = "failed" THEN "Failed" ELSE "StoreFailed")
     \/ /\ faults < MaxFaults /\ faults' = faults + 1
        /\ abandoned' = abandoned \cup job[s].ids
        /\ Goto(s, "none")
        /\ UNCHANGED <<rows, discMap>> /\ Local

(* UpdateAllForRFEndpoint: one transaction.  Without the endpoint's row    *)
(* it fails.  If no components could be made (UnexpectedErrorPreStore),    *)
(* it is called with none, and takes the length of what is nil: the        *)
(* process ends, which is Crash at this point.                             *)
UpdateAllForRFEndpoint(s) ==
  /\ job[s].pc = "store"
  /\ \/ (\A e \in job[s].ids : Exists(e)) /\ Finish(s, "DiscoverOK")
     \/ /\ \E e \in job[s].ids : ~Exists(e)
        /\ Goto(s, "storefailed")
        /\ UNCHANGED <<rows, discMap, faults, abandoned>> /\ Local
     \/ /\ faults < MaxFaults /\ faults' = faults + 1
        /\ Goto(s, "storefailed")
        /\ UNCHANGED <<rows, discMap, abandoned>> /\ Local

JobStep(s) ==
  \/ UpdatePatched(s) \/ ReadForDiscover(s) \/ MarkForDiscover(s)
  \/ DiscoveryMapAdd(s) \/ GetRootInfo(s) \/ DiscoveryMapRemove(s)
  \/ UpdateRFEndpoint(s) \/ UpdateAllForRFEndpoint(s)

-------------------------------------------------------------------------------
InMap(i) == {e \in Endpoint : discMap[i][e] > 0}

(* DiscoveryUpdater: takes discMapLock and marks, forced, all endpoints of *)
(* discMap again.  It fails if one is gone, and tries again.               *)
DiscoveryUpdaterRead(i) ==
  /\ i \in up /\ due[i] >= UpdateDue /\ MapUnlocked(i)
  /\ IF InMap(i) = {} THEN due' = [due EXCEPT ![i] = 0] /\ UNCHANGED updater
     ELSE IF AllFound(InMap(i))
     THEN updater' = [updater EXCEPT ![i] = [e \in InMap(i) |-> Content(rows[e])]] /\ UNCHANGED due
     ELSE due' = [due EXCEPT ![i] = Failing] /\ UNCHANGED updater
  /\ UNCHANGED <<rows, job, discMap, up, requests, faults, abandoned>>

DiscoveryUpdaterMark(i) ==
  /\ updater[i] # NoRead
  /\ LET ids == ForDiscover(DOMAIN updater[i], updater[i], TRUE)
     IN rows' = Marked(ids, updater[i])
  /\ updater' = [updater EXCEPT ![i] = NoRead]
  /\ due' = [due EXCEPT ![i] = 0]
  /\ UNCHANGED <<job, discMap, up, requests, faults, abandoned>>

(* Mutant of SyncForce: orphans are discovered as others are. *)
SyncForceNot == FALSE
SyncForce == TRUE

(* DiscoverySync: every ten minutes, what has been started and not been    *)
(* refreshed for 30 minutes.                                               *)
Orphans == {e \in Endpoint : Started(e) /\ rows[e].age >= Orphaned}
DiscoverySync(i) ==
  /\ i \in up
  /\ \A s \in Running(i) : job[s].pc \notin {"read", "mark"}
  /\ LET new == UNION {DiscoverFromEndpoint(e, rows[e], SyncForce) : e \in Orphans}
     IN new # {} /\ Spawn(i, Free, new)
  /\ UNCHANGED <<rows, discMap, updater, due, up, requests, faults, abandoned>>

(* Ten minutes pass.  Of what an instance does only Redfish's answers take *)
(* as long, and DiscoveryUpdater runs when it is due.                      *)
Tick ==
  /\ \A s \in Slot : job[s].pc \in {"none", "query"}
  /\ \A i \in up : due[i] # UpdateDue /\ updater[i] = NoRead
  /\ rows' = [e \in Endpoint |->
                IF Started(e) /\ rows[e].age < Orphaned
                THEN [rows[e] EXCEPT !.age = @ + 1] ELSE rows[e]]
  /\ due' = [i \in Instance |-> IF i \in up /\ due[i] < UpdateDue THEN due[i] + 1 ELSE due[i]]
  /\ UNCHANGED <<job, discMap, updater, up, requests, faults, abandoned>>

Crash(i) ==
  /\ i \in up /\ faults < MaxFaults /\ faults' = faults + 1
  /\ up' = up \ {i}
  /\ abandoned' = abandoned \cup {e \in Endpoint : \E s \in Running(i) : Discovers(s, e)}
  /\ job' = [s \in Slot |-> IF s \in Running(i) THEN NoJob ELSE job[s]]
  /\ discMap' = [discMap EXCEPT ![i] = [e \in Endpoint |-> 0]]
  /\ updater' = [updater EXCEPT ![i] = NoRead]
  /\ due' = [due EXCEPT ![i] = 0]
  /\ UNCHANGED <<rows, requests>>

Restart(i) ==
  /\ i \notin up /\ up' = up \cup {i}
  /\ UNCHANGED <<rows, job, discMap, updater, due, requests, faults, abandoned>>

RequestStep(i) ==
  \/ \E ids \in (SUBSET Endpoint) \ {{}}, s \in Settings : DoRedfishEndpointsPost(i, ids, s)
  \/ \E e \in Named, s \in Settings : DoRedfishEndpointPut(i, e, s)
  \/ \E e \in Named, p \in Patches : DoRedfishEndpointPatch(i, e, p)
  \/ \E e \in Named : DoRedfishEndpointDelete(i, e) \/ PowerStateCMM(i, e)
  \/ DoRedfishEndpointsDeleteAll(i)
  \/ \E ids \in (SUBSET Endpoint) \ {{}}, force \in BOOLEAN :
       DoInventoryDiscoverPost(i, ids, force)

ThreadStep(i) == DiscoveryUpdaterRead(i) \/ DiscoveryUpdaterMark(i)

Next ==
  \/ \E i \in Instance : RequestStep(i) \/ ThreadStep(i) \/ DiscoverySync(i)
                         \/ Crash(i) \/ Restart(i)
  \/ \E s \in Slot : JobStep(s)
  \/ Tick

Spec == Init /\ [][Next]_vars

(* Goroutines and threads go on, Redfish answers or times out, time passes *)
(* and a crashed instance is started again.                                *)
FairSpec ==
  /\ Spec
  /\ WF_vars(Tick \/ \E i \in Instance : ThreadStep(i) \/ Restart(i))
  /\ WF_vars(\E s \in Slot : JobStep(s))
  /\ WF_vars(\E i \in Instance : DiscoverySync(i))

-------------------------------------------------------------------------------
(* An endpoint is DiscoveryStarted only while a discovery of it runs or    *)
(* after one was lost to a crash or an error of the database: a discovery  *)
(* leaves discMap, under the lock that DiscoveryUpdater holds across its   *)
(* two statements, before it writes its result, so that no late refresh    *)
(* turns a result back into a start that nobody works on.                  *)
StartedHasJob ==
  \A e \in Endpoint : Started(e) => e \in abandoned \/ \E s \in Slot : Discovers(s, e)

(* A discovery that waits for Redfish for however long is never old enough *)
(* for another instance to take it for an orphan, as long as its own       *)
(* instance's DiscoveryUpdater gets through: it does not while any         *)
(* endpoint of that instance's discMap has been deleted.                   *)
RunningIsFresh ==
  \A s \in Slot : job[s].pc = "query" /\ due[job[s].on] # Failing =>
    \A e \in job[s].ids : e \notin Orphans

(* A discovery that is lost is done again by some instance, if the         *)
(* endpoint is enabled and to be rediscovered: it does not stay            *)
(* DiscoveryStarted, which would keep unforced discoveries away for ever.  *)
OrphansTakenOver ==
  \A e \in Endpoint : []<>~(Started(e) /\ rows[e].enabled /\ rows[e].redisc)

(* What a user wrote with PUT or PATCH is changed by users only.  The      *)
(* comment of UpdateAllForRFEndpoint promises an update of the             *)
(* discovery-writable fields; it writes the whole row as it was read when  *)
(* the discovery began.                                                    *)
UserFields(r, e) == [enabled |-> r[e].enabled, redisc |-> r[e].redisc]
UserFieldsKept ==
  [][(\E s \in Slot : UpdateAllForRFEndpoint(s)) => \A e \in Endpoint :
       Exists(e) /\ rows'[e] # NoRow => UserFields(rows', e) = UserFields(rows, e)]_vars
=============================================================================
