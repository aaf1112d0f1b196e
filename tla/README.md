# The Hardware State Manager in TLA+

Models, checks and proofs about `hms-smd`, the Hardware State Manager (HSM)
service: a REST service, run as several instances over one PostgreSQL database,
that keeps the state of every component of a machine, reserves components for
other services, discovers hardware through Redfish and notifies subscribers of
state changes. Everything interesting happens between goroutines, instances and
transactions, and that is what is modelled.

## 1. Inventory

| Component | State | Operations | Hard part | What makes it correct |
|---|---|---|---|---|
| Lock service (`hsm/v2/locks`; `hmsds-postgres.go` 4150-4830, `pkg/sm/complocks.go`) | `components.locked`, `reservation_disabled`; `reservations` with deputy and reservation keys and expirations | create, remove, release, renew, check; lock, unlock, disable, repair; status | several statements per transaction at read committed; row locks taken by some operations and not by others; foreign key cascade | one holder per component; checks hold until commit; grants agree with locks; terms bounded; everything ends and expired rows go |
| Cleanup thread (`smd.go` 337) | none | delete expired rows every 30 s | races renewals | expired reservations go |
| Client library (`pkg/service-reservations`) | `reservedMap`, a renewal goroutine | Aquire, FlexAquire, Release, FlexRelease, Reacquire, Check, Status | stale answers, lost answers and repeated requests, restarts; unlocked reads | `Check()` may be trusted; local expiration is never too late; what is held is renewed |
| State changes (`state-change.go`) | `components` | state data, flag, enabled, software status, role, NID updates; single and bulk | read without locks, then write; follow-up after the commit | legal transitions only; what is changed is told; nothing else is told |
| Polling jobs (`state-change.go`, `smd.go` 355) | `job_sync`, `job_state_rf_poll`, `jobList`, `srfpJobList`, channels | start, cancel, keep alive, take over orphans | three kinds of goroutines cancel; unbuffered channels; crashes; several instances | nodes in Standby are polled, others are not; one owner; no goroutine waits forever |
| Component table (`hmsds-postgres.go` 553-1100) | `components` | upsert, delete, bulk updates, `SetChildCompStates...` | as above | children hold still while an endpoint is removed |
| Connection pool (`hmsds-postgres.go` 252, 316) | 70 connections | Begin, Commit, Rollback | an error return without its rollback | the pool does not run dry |
| SCN subscriptions and delivery (`smd.go` 203-335, `job-types.go`, `smd-api.go` 3520-4080) | `scn_subscriptions`, the cached list and map with reference counts, a worker pool | post, put, patch, delete, refresh, send | cache against table of other instances; map read without its lock; order of deliveries | a subscriber is told what it subscribed to |
| Discovery (`discover.go`, `smd.go` 404-440) | `DiscInfo` of endpoints, `discMap` | start, update, orphan take-over | two instances, crashes in the middle, forced rediscovery | one discovery at a time; every one ends with a final status |
| Redfish events (`rfevent.go`) | worker pool | event to component update | late, repeated, reordered events | states follow the last event |
| RedfishEndpoints, ComponentEndpoints, ServiceEndpoints | tables with foreign keys | insert, update, patch, delete | cascades, children's states | no orphaned child is left in a live state |
| Groups and partitions | groups, members, exclusivity | create, add, remove, delete | two requests on one member | exclusive groups and partitions are disjoint |
| Hardware inventory and history | location, FRU, history tables | insert, delete, history from last event | history is derived from a read | no event is lost or doubled |
| Ethernet interfaces | interfaces, their addresses | insert, patch, delete | concurrent patches of one list | no address is lost |
| Node maps, power maps, defaults | single tables | single statements | none to speak of | - |
| Redfish models (`pkg/redfish`) | the tree of one controller, for the time of a discovery | phases 1 and 2 of each resource, rows made of the result | failures deep in the tree; ids from ordinals and serial numbers; the order of Go's maps | a good discovery has stored what was listed, each under an id of its own |
| Queries (`query-shared*.go`, `hmsds-api-filters.go`, the GET handlers) | none | filters to conditions, joins, counts | two generations of builders; pieces of SQL glued by AND and OR | the rows are those the filter means; an update tells of the rows it writes |
| Routes, SLS/HBTD clients, loaders | none or I/O | - | formatting | - |

How they interact: requests, Redfish events and discovery all end in
`doCompUpdate` or `UpsertComponents`, which change the components table and then
queue a notification (SCN) and start or cancel polling jobs. Pollers call
`doCompUpdate` themselves. The lock service shares the components table (row
locks, cascade on delete) with all of them, and all of them share the pool of
connections. Instances share nothing but the database. Clients of the lock
service see it through HTTP only.

`PROJECT.json` lists the hazards of this code, each at the line where it bites,
with the properties that would catch it. It is limited to those a property of a
run is about and three that have none and say why; section 5 has those that the code
does not meet.

## 2. Modules

| Module | What it is |
|---|---|
| `ReservationTable` | the SQL statements on `reservations`, as functions from the table to the table |
| `ReservationLease` | what reservations promise: one holder per component, keys never come back |
| `CompLocks` | the lock service, one action per SQL statement; EXTENDS `ReservationTable`, implements `ReservationLease` |
| `CompLocksProofs` | theorems about `CompLocks` |
| `ReservationClient` | the client library against the lock service; EXTENDS `ReservationTable` |
| `ReservationClientProofs` | theorems about it, for any number of goroutines |
| `StatePolling` | node states and polling jobs on several instances |
| `StatePollingProofs` | theorems about it, for any number of instances and jobs |
| `CompState` | the requests that update components, and the pool of connections |
| `CompStateProofs` | theorems about `CompState` |
| `Subscriptions` | SCN subscriptions, their copies on several instances, and delivery |
| `Groups` | groups, partitions and memberships, statement by statement |
| `GroupsProofs` | theorems about `Groups` |
| `Discovery` | who discovers an endpoint and when |
| `DiscoveryProofs` | theorems about `Discovery`, and about `RedfishTree` |
| `Inventory` | what a discovery or a post stores, and the history of the hardware |
| `EthInterfaces` | Ethernet interfaces and their lists of addresses |
| `InventoryProofs` | theorems about `Inventory` and `EthInterfaces`, composed as in `MCInventory`, and about the queries |
| `RFEvents` | Redfish events: monitor, workers, cache, state updates |
| `RFEventsProofs` | theorems about `RFEvents`, and about `Subscriptions` |
| `ComponentQueries` | filters and the builders of the queries about components |
| `InventoryQueries` | those about hardware, history, endpoints and interfaces, the requests that read and what their answers mean; EXTENDS `ComponentQueries` |
| `RedfishTree` | what a discovery makes of the resources a controller serves |
| `MC...` | small systems, requests and reports for the runs; `MCInventory` puts `Inventory` and `EthInterfaces` into one run, `MCQueries` the queries and, through `MCReports`, `RedfishTree` |

### CompLocks

`present`, `locked`, `disabled` are the columns of the components table, `table`
the committed reservations, `now` the database's clock in minutes. A handler `h`
runs one transaction: `pc[h]` is its next statement, `target[h]` the ids that
statement is about, `newRows[h]` and `delRows[h]` what it has written and not
committed, and `rowLock[c]` who holds the row of `c` by `SELECT ... FOR UPDATE`.
`InsertCompReservations` is `CreateSelect`, `CreateInsert`, `CreateCommit`;
`UpdateCompLocksV2` is `LockSelect`, `LockCheck`, `LockUpdate` for lock and
unlock and `DisableSelect`, `DisableDelete`, `DisableUpdate` for disable and
repair; `DeleteCompReservationsForce` is `RemoveSelect`, `RemoveDelete`. Calls of
one statement (`Release`, `Renew`, the cleanup, component creation and deletion)
are one action. `DeadlockAbort` is PostgreSQL's own, `Crash` ends a transaction
at any point.

Abstractions: a statement takes all its row locks at once; the last write and the
commit of a transaction are one step when nothing lies between them that others
could see; a request that is refused before it changes anything is a stuttering
step; the ids of a request are the set its filter matches; deputy and reservation
key are made together and are one key; time is in minutes as in the requests.

### ReservationClient

`reservedMap` is the library's, `table` the server's, `saved` what an application
keeps of `Status()` for `Reacquire`. A call is sent, served and applied in three
steps, so an answer can be late; it can be lost, and then the request is served
again (`Retry`) or given up. Times are the time left, so an expiration in a late
answer grows old with it. `forfeit` remembers keys that were given up on purpose
(released or removed by force): only for those may the client be wrong. A request
carries keys and no expirations. `call.left` is what is left of the 40 second context of a
call: time does not pass while a call has none left, so every call is over (`GiveUp`, or its
answer is applied) before a term is, which is a minute at least. That matters: with
calls of any length `CheckIsSound` fails, because the answer to a create may come
when the reservation has expired and gone already, and the map counts the term from then.
Retries are not counted; `call.left` bounds them.

### StatePolling

A job is a row and two goroutines (`Poller(j)`, `KeepAlive(j)`); `proc` says where
every goroutine is, `cancelSends[j]` how many goroutines are blocked sending on
the job's unbuffered `cancelChan`, `srfpJobList` which job an instance lists for a
node, `expired` what `JobSync` still has of the answer of `GetJobs`. The primary
key of `job_state_rf_poll` is the component, so a second row for a node cannot be
inserted (`StartFail`). What is done under `jobLock` is one step, and so is an
update (one UPDATE statement); the follow-up of an update is a step of its own,
since it comes after the commit and nothing orders it. `Outages` lets the
database fail a running instance long enough for its rows to expire.

### CompState

A single update is one UPDATE statement; a bulk update reads (`BulkSelect`, without
locks) and then writes what it read (`BulkWrite`); `SetChildCompStates...` reads
FOR UPDATE (`ChildSelect`) and writes (`ChildWrite`); an upsert decides by a read
(`UpsertSelect`) and writes with ON CONFLICT (`UpsertWrite`). `told` is the set of
ids its notification will name. `leaked` counts the connections whose transaction
was never ended, `refusals` the bulk updates that were refused: for a state that is none
(`hmsds-postgres.go` 708, `bogus`) or one that only force gives (722), where the code
returns without Rollback. `enabled` stands for software status, role and class too: their
code has the same form. An update of the flag alone queues no notification; its
`told` is the list the request returns.

### Subscriptions

`scnSubscriptions` is the table, `scnSubMap[i]` and the cached list `scnSubs[i]` those of
instance `i`. A request holds `scnSubLock` from before its transaction until the copy is
changed, so it is one step; `Refresh(i)` is `SCNSubscriptionRefresh`. A list of a
subscription is how often it has each value, which is what the comparisons of the code see;
only a removal depends on the order too, when a value is given more often than the list has
it: then slicing may panic (`MayPanic`), must (`MustPanic`), or takes another value's place.
The map counts, for each trigger and URL, the references of subscriptions. A change of a
component queues a job (`Queue` drops it when the queue is full) and `Run(i)` is `JobSCN.Run`,
which reads the map without the lock; each instance sends for itself and tries three times.
`MapOf` is what the table implies, the abstract content of the copy: as many references as
there are occurrences of the trigger in subscriptions of the URL. Ghosts: `behind` has the
instances whose table another has written since their refresh, `garbled` those that a put,
or a patch which repeats a value, has put out of step (section 5), `due`, `heard` and
`gaveUp` what subscribers are owed. Abstractions: the map's in-place shift of a list under a
running job, and the data races on the map, are not modelled; a role trigger hides a subrole
trigger (`TriggerOf`).

### Groups

A client's transaction is `tx[c]`: `pc` the next statement, and what it has inserted
and not committed. The unique keys of the schema decide: an insert that meets a
committed row fails, one that meets another's uncommitted row waits (`Waits`), and
`Abort` is PostgreSQL ending a deadlock, or a crash. `MemberNamespace` is the column
that keeps a component out of two partitions or of two groups of one exclusive
group. `MembersOf`, `FilteredMembers`, `GroupLabels` and `PartitionNames` are the
ways to ask. `posted` and `leftOut` are ghosts for what a group was made with and
what was taken out since. Descriptions and tags have two values each.

### Discovery

`rows` are the RedfishEndpoints with status, time stamp (`age`, in steps of ten minutes),
`enabled` and `rediscoverOnUpdate`; `job[s]` are goroutines of `discoverFromEndpoint` with
the copy of the row they have read; `discMap` and its lock belong to each instance. One step
is one transaction or one use of `discMap`. `DiscoveryUpdater` holds the lock across its two
statements; `DiscoverySync` finds orphans and marks them in a later statement. Ten minutes
pass (`Tick`) only when every goroutine waits for Redfish and every updater that is due has
run. `Failing` is a `discMap` that names an endpoint that has been deleted:
`UpdateRFEndpointForDiscover` then refreshes nothing. What a discovery finds is
`RedfishTree`, what it stores `Inventory`. Bounds: requests come to the instances in `Front`
and those for one endpoint are about `Named`.

### Inventory and EthInterfaces

`Inventory` is one endpoint's `ceps`, `locs` (FRU or `Vacant` or `Absent`), `frus` and
`hist`. A discovery and a POST store in one transaction (`UpdateAll`,
`DoHWInvByLocationPost`), then read the last events (`GenerateHWInvHistRead`) and
insert the new ones (`...Insert`), and `LoseHistory` is a crash or an error between.
The deletion of the endpoint reads, empties and deletes in separate statements; the
cascade takes what came meanwhile. `Without` deletes the events of FRUs from a history
(`DeleteHWInvHistByFRUID`). Ghosts `mixed` and `shared` mark locations whose
last requests overlapped: only there may the history be wrong.
`EthInterfaces`: requests about one address read the list (`seen`) and write it back
as a whole. `AddressesKept` holds a write to what its request had seen: of two requests
that have read the same list the later one may undo the earlier one, and nothing else goes
or comes back. A list is a set of mappings.
Events are ordered as they were inserted; the code's time stamps are those of the
transaction's begin.

### RFEvents

Power is switched on components (`power`) and the controllers send events (`bus`,
then `queue`); a worker `w` handles `job[w]` one access to the cache or to the database
at a time. `table` are the ComponentEndpoints and `cache` what `smapCompEP` maps, filled by whole
syncs (`TrySync`, `checkSyncCompEP`); `Lookup` and `Again` are the two rounds of
`getIDForURI`, `getCompEPbyID` and `getChildIDsForRfEP`. `FlavourOf` a controller says
which parser its events meet. The Kafka reader may end (`reader`); a restart forgets
cache, queue and workers. Ghost `doubt`: components whose last event was lost,
overtaken, about a module that was not discovered, or answered from a stale list of
children. An event has one record; storing discovered rows is one step here. Events without a
URI are left out: they come to nothing, but for Foxconn's parsers (in no passing run), which then
take the first node.

### ComponentQueries and InventoryQueries

The functions of the code are pure and so are the definitions: a condition is the
set of rows it selects. `VerifyNormalize` and `Parse` are the options' checks, the
builder for GET (`SelectComponents`, `JoinComponentsWithGroups` with its HAVING
counts) and the older one (`SetCompWhereQuery`) stand side by side, and
`UpdateMany` and `BulkUpdateCompRole` read the ids they will tell of by the one and write by
another statement. `StartCompUpdate` takes its ids as they are: an empty list is no
condition and would write every component. Guards elsewhere keep it away (`hmsds-postgres.go`
669 and 926, the test of what was read, `hmsds-tx-postgres.go` 846); the model has each where it
is, and `Update` gives both the ids told and the rows written. Where SQL
pieces are glued, `InventoryQueries` keeps the list of what its ORs separate, so that
AND binds as it does in SQL. Texts are words with a normal form (`Norm`); LIKE and
SIMILAR TO are the relations they compute on xnames (`Above`) and texts (`Mentions`).
The tables, the words and the requests are constants, so that the theorems hold of any;
`MCQueries` gives them values. A request is made once and answered once (`QueryNext`), by
the handler of its kind. `TablesAssumption`: ids are keys and not empty, an xname has what
is above its ancestors above it, and no two nodes or power units above it (what xnames
are); `WordsAssumption`: what the code relies on of the normal form of the empty text and of
numbers; `RequestsAssumption`: what a router and a decoder can hand to a handler.

### RedfishTree

A report says of each resource whether it can be read, is missing (404), fails or does
not decode, and of lists their members. The operators named after a kind of resource
(`Processor`, `OneChassis`, `Manager`, ...) are its two phases: its status, and its id, number
and part id; `RootInfo` (`GetRootInfo`) combines them with the swallowed failures of the code;
`DiscoverComponentEndpointArray`, `DiscoverHWInvByLocArray`,
`DiscoverCompEthInterfaceArray` and `Component` make the rows. `report` is what the
controller serves and `stored` what is kept of it; `by` of a system is the manager that its
computed addresses are taken from, where it names none the one that Go visits first. `Discover`
is `doDiscovery`, which stores all (`Stored`, one transaction) or, after a failure, the status alone. Where Go visits a map,
the order is a choice: of the node that is `first`, and of a manager's interfaces (`Orders`).
`Postable` and `PostedFRU` are what `NewHWInvByLocs` makes of the same rows when they are
posted back. HTTP, retries and JSON are the outcome in the report; the heartbeat service's
word that a node which is On is Ready is left out.
The reports, the place of the endpoint (`At`) and what SLS, the node map and the chassis above
say of a component (`Env`) are constants, so that the theorems hold of any.
`ReportsAssumption` says what a report is: of an endpoint with a controller's type, each
resource with one of the four outcomes. `Crowded` are the endpoints on which the code itself
gives two resources one id: what is numbered after the endpoint alone, accelerators named
as processors, the GPUs of two lists, the cards of two kinds, names with the same number.

## 3. Runs

| Run | Question | Instance |
|---|---|---|
| `locks_live` | Does every transaction end and every expired reservation go, with grants that agree with locks? | 1 component, 2 keys, 2 transactions, all operations, clock to 1 |
| `locks_pairs` | Do checks hold until commit, are rigid requests whole, is it an exclusive lease? | 2 components, 2 transactions of create, lock, disable, renewals, clock to 1 |
| `client` | May `Check()` be trusted, is the local expiration never too late, do stale entries go? | 2 components (one unknown to HSM), 1 caller and the renewer, 2 keys, a term of 2, a window and a time-out of 1 |
| `jobs` | Do cancelled jobs end, are orphans taken over, has a node one poller at most, is a node that left Standby no longer polled? | 1 node, 2 instances, 2 handlers, 2 jobs, 3 updates, 1 crash |
| `comp_requests` | Do notifications name what was written, do children hold still, is every request answered? | 2 components, 2 handlers, 2 connections, 4 requests of 13 kinds |
| `scn` | Are copies those of the table, do they converge, does a subscriber hear? | 2 instances, 2 URLs, 3 subscriptions to choose from, 3 patches, 3 requests, a queue of 1 |
| `groups` | Are memberships disjoint, groups whole, views the same, requests answered? | 2 clients, 2 components, 6 posts that overlap, 3 requests |
| `discovery` | Does DiscoveryStarted mean that somebody works, is what runs left alone and what is lost done again? | 2 endpoints, 2 instances, 2 jobs, 2 requests, 1 fault |
| `inventory` | Does the history agree with the inventory and not grow by itself; are addresses kept? | 1 node with 1 part, 2 FRUs, 2 handlers, 3 requests, 1 fault; 1 interface, 2 addresses, 5 requests, patches without a network too |
| `events` | Do states follow power, do lookups find what is there, does nothing foreign change, do workers come back? | a slot and the controller in it, 4 rows, 2 workers, 2 switches, 2 writes of rows, 1 fault |
| `queries` | Are the rows those the filter means; is nothing lost or confused of what a controller reports? | every request that reads with up to three parameters over 4 components and 7 locations; four controllers with up to two changes each |
| `queries_everything` | disagreement, see 5 | the same |

Why the bounds are enough. Every hazard needs two actors on one component, group, endpoint,
location or address; the second component is there for rigid, bulk and listed requests,
which treat components alike, and to tell part from whole. Two keys let a component be given
up and taken again while someone remembers the old key. A clock that reaches 1 with terms of
1 (for the client, a term of 2 and calls that take 1) lets a reservation expire, be renewed
before, and be late. A second instance is there to take over jobs and discoveries, and to
write behind the first one's copy; two job ids are enough because an id stands for a fresh
one whenever no row, goroutine or list refers to it. Three updates take a node into Standby,
out and back in. Two connections for two handlers make a single leak visible. Three
subscriptions: two that share a URL, one of which repeats a value, and another kind of
trigger. The posts of groups are two exclusive ones with their members in opposite orders, a
free one of the same label, and partitions that overlap. A history needs one part below one
node; three requests are a scan, a change and the scan that repairs. Two switches are a
component off and on again; a queue of one overflows. A query combines two conditions that
interact and a third that must not matter. Two changes of a report are two failures, or a
failure and a part that is elsewhere. `CHECK_DEADLOCK FALSE` is set everywhere, because the
bounds on requests, crashes and time end every behaviour (and a query's behaviour is one
answer); a real deadlock is a violation of the liveness properties. `comp_requests` makes
the bulk requests that are refused too: `RequestFinishes` asks for an answer until there
were as many of them as there are connections, and `CompState_pool` shows what happens then.
`jobs` has no outages:
with them, `JobSync` of an instance can make a job again that still runs on that very
instance, the entry in `srfpJobList` is overwritten and the first poller is never cancelled
(`Outages = TRUE` in `StatePolling_jobs.cfg` shows it). Each module states its type
invariant (`TypeOK`; in `MCInventory`, for two modules); the runs check what could go wrong
in the code, the types are proved. `ReservedExist`, `TermBounded`
and `NoticeIsTrue` are proved (section 4) and no longer run.

### Fairness

`CompLocks`: strong fairness of each open transaction's next step and of the cleanup:
they wait in PostgreSQL's queue for a row, which is not passed over forever; the
clock need not move and nobody need send a request. `ReservationClient`:
requests carry a 40 second context, so a call ends; the renewal goroutine is a
loop with a ticker; the application and other clients owe nothing.
`StatePolling`: goroutines that are ready run, `sync.Mutex` starves nobody,
`JobSync` is a loop; strong fairness is assumed of the receipt of a cancel and of a
stop, because Go's `select` picks at random among the cases that are ready, so
a ticker cannot keep a pending send out forever. `CompState`: weak fairness of each
handler's next step, which waits only for row locks and connections.
`Subscriptions`: weak fairness of each instance's refresh (a loop with a sleep), of the
pool's workers and of a delivery's tries, which have a time-out. `Groups`: weak fairness
of a client's next step and of its abort while it is deadlocked, which PostgreSQL
detects. `Discovery`: weak fairness of the passing of time, with the threads and the
restart it waits for, of the discoveries, whose HTTP calls time out, and of
`DiscoverySync`, a loop on every instance: whichever is up. `RFEvents`: weak fairness of
each worker's next step and of the monitor's read; nobody need switch power.

## 4. Theorems

All are proved for any sets of components, keys, requests and handlers.

`CompLocksProofs`. `ChecksHoldUntilCommit` is inductive with `TypeOK`, because it
says who holds the row locks as well as what was checked: the only actions that
write `locked`, `disabled` or `present` wait for those locks. `LockInv` adds what is
about to be committed (`PendingRows`: uncommitted rows are those of the
transaction's targets, none of them reserved, with expirations within the longest
term), which makes `ReservedExist`, `TermBounded` and `RigidCoversExisting`
inductive. `KeyInv`: keys in the table and in uncommitted rows were issued, each
once. From these follow `TypeCorrect`, `ChecksHold`, `GrantsMatchLocks`,
`ReservationsExist`, `TermsBounded`, `RigidCovers` and `LeaseRefined`, the
refinement of `ReservationLease`: a commit of fresh rows is a `Grant`, everything
else that touches the table a `Lose` or a stutter.

`CompStateProofs`. The invariant `Inv` says that a handler at work serves one of the
requests, that no row is locked twice, and that what will be told was selected and,
but for upserts, is all of it. `HandlerStep` (a step of a handler changes that
handler only) keeps the case analysis short. From it follow `TypeCorrect`,
`ChildrenStay` (the row locks suffice), `UpdatesReported` and `NoticesTrue`
(notifications agree with what is written, however requests interleave).

`ReservationClientProofs`. `Maps` says of every copy there is of a map (the library's, the
application's, those in requests and in answers) what is claimed of the library's: no
entry lives longer than the server's, and one with time left is the server's unless it is
forfeit. `Granted` says that what was just granted or renewed lasts longer than the
call (this is where the time-out and the term meet), and `Checked` that a reservation
which displaced one under check in the map is itself not on the server's table under the old
key, so that the answer to the check does no harm. From these follow `TypeCorrect`,
`ConservativeExpiry` and `SoundCheck`.

`StatePollingProofs`. `Paired`: the two goroutines of a job start and end together, for
one node on one instance; `Heard`: who sends on a `cancelChan` will be heard. With
`ListedIsRunning` that is inductive, and it gives `TypeCorrect`, `ListedRuns`,
`NobodyWaitsAlone`. `PolledByOne`: a poller that is not being cancelled has its job's row
(`HasItsRow`), and a node has one row (`RowsApart`, the primary key); without outages a row that has expired is of no
poller any more (`ExpiredIsOrphan`), so that neither `JobSync`, which deletes it, nor the cancels
and starts that come meanwhile take a row from a poller that goes on.

`GroupsProofs`. The invariant says what a transaction knows at each statement (`Phase`), that
what it knows of the tables stays so while it holds its rows, that uncommitted rows of
two transactions never share a key, and that the keys of the schema hold of what is
committed. `MembersDisjoint`, `PostedWhole` and `ViewsCorrect` follow; the last also
needs that a join over unique keys counts what membership in both sets says.

`DiscoveryProofs`. `Phase`: what a goroutine of `discoverFromEndpoint` has read; `Refreshed`: its
endpoint is no older than the time since its instance's updater ran; `Counted`:
`discMap` counts exactly the goroutines between its two uses, and whoever holds its lock
marks these. They give `TypeCorrect`, `StartedIsDiscovered` and `WaitingIsFresh`.

`RedfishTree`, in the same module. The invariant is short (`DiscoveryInv`: what is stored with
DiscoverOK was made of what `RootInfo` finds of the report, with some node first); the
work is in what follows from it. For `TreesAreWhole`, a resource is discovered, passed over
or has failed, which makes whatever it hangs below fail (`WithBelowIs`); so of what a good
discovery lists everything is there (`ListedIsStored`). Ids: an ordinal is the cardinality of
what was counted before, hence no two of one kind share it (`CountsGrow`); kinds differ in
the letter or the length of their ids (`LettersOfParts`, `PlacesApart`), but for those that
`Crowded` names. NIDs: the formula of `GetBogusNID` differs where the ordinals do
(`NumbersAreApart`). For `OrdersAreFree`, a node shares its part if there is another with
that part, whoever was first (`PartsAreToldApart`). `ManagerMAC` folds over the
interfaces: that the function of the fold exists, and that after `k` of them an address is only
known if one of these has it (`Known`), is shown for the least number for which it would fail
(`LeastNumber`).

`InventoryProofs`. `Told`: a location whose last request had it to itself and is done has the
event of what is there as its last; `Reads`: a request at work that was not overtaken
still has the last event in what it has read. `HistoryCorrect`, `HistoryBounded` and
`TypeCorrect` follow. `AddressesSafe` holds of any requests: what a request writes is made of
what it has read (`UpdateTakes`, `UpdateGives`). A patch of an address that names no network
writes an empty list; the property counts it with the requests that replace the list, and
`PatchKeepsAddresses` shows what is wrong with it (section 5). The deletion of events
from a history needs induction over its length; it is done by least counterexamples
(`LeastNumber`, from the well-foundedness of the naturals).

`RFEventsProofs`. `Own`: what a worker has gathered belongs to its event, which gives
`UpdatesItsOwn` where no controller is Foxconn's (whose parsers do not; section 5).
`Covered`: the rows that were there since a worker's first check are in the cache by its
last look, whoever made the sync; hence `LookupsFind`. `StatesFollow` needs more, `Settled`: the
latest news of a component, on the bus, else in the queue, else in a job, are
true, and if nobody has any that will reach its row, the state is; a job will reach a row
that one of its lookups is of, and once it relies on what was there at its first check
(`stable`), only such a row. It assumes `Wired`, how the hardware is made: a URI names one
resource of a controller, a controller is a component of its own, modules report power by
resource events, do not overlap and are not nested, nobody is Foxconn. The run `events` is
such a system, and TLC found `Settled` invariant there before it was proved.

`Subscriptions`, in the same module. Counts are cardinalities of sets of references, and a
reference that comes or goes is one element. `MapsAreCurrent` and `ScnTypeCorrect` follow
from `ScnIInv`, whose part `Exact` says of a copy that no put and no repeated patch has
touched since its refresh that its map is that of its own list; a copy that nobody wrote
behind either has the table for its list (`InStep`). `Keeps`: an operation on a
subscription leaves the other references to its URL alone. `NobodyIsForgotten` is the safety half of
`SubscriberHears`: whoever is owed a notification has it on its way, in a try or in a job
whose instance still has the URL in its map, whatever others do to subscriptions that share it.

The queries, in `InventoryProofs`. The handlers are functions, so that what a theorem says
is what their builders compute for any tables, filters and words. `UpdatesAreAgreed`: the
statement of an update and the query that decides who is told of it, built by different code,
select the same components, those named that need the change; without ids or without a value
the request is refused and writes nothing. TLC refutes it if the guard at `hmsds-postgres.go`
669, the test of what was read or the restriction to it is dropped; the guard in the
transaction (`hmsds-tx-postgres.go` 846) is a second line behind that test.
`ComponentsAreMatched`: `Selects` says when a component satisfies a verified filter, condition by condition (`MeantBy`); the joins with groups add no row
because keys are unique, their HAVING counts ask for as many groups as were named, a range
of numbers is the pair at one place of two lists. `ListingsAreAgreed`: a filter is compared with the
one that lacks a parameter (`Wider`), builder by builder, and a request for one entry with
the listing that asks for its id (`Sole`). `InventoryIsMatched`: by the cases of
`getHWInvByLocQuery` (`QueryOfWhole`, `QueryOfOne`), glued as SQL binds ORs and ANDs, the query is `Sought`,
what the parameters mean, but where both parents and children are asked for in a partition
(the AND then meets the last OR only) or no location has the type; and what is found is
rolled up with none lost or shown twice (`RolledUp`), because no location has two nodes above it.

The assumptions are those named in the modules: distinguished values lie outside
the sets they are told apart from, keys and handlers are finite, bounds are
naturals, tables and words are as section 2 says of the queries, reports as it says of
`RedfishTree`; and the two named above (`UpdatesItsOwn`, `StatesFollow`).

Only model-checked are the liveness properties (`TxFinishes`, `ExpiredIsReaped`,
`StaleEntryPurged`, `CancelEndsJob`, `OrphansTakenOver`, `LeavingStandbyStopsPolling`,
`RequestFinishes`, `CopiesConverge`, `SubscriberHears`, `RequestsEnd`, `JobsEnd`), which are
about fairness and enabled actions.

## 5. Where the code and what is said of it disagree

One run, `queries_everything`, is part of the project; the others are kept as
configurations to be run by hand (`tlc -config <cfg> <module>`): TLC refutes the property.

- `Queries_everything.cfg`, `MCQueries`, `FiltersHold`: `getHWInvByLocQuery` appends the
  partition by AND to ORs without parentheses (`query-shared-sq.go` 1391), so a query with
  parents and children answers locations of other partitions; and with a type that nothing
  has, the empty list of a subquery's ids becomes an expression that every xname matches.
- `CompLocks_lockrace.cfg`, `MCCompLocks`, `LockKindMatches`: lock and unlock check for
  reservations without locking the components (`hmsds-postgres.go` 4651), so a component may become
  locked under an expiring reservation; line 4757 says "Components can't be (un)locked if
  there are any reservations."
- `CompLocks_disablerace.cfg`, `NoReservationWhileDisabled`: disable deletes reservations
  before it sets the flag (4674), so a reservation made in between survives; "a broken lock
  cannot be unlocked or locked or reserved" (`docs/locking/developer_design_notes.md` 198).
- `CompLocks_rigid.cfg`, `RigidAllOrNothing`: a rigid request that names a missing component
  reserves the rest (4217), which `api/swagger_v2.yaml` 1589 excludes.
- `ReservationClient_stale.cfg`, `ReservationClient`, `HeldStaysTracked`: an old answer to the
  periodic check removes, by xname, an entry that was acquired since (`interface.go` 912); it is
  held and not renewed.
- `StatePolling_unpolled.cfg`, `MCStatePolling`, `StandbyIsPolled`: two updates start and cancel
  the polling job in the other order than they committed in (`state-change.go` 189); the node
  stays in Standby and is not polled.
- `CompState_resurrect.cfg`, `MCCompState`, `LegalTransition`: a bulk "Ready with a warning" turns
  a node back to Ready that was switched off after the read (`hmsds-postgres.go` 727), which
  the comment at 713 says it prevents.
- `CompState_pool.cfg`, `BeginSucceeds`: a bulk update to a state that needs force (or to
  none at all) returns without Rollback (722, 708); 70 of them stop the service.
- `Subscriptions_panic.cfg`, `MCSubscriptions`, `LockIsReleased`: a patch that removes a value
  twice slices past the end of the shortened list (`smd-api.go` 3962) and panics with
  `scnSubLock` held; "We'll get corrected by the SCNSubscriptionRefresh() thread" (3879) cannot
  happen any more.
- `Discovery_lostput.cfg`, `MCDiscovery`, `UserFieldsKept`: the end of a discovery writes the
  whole row as read at its start (`hmsds-postgres.go` 3379) and undoes a PATCH made meanwhile; the comment
  at 3346 promises the "discovery-writable fields".
- `Inventory_wipe.cfg`, `MCInventory`, `PatchKeepsAddresses`: a PATCH of an address without a
  network deletes every address of the interface and panics (`UpdateCompEthInterfaceIPAddress`,
  `hmsds-postgres.go` 3193): "Update the JSON Blob only if the Network field is provided".
- `Inventory_orphan.cfg`, `LostAreEmpty`: an endpoint without ComponentEndpoints has no row to
  lock, so what a discovery stores during its deletion goes by the cascade and its components
  keep their states (2412).
- `RFEvents_foxconn.cfg`, `MCRFEvents`, `OnlyItsOwn`: Foxconn's power parsers declare `xname` again
  (`rfevent.go` 940, 965) and always update the controller's node n0.
- `RFEvents_monitor.cfg`, `MCRFEvents`, two properties. `OffReachesAll`: a cached list of children
  is used while it is not empty (`rfevent.go` 1226); a node discovered since stays On when its slot
  goes down. `MonitorReconnects` (take the first out to see it): once the vendored Kafka reader has
  ended on a signal (`hms-msgbus/msgbus.go` 531), `MessageRead` returns "" and no error for ever;
  the monitor does not reconnect.

Seen while modelling, and left out of the properties by what they name:

- Locks: an expired reservation can be renewed until the cleanup has deleted it, though
  `docs/locking/developer_design_notes.md` says it may not.
- Component updates: an upsert decides by a read without locks, and a state change it
  overwrites is told nobody; a flag Locked is kept, its notification names the flag asked for;
  a crash before a notification is queued loses it.
- Subscriptions: a PUT updates only the states of the cached list (`smd-api.go` 3774), so later
  changes take other triggers off the map than were put on it (`garbled`); adding Enabled by patch to a
  subscription without it does nothing; a role update hides subrole subscribers
  (`job-types.go` 149); a notification that finds the job queue full is dropped
  (`state-change.go` 242), so `SubscriberHears` is about those that are queued.
- Groups: a member added to a group that was just deleted is answered as a missing component; of two
  patches at once one may win the description and the other the tags.
- Discovery: two starters that both read before either writes discover twice, on one instance too
  (the comment at `discover.go` 65 says it cannot be); one missing endpoint of a list starts
  none and leaks the transaction (`hmsds-postgres.go` 2313), which keeps `DiscoveryUpdater` from
  refreshing its instance's other endpoints; a discovery whose components cannot be made is stored
without any, of which `UpdateAllForRFEndpoint` takes the length before it looks whether there are
some (3364): the process ends; an orphan that is not to be rediscovered on update stays
  DiscoveryStarted.
- Inventory: API deletions write no event, nor does a POST that empties a location; overlapping
  requests may write their events in any order (`HistoryAgrees` and `ScansAddNothing` leave their
  locations out); of two requests about addresses of one interface the later may undo the earlier
  (`AddressesKept` lets it); an error of the history's insert is dropped; an address
  and a network in one query join an alias twice, which SQL refuses.
- Events: `MsgBusReconnect` answers nil when the disconnect fails; events beyond the queue's
  10000 are dropped; two events of one component may be applied in the other order
  (`StateFollowsPower` exempts the component until its next event).
- Queries: with several ids, type and partition bind to the last alternative; a loose `nid_end`
  selects components without a number (`LooseEnd`); a bad time in a history query is answered as an
  error of the server; ranges that are all blank answer every component;
  `NewSystemHWInventory` drops outlets whose unit is not in the answer, against its comment.
- Reports: failures of lists that do not decode, of a chassis' power, of storage groups, of
  controls and of two vendors' power services are passed over (`Listed` in `RedfishTree` leaves
  them out); services are stored though unread; a posted backup loses the suffix that
  told two nodes with one part apart, and is refused if a location is Empty; computed MAC
  addresses of two systems under one manager are the same; `GetBogusNID` packs numbers into fields
  they may exceed; a node discovered before its chassis' controller was registered and stored after
  the chassis' bulk update keeps class River.

## 6. Not modelled, and the plan

Not modelled on purpose: HTTP, JSON, the text of queries, routes, authentication, formatting and
logging, the SLS and heartbeat clients, power maps, the loaders, and the writes of the node
map, which are single statements (see the notes in `PROJECT.json`). Credentials in Vault are
not modelled. Of the data races on Go maps and slices only the effects through interleaved
steps are; a crash of the runtime is a restart.
`Discovery`, `RedfishTree` and `Inventory` are three views of one discovery and are not composed: when
it runs, what it finds, and what becomes of what it stores; each takes the others' outcome as a
choice. The same holds for `RFEvents`, whose updates are one step where `CompState` has their
statements.

Plan, in order:

1. An abstract specification of the notifications (who subscribes hears of each change) and
   its refinement by `CompState` with `Subscriptions`; `NobodyIsForgotten` is its safety.
2. `Discovery` composed with `Inventory`, to see two discoveries store different trees.
3. `Discovery` or `Inventory` composed with `RedfishTree`: a report that changes between two
   discoveries.
