----------------------------- MODULE Inventory -----------------------------
(* What discovery leaves in the database of one RedfishEndpoint: its          *)
(* ComponentEndpoints and services, the hardware at each location, the FRUs   *)
(* themselves, and the history of which FRU was seen where.                   *)
(*                                                                            *)
(* Hardware is stored in one transaction and its history is written later, in *)
(* two more: the last event of each location is read, and an event is added   *)
(* where it differs.  Deleting the endpoint reads the locations to empty and  *)
(* deletes them in later statements of one transaction.  Handlers interleave  *)
(* at these points, and an instance may die at each of them.                  *)
EXTENDS Naturals, Sequences, FiniteSets, SequencesExt

CONSTANTS Handler,      \* goroutines that serve requests or discoveries
          Node,         \* components that have a ComponentEndpoint
          Part,         \* processors, memory, ... below the nodes
          NodeOf,       \* the node above each part
          Fru,          \* identifiers of field replaceable units
          Service,      \* Redfish services of the endpoint
          Vacant,       \* the location exists and has no FRU (fru_id is NULL)
          Absent,       \* there is no row for the location
          MaxRequests,  \* bound: requests and discoveries
          MaxFaults     \* bound: crashes and database errors

ASSUME PartsAreBelowNodes == NodeOf \in [Part -> Node]
ASSUME NullsAreNoFrus == Vacant \notin Fru /\ Absent \notin Fru /\ Vacant # Absent
ASSUME BoundsAreNaturals == MaxRequests \in Nat /\ MaxFaults \in Nat

Loc == Node \cup Part
Detected(f) == [type |-> "Detected", fru |-> f]
Removed(f)  == [type |-> "Removed", fru |-> f]
Event       == {Detected(f) : f \in Fru} \cup {Removed(f) : f \in Fru}

\* What is posted or discovered: some locations, each with a FRU or without.
Hardware == UNION {[D -> Fru \cup {Vacant}] : D \in (SUBSET Loc) \ {{}}}

VARIABLES
  endpoint,  \* is there a row in rf_endpoints?
  ceps,      \* nodes with a row in comp_endpoints
  services,  \* services with a row in service_endpoints
  empty,     \* nodes whose State/Component is Empty
  locs,      \* hwinv_by_loc: fru_id by location
  frus,      \* hwinv_by_fru
  hist,      \* hwinv_hist: the events of each location, oldest first
  pc,        \* next step of each handler
  work,      \* the hardware a handler works on
  last,      \* the last events it has read
  held,      \* the nodes whose rows it holds by SELECT ... FOR UPDATE
  requests, faults,
  mixed,     \* ghost: locations whose history was written by overlapping
             \* requests, or not at all, since it last agreed
  shared     \* ghost: per handler, its locations that others touched meanwhile

tables  == <<endpoint, ceps, services, empty, locs, frus, hist>>
ghosts  == <<mixed, shared>>
budget  == <<requests, faults>>
handlers == <<pc, work, last, held>>
hwvars  == <<tables, handlers, budget, ghosts>>

Nothing == [l \in {} |-> Vacant]

HwTypeOK ==
  /\ endpoint \in BOOLEAN
  /\ ceps \subseteq Node /\ services \subseteq Service /\ empty \subseteq Node
  /\ ceps # {} \/ services # {} => endpoint
  /\ locs \in [Loc -> Fru \cup {Vacant, Absent}]
  /\ frus \subseteq Fru
  /\ \A l \in Loc : locs[l] \in frus \cup {Vacant, Absent}
  /\ hist \in [Loc -> Seq(Event)]
  /\ pc \in [Handler -> {"idle", "readLast", "insertHist", "deleteEndpoint"}]
  /\ work \in [Handler -> Hardware \cup {Nothing}]
  /\ last \in [Handler -> UNION {[D -> Event] : D \in SUBSET Loc}]
  /\ held \in [Handler -> SUBSET Node]
  /\ shared \in [Handler -> SUBSET Loc] /\ mixed \subseteq Loc
  /\ requests \in 0..MaxRequests /\ faults \in 0..MaxFaults

HwInit ==
  /\ endpoint = TRUE /\ ceps = {} /\ services = {} /\ empty = {}
  /\ locs = [l \in Loc |-> Absent] /\ frus = {}
  /\ hist = [l \in Loc |-> <<>>]
  /\ pc = [h \in Handler |-> "idle"]
  /\ work = [h \in Handler |-> Nothing] /\ last = [h \in Handler |-> <<>>]
  /\ held = [h \in Handler |-> {}]
  /\ requests = 0 /\ faults = 0
  /\ mixed = {} /\ shared = [h \in Handler |-> {}]

-----------------------------------------------------------------------------
(* Helpers.                                                                   *)

Request == requests < MaxRequests /\ requests' = requests + 1 /\ UNCHANGED faults
Fault   == faults < MaxFaults /\ faults' = faults + 1 /\ UNCHANGED requests

Goto(h, s) == pc' = [pc EXCEPT ![h] = s]

\* A handler is between its first and its last statement about location l.
Open(h, l) == pc[h] # "idle" /\ l \in DOMAIN work[h]

\* The ghost: the locations L are touched, by h if it goes on working on them.
Disturbed(L) == [g \in Handler |-> shared[g] \cup {l \in L : Open(g, l)}]
Touch(h, L) ==
  shared' = [Disturbed(L) EXCEPT ![h] = {l \in L : \E k \in Handler \ {h} : Open(k, l)}]

End(h) ==
  /\ Goto(h, "idle")
  /\ work' = [work EXCEPT ![h] = Nothing] /\ last' = [last EXCEPT ![h] = <<>>]
  /\ held' = [held EXCEPT ![h] = {}]
  /\ shared' = [shared EXCEPT ![h] = {}]

\* BulkInsertHWInvByFRUTx and BulkInsertHWInvByLocTx: insert, or update on conflict.
Frus(new)      == {new[l] : l \in DOMAIN new} \cap Fru
FrusKept(new)  == frus
FrusWith(new)  == frus \cup Frus(new)
LocsWith(new)  == [l \in Loc |-> IF l \in DOMAIN new THEN new[l] ELSE locs[l]]

RowsHeld == UNION {held[h] : h \in Handler}

-----------------------------------------------------------------------------
(* Storing hardware, and its history.                                         *)

\* doHWInvByLocationPost up to the commit of InsertHWInvByLocs.  A location
\* without a FRU gets no event ("mixed": its history now lags behind).
DoHWInvByLocationPost(h) ==
  /\ pc[h] = "idle" /\ Request
  /\ \E new \in Hardware :
       /\ frus' = FrusWith(new) /\ locs' = LocsWith(new)
       /\ work' = [work EXCEPT ![h] = new]
       /\ Touch(h, DOMAIN new)
       /\ mixed' = mixed \cup DOMAIN new
  /\ Goto(h, "readLast")
  /\ UNCHANGED <<endpoint, ceps, services, empty, hist, last, held>>

\* UpdateAllForRFEndpoint: the foreign key refuses ComponentEndpoints of an endpoint
\* that has been deleted, and then nothing is stored.  Nodes that answer are found
\* with their hardware, those that do not are Empty.
UpdateAll(h) ==
  /\ pc[h] = "idle" /\ Request
  /\ endpoint /\ RowsHeld = {}
  /\ \E new \in Hardware :
       LET found == DOMAIN new \cap Node
       IN /\ ceps' = ceps \cup found
          /\ empty' = (empty \ found) \cup {n \in found : new[n] = Vacant}
          /\ frus' = FrusWith(new) /\ locs' = LocsWith(new)
          /\ services' = Service
          /\ work' = [work EXCEPT ![h] = new]
          /\ Touch(h, DOMAIN new)
          /\ mixed' = mixed \cup DOMAIN new
  /\ Goto(h, "readLast")
  /\ UNCHANGED <<endpoint, hist, last, held>>

\* GenerateHWInvHist, first half: GetHWInvHistLastEvents of the populated locations,
\* in a transaction of its own.
LastEvents(L) == [l \in {k \in L : hist[k] # <<>>} |-> Last(hist[l])]

GenerateHWInvHistRead(h) ==
  /\ pc[h] = "readLast"
  /\ last' = [last EXCEPT ![h] = LastEvents({l \in DOMAIN work[h] : work[h][l] # Vacant})]
  /\ Goto(h, "insertHist")
  /\ UNCHANGED <<tables, work, held, budget, ghosts>>

\* Second half: an event for each location whose last one differs.
NewsAll(new, seen) == {l \in DOMAIN new : new[l] # Vacant}
News(new, seen) ==
  {l \in DOMAIN new : /\ new[l] # Vacant
                      /\ l \in DOMAIN seen => seen[l] # Detected(new[l])}

GenerateHWInvHistInsert(h) ==
  /\ pc[h] = "insertHist"
  /\ hist' = [l \in Loc |-> IF l \in News(work[h], last[h])
                            THEN Append(hist[l], Detected(work[h][l])) ELSE hist[l]]
  /\ mixed' = mixed \ {l \in DOMAIN work[h] : work[h][l] # Vacant /\ l \notin shared[h]}
  /\ End(h)
  /\ UNCHANGED <<endpoint, ceps, services, empty, locs, frus, budget>>

\* The database fails, or the instance dies, before the history is written; nobody
\* looks at the error, and nothing remembers that the events are missing.
LoseHistory(h) ==
  /\ pc[h] \in {"readLast", "insertHist"} /\ Fault
  /\ End(h)
  /\ UNCHANGED <<tables, mixed>>

-----------------------------------------------------------------------------
(* Deletions.                                                                 *)

\* SetChildCompStatesRFEndpointsTx, up to the read of the locations to empty: those of
\* the components that are not Empty yet, with all that is below them.  Without
\* ComponentEndpoints it has nothing to do.
Live     == ceps \ empty
ToDetach == {l \in Live \cup {p \in Part : NodeOf[p] \in Live} : locs[l] # Absent}

DeleteRFEndpointSelect(h) ==
  /\ pc[h] = "idle" /\ endpoint /\ Request
  /\ RowsHeld = {}
  /\ work' = [work EXCEPT ![h] = [l \in ToDetach |-> locs[l]]]
  /\ held' = [held EXCEPT ![h] = ceps]
  /\ Touch(h, ToDetach)
  /\ Goto(h, "deleteEndpoint")
  /\ UNCHANGED <<tables, last, mixed>>

\* The rest of DeleteRFEndpointByIDSetEmpty: the locations that are still there go, with
\* an event for each FRU that was read, then the endpoint with all that refers to it.
\* If somebody else has deleted it, everything is rolled back.
Gone(h) == {l \in DOMAIN work[h] : locs[l] # Absent}
EventsLost(h, l) == <<>>
Events(h, l) == IF l \in Gone(h) /\ work[h][l] # Vacant
                THEN <<Removed(work[h][l])>> ELSE <<>>

DeleteRFEndpoint(h) ==
  /\ pc[h] = "deleteEndpoint"
  /\ IF endpoint
     THEN /\ endpoint' = FALSE /\ ceps' = {} /\ services' = {}
          /\ empty' = empty \cup held[h]
          /\ locs' = [l \in Loc |-> IF l \in Gone(h) THEN Absent ELSE locs[l]]
          /\ hist' = [l \in Loc |-> hist[l] \o Events(h, l)]
          /\ LET clean == {l \in Gone(h) : work[h][l] # Vacant /\ l \notin shared[h]}
             IN mixed' = (mixed \cup Gone(h)) \ clean
     ELSE UNCHANGED <<endpoint, ceps, services, empty, locs, hist, mixed>>
  /\ End(h)
  /\ UNCHANGED <<frus, budget>>

\* The instance dies or a statement fails: the transaction is rolled back.
RollBack(h) ==
  /\ pc[h] = "deleteEndpoint" /\ Fault
  /\ End(h)
  /\ UNCHANGED <<tables, mixed>>

\* doRedfishEndpointsPost puts the endpoint back.
Register(h) ==
  /\ pc[h] = "idle" /\ ~endpoint /\ Request
  /\ endpoint' = TRUE
  /\ UNCHANGED <<ceps, services, empty, locs, frus, hist, handlers, ghosts>>

\* SetChildCompStatesCompEndpointsTx: unlike the deletion of the endpoint it detaches nothing.
Emptied(N) == empty \cup N

\* doComponentEndpointDelete, doComponentEndpointsDeleteAll: the components become
\* Empty, their hardware stays where it is.
DeleteCompEndpoints(h, N) ==
  /\ pc[h] = "idle" /\ N \subseteq ceps /\ N # {} /\ Request
  /\ RowsHeld \cap N = {}
  /\ ceps' = ceps \ N /\ empty' = Emptied(N)
  /\ UNCHANGED <<endpoint, services, locs, frus, hist, handlers, ghosts>>

DoComponentEndpointDelete(h) == \E n \in Node : DeleteCompEndpoints(h, {n})
DoComponentEndpointsDeleteAll(h) == DeleteCompEndpoints(h, ceps)

\* doServiceEndpointDelete, doServiceEndpointsDeleteAll.
DeleteServices(h, S) ==
  /\ pc[h] = "idle" /\ S \subseteq services /\ S # {} /\ Request
  /\ services' = services \ S
  /\ UNCHANGED <<endpoint, ceps, empty, locs, frus, hist, handlers, ghosts>>

DoServiceEndpointDelete(h) == \E s \in Service : DeleteServices(h, {s})
DoServiceEndpointsDeleteAll(h) == DeleteServices(h, services)

\* doHWInvByLocationDelete, doHWInvByLocationDeleteAll: no event is written.
DeleteLocs(h, L) ==
  /\ pc[h] = "idle" /\ L # {} /\ \A l \in L : locs[l] # Absent
  /\ Request
  /\ locs' = [l \in Loc |-> IF l \in L THEN Absent ELSE locs[l]]
  /\ shared' = Disturbed(L) /\ mixed' = mixed \cup L
  /\ UNCHANGED <<endpoint, ceps, services, empty, frus, hist, handlers>>

Rows == {l \in Loc : locs[l] # Absent}
DoHWInvByLocationDelete(h) == \E l \in Loc : DeleteLocs(h, {l})
DoHWInvByLocationDeleteAll(h) == DeleteLocs(h, Rows)

\* doHWInvByFRUDelete, doHWInvByFRUDeleteAll: refused as long as a location has one.
Referenced == {locs[l] : l \in Loc} \cap Fru
DeleteFrus(h, F) ==
  /\ pc[h] = "idle" /\ F \subseteq frus /\ F # {} /\ Request
  /\ F \cap Referenced = {}
  /\ frus' = frus \ F
  /\ UNCHANGED <<endpoint, ceps, services, empty, locs, hist, handlers, ghosts>>

DoHWInvByFRUDelete(h) == \E f \in Fru : DeleteFrus(h, {f})
DoHWInvByFRUDeleteAll(h) == DeleteFrus(h, frus)

\* What is left of the events s of a location without those of the FRUs F: the
\* rows that stay keep their order.
Nth(K, j) == CHOOSE i \in K : Cardinality({k \in K : k <= i}) = j
Without(s, F) ==
  LET K == {i \in DOMAIN s : s[i].fru \notin F}
  IN [j \in 1..Cardinality(K) |-> s[Nth(K, j)]]

\* Histories are deleted by location, by FRU or as a whole.
DeleteHist(h, L, F) ==
  /\ pc[h] = "idle" /\ Request
  /\ hist' = [l \in Loc |-> IF l \in L THEN Without(hist[l], F) ELSE hist[l]]
  /\ hist' # hist
  /\ LET D == {l \in Loc : hist'[l] # hist[l]} IN shared' = Disturbed(D) /\ mixed' = mixed \cup D
  /\ UNCHANGED <<endpoint, ceps, services, empty, locs, frus, handlers>>

DoHWInvHistByLocationDelete(h) == \E l \in Loc : DeleteHist(h, {l}, Fru)
DoHWInvHistByFRUDelete(h) == \E f \in Fru : DeleteHist(h, Loc, {f})
DoHWInvHistDeleteAll(h) == DeleteHist(h, Loc, Fru)

HwNext == \E h \in Handler :
  \/ DoHWInvByLocationPost(h) \/ UpdateAll(h)
  \/ GenerateHWInvHistRead(h) \/ GenerateHWInvHistInsert(h) \/ LoseHistory(h)
  \/ DeleteRFEndpointSelect(h) \/ DeleteRFEndpoint(h) \/ RollBack(h) \/ Register(h)
  \/ DoComponentEndpointDelete(h) \/ DoComponentEndpointsDeleteAll(h)
  \/ DoServiceEndpointDelete(h) \/ DoServiceEndpointsDeleteAll(h)
  \/ DoHWInvByLocationDelete(h) \/ DoHWInvByLocationDeleteAll(h)
  \/ DoHWInvByFRUDelete(h) \/ DoHWInvByFRUDeleteAll(h)
  \/ DoHWInvHistByLocationDelete(h) \/ DoHWInvHistByFRUDelete(h) \/ DoHWInvHistDeleteAll(h)

-----------------------------------------------------------------------------
(* Properties.                                                                *)

\* The history tells what the inventory holds: where nobody is at work, and the last
\* request ran to its end and had the location for itself, the last event says that
\* the FRU of the location was detected there, or, where there is no row, that it was
\* removed.  GenerateHWInvHist and SetChildCompStatesRFEndpointsTx have to see to it,
\* after lost events and after requests that ran at the same time too: the next scan
\* repairs the history.
HistoryAgrees == \A l \in Loc \ mixed :
  (\A h \in Handler : ~Open(h, l)) =>
    /\ locs[l] \in Fru    => hist[l] # <<>> /\ Last(hist[l]) = Detected(locs[l])
    /\ locs[l] = Absent   => hist[l] = <<>> \/ Last(hist[l]).type = "Removed"

\* A scan that finds what the last one found adds nothing, unless another request wrote
\* between its read of the last events and its insert: the history must not grow with
\* each discovery (migration 20 had to prune it).
ScansAddNothing == [][\A h \in Handler, l \in Loc :
  (pc[h] = "insertHist" /\ pc'[h] = "idle" /\ l \notin shared[h] /\ hist'[l] # hist[l]) =>
    (hist[l] = <<>> \/ Last(hist'[l]) # Last(hist[l]))]_hwvars

\* A component that discovery has found is Empty once its ComponentEndpoint is gone:
\* "sets the State/Components entry for each ComponentEndpoint to Empty/OK".
\* (SetChildCompStatesRFEndpointsTx locks the rows it finds; ComponentEndpoints that
\* come after it found none are deleted by the cascade.)
LostAreEmpty == [][\A n \in Node : (n \in ceps /\ n \notin ceps') => n \in empty']_hwvars
=============================================================================
