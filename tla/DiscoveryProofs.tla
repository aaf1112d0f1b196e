---------------------------- MODULE DiscoveryProofs ----------------------------
(***************************************************************************)
(* Proofs about Discovery, for any endpoints, instances and goroutines;    *)
(* then about RedfishTree, for any reports: that a good discovery loses    *)
(* nothing of what an endpoint lists, and that the order in which Go       *)
(* visits its maps makes no difference.                                    *)
(***************************************************************************)
EXTENDS Discovery, RedfishTree, FiniteSetTheorems, SequenceTheorems,
        WellFoundedInduction, TLAPS

-------------------------------------------------------------------------------
(* The inductive invariant.                                                *)
Reads == UNION {[S -> Row] : S \in SUBSET Endpoint}
Phases == Active \cup {"none", "patch", "read", "mark"}
Job == [pc : Phases, on : Instance, ids : SUBSET Endpoint, force : BOOLEAN,
        read : Reads, patch : Patch]

TypeInv ==
  /\ rows \in [Endpoint -> Row \cup {NoRow}]
  /\ job \in [Slot -> Job]
  /\ discMap \in [Instance -> [Endpoint -> Nat]]
  /\ updater \in [Instance -> Reads]
  /\ due \in [Instance -> {0, 1, UpdateDue, Failing}]
  /\ up \subseteq Instance
  /\ requests \in 0 .. MaxRequests /\ faults \in 0 .. MaxFaults
  /\ abandoned \subseteq Endpoint

(* What a goroutine has at each of its statements: a discovery is of one   *)
(* endpoint, and keeps what was read of it.                                *)
Phase(q) ==
  /\ q.pc \in Active \cup {"patch"} => \E e \in Endpoint : q.ids = {e}
  /\ q.pc \in Active \cup {"patch", "mark"} => q.read \in [q.ids -> Row]

(* Its instance runs.  The endpoint has just been marked when it comes to  *)
(* discMap, and from then on is as old at most as the time since its       *)
(* instance's DiscoveryUpdater ran.                                        *)
Mapped == {"query", "okremove", "failremove"}
Refreshed(q) ==
  /\ q.pc # "none" => q.on \in up
  /\ q.pc = "add" => \A e \in q.ids : Exists(e) => rows[e].age = 0
  /\ q.pc \in Mapped => \A e \in q.ids : Exists(e) => rows[e].age <= due[q.on]

(* discMap counts the goroutines of its instance that are between its two  *)
(* uses, and who holds its lock marks exactly these.                       *)
InUse(i, e) == {s \in Slot : job[s].on = i /\ job[s].pc \in Mapped /\ e \in job[s].ids}

Counted == \A i \in Instance, e \in Endpoint : discMap[i][e] = Cardinality(InUse(i, e))
Locked == \A i \in Instance : updater[i] # NoRead => DOMAIN updater[i] = InMap(i)

IInv ==
  /\ TypeInv
  /\ \A s \in Slot : Phase(job[s]) /\ Refreshed(job[s])
  /\ Counted /\ Locked
  /\ StartedHasJob

-------------------------------------------------------------------------------
(* Rows and goroutines *)

LEMMA Constants ==
  /\ UpdateDue = 2 /\ Failing = 4 /\ Orphaned = 3
  /\ Mapped \subseteq Active
  /\ Active \cap {"none", "patch", "read", "mark", "add"} = {"add"}
  /\ "add" \notin Mapped
  BY DEF UpdateDue, Failing, Orphaned, Mapped, Active

LEMMA ContentType ==
  ASSUME NEW row \in Row
  PROVE  /\ Content(row) \in Row /\ [row EXCEPT !.age = 0] \in Row
         /\ [row EXCEPT !.age = 0].age = 0
  <1>1. 0 \in 0 .. Orphaned /\ "NotYetQueried" \in Status
    BY DEF Orphaned, Status
  <1> QED  BY <1>1 DEF Content, Row

(* What is written in place of a row. *)
LEMMA WriteType ==
  ASSUME IInv, NEW e \in Endpoint, NEW read \in Row, NEW status \in Status
  PROVE  /\ Write(e, read, status) \in Row \cup {NoRow}
         /\ Write(e, read, status) = NoRow <=> ~ Exists(e)
         /\ Exists(e) => /\ Write(e, read, status).age = 0
                         /\ Write(e, read, status).status = status
  <1>1. [read EXCEPT !.status = status, !.age = 0] \in Row
    <2>1. 0 \in 0 .. Orphaned
      BY DEF Orphaned
    <2> QED  BY <2>1 DEF Row
  <1> QED  BY <1>1, DiscoveryAssumption DEF Write, Row

LEMMA SettingsType ==
  ASSUME NEW row \in Row, NEW a \in BOOLEAN, NEW b \in BOOLEAN
  PROVE  /\ [row EXCEPT !.enabled = a, !.redisc = b] \in Row
         /\ [row EXCEPT !.enabled = a, !.redisc = b].age = row.age
         /\ [row EXCEPT !.enabled = a, !.redisc = b].status = row.status
  BY DEF Row

LEMMA NewType ==
  ASSUME NEW s \in Settings
  PROVE  New(s) \in Row /\ New(s).age = 0 /\ New(s).status = "NotYetQueried"
  BY DiscoveryAssumption DEF New, Row, Setting, Status, Orphaned

LEMMA GivenType ==
  ASSUME NEW row \in Row, NEW p \in Patch
  PROVE  Patched(row, p) \in Row
  <1>1. Given(p.enabled, row.enabled) \in BOOLEAN /\ Given(p.redisc, row.redisc) \in BOOLEAN
    BY DEF Given, Row, Patch
  <1> QED  BY <1>1, SettingsType DEF Patched

LEMMA NoReadType == NoRead \in Reads /\ DOMAIN NoRead = {}
  <1>1. NoRead \in [{} -> Row]
    BY DEF NoRead
  <1> QED  BY <1>1 DEF Reads

LEMMA NoJobType ==
  NoJob \in Job /\ Phase(NoJob) /\ NoJob.pc = "none" /\ NoJob.ids = {}
  <1>1. (CHOOSE i \in Instance : TRUE) \in Instance
    BY DiscoveryAssumption
  <1> QED  BY <1>1, NoReadType DEF NoJob, Job, Phases, Phase, NoPatch, Patch, Active

LEMMA JobType ==
  ASSUME TypeInv, NEW s \in Slot
  PROVE  job[s] \in Job /\ job[s].on \in Instance /\ job[s].ids \subseteq Endpoint
  BY DEF TypeInv, Job

(* A goroutine at another statement. *)
LEMMA GotoType ==
  ASSUME NEW q \in Job, NEW ph \in Phases
  PROVE  LET r == [q EXCEPT !.pc = ph]
         IN  /\ r \in Job /\ r.pc = ph
             /\ r.ids = q.ids /\ r.on = q.on /\ r.read = q.read
             /\ Phase(q) /\ q.pc \in Active => Phase(r)
  <1>1. PICK r \in Job : r = [q EXCEPT !.pc = ph]
    BY DEF Job
  <1>2. r.pc = ph /\ r.ids = q.ids /\ r.on = q.on /\ r.read = q.read
    BY <1>1 DEF Job
  <1> QED  BY <1>1, <1>2 DEF Phase

LEMMA StarterType ==
  ASSUME NEW ids \in SUBSET Endpoint, NEW force \in BOOLEAN
  PROVE  /\ Starter(ids, force) \in Job /\ Phase(Starter(ids, force))
         /\ Starter(ids, force).pc = "read"
  <1>1. PICK q \in Job : q = Starter(ids, force)
    BY NoJobType DEF Starter, Job, Phases
  <1>2. q.pc = "read"
    BY <1>1, NoJobType DEF Starter, Job
  <1> QED  BY <1>1, <1>2 DEF Phase, Active

(* One that has read the row of an endpoint. *)
LEMMA ReaderType ==
  ASSUME NEW e \in Endpoint, NEW read \in [{e} -> Row], NEW p \in Patch
  PROVE  LET q == [NoJob EXCEPT !.pc = "patch", !.ids = {e}, !.patch = p, !.read = read]
             r == [NoJob EXCEPT !.pc = "add", !.ids = {e}, !.read = read]
         IN  /\ q \in Job /\ Phase(q) /\ q.pc = "patch"
             /\ r \in Job /\ Phase(r) /\ r.pc = "add" /\ r.ids = {e}
  <1>1. read \in Reads
    <2>1. {e} \in SUBSET Endpoint
      OBVIOUS
    <2> QED  BY <2>1 DEF Reads
  <1>2. PICK q \in Job :
          q = [NoJob EXCEPT !.pc = "patch", !.ids = {e}, !.patch = p, !.read = read]
    BY <1>1, NoJobType DEF Job, Phases
  <1>3. q.pc = "patch" /\ q.ids = {e} /\ q.read = read
    BY <1>2, NoJobType DEF Job
  <1>4. PICK r \in Job : r = [NoJob EXCEPT !.pc = "add", !.ids = {e}, !.read = read]
    BY <1>1, NoJobType DEF Job, Phases, Active
  <1>5. r.pc = "add" /\ r.ids = {e} /\ r.read = read
    BY <1>4, NoJobType DEF Job
  <1> QED  BY <1>2, <1>3, <1>4, <1>5 DEF Phase

(* Elsewhere the goroutine is as it was. *)
LEMMA PlacedType ==
  ASSUME NEW q \in Job, NEW i \in Instance
  PROVE  LET r == [q EXCEPT !.on = i]
         IN  /\ r \in Job /\ r.on = i /\ r.pc = q.pc /\ r.ids = q.ids
             /\ Phase(q) => Phase(r)
  <1>1. PICK r \in Job : r = [q EXCEPT !.on = i]
    BY DEF Job
  <1>2. r.on = i /\ r.pc = q.pc /\ r.ids = q.ids /\ r.read = q.read
    BY <1>1 DEF Job
  <1> QED  BY <1>1, <1>2 DEF Phase


-------------------------------------------------------------------------------
(* Steps that leave discMap and DiscoveryUpdater alone *)

(* A row is written, with a new time stamp, or keeps its time stamp. *)
AgesKept ==
  \A e \in Endpoint :
    Exists(e)' => rows'[e].age = 0 \/ (Exists(e) /\ rows'[e].age = rows[e].age)

(* A goroutine goes on without entering or leaving discMap. *)
Follows(q, r) ==
  /\ r.pc \in Mapped <=> q.pc \in Mapped
  /\ r.pc \in Mapped => r.on = q.on /\ r.ids = q.ids

LEMMA Stays ==
  ASSUME IInv, TypeInv', UNCHANGED <<discMap, updater, due, up>>, AgesKept,
         \A s \in Slot :
           /\ Phase(job'[s]) /\ Follows(job[s], job'[s])
           /\ job'[s].pc # "none" => job'[s].on \in up
           /\ job'[s].pc = "add" =>
                \/ job[s].pc = "add" /\ job'[s].ids = job[s].ids
                \/ \A e \in job'[s].ids : Exists(e)' => rows'[e].age = 0,
         StartedHasJob'
  PROVE  IInv'
  <1>1. ASSUME NEW s \in Slot PROVE Refreshed(job[s])'
    <2>1. Refreshed(job[s]) /\ job[s].on \in Instance /\ job'[s].ids \subseteq Endpoint
          /\ Phase(job'[s]) /\ Follows(job[s], job'[s])
      BY JobType DEF IInv, TypeInv, Job
    <2>2. due[job[s].on] \in {0, 1, UpdateDue, Failing}
      BY <2>1 DEF IInv, TypeInv
    <2>3. job'[s].pc = "add" => \A e \in job'[s].ids : Exists(e)' => rows'[e].age = 0
      BY <2>1 DEF Refreshed, AgesKept
    <2>4. job'[s].pc \in Mapped =>
            \A e \in job'[s].ids : Exists(e)' => rows'[e].age <= due'[job'[s].on]
      BY <2>1, <2>2, Constants DEF Refreshed, AgesKept, Follows
    <2> QED  BY <2>3, <2>4 DEF Refreshed, Exists
  <1>2. \A i, e : InUse(i, e)' = InUse(i, e)
    BY DEF InUse, Follows
  <1>3. Counted' /\ Locked'
    BY <1>2 DEF IInv, Counted, Locked, InMap
  <1>4. \A s \in Slot : Phase(job[s])'
    BY DEF Phase
  <1> QED  BY <1>1, <1>3, <1>4 DEF IInv

(* Goroutines are started in free slots, or in that of the one that starts *)
(* them.                                                                   *)
LEMMA SpawnStep ==
  ASSUME IInv, UNCHANGED <<discMap, updater, due, up>>,
         rows' \in [Endpoint -> Row \cup {NoRow}], abandoned' \subseteq Endpoint,
         requests' \in 0 .. MaxRequests, faults' \in 0 .. MaxFaults, AgesKept,
         NEW i \in up, NEW free \in SUBSET Slot, NEW new \in SUBSET Job,
         Spawn(i, free, new),
         \A s \in free : job[s].pc \in {"none", "patch", "mark"},
         \A q \in new :
           /\ Phase(q) /\ q.pc \in {"read", "patch", "add"}
           /\ q.pc = "add" => \A e \in q.ids : Exists(e)' => rows'[e].age = 0,
         \A e \in Endpoint : Started(e)' =>
           \/ Started(e) /\ (e \in abandoned => e \in abandoned')
           \/ \E q \in new : q.pc = "add" /\ e \in q.ids
  PROVE  IInv'
  <1>1. i \in Instance /\ TypeInv
    BY DEF IInv, TypeInv
  <1>2. /\ job' \in [Slot -> Job]
        /\ \A s \in Slot \ free : job'[s] = job[s]
        /\ \A s \in free : \/ job'[s] = NoJob
                           \/ \E q \in new : job'[s] = [q EXCEPT !.on = i]
        /\ \A q \in new : \E s \in free : job'[s] = [q EXCEPT !.on = i]
    <2>1. PICK slots \in SUBSET free :
            \E place \in Onto(slots, new) :
              job' = [s \in Slot |-> IF s \in slots THEN [place[s] EXCEPT !.on = i]
                                     ELSE IF s \in free THEN NoJob ELSE job[s]]
      BY DEF Spawn, Lowest
    <2>2. PICK place \in Onto(slots, new) :
            job' = [s \in Slot |-> IF s \in slots THEN [place[s] EXCEPT !.on = i]
                                   ELSE IF s \in free THEN NoJob ELSE job[s]]
      BY <2>1
    <2>3. \A s \in slots : place[s] \in new /\ [place[s] EXCEPT !.on = i] \in Job
      BY <1>1, <2>2 DEF Onto, Job
    <2>4. job' \in [Slot -> Job]
      BY <1>1, <2>2, <2>3, NoJobType DEF TypeInv
    <2>5. \A s \in free : \/ job'[s] = NoJob
                          \/ \E q \in new : job'[s] = [q EXCEPT !.on = i]
      BY <2>2, <2>3
    <2>6. \A q \in new : \E s \in free : job'[s] = [q EXCEPT !.on = i]
      BY <2>2 DEF Onto
    <2> QED  BY <2>2, <2>4, <2>5, <2>6
  <1>3. TypeInv'
    BY <1>2 DEF IInv, TypeInv
  <1>4. \A q \in new : LET r == [q EXCEPT !.on = i]
                       IN  r.on = i /\ r.pc = q.pc /\ r.ids = q.ids /\ (Phase(q) => Phase(r))
    BY <1>1, PlacedType
  <1>5. ASSUME NEW s \in Slot
        PROVE  /\ Phase(job'[s]) /\ Follows(job[s], job'[s])
               /\ job'[s].pc # "none" => job'[s].on \in up
               /\ job'[s].pc = "add" =>
                    \/ job[s].pc = "add" /\ job'[s].ids = job[s].ids
                    \/ \A e \in job'[s].ids : Exists(e)' => rows'[e].age = 0
    <2>1. CASE s \notin free
      <3>1. job'[s] = job[s] /\ Phase(job[s]) /\ Refreshed(job[s])
        BY <1>2, <2>1 DEF IInv
      <3> QED  BY <3>1 DEF Follows, Refreshed
    <2>2. CASE s \in free /\ job'[s] = NoJob
      BY <2>2, NoJobType, Constants DEF Follows, Mapped
    <2>3. CASE s \in free /\ job'[s] # NoJob
      <3>1. PICK q \in new : job'[s] = [q EXCEPT !.on = i]
        BY <1>2, <2>3
      <3>2. /\ job'[s].on = i /\ job'[s].pc = q.pc /\ job'[s].ids = q.ids /\ Phase(job'[s])
            /\ q.pc \in {"read", "patch", "add"} /\ job[s].pc \in {"none", "patch", "mark"}
        BY <1>4, <2>3, <3>1
      <3> QED  BY <3>2 DEF Follows, Mapped
    <2> QED  BY <2>1, <2>2, <2>3
  <1>6. StartedHasJob'
    <2> SUFFICES ASSUME NEW e \in Endpoint, Started(e)'
                 PROVE  e \in abandoned' \/ \E s \in Slot : Discovers(s, e)'
      BY DEF StartedHasJob
    <2>1. CASE Started(e) /\ (e \in abandoned => e \in abandoned')
      <3>1. e \in abandoned \/ \E s \in Slot : Discovers(s, e)
        BY <2>1 DEF IInv, StartedHasJob
      <3>2. ASSUME NEW s \in Slot, Discovers(s, e) PROVE Discovers(s, e)'
        <4>1. s \notin free
          BY <3>2 DEF Discovers, Active
        <4> QED  BY <1>2, <3>2, <4>1 DEF Discovers
      <3> QED  BY <2>1, <3>1, <3>2
    <2>2. CASE \E q \in new : q.pc = "add" /\ e \in q.ids
      <3>1. PICK q \in new : q.pc = "add" /\ e \in q.ids
        BY <2>2
      <3>2. PICK s \in free : job'[s] = [q EXCEPT !.on = i]
        BY <1>2
      <3>3. job'[s].pc = "add" /\ e \in job'[s].ids
        BY <1>4, <3>1, <3>2
      <3> QED  BY <3>3 DEF Discovers, Active
    <2> QED  BY <2>1, <2>2
  <1> QED  BY <1>3, <1>5, <1>6, Stays

(* A goroutine is at another statement, or at its end. *)
LEMMA GoStep ==
  ASSUME IInv, UNCHANGED <<discMap, updater, due, up>>,
         rows' \in [Endpoint -> Row \cup {NoRow}], abandoned' \subseteq Endpoint,
         requests' \in 0 .. MaxRequests, faults' \in 0 .. MaxFaults, AgesKept,
         NEW s \in Slot, NEW r \in Job, job' = [job EXCEPT ![s] = r],
         Phase(r), Follows(job[s], r), r.pc \notin {"add"},
         r.pc # "none" => r.on \in up,
         \A e \in Endpoint : Started(e)' =>
           /\ Started(e) /\ (e \in abandoned => e \in abandoned')
           /\ Discovers(s, e) => e \in abandoned' \/ (r.pc \in Active /\ e \in r.ids)
  PROVE  IInv'
  <1>1. \A t \in Slot : job'[t] = IF t = s THEN r ELSE job[t]
    BY DEF IInv, TypeInv
  <1>2. TypeInv'
    BY DEF IInv, TypeInv
  <1>3. ASSUME NEW t \in Slot
        PROVE  /\ Phase(job'[t]) /\ Follows(job[t], job'[t])
               /\ job'[t].pc # "none" => job'[t].on \in up
               /\ job'[t].pc = "add" => job[t].pc = "add" /\ job'[t].ids = job[t].ids
    <2>1. CASE t = s
      BY <1>1, <2>1
    <2>2. CASE t # s
      <3>1. job'[t] = job[t] /\ Phase(job[t]) /\ Refreshed(job[t])
        BY <1>1, <2>2 DEF IInv
      <3> QED  BY <3>1 DEF Follows, Refreshed
    <2> QED  BY <2>1, <2>2
  <1>4. StartedHasJob'
    BY <1>1 DEF IInv, StartedHasJob, Discovers
  <1> QED  BY <1>2, <1>3, <1>4, Stays


-------------------------------------------------------------------------------
(* Requests and events *)

LEMMA DiscoverType ==
  ASSUME NEW force \in BOOLEAN
  PROVE  /\ \A ids \in SUBSET Endpoint : \A ep, update :
              /\ DiscoverFromEndpoints(ids, ep, update, force) \in SUBSET Job
              /\ \A q \in DiscoverFromEndpoints(ids, ep, update, force) :
                   Phase(q) /\ q.pc = "read"
         /\ \A e \in Endpoint : \A ep :
              /\ DiscoverFromEndpoint(e, ep, force) \in SUBSET Job
              /\ \A q \in DiscoverFromEndpoint(e, ep, force) : Phase(q) /\ q.pc = "read"
  <1>1. ASSUME NEW ids \in SUBSET Endpoint, NEW ep, NEW update
        PROVE  /\ DiscoverFromEndpoints(ids, ep, update, force) \in SUBSET Job
               /\ \A q \in DiscoverFromEndpoints(ids, ep, update, force) :
                    Phase(q) /\ q.pc = "read"
    <2> DEFINE filtered == {e \in ids : (update => ep[e].redisc) /\ ep[e].enabled}
    <2>1. filtered \in SUBSET Endpoint
      OBVIOUS
    <2>2. DiscoverFromEndpoints(ids, ep, update, force) \subseteq {Starter(filtered, force)}
      BY DEF DiscoverFromEndpoints
    <2> HIDE DEF filtered
    <2> QED  BY <2>1, <2>2, StarterType
  <1>2. ASSUME NEW e \in Endpoint, NEW ep
        PROVE  /\ DiscoverFromEndpoint(e, ep, force) \in SUBSET Job
               /\ \A q \in DiscoverFromEndpoint(e, ep, force) : Phase(q) /\ q.pc = "read"
    <2>1. {e} \in SUBSET Endpoint
      OBVIOUS
    <2>2. DiscoverFromEndpoint(e, ep, force) \subseteq {Starter({e}, force)}
      BY DEF DiscoverFromEndpoint
    <2> QED  BY <2>1, <2>2, StarterType
  <1> QED  BY <1>1, <1>2

(* A request that starts discoveries, or the update of a row before it. *)
LEMMA AskStep ==
  ASSUME IInv, NEW i \in Instance, Request(i), UNCHANGED abandoned,
         rows' \in [Endpoint -> Row \cup {NoRow}], AgesKept,
         \A e \in Endpoint : Started(e)' => Started(e),
         NEW new \in SUBSET Job, Spawn(i, Free, new),
         \A q \in new : Phase(q) /\ q.pc \in {"read", "patch"}
  PROVE  IInv'
  <1>1. /\ i \in up /\ UNCHANGED <<discMap, updater, due, up>>
        /\ abandoned' \subseteq Endpoint
        /\ requests' \in 0 .. MaxRequests /\ faults' \in 0 .. MaxFaults
    BY DiscoveryAssumption DEF Request, IInv, TypeInv
  <1>2. Free \in SUBSET Slot /\ \A s \in Free : job[s].pc = "none"
    BY DEF Free
  <1> QED  BY <1>1, <1>2, SpawnStep

LEMMA RowsSame ==
  ASSUME IInv, UNCHANGED rows
  PROVE  /\ rows' \in [Endpoint -> Row \cup {NoRow}] /\ AgesKept
         /\ \A e \in Endpoint : Started(e)' => Started(e)
  BY DEF IInv, TypeInv, AgesKept, Exists, Started

LEMMA RowsSet ==
  ASSUME IInv, NEW e \in Endpoint, Exists(e), NEW a \in BOOLEAN, NEW b \in BOOLEAN,
         rows' = [rows EXCEPT ![e].enabled = a, ![e].redisc = b]
  PROVE  /\ rows' \in [Endpoint -> Row \cup {NoRow}] /\ AgesKept
         /\ \A f \in Endpoint : Started(f)' => Started(f)
  <1>1. rows \in [Endpoint -> Row \cup {NoRow}] /\ rows[e] \in Row
    BY DEF IInv, TypeInv, Exists
  <1>2. rows' = [rows EXCEPT ![e] = [rows[e] EXCEPT !.enabled = a, !.redisc = b]]
    BY <1>1
  <1>3. PICK r \in Row : /\ r = [rows[e] EXCEPT !.enabled = a, !.redisc = b]
                         /\ r.age = rows[e].age /\ r.status = rows[e].status
    BY <1>1, SettingsType
  <1>4. rows' = [rows EXCEPT ![e] = r]
    BY <1>2, <1>3
  <1>5. \A f \in Endpoint : rows'[f] = IF f = e THEN r ELSE rows[f]
    BY <1>1, <1>4
  <1> QED  BY <1>1, <1>3, <1>4, <1>5 DEF AgesKept, Started, Exists

LEMMA DeleteStep ==
  ASSUME IInv, NEW i \in Instance, Request(i), NEW ids \in SUBSET Endpoint, Deleted(ids)
  PROVE  IInv'
  <1>1. /\ UNCHANGED <<discMap, updater, due, up, faults, job>>
        /\ requests' \in 0 .. MaxRequests /\ abandoned' = abandoned \ ids
        /\ rows' = [e \in Endpoint |-> IF e \in ids THEN NoRow ELSE rows[e]]
    BY DiscoveryAssumption DEF Request, Deleted, IInv, TypeInv
  <1>2. TypeInv'
    BY <1>1 DEF IInv, TypeInv
  <1>3. AgesKept
    BY <1>1 DEF AgesKept, Exists
  <1>4. StartedHasJob'
    BY <1>1 DEF IInv, StartedHasJob, Started, Exists, Discovers
  <1>5. \A s \in Slot : Phase(job[s]) /\ Refreshed(job[s])
    BY DEF IInv
  <1> QED  BY <1>1, <1>2, <1>3, <1>4, <1>5, Stays DEF Refreshed, Follows

LEMMA RequestsStep ==
  ASSUME IInv, NEW i \in Instance, RequestStep(i)
  PROVE  IInv'
  <1>1. ASSUME NEW ids \in SUBSET Endpoint, NEW s \in Settings,
               DoRedfishEndpointsPost(i, ids, s)
        PROVE  IInv'
    <2> DEFINE new == DiscoverFromEndpoints(ids, rows', TRUE, FALSE)
    <2>1. /\ Request(i) /\ UNCHANGED abandoned /\ Spawn(i, Free, new)
          /\ rows' = [e \in Endpoint |-> IF e \in ids THEN New(s) ELSE rows[e]]
      BY <1>1 DEF DoRedfishEndpointsPost
    <2>2. /\ rows' \in [Endpoint -> Row \cup {NoRow}] /\ AgesKept
          /\ \A e \in Endpoint : Started(e)' => Started(e)
      BY <2>1, NewType DEF IInv, TypeInv, AgesKept, Exists, Started
    <2>3. new \in SUBSET Job /\ \A q \in new : Phase(q) /\ q.pc = "read"
      BY DiscoverType
    <2> HIDE DEF new
    <2> QED  BY <2>1, <2>2, <2>3, AskStep
  <1>2. ASSUME NEW e \in Endpoint, NEW s \in Settings, DoRedfishEndpointPut(i, e, s)
        PROVE  IInv'
    <2> DEFINE new == DiscoverFromEndpoint(e, rows'[e], FALSE)
    <2>1. /\ Request(i) /\ Exists(e) /\ UNCHANGED abandoned /\ Spawn(i, Free, new)
          /\ rows' = [rows EXCEPT ![e].enabled = s.enabled, ![e].redisc = s.redisc]
      BY <1>2 DEF DoRedfishEndpointPut
    <2>2. s.enabled \in BOOLEAN /\ s.redisc \in BOOLEAN
      BY DiscoveryAssumption DEF Setting
    <2>3. new \in SUBSET Job /\ \A q \in new : Phase(q) /\ q.pc = "read"
      BY DiscoverType
    <2> HIDE DEF new
    <2> QED  BY <2>1, <2>2, <2>3, RowsSet, AskStep
  <1>3. ASSUME NEW e \in Endpoint, NEW p \in Patches, DoRedfishEndpointPatch(i, e, p)
        PROVE  IInv'
    <2>1. Request(i) /\ UNCHANGED abandoned /\ rows[e] \in Row /\ UNCHANGED rows
      BY <1>3 DEF DoRedfishEndpointPatch, Exists, IInv, TypeInv
    <2>2. ASSUME Spawn(i, Free, DiscoverFromEndpoint(e, rows[e], FALSE)) PROVE IInv'
      <3> DEFINE new == DiscoverFromEndpoint(e, rows[e], FALSE)
      <3>1. new \in SUBSET Job /\ \A q \in new : Phase(q) /\ q.pc = "read"
        BY DiscoverType
      <3>2. Spawn(i, Free, new)
        BY <2>2
      <3> HIDE DEF new
      <3> QED  BY <2>1, <3>1, <3>2, RowsSame, AskStep
    <2>3. ASSUME Spawn(i, Free, {[NoJob EXCEPT !.pc = "patch", !.ids = {e}, !.patch = p,
                                    !.read = [f \in {e} |-> Content(rows[e])]]})
          PROVE  IInv'
      <3>1. PICK q \in Job :
              /\ q = [NoJob EXCEPT !.pc = "patch", !.ids = {e}, !.patch = p,
                                   !.read = [f \in {e} |-> Content(rows[e])]]
              /\ Phase(q) /\ q.pc = "patch"
        <4> DEFINE read == [f \in {e} |-> Content(rows[e])]
        <4>1. read \in [{e} -> Row] /\ p \in Patch
          BY <2>1, ContentType, DiscoveryAssumption
        <4> HIDE DEF read
        <4>2. LET q == [NoJob EXCEPT !.pc = "patch", !.ids = {e}, !.patch = p, !.read = read]
              IN  q \in Job /\ Phase(q) /\ q.pc = "patch"
          BY <4>1, ReaderType
        <4> QED  BY <4>2 DEF read
      <3>2. Spawn(i, Free, {q})
        BY <2>3, <3>1
      <3>3. {q} \in SUBSET Job /\ \A r \in {q} : Phase(r) /\ r.pc = "patch"
        BY <3>1
      <3> DEFINE new == {q}
      <3> HIDE DEF new
      <3>4. Spawn(i, Free, new) /\ new \in SUBSET Job /\ \A r \in new : Phase(r) /\ r.pc = "patch"
        BY <3>2, <3>3 DEF new
      <3> QED  BY <2>1, <3>4, RowsSame, AskStep
    <2> QED  BY <1>3, <2>2, <2>3 DEF DoRedfishEndpointPatch
  <1>4. ASSUME NEW e \in Endpoint, DoRedfishEndpointDelete(i, e) PROVE IInv'
    BY <1>4, DeleteStep DEF DoRedfishEndpointDelete
  <1>5. ASSUME DoRedfishEndpointsDeleteAll(i) PROVE IInv'
    BY <1>5, DeleteStep DEF DoRedfishEndpointsDeleteAll
  <1>6. ASSUME NEW ids \in SUBSET Endpoint, NEW force \in BOOLEAN,
               DoInventoryDiscoverPost(i, ids, force)
        PROVE  IInv'
    <2> DEFINE new == DiscoverFromEndpoints(ids, rows, FALSE, force)
    <2>1. Request(i) /\ UNCHANGED <<abandoned, rows>> /\ Spawn(i, Free, new)
      BY <1>6 DEF DoInventoryDiscoverPost
    <2>2. new \in SUBSET Job /\ \A q \in new : Phase(q) /\ q.pc = "read"
      BY DiscoverType
    <2> HIDE DEF new
    <2> QED  BY <2>1, <2>2, RowsSame, AskStep
  <1>7. ASSUME NEW e \in Endpoint, PowerStateCMM(i, e) PROVE IInv'
    <2> DEFINE new == DiscoverFromEndpoint(e, rows[e], FALSE)
    <2>1. Request(i) /\ UNCHANGED <<abandoned, rows>> /\ Spawn(i, Free, new)
      BY <1>7 DEF PowerStateCMM
    <2>2. new \in SUBSET Job /\ \A q \in new : Phase(q) /\ q.pc = "read"
      BY DiscoverType
    <2> HIDE DEF new
    <2> QED  BY <2>1, <2>2, RowsSame, AskStep
  <1> QED
    BY <1>1, <1>2, <1>3, <1>4, <1>5, <1>6, <1>7, DiscoveryAssumption DEF RequestStep


-------------------------------------------------------------------------------
(* Discoveries *)

(* Whole rows are written as they were read. *)
LEMMA Written ==
  ASSUME IInv, NEW ids \in SUBSET Endpoint, NEW read, \A e \in ids : read[e] \in Row,
         NEW status \in Status, rows' = [e \in Endpoint |-> rows'[e]],
         \A e \in ids : rows'[e] = Write(e, read[e], status),
         \A e \in Endpoint \ ids : rows'[e] = rows[e]
  PROVE  /\ rows' \in [Endpoint -> Row \cup {NoRow}] /\ AgesKept
         /\ \A e \in Endpoint : Exists(e)' <=> Exists(e)
         /\ \A e \in ids : Exists(e)' => rows'[e].age = 0 /\ rows'[e].status = status
  <1>1. \A e \in Endpoint : rows[e] \in Row \cup {NoRow}
    BY DEF IInv, TypeInv
  <1>2. \A e \in ids : /\ rows'[e] = Write(e, read[e], status)
                       /\ rows'[e] \in Row \cup {NoRow}
                       /\ rows'[e] = NoRow <=> rows[e] = NoRow
                       /\ Exists(e) => rows'[e].age = 0 /\ rows'[e].status = status
    BY WriteType DEF Exists
  <1>3. \A e \in Endpoint \ ids : rows'[e] = rows[e]
    OBVIOUS
  <1>4. rows' \in [Endpoint -> Row \cup {NoRow}]
    BY <1>1, <1>2, <1>3
  <1>5. \A e \in Endpoint : Exists(e)' <=> Exists(e)
    BY <1>2, <1>3 DEF Exists
  <1> QED  BY <1>2, <1>3, <1>4, <1>5 DEF AgesKept, Exists

LEMMA UpdatePatchedStep ==
  ASSUME IInv, NEW s \in Slot, UpdatePatched(s)
  PROVE  IInv'
  <1>1. job[s] \in Job /\ Phase(job[s]) /\ Refreshed(job[s]) /\ job[s].pc = "patch"
    BY DEF IInv, TypeInv, UpdatePatched
  <1>2. PICK e \in Endpoint : job[s].ids = {e} /\ job[s].read \in [{e} -> Row]
    BY <1>1 DEF Phase
  <1>3. /\ UNCHANGED <<discMap, updater, due, up>> /\ abandoned' \subseteq Endpoint
        /\ requests' \in 0 .. MaxRequests /\ faults' \in 0 .. MaxFaults
        /\ UNCHANGED abandoned
    BY DEF UpdatePatched, IInv, TypeInv
  <1> DEFINE ep == Patched(job[s].read[e], job[s].patch)
             i == job[s].on
  <1>4. ep \in Row /\ i \in up
    BY <1>1, <1>2, GivenType DEF Job, Refreshed
  <1> HIDE DEF ep
  <1>5. CASE Exists(e)
    <2> DEFINE new == DiscoverFromEndpoint(e, rows'[e], FALSE)
               free == Free \cup {s}
    <2>1. /\ rows' = [rows EXCEPT ![e].enabled = ep.enabled, ![e].redisc = ep.redisc]
          /\ Spawn(i, free, new)
      BY <1>2, <1>5 DEF UpdatePatched, ep
    <2>2. new \in SUBSET Job /\ \A q \in new : Phase(q) /\ q.pc = "read"
      BY DiscoverType
    <2>3. free \in SUBSET Slot /\ \A t \in free : job[t].pc \in {"none", "patch"}
      BY <1>1 DEF Free
    <2>4. ep.enabled \in BOOLEAN /\ ep.redisc \in BOOLEAN
      BY <1>4 DEF Row
    <2>5. /\ rows' \in [Endpoint -> Row \cup {NoRow}] /\ AgesKept
          /\ \A f \in Endpoint : Started(f)' => Started(f)
      BY <1>5, <2>1, <2>4, RowsSet
    <2> HIDE DEF new, free
    <2> QED  BY <1>3, <1>4, <2>1, <2>2, <2>3, <2>5, SpawnStep
  <1>6. CASE ~ Exists(e)
    <2>1. UNCHANGED rows /\ job' = [job EXCEPT ![s] = NoJob]
      BY <1>2, <1>6 DEF UpdatePatched, Goto
    <2>2. \A f : ~ Discovers(s, f)
      BY <1>1 DEF Discovers, Active
    <2>3. Follows(job[s], NoJob)
      BY <1>1, NoJobType DEF Follows, Mapped
    <2> QED  BY <1>1, <1>3, <2>1, <2>2, <2>3, NoJobType, RowsSame, GoStep
  <1> QED  BY <1>5, <1>6

LEMMA ReadForDiscoverStep ==
  ASSUME IInv, NEW s \in Slot, ReadForDiscover(s)
  PROVE  IInv'
  <1>1. job[s] \in Job /\ Phase(job[s]) /\ Refreshed(job[s]) /\ job[s].pc = "read"
    BY DEF IInv, TypeInv, ReadForDiscover
  <1>2. /\ UNCHANGED <<discMap, updater, due, up>> /\ UNCHANGED <<abandoned, rows>>
        /\ abandoned' \subseteq Endpoint
        /\ requests' \in 0 .. MaxRequests /\ faults' \in 0 .. MaxFaults
    BY DEF ReadForDiscover, Local, IInv, TypeInv
  <1>3. \A f : ~ Discovers(s, f)
    BY <1>1 DEF Discovers, Active
  <1>4. CASE AllFound(job[s].ids)
    <2> DEFINE read == [e \in job[s].ids |-> Read(e)]
    <2>1. \A e \in job[s].ids : Read(e) \in Row
      BY <1>1, <1>4, ContentType DEF AllFound, Exists, Read, Job, IInv, TypeInv
    <2>2. read \in [job[s].ids -> Row]
      BY <2>1
    <2>3. job' = [job EXCEPT ![s] = [job[s] EXCEPT !.pc = "mark", !.read = read]]
      BY <1>4 DEF ReadForDiscover
    <2> HIDE DEF read
    <2>4. read \in Reads
      BY <1>1, <2>2 DEF Reads, Job
    <2>5. PICK r \in Job : r = [job[s] EXCEPT !.pc = "mark", !.read = read]
      BY <1>1, <2>4 DEF Job, Phases
    <2>6. r.pc = "mark" /\ r.read = read /\ r.ids = job[s].ids /\ r.on = job[s].on
      BY <1>1, <2>5 DEF Job
    <2>7. Phase(r) /\ Follows(job[s], r)
      BY <1>1, <2>2, <2>6 DEF Phase, Follows, Active, Mapped
    <2>8. job' = [job EXCEPT ![s] = r] /\ r.on \in up
      BY <1>1, <2>3, <2>5, <2>6 DEF Refreshed
    <2> QED  BY <1>2, <1>3, <2>6, <2>7, <2>8, RowsSame, GoStep
  <1>5. CASE ~ AllFound(job[s].ids)
    <2>1. job' = [job EXCEPT ![s] = NoJob]
      BY <1>5 DEF ReadForDiscover
    <2>2. Follows(job[s], NoJob)
      BY <1>1, NoJobType DEF Follows, Mapped
    <2> QED  BY <1>2, <1>3, <2>1, <2>2, NoJobType, RowsSame, GoStep
  <1> QED  BY <1>4, <1>5

LEMMA MarkForDiscoverStep ==
  ASSUME IInv, NEW s \in Slot, MarkForDiscover(s)
  PROVE  IInv'
  <1> DEFINE read == job[s].read
             ids == ForDiscover(job[s].ids, read, job[s].force)
             began(e) == [NoJob EXCEPT !.pc = "add", !.ids = {e},
                                       !.read = [f \in {e} |-> Content(read[e])]]
             new == {began(e) : e \in ids}
             free == Free \cup {s}
             i == job[s].on
  <1>1. /\ job[s] \in Job /\ Phase(job[s]) /\ Refreshed(job[s]) /\ job[s].pc = "mark"
    BY DEF IInv, TypeInv, MarkForDiscover
  <1>2. ids \in SUBSET Endpoint /\ \A e \in ids : read[e] \in Row
    BY <1>1 DEF ForDiscover, Job, Phase
  <1>3. /\ UNCHANGED <<discMap, updater, due, up>> /\ abandoned' \subseteq Endpoint
        /\ requests' \in 0 .. MaxRequests /\ faults' \in 0 .. MaxFaults
        /\ abandoned' = abandoned \ ids
        /\ rows' = Marked(ids, read)
        /\ Spawn(i, free, new)
    BY DEF MarkForDiscover, IInv, TypeInv
  <1>4. ASSUME NEW e \in ids
        PROVE  began(e) \in Job /\ Phase(began(e)) /\ began(e).pc = "add" /\ began(e).ids = {e}
    <2> DEFINE got == [f \in {e} |-> Content(read[e])]
    <2>1. got \in [{e} -> Row] /\ e \in Endpoint
      BY <1>2, ContentType
    <2>2. NoPatch \in Patch
      BY DEF NoPatch, Patch
    <2> HIDE DEF got
    <2>3. LET q == [NoJob EXCEPT !.pc = "add", !.ids = {e}, !.read = got]
          IN  q \in Job /\ Phase(q) /\ q.pc = "add" /\ q.ids = {e}
      BY <2>1, <2>2, ReaderType
    <2> QED  BY <2>3 DEF got
  <1> HIDE DEF began
  <1>5. /\ new \in SUBSET Job
        /\ \A q \in new : Phase(q) /\ q.pc = "add" /\ \E e \in ids : q.ids = {e}
        /\ \A e \in ids : \E q \in new : q.pc = "add" /\ e \in q.ids
    BY <1>4
  <1>6. free \in SUBSET Slot /\ \A t \in free : job[t].pc \in {"none", "mark"}
    BY <1>1 DEF Free
  <1>7. i \in up
    BY <1>1 DEF Refreshed
  <1> HIDE DEF new, free, ids, i, read
  <1>8. /\ rows' \in [Endpoint -> Row \cup {NoRow}] /\ AgesKept
        /\ \A e \in ids : Exists(e)' => rows'[e].age = 0
        /\ \A e \in Endpoint \ ids : rows'[e] = rows[e]
    <2> DEFINE status == "DiscoveryStarted"
    <2>1. status \in Status
      BY DEF Status
    <2>2. rows' = [e \in Endpoint |-> IF e \in ids THEN Write(e, read[e], status) ELSE rows[e]]
      BY <1>3 DEF Marked
    <2> HIDE DEF status
    <2>3. PICK S \in SUBSET Endpoint : S = ids
      BY <1>2
    <2>4. PICK was : was = read
      OBVIOUS
    <2>5. /\ \A e \in S : was[e] \in Row /\ rows'[e] = Write(e, was[e], status)
          /\ \A e \in Endpoint \ S : rows'[e] = rows[e]
          /\ rows' = [e \in Endpoint |-> rows'[e]]
      BY <1>2, <2>2, <2>3, <2>4
    <2>6. /\ rows' \in [Endpoint -> Row \cup {NoRow}] /\ AgesKept
          /\ \A e \in S : Exists(e)' => rows'[e].age = 0
      BY <2>1, <2>5, Written
    <2> QED  BY <2>3, <2>5, <2>6
  <1>9. \A e \in Endpoint : Started(e)' =>
          \/ Started(e) /\ (e \in abandoned => e \in abandoned')
          \/ \E q \in new : q.pc = "add" /\ e \in q.ids
    BY <1>3, <1>5, <1>8 DEF Started, Exists
  <1>10. \A q \in new :
           /\ Phase(q) /\ q.pc \in {"read", "patch", "add"}
           /\ q.pc = "add" => \A e \in q.ids : Exists(e)' => rows'[e].age = 0
    BY <1>5, <1>8
  <1> QED  BY <1>3, <1>5, <1>6, <1>7, <1>8, <1>9, <1>10, SpawnStep

LEMMA QueryStep ==
  ASSUME IInv, NEW s \in Slot, GetRootInfo(s)
  PROVE  IInv'
  <1>1. job[s] \in Job /\ Phase(job[s]) /\ Refreshed(job[s]) /\ job[s].pc = "query"
    BY DEF IInv, TypeInv, GetRootInfo
  <1>2. /\ UNCHANGED <<discMap, updater, due, up>> /\ UNCHANGED <<abandoned, rows>>
        /\ abandoned' \subseteq Endpoint
        /\ requests' \in 0 .. MaxRequests /\ faults' \in 0 .. MaxFaults
    BY DEF GetRootInfo, Local, IInv, TypeInv
  <1>3. PICK ph \in {"okremove", "failremove"} :
          job' = [job EXCEPT ![s] = [job[s] EXCEPT !.pc = ph]]
    BY DEF GetRootInfo, Goto
  <1>4. ph \in Phases /\ job[s].pc \in Active
    BY <1>1 DEF Phases, Active
  <1>5. PICK r \in Job : r = [job[s] EXCEPT !.pc = ph]
    BY <1>1, <1>4, GotoType
  <1>6. r.pc = ph /\ r.ids = job[s].ids /\ r.on = job[s].on /\ Phase(r)
    BY <1>1, <1>4, <1>5, GotoType
  <1>7. Follows(job[s], r) /\ r.on \in up /\ r.pc \in Active
    BY <1>1, <1>6 DEF Follows, Mapped, Refreshed, Active
  <1>8. \A f : Discovers(s, f) => f \in r.ids
    BY <1>6 DEF Discovers
  <1> QED  BY <1>2, <1>3, <1>5, <1>6, <1>7, <1>8, RowsSame, GoStep

(* The end of a discovery, and what becomes of one that fails. *)
LEMMA FinishStep ==
  ASSUME IInv, NEW s \in Slot, job[s].pc \in {"failed", "storefailed", "store"},
         NEW status \in Status, status # "DiscoveryStarted", Finish(s, status)
  PROVE  IInv'
  <1>1. job[s] \in Job /\ Phase(job[s]) /\ job[s].pc \in Active \ Mapped
    BY DEF IInv, TypeInv, Active, Mapped
  <1>2. PICK ids \in SUBSET Endpoint : ids = job[s].ids
    BY <1>1 DEF Job
  <1>3. PICK read : read = job[s].read
    OBVIOUS
  <1>4. /\ UNCHANGED <<discMap, updater, due, up>> /\ abandoned' = abandoned \ ids
        /\ abandoned' \subseteq Endpoint
        /\ requests' \in 0 .. MaxRequests /\ faults' \in 0 .. MaxFaults
        /\ job' = [job EXCEPT ![s] = NoJob]
    BY <1>2 DEF Finish, Local, Goto, IInv, TypeInv
  <1>5. /\ rows' = [e \in Endpoint |-> rows'[e]]
        /\ \A e \in ids : rows'[e] = Write(e, read[e], status)
        /\ \A e \in Endpoint \ ids : rows'[e] = rows[e]
    BY <1>2, <1>3 DEF Finish
  <1>6. \A e \in ids : read[e] \in Row
    BY <1>1, <1>2, <1>3 DEF Phase
  <1>7. /\ rows' \in [Endpoint -> Row \cup {NoRow}] /\ AgesKept
        /\ \A e \in ids : Exists(e)' => rows'[e].status = status
    <2>1. ASSUME NEW st \in Status, st = status
          PROVE  /\ rows' \in [Endpoint -> Row \cup {NoRow}] /\ AgesKept
                 /\ \A e \in ids : Exists(e)' => rows'[e].status = st
      <3>1. \A e \in ids : rows'[e] = Write(e, read[e], st)
        BY <1>5, <2>1
      <3> HIDE <2>1
      <3> QED  BY <1>5, <1>6, <3>1, Written
    <2> QED  BY <2>1
  <1>8. \A e \in Endpoint : Started(e)' =>
          Started(e) /\ (e \in abandoned => e \in abandoned') /\ ~ Discovers(s, e)
    BY <1>2, <1>4, <1>5, <1>7 DEF Started, Exists, Discovers
  <1>9. Follows(job[s], NoJob)
    BY <1>1, NoJobType DEF Follows, Mapped
  <1> QED  BY <1>4, <1>7, <1>8, <1>9, NoJobType, GoStep

LEMMA UpdateRFEndpointStep ==
  ASSUME IInv, NEW s \in Slot, UpdateRFEndpoint(s)
  PROVE  IInv'
  <1>1. job[s].pc \in {"failed", "storefailed"}
    BY DEF UpdateRFEndpoint
  <1>2. CASE Finish(s, IF job[s].pc = "failed" THEN "Failed" ELSE "StoreFailed")
    <2>1. PICK status \in Status : status # "DiscoveryStarted" /\ Finish(s, status)
      <3>1. {"Failed", "StoreFailed"} \subseteq Status \ {"DiscoveryStarted"}
        BY DEF Status
      <3> QED  BY <1>2, <3>1
    <2> QED  BY <1>1, <2>1, FinishStep
  <1>3. CASE /\ faults < MaxFaults /\ faults' = faults + 1
             /\ abandoned' = abandoned \cup job[s].ids
             /\ Goto(s, "none") /\ UNCHANGED <<rows, discMap>> /\ Local
    <2>1. job[s] \in Job /\ TypeInv
      BY DEF IInv, TypeInv
    <2>2. /\ UNCHANGED <<discMap, updater, due, up, rows>>
          /\ abandoned' = abandoned \cup job[s].ids /\ abandoned' \subseteq Endpoint
          /\ requests' \in 0 .. MaxRequests
          /\ job' = [job EXCEPT ![s] = NoJob]
      BY <1>3, <2>1 DEF Local, Goto, TypeInv, Job
    <2>3. faults' \in 0 .. MaxFaults
      BY <1>3, <2>1, DiscoveryAssumption DEF TypeInv
    <2>4. Follows(job[s], NoJob)
      BY <1>1, NoJobType DEF Follows, Mapped
    <2>5. \A e : Discovers(s, e) => e \in abandoned'
      BY <2>2 DEF Discovers
    <2> QED  BY <2>2, <2>3, <2>4, <2>5, NoJobType, RowsSame, GoStep
  <1> QED  BY <1>2, <1>3 DEF UpdateRFEndpoint

LEMMA UpdateAllForRFEndpointStep ==
  ASSUME IInv, NEW s \in Slot, UpdateAllForRFEndpoint(s)
  PROVE  IInv'
  <1>1. job[s] \in Job /\ Phase(job[s]) /\ Refreshed(job[s]) /\ job[s].pc = "store"
    BY DEF IInv, TypeInv, UpdateAllForRFEndpoint
  <1>2. CASE Finish(s, "DiscoverOK")
    <2>1. PICK status \in Status : status # "DiscoveryStarted" /\ Finish(s, status)
      BY <1>2 DEF Status
    <2> QED  BY <1>1, <2>1, FinishStep
  <1>3. CASE /\ Goto(s, "storefailed") /\ UNCHANGED <<rows, discMap, abandoned>> /\ Local
             /\ faults' = faults \/ (faults < MaxFaults /\ faults' = faults + 1)
    <2>1. /\ UNCHANGED <<discMap, updater, due, up>> /\ UNCHANGED <<rows, abandoned>>
          /\ abandoned' \subseteq Endpoint /\ requests' \in 0 .. MaxRequests
      BY <1>3 DEF Local, IInv, TypeInv
    <2>2. faults' \in 0 .. MaxFaults
      BY <1>3, DiscoveryAssumption DEF IInv, TypeInv
    <2> DEFINE ph == "storefailed"
    <2>3. ph \in Phases /\ ph \in Active \ Mapped /\ job[s].pc \in Active \ Mapped
          /\ ph # "add" /\ ph # "none"
      BY <1>1 DEF Phases, Active, Mapped
    <2>4. job' = [job EXCEPT ![s] = [job[s] EXCEPT !.pc = ph]]
      BY <1>3 DEF Goto
    <2> HIDE DEF ph
    <2>5. PICK r \in Job : r = [job[s] EXCEPT !.pc = ph]
      BY <1>1, <2>3, GotoType
    <2>6. r.pc = ph /\ r.ids = job[s].ids /\ r.on = job[s].on /\ Phase(r)
      BY <1>1, <2>3, <2>5, GotoType
    <2>7. Follows(job[s], r) /\ r.on \in up /\ r.pc \in Active
      BY <1>1, <2>3, <2>6 DEF Follows, Refreshed
    <2>8. \A f : Discovers(s, f) => f \in r.ids
      BY <2>6 DEF Discovers
    <2> QED  BY <2>1, <2>2, <2>3, <2>4, <2>5, <2>6, <2>7, <2>8, RowsSame, GoStep
  <1> QED  BY <1>2, <1>3 DEF UpdateAllForRFEndpoint, Local

-------------------------------------------------------------------------------
(* The goroutines in discMap *)

LEMMA InUseFinite ==
  ASSUME NEW i, NEW e
  PROVE  IsFiniteSet(InUse(i, e)) /\ Cardinality(InUse(i, e)) \in Nat
  <1>1. IsFiniteSet(Slot)
    BY FS_Interval, DiscoveryAssumption DEF Slot
  <1>2. InUse(i, e) \subseteq Slot
    BY DEF InUse
  <1> QED  BY <1>1, <1>2, FS_Subset, FS_CardinalityType

(* A goroutine enters or leaves it: nobody holds the lock. *)
LEMMA MapStep ==
  ASSUME IInv, TypeInv', UNCHANGED <<rows, updater, due, up, requests, faults, abandoned>>,
         NEW s \in Slot, \A t \in Slot \ {s} : job'[t] = job[t],
         Phase(job'[s]), Refreshed(job'[s]),
         job[s].pc \in Active, job'[s].pc \in Active,
         job'[s].on = job[s].on, job'[s].ids = job[s].ids, MapUnlocked(job[s].on),
         \A j \in Instance, f \in Endpoint :
           discMap'[j][f] = IF j = job[s].on /\ f \in job[s].ids
                            THEN Cardinality(InUse(j, f)') ELSE discMap[j][f]
  PROVE  IInv'
  <1>1. \A t \in Slot : Phase(job[t])' /\ Refreshed(job[t])'
    BY DEF IInv, Phase, Refreshed, Exists
  <1>2. \A j, f : ~ (j = job[s].on /\ f \in job[s].ids) => InUse(j, f)' = InUse(j, f)
    BY DEF InUse
  <1>3. Counted'
    BY <1>2 DEF IInv, Counted
  <1>4. Locked'
    <2> SUFFICES ASSUME NEW j \in Instance, updater[j] # NoRead
                 PROVE  DOMAIN updater[j] = InMap(j)'
      BY DEF Locked
    <2>1. j # job[s].on
      BY DEF MapUnlocked
    <2>2. InMap(j)' = InMap(j)
      BY <2>1 DEF InMap
    <2> QED  BY <2>2 DEF IInv, Locked
  <1>5. StartedHasJob'
    BY DEF IInv, StartedHasJob, Started, Exists, Discovers
  <1> QED  BY <1>1, <1>3, <1>4, <1>5 DEF IInv

LEMMA DiscoveryMapAddStep ==
  ASSUME IInv, NEW s \in Slot, DiscoveryMapAdd(s)
  PROVE  IInv'
  <1>1. job[s] \in Job /\ Phase(job[s]) /\ Refreshed(job[s]) /\ job[s].pc = "add"
    BY DEF IInv, TypeInv, DiscoveryMapAdd
  <1>2. PICK e \in Endpoint : job[s].ids = {e}
    BY <1>1 DEF Phase, Active
  <1>3. PICK i \in Instance : i = job[s].on
    BY <1>1 DEF Job
  <1> DEFINE ph == "query"
  <1>4. /\ UNCHANGED <<rows, updater, due, up, requests, faults, abandoned>>
        /\ job' = [job EXCEPT ![s] = [job[s] EXCEPT !.pc = ph]]
        /\ discMap' = [discMap EXCEPT ![i][e] = @ + 1] /\ MapUnlocked(i)
    BY <1>2, <1>3 DEF DiscoveryMapAdd, Goto, Local
  <1>5. ph \in Phases /\ ph \in Active /\ ph \in Mapped /\ ph # "add" /\ ph # "none"
        /\ job[s].pc \in Active /\ job[s].pc \notin Mapped
    BY <1>1 DEF Phases, Active, Mapped
  <1> HIDE DEF ph
  <1>6. PICK r \in Job : r = [job[s] EXCEPT !.pc = ph]
    BY <1>1, <1>5, GotoType
  <1>7. r.pc = ph /\ r.ids = {e} /\ r.on = i /\ Phase(r)
    BY <1>1, <1>2, <1>3, <1>5, <1>6, GotoType
  <1>8. Refreshed(r)
    <2>1. due[i] \in Nat /\ \A f \in r.ids : Exists(f) => rows[f].age = 0
      BY <1>1, <1>2, <1>7, Constants DEF Refreshed, IInv, TypeInv
    <2> QED  BY <1>1, <1>3, <1>5, <1>7, <2>1 DEF Refreshed
  <1>9. InUse(i, e)' = InUse(i, e) \cup {s} /\ s \notin InUse(i, e)
    BY <1>4, <1>5, <1>6, <1>7 DEF InUse, IInv, TypeInv
  <1>10. discMap[i][e] = Cardinality(InUse(i, e)) /\ discMap[i][e] \in Nat
    BY DEF IInv, TypeInv, Counted
  <1>11. Cardinality(InUse(i, e)') = discMap[i][e] + 1
    <2>1. PICK S : S = InUse(i, e)
      OBVIOUS
    <2>2. IsFiniteSet(S) /\ s \notin S
      BY <1>9, <2>1, InUseFinite
    <2>3. Cardinality(S \cup {s}) = Cardinality(S) + 1
      BY <2>2, FS_AddElement
    <2> QED  BY <1>9, <1>10, <2>1, <2>3
  <1>12. PICK n \in Nat : n = discMap[i][e] + 1
    BY <1>10
  <1>13. discMap' = [discMap EXCEPT ![i][e] = n]
    BY <1>4, <1>12
  <1>14. TypeInv' /\ job'[s] = r /\ \A t \in Slot \ {s} : job'[t] = job[t]
    BY <1>4, <1>6, <1>13 DEF IInv, TypeInv
  <1>15. \A j \in Instance, f \in Endpoint :
           discMap'[j][f] = IF j = job[s].on /\ f \in job[s].ids
                            THEN Cardinality(InUse(j, f)') ELSE discMap[j][f]
    BY <1>2, <1>3, <1>11, <1>12, <1>13 DEF IInv, TypeInv
  <1>16. /\ Phase(job'[s]) /\ Refreshed(job'[s])
         /\ job[s].pc \in Active /\ job'[s].pc \in Active
         /\ job'[s].on = job[s].on /\ job'[s].ids = job[s].ids /\ MapUnlocked(job[s].on)
    BY <1>2, <1>3, <1>4, <1>5, <1>7, <1>8, <1>14
  <1> QED  BY <1>4, <1>14, <1>15, <1>16, MapStep

LEMMA DiscoveryMapRemoveStep ==
  ASSUME IInv, NEW s \in Slot, DiscoveryMapRemove(s)
  PROVE  IInv'
  <1>1. job[s] \in Job /\ Phase(job[s]) /\ Refreshed(job[s])
        /\ job[s].pc \in {"okremove", "failremove"}
    BY DEF IInv, TypeInv, DiscoveryMapRemove
  <1>2. PICK e \in Endpoint : job[s].ids = {e}
    BY <1>1 DEF Phase, Active
  <1>3. PICK i \in Instance : i = job[s].on
    BY <1>1 DEF Job
  <1> DEFINE ph == IF job[s].pc = "okremove" THEN "store" ELSE "failed"
  <1>4. /\ UNCHANGED <<rows, updater, due, up, requests, faults, abandoned>>
        /\ job' = [job EXCEPT ![s] = [job[s] EXCEPT !.pc = ph]]
        /\ discMap' = [discMap EXCEPT ![i][e] = OneLess(@)] /\ MapUnlocked(i)
    BY <1>2, <1>3 DEF DiscoveryMapRemove, Goto, Local
  <1>5. ph \in Phases /\ ph \in Active /\ ph \notin Mapped /\ ph # "add" /\ ph # "none"
        /\ job[s].pc \in Active /\ job[s].pc \in Mapped
    BY <1>1 DEF Phases, Active, Mapped
  <1> HIDE DEF ph
  <1>6. PICK r \in Job : r = [job[s] EXCEPT !.pc = ph]
    BY <1>1, <1>5, GotoType
  <1>7. r.pc = ph /\ r.ids = {e} /\ r.on = i /\ Phase(r)
    BY <1>1, <1>2, <1>3, <1>5, <1>6, GotoType
  <1>8. Refreshed(r)
    BY <1>1, <1>3, <1>5, <1>7 DEF Refreshed
  <1>9. InUse(i, e)' = InUse(i, e) \ {s} /\ s \in InUse(i, e)
    BY <1>2, <1>3, <1>4, <1>5, <1>6, <1>7 DEF InUse, IInv, TypeInv
  <1>10. discMap[i][e] = Cardinality(InUse(i, e)) /\ discMap[i][e] \in Nat
    BY DEF IInv, TypeInv, Counted
  <1>11. Cardinality(InUse(i, e)') = discMap[i][e] - 1 /\ discMap[i][e] - 1 \in Nat
    <2>1. /\ IsFiniteSet(InUse(i, e)') /\ s \notin InUse(i, e)'
          /\ InUse(i, e) = InUse(i, e)' \cup {s} /\ Cardinality(InUse(i, e)') \in Nat
      BY <1>9, InUseFinite, FS_Subset, FS_CardinalityType
    <2>2. Cardinality(InUse(i, e)) = Cardinality(InUse(i, e)') + 1
      BY <2>1, FS_AddElement
    <2> QED  BY <1>10, <2>1, <2>2
  <1>12. PICK n \in Nat : n = OneLess(discMap[i][e]) /\ n = discMap[i][e] - 1
    BY <1>10, <1>11 DEF OneLess
  <1>13. discMap' = [discMap EXCEPT ![i][e] = n]
    BY <1>4, <1>12
  <1>14. TypeInv' /\ job'[s] = r /\ \A t \in Slot \ {s} : job'[t] = job[t]
    BY <1>4, <1>6, <1>13 DEF IInv, TypeInv
  <1>15. \A j \in Instance, f \in Endpoint :
           discMap'[j][f] = IF j = job[s].on /\ f \in job[s].ids
                            THEN Cardinality(InUse(j, f)') ELSE discMap[j][f]
    BY <1>2, <1>3, <1>11, <1>12, <1>13 DEF IInv, TypeInv
  <1>16. /\ Phase(job'[s]) /\ Refreshed(job'[s])
         /\ job[s].pc \in Active /\ job'[s].pc \in Active
         /\ job'[s].on = job[s].on /\ job'[s].ids = job[s].ids /\ MapUnlocked(job[s].on)
    BY <1>2, <1>3, <1>4, <1>5, <1>7, <1>8, <1>14
  <1> QED  BY <1>4, <1>14, <1>15, <1>16, MapStep

-------------------------------------------------------------------------------
(* DiscoveryUpdater *)

(* The endpoints in discMap are those that are being discovered. *)
LEMMA InMapDiscovered ==
  ASSUME IInv, NEW i \in Instance
  PROVE  \A e \in Endpoint : e \in InMap(i) <=> \E s \in Slot : s \in InUse(i, e)
  <1> SUFFICES ASSUME NEW e \in Endpoint
               PROVE  e \in InMap(i) <=> \E s \in Slot : s \in InUse(i, e)
    OBVIOUS
  <1>1. PICK S : S = InUse(i, e)
    OBVIOUS
  <1>2. IsFiniteSet(S) /\ Cardinality(S) \in Nat
    BY <1>1, InUseFinite
  <1>3. Cardinality(S) = 0 <=> S = {}
    BY <1>2, FS_EmptySet
  <1>4. e \in InMap(i) <=> Cardinality(S) > 0
    BY <1>1 DEF IInv, Counted, InMap
  <1>5. e \in InMap(i) <=> S # {}
    BY <1>2, <1>3, <1>4
  <1>6. S \subseteq Slot
    BY <1>1 DEF InUse
  <1> QED  BY <1>1, <1>5, <1>6

LEMMA DiscoveryUpdaterReadStep ==
  ASSUME IInv, NEW i \in Instance, DiscoveryUpdaterRead(i)
  PROVE  IInv'
  <1>1. UNCHANGED <<rows, job, discMap, up, requests, faults, abandoned>> /\ MapUnlocked(i)
    BY DEF DiscoveryUpdaterRead
  <1>2. Counted' /\ StartedHasJob' /\ \A s \in Slot : Phase(job[s])'
    BY <1>1 DEF IInv, Counted, InUse, StartedHasJob, Started, Exists, Discovers, Phase
  <1>3. \A j : InMap(j)' = InMap(j)
    BY <1>1 DEF InMap
  <1>4. CASE InMap(i) = {} /\ due' = [due EXCEPT ![i] = 0] /\ UNCHANGED updater
    <2>1. TypeInv' /\ Locked'
      BY <1>1, <1>3, <1>4 DEF IInv, TypeInv, Locked
    <2>2. ASSUME NEW s \in Slot PROVE Refreshed(job[s])'
      <3>1. job[s].pc \in Mapped /\ job[s].on = i => job[s].ids = {}
        BY <1>4, InMapDiscovered, JobType DEF InUse, IInv
      <3> QED  BY <1>1, <1>4, <3>1, JobType DEF IInv, TypeInv, Refreshed, Exists
    <2> QED  BY <1>2, <2>1, <2>2 DEF IInv
  <1>5. CASE /\ AllFound(InMap(i)) /\ UNCHANGED due
             /\ updater' = [updater EXCEPT ![i] = [e \in InMap(i) |-> Content(rows[e])]]
    <2> DEFINE read == [e \in InMap(i) |-> Content(rows[e])]
    <2>1. \A e \in InMap(i) : Content(rows[e]) \in Row
      BY <1>5, ContentType DEF AllFound, Exists, InMap, IInv, TypeInv
    <2>2. read \in Reads /\ DOMAIN read = InMap(i)
      <3>1. InMap(i) \in SUBSET Endpoint /\ read \in [InMap(i) -> Row]
        BY <2>1 DEF InMap
      <3> QED  BY <3>1 DEF Reads
    <2>3. updater' = [updater EXCEPT ![i] = read]
      BY <1>5
    <2> HIDE DEF read
    <2>4. TypeInv' /\ Locked'
      BY <1>1, <1>3, <1>5, <2>2, <2>3 DEF IInv, TypeInv, Locked
    <2>5. \A s \in Slot : Refreshed(job[s])'
      BY <1>1, <1>5 DEF IInv, Refreshed, Exists
    <2> QED  BY <1>2, <2>4, <2>5 DEF IInv
  <1>6. CASE due' = [due EXCEPT ![i] = Failing] /\ UNCHANGED updater
    <2>1. TypeInv' /\ Locked'
      BY <1>1, <1>3, <1>6 DEF IInv, TypeInv, Locked
    <2>2. \A e \in Endpoint : Exists(e) => rows[e].age <= Failing
      <3>1. \A e \in Endpoint : Exists(e) => rows[e].age \in 0 .. 3
        BY Constants DEF IInv, TypeInv, Exists, Row
      <3> QED  BY <3>1, Constants
    <2>3. ASSUME NEW s \in Slot PROVE Refreshed(job[s])'
      BY <1>1, <1>6, <2>2, JobType DEF IInv, TypeInv, Refreshed, Exists
    <2> QED  BY <1>2, <2>1, <2>3 DEF IInv
  <1> QED  BY <1>4, <1>5, <1>6 DEF DiscoveryUpdaterRead

LEMMA DiscoveryUpdaterMarkStep ==
  ASSUME IInv, NEW i \in Instance, DiscoveryUpdaterMark(i)
  PROVE  IInv'
  <1>1. /\ UNCHANGED <<job, discMap, up, requests, faults, abandoned>>
        /\ updater' = [updater EXCEPT ![i] = NoRead] /\ due' = [due EXCEPT ![i] = 0]
        /\ updater[i] \in Reads
    BY DEF DiscoveryUpdaterMark, IInv, TypeInv
  <1>2. PICK ids \in SUBSET Endpoint : ids = DOMAIN updater[i]
    BY <1>1 DEF Reads
  <1>3. PICK read : read = updater[i]
    OBVIOUS
  <1>4. (\A e \in ids : read[e] \in Row) /\ ids = InMap(i)
    BY <1>1, <1>2, <1>3 DEF Reads, DiscoveryUpdaterMark, IInv, Locked
  <1> DEFINE status == "DiscoveryStarted"
  <1>5. status \in Status
    BY DEF Status
  <1>6. rows' = Marked(ids, read)
    BY <1>2, <1>3 DEF DiscoveryUpdaterMark, ForDiscover
  <1>7. /\ rows' = [e \in Endpoint |-> rows'[e]]
        /\ \A e \in ids : rows'[e] = Write(e, read[e], status)
        /\ \A e \in Endpoint \ ids : rows'[e] = rows[e]
    BY <1>6 DEF Marked
  <1> HIDE DEF status
  <1>8. /\ rows' \in [Endpoint -> Row \cup {NoRow}] /\ AgesKept
        /\ \A e \in ids : Exists(e)' => rows'[e].age = 0
    <2>1. \A e \in ids : read[e] \in Row
      BY <1>4
    <2> QED  BY <1>5, <1>7, <2>1, Written
  <1>9. TypeInv'
    BY <1>1, <1>8, NoReadType DEF IInv, TypeInv
  <1>10. Counted' /\ Locked' /\ \A s \in Slot : Phase(job[s])'
    BY <1>1 DEF IInv, TypeInv, Counted, InUse, Locked, InMap, Phase
  <1>11. ASSUME NEW s \in Slot PROVE Refreshed(job[s])'
    <2>1. job[s].on \in Instance /\ job[s].ids \subseteq Endpoint /\ Refreshed(job[s])
      BY JobType DEF IInv
    <2>2. job[s].pc \in Mapped /\ job[s].on = i => job[s].ids \subseteq ids
      BY <1>4, <2>1, InMapDiscovered DEF InUse
    <2>3. due[job[s].on] \in Nat /\ due'[job[s].on] = IF job[s].on = i THEN 0 ELSE due[job[s].on]
      BY <1>1, <2>1, Constants DEF IInv, TypeInv
    <2>4. job[s].pc \in Mapped =>
            \A e \in job[s].ids : Exists(e)' => rows'[e].age <= due'[job[s].on]
      <3> SUFFICES ASSUME job[s].pc \in Mapped, NEW e \in job[s].ids, Exists(e)'
                   PROVE  rows'[e].age <= due'[job[s].on]
        OBVIOUS
      <3>1. CASE job[s].on = i
        BY <1>8, <2>2, <2>3, <3>1
      <3>2. CASE job[s].on # i
        BY <1>8, <2>1, <2>3, <3>2 DEF AgesKept, Refreshed
      <3> QED  BY <3>1, <3>2
    <2>5. job[s].pc = "add" => \A e \in job[s].ids : Exists(e)' => rows'[e].age = 0
      BY <1>8, <2>1 DEF AgesKept, Refreshed
    <2> QED  BY <1>1, <2>1, <2>4, <2>5 DEF Refreshed, Exists
  <1>12. StartedHasJob'
    <2> SUFFICES ASSUME NEW e \in Endpoint, Started(e)'
                 PROVE  e \in abandoned \/ \E s \in Slot : Discovers(s, e)
      BY <1>1 DEF StartedHasJob, Discovers
    <2>1. CASE e \in ids
      BY <1>4, <2>1, InMapDiscovered, Constants DEF InUse, Discovers
    <2>2. CASE e \notin ids
      BY <1>7, <2>2 DEF IInv, StartedHasJob, Started, Exists
    <2> QED  BY <2>1, <2>2
  <1> QED  BY <1>9, <1>10, <1>11, <1>12 DEF IInv

-------------------------------------------------------------------------------
(* DiscoverySync, time, and instances that come and go *)

LEMMA DiscoverySyncStep ==
  ASSUME IInv, NEW i \in Instance, DiscoverySync(i)
  PROVE  IInv'
  <1> DEFINE new == UNION {DiscoverFromEndpoint(e, rows[e], SyncForce) : e \in Orphans}
  <1>1. /\ UNCHANGED <<rows, discMap, updater, due, up, requests, faults, abandoned>>
        /\ i \in up /\ Spawn(i, Free, new)
    BY DEF DiscoverySync
  <1>2. new \in SUBSET Job /\ \A q \in new : Phase(q) /\ q.pc = "read"
    BY DiscoverType DEF SyncForce, Orphans
  <1> HIDE DEF new
  <1>3. /\ abandoned' \subseteq Endpoint
        /\ requests' \in 0 .. MaxRequests /\ faults' \in 0 .. MaxFaults
        /\ rows' \in [Endpoint -> Row \cup {NoRow}] /\ AgesKept
        /\ \A e \in Endpoint : Started(e)' => Started(e)
    BY <1>1, RowsSame DEF IInv, TypeInv
  <1>4. Free \in SUBSET Slot /\ \A s \in Free : job[s].pc = "none"
    BY DEF Free
  <1> QED  BY <1>1, <1>2, <1>3, <1>4, SpawnStep

LEMMA TickStep ==
  ASSUME IInv, Tick
  PROVE  IInv'
  <1>1. /\ UNCHANGED <<job, discMap, updater, up, requests, faults, abandoned>>
        /\ \A s \in Slot : job[s].pc \in {"none", "query"}
        /\ due' = [i \in Instance |-> IF i \in up /\ due[i] < UpdateDue THEN due[i] + 1 ELSE due[i]]
        /\ \A i \in up : due[i] # UpdateDue
    BY DEF Tick
  <1>2. \A e \in Endpoint : rows'[e] = IF Started(e) /\ rows[e].age < Orphaned
                                       THEN [rows[e] EXCEPT !.age = @ + 1] ELSE rows[e]
    BY DEF Tick
  <1>3. ASSUME NEW e \in Endpoint, Exists(e)
        PROVE  /\ rows'[e] \in Row /\ rows'[e].status = rows[e].status
               /\ rows[e].age \in 0 .. 3
               /\ rows'[e].age \in 0 .. 3 /\ rows'[e].age <= rows[e].age + 1
    <2>1. PICK r \in Row : r = rows[e]
      BY <1>3 DEF Exists, IInv, TypeInv
    <2>2. r.age \in 0 .. 3
      BY Constants DEF Row
    <2>3. CASE rows'[e] = rows[e]
      BY <2>1, <2>2, <2>3
    <2>4. CASE rows'[e] # rows[e]
      <3>1. r.age < 3 /\ rows'[e] = [r EXCEPT !.age = @ + 1]
        BY <1>2, <2>1, <2>4, Constants
      <3>2. PICK n \in 0 .. 3 : n = r.age + 1
        BY <2>2, <3>1
      <3>3. [r EXCEPT !.age = n] \in Row
        BY <3>2, Constants DEF Row
      <3>4. [r EXCEPT !.age = n].age = n /\ [r EXCEPT !.age = n].status = r.status
        BY DEF Row
      <3>5. rows'[e] = [r EXCEPT !.age = n]
        BY <3>1, <3>2
      <3> QED  BY <2>1, <2>2, <3>2, <3>3, <3>4, <3>5
    <2> QED  BY <2>3, <2>4
  <1>4. \A e \in Endpoint : ~ Exists(e) => rows'[e] = NoRow
    BY <1>2 DEF Started, Exists
  <1>5. \A e \in Endpoint : Exists(e)' <=> Exists(e)
    BY <1>3, <1>4, DiscoveryAssumption DEF Exists
  <1>6. \A i \in Instance : due'[i] \in {0, 1, 2, 4}
    BY <1>1, Constants DEF IInv, TypeInv
  <1>7. TypeInv'
    <2>1. rows' \in [Endpoint -> Row \cup {NoRow}]
      BY <1>3, <1>4 DEF Tick
    <2>2. due' \in [Instance -> {0, 1, UpdateDue, Failing}]
      BY <1>1, <1>6, Constants
    <2> QED  BY <1>1, <2>1, <2>2 DEF IInv, TypeInv
  <1>8. Counted' /\ Locked' /\ \A s \in Slot : Phase(job[s])'
    BY <1>1 DEF IInv, Counted, InUse, Locked, InMap, Phase
  <1>9. ASSUME NEW s \in Slot PROVE Refreshed(job[s])'
    <2>1. CASE job[s].pc = "none"
      BY <1>1, <2>1 DEF Refreshed, Mapped
    <2>2. CASE job[s].pc = "query"
      <3>1. /\ job[s].on \in up /\ job[s].on \in Instance /\ job[s].ids \subseteq Endpoint
            /\ \A e \in job[s].ids : Exists(e) => rows[e].age <= due[job[s].on]
        BY <2>2, JobType DEF IInv, Refreshed, Mapped
      <3>2. /\ due[job[s].on] \in {0, 1, 4}
            /\ due'[job[s].on] = IF due[job[s].on] = 4 THEN 4 ELSE due[job[s].on] + 1
        BY <1>1, <3>1, Constants DEF IInv, TypeInv
      <3>3. \A e \in job[s].ids : Exists(e)' => rows'[e].age <= due'[job[s].on]
        BY <1>3, <1>5, <3>1, <3>2
      <3> QED  BY <1>1, <2>2, <3>1, <3>3 DEF Refreshed, Exists
    <2> QED  BY <1>1, <2>1, <2>2
  <1>10. \A e \in Endpoint : Started(e)' => Started(e)
    BY <1>3, <1>5 DEF Started
  <1>11. StartedHasJob'
    BY <1>1, <1>10 DEF IInv, StartedHasJob, Discovers
  <1> QED  BY <1>7, <1>8, <1>9, <1>11 DEF IInv

LEMMA CrashStep ==
  ASSUME IInv, NEW i \in Instance, Crash(i)
  PROVE  IInv'
  <1>1. /\ UNCHANGED <<rows, requests>> /\ up' = up \ {i}
        /\ discMap' = [discMap EXCEPT ![i] = [e \in Endpoint |-> 0]]
        /\ updater' = [updater EXCEPT ![i] = NoRead] /\ due' = [due EXCEPT ![i] = 0]
        /\ abandoned' = abandoned \cup {e \in Endpoint : \E s \in Running(i) : Discovers(s, e)}
    BY DEF Crash
  <1>2. faults' \in 0 .. MaxFaults
    BY DiscoveryAssumption DEF Crash, IInv, TypeInv
  <1>3. /\ job' = [s \in Slot |-> IF s \in Running(i) THEN NoJob ELSE job[s]]
        /\ \A s \in Slot : job'[s] = NoJob \/ (job'[s] = job[s] /\ s \notin Running(i))
    BY DEF Crash
  <1>4. TypeInv'
    BY <1>1, <1>2, <1>3, NoJobType, NoReadType DEF IInv, TypeInv
  <1>5. \A s \in Slot : Phase(job[s])'
    <2>1. \A s \in Slot : Phase(job'[s])
      BY <1>3, NoJobType DEF IInv
    <2> QED  BY <2>1 DEF Phase
  <1>6. ASSUME NEW s \in Slot PROVE Refreshed(job[s])'
    <2>1. CASE job'[s] = NoJob
      BY <2>1, NoJobType, Constants DEF Refreshed, Mapped
    <2>2. CASE job'[s] = job[s] /\ s \notin Running(i)
      <3>1. Refreshed(job[s]) /\ job[s].on \in Instance /\ (job[s].pc # "none" => job[s].on # i)
        BY <2>2, JobType DEF IInv, Running
      <3>2. job[s].pc # "none" => due'[job[s].on] = due[job[s].on]
        BY <1>1, <3>1 DEF IInv, TypeInv
      <3> QED  BY <1>1, <2>2, <3>1, <3>2 DEF Refreshed, Exists, Mapped
    <2> QED  BY <1>3, <2>1, <2>2
  <1>7. Counted'
    <2> SUFFICES ASSUME NEW j \in Instance, NEW e \in Endpoint
                 PROVE  discMap'[j][e] = Cardinality(InUse(j, e)')
      BY DEF Counted
    <2>1. \A s \in Slot : s \in Running(i) => ~ (s \in InUse(j, e)')
      BY <1>3, NoJobType DEF InUse, Mapped
    <2>2. CASE j = i
      <3>1. InUse(j, e)' = {}
        BY <1>3, <2>1, <2>2, NoJobType DEF InUse, Running, Mapped
      <3> QED  BY <1>1, <2>2, <3>1, FS_EmptySet DEF IInv, TypeInv
    <2>3. CASE j # i
      <3>1. InUse(j, e)' = InUse(j, e)
        BY <1>3, <2>1, <2>3, NoJobType DEF InUse, Running, Mapped
      <3> QED  BY <1>1, <2>3, <3>1 DEF IInv, TypeInv, Counted
    <2> QED  BY <2>2, <2>3
  <1>8. Locked'
    BY <1>1 DEF IInv, TypeInv, Locked, InMap
  <1>9. StartedHasJob'
    BY <1>1, <1>3 DEF IInv, StartedHasJob, Started, Exists, Discovers, Running, Active
  <1> QED  BY <1>4, <1>5, <1>6, <1>7, <1>8, <1>9 DEF IInv

LEMMA RestartStep ==
  ASSUME IInv, NEW i \in Instance, Restart(i)
  PROVE  IInv'
  <1>1. /\ UNCHANGED <<rows, job, discMap, updater, due, requests, faults, abandoned>>
        /\ up' = up \cup {i}
    BY DEF Restart
  <1>2. TypeInv' /\ Counted' /\ Locked' /\ StartedHasJob'
    BY <1>1 DEF IInv, TypeInv, Counted, InUse, Locked, InMap, StartedHasJob, Started, Exists,
                Discovers
  <1>3. \A s \in Slot : Phase(job[s])' /\ Refreshed(job[s])'
    BY <1>1 DEF IInv, Phase, Refreshed, Exists
  <1> QED  BY <1>2, <1>3 DEF IInv

-------------------------------------------------------------------------------
(* The invariant *)

LEMMA InvInit == Init => IInv
  <1> SUFFICES ASSUME Init PROVE IInv
    OBVIOUS
  <1>1. /\ job = [s \in Slot |-> NoJob]
        /\ discMap = [i \in Instance |-> [e \in Endpoint |-> 0]]
        /\ updater = [i \in Instance |-> NoRead] /\ due = [i \in Instance |-> 0]
        /\ up = Instance /\ requests = 0 /\ faults = 0 /\ abandoned = {}
    BY DEF Init
  <1>2. /\ rows \in [Endpoint -> Row \cup {NoRow}]
        /\ \A e \in Endpoint : rows[e] = NoRow \/ rows[e].status = "NotYetQueried"
    BY NewType DEF Init
  <1>3. TypeInv
    BY <1>1, <1>2, NoJobType, NoReadType, DiscoveryAssumption DEF TypeInv
  <1>4. \A s \in Slot : Phase(job[s]) /\ Refreshed(job[s])
    BY <1>1, NoJobType, Constants DEF Refreshed, Mapped
  <1>5. \A i, e : InUse(i, e) = {}
    BY <1>1, NoJobType, Constants DEF InUse, Mapped
  <1>6. Counted /\ Locked
    BY <1>1, <1>5, FS_EmptySet DEF Counted, Locked
  <1>7. StartedHasJob
    BY <1>2 DEF StartedHasJob, Started, Exists
  <1> QED  BY <1>3, <1>4, <1>6, <1>7 DEF IInv

LEMMA InvStep == IInv /\ [Next]_vars => IInv'
  <1> SUFFICES ASSUME IInv, [Next]_vars PROVE IInv'
    OBVIOUS
  <1>1. ASSUME NEW s \in Slot, JobStep(s) PROVE IInv'
    BY <1>1, UpdatePatchedStep, ReadForDiscoverStep, MarkForDiscoverStep, DiscoveryMapAddStep,
       QueryStep, DiscoveryMapRemoveStep, UpdateRFEndpointStep, UpdateAllForRFEndpointStep
    DEF JobStep
  <1>2. ASSUME NEW i \in Instance, ThreadStep(i) PROVE IInv'
    BY <1>2, DiscoveryUpdaterReadStep, DiscoveryUpdaterMarkStep DEF ThreadStep
  <1>3. CASE UNCHANGED vars
    BY <1>3, RowsSame
    DEF vars, IInv, TypeInv, Phase, Refreshed, Exists, Counted, InUse, Locked, InMap,
        StartedHasJob, Started, Discovers
  <1> QED
    BY <1>1, <1>2, <1>3, RequestsStep, DiscoverySyncStep, CrashStep, RestartStep, TickStep
    DEF Next

(* What the system can reach satisfies the inductive invariant. *)
THEOREM InvCorrect == Spec => []IInv
  BY InvInit, InvStep, PTL DEF Spec

(* The rows, the goroutines and discMap are of their types, and discMap    *)
(* never counts more discoveries than goroutines run on the instance.      *)
THEOREM TypeCorrect == Spec => []TypeOK
  <1>1. IInv => TypeOK
    <2> SUFFICES ASSUME IInv PROVE TypeOK
      OBVIOUS
    <2>1. ASSUME NEW s \in Slot
          PROVE  /\ job[s].pc \in Active \cup {"none", "patch", "read", "mark"}
                 /\ job[s].on \in Instance /\ job[s].ids \subseteq Endpoint
                 /\ job[s].force \in BOOLEAN /\ job[s].patch \in Patch
                 /\ \A e \in DOMAIN job[s].read : job[s].read[e] \in Row
      <3>1. job[s] \in Job
        BY DEF IInv, TypeInv
      <3> QED  BY <3>1 DEF Job, Phases, Reads
    <2>2. ASSUME NEW i \in Instance, NEW e \in Endpoint
          PROVE  discMap[i][e] <= Cardinality(Running(i))
      <3>1. IsFiniteSet(Running(i))
        <4>1. IsFiniteSet(Slot) /\ Running(i) \subseteq Slot
          BY FS_Interval, DiscoveryAssumption DEF Slot, Running
        <4> QED  BY <4>1, FS_Subset
      <3>2. InUse(i, e) \subseteq Running(i)
        BY DEF InUse, Running, Mapped
      <3>3. Cardinality(InUse(i, e)) <= Cardinality(Running(i))
        BY <3>1, <3>2, FS_Subset
      <3> QED  BY <3>3 DEF IInv, Counted
    <2>3. \A i \in Instance : \A e \in DOMAIN updater[i] : updater[i][e] \in Row
      BY DEF IInv, TypeInv, Reads
    <2>4. due \in [Instance -> 0 .. Failing]
      <3>1. {0, 1, UpdateDue, Failing} \subseteq 0 .. Failing
        BY Constants
      <3> QED  BY <3>1 DEF IInv, TypeInv
    <2> QED  BY <2>1, <2>2, <2>3, <2>4 DEF IInv, TypeInv, TypeOK
  <1> QED  BY <1>1, InvCorrect, PTL

(* Whatever requests, instances and database errors do, an endpoint is     *)
(* DiscoveryStarted only while it is being discovered or after its         *)
(* discovery was lost.                                                     *)
THEOREM StartedIsDiscovered == Spec => []StartedHasJob
  <1>1. IInv => StartedHasJob
    BY DEF IInv
  <1> QED  BY <1>1, InvCorrect, PTL

(* No other instance takes a discovery that waits for Redfish for lost     *)
(* while the DiscoveryUpdater of its own gets through.                     *)
THEOREM WaitingIsFresh == Spec => []RunningIsFresh
  <1>1. IInv => RunningIsFresh
    <2> SUFFICES ASSUME IInv, NEW s \in Slot, job[s].pc = "query", due[job[s].on] # Failing,
                        NEW e \in job[s].ids, e \in Orphans
                 PROVE  FALSE
      BY DEF RunningIsFresh
    <2>1. Exists(e) /\ rows[e].age >= 3 /\ e \in Endpoint
      BY Constants DEF Orphans, Started
    <2>2. rows[e].age <= due[job[s].on]
      BY <2>1 DEF IInv, Refreshed, Mapped
    <2>3. due[job[s].on] \in {0, 1, 2}
      BY JobType, Constants DEF IInv, TypeInv
    <2>4. rows[e].age \in 0 .. 3
      BY <2>1, Constants DEF IInv, TypeInv, Exists, Row
    <2> QED  BY <2>1, <2>2, <2>3, <2>4
  <1> QED  BY <1>1, InvCorrect, PTL

-------------------------------------------------------------------------------
(* RedfishTree.  Outcomes of a discovery: what is Fine lets the endpoint   *)
(* be DiscoverOK, and what is Sound is described as it would be posted.    *)
Fine == {"DiscoverOK", NoSupport}
Sound(x) == x.present => Postable(x) /\ x.fru = PostedFRU(x)

LEMMA Words ==
  /\ Verifying \notin Fine /\ NoSupport # "DiscoverOK" /\ NoSupport # Verifying
  /\ "EPResponseFailedDecode" \notin Fine \cup {Verifying}
  /\ "HTTPsGetFailed" \notin Fine \cup {Verifying}
  /\ "VerificationFailed" \notin Fine \cup {Verifying}
  /\ "ChildVerificationFailed" \notin Fine \cup {Verifying}
BY DEF Fine, Verifying, NoSupport

LEMMA UndiscoveredIs ==
  ASSUME NEW oid, NEW st
  PROVE  Undiscovered(oid, st).oid = oid /\ Undiscovered(oid, st).status = st
BY Zenon DEF Undiscovered

LEMMA DiscoveredIs ==
  ASSUME NEW oid, NEW type, NEW id, NEW n, NEW r, NEW c
  PROVE  LET x == Discovered(oid, type, id, n, r, c) IN
         /\ x.oid = oid /\ x.status = "DiscoverOK" /\ x.type = type /\ x.id = id /\ x.ordinal = n
         /\ x.info = r.fru
         /\ x.present <=> r.state # "Absent"
         /\ x.present => x.fru = GetStandardFRUID(type, id, r.fru)
<1> DEFINE x == Discovered(oid, type, id, n, r, c)
<1>2. /\ x.oid = oid /\ x.status = "DiscoverOK" /\ x.type = type /\ x.id = id /\ x.ordinal = n
      /\ x.info = r.fru
  BY Zenon DEF Discovered
<1>3. x.present = (r.state # "Absent")
  BY Zenon DEF Discovered
<1>4. x.fru = IF r.state # "Absent" THEN GetStandardFRUID(type, id, r.fru) ELSE <<>>
  BY Zenon DEF Discovered
<1> HIDE DEF x
<1> QED  BY <1>2, <1>3, <1>4, Zenon DEF x

(* What is discovered is described as it would be posted. *)
LEMMA DiscoveredIsSound ==
  ASSUME NEW oid, NEW type, NEW id, NEW n, NEW r, NEW c,
         type \in (ChassisTypes \cup NodeTypes \cup PowerTypes \cup ManagerTypes) \ Outlet
  PROVE  Sound(Discovered(oid, type, id, n, r, c))
<1> DEFINE x == Discovered(oid, type, id, n, r, c)
<1>1. /\ x.type = type /\ x.id = id /\ x.info = r.fru
      /\ x.present => x.fru = GetStandardFRUID(type, id, r.fru)
  BY DiscoveredIs
<1> HIDE DEF x
<1>2. x.type \notin Outlet
  BY <1>1
<1>3. PostedFRU(x) = GetStandardFRUID(x.type, x.id, x.info)
  BY <1>2 DEF PostedFRU
<1>4. x.present => Postable(x)
  BY <1>1 DEF Postable
<1> QED  BY <1>1, <1>3, <1>4 DEF Sound, x

LEMMA ReadingIs ==
  ASSUME NEW r
  PROVE  /\ r.got = "ok" => Reading(r) = Verifying
         /\ r.got # "ok" => Reading(r) \notin Fine \cup {Verifying}
BY Words DEF Reading

LEMMA OptionalIs ==
  ASSUME NEW r
  PROVE  /\ r.got = "ok" => Optional(r) = Verifying
         /\ r.got = "missing" => Optional(r) = NoSupport
         /\ r.got \notin {"ok", "missing"} => Optional(r) \notin Fine \cup {Verifying}
BY Words, ReadingIs DEF Optional

LEMMA ReferredIs ==
  ASSUME NEW l
  PROVE  /\ l.got \in {"ok", "none"} => Referred(l) = Verifying
         /\ l.got \notin {"ok", "none"} => Referred(l) \notin Fine \cup {Verifying}
BY Words, ReadingIs DEF Referred

LEMMA ChildrenAreFine ==
  ASSUME NEW S
  PROVE  /\ ChildStatus(S) = "DiscoverOK" => \A c \in S : c.status \in Fine
         /\ ChildStatus(S) \in Fine => ChildStatus(S) = "DiscoverOK"
BY Words DEF ChildStatus, Fine

LEMMA WithBelowIs ==
  ASSUME NEW oid, NEW type, NEW id, NEW n, NEW r, NEW c, NEW below
  PROVE  LET d == Discovered(oid, type, id, n, r, c)
             x == WithBelow(d, below).self
         IN /\ WithBelow(d, below).below = below
            /\ x.status = ChildStatus(below)
            /\ x.oid = oid /\ x.type = type /\ x.id = id /\ x.ordinal = n /\ x.info = d.info
            /\ x.present = d.present /\ x.fru = d.fru
<1> DEFINE d == Discovered(oid, type, id, n, r, c)
           e == [d EXCEPT !.status = ChildStatus(below)]
<1>1. /\ d.oid = oid /\ d.type = type /\ d.id = id /\ d.ordinal = n
  BY DiscoveredIs
<1>2. DOMAIN d = {"oid", "status", "type", "id", "ordinal", "present", "info", "fru", "state", "flag"}
  BY Zenon DEF Discovered
<1> HIDE DEF d
<1>3. /\ e.status = ChildStatus(below) /\ e.oid = d.oid /\ e.type = d.type /\ e.id = d.id
      /\ e.ordinal = d.ordinal /\ e.info = d.info /\ e.present = d.present /\ e.fru = d.fru
  BY <1>2
<1>4. WithBelow(d, below).self = e /\ WithBelow(d, below).below = below
  BY Zenon DEF WithBelow
<1> HIDE DEF e
<1> QED  BY <1>1, <1>3, <1>4, Zenon DEF d

LEMMA AloneIs ==
  ASSUME NEW oid, NEW st
  PROVE  /\ Alone(oid, st).self.oid = oid /\ Alone(oid, st).self.status = st
         /\ Alone(oid, st).below = {}
<1>1. Alone(oid, st).self = Undiscovered(oid, st) /\ Alone(oid, st).below = {}
  BY Zenon DEF Alone
<1> QED  BY <1>1, UndiscoveredIs

-----------------------------------------------------------------------------
(* The parts of a system *)

(* A part is discovered, passed over because it is not there, or failed. *)
Outcome(x, got) ==
  /\ got = "ok" => x.status = "DiscoverOK"
  /\ x.status = "DiscoverOK" => got = "ok"
  /\ got \notin {"ok", "missing"} => x.status \notin Fine

LEMMA OutcomeOfOptional ==
  ASSUME NEW r, NEW at, NEW x,
         Optional(r) # Verifying => x = Undiscovered(at, Optional(r)),
         Optional(r) = Verifying => x.oid = at /\ x.status = "DiscoverOK"
  PROVE  x.oid = at /\ Outcome(x, r.got)
<1>1. CASE Optional(r) = Verifying
  <2>1. r.got = "ok"
    BY <1>1, OptionalIs, Words
  <2> QED  BY <1>1, <2>1 DEF Outcome
<1>2. CASE Optional(r) # Verifying
  <2>1. x.oid = at /\ x.status = Optional(r)
    BY <1>2, UndiscoveredIs
  <2>2. r.got # "ok"
    BY <1>2, OptionalIs
  <2>3. r.got = "missing" => x.status = NoSupport
    BY <2>1, OptionalIs
  <2>4. r.got # "missing" => x.status \notin Fine
    BY <2>1, <2>2, OptionalIs
  <2> QED  BY <2>1, <2>2, <2>3, <2>4, Words DEF Outcome, Fine
<1> QED  BY <1>1, <1>2

LEMMA PartTypes ==
  /\ {"Node", "NodeAccel", "Processor", "Memory", "Drive", "NodeHsnNic", "NodeAccelRiser",
      "NodeEnclosurePowerSupply", "CMMRectifier", "CabinetPDU", "NodeBMC", "RouterBMC",
      "Chassis", "ComputeModule", "RouterModule", "NodeEnclosure", "HSNBoard"} \cup Switches
        \subseteq (ChassisTypes \cup NodeTypes \cup PowerTypes \cup ManagerTypes) \ Outlet
BY DEF ChassisTypes, NodeTypes, PowerTypes, ManagerTypes, Outlet, Switches

(* A part that was discovered. *)
Whole(x, at, id) == x.oid = at /\ x.status = "DiscoverOK" /\ Sound(x) /\ x.type # "Node" /\ x.id = id

(* A part of a node, at what place, and what it is named if it is one. *)
Made(x, at, got, id) ==
  /\ x.oid = at /\ Outcome(x, got)
  /\ x.status = "DiscoverOK" => Sound(x) /\ x.type # "Node" /\ x.id = id

LEMMA WholeIs ==
  ASSUME NEW x, NEW at, NEW id, Whole(x, at, id)
  PROVE  x.oid = at /\ x.status = "DiscoverOK" /\ Sound(x) /\ x.type # "Node" /\ x.id = id
BY Zenon DEF Whole

LEMMA WholeIsMade ==
  ASSUME NEW x, NEW at, NEW id, Whole(x, at, id)
  PROVE  Made(x, at, "ok", id)
<1>1. x.oid = at /\ x.status = "DiscoverOK"
  BY WholeIs
<1>2. Outcome(x, "ok")
  BY <1>1 DEF Outcome
<1> QED  BY <1>1, <1>2, Zenon DEF Whole, Made

LEMMA NotMade ==
  ASSUME NEW x, NEW at, NEW got, NEW id,
         x.oid = at, x.status # "DiscoverOK", got # "ok", got = "missing" \/ x.status \notin Fine
  PROVE  Made(x, at, got, id)
<1>1. Outcome(x, got)
  BY DEF Outcome
<1> QED  BY <1>1, Zenon DEF Made

LEMMA MadeIs ==
  ASSUME NEW r, NEW at, NEW x, NEW id,
         Optional(r) # Verifying => x = Undiscovered(at, Optional(r)),
         Optional(r) = Verifying => Whole(x, at, id)
  PROVE  Made(x, at, r.got, id)
<1>0. Optional(r) = Verifying => x.oid = at /\ x.status = "DiscoverOK"
  BY WholeIs
<1>1. x.oid = at /\ Outcome(x, r.got)
  BY <1>0, OutcomeOfOptional
<1>2. x.status = "DiscoverOK" => r.got = "ok"
  BY <1>1, Zenon DEF Outcome
<1>3. x.status = "DiscoverOK" => Optional(r) = Verifying
  BY <1>2, OptionalIs
<1> QED  BY <1>1, <1>3, Zenon DEF Made, Whole

(* What is discovered with a type that is not a node's is what is posted. *)
LEMMA PartIs ==
  ASSUME NEW at, NEW type, NEW id, NEW n, NEW r, NEW c,
         type \in (ChassisTypes \cup NodeTypes \cup PowerTypes \cup ManagerTypes) \ (Outlet \cup {"Node"})
  PROVE  Whole(Discovered(at, type, id, n, r, c), at, id)
<1> DEFINE x == Discovered(at, type, id, n, r, c)
<1>1. Sound(x)
  BY DiscoveredIsSound
<1>2. x.oid = at /\ x.status = "DiscoverOK" /\ x.type = type /\ x.id = id
  BY DiscoveredIs
<1> HIDE DEF x
<1>3. x.type # "Node"
  BY <1>2
<1> QED  BY <1>1, <1>2, <1>3, Zenon DEF x, Whole

ProcessorLetter(p) == IF p.kind = "GPU" THEN "a" ELSE "p"

LEMMA ProcessorIs ==
  ASSUME NEW s, NEW oid, NEW id, NEW i
  PROVE  Made(Processor(s, oid, id, i), oid \o <<"processors", i>>, Items(s.processors)[i].got,
              Append(id, <<ProcessorLetter(Items(s.processors)[i]),
                           GetProcessorOrdinal(Items(s.processors), i)>>))
<1> DEFINE x == Processor(s, oid, id, i)
           p == Items(s.processors)[i]
           n == GetProcessorOrdinal(Items(s.processors), i)
           at == oid \o <<"processors", i>>
           name == Append(id, <<ProcessorLetter(p), n>>)
           type == IF p.kind = "GPU" THEN "NodeAccel" ELSE "Processor"
           d == Discovered(at, type, name, n, p, PartState(p))
<1>1. Optional(p) # Verifying => x = Undiscovered(at, Optional(p))
  BY DEF Processor
<1>2. Optional(p) = Verifying => x = d
  BY DEF Processor, ProcessorLetter
<1>3. type \in (ChassisTypes \cup NodeTypes \cup PowerTypes \cup ManagerTypes) \ (Outlet \cup {"Node"})
  BY PartTypes
<1> HIDE DEF type, name, n
<1>4. Whole(d, at, name)
  BY <1>3, PartIs
<1> HIDE DEF x, at, p, d
<1>5. Optional(p) = Verifying => Whole(x, at, name)
  BY <1>2, <1>4, Zenon
<1>6. Made(x, at, p.got, name)
  BY <1>1, <1>5, MadeIs
<1> QED  BY <1>6, Zenon DEF x, at, p, name, n

LEMMA MemoryModuleIs ==
  ASSUME NEW s, NEW oid, NEW id, NEW i
  PROVE  Made(MemoryModule(s, oid, id, i), oid \o <<"memory", i>>, Items(s.memory)[i].got,
              Append(id, <<"d", i - 1>>))
<1> DEFINE x == MemoryModule(s, oid, id, i)
           m == Items(s.memory)[i]
           at == oid \o <<"memory", i>>
           name == Append(id, <<"d", i - 1>>)
           d == Discovered(at, "Memory", name, i - 1, Filled(m), PartState(m))
<1>1. Optional(m) # Verifying => x = Undiscovered(at, Optional(m))
  BY DEF MemoryModule
<1>2. Optional(m) = Verifying => x = d
  BY DEF MemoryModule
<1>3. Whole(d, at, name)
  BY PartTypes, PartIs
<1> HIDE DEF x, at, m, d, name
<1>5. Optional(m) = Verifying => Whole(x, at, name)
  BY <1>2, <1>3, Zenon
<1>6. Made(x, at, m.got, name)
  BY <1>1, <1>5, MadeIs
<1> QED  BY <1>6, Zenon DEF x, at, m, name

LEMMA DriveIs ==
  ASSUME NEW s, NEW oid, NEW id, NEW g, NEW i
  PROVE  Made(Drive(s, oid, id, g, i), oid \o <<"storage", g, i>>, Items(Items(s.storage)[g])[i].got,
              id \o <<<<"g", GetStorageCollectionOrdinal(Items(s.storage), g)>>,
                      <<"k", GetDriveOrdinal(Items(Items(s.storage)[g]), i)>>>>)
<1> DEFINE x == Drive(s, oid, id, g, i)
           gs == Items(s.storage)
           ds == Items(gs[g])
           m == ds[i]
           at == oid \o <<"storage", g, i>>
           name == id \o <<<<"g", GetStorageCollectionOrdinal(gs, g)>>, <<"k", GetDriveOrdinal(ds, i)>>>>
           d == Discovered(at, "Drive", name, GetDriveOrdinal(ds, i), m, PartState(m))
<1>1. Optional(m) # Verifying => x = Undiscovered(at, Optional(m))
  BY DEF Drive
<1>2. Optional(m) = Verifying => x = d
  BY DEF Drive
<1>3. Whole(d, at, name)
  BY PartTypes, PartIs
<1> HIDE DEF x, at, m, d, name
<1>5. Optional(m) = Verifying => Whole(x, at, name)
  BY <1>2, <1>3, Zenon
<1>6. Made(x, at, m.got, name)
  BY <1>1, <1>5, MadeIs
<1> QED  BY <1>6, Zenon DEF x, at, m, name

LEMMA NodeAccelRiserIs ==
  ASSUME NEW s, NEW oid, NEW id, NEW i
  PROVE  Made(NodeAccelRiser(s, oid, id, i), oid \o <<"assembly", i>>, "ok",
              Append(id, <<"r", GetNodeAccelRiserOrdinal(s, i)>>))
<1> DEFINE n == GetNodeAccelRiserOrdinal(s, i)
           r == Items(s.assembly)[i]
           at == oid \o <<"assembly", i>>
           name == Append(id, <<"r", n>>)
           d == Discovered(at, "NodeAccelRiser", name, n, r, PartState(r))
           x == NodeAccelRiser(s, oid, id, i)
<1>1. d = x
  BY DEF NodeAccelRiser
<1>2. Whole(d, at, name)
  BY PartTypes, PartIs
<1> HIDE DEF d, at, name, x
<1>4. Made(x, at, "ok", name)
  BY <1>1, <1>2, WholeIsMade
<1> QED  BY <1>4, Zenon DEF x, at, name

LEMMA NetworkAdapterIs ==
  ASSUME NEW s, NEW oid, NEW id, NEW i
  PROVE  \E got : /\ Made(NetworkAdapter(s, oid, id, i), oid \o <<"adapters", i>>, got,
                          Append(id, <<"h", i - 1>>))
                  /\ got # "missing"
<1> DEFINE x == NetworkAdapter(s, oid, id, i)
           a == Items(s.adapters)[i]
           at == oid \o <<"adapters", i>>
           name == Append(id, <<"h", i - 1>>)
           d == Discovered(at, "NodeHsnNic", name, i - 1, [a EXCEPT !.state = "Enabled"], PartState(a))
<1>1. Reading(a) # Verifying => x = Undiscovered(at, Reading(a))
  BY DEF NetworkAdapter
<1>2. Reading(a) = Verifying => x = d
  BY DEF NetworkAdapter
<1>3. Whole(d, at, name)
  BY PartTypes, PartIs
<1> HIDE DEF d, x, a, at, name
<1>4. ASSUME Reading(a) = Verifying PROVE \E got : Made(x, at, got, name) /\ got # "missing"
  <2>1. Made(x, at, "ok", name)
    BY <1>2, <1>3, <1>4, WholeIsMade
  <2> QED  BY <2>1
<1>5. ASSUME Reading(a) # Verifying PROVE \E got : Made(x, at, got, name) /\ got # "missing"
  <2>1. x.oid = at /\ x.status = Reading(a)
    BY <1>1, <1>5, UndiscoveredIs
  <2>2. x.status \notin Fine /\ x.status # "DiscoverOK"
    BY <1>5, <2>1, ReadingIs DEF Fine
  <2>3. Made(x, at, "failed", name)
    BY <2>1, <2>2, NotMade
  <2> QED  BY <2>3
<1>6. \E got : Made(x, at, got, name) /\ got # "missing"
  BY <1>4, <1>5
<1> QED  BY <1>6, Zenon DEF x, at, name

Usable(d) == d.known /\ (d.kind = "GPU" \/ IsNic(d))
DeviceLetter(d) == IF d.kind = "GPU" THEN "a" ELSE "h"

(* A device that is of no use passes for one that is not there. *)
LEMMA HpeDeviceIs ==
  ASSUME NEW s, NEW oid, NEW id, NEW i
  PROVE  LET m == Items(s.devices)[i] IN
         Made(HpeDevice(s, oid, id, i), oid \o <<"devices", i>>,
              IF m.got = "ok" /\ ~Usable(m) THEN "missing" ELSE m.got,
              Append(id, <<DeviceLetter(m), GetHpeDeviceOrdinal(Items(s.devices), i)>>))
<1> DEFINE x == HpeDevice(s, oid, id, i)
           p == Items(s.devices)[i]
           n == GetHpeDeviceOrdinal(Items(s.devices), i)
           at == oid \o <<"devices", i>>
           name == Append(id, <<DeviceLetter(p), n>>)
           type == IF p.kind = "GPU" THEN "NodeAccel" ELSE "NodeHsnNic"
           d == Discovered(at, type, name, n, p, PartState(p))
           got == IF p.got = "ok" /\ ~Usable(p) THEN "missing" ELSE p.got
<1>1. Optional(p) # Verifying => x = Undiscovered(at, Optional(p))
  BY DEF HpeDevice
<1>2. Optional(p) = Verifying => x = IF Usable(p) THEN d ELSE Undiscovered(at, NoSupport)
  BY DEF HpeDevice, Usable, DeviceLetter, IsNic
<1>3. type \in (ChassisTypes \cup NodeTypes \cup PowerTypes \cup ManagerTypes) \ (Outlet \cup {"Node"})
  BY PartTypes
<1> HIDE DEF type, name, n
<1>4. Whole(d, at, name)
  BY <1>3, PartIs
<1> HIDE DEF x, at, p, d, got
<1>5. ASSUME Optional(p) = Verifying /\ ~Usable(p) PROVE Made(x, at, got, name)
  <2>1. x.oid = at /\ x.status = NoSupport
    BY <1>2, <1>5, UndiscoveredIs
  <2>2. p.got = "ok"
    BY <1>5, OptionalIs, Words
  <2>3. got = "missing"
    BY <1>5, <2>2 DEF got
  <2>4. x.status # "DiscoverOK"
    BY <2>1, Words
  <2>5. Made(x, at, got, name)
    BY <2>1, <2>3, <2>4, NotMade
  <2> QED  BY <2>5
<1>6. ASSUME Usable(p) \/ Optional(p) # Verifying PROVE Made(x, at, got, name)
  <2>1. Optional(p) = Verifying => Whole(x, at, name)
    BY <1>2, <1>4, <1>6, Zenon
  <2>2. Made(x, at, p.got, name)
    BY <1>1, <2>1, MadeIs
  <2>3. got = p.got
    BY <1>6, OptionalIs DEF got
  <2> QED  BY <2>2, <2>3
<1>7. Made(x, at, got, name)
  BY <1>5, <1>6, Zenon
<1> QED  BY <1>7, Zenon DEF x, at, p, name, n, got

-----------------------------------------------------------------------------
(* Trees: a component, and what hangs below it. *)

(* One that was discovered, whatever became of what hangs below it. *)
Grown(t, at, type, id, n, below) ==
  /\ t.self.oid = at /\ t.self.type = type /\ t.self.id = id /\ t.self.ordinal = n
  /\ t.self.status = ChildStatus(below) /\ t.below = below
  /\ Sound(t.self)

LEMMA GrownIs ==
  ASSUME NEW t, NEW at, NEW type, NEW id, NEW n, NEW below, Grown(t, at, type, id, n, below)
  PROVE  /\ t.self.oid = at /\ t.self.type = type /\ t.self.id = id /\ t.self.ordinal = n
         /\ t.self.status = ChildStatus(below) /\ t.below = below
         /\ t.self.status \in Fine => t.self.status = "DiscoverOK"
         /\ t.self.status = "DiscoverOK" => \A x \in below : x.status \in Fine
         /\ Sound(t.self)
<1>1. /\ t.self.oid = at /\ t.self.type = type /\ t.self.id = id /\ t.self.ordinal = n
      /\ t.self.status = ChildStatus(below) /\ t.below = below
      /\ Sound(t.self)
  BY Zenon DEF Grown
<1>2. /\ t.self.status \in Fine => t.self.status = "DiscoverOK"
      /\ t.self.status = "DiscoverOK" => \A x \in below : x.status \in Fine
  BY <1>1, ChildrenAreFine
<1> QED  BY <1>1, <1>2, Zenon

LEMMA WithBelowIsGrown ==
  ASSUME NEW at, NEW type, NEW id, NEW n, NEW r, NEW c, NEW below,
         type \in (ChassisTypes \cup NodeTypes \cup PowerTypes \cup ManagerTypes) \ Outlet
  PROVE  Grown(WithBelow(Discovered(at, type, id, n, r, c), below), at, type, id, n, below)
<1> DEFINE d == Discovered(at, type, id, n, r, c)
           t == WithBelow(d, below)
           x == t.self
<1>1. /\ t.below = below
      /\ x.status = ChildStatus(below)
      /\ x.oid = at /\ x.type = type /\ x.id = id /\ x.ordinal = n /\ x.info = d.info
      /\ x.present = d.present /\ x.fru = d.fru
  BY WithBelowIs
<1>2. Sound(d) /\ d.type = type /\ d.id = id
  BY DiscoveredIsSound, DiscoveredIs
<1> HIDE DEF d
<1>3. Sound(x)
  <2> HIDE DEF t
  <2>1. Postable(x) <=> Postable(d)
    BY <1>1, <1>2, Zenon DEF Postable
  <2>2. PostedFRU(x) = PostedFRU(d)
    BY <1>1, <1>2, Zenon DEF PostedFRU
  <2>3. d.present => Postable(d) /\ d.fru = PostedFRU(d)
    BY <1>2, Zenon DEF Sound
  <2> HIDE DEF x
  <2> QED  BY <1>1, <2>1, <2>2, <2>3, Zenon DEF Sound
<1> HIDE DEF t
<1>4. Grown(t, at, type, id, n, below)
  BY <1>1, <1>3, Zenon DEF Grown
<1> QED  BY <1>4, Zenon DEF t, d

(* Chassis and their supplies *)

LEMMA ChassisTypesAre ==
  ASSUME NEW ep, NEW c
  PROVE  LET type == GetChassisHMSType(ep, c) IN
         /\ type \in {"Invalid", "Chassis", "HSNBoard", "NodeEnclosure", "ComputeModule", "RouterModule"}
                       \cup Switches
         /\ type \in Switches => type = ep.type
         /\ type = "HSNBoard" => ep.type = "RouterBMC"
         /\ type = "ComputeModule" => c.type = "Blade" /\ c.name = "blade"
         /\ type = "RouterModule" => c.type = "Blade" /\ c.name = "perif"
BY DEF GetChassisHMSType, EnclosureOf, BladeType, Switches

LEMMA PowerSupplyIs ==
  ASSUME NEW ep, NEW c, NEW oid, NEW id, NEW i
  PROVE  LET x == PowerSupply(ep, c, oid, id, i) IN
         /\ x.oid = oid \o <<"supplies", i>>
         /\ x.status \in Fine => x.status = "DiscoverOK"
         /\ x.status = "DiscoverOK" =>
              /\ Whole(x, oid \o <<"supplies", i>>, Append(id, <<"t", i - 1>>))
              /\ GetChassisHMSType(ep, c) \in {"NodeEnclosure", "Chassis"}
<1> DEFINE x == PowerSupply(ep, c, oid, id, i)
           p == SuppliesOf(c)[i]
           type == GetPowerSupplyHMSType(ep, c)
           at == oid \o <<"supplies", i>>
           name == Append(id, <<"t", i - 1>>)
           d == Discovered(at, type, name, i - 1, [p EXCEPT !.fru.part = Unsaid], PartState(p))
<1>1. x = IF type = Unsaid THEN Undiscovered(at, "VerificationFailed") ELSE d
  BY DEF PowerSupply
<1>2. CASE type = Unsaid
  <2>1. x.oid = at /\ x.status = "VerificationFailed"
    BY <1>1, <1>2, UndiscoveredIs
  <2> HIDE DEF x, at
  <2>2. x.oid = at /\ x.status \notin Fine /\ x.status # "DiscoverOK"
    BY <2>1, Words DEF Fine
  <2> QED  BY <2>2, Zenon DEF x, at
<1>3. CASE type # Unsaid
  <2>1. /\ GetChassisHMSType(ep, c) \in {"NodeEnclosure", "Chassis"}
        /\ type \in {"NodeEnclosurePowerSupply", "CMMRectifier"}
    BY <1>3 DEF GetPowerSupplyHMSType
  <2> HIDE DEF type, name
  <2>2. Whole(d, at, name)
    BY <2>1, PartTypes, PartIs
  <2> HIDE DEF d, x, at
  <2>3. Whole(x, at, name)
    BY <1>1, <1>3, <2>2
  <2>4. x.oid = at /\ x.status = "DiscoverOK"
    BY <2>3, WholeIs
  <2> QED  BY <2>1, <2>3, <2>4, Zenon DEF x, at, name
<1> QED  BY <1>2, <1>3

ChassisID(ep, cs, i) ==
  CHOOSE x \in GetChassisHMSID(ep, GetChassisHMSType(ep, cs[i]), GetChassisOrdinal(cs, i)) : TRUE

(* A chassis is discovered, passed over, or fails. *)
ChassisFound(t, ep, cs, i) ==
  LET type == GetChassisHMSType(ep, cs[i])
      id == ChassisID(ep, cs, i)
  IN /\ cs[i].got = "ok" /\ ~cs[i].skipped /\ type # "Invalid" /\ ChassisIDIsOfType(ep, type)
     /\ id \in GetChassisHMSID(ep, type, GetChassisOrdinal(cs, i))
     /\ Grown(t, <<"chassis", i>>, type, id, GetChassisOrdinal(cs, i),
              PowerSupplies(ep, cs[i], <<"chassis", i>>, id))
NoChassis(ep, cs, i) ==
  LET type == GetChassisHMSType(ep, cs[i]) IN
  \/ cs[i].skipped \/ cs[i].got = "missing" \/ type = "Invalid"
  \/ GetChassisHMSID(ep, type, GetChassisOrdinal(cs, i)) = {}

LEMMA OneChassisIs ==
  ASSUME NEW ep, NEW cs, NEW i
  PROVE  LET t == OneChassis(ep, cs, i) IN
         /\ t.self.oid = <<"chassis", i>>
         /\ t.self.status \in Fine => t.self.status = "DiscoverOK" \/ NoChassis(ep, cs, i)
         /\ t.self.status = "DiscoverOK" => ChassisFound(t, ep, cs, i)
<1> DEFINE c == cs[i]
           oid == <<"chassis", i>>
           type == GetChassisHMSType(ep, c)
           n == GetChassisOrdinal(cs, i)
           ids == GetChassisHMSID(ep, type, n)
           id == ChassisID(ep, cs, i)
           state == IF type = "HSNBoard" /\ c.state = "Absent" THEN [c EXCEPT !.state = "Disabled"] ELSE c
           below == PowerSupplies(ep, c, oid, id)
           d == Discovered(oid, type, id, n, state, ChassisState(state))
           t == OneChassis(ep, cs, i)
<1>1. t = IF ChassisPhase1(c) # Verifying THEN Alone(oid, ChassisPhase1(c))
          ELSE IF type = "Invalid" \/ ids = {} THEN Alone(oid, NoSupport)
          ELSE IF ~ChassisIDIsOfType(ep, type) THEN Alone(oid, "VerificationFailed")
          ELSE WithBelow(d, below)
  BY Zenon DEF OneChassis, ChassisID
<1>2. type # "Invalid" =>
        type \in (ChassisTypes \cup NodeTypes \cup PowerTypes \cup ManagerTypes) \ Outlet
  BY ChassisTypesAre, PartTypes
<1>3. ids # {} => id \in ids
  BY Zenon DEF ChassisID
<1>4. type # "Invalid" => Grown(WithBelow(d, below), oid, type, id, n, below)
  <2> HIDE DEF type, below, id, n, state
  <2> QED  BY <1>2, WithBelowIsGrown
<1> HIDE DEF t, d, below, id, n, state, type, oid, ids, c
<1>5. ASSUME ChassisPhase1(c) # Verifying
      PROVE  t.self.oid = oid /\ t.self.status # "DiscoverOK"
             /\ (t.self.status \in Fine => c.skipped \/ c.got = "missing")
  <2>1. t.self.oid = oid /\ t.self.status = ChassisPhase1(c)
    BY <1>1, <1>5, AloneIs
  <2>2. ChassisPhase1(c) # "DiscoverOK"
    BY <1>5, OptionalIs, Words DEF ChassisPhase1, Fine
  <2>3. ChassisPhase1(c) \in Fine => c.skipped \/ c.got = "missing"
    BY <1>5, OptionalIs, Words DEF ChassisPhase1
  <2> QED  BY <2>1, <2>2, <2>3
<1>6. ASSUME ChassisPhase1(c) = Verifying, type = "Invalid" \/ ids = {}
      PROVE  t.self.oid = oid /\ t.self.status # "DiscoverOK"
  BY <1>1, <1>6, AloneIs, Words
<1>7. ASSUME ChassisPhase1(c) = Verifying, type # "Invalid", ids # {}, ~ChassisIDIsOfType(ep, type)
      PROVE  t.self.oid = oid /\ t.self.status \notin Fine /\ t.self.status # "DiscoverOK"
  BY <1>1, <1>7, AloneIs, Words DEF Fine
<1>8. ASSUME ChassisPhase1(c) = Verifying, type # "Invalid", ids # {}, ChassisIDIsOfType(ep, type)
      PROVE  /\ t.self.oid = oid
             /\ t.self.status \in Fine => t.self.status = "DiscoverOK"
             /\ ChassisFound(t, ep, cs, i)
  <2>1. t = WithBelow(d, below)
    BY <1>1, <1>8, Zenon
  <2>2. Grown(t, oid, type, id, n, below)
    BY <1>4, <1>8, <2>1, Zenon
  <2>3. t.self.oid = oid /\ (t.self.status \in Fine => t.self.status = "DiscoverOK")
    BY <2>2, GrownIs
  <2>4. c.got = "ok" /\ ~c.skipped
    BY <1>8, OptionalIs, Words DEF ChassisPhase1
  <2>5. ChassisFound(t, ep, cs, i)
    BY <1>3, <1>8, <2>2, <2>4, Zenon DEF ChassisFound, t, d, below, id, n, state, type, oid, ids, c
  <2> QED  BY <2>3, <2>5, Zenon
<1>9. NoChassis(ep, cs, i) <=> c.skipped \/ c.got = "missing" \/ type = "Invalid" \/ ids = {}
  BY Zenon DEF NoChassis, c, type, ids, n
<1>10. /\ t.self.oid = oid
       /\ t.self.status \in Fine => t.self.status = "DiscoverOK" \/ NoChassis(ep, cs, i)
       /\ t.self.status = "DiscoverOK" => ChassisFound(t, ep, cs, i)
  BY <1>5, <1>6, <1>7, <1>8, <1>9, Zenon
<1> QED  BY <1>10, Zenon DEF t, oid

(* Managers, power distribution units and their outlets *)

LEMMA ManagerIs ==
  ASSUME NEW ep, NEW ms, NEW i
  PROVE  LET x == Manager(ep, ms, i) IN
         /\ x.oid = <<"managers", i>>
         /\ x.status \in Fine =>
              /\ ms[i].got = "ok"
              /\ GetManagerHMSType(ep, ms, i) = ep.type /\ GetManagerOrdinal(ms, i) = 0 =>
                   x.status = "DiscoverOK"
         /\ x.status = "DiscoverOK" =>
              /\ GetManagerHMSType(ep, ms, i) = ep.type /\ GetManagerOrdinal(ms, i) = 0
              /\ x.type = ep.type /\ x.id = <<>>
              /\ ep.type \in ManagerTypes => Sound(x)
<1> DEFINE x == Manager(ep, ms, i)
           m == ms[i]
           oid == <<"managers", i>>
           type == GetManagerHMSType(ep, ms, i)
           id == <<>>
           state == ManagerState(m, TRUE)
           d == Discovered(oid, type, id, 0, m, state)
           own == type = ep.type /\ GetManagerOrdinal(ms, i) = 0
<1>1. x = IF ManagerPhase1(m) # Verifying THEN Undiscovered(oid, ManagerPhase1(m))
          ELSE IF ~own THEN Undiscovered(oid, NoSupport) ELSE d
  BY Zenon DEF Manager
<1> HIDE DEF oid, id, type, state
<1>2. d.oid = oid /\ d.status = "DiscoverOK" /\ d.type = type /\ d.id = id
  BY DiscoveredIs
<1>3. type \in ManagerTypes => Sound(d)
  <2>1. ManagerTypes \subseteq (ChassisTypes \cup NodeTypes \cup PowerTypes \cup ManagerTypes) \ Outlet
    BY PartTypes DEF ManagerTypes, Outlet
  <2> HIDE DEF m
  <2> QED  BY <2>1, DiscoveredIsSound
<1>4. ManagerPhase1(m) \notin Fine
  BY ReadingIs, Words DEF ManagerPhase1
<1>5. ManagerPhase1(m) = Verifying => m.got = "ok"
  BY ReadingIs DEF ManagerPhase1
<1> HIDE DEF x, m, d
<1>6. ASSUME ManagerPhase1(m) # Verifying
      PROVE  x.oid = oid /\ x.status \notin Fine /\ x.status # "DiscoverOK"
  BY <1>1, <1>4, <1>6, UndiscoveredIs DEF Fine
<1>7. ASSUME ManagerPhase1(m) = Verifying, ~own
      PROVE  x.oid = oid /\ x.status # "DiscoverOK" /\ m.got = "ok"
  BY <1>1, <1>5, <1>7, UndiscoveredIs, Words
<1>8. ASSUME ManagerPhase1(m) = Verifying, own
      PROVE  /\ x.oid = oid /\ x.status = "DiscoverOK" /\ x.type = ep.type /\ x.id = id
             /\ ep.type \in ManagerTypes => Sound(x)
             /\ m.got = "ok"
  <2>1. x = d
    BY <1>1, <1>8, Zenon
  <2>2. x.oid = oid /\ x.status = "DiscoverOK" /\ x.type = ep.type /\ x.id = id
    BY <1>2, <1>8, <2>1
  <2>3. ep.type \in ManagerTypes => Sound(x)
    BY <1>3, <1>8, <2>1, Zenon
  <2> QED  BY <1>5, <1>8, <2>2, <2>3, Zenon
<1>9. /\ x.oid = oid
      /\ x.status \in Fine => m.got = "ok" /\ (own => x.status = "DiscoverOK")
      /\ x.status = "DiscoverOK" =>
           /\ own /\ x.type = ep.type /\ x.id = id
           /\ ep.type \in ManagerTypes => Sound(x)
  BY <1>6, <1>7, <1>8, Zenon
<1> QED  BY <1>9, Zenon DEF x, oid, m, type, id

LEMMA PDUOutletIs ==
  ASSUME NEW p, NEW pdu, NEW i
  PROVE  LET x == PDUOutlet(p, pdu, i)
             at == pdu.oid \o <<"outlets", i>>
         IN /\ x.oid = at
            /\ x.status \in Fine => x.status = "DiscoverOK"
            /\ x.status = "DiscoverOK" => Whole(x, at, GetOutletHMSID(pdu, i - 1))
<1> DEFINE x == PDUOutlet(p, pdu, i)
           at == pdu.oid \o <<"outlets", i>>
           o == Items(p.outlets)[i]
           type == "CabinetPDUPowerConnector"
           name == GetOutletHMSID(pdu, i - 1)
           d == Discovered(at, type, name, i - 1, o, NodeState(o))
           fru == OutletFRU(d, pdu)
           e == [d EXCEPT !.fru = fru]
<1>1. x = IF Reading(o) # Verifying THEN Undiscovered(at, Reading(o)) ELSE e
  BY Zenon DEF PDUOutlet
<1> HIDE DEF at, name, type, o
<1>2. /\ d.oid = at /\ d.status = "DiscoverOK" /\ d.type = type /\ d.id = name
  BY DiscoveredIs
<1>3. DOMAIN d = {"oid", "status", "type", "id", "ordinal", "present", "info", "fru", "state", "flag"}
  BY Zenon DEF Discovered
<1>4. d.present => fru = IF pdu.fru = <<>> THEN <<"FRUIDfor", d.id>> ELSE <<d.type, d.ordinal, pdu.fru>>
  BY Zenon DEF OutletFRU
<1> HIDE DEF d, fru, x
<1>5. /\ e.oid = at /\ e.status = "DiscoverOK" /\ e.type = type /\ e.id = name
      /\ e.present = d.present /\ e.fru = fru
  BY <1>2, <1>3
<1> HIDE DEF e
<1>6. e.present => e.fru # <<>>
  <2>1. <<"FRUIDfor", d.id>> # <<>> /\ <<d.type, d.ordinal, pdu.fru>> # <<>>
    OBVIOUS
  <2>2. d.present => fru # <<>>
    BY <1>4, <2>1, Zenon
  <2> QED  BY <1>5, <2>2, Zenon
<1>7. Sound(e)
  <2>1. e.type \in Outlet
    BY <1>5 DEF Outlet, type
  <2>2. e.present => PostedFRU(e) = e.fru
    BY <1>6, <2>1, Zenon DEF PostedFRU
  <2>3. e.present => Postable(e)
    BY <2>1 DEF Postable
  <2> QED  BY <2>2, <2>3, Zenon DEF Sound
<1>8. e.type # "Node"
  BY <1>5 DEF type
<1>9. Whole(e, at, name)
  BY <1>5, <1>7, <1>8, Zenon DEF Whole
<1>10. ASSUME Reading(o) # Verifying
       PROVE  x.oid = at /\ x.status \notin Fine /\ x.status # "DiscoverOK"
  BY <1>1, <1>10, UndiscoveredIs, ReadingIs DEF Fine
<1>11. /\ x.oid = at
       /\ x.status \in Fine => x.status = "DiscoverOK"
       /\ x.status = "DiscoverOK" => Whole(x, at, name)
  BY <1>1, <1>5, <1>9, <1>10, Zenon
<1> QED  BY <1>11, Zenon DEF x, at, name

PDUFound(t, ep, ps, i) ==
  /\ ep.type = "CabinetPDUController" /\ ~Unread(ps[i].outlets)
  /\ \E pdu : /\ pdu.oid = <<"pdus", i>> /\ pdu.id = <<<<"p", i - 1>>>>
              /\ Grown(t, <<"pdus", i>>, "CabinetPDU", <<<<"p", i - 1>>>>, i - 1, PDUOutlets(ps[i], pdu))

LEMMA RackPDUIs ==
  ASSUME NEW ep, NEW ps, NEW i
  PROVE  LET t == RackPDU(ep, ps, i) IN
         /\ t.self.oid = <<"pdus", i>>
         /\ t.self.status \in Fine => t.self.status = "DiscoverOK" \/ ep.type # "CabinetPDUController"
         /\ t.self.status = "DiscoverOK" => PDUFound(t, ep, ps, i)
<1> DEFINE t == RackPDU(ep, ps, i)
           p == ps[i]
           oid == <<"pdus", i>>
           id == <<<<"p", i - 1>>>>
           self == Discovered(oid, "CabinetPDU", id, i - 1, p, NodeState(p))
           below == PDUOutlets(p, self)
<1>1. t = IF PDUPhase1(p) # Verifying THEN Alone(oid, PDUPhase1(p))
          ELSE IF ep.type # "CabinetPDUController" THEN Alone(oid, NoSupport)
          ELSE WithBelow(self, below)
  BY Zenon DEF RackPDU, GetPDUHMSID
<1>2. self.oid = oid /\ self.id = id
  BY DiscoveredIs
<1>3. Grown(WithBelow(self, below), oid, "CabinetPDU", id, i - 1, below)
  <2> HIDE DEF below, oid, id
  <2> QED  BY PartTypes, WithBelowIsGrown
<1>4. PDUPhase1(p) \notin Fine
  BY ReadingIs, Words DEF PDUPhase1
<1>5. PDUPhase1(p) = Verifying => ~Unread(p.outlets)
  BY Words DEF PDUPhase1
<1> HIDE DEF t, p, oid, id, self
<1>6. ASSUME PDUPhase1(p) # Verifying
      PROVE  t.self.oid = oid /\ t.self.status \notin Fine /\ t.self.status # "DiscoverOK"
  BY <1>1, <1>4, <1>6, AloneIs DEF Fine
<1>7. ASSUME PDUPhase1(p) = Verifying, ep.type # "CabinetPDUController"
      PROVE  t.self.oid = oid /\ t.self.status # "DiscoverOK"
  BY <1>1, <1>7, AloneIs, Words
<1>8. ASSUME PDUPhase1(p) = Verifying, ep.type = "CabinetPDUController"
      PROVE  /\ t.self.oid = oid
             /\ t.self.status \in Fine => t.self.status = "DiscoverOK"
             /\ PDUFound(t, ep, ps, i)
  <2>1. Grown(t, oid, "CabinetPDU", id, i - 1, below)
    BY <1>1, <1>3, <1>8, Zenon
  <2>2. t.self.oid = oid /\ (t.self.status \in Fine => t.self.status = "DiscoverOK")
    <3> HIDE DEF below
    <3> QED  BY <2>1, GrownIs
  <2>3. PDUFound(t, ep, ps, i)
    BY <1>2, <1>5, <1>8, <2>1, Zenon DEF PDUFound, p, oid, id
  <2> QED  BY <2>2, <2>3, Zenon
<1>9. /\ t.self.oid = oid
      /\ t.self.status \in Fine => t.self.status = "DiscoverOK" \/ ep.type # "CabinetPDUController"
      /\ t.self.status = "DiscoverOK" => PDUFound(t, ep, ps, i)
  BY <1>6, <1>7, <1>8, Zenon
<1> QED  BY <1>9, Zenon DEF t, oid

(* Systems *)

SystemID(ss, i) == <<<<"n", GetSystemOrdinal(ss, i)>>>>
SystemFound(t, ss, i) ==
  /\ SystemPhase1(ss[i]) = Verifying /\ IsNode(ss, i)
  /\ Grown(t, <<"systems", i>>, "Node", SystemID(ss, i), GetSystemOrdinal(ss, i),
           PartsBelow(ss[i], <<"systems", i>>, SystemID(ss, i)))

LEMMA SystemPhase1Is ==
  ASSUME NEW s
  PROVE  /\ SystemPhase1(s) \notin Fine
         /\ SystemPhase1(s) = Verifying =>
              s.got = "ok" /\ ~CardsUnread(s) /\ ~Unread(s.nics) /\ ~PartsUnread(s) /\ ~Unread(s.storage)
<1>1. /\ Reading(s) # Verifying => Reading(s) \notin Fine
      /\ Reading(s) = Verifying => s.got = "ok"
  BY ReadingIs
<1>2. ControlsStatus(s) # Verifying => ControlsStatus(s) \notin Fine
  BY ReferredIs DEF ControlsStatus
<1>3. PowerStatus(s) # Verifying => PowerStatus(s) \notin Fine
  BY ReferredIs DEF PowerStatus
<1> QED  BY <1>1, <1>2, <1>3, Words DEF SystemPhase1

LEMMA SystemIs ==
  ASSUME NEW ss, NEW i
  PROVE  LET t == System(ss, i) IN
         /\ t.self.oid = <<"systems", i>>
         /\ t.self.status \in Fine => t.self.status = "DiscoverOK" \/ ~IsNode(ss, i)
         /\ t.self.status = "DiscoverOK" => SystemFound(t, ss, i)
<1> DEFINE t == System(ss, i)
           s == ss[i]
           oid == <<"systems", i>>
           n == GetSystemOrdinal(ss, i)
           id == SystemID(ss, i)
           below == PartsBelow(s, oid, id)
           d == Discovered(oid, "Node", id, n, s, NodeState(s))
<1>1. t = IF SystemPhase1(s) # Verifying THEN Alone(oid, SystemPhase1(s))
          ELSE IF ~IsNode(ss, i) THEN Alone(oid, NoSupport)
          ELSE WithBelow(d, below)
  BY Zenon DEF System, SystemID
<1>3. Grown(WithBelow(d, below), oid, "Node", id, n, below)
  <2> HIDE DEF below, oid, id, n
  <2> QED  BY PartTypes, WithBelowIsGrown
<1>4. SystemPhase1(s) \notin Fine
  BY SystemPhase1Is
<1> HIDE DEF t, s, oid, id, below, d, n
<1>6. ASSUME SystemPhase1(s) # Verifying
      PROVE  t.self.oid = oid /\ t.self.status \notin Fine /\ t.self.status # "DiscoverOK"
  BY <1>1, <1>4, <1>6, AloneIs DEF Fine
<1>7. ASSUME SystemPhase1(s) = Verifying, ~IsNode(ss, i)
      PROVE  t.self.oid = oid /\ t.self.status # "DiscoverOK"
  BY <1>1, <1>7, AloneIs, Words
<1>8. ASSUME SystemPhase1(s) = Verifying, IsNode(ss, i)
      PROVE  /\ t.self.oid = oid
             /\ t.self.status \in Fine => t.self.status = "DiscoverOK"
             /\ SystemFound(t, ss, i)
  <2>1. Grown(t, oid, "Node", id, n, below)
    BY <1>1, <1>3, <1>8, Zenon
  <2>2. t.self.oid = oid /\ (t.self.status \in Fine => t.self.status = "DiscoverOK")
    BY <2>1, GrownIs
  <2>3. SystemFound(t, ss, i)
    BY <1>8, <2>1, Zenon DEF SystemFound, s, oid, id, n, below
  <2> QED  BY <2>2, <2>3, Zenon
<1>9. /\ t.self.oid = oid
      /\ t.self.status \in Fine => t.self.status = "DiscoverOK" \/ ~IsNode(ss, i)
      /\ t.self.status = "DiscoverOK" => SystemFound(t, ss, i)
  BY <1>6, <1>7, <1>8, Zenon
<1> QED  BY <1>9, Zenon DEF t, oid

-----------------------------------------------------------------------------
(* What was found, when a discovery is good. *)

LEMMA NoItems == DOMAIN <<>> = {} /\ Len(<<>>) = 0
OBVIOUS

LEMMA ItemsAre ==
  ASSUME NEW l, IsList(l)
  PROVE  /\ DOMAIN Items(l) = 1 .. Len(Items(l)) /\ Len(Items(l)) \in Nat
         /\ DOMAIN Items(l) \subseteq DOMAIN l.members
         /\ \A i \in DOMAIN Items(l) : l.got = "ok" /\ Items(l) = l.members
         /\ l.got \in {"ok", "none"} => DOMAIN Items(l) = DOMAIN l.members
<1> DEFINE items == Items(l)
           members == l.members
<1>1. /\ Len(members) \in Nat /\ DOMAIN members = 1 .. Len(members)
      /\ l.got = "none" => Len(members) = 0
  BY DEF IsList
<1>2. CASE l.got = "ok"
  <2>1. items = members
    BY <1>2 DEF Items
  <2> QED  BY <1>1, <1>2, <2>1
<1>3. CASE l.got # "ok"
  <2>1. items = <<>>
    BY <1>3 DEF Items
  <2>2. DOMAIN items = {} /\ Len(items) = 0
    BY <2>1, NoItems
  <2>3. l.got = "none" => DOMAIN members = {}
    BY <1>1
  <2> HIDE DEF items, members
  <2>4. /\ DOMAIN items = 1 .. Len(items) /\ Len(items) \in Nat
        /\ DOMAIN items \subseteq DOMAIN members
        /\ \A i \in DOMAIN items : l.got = "ok" /\ items = members
        /\ l.got \in {"ok", "none"} => DOMAIN items = DOMAIN members
    BY <1>3, <2>2, <2>3
  <2> QED  BY <2>4, Zenon DEF items, members
<1> QED  BY <1>2, <1>3

(* Something that was read is in what follows. *)
LEMMA IsThere ==
  ASSUME NEW l, IsList(l), ~Unread(l), l.got # "garbled"
  PROVE  l.got \in {"ok", "none"} /\ DOMAIN Items(l) = DOMAIN l.members
<1>1. l.got \in {"ok", "none"}
  BY DEF IsList, Unread, Gots
<1> QED  BY <1>1, ItemsAre

LEMMA ReportsAre ==
  ASSUME NEW ep, IsReport(ep)
  PROVE  /\ ep.type \in Controllers /\ ep.root.got \in Gots
         /\ AreRead(ep.chassis) /\ AreRead(ep.managers) /\ AreRead(ep.systems) /\ AreRead(ep.power)
         /\ IsList(ep.chassis) /\ IsList(ep.managers) /\ IsList(ep.systems) /\ IsList(ep.power)
BY Zenon DEF IsReport, AreRead

LEMMA RemotePhase1Is ==
  ASSUME NEW ep
  PROVE  /\ RemotePhase1(ep) \notin Fine
         /\ RemotePhase1(ep) = Verifying =>
              /\ ~Unread(ep.root)
              /\ Unread(ep.chassis) \/ Referred(ep.chassis) = Verifying
              /\ Referred(ep.managers) = Verifying
              /\ Unread(ep.systems) \/ Referred(ep.systems) = Verifying
              /\ Referred(PowerOf(ep)) = Verifying
<1>1. /\ PrePhase1(ep) \notin Fine
      /\ PrePhase1(ep) = Verifying => ~Unread(ep.root)
  BY Words DEF PrePhase1, Fine, Verifying, NoSupport
<1>2. /\ ChassisStatus(ep) \notin Fine
      /\ ChassisStatus(ep) = Verifying => Unread(ep.chassis) \/ Referred(ep.chassis) = Verifying
  BY Words, ReferredIs DEF ChassisStatus
<1>3. /\ GetSystems(ep) \notin Fine
      /\ GetSystems(ep) = Verifying => Unread(ep.systems) \/ Referred(ep.systems) = Verifying
  BY Words, ReferredIs DEF GetSystems
<1>4. Referred(ep.managers) \notin Fine /\ Referred(PowerOf(ep)) \notin Fine
  BY Words, ReferredIs
<1> QED  BY <1>1, <1>2, <1>3, <1>4 DEF RemotePhase1

AllFine(xs) == \A x \in xs : x.status \in Fine
AllTreesFine(ts) == \A t \in ts : t.self.status \in Fine

LEMMA FoundIs ==
  ASSUME NEW ep, RootInfo(ep).status = "DiscoverOK"
  PROVE  /\ RemotePhase1(ep) = Verifying
         /\ RootInfo(ep).found = LocalPhase2(ep)
         /\ AllTreesFine(LocalPhase2(ep).chassis) /\ AllTreesFine(LocalPhase2(ep).pdus)
         /\ AllTreesFine(LocalPhase2(ep).systems) /\ AllFine(LocalPhase2(ep).managers)
<1> DEFINE found == LocalPhase2(ep)
           all == {x.self : x \in found.chassis \cup found.pdus \cup found.systems} \cup found.managers
           none == [status |-> RemotePhase1(ep), found |-> NothingFound]
           check == [status |-> ChildStatus(all), found |-> found]
<1>1. RootInfo(ep) = IF RemotePhase1(ep) # Verifying THEN none ELSE check
  BY Zenon DEF RootInfo, CheckPhase2
<1>2. none.status = RemotePhase1(ep) /\ check.status = ChildStatus(all) /\ check.found = found
  BY Zenon
<1> HIDE DEF none, check, all, found
<1>3. RemotePhase1(ep) = Verifying
  BY <1>1, <1>2, RemotePhase1Is DEF Fine
<1>4. RootInfo(ep).found = found /\ ChildStatus(all) = "DiscoverOK"
  BY <1>1, <1>2, <1>3
<1>5. \A c \in all : c.status \in Fine
  BY <1>4, ChildrenAreFine
<1>6. \A t \in found.chassis \cup found.pdus \cup found.systems : t.self \in all
  BY Zenon DEF all
<1>7. \A x \in found.managers : x \in all
  BY Zenon DEF all
<1>8. /\ AllTreesFine(found.chassis) /\ AllTreesFine(found.pdus)
      /\ AllTreesFine(found.systems) /\ AllFine(found.managers)
  BY <1>5, <1>6, <1>7, Zenon DEF AllTreesFine, AllFine
<1> QED  BY <1>3, <1>4, <1>8, Zenon DEF found

LEMMA LocalPhase2Is ==
  ASSUME NEW ep
  PROVE  LET found == LocalPhase2(ep) IN
         /\ found.chassis = {OneChassis(ep, Items(ep.chassis), i) : i \in DOMAIN Items(ep.chassis)}
         /\ found.managers = {Manager(ep, Items(ep.managers), i) : i \in DOMAIN Items(ep.managers)}
         /\ found.pdus = {RackPDU(ep, Items(PowerOf(ep)), i) : i \in DOMAIN Items(PowerOf(ep))}
         /\ found.systems = {System(Items(ep.systems), i) : i \in DOMAIN Items(ep.systems)}
BY Zenon DEF LocalPhase2

(* A discovery that is good, and each of what it found. *)
GoodReport(ep) == IsReport(ep) /\ RootInfo(ep).status = "DiscoverOK"
Found(ep) == RootInfo(ep).found

LEMMA EachIsFine ==
  ASSUME NEW ep, GoodReport(ep)
  PROVE  /\ \A i \in DOMAIN Items(ep.chassis) :
              OneChassis(ep, Items(ep.chassis), i) \in Found(ep).chassis
              /\ OneChassis(ep, Items(ep.chassis), i).self.status \in Fine
         /\ \A i \in DOMAIN Items(ep.managers) :
              Manager(ep, Items(ep.managers), i) \in Found(ep).managers
              /\ Manager(ep, Items(ep.managers), i).status \in Fine
         /\ \A i \in DOMAIN Items(PowerOf(ep)) :
              RackPDU(ep, Items(PowerOf(ep)), i) \in Found(ep).pdus
              /\ RackPDU(ep, Items(PowerOf(ep)), i).self.status \in Fine
         /\ \A i \in DOMAIN Items(ep.systems) :
              System(Items(ep.systems), i) \in Found(ep).systems
              /\ System(Items(ep.systems), i).self.status \in Fine
<1> DEFINE found == LocalPhase2(ep)
<1>1. Found(ep) = found
  BY FoundIs, Zenon DEF GoodReport, Found
<1>2. /\ AllTreesFine(found.chassis) /\ AllTreesFine(found.pdus)
      /\ AllTreesFine(found.systems) /\ AllFine(found.managers)
  BY FoundIs, Zenon DEF GoodReport
<1>3. /\ \A i \in DOMAIN Items(ep.chassis) : OneChassis(ep, Items(ep.chassis), i) \in found.chassis
      /\ \A i \in DOMAIN Items(ep.managers) : Manager(ep, Items(ep.managers), i) \in found.managers
      /\ \A i \in DOMAIN Items(PowerOf(ep)) : RackPDU(ep, Items(PowerOf(ep)), i) \in found.pdus
      /\ \A i \in DOMAIN Items(ep.systems) : System(Items(ep.systems), i) \in found.systems
  BY LocalPhase2Is, Zenon
<1> HIDE DEF found
<1>4. /\ \A t \in found.chassis \cup found.pdus \cup found.systems : t.self.status \in Fine
      /\ \A x \in found.managers : x.status \in Fine
  BY <1>2, Zenon DEF AllTreesFine, AllFine
<1> QED  BY <1>1, <1>3, <1>4, Zenon

(* Each tree that is found is of a resource. *)
LEMMA EachIsOf ==
  ASSUME NEW ep, GoodReport(ep)
  PROVE  /\ \A t \in Found(ep).chassis :
              \E i \in DOMAIN Items(ep.chassis) : t = OneChassis(ep, Items(ep.chassis), i)
         /\ \A x \in Found(ep).managers :
              \E i \in DOMAIN Items(ep.managers) : x = Manager(ep, Items(ep.managers), i)
         /\ \A t \in Found(ep).pdus :
              \E i \in DOMAIN Items(PowerOf(ep)) : t = RackPDU(ep, Items(PowerOf(ep)), i)
         /\ \A t \in Found(ep).systems :
              \E i \in DOMAIN Items(ep.systems) : t = System(Items(ep.systems), i)
<1>1. Found(ep) = LocalPhase2(ep)
  BY FoundIs, Zenon DEF GoodReport, Found
<1>2. /\ Found(ep).chassis = {OneChassis(ep, Items(ep.chassis), i) : i \in DOMAIN Items(ep.chassis)}
      /\ Found(ep).managers = {Manager(ep, Items(ep.managers), i) : i \in DOMAIN Items(ep.managers)}
      /\ Found(ep).pdus = {RackPDU(ep, Items(PowerOf(ep)), i) : i \in DOMAIN Items(PowerOf(ep))}
      /\ Found(ep).systems = {System(Items(ep.systems), i) : i \in DOMAIN Items(ep.systems)}
  BY <1>1, LocalPhase2Is
<1> QED  BY <1>2

-----------------------------------------------------------------------------
(* Where a row is from: the resource, and the id. *)

ChassisAt(ep, i) ==
  LET cs == Items(ep.chassis)
      type == GetChassisHMSType(ep, cs[i])
  IN /\ i \in DOMAIN cs /\ cs[i].got = "ok" /\ type # "Invalid" /\ ChassisIDIsOfType(ep, type)
     /\ ChassisID(ep, cs, i) \in GetChassisHMSID(ep, type, GetChassisOrdinal(cs, i))
SystemAt(ep, i) ==
  LET ss == Items(ep.systems) IN
  i \in DOMAIN ss /\ SystemPhase1(ss[i]) = Verifying /\ IsNode(ss, i)

ChassisPlace(ep, oid, id) ==
  \E i : ChassisAt(ep, i) /\ oid = <<"chassis", i>> /\ id = ChassisID(ep, Items(ep.chassis), i)
SupplyPlace(ep, oid, id) ==
  \E i, k : /\ ChassisAt(ep, i) /\ k \in DOMAIN SuppliesOf(Items(ep.chassis)[i])
            /\ GetChassisHMSType(ep, Items(ep.chassis)[i]) \in {"NodeEnclosure", "Chassis"}
            /\ oid = <<"chassis", i>> \o <<"supplies", k>>
            /\ id = Append(ChassisID(ep, Items(ep.chassis), i), <<"t", k - 1>>)
SystemPlace(ep, oid, id) ==
  \E i : SystemAt(ep, i) /\ oid = <<"systems", i>> /\ id = SystemID(Items(ep.systems), i)
PartPlace(ep, oid, id) ==
  \E i : /\ SystemAt(ep, i)
         /\ LET ss == Items(ep.systems) IN
            \E x \in PartsBelow(ss[i], <<"systems", i>>, SystemID(ss, i)) :
              x.status = "DiscoverOK" /\ x.oid = oid /\ x.id = id
PDUPlace(ep, oid, id) ==
  \E i \in DOMAIN Items(PowerOf(ep)) : oid = <<"pdus", i>> /\ id = <<<<"p", i - 1>>>>
OutletPlace(ep, oid, id) ==
  \E i \in DOMAIN Items(PowerOf(ep)) : \E k \in DOMAIN Items(Items(PowerOf(ep))[i].outlets) :
    oid = <<"pdus", i>> \o <<"outlets", k>> /\ id = Append(<<<<"p", i - 1>>>>, <<"v", k - 1 + 1>>)
ManagerPlace(ep, oid, id) ==
  \E i \in DOMAIN Items(ep.managers) :
    /\ oid = <<"managers", i>> /\ id = <<>>
    /\ GetManagerHMSType(ep, Items(ep.managers), i) = ep.type
    /\ GetManagerOrdinal(Items(ep.managers), i) = 0

Place(ep, oid, id) ==
  \/ ChassisPlace(ep, oid, id) \/ SupplyPlace(ep, oid, id) \/ SystemPlace(ep, oid, id)
  \/ PartPlace(ep, oid, id) \/ PDUPlace(ep, oid, id) \/ OutletPlace(ep, oid, id)
  \/ ManagerPlace(ep, oid, id)

(* A node, and any other row. *)
NodeRow(ep, x) ==
  \E i : /\ SystemAt(ep, i)
         /\ x.oid = <<"systems", i>> /\ x.type = "Node" /\ x.id = SystemID(Items(ep.systems), i)
         /\ x.ordinal = GetSystemOrdinal(Items(ep.systems), i)
         /\ Sound(x)
OtherRow(ep, x) == x.type # "Node" /\ Place(ep, x.oid, x.id)
SoundRow(ep, x) == OtherRow(ep, x) /\ Sound(x)

LEMMA ChassisRows ==
  ASSUME NEW ep, GoodReport(ep), NEW t \in GoodTrees(Found(ep).chassis)
  PROVE  SoundRow(ep, t.self) /\ \A x \in Good(t.below) : SoundRow(ep, x)
<1> DEFINE cs == Items(ep.chassis)
<1>1. t \in Found(ep).chassis /\ t.self.status = "DiscoverOK"
  BY Zenon DEF GoodTrees
<1>2. PICK i \in DOMAIN cs : t = OneChassis(ep, cs, i)
  BY <1>1, EachIsOf
<1> DEFINE c == cs[i]
           type == GetChassisHMSType(ep, c)
           id == ChassisID(ep, cs, i)
           at == <<"chassis", i>>
           below == PowerSupplies(ep, c, at, id)
<1>3. ChassisFound(t, ep, cs, i)
  <2> HIDE DEF cs
  <2> QED  BY <1>1, <1>2, OneChassisIs
<1>4. ChassisAt(ep, i) /\ type # "Invalid"
  BY <1>2, <1>3, Zenon DEF ChassisAt, ChassisFound
<1>5. Grown(t, at, type, id, GetChassisOrdinal(cs, i), below)
  BY <1>3, Zenon DEF ChassisFound
<1>6. SoundRow(ep, t.self)
  <2>1. t.self.oid = at /\ t.self.type = type /\ t.self.id = id /\ Sound(t.self)
    <3> HIDE DEF at, type, id, below, cs
    <3> QED  BY <1>5, GrownIs
  <2>2. type # "Node"
    BY ChassisTypesAre DEF Switches
  <2>3. ChassisPlace(ep, t.self.oid, t.self.id)
    BY <1>4, <2>1, Zenon DEF ChassisPlace
  <2> QED  BY <2>1, <2>2, <2>3, Zenon DEF SoundRow, OtherRow, Place
<1>7. ASSUME NEW x \in Good(t.below) PROVE SoundRow(ep, x)
  <2>1. x \in below /\ x.status = "DiscoverOK"
    <3>1. t.below = below
      <4> HIDE DEF at, type, id, below, cs
      <4> QED  BY <1>5, GrownIs
    <3> QED  BY <1>7, <3>1, Zenon DEF Good
  <2>2. PICK k \in DOMAIN SuppliesOf(c) : x = PowerSupply(ep, c, at, id, k)
    BY <2>1, Zenon DEF PowerSupplies
  <2>3. /\ Whole(x, at \o <<"supplies", k>>, Append(id, <<"t", k - 1>>))
        /\ type \in {"NodeEnclosure", "Chassis"}
    <3> HIDE DEF at, id, c
    <3> QED  BY <2>1, <2>2, PowerSupplyIs
  <2>4. /\ x.oid = at \o <<"supplies", k>> /\ x.id = Append(id, <<"t", k - 1>>)
        /\ x.type # "Node" /\ Sound(x)
    BY <2>3, Zenon DEF Whole
  <2>5. SupplyPlace(ep, x.oid, x.id)
    BY <1>4, <2>2, <2>3, <2>4, Zenon DEF SupplyPlace
  <2> QED  BY <2>4, <2>5, Zenon DEF SoundRow, OtherRow, Place
<1> QED  BY <1>6, <1>7, Zenon

LEMMA PDURows ==
  ASSUME NEW ep, GoodReport(ep), NEW t \in GoodTrees(Found(ep).pdus)
  PROVE  SoundRow(ep, t.self) /\ \A x \in Good(t.below) : SoundRow(ep, x)
<1> DEFINE ps == Items(PowerOf(ep))
<1>1. t \in Found(ep).pdus /\ t.self.status = "DiscoverOK"
  BY Zenon DEF GoodTrees
<1>2. PICK i \in DOMAIN ps : t = RackPDU(ep, ps, i)
  BY <1>1, EachIsOf
<1>3. PDUFound(t, ep, ps, i)
  <2> HIDE DEF ps
  <2> QED  BY <1>1, <1>2, RackPDUIs
<1> DEFINE at == <<"pdus", i>>
           id == <<<<"p", i - 1>>>>
<1>4. PICK pdu : pdu.oid = at /\ pdu.id = id /\ Grown(t, at, "CabinetPDU", id, i - 1, PDUOutlets(ps[i], pdu))
  BY <1>3, Zenon DEF PDUFound
<1> DEFINE below == PDUOutlets(ps[i], pdu)
           type == "CabinetPDU"
<1>5. t.self.oid = at /\ t.self.type = type /\ t.self.id = id /\ Sound(t.self) /\ t.below = below
  <2> HIDE DEF at, id, below, ps, type
  <2> QED  BY <1>4, GrownIs DEF type, below
<1>6. SoundRow(ep, t.self)
  <2>1. PDUPlace(ep, t.self.oid, t.self.id)
    BY <1>2, <1>5, Zenon DEF PDUPlace
  <2>2. t.self.type # "Node"
    BY <1>5
  <2> QED  BY <1>5, <2>1, <2>2, Zenon DEF SoundRow, OtherRow, Place
<1>7. ASSUME NEW x \in Good(t.below) PROVE SoundRow(ep, x)
  <2>1. x \in below /\ x.status = "DiscoverOK"
    BY <1>5, <1>7, Zenon DEF Good
  <2>2. PICK k \in DOMAIN Items(ps[i].outlets) : x = PDUOutlet(ps[i], pdu, k)
    BY <2>1, Zenon DEF PDUOutlets
  <2>3. Whole(x, pdu.oid \o <<"outlets", k>>, GetOutletHMSID(pdu, k - 1))
    BY <2>1, <2>2, PDUOutletIs
  <2>4. x.oid = at \o <<"outlets", k>> /\ x.id = Append(id, <<"v", k - 1 + 1>>) /\ x.type # "Node" /\ Sound(x)
    BY <1>4, <2>3, Zenon DEF Whole, GetOutletHMSID
  <2>5. OutletPlace(ep, x.oid, x.id)
    BY <1>2, <2>2, <2>4, Zenon DEF OutletPlace
  <2> QED  BY <2>4, <2>5, Zenon DEF SoundRow, OtherRow, Place
<1> QED  BY <1>6, <1>7, Zenon

LEMMA ManagerRows ==
  ASSUME NEW ep, GoodReport(ep), NEW x \in Good(Found(ep).managers)
  PROVE  OtherRow(ep, x) /\ (x.type \in ManagerTypes => Sound(x))
<1> DEFINE ms == Items(ep.managers)
<1>1. x \in Found(ep).managers /\ x.status = "DiscoverOK"
  BY Zenon DEF Good
<1>2. PICK i \in DOMAIN ms : x = Manager(ep, ms, i)
  BY <1>1, EachIsOf
<1>3. /\ x.oid = <<"managers", i>>
      /\ GetManagerHMSType(ep, ms, i) = ep.type /\ GetManagerOrdinal(ms, i) = 0
      /\ x.type = ep.type /\ x.id = <<>>
      /\ ep.type \in ManagerTypes => Sound(x)
  <2> HIDE DEF ms
  <2> QED  BY <1>1, <1>2, ManagerIs
<1>4. ManagerPlace(ep, x.oid, x.id)
  BY <1>2, <1>3, Zenon DEF ManagerPlace
<1>5. x.type # "Node"
  <2>1. ep.type \in Controllers
    BY ReportsAre DEF GoodReport
  <2> QED  BY <1>3, <2>1 DEF Controllers, Switches
<1> QED  BY <1>3, <1>4, <1>5, Zenon DEF OtherRow, Place

(* The parts of a system, kind by kind. *)
LEMMA PartsAre ==
  ASSUME NEW s, NEW oid, NEW id, NEW x \in PartsBelow(s, oid, id)
  PROVE  \/ \E i \in DOMAIN Items(s.processors) : x = Processor(s, oid, id, i)
         \/ \E i \in DOMAIN Items(s.memory) : x = MemoryModule(s, oid, id, i)
         \/ \E g \in DOMAIN Items(s.storage) : \E i \in DOMAIN Items(Items(s.storage)[g]) :
              x = Drive(s, oid, id, g, i)
         \/ \E i \in Risers(s) : x = NodeAccelRiser(s, oid, id, i)
         \/ HasDevices(s) /\ \E i \in DOMAIN Items(s.devices) : x = HpeDevice(s, oid, id, i)
         \/ ~HasDevices(s) /\ \E i \in DOMAIN Items(s.adapters) : x = NetworkAdapter(s, oid, id, i)
<1>1. CASE x \in Processors(s, oid, id)
  BY <1>1, Zenon DEF Processors
<1>2. CASE x \in Memory(s, oid, id)
  BY <1>2, Zenon DEF Memory
<1>3. CASE x \in Drives(s, oid, id)
  <2>1. PICK y \in GroupedDrives(s) : x = Drive(s, oid, id, y.group, y.place)
    BY <1>3, Zenon DEF Drives
  <2>2. PICK g \in DOMAIN Items(s.storage) :
          y \in {[group |-> g, place |-> i] : i \in DOMAIN Items(Items(s.storage)[g])}
    BY Zenon DEF GroupedDrives
  <2>3. PICK i \in DOMAIN Items(Items(s.storage)[g]) : y = [group |-> g, place |-> i]
    BY <2>2, Zenon
  <2>4. y.group = g /\ y.place = i
    BY <2>3
  <2> QED  BY <2>1, <2>2, <2>3, <2>4, Zenon
<1>4. CASE x \in NodeAccelRisers(s, oid, id)
  BY <1>4, Zenon DEF NodeAccelRisers
<1>5. CASE x \in Cards(s, oid, id)
  BY <1>5, Zenon DEF Cards, HpeDevices, NetworkAdapters
<1> QED  BY <1>1, <1>2, <1>3, <1>4, <1>5, Zenon DEF PartsBelow

LEMMA MadeIsSound ==
  ASSUME NEW x, NEW at, NEW got, NEW id, Made(x, at, got, id), x.status = "DiscoverOK"
  PROVE  x.oid = at /\ got = "ok" /\ Sound(x) /\ x.type # "Node" /\ x.id = id
BY Zenon DEF Made, Outcome

LEMMA PartsAreSound ==
  ASSUME NEW s, NEW oid, NEW id, NEW x \in PartsBelow(s, oid, id), x.status = "DiscoverOK"
  PROVE  Sound(x) /\ x.type # "Node"
<1>1. \E at, got, name : Made(x, at, got, name)
  <2>1. ASSUME NEW i, x = Processor(s, oid, id, i) PROVE \E at, got, name : Made(x, at, got, name)
    BY <2>1, ProcessorIs, Zenon
  <2>2. ASSUME NEW i, x = MemoryModule(s, oid, id, i) PROVE \E at, got, name : Made(x, at, got, name)
    BY <2>2, MemoryModuleIs, Zenon
  <2>3. ASSUME NEW g, NEW i, x = Drive(s, oid, id, g, i) PROVE \E at, got, name : Made(x, at, got, name)
    BY <2>3, DriveIs, Zenon
  <2>4. ASSUME NEW i, x = NodeAccelRiser(s, oid, id, i) PROVE \E at, got, name : Made(x, at, got, name)
    BY <2>4, NodeAccelRiserIs, Zenon
  <2>5. ASSUME NEW i, x = HpeDevice(s, oid, id, i) PROVE \E at, got, name : Made(x, at, got, name)
    BY <2>5, HpeDeviceIs, Zenon
  <2>6. ASSUME NEW i, x = NetworkAdapter(s, oid, id, i) PROVE \E at, got, name : Made(x, at, got, name)
    BY <2>6, NetworkAdapterIs, Zenon
  <2>7. \/ \E i : x = Processor(s, oid, id, i)
        \/ \E i : x = MemoryModule(s, oid, id, i)
        \/ \E g, i : x = Drive(s, oid, id, g, i)
        \/ \E i : x = NodeAccelRiser(s, oid, id, i)
        \/ \E i : x = HpeDevice(s, oid, id, i)
        \/ \E i : x = NetworkAdapter(s, oid, id, i)
    BY PartsAre
  <2> QED  BY <2>1, <2>2, <2>3, <2>4, <2>5, <2>6, <2>7, Zenon
<1> QED  BY <1>1, MadeIsSound, Zenon

LEMMA SystemRows ==
  ASSUME NEW ep, GoodReport(ep), NEW t \in GoodTrees(Found(ep).systems)
  PROVE  NodeRow(ep, t.self) /\ \A x \in Good(t.below) : SoundRow(ep, x)
<1> DEFINE ss == Items(ep.systems)
<1>1. t \in Found(ep).systems /\ t.self.status = "DiscoverOK"
  BY Zenon DEF GoodTrees
<1>2. PICK i \in DOMAIN ss : t = System(ss, i)
  BY <1>1, EachIsOf
<1>3. SystemFound(t, ss, i)
  <2> HIDE DEF ss
  <2> QED  BY <1>1, <1>2, SystemIs
<1>4. SystemAt(ep, i)
  BY <1>2, <1>3, Zenon DEF SystemAt, SystemFound
<1> DEFINE at == <<"systems", i>>
           id == SystemID(ss, i)
           n == GetSystemOrdinal(ss, i)
           below == PartsBelow(ss[i], at, id)
           type == "Node"
<1>5. Grown(t, at, type, id, n, below)
  BY <1>3, Zenon DEF SystemFound
<1>6. /\ t.self.oid = at /\ t.self.type = type /\ t.self.id = id /\ t.self.ordinal = n
      /\ Sound(t.self) /\ t.below = below
  <2> HIDE DEF at, id, n, below, type
  <2> QED  BY <1>5, GrownIs
<1>7. NodeRow(ep, t.self)
  BY <1>4, <1>6, Zenon DEF NodeRow
<1>8. ASSUME NEW x \in Good(t.below) PROVE SoundRow(ep, x)
  <2>1. x \in below /\ x.status = "DiscoverOK"
    BY <1>6, <1>8, Zenon DEF Good
  <2>2. Sound(x) /\ x.type # "Node"
    BY <2>1, PartsAreSound
  <2>3. PartPlace(ep, x.oid, x.id)
    BY <1>4, <2>1, Zenon DEF PartPlace
  <2> QED  BY <2>2, <2>3, Zenon DEF SoundRow, OtherRow, Place
<1> QED  BY <1>7, <1>8, Zenon

-----------------------------------------------------------------------------
(* Ids. *)

LEMMA AppendIsPair ==
  ASSUME NEW x, NEW y
  PROVE  Append(<<x>>, y) = <<x, y>>
<1> DEFINE s == Append(<<x>>, y)
           t == <<x, y>>
<1>1. <<x>> \in Seq({x, y}) /\ y \in {x, y} /\ t \in Seq({x, y})
  OBVIOUS
<1>2. s \in Seq({x, y}) /\ Len(s) = 2 /\ s[1] = x /\ s[2] = y
  BY <1>1
<1>3. Len(t) = 2 /\ t[1] = x /\ t[2] = y
  OBVIOUS
<1> HIDE DEF s, t
<1>4. \A i \in 1 .. Len(s) : s[i] = t[i]
  BY <1>2, <1>3
<1>5. s = t
  BY <1>1, <1>2, <1>3, <1>4, SeqEqual
<1> QED  BY <1>5 DEF s, t

LEMMA ConcatIsTriple ==
  ASSUME NEW x, NEW y, NEW z
  PROVE  <<x>> \o <<y, z>> = <<x, y, z>>
<1> DEFINE s == <<x>> \o <<y, z>>
           t == <<x, y, z>>
           S == {x, y, z}
<1>1. <<x>> \in Seq(S) /\ <<y, z>> \in Seq(S) /\ t \in Seq(S)
  OBVIOUS
<1>2. s \in Seq(S) /\ Len(s) = 3 /\ s[1] = x /\ s[2] = y /\ s[3] = z
  BY <1>1
<1>3. Len(t) = 3 /\ t[1] = x /\ t[2] = y /\ t[3] = z
  OBVIOUS
<1> HIDE DEF s, t
<1>4. \A i \in 1 .. Len(s) : s[i] = t[i]
  BY <1>2, <1>3
<1>5. s = t
  BY <1>1, <1>2, <1>3, <1>4, SeqEqual
<1> QED  BY <1>5 DEF s, t

LEMMA Tuples ==
  ASSUME NEW x, NEW y, NEW z
  PROVE  /\ <<x>> # <<>> /\ <<x, y>> # <<>> /\ <<x, y, z>> # <<>>
         /\ Len(<<x>>) = 1 /\ Len(<<x, y>>) = 2 /\ Len(<<x, y, z>>) = 3
         /\ <<x>>[1] = x /\ <<x, y>>[1] = x /\ <<x, y>>[2] = y
         /\ <<x, y, z>>[1] = x /\ <<x, y, z>>[2] = y /\ <<x, y, z>>[3] = z
OBVIOUS

(* What is counted before one of those counted, and before a later one. *)
LEMMA CountsGrow ==
  ASSUME NEW i \in Int, NEW k \in Int, i < k, NEW A, NEW B,
         A \subseteq 1 .. i - 1, B \subseteq 1 .. k - 1, A \subseteq B, i \in B
  PROVE  Cardinality(A) # Cardinality(B)
<1>1. IsFiniteSet(B)
  BY FS_Interval, FS_Subset, 1 \in Int, k - 1 \in Int
<1>2. A # B
  OBVIOUS
<1> QED  BY <1>1, <1>2, FS_Subset

LEMMA CardinalityIs ==
  ASSUME NEW k \in Int, NEW A, A \subseteq 1 .. k - 1
  PROVE  Cardinality(A) \in Nat /\ IsFiniteSet(A)
<1>1. IsFiniteSet(1 .. k - 1)
  BY FS_Interval, 1 \in Int, k - 1 \in Int
<1>2. IsFiniteSet(A)
  BY <1>1, FS_Subset
<1> QED  BY <1>2, FS_CardinalityType

Kind(ep, id) ==
  IF id = <<>> THEN (IF ep.type \in Switches THEN "chassis" ELSE "manager")
  ELSE IF Len(id) = 1
  THEN (IF id[1][1] = "n" THEN "system" ELSE IF id[1][1] = "p" THEN "pdu" ELSE "chassis")
  ELSE IF id[1][1] = "n" THEN "part" ELSE IF id[1][1] = "p" THEN "outlet" ELSE "supply"

LEMMA ChassisIDIs ==
  ASSUME NEW ep, NEW i, ChassisAt(ep, i)
  PROVE  LET cs == Items(ep.chassis)
             type == GetChassisHMSType(ep, cs[i])
             id == ChassisID(ep, cs, i)
         IN \/ id = <<>> /\ type \in Switches /\ type = ep.type
            \/ id = <<<<"e", 0>>>> /\ type = "HSNBoard" /\ ep.type = "RouterBMC"
            \/ id = <<<<"e", 0>>>> /\ type = "NodeEnclosure" /\ ep.type = "NodeBMC"
            \/ id = <<<<"c", 0>>>> /\ type = "Chassis"
            \/ id = <<<<"s", GetChassisOrdinal(cs, i)>>>> /\ type = "ComputeModule"
            \/ id = <<<<"r", GetChassisOrdinal(cs, i)>>>> /\ type = "RouterModule"
<1> DEFINE cs == Items(ep.chassis)
           type == GetChassisHMSType(ep, cs[i])
           id == ChassisID(ep, cs, i)
           n == GetChassisOrdinal(cs, i)
<1>1. /\ type # "Invalid" /\ ChassisIDIsOfType(ep, type)
      /\ id \in GetChassisHMSID(ep, type, n)
  BY Zenon DEF ChassisAt
<1>2. /\ type \in {"Invalid", "Chassis", "HSNBoard", "NodeEnclosure", "ComputeModule", "RouterModule"}
                     \cup Switches
      /\ type \in Switches => type = ep.type
      /\ type = "HSNBoard" => ep.type = "RouterBMC"
  BY ChassisTypesAre
<1> HIDE DEF type, id, n
<1>3. type = "NodeEnclosure" => ep.type = "NodeBMC"
  BY <1>1 DEF ChassisIDIsOfType
<1>4. \/ id = <<>> /\ type \in Switches /\ type = ep.type
      \/ id = <<<<"e", 0>>>> /\ type = "HSNBoard" /\ ep.type = "RouterBMC"
      \/ id = <<<<"e", 0>>>> /\ type = "NodeEnclosure" /\ ep.type = "NodeBMC"
      \/ id = <<<<"c", 0>>>> /\ type = "Chassis"
      \/ id = <<<<"s", n>>>> /\ type = "ComputeModule"
      \/ id = <<<<"r", n>>>> /\ type = "RouterModule"
  <2>1. CASE type \in Switches
    BY <1>1, <1>2, <2>1 DEF GetChassisHMSID
  <2>2. CASE type \notin Switches
    BY <1>1, <1>2, <1>3, <2>2 DEF GetChassisHMSID
  <2> QED  BY <2>1, <2>2
<1> QED  BY <1>4, Zenon DEF type, id, n

LEMMA ChassisKind ==
  ASSUME NEW ep, NEW oid, NEW id, ChassisPlace(ep, oid, id)
  PROVE  Kind(ep, id) = "chassis"
<1>1. PICK i : ChassisAt(ep, i) /\ id = ChassisID(ep, Items(ep.chassis), i)
  BY Zenon DEF ChassisPlace
<1> DEFINE n == GetChassisOrdinal(Items(ep.chassis), i)
<1>2. \/ id = <<>> /\ ep.type \in Switches
      \/ id = <<<<"e", 0>>>> \/ id = <<<<"c", 0>>>> \/ id = <<<<"s", n>>>> \/ id = <<<<"r", n>>>>
  BY <1>1, ChassisIDIs
<1> HIDE DEF n
<1>3. \A x : <<x>> # <<>> /\ Len(<<x>>) = 1 /\ <<x>>[1] = x
  BY Tuples
<1>4. <<"e", 0>>[1] = "e" /\ <<"c", 0>>[1] = "c" /\ <<"s", n>>[1] = "s" /\ <<"r", n>>[1] = "r"
  OBVIOUS
<1> QED  BY <1>2, <1>3, <1>4 DEF Kind

LEMMA SupplyKind ==
  ASSUME NEW ep, NEW oid, NEW id, SupplyPlace(ep, oid, id)
  PROVE  Kind(ep, id) = "supply"
<1>1. PICK i, k : /\ ChassisAt(ep, i)
                  /\ GetChassisHMSType(ep, Items(ep.chassis)[i]) \in {"NodeEnclosure", "Chassis"}
                  /\ id = Append(ChassisID(ep, Items(ep.chassis), i), <<"t", k - 1>>)
  BY Zenon DEF SupplyPlace
<1> DEFINE t == <<"t", k - 1>>
<1>2. ChassisID(ep, Items(ep.chassis), i) \in {<<<<"e", 0>>>>, <<<<"c", 0>>>>}
  BY <1>1, ChassisIDIs DEF Switches
<1>3. id = <<<<"e", 0>>, t>> \/ id = <<<<"c", 0>>, t>>
  BY <1>1, <1>2, AppendIsPair
<1> HIDE DEF t
<1>4. \A x : <<x, t>> # <<>> /\ Len(<<x, t>>) = 2 /\ <<x, t>>[1] = x
  BY Tuples
<1> QED  BY <1>3, <1>4 DEF Kind

LEMMA SystemKind ==
  ASSUME NEW ep, NEW oid, NEW id, SystemPlace(ep, oid, id)
  PROVE  Kind(ep, id) = "system"
<1>1. PICK n : id = <<<<"n", n>>>>
  BY Zenon DEF SystemPlace, SystemID
<1> QED  BY <1>1 DEF Kind

LEMMA PDUKind ==
  ASSUME NEW ep, NEW oid, NEW id, PDUPlace(ep, oid, id)
  PROVE  Kind(ep, id) = "pdu"
<1>1. PICK n : id = <<<<"p", n>>>>
  BY Zenon DEF PDUPlace
<1> QED  BY <1>1 DEF Kind

LEMMA OutletKind ==
  ASSUME NEW ep, NEW oid, NEW id, OutletPlace(ep, oid, id)
  PROVE  Kind(ep, id) = "outlet"
<1>1. PICK n, m : id = Append(<<<<"p", n>>>>, <<"v", m>>)
  BY Zenon DEF OutletPlace
<1>2. id = <<<<"p", n>>, <<"v", m>>>>
  BY <1>1, AppendIsPair
<1> QED  BY <1>2 DEF Kind

LEMMA ManagerKind ==
  ASSUME NEW ep, NEW oid, NEW id, ManagerPlace(ep, oid, id)
  PROVE  Kind(ep, id) = "manager"
<1>1. PICK i : id = <<>> /\ GetManagerHMSType(ep, Items(ep.managers), i) = ep.type
  BY Zenon DEF ManagerPlace
<1> DEFINE ms == Items(ep.managers)
<1>2. GetManagerHMSType(ep, ms, i) # "Invalid" => ep.type \notin Switches
  BY DEF GetManagerHMSType
<1>3. ep.type \notin Switches
  BY <1>1, <1>2 DEF Switches
<1> QED  BY <1>1, <1>3 DEF Kind

(* Ordinals tell apart what they number. *)

LEMMA ChassisOrdinals ==
  ASSUME NEW cs, NEW i \in Int, NEW k \in Int, 1 <= i, i < k,
         cs[i].got = "ok", cs[i].type = cs[k].type, cs[i].name = cs[k].name, cs[i].name # Unsaid
  PROVE  GetChassisOrdinal(cs, i) # GetChassisOrdinal(cs, k)
<1> DEFINE Before(m) == {j \in 1 .. m - 1 : /\ cs[j].got = "ok" /\ cs[j].type = cs[m].type
                                            /\ cs[m].name # Unsaid /\ cs[j].name = cs[m].name}
<1>1. Before(i) \subseteq 1 .. i - 1 /\ Before(k) \subseteq 1 .. k - 1
  OBVIOUS
<1>2. Before(i) \subseteq Before(k)
  OBVIOUS
<1>3. i \in Before(k)
  OBVIOUS
<1>4. \A m : GetChassisOrdinal(cs, m) = Cardinality(Before(m))
  BY Zenon DEF GetChassisOrdinal
<1> HIDE DEF Before
<1>5. Cardinality(Before(i)) # Cardinality(Before(k))
  BY <1>1, <1>2, <1>3, CountsGrow
<1> QED  BY <1>4, <1>5

LEMMA SystemOrdinals ==
  ASSUME NEW ss, NEW i \in Int, NEW k \in Int, 1 <= i, i < k,
         ss[i].got = "ok", ss[i].type \in {"Physical", Unsaid}
  PROVE  GetSystemOrdinal(ss, i) # GetSystemOrdinal(ss, k)
<1> DEFINE Before(m) == {j \in 1 .. m - 1 : ss[j].got = "ok" /\ ss[j].type \in {"Physical", Unsaid}}
<1>1. Before(i) \subseteq 1 .. i - 1 /\ Before(k) \subseteq 1 .. k - 1
  OBVIOUS
<1>2. Before(i) \subseteq Before(k)
  OBVIOUS
<1>3. i \in Before(k)
  OBVIOUS
<1>4. \A m : GetSystemOrdinal(ss, m) = Cardinality(Before(m))
  BY Zenon DEF GetSystemOrdinal
<1> HIDE DEF Before
<1>5. Cardinality(Before(i)) # Cardinality(Before(k))
  BY <1>1, <1>2, <1>3, CountsGrow
<1> QED  BY <1>4, <1>5

LEMMA ProcessorOrdinals ==
  ASSUME NEW ps, NEW i \in Int, NEW k \in Int, 1 <= i, i < k,
         ps[i].got = "ok", IsAccelerator(ps[i]) <=> IsAccelerator(ps[k])
  PROVE  GetProcessorOrdinal(ps, i) # GetProcessorOrdinal(ps, k)
<1> DEFINE Before(m) == {j \in 1 .. m - 1 : ps[j].got = "ok" /\ (IsAccelerator(ps[j]) <=> IsAccelerator(ps[m]))}
<1>1. Before(i) \subseteq 1 .. i - 1 /\ Before(k) \subseteq 1 .. k - 1
  OBVIOUS
<1>2. ASSUME NEW j \in Before(i) PROVE j \in Before(k)
  <2>1. j \in 1 .. k - 1
    OBVIOUS
  <2>2. ps[j].got = "ok" /\ (IsAccelerator(ps[j]) <=> IsAccelerator(ps[k]))
    BY Zenon
  <2> QED  BY <2>1, <2>2, Zenon
<1>3. i \in Before(k)
  <2>1. i \in 1 .. k - 1
    OBVIOUS
  <2> QED  BY <2>1, Zenon
<1>4. \A m : GetProcessorOrdinal(ps, m) = Cardinality(Before(m))
  BY Zenon DEF GetProcessorOrdinal
<1> HIDE DEF Before
<1>5. Cardinality(Before(i)) # Cardinality(Before(k))
  BY <1>1, <1>2, <1>3, CountsGrow
<1> QED  BY <1>4, <1>5

LEMMA RiserOrdinals ==
  ASSUME NEW s, NEW i \in Risers(s), NEW k \in Risers(s), i \in Int, k \in Int, i < k,
         \A j \in Risers(s) : j \in Int /\ 1 <= j
  PROVE  GetNodeAccelRiserOrdinal(s, i) # GetNodeAccelRiserOrdinal(s, k)
<1> DEFINE Before(m) == {j \in Risers(s) : j < m}
<1>1. Before(i) \subseteq 1 .. i - 1 /\ Before(k) \subseteq 1 .. k - 1
  <2>1. \A m \in Int : \A j \in Before(m) : j \in 1 .. m - 1
    OBVIOUS
  <2> QED  BY <2>1
<1>2. ASSUME NEW j \in Before(i) PROVE j \in Before(k)
  <2>1. j \in Risers(s) /\ j < i
    BY Zenon
  <2>2. j < k
    BY <2>1
  <2> QED  BY <2>1, <2>2
<1>3. i \in Before(k)
  OBVIOUS
<1>4. \A m : GetNodeAccelRiserOrdinal(s, m) = Cardinality(Before(m))
  BY Zenon DEF GetNodeAccelRiserOrdinal
<1> HIDE DEF Before
<1>5. Cardinality(Before(i)) # Cardinality(Before(k))
  BY <1>1, <1>2, <1>3, CountsGrow
<1> QED  BY <1>4, <1>5

LEMMA HpeDeviceOrdinals ==
  ASSUME NEW ds, NEW i \in Int, NEW k \in Int, 1 <= i, i < k,
         ds[i].got = "ok", Usable(ds[i]), ds[i].kind = ds[k].kind
  PROVE  GetHpeDeviceOrdinal(ds, i) # GetHpeDeviceOrdinal(ds, k)
<1> DEFINE Before(m) == {j \in 1 .. m - 1 : /\ ds[j].got = "ok" /\ ds[j].kind = ds[m].kind
                                            /\ IsNic(ds[m]) => ds[j].known}
<1>1. Before(i) \subseteq 1 .. i - 1 /\ Before(k) \subseteq 1 .. k - 1
  OBVIOUS
<1>2. ASSUME NEW j \in Before(i) PROVE j \in Before(k)
  <2>1. j \in 1 .. k - 1
    OBVIOUS
  <2>2. ds[j].got = "ok" /\ ds[j].kind = ds[i].kind /\ (IsNic(ds[i]) => ds[j].known)
    BY Zenon
  <2>3. IsNic(ds[i]) <=> IsNic(ds[k])
    BY DEF IsNic
  <2> QED  BY <2>1, <2>2, <2>3, Zenon
<1>3. i \in Before(k)
  BY DEF Usable
<1>4. \A m : GetHpeDeviceOrdinal(ds, m) = Cardinality(Before(m))
  BY Zenon DEF GetHpeDeviceOrdinal
<1> HIDE DEF Before
<1>5. Cardinality(Before(i)) # Cardinality(Before(k))
  BY <1>1, <1>2, <1>3, CountsGrow
<1> QED  BY <1>4, <1>5

(* Where the endpoint is not crowded. *)

LEMMA ChassisNotCrowded ==
  ASSUME NEW ep, IsReport(ep), ~Crowded(ep),
         NEW i \in DOMAIN Items(ep.chassis), NEW k \in DOMAIN Items(ep.chassis),
         GetChassisHMSType(ep, Items(ep.chassis)[i]) = GetChassisHMSType(ep, Items(ep.chassis)[k]),
         GetChassisHMSType(ep, Items(ep.chassis)[i])
           \in {"NodeEnclosure", "HSNBoard", "Chassis"} \cup Switches
  PROVE  i = k
<1> DEFINE Type(j) == GetChassisHMSType(ep, ep.chassis.members[j])
<1>1. Items(ep.chassis) = ep.chassis.members
  BY ItemsAre, ReportsAre
<1>2. ~\E j, m \in DOMAIN ep.chassis.members :
         j # m /\ Type(j) = Type(m) /\ Type(j) \in {"NodeEnclosure", "HSNBoard", "Chassis"} \cup Switches
  BY Zenon DEF Crowded
<1> QED  BY <1>1, <1>2, Zenon

LEMMA ManagersNotCrowded ==
  ASSUME NEW ep, IsReport(ep), ~Crowded(ep),
         NEW i \in DOMAIN Items(ep.managers), NEW k \in DOMAIN Items(ep.managers),
         GetManagerHMSType(ep, Items(ep.managers), i) = ep.type,
         GetManagerOrdinal(Items(ep.managers), i) = 0,
         GetManagerHMSType(ep, Items(ep.managers), k) = ep.type,
         GetManagerOrdinal(Items(ep.managers), k) = 0
  PROVE  i = k
<1> DEFINE ms == ep.managers.members
           Own(j) == GetManagerHMSType(ep, ms, j) = ep.type /\ GetManagerOrdinal(ms, j) = 0
<1>1. Items(ep.managers) = ep.managers.members
  BY ItemsAre, ReportsAre
<1>2. ~\E j, m \in DOMAIN ep.managers.members : j # m /\ Own(j) /\ Own(m)
  BY Zenon DEF Crowded
<1> QED  BY <1>1, <1>2, Zenon

LEMMA SystemsNotCrowded ==
  ASSUME NEW ep, IsReport(ep), ~Crowded(ep), NEW i \in DOMAIN Items(ep.systems)
  PROVE  ~CrowdedSystem(Items(ep.systems)[i]) /\ IsSystem(Items(ep.systems)[i])
<1>1. Items(ep.systems) = ep.systems.members
  BY ItemsAre, ReportsAre
<1>2. ep.systems.members[i] \in Range(ep.systems.members)
  BY <1>1, Zenon DEF Range
<1>3. ~\E s \in Range(ep.systems.members) : CrowdedSystem(s)
  BY Zenon DEF Crowded
<1>4. \A j \in DOMAIN ep.systems.members : IsSystem(ep.systems.members[j])
  BY Zenon DEF IsReport
<1> QED  BY <1>1, <1>2, <1>3, <1>4, Zenon

(* The parts of one system. *)

ProcessorRow(s, top, n, x) ==
  \E i \in DOMAIN Items(s.processors) :
    LET ps == Items(s.processors) IN
    /\ ps[i].got = "ok" /\ x.oid = top \o <<"processors", i>>
    /\ x.id = <<<<"n", n>>, <<ProcessorLetter(ps[i]), GetProcessorOrdinal(ps, i)>>>>
MemoryRow(s, top, n, x) ==
  \E i \in DOMAIN Items(s.memory) :
    x.oid = top \o <<"memory", i>> /\ x.id = <<<<"n", n>>, <<"d", i - 1>>>>
DriveRow(s, top, n, x) ==
  \E g \in DOMAIN Items(s.storage) : \E i \in DOMAIN Items(Items(s.storage)[g]) :
    /\ x.oid = top \o <<"storage", g, i>>
    /\ x.id = <<<<"n", n>>, <<"g", GetStorageCollectionOrdinal(Items(s.storage), g)>>,
                <<"k", GetDriveOrdinal(Items(Items(s.storage)[g]), i)>>>>
RiserRow(s, top, n, x) ==
  \E i \in Risers(s) :
    x.oid = top \o <<"assembly", i>> /\ x.id = <<<<"n", n>>, <<"r", GetNodeAccelRiserOrdinal(s, i)>>>>
DeviceRow(s, top, n, x) ==
  /\ HasDevices(s)
  /\ \E i \in DOMAIN Items(s.devices) :
       LET ds == Items(s.devices) IN
       /\ ds[i].got = "ok" /\ Usable(ds[i]) /\ x.oid = top \o <<"devices", i>>
       /\ x.id = <<<<"n", n>>, <<DeviceLetter(ds[i]), GetHpeDeviceOrdinal(ds, i)>>>>
AdapterRow(s, top, n, x) ==
  /\ ~HasDevices(s)
  /\ \E i \in DOMAIN Items(s.adapters) :
       x.oid = top \o <<"adapters", i>> /\ x.id = <<<<"n", n>>, <<"h", i - 1>>>>

LEMMA PartRows ==
  ASSUME NEW s, NEW top, NEW n, NEW x \in PartsBelow(s, top, <<<<"n", n>>>>), x.status = "DiscoverOK"
  PROVE  \/ ProcessorRow(s, top, n, x) \/ MemoryRow(s, top, n, x) \/ DriveRow(s, top, n, x)
         \/ RiserRow(s, top, n, x) \/ DeviceRow(s, top, n, x) \/ AdapterRow(s, top, n, x)
<1> DEFINE b == <<"n", n>>
           id == <<b>>
<1>1. \A y : Append(id, y) = <<b, y>>
  BY AppendIsPair
<1>2. \A y, z : id \o <<y, z>> = <<b, y, z>>
  BY ConcatIsTriple
<1>3. x \in PartsBelow(s, top, id)
  OBVIOUS
<1> HIDE DEF id
<1>4. ASSUME NEW i \in DOMAIN Items(s.processors), x = Processor(s, top, id, i)
      PROVE  ProcessorRow(s, top, n, x)
  <2> DEFINE ps == Items(s.processors)
             y == <<ProcessorLetter(ps[i]), GetProcessorOrdinal(ps, i)>>
  <2>1. Made(x, top \o <<"processors", i>>, ps[i].got, Append(id, y))
    BY <1>4, ProcessorIs, Zenon
  <2>2. ps[i].got = "ok" /\ x.oid = top \o <<"processors", i>> /\ x.id = Append(id, y)
    BY <2>1, MadeIsSound, Zenon
  <2> QED  BY <1>1, <2>2, Zenon DEF ProcessorRow
<1>5. ASSUME NEW i \in DOMAIN Items(s.memory), x = MemoryModule(s, top, id, i)
      PROVE  MemoryRow(s, top, n, x)
  <2>1. x.oid = top \o <<"memory", i>> /\ x.id = Append(id, <<"d", i - 1>>)
    BY <1>5, MemoryModuleIs, MadeIsSound, Zenon
  <2> QED  BY <1>1, <2>1, Zenon DEF MemoryRow
<1>6. ASSUME NEW g \in DOMAIN Items(s.storage), NEW i \in DOMAIN Items(Items(s.storage)[g]),
             x = Drive(s, top, id, g, i)
      PROVE  DriveRow(s, top, n, x)
  <2> DEFINE y == <<"g", GetStorageCollectionOrdinal(Items(s.storage), g)>>
             z == <<"k", GetDriveOrdinal(Items(Items(s.storage)[g]), i)>>
  <2>1. x.oid = top \o <<"storage", g, i>> /\ x.id = id \o <<y, z>>
    <3>1. Made(x, top \o <<"storage", g, i>>, Items(Items(s.storage)[g])[i].got, id \o <<y, z>>)
      BY <1>6, DriveIs, Zenon
    <3> HIDE DEF y, z
    <3> QED  BY <3>1, MadeIsSound, Zenon
  <2> QED  BY <1>2, <2>1, Zenon DEF DriveRow
<1>7. ASSUME NEW i \in Risers(s), x = NodeAccelRiser(s, top, id, i)
      PROVE  RiserRow(s, top, n, x)
  <2>1. x.oid = top \o <<"assembly", i>> /\ x.id = Append(id, <<"r", GetNodeAccelRiserOrdinal(s, i)>>)
    BY <1>7, NodeAccelRiserIs, MadeIsSound, Zenon
  <2> QED  BY <1>1, <2>1, Zenon DEF RiserRow
<1>8. ASSUME HasDevices(s), NEW i \in DOMAIN Items(s.devices), x = HpeDevice(s, top, id, i)
      PROVE  DeviceRow(s, top, n, x)
  <2> DEFINE ds == Items(s.devices)
             m == ds[i]
             y == <<DeviceLetter(m), GetHpeDeviceOrdinal(ds, i)>>
             got == IF m.got = "ok" /\ ~Usable(m) THEN "missing" ELSE m.got
  <2>1. Made(x, top \o <<"devices", i>>, got, Append(id, y))
    BY <1>8, HpeDeviceIs, Zenon
  <2>2. got = "ok" /\ x.oid = top \o <<"devices", i>> /\ x.id = Append(id, y)
    BY <2>1, MadeIsSound, Zenon
  <2>3. m.got = "ok" /\ Usable(m)
    <3> HIDE DEF m
    <3> QED  BY <2>2
  <2> QED  BY <1>1, <1>8, <2>2, <2>3, Zenon DEF DeviceRow
<1>9. ASSUME ~HasDevices(s), NEW i \in DOMAIN Items(s.adapters), x = NetworkAdapter(s, top, id, i)
      PROVE  AdapterRow(s, top, n, x)
  <2>1. x.oid = top \o <<"adapters", i>> /\ x.id = Append(id, <<"h", i - 1>>)
    BY <1>9, NetworkAdapterIs, MadeIsSound, Zenon
  <2> QED  BY <1>1, <1>9, <2>1, Zenon DEF AdapterRow
<1>10. \/ \E i \in DOMAIN Items(s.processors) : x = Processor(s, top, id, i)
       \/ \E i \in DOMAIN Items(s.memory) : x = MemoryModule(s, top, id, i)
       \/ \E g \in DOMAIN Items(s.storage) : \E i \in DOMAIN Items(Items(s.storage)[g]) :
            x = Drive(s, top, id, g, i)
       \/ \E i \in Risers(s) : x = NodeAccelRiser(s, top, id, i)
       \/ HasDevices(s) /\ \E i \in DOMAIN Items(s.devices) : x = HpeDevice(s, top, id, i)
       \/ ~HasDevices(s) /\ \E i \in DOMAIN Items(s.adapters) : x = NetworkAdapter(s, top, id, i)
  BY <1>3, PartsAre
<1> QED  BY <1>4, <1>5, <1>6, <1>7, <1>8, <1>9, <1>10, Zenon

(* A part is of the node that its id begins with. *)
LEMMA PartRowsBegin ==
  ASSUME NEW s, NEW top, NEW n, NEW x \in PartsBelow(s, top, <<<<"n", n>>>>), x.status = "DiscoverOK"
  PROVE  x.id # <<>> /\ Len(x.id) # 1 /\ x.id[1] = <<"n", n>>
<1> DEFINE b == <<"n", n>>
<1>1. \E y, z : x.id = <<b, y>> \/ x.id = <<b, y, z>>
  <2>1. CASE ProcessorRow(s, top, n, x)
    BY <2>1, Zenon DEF ProcessorRow
  <2>2. CASE MemoryRow(s, top, n, x)
    BY <2>2, Zenon DEF MemoryRow
  <2>3. CASE DriveRow(s, top, n, x)
    BY <2>3, Zenon DEF DriveRow
  <2>4. CASE RiserRow(s, top, n, x)
    BY <2>4, Zenon DEF RiserRow
  <2>5. CASE DeviceRow(s, top, n, x)
    BY <2>5, Zenon DEF DeviceRow
  <2>6. CASE AdapterRow(s, top, n, x)
    BY <2>6, Zenon DEF AdapterRow
  <2> QED  BY <2>1, <2>2, <2>3, <2>4, <2>5, <2>6, PartRows, Zenon
<1> HIDE DEF b
<1>2. x.id # <<>> /\ Len(x.id) # 1 /\ x.id[1] = b
  BY <1>1
<1> QED  BY <1>2 DEF b

LEMMA SamePairs ==
  ASSUME NEW b, NEW l, NEW m, NEW k, NEW j, <<b, <<l, m>>>> = <<b, <<k, j>>>>
  PROVE  l = k /\ m = j
OBVIOUS

LEMMA SameTriples ==
  ASSUME NEW b, NEW l, NEW m, NEW k, NEW j, <<b, <<"g", l>>, <<"k", m>>>> = <<b, <<"g", k>>, <<"k", j>>>>
  PROVE  l = k /\ m = j
OBVIOUS

LEMMA Indices ==
  ASSUME NEW l, IsList(l), NEW i \in DOMAIN Items(l)
  PROVE  i \in Int /\ 1 <= i
BY ItemsAre

LEMMA ProcessorsApart ==
  ASSUME NEW s, IsSystem(s), ~CrowdedSystem(s), NEW top, NEW n, NEW x, NEW y,
         ProcessorRow(s, top, n, x), ProcessorRow(s, top, n, y), x.id = y.id
  PROVE  x.oid = y.oid
<1> DEFINE ps == Items(s.processors)
           Id(i) == <<<<"n", n>>, <<ProcessorLetter(ps[i]), GetProcessorOrdinal(ps, i)>>>>
<1>0. PICK i \in DOMAIN ps : ps[i].got = "ok" /\ x.oid = top \o <<"processors", i>> /\ x.id = Id(i)
  BY Zenon DEF ProcessorRow
<1>1. PICK k \in DOMAIN ps : ps[k].got = "ok" /\ y.oid = top \o <<"processors", k>> /\ y.id = Id(k)
  BY Zenon DEF ProcessorRow
<1>2. ProcessorLetter(ps[i]) = ProcessorLetter(ps[k]) /\ GetProcessorOrdinal(ps, i) = GetProcessorOrdinal(ps, k)
  <2>1. Id(i) = Id(k)
    BY <1>0, <1>1, Zenon
  <2> QED  BY <2>1, SamePairs, Zenon
<1>3. IsList(s.processors)
  BY Zenon DEF IsSystem, AreRead
<1>4. \A j \in DOMAIN ps : j \in Int /\ 1 <= j
  BY <1>3, Indices
<1>5. \A j \in DOMAIN ps : ps[j].kind # "Accelerator"
  <2>1. \A j \in DOMAIN ps : ps = s.processors.members
    BY <1>3, ItemsAre
  <2>2. \A p \in Range(s.processors.members) : p.kind # "Accelerator"
    BY Zenon DEF CrowdedSystem
  <2> QED  BY <2>1, <2>2, Zenon DEF Range
<1>6. IsAccelerator(ps[i]) <=> IsAccelerator(ps[k])
  BY <1>2, <1>5 DEF IsAccelerator, ProcessorLetter
<1>7. ~(i < k) /\ ~(k < i)
  BY <1>0, <1>1, <1>2, <1>4, <1>6, ProcessorOrdinals
<1>8. i = k
  BY <1>4, <1>7
<1> QED  BY <1>0, <1>1, <1>8

LEMMA MemoryApart ==
  ASSUME NEW s, IsSystem(s), NEW top, NEW n, NEW x, NEW y,
         MemoryRow(s, top, n, x), MemoryRow(s, top, n, y), x.id = y.id
  PROVE  x.oid = y.oid
<1>1. PICK i \in DOMAIN Items(s.memory) : x.oid = top \o <<"memory", i>> /\ x.id = <<<<"n", n>>, <<"d", i - 1>>>>
  BY Zenon DEF MemoryRow
<1>2. PICK k \in DOMAIN Items(s.memory) : y.oid = top \o <<"memory", k>> /\ y.id = <<<<"n", n>>, <<"d", k - 1>>>>
  BY Zenon DEF MemoryRow
<1>3. IsList(s.memory)
  BY Zenon DEF IsSystem, AreRead
<1>4. i \in Int /\ k \in Int
  BY <1>3, Indices
<1>5. i - 1 = k - 1
  <2>1. <<<<"n", n>>, <<"d", i - 1>>>> = <<<<"n", n>>, <<"d", k - 1>>>>
    BY <1>1, <1>2, Zenon
  <2> QED  BY <2>1, SamePairs, Zenon
<1>6. i = k
  BY <1>4, <1>5
<1> QED  BY <1>1, <1>2, <1>6

LEMMA AdaptersApart ==
  ASSUME NEW s, IsSystem(s), NEW top, NEW n, NEW x, NEW y,
         AdapterRow(s, top, n, x), AdapterRow(s, top, n, y), x.id = y.id
  PROVE  x.oid = y.oid
<1>1. PICK i \in DOMAIN Items(s.adapters) : x.oid = top \o <<"adapters", i>> /\ x.id = <<<<"n", n>>, <<"h", i - 1>>>>
  BY Zenon DEF AdapterRow
<1>2. PICK k \in DOMAIN Items(s.adapters) : y.oid = top \o <<"adapters", k>> /\ y.id = <<<<"n", n>>, <<"h", k - 1>>>>
  BY Zenon DEF AdapterRow
<1>3. IsList(s.adapters)
  BY Zenon DEF IsSystem, AreRead
<1>4. i \in Int /\ k \in Int
  BY <1>3, Indices
<1>5. i - 1 = k - 1
  <2>1. <<<<"n", n>>, <<"h", i - 1>>>> = <<<<"n", n>>, <<"h", k - 1>>>>
    BY <1>1, <1>2, Zenon
  <2> QED  BY <2>1, SamePairs, Zenon
<1>6. i = k
  BY <1>4, <1>5
<1> QED  BY <1>1, <1>2, <1>6

LEMMA RisersApart ==
  ASSUME NEW s, IsSystem(s), NEW top, NEW n, NEW x, NEW y,
         RiserRow(s, top, n, x), RiserRow(s, top, n, y), x.id = y.id
  PROVE  x.oid = y.oid
<1> DEFINE Ord(i) == GetNodeAccelRiserOrdinal(s, i)
<1>1. PICK i \in Risers(s) : x.oid = top \o <<"assembly", i>> /\ x.id = <<<<"n", n>>, <<"r", Ord(i)>>>>
  BY Zenon DEF RiserRow
<1>2. PICK k \in Risers(s) : y.oid = top \o <<"assembly", k>> /\ y.id = <<<<"n", n>>, <<"r", Ord(k)>>>>
  BY Zenon DEF RiserRow
<1>3. IsList(s.assembly)
  BY Zenon DEF IsSystem, AreRead
<1>4. \A j \in Risers(s) : j \in Int /\ 1 <= j
  BY <1>3, Indices DEF Risers
<1>5. Ord(i) = Ord(k)
  <2>1. <<<<"n", n>>, <<"r", Ord(i)>>>> = <<<<"n", n>>, <<"r", Ord(k)>>>>
    BY <1>1, <1>2, Zenon
  <2> QED  BY <2>1, SamePairs, Zenon
<1>6. ~(i < k) /\ ~(k < i)
  BY <1>4, <1>5, RiserOrdinals
<1>7. i = k
  BY <1>4, <1>6
<1> QED  BY <1>1, <1>2, <1>7

LEMMA DevicesApart ==
  ASSUME NEW s, IsSystem(s), ~CrowdedSystem(s), NEW top, NEW n, NEW x, NEW y,
         DeviceRow(s, top, n, x), DeviceRow(s, top, n, y), x.id = y.id
  PROVE  x.oid = y.oid
<1> DEFINE ds == Items(s.devices)
           Id(i) == <<<<"n", n>>, <<DeviceLetter(ds[i]), GetHpeDeviceOrdinal(ds, i)>>>>
<1>0. PICK i \in DOMAIN ds :
        ds[i].got = "ok" /\ Usable(ds[i]) /\ x.oid = top \o <<"devices", i>> /\ x.id = Id(i)
  BY Zenon DEF DeviceRow
<1>1. PICK k \in DOMAIN ds :
        ds[k].got = "ok" /\ Usable(ds[k]) /\ y.oid = top \o <<"devices", k>> /\ y.id = Id(k)
  BY Zenon DEF DeviceRow
<1>2. DeviceLetter(ds[i]) = DeviceLetter(ds[k]) /\ GetHpeDeviceOrdinal(ds, i) = GetHpeDeviceOrdinal(ds, k)
  <2>1. Id(i) = Id(k)
    BY <1>0, <1>1, Zenon
  <2> QED  BY <2>1, SamePairs, Zenon
<1>3. IsList(s.devices)
  BY Zenon DEF IsSystem, AreRead
<1>4. \A j \in DOMAIN ds : j \in Int /\ 1 <= j
  BY <1>3, Indices
<1>5. IsNic(ds[i]) /\ IsNic(ds[k]) => ds[i].kind = ds[k].kind
  <2>1. \A j \in DOMAIN ds : ds = s.devices.members
    BY <1>3, ItemsAre
  <2>2. \A d, e \in Range(s.devices.members) : IsNic(d) /\ IsNic(e) => d.kind = e.kind
    BY Zenon DEF CrowdedSystem
  <2> QED  BY <2>1, <2>2, Zenon DEF Range
<1>6. ds[i].kind = ds[k].kind
  <2>1. ds[i].kind = "GPU" \/ IsNic(ds[i])
    BY <1>0, Zenon DEF Usable
  <2>2. ds[k].kind = "GPU" \/ IsNic(ds[k])
    BY <1>1, Zenon DEF Usable
  <2>3. ds[i].kind = "GPU" <=> ds[k].kind = "GPU"
    BY <1>2 DEF DeviceLetter
  <2> QED  BY <1>5, <2>1, <2>2, <2>3, Zenon
<1>7. ~(i < k) /\ ~(k < i)
  BY <1>0, <1>1, <1>2, <1>4, <1>6, HpeDeviceOrdinals
<1>8. i = k
  BY <1>4, <1>7
<1> QED  BY <1>0, <1>1, <1>8

(* Numbers from names, and from places. *)
LEMMA NamesApart ==
  ASSUME NEW l, AreNamed(l), ~NumbersClash(l),
         NEW i \in DOMAIN Items(l), NEW k \in DOMAIN Items(l),
         (IF Items(l)[i].name >= 0 THEN Items(l)[i].name ELSE i - 1)
           = (IF Items(l)[k].name >= 0 THEN Items(l)[k].name ELSE k - 1)
  PROVE  i = k
<1> DEFINE ms == l.members
<1>1. IsList(l) /\ \A j \in DOMAIN ms : ms[j].name \in Int
  BY Zenon DEF AreNamed, AreRead
<1>2. Items(l) = ms /\ i \in DOMAIN ms /\ k \in DOMAIN ms /\ i \in Int /\ k \in Int
  BY <1>1, ItemsAre, Indices
<1>3. \A j, m \in DOMAIN ms :
        ~(/\ j # m /\ ms[j].name >= 0
          /\ ms[m].name < 0 \/ ms[m].name = ms[j].name)
  BY DEF NumbersClash
<1> HIDE DEF ms
<1>4. ms[i].name \in Int /\ ms[k].name \in Int
  BY <1>1, <1>2
<1>5. (IF ms[i].name >= 0 THEN ms[i].name ELSE i - 1) = (IF ms[k].name >= 0 THEN ms[k].name ELSE k - 1)
  BY <1>2
<1> QED  BY <1>2, <1>3, <1>4, <1>5

LEMMA DrivesApart ==
  ASSUME NEW s, IsSystem(s), ~CrowdedSystem(s), NEW top, NEW n, NEW x, NEW y,
         DriveRow(s, top, n, x), DriveRow(s, top, n, y), x.id = y.id
  PROVE  x.oid = y.oid
<1> DEFINE gs == Items(s.storage)
           Id(g, i) == <<<<"n", n>>, <<"g", GetStorageCollectionOrdinal(gs, g)>>,
                         <<"k", GetDriveOrdinal(Items(gs[g]), i)>>>>
<1>1. PICK g \in DOMAIN gs : \E i \in DOMAIN Items(gs[g]) :
        x.oid = top \o <<"storage", g, i>> /\ x.id = Id(g, i)
  BY Zenon DEF DriveRow
<1>2. PICK i \in DOMAIN Items(gs[g]) : x.oid = top \o <<"storage", g, i>> /\ x.id = Id(g, i)
  BY <1>1
<1>3. PICK h \in DOMAIN gs : \E k \in DOMAIN Items(gs[h]) :
        y.oid = top \o <<"storage", h, k>> /\ y.id = Id(h, k)
  BY Zenon DEF DriveRow
<1>4. PICK k \in DOMAIN Items(gs[h]) : y.oid = top \o <<"storage", h, k>> /\ y.id = Id(h, k)
  BY <1>3
<1>5. /\ GetStorageCollectionOrdinal(gs, g) = GetStorageCollectionOrdinal(gs, h)
      /\ GetDriveOrdinal(Items(gs[g]), i) = GetDriveOrdinal(Items(gs[h]), k)
  <2>1. Id(g, i) = Id(h, k)
    BY <1>2, <1>4, Zenon
  <2> QED  BY <2>1, SameTriples, Zenon
<1>6. AreNamed(s.storage) /\ \A j \in DOMAIN s.storage.members : AreNamed(s.storage.members[j])
  BY Zenon DEF IsSystem
<1>7. ~NumbersClash(s.storage) /\ \A m \in Range(s.storage.members) : ~NumbersClash(m)
  BY Zenon DEF CrowdedSystem
<1>8. g = h
  BY <1>5, <1>6, <1>7, NamesApart DEF GetStorageCollectionOrdinal
<1>9. AreNamed(gs[g]) /\ ~NumbersClash(gs[g])
  <2>1. IsList(s.storage)
    BY <1>6, Zenon DEF AreNamed, AreRead
  <2>2. gs = s.storage.members
    BY <2>1, ItemsAre
  <2> QED  BY <1>6, <1>7, <2>2, Zenon DEF Range
<1>10. i = k
  BY <1>5, <1>8, <1>9, NamesApart DEF GetDriveOrdinal
<1> QED  BY <1>2, <1>4, <1>8, <1>10

(* The letter that tells the kind of a part. *)
Second(id) == IF Len(id) = 3 THEN "g" ELSE id[2][1]

LEMMA LettersOfParts ==
  ASSUME NEW s, NEW top, NEW n, NEW x
  PROVE  /\ ProcessorRow(s, top, n, x) => Second(x.id) \in {"a", "p"}
         /\ MemoryRow(s, top, n, x) => Second(x.id) = "d"
         /\ DriveRow(s, top, n, x) => Second(x.id) = "g"
         /\ RiserRow(s, top, n, x) => Second(x.id) = "r"
         /\ DeviceRow(s, top, n, x) => Second(x.id) \in {"a", "h"}
         /\ AdapterRow(s, top, n, x) => Second(x.id) = "h"
<1>1. \A l, m : Second(<<<<"n", n>>, <<l, m>>>>) = l
  BY DEF Second
<1>2. \A l, m : Second(<<<<"n", n>>, l, m>>) = "g"
  BY DEF Second
<1>3. \A p : ProcessorLetter(p) \in {"a", "p"} /\ DeviceLetter(p) \in {"a", "h"}
  BY DEF ProcessorLetter, DeviceLetter
<1>4. ProcessorRow(s, top, n, x) => Second(x.id) \in {"a", "p"}
  <2>1. ASSUME ProcessorRow(s, top, n, x)
        PROVE  \E p, m : x.id = <<<<"n", n>>, <<ProcessorLetter(p), m>>>>
    BY <2>1, Zenon DEF ProcessorRow
  <2>2. \A p, m : Second(<<<<"n", n>>, <<ProcessorLetter(p), m>>>>) \in {"a", "p"}
    BY <1>1, <1>3
  <2> QED  BY <2>1, <2>2, Zenon
<1>5. MemoryRow(s, top, n, x) => Second(x.id) = "d"
  BY <1>1, Zenon DEF MemoryRow
<1>6. DriveRow(s, top, n, x) => Second(x.id) = "g"
  BY <1>2, Zenon DEF DriveRow
<1>7. RiserRow(s, top, n, x) => Second(x.id) = "r"
  BY <1>1, Zenon DEF RiserRow
<1>8. DeviceRow(s, top, n, x) => Second(x.id) \in {"a", "h"}
  <2>1. ASSUME DeviceRow(s, top, n, x)
        PROVE  \E p, m : x.id = <<<<"n", n>>, <<DeviceLetter(p), m>>>>
    BY <2>1, Zenon DEF DeviceRow
  <2>2. \A p, m : Second(<<<<"n", n>>, <<DeviceLetter(p), m>>>>) \in {"a", "h"}
    BY <1>1, <1>3
  <2> QED  BY <2>1, <2>2, Zenon
<1>9. AdapterRow(s, top, n, x) => Second(x.id) = "h"
  BY <1>1, Zenon DEF AdapterRow
<1> QED  BY <1>4, <1>5, <1>6, <1>7, <1>8, <1>9

(* A processor named as an accelerator, and a device: not where there are  *)
(* both.                                                                   *)
LEMMA ProcessorsAreNoDevices ==
  ASSUME NEW s, IsSystem(s), ~CrowdedSystem(s), NEW top, NEW n, NEW x, NEW y,
         ProcessorRow(s, top, n, x), DeviceRow(s, top, n, y)
  PROVE  x.id # y.id
<1> DEFINE ps == Items(s.processors)
           ds == Items(s.devices)
<1>1. PICK i \in DOMAIN ps : x.id = <<<<"n", n>>, <<ProcessorLetter(ps[i]), GetProcessorOrdinal(ps, i)>>>>
  BY Zenon DEF ProcessorRow
<1>2. PICK k \in DOMAIN ds : y.id = <<<<"n", n>>, <<DeviceLetter(ds[k]), GetHpeDeviceOrdinal(ds, k)>>>>
  BY Zenon DEF DeviceRow
<1>3. IsList(s.processors) /\ HasDevices(s)
  BY Zenon DEF IsSystem, AreRead, DeviceRow
<1>4. \A p \in Range(s.processors.members) : p.kind # "GPU"
  BY <1>3, Zenon DEF CrowdedSystem
<1>5. ps = s.processors.members
  BY <1>3, ItemsAre
<1>6. ps[i].kind # "GPU"
  BY <1>4, <1>5, Zenon DEF Range
<1>7. ProcessorLetter(ps[i]) = "p" /\ DeviceLetter(ds[k]) \in {"a", "h"}
  BY <1>6 DEF ProcessorLetter, DeviceLetter
<1> HIDE DEF ps, ds
<1> QED  BY <1>1, <1>2, <1>7

LEMMA PartsApart ==
  ASSUME NEW s, IsSystem(s), ~CrowdedSystem(s), NEW top, NEW n,
         NEW x \in PartsBelow(s, top, <<<<"n", n>>>>), NEW y \in PartsBelow(s, top, <<<<"n", n>>>>),
         x.status = "DiscoverOK", y.status = "DiscoverOK", x.id = y.id
  PROVE  x.oid = y.oid
<1>1. \/ ProcessorRow(s, top, n, x) \/ MemoryRow(s, top, n, x) \/ DriveRow(s, top, n, x)
      \/ RiserRow(s, top, n, x) \/ DeviceRow(s, top, n, x) \/ AdapterRow(s, top, n, x)
  BY PartRows
<1>2. \/ ProcessorRow(s, top, n, y) \/ MemoryRow(s, top, n, y) \/ DriveRow(s, top, n, y)
      \/ RiserRow(s, top, n, y) \/ DeviceRow(s, top, n, y) \/ AdapterRow(s, top, n, y)
  BY PartRows
<1>3. \A z : /\ ProcessorRow(s, top, n, z) => Second(z.id) \in {"a", "p"}
             /\ MemoryRow(s, top, n, z) => Second(z.id) = "d"
             /\ DriveRow(s, top, n, z) => Second(z.id) = "g"
             /\ RiserRow(s, top, n, z) => Second(z.id) = "r"
             /\ DeviceRow(s, top, n, z) => Second(z.id) \in {"a", "h"}
             /\ AdapterRow(s, top, n, z) => Second(z.id) = "h"
  BY LettersOfParts
<1>4. ~(DeviceRow(s, top, n, x) /\ AdapterRow(s, top, n, y)) /\ ~(AdapterRow(s, top, n, x) /\ DeviceRow(s, top, n, y))
  BY Zenon DEF DeviceRow, AdapterRow
<1>5. ~(ProcessorRow(s, top, n, x) /\ DeviceRow(s, top, n, y)) /\ ~(DeviceRow(s, top, n, x) /\ ProcessorRow(s, top, n, y))
  BY ProcessorsAreNoDevices
<1>6. Second(x.id) = Second(y.id)
  OBVIOUS
<1>7. \/ ProcessorRow(s, top, n, x) /\ ProcessorRow(s, top, n, y)
      \/ MemoryRow(s, top, n, x) /\ MemoryRow(s, top, n, y)
      \/ DriveRow(s, top, n, x) /\ DriveRow(s, top, n, y)
      \/ RiserRow(s, top, n, x) /\ RiserRow(s, top, n, y)
      \/ DeviceRow(s, top, n, x) /\ DeviceRow(s, top, n, y)
      \/ AdapterRow(s, top, n, x) /\ AdapterRow(s, top, n, y)
  BY <1>1, <1>2, <1>3, <1>4, <1>5, <1>6
<1> QED  BY <1>7, ProcessorsApart, MemoryApart, DrivesApart, RisersApart, DevicesApart, AdaptersApart

(* All of an endpoint. *)

LEMMA PartKind ==
  ASSUME NEW ep, NEW oid, NEW id, PartPlace(ep, oid, id)
  PROVE  Kind(ep, id) = "part"
<1> DEFINE ss == Items(ep.systems)
<1>1. PICK i : \E x \in PartsBelow(ss[i], <<"systems", i>>, SystemID(ss, i)) : x.status = "DiscoverOK" /\ x.id = id
  BY Zenon DEF PartPlace
<1> DEFINE n == GetSystemOrdinal(ss, i)
<1>2. PICK x \in PartsBelow(ss[i], <<"systems", i>>, <<<<"n", n>>>>) : x.status = "DiscoverOK" /\ x.id = id
  BY <1>1, Zenon DEF SystemID
<1> HIDE DEF n
<1>3. id # <<>> /\ Len(id) # 1 /\ id[1] = <<"n", n>>
  BY <1>2, PartRowsBegin
<1>4. id[1][1] = "n"
  BY <1>3
<1> QED  BY <1>3, <1>4 DEF Kind

FirstLetter(id) == IF id = <<>> THEN "none" ELSE id[1][1]

LEMMA FirstLetters ==
  FirstLetter(<<>>) = "none" /\ \A l, m : FirstLetter(<<<<l, m>>>>) = l
BY DEF FirstLetter

LEMMA ChassisIDsApart ==
  ASSUME NEW ep, IsReport(ep), ~Crowded(ep), NEW i, NEW k, ChassisAt(ep, i), ChassisAt(ep, k),
         ChassisID(ep, Items(ep.chassis), i) = ChassisID(ep, Items(ep.chassis), k)
  PROVE  i = k
<1> DEFINE cs == Items(ep.chassis)
           Type(j) == GetChassisHMSType(ep, cs[j])
           Id(j) == ChassisID(ep, cs, j)
           n(j) == GetChassisOrdinal(cs, j)
<1>1. i \in DOMAIN cs /\ k \in DOMAIN cs /\ cs[i].got = "ok" /\ cs[k].got = "ok"
  BY Zenon DEF ChassisAt
<1>2. i \in Int /\ k \in Int /\ 1 <= i /\ 1 <= k
  BY <1>1, Indices, ReportsAre
<1>3. \A j \in {i, k} :
        \/ Id(j) = <<>> /\ Type(j) \in Switches /\ Type(j) = ep.type
        \/ Id(j) = <<<<"e", 0>>>> /\ Type(j) = "HSNBoard" /\ ep.type = "RouterBMC"
        \/ Id(j) = <<<<"e", 0>>>> /\ Type(j) = "NodeEnclosure" /\ ep.type = "NodeBMC"
        \/ Id(j) = <<<<"c", 0>>>> /\ Type(j) = "Chassis"
        \/ Id(j) = <<<<"s", n(j)>>>> /\ Type(j) = "ComputeModule"
        \/ Id(j) = <<<<"r", n(j)>>>> /\ Type(j) = "RouterModule"
  BY ChassisIDIs
<1>4. \A j \in {i, k} : /\ Type(j) = "ComputeModule" => cs[j].type = "Blade" /\ cs[j].name = "blade"
                        /\ Type(j) = "RouterModule" => cs[j].type = "Blade" /\ cs[j].name = "perif"
  BY ChassisTypesAre
<1>5. Type(i) = Type(k) /\ Type(i) \in {"NodeEnclosure", "HSNBoard", "Chassis"} \cup Switches => i = k
  BY <1>1, ChassisNotCrowded
<1>6. Id(i) = Id(k)
  OBVIOUS
<1>7. "blade" # Unsaid /\ "perif" # Unsaid
  BY DEF Unsaid
<1> HIDE DEF Type, Id, n
<1>8. Type(i) = Type(k)
  <2>1. \A j \in {i, k} :
          \/ FirstLetter(Id(j)) = "none" /\ Type(j) = ep.type
          \/ FirstLetter(Id(j)) = "e" /\ Type(j) = "HSNBoard" /\ ep.type = "RouterBMC"
          \/ FirstLetter(Id(j)) = "e" /\ Type(j) = "NodeEnclosure" /\ ep.type = "NodeBMC"
          \/ FirstLetter(Id(j)) = "c" /\ Type(j) = "Chassis"
          \/ FirstLetter(Id(j)) = "s" /\ Type(j) = "ComputeModule"
          \/ FirstLetter(Id(j)) = "r" /\ Type(j) = "RouterModule"
    BY <1>3, FirstLetters
  <2>2. FirstLetter(Id(i)) = FirstLetter(Id(k))
    BY <1>6, Zenon
  <2> QED  BY <2>1, <2>2
<1>9. CASE Type(i) \in {"ComputeModule", "RouterModule"}
  <2>1. n(i) = n(k)
    BY <1>3, <1>6, <1>8, <1>9 DEF Switches
  <2>2. cs[i].type = cs[k].type /\ cs[i].name = cs[k].name /\ cs[i].name # Unsaid
    BY <1>4, <1>7, <1>8, <1>9
  <2>3. ~(i < k) /\ ~(k < i)
    <3> HIDE DEF cs
    <3> QED  BY <1>1, <1>2, <2>1, <2>2, ChassisOrdinals DEF n
  <2> QED  BY <1>2, <2>3
<1>10. CASE Type(i) \notin {"ComputeModule", "RouterModule"}
  BY <1>3, <1>5, <1>8, <1>10
<1> QED  BY <1>9, <1>10

LEMMA ChassisApart ==
  ASSUME NEW ep, IsReport(ep), ~Crowded(ep), NEW p, NEW q, NEW id,
         ChassisPlace(ep, p, id), ChassisPlace(ep, q, id)
  PROVE  p = q
<1>1. PICK i : ChassisAt(ep, i) /\ p = <<"chassis", i>> /\ id = ChassisID(ep, Items(ep.chassis), i)
  BY Zenon DEF ChassisPlace
<1>2. PICK k : ChassisAt(ep, k) /\ q = <<"chassis", k>> /\ id = ChassisID(ep, Items(ep.chassis), k)
  BY Zenon DEF ChassisPlace
<1>3. i = k
  BY <1>1, <1>2, ChassisIDsApart
<1> QED  BY <1>1, <1>2, <1>3

LEMMA SuppliesApart ==
  ASSUME NEW ep, IsReport(ep), ~Crowded(ep), NEW p, NEW q, NEW id,
         SupplyPlace(ep, p, id), SupplyPlace(ep, q, id)
  PROVE  p = q
<1> DEFINE cs == Items(ep.chassis)
           Type(j) == GetChassisHMSType(ep, cs[j])
           Id(j) == ChassisID(ep, cs, j)
<1>1. PICK i, l : /\ ChassisAt(ep, i) /\ l \in DOMAIN SuppliesOf(cs[i])
                  /\ Type(i) \in {"NodeEnclosure", "Chassis"}
                  /\ p = <<"chassis", i>> \o <<"supplies", l>> /\ id = Append(Id(i), <<"t", l - 1>>)
  BY Zenon DEF SupplyPlace
<1>2. PICK k, m : /\ ChassisAt(ep, k) /\ m \in DOMAIN SuppliesOf(cs[k])
                  /\ Type(k) \in {"NodeEnclosure", "Chassis"}
                  /\ q = <<"chassis", k>> \o <<"supplies", m>> /\ id = Append(Id(k), <<"t", m - 1>>)
  BY Zenon DEF SupplyPlace
<1>3. \A j \in {i, k} : \E b : Id(j) = <<b>>
  BY <1>1, <1>2, ChassisIDIs DEF Switches
<1>4. PICK b, c : Id(i) = <<b>> /\ Id(k) = <<c>>
  BY <1>3
<1>5. id = <<b, <<"t", l - 1>>>> /\ id = <<c, <<"t", m - 1>>>>
  BY <1>1, <1>2, <1>4, AppendIsPair
<1>6. b = c /\ l - 1 = m - 1
  BY <1>5
<1>7. i = k
  BY <1>1, <1>2, <1>4, <1>6, ChassisIDsApart
<1>8. l \in Int /\ m \in Int
  <2>1. i \in DOMAIN cs
    BY <1>1, Zenon DEF ChassisAt
  <2>2. cs = ep.chassis.members
    BY <2>1, ItemsAre, ReportsAre
  <2>3. IsList(cs[i].supply)
    BY <2>1, <2>2, Zenon DEF IsReport
  <2>4. l \in DOMAIN cs[i].supply.members /\ m \in DOMAIN cs[i].supply.members
    <3>1. \A j \in DOMAIN SuppliesOf(cs[i]) : j \in DOMAIN cs[i].supply.members
      BY NoItems DEF SuppliesOf
    <3> QED  BY <1>1, <1>2, <1>7, <3>1
  <2> QED  BY <2>3, <2>4 DEF IsList
<1>9. l = m
  BY <1>6, <1>8
<1> QED  BY <1>1, <1>2, <1>7, <1>9

LEMMA SystemIDsApart ==
  ASSUME NEW ep, IsReport(ep), NEW i, NEW k, SystemAt(ep, i), SystemAt(ep, k),
         GetSystemOrdinal(Items(ep.systems), i) = GetSystemOrdinal(Items(ep.systems), k)
  PROVE  i = k
<1> DEFINE ss == Items(ep.systems)
<1>1. \A j \in {i, k} : j \in DOMAIN ss /\ ss[j].got = "ok" /\ ss[j].type \in {"Physical", Unsaid}
  <2>1. \A j \in {i, k} : j \in DOMAIN ss /\ SystemPhase1(ss[j]) = Verifying /\ IsNode(ss, j)
    BY Zenon DEF SystemAt
  <2>2. \A s : SystemPhase1(s) = Verifying => s.got = "ok"
    BY SystemPhase1Is
  <2>3. \A j : IsNode(ss, j) => ss[j].type \in {"Physical", Unsaid}
    BY DEF IsNode
  <2> QED  BY <2>1, <2>2, <2>3, Zenon
<1>2. \A j \in {i, k} : j \in Int /\ 1 <= j
  BY <1>1, Indices, ReportsAre
<1>3. ~(i < k) /\ ~(k < i)
  <2> HIDE DEF ss
  <2> QED  BY <1>1, <1>2, SystemOrdinals DEF ss
<1> QED  BY <1>2, <1>3

LEMMA SystemsApart ==
  ASSUME NEW ep, IsReport(ep), NEW p, NEW q, NEW id, SystemPlace(ep, p, id), SystemPlace(ep, q, id)
  PROVE  p = q
<1> DEFINE ss == Items(ep.systems)
           n(i) == GetSystemOrdinal(ss, i)
<1>1. PICK i : SystemAt(ep, i) /\ p = <<"systems", i>> /\ id = <<<<"n", n(i)>>>>
  BY Zenon DEF SystemPlace, SystemID
<1>2. PICK k : SystemAt(ep, k) /\ q = <<"systems", k>> /\ id = <<<<"n", n(k)>>>>
  BY Zenon DEF SystemPlace, SystemID
<1>3. n(i) = n(k)
  <2> HIDE DEF n
  <2> QED  BY <1>1, <1>2
<1>4. i = k
  BY <1>1, <1>2, <1>3, SystemIDsApart
<1> QED  BY <1>1, <1>2, <1>4

LEMMA PartPlacesApart ==
  ASSUME NEW ep, IsReport(ep), ~Crowded(ep), NEW p, NEW q, NEW id,
         PartPlace(ep, p, id), PartPlace(ep, q, id)
  PROVE  p = q
<1> DEFINE ss == Items(ep.systems)
           n(i) == GetSystemOrdinal(ss, i)
           Parts(i) == PartsBelow(ss[i], <<"systems", i>>, <<<<"n", n(i)>>>>)
<1>1. PICK i : SystemAt(ep, i) /\ \E x \in Parts(i) : x.status = "DiscoverOK" /\ x.oid = p /\ x.id = id
  BY Zenon DEF PartPlace, SystemID
<1>2. PICK x \in Parts(i) : x.status = "DiscoverOK" /\ x.oid = p /\ x.id = id
  BY <1>1
<1>3. PICK k : SystemAt(ep, k) /\ \E y \in Parts(k) : y.status = "DiscoverOK" /\ y.oid = q /\ y.id = id
  BY Zenon DEF PartPlace, SystemID
<1>4. PICK y \in Parts(k) : y.status = "DiscoverOK" /\ y.oid = q /\ y.id = id
  BY <1>3
<1>5. id[1] = <<"n", n(i)>> /\ id[1] = <<"n", n(k)>>
  <2> HIDE DEF n
  <2> QED  BY <1>2, <1>4, PartRowsBegin
<1>6. n(i) = n(k)
  <2> HIDE DEF n
  <2> QED  BY <1>5
<1>7. i = k
  BY <1>1, <1>3, <1>6, SystemIDsApart
<1>8. i \in DOMAIN ss
  BY <1>1, Zenon DEF SystemAt
<1>9. ~CrowdedSystem(ss[i]) /\ IsSystem(ss[i])
  BY <1>8, SystemsNotCrowded
<1>10. y \in Parts(i) /\ x.id = y.id
  BY <1>2, <1>4, <1>7
<1> QED  BY <1>2, <1>4, <1>9, <1>10, PartsApart

LEMMA PowerIs ==
  ASSUME NEW ep, IsReport(ep)
  PROVE  /\ IsList(PowerOf(ep))
         /\ \A i \in DOMAIN Items(PowerOf(ep)) : i \in Int /\ IsList(Items(PowerOf(ep))[i].outlets)
<1> DEFINE none == [got |-> "none", members |-> <<>>]
<1>1. IsList(none)
  BY NoItems DEF IsList
<1>2. Items(none) = <<>>
  BY DEF Items
<1>3. PowerOf(ep) = ep.power \/ PowerOf(ep) = none
  BY DEF PowerOf
<1>4. IsList(ep.power)
  BY ReportsAre
<1>5. \A i \in DOMAIN Items(ep.power) : i \in Int /\ IsList(Items(ep.power)[i].outlets)
  <2>1. \A i \in DOMAIN Items(ep.power) : Items(ep.power) = ep.power.members /\ i \in Int
    BY <1>4, ItemsAre, Indices
  <2>2. \A i \in DOMAIN ep.power.members : IsList(ep.power.members[i].outlets)
    BY Zenon DEF IsReport, AreRead
  <2> QED  BY <2>1, <2>2, Zenon
<1> HIDE DEF none
<1>6. CASE PowerOf(ep) = ep.power
  BY <1>4, <1>5, <1>6
<1>7. CASE PowerOf(ep) = none
  BY <1>1, <1>2, <1>7, NoItems
<1> QED  BY <1>3, <1>6, <1>7

LEMMA PDUsApart ==
  ASSUME NEW ep, IsReport(ep), NEW p, NEW q, NEW id, PDUPlace(ep, p, id), PDUPlace(ep, q, id)
  PROVE  p = q
<1> DEFINE ps == Items(PowerOf(ep))
<1>1. PICK i \in DOMAIN ps : p = <<"pdus", i>> /\ id = <<<<"p", i - 1>>>>
  BY Zenon DEF PDUPlace
<1>2. PICK k \in DOMAIN ps : q = <<"pdus", k>> /\ id = <<<<"p", k - 1>>>>
  BY Zenon DEF PDUPlace
<1>3. i \in Int /\ k \in Int
  BY PowerIs
<1>4. i - 1 = k - 1
  BY <1>1, <1>2
<1>5. i = k
  BY <1>3, <1>4
<1> QED  BY <1>1, <1>2, <1>5

LEMMA OutletsApart ==
  ASSUME NEW ep, IsReport(ep), NEW p, NEW q, NEW id, OutletPlace(ep, p, id), OutletPlace(ep, q, id)
  PROVE  p = q
<1> DEFINE ps == Items(PowerOf(ep))
<1>1. PICK i \in DOMAIN ps : \E l \in DOMAIN Items(ps[i].outlets) :
        p = <<"pdus", i>> \o <<"outlets", l>> /\ id = Append(<<<<"p", i - 1>>>>, <<"v", l - 1 + 1>>)
  BY Zenon DEF OutletPlace
<1>2. PICK l \in DOMAIN Items(ps[i].outlets) :
        p = <<"pdus", i>> \o <<"outlets", l>> /\ id = Append(<<<<"p", i - 1>>>>, <<"v", l - 1 + 1>>)
  BY <1>1
<1>3. PICK k \in DOMAIN ps : \E m \in DOMAIN Items(ps[k].outlets) :
        q = <<"pdus", k>> \o <<"outlets", m>> /\ id = Append(<<<<"p", k - 1>>>>, <<"v", m - 1 + 1>>)
  BY Zenon DEF OutletPlace
<1>4. PICK m \in DOMAIN Items(ps[k].outlets) :
        q = <<"pdus", k>> \o <<"outlets", m>> /\ id = Append(<<<<"p", k - 1>>>>, <<"v", m - 1 + 1>>)
  BY <1>3
<1>5. i \in Int /\ k \in Int /\ l \in Int /\ m \in Int
  <2>1. i \in Int /\ k \in Int /\ IsList(ps[i].outlets) /\ IsList(ps[k].outlets)
    BY PowerIs
  <2> QED  BY <2>1, Indices
<1>6. <<<<"p", i - 1>>, <<"v", l - 1 + 1>>>> = <<<<"p", k - 1>>, <<"v", m - 1 + 1>>>>
  BY <1>2, <1>4, AppendIsPair
<1>7. i - 1 = k - 1 /\ l - 1 + 1 = m - 1 + 1
  BY <1>6
<1>8. i = k /\ l = m
  BY <1>5, <1>7
<1> QED  BY <1>2, <1>4, <1>8

LEMMA ManagersApart ==
  ASSUME NEW ep, IsReport(ep), ~Crowded(ep), NEW p, NEW q, NEW id,
         ManagerPlace(ep, p, id), ManagerPlace(ep, q, id)
  PROVE  p = q
<1> DEFINE ms == Items(ep.managers)
           Own(i) == GetManagerHMSType(ep, ms, i) = ep.type /\ GetManagerOrdinal(ms, i) = 0
<1>1. PICK i \in DOMAIN ms : p = <<"managers", i>> /\ Own(i)
  BY Zenon DEF ManagerPlace
<1>2. PICK k \in DOMAIN ms : q = <<"managers", k>> /\ Own(k)
  BY Zenon DEF ManagerPlace
<1>3. i = k
  BY <1>1, <1>2, ManagersNotCrowded
<1> QED  BY <1>1, <1>2, <1>3

(* Where an endpoint is not crowded, an id is of one resource. *)
LEMMA PlacesApart ==
  ASSUME NEW ep, IsReport(ep), ~Crowded(ep), NEW p, NEW q, NEW id, Place(ep, p, id), Place(ep, q, id)
  PROVE  p = q
<1>1. \A o : /\ ChassisPlace(ep, o, id) => Kind(ep, id) = "chassis"
             /\ SupplyPlace(ep, o, id) => Kind(ep, id) = "supply"
             /\ SystemPlace(ep, o, id) => Kind(ep, id) = "system"
             /\ PartPlace(ep, o, id) => Kind(ep, id) = "part"
             /\ PDUPlace(ep, o, id) => Kind(ep, id) = "pdu"
             /\ OutletPlace(ep, o, id) => Kind(ep, id) = "outlet"
             /\ ManagerPlace(ep, o, id) => Kind(ep, id) = "manager"
  BY ChassisKind, SupplyKind, SystemKind, PartKind, PDUKind, OutletKind, ManagerKind
<1>2. /\ ChassisPlace(ep, p, id) \/ SupplyPlace(ep, p, id) \/ SystemPlace(ep, p, id)
           \/ PartPlace(ep, p, id) \/ PDUPlace(ep, p, id) \/ OutletPlace(ep, p, id) \/ ManagerPlace(ep, p, id)
      /\ ChassisPlace(ep, q, id) \/ SupplyPlace(ep, q, id) \/ SystemPlace(ep, q, id)
           \/ PartPlace(ep, q, id) \/ PDUPlace(ep, q, id) \/ OutletPlace(ep, q, id) \/ ManagerPlace(ep, q, id)
  BY Zenon DEF Place
<1>3. \/ ChassisPlace(ep, p, id) /\ ChassisPlace(ep, q, id)
      \/ SupplyPlace(ep, p, id) /\ SupplyPlace(ep, q, id)
      \/ SystemPlace(ep, p, id) /\ SystemPlace(ep, q, id)
      \/ PartPlace(ep, p, id) /\ PartPlace(ep, q, id)
      \/ PDUPlace(ep, p, id) /\ PDUPlace(ep, q, id)
      \/ OutletPlace(ep, p, id) /\ OutletPlace(ep, q, id)
      \/ ManagerPlace(ep, p, id) /\ ManagerPlace(ep, q, id)
  BY <1>1, <1>2
<1> QED  BY <1>3, ChassisApart, SuppliesApart, SystemsApart, PartPlacesApart, PDUsApart, OutletsApart, ManagersApart

-----------------------------------------------------------------------------
(* The rows that are stored. *)

Fields == {"oid", "status", "type", "id", "ordinal", "present", "info", "fru", "state", "flag"}

LEMMA NodesAre ==
  ASSUME NEW ep, GoodReport(ep), NEW d \in NodesOf(Found(ep))
  PROVE  NodeRow(ep, d) /\ DOMAIN d = Fields /\ d.status = "DiscoverOK"
<1> DEFINE ss == Items(ep.systems)
<1>1. PICK t \in GoodTrees(Found(ep).systems) : d = t.self
  BY Zenon DEF NodesOf
<1>2. t \in Found(ep).systems /\ t.self.status = "DiscoverOK"
  BY Zenon DEF GoodTrees
<1>3. NodeRow(ep, d)
  BY <1>1, SystemRows
<1>4. PICK i \in DOMAIN ss : t = System(ss, i)
  BY <1>2, EachIsOf
<1> DEFINE at == <<"systems", i>>
           n == GetSystemOrdinal(ss, i)
           id == <<<<"n", n>>>>
           s == ss[i]
           below == PartsBelow(s, at, id)
           e == Discovered(at, "Node", id, n, s, NodeState(s))
           t0 == WithBelow(e, below)
           p == SystemPhase1(s)
<1>5. t = IF p # Verifying THEN Alone(at, p)
          ELSE IF ~IsNode(ss, i) THEN Alone(at, NoSupport) ELSE t0
  BY <1>4, Zenon DEF System
<1>6. p # "DiscoverOK" /\ NoSupport # "DiscoverOK"
  BY SystemPhase1Is, Words DEF Fine
<1>7. DOMAIN e = Fields
  BY Zenon DEF Discovered, Fields
<1> HIDE DEF p, at, e, below
<1>8. t0.self = [e EXCEPT !.status = ChildStatus(below)]
  BY Zenon DEF WithBelow
<1>9. DOMAIN t0.self = Fields
  BY <1>7, <1>8
<1> HIDE DEF t0
<1>10. t = t0
  BY <1>2, <1>5, <1>6, AloneIs
<1> QED  BY <1>1, <1>2, <1>3, <1>9, <1>10, Zenon

LEMMA SuffixedIs ==
  ASSUME NEW d, DOMAIN d = Fields
  PROVE  LET r == Suffixed(d) IN
         /\ r.oid = d.oid /\ r.type = d.type /\ r.id = d.id /\ r.ordinal = d.ordinal
         /\ r.info = d.info /\ r.present = d.present
         /\ r.fru = <<"_", d.ordinal, d.fru>>
BY DEF Suffixed, Fields

LEMMA ComponentRows ==
  ASSUME NEW ep, GoodReport(ep), NEW x \in DiscoverComponentEndpointArray(Found(ep))
  PROVE  NodeRow(ep, x) \/ OtherRow(ep, x)
<1> DEFINE F == Found(ep)
<1>1. ASSUME NEW t \in GoodTrees(F.chassis \cup F.systems \cup F.pdus), x = t.self
      PROVE  NodeRow(ep, x) \/ OtherRow(ep, x)
  <2>1. t \in GoodTrees(F.chassis) \/ t \in GoodTrees(F.systems) \/ t \in GoodTrees(F.pdus)
    BY <1>1, Zenon DEF GoodTrees
  <2> QED  BY <1>1, <2>1, ChassisRows, SystemRows, PDURows, Zenon DEF SoundRow
<1>2. CASE x \in Good(F.managers)
  BY <1>2, ManagerRows
<1>3. ASSUME NEW t \in GoodTrees(F.pdus), x \in Good(t.below)
      PROVE  NodeRow(ep, x) \/ OtherRow(ep, x)
  BY <1>3, PDURows, Zenon DEF SoundRow
<1> QED  BY <1>1, <1>2, <1>3, Zenon DEF DiscoverComponentEndpointArray

(* Of a part, or of a node, which may be told apart by a suffix. *)
Suffixes(F, r) == \E d \in NodesOf(F) : r = Suffixed(d)

LEMMA LocationRows ==
  ASSUME NEW ep, GoodReport(ep), NEW first, NEW r \in DiscoverHWInvByLocArray(Found(ep), first)
  PROVE  SoundRow(ep, r) \/ r \in NodesOf(Found(ep)) \/ Suffixes(Found(ep), r)
<1> DEFINE F == Found(ep)
<1>1. CASE r \in ChassisLocations(F)
  BY <1>1, ChassisRows, Zenon DEF ChassisLocations
<1>2. CASE r \in NodeLocations(F, first)
  BY <1>2, Zenon DEF NodeLocations, SharedFRUs, Suffixes
<1>3. CASE r \in NodePartLocations(F)
  BY <1>3, SystemRows, Zenon DEF NodePartLocations
<1>4. CASE r \in PDULocations(F)
  BY <1>4, PDURows, Zenon DEF PDULocations
<1>5. CASE r \in ManagerLocations(F)
  <2>1. r \in Good(F.managers) /\ r.type \in ManagerTypes
    BY <1>5, Zenon DEF ManagerLocations, ManagerTypes
  <2> QED  BY <2>1, ManagerRows, Zenon DEF SoundRow
<1> QED  BY <1>1, <1>2, <1>3, <1>4, <1>5, Zenon DEF DiscoverHWInvByLocArray

LEMMA NodeRowIs ==
  ASSUME NEW ep, NEW x, NodeRow(ep, x)
  PROVE  SystemPlace(ep, x.oid, x.id) /\ Place(ep, x.oid, x.id) /\ x.type = "Node" /\ Sound(x)
BY Zenon DEF NodeRow, SystemPlace, Place

LEMMA LocationPlaces ==
  ASSUME NEW ep, GoodReport(ep), NEW first, NEW r \in DiscoverHWInvByLocArray(Found(ep), first)
  PROVE  Place(ep, r.oid, r.id)
<1>1. CASE SoundRow(ep, r)
  BY <1>1, Zenon DEF SoundRow, OtherRow
<1>2. CASE r \in NodesOf(Found(ep))
  BY <1>2, NodesAre, NodeRowIs
<1>3. CASE Suffixes(Found(ep), r)
  <2>1. PICK d \in NodesOf(Found(ep)) : r = Suffixed(d)
    BY <1>3, Zenon DEF Suffixes
  <2>2. r.oid = d.oid /\ r.id = d.id
    BY <2>1, NodesAre, SuffixedIs
  <2> QED  BY <2>2, NodesAre, NodeRowIs
<1> QED  BY <1>1, <1>2, <1>3, LocationRows

-----------------------------------------------------------------------------
(* What is stored, part by part. *)

StoredAs(ep, first, st) == st = Stored(ep, Found(ep), first)

LEMMA StoredIs ==
  ASSUME NEW ep, NEW F, NEW first
  PROVE  LET st == Stored(ep, F, first) IN
         /\ st.status = "DiscoverOK"
         /\ st.components = {Component(d) : d \in DiscoverComponentArray(F)}
         /\ st.hwinv = DiscoverHWInvByLocArray(F, first)
         /\ st.interfaces = DiscoverCompEthInterfaceArray(ep, F)
BY Zenon DEF Stored

LEMMA ComponentIs ==
  ASSUME NEW d
  PROVE  LET c == Component(d) IN
         /\ c.oid = d.oid /\ c.id = d.id /\ c.type = d.type
         /\ d.type = "Node" => c.nid = DefaultNID(Env(d.id), d.ordinal)
<1>1. Component(d).oid = d.oid /\ Component(d).id = d.id /\ Component(d).type = d.type
  BY Zenon DEF Component
<1>2. Component(d).nid = (IF d.type = "Node" THEN GetCompDefaults(Env(d.id), d.ordinal) ELSE NoInfo).nid
  BY Zenon DEF Component
<1>3. GetCompDefaults(Env(d.id), d.ordinal).nid = DefaultNID(Env(d.id), d.ordinal)
  BY Zenon DEF GetCompDefaults
<1> QED  BY <1>1, <1>2, <1>3, Zenon

LEMMA ComponentsFrom ==
  ASSUME NEW ep, NEW F, NEW first, NEW r \in Stored(ep, F, first).components
  PROVE  \E d \in DiscoverComponentEndpointArray(F) : r = Component(d)
<1>1. Stored(ep, F, first).components = {Component(d) : d \in DiscoverComponentArray(F)}
  BY StoredIs
<1>2. DiscoverComponentArray(F) = DiscoverComponentEndpointArray(F)
  BY Zenon DEF DiscoverComponentArray
<1> QED  BY <1>1, <1>2, Zenon

(* Each row under an id of its own. *)
LEMMA ComponentsApart ==
  ASSUME NEW ep, GoodReport(ep), ~Crowded(ep), NEW first
  PROVE  Apart(Stored(ep, Found(ep), first).components) /\ Apart(Stored(ep, Found(ep), first).hwinv)
<1> DEFINE cs == Stored(ep, Found(ep), first).components
           hs == Stored(ep, Found(ep), first).hwinv
<1>0. IsReport(ep)
  BY DEF GoodReport
<1>1. ASSUME NEW r \in cs PROVE Place(ep, r.oid, r.id)
  <2>1. PICK d \in DiscoverComponentEndpointArray(Found(ep)) : r = Component(d)
    BY ComponentsFrom
  <2>2. Place(ep, d.oid, d.id)
    BY ComponentRows, NodeRowIs, Zenon DEF OtherRow
  <2> QED  BY <2>1, <2>2, ComponentIs
<1>2. ASSUME NEW r \in hs PROVE Place(ep, r.oid, r.id)
  BY StoredIs, LocationPlaces
<1> HIDE DEF cs, hs
<1>3. Apart(cs)
  BY <1>0, <1>1, PlacesApart DEF Apart
<1>4. Apart(hs)
  BY <1>0, <1>2, PlacesApart DEF Apart
<1> QED  BY <1>3, <1>4, Zenon DEF cs, hs

LEMMA NodeComponents ==
  ASSUME NEW ep, GoodReport(ep), NEW first, NEW r \in Nodes(Stored(ep, Found(ep), first).components)
  PROVE  \E d \in NodesOf(Found(ep)) : r = Component(d) /\ NodeRow(ep, d)
<1> DEFINE F == Found(ep)
<1>1. r.type = "Node" /\ r \in Stored(ep, F, first).components
  BY Zenon DEF Nodes
<1>2. PICK d \in DiscoverComponentEndpointArray(F) : r = Component(d)
  BY <1>1, ComponentsFrom
<1>3. d.type = "Node"
  BY <1>1, <1>2, ComponentIs
<1>4. ~OtherRow(ep, d)
  BY <1>3, Zenon DEF OtherRow
<1>5. d \in NodesOf(F)
  <2>1. ASSUME NEW t \in GoodTrees(F.chassis \cup F.systems \cup F.pdus), d = t.self
        PROVE  d \in NodesOf(F)
    <3>1. t \in GoodTrees(F.chassis) \/ t \in GoodTrees(F.systems) \/ t \in GoodTrees(F.pdus)
      BY <2>1, Zenon DEF GoodTrees
    <3> QED  BY <1>4, <2>1, <3>1, ChassisRows, PDURows, Zenon DEF SoundRow, NodesOf
  <2>2. d \notin Good(F.managers)
    BY <1>4, ManagerRows
  <2>3. \A t \in GoodTrees(F.pdus) : d \notin Good(t.below)
    BY <1>4, PDURows, Zenon DEF SoundRow
  <2> QED  BY <2>1, <2>2, <2>3, Zenon DEF DiscoverComponentEndpointArray
<1> QED  BY <1>2, <1>5, NodesAre

LEMMA SystemOrdinalIs ==
  ASSUME NEW ep, IsReport(ep), NEW i, SystemAt(ep, i)
  PROVE  GetSystemOrdinal(Items(ep.systems), i) \in Nat
<1> DEFINE ss == Items(ep.systems)
           B == {j \in 1 .. i - 1 : ss[j].got = "ok" /\ ss[j].type \in {"Physical", Unsaid}}
<1>1. i \in DOMAIN ss
  BY Zenon DEF SystemAt
<1>2. i \in Int
  BY <1>1, Indices, ReportsAre
<1>3. B \subseteq 1 .. i - 1
  OBVIOUS
<1>4. GetSystemOrdinal(ss, i) = Cardinality(B)
  BY Zenon DEF GetSystemOrdinal
<1> HIDE DEF B
<1> QED  BY <1>2, <1>3, <1>4, CardinalityIs

(* A node has a number of its own, unless it is given one. *)
LEMMA DefaultNIDIs ==
  ASSUME NEW id, NEW n, ~HasGivenNID(id)
  PROVE  DefaultNID(Env(id), n) = GetBogusNID(n)
<1> DEFINE env == Env(id)
<1>1. env.sls.nid = 0 /\ env.nodemap.nid = 0
  BY Zenon DEF HasGivenNID
<1>2. FromNodeMap(env) = env.nodemap
  BY <1>1, Zenon DEF FromNodeMap
<1> HIDE DEF env
<1>3. DefaultNID(env, n) = GetBogusNID(n)
  BY <1>1, <1>2, Zenon DEF DefaultNID
<1> QED  BY <1>3 DEF env

LEMMA NumbersAreApart ==
  ASSUME NEW ep, GoodReport(ep), NEW first
  PROVE  NumbersApart(Nodes(Stored(ep, Found(ep), first).components))
<1> DEFINE ns == Nodes(Stored(ep, Found(ep), first).components)
           n(i) == GetSystemOrdinal(Items(ep.systems), i)
<1>0. IsReport(ep)
  BY DEF GoodReport
<1>1. ASSUME NEW r \in ns
      PROVE  \E i : /\ SystemAt(ep, i) /\ r.oid = <<"systems", i>>
                    /\ HasGivenNID(r.id) \/ r.nid = GetBogusNID(n(i))
  <2>1. PICK d \in NodesOf(Found(ep)) : r = Component(d) /\ NodeRow(ep, d)
    BY NodeComponents
  <2>2. PICK i : /\ SystemAt(ep, i) /\ d.oid = <<"systems", i>> /\ d.type = "Node"
                 /\ d.ordinal = n(i)
    BY <2>1, Zenon DEF NodeRow
  <2>3. r.oid = d.oid /\ r.id = d.id /\ r.nid = DefaultNID(Env(d.id), d.ordinal)
    BY <2>1, <2>2, ComponentIs
  <2>4. HasGivenNID(r.id) \/ r.nid = GetBogusNID(n(i))
    BY <2>2, <2>3, DefaultNIDIs
  <2> QED  BY <2>2, <2>3, <2>4, Zenon
<1> HIDE DEF ns
<1>2. ASSUME NEW r \in ns, NEW q \in ns, r.nid = q.nid, ~HasGivenNID(r.id), ~HasGivenNID(q.id)
      PROVE  r.oid = q.oid
  <2>1. PICK i : SystemAt(ep, i) /\ r.oid = <<"systems", i>> /\ r.nid = GetBogusNID(n(i))
    BY <1>1, <1>2, Zenon
  <2>2. PICK k : SystemAt(ep, k) /\ q.oid = <<"systems", k>> /\ q.nid = GetBogusNID(n(k))
    BY <1>1, <1>2, Zenon
  <2>3. n(i) \in Nat /\ n(k) \in Nat
    BY <1>0, <2>1, <2>2, SystemOrdinalIs
  <2>4. GetBogusNID(n(i)) = GetBogusNID(n(k))
    BY <1>2, <2>1, <2>2
  <2> HIDE DEF n
  <2>5. n(i) = n(k)
    BY <2>3, <2>4, AtAssumption DEF GetBogusNID
  <2>6. i = k
    BY <1>0, <2>1, <2>2, <2>5, SystemIDsApart DEF n
  <2> QED  BY <2>1, <2>2, <2>6
<1>3. NumbersApart(ns)
  BY <1>2, Zenon DEF NumbersApart
<1> QED  BY <1>3 DEF ns

(* What is stored of a part gives it its id again when it is posted. *)
LEMMA PartsArePostable ==
  ASSUME NEW ep, GoodReport(ep), NEW first, NEW r \in Stored(ep, Found(ep), first).hwinv, r.present
  PROVE  PostedAgain(r)
<1>0. r \in DiscoverHWInvByLocArray(Found(ep), first)
  BY StoredIs
<1>1. ASSUME Sound(r) PROVE PostedAgain(r)
  BY <1>1, Zenon DEF Sound, PostedAgain
<1>2. CASE SoundRow(ep, r)
  BY <1>1, <1>2, Zenon DEF SoundRow
<1>3. CASE r \in NodesOf(Found(ep))
  BY <1>1, <1>3, NodesAre, NodeRowIs
<1>4. CASE Suffixes(Found(ep), r)
  <2>1. PICK d \in NodesOf(Found(ep)) : r = Suffixed(d)
    BY <1>4, Zenon DEF Suffixes
  <2>2. /\ r.type = d.type /\ r.id = d.id /\ r.ordinal = d.ordinal
        /\ r.info = d.info /\ r.present = d.present /\ r.fru = <<"_", d.ordinal, d.fru>>
    BY <2>1, NodesAre, SuffixedIs
  <2>3. d.type = "Node" /\ Postable(d) /\ d.fru = PostedFRU(d)
    BY <2>2, NodesAre, NodeRowIs, Zenon DEF Sound
  <2>4. PostedFRU(r) = PostedFRU(d)
    <3>1. "Node" \notin Outlet
      BY DEF Outlet
    <3> QED  BY <2>2, <2>3, <3>1, Zenon DEF PostedFRU
  <2>5. Postable(r)
    BY <2>2, <2>3, Zenon DEF Postable
  <2> QED  BY <2>2, <2>3, <2>4, <2>5, Zenon DEF PostedAgain
<1> QED  BY <1>0, <1>2, <1>3, <1>4, LocationRows

(* The main address of a node is among those that are stored for it. *)
LEMMA PairsAre ==
  ASSUME NEW x, NEW y
  PROVE  <<x, y>>[1] = x /\ 1 \in DOMAIN <<x, y>> /\ <<x, y>> # <<>>
OBVIOUS

LEMMA ComputedIs ==
  ASSUME NEW s, NEW ms, ComputedBy(s, ms) # <<>>
  PROVE  ms # <<>> /\ ComputedBy(s, ms)[1] \in Range(ComputedBy(s, ms))
<1> DEFINE c == ComputedBy(s, ms)
           none == <<>>
           x == LowestMAC(ManagerOf(s, ms)) - 2
           y == LowestMAC(ManagerOf(s, ms)) - 1
<1>1. c = IF ms = none THEN none ELSE ComputedMACs(s, ManagerOf(s, ms))
  BY Zenon DEF ComputedBy
<1>2. \/ ComputedMACs(s, ManagerOf(s, ms)) = <<x, y>>
      \/ ComputedMACs(s, ManagerOf(s, ms)) = none
  BY Zenon DEF ComputedMACs
<1> HIDE DEF none, x, y, c
<1>3. c # none
  BY DEF c, none
<1>4. ms # none /\ c = <<x, y>>
  BY <1>1, <1>2, <1>3, Zenon
<1>5. c[1] \in Range(c)
  BY <1>4, PairsAre, Zenon DEF Range
<1> QED  BY <1>4, <1>5 DEF c, none

LEMMA AddressIs ==
  ASSUME NEW e, e.permanent \in {0, e.mac}, MainOf(e) # 0
  PROVE  AddressOf(e) = MainOf(e)
<1>1. e.got = "ok"
  BY DEF MainOf, MACOf
<1>2. MainOf(e) = e.mac
  BY <1>1 DEF MainOf, MACOf
<1> QED  BY <1>1, <1>2 DEF AddressOf

LEMMA MainIsShown ==
  ASSUME NEW s, NEW ms, \A n \in Range(s.nics.members) : n.permanent \in {0, n.mac}
  PROVE  SystemMAC(s, ms) \in {0} \cup AddressesOf(s, ms)
<1> DEFINE es == Items(s.nics)
           none == <<>>
           mine == {i \in DOMAIN es : Len(es) = 1 \/ es[i].main}
           c == ComputedBy(s, ms)
           main == SystemMAC(s, ms)
<1>1. main = IF es = none THEN (IF c = none THEN 0 ELSE c[1])
             ELSE IF mine = {} THEN 0 ELSE MainOf(es[CHOOSE i \in mine : TRUE])
  BY Zenon DEF SystemMAC
<1>2. AddressesOf(s, ms) = IF es = none /\ ms # none THEN Range(c) ELSE Shown(s)
  BY Zenon DEF AddressesOf
<1>3. c # none => ms # none /\ c[1] \in Range(c)
  BY ComputedIs DEF c, none
<1>4. Shown(s) = {AddressOf(e) : e \in Range(es)} \ {0}
  BY Zenon DEF Shown
<1>5. es # none => es = s.nics.members
  BY DEF Items
<1> HIDE DEF none, c, main
<1>6. CASE es = none
  <2>1. c # none => main = c[1] /\ AddressesOf(s, ms) = Range(c)
    BY <1>1, <1>2, <1>3, <1>6, Zenon
  <2>2. c = none => main = 0
    BY <1>1, <1>6, Zenon
  <2> QED  BY <1>3, <2>1, <2>2 DEF main
<1>7. CASE es # none /\ mine = {}
  <2>1. main = 0
    BY <1>1, <1>7, Zenon
  <2> QED  BY <2>1 DEF main
<1>8. CASE es # none /\ mine # {}
  <2> DEFINE k == CHOOSE i \in mine : TRUE
             e == es[k]
  <2>1. k \in mine
    BY <1>8, Zenon
  <2>2. k \in DOMAIN es
    BY <2>1, Zenon
  <2>3. e \in Range(es) /\ main = MainOf(e)
    BY <1>1, <1>8, <2>2, Zenon DEF Range
  <2> HIDE DEF k, e, mine, es
  <2>4. e.permanent \in {0, e.mac}
    BY <1>5, <1>8, <2>3
  <2>5. main # 0 => main \in Shown(s)
    BY <1>4, <2>3, <2>4, AddressIs
  <2>6. AddressesOf(s, ms) = Shown(s)
    BY <1>2, <1>8
  <2> QED  BY <2>5, <2>6 DEF main
<1> QED  BY <1>6, <1>7, <1>8

MacsOf(I, id) == {x.mac : x \in {y \in I : y.of = id}}

LEMMA InterfacesOfNodes ==
  ASSUME NEW ep, NEW F, NEW d \in NodesOf(F),
         NEW a \in AddressesOf(Items(ep.systems)[d.oid[2]], Items(ep.managers))
  PROVE  a \in MacsOf(DiscoverCompEthInterfaceArray(ep, F), d.id)
<1> DEFINE ms == Items(ep.managers)
           no == FALSE
           EthRow(b, e) == [mac |-> b, of |-> e.id, ip |-> no]
           x == EthRow(a, d)
<1>1. x \in {EthRow(b, d) : b \in AddressesOf(Items(ep.systems)[d.oid[2]], ms)}
  BY Zenon
<1>2. x \in UNION {{EthRow(b, e) : b \in AddressesOf(Items(ep.systems)[e.oid[2]], ms)} : e \in NodesOf(F)}
  BY <1>1, Zenon
<1>3. x \in DiscoverCompEthInterfaceArray(ep, F)
  BY <1>2, Zenon DEF DiscoverCompEthInterfaceArray
<1> HIDE DEF no
<1>4. x.mac = a /\ x.of = d.id
  OBVIOUS
<1> HIDE DEF x
<1> QED  BY <1>3, <1>4, Zenon DEF MacsOf

LEMMA MainsAreStored ==
  ASSUME NEW ep, GoodReport(ep), NEW first, NEW r \in Nodes(Stored(ep, Found(ep), first).components)
  PROVE  MainIsStored(r, ep, Stored(ep, Found(ep), first).interfaces)
<1> DEFINE I == DiscoverCompEthInterfaceArray(ep, Found(ep))
           ms == Items(ep.managers)
<1>1. PICK d \in NodesOf(Found(ep)) : r = Component(d) /\ NodeRow(ep, d)
  BY NodeComponents
<1>2. PICK i : SystemAt(ep, i) /\ d.oid = <<"systems", i>> /\ d.type = "Node"
  BY <1>1, Zenon DEF NodeRow
<1>3. r.oid = d.oid /\ r.id = d.id
  BY <1>1, ComponentIs
<1>4. r.oid[2] = i /\ d.oid[2] = i
  BY <1>2, <1>3
<1>5. i \in DOMAIN Items(ep.systems)
  BY <1>2, Zenon DEF SystemAt
<1>6. Items(ep.systems) = ep.systems.members
  BY <1>5, ItemsAre, ReportsAre DEF GoodReport
<1> DEFINE s == ep.systems.members[i]
<1>7. ASSUME \A n \in Range(s.nics.members) : n.permanent \in {0, n.mac}
      PROVE  SystemMAC(s, ms) \in {0} \cup MacsOf(I, r.id)
  <2>1. SystemMAC(s, ms) \in {0} \cup AddressesOf(s, ms)
    BY <1>7, MainIsShown
  <2>2. s = Items(ep.systems)[d.oid[2]]
    BY <1>4, <1>6
  <2>3. \A a \in AddressesOf(s, ms) : a \in MacsOf(I, r.id)
    BY <1>3, <2>2, InterfacesOfNodes, Zenon
  <2> HIDE DEF I, s, ms
  <2> QED  BY <2>1, <2>3
<1>8. MainIsStored(r, ep, I)
  BY <1>4, <1>7, Zenon DEF MainIsStored, MacsOf
<1> QED  BY <1>8, StoredIs

-----------------------------------------------------------------------------
(* Whatever is listed is stored. *)

IsStored(ep, first, oid) ==
  \E r \in Stored(ep, Found(ep), first).components \cup Stored(ep, Found(ep), first).hwinv : r.oid = oid

LEMMA ComponentsAreStored ==
  ASSUME NEW ep, NEW first, NEW d \in DiscoverComponentEndpointArray(Found(ep))
  PROVE  IsStored(ep, first, d.oid)
<1> DEFINE cs == Stored(ep, Found(ep), first).components
<1>1. cs = {Component(x) : x \in DiscoverComponentArray(Found(ep))}
  BY StoredIs
<1>2. d \in DiscoverComponentArray(Found(ep))
  BY Zenon DEF DiscoverComponentArray
<1>3. Component(d) \in cs
  BY <1>1, <1>2, Zenon
<1>4. Component(d).oid = d.oid
  BY ComponentIs
<1> QED  BY <1>3, <1>4, Zenon DEF IsStored

LEMMA SelvesAreStored ==
  ASSUME NEW ep, NEW first,
         NEW t \in Found(ep).chassis \cup Found(ep).systems \cup Found(ep).pdus,
         t.self.status = "DiscoverOK"
  PROVE  IsStored(ep, first, t.self.oid)
<1>1. t \in GoodTrees(Found(ep).chassis \cup Found(ep).systems \cup Found(ep).pdus)
  BY Zenon DEF GoodTrees
<1>2. t.self \in DiscoverComponentEndpointArray(Found(ep))
  BY <1>1, Zenon DEF DiscoverComponentEndpointArray
<1> QED  BY <1>2, ComponentsAreStored

LEMMA ManagersAreStored ==
  ASSUME NEW ep, NEW first, NEW x \in Found(ep).managers, x.status = "DiscoverOK"
  PROVE  IsStored(ep, first, x.oid)
<1>1. x \in DiscoverComponentEndpointArray(Found(ep))
  BY Zenon DEF DiscoverComponentEndpointArray, Good
<1> QED  BY <1>1, ComponentsAreStored

LEMMA BelowIsStored ==
  ASSUME NEW ep, NEW first,
         NEW t \in Found(ep).chassis \cup Found(ep).systems \cup Found(ep).pdus,
         t.self.status = "DiscoverOK", NEW x \in t.below, x.status = "DiscoverOK"
  PROVE  IsStored(ep, first, x.oid)
<1> DEFINE F == Found(ep)
           hs == Stored(ep, F, first).hwinv
<1>1. x \in Good(t.below)
  BY Zenon DEF Good
<1>2. t \in GoodTrees(F.chassis) \/ t \in GoodTrees(F.systems) \/ t \in GoodTrees(F.pdus)
  BY Zenon DEF GoodTrees
<1>3. x \in ChassisLocations(F) \/ x \in NodePartLocations(F) \/ x \in PDULocations(F)
  BY <1>1, <1>2, Zenon DEF ChassisLocations, NodePartLocations, PDULocations
<1>4. x \in DiscoverHWInvByLocArray(F, first)
  BY <1>3, Zenon DEF DiscoverHWInvByLocArray
<1>5. x \in hs
  BY <1>4, StoredIs
<1> QED  BY <1>5, Zenon DEF IsStored

(* A part that is there is discovered, or its parent is not. *)
LEMMA MadeIsThere ==
  ASSUME NEW x, NEW at, NEW got, NEW id, Made(x, at, got, id), x.status \in Fine, got # "missing"
  PROVE  x.status = "DiscoverOK" /\ x.oid = at
<1>1. x.oid = at /\ (got = "ok" => x.status = "DiscoverOK") /\ (got \notin {"ok", "missing"} => x.status \notin Fine)
  BY Zenon DEF Made, Outcome
<1> QED  BY <1>1

LEMMA ThereIs ==
  ASSUME NEW l, IsList(l), ~Unread(l), NEW i \in There(l)
  PROVE  i \in DOMAIN Items(l) /\ Items(l) = l.members /\ Items(l)[i].got # "missing"
<1>1. l.got # "garbled" /\ i \in DOMAIN l.members /\ l.members[i].got # "missing"
  BY DEF There
<1>2. i \in DOMAIN Items(l)
  BY <1>1, IsThere
<1> QED  BY <1>1, <1>2, ItemsAre

LEMMA PassedIs ==
  ASSUME NEW l, NEW i \in Passed(l)
  PROVE  l.got = "ok" /\ i \in DOMAIN Items(l) /\ Items(l) = l.members
BY DEF Passed, Items

(* Chassis, and their supplies *)

LEMMA SuppliesAreFine ==
  ASSUME NEW ep, NEW c, NEW oid, NEW id, NEW i, PowerSupply(ep, c, oid, id, i).status \in Fine
  PROVE  /\ PowerSupply(ep, c, oid, id, i).oid = oid \o <<"supplies", i>>
         /\ PowerSupply(ep, c, oid, id, i).status = "DiscoverOK"
<1> DEFINE x == PowerSupply(ep, c, oid, id, i)
           p == SuppliesOf(c)[i]
           type == GetPowerSupplyHMSType(ep, c)
           at == oid \o <<"supplies", i>>
           name == Append(id, <<"t", i - 1>>)
           r == [p EXCEPT !.fru.part = Unsaid]
           state == PartState(p)
           d == Discovered(at, type, name, i - 1, r, state)
<1>1. x = IF type = Unsaid THEN Undiscovered(at, "VerificationFailed") ELSE d
  BY DEF PowerSupply
<1> HIDE DEF at, type, name, r, state
<1>2. d.oid = at /\ d.status = "DiscoverOK"
  BY DiscoveredIs
<1> HIDE DEF d, x
<1>3. type # Unsaid
  BY <1>1, UndiscoveredIs, Words DEF x
<1> QED  BY <1>1, <1>2, <1>3, Zenon DEF x, at

LEMMA ListedChassisAre ==
  ASSUME NEW ep, GoodReport(ep), NEW i \in ListedChassis(ep)
  PROVE  /\ i \in DOMAIN Items(ep.chassis) /\ Items(ep.chassis) = ep.chassis.members
         /\ OneChassis(ep, Items(ep.chassis), i).self.status = "DiscoverOK"
<1> DEFINE l == ep.chassis
           c == l.members[i]
           type == GetChassisHMSType(ep, c)
           n == GetChassisOrdinal(l.members, i)
           t == OneChassis(ep, l.members, i)
<1>1. /\ ~Unread(l) /\ i \in DOMAIN l.members
      /\ ~c.skipped /\ c.got # "missing" /\ type # "Invalid" /\ GetChassisHMSID(ep, type, 0) # {}
  <2>1. i \in IF Unread(l) THEN {} ELSE DOMAIN l.members
    BY Zenon DEF ListedChassis
  <2>2. ~c.skipped /\ c.got # "missing" /\ type # "Invalid" /\ GetChassisHMSID(ep, type, 0) # {}
    BY Zenon DEF ListedChassis
  <2> QED  BY <2>1, <2>2
<1>2. Referred(l) = Verifying
  BY <1>1, FoundIs, RemotePhase1Is, Zenon DEF GoodReport
<1>3. l.got \in {"ok", "none"} /\ IsList(l)
  BY <1>2, ReferredIs, ReportsAre DEF GoodReport
<1>4. i \in DOMAIN Items(l) /\ Items(l) = l.members
  BY <1>1, <1>3, ItemsAre
<1>5. t.self.status \in Fine
  BY <1>4, EachIsFine
<1>6. GetChassisHMSID(ep, type, n) # {}
  BY <1>1 DEF GetChassisHMSID
<1>7. ~NoChassis(ep, l.members, i)
  BY <1>1, <1>6, Zenon DEF NoChassis
<1>8. t.self.status = "DiscoverOK"
  BY <1>5, <1>7, OneChassisIs
<1> QED  BY <1>4, <1>8

LEMMA ListedChassisAreStored ==
  ASSUME NEW ep, GoodReport(ep), NEW first, NEW i \in ListedChassis(ep)
  PROVE  /\ IsStored(ep, first, <<"chassis", i>>)
         /\ \A k \in ListedSupplies(ep.chassis.members[i]) :
              IsStored(ep, first, <<"chassis", i>> \o <<"supplies", k>>)
<1> DEFINE cs == Items(ep.chassis)
           t == OneChassis(ep, cs, i)
           at == <<"chassis", i>>
           c == cs[i]
           id == ChassisID(ep, cs, i)
           type == GetChassisHMSType(ep, c)
           n == GetChassisOrdinal(cs, i)
           below == PowerSupplies(ep, c, at, id)
<1>1. i \in DOMAIN cs /\ cs = ep.chassis.members /\ t.self.status = "DiscoverOK"
  BY ListedChassisAre
<1>2. t \in Found(ep).chassis
  BY <1>1, EachIsFine
<1>3. t.self.oid = at /\ ChassisFound(t, ep, cs, i)
  <2> HIDE DEF cs
  <2> QED  BY <1>1, OneChassisIs
<1>4. Grown(t, at, type, id, n, below)
  BY <1>3, Zenon DEF ChassisFound
<1>5. t.below = below /\ \A x \in below : x.status \in Fine
  <2> HIDE DEF t, at, type, id, n, below
  <2> QED  BY <1>1, <1>4, GrownIs
<1>6. IsStored(ep, first, at)
  <2> HIDE DEF t
  <2> QED  BY <1>1, <1>2, <1>3, SelvesAreStored
<1>7. ASSUME NEW k \in ListedSupplies(c) PROVE IsStored(ep, first, at \o <<"supplies", k>>)
  <2> DEFINE x == PowerSupply(ep, c, at, id, k)
  <2>1. c.supply.counted /\ k \in Passed(c.supply)
    BY Zenon DEF ListedSupplies
  <2>2. k \in DOMAIN SuppliesOf(c)
    BY <2>1 DEF Passed, SuppliesOf
  <2>3. x \in below
    BY <2>2, Zenon DEF PowerSupplies
  <2>4. x.status \in Fine
    BY <1>5, <2>3
  <2>5. x.oid = at \o <<"supplies", k>> /\ x.status = "DiscoverOK"
    <3> HIDE DEF at, id, c
    <3> QED  BY <2>4, SuppliesAreFine
  <2> HIDE DEF x, at, below, t
  <2>6. IsStored(ep, first, x.oid)
    BY <1>1, <1>2, <1>5, <2>3, <2>4, <2>5, BelowIsStored
  <2> QED  BY <2>5, <2>6
<1> QED  BY <1>1, <1>6, <1>7, Zenon

(* Systems, and their parts *)

LEMMA ListedSystemsAre ==
  ASSUME NEW ep, GoodReport(ep), NEW i \in ListedSystems(ep)
  PROVE  /\ i \in DOMAIN Items(ep.systems) /\ Items(ep.systems) = ep.systems.members
         /\ System(Items(ep.systems), i).self.status = "DiscoverOK"
<1> DEFINE l == ep.systems
           none == <<>>
           ss == IF Unread(l) THEN none ELSE l.members
           physical == {j \in DOMAIN ss : ss[j].type = "Physical"}
           t == System(l.members, i)
<1>1. i \in IF physical # {} THEN physical ELSE {j \in DOMAIN ss : ss[j].type = Unsaid}
  BY Zenon DEF ListedSystems
<1>2. i \in DOMAIN ss /\ (ss[i].type = "Physical" \/ (ss[i].type = Unsaid /\ physical = {}))
  BY <1>1
<1>3. ~Unread(l) /\ ss = l.members
  <2>1. Unread(l) => ss = none
    OBVIOUS
  <2>2. ~Unread(l) => ss = l.members
    OBVIOUS
  <2>3. DOMAIN none = {}
    BY NoItems
  <2> HIDE DEF ss, none
  <2> QED  BY <1>2, <2>1, <2>2, <2>3
<1>4. Referred(l) = Verifying
  BY <1>3, FoundIs, RemotePhase1Is, Zenon DEF GoodReport
<1>5. l.got \in {"ok", "none"} /\ IsList(l)
  BY <1>4, ReferredIs, ReportsAre DEF GoodReport
<1>6. i \in DOMAIN Items(l) /\ Items(l) = l.members
  BY <1>2, <1>3, <1>5, ItemsAre
<1>7. IsNode(l.members, i)
  <2>1. l.members[i].type = "Physical" \/ (l.members[i].type = Unsaid /\ physical = {})
    BY <1>2, <1>3
  <2>2. physical = {} => ~\E j \in DOMAIN l.members : l.members[j].type = "Physical"
    BY <1>3, Zenon
  <2>3. physical = {} => ~\E j \in DOMAIN l.members : IsPhysical(l.members[j])
    BY <2>2, Zenon DEF IsPhysical
  <2> QED  BY <2>1, <2>3, Zenon DEF IsNode
<1>8. t.self.status \in Fine
  BY <1>6, EachIsFine
<1>9. t.self.status = "DiscoverOK"
  BY <1>7, <1>8, SystemIs
<1> QED  BY <1>6, <1>9

(* What is below a system, and is fine. *)
LEMMA ListedPartsAre ==
  ASSUME NEW s, IsSystem(s), SystemPhase1(s) = Verifying, NEW oid, NEW id,
         \A x \in PartsBelow(s, oid, id) : x.status \in Fine,
         NEW p \in ListedParts(s, oid)
  PROVE  \E x \in PartsBelow(s, oid, id) : x.status = "DiscoverOK" /\ x.oid = p
<1>1. ~CardsUnread(s) /\ ~PartsUnread(s) /\ ~Unread(s.storage)
  BY SystemPhase1Is
<1>2. /\ IsList(s.processors) /\ IsList(s.memory) /\ IsList(s.adapters) /\ IsList(s.devices)
      /\ IsList(s.storage) /\ \A g \in DOMAIN s.storage.members : IsList(s.storage.members[g])
  BY Zenon DEF IsSystem, AreRead, AreNamed
<1>3. ASSUME NEW x \in PartsBelow(s, oid, id), NEW got, NEW name, Made(x, p, got, name), got # "missing"
      PROVE  x.status = "DiscoverOK" /\ x.oid = p
  BY <1>3, MadeIsThere
<1>4. ASSUME NEW i \in There(s.processors), p = oid \o <<"processors", i>>
      PROVE  \E x \in PartsBelow(s, oid, id) : x.status = "DiscoverOK" /\ x.oid = p
  <2>1. i \in DOMAIN Items(s.processors) /\ Items(s.processors)[i].got # "missing"
    BY <1>1, <1>2, ThereIs DEF PartsUnread
  <2>2. Processor(s, oid, id, i) \in PartsBelow(s, oid, id)
    BY <2>1, Zenon DEF PartsBelow, Processors
  <2> QED  BY <1>3, <1>4, <2>1, <2>2, ProcessorIs, Zenon
<1>5. ASSUME NEW i \in There(s.memory), p = oid \o <<"memory", i>>
      PROVE  \E x \in PartsBelow(s, oid, id) : x.status = "DiscoverOK" /\ x.oid = p
  <2>1. i \in DOMAIN Items(s.memory) /\ Items(s.memory)[i].got # "missing"
    BY <1>1, <1>2, ThereIs DEF PartsUnread
  <2>2. MemoryModule(s, oid, id, i) \in PartsBelow(s, oid, id)
    BY <2>1, Zenon DEF PartsBelow, Memory
  <2> QED  BY <1>3, <1>5, <2>1, <2>2, MemoryModuleIs, Zenon
<1>6. ASSUME NEW i \in Passed(s.assembly), s.assembly.members[i].kind = "Riser", p = oid \o <<"assembly", i>>
      PROVE  \E x \in PartsBelow(s, oid, id) : x.status = "DiscoverOK" /\ x.oid = p
  <2>1. i \in Risers(s)
    BY <1>6, PassedIs DEF Risers
  <2>2. NodeAccelRiser(s, oid, id, i) \in PartsBelow(s, oid, id)
    BY <2>1, Zenon DEF PartsBelow, NodeAccelRisers
  <2>3. "ok" # "missing"
    OBVIOUS
  <2> QED  BY <1>3, <1>6, <2>2, <2>3, NodeAccelRiserIs, Zenon
<1>7. ASSUME NEW g \in Passed(s.storage), s.storage.members[g].got = "ok",
             NEW i \in There(s.storage.members[g]), p = oid \o <<"storage", g, i>>
      PROVE  \E x \in PartsBelow(s, oid, id) : x.status = "DiscoverOK" /\ x.oid = p
  <2>1. g \in DOMAIN Items(s.storage) /\ Items(s.storage) = s.storage.members
    BY PassedIs
  <2> DEFINE l == s.storage.members[g]
  <2>2. ~Unread(l) /\ IsList(l)
    BY <1>2, <1>7, <2>1 DEF Unread
  <2>3. i \in DOMAIN Items(l) /\ Items(l)[i].got # "missing"
    BY <2>2, ThereIs
  <2> DEFINE y == [group |-> g, place |-> i]
  <2>4. y.group = g /\ y.place = i
    OBVIOUS
  <2>5. y \in {[group |-> g, place |-> k] : k \in DOMAIN Items(Items(s.storage)[g])}
    BY <2>1, <2>3, Zenon
  <2>5a. y \in GroupedDrives(s)
    BY <2>1, <2>5, Zenon DEF GroupedDrives
  <2> HIDE DEF y
  <2>6. Drive(s, oid, id, g, i) \in PartsBelow(s, oid, id)
    BY <2>4, <2>5a, Zenon DEF PartsBelow, Drives
  <2> QED  BY <1>3, <1>7, <2>1, <2>3, <2>6, DriveIs, Zenon
<1>8. ASSUME HasDevices(s), NEW i \in There(s.devices), s.devices.members[i].known,
             s.devices.members[i].kind \in {"GPU", "LOM NIC", "PCIe NIC"}, p = oid \o <<"devices", i>>
      PROVE  \E x \in PartsBelow(s, oid, id) : x.status = "DiscoverOK" /\ x.oid = p
  <2> DEFINE m == Items(s.devices)[i]
             got == IF m.got = "ok" /\ ~Usable(m) THEN "missing" ELSE m.got
             name == Append(id, <<DeviceLetter(m), GetHpeDeviceOrdinal(Items(s.devices), i)>>)
  <2>1. i \in DOMAIN Items(s.devices) /\ m = s.devices.members[i] /\ m.got # "missing"
    BY <1>1, <1>2, <1>8, ThereIs DEF CardsUnread
  <2>2. HpeDevice(s, oid, id, i) \in PartsBelow(s, oid, id)
    BY <1>8, <2>1, Zenon DEF PartsBelow, Cards, HpeDevices
  <2>3. Usable(m)
    BY <1>8, <2>1 DEF Usable, IsNic
  <2>4. got # "missing"
    BY <2>1, <2>3
  <2>5. Made(HpeDevice(s, oid, id, i), p, got, name)
    BY <1>8, HpeDeviceIs, Zenon
  <2> HIDE DEF got, name
  <2> QED  BY <1>3, <2>2, <2>4, <2>5, Zenon
<1>9. ASSUME ~HasDevices(s), s.adapters.got # "garbled", NEW i \in DOMAIN s.adapters.members,
             p = oid \o <<"adapters", i>>
      PROVE  \E x \in PartsBelow(s, oid, id) : x.status = "DiscoverOK" /\ x.oid = p
  <2>1. i \in DOMAIN Items(s.adapters)
    BY <1>1, <1>2, <1>9, IsThere DEF CardsUnread
  <2>2. NetworkAdapter(s, oid, id, i) \in PartsBelow(s, oid, id)
    BY <1>9, <2>1, Zenon DEF PartsBelow, Cards, NetworkAdapters
  <2> QED  BY <1>3, <1>9, <2>2, NetworkAdapterIs, Zenon
<1>10. \/ \E i \in There(s.processors) : p = oid \o <<"processors", i>>
       \/ \E i \in There(s.memory) : p = oid \o <<"memory", i>>
       \/ \E i \in Passed(s.assembly) : s.assembly.members[i].kind = "Riser" /\ p = oid \o <<"assembly", i>>
       \/ p \in ListedDrives(s, oid)
       \/ p \in ListedCards(s, oid)
  BY Zenon DEF ListedParts
<1>11. ASSUME p \in ListedDrives(s, oid)
       PROVE  \E g \in Passed(s.storage) :
                 s.storage.members[g].got = "ok" /\ \E i \in There(s.storage.members[g]) : p = oid \o <<"storage", g, i>>
  BY <1>11, Zenon DEF ListedDrives
<1>12. ASSUME p \in ListedCards(s, oid), HasDevices(s)
       PROVE  \E i \in There(s.devices) :
                 /\ s.devices.members[i].known
                 /\ s.devices.members[i].kind \in {"GPU", "LOM NIC", "PCIe NIC"}
                 /\ p = oid \o <<"devices", i>>
  BY <1>12, Zenon DEF ListedCards
<1>13. ASSUME p \in ListedCards(s, oid), ~HasDevices(s)
       PROVE  s.adapters.got # "garbled" /\ \E i \in DOMAIN s.adapters.members : p = oid \o <<"adapters", i>>
  <2>1. \E i \in (IF s.adapters.got = "garbled" THEN {} ELSE DOMAIN s.adapters.members) : p = oid \o <<"adapters", i>>
    BY <1>13, Zenon DEF ListedCards
  <2> QED  BY <2>1
<1> QED  BY <1>4, <1>5, <1>6, <1>7, <1>8, <1>9, <1>10, <1>11, <1>12, <1>13, Zenon

LEMMA ListedSystemsAreStored ==
  ASSUME NEW ep, GoodReport(ep), NEW first, NEW i \in ListedSystems(ep)
  PROVE  /\ IsStored(ep, first, <<"systems", i>>)
         /\ \A p \in ListedParts(ep.systems.members[i], <<"systems", i>>) : IsStored(ep, first, p)
<1> DEFINE ss == Items(ep.systems)
           t == System(ss, i)
           at == <<"systems", i>>
           s == ss[i]
           id == SystemID(ss, i)
           type == "Node"
           n == GetSystemOrdinal(ss, i)
           below == PartsBelow(s, at, id)
<1>1. i \in DOMAIN ss /\ ss = ep.systems.members /\ t.self.status = "DiscoverOK"
  BY ListedSystemsAre
<1>2. t \in Found(ep).systems
  BY <1>1, EachIsFine
<1>3. t.self.oid = at /\ SystemFound(t, ss, i)
  <2> HIDE DEF ss
  <2> QED  BY <1>1, SystemIs
<1>4. Grown(t, at, type, id, n, below) /\ SystemPhase1(s) = Verifying
  BY <1>3, Zenon DEF SystemFound
<1>5. t.below = below /\ \A x \in below : x.status \in Fine
  <2> HIDE DEF t, at, type, id, n, below
  <2> QED  BY <1>1, <1>4, GrownIs
<1>6. IsStored(ep, first, at)
  <2> HIDE DEF t
  <2> QED  BY <1>1, <1>2, <1>3, SelvesAreStored
<1>7. IsSystem(s)
  BY <1>1, Zenon DEF GoodReport, IsReport
<1>8. ASSUME NEW p \in ListedParts(s, at) PROVE IsStored(ep, first, p)
  <2>1. PICK x \in below : x.status = "DiscoverOK" /\ x.oid = p
    <3> HIDE DEF at, s, id
    <3> QED  BY <1>4, <1>5, <1>7, ListedPartsAre
  <2> HIDE DEF at, below, t
  <2>2. IsStored(ep, first, x.oid)
    BY <1>1, <1>2, <1>5, <2>1, BelowIsStored
  <2> QED  BY <2>1, <2>2
<1> QED  BY <1>1, <1>6, <1>8, Zenon

(* Power distribution units, and their outlets *)

LEMMA ListedPDUsAreStored ==
  ASSUME NEW ep, GoodReport(ep), NEW first, NEW i \in ListedPDUs(ep)
  PROVE  /\ IsStored(ep, first, <<"pdus", i>>)
         /\ \A k \in ListedOutlets(ep.power.members[i]) :
              IsStored(ep, first, <<"pdus", i>> \o <<"outlets", k>>)
<1> DEFINE ps == Items(PowerOf(ep))
           t == RackPDU(ep, ps, i)
           at == <<"pdus", i>>
           id == <<<<"p", i - 1>>>>
           p == ps[i]
           type == "CabinetPDU"
           n == i - 1
<1>1. ep.root.got = "ok" /\ ep.type = "CabinetPDUController" /\ i \in DOMAIN ep.power.members
  <2>1. i \in (IF ep.root.got = "ok" /\ ep.type = "CabinetPDUController" THEN DOMAIN ep.power.members ELSE {})
    BY Zenon DEF ListedPDUs
  <2> QED  BY <2>1
<1>2. PowerOf(ep) = ep.power
  BY <1>1, Zenon DEF PowerOf
<1>3. Referred(ep.power) = Verifying
  BY <1>2, FoundIs, RemotePhase1Is DEF GoodReport
<1>4. ep.power.got \in {"ok", "none"} /\ IsList(ep.power)
  BY <1>3, ReferredIs, ReportsAre DEF GoodReport
<1>5. i \in DOMAIN ps /\ ps = ep.power.members
  BY <1>1, <1>2, <1>4, ItemsAre
<1>6. t \in Found(ep).pdus /\ t.self.status \in Fine
  BY <1>5, EachIsFine
<1>7. t.self.oid = at /\ t.self.status = "DiscoverOK" /\ PDUFound(t, ep, ps, i)
  <2> HIDE DEF ps
  <2> QED  BY <1>1, <1>6, RackPDUIs
<1>8. PICK pdu : pdu.oid = at /\ Grown(t, at, type, id, n, PDUOutlets(p, pdu))
  BY <1>7, Zenon DEF PDUFound
<1> DEFINE below == PDUOutlets(p, pdu)
<1>9. t.below = below /\ \A x \in below : x.status \in Fine
  <2>1. Grown(t, at, type, id, n, below)
    BY <1>8
  <2> HIDE DEF t, at, type, id, n, below
  <2> QED  BY <1>7, <2>1, GrownIs
<1>10. IsStored(ep, first, at)
  <2> HIDE DEF t
  <2> QED  BY <1>6, <1>7, SelvesAreStored
<1>11. ASSUME NEW k \in ListedOutlets(p) PROVE IsStored(ep, first, at \o <<"outlets", k>>)
  <2> DEFINE x == PDUOutlet(p, pdu, k)
  <2>1. p.outlets.got # "garbled" /\ k \in DOMAIN p.outlets.members
    BY DEF ListedOutlets
  <2>2. ~Unread(p.outlets)
    BY <1>7, Zenon DEF PDUFound
  <2>3. IsList(p.outlets)
    BY <1>5, Zenon DEF GoodReport, IsReport, AreRead
  <2>4. k \in DOMAIN Items(p.outlets)
    <3> HIDE DEF p
    <3> QED  BY <2>1, <2>2, <2>3, IsThere
  <2>5. x \in below
    BY <2>4, Zenon DEF PDUOutlets
  <2>6. x.status \in Fine
    BY <1>9, <2>5
  <2>7. x.oid = pdu.oid \o <<"outlets", k>> /\ x.status = "DiscoverOK"
    <3> HIDE DEF p
    <3> QED  BY <2>6, PDUOutletIs
  <2> HIDE DEF x, at, below, t
  <2>8. IsStored(ep, first, x.oid)
    BY <1>6, <1>7, <1>9, <2>5, <2>7, BelowIsStored
  <2> QED  BY <1>8, <2>7, <2>8
<1> QED  BY <1>5, <1>10, <1>11, Zenon

(* Managers *)

LEMMA ListedManagersAreStored ==
  ASSUME NEW ep, GoodReport(ep), NEW first, NEW i \in ListedManagers(ep)
  PROVE  IsStored(ep, first, <<"managers", i>>)
<1> DEFINE l == ep.managers
           ms == l.members
           x == Manager(ep, ms, i)
           Before == {j \in 1 .. i - 1 : (IF ms[j].got = "ok" THEN ms[j].type ELSE Unsaid) = ms[i].type}
<1>1. /\ i \in DOMAIN ms /\ ms[i].own /\ ep.type \notin Switches
      /\ \A j \in 1 .. i - 1 : ms[j].type # ms[i].type
  BY Zenon DEF ListedManagers
<1>2. Referred(l) = Verifying
  BY FoundIs, RemotePhase1Is, Zenon DEF GoodReport
<1>3. l.got \in {"ok", "none"} /\ IsList(l)
  BY <1>2, ReferredIs, ReportsAre DEF GoodReport
<1>4. /\ i \in DOMAIN Items(l) /\ Items(l) = ms
      /\ DOMAIN ms = 1 .. Len(ms) /\ Len(ms) \in Nat
  BY <1>1, <1>3, ItemsAre
<1>5. ASSUME NEW j \in DOMAIN ms PROVE ms[j].got = "ok"
  <2>1. Manager(ep, ms, j).status \in Fine
    BY <1>4, EachIsFine
  <2> HIDE DEF ms
  <2> QED  BY <2>1, ManagerIs
<1>6. Before = {}
  BY <1>1, <1>4, <1>5
<1>7. GetManagerOrdinal(ms, i) = Cardinality(Before)
  BY Zenon DEF GetManagerOrdinal
<1>8. GetManagerOrdinal(ms, i) = 0
  BY <1>6, <1>7, FS_EmptySet
<1>9. GetManagerHMSType(ep, ms, i) = ep.type
  BY <1>1 DEF GetManagerHMSType
<1>10. x \in Found(ep).managers /\ x.status \in Fine
  BY <1>4, EachIsFine
<1>11. x.oid = <<"managers", i>> /\ x.status = "DiscoverOK"
  <2> HIDE DEF ms
  <2> QED  BY <1>8, <1>9, <1>10, ManagerIs
<1> HIDE DEF x
<1>12. IsStored(ep, first, x.oid)
  BY <1>10, <1>11, ManagersAreStored
<1> QED  BY <1>11, <1>12

LEMMA ListedIsStored ==
  ASSUME NEW ep, GoodReport(ep), NEW first, NEW p \in Listed(ep)
  PROVE  IsStored(ep, first, p)
<1>1. \/ \E i \in ListedChassis(ep) : p = <<"chassis", i>>
      \/ \E i \in ListedSystems(ep) : p = <<"systems", i>>
      \/ \E i \in ListedPDUs(ep) : p = <<"pdus", i>>
      \/ \E i \in ListedManagers(ep) : p = <<"managers", i>>
      \/ \E i \in ListedChassis(ep) : \E k \in ListedSupplies(ep.chassis.members[i]) :
           p = <<"chassis", i>> \o <<"supplies", k>>
      \/ \E i \in ListedSystems(ep) : p \in ListedParts(ep.systems.members[i], <<"systems", i>>)
      \/ \E i \in ListedPDUs(ep) : \E k \in ListedOutlets(ep.power.members[i]) :
           p = <<"pdus", i>> \o <<"outlets", k>>
  BY Zenon DEF Listed
<1> QED  BY <1>1, ListedChassisAreStored, ListedSystemsAreStored, ListedPDUsAreStored,
            ListedManagersAreStored, Zenon

-----------------------------------------------------------------------------
(* The invariant: what is stored is what was found of the report. *)

StoredFrom(ep, st) ==
  /\ RootInfo(ep).status = "DiscoverOK"
  /\ \E first \in FirstSeen(NodesOf(Found(ep))) : st = Stored(ep, Found(ep), first)

DiscoveryInv ==
  /\ report \in EndpointReports
  /\ stored.status = "DiscoverOK" => StoredFrom(report, stored)

LEMMA NotStoredIs ==
  ASSUME NEW status
  PROVE  NotStored(status).status = status
BY Zenon DEF NotStored

LEMMA DiscoveryInvHolds == ReportSpec => []DiscoveryInv
<1>1. ReportInit => DiscoveryInv
  <2> SUFFICES ASSUME ReportInit PROVE DiscoveryInv
    OBVIOUS
  <2>1. report \in EndpointReports /\ stored = NotStored("DiscoveryStarted")
    BY Zenon DEF ReportInit
  <2>2. stored.status = "DiscoveryStarted"
    BY <2>1, NotStoredIs
  <2>3. stored.status # "DiscoverOK"
    BY <2>2
  <2> QED  BY <2>1, <2>3, Zenon DEF DiscoveryInv
<1>2. DiscoveryInv /\ [Discover]_discovery => DiscoveryInv'
  <2> SUFFICES ASSUME DiscoveryInv, [Discover]_discovery PROVE DiscoveryInv'
    OBVIOUS
  <2>1. CASE UNCHANGED discovery
    <3>1. report' = report /\ stored' = stored
      BY <2>1 DEF discovery
    <3> QED  BY <3>1, Zenon DEF DiscoveryInv
  <2>2. CASE Discover
    <3> DEFINE root == RootInfo(report)
    <3>1. report' = report /\ report \in EndpointReports
      BY <2>2, Zenon DEF Discover, DiscoveryInv
    <3>2. IF root.status # "DiscoverOK" THEN stored' = NotStored(root.status)
          ELSE \E first \in FirstSeen(NodesOf(root.found)) : stored' = Stored(report, root.found, first)
      BY <2>2, Zenon DEF Discover
    <3>3. ASSUME root.status # "DiscoverOK" PROVE stored'.status # "DiscoverOK"
      BY <3>2, <3>3, NotStoredIs
    <3>4. ASSUME root.status = "DiscoverOK" PROVE StoredFrom(report, stored')
      BY <3>2, <3>4, Zenon DEF StoredFrom, Found
    <3>5. stored'.status = "DiscoverOK" => StoredFrom(report', stored')
      BY <3>1, <3>3, <3>4, Zenon
    <3> QED  BY <3>1, <3>5, Zenon DEF DiscoveryInv
  <2> QED  BY <2>1, <2>2
<1> QED  BY <1>1, <1>2, PTL DEF ReportSpec

LEMMA InvIsGood ==
  ASSUME DiscoveryInv, stored.status = "DiscoverOK"
  PROVE  /\ GoodReport(report)
         /\ \E first \in FirstSeen(NodesOf(Found(report))) : stored = Stored(report, Found(report), first)
BY ReportsAssumption, Zenon DEF DiscoveryInv, StoredFrom, GoodReport

LEMMA ThenWhole == ASSUME DiscoveryInv PROVE WholeTree
<1> SUFFICES ASSUME stored.status = "DiscoverOK"
             PROVE  /\ Listed(report) \subseteq {r.oid : r \in stored.components \cup stored.hwinv}
                    /\ Crowded(report) \/ (Apart(stored.components) /\ Apart(stored.hwinv))
                    /\ NumbersApart(Nodes(stored.components))
                    /\ \A r \in stored.hwinv : r.present => PostedAgain(r)
                    /\ \A r \in Nodes(stored.components) : MainIsStored(r, report, stored.interfaces)
  BY Zenon DEF WholeTree
<1>1. GoodReport(report)
  BY InvIsGood
<1>2. PICK first : stored = Stored(report, Found(report), first)
  BY InvIsGood
<1>3. Listed(report) \subseteq {r.oid : r \in stored.components \cup stored.hwinv}
  <2>1. ASSUME NEW p \in Listed(report)
        PROVE  \E r \in stored.components \cup stored.hwinv : p = r.oid
    <3>1. IsStored(report, first, p)
      BY <1>1, ListedIsStored
    <3> QED  BY <1>2, <3>1 DEF IsStored
  <2> QED  BY <2>1
<1>4. ~Crowded(report) => Apart(stored.components) /\ Apart(stored.hwinv)
  BY <1>1, <1>2, ComponentsApart
<1>5. NumbersApart(Nodes(stored.components))
  BY <1>1, <1>2, NumbersAreApart
<1>6. \A r \in stored.hwinv : r.present => PostedAgain(r)
  BY <1>1, <1>2, PartsArePostable
<1>7. \A r \in Nodes(stored.components) : MainIsStored(r, report, stored.interfaces)
  BY <1>1, <1>2, MainsAreStored
<1> QED  BY <1>3, <1>4, <1>5, <1>6, <1>7

(* A discovery that ends with DiscoverOK has stored whatever the endpoint  *)
(* lists, but for what is known to be passed over, each under an id and a  *)
(* number of its own, its parts as they would be posted and the main       *)
(* address of each node (phases 1 and 2 of pkg/redfish,                    *)
(* updateFromRfEndpoint), for any report.                                  *)
THEOREM TreesAreWhole == ReportSpec => []WholeTree
<1>1. DiscoveryInv => WholeTree
  BY ThenWhole
<1> QED  BY <1>1, DiscoveryInvHolds, PTL

-----------------------------------------------------------------------------
(* Nodes that share one part, whichever comes first. *)

Together(nodes) == \A d, e \in WithPart(nodes) : d.fru = e.fru
Shares(nodes, first, d) == d \in SameAs(first, nodes) \/ (d = first /\ SameAs(first, nodes) # {})

LEMMA MarkedIs ==
  ASSUME NEW nodes, Together(nodes), NEW first \in FirstSeen(nodes), NEW d \in nodes
  PROVE  Shares(nodes, first, d) <=> d \in WithPart(nodes) /\ \E e \in WithPart(nodes) : e # d
<1> DEFINE W == WithPart(nodes)
<1>0. \A e : e \in W <=> e \in nodes /\ e.present
  BY Zenon DEF WithPart
<1>1. \A e : e \in SameAs(first, nodes) <=> e \in W /\ e # first /\ e.fru = first.fru
  BY <1>0, Zenon DEF SameAs
<1>2. W # {} => first \in W
  BY Zenon DEF FirstSeen
<1>3. \A e \in W : e.fru = first.fru
  BY <1>2, Zenon DEF Together
<1>4. \A e : e \in SameAs(first, nodes) <=> e \in W /\ e # first
  BY <1>1, <1>3, Zenon
<1> HIDE DEF W
<1>5. Shares(nodes, first, d) <=> d \in SameAs(first, nodes) \/ (d = first /\ \E e : e \in SameAs(first, nodes))
  BY DEF Shares
<1>6. Shares(nodes, first, d) <=> d \in W /\ \E e \in W : e # d
  <2>1. \A e : e \in W => first \in W
    BY <1>2
  <2>2. ASSUME Shares(nodes, first, d) PROVE d \in W /\ \E e \in W : e # d
    BY <1>4, <1>5, <2>1, <2>2, Zenon
  <2>3. ASSUME d \in W, NEW e \in W, e # d PROVE Shares(nodes, first, d)
    <3>1. CASE d # first
      BY <1>4, <1>5, <2>3, <3>1
    <3>2. CASE d = first
      <4>1. e \in SameAs(first, nodes)
        BY <1>4, <2>3, <3>2
      <4> QED  BY <1>5, <3>2, <4>1
    <3> QED  BY <3>1, <3>2
  <2> QED  BY <2>2, <2>3, Zenon
<1> QED  BY <1>6, Zenon DEF W

LEMMA NodeLocationsAre ==
  ASSUME NEW nodes, Together(nodes), NEW first \in FirstSeen(nodes), NEW other \in FirstSeen(nodes)
  PROVE  SharedFRUs(nodes, first) = SharedFRUs(nodes, other)
<1>1. \A d \in nodes : Shares(nodes, first, d) <=> Shares(nodes, other, d)
  BY MarkedIs, Zenon
<1>2. \A f : SharedFRUs(nodes, f) = {IF Shares(nodes, f, d) THEN Suffixed(d) ELSE d : d \in nodes}
  BY Zenon DEF SharedFRUs, Shares
<1>3. \A d \in nodes : (IF Shares(nodes, first, d) THEN Suffixed(d) ELSE d)
                         = IF Shares(nodes, other, d) THEN Suffixed(d) ELSE d
  BY <1>1, Zenon
<1>4. {IF Shares(nodes, first, d) THEN Suffixed(d) ELSE d : d \in nodes}
        = {IF Shares(nodes, other, d) THEN Suffixed(d) ELSE d : d \in nodes}
  BY <1>3
<1> QED  BY <1>2, <1>4, Zenon

(* The row of a node: one that shares its part has a suffix. *)
LEMMA RowsOfNodes ==
  ASSUME NEW ep, GoodReport(ep), NEW first, NEW r \in Nodes(DiscoverHWInvByLocArray(Found(ep), first))
  PROVE  \E d \in NodesOf(Found(ep)) :
           r = IF Shares(NodesOf(Found(ep)), first, d) THEN Suffixed(d) ELSE d
<1> DEFINE F == Found(ep)
<1>1. r.type = "Node" /\ r \in DiscoverHWInvByLocArray(F, first)
  BY Zenon DEF Nodes
<1>2. ~SoundRow(ep, r)
  BY <1>1, Zenon DEF SoundRow, OtherRow
<1>3. r \notin ChassisLocations(F)
  BY <1>2, ChassisRows, Zenon DEF ChassisLocations
<1>4. r \notin NodePartLocations(F)
  BY <1>2, SystemRows, Zenon DEF NodePartLocations
<1>5. r \notin PDULocations(F)
  BY <1>2, PDURows, Zenon DEF PDULocations
<1>6. r \notin ManagerLocations(F)
  <2>1. ~OtherRow(ep, r)
    BY <1>1, Zenon DEF OtherRow
  <2> QED  BY <2>1, ManagerRows, Zenon DEF ManagerLocations
<1>7. r \in NodeLocations(F, first)
  BY <1>1, <1>3, <1>4, <1>5, <1>6, Zenon DEF DiscoverHWInvByLocArray
<1> QED  BY <1>7, Zenon DEF NodeLocations, SharedFRUs, Shares

LEMMA SameOrdinal ==
  ASSUME NEW ep, GoodReport(ep), NEW d \in NodesOf(Found(ep)), NEW e \in NodesOf(Found(ep)),
         d.ordinal = e.ordinal
  PROVE  d.oid = e.oid
<1>1. NodeRow(ep, d) /\ NodeRow(ep, e)
  BY NodesAre
<1>2. PICK i : SystemAt(ep, i) /\ d.oid = <<"systems", i>> /\ d.ordinal = GetSystemOrdinal(Items(ep.systems), i)
  BY <1>1, Zenon DEF NodeRow
<1>3. PICK k : SystemAt(ep, k) /\ e.oid = <<"systems", k>> /\ e.ordinal = GetSystemOrdinal(Items(ep.systems), k)
  BY <1>1, Zenon DEF NodeRow
<1>4. GetSystemOrdinal(Items(ep.systems), i) = GetSystemOrdinal(Items(ep.systems), k)
  BY <1>2, <1>3
<1>5. IsReport(ep)
  BY DEF GoodReport
<1>6. i = k
  BY <1>2, <1>3, <1>4, <1>5, SystemIDsApart
<1> QED  BY <1>2, <1>3, <1>6

LEMMA SuffixesApart ==
  ASSUME NEW a, NEW b, NEW c, NEW n, NEW m, <<a, n, b>> = <<a, m, c>>
  PROVE  n = m
OBVIOUS

LEMMA PartsAreToldApart ==
  ASSUME NEW ep, GoodReport(ep), NEW first \in FirstSeen(NodesOf(Found(ep)))
  PROVE  PartsToldApart(Found(ep), DiscoverHWInvByLocArray(Found(ep), first))
<1> DEFINE F == Found(ep)
           N == NodesOf(F)
           H == DiscoverHWInvByLocArray(F, first)
<1> SUFFICES ASSUME Together(N)
             PROVE  /\ \A other \in FirstSeen(N) : H = DiscoverHWInvByLocArray(F, other)
                    /\ \A r, q \in WithPart(Nodes(H)) : r.fru = q.fru => r.oid = q.oid
  BY Zenon DEF PartsToldApart, Together
<1>1. ASSUME NEW other \in FirstSeen(N) PROVE H = DiscoverHWInvByLocArray(F, other)
  <2>1. NodeLocations(F, first) = NodeLocations(F, other)
    BY NodeLocationsAre, Zenon DEF NodeLocations
  <2> QED  BY <2>1, Zenon DEF DiscoverHWInvByLocArray
<1>2. ASSUME NEW r \in WithPart(Nodes(H))
      PROVE  \E d \in N : r = IF Shares(N, first, d) THEN Suffixed(d) ELSE d
  <2>1. r \in Nodes(H)
    BY Zenon DEF WithPart
  <2> QED  BY <2>1, RowsOfNodes
<1>3. ASSUME NEW r \in WithPart(Nodes(H)), NEW d \in N, r = IF Shares(N, first, d) THEN Suffixed(d) ELSE d
      PROVE  /\ r.oid = d.oid /\ d \in WithPart(N)
             /\ Shares(N, first, d) => r.fru = <<"_", d.ordinal, d.fru>>
  <2>1. r.present
    BY Zenon DEF WithPart
  <2>2. DOMAIN d = Fields
    BY NodesAre
  <2>3. CASE Shares(N, first, d)
    <3>1. r = Suffixed(d)
      BY <1>3, <2>3, Zenon
    <3>2. r.oid = d.oid /\ r.present = d.present /\ r.fru = <<"_", d.ordinal, d.fru>>
      BY <2>2, <3>1, SuffixedIs
    <3> QED  BY <2>1, <3>2, Zenon DEF WithPart
  <2>4. CASE ~Shares(N, first, d)
    BY <1>3, <2>1, <2>4, Zenon DEF WithPart
  <2> QED  BY <2>3, <2>4, Zenon
<1>4. ASSUME NEW r \in WithPart(Nodes(H)), NEW q \in WithPart(Nodes(H)), r.fru = q.fru
      PROVE  r.oid = q.oid
  <2>1. PICK d \in N : r = IF Shares(N, first, d) THEN Suffixed(d) ELSE d
    BY <1>2
  <2>2. PICK e \in N : q = IF Shares(N, first, e) THEN Suffixed(e) ELSE e
    BY <1>2
  <2>3. /\ r.oid = d.oid /\ d \in WithPart(N)
        /\ Shares(N, first, d) => r.fru = <<"_", d.ordinal, d.fru>>
    BY <1>3, <2>1
  <2>4. /\ q.oid = e.oid /\ e \in WithPart(N)
        /\ Shares(N, first, e) => q.fru = <<"_", e.ordinal, e.fru>>
    BY <1>3, <2>2
  <2>5. CASE d = e
    BY <2>3, <2>4, <2>5
  <2>6. CASE d # e
    <3>1. Shares(N, first, d) /\ Shares(N, first, e)
      BY <2>3, <2>4, <2>6, MarkedIs
    <3>2. <<"_", d.ordinal, d.fru>> = <<"_", e.ordinal, e.fru>>
      BY <1>4, <2>3, <2>4, <3>1, Zenon
    <3>3. d.ordinal = e.ordinal
      BY <3>2, SuffixesApart, Zenon
    <3>4. d.oid = e.oid
      BY <3>3, SameOrdinal
    <3> QED  BY <2>3, <2>4, <3>4
  <2> QED  BY <2>5, <2>6
<1> QED  BY <1>1, <1>4

-----------------------------------------------------------------------------
(* The main address of a manager. *)

(* Each set of numbers has a least one. *)
LEMMA LeastNumber ==
  ASSUME NEW T \in SUBSET Nat, T # {}
  PROVE  \E x \in T : \A y \in T : x <= y
<1> DEFINE R == {ss \in Nat \X Nat : ss[1] < ss[2]}
<1>1. IsWellFoundedOn(R, Nat)
  BY NatLessThanWellFounded DEF OpToRel
<1>2. PICK x \in T : \A y \in T : ~(<<y, x>> \in R)
  <2> HIDE DEF R
  <2> QED  BY <1>1, WFMin
<1>3. ASSUME NEW y \in T PROVE x <= y
  <2>1. x \in Nat /\ y \in Nat
    OBVIOUS
  <2>2. <<y, x>> \notin R
    BY <1>2
  <2> QED  BY <2>1, <2>2
<1> QED  BY <1>3

Feeds(e) == e.got = "ok" /\ e.enabled
Healthy(e) == e.got = "ok" /\ e.state = "Enabled" /\ e.health = "OK"

LEMMA MACStepIs ==
  ASSUME NEW acc, NEW e
  PROVE  /\ MACStep(acc, e).iface = IF Feeds(e) THEN e.mac ELSE acc.iface
         /\ MACStep(acc, e).ok = IF Healthy(e) THEN e.mac ELSE acc.ok
         /\ MACStep(acc, e).iface = MACStep(acc, e).ok => MACStep(acc, e).main = MACStep(acc, e).iface
         /\ MACStep(acc, e).iface # MACStep(acc, e).ok /\ acc.main # 0 => MACStep(acc, e).main = acc.main
<1> DEFINE iface == IF Feeds(e) THEN e.mac ELSE acc.iface
           on == IF e.got = "ok" /\ e.state = "Enabled" THEN e.mac ELSE acc.on
           ok == IF Healthy(e) THEN e.mac ELSE acc.ok
           main == IF iface = ok \/ (acc.main = 0 /\ iface = on) THEN iface ELSE acc.main
           a == MACStep(acc, e)
<1>1. a.iface = iface /\ a.ok = ok
  BY Zenon DEF MACStep, Feeds, Healthy
<1>2. a.main = main
  BY Zenon DEF MACStep, Feeds, Healthy
<1> HIDE DEF a, iface, ok, on
<1>3. iface = ok => main = iface
  OBVIOUS
<1>4. iface # ok /\ acc.main # 0 => main = acc.main
  OBVIOUS
<1> HIDE DEF main
<1>5. /\ a.iface = iface /\ a.ok = ok
      /\ a.iface = a.ok => a.main = a.iface
      /\ a.iface # a.ok /\ acc.main # 0 => a.main = acc.main
  BY <1>1, <1>2, <1>3, <1>4, Zenon
<1> QED  BY <1>5, Zenon DEF a, iface, ok

(* What has been seen of the first k interfaces exists. *)
IsSeen(f, es, k) == f = [n \in 0 .. k |-> IF n = 0 THEN NoMAC ELSE MACStep(f[n - 1], es[n])]

LEMMA SeenStep ==
  ASSUME NEW es, NEW k \in Nat, NEW f, IsSeen(f, es, k)
  PROVE  \E g : IsSeen(g, es, k + 1)
<1> DEFINE last == MACStep(f[k], es[k + 1])
           g == [n \in 0 .. k + 1 |-> IF n = k + 1 THEN last ELSE f[n]]
           Step(n) == MACStep(f[n - 1], es[n])
           Next1(n) == MACStep(g[n - 1], es[n])
<1>1. f = [n \in 0 .. k |-> IF n = 0 THEN NoMAC ELSE Step(n)]
  BY DEF IsSeen
<1>2. \A n \in 0 .. k : f[n] = IF n = 0 THEN NoMAC ELSE Step(n)
  <2> HIDE DEF Step
  <2> QED  BY <1>1
<1>3. \A n \in 1 .. k + 1 : n - 1 \in 0 .. k /\ g[n - 1] = f[n - 1]
  <2> HIDE DEF last
  <2> QED  OBVIOUS
<1>4. \A n \in 1 .. k + 1 : Next1(n) = Step(n)
  <2> HIDE DEF g
  <2> QED  BY <1>3
<1>5. Step(k + 1) = last
  <2>1. (k + 1) - 1 = k
    OBVIOUS
  <2> HIDE DEF g
  <2> QED  BY <2>1
<1>6. \A n \in 0 .. k + 1 : g[n] = IF n = 0 THEN NoMAC ELSE Next1(n)
  <2> TAKE n \in 0 .. k + 1
  <2>1. CASE n = k + 1
    <3>1. g[n] = last
      <4> HIDE DEF last
      <4> QED  BY <2>1
    <3>2. Next1(n) = last /\ n # 0
      <4>1. n \in 1 .. k + 1
        BY <2>1
      <4> HIDE DEF g, last, Next1, Step
      <4> QED  BY <1>4, <1>5, <2>1, <4>1
    <3> HIDE DEF g, last, Next1
    <3> QED  BY <3>1, <3>2
  <2>2. CASE n # k + 1
    <3>1. n \in 0 .. k
      BY <2>2
    <3>2. g[n] = f[n]
      <4> HIDE DEF last
      <4> QED  BY <2>2
    <3>3. n # 0 => Next1(n) = Step(n)
      <4>1. n # 0 => n \in 1 .. k + 1
        BY <3>1
      <4> HIDE DEF g, Next1, Step
      <4> QED  BY <1>4, <4>1
    <3> HIDE DEF g, last, Next1, Step
    <3> QED  BY <1>2, <3>1, <3>2, <3>3
  <2> QED  BY <2>1, <2>2
<1>7. DOMAIN g = 0 .. k + 1 /\ g = [n \in 0 .. k + 1 |-> g[n]]
  <2> HIDE DEF last
  <2> QED  OBVIOUS
<1>8. g = [n \in 0 .. k + 1 |-> IF n = 0 THEN NoMAC ELSE Next1(n)]
  <2> HIDE DEF g, Next1
  <2> QED  BY <1>6, <1>7
<1>9. IsSeen(g, es, k + 1)
  <2> HIDE DEF g
  <2> QED  BY <1>8 DEF IsSeen
<1> QED  BY <1>9

LEMMA SeenExists ==
  ASSUME NEW es, NEW k \in Nat
  PROVE  \E f : IsSeen(f, es, k)
<1> DEFINE T == {n \in Nat : ~\E f : IsSeen(f, es, n)}
<1> SUFFICES ASSUME T # {} PROVE FALSE
  OBVIOUS
<1>1. PICK n \in T : \A m \in T : n <= m
  <2> HIDE DEF T
  <2>1. T \in SUBSET Nat
    BY DEF T
  <2> QED  BY <2>1, LeastNumber
<1>2. n # 0
  <2> DEFINE f == [m \in 0 .. 0 |-> NoMAC]
             Step(m) == MACStep(f[m - 1], es[m])
  <2>1. f = [m \in 0 .. 0 |-> IF m = 0 THEN NoMAC ELSE Step(m)]
    <3>1. \A m \in 0 .. 0 : m = 0
      OBVIOUS
    <3> HIDE DEF Step
    <3> QED  BY <3>1
  <2>2. IsSeen(f, es, 0)
    <3> HIDE DEF f
    <3> QED  BY <2>1 DEF IsSeen
  <2> HIDE DEF f
  <2> QED  BY <2>2
<1>3. n - 1 \in Nat /\ n - 1 \notin T
  BY <1>1, <1>2
<1>4. PICK f : IsSeen(f, es, n - 1)
  BY <1>3
<1>5. \E g : IsSeen(g, es, (n - 1) + 1)
  BY <1>3, <1>4, SeenStep
<1>6. (n - 1) + 1 = n
  OBVIOUS
<1> QED  BY <1>5, <1>6

LEMMA MACsSeenIs ==
  ASSUME NEW es, Len(es) \in Nat
  PROVE  \E f : MACsSeen(es) = f[Len(es)] /\ IsSeen(f, es, Len(es))
<1> DEFINE seen == CHOOSE f : f = [n \in 0 .. Len(es) |-> IF n = 0 THEN NoMAC ELSE MACStep(f[n - 1], es[n])]
<1>1. MACsSeen(es) = seen[Len(es)]
  BY DEF MACsSeen
<1>2. \E f : f = [n \in 0 .. Len(es) |-> IF n = 0 THEN NoMAC ELSE MACStep(f[n - 1], es[n])]
  BY SeenExists DEF IsSeen
<1>3. IsSeen(seen, es, Len(es))
  BY <1>2 DEF IsSeen
<1> QED  BY <1>1, <1>3

(* An interface that feeds the manager, one that is healthy, and the one   *)
(* that is both.                                                           *)
OnlyOne(es, w) ==
  /\ Len(es) \in Nat /\ w \in 1 .. Len(es) /\ Well(es[w])
  /\ \A k \in 1 .. Len(es) : Well(es[k]) => k = w
  /\ \A i, k \in 1 .. Len(es) : es[i].got = "ok" /\ es[k].got = "ok" =>
       es[i].mac # 0 /\ (es[i].mac = es[k].mac => i = k)

Known(es, w, k, acc) ==
  /\ acc.iface = 0 \/ \E j \in 1 .. k : Feeds(es[j]) /\ acc.iface = es[j].mac
  /\ acc.ok = 0 \/ \E j \in 1 .. k : Healthy(es[j]) /\ acc.ok = es[j].mac
  /\ k >= w => acc.iface # 0 /\ acc.main = es[w].mac

LEMMA WellIs ==
  ASSUME NEW e
  PROVE  /\ Well(e) <=> Feeds(e) /\ Healthy(e)
         /\ Feeds(e) \/ Healthy(e) => e.got = "ok"
BY Zenon DEF Well, Feeds, Healthy

LEMMA KnownStep ==
  ASSUME NEW es, NEW w, OnlyOne(es, w), NEW k \in Nat, k < Len(es), NEW acc, Known(es, w, k, acc)
  PROVE  Known(es, w, k + 1, MACStep(acc, es[k + 1]))
<1> DEFINE n == Len(es)
           e == es[k + 1]
           a == MACStep(acc, e)
           mac == es[w].mac
<1>1. /\ n \in Nat /\ w \in 1 .. n /\ Well(es[w]) /\ \A j \in 1 .. n : Well(es[j]) => j = w
      /\ \A i, j \in 1 .. n : es[i].got = "ok" /\ es[j].got = "ok" =>
           es[i].mac # 0 /\ (es[i].mac = es[j].mac => i = j)
  BY Zenon DEF OnlyOne
<1>2. /\ acc.iface = 0 \/ \E j \in 1 .. k : Feeds(es[j]) /\ acc.iface = es[j].mac
      /\ acc.ok = 0 \/ \E j \in 1 .. k : Healthy(es[j]) /\ acc.ok = es[j].mac
      /\ k >= w => acc.iface # 0 /\ acc.main = mac
  BY Zenon DEF Known
<1>3. /\ a.iface = IF Feeds(e) THEN e.mac ELSE acc.iface
      /\ a.ok = IF Healthy(e) THEN e.mac ELSE acc.ok
      /\ a.iface = a.ok => a.main = a.iface
      /\ a.iface # a.ok /\ acc.main # 0 => a.main = acc.main
  BY MACStepIs
<1>4. k + 1 \in 1 .. n /\ 1 .. k \subseteq 1 .. k + 1 /\ 1 .. k + 1 \subseteq 1 .. n /\ k + 1 \in 1 .. k + 1
  BY <1>1
<1>5. mac # 0
  BY <1>1, WellIs
<1> HIDE DEF a, n
<1>6. a.iface = 0 \/ \E j \in 1 .. k + 1 : Feeds(es[j]) /\ a.iface = es[j].mac
  <2>1. CASE Feeds(e)
    <3>1. a.iface = e.mac
      BY <1>3, <2>1
    <3> QED  BY <1>4, <2>1, <3>1
  <2>2. CASE ~Feeds(e)
    <3>1. a.iface = acc.iface
      BY <1>3, <2>2
    <3> HIDE DEF e
    <3> QED  BY <1>2, <1>4, <3>1
  <2> QED  BY <2>1, <2>2
<1>7. a.ok = 0 \/ \E j \in 1 .. k + 1 : Healthy(es[j]) /\ a.ok = es[j].mac
  <2>1. CASE Healthy(e)
    <3>1. a.ok = e.mac
      BY <1>3, <2>1
    <3> QED  BY <1>4, <2>1, <3>1
  <2>2. CASE ~Healthy(e)
    <3>1. a.ok = acc.ok
      BY <1>3, <2>2
    <3> HIDE DEF e
    <3> QED  BY <1>2, <1>4, <3>1
  <2> QED  BY <2>1, <2>2
<1>8. ASSUME k + 1 >= w PROVE a.iface # 0 /\ a.main = mac
  <2>1. CASE k + 1 = w
    <3>1. e = es[w] /\ Feeds(e) /\ Healthy(e)
      BY <1>1, <2>1, WellIs
    <3>2. a.iface = mac /\ a.ok = mac
      BY <1>3, <3>1
    <3> QED  BY <1>3, <1>5, <3>2
  <2>2. CASE k + 1 # w
    <3>1. k >= w
      BY <1>1, <1>8, <2>2
    <3>2. acc.iface # 0 /\ acc.main = mac
      BY <1>2, <3>1
    <3>3. Feeds(e) => e.mac # 0
      BY <1>1, <1>4, WellIs
    <3>4. a.iface # 0
      BY <1>3, <3>2, <3>3
    <3>5. ASSUME a.iface = a.ok PROVE a.iface = mac
      <4>1. PICK i \in 1 .. k + 1 : Feeds(es[i]) /\ a.iface = es[i].mac
        BY <1>6, <3>4
      <4>2. PICK j \in 1 .. k + 1 : Healthy(es[j]) /\ a.ok = es[j].mac
        BY <1>7, <3>4, <3>5
      <4>3. i \in 1 .. n /\ j \in 1 .. n /\ es[i].got = "ok" /\ es[j].got = "ok"
        BY <1>4, <4>1, <4>2, WellIs
      <4>4. i = j
        BY <1>1, <3>5, <4>1, <4>2, <4>3
      <4>5. Well(es[i])
        BY <4>1, <4>2, <4>4, WellIs
      <4>6. i = w
        BY <1>1, <4>3, <4>5
      <4> QED  BY <4>1, <4>6
    <3>6. CASE a.iface = a.ok
      BY <1>3, <3>4, <3>5, <3>6
    <3>7. CASE a.iface # a.ok
      BY <1>3, <1>5, <3>2, <3>4, <3>7
    <3> QED  BY <3>6, <3>7
  <2> QED  BY <2>1, <2>2
<1> HIDE DEF e, mac
<1>9. Known(es, w, k + 1, a)
  BY <1>6, <1>7, <1>8, Zenon DEF Known, mac
<1> QED  BY <1>9, Zenon DEF a, e

LEMMA KnownAtLast ==
  ASSUME NEW es, NEW w, OnlyOne(es, w), NEW f, IsSeen(f, es, Len(es))
  PROVE  \A k \in 0 .. Len(es) : Known(es, w, k, f[k])
<1> DEFINE n == Len(es)
           Step(k) == MACStep(f[k - 1], es[k])
           T == {k \in 0 .. n : ~Known(es, w, k, f[k])}
<1>0. n \in Nat /\ w \in 1 .. n
  BY Zenon DEF OnlyOne
<1>1. f = [k \in 0 .. n |-> IF k = 0 THEN NoMAC ELSE Step(k)]
  BY DEF IsSeen
<1>2. \A k \in 0 .. n : f[k] = IF k = 0 THEN NoMAC ELSE Step(k)
  <2> HIDE DEF Step, n
  <2> QED  BY <1>1
<1> SUFFICES ASSUME T # {} PROVE FALSE
  OBVIOUS
<1>3. PICK k \in T : \A m \in T : k <= m
  <2>1. T \in SUBSET Nat
    BY <1>0
  <2> HIDE DEF T
  <2> QED  BY <2>1, LeastNumber
<1>4. k \in 0 .. n /\ ~Known(es, w, k, f[k])
  OBVIOUS
<1>5. CASE k = 0
  <2>1. f[k] = NoMAC
    <3> HIDE DEF Step
    <3> QED  BY <1>2, <1>4, <1>5
  <2>2. NoMAC.iface = 0 /\ NoMAC.ok = 0
    BY Zenon DEF NoMAC
  <2>3. ~(k >= w)
    BY <1>0, <1>5
  <2>4. Known(es, w, k, NoMAC)
    BY <2>2, <2>3, Zenon DEF Known
  <2> QED  BY <1>4, <2>1, <2>4, Zenon
<1>6. CASE k # 0
  <2>1. k - 1 \in Nat /\ k - 1 \in 0 .. n /\ k - 1 < n /\ (k - 1) + 1 = k
    BY <1>0, <1>4, <1>6
  <2>2. k - 1 \notin T
    BY <1>3, <1>4, <2>1
  <2>3. Known(es, w, k - 1, f[k - 1])
    BY <2>1, <2>2, Zenon
  <2> DEFINE j == k - 1
             acc == f[k - 1]
  <2>4. Known(es, w, j + 1, MACStep(acc, es[j + 1]))
    <3>1. Known(es, w, j, acc) /\ j \in Nat /\ j < Len(es)
      BY <2>1, <2>3
    <3> HIDE DEF j, acc
    <3> QED  BY <3>1, KnownStep
  <2>5. Known(es, w, k, Step(k))
    BY <2>1, <2>4, Zenon
  <2>6. f[k] = Step(k)
    <3> HIDE DEF Step
    <3> QED  BY <1>2, <1>4, <1>6
  <2> QED  BY <1>4, <2>5, <2>6, Zenon
<1> QED  BY <1>5, <1>6

LEMMA MainIsOfTheWell ==
  ASSUME NEW es, NEW w, OnlyOne(es, w)
  PROVE  ManagerMAC(es) = es[w].mac
<1> DEFINE n == Len(es)
           seen == MACsSeen(es)
<1>1. n \in Nat /\ w \in 1 .. n /\ es[w].mac # 0
  BY WellIs DEF OnlyOne
<1>2. PICK f : seen = f[n] /\ IsSeen(f, es, n)
  BY <1>1, MACsSeenIs
<1>3. Known(es, w, n, f[n])
  BY <1>1, <1>2, KnownAtLast
<1>4. n >= w
  BY <1>1
<1>5. seen.main = es[w].mac
  BY <1>2, <1>3, <1>4, Zenon DEF Known
<1> HIDE DEF seen
<1>6. seen.main # 0
  BY <1>1, <1>5
<1> QED  BY <1>5, <1>6, Zenon DEF ManagerMAC, seen

(* The interfaces in another order. *)
Reorders(es, list, f) ==
  /\ f \in [1 .. Len(list) -> 1 .. Len(list)]
  /\ Len(es) = Len(list) /\ DOMAIN es = 1 .. Len(list)
  /\ \A i \in 1 .. Len(list) : es[i] = list[f[i]]
  /\ \A i, k \in 1 .. Len(list) : f[i] = f[k] => i = k
  /\ \A k \in 1 .. Len(list) : \E i \in 1 .. Len(list) : f[i] = k

LEMMA OrdersAre ==
  ASSUME NEW list, Len(list) \in Nat, DOMAIN list = 1 .. Len(list), NEW es \in Orders(list)
  PROVE  \E f : Reorders(es, list, f)
<1> DEFINE n == Len(list)
<1>1. PICK f \in Bijection(1 .. n, 1 .. n) : es = [i \in 1 .. n |-> list[f[i]]]
  BY DEF Orders
<1>2. /\ f \in [1 .. n -> 1 .. n]
      /\ \A i, k \in 1 .. n : f[i] = f[k] => i = k
      /\ \A k \in 1 .. n : \E i \in 1 .. n : f[i] = k
  BY DEF Bijection, Injection, Surjection, IsInjective
<1>3. DOMAIN es = 1 .. n /\ \A i \in 1 .. n : es[i] = list[f[i]]
  BY <1>1
<1>4. Len(es) = n
  <2> DEFINE S == {list[f[i]] : i \in 1 .. n}
  <2>1. es \in [1 .. n -> S]
    BY <1>1
  <2>2. es \in Seq(S)
    <3> HIDE DEF S
    <3> QED  BY <2>1
  <2>3. Len(es) \in Nat /\ DOMAIN es = 1 .. Len(es)
    <3> HIDE DEF S
    <3> QED  BY <2>2
  <2> HIDE DEF n
  <2>4. n \in Nat
    BY DEF n
  <2> QED  BY <1>3, <2>3, <2>4
<1> QED  BY <1>2, <1>3, <1>4, Zenon DEF Reorders

LEMMA OrdersAreFine ==
  ASSUME NEW list, Len(list) \in Nat, DOMAIN list = 1 .. Len(list), OneIsWell(list), NEW es \in Orders(list)
  PROVE  \E e \in Range(es) : Well(e) /\ ManagerMAC(es) = e.mac
<1>0. PICK f : Reorders(es, list, f)
  BY OrdersAre
<1>1. /\ f \in [1 .. Len(list) -> 1 .. Len(list)]
      /\ Len(es) = Len(list) /\ DOMAIN es = 1 .. Len(list)
      /\ \A i \in 1 .. Len(list) : es[i] = list[f[i]]
      /\ \A i, k \in 1 .. Len(list) : f[i] = f[k] => i = k
      /\ \A k \in 1 .. Len(list) : \E i \in 1 .. Len(list) : f[i] = k
  BY <1>0, Zenon DEF Reorders
<1> DEFINE n == Len(list)
<1>2. PICK v \in 1 .. n : Well(list[v]) /\ \A k \in 1 .. n : Well(list[k]) => k = v
  BY Zenon DEF OneIsWell
<1>3. \A i, k \in 1 .. n : list[i].got = "ok" /\ list[k].got = "ok" =>
        list[i].mac # 0 /\ (list[i].mac = list[k].mac => i = k)
  BY Zenon DEF OneIsWell
<1>4. PICK w \in 1 .. n : f[w] = v
  BY <1>1
<1>5. es[w] = list[v] /\ Well(es[w])
  BY <1>1, <1>2, <1>4
<1>6. \A k \in 1 .. n : f[k] \in 1 .. n
  BY <1>1
<1>7. \A k \in 1 .. n : Well(es[k]) => k = w
  BY <1>1, <1>2, <1>4, <1>6
<1>8. \A i, k \in 1 .. n : es[i].got = "ok" /\ es[k].got = "ok" =>
        es[i].mac # 0 /\ (es[i].mac = es[k].mac => i = k)
  <2> SUFFICES ASSUME NEW i \in 1 .. n, NEW k \in 1 .. n, es[i].got = "ok" /\ es[k].got = "ok"
               PROVE  es[i].mac # 0 /\ (es[i].mac = es[k].mac => i = k)
    OBVIOUS
  <2>1. es[i] = list[f[i]] /\ es[k] = list[f[k]] /\ f[i] \in 1 .. n /\ f[k] \in 1 .. n
    BY <1>1, <1>6
  <2>2. list[f[i]].mac # 0 /\ (list[f[i]].mac = list[f[k]].mac => f[i] = f[k])
    BY <1>3, <2>1
  <2> QED  BY <1>1, <2>1, <2>2
<1>9. OnlyOne(es, w)
  BY <1>1, <1>5, <1>7, <1>8 DEF OnlyOne
<1>10. es[w] \in Range(es)
  BY <1>1, Zenon DEF Range
<1> QED  BY <1>5, <1>9, <1>10, MainIsOfTheWell

LEMMA ThenFree == ASSUME DiscoveryInv PROVE OrderIsFree
<1> SUFFICES ASSUME stored.status = "DiscoverOK"
             PROVE  /\ PartsToldApart(RootInfo(report).found, stored.hwinv)
                    /\ \A m \in Range(Items(report.managers)) : OneIsWell(Items(m.nics)) =>
                         \A es \in Orders(Items(m.nics)) : \E e \in Range(es) : Well(e) /\ ManagerMAC(es) = e.mac
  BY Zenon DEF OrderIsFree
<1>1. GoodReport(report)
  BY InvIsGood
<1>2. PICK first \in FirstSeen(NodesOf(Found(report))) : stored = Stored(report, Found(report), first)
  BY InvIsGood
<1>3. PartsToldApart(RootInfo(report).found, stored.hwinv)
  <2>1. stored.hwinv = DiscoverHWInvByLocArray(Found(report), first)
    BY <1>2, StoredIs
  <2>2. PartsToldApart(Found(report), DiscoverHWInvByLocArray(Found(report), first))
    BY <1>1, <1>2, PartsAreToldApart
  <2> QED  BY <2>1, <2>2, Zenon DEF Found
<1>4. ASSUME NEW m \in Range(Items(report.managers)) PROVE IsList(m.nics)
  <2>1. PICK i \in DOMAIN Items(report.managers) : m = Items(report.managers)[i]
    BY Zenon DEF Range
  <2>2. IsReport(report)
    BY <1>1 DEF GoodReport
  <2>3. Items(report.managers) = report.managers.members
    BY <2>2, ItemsAre, ReportsAre
  <2> QED  BY <2>1, <2>2, <2>3, Zenon DEF IsReport, AreRead
<1>5. ASSUME NEW m \in Range(Items(report.managers)), OneIsWell(Items(m.nics)), NEW es \in Orders(Items(m.nics))
      PROVE  \E e \in Range(es) : Well(e) /\ ManagerMAC(es) = e.mac
  <2> DEFINE list == Items(m.nics)
  <2>1. Len(list) \in Nat /\ DOMAIN list = 1 .. Len(list)
    BY <1>4, ItemsAre
  <2>2. OneIsWell(list) /\ es \in Orders(list)
    BY <1>5
  <2> HIDE DEF list
  <2> QED  BY <2>1, <2>2, OrdersAreFine
<1> QED  BY <1>3, <1>5

(* Nodes with one part are told apart in the same way whichever of them    *)
(* Go visits first (DiscoverHWInvByLocArray), and the main address of a    *)
(* manager with one interface that is enabled and well is that one's in    *)
(* any order (EpManager.discoverComponentEPEthInterfaces).                 *)
THEOREM OrdersAreFree == ReportSpec => []OrderIsFree
<1>1. DiscoveryInv => OrderIsFree
  BY ThenFree
<1> QED  BY <1>1, DiscoveryInvHolds, PTL
===============================================================================
