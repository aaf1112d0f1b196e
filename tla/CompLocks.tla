------------------------------- MODULE CompLocks -------------------------------
(***************************************************************************)
(* The component lock service of the Hardware State Manager: locks and     *)
(* reservations (hsm/v2/locks).  Every request is one database transaction *)
(* run by a handler goroutine of one of the HSM instances; the steps of a  *)
(* transaction are its SQL statements, and transactions interleave between *)
(* statements as they do at PostgreSQL's default isolation level, READ     *)
(* COMMITTED: a statement sees what was committed when it began, an        *)
(* UPDATE, DELETE or SELECT ... FOR UPDATE waits for the rows another      *)
(* transaction has changed or locked.                                      *)
(*                                                                         *)
(* A request that is refused before it has changed anything leaves every   *)
(* variable as it was, so it is a stuttering step and has no action here.  *)
(***************************************************************************)
EXTENDS ReservationTable

CONSTANTS
  Handler,     \* transactions that may be open at the same time
  Free,        \* no transaction holds the row lock
  Requested,   \* bound for model checking: the operations that are requested
  MaxTerm,     \* longest ReservationDuration accepted (15 minutes)
  MaxTime      \* bound on the clock, for model checking

ASSUME FreeAssumption == Free \notin Handler
ASSUME MaxTermAssumption == MaxTerm \in Nat /\ MaxTime \in Nat
ASSUME KeyAssumption == IsFiniteSet(Key)

VARIABLES
  present,     \* components that have a row in the components table
  locked,      \* components.locked
  disabled,    \* components.reservation_disabled
  table,       \* the committed rows of the reservations table
  issued,      \* keys that have been generated
  now,         \* time.Now() and the database's NOW(), in minutes
  pc,          \* the next statement of each transaction
  req,         \* the request a transaction serves
  target,      \* the components its next statement is about
  seen,        \* Disable, Repair: components read with the flag already set so
  newRows,     \* rows it has inserted and not committed
  delRows,     \* rows it has deleted and not committed
  rowLock      \* the transaction that holds the lock of a components row

compVars == <<present, locked, disabled>>
txVars == <<pc, req, target, seen, newRows, delRows>>
vars == <<compVars, table, issued, now, txVars, rowLock>>

Op == {"create", "remove", "lock", "unlock", "disable", "repair"}

(* What VerifyNormalize lets through: dur = 0 is an administrator's      *)
(* reservation, any other a service reservation of 1 to MaxTerm minutes. *)
Request ==
  {r \in [op : Op, ids : SUBSET Component, rigid : BOOLEAN, dur : 0 .. MaxTerm] :
     r.op # "create" => r.dur = 0}

NoRequest == [op |-> "create", ids |-> {}, rigid |-> FALSE, dur |-> 0]

Statement == {"idle", "insert", "commit", "remove", "check", "lock", "delete", "flag"}

TypeOK ==
  /\ present \subseteq Component
  /\ locked \in [Component -> BOOLEAN]
  /\ disabled \in [Component -> BOOLEAN]
  /\ table \in Table
  /\ issued \subseteq Key
  /\ now \in Nat
  /\ pc \in [Handler -> Statement]
  /\ req \in [Handler -> Request]
  /\ target \in [Handler -> SUBSET Component]
  /\ seen \in [Handler -> SUBSET Component]
  /\ newRows \in [Handler -> Table]
  /\ delRows \in [Handler -> SUBSET Component]
  /\ rowLock \in [Component -> Handler \cup {Free}]

Init ==
  /\ present = Component
  /\ locked = [c \in Component |-> FALSE]
  /\ disabled = [c \in Component |-> FALSE]
  /\ table = EmptyTable
  /\ issued = {}
  /\ now = 0
  /\ pc = [h \in Handler |-> "idle"]
  /\ req = [h \in Handler |-> NoRequest]
  /\ target = [h \in Handler |-> {}]
  /\ seen = [h \in Handler |-> {}]
  /\ newRows = [h \in Handler |-> EmptyTable]
  /\ delRows = [h \in Handler |-> {}]
  /\ rowLock = [c \in Component |-> Free]

-------------------------------------------------------------------------------
(* Transactions *)

(* Rows deleted by a transaction that is still open: whoever else wants to *)
(* change them waits for it.                                               *)
DeletedByOthers(h) == UNION {delRows[g] : g \in Handler \ {h}}
DeletedByAny == UNION {delRows[g] : g \in Handler}

RowsFree(h, C) == \A c \in C : rowLock[c] \in {Free, h}

(* The transaction's first statement has run: S is what comes next. *)
Open(h, r, S, C) ==
  /\ pc' = [pc EXCEPT ![h] = S]
  /\ req' = [req EXCEPT ![h] = r]
  /\ target' = [target EXCEPT ![h] = C]

(* Commit or Rollback: nothing of the transaction is left behind. *)
Close(h) ==
  /\ pc' = [pc EXCEPT ![h] = "idle"]
  /\ req' = [req EXCEPT ![h] = NoRequest]
  /\ target' = [target EXCEPT ![h] = {}]
  /\ seen' = [seen EXCEPT ![h] = {}]
  /\ newRows' = [newRows EXCEPT ![h] = EmptyTable]
  /\ delRows' = [delRows EXCEPT ![h] = {}]
  /\ rowLock' = [c \in Component |-> IF rowLock[c] = h THEN Free ELSE rowLock[c]]

Rollback(h) == Close(h) /\ UNCHANGED <<compVars, table, issued, now>>

-------------------------------------------------------------------------------
(* Create reservations: InsertCompReservations *)

(* Mutant of MayReserve: a locked component takes reservations that expire. *)
MayReserveLocked(r, c) == ~disabled[c] /\ (r.dur = 0 => locked[c])

(* A component may be reserved when reservations are enabled for it and    *)
(* its lock agrees with the kind of the reservation.                       *)
MayReserve(r, c) == ~disabled[c] /\ (locked[c] <=> r.dur = 0)

(* Bound on the model: enough keys are left for the reservations the open  *)
(* transactions are about to make and for those of C.                      *)
KeysLeftFor(C) ==
  Cardinality(C \cup UNION {target[h] : h \in {g \in Handler : pc[g] = "insert"}})
    <= Cardinality(Key \ issued)

(* Mutant of CreateSelect: a SELECT that locks no row. *)
CreateSelectUnlocked(h, r) ==
  LET matching == r.ids \cap present
      insertComps == {c \in matching : MayReserve(r, c)}
  IN  /\ pc[h] = "idle" /\ r.op = "create"
      /\ RowsFree(h, matching)
      /\ insertComps # {}
      /\ r.rigid => insertComps = matching
      /\ KeysLeftFor(insertComps)
      /\ Open(h, r, "insert", insertComps)
      /\ UNCHANGED <<compVars, table, issued, now, seen, newRows, delRows, rowLock>>

(* SELECT ... FOR UPDATE of the matching components (writeLock), then the  *)
(* checks.  Rigid requests stop at the first component that fails them.    *)
CreateSelect(h, r) ==
  LET matching == r.ids \cap present
      insertComps == {c \in matching : MayReserve(r, c)}
  IN  /\ pc[h] = "idle" /\ r.op = "create"
      /\ RowsFree(h, matching)
      /\ insertComps # {}
      /\ r.rigid => insertComps = matching
      /\ KeysLeftFor(insertComps)
      /\ rowLock' = [c \in Component |-> IF c \in matching THEN h ELSE rowLock[c]]
      /\ Open(h, r, "insert", insertComps)
      /\ UNCHANGED <<compVars, table, issued, now, seen, newRows, delRows>>

(* The rows of the insert, with keys from a given set. *)
InsertRows(h, keys) ==
  LET free == {c \in target[h] : table[c] = NoRes}
  IN  \E keyOf \in [free -> keys] :
        /\ \A c, d \in free : c # d => keyOf[c] # keyOf[d]
        /\ newRows' = [newRows EXCEPT ![h] =
             FreshRows(table, target[h], keyOf, ExpiryOf(req[h].dur, now))]
        /\ issued' = issued \cup {keyOf[c] : c \in free}
        /\ pc' = [pc EXCEPT ![h] = "commit"]
        /\ UNCHANGED <<compVars, table, now, req, target, seen, delRows, rowLock>>

(* Some of the components are reserved already. *)
Conflict(h) == target[h] \cap Reserved(table) # {}

(* Mutant of CreateInsert: rigid requests commit what they could insert. *)
CreateInsertPartial(h) ==
  /\ pc[h] = "insert"
  /\ target[h] \cap DeletedByOthers(h) = {}
  /\ InsertRows(h, Key \ issued)

(* Mutant of CreateInsert: the error return forgets the rollback. *)
CreateInsertLeak(h) ==
  /\ pc[h] = "insert"
  /\ target[h] \cap DeletedByOthers(h) = {}
  /\ IF req[h].rigid /\ Conflict(h)
     THEN /\ pc' = [pc EXCEPT ![h] = "idle"]
          /\ UNCHANGED <<compVars, table, issued, now, req, target, seen,
                         newRows, delRows, rowLock>>
     ELSE InsertRows(h, Key \ issued)

(* INSERT ... ON CONFLICT DO NOTHING.  It waits for a transaction that has *)
(* deleted one of the rows and not committed.  A rigid request that could  *)
(* not insert all of its rows is rolled back.                              *)
CreateInsert(h) ==
  /\ pc[h] = "insert"
  /\ target[h] \cap DeletedByOthers(h) = {}
  /\ IF req[h].rigid /\ Conflict(h) THEN Rollback(h)
     ELSE InsertRows(h, Key \ issued)

CreateCommit(h) ==
  /\ pc[h] = "commit"
  /\ table' = WithRows(table, newRows[h])
  /\ Close(h)
  /\ UNCHANGED <<compVars, issued, now>>

-------------------------------------------------------------------------------
(* Remove reservations by force: DeleteCompReservationsForce *)

RemoveSelect(h, r) ==
  /\ pc[h] = "idle" /\ r.op = "remove"
  /\ r.ids \cap present # {}
  /\ Open(h, r, "remove", r.ids \cap present)
  /\ UNCHANGED <<compVars, table, issued, now, seen, newRows, delRows, rowLock>>

(* DELETE by component, then COMMIT.  A rigid request needs a row for every *)
(* component and is rolled back without one.                                *)
RemoveDelete(h) ==
  LET rows == target[h] \cap Reserved(table)
  IN  /\ pc[h] = "remove"
      /\ rows \cap DeletedByOthers(h) = {}
      /\ IF req[h].rigid /\ rows # target[h]
         THEN Rollback(h)
         ELSE /\ table' = WithoutRows(table, rows)
              /\ Close(h)
              /\ UNCHANGED <<compVars, issued, now>>

-------------------------------------------------------------------------------
(* Lock and unlock components: UpdateCompLocksV2 *)

(* SELECT without FOR UPDATE, then the checks on what it returned.  (When  *)
(* no component passes, the request ends without a change.)                *)
LockSelect(h, r) ==
  LET matching == r.ids \cap present
      newVal == (r.op = "lock")
      affected == {c \in matching : ~disabled[c] /\ locked[c] # newVal}
  IN  /\ pc[h] = "idle" /\ r.op \in {"lock", "unlock"}
      /\ affected # {}
      /\ r.rigid => affected = matching
      /\ Open(h, r, "check", affected)
      /\ UNCHANGED <<compVars, table, issued, now, seen, newRows, delRows, rowLock>>

(* SELECT of the reservations of the affected components. *)
LockCheck(h) ==
  LET unreserved == target[h] \ Reserved(table)
  IN  /\ pc[h] = "check"
      /\ IF unreserved = {} \/ (req[h].rigid /\ unreserved # target[h])
         THEN Rollback(h)
         ELSE /\ pc' = [pc EXCEPT ![h] = "lock"]
              /\ target' = [target EXCEPT ![h] = unreserved]
              /\ UNCHANGED <<compVars, table, issued, now, req, seen, newRows,
                             delRows, rowLock>>

(* UPDATE components SET locked, then COMMIT. *)
LockUpdate(h) ==
  LET updated == target[h] \cap present
  IN  /\ pc[h] = "lock"
      /\ RowsFree(h, target[h])
      /\ IF req[h].rigid /\ updated # target[h]
         THEN Rollback(h)
         ELSE /\ locked' = [c \in Component |-> IF c \in updated
                                                THEN req[h].op = "lock"
                                                ELSE locked[c]]
              /\ Close(h)
              /\ UNCHANGED <<present, disabled, table, issued, now>>

-------------------------------------------------------------------------------
(* Disable and repair reservations: UpdateCompLocksV2 *)

DisableSelect(h, r) ==
  LET matching == r.ids \cap present
  IN  /\ pc[h] = "idle" /\ r.op \in {"disable", "repair"}
      /\ matching # {}
      /\ Open(h, r, IF r.op = "disable" THEN "delete" ELSE "flag", matching)
      /\ seen' = [seen EXCEPT ![h] =
           {c \in matching : disabled[c] = (r.op = "disable")}]
      /\ UNCHANGED <<compVars, table, issued, now, newRows, delRows, rowLock>>

(* DELETE of the reservations of the components, by force; that some have  *)
(* none (NotFound) does not matter.                                        *)
DisableDelete(h) ==
  LET rows == target[h] \cap Reserved(table)
  IN  /\ pc[h] = "delete"
      /\ rows \cap DeletedByOthers(h) = {}
      /\ delRows' = [delRows EXCEPT ![h] = rows]
      /\ pc' = [pc EXCEPT ![h] = "flag"]
      /\ UNCHANGED <<compVars, table, issued, now, req, target, seen, newRows, rowLock>>

(* UPDATE components SET reservation_disabled, then COMMIT.  A rigid       *)
(* request is rolled back if a component it had to change is gone.         *)
DisableUpdate(h) ==
  LET updated == target[h] \cap present
  IN  /\ pc[h] = "flag"
      /\ RowsFree(h, target[h])
      /\ IF req[h].rigid /\ ~((target[h] \ updated) \subseteq seen[h])
         THEN Rollback(h)
         ELSE /\ disabled' = [c \in Component |-> IF c \in updated
                                                  THEN req[h].op = "disable"
                                                  ELSE disabled[c]]
              /\ table' = WithoutRows(table, delRows[h])
              /\ Close(h)
              /\ UNCHANGED <<present, locked, issued, now>>

-------------------------------------------------------------------------------
(* Transactions of a single statement *)

(* Release with reservation keys: DeleteCompReservations. *)
Release(keys, rigid) ==
  LET rows == RowsByKey(table, keys)
  IN  /\ rows \cap DeletedByAny = {}
      /\ rows # {}
      /\ rigid => keys \subseteq KeysIn(table)
      /\ table' = WithoutRows(table, rows)
      /\ UNCHANGED <<compVars, issued, now, txVars, rowLock>>

(* Mutant of Renew: a reservation that the cleanup has deleted meanwhile   *)
(* is written again.                                                       *)
RenewRevives(keys, rigid, dur) ==
  \E k \in keys, c \in present \ Reserved(table) :
    /\ rigid => keys = {k}
    /\ table' = [table EXCEPT ![c] = [key |-> k, expires |-> now + dur]]
    /\ UNCHANGED <<compVars, issued, now, txVars, rowLock>>

(* Renew with reservation keys: UpdateCompReservations. *)
Renew(keys, rigid, dur) ==
  LET rows == RenewableRows(table, keys)
  IN  /\ rows \cap DeletedByAny = {}
      /\ rows # {}
      /\ rigid => keys = {table[c].key : c \in rows}
      /\ table' = WithExpiry(table, rows, now + dur)
      /\ UNCHANGED <<compVars, issued, now, txVars, rowLock>>

(* Mutant of CompReservationCleanup: it passes over locked components. *)
CleanupUnlocked ==
  LET rows == {c \in ExpiredRows(table, now) : ~locked[c]}
  IN  /\ rows # {}
      /\ rows \cap DeletedByAny = {}
      /\ table' = WithoutRows(table, rows)
      /\ UNCHANGED <<compVars, issued, now, txVars, rowLock>>

(* One round of the cleanup thread: DeleteCompReservationsExpired. *)
CompReservationCleanup ==
  /\ ExpiredRows(table, now) # {}
  /\ ExpiredRows(table, now) \cap DeletedByAny = {}
  /\ table' = WithoutRows(table, ExpiredRows(table, now))
  /\ UNCHANGED <<compVars, issued, now, txVars, rowLock>>

(* Mutant of DeleteComponent: the foreign key does not cascade. *)
DeleteComponentOnly(c) ==
  /\ c \in present
  /\ rowLock[c] = Free /\ c \notin DeletedByAny
  /\ present' = present \ {c}
  /\ locked' = [locked EXCEPT ![c] = FALSE]
  /\ disabled' = [disabled EXCEPT ![c] = FALSE]
  /\ UNCHANGED <<table, issued, now, txVars, rowLock>>

(* The reservation of a deleted component goes with it (ON DELETE CASCADE). *)
DeleteComponent(c) ==
  /\ c \in present
  /\ rowLock[c] = Free /\ c \notin DeletedByAny
  /\ present' = present \ {c}
  /\ locked' = [locked EXCEPT ![c] = FALSE]
  /\ disabled' = [disabled EXCEPT ![c] = FALSE]
  /\ table' = WithoutRows(table, {c})
  /\ UNCHANGED <<issued, now, txVars, rowLock>>

(* A new components row has the lock and the disabled flag of the request  *)
(* that creates it; a row that exists keeps its own (ON CONFLICT).         *)
InsertComponent(c, lock, disable) ==
  /\ c \notin present
  /\ present' = present \cup {c}
  /\ locked' = [locked EXCEPT ![c] = lock]
  /\ disabled' = [disabled EXCEPT ![c] = disable]
  /\ UNCHANGED <<table, issued, now, txVars, rowLock>>

-------------------------------------------------------------------------------
(* The environment *)

(* The transactions h is waiting for. *)
WaitsFor(h) ==
  CASE pc[h] = "insert" ->
         {g \in Handler \ {h} : delRows[g] \cap target[h] # {}}
    [] pc[h] \in {"lock", "flag"} ->
         {g \in Handler \ {h} : \E c \in target[h] : rowLock[c] = g}
    [] pc[h] \in {"remove", "delete"} ->
         {g \in Handler \ {h} : delRows[g] \cap target[h] \cap Reserved(table) # {}}
    [] OTHER -> {}

(* PostgreSQL finds a cycle of waiting transactions and makes one of them  *)
(* fail; its handler rolls back.                                           *)
DeadlockAbort(h) ==
  /\ \E S \in SUBSET Handler :
       /\ h \in S
       /\ \A g \in S : WaitsFor(g) \cap S # {}
  /\ Rollback(h)

(* An HSM instance dies: PostgreSQL rolls back what it had open. *)
Crash(h) == pc[h] # "idle" /\ Rollback(h)

(* Bound on the model: MaxTime. *)
Tick ==
  /\ now < MaxTime
  /\ now' = now + 1
  /\ UNCHANGED <<compVars, table, issued, txVars, rowLock>>

-------------------------------------------------------------------------------
Arrive(h) ==
  \E r \in Request :
    /\ r.op \in Requested
    /\ \/ CreateSelect(h, r)
       \/ RemoveSelect(h, r)
       \/ LockSelect(h, r)
       \/ DisableSelect(h, r)

Proceed(h) ==
  \/ CreateInsert(h)
  \/ CreateCommit(h)
  \/ RemoveDelete(h)
  \/ LockCheck(h)
  \/ LockUpdate(h)
  \/ DisableDelete(h)
  \/ DisableUpdate(h)
  \/ DeadlockAbort(h)

KeyedRequest ==
  \E keys \in SUBSET issued, rigid \in BOOLEAN :
    \/ Release(keys, rigid)
    \/ \E dur \in 1 .. MaxTerm : Renew(keys, rigid, dur)

Next ==
  \/ \E h \in Handler : Arrive(h) \/ Proceed(h) \/ Crash(h)
  \/ KeyedRequest
  \/ CompReservationCleanup
  \/ \E c \in Component :
       \/ DeleteComponent(c)
       \/ \E lock, disable \in BOOLEAN : InsertComponent(c, lock, disable)
  \/ Tick

Spec == Init /\ [][Next]_vars

(* An open transaction is driven by its own goroutine and PostgreSQL       *)
(* queues those that wait for a row, so neither a step of a transaction    *)
(* nor the cleanup thread's DELETE is passed over for ever.  Nobody is     *)
(* obliged to send a request.                                              *)
Fairness ==
  /\ \A h \in Handler : SF_vars(Proceed(h))
  /\ SF_vars(CompReservationCleanup)

FairSpec == Spec /\ Fairness
-------------------------------------------------------------------------------
(* Properties *)

InsertOpen(h) == pc[h] \in {"insert", "commit"}

(* The FOR UPDATE of GetComponentsFilterTx (writeLock) makes the checks of *)
(* insertCompReservationsHelper last until the commit: whatever the other  *)
(* transactions did in between, the components a transaction is reserving  *)
(* still exist, still have reservations enabled, and their lock still      *)
(* agrees with the kind of reservation asked for.                          *)
ChecksHoldUntilCommit ==
  \A h \in Handler : InsertOpen(h) =>
    \A c \in target[h] :
      /\ rowLock[c] = h
      /\ c \in present
      /\ MayReserve(req[h], c)

(* InsertCompReservations: a reservation appears only for a component that *)
(* exists and is not disabled; without expiry when the component is locked *)
(* and with one when it is not, at the very moment it becomes visible.     *)
GrantMatchesLock ==
  [][\A c \in Component : table[c] = NoRes /\ table'[c] # NoRes =>
       /\ c \in present
       /\ ~disabled[c]
       /\ locked[c] <=> table'[c].expires = Never]_vars

(* ON DELETE CASCADE and the row locks together: no reservation outlives   *)
(* its component, and none is committed for one that has just been deleted.*)
ReservedExist == Reserved(table) \subseteq present

(* A reservation never reaches further than one full term beyond the       *)
(* present, however often UpdateCompReservations extends it.               *)
TermBounded ==
  \A c \in Reserved(table) :
    table[c].expires # Never => table[c].expires <= now + MaxTerm

(* A rigid request of InsertCompReservations is about to commit a          *)
(* reservation for each of the components it matched: none of them can     *)
(* have been reserved, or deleted, behind its back.                        *)
RigidCoversExisting ==
  \A h \in Handler : pc[h] = "commit" /\ req[h].rigid =>
    /\ Reserved(newRows[h]) = target[h]
    /\ target[h] \subseteq present \ Reserved(table)

(* What the reservation calls promise together (ReservationLease): one     *)
(* holder per component, and a key that has lost it never regains it.  A   *)
(* key is used once it is committed or rolled back.                        *)
PendingKeys == UNION {KeysIn(newRows[h]) : h \in Handler}

Lease == INSTANCE ReservationLease WITH
  holder <- [c \in Component |-> IF table[c] = NoRes THEN NoRes ELSE table[c].key],
  used <- issued \ PendingKeys

RefinesLease == Lease!Spec

(* Every transaction ends: none waits for ever for a row lock that its     *)
(* owner has left behind, and a cycle of waiting transactions is broken.   *)
TxFinishes == \A h \in Handler : pc[h] # "idle" ~> pc[h] = "idle"

(* CompReservationCleanup: a reservation that has expired goes away (or is *)
(* renewed), whatever has become of the component's lock in the meantime.  *)
ExpiredIsReaped ==
  \A c \in Component, k \in Key :
    (c \in ExpiredRows(table, now) /\ table[c].key = k)
      ~> ~(c \in ExpiredRows(table, now) /\ table[c].key = k)

(* UpdateCompLocksV2: "Components can't be (un)locked if there are any     *)
(* reservations", so a reserved component stays locked exactly when its    *)
(* reservation has no expiry, as it was when the reservation was made.     *)
LockKindMatches ==
  \A c \in Reserved(table) : locked[c] <=> table[c].expires = Never

(* Disabling a component's reservations removes the one it has and keeps   *)
(* new ones out until it is repaired.                                      *)
NoReservationWhileDisabled == \A c \in Reserved(table) : ~disabled[c]

(* A rigid request reserves every component it names, or none of them.     *)
RigidAllOrNothing ==
  \A h \in Handler : pc[h] = "commit" /\ req[h].rigid =>
    Reserved(newRows[h]) = req[h].ids
===============================================================================
