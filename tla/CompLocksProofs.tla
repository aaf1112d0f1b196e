---------------------------- MODULE CompLocksProofs ----------------------------
(***************************************************************************)
(* Proofs about CompLocks, for any set of components, keys and concurrent  *)
(* transactions and any longest term.                                      *)
(***************************************************************************)
EXTENDS CompLocks, TLAPS

-------------------------------------------------------------------------------
(* The table operators keep tables tables *)

LEMMA EmptyTableType == EmptyTable \in Table
  BY DEF EmptyTable, Table

LEMMA WithRowsType ==
  ASSUME NEW t \in Table, NEW u \in Table
  PROVE  WithRows(t, u) \in Table
  BY DEF WithRows, Table

LEMMA WithoutRowsType ==
  ASSUME NEW t \in Table, NEW C
  PROVE  WithoutRows(t, C) \in Table
  BY DEF WithoutRows, Table

LEMMA WithExpiryType ==
  ASSUME NEW t \in Table, NEW C \in SUBSET Reserved(t), NEW e \in Nat
  PROVE  WithExpiry(t, C, e) \in Table
  <1>1. \A c \in C : c \in Component /\ t[c] \in Reservation
    BY DEF Table, Reserved
  <1>2. \A c \in C : [t[c] EXCEPT !.expires = e] \in Reservation
    BY <1>1 DEF Reservation
  <1> QED  BY <1>1, <1>2 DEF WithExpiry, Table

LEMMA FreshRowsType ==
  ASSUME NEW t \in Table, NEW C \in SUBSET Component, NEW K \in SUBSET Key,
         NEW keyOf \in [{c \in C : t[c] = NoRes} -> K], NEW e \in Nat \cup {Never}
  PROVE  FreshRows(t, C, keyOf, e) \in Table
  <1>1. \A c \in C : t[c] = NoRes => [key |-> keyOf[c], expires |-> e] \in Reservation
    BY DEF Reservation
  <1> QED  BY <1>1 DEF FreshRows, Table

LEMMA ExpiryOfType ==
  ASSUME NEW d \in Nat, NEW n \in Nat
  PROVE  ExpiryOf(d, n) \in Nat \cup {Never}
  BY DEF ExpiryOf

LEMMA RequestFields ==
  ASSUME NEW r \in Request
  PROVE  /\ r.op \in Op
         /\ r.ids \in SUBSET Component
         /\ r.rigid \in BOOLEAN
         /\ r.dur \in 0 .. MaxTerm /\ r.dur \in Nat
  BY MaxTermAssumption DEF Request

-------------------------------------------------------------------------------
(* Type correctness *)

(* Close and Open keep the types of the transactions' variables. *)
TxTypeOK ==
  /\ pc \in [Handler -> Statement]
  /\ req \in [Handler -> Request]
  /\ target \in [Handler -> SUBSET Component]
  /\ seen \in [Handler -> SUBSET Component]
  /\ newRows \in [Handler -> Table]
  /\ delRows \in [Handler -> SUBSET Component]
  /\ rowLock \in [Component -> Handler \cup {Free}]

LEMMA CloseType ==
  ASSUME TxTypeOK, NEW h \in Handler, Close(h)
  PROVE  TxTypeOK'
  <1>1. NoRequest \in Request
    BY MaxTermAssumption DEF NoRequest, Request, Op
  <1>2. newRows' \in [Handler -> Table]
    BY EmptyTableType DEF TxTypeOK, Close
  <1>3. req' \in [Handler -> Request]
    BY <1>1 DEF TxTypeOK, Close
  <1> QED  BY <1>2, <1>3 DEF TxTypeOK, Close, Statement

LEMMA RollbackType ==
  ASSUME TypeOK, NEW h \in Handler, Rollback(h)
  PROVE  TypeOK'
  <1>1. TxTypeOK'
    BY CloseType DEF TypeOK, TxTypeOK, Rollback
  <1> QED  BY <1>1 DEF TypeOK, TxTypeOK, Rollback, compVars

LEMMA InsertRowsType ==
  ASSUME TypeOK, NEW h \in Handler, NEW K \in SUBSET Key, InsertRows(h, K)
  PROVE  TypeOK'
  <1> DEFINE free == {c \in target[h] : table[c] = NoRes}
  <1>1. PICK keyOf \in [free -> K] :
          /\ newRows' = [newRows EXCEPT ![h] =
               FreshRows(table, target[h], keyOf, ExpiryOf(req[h].dur, now))]
          /\ issued' = issued \cup {keyOf[c] : c \in free}
    BY DEF InsertRows
  <1>2. req[h].dur \in Nat /\ target[h] \in SUBSET Component
    BY RequestFields DEF TypeOK
  <1>3. ExpiryOf(req[h].dur, now) \in Nat \cup {Never}
    BY <1>2, ExpiryOfType DEF TypeOK
  <1>4. FreshRows(table, target[h], keyOf, ExpiryOf(req[h].dur, now)) \in Table
    BY <1>2, <1>3, FreshRowsType DEF TypeOK
  <1>5. newRows' \in [Handler -> Table]
    BY <1>1, <1>4 DEF TypeOK
  <1>6. issued' \subseteq Key
    BY <1>1 DEF TypeOK
  <1> QED  BY <1>5, <1>6 DEF TypeOK, InsertRows, compVars, Statement

(* Every variable keeps its type. *)
THEOREM TypeStep == TypeOK /\ [Next]_vars => TypeOK'
  <1> SUFFICES ASSUME TypeOK, [Next]_vars PROVE TypeOK'
    OBVIOUS
  <1>0. TxTypeOK
    BY DEF TypeOK, TxTypeOK
  <1>1. ASSUME NEW h \in Handler, NEW r \in Request, CreateSelect(h, r)
        PROVE  TypeOK'
    BY <1>1, RequestFields DEF CreateSelect, Open, TypeOK, compVars, Statement
  <1>2. ASSUME NEW h \in Handler, NEW r \in Request, RemoveSelect(h, r)
        PROVE  TypeOK'
    BY <1>2, RequestFields DEF RemoveSelect, Open, TypeOK, compVars, Statement
  <1>3. ASSUME NEW h \in Handler, NEW r \in Request, LockSelect(h, r)
        PROVE  TypeOK'
    BY <1>3, RequestFields DEF LockSelect, Open, TypeOK, compVars, Statement
  <1>4. ASSUME NEW h \in Handler, NEW r \in Request, DisableSelect(h, r)
        PROVE  TypeOK'
    BY <1>4, RequestFields DEF DisableSelect, Open, TypeOK, compVars, Statement
  <1>5. ASSUME NEW h \in Handler, CreateInsert(h) PROVE TypeOK'
    BY <1>5, RollbackType, InsertRowsType DEF CreateInsert
  <1>6. ASSUME NEW h \in Handler, CreateCommit(h) PROVE TypeOK'
    <2>1. TxTypeOK'
      BY <1>0, <1>6, CloseType DEF CreateCommit
    <2>2. table' \in Table
      BY <1>6, WithRowsType DEF CreateCommit, TypeOK
    <2> QED  BY <1>6, <2>1, <2>2 DEF CreateCommit, TypeOK, TxTypeOK, compVars
  <1>7. ASSUME NEW h \in Handler, RemoveDelete(h) PROVE TypeOK'
    <2>1. CASE Rollback(h)
      BY <2>1, RollbackType
    <2>2. CASE ~Rollback(h)
      <3>1. TxTypeOK'
        BY <1>0, <1>7, <2>2, CloseType DEF RemoveDelete
      <3>2. table' \in Table
        BY <1>7, <2>2, WithoutRowsType DEF RemoveDelete, TypeOK
      <3> QED  BY <1>7, <2>2, <3>1, <3>2 DEF RemoveDelete, TypeOK, TxTypeOK, compVars
    <2> QED  BY <2>1, <2>2
  <1>8. ASSUME NEW h \in Handler, LockCheck(h) PROVE TypeOK'
    <2>1. CASE Rollback(h)
      BY <2>1, RollbackType
    <2>2. CASE ~Rollback(h)
      BY <1>8, <2>2 DEF LockCheck, TypeOK, compVars, Statement
    <2> QED  BY <2>1, <2>2
  <1>9. ASSUME NEW h \in Handler, LockUpdate(h) PROVE TypeOK'
    <2>1. CASE Rollback(h)
      BY <2>1, RollbackType
    <2>2. CASE ~Rollback(h)
      <3>1. TxTypeOK'
        BY <1>0, <1>9, <2>2, CloseType DEF LockUpdate
      <3>2. locked' \in [Component -> BOOLEAN]
        BY <1>9, <2>2 DEF LockUpdate, TypeOK
      <3> QED  BY <1>9, <2>2, <3>1, <3>2 DEF LockUpdate, TypeOK, TxTypeOK
    <2> QED  BY <2>1, <2>2
  <1>10. ASSUME NEW h \in Handler, DisableDelete(h) PROVE TypeOK'
    BY <1>10 DEF DisableDelete, TypeOK, compVars, Statement
  <1>11. ASSUME NEW h \in Handler, DisableUpdate(h) PROVE TypeOK'
    <2>1. CASE Rollback(h)
      BY <2>1, RollbackType
    <2>2. CASE ~Rollback(h)
      <3>1. TxTypeOK'
        BY <1>0, <1>11, <2>2, CloseType DEF DisableUpdate
      <3>2. disabled' \in [Component -> BOOLEAN]
        BY <1>11, <2>2 DEF DisableUpdate, TypeOK
      <3>3. table' \in Table
        BY <1>11, <2>2, WithoutRowsType DEF DisableUpdate, TypeOK
      <3> QED  BY <1>11, <2>2, <3>1, <3>2, <3>3 DEF DisableUpdate, TypeOK, TxTypeOK
    <2> QED  BY <2>1, <2>2
  <1>12. ASSUME NEW h \in Handler, DeadlockAbort(h) \/ Crash(h) PROVE TypeOK'
    BY <1>12, RollbackType DEF DeadlockAbort, Crash
  <1>13. CASE KeyedRequest
    <2>1. ASSUME NEW keys \in SUBSET issued, NEW rigid \in BOOLEAN, Release(keys, rigid)
          PROVE  TypeOK'
      <3>1. table' \in Table
        BY <2>1, WithoutRowsType DEF Release, TypeOK
      <3> QED  BY <2>1, <3>1 DEF Release, TypeOK, compVars, txVars
    <2>2. ASSUME NEW keys \in SUBSET issued, NEW rigid \in BOOLEAN,
                 NEW dur \in 1 .. MaxTerm, Renew(keys, rigid, dur)
          PROVE  TypeOK'
      <3>1. now + dur \in Nat
        BY MaxTermAssumption DEF TypeOK
      <3>2. RenewableRows(table, keys) \in SUBSET Reserved(table)
        BY DEF RenewableRows, RowsByKey
      <3>3. table' \in Table
        BY <2>2, <3>1, <3>2, WithExpiryType DEF Renew, TypeOK
      <3> QED  BY <2>2, <3>3 DEF Renew, TypeOK, compVars, txVars
    <2> QED  BY <1>13, <2>1, <2>2 DEF KeyedRequest
  <1>14. CASE CompReservationCleanup
    <2>1. table' \in Table
      BY <1>14, WithoutRowsType DEF CompReservationCleanup, TypeOK
    <2> QED  BY <1>14, <2>1 DEF CompReservationCleanup, TypeOK, compVars, txVars
  <1>15. ASSUME NEW c \in Component, DeleteComponent(c) PROVE TypeOK'
    <2>1. table' \in Table
      BY <1>15, WithoutRowsType DEF DeleteComponent, TypeOK
    <2> QED  BY <1>15, <2>1 DEF DeleteComponent, TypeOK, txVars
  <1>16. ASSUME NEW c \in Component, NEW lock \in BOOLEAN, NEW disable \in BOOLEAN,
                InsertComponent(c, lock, disable)
         PROVE  TypeOK'
    BY <1>16 DEF InsertComponent, TypeOK, txVars
  <1>17. CASE Tick
    BY <1>17 DEF Tick, TypeOK, compVars, txVars
  <1>18. CASE UNCHANGED vars
    BY <1>18 DEF TypeOK, vars, compVars, txVars
  <1> QED
    BY <1>1, <1>2, <1>3, <1>4, <1>5, <1>6, <1>7, <1>8, <1>9, <1>10, <1>11, <1>12,
       <1>13, <1>14, <1>15, <1>16, <1>17, <1>18
    DEF Next, Arrive, Proceed

LEMMA TypeInit == Init => TypeOK
  <1> SUFFICES ASSUME Init PROVE TypeOK
    OBVIOUS
  <1>1. NoRequest \in Request
    BY MaxTermAssumption DEF NoRequest, Request, Op
  <1> QED  BY <1>1, EmptyTableType DEF Init, TypeOK, Statement

(* Every variable has its type in every reachable state of the lock        *)
(* service.                                                                *)
THEOREM TypeCorrect == Spec => []TypeOK
  <1> QED  BY TypeInit, TypeStep, PTL DEF Spec

-------------------------------------------------------------------------------
(* The checks of a create request hold until it commits *)

(* A transaction that ends leaves the checks of the others alone, provided *)
(* it changed only components that nobody else has locked.                 *)
LEMMA CloseKeepsChecks ==
  ASSUME TypeOK, ChecksHoldUntilCommit, NEW h \in Handler, Close(h),
         present' = present,
         \A c \in Component : rowLock[c] \notin {h, Free} =>
           locked'[c] = locked[c] /\ disabled'[c] = disabled[c]
  PROVE  ChecksHoldUntilCommit'
  <1> SUFFICES ASSUME NEW g \in Handler, InsertOpen(g)', NEW c \in target'[g]
               PROVE  rowLock'[c] = g /\ c \in present' /\ MayReserve(req[g], c)'
    BY DEF ChecksHoldUntilCommit
  <1>1. g # h
    BY DEF InsertOpen, Close, TypeOK
  <1>2. /\ InsertOpen(g) /\ target'[g] = target[g] /\ req'[g] = req[g]
        /\ c \in Component
    BY <1>1 DEF InsertOpen, Close, TypeOK
  <1>3. rowLock[c] = g /\ c \in present /\ MayReserve(req[g], c)
    BY <1>2 DEF ChecksHoldUntilCommit
  <1>4. rowLock'[c] = g
    BY <1>1, <1>2, <1>3 DEF Close
  <1>5. locked'[c] = locked[c] /\ disabled'[c] = disabled[c]
    BY <1>1, <1>2, <1>3, FreeAssumption
  <1> QED  BY <1>2, <1>3, <1>4, <1>5 DEF MayReserve

LEMMA RollbackKeepsChecks ==
  ASSUME TypeOK, ChecksHoldUntilCommit, NEW h \in Handler, Rollback(h)
  PROVE  ChecksHoldUntilCommit'
  BY CloseKeepsChecks DEF Rollback, compVars

(* A first statement that takes no row lock starts no insert. *)
LEMMA OpenKeepsChecks ==
  ASSUME TypeOK, ChecksHoldUntilCommit, NEW h \in Handler, NEW r, NEW C,
         NEW S \in Statement \ {"insert", "commit"}, Open(h, r, S, C),
         UNCHANGED <<compVars, rowLock>>
  PROVE  ChecksHoldUntilCommit'
  BY DEF ChecksHoldUntilCommit, InsertOpen, MayReserve, Open, TypeOK, compVars

THEOREM ChecksStep == TypeOK /\ ChecksHoldUntilCommit /\ [Next]_vars => ChecksHoldUntilCommit'
  <1> SUFFICES ASSUME TypeOK, ChecksHoldUntilCommit, [Next]_vars
               PROVE  ChecksHoldUntilCommit'
    OBVIOUS
  <1> USE DEF ChecksHoldUntilCommit
  <1>1. ASSUME NEW h \in Handler, NEW r \in Request, CreateSelect(h, r)
        PROVE  ChecksHoldUntilCommit'
    <2> SUFFICES ASSUME NEW g \in Handler, InsertOpen(g)', NEW c \in target'[g]
                 PROVE  rowLock'[c] = g /\ c \in present' /\ MayReserve(req[g], c)'
      OBVIOUS
    <2>1. CASE g = h
      BY <1>1, <2>1, RequestFields
      DEF CreateSelect, Open, MayReserve, TypeOK, compVars
    <2>2. CASE g # h
      <3>1. InsertOpen(g) /\ target'[g] = target[g] /\ req'[g] = req[g] /\ c \in Component
        BY <1>1, <2>2 DEF CreateSelect, Open, InsertOpen, TypeOK
      <3>2. rowLock[c] = g /\ c \in present /\ MayReserve(req[g], c)
        BY <3>1
      <3>3. rowLock'[c] = rowLock[c]
        BY <1>1, <2>2, <3>1, <3>2, FreeAssumption DEF CreateSelect, RowsFree
      <3> QED  BY <1>1, <3>1, <3>2, <3>3 DEF CreateSelect, MayReserve, compVars
    <2> QED  BY <2>1, <2>2
  <1>2. ASSUME NEW h \in Handler, NEW r \in Request, RemoveSelect(h, r)
        PROVE  ChecksHoldUntilCommit'
    BY <1>2, OpenKeepsChecks DEF RemoveSelect, Statement
  <1>3. ASSUME NEW h \in Handler, NEW r \in Request, LockSelect(h, r)
        PROVE  ChecksHoldUntilCommit'
    BY <1>3, OpenKeepsChecks DEF LockSelect, Statement
  <1>4. ASSUME NEW h \in Handler, NEW r \in Request, DisableSelect(h, r)
        PROVE  ChecksHoldUntilCommit'
    BY <1>4, OpenKeepsChecks DEF DisableSelect, Statement
  <1>5. ASSUME NEW h \in Handler, CreateInsert(h) PROVE ChecksHoldUntilCommit'
    <2>1. CASE Rollback(h)
      BY <2>1, RollbackKeepsChecks
    <2>2. CASE ~Rollback(h)
      <3>1. /\ pc[h] = "insert"
            /\ pc' = [pc EXCEPT ![h] = "commit"]
            /\ UNCHANGED <<compVars, req, target, rowLock>>
        BY <1>5, <2>2 DEF CreateInsert, InsertRows
      <3>2. \A g \in Handler : InsertOpen(g)' => InsertOpen(g)
        BY <3>1 DEF InsertOpen, TypeOK
      <3> QED  BY <3>1, <3>2 DEF MayReserve, compVars
    <2> QED  BY <2>1, <2>2
  <1>6. ASSUME NEW h \in Handler, CreateCommit(h) PROVE ChecksHoldUntilCommit'
    BY <1>6, CloseKeepsChecks DEF CreateCommit, compVars
  <1>7. ASSUME NEW h \in Handler, RemoveDelete(h) PROVE ChecksHoldUntilCommit'
    BY <1>7, CloseKeepsChecks, RollbackKeepsChecks DEF RemoveDelete, compVars
  <1>8. ASSUME NEW h \in Handler, LockCheck(h) PROVE ChecksHoldUntilCommit'
    <2>1. CASE Rollback(h)
      BY <2>1, RollbackKeepsChecks
    <2>2. CASE ~Rollback(h)
      BY <1>8, <2>2 DEF LockCheck, InsertOpen, MayReserve, TypeOK, compVars
    <2> QED  BY <2>1, <2>2
  <1>9. ASSUME NEW h \in Handler, LockUpdate(h) PROVE ChecksHoldUntilCommit'
    <2>1. CASE Rollback(h)
      BY <2>1, RollbackKeepsChecks
    <2>2. CASE ~Rollback(h)
      <3>1. \A c \in Component : rowLock[c] \notin {h, Free} => c \notin target[h]
        BY <1>9 DEF LockUpdate, RowsFree
      <3>2. \A c \in Component : rowLock[c] \notin {h, Free} => locked'[c] = locked[c]
        BY <1>9, <2>2, <3>1 DEF LockUpdate
      <3> QED  BY <1>9, <2>2, <3>2, CloseKeepsChecks DEF LockUpdate
    <2> QED  BY <2>1, <2>2
  <1>10. ASSUME NEW h \in Handler, DisableDelete(h) PROVE ChecksHoldUntilCommit'
    BY <1>10 DEF DisableDelete, InsertOpen, MayReserve, TypeOK, compVars
  <1>11. ASSUME NEW h \in Handler, DisableUpdate(h) PROVE ChecksHoldUntilCommit'
    <2>1. CASE Rollback(h)
      BY <2>1, RollbackKeepsChecks
    <2>2. CASE ~Rollback(h)
      <3>1. \A c \in Component : rowLock[c] \notin {h, Free} => c \notin target[h]
        BY <1>11 DEF DisableUpdate, RowsFree
      <3>2. \A c \in Component : rowLock[c] \notin {h, Free} => disabled'[c] = disabled[c]
        BY <1>11, <2>2, <3>1 DEF DisableUpdate
      <3> QED  BY <1>11, <2>2, <3>2, CloseKeepsChecks DEF DisableUpdate
    <2> QED  BY <2>1, <2>2
  <1>12. ASSUME NEW h \in Handler, DeadlockAbort(h) \/ Crash(h)
         PROVE  ChecksHoldUntilCommit'
    BY <1>12, RollbackKeepsChecks DEF DeadlockAbort, Crash
  <1>13. CASE KeyedRequest
    BY <1>13 DEF KeyedRequest, Release, Renew, InsertOpen, MayReserve, compVars, txVars
  <1>14. CASE CompReservationCleanup
    BY <1>14 DEF CompReservationCleanup, InsertOpen, MayReserve, compVars, txVars
  <1>15. ASSUME NEW d \in Component, DeleteComponent(d) PROVE ChecksHoldUntilCommit'
    <2> SUFFICES ASSUME NEW g \in Handler, InsertOpen(g), NEW c \in target[g]
                 PROVE  rowLock'[c] = g /\ c \in present' /\ MayReserve(req[g], c)'
      BY <1>15 DEF DeleteComponent, InsertOpen, txVars
    <2>1. c # d
      BY <1>15, FreeAssumption DEF DeleteComponent
    <2> QED  BY <1>15, <2>1 DEF DeleteComponent, MayReserve, TypeOK, txVars
  <1>16. ASSUME NEW d \in Component, NEW lock \in BOOLEAN, NEW disable \in BOOLEAN,
                InsertComponent(d, lock, disable)
         PROVE  ChecksHoldUntilCommit'
    <2> SUFFICES ASSUME NEW g \in Handler, InsertOpen(g), NEW c \in target[g]
                 PROVE  rowLock'[c] = g /\ c \in present' /\ MayReserve(req[g], c)'
      BY <1>16 DEF InsertComponent, InsertOpen, txVars
    <2>1. c # d
      BY <1>16 DEF InsertComponent
    <2> QED  BY <1>16, <2>1 DEF InsertComponent, MayReserve, TypeOK, txVars
  <1>17. CASE Tick
    BY <1>17 DEF Tick, InsertOpen, MayReserve, compVars, txVars
  <1>18. CASE UNCHANGED vars
    BY <1>18 DEF vars, InsertOpen, MayReserve, compVars, txVars
  <1> QED
    BY <1>1, <1>2, <1>3, <1>4, <1>5, <1>6, <1>7, <1>8, <1>9, <1>10, <1>11, <1>12,
       <1>13, <1>14, <1>15, <1>16, <1>17, <1>18
    DEF Next, Arrive, Proceed

(* What a create request checked about its components stays true until its *)
(* rows are committed: GetComponentsFilterTx's FOR UPDATE is enough.       *)
THEOREM ChecksHold == Spec => []ChecksHoldUntilCommit
  <1>1. Init => ChecksHoldUntilCommit
    BY DEF Init, ChecksHoldUntilCommit, InsertOpen
  <1> QED  BY <1>1, TypeCorrect, ChecksStep, PTL DEF Spec

-------------------------------------------------------------------------------
(* Where reservations come from *)

(* The rows that a create request has inserted and not committed. *)
PendingRows ==
  \A h \in Handler :
    /\ pc[h] # "commit" => newRows[h] = EmptyTable
    /\ \A c \in Reserved(newRows[h]) :
         /\ c \in target[h]
         /\ table[c] = NoRes
         /\ newRows[h][c].expires = Never <=> req[h].dur = 0
         /\ newRows[h][c].expires # Never => newRows[h][c].expires <= now + MaxTerm

(* The transaction of h neither makes rows nor commits them. *)
TxKeeps(h) ==
  \/ /\ pc[h] = "commit" /\ pc'[h] = "commit"
     /\ newRows'[h] = newRows[h] /\ req'[h] = req[h] /\ target'[h] = target[h]
  \/ /\ pc'[h] # "commit"
     /\ newRows'[h] = EmptyTable

(* A renewal: the key stays, the term starts again. *)
Renewed(c) ==
  /\ table[c] # NoRes /\ table'[c] # NoRes
  /\ table'[c].key = table[c].key
  /\ table'[c].expires \in Nat /\ table'[c].expires <= now + MaxTerm

(* A step that makes no reservation. *)
Keeps ==
  /\ issued' = issued
  /\ now' \in {now, now + 1}
  /\ \A c \in Component : table'[c] = NoRes \/ table'[c] = table[c] \/ Renewed(c)
  /\ \A c \in present \ present' : table'[c] = NoRes
  /\ \A h \in Handler : TxKeeps(h)

(* A step that inserts rows and does not commit them. *)
Inserts(h) ==
  /\ pc[h] = "insert"
  /\ req[h].rigid => ~Conflict(h)
  /\ InsertRows(h, Key \ issued)

NoEarlyRows == \A h \in Handler : pc[h] # "commit" => newRows[h] = EmptyTable

LEMMA CloseKeeps ==
  ASSUME TypeOK, NoEarlyRows, NEW h \in Handler, Close(h)
  PROVE  \A g \in Handler : TxKeeps(g)
  BY DEF Close, TxKeeps, NoEarlyRows, TypeOK

LEMMA RollbackKeeps ==
  ASSUME TypeOK, NoEarlyRows, NEW h \in Handler, Rollback(h)
  PROVE  Keeps
  BY CloseKeeps DEF Rollback, Keeps, compVars, TypeOK

LEMMA OpenKeeps ==
  ASSUME TypeOK, NoEarlyRows, NEW h \in Handler, NEW r, NEW C,
         NEW S \in Statement \ {"commit"}, pc[h] = "idle", Open(h, r, S, C),
         UNCHANGED <<compVars, table, issued, now, newRows>>
  PROVE  Keeps
  <1>1. \A g \in Handler : TxKeeps(g)
    BY DEF Open, TxKeeps, NoEarlyRows, TypeOK
  <1> QED  BY <1>1 DEF Keeps, compVars, TypeOK

(* Deleting rows is keeping the others. *)
LEMMA WithoutRowsKeeps ==
  ASSUME TypeOK, NEW C, table' = WithoutRows(table, C)
  PROVE  \A c \in Component : table'[c] = NoRes \/ table'[c] = table[c]
  BY DEF WithoutRows, TypeOK

(* Every step inserts rows, commits some, or makes none. *)
LEMMA StepKinds ==
  ASSUME TypeOK, NoEarlyRows, [Next]_vars
  PROVE  \/ Keeps
         \/ \E h \in Handler : Inserts(h) \/ CreateCommit(h)
  <1>a. ASSUME txVars' = txVars PROVE \A g \in Handler : TxKeeps(g)
    BY <1>a DEF txVars, TxKeeps, NoEarlyRows
  <1>1. ASSUME NEW h \in Handler, NEW r \in Request, CreateSelect(h, r) PROVE Keeps
    BY <1>1, OpenKeeps DEF CreateSelect, Statement
  <1>2. ASSUME NEW h \in Handler, NEW r \in Request, RemoveSelect(h, r) PROVE Keeps
    BY <1>2, OpenKeeps DEF RemoveSelect, Statement
  <1>3. ASSUME NEW h \in Handler, NEW r \in Request, LockSelect(h, r) PROVE Keeps
    BY <1>3, OpenKeeps DEF LockSelect, Statement
  <1>4. ASSUME NEW h \in Handler, NEW r \in Request, DisableSelect(h, r) PROVE Keeps
    BY <1>4, OpenKeeps DEF DisableSelect, Statement
  <1>5. ASSUME NEW h \in Handler, CreateInsert(h) PROVE Keeps \/ Inserts(h)
    BY <1>5, RollbackKeeps DEF CreateInsert, Inserts
  <1>7. ASSUME NEW h \in Handler, RemoveDelete(h) PROVE Keeps
    <2>1. CASE Rollback(h)
      BY <2>1, RollbackKeeps
    <2>2. CASE ~Rollback(h)
      <3>1. /\ table' = WithoutRows(table, target[h] \cap Reserved(table))
            /\ Close(h) /\ UNCHANGED <<compVars, issued, now>>
        BY <1>7, <2>2 DEF RemoveDelete
      <3> QED  BY <3>1, CloseKeeps, WithoutRowsKeeps DEF Keeps, compVars
    <2> QED  BY <2>1, <2>2
  <1>8. ASSUME NEW h \in Handler, LockCheck(h) PROVE Keeps
    <2>1. CASE Rollback(h)
      BY <2>1, RollbackKeeps
    <2>2. CASE ~Rollback(h)
      <3>1. \A g \in Handler : TxKeeps(g)
        BY <1>8, <2>2 DEF LockCheck, TxKeeps, NoEarlyRows, TypeOK
      <3> QED  BY <1>8, <2>2, <3>1 DEF LockCheck, Keeps, compVars
    <2> QED  BY <2>1, <2>2
  <1>9. ASSUME NEW h \in Handler, LockUpdate(h) PROVE Keeps
    <2>1. CASE Rollback(h)
      BY <2>1, RollbackKeeps
    <2>2. CASE ~Rollback(h)
      BY <1>9, <2>2, CloseKeeps DEF LockUpdate, Keeps
    <2> QED  BY <2>1, <2>2
  <1>10. ASSUME NEW h \in Handler, DisableDelete(h) PROVE Keeps
    <2>1. \A g \in Handler : TxKeeps(g)
      BY <1>10 DEF DisableDelete, TxKeeps, NoEarlyRows, TypeOK
    <2> QED  BY <1>10, <2>1 DEF DisableDelete, Keeps, compVars
  <1>11. ASSUME NEW h \in Handler, DisableUpdate(h) PROVE Keeps
    <2>1. CASE Rollback(h)
      BY <2>1, RollbackKeeps
    <2>2. CASE ~Rollback(h)
      <3>1. /\ table' = WithoutRows(table, delRows[h])
            /\ Close(h) /\ UNCHANGED <<present, issued, now>>
        BY <1>11, <2>2 DEF DisableUpdate
      <3> QED  BY <3>1, CloseKeeps, WithoutRowsKeeps DEF Keeps
    <2> QED  BY <2>1, <2>2
  <1>12. ASSUME NEW h \in Handler, DeadlockAbort(h) \/ Crash(h) PROVE Keeps
    BY <1>12, RollbackKeeps DEF DeadlockAbort, Crash
  <1>13. ASSUME NEW keys \in SUBSET issued, NEW rigid \in BOOLEAN, Release(keys, rigid)
         PROVE  Keeps
    BY <1>13, <1>a, WithoutRowsKeeps DEF Release, Keeps, compVars
  <1>14. ASSUME NEW keys \in SUBSET issued, NEW rigid \in BOOLEAN,
                NEW dur \in 1 .. MaxTerm, Renew(keys, rigid, dur)
         PROVE  Keeps
    <2>1. \A c \in Reserved(table) : table[c] \in Reservation
      BY DEF TypeOK, Table, Reserved
    <2>2. now + dur \in Nat /\ now + dur <= now + MaxTerm
      BY MaxTermAssumption DEF TypeOK
    <2>3. \A c \in Component : table'[c] = table[c] \/ Renewed(c)
      <3> SUFFICES ASSUME NEW c \in RenewableRows(table, keys) PROVE Renewed(c)
        BY <1>14 DEF Renew, WithExpiry
      <3>1. c \in Reserved(table) /\ table'[c] = [table[c] EXCEPT !.expires = now + dur]
        BY <1>14 DEF Renew, WithExpiry, RenewableRows, RowsByKey, Reserved
      <3>2. table'[c] \in Reservation /\ table'[c].key = table[c].key
            /\ table'[c].expires = now + dur
        BY <2>1, <2>2, <3>1 DEF Reservation
      <3> QED  BY <2>2, <3>1, <3>2, NoResAssumption DEF Renewed, Reserved, Reservation
    <2> QED  BY <1>14, <1>a, <2>3 DEF Renew, Keeps, compVars
  <1>15. CASE CompReservationCleanup
    BY <1>15, <1>a, WithoutRowsKeeps DEF CompReservationCleanup, Keeps, compVars
  <1>16. ASSUME NEW c \in Component, DeleteComponent(c) PROVE Keeps
    <2>1. table' = WithoutRows(table, {c}) /\ present' = present \ {c}
      BY <1>16 DEF DeleteComponent
    <2>2. table'[c] = NoRes
      BY <2>1 DEF WithoutRows
    <2>3. \A d \in present \ present' : table'[d] = NoRes
      BY <2>1, <2>2
    <2> QED  BY <1>16, <1>a, <2>1, <2>3, WithoutRowsKeeps DEF DeleteComponent, Keeps
  <1>17. ASSUME NEW c \in Component, NEW lock \in BOOLEAN, NEW disable \in BOOLEAN,
                InsertComponent(c, lock, disable)
         PROVE  Keeps
    BY <1>17, <1>a DEF InsertComponent, Keeps
  <1>18. CASE Tick
    BY <1>18, <1>a DEF Tick, Keeps, compVars
  <1>19. CASE UNCHANGED vars
    BY <1>19, <1>a DEF vars, Keeps, compVars
  <1> QED
    BY <1>1, <1>2, <1>3, <1>4, <1>5, <1>7, <1>8, <1>9, <1>10, <1>11, <1>12,
       <1>13, <1>14, <1>15, <1>16, <1>17, <1>18, <1>19
    DEF Next, Arrive, Proceed, KeyedRequest

-------------------------------------------------------------------------------
(* The inductive invariant: the checks of the create requests, the rows    *)
(* they are about to commit and the rows that are committed.               *)
LockInv ==
  /\ TypeOK
  /\ ChecksHoldUntilCommit
  /\ PendingRows
  /\ ReservedExist
  /\ TermBounded
  /\ RigidCoversExisting

LEMMA RowFields ==
  ASSUME NEW t \in Table, NEW c \in Component, t[c] # NoRes
  PROVE  t[c].key \in Key /\ t[c].expires \in Nat \cup {Never}
  BY DEF Table, Reservation

LEMMA EmptyReserved == Reserved(EmptyTable) = {}
  BY DEF Reserved, EmptyTable

LEMMA CommitRows ==
  ASSUME TypeOK, NEW h \in Handler, CreateCommit(h)
  PROVE  /\ \A c \in Reserved(newRows[h]) : table'[c] = newRows[h][c]
         /\ \A c \in Component \ Reserved(newRows[h]) : table'[c] = table[c]
         /\ \A g \in Handler \ {h} :
              /\ pc'[g] = pc[g] /\ req'[g] = req[g]
              /\ target'[g] = target[g] /\ newRows'[g] = newRows[g]
         /\ pc'[h] = "idle" /\ newRows'[h] = EmptyTable
         /\ UNCHANGED <<compVars, issued, now>>
  BY DEF CreateCommit, Close, WithRows, Reserved, TypeOK

LEMMA InsertedRows ==
  ASSUME TypeOK, NEW h \in Handler, Inserts(h)
  PROVE  /\ Reserved(newRows'[h]) = target[h] \ Reserved(table)
         /\ \A c \in Reserved(newRows'[h]) :
              newRows'[h][c].expires = ExpiryOf(req[h].dur, now)
         /\ \A g \in Handler \ {h} : pc'[g] = pc[g] /\ newRows'[g] = newRows[g]
         /\ pc'[h] = "commit"
         /\ UNCHANGED <<compVars, table, now, req, target, rowLock>>
  <1>1. PICK keyOf \in [{c \in target[h] : table[c] = NoRes} -> Key \ issued] :
          newRows' = [newRows EXCEPT ![h] =
            FreshRows(table, target[h], keyOf, ExpiryOf(req[h].dur, now))]
    BY DEF Inserts, InsertRows
  <1>2. newRows'[h] = FreshRows(table, target[h], keyOf, ExpiryOf(req[h].dur, now))
    BY <1>1 DEF TypeOK
  <1>3. req[h].dur \in Nat /\ target[h] \in SUBSET Component /\ now \in Nat
    BY RequestFields DEF TypeOK
  <1>4. ExpiryOf(req[h].dur, now) \in Nat \cup {Never}
    BY <1>3, ExpiryOfType
  <1>5. \A c \in target[h] : table[c] = NoRes =>
          [key |-> keyOf[c], expires |-> ExpiryOf(req[h].dur, now)] # NoRes
    BY <1>1, <1>4, NoResAssumption
  <1>6. \A c \in Component :
          newRows'[h][c] = IF c \in target[h] /\ table[c] = NoRes
                           THEN [key |-> keyOf[c], expires |-> ExpiryOf(req[h].dur, now)]
                           ELSE NoRes
    BY <1>2 DEF FreshRows
  <1>7. Reserved(newRows'[h]) = target[h] \ Reserved(table)
    BY <1>3, <1>5, <1>6 DEF Reserved
  <1>8. \A c \in Reserved(newRows'[h]) :
          newRows'[h][c].expires = ExpiryOf(req[h].dur, now)
    <2> SUFFICES ASSUME NEW c \in Reserved(newRows'[h])
                 PROVE  newRows'[h][c].expires = ExpiryOf(req[h].dur, now)
      OBVIOUS
    <2>1. c \in Component /\ newRows'[h][c] # NoRes
      BY DEF Reserved
    <2>2. newRows'[h][c] = [key |-> keyOf[c], expires |-> ExpiryOf(req[h].dur, now)]
      BY <1>6, <2>1
    <2> QED  BY <2>2
  <1>9. \A g \in Handler \ {h} : pc'[g] = pc[g] /\ newRows'[g] = newRows[g]
    BY <1>1 DEF Inserts, InsertRows, TypeOK
  <1>10. pc'[h] = "commit" /\ UNCHANGED <<compVars, table, now, req, target, rowLock>>
    BY DEF Inserts, InsertRows, TypeOK
  <1> QED  BY <1>7, <1>8, <1>9, <1>10

LEMMA InsertedExpiry ==
  ASSUME TypeOK, NEW h \in Handler
  PROVE  LET e == ExpiryOf(req[h].dur, now)
         IN  /\ e = Never <=> req[h].dur = 0
             /\ e # Never => e <= now + MaxTerm
  <1>1. req[h].dur \in 0 .. MaxTerm /\ now \in Nat
    BY RequestFields DEF TypeOK
  <1> QED  BY <1>1, NeverAssumption, MaxTermAssumption DEF ExpiryOf

(* The components of two transactions that create are different: each      *)
(* holds the row locks of its own.                                         *)
LEMMA TargetsDisjoint ==
  ASSUME ChecksHoldUntilCommit, NEW g \in Handler, NEW h \in Handler, g # h,
         InsertOpen(g), InsertOpen(h)
  PROVE  target[g] \cap target[h] = {}
  BY DEF ChecksHoldUntilCommit

LEMMA PendingStep ==
  ASSUME TypeOK, ChecksHoldUntilCommit, PendingRows, [Next]_vars
  PROVE  PendingRows'
  <1>0. NoEarlyRows
    BY DEF PendingRows, NoEarlyRows
  <1>1. CASE Keeps
    <2> SUFFICES ASSUME NEW h \in Handler
                 PROVE  /\ pc'[h] # "commit" => newRows'[h] = EmptyTable
                        /\ \A c \in Reserved(newRows'[h]) :
                             /\ c \in target'[h]
                             /\ table'[c] = NoRes
                             /\ newRows'[h][c].expires = Never <=> req'[h].dur = 0
                             /\ newRows'[h][c].expires # Never =>
                                  newRows'[h][c].expires <= now' + MaxTerm
      BY DEF PendingRows, Reserved
    <2>1. CASE pc'[h] # "commit"
      BY <1>1, <2>1, EmptyReserved DEF Keeps, TxKeeps
    <2>2. CASE pc'[h] = "commit"
      <3>1. newRows'[h] = newRows[h] /\ req'[h] = req[h] /\ target'[h] = target[h]
        BY <1>1, <2>2 DEF Keeps, TxKeeps
      <3>2. SUFFICES ASSUME NEW c \in Reserved(newRows[h])
                     PROVE  /\ table'[c] = NoRes
                            /\ newRows[h][c].expires # Never =>
                                 newRows[h][c].expires <= now' + MaxTerm
        BY <2>2, <3>1 DEF PendingRows
      <3>3. table'[c] = NoRes
        BY <1>1 DEF Keeps, PendingRows, Renewed, Reserved
      <3>4. newRows[h][c].expires \in Nat \cup {Never}
        BY RowFields DEF TypeOK, Reserved
      <3>5. now \in Nat /\ now' \in {now, now + 1}
        BY <1>1 DEF Keeps, TypeOK
      <3> QED  BY <3>3, <3>4, <3>5, MaxTermAssumption DEF PendingRows
    <2> QED  BY <2>1, <2>2
  <1>2. ASSUME NEW h \in Handler, Inserts(h) PROVE PendingRows'
    <2>1. \A g \in Handler \ {h} : \A c \in Reserved(newRows[g]) : table'[c] = NoRes
      BY <1>2, InsertedRows DEF PendingRows
    <2>2. \A c \in Reserved(newRows'[h]) : c \in target[h] /\ table[c] = NoRes
      BY <1>2, InsertedRows DEF Reserved, TypeOK
    <2> QED  BY <1>2, <2>1, <2>2, InsertedRows, InsertedExpiry DEF PendingRows
  <1>3. ASSUME NEW h \in Handler, CreateCommit(h) PROVE PendingRows'
    <2>1. \A g \in Handler \ {h} : \A c \in Reserved(newRows[g]) : table'[c] = NoRes
      <3> SUFFICES ASSUME NEW g \in Handler \ {h}, NEW c \in Reserved(newRows[g])
                   PROVE  c \notin Reserved(newRows[h])
        BY <1>3, CommitRows DEF PendingRows, Reserved
      <3>1. pc[g] = "commit" /\ pc[h] = "commit"
        BY <1>3, EmptyReserved DEF PendingRows, CreateCommit
      <3> QED  BY <3>1, TargetsDisjoint DEF InsertOpen, PendingRows
    <2> QED  BY <1>3, <2>1, CommitRows, EmptyReserved DEF PendingRows
  <1> QED  BY <1>0, <1>1, <1>2, <1>3, StepKinds

LEMMA ReservedStep ==
  ASSUME TypeOK, ChecksHoldUntilCommit, PendingRows, ReservedExist, [Next]_vars
  PROVE  ReservedExist'
  <1>0. NoEarlyRows
    BY DEF PendingRows, NoEarlyRows
  <1>1. CASE Keeps
    <2> SUFFICES ASSUME NEW c \in Component, table'[c] # NoRes PROVE c \in present'
      BY DEF ReservedExist, Reserved
    <2>1. table[c] # NoRes
      BY <1>1 DEF Keeps, Renewed
    <2> QED  BY <1>1, <2>1 DEF Keeps, ReservedExist, Reserved
  <1>2. ASSUME NEW h \in Handler, Inserts(h) PROVE ReservedExist'
    BY <1>2, InsertedRows DEF ReservedExist, compVars
  <1>3. ASSUME NEW h \in Handler, CreateCommit(h) PROVE ReservedExist'
    <2>1. InsertOpen(h)
      BY <1>3 DEF CreateCommit, InsertOpen
    <2>2. Reserved(newRows[h]) \subseteq present
      BY <2>1 DEF ChecksHoldUntilCommit, PendingRows
    <2> QED  BY <1>3, <2>2, CommitRows DEF ReservedExist, Reserved, compVars
  <1> QED  BY <1>0, <1>1, <1>2, <1>3, StepKinds

LEMMA TermStep ==
  ASSUME TypeOK, PendingRows, TermBounded, [Next]_vars
  PROVE  TermBounded'
  <1>0. NoEarlyRows
    BY DEF PendingRows, NoEarlyRows
  <1>1. CASE Keeps
    <2> SUFFICES ASSUME NEW c \in Component, table'[c] # NoRes, table'[c].expires # Never
                 PROVE  table'[c].expires <= now' + MaxTerm
      BY DEF TermBounded, Reserved
    <2>1. now \in Nat /\ now' \in {now, now + 1}
      BY <1>1 DEF Keeps, TypeOK
    <2>2. CASE Renewed(c)
      BY <2>1, <2>2, MaxTermAssumption DEF Renewed
    <2>3. CASE table'[c] = table[c]
      BY <2>1, <2>3, RowFields, MaxTermAssumption DEF TermBounded, Reserved, TypeOK
    <2> QED  BY <1>1, <2>2, <2>3 DEF Keeps
  <1>2. ASSUME NEW h \in Handler, Inserts(h) PROVE TermBounded'
    BY <1>2, InsertedRows DEF TermBounded, Reserved
  <1>3. ASSUME NEW h \in Handler, CreateCommit(h) PROVE TermBounded'
    BY <1>3, CommitRows DEF TermBounded, PendingRows, Reserved
  <1> QED  BY <1>0, <1>1, <1>2, <1>3, StepKinds

LEMMA RigidStep ==
  ASSUME TypeOK, ChecksHoldUntilCommit, ChecksHoldUntilCommit', PendingRows,
         PendingRows', RigidCoversExisting, [Next]_vars
  PROVE  RigidCoversExisting'
  <1>0. NoEarlyRows
    BY DEF PendingRows, NoEarlyRows
  <1> SUFFICES \A g \in Handler : pc'[g] = "commit" /\ req'[g].rigid =>
                 Reserved(newRows'[g]) = target'[g]
    <2>1. \A g \in Handler : pc'[g] = "commit" => target'[g] \subseteq present'
      BY DEF ChecksHoldUntilCommit, InsertOpen
    <2>2. \A g \in Handler : \A c \in Reserved(newRows'[g]) : table'[c] = NoRes
      BY DEF PendingRows, Reserved
    <2> QED  BY <2>1, <2>2 DEF RigidCoversExisting, Reserved
  <1> SUFFICES ASSUME NEW g \in Handler, pc'[g] = "commit", req'[g].rigid
               PROVE  Reserved(newRows'[g]) = target'[g]
    OBVIOUS
  <1>1. CASE Keeps
    BY <1>1 DEF Keeps, TxKeeps, RigidCoversExisting
  <1>2. ASSUME NEW h \in Handler, Inserts(h)
        PROVE  Reserved(newRows'[g]) = target'[g]
    <2>1. CASE g = h
      BY <1>2, <2>1, InsertedRows DEF Inserts, Conflict
    <2>2. CASE g # h
      BY <1>2, <2>2, InsertedRows DEF RigidCoversExisting
    <2> QED  BY <2>1, <2>2
  <1>3. ASSUME NEW h \in Handler, CreateCommit(h)
        PROVE  Reserved(newRows'[g]) = target'[g]
    BY <1>3, CommitRows DEF RigidCoversExisting
  <1> QED  BY <1>0, <1>1, <1>2, <1>3, StepKinds

THEOREM LockInvHolds == Spec => []LockInv
  <1>1. Init => LockInv
    <2> SUFFICES ASSUME Init PROVE LockInv
      OBVIOUS
    <2> QED  BY TypeInit, EmptyReserved
        DEF Init, LockInv, ChecksHoldUntilCommit, InsertOpen, PendingRows,
            ReservedExist, TermBounded, RigidCoversExisting
  <1>2. LockInv /\ [Next]_vars => LockInv'
    BY TypeStep, ChecksStep, PendingStep, ReservedStep, TermStep, RigidStep DEF LockInv
  <1> QED  BY <1>1, <1>2, PTL DEF Spec

(* No reservation is left for a component that is gone.                    *)
THEOREM ReservationsExist == Spec => []ReservedExist
  <1>1. LockInv => ReservedExist
    BY DEF LockInv
  <1> QED  BY <1>1, LockInvHolds, PTL

(* However often it is renewed, a reservation ends within one longest term *)
(* of the present.                                                         *)
THEOREM TermsBounded == Spec => []TermBounded
  <1>1. LockInv => TermBounded
    BY DEF LockInv
  <1> QED  BY <1>1, LockInvHolds, PTL

(* A rigid create request commits a row for every component it matched.    *)
THEOREM RigidCovers == Spec => []RigidCoversExisting
  <1>1. LockInv => RigidCoversExisting
    BY DEF LockInv
  <1> QED  BY <1>1, LockInvHolds, PTL

(* A reservation becomes visible only for a component that exists, is not  *)
(* disabled, and whose lock agrees with the reservation's kind.            *)
THEOREM GrantsMatchLocks == Spec => GrantMatchesLock
  <1>1. ASSUME LockInv, [Next]_vars,
               NEW c \in Component, table[c] = NoRes, table'[c] # NoRes
        PROVE  c \in present /\ ~disabled[c] /\ (locked[c] <=> table'[c].expires = Never)
    <2>0. TypeOK /\ NoEarlyRows
      BY <1>1 DEF LockInv, PendingRows, NoEarlyRows
    <2>1. PICK h \in Handler : CreateCommit(h)
      <3>1. ~Keeps
        BY <1>1 DEF Keeps, Renewed
      <3>2. \A h \in Handler : ~Inserts(h)
        BY <1>1, <2>0, InsertedRows
      <3> QED  BY <1>1, <2>0, <3>1, <3>2, StepKinds
    <2>2. c \in Reserved(newRows[h]) /\ table'[c] = newRows[h][c]
      BY <1>1, <2>0, <2>1, CommitRows
    <2>3. InsertOpen(h)
      BY <2>1 DEF CreateCommit, InsertOpen
    <2>4. c \in target[h] /\ (table'[c].expires = Never <=> req[h].dur = 0)
      BY <1>1, <2>2 DEF LockInv, PendingRows
    <2>5. c \in present /\ MayReserve(req[h], c)
      BY <1>1, <2>3, <2>4 DEF LockInv, ChecksHoldUntilCommit
    <2> QED  BY <2>4, <2>5 DEF MayReserve
  <1>2. LockInv /\ [Next]_vars =>
          [\A c \in Component : table[c] = NoRes /\ table'[c] # NoRes =>
             /\ c \in present
             /\ ~disabled[c]
             /\ locked[c] <=> table'[c].expires = Never]_vars
    BY <1>1
  <1> QED  BY <1>2, LockInvHolds, PTL DEF Spec, GrantMatchesLock

-------------------------------------------------------------------------------
(* The lock service implements ReservationLease *)

(* A key that has been generated names at most one row, pending or         *)
(* committed.                                                              *)
KeyInv ==
  /\ KeysIn(table) \subseteq issued
  /\ \A h \in Handler : KeysIn(newRows[h]) \subseteq issued
  /\ \A h \in Handler : KeysIn(newRows[h]) \cap KeysIn(table) = {}
  /\ \A g, h \in Handler : g # h => KeysIn(newRows[g]) \cap KeysIn(newRows[h]) = {}
  /\ \A h \in Handler : \A c, d \in Reserved(newRows[h]) :
       newRows[h][c].key = newRows[h][d].key => c = d

LEMMA EmptyKeys == KeysIn(EmptyTable) = {}
  BY EmptyReserved DEF KeysIn

LEMMA KeysAreKeys ==
  ASSUME NEW t \in Table
  PROVE  KeysIn(t) \subseteq Key
  BY RowFields DEF KeysIn, Reserved

LEMMA InsertedKeys ==
  ASSUME TypeOK, NEW h \in Handler, Inserts(h)
  PROVE  /\ issued' = issued \cup KeysIn(newRows'[h])
         /\ KeysIn(newRows'[h]) \cap issued = {}
         /\ \A c, d \in Reserved(newRows'[h]) :
              newRows'[h][c].key = newRows'[h][d].key => c = d
  <1> DEFINE free == {c \in target[h] : table[c] = NoRes}
  <1>1. PICK keyOf \in [free -> Key \ issued] :
          /\ \A c, d \in free : c # d => keyOf[c] # keyOf[d]
          /\ newRows' = [newRows EXCEPT ![h] =
               FreshRows(table, target[h], keyOf, ExpiryOf(req[h].dur, now))]
          /\ issued' = issued \cup {keyOf[c] : c \in free}
    BY DEF Inserts, InsertRows
  <1>2. newRows'[h] = FreshRows(table, target[h], keyOf, ExpiryOf(req[h].dur, now))
    BY <1>1 DEF TypeOK
  <1>3. target[h] \subseteq Component /\ Reserved(newRows'[h]) = free
    BY InsertedRows DEF TypeOK, Reserved
  <1>4. \A c \in free : newRows'[h][c].key = keyOf[c]
    <2> SUFFICES ASSUME NEW c \in free PROVE newRows'[h][c].key = keyOf[c]
      OBVIOUS
    <2>1. newRows'[h][c] = [key |-> keyOf[c], expires |-> ExpiryOf(req[h].dur, now)]
      BY <1>2, <1>3 DEF FreshRows
    <2> QED  BY <2>1
  <1>5. KeysIn(newRows'[h]) = {keyOf[c] : c \in free}
    BY <1>3, <1>4 DEF KeysIn
  <1> QED  BY <1>1, <1>3, <1>4, <1>5

LEMMA KeepsKeys ==
  ASSUME TypeOK, Keeps
  PROVE  /\ KeysIn(table') \subseteq KeysIn(table)
         /\ \A h \in Handler : newRows'[h] = newRows[h] \/ newRows'[h] = EmptyTable
  <1>1. \A c \in Reserved(table') : c \in Reserved(table) /\ table'[c].key = table[c].key
    BY DEF Keeps, Renewed, Reserved
  <1>2. \A h \in Handler : newRows'[h] = newRows[h] \/ newRows'[h] = EmptyTable
    BY DEF Keeps, TxKeeps
  <1> QED  BY <1>1, <1>2 DEF KeysIn

LEMMA CommitKeys ==
  ASSUME TypeOK, NEW h \in Handler, CreateCommit(h)
  PROVE  KeysIn(table') \subseteq KeysIn(table) \cup KeysIn(newRows[h])
  BY CommitRows DEF KeysIn, Reserved

THEOREM KeyStep == LockInv /\ KeyInv /\ [Next]_vars => KeyInv'
  <1> SUFFICES ASSUME LockInv, KeyInv, [Next]_vars PROVE KeyInv'
    OBVIOUS
  <1>0. TypeOK /\ NoEarlyRows
    BY DEF LockInv, PendingRows, NoEarlyRows
  <1>1. CASE Keeps
    <2>1. issued' = issued
      BY <1>1 DEF Keeps
    <2> QED  BY <1>0, <1>1, <2>1, KeepsKeys, EmptyKeys, EmptyReserved DEF KeyInv
  <1>2. ASSUME NEW h \in Handler, Inserts(h) PROVE KeyInv'
    BY <1>0, <1>2, InsertedRows, InsertedKeys DEF KeyInv
  <1>3. ASSUME NEW h \in Handler, CreateCommit(h) PROVE KeyInv'
    BY <1>0, <1>3, CommitRows, CommitKeys, EmptyKeys, EmptyReserved DEF KeyInv
  <1> QED  BY <1>0, <1>1, <1>2, <1>3, StepKinds

Holder == [c \in Component |-> IF table[c] = NoRes THEN NoRes ELSE table[c].key]
Used == issued \ PendingKeys

LEMMA KeepsRefines ==
  ASSUME LockInv, KeyInv, Keeps
  PROVE  Lease!Lose
  <1> DEFINE C == {c \in Component : table'[c] = NoRes}
             K == PendingKeys \ PendingKeys'
  <1>0. TypeOK
    BY DEF LockInv
  <1>1. Holder' = [c \in Component |-> IF c \in C THEN NoRes ELSE Holder[c]]
    BY DEF Keeps, Renewed, Holder
  <1>2. PendingKeys' \subseteq PendingKeys
    BY <1>0, KeepsKeys, EmptyKeys DEF PendingKeys
  <1>3. PendingKeys \subseteq issued
    BY DEF KeyInv, PendingKeys
  <1>4. Used' = Used \cup K
    BY <1>2, <1>3 DEF Keeps, Used
  <1>5. K \in SUBSET Key /\ C \in SUBSET Component
    BY <1>0, <1>3 DEF TypeOK
  <1> QED  BY <1>1, <1>4, <1>5 DEF Lease!Lose, Holder, Used

LEMMA InsertRefines ==
  ASSUME LockInv, KeyInv, NEW h \in Handler, Inserts(h)
  PROVE  UNCHANGED <<Holder, Used>>
  <1>0. TypeOK /\ pc[h] = "insert"
    BY DEF LockInv, Inserts
  <1>1. newRows[h] = EmptyTable
    BY <1>0 DEF LockInv, PendingRows
  <1>2. PendingKeys' = PendingKeys \cup KeysIn(newRows'[h])
    BY <1>0, <1>1, InsertedRows, EmptyKeys DEF PendingKeys
  <1>3. issued' = issued \cup KeysIn(newRows'[h]) /\ KeysIn(newRows'[h]) \cap issued = {}
    BY <1>0, InsertedKeys
  <1>4. table' = table
    BY <1>0, InsertedRows
  <1> QED  BY <1>2, <1>3, <1>4 DEF Holder, Used

LEMMA CommitRefines ==
  ASSUME LockInv, KeyInv, NEW h \in Handler, CreateCommit(h)
  PROVE  Lease!Grant
  <1> DEFINE C == Reserved(newRows[h])
             keyOf == [c \in C |-> newRows[h][c].key]
  <1>0. TypeOK
    BY DEF LockInv
  <1>1. C \in SUBSET Component
    BY DEF Reserved
  <1>2. {keyOf[c] : c \in C} = KeysIn(newRows[h])
    BY DEF KeysIn
  <1>3. KeysIn(newRows[h]) \subseteq Key /\ KeysIn(newRows[h]) \subseteq PendingKeys
    BY <1>0, KeysAreKeys DEF TypeOK, PendingKeys
  <1>4. keyOf \in [C -> Key \ Used]
    BY <1>2, <1>3 DEF Used
  <1>5. \A c \in C : Holder[c] = NoRes
    BY <1>1 DEF LockInv, PendingRows, Holder
  <1>6. \A c, d \in C : c # d => keyOf[c] # keyOf[d]
    BY DEF KeyInv
  <1>7. Holder' = [c \in Component |-> IF c \in C THEN keyOf[c] ELSE Holder[c]]
    BY <1>0, CommitRows DEF Holder, Reserved
  <1>8. PendingKeys' = PendingKeys \ KeysIn(newRows[h])
    BY <1>0, CommitRows, EmptyKeys DEF PendingKeys, KeyInv
  <1>9. KeysIn(newRows[h]) \subseteq issued /\ issued' = issued
    BY <1>0, CommitRows DEF KeyInv
  <1>10. Used' = Used \cup KeysIn(newRows[h])
    BY <1>3, <1>8, <1>9 DEF Used
  <1>11. DOMAIN keyOf = C
    OBVIOUS
  <1>12. Lease!Held(keyOf) = KeysIn(newRows[h])
    BY <1>2, <1>11 DEF Lease!Held
  <1> QED
    BY <1>1, <1>4, <1>5, <1>6, <1>7, <1>10, <1>12 DEF Lease!Grant, Holder, Used

THEOREM KeysHold == Spec => [](LockInv /\ KeyInv)
  <1>1. Init => KeyInv
    BY EmptyKeys, EmptyReserved DEF Init, KeyInv
  <1> QED  BY <1>1, LockInvHolds, KeyStep, PTL DEF Spec

(* The reservation calls give a component to at most one holder at a time, *)
(* and a key that has lost its component never regains it.                 *)
THEOREM LeaseRefined == Spec => RefinesLease
  <1>1. Init => Lease!Init
    <2> SUFFICES ASSUME Init PROVE Lease!Init
      OBVIOUS
    <2>1. \A c \in Component : table[c] = NoRes
      BY DEF Init, EmptyTable
    <2> QED  BY <2>1 DEF Init, Lease!Init
  <1>2. LockInv /\ KeyInv /\ [Next]_vars => [Lease!Next]_(Lease!leaseVars)
    <2> SUFFICES ASSUME LockInv, KeyInv, [Next]_vars
                 PROVE  [Lease!Next]_(Lease!leaseVars)
      OBVIOUS
    <2>0. TypeOK /\ NoEarlyRows
      BY DEF LockInv, PendingRows, NoEarlyRows
    <2>1. CASE Keeps
      BY <2>1, KeepsRefines DEF Lease!Next
    <2>2. ASSUME NEW h \in Handler, Inserts(h)
          PROVE  UNCHANGED Lease!leaseVars
      BY <2>2, InsertRefines DEF Lease!leaseVars, Holder, Used
    <2>3. ASSUME NEW h \in Handler, CreateCommit(h) PROVE Lease!Next
      BY <2>3, CommitRefines DEF Lease!Next
    <2> QED  BY <2>0, <2>1, <2>2, <2>3, StepKinds
  <1> QED  BY <1>1, <1>2, KeysHold, PTL DEF Spec, RefinesLease, Lease!Spec
===============================================================================
