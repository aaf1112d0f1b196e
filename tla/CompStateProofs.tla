--------------------------- MODULE CompStateProofs ---------------------------
(***************************************************************************)
(* Proofs about CompState, for any components, any requests and any number *)
(* of handlers and connections: what notifications say agrees with what is *)
(* written, however the requests interleave, and the row locks of          *)
(* SetChildCompStates... hold the rows it has read until they are written. *)
(***************************************************************************)
EXTENDS CompState, FiniteSetTheorems, TLAPS

(* A handler that is not idle serves one of the requests. *)
Serving == \A t \in Tx : ~ At(t, "idle") => tx[t].req \in Requests

(* A row is locked by one handler at a time. *)
LocksExclusive ==
  \A t, u \in Tx : t # u => RowLocks(t) \cap RowLocks(u) = {}

(* What will be told was selected, and but for upserts it is all of it. *)
ToldSelected ==
  \A t \in Tx : At(t, "write") =>
    /\ tx[t].told \subseteq tx[t].ids
    /\ tx[t].req.op # "upsert" => tx[t].told = tx[t].ids

Inv == TypeOK /\ Serving /\ LocksExclusive /\ ToldSelected

-------------------------------------------------------------------------------
(* The read of a bulk update, or the WHERE clause of a single one, finds   *)
(* only rows that the request names and that exist.                        *)
LEMMA SelectedRows ==
  ASSUME NEW r
  PROVE  Selected(r) \subseteq {c \in r.ids : Exists(c)}
BY DEF Selected

(* A row that is updated stays a row. *)
LEMMA UpdatedIsRow ==
  ASSUME NEW r \in Request, NEW row \in Row, r.op \notin {"upsert", "delete"}
  PROVE  Updated(row, r) \in Row
BY DEF Request, Op, Row, Updated, NewFlag

(* An update leaves the table a table. *)
LEMMA UpdateKeepsType ==
  ASSUME comp \in [Component -> Row \cup {NoRow}], NEW r \in Request,
         r.op \notin {"upsert", "delete"}, NEW S, Update(S, r)
  PROVE  comp' \in [Component -> Row \cup {NoRow}]
<1>1. ASSUME NEW c \in Component, Exists(c)
      PROVE  Updated(comp[c], r) \in Row
  BY <1>1, UpdatedIsRow DEF Exists
<1>2. QED
  BY <1>1 DEF Update

(* The requests are requests. *)
LEMMA ServedIsRequest ==
  ASSUME TypeOK, Serving, NEW t \in Tx, ~ At(t, "idle")
  PROVE  tx[t].req \in Request /\ tx[t].req.ids \subseteq Component
BY CompStateAssumption DEF Serving, Request

-------------------------------------------------------------------------------
(* Init establishes the invariant. *)
LEMMA InitInv == Init => Inv
<1> SUFFICES ASSUME Init PROVE Inv
  OBVIOUS
<1>1. TypeOK
  BY CompStateAssumption DEF Init, TypeOK, Row, HmsState, HmsFlag, Handler, Idle
<1>2. Serving /\ LocksExclusive /\ ToldSelected
  BY DEF Init, Serving, LocksExclusive, ToldSelected, RowLocks, At, Idle
<1>3. QED
  BY <1>1, <1>2 DEF Inv

(* Every step keeps the types.                                             *)
LEMMA TypeStep ==
  ASSUME TypeOK, Serving, Next
  PROVE  TypeOK'
<1> USE DEF TypeOK, At
<1>1. ASSUME NEW t \in Tx, NEW r \in Requests, Receive(t, r)
      PROVE  TypeOK'
  BY <1>1, CompStateAssumption DEF Receive, Handler
<1>2. ASSUME NEW t \in Tx, SingleUpdate(t)
      PROVE  TypeOK'
  <2> DEFINE r == tx[t].req
             S == IF r.op = "state" THEN Selected(r) ELSE {c \in r.ids : Exists(c)}
  <2>1. r \in Request /\ r.ids \subseteq Component
    BY <1>2, ServedIsRequest DEF SingleUpdate
  <2>2. comp' \in [Component -> Row \cup {NoRow}]
    BY <1>2, <2>1, UpdateKeepsType DEF SingleUpdate, IsUpdate
  <2>3. S \subseteq Component
    BY <2>1, SelectedRows
  <2>4. tx' \in [Tx -> Handler]
    BY <1>2, <2>3 DEF SingleUpdate, Commit, Handler
  <2>5. QED
    BY <1>2, <2>2, <2>4 DEF SingleUpdate
<1>3. ASSUME NEW t \in Tx, Refuse(t)
      PROVE  TypeOK'
  <2>1. leaked' \in 0 .. MaxOpenConns
    <3>1. IsFiniteSet({u \in Tx : At(u, "write")})
      BY CompStateAssumption, FS_Subset
    <3>2. Cardinality({u \in Tx : At(u, "write")}) \in Nat
      BY <3>1, FS_CardinalityType
    <3>3. leaked < MaxOpenConns
      BY <1>3, <3>2, CompStateAssumption DEF Refuse, CanBegin, InUse
    <3>4. QED
      BY <1>3, <3>3, CompStateAssumption DEF Refuse
  <2>2. QED
    BY <1>3, <2>1 DEF Refuse, Handler, Idle
<1>4. ASSUME NEW t \in Tx, BulkSelect(t) \/ ChildSelect(t)
      PROVE  TypeOK'
  <2>1. Selected(tx[t].req) \subseteq Component
    BY <1>4, ServedIsRequest, SelectedRows DEF BulkSelect, ChildSelect
  <2>2. QED
    BY <1>4, <2>1 DEF BulkSelect, ChildSelect, Choose, Handler
<1>5. ASSUME NEW t \in Tx, BulkWrite(t) \/ ChildWrite(t)
      PROVE  TypeOK'
  <2>1. tx[t].req \in Request
    BY <1>5, ServedIsRequest DEF BulkWrite, ChildWrite
  <2>2. comp' \in [Component -> Row \cup {NoRow}]
    BY <1>5, <2>1, UpdateKeepsType DEF BulkWrite, ChildWrite, IsUpdate
  <2>3. QED
    BY <1>5, <2>2 DEF BulkWrite, ChildWrite, Commit, Handler
<1>6. ASSUME NEW t \in Tx, UpsertSelect(t)
      PROVE  TypeOK'
  <2>1. tx[t].req.ids \subseteq Component
    BY <1>6, ServedIsRequest DEF UpsertSelect
  <2>2. QED
    BY <1>6, <2>1 DEF UpsertSelect, Choose, Handler
<1>7. ASSUME NEW t \in Tx, UpsertWrite(t)
      PROVE  TypeOK'
  <2>1. tx[t].req.state \in HmsState /\ tx[t].req.flag \in HmsFlag
    BY <1>7, ServedIsRequest DEF UpsertWrite, Request
  <2>2. comp' \in [Component -> Row \cup {NoRow}]
    BY <1>7, <2>1 DEF UpsertWrite, Row
  <2>3. QED
    BY <1>7, <2>2 DEF UpsertWrite, Commit, Handler
<1>8. ASSUME NEW t \in Tx, Delete(t)
      PROVE  TypeOK'
  BY <1>8 DEF Delete, Commit, Handler
<1>9. ASSUME NEW t \in Tx, Notify(t) \/ Abort(t)
      PROVE  TypeOK'
  BY <1>9 DEF Notify, Abort, Handler, Idle
<1>10. QED
  BY <1>1, <1>2, <1>3, <1>4, <1>5, <1>6, <1>7, <1>8, <1>9 DEF Next, Serve

(* A step of a handler changes that handler only: it ends, or goes on to   *)
(* write or to notify with the same request.                               *)
LEMMA HandlerStep ==
  ASSUME TypeOK, NEW t \in Tx, Serve(t) \/ Abort(t)
  PROVE  /\ ~ At(t, "idle")
         /\ \/ tx' = [tx EXCEPT ![t] = Idle]
            \/ \E S, N : Choose(t, S, N)
            \/ \E N : Commit(t, N)
<1>1. CASE BulkSelect(t) \/ ChildSelect(t) \/ UpsertSelect(t)
  BY <1>1 DEF BulkSelect, ChildSelect, UpsertSelect, At
<1>2. CASE SingleUpdate(t) \/ BulkWrite(t) \/ ChildWrite(t) \/ UpsertWrite(t) \/ Delete(t)
  BY <1>2 DEF SingleUpdate, BulkWrite, ChildWrite, UpsertWrite, Delete, At
<1>3. CASE Refuse(t) \/ Notify(t) \/ Abort(t)
  BY <1>3 DEF Refuse, Notify, Abort, At
<1>4. QED
  BY <1>1, <1>2, <1>3 DEF Serve

(* A handler goes on with the request that it has received.                *)
LEMMA ServingStep ==
  ASSUME TypeOK, Serving, Next
  PROVE  Serving'
<1>1. ASSUME NEW t \in Tx, NEW r \in Requests, Receive(t, r)
      PROVE  Serving'
  BY <1>1 DEF Receive, Serving, At, TypeOK
<1>2. ASSUME NEW t \in Tx, Serve(t) \/ Abort(t)
      PROVE  Serving'
  BY <1>2, HandlerStep DEF Serving, At, TypeOK, Choose, Commit, Idle
<1>3. QED
  BY <1>1, <1>2 DEF Next

(* Only the read of SetChildCompStates... takes row locks.                 *)
LEMMA LockTaken ==
  ASSUME TypeOK, NEW t \in Tx, Serve(t) \/ Abort(t)
  PROVE  RowLocks(t)' = {} \/ ChildSelect(t)
<1>1. CASE \E N : Commit(t, N)
  BY <1>1 DEF Commit, RowLocks, At, TypeOK
<1>2. CASE tx' = [tx EXCEPT ![t] = Idle]
  BY <1>2 DEF RowLocks, At, TypeOK, Idle
<1>3. CASE BulkSelect(t) \/ UpsertSelect(t)
  BY <1>3 DEF BulkSelect, UpsertSelect, Choose, IsUpdate, RowLocks, At, TypeOK
<1>4. CASE Refuse(t) \/ Notify(t) \/ Abort(t)
  BY <1>4, <1>2 DEF Refuse, Notify, Abort
<1>5. CASE SingleUpdate(t) \/ BulkWrite(t) \/ ChildWrite(t) \/ UpsertWrite(t) \/ Delete(t)
  BY <1>5, <1>1 DEF SingleUpdate, BulkWrite, ChildWrite, UpsertWrite, Delete
<1>6. QED
  BY <1>3, <1>4, <1>5 DEF Serve

(* Row locks stay exclusive.                                               *)
LEMMA LocksStep ==
  ASSUME TypeOK, LocksExclusive, Next
  PROVE  LocksExclusive'
<1>1. ASSUME NEW t \in Tx, NEW r \in Requests, Receive(t, r)
      PROVE  LocksExclusive'
  BY <1>1 DEF Receive, LocksExclusive, RowLocks, At, TypeOK
<1>2. ASSUME NEW t \in Tx, Serve(t) \/ Abort(t)
      PROVE  LocksExclusive'
  <2>1. ASSUME NEW u \in Tx, u # t
        PROVE  tx'[u] = tx[u] /\ RowLocks(u)' = RowLocks(u)
    BY <1>2, <2>1, HandlerStep DEF Choose, Commit, RowLocks, At, TypeOK
  <2>2. CASE RowLocks(t)' = {}
    BY <2>1, <2>2 DEF LocksExclusive
  <2>3. CASE ChildSelect(t)
    <3>1. RowLocks(t)' \subseteq tx[t].req.ids
      BY <2>3, SelectedRows DEF ChildSelect, Choose, RowLocks, At, TypeOK
    <3>2. \A u \in Tx \ {t} : RowLocks(t)' \cap RowLocks(u) = {}
      BY <2>3, <3>1 DEF ChildSelect, Free
    <3>3. QED
      BY <2>1, <3>2 DEF LocksExclusive
  <2>4. QED
    BY <1>2, <2>2, <2>3, LockTaken
<1>3. QED
  BY <1>1, <1>2 DEF Next

(* What will be told stays among what was selected.                        *)
LEMMA ToldStep ==
  ASSUME TypeOK, ToldSelected, Next
  PROVE  ToldSelected'
<1>1. ASSUME NEW t \in Tx, NEW r \in Requests, Receive(t, r)
      PROVE  ToldSelected'
  BY <1>1 DEF Receive, ToldSelected, At, TypeOK
<1>2. ASSUME NEW t \in Tx, Serve(t) \/ Abort(t)
      PROVE  ToldSelected'
  <2>1. ASSUME NEW u \in Tx, u # t
        PROVE  tx'[u] = tx[u]
    BY <1>2, <2>1, HandlerStep DEF Choose, Commit, TypeOK
  <2>2. CASE tx' = [tx EXCEPT ![t] = Idle] \/ \E N : Commit(t, N)
    BY <2>1, <2>2 DEF Commit, Idle, ToldSelected, At, TypeOK
  <2>3. CASE BulkSelect(t) \/ ChildSelect(t)
    BY <2>1, <2>3 DEF BulkSelect, ChildSelect, Choose, ToldSelected, At, TypeOK
  <2>4. CASE UpsertSelect(t)
    BY <2>1, <2>4 DEF UpsertSelect, Choose, ToldSelected, At, TypeOK
  <2>5. CASE Refuse(t) \/ Notify(t) \/ Abort(t)
    BY <2>5, <2>2 DEF Refuse, Notify, Abort
  <2>6. CASE SingleUpdate(t) \/ BulkWrite(t) \/ ChildWrite(t) \/ UpsertWrite(t) \/ Delete(t)
    BY <2>6, <2>2 DEF SingleUpdate, BulkWrite, ChildWrite, UpsertWrite, Delete
  <2>7. QED
    BY <1>2, <2>3, <2>4, <2>5, <2>6 DEF Serve
<1>3. QED
  BY <1>1, <1>2 DEF Next

(* The invariant is inductive.                                             *)
THEOREM Invariance == Spec => []Inv
<1>1. Init => Inv
  BY InitInv
<1>2. Inv /\ [Next]_vars => Inv'
  <2> SUFFICES ASSUME Inv, [Next]_vars PROVE Inv'
    OBVIOUS
  <2>1. CASE Next
    BY <2>1, TypeStep, ServingStep, LocksStep, ToldStep DEF Inv
  <2>2. CASE UNCHANGED vars
    BY <2>2 DEF Inv, vars, TypeOK, Serving, LocksExclusive, ToldSelected, RowLocks, At
  <2>3. QED
    BY <2>1, <2>2
<1>3. QED
  BY <1>1, <1>2, PTL DEF Spec

(* Every variable of CompState keeps its type.                             *)
THEOREM TypeCorrect == Spec => []TypeOK
<1>1. Inv => TypeOK
  BY DEF Inv
<1>2. QED
  BY <1>1, Invariance, PTL

-------------------------------------------------------------------------------
(* A step writes only rows that no other handler has locked.               *)
LEMMA WritesUnlocked ==
  ASSUME Inv, NEW u \in Tx, Serve(u) \/ Abort(u),
         NEW c \in Component, comp'[c] # comp[c],
         NEW t \in Tx, t # u
  PROVE  c \notin RowLocks(t)
<1> USE DEF Inv, TypeOK
<1>1. CASE SingleUpdate(u)
  BY <1>1, SelectedRows DEF SingleUpdate, Update, Free
<1>2. CASE BulkWrite(u)
  BY <1>2 DEF BulkWrite, Update, Free
<1>3. CASE ChildWrite(u)
  BY <1>3 DEF ChildWrite, Update, LocksExclusive, RowLocks
<1>4. CASE UpsertWrite(u)
  BY <1>4 DEF UpsertWrite, Free
<1>5. CASE Delete(u)
  BY <1>5 DEF Delete, Free
<1>6. QED
  BY <1>1, <1>2, <1>3, <1>4, <1>5
     DEF Serve, Refuse, BulkSelect, ChildSelect, UpsertSelect, Notify, Abort

(* The rows that SetChildCompStates... has read stay as they are until it  *)
(* writes them.                                                            *)
THEOREM ChildrenStay == Spec => ChildrenHold
<1> DEFINE Hold == \A t \in Tx :
             (At(t, "write") /\ tx[t].req.op = "children" /\ At(t, "write")')
               => \A c \in tx[t].ids : comp'[c] = comp[c]
<1>1. Inv /\ [Next]_vars => Hold
  <2> SUFFICES ASSUME Inv, [Next]_vars,
                      NEW t \in Tx, At(t, "write"), tx[t].req.op = "children",
                      At(t, "write")', NEW c \in tx[t].ids
               PROVE  comp'[c] = comp[c]
    OBVIOUS
  <2>1. c \in RowLocks(t) /\ c \in Component
    BY DEF RowLocks, Inv, TypeOK, Handler
  <2>2. ASSUME NEW u \in Tx, Serve(u) \/ Abort(u), u # t
        PROVE  comp'[c] = comp[c]
    BY <2>1, <2>2, WritesUnlocked
  <2>3. ASSUME Serve(t) \/ Abort(t)
        PROVE  comp'[c] = comp[c]
    <3>1. ~ BulkWrite(t) /\ ~ UpsertWrite(t)
      BY DEF BulkWrite, UpsertWrite, IsUpdate
    <3>2. ~ ChildWrite(t) /\ ~ SingleUpdate(t) /\ ~ Delete(t)
      BY DEF ChildWrite, SingleUpdate, Delete, Commit, At, Inv, TypeOK
    <3>3. QED
      BY <2>3, <3>1, <3>2
         DEF Serve, Refuse, BulkSelect, ChildSelect, UpsertSelect, Notify, Abort
  <2>4. ASSUME NEW u \in Tx, NEW r \in Requests, Receive(u, r)
        PROVE  comp'[c] = comp[c]
    BY <2>4 DEF Receive
  <2>5. QED
    BY <2>2, <2>3, <2>4 DEF Next, vars
<1>2. QED
  BY <1>1, Invariance, PTL DEF Spec, ChildrenHold

(* A commit is the last step of one of the writing actions.                *)
LEMMA CommitSteps ==
  ASSUME Inv, [Next]_vars, NEW t \in Tx, Commits(t)
  PROVE  SingleUpdate(t) \/ BulkWrite(t) \/ ChildWrite(t) \/ UpsertWrite(t) \/ Delete(t)
<1> USE DEF Inv, TypeOK, Commits, At
<1>1. ASSUME NEW u \in Tx, NEW r \in Requests, Receive(u, r)
      PROVE  FALSE
  BY <1>1 DEF Receive
<1>2. ASSUME NEW u \in Tx, u # t, Serve(u) \/ Abort(u)
      PROVE  FALSE
  BY <1>2, HandlerStep DEF Choose, Commit
<1>3. CASE Serve(t) \/ Abort(t)
  BY <1>3 DEF Serve, Refuse, BulkSelect, ChildSelect, UpsertSelect, Notify, Abort,
              Choose, Idle
<1>4. QED
  BY <1>1, <1>2, <1>3 DEF Next, vars

(* Whatever happens between the read and the write of a bulk update, the   *)
(* components that it changes are those that its notification names.       *)
THEOREM UpdatesReported == Spec => EveryUpdateReported
<1> DEFINE Reported == \A c \in Component, t \in Tx :
             (Commits(t) /\ tx[t].req.op # "upsert" /\ Exists(c) /\ Exists(c)'
                /\ (comp'[c].state # comp[c].state \/ comp'[c].enabled # comp[c].enabled))
               => c \in tx'[t].told
<1>1. Inv /\ [Next]_vars => Reported
  <2> SUFFICES ASSUME Inv, [Next]_vars, NEW c \in Component, NEW t \in Tx, Commits(t),
                      tx[t].req.op # "upsert", Exists(c)', comp'[c] # comp[c]
               PROVE  c \in tx'[t].told
    OBVIOUS
  <2> USE DEF Inv, TypeOK
  <2>1. CASE SingleUpdate(t)
    BY <2>1 DEF SingleUpdate, Update, Commit
  <2>2. CASE BulkWrite(t) \/ ChildWrite(t)
    BY <2>2 DEF BulkWrite, ChildWrite, Update, Commit, ToldSelected
  <2>3. CASE Delete(t)
    BY <2>3 DEF Delete, Exists
  <2>4. QED
    BY <2>1, <2>2, <2>3, CommitSteps DEF UpsertWrite
<1>2. QED
  BY <1>1, Invariance, PTL DEF Spec, EveryUpdateReported

(* An updated row has the values that the request asks for.                *)
LEMMA UpdatedValue ==
  ASSUME NEW r \in Request, NEW row \in Row, r.op \notin {"upsert", "delete"}
  PROVE  CASE r.op = "enabled" -> Updated(row, r).enabled = r.enabled
           [] r.op = "flag" -> Updated(row, r).flag = r.flag
           [] OTHER -> Updated(row, r).state = r.state
BY DEF Request, Op, Row, Updated

(* A notification says nothing that is not so when its request commits.    *)
THEOREM NoticesTrue == Spec => NoticeIsTrue
<1> DEFINE Value(r, row) == CASE r.op = "enabled" -> row.enabled = r.enabled
                              [] r.op = "flag" -> row.flag = r.flag
                              [] OTHER -> row.state = r.state
           Truthful == \A t \in Tx : Commits(t) => \A c \in tx'[t].told :
             LET r == tx[t].req
             IN  Exists(c)' => CASE r.op = "enabled" -> comp'[c].enabled = r.enabled
                                 [] r.op = "flag" -> comp'[c].flag = r.flag
                                 [] OTHER -> comp'[c].state = r.state
<1>1. Inv /\ [Next]_vars => Truthful
  <2> SUFFICES ASSUME Inv, [Next]_vars, NEW t \in Tx, Commits(t),
                      NEW c \in tx'[t].told, Exists(c)'
               PROVE  Value(tx[t].req, comp'[c])
    OBVIOUS
  <2> USE DEF Inv, TypeOK
  <2>1. ASSUME NEW S, c \in S, c \in Component, tx[t].req \in Request,
               tx[t].req.op \notin {"upsert", "delete"}, Update(S, tx[t].req)
        PROVE  Value(tx[t].req, comp'[c])
    <3>1. Exists(c) /\ comp'[c] = Updated(comp[c], tx[t].req)
      BY <2>1 DEF Update, Exists
    <3>2. comp[c] \in Row
      BY <2>1, <3>1 DEF Exists
    <3>3. QED
      BY <2>1, <3>1, <3>2, UpdatedValue
  <2>2. tx'[t].told \subseteq Component /\ tx[t].req \in Request
    <3>1. TypeOK'
      BY TypeStep DEF vars
    <3>2. ~ At(t, "idle")
      BY CommitSteps DEF SingleUpdate, BulkWrite, ChildWrite, UpsertWrite, Delete, At
    <3>3. QED
      BY <3>1, <3>2, ServedIsRequest DEF Handler
  <2>3. CASE SingleUpdate(t)
    BY <2>1, <2>2, <2>3 DEF SingleUpdate, Commit, IsUpdate
  <2>4. CASE BulkWrite(t) \/ ChildWrite(t)
    BY <2>1, <2>2, <2>4 DEF BulkWrite, ChildWrite, Commit, ToldSelected, IsUpdate
  <2>5. CASE UpsertWrite(t)
    BY <2>2, <2>5 DEF UpsertWrite, Commit, ToldSelected
  <2>6. CASE Delete(t)
    BY <2>6 DEF Delete, Commit
  <2>7. QED
    BY <2>3, <2>4, <2>5, <2>6, CommitSteps
<1>2. QED
  BY <1>1, Invariance, PTL DEF Spec, NoticeIsTrue
===============================================================================
