------------------------------ MODULE CompState ------------------------------
(***************************************************************************)
(* The components table and the requests that update it                    *)
(* (UpdateCompStates, the BulkUpdateComp... family, UpsertComponents,      *)
(* SetChildCompStates... and DeleteComponent... in internal/hmsds), with   *)
(* the pool of database connections they share.                            *)
(*                                                                         *)
(* A transaction that first selects the rows it will change and then       *)
(* changes them takes two steps, because PostgreSQL runs at read committed *)
(* and only SetChildCompStates... selects FOR UPDATE.  The writing         *)
(* statement is the last but for the commit, and one step with it.         *)
(***************************************************************************)
EXTENDS Integers, FiniteSets

CONSTANTS
  Component,    \* xnames
  Tx,           \* handlers that serve requests at the same time
  Requests,     \* the requests that are made
  NoRequest,    \* of a handler that serves none
  MaxOpenConns, \* connections of the pool
  MaxRequests   \* bound on the model: requests made

HmsState == {"Unknown", "Empty", "Populated", "Off", "On", "Standby", "Halt", "Ready"}
HmsFlag == {"Unknown", "OK", "Warning", "Alert", "Locked"}
Op == {"state", "flag", "enabled", "children", "upsert", "delete"}

(* "bogus": is the state that is asked for no state at all?                *)
(* "other": does an upsert change columns that are not modelled?           *)
Request == [op : Op, ids : (SUBSET Component) \ {{}}, state : HmsState, flag : HmsFlag,
            enabled : BOOLEAN, force : BOOLEAN, bogus : BOOLEAN, other : BOOLEAN]

ASSUME CompStateAssumption ==
  /\ Requests \subseteq Request
  /\ NoRequest \notin Request
  /\ IsFiniteSet(Tx)
  /\ MaxOpenConns \in Nat \ {0} /\ MaxRequests \in Nat

VARIABLES
  comp,     \* the components table
  tx,       \* what each handler is doing
  leaked,   \* connections whose transactions were never ended
  refusals, \* bulk updates that were refused
  requests

vars == <<comp, tx, leaked, refusals, requests>>

NoRow == [state |-> "none", flag |-> "none", enabled |-> FALSE]
Row == [state : HmsState, flag : HmsFlag, enabled : BOOLEAN]

(* ids: the rows that were selected (affectedIDs); told: those that the    *)
(* notifications of the request will name.                                 *)
Idle == [at |-> "idle", req |-> NoRequest, ids |-> {}, told |-> {}]
Handler == [at : {"idle", "begin", "write", "notify"}, req : Requests \cup {NoRequest},
            ids : SUBSET Component, told : SUBSET Component]

TypeOK ==
  /\ comp \in [Component -> Row \cup {NoRow}]
  /\ tx \in [Tx -> Handler]
  /\ leaked \in 0 .. MaxOpenConns
  /\ refusals \in Nat
  /\ requests \in 0 .. MaxRequests

Init ==
  /\ comp = [c \in Component |-> [state |-> "On", flag |-> "OK", enabled |-> TRUE]]
  /\ tx = [t \in Tx |-> Idle]
  /\ leaked = 0
  /\ refusals = 0
  /\ requests = 0

-------------------------------------------------------------------------------
At(t, s) == tx[t].at = s
Exists(c) == comp[c] # NoRow

(* Begin blocks while all connections are in use. *)
InUse == leaked + Cardinality({t \in Tx : At(t, "write")})
CanBegin == InUse < MaxOpenConns

(* Mutant of RowLocks: nothing is locked. *)
NoLocks(t) == {}

(* Row locks: the FOR UPDATE of SetChildCompStates... *)
RowLocks(t) ==
  IF At(t, "write") /\ tx[t].req.op = "children" THEN tx[t].ids ELSE {}

Free(t, S) == \A u \in Tx \ {t} : S \cap RowLocks(u) = {}

(* States that an update may start from: none means "only by force". *)
ValidStartStates(s) ==
  CASE s = "Off" -> {"Off", "On", "Standby", "Halt", "Ready"}
    [] s = "On" -> {"On", "Off", "Standby", "Halt"}
    [] s = "Standby" -> {"Standby", "Ready"}
    [] s = "Halt" -> {"Halt", "Ready"}
    [] s = "Ready" -> {"Ready", "On", "Off", "Standby", "Halt"}
    [] OTHER -> {}

(* Ready with a warning is only for components that are Ready, even by force. *)
StartStates(r) ==
  CASE r.state = "Ready" /\ r.flag = "Warning" -> {"Ready"}
    [] r.force -> HmsState
    [] OTHER -> ValidStartStates(r.state)

(* A state that is none, or one that can only be forced. *)
Refused(r) == r.op = "state" /\ (r.bogus \/ StartStates(r) = {})

(* NotStateOrFlag *)
Differs(c, r) == comp[c].state # r.state \/ comp[c].flag # r.flag

(* The rows that the locking read of a bulk update, or the WHERE clause of *)
(* a single state update, finds.                                           *)
Selected(r) ==
  {c \in r.ids :
     /\ Exists(c)
     /\ \/ r.op = "state" /\ Differs(c, r) /\ comp[c].state \in StartStates(r)
        \/ r.op = "flag" /\ comp[c].flag # r.flag
        \/ r.op = "enabled" /\ comp[c].enabled # r.enabled
        \/ r.op = "children" /\ Differs(c, r)}

(* FlagCondNoChange: a state update does not take the flag Locked away. *)
NewFlag(row, r) == IF row.flag = "Locked" THEN row.flag ELSE r.flag

(* What the SET clause of the request makes of a row. *)
Updated(row, r) ==
  CASE r.op \in {"state", "children"} ->
         [row EXCEPT !.state = r.state, !.flag = NewFlag(row, r)]
    [] r.op = "flag" -> [row EXCEPT !.flag = r.flag]
    [] r.op = "enabled" -> [row EXCEPT !.enabled = r.enabled]

(* Mutant of Update: rows that are gone are written too. *)
UpdateAny(S, r) ==
  comp' = [c \in Component |-> IF c \in S THEN Updated(comp[c], r) ELSE comp[c]]

Update(S, r) ==
  comp' = [c \in Component |->
             IF c \in S /\ Exists(c) THEN Updated(comp[c], r) ELSE comp[c]]

Choose(t, S, N) ==
  tx' = [tx EXCEPT ![t] = [at |-> "write", req |-> tx[t].req, ids |-> S, told |-> N]]

Commit(t, N) ==
  tx' = [tx EXCEPT ![t] = [at |-> "notify", req |-> tx[t].req, ids |-> {}, told |-> N]]

-------------------------------------------------------------------------------
IsUpdate(r) == r.op \in {"state", "flag", "enabled"}
IsSingle(r) == Cardinality(r.ids) = 1

Receive(t, r) ==
  /\ At(t, "idle")
  /\ requests < MaxRequests
  /\ requests' = requests + 1
  /\ tx' = [tx EXCEPT ![t] = [at |-> "begin", req |-> r, ids |-> {}, told |-> {}]]
  /\ UNCHANGED <<comp, leaked, refusals>>

(* An update of one component is a single statement.  One of the flag or   *)
(* of enabled counts the row as changed whatever was there.                *)
SingleUpdate(t) ==
  LET r == tx[t].req
      S == IF r.op = "state" THEN Selected(r) ELSE {c \in r.ids : Exists(c)}
  IN  /\ At(t, "begin") /\ CanBegin
      /\ IsUpdate(r) /\ IsSingle(r) /\ ~ Refused(r)
      /\ Free(t, r.ids)
      /\ Update(S, r)
      /\ Commit(t, S)
      /\ UNCHANGED <<leaked, refusals, requests>>

(* The single update that is refused is rolled back, the bulk update       *)
(* returns with its transaction open.                                      *)
Refuse(t) ==
  LET r == tx[t].req
  IN  /\ At(t, "begin") /\ CanBegin
      /\ Refused(r)
      /\ IF IsSingle(r) THEN UNCHANGED <<leaked, refusals>>
         ELSE leaked' = leaked + 1 /\ refusals' = refusals + 1
      /\ tx' = [tx EXCEPT ![t] = Idle]
      /\ UNCHANGED <<comp, requests>>

(* The read of a bulk update takes no locks. *)
BulkSelect(t) ==
  LET r == tx[t].req
  IN  /\ At(t, "begin") /\ CanBegin
      /\ IsUpdate(r) /\ ~ IsSingle(r) /\ ~ Refused(r)
      /\ Choose(t, Selected(r), Selected(r))
      /\ UNCHANGED <<comp, leaked, refusals, requests>>

(* Mutant of BulkWrite: the rows are selected again by the ids asked for. *)
BulkWriteAgain(t) ==
  LET r == tx[t].req
  IN  /\ At(t, "write") /\ IsUpdate(r)
      /\ Free(t, r.ids)
      /\ Update(Selected(r), r)
      /\ Commit(t, tx[t].told)
      /\ UNCHANGED <<leaked, refusals, requests>>

(* Mutant of BulkWrite: of those selected, only rows that still qualify.  *)
BulkWriteChecked(t) ==
  LET r == tx[t].req
  IN  /\ At(t, "write") /\ IsUpdate(r)
      /\ Free(t, r.ids)
      /\ Update(tx[t].ids \cap Selected(r), r)
      /\ Commit(t, tx[t].told)
      /\ UNCHANGED <<leaked, refusals, requests>>

(* The rows that were selected are written without a second look. *)
BulkWrite(t) ==
  LET r == tx[t].req
  IN  /\ At(t, "write") /\ IsUpdate(r)
      /\ Free(t, tx[t].ids)
      /\ Update(tx[t].ids, r)
      /\ Commit(t, tx[t].told)
      /\ UNCHANGED <<leaked, refusals, requests>>

(* SetChildCompStates...: the components of an endpoint that is disabled   *)
(* or deleted become Empty; the rows are locked from the read on.          *)
ChildSelect(t) ==
  LET r == tx[t].req
  IN  /\ At(t, "begin") /\ CanBegin
      /\ r.op = "children"
      /\ Free(t, r.ids)
      /\ Choose(t, Selected(r), Selected(r))
      /\ UNCHANGED <<comp, leaked, refusals, requests>>

ChildWrite(t) ==
  /\ At(t, "write") /\ tx[t].req.op = "children"
  /\ Update(tx[t].ids, tx[t].req)
  /\ Commit(t, tx[t].told)
  /\ UNCHANGED <<leaked, refusals, requests>>

(* UpsertComponents: the read, without locks, decides what is new, what    *)
(* will be overwritten, and which changes of state will be told.           *)
UpsertSelect(t) ==
  LET r == tx[t].req
      changed == {c \in r.ids : Exists(c) => r.force /\ (Differs(c, r) \/ r.other)}
  IN  /\ At(t, "begin") /\ CanBegin
      /\ r.op = "upsert"
      /\ Choose(t, changed, {c \in changed : comp[c].state # r.state})
      /\ UNCHANGED <<comp, leaked, refusals, requests>>

(* InsertComponentsTx: on conflict, state and flag are overwritten. *)
UpsertWrite(t) ==
  LET r == tx[t].req
      Upserted(row) == [state |-> r.state, flag |-> r.flag,
                        enabled |-> IF row = NoRow THEN TRUE ELSE row.enabled]
  IN  /\ At(t, "write") /\ r.op = "upsert"
      /\ Free(t, tx[t].ids)
      /\ comp' = [c \in Component |->
                    IF c \in tx[t].ids THEN Upserted(comp[c]) ELSE comp[c]]
      /\ Commit(t, tx[t].told)
      /\ UNCHANGED <<leaked, refusals, requests>>

(* Deletions are not notified. *)
Delete(t) ==
  LET r == tx[t].req
  IN  /\ At(t, "begin") /\ CanBegin
      /\ r.op = "delete"
      /\ Free(t, r.ids)
      /\ comp' = [c \in Component |-> IF c \in r.ids THEN NoRow ELSE comp[c]]
      /\ Commit(t, {})
      /\ UNCHANGED <<leaked, refusals, requests>>

(* Mutant of Abort: an error return without its rollback. *)
AbortOpen(t) ==
  /\ At(t, "write")
  /\ tx' = [tx EXCEPT ![t] = Idle]
  /\ leaked' = leaked + 1
  /\ UNCHANGED <<comp, refusals, requests>>

(* The writing statement fails, and the transaction is rolled back. *)
Abort(t) ==
  /\ At(t, "write")
  /\ tx' = [tx EXCEPT ![t] = Idle]
  /\ UNCHANGED <<comp, leaked, refusals, requests>>

(* The notification is queued and the request answered. *)
Notify(t) ==
  /\ At(t, "notify")
  /\ tx' = [tx EXCEPT ![t] = Idle]
  /\ UNCHANGED <<comp, leaked, refusals, requests>>

-------------------------------------------------------------------------------
Serve(t) ==
  \/ SingleUpdate(t) \/ Refuse(t)
  \/ BulkSelect(t) \/ BulkWrite(t)
  \/ ChildSelect(t) \/ ChildWrite(t)
  \/ UpsertSelect(t) \/ UpsertWrite(t)
  \/ Delete(t)
  \/ Notify(t)

Next ==
  \E t \in Tx :
    \/ \E r \in Requests : Receive(t, r)
    \/ Serve(t)
    \/ Abort(t)

Spec == Init /\ [][Next]_vars

(* Handlers run; a row lock or a connection that stays free is taken. *)
FairSpec == Spec /\ \A t \in Tx : WF_vars(Serve(t) \/ Abort(t))
-------------------------------------------------------------------------------
(* t commits what it has written. *)
Commits(t) == ~ At(t, "notify") /\ At(t, "notify")'

(* What a bulk update is for: every component whose state or enabled it    *)
(* changes is named by its notification, whatever other requests do        *)
(* between its read and its write.  An upsert is not held to this: what it *)
(* tells was decided by a read that locked nothing.                        *)
EveryUpdateReported ==
  [][\A c \in Component, t \in Tx :
       (Commits(t) /\ tx[t].req.op # "upsert" /\ Exists(c) /\ Exists(c)'
          /\ (comp'[c].state # comp[c].state \/ comp'[c].enabled # comp[c].enabled))
         => c \in tx'[t].told]_vars

(* The components of an endpoint that is being removed stay as they were   *)
(* read, until they are all made Empty: no state update, upsert or delete  *)
(* of another request comes in between.                                    *)
ChildrenHold ==
  [][\A t \in Tx :
       (At(t, "write") /\ tx[t].req.op = "children" /\ At(t, "write")')
         => \A c \in tx[t].ids : comp'[c] = comp[c]]_vars

(* What a notification says is so when its request commits: the components *)
(* it names, if they are still there, have the state or the enabled of the *)
(* request, even those that others have changed since they were selected.  *)
NoticeIsTrue ==
  [][\A t \in Tx : Commits(t) => \A c \in tx'[t].told :
       LET r == tx[t].req
       IN  Exists(c)' => CASE r.op = "enabled" -> comp'[c].enabled = r.enabled
                           [] r.op = "flag" -> comp'[c].flag = r.flag
                           [] OTHER -> comp'[c].state = r.state]_vars

(* Every request is answered: nobody waits for a row lock or a connection  *)
(* that is never given back, however others fail, wait for each other or   *)
(* are refused, as long as fewer bulk updates have been refused than the   *)
(* pool has connections.  Those are the only ones to lose a connection.    *)
RequestFinishes ==
  \A t \in Tx : ~ At(t, "idle") ~> At(t, "idle") \/ refusals >= MaxOpenConns

(* What the comments on the start states and on the locking read say: a    *)
(* state update changes the state of a component only from a state that it *)
(* may start from.                                                         *)
LegalTransition ==
  [][\A c \in Component, t \in Tx :
       (Commits(t) /\ tx[t].req.op = "state" /\ Exists(c)
          /\ comp'[c].state # comp[c].state)
         => comp[c].state \in StartStates(tx[t].req)]_vars

(* What the comment in Begin says: the pool does not run out of            *)
(* connections for good, whatever states the requests ask for.             *)
BeginSucceeds ==
  \A t \in Tx : At(t, "begin") ~> ~ At(t, "begin")
===============================================================================
