--------------------------- MODULE ReservationClient ---------------------------
(***************************************************************************)
(* The reservation library that services link in                           *)
(* (pkg/service-reservations): application goroutines acquire and release  *)
(* reservations, a renewal goroutine keeps the ones in reservedMap alive.  *)
(* All of them talk to the lock service over HTTP and share reservedMap.   *)
(*                                                                         *)
(* A call is three steps: the request is made from what the map holds, the *)
(* server serves it (CompLocks, here one step on the table), the answer is *)
(* applied to the map.  Answers may be lost, and then the HTTP client      *)
(* sends the request again, or gives up; the whole call has 40 seconds,    *)
(* and no reservation is for less than a minute.  Times are kept as the    *)
(* time left, so an expiration in a delayed answer grows old with it.      *)
(***************************************************************************)
EXTENDS ReservationTable

CONSTANTS
  Caller,      \* application goroutines
  Renewer,     \* the goroutine of doRenewal
  Other,       \* the key of any other client
  Missing,     \* xnames that HSM has no component for
  Term,        \* defaultTermMinutes
  Window,      \* DefaultExpirationWindow
  Timeout      \* of a call

ASSUME ClientAssumption ==
  /\ Renewer \notin Caller
  /\ Other \notin Key
  /\ Missing \subseteq Component
  /\ NoRes \notin [key : Key \cup {Other}, left : -1 .. Term]
  /\ Term \in Nat /\ Window \in Nat /\ Timeout \in 1 .. Term - 1

VARIABLES
  table,         \* the server's reservations, with the time they have left
  reservedMap,   \* Production.reservedMap
  saved,         \* what the application has stored of Status()
  pc,            \* where each goroutine is in its call
  call,          \* the request it has made
  answer,        \* the response that is on its way to it
  forfeit        \* keys whose reservation was released or removed by force

callVars == <<pc, call, answer>>
vars == <<table, reservedMap, saved, callVars, forfeit>>

Process == Caller \cup {Renewer}

(* A local entry is dropped once its expiration has passed (-1). *)
Entry == [key : Key, left : -1 .. Term]
LocalMap == [Component -> Entry \cup {NoRes}]
Row == [key : Key \cup {Other}, left : 0 .. Term]
Op == {"none", "create", "release", "renew", "reacquire", "check"}
Call == [op : Op, rigid : BOOLEAN, ids : SUBSET Component, held : LocalMap, left : 0 .. Timeout]
Answer == [ok : BOOLEAN, rows : LocalMap, failed : SUBSET Component]

NoCall == [op |-> "none", rigid |-> FALSE, ids |-> {}, held |-> EmptyTable, left |-> Timeout]
Refused == [ok |-> FALSE, rows |-> EmptyTable, failed |-> {}]

TypeOK ==
  /\ table \in [Component -> Row \cup {NoRes}]
  /\ reservedMap \in LocalMap
  /\ saved \in LocalMap
  /\ pc \in [Process -> {"idle", "scan", "sent", "served"}]
  /\ call \in [Process -> Call]
  /\ answer \in [Process -> Answer]
  /\ forfeit \subseteq Key

Init ==
  /\ table = EmptyTable
  /\ reservedMap = EmptyTable
  /\ saved = EmptyTable
  /\ pc = [p \in Process |-> "idle"]
  /\ call = [p \in Process |-> NoCall]
  /\ answer = [p \in Process |-> Refused]
  /\ forfeit = {}

-------------------------------------------------------------------------------
Only(m, C) == [c \in Component |-> IF c \in C THEN m[c] ELSE NoRes]

(* Mutant of Found: the rows are found by xname. *)
FoundByName(m) == Reserved(m) \cap Reserved(table)

(* The rows that carry the keys of m: what a keyed request finds. *)
Found(m) == {c \in Reserved(m) \cap Reserved(table) : table[c].key = m[c].key}

(* A request carries keys and no expirations. *)
KeysOnly(m) ==
  [c \in Component |-> IF m[c] = NoRes THEN NoRes ELSE [m[c] EXCEPT !.left = -1]]

(* uuid.New() produces no key that is in use.  A key nobody has can stand  *)
(* for a new one.  Bound on the model: there is no more of them.           *)
KeysInUse ==
  KeysIn(table) \cup KeysIn(reservedMap) \cup KeysIn(saved)
    \cup UNION {KeysIn(call[p].held) \cup KeysIn(answer[p].rows) : p \in Process}

NewKeys(C) == {f \in [C -> Key \ KeysInUse] : \A c, d \in C : f[c] = f[d] => c = d}

(* The goroutine makes a request. *)
Send(p, op, rigid, ids, held) ==
  /\ pc' = [pc EXCEPT ![p] = "sent"]
  /\ call' = [call EXCEPT ![p] = [op |-> op, rigid |-> rigid, ids |-> ids, held |-> held,
                                  left |-> Timeout]]
  /\ UNCHANGED <<table, saved, answer>>

(* The call is over; the renewal goroutine goes on to scan the map after   *)
(* its check, whatever came of it.                                         *)
Return(p) ==
  /\ pc' = [pc EXCEPT ![p] = IF call[p].op = "check" THEN "scan" ELSE "idle"]
  /\ call' = [call EXCEPT ![p] = NoCall]
  /\ answer' = [answer EXCEPT ![p] = Refused]
  /\ UNCHANGED <<table, saved>>

-------------------------------------------------------------------------------
(* The application *)

(* Aquire is rigid, FlexAquire is not. *)
Aquire(p, ids, rigid) ==
  /\ pc[p] = "idle" /\ ids # {}
  /\ Send(p, "create", rigid, ids, EmptyTable)
  /\ UNCHANGED <<reservedMap, forfeit>>

(* Release fails at once unless the map has every xname; FlexRelease asks  *)
(* for those the map has.  Both send a flexible request.                   *)
Release(p, ids) ==
  /\ pc[p] = "idle" /\ ids # {}
  /\ ids \subseteq Reserved(reservedMap)
  /\ Send(p, "release", FALSE, ids, KeysOnly(Only(reservedMap, ids)))
  /\ UNCHANGED <<reservedMap, forfeit>>

(* Reacquire with reservations stored earlier: they are renewed first. *)
Reacquire(p, ids, rigid) ==
  /\ pc[p] = "idle" /\ ids # {}
  /\ ids \subseteq Reserved(saved)
  /\ Send(p, "reacquire", rigid, ids, Only(saved, ids))
  /\ UNCHANGED <<reservedMap, forfeit>>

(* Status: the application keeps a copy of the map. *)
Status ==
  /\ saved' = reservedMap
  /\ UNCHANGED <<table, reservedMap, callVars, forfeit>>

(* The application's process dies and starts again: Init makes a new map.  *)
(* (Reading the map while another goroutine writes it may end like this.)  *)
Restart ==
  /\ reservedMap' = EmptyTable
  /\ pc' = [p \in Process |-> "idle"]
  /\ call' = [p \in Process |-> NoCall]
  /\ answer' = [p \in Process |-> Refused]
  /\ UNCHANGED <<table, saved, forfeit>>

-------------------------------------------------------------------------------
(* The renewal goroutine: doRenewal *)

(* update: check every reservation in the map. *)
UpdateStart ==
  /\ pc[Renewer] = "idle"
  /\ Reserved(reservedMap) # {}
  /\ Send(Renewer, "check", FALSE, Reserved(reservedMap), KeysOnly(reservedMap))
  /\ UNCHANGED <<reservedMap, forfeit>>

Expired == {c \in Reserved(reservedMap) : reservedMap[c].left < 0}
RenewalCandidates ==
  {c \in Reserved(reservedMap) \ Expired : reservedMap[c].left < Window}

(* Mutant of Scan: entries that have expired stay in the map. *)
ScanKeeps ==
  /\ pc[Renewer] = "scan"
  /\ IF RenewalCandidates = {}
     THEN /\ pc' = [pc EXCEPT ![Renewer] = "idle"]
          /\ UNCHANGED <<table, saved, call, answer>>
     ELSE Send(Renewer, "renew", FALSE, RenewalCandidates,
               KeysOnly(Only(reservedMap, RenewalCandidates)))
  /\ UNCHANGED <<reservedMap, forfeit>>

(* Expired entries are dropped, those in the window are renewed. *)
Scan ==
  /\ pc[Renewer] = "scan"
  /\ reservedMap' = WithoutRows(reservedMap, Expired)
  /\ IF RenewalCandidates = {}
     THEN /\ pc' = [pc EXCEPT ![Renewer] = "idle"]
          /\ UNCHANGED <<table, saved, call, answer>>
     ELSE Send(Renewer, "renew", FALSE, RenewalCandidates,
               KeysOnly(Only(reservedMap, RenewalCandidates)))
  /\ UNCHANGED forfeit

-------------------------------------------------------------------------------
(* The server *)

Answered(p, rows, failed) ==
  answer' = [answer EXCEPT ![p] = [ok |-> TRUE, rows |-> rows, failed |-> failed]]

Refuse(p) ==
  /\ answer' = [answer EXCEPT ![p] = Refused]
  /\ UNCHANGED <<table, forfeit>>

(* InsertCompReservations: xnames that HSM does not know are passed over. *)
ServeCreate(p) ==
  LET exists == call[p].ids \ Missing
      free == exists \ Reserved(table)
      keyOf == CHOOSE f \in NewKeys(free) : TRUE
      rows == [c \in Component |->
                 IF c \in free THEN [key |-> keyOf[c], left |-> Term] ELSE NoRes]
  IN  IF exists = {} \/ (call[p].rigid /\ free # exists)
      THEN Refuse(p)
      ELSE /\ NewKeys(free) # {}
           /\ table' = WithRows(table, rows)
           /\ Answered(p, rows, exists \ free)
           /\ forfeit' = forfeit \ KeysIn(rows)

(* DeleteCompReservations, flexible. *)
ServeRelease(p) ==
  LET found == Found(call[p].held)
  IN  /\ table' = WithoutRows(table, found)
      /\ Answered(p, KeysOnly(Only(table, found)), call[p].ids \ found)
      /\ forfeit' = forfeit \cup KeysIn(Only(table, found))

(* Mutant of ServeRenew: the new term is added to what is left. *)
ServeRenewAdds(p) ==
  LET found == Found(call[p].held)
  IN  /\ table' = [c \in Component |-> IF c \in found
                                        THEN [table[c] EXCEPT !.left = @ + Term]
                                        ELSE table[c]]
      /\ Answered(p, KeysOnly(Only(table, found)), call[p].ids \ found)
      /\ UNCHANGED forfeit

(* UpdateCompReservations. *)
ServeRenew(p) ==
  LET found == Found(call[p].held)
  IN  IF call[p].rigid /\ found # call[p].ids
      THEN Refuse(p)
      ELSE /\ table' = [c \in Component |-> IF c \in found
                                            THEN [table[c] EXCEPT !.left = Term]
                                            ELSE table[c]]
           /\ Answered(p, KeysOnly(Only(table, found)), call[p].ids \ found)
           /\ UNCHANGED forfeit

(* GetCompReservations. *)
ServeCheck(p) ==
  LET found == Found(call[p].held)
  IN  /\ Answered(p, Only(table, found), call[p].ids \ found)
      /\ UNCHANGED <<table, forfeit>>

Serve(p) ==
  /\ pc[p] = "sent"
  /\ \/ call[p].op = "create" /\ ServeCreate(p)
     \/ call[p].op = "release" /\ ServeRelease(p)
     \/ call[p].op \in {"renew", "reacquire"} /\ ServeRenew(p)
     \/ call[p].op = "check" /\ ServeCheck(p)
  /\ pc' = [pc EXCEPT ![p] = "served"]
  /\ UNCHANGED <<reservedMap, saved, call>>

(* The answer is lost and the HTTP client sends the request again: five    *)
(* times at most, here as often as it likes until the time is up.          *)
Retry(p) ==
  /\ pc[p] = "served"
  /\ pc' = [pc EXCEPT ![p] = "sent"]
  /\ answer' = [answer EXCEPT ![p] = Refused]
  /\ UNCHANGED <<table, reservedMap, saved, call, forfeit>>

(* The request or its answer is lost for good, or the time is up. *)
GiveUp(p) ==
  /\ pc[p] \in {"sent", "served"}
  /\ Return(p)
  /\ UNCHANGED <<reservedMap, forfeit>>

-------------------------------------------------------------------------------
(* Answers *)

(* A rigid answer that is short of an xname is an error, and the map is    *)
(* left as it was.                                                         *)
Accepted(p) ==
  /\ answer[p].ok
  /\ call[p].rigid => Reserved(answer[p].rows) = call[p].ids

AquireDone(p) ==
  /\ call[p].op = "create"
  /\ reservedMap' = IF Accepted(p) THEN WithRows(reservedMap, answer[p].rows)
                    ELSE reservedMap

ReleaseDone(p) ==
  /\ call[p].op = "release"
  /\ reservedMap' = WithoutRows(reservedMap, Reserved(answer[p].rows))

(* Mutant of ReacquireDone: the term is taken to start at the answer. *)
ReacquireFromNow(p) ==
  /\ call[p].op = "reacquire"
  /\ reservedMap' = [c \in Component |->
       IF c \in Reserved(answer[p].rows) THEN [answer[p].rows[c] EXCEPT !.left = Term]
       ELSE reservedMap[c]]

(* Entries come back with the expiration they were stored with. *)
ReacquireDone(p) ==
  /\ call[p].op = "reacquire"
  /\ reservedMap' = WithRows(reservedMap, Only(call[p].held, Reserved(answer[p].rows)))

(* Failures are removed by xname. *)
RenewDone ==
  /\ call[Renewer].op = "renew"
  /\ reservedMap' = WithoutRows(reservedMap, answer[Renewer].failed)

(* Failures are removed, and entries that are still there are given the    *)
(* expiration the server reported: both by xname.                          *)
UpdateDone ==
  /\ call[Renewer].op = "check"
  /\ reservedMap' = [c \in Component |->
       CASE c \in answer[Renewer].failed -> NoRes
         [] c \in Reserved(reservedMap) \cap Reserved(answer[Renewer].rows) ->
              [reservedMap[c] EXCEPT !.left = answer[Renewer].rows[c].left]
         [] OTHER -> reservedMap[c]]

Apply(p) ==
  /\ pc[p] = "served"
  /\ \/ AquireDone(p)
     \/ ReleaseDone(p)
     \/ ReacquireDone(p)
     \/ p = Renewer /\ (RenewDone \/ UpdateDone)
  /\ Return(p)
  /\ UNCHANGED forfeit

-------------------------------------------------------------------------------
(* The rest of the world *)

Aged(m, floor) ==
  [c \in Component |-> IF m[c] # NoRes /\ m[c].left > floor
                       THEN [m[c] EXCEPT !.left = @ - 1] ELSE m[c]]

Calling(p) == pc[p] \in {"sent", "served"}

Tick ==
  /\ \A p \in Process : Calling(p) => call[p].left > 0
  /\ table' = Aged(table, 0)
  /\ reservedMap' = Aged(reservedMap, -1)
  /\ saved' = Aged(saved, -1)
  /\ call' = [p \in Process |-> [call[p] EXCEPT !.held = Aged(@, -1),
                                                !.left = IF Calling(p) THEN @ - 1 ELSE @]]
  /\ answer' = [p \in Process |-> [answer[p] EXCEPT !.rows = Aged(@, -1)]]
  /\ forfeit' = forfeit \cap KeysInUse   \* the rest says nothing any more
  /\ UNCHANGED pc

(* CompReservationCleanup. *)
Reap ==
  /\ \E c \in Reserved(table) : table[c].left = 0
  /\ table' = WithoutRows(table, {c \in Reserved(table) : table[c].left = 0})
  /\ UNCHANGED <<reservedMap, saved, callVars, forfeit>>

(* Another client reserves a free component, or releases one it has. *)
OtherClient(c) ==
  /\ \/ table[c] = NoRes /\ table' = [table EXCEPT ![c] = [key |-> Other, left |-> Term]]
     \/ table[c] # NoRes /\ table[c].key = Other /\ table' = [table EXCEPT ![c] = NoRes]
  /\ UNCHANGED <<reservedMap, saved, callVars, forfeit>>

(* An administrator removes a reservation by force. *)
ForceRemove(c) ==
  /\ table[c] # NoRes /\ table[c].key # Other
  /\ table' = [table EXCEPT ![c] = NoRes]
  /\ forfeit' = forfeit \cup {table[c].key}
  /\ UNCHANGED <<reservedMap, saved, callVars>>

-------------------------------------------------------------------------------
Application(p) ==
  \E ids \in SUBSET Component :
    \/ \E rigid \in BOOLEAN : Aquire(p, ids, rigid) \/ Reacquire(p, ids, rigid)
    \/ Release(p, ids)

Network(p) == Serve(p) \/ Retry(p) \/ GiveUp(p) \/ Apply(p)

Next ==
  \/ \E p \in Caller : Application(p)
  \/ \E p \in Process : Network(p)
  \/ Status
  \/ Restart
  \/ UpdateStart
  \/ Scan
  \/ Tick
  \/ Reap
  \/ \E c \in Component \ Missing : OtherClient(c) \/ ForceRemove(c)

Spec == Init /\ [][Next]_vars

(* Calls end (the requests carry a timeout of 40 seconds), the renewal     *)
(* goroutine runs every 10 seconds and time passes.  The application and   *)
(* the other clients may do nothing.                                       *)
Fairness ==
  /\ \A p \in Process : WF_vars(GiveUp(p) \/ Apply(p))
  /\ WF_vars(UpdateStart)
  /\ WF_vars(Scan)
  /\ WF_vars(Tick)

FairSpec == Spec /\ Fairness
-------------------------------------------------------------------------------
(* The server's row for c is the reservation the map has. *)
Holds(c) ==
  /\ reservedMap[c] # NoRes /\ table[c] # NoRes
  /\ reservedMap[c].key = table[c].key

(* The client never believes in more time than the server gives: for a     *)
(* reservation it holds, the expiration in reservedMap is not later than   *)
(* the server's, whichever of acquire, re-acquire and the periodic check   *)
(* wrote it and however late the answer was.                               *)
LocalExpiryConservative ==
  \A c \in Component : Holds(c) => reservedMap[c].left <= table[c].left

(* Check() may be trusted while the entry has time left: then the server   *)
(* still has the reservation, unless it was released or removed by force.  *)
(* In particular nobody else has it.                                       *)
CheckIsSound ==
  \A c \in Component :
    (/\ reservedMap[c] # NoRes
     /\ reservedMap[c].left > 0
     /\ reservedMap[c].key \notin forfeit) => Holds(c)

Stale(c, k) ==
  reservedMap[c] # NoRes /\ reservedMap[c].key = k /\ ~ Holds(c)

(* An entry whose reservation the server no longer has goes from the map   *)
(* in time, even if every check the renewal goroutine makes fails.         *)
StaleEntryPurged ==
  \A c \in Component \ Missing : \A k \in Key : Stale(c, k) ~> ~ Stale(c, k)

(* What the interface promises of an acquired reservation (renewed within  *)
(* 30 seconds of its expiration): while the client has it and its time is  *)
(* not up, the entry stays in the map, unless the application releases it  *)
(* or restarts.  Not so: update() applies failures by xname, and the entry *)
(* may be newer than the check.                                            *)
HeldStaysTracked ==
  [][\A c \in Component :
       (Holds(c) /\ reservedMap[c].left >= 0 /\ reservedMap'[c] = NoRes)
         => Restart]_vars
===============================================================================
