--------------------------- MODULE RFEventsProofs ---------------------------
(***************************************************************************)
(* Proofs about the two ends of a change of state: RFEvents, the events    *)
(* that controllers send, for any controllers, components, events, workers *)
(* and any interleaving of lookups, syncs and changes of the table; and    *)
(* Subscriptions, the notifications that subscribers are sent, for any     *)
(* subscriptions, patches, changes, instances and bounds.                  *)
(***************************************************************************)
EXTENDS RFEvents, Subscriptions, FiniteSetTheorems, SequenceTheorems,
        WellFoundedInduction, TLAPS

(* An event of the kind that its controller sends; only alerts leave out   *)
(* which way the power went.                                               *)
Sent ==
  {ev \in Event : ev.kind = FlavourOf[ev.from] /\ (ev.op = "none" => ev.kind = "alert")}

(* The lookups that an event may ask for: what they find, it is about. *)
OwnKey(ev) ==
  {k \in Key :
     /\ k.what = "uri" => k.id = ev.from /\ k.uri = ev.uri
     /\ k.what = "children" =>
          \E m \in Reported(ev) : TypeOf[m] = "module"
            /\ \E i \in DOMAIN BmcsOf[m] : k.id = BmcsOf[m][i]}

(* What a worker has gathered belongs to its event.  Foxconn's does not.   *)
Own(j) ==
  /\ j.ev \in Sent
  /\ j.ev.kind # "foxconn" => j.ids \subseteq About(j.ev) /\ j.todo \in Seq(OwnKey(j.ev))
  /\ j.at \in {"lookup", "check", "sync", "again"} => j.todo # <<>>

(* The rows that were there since the first check are in a cache c that    *)
(* was synced, s times by now, after the worker had read the number: by    *)
(* itself, or by another when this is its second round.                    *)
Covered(j, t, c, s) ==
  /\ j.stable \subseteq t
  /\ j.at \in {"check", "sync"} =>
       j.snum <= s /\ (j.round = 1 /\ j.snum < s => j.stable \subseteq c)
  /\ j.at = "again" /\ (j.synced \/ j.round = 1) => j.stable \subseteq c

(* The inductive invariant. *)
IInv ==
  /\ RfTypeOK
  /\ bus \in Seq(Sent) /\ queue \in Seq(Sent \cup {NoEvent})
  /\ \A w \in Worker : job[w] # Idle => Own(job[w]) /\ Covered(job[w], table, cache, sync)

-------------------------------------------------------------------------------
(* Jobs *)

LEMMA AboutType ==
  ASSUME NEW ev
  PROVE  Reported(ev) \subseteq About(ev) /\ About(ev) \subseteq Cep
  BY DEF About, Reported, Within

LEMMA NotIdle == \A j \in Job : j # Idle
  BY DEF Job, Idle

LEMMA JobFields ==
  ASSUME IInv, NEW w \in Worker, job[w] # Idle
  PROVE  /\ job[w] \in Job /\ job[w].ev \in Event /\ job[w].ev \in Sent
         /\ job[w].todo \in Seq(Key) /\ job[w].ids \subseteq Cep
  BY DEF IInv, RfTypeOK, Job, Own

LEMMA Keys ==
  ASSUME IInv, NEW w \in Worker, job[w] # Idle,
         job[w].at \in {"lookup", "check", "sync", "again"}
  PROVE  /\ KeyOf(w) \in Key /\ Tail(job[w].todo) \in Seq(Key)
         /\ job[w].ev.kind # "foxconn" =>
              KeyOf(w) \in OwnKey(job[w].ev) /\ Tail(job[w].todo) \in Seq(OwnKey(job[w].ev))
  <1>1. job[w].todo \in Seq(Key) /\ job[w].todo # <<>>
    BY JobFields DEF IInv, Own
  <1>2. job[w].ev.kind # "foxconn" => job[w].todo \in Seq(OwnKey(job[w].ev))
    BY DEF IInv, Own
  <1> DEFINE S == OwnKey(job[w].ev)
             f == job[w].todo
  <1>3. ASSUME NEW T, NEW g \in Seq(T), g # <<>>
        PROVE  Head(g) \in T /\ Tail(g) \in Seq(T)
    BY <1>3
  <1> QED  BY <1>1, <1>2, <1>3 DEF KeyOf

(* The further lookups are of what the event is about. *)
LEMMA FurtherKeys ==
  ASSUME NEW ev \in Event, NEW c \in Cep
  PROVE  /\ Further(ev, c) \in Seq(Key)
         /\ c \in Reported(ev) => Further(ev, c) \in Seq(OwnKey(ev))
  <1>1. ev.uri \in {UriOf[d] : d \in Cep} /\ ev.from \in Endpoint
    BY DEF Event
  <1>2. ValueKey(c, ev) \in OwnKey(ev)
    <2>1. (ev.kind = "alert") \in BOOLEAN
      OBVIOUS
    <2> QED  BY <1>1, <2>1 DEF ValueKey, OwnKey, Key
  <1> DEFINE S == OwnKey(ev)
  <1>3. S \subseteq Key
    BY DEF OwnKey
  <1>4. Credentials(ev, c) \in Seq(S) /\ AlertSystemPower(ev, c) \in Seq(S)
    <2> HIDE DEF S
    <2>1. ValueKey(c, ev) \in S
      BY <1>2 DEF S
    <2>2. <<ValueKey(c, ev)>> \in Seq(S) /\ <<>> \in Seq(S)
      BY <2>1
    <2> QED  BY <2>2 DEF Credentials, AlertSystemPower
  <1>5. ASSUME TypeOf[c] = "module"
        PROVE  /\ PowerStateCMM(ev, c) \in Seq(Key)
               /\ c \in Reported(ev) => PowerStateCMM(ev, c) \in Seq(S)
    <2>1. PICK b \in Seq(Endpoint) : b = BmcsOf[c]
      BY <1>5, EventAssumption
    <2>2. \A i \in DOMAIN b : ChildrenKey(b[i], ev) \in Key
      BY <1>1 DEF ChildrenKey, Key
    <2>3. \A i \in DOMAIN b : c \in Reported(ev) => ChildrenKey(b[i], ev) \in S
      BY <1>5, <2>1, <2>2 DEF ChildrenKey, OwnKey
    <2>4. PowerStateCMM(ev, c) = [i \in 1 .. Len(b) |-> ChildrenKey(b[i], ev)]
      BY <2>1 DEF PowerStateCMM
    <2>5. DOMAIN b = 1 .. Len(b) /\ Len(b) \in Nat
      OBVIOUS
    <2>6. ASSUME NEW T, \A i \in 1 .. Len(b) : ChildrenKey(b[i], ev) \in T
          PROVE  PowerStateCMM(ev, c) \in Seq(T)
      BY <2>4, <2>5, <2>6
    <2> QED  BY <2>2, <2>3, <2>5, <2>6
  <1>6. \A f : f \in Seq(S) => f \in Seq(Key)
    BY <1>3
  <1> QED
    BY <1>4, <1>5, <1>6
       DEF Further, ResourcePowerStateChanged, PowerStateNC, AlertSystemPowerOnOff

LEMMA NextOfJob ==
  ASSUME NEW j \in Job
  PROVE  /\ NextOf(j) \in Job /\ NextOf(j).ev = j.ev /\ NextOf(j).todo = j.todo
         /\ NextOf(j).ids = j.ids /\ NextOf(j).stable = {}
         /\ NextOf(j).at \in {"lookup", "ask", "update"}
         /\ NextOf(j).at = "lookup" => j.todo # <<>>
         /\ NextOf(j).op = j.op /\ NextOf(j).round = 0
         /\ NextOf(j).at = "ask" => j.todo = <<>> /\ j.op = "none"
         /\ NextOf(j).at = "update" => j.todo = <<>> /\ j.op # "none"
  <1>1. PICK s \in {"lookup", "ask", "update"} :
          /\ s = CASE j.todo # <<>> -> "lookup"
                   [] j.todo = <<>> /\ j.op = "none" -> "ask"
                   [] OTHER -> "update"
          /\ s = "lookup" => j.todo # <<>>
          /\ s = "ask" => j.todo = <<>> /\ j.op = "none"
          /\ s = "update" => j.todo = <<>> /\ j.op # "none"
    OBVIOUS
  <1>2. NextOf(j) = [j EXCEPT !.at = s, !.snum = 0, !.round = 0, !.synced = FALSE,
                              !.stable = {}]
    BY <1>1 DEF NextOf
  <1>3. PICK r : r = [j EXCEPT !.at = s, !.snum = 0, !.round = 0, !.synced = FALSE,
                              !.stable = {}]
    OBVIOUS
  <1>4. r \in Job
    <2>1. r = [at |-> s, ev |-> j.ev, todo |-> j.todo, ids |-> j.ids, op |-> j.op,
               snum |-> 0, round |-> 0, synced |-> FALSE, stable |-> {}]
      BY <1>3 DEF Job
    <2>2. /\ j.ev \in Event /\ j.todo \in Seq(Key) /\ j.ids \in SUBSET Cep /\ j.op \in Op
      BY DEF Job
    <2> QED  BY <2>1, <2>2 DEF Job
  <1>5. /\ r.ev = j.ev /\ r.todo = j.todo /\ r.ids = j.ids
        /\ r.stable = {} /\ r.at = s /\ r.op = j.op /\ r.round = 0
    BY <1>3 DEF Job
  <1> QED  BY <1>1, <1>2, <1>3, <1>4, <1>5

(* A job fit to be a worker's, when the table is t, the cache c and the    *)
(* syncs are s.                                                            *)
Fit(j, t, c, s) == j \in Job /\ Own(j) /\ Covered(j, t, c, s)

LEMMA NextOfFit ==
  ASSUME NEW j \in Job, j.ev \in Sent,
         j.ev.kind # "foxconn" => j.ids \subseteq About(j.ev) /\ j.todo \in Seq(OwnKey(j.ev))
  PROVE  \A t, c, s : Fit(NextOf(j), t, c, s)
  <1>1. Own(NextOf(j))
    BY NextOfJob DEF Own
  <1>2. \A t, c, s : Covered(NextOf(j), t, c, s)
    BY NextOfJob DEF Covered
  <1> QED  BY <1>1, <1>2, NextOfJob DEF Fit

(* The lookup found nothing: the worker goes on without, or ends. *)
LEMMA MissedFit ==
  ASSUME IInv, NEW w \in Worker, job[w] # Idle,
         job[w].at \in {"lookup", "check", "sync", "again"}, Missed(w)
  PROVE  Goto(w, Idle) \/ \E j : Goto(w, j) /\ \A t, c, s : Fit(j, t, c, s)
  <1>1. PICK j \in Job : j = job[w]
    BY JobFields
  <1>2. PICK rest \in Seq(Key) : rest = Tail(j.todo)
    BY <1>1, Keys
  <1>3. PICK r : r = [j EXCEPT !.todo = rest]
    OBVIOUS
  <1>4. r \in Job /\ r.todo = rest /\ r.ev = j.ev /\ r.ids = j.ids
    BY <1>3 DEF Job
  <1>5. j.ev.kind # "foxconn" => r.ids \subseteq About(r.ev) /\ r.todo \in Seq(OwnKey(r.ev))
    BY <1>1, <1>2, <1>4, Keys DEF IInv, Own
  <1>6. \A t, c, s : Fit(NextOf(r), t, c, s)
    BY <1>1, <1>4, <1>5, JobFields, NextOfFit
  <1>7. Goto(w, Idle) \/ Goto(w, NextOf(r))
    BY <1>1, <1>2, <1>3 DEF Missed, Dropped
  <1> QED  BY <1>6, <1>7

(* What it found belongs to the event. *)
LEMMA FoundFit ==
  ASSUME IInv, NEW w \in Worker, job[w] # Idle,
         job[w].at \in {"lookup", "check", "sync", "again"}, Hit(KeyOf(w)) # {}, Found(w)
  PROVE  \E j : Goto(w, j) /\ \A t, c, s : Fit(j, t, c, s)
  <1>1. PICK j \in Job : j = job[w]
    BY JobFields
  <1>2. PICK rest \in Seq(Key) : rest = Tail(j.todo)
    BY <1>1, Keys
  <1>3. PICK k \in Key : k = KeyOf(w)
    BY Keys
  <1>4. j.ev \in Sent /\ j.ev \in Event /\ j.ids \subseteq Cep
    BY <1>1, JobFields
  <1>5. j.ev.kind # "foxconn" =>
          k \in OwnKey(j.ev) /\ rest \in Seq(OwnKey(j.ev)) /\ j.ids \subseteq About(j.ev)
    BY <1>1, <1>2, <1>3, Keys DEF IInv, Own
  <1>6. cache \subseteq Cep
    BY DEF IInv, RfTypeOK
  <1>7. ASSUME NEW ids \in SUBSET Cep, NEW todo \in Seq(Key),
               j.ev.kind # "foxconn" => ids \subseteq About(j.ev) /\ todo \in Seq(OwnKey(j.ev)),
               Goto(w, NextOf([j EXCEPT !.todo = todo, !.ids = ids]))
        PROVE  \E n : Goto(w, n) /\ \A t, c, s : Fit(n, t, c, s)
    <2>1. PICK r : r = [j EXCEPT !.todo = todo, !.ids = ids]
      OBVIOUS
    <2>2. r \in Job /\ r.todo = todo /\ r.ev = j.ev /\ r.ids = ids
      BY <2>1 DEF Job
    <2>3. \A t, c, s : Fit(NextOf(r), t, c, s)
      BY <1>4, <1>7, <2>2, NextOfFit
    <2> QED  BY <1>7, <2>1, <2>3
  <1>8. CASE k.what = "uri"
    <2>1. PICK c \in Hit(k) : c = CHOOSE d \in Hit(k) : TRUE
      BY <1>3
    <2>2. c \in Cep /\ EpOf[c] = k.id /\ UriOf[c] = k.uri
      BY <1>6, <1>8, <2>1 DEF Hit
    <2>3. j.ev.kind # "foxconn" => c \in Reported(j.ev)
      BY <1>5, <1>8, <2>2 DEF OwnKey, Reported
    <2>4. PICK n \in Cep : n = Named(j.ev, c)
      BY <1>4, <2>2, EventAssumption DEF Named, Event
    <2>5. PICK todo \in Seq(Key) : todo = Further(j.ev, n)
      BY <1>4, FurtherKeys
    <2>6. j.ev.kind # "foxconn" => {n} \subseteq About(j.ev) /\ todo \in Seq(OwnKey(j.ev))
      <3> SUFFICES ASSUME j.ev.kind # "foxconn"
                   PROVE  {n} \subseteq About(j.ev) /\ todo \in Seq(OwnKey(j.ev))
        OBVIOUS
      <3>1. n = c
        BY <2>4 DEF Named
      <3> QED  BY <1>4, <2>3, <2>5, <3>1, FurtherKeys, AboutType
    <2>7. [[j EXCEPT !.todo = rest] EXCEPT !.ids = {n}, !.todo = todo]
            = [j EXCEPT !.todo = todo, !.ids = {n}]
      BY DEF Job
    <2>8. Goto(w, NextOf([j EXCEPT !.todo = todo, !.ids = {n}]))
      <3>1. Goto(w, NextOf([[j EXCEPT !.todo = Tail(@)]
                              EXCEPT !.ids = {Named(j.ev, c)}, !.todo = Further(j.ev, Named(j.ev, c))]))
        BY <1>1, <1>3, <1>8, <2>1 DEF Found
      <3> QED  BY <1>2, <2>4, <2>5, <2>7, <3>1
    <2>9. {n} \in SUBSET Cep
      OBVIOUS
    <2> QED  BY <1>7, <2>6, <2>8, <2>9
  <1>9. CASE k.what = "children"
    <2>1. Hit(k) = {c \in cache : EpOf[c] = k.id}
      BY <1>9 DEF Hit
    <2>2. j.ev.kind # "foxconn" => Hit(k) \subseteq About(j.ev)
      BY <1>5, <1>6, <1>9, <2>1 DEF OwnKey, About, Within
    <2>3. PICK ids \in SUBSET Cep : ids = j.ids \cup Affected(j.op, Hit(k))
      BY <1>4, <1>6, <2>1 DEF Affected
    <2>4. j.ev.kind # "foxconn" => ids \subseteq About(j.ev) /\ rest \in Seq(OwnKey(j.ev))
      BY <1>5, <2>2, <2>3 DEF Affected
    <2>5. [[j EXCEPT !.todo = rest] EXCEPT !.ids = @ \cup Affected(j.op, Hit(k))]
            = [j EXCEPT !.todo = rest, !.ids = ids]
      BY <2>3 DEF Job
    <2>6. Goto(w, NextOf([j EXCEPT !.todo = rest, !.ids = ids]))
      <3>1. Goto(w, NextOf([[j EXCEPT !.todo = Tail(@)]
                              EXCEPT !.ids = @ \cup Affected(j.op, Hit(k))]))
        BY <1>1, <1>3, <1>9 DEF Found
      <3> QED  BY <1>2, <2>5, <3>1
    <2> QED  BY <1>7, <2>4, <2>6
  <1>10. CASE k.what = "value"
    <2>1. [j EXCEPT !.todo = rest] = [j EXCEPT !.todo = rest, !.ids = j.ids]
      BY DEF Job
    <2>2. Goto(w, NextOf([j EXCEPT !.todo = Tail(@)]))
      BY <1>1, <1>3, <1>10 DEF Found
    <2>3. Goto(w, NextOf([j EXCEPT !.todo = rest, !.ids = j.ids]))
      BY <1>2, <2>1, <2>2
    <2> QED  BY <1>4, <1>5, <1>7, <2>3
  <1>11. k.what \in {"uri", "children", "value"}
    BY DEF Key
  <1> QED  BY <1>8, <1>9, <1>10, <1>11

-------------------------------------------------------------------------------
(* Steps *)

(* The cache stays, or is filled once more. *)
Synced == \/ cache' = cache /\ sync' = sync
          \/ cache' = table /\ sync' = sync + 1

LEMMA CoveredStays ==
  ASSUME IInv, NEW w \in Worker, job[w] # Idle, Synced
  PROVE  Covered(job[w], table, cache', sync')
  <1>1. job[w].snum \in Nat /\ sync \in Nat
    BY JobFields DEF IInv, RfTypeOK, Job
  <1> QED  BY <1>1 DEF Covered, IInv, Synced

LEMMA GotoStep ==
  ASSUME IInv, NEW w \in Worker, NEW j, Goto(w, j), table' = table, Synced,
         j = Idle \/ Fit(j, table, cache', sync'),
         cache' \subseteq Cep, sync' \in Nat,
         state' \in [Cep -> State], UNCHANGED <<power, bus, reader, switches, stores>>,
         queue' \in Seq(Sent \cup {NoEvent}), Len(queue') <= QueueSize,
         asked' \subseteq Endpoint, doubt' \subseteq Cep, faults' \in 0 .. MaxFaults
  PROVE  IInv'
  <1>1. \A v \in Worker : job'[v] = IF v = w THEN j ELSE job[v]
    BY DEF Goto, IInv, RfTypeOK
  <1>2. job' \in [Worker -> Job \cup {Idle}]
    BY DEF Goto, IInv, RfTypeOK, Fit
  <1>3. queue' \in Seq(Event \cup {NoEvent})
    <2>1. Sent \cup {NoEvent} \subseteq Event \cup {NoEvent}
      BY DEF Sent
    <2> QED  BY <2>1
  <1>4. RfTypeOK'
    BY <1>2, <1>3 DEF IInv, RfTypeOK
  <1>5. ASSUME NEW v \in Worker, job'[v] # Idle
        PROVE  Own(job'[v]) /\ Covered(job'[v], table', cache', sync')
    BY <1>1, <1>5, CoveredStays DEF IInv, Fit
  <1>6. bus' \in Seq(Sent)
    BY DEF IInv
  <1> QED  BY <1>4, <1>5, <1>6 DEF IInv, Own

(* What every step of a worker but an update leaves alone. *)
LEMMA OthersStep ==
  ASSUME IInv, NEW w \in Worker, NEW j, Goto(w, j), UNCHANGED Others, Synced,
         j = Idle \/ Fit(j, table, cache', sync'),
         queue' = queue, asked' = asked, doubt' \subseteq Cep, faults' \in 0 .. MaxFaults
  PROVE  IInv'
  <1>1. cache' \subseteq Cep /\ sync' \in Nat
    BY DEF IInv, RfTypeOK, Synced
  <1>2. /\ UNCHANGED <<table, state, power, bus, reader, switches, stores>>
        /\ state' \in [Cep -> State] /\ asked' \subseteq Endpoint
        /\ queue' \in Seq(Sent \cup {NoEvent}) /\ Len(queue') <= QueueSize
    BY DEF Others, IInv, RfTypeOK
  <1> QED  BY <1>1, <1>2, GotoStep

LEMMA TakeStep ==
  ASSUME IInv, NEW w \in Worker, Take(w)
  PROVE  IInv'
  <1>1. /\ queue \in Seq(Sent \cup {NoEvent}) /\ queue # <<>> /\ queue' = Tail(queue)
        /\ Len(queue) <= QueueSize /\ QueueSize \in Nat
    BY EventAssumption DEF IInv, RfTypeOK, Take
  <1>2. /\ Head(queue) \in Sent \cup {NoEvent} /\ queue' \in Seq(Sent \cup {NoEvent})
        /\ Len(queue') <= QueueSize
    <2> DEFINE S == Sent \cup {NoEvent}
    <2>1. queue \in Seq(S)
      BY <1>1
    <2> HIDE DEF S
    <2>2. Head(queue) \in S /\ Tail(queue) \in Seq(S) /\ Len(Tail(queue)) = Len(queue) - 1
      BY <1>1, <2>1
    <2>3. Len(queue) \in Nat
      BY <2>1
    <2> QED  BY <1>1, <2>2, <2>3 DEF S
  <1>3. UNCHANGED <<cache, sync, asked, faults, Others>>
    BY DEF Take
  <1>4. CASE Head(queue) = NoEvent
    <2>1. UNCHANGED <<job, doubt>>
      BY <1>4 DEF Take
    <2>2. queue' \in Seq(Event \cup {NoEvent})
      <3>1. Sent \cup {NoEvent} \subseteq Event \cup {NoEvent}
        BY DEF Sent
      <3> QED  BY <1>2, <3>1
    <2>3. RfTypeOK'
      BY <1>2, <1>3, <2>1, <2>2 DEF IInv, RfTypeOK, Others
    <2> QED  BY <1>2, <1>3, <2>1, <2>3 DEF IInv, Own, Covered, Others
  <1>5. CASE Head(queue) # NoEvent
    <2>1. PICK ev \in Sent : ev = Head(queue)
      BY <1>2, <1>5
    <2>2. Goto(w, Begin(ev)) /\ doubt' \subseteq Cep
      <3>1. Goto(w, Begin(ev)) /\ doubt' \subseteq doubt \cup About(ev)
        BY <1>5, <2>1 DEF Take
      <3> QED  BY <3>1, AboutType DEF IInv, RfTypeOK
    <2>3. ev \in Event /\ ev.op \in Op /\ ev.uri \in {UriOf[c] : c \in Cep} /\ ev.from \in Endpoint
      BY DEF Sent, Event
    <2>4. UriKey(ev) \in Key /\ UriKey(ev) \in OwnKey(ev)
      BY <2>3 DEF UriKey, Key, OwnKey
    <2>5. PICK k : k = UriKey(ev)
      OBVIOUS
    <2>6. <<k>> \in Seq(Key) /\ <<k>> \in Seq(OwnKey(ev)) /\ <<k>> # <<>>
      <3> DEFINE S == OwnKey(ev)
      <3>1. k \in S /\ k \in Key
        BY <2>4, <2>5
      <3> HIDE DEF S
      <3>2. <<k>> \in Seq(S) /\ <<k>> \in Seq(Key) /\ <<k>> # <<>>
        BY <3>1
      <3> QED  BY <3>2 DEF S
    <2>7. PICK todo : todo = <<k>>
      OBVIOUS
    <2>8. PICK j : j = [at |-> "lookup", ev |-> ev, todo |-> todo, ids |-> {}, op |-> ev.op,
                        snum |-> 0, round |-> 0, synced |-> FALSE, stable |-> {}]
      OBVIOUS
    <2>9. j = Begin(ev)
      BY <2>5, <2>7, <2>8 DEF Begin
    <2>10. j \in Job
      BY <2>3, <2>6, <2>7, <2>8 DEF Job
    <2>11. Own(j) /\ Covered(j, table, cache', sync')
      BY <2>6, <2>7, <2>8 DEF Own, Covered
    <2>12. /\ state' \in [Cep -> State] /\ asked' \subseteq Endpoint
           /\ cache' \subseteq Cep /\ sync' \in Nat /\ faults' \in 0 .. MaxFaults
           /\ UNCHANGED <<table, cache, sync, power, bus, reader, switches, stores>>
      BY <1>3 DEF IInv, RfTypeOK, Others
    <2> QED  BY <1>2, <2>2, <2>9, <2>10, <2>11, <2>12, GotoStep DEF Fit, Synced
  <1> QED  BY <1>4, <1>5

(* A job that goes on with other numbers and rows to rely on. *)
Numbered(j, at, snum, round, synced, stable) ==
  [at |-> at, ev |-> j.ev, todo |-> j.todo, ids |-> j.ids, op |-> j.op,
   snum |-> snum, round |-> round, synced |-> synced, stable |-> stable]

LEMMA Renumbered ==
  ASSUME NEW j \in Job, Own(j), NEW at \in {"check", "sync", "again"},
         j.at \in {"lookup", "check", "sync", "again"},
         NEW snum \in Nat, NEW round \in 0 .. 1, NEW synced \in BOOLEAN,
         NEW stable \in SUBSET Cep, NEW r,
         r = Numbered(j, at, snum, round, synced, stable)
  PROVE  /\ r \in Job /\ Own(r)
         /\ r.at = at /\ r.snum = snum /\ r.round = round /\ r.synced = synced
         /\ r.stable = stable
  <1>1. r = [at |-> at, ev |-> j.ev, todo |-> j.todo, ids |-> j.ids, op |-> j.op,
             snum |-> snum, round |-> round, synced |-> synced, stable |-> stable]
    BY DEF Numbered
  <1>2. /\ j.ev \in Event /\ j.todo \in Seq(Key) /\ j.ids \in SUBSET Cep /\ j.op \in Op
    BY DEF Job
  <1>3. r \in Job
    BY <1>1, <1>2 DEF Job
  <1>4. /\ r.ev = j.ev /\ r.todo = j.todo /\ r.ids = j.ids
    BY <1>1
  <1>5. Own(r)
    BY <1>4 DEF Own
  <1> QED  BY <1>1, <1>3, <1>5

LEMMA AtJob ==
  ASSUME IInv, NEW w \in Worker, NEW s, AtStep(w, s)
  PROVE  /\ job[w] \in Job /\ job[w] # Idle /\ job[w].at = s /\ Own(job[w])
         /\ Covered(job[w], table, cache, sync)
         /\ job[w].snum \in Nat /\ job[w].round \in 0 .. 1 /\ job[w].synced \in BOOLEAN
         /\ job[w].stable \in SUBSET Cep
  <1>1. job[w] # Idle /\ job[w].at = s
    BY DEF AtStep
  <1> QED  BY <1>1, JobFields DEF IInv, Job

LEMMA LookupStep ==
  ASSUME IInv, NEW w \in Worker, Lookup(w)
  PROVE  IInv'
  <1>1. AtStep(w, "lookup") /\ UNCHANGED <<cache, sync, queue, asked, faults, Others>>
    BY DEF Lookup
  <1>2. Synced /\ faults' \in 0 .. MaxFaults /\ doubt \subseteq Cep /\ table \subseteq Cep
        /\ sync \in Nat
    BY <1>1 DEF Synced, IInv, RfTypeOK
  <1>3. CASE Hit(KeyOf(w)) # {}
    <2>1. PICK j : Goto(w, j) /\ Fit(j, table, cache', sync')
      BY <1>1, <1>3, AtJob, FoundFit DEF Lookup
    <2>2. doubt' \subseteq Cep
      BY <1>2, <1>3 DEF Lookup, Lacking, Affected
    <2> QED  BY <1>1, <1>2, <2>1, <2>2, OthersStep
  <1>4. CASE Hit(KeyOf(w)) = {}
    <2>1. PICK j \in Job : j = job[w] /\ Own(j) /\ j.at = "lookup" /\ j.round \in 0 .. 1
            /\ j.synced \in BOOLEAN /\ j.stable \in SUBSET Cep
      BY <1>1, AtJob
    <2>2. PICK r : r = [j EXCEPT !.at = "check", !.snum = sync]
      OBVIOUS
    <2>3. r = Numbered(j, "check", sync, j.round, j.synced, j.stable)
      BY <2>2 DEF Numbered, Job
    <2>4. Goto(w, r) /\ doubt' = doubt
      BY <1>4, <2>1, <2>2 DEF Lookup
    <2>5. r \in Job /\ Own(r) /\ r.at = "check" /\ r.snum = sync /\ r.stable = j.stable
      BY <1>2, <2>1, <2>3, Renumbered
    <2>6. j.stable \subseteq table
      BY <1>1, <2>1, AtJob DEF Covered
    <2>7. Covered(r, table, cache', sync')
      BY <1>1, <1>2, <2>5, <2>6 DEF Covered
    <2> QED  BY <1>1, <1>2, <2>4, <2>5, <2>7, OthersStep DEF Fit
  <1> QED  BY <1>3, <1>4

LEMMA CheckStep ==
  ASSUME IInv, NEW w \in Worker, Check(w)
  PROVE  IInv'
  <1>1. AtStep(w, "check") /\ UNCHANGED <<cache, sync, queue, asked, faults, Others>>
    BY DEF Check
  <1>2. Synced /\ faults' \in 0 .. MaxFaults /\ doubt \subseteq Cep /\ table \subseteq Cep
        /\ sync \in Nat
    BY <1>1 DEF Synced, IInv, RfTypeOK
  <1>3. CASE InTable(KeyOf(w).id)
    <2>1. PICK j \in Job : j = job[w] /\ Own(j) /\ j.at = "check" /\ j.round \in 0 .. 1
            /\ j.snum \in Nat /\ j.synced \in BOOLEAN /\ j.stable \in SUBSET Cep
            /\ Covered(j, table, cache, sync)
      BY <1>1, AtJob
    <2>2. PICK st \in SUBSET Cep : st = IF j.round = 0 THEN table ELSE j.stable
      BY <1>2, <2>1
    <2>3. PICK r : r = [j EXCEPT !.at = "sync", !.stable = IF j.round = 0 THEN table ELSE @]
      OBVIOUS
    <2>4. r = Numbered(j, "sync", j.snum, j.round, j.synced, st)
      BY <2>2, <2>3 DEF Numbered, Job
    <2>5. Goto(w, r) /\ doubt' = doubt
      BY <1>3, <2>1, <2>3 DEF Check
    <2>6. r \in Job /\ Own(r) /\ r.at = "sync" /\ r.snum = j.snum /\ r.stable = st
          /\ r.round = j.round
      BY <2>1, <2>2, <2>4, Renumbered
    <2>7. Covered(r, table, cache', sync')
      BY <1>1, <1>2, <2>1, <2>2, <2>6 DEF Covered
    <2> QED  BY <1>1, <1>2, <2>5, <2>6, <2>7, OthersStep DEF Fit
  <1>4. CASE ~ InTable(KeyOf(w).id)
    <2>1. Missed(w) /\ doubt' \subseteq Cep
      <3>1. Missed(w) /\ doubt' = doubt \cup Unplaced(w)
        BY <1>4 DEF Check
      <3> QED  BY <1>2, <3>1, AboutType DEF Unplaced
    <2>2. Goto(w, Idle) \/ \E j : Goto(w, j) /\ Fit(j, table, cache', sync')
      <3>1. Goto(w, Idle) \/ \E j : Goto(w, j) /\ \A t, c, s : Fit(j, t, c, s)
        BY <1>1, <2>1, AtJob, MissedFit
      <3> QED  BY <3>1
    <2> QED  BY <1>1, <1>2, <2>1, <2>2, OthersStep
  <1> QED  BY <1>3, <1>4

(* A sync brings every row of the table to the cache. *)
LEMMA TrySyncStep ==
  ASSUME IInv, NEW w \in Worker, TrySync(w)
  PROVE  IInv'
  <1>1. AtStep(w, "sync") /\ UNCHANGED <<queue, asked, doubt, faults, Others>>
    BY DEF TrySync
  <1>2. faults' \in 0 .. MaxFaults /\ doubt' \subseteq Cep /\ sync \in Nat
    BY <1>1 DEF IInv, RfTypeOK
  <1>3. PICK j \in Job : j = job[w] /\ Own(j) /\ j.at = "sync" /\ j.round \in 0 .. 1
          /\ j.snum \in Nat /\ j.synced \in BOOLEAN /\ j.stable \in SUBSET Cep
          /\ Covered(j, table, cache, sync)
    BY <1>1, AtJob
  <1>4. PICK b \in BOOLEAN :
          /\ Goto(w, [j EXCEPT !.at = "again", !.synced = b])
          /\ IF b THEN cache' = table /\ sync' = sync + 1
                  ELSE sync # j.snum /\ cache' = cache /\ sync' = sync
    BY <1>3 DEF TrySync
  <1>5. PICK r : r = [j EXCEPT !.at = "again", !.synced = b]
    OBVIOUS
  <1>6. r = Numbered(j, "again", j.snum, j.round, b, j.stable)
    BY <1>5 DEF Numbered, Job
  <1>7. r \in Job /\ Own(r) /\ r.at = "again" /\ r.synced = b /\ r.stable = j.stable
        /\ r.round = j.round
    BY <1>3, <1>6, Renumbered
  <1>8. Covered(r, table, cache', sync')
    BY <1>2, <1>3, <1>4, <1>7 DEF Covered
  <1>9. Synced
    BY <1>4 DEF Synced
  <1> QED  BY <1>1, <1>2, <1>4, <1>5, <1>7, <1>8, <1>9, OthersStep DEF Fit

LEMMA AgainStep ==
  ASSUME IInv, NEW w \in Worker, Again(w)
  PROVE  IInv'
  <1>1. AtStep(w, "again") /\ UNCHANGED <<cache, sync, queue, asked, faults, Others>>
    BY DEF Again
  <1>2. Synced /\ faults' \in 0 .. MaxFaults /\ doubt \subseteq Cep /\ table \subseteq Cep
        /\ sync \in Nat
    BY <1>1 DEF Synced, IInv, RfTypeOK
  <1>3. CASE Hit(KeyOf(w)) # {}
    <2>1. PICK j : Goto(w, j) /\ Fit(j, table, cache', sync')
      BY <1>1, <1>3, AtJob, FoundFit DEF Again
    <2>2. doubt' \subseteq Cep
      BY <1>2, <1>3 DEF Again, Lacking, Affected
    <2> QED  BY <1>1, <1>2, <2>1, <2>2, OthersStep
  <1>4. CASE Hit(KeyOf(w)) = {} /\ MayRetry(job[w])
    <2>1. PICK j \in Job : j = job[w] /\ Own(j) /\ j.at = "again" /\ j.round \in 0 .. 1
            /\ j.synced \in BOOLEAN /\ j.stable \in SUBSET Cep
      BY <1>1, AtJob
    <2>2. PICK r : r = [j EXCEPT !.at = "check", !.snum = sync, !.round = 1]
      OBVIOUS
    <2>3. r = Numbered(j, "check", sync, 1, j.synced, j.stable)
      BY <2>2 DEF Numbered, Job
    <2>4. Goto(w, r) /\ doubt' = doubt
      BY <1>4, <2>1, <2>2 DEF Again
    <2>5. r \in Job /\ Own(r) /\ r.at = "check" /\ r.snum = sync /\ r.stable = j.stable
      BY <1>2, <2>1, <2>3, Renumbered
    <2>6. j.stable \subseteq table
      BY <1>1, <2>1, AtJob DEF Covered
    <2>7. Covered(r, table, cache', sync')
      BY <1>1, <1>2, <2>5, <2>6 DEF Covered
    <2> QED  BY <1>1, <1>2, <2>4, <2>5, <2>7, OthersStep DEF Fit
  <1>5. CASE Hit(KeyOf(w)) = {} /\ ~ MayRetry(job[w])
    <2>1. Missed(w) /\ doubt' \subseteq Cep
      <3>1. Missed(w) /\ doubt' = doubt \cup Unplaced(w)
        BY <1>5 DEF Again
      <3> QED  BY <1>2, <3>1, AboutType DEF Unplaced
    <2>2. Goto(w, Idle) \/ \E j : Goto(w, j) /\ Fit(j, table, cache', sync')
      <3>1. Goto(w, Idle) \/ \E j : Goto(w, j) /\ \A t, c, s : Fit(j, t, c, s)
        BY <1>1, <2>1, AtJob, MissedFit
      <3> QED  BY <3>1
    <2> QED  BY <1>1, <1>2, <2>1, <2>2, OthersStep
  <1> QED  BY <1>3, <1>4, <1>5

LEMMA FailsStep ==
  ASSUME IInv, NEW w \in Worker, Fails(w)
  PROVE  IInv'
  <1>1. faults' \in 0 .. MaxFaults
    BY EventAssumption DEF Fails, LookupFails, AskFails, UpdateFails, IInv, RfTypeOK
  <1>2. job[w] # Idle /\ UNCHANGED <<cache, sync, queue, asked, Others>>
        /\ doubt' = doubt \cup About(job[w].ev)
    BY DEF Fails, LookupFails, NoCredentials, AskFails, UpdateFails, AtStep
  <1>3. doubt' \subseteq Cep /\ Synced
    BY <1>2, AboutType DEF IInv, RfTypeOK, Synced
  <1>4. Goto(w, Idle) \/ \E j : Goto(w, j) /\ \A t, c, s : Fit(j, t, c, s)
    <2>1. CASE LookupFails(w)
      <3>1. Missed(w) /\ job[w].at \in {"lookup", "check", "sync", "again"}
        BY <2>1 DEF LookupFails, NoCredentials, AtStep
      <3> QED  BY <1>2, <3>1, MissedFit
    <2> QED  BY <2>1 DEF Fails, AskFails, UpdateFails, Dropped
  <1> QED  BY <1>1, <1>2, <1>3, <1>4, OthersStep

LEMMA AskStep ==
  ASSUME IInv, NEW w \in Worker, Ask(w)
  PROVE  IInv'
  <1>1. AtStep(w, "ask") /\ UNCHANGED <<cache, sync, queue, asked, doubt, faults, Others>>
    BY DEF Ask
  <1>2. Synced /\ faults' \in 0 .. MaxFaults /\ doubt' \subseteq Cep
    BY <1>1 DEF Synced, IInv, RfTypeOK
  <1>3. PICK j \in Job : j = job[w] /\ Own(j) /\ Covered(j, table, cache, sync)
    BY <1>1, AtJob
  <1>4. PICK op \in Op : Goto(w, [j EXCEPT !.at = "update", !.op = op])
    BY <1>3 DEF Ask, Op
  <1>5. PICK r : r = [j EXCEPT !.at = "update", !.op = op]
    OBVIOUS
  <1>6. r \in Job /\ r.at = "update" /\ r.ev = j.ev /\ r.ids = j.ids /\ r.todo = j.todo
        /\ r.stable = j.stable
    BY <1>5 DEF Job
  <1>7. Own(r) /\ Covered(r, table, cache', sync')
    BY <1>3, <1>6 DEF Own, Covered
  <1> QED  BY <1>1, <1>2, <1>4, <1>5, <1>6, <1>7, OthersStep DEF Fit

LEMMA UpdateStep ==
  ASSUME IInv, NEW w \in Worker, Update(w)
  PROVE  IInv'
  <1>1. /\ Goto(w, Idle)
        /\ UNCHANGED <<table, cache, sync, power, bus, reader, queue, doubt, switches,
                       stores, faults>>
    BY DEF Update
  <1>2. state' \in [Cep -> State]
    BY DEF Update, NewState, State, IInv, RfTypeOK
  <1>3. asked' \subseteq Endpoint
    BY DEF Update, IInv, RfTypeOK
  <1>4. /\ cache' \subseteq Cep /\ sync' \in Nat /\ doubt' \subseteq Cep /\ faults' \in 0 .. MaxFaults
        /\ queue' \in Seq(Sent \cup {NoEvent}) /\ Len(queue') <= QueueSize /\ Synced
    BY <1>1 DEF IInv, RfTypeOK, Synced
  <1> QED  BY <1>1, <1>2, <1>3, <1>4, GotoStep

(* Steps outside the workers that leave table and cache alone. *)
LEMMA OutsideStep ==
  ASSUME IInv, UNCHANGED <<table, cache, sync, job, asked>>,
         state' \in [Cep -> State], power' \in [Cep -> BOOLEAN],
         bus' \in Seq(Sent), queue' \in Seq(Sent \cup {NoEvent}), Len(queue') <= QueueSize,
         reader' \in {"open", "ended"}, doubt' \subseteq Cep,
         switches' \in 0 .. MaxSwitches, stores' \in 0 .. MaxStores, faults' \in 0 .. MaxFaults
  PROVE  IInv'
  <1>1. \A f : (f \in Seq(Sent \cup {NoEvent}) => f \in Seq(Event \cup {NoEvent}))
               /\ (f \in Seq(Sent) => f \in Seq(Event))
    <2>1. Sent \cup {NoEvent} \subseteq Event \cup {NoEvent} /\ Sent \subseteq Event
      BY DEF Sent
    <2> QED  BY <2>1
  <1>2. RfTypeOK'
    BY <1>1 DEF IInv, RfTypeOK
  <1> QED  BY <1>2 DEF IInv, Own, Covered

LEMMA Lengths ==
  ASSUME NEW S, NEW f \in Seq(S), NEW x \in S
  PROVE  /\ Append(f, x) \in Seq(S) /\ Len(Append(f, x)) = Len(f) + 1 /\ Len(f) \in Nat
         /\ f # <<>> => Head(f) \in S /\ Tail(f) \in Seq(S)
  OBVIOUS

LEMMA SwitchStep ==
  ASSUME IInv, NEW c \in Cep, Switch(c)
  PROVE  IInv'
  <1>1. PICK op \in Op : Send(c, op) /\ (op = "none" => FlavourOf[EpOf[c]] = "alert")
    BY DEF Switch, Op
  <1>2. PICK ev : ev = [from |-> EpOf[c], kind |-> FlavourOf[EpOf[c]], uri |-> UriOf[c],
                        op |-> op]
    OBVIOUS
  <1>3. ev \in Sent
    BY <1>1, <1>2, EventAssumption DEF Sent, Event
  <1>4. bus' = Append(bus, ev)
    BY <1>1, <1>2 DEF Send
  <1>5. bus' \in Seq(Sent)
    BY <1>3, <1>4, Lengths DEF IInv
  <1>6. power' \in [Cep -> BOOLEAN]
    <2>1. \A d \in Cep : power'[d] \in BOOLEAN
      BY DEF Switch, IInv, RfTypeOK
    <2>2. power' = [d \in Cep |-> power'[d]]
      BY DEF Switch
    <2> QED  BY <2>1, <2>2
  <1>7. switches' \in 0 .. MaxSwitches
    BY EventAssumption DEF Switch, IInv, RfTypeOK
  <1>8. UNCHANGED <<table, cache, sync, state, reader, queue, job, asked, doubt, stores, faults>>
    BY DEF Switch
  <1> QED  BY <1>5, <1>6, <1>7, <1>8, OutsideStep DEF IInv, RfTypeOK

LEMMA BootsStep ==
  ASSUME IInv, NEW c \in Cep, Boots(c)
  PROVE  IInv'
  <1>1. state' \in [Cep -> State]
    BY DEF Boots, State, IInv, RfTypeOK
  <1> QED  BY <1>1, OutsideStep DEF Boots, IInv, RfTypeOK

LEMMA ReadNextStep ==
  ASSUME IInv, ReadNext
  PROVE  IInv'
  <1> DEFINE S == Sent \cup {NoEvent}
  <1>1. bus \in Seq(Sent) /\ bus # <<>> /\ queue \in Seq(S) /\ Len(queue) <= QueueSize
        /\ bus' = Tail(bus) /\ QueueSize \in Nat
    BY EventAssumption DEF IInv, RfTypeOK, ReadNext
  <1>2. Head(bus) \in Sent /\ bus' \in Seq(Sent) /\ Head(bus) \in S
    BY <1>1
  <1>3. queue' \in Seq(S) /\ Len(queue') <= QueueSize
    <2> HIDE DEF S
    <2>1. CASE Len(queue) < QueueSize /\ queue' = Append(queue, Head(bus))
      <3>1. queue' \in Seq(S) /\ Len(queue') = Len(queue) + 1 /\ Len(queue) \in Nat
        BY <1>1, <1>2, <2>1, Lengths
      <3> QED  BY <1>1, <2>1, <3>1
    <2>2. CASE queue' = queue
      BY <1>1, <2>2
    <2> QED  BY <2>1, <2>2 DEF ReadNext
  <1>4. doubt' \subseteq Cep
    BY AboutType DEF ReadNext, IInv, RfTypeOK
  <1> QED  BY <1>2, <1>3, <1>4, OutsideStep DEF ReadNext, IInv, RfTypeOK

LEMMA SignalStep ==
  ASSUME IInv, Signal
  PROVE  IInv'
  <1>1. faults' \in 0 .. MaxFaults
    BY EventAssumption DEF Signal, IInv, RfTypeOK
  <1> QED  BY <1>1, OutsideStep DEF Signal, IInv, RfTypeOK

LEMMA SpinStep ==
  ASSUME IInv, Spin
  PROVE  IInv'
  <1> DEFINE S == Sent \cup {NoEvent}
  <1>1. queue \in Seq(S) /\ QueueSize \in Nat /\ NoEvent \in S
    BY EventAssumption DEF IInv
  <1>2. queue' \in Seq(S) /\ Len(queue') <= QueueSize
    <2> HIDE DEF S
    <2>1. queue' \in Seq(S) /\ Len(queue') = Len(queue) + 1 /\ Len(queue) \in Nat
      BY <1>1, Lengths DEF Spin
    <2> QED  BY <1>1, <2>1 DEF Spin
  <1> QED  BY <1>2, OutsideStep DEF Spin, IInv, RfTypeOK

LEMMA StoreStep ==
  ASSUME IInv, NEW e \in Endpoint, NEW rows \in SUBSET Cep, Store(e, rows)
  PROVE  IInv'
  <1>1. table' = table \cup rows /\ UNCHANGED <<cache, sync, power, bus, reader, queue, job,
                                                doubt, switches, faults>>
    BY DEF Store
  <1>2. state' \in [Cep -> State]
    <2>1. \A c \in Cep : state'[c] \in State
      BY DEF Store, State, IInv, RfTypeOK
    <2>2. state' = [c \in Cep |-> state'[c]]
      BY DEF Store
    <2> QED  BY <2>1, <2>2
  <1>3. asked' \subseteq Endpoint /\ stores' \in 0 .. MaxStores
    BY EventAssumption DEF Store, IInv, RfTypeOK
  <1>4. RfTypeOK'
    BY <1>1, <1>2, <1>3 DEF IInv, RfTypeOK
  <1>5. \A w \in Worker : job[w] # Idle => Covered(job[w], table', cache', sync')
    BY <1>1 DEF IInv, Covered
  <1> QED  BY <1>1, <1>4, <1>5 DEF IInv

(* A row that is deleted is not relied on any more. *)
LEMMA DeleteStep ==
  ASSUME IInv, NEW e \in Endpoint, Delete(e)
  PROVE  IInv'
  <1> DEFINE rows == {c \in table : EpOf[c] = e}
  <1>1. /\ table' = table \ rows /\ Forget(rows)
        /\ UNCHANGED <<cache, sync, power, bus, reader, queue, doubt, switches, faults>>
    BY DEF Delete
  <1>2. state' \in [Cep -> State]
    BY DEF Delete, State, IInv, RfTypeOK
  <1>3. asked' \subseteq Endpoint /\ stores' \in 0 .. MaxStores
    BY EventAssumption DEF Delete, IInv, RfTypeOK
  <1> HIDE DEF rows
  <1>4. ASSUME NEW w \in Worker
        PROVE  /\ job'[w] \in Job \cup {Idle}
               /\ job'[w] # Idle => Own(job'[w]) /\ Covered(job'[w], table', cache', sync')
    <2>1. CASE job[w] = Idle
      BY <1>1, <2>1 DEF Forget
    <2>2. CASE job[w] # Idle
      <3>1. PICK j \in Job : j = job[w] /\ Own(j) /\ Covered(j, table, cache, sync)
        BY <2>2, JobFields DEF IInv
      <3>2. PICK r : r = [j EXCEPT !.stable = @ \ rows]
        OBVIOUS
      <3>3. /\ r \in Job /\ r.stable = j.stable \ rows
            /\ r.at = j.at /\ r.ev = j.ev /\ r.ids = j.ids /\ r.todo = j.todo
            /\ r.snum = j.snum /\ r.round = j.round /\ r.synced = j.synced
        BY <3>2 DEF Job
      <3>4. job'[w] = r
        BY <1>1, <2>2, <3>1, <3>2 DEF Forget
      <3>5. Own(r) /\ Covered(r, table', cache', sync')
        BY <1>1, <3>1, <3>3 DEF Own, Covered
      <3> QED  BY <3>3, <3>4, <3>5
    <2> QED  BY <2>1, <2>2
  <1>5. job' \in [Worker -> Job \cup {Idle}]
    <2>1. job' = [w \in Worker |-> job'[w]]
      BY <1>1 DEF Forget
    <2> QED  BY <1>4, <2>1
  <1>6. RfTypeOK'
    BY <1>1, <1>2, <1>3, <1>5 DEF IInv, RfTypeOK
  <1> QED  BY <1>1, <1>4, <1>6 DEF IInv

LEMMA RestartStep ==
  ASSUME IInv, Restart
  PROVE  IInv'
  <1>1. doubt' \subseteq Cep
    BY AboutType DEF Restart, IInv, RfTypeOK
  <1>2. faults' \in 0 .. MaxFaults
    BY EventAssumption DEF Restart, IInv, RfTypeOK
  <1>3. <<>> \in Seq(Sent \cup {NoEvent}) /\ <<>> \in Seq(Event \cup {NoEvent}) /\ Len(<<>>) <= QueueSize
    BY EventAssumption
  <1>4. \A w \in Worker : job'[w] = Idle
    BY DEF Restart
  <1>5. RfTypeOK'
    BY <1>1, <1>2, <1>3 DEF Restart, IInv, RfTypeOK
  <1>6. queue' \in Seq(Sent \cup {NoEvent}) /\ bus' \in Seq(Sent)
    BY <1>3 DEF Restart, IInv
  <1> QED  BY <1>4, <1>5, <1>6 DEF IInv

-------------------------------------------------------------------------------
LEMMA InvInit == RfInit => IInv
  <1> SUFFICES ASSUME RfInit PROVE IInv
    OBVIOUS
  <1>1. <<>> \in Seq(Sent \cup {NoEvent}) /\ <<>> \in Seq(Event \cup {NoEvent})
        /\ <<>> \in Seq(Sent) /\ <<>> \in Seq(Event) /\ Len(<<>>) <= QueueSize
    BY EventAssumption
  <1>2. power \in [Cep -> BOOLEAN]
    BY DEF RfInit
  <1>3. RfTypeOK
    BY <1>1, <1>2, EventAssumption DEF RfInit, RfTypeOK, State
  <1> QED  BY <1>1, <1>3 DEF RfInit, IInv

LEMMA InvStep == IInv /\ [RfNext]_rvars => IInv'
  <1> SUFFICES ASSUME IInv, [RfNext]_rvars PROVE IInv'
    OBVIOUS
  <1>1. ASSUME NEW w \in Worker, Work(w) PROVE IInv'
    BY <1>1, TakeStep, LookupStep, CheckStep, TrySyncStep, AgainStep, AskStep, UpdateStep
       DEF Work
  <1>2. CASE UNCHANGED rvars
    <2>1. UNCHANGED <<table, cache, sync, state, power, bus, reader, queue, job, asked, doubt,
                      switches, stores, faults>>
      BY <1>2 DEF rvars
    <2> QED  BY <2>1, OutsideStep DEF IInv, RfTypeOK
  <1> QED
    BY <1>1, <1>2, FailsStep, SwitchStep, BootsStep, DeleteStep, StoreStep, ReadNextStep,
       SignalStep, SpinStep, RestartStep DEF RfNext

(* Events, jobs, cache and table agree as IInv says in every state. *)
THEOREM InvCorrect == RfSpec => []IInv
  BY InvInit, InvStep, PTL DEF RfSpec

(* Every variable keeps its type; the pool's channel never holds more than *)
(* it can.                                                                 *)
THEOREM TypeCorrect == RfSpec => []RfTypeOK
  <1>1. IInv => RfTypeOK
    BY DEF IInv
  <1> QED  BY <1>1, InvCorrect, PTL

-------------------------------------------------------------------------------
(* Nobody else ends a worker's job, but a restart. *)
LEMMA WhoEnds ==
  ASSUME IInv, [RfNext]_rvars, NEW w \in Worker, Ends(w)
  PROVE  Work(w) \/ Fails(w) \/ Restart
  <1> SUFFICES ASSUME ~ Work(w), ~ Fails(w), ~ Restart PROVE FALSE
    OBVIOUS
  <1>1. job[w] # Idle /\ job'[w] = Idle
    BY DEF Ends
  <1>2. ASSUME NEW v \in Worker, Work(v) \/ Fails(v) PROVE FALSE
    <2>1. v # w
      BY <1>2
    <2>2. job' = job \/ \E j : Goto(v, j)
      <3>1. Lookup(v) \/ Again(v) => (Hit(KeyOf(v)) # {} => \E j : Goto(v, j))
        BY <1>2, FoundFit DEF Lookup, Again, AtStep
      <3>2. Missed(v) => \E j : Goto(v, j)
        BY DEF Missed, Dropped
      <3> QED
        BY <1>2, <3>1, <3>2
           DEF Work, Fails, Take, Lookup, Check, TrySync, Again, Ask, Update, LookupFails,
               AskFails, UpdateFails, Dropped
    <2>3. job'[w] = job[w]
      BY <2>1, <2>2 DEF Goto, IInv, RfTypeOK
    <2> QED  BY <1>1, <2>3
  <1>3. ASSUME NEW e \in Endpoint, Delete(e) PROVE FALSE
    <2>1. PICK j \in Job : j = job[w]
      BY <1>1, JobFields
    <2>2. PICK rows : job'[w] = [j EXCEPT !.stable = @ \ rows]
      BY <1>1, <1>3, <2>1 DEF Delete, Forget
    <2>3. [j EXCEPT !.stable = @ \ rows].at = j.at /\ j.at # "idle"
      BY DEF Job
    <2> QED  BY <1>1, <2>2, <2>3 DEF Idle
  <1>4. CASE UNCHANGED job
    BY <1>1, <1>4
  <1> QED
    BY <1>2, <1>3, <1>4
       DEF RfNext, Switch, Boots, Store, ReadNext, Signal, Spin, rvars

(* For any controllers but Foxconn's: a component that an update changes   *)
(* is the one its event is about, or within it, although the xnames came   *)
(* from lookups of a cache that others filled and emptied meanwhile.       *)
THEOREM UpdatesItsOwn ==
  ASSUME \A e \in Endpoint : FlavourOf[e] # "foxconn"
  PROVE  RfSpec => OnlyItsOwn
  <1> DEFINE A == \A w \in Worker : AtStep(w, "update") /\ Ends(w) =>
                    \A c \in Cep : state'[c] # state[c] => c \in About(job[w].ev)
  <1>1. ASSUME IInv, [RfNext]_rvars PROVE [A]_rvars
    <2> SUFFICES ASSUME NEW w \in Worker, AtStep(w, "update"), Ends(w),
                        NEW c \in Cep, state'[c] # state[c]
                 PROVE  c \in About(job[w].ev)
      OBVIOUS
    <2>1. job[w].ev \in Sent /\ job[w].ev \in Event /\ Own(job[w])
      BY <1>1, AtJob, JobFields
    <2>2. job[w].ids \subseteq About(job[w].ev)
      BY <2>1 DEF Own, Sent, Event
    <2>3. Work(w) \/ Fails(w) \/ Restart
      BY <1>1, WhoEnds
    <2>4. Update(w)
      <3>1. job[w].at = "update" /\ job[w] # Idle
        BY DEF AtStep
      <3>2. ~ Take(w) /\ ~ Lookup(w) /\ ~ Check(w) /\ ~ TrySync(w) /\ ~ Again(w) /\ ~ Ask(w)
        BY <3>1 DEF Take, Lookup, Check, TrySync, Again, Ask, AtStep
      <3>3. Fails(w) => UNCHANGED state
        BY DEF Fails, LookupFails, AskFails, UpdateFails, Others
      <3>4. Restart => UNCHANGED state
        BY DEF Restart
      <3> QED  BY <2>3, <3>2, <3>3, <3>4 DEF Work
    <2>5. c \in job[w].ids
      BY <2>4 DEF Update
    <2> QED  BY <2>2, <2>5
  <1> HIDE DEF A
  <1>2. RfSpec => [][RfNext]_rvars
    BY PTL DEF RfSpec
  <1>3. RfSpec => [][A]_rvars
    BY <1>1, <1>2, InvCorrect, PTL
  <1> QED  BY <1>3, PTL DEF A, OnlyItsOwn

(* Lookups that race for a sync miss no row: when a worker gives up on a   *)
(* URI, the rows that were there since its first check were in the cache.  *)
THEOREM LookupsFind == RfSpec => LookupFindsPresent
  <1> DEFINE A == \A w \in Worker :
               AtStep(w, "again") /\ Ends(w) /\ faults' = faults /\ KeyOf(w).what = "uri" =>
                 \A c \in job[w].stable : EpOf[c] # KeyOf(w).id \/ UriOf[c] # KeyOf(w).uri
  <1>1. ASSUME IInv, [RfNext]_rvars PROVE [A]_rvars
    <2> SUFFICES ASSUME NEW w \in Worker, AtStep(w, "again"), Ends(w), faults' = faults,
                        KeyOf(w).what = "uri", NEW c \in job[w].stable
                 PROVE  EpOf[c] # KeyOf(w).id \/ UriOf[c] # KeyOf(w).uri
      OBVIOUS
    <2>1. job[w] \in Job /\ job[w] # Idle /\ job[w].at = "again" /\ job[w].round \in 0 .. 1
          /\ Own(job[w]) /\ Covered(job[w], table, cache, sync)
      BY <1>1, AtJob
    <2>2. Work(w) \/ Fails(w) \/ Restart
      BY <1>1, WhoEnds
    <2>3. faults \in Int
      BY <1>1 DEF IInv, RfTypeOK
    <2>4. Again(w)
      BY <2>1, <2>2, <2>3 DEF Work, Fails, Restart, Take, Lookup, Check, TrySync, Ask, Update,
                  LookupFails, NoCredentials, AskFails, UpdateFails, AtStep
    <2>5. job'[w] = Idle
      BY DEF Ends
    <2>6. Hit(KeyOf(w)) = {}
      <3> SUFFICES ASSUME Hit(KeyOf(w)) # {} PROVE FALSE
        OBVIOUS
      <3>1. PICK j : Goto(w, j) /\ Fit(j, table, cache, sync)
        BY <1>1, <2>1, <2>4, FoundFit DEF Again
      <3>2. job'[w] = j
        BY <1>1, <3>1 DEF Goto, IInv, RfTypeOK
      <3> QED  BY <2>5, <3>1, <3>2, NotIdle DEF Fit
    <2>7. ~ MayRetry(job[w])
      <3> SUFFICES ASSUME MayRetry(job[w]) PROVE FALSE
        OBVIOUS
      <3>1. Goto(w, [job[w] EXCEPT !.at = "check", !.snum = sync, !.round = 1])
        BY <2>4, <2>6 DEF Again
      <3>2. PICK j \in Job : j = job[w]
        BY <2>1
      <3>3. [j EXCEPT !.at = "check", !.snum = sync, !.round = 1].at = "check"
        BY DEF Job
      <3>4. job'[w].at = "check"
        BY <1>1, <3>1, <3>2, <3>3 DEF Goto, IInv, RfTypeOK
      <3> QED  BY <2>5, <3>4 DEF Idle
    <2>8. c \in cache
      BY <2>1, <2>7 DEF Covered, MayRetry
    <2> QED  BY <2>6, <2>8 DEF Hit
  <1> HIDE DEF A
  <1>2. RfSpec => [][RfNext]_rvars
    BY PTL DEF RfSpec
  <1>3. RfSpec => [][A]_rvars
    BY <1>1, <1>2, InvCorrect, PTL
  <1> QED  BY <1>3, PTL DEF A, LookupFindsPresent

-------------------------------------------------------------------------------
(* States and power *)

(* How controllers and modules are made: a URI names one resource, a       *)
(* controller is a component of its own, a module sends power events by    *)
(* resource and holds no module, what is in a module is in no other, and   *)
(* nobody is Foxconn.                                                      *)
Modules == {m \in Cep : TypeOf[m] = "module"}

Wired ==
  /\ \A c, d \in Cep : EpOf[c] = EpOf[d] /\ UriOf[c] = UriOf[d] => c = d
  /\ \A e \in Endpoint : e \in Cep => EpOf[e] = e
  /\ \A m, n \in Modules : m # n => Within(m) \cap Within(n) = {}
  /\ \A m \in Modules : Within(m) \cap Modules = {} /\ FlavourOf[EpOf[m]] = "resource"
  /\ \A e \in Endpoint : FlavourOf[e] # "foxconn"

(* The components whose power an event tells: all that is about, but a     *)
(* module that comes up says nothing of its nodes.                         *)
Tells(ev) == {c \in About(ev) : c \in Reported(ev) \/ ev.op # "on" \/ TypeOf[c] = "card"}
Of(x, c) == x # NoEvent /\ c \in Tells(x)
Says(op, on) == op = "none" \/ (op = "on") = on

(* Some event of the sequence tells of c; the last one that does says so.  *)
Told(s, c) == \E i \in DOMAIN s : Of(s[i], c)
LastSays(s, c, on) ==
  \A i \in DOMAIN s :
    Of(s[i], c) /\ (\A k \in DOMAIN s : k > i => ~ Of(s[k], c)) => Says(s[i].op, on)

(* A job that has c among its ids or has a lookup left that finds it; once *)
(* it relies on rows that were there, it is sure of these only.            *)
Finds(k, c) == k.what = "uri" \/ (k.what = "children" /\ EpOf[c] = k.id)
Reaches(j, c) ==
  /\ c \in Tells(j.ev)
  /\ c \in j.ids \/ \E i \in DOMAIN j.todo : Finds(j.todo[i], c)
Relies(j) == j.at \in {"sync", "again"} \/ (j.at = "check" /\ j.round = 1)
Sure(j, c) == Reaches(j, c) /\ (Relies(j) => c \in j.stable)

(* The lookups come in this order: the URI, then credentials or children.  *)
Stage(j) ==
  \/ j.ids = {} /\ j.todo = <<UriKey(j.ev)>>
  \/ \E c \in Cep : j.ids = {c} /\ (j.todo = <<>> \/ j.todo = <<ValueKey(c, j.ev)>>)
  \/ j.ids # {} /\ \A i \in DOMAIN j.todo : j.todo[i].what = "children" /\ j.todo[i].must = FALSE

Gathers(j) ==
  /\ Stage(j) /\ j.ids \subseteq Tells(j.ev)
  /\ j.ev.op # "none" => j.op = j.ev.op

Works(j) ==
  /\ Gathers(j)
  /\ j.at = "update" => j.todo = <<>> /\ j.op # "none"
  /\ j.at = "ask" => j.todo = <<>> /\ j.op = "none"
  /\ j.at = "lookup" => j.round = 0

Tables ==
  /\ \A c \in Cep : c \in table <=> state[c] # "Empty"
  /\ \A c \in table : EpOf[c] \in Cep => EpOf[c] \in table
  /\ \A m \in Modules : ~ power[m] => \A c \in Within(m) : ~ power[c]

Busy == {w \in Worker : job[w] # Idle}

Apart == \A v, w \in Busy : v # w => About(job[v].ev) \cap About(job[w].ev) \subseteq doubt

(* The last news of c, on the bus or else in the queue or else in a job,   *)
(* are true; if none is left that will get there, the state is.            *)
Ordered(c) ==
  /\ LastSays(bus, c, power[c])
  /\ ~ Told(bus, c) => LastSays(queue, c, power[c])
  /\ ~ Told(bus, c) /\ ~ Told(queue, c) =>
       /\ \A w \in Busy : c \in Tells(job[w].ev) => Says(job[w].op, power[c])
       /\ c \in table /\ (\A w \in Busy : ~ Sure(job[w], c)) => (state[c] # "Off") = power[c]

Settled ==
  /\ Tables /\ Apart
  /\ \A w \in Busy : Works(job[w])
  /\ \A c \in Cep \ doubt : Ordered(c)

LEMMA Reports ==
  ASSUME Wired, NEW ev \in Sent
  PROVE  /\ \A c, d \in Reported(ev) : c = d
         /\ Reported(ev) \subseteq Tells(ev) /\ Tells(ev) \subseteq About(ev)
         /\ \A c \in About(ev) \ Reported(ev) :
              \E m \in Reported(ev) :
                m \in Modules /\ c \in Within(m) /\ c \notin Modules /\ ev.kind = "resource"
  <1>1. \A c, d \in Reported(ev) : c = d
    BY DEF Wired, Reported
  <1>2. Reported(ev) \subseteq Tells(ev) /\ Tells(ev) \subseteq About(ev)
    BY AboutType DEF Tells
  <1>3. ASSUME NEW c \in About(ev) \ Reported(ev)
        PROVE  \E m \in Reported(ev) :
                 m \in Modules /\ c \in Within(m) /\ c \notin Modules /\ ev.kind = "resource"
    <2>1. PICK m \in Reported(ev) : TypeOf[m] = "module" /\ c \in Within(m)
      BY DEF About
    <2>2. m \in Modules /\ EpOf[m] = ev.from
      BY <2>1 DEF Modules, Reported
    <2>3. c \notin Modules /\ FlavourOf[ev.from] = "resource"
      BY <2>1, <2>2 DEF Wired
    <2> QED  BY <2>1, <2>2, <2>3 DEF Sent
  <1> QED  BY <1>1, <1>2, <1>3

LEMMA ToldTail ==
  ASSUME NEW S, NEW s \in Seq(S), s # <<>>, NEW c, NEW on
  PROVE  /\ Told(s, c) <=> Of(Head(s), c) \/ Told(Tail(s), c)
         /\ LastSays(s, c, on) => LastSays(Tail(s), c, on)
         /\ LastSays(s, c, on) /\ ~ Told(Tail(s), c) /\ Of(Head(s), c) => Says(Head(s).op, on)
  <1>0. Tail(s) \in Seq(S)
    OBVIOUS
  <1>1. PICK t \in Seq(S) : t = Tail(s)
    BY <1>0
  <1>2. PICK n \in Nat : n = Len(t)
    OBVIOUS
  <1>3. /\ DOMAIN s = 1 .. n + 1 /\ DOMAIN t = 1 .. n /\ Head(s) = s[1]
        /\ \A i \in 1 .. n : t[i] = s[i + 1]
    BY <1>1, <1>2
  <1>4. \A i \in 1 .. n + 1 : i = 1 \/ (i - 1 \in 1 .. n /\ s[i] = t[i - 1])
    BY <1>3
  <1>5. Told(s, c) <=> Of(Head(s), c) \/ Told(t, c)
    <2>1. ASSUME NEW i \in 1 .. n + 1, Of(s[i], c) PROVE Of(Head(s), c) \/ Told(t, c)
      BY <1>3, <1>4, <2>1 DEF Told
    <2>2. Of(Head(s), c) => Told(s, c)
      <3>1. 1 \in 1 .. n + 1
        OBVIOUS
      <3> QED  BY <1>3, <3>1 DEF Told
    <2>3. ASSUME NEW i \in 1 .. n, Of(t[i], c) PROVE Told(s, c)
      <3>1. i + 1 \in 1 .. n + 1 /\ s[i + 1] = t[i]
        BY <1>3
      <3> QED  BY <1>3, <2>3, <3>1 DEF Told
    <2> QED  BY <1>3, <2>1, <2>2, <2>3 DEF Told
  <1>6. ASSUME LastSays(s, c, on) PROVE LastSays(t, c, on)
    <2> SUFFICES ASSUME NEW i \in 1 .. n, Of(t[i], c), \A k \in 1 .. n : k > i => ~ Of(t[k], c)
                 PROVE  Says(t[i].op, on)
      BY <1>3 DEF LastSays
    <2>1. ASSUME NEW k \in 1 .. n + 1, k > i + 1 PROVE ~ Of(s[k], c)
      <3>1. k - 1 \in 1 .. n /\ s[k] = t[k - 1] /\ k - 1 > i
        BY <1>4, <2>1
      <3> QED  BY <3>1
    <2>2. i + 1 \in 1 .. n + 1 /\ s[i + 1] = t[i]
      BY <1>3
    <2> QED  BY <1>3, <1>6, <2>1, <2>2 DEF LastSays
  <1>7. ASSUME LastSays(s, c, on), ~ Told(t, c), Of(Head(s), c) PROVE Says(Head(s).op, on)
    <2>1. ASSUME NEW k \in 1 .. n + 1, k > 1 PROVE ~ Of(s[k], c)
      <3>1. k - 1 \in 1 .. n /\ s[k] = t[k - 1]
        BY <1>4, <2>1
      <3> QED  BY <1>3, <1>7, <3>1 DEF Told
    <2>2. 1 \in 1 .. n + 1
      OBVIOUS
    <2> QED  BY <1>3, <1>7, <2>1, <2>2 DEF LastSays
  <1> QED  BY <1>1, <1>5, <1>6, <1>7

LEMMA ToldAppend ==
  ASSUME NEW S, NEW s \in Seq(S), NEW x \in S, NEW c, NEW on
  PROVE  /\ Told(Append(s, x), c) <=> Told(s, c) \/ Of(x, c)
         /\ (Of(x, c) => Says(x.op, on)) /\ (~ Of(x, c) => LastSays(s, c, on)) =>
              LastSays(Append(s, x), c, on)
  <1>0. Append(s, x) \in Seq(S)
    OBVIOUS
  <1>1. PICK t \in Seq(S) : t = Append(s, x)
    BY <1>0
  <1>2. PICK n \in Nat : n = Len(s)
    OBVIOUS
  <1>3. /\ DOMAIN s = 1 .. n /\ DOMAIN t = 1 .. n + 1 /\ t[n + 1] = x
        /\ \A i \in 1 .. n : t[i] = s[i]
    BY <1>1, <1>2
  <1>4. n + 1 \in 1 .. n + 1 /\ \A i \in 1 .. n + 1 : i \in 1 .. n \/ i = n + 1
    OBVIOUS
  <1>5. Told(t, c) <=> Told(s, c) \/ Of(x, c)
    BY <1>3, <1>4 DEF Told
  <1>6. ASSUME Of(x, c) => Says(x.op, on), ~ Of(x, c) => LastSays(s, c, on)
        PROVE  LastSays(t, c, on)
    <2> SUFFICES ASSUME NEW i \in 1 .. n + 1, Of(t[i], c),
                        \A k \in 1 .. n + 1 : k > i => ~ Of(t[k], c)
                 PROVE  Says(t[i].op, on)
      BY <1>3 DEF LastSays
    <2>1. CASE i = n + 1
      BY <1>3, <1>6, <2>1
    <2>2. CASE i \in 1 .. n
      <3>1. ~ Of(x, c)
        BY <1>3, <1>4, <2>2
      <3>2. \A k \in 1 .. n : k > i => ~ Of(s[k], c)
        BY <1>3
      <3> QED  BY <1>3, <1>6, <2>2, <3>1, <3>2 DEF LastSays
    <2> QED  BY <1>4, <2>1, <2>2
  <1> QED  BY <1>1, <1>5, <1>6

(* What is at the head of a list and what is after it. *)
LEMMA Cells ==
  ASSUME NEW S, NEW s \in Seq(S), s # <<>>
  PROVE  /\ 1 \in DOMAIN s /\ Head(s) = s[1]
         /\ \A i \in DOMAIN Tail(s) : i + 1 \in DOMAIN s /\ Tail(s)[i] = s[i + 1]
         /\ \A i \in DOMAIN s : s[i] = Head(s) \/ \E k \in DOMAIN Tail(s) : s[i] = Tail(s)[k]
  <1>0. Tail(s) \in Seq(S)
    OBVIOUS
  <1>1. PICK t \in Seq(S) : t = Tail(s)
    BY <1>0
  <1>2. PICK n \in Nat : n = Len(t)
    OBVIOUS
  <1>3. /\ DOMAIN s = 1 .. n + 1 /\ DOMAIN t = 1 .. n /\ Head(s) = s[1]
        /\ \A i \in 1 .. n : t[i] = s[i + 1]
    BY <1>1, <1>2
  <1>4. \A i \in 1 .. n + 1 : i = 1 \/ (i - 1 \in 1 .. n /\ s[i] = t[i - 1])
    BY <1>3
  <1>5. 1 \in 1 .. n + 1 /\ \A i \in 1 .. n : i + 1 \in 1 .. n + 1
    OBVIOUS
  <1> QED  BY <1>1, <1>3, <1>4, <1>5

LEMMA HeadOfOne ==
  ASSUME NEW x
  PROVE  <<x>> # <<>> /\ Head(<<x>>) = x /\ Tail(<<x>>) = <<>>
  OBVIOUS

(* The next lookup, and what is reached by it and the others. *)
LEMMA NextKey ==
  ASSUME IInv, NEW w \in Worker, job[w] # Idle,
         job[w].at \in {"lookup", "check", "sync", "again"}, Works(job[w])
  PROVE  LET j == job[w]
             k == KeyOf(w)
             rest == Tail(job[w].todo)
         IN  /\ k.what = "uri" => k = UriKey(j.ev) /\ j.ids = {} /\ rest = <<>>
             /\ k.what = "value" => j.ids = {k.id} /\ rest = <<>>
             /\ k.what = "children" =>
                  /\ j.ids # {} /\ k.must = FALSE
                  /\ \A i \in DOMAIN rest : rest[i].what = "children" /\ rest[i].must = FALSE
             /\ \A c : Reaches(j, c) <=>
                  /\ c \in Tells(j.ev)
                  /\ c \in j.ids \/ Finds(k, c) \/ \E i \in DOMAIN rest : Finds(rest[i], c)
  <1> DEFINE j == job[w]
             k == KeyOf(w)
             rest == Tail(job[w].todo)
  <1>1. PICK todo \in Seq(Key) : todo = j.todo /\ todo # <<>>
    BY JobFields DEF IInv, Own
  <1>2. /\ 1 \in DOMAIN todo /\ k = todo[1]
        /\ \A i \in DOMAIN rest : i + 1 \in DOMAIN todo /\ rest[i] = todo[i + 1]
        /\ \A i \in DOMAIN todo : todo[i] = k \/ \E n \in DOMAIN rest : todo[i] = rest[n]
    BY <1>1, Cells DEF KeyOf
  <1>3. Stage(j)
    BY DEF Works, Gathers
  <1>4. \A c : Reaches(j, c) <=>
          /\ c \in Tells(j.ev)
          /\ c \in j.ids \/ Finds(k, c) \/ \E i \in DOMAIN rest : Finds(rest[i], c)
    BY <1>1, <1>2 DEF Reaches
  <1>5. CASE j.ids = {} /\ j.todo = <<UriKey(j.ev)>>
    <2>1. k = UriKey(j.ev) /\ rest = <<>>
      BY <1>5, HeadOfOne DEF KeyOf
    <2>2. k.what = "uri"
      BY <2>1 DEF UriKey
    <2>3. k.what # "value" /\ k.what # "children"
      BY <2>2
    <2> QED  BY <1>4, <1>5, <2>1, <2>3
  <1>6. CASE \E c \in Cep : j.ids = {c} /\ (j.todo = <<>> \/ j.todo = <<ValueKey(c, j.ev)>>)
    <2>1. PICK c \in Cep : j.ids = {c} /\ j.todo = <<ValueKey(c, j.ev)>>
      BY <1>1, <1>6
    <2>2. k = ValueKey(c, j.ev) /\ rest = <<>>
      BY <2>1, HeadOfOne DEF KeyOf
    <2> QED  BY <1>4, <2>1, <2>2 DEF ValueKey
  <1>7. CASE /\ j.ids # {}
             /\ \A i \in DOMAIN j.todo : j.todo[i].what = "children" /\ j.todo[i].must = FALSE
    BY <1>1, <1>2, <1>4, <1>7
  <1> QED  BY <1>3, <1>5, <1>6, <1>7 DEF Stage

LEMMA NextWorks ==
  ASSUME NEW j \in Job, Gathers(j)
  PROVE  /\ NextOf(j) \in Job /\ Works(NextOf(j)) /\ ~ Relies(NextOf(j))
         /\ NextOf(j).ev = j.ev /\ NextOf(j).op = j.op
         /\ \A c : Reaches(NextOf(j), c) <=> Reaches(j, c)
  <1>1. PICK n : n = NextOf(j)
    OBVIOUS
  <1>2. /\ n \in Job /\ n.ev = j.ev /\ n.todo = j.todo /\ n.ids = j.ids /\ n.op = j.op
        /\ n.at \in {"lookup", "ask", "update"} /\ n.round = 0
        /\ n.at = "ask" => j.todo = <<>> /\ j.op = "none"
        /\ n.at = "update" => j.todo = <<>> /\ j.op # "none"
    BY <1>1, NextOfJob
  <1>3. Gathers(n)
    BY <1>2 DEF Gathers, Stage
  <1>4. Works(n) /\ ~ Relies(n)
    BY <1>2, <1>3 DEF Works, Relies
  <1>5. \A c : Reaches(n, c) <=> Reaches(j, c)
    BY <1>2 DEF Reaches
  <1> QED  BY <1>1, <1>2, <1>4, <1>5

(* Where a worker goes from its lookup: n is the job that it then has. *)
Onward(w, n) ==
  /\ Goto(w, n) /\ n \in Job /\ Works(n) /\ ~ Relies(n)
  /\ n.ev = job[w].ev /\ n.op = job[w].op

LEMMA MissedGoes ==
  ASSUME IInv, NEW w \in Worker, job[w] # Idle,
         job[w].at \in {"lookup", "check", "sync", "again"}, Works(job[w]), Missed(w)
  PROVE  \/ Goto(w, Idle) /\ KeyOf(w).must
         \/ /\ KeyOf(w).what # "uri"
            /\ \E n : Onward(w, n) /\
                 \A c : Reaches(job[w], c) /\ ~ Finds(KeyOf(w), c) => Reaches(n, c)
  <1>1. PICK j \in Job : j = job[w]
    BY JobFields
  <1>2. PICK rest \in Seq(Key) : rest = Tail(j.todo)
    BY <1>1, Keys
  <1>3. PICK k \in Key : k = KeyOf(w)
    BY Keys
  <1>4. CASE k.must
    BY <1>3, <1>4 DEF Missed, Dropped
  <1>5. CASE ~ k.must
    <2>1. PICK r : r = [j EXCEPT !.todo = rest]
      OBVIOUS
    <2>2. r \in Job /\ r.todo = rest /\ r.ev = j.ev /\ r.ids = j.ids /\ r.op = j.op
      BY <2>1 DEF Job
    <2>3. Goto(w, NextOf(r))
      BY <1>1, <1>2, <1>3, <1>5, <2>1 DEF Missed
    <2>4. k.what # "uri"
      <3> SUFFICES ASSUME k.what = "uri" PROVE FALSE
        OBVIOUS
      <3>1. k = UriKey(j.ev)
        BY <1>1, <1>3, NextKey
      <3> QED  BY <1>5, <3>1 DEF UriKey
    <2>5. k.what = "children" \/ k.what = "value"
      BY <2>4 DEF Key
    <2>6. Stage(r)
      <3>1. CASE k.what = "value"
        <4>1. r.todo = <<>> /\ r.ids = {k.id}
          BY <1>1, <1>2, <1>3, <2>2, <3>1, NextKey
        <4>2. k.id \in Cep
          BY <4>1, <2>2 DEF Job
        <4> QED  BY <4>1, <4>2 DEF Stage
      <3>2. CASE k.what = "children"
        BY <1>1, <1>2, <1>3, <2>2, <3>2, NextKey DEF Stage
      <3> QED  BY <2>5, <3>1, <3>2
    <2>7. Gathers(r)
      BY <1>1, <2>2, <2>6 DEF Works, Gathers
    <2>8. \A c : Reaches(j, c) /\ ~ Finds(k, c) => Reaches(r, c)
      <3>1. \A c : Reaches(j, c) <=>
              /\ c \in Tells(j.ev)
              /\ c \in j.ids \/ Finds(k, c) \/ \E i \in DOMAIN rest : Finds(rest[i], c)
        BY <1>1, <1>2, <1>3, NextKey
      <3> QED  BY <2>2, <3>1 DEF Reaches
    <2>9. PICK n : n = NextOf(r)
      OBVIOUS
    <2>10. n \in Job /\ Works(n) /\ ~ Relies(n) /\ n.ev = r.ev /\ n.op = r.op
           /\ \A c : Reaches(n, c) <=> Reaches(r, c)
      BY <2>2, <2>7, <2>9, NextWorks
    <2> QED  BY <1>1, <1>3, <2>2, <2>3, <2>4, <2>8, <2>9, <2>10 DEF Onward
  <1> QED  BY <1>4, <1>5

LEMMA FoundGoes ==
  ASSUME Wired, IInv, NEW w \in Worker, job[w] # Idle,
         job[w].at \in {"lookup", "check", "sync", "again"}, Works(job[w]),
         Hit(KeyOf(w)) # {}, Found(w)
  PROVE  \E n : Onward(w, n) /\
           \A c \in table \ Lacking(w) : Reaches(job[w], c) => Reaches(n, c)
  <1>1. PICK j \in Job : j = job[w]
    BY JobFields
  <1>2. PICK rest \in Seq(Key) : rest = Tail(j.todo)
    BY <1>1, Keys
  <1>3. PICK k \in Key : k = KeyOf(w)
    BY Keys
  <1>4. PICK ev \in Sent : ev = j.ev /\ ev \in Event /\ ev.kind # "foxconn"
    BY <1>1, JobFields DEF Wired, Sent, Event
  <1>5. k \in OwnKey(ev) /\ j.ids \subseteq Cep /\ cache \subseteq Cep /\ table \subseteq Cep
    BY <1>1, <1>3, <1>4, Keys, JobFields DEF IInv, RfTypeOK
  <1>6. /\ Gathers(j)
        /\ \A c : Reaches(j, c) <=>
              /\ c \in Tells(ev)
              /\ c \in j.ids \/ Finds(k, c) \/ \E i \in DOMAIN rest : Finds(rest[i], c)
    BY <1>1, <1>2, <1>3, <1>4, NextKey DEF Works
  <1>7. ASSUME NEW r \in Job, Goto(w, NextOf(r)), Gathers(r), r.ev = j.ev, r.op = j.op,
               \A c \in table \ Lacking(w) : Reaches(j, c) => Reaches(r, c)
        PROVE  \E n : Onward(w, n) /\
                 \A c \in table \ Lacking(w) : Reaches(job[w], c) => Reaches(n, c)
    <2>1. PICK n : n = NextOf(r)
      OBVIOUS
    <2>2. /\ n \in Job /\ Works(n) /\ ~ Relies(n) /\ n.ev = r.ev /\ n.op = r.op
          /\ \A c : Reaches(n, c) <=> Reaches(r, c)
      BY <1>7, <2>1, NextWorks
    <2> QED  BY <1>1, <1>7, <2>1, <2>2 DEF Onward
  <1>8. CASE k.what = "uri"
    <2>1. PICK d \in Hit(k) : d = CHOOSE x \in Hit(k) : TRUE
      BY <1>3
    <2>2. d \in Cep /\ d \in Reported(ev)
      BY <1>5, <1>8, <2>1 DEF Hit, OwnKey, Reported
    <2>3. Named(ev, d) = d
      BY <1>4 DEF Named
    <2>4. PICK todo \in Seq(Key) : todo = Further(ev, d)
      BY <1>4, <2>2, FurtherKeys
    <2>5. PICK r : r = [j EXCEPT !.todo = todo, !.ids = {d}]
      OBVIOUS
    <2>6. r \in Job /\ r.todo = todo /\ r.ev = ev /\ r.ids = {d} /\ r.op = j.op
      <3>1. {d} \in SUBSET Cep
        BY <2>2
      <3> QED  BY <1>4, <2>5, <3>1 DEF Job
    <2>7. Goto(w, NextOf(r))
      <3>1. Goto(w, NextOf([[j EXCEPT !.todo = Tail(@)]
                              EXCEPT !.ids = {Named(j.ev, d)}, !.todo = Further(j.ev, Named(j.ev, d))]))
        BY <1>1, <1>3, <1>8, <2>1 DEF Found
      <3>2. [[j EXCEPT !.todo = rest] EXCEPT !.ids = {d}, !.todo = todo] = r
        BY <2>5 DEF Job
      <3> QED  BY <1>2, <1>4, <2>3, <2>4, <3>1, <3>2
    <2>8. ASSUME d \in Modules
          PROVE  /\ todo = PowerStateCMM(ev, d)
                 /\ \A i \in DOMAIN todo : todo[i].what = "children" /\ todo[i].must = FALSE
      <3>1. ev.kind = "resource" /\ TypeOf[d] = "module"
        BY <2>2, <2>8 DEF Wired, Modules, Sent, Reported
      <3>2. todo = PowerStateCMM(ev, d)
        BY <2>4, <3>1 DEF Further, ResourcePowerStateChanged
      <3> QED  BY <3>2 DEF PowerStateCMM, ChildrenKey
    <2>9. d \notin Modules => todo = <<>> \/ todo = <<ValueKey(d, ev)>>
      BY <2>2, <2>4
         DEF Modules, Further, ResourcePowerStateChanged, PowerStateNC, AlertSystemPowerOnOff,
             AlertSystemPower, Credentials
    <2>10. Gathers(r)
      <3>1. Stage(r)
        BY <2>2, <2>6, <2>8, <2>9 DEF Stage
      <3>2. r.ids \subseteq Tells(ev)
        BY <2>2, <2>6, Reports
      <3> QED  BY <1>4, <1>6, <2>6, <3>1, <3>2 DEF Gathers
    <2>11. ASSUME NEW c, c \in Tells(ev)
           PROVE  Reaches(r, c)
      <3>1. CASE c \in Reported(ev)
        <4>1. c = d
          BY <2>2, <3>1, Reports
        <4> QED  BY <2>6, <2>11, <4>1 DEF Reaches
      <3>2. CASE c \notin Reported(ev)
        <4>1. PICK m \in Reported(ev) : m \in Modules /\ c \in Within(m)
          BY <2>11, <3>2, Reports
        <4>2. m = d
          BY <2>2, Reports
        <4>3. PICK i \in DOMAIN BmcsOf[d] : EpOf[c] = BmcsOf[d][i]
          BY <4>1, <4>2 DEF Within
        <4>4. i \in DOMAIN todo /\ todo[i] = ChildrenKey(BmcsOf[d][i], ev)
          BY <2>8, <4>1, <4>2 DEF PowerStateCMM
        <4>5. Finds(todo[i], c)
          BY <4>3, <4>4 DEF Finds, ChildrenKey
        <4> QED  BY <2>6, <2>11, <4>4, <4>5 DEF Reaches
      <3> QED  BY <3>1, <3>2
    <2> QED  BY <1>4, <1>6, <1>7, <2>6, <2>7, <2>10, <2>11
  <1>9. CASE k.what = "children"
    <2>1. Hit(k) = {c \in cache : EpOf[c] = k.id}
      BY <1>9 DEF Hit
    <2>2. PICK m \in Reported(ev) : m \in Modules /\ \E i \in DOMAIN BmcsOf[m] : k.id = BmcsOf[m][i]
      BY <1>5, <1>9 DEF OwnKey, Modules, Reported
    <2>3. \A c \in Cep : EpOf[c] = k.id => c \in Within(m)
      BY <2>2 DEF Within
    <2>4. \A c \in Cep : EpOf[c] = k.id => c \in About(ev) /\ c \notin Reported(ev)
      <3> SUFFICES ASSUME NEW c \in Cep, EpOf[c] = k.id
                   PROVE  c \in About(ev) /\ c \notin Reported(ev)
        OBVIOUS
      <3>1. c \in Within(m) /\ c \notin Modules
        BY <2>2, <2>3 DEF Wired
      <3>2. c \notin Reported(ev)
        BY <2>2, <3>1, Reports
      <3>3. c \in About(ev)
        BY <2>2, <3>1 DEF About, Modules
      <3> QED  BY <3>2, <3>3
    <2>5. PICK ids \in SUBSET Cep : ids = j.ids \cup Affected(j.op, Hit(k))
      BY <1>5, <2>1 DEF Affected
    <2>6. PICK r : r = [j EXCEPT !.todo = rest, !.ids = ids]
      OBVIOUS
    <2>7. r \in Job /\ r.todo = rest /\ r.ev = ev /\ r.ids = ids /\ r.op = j.op
      BY <1>4, <2>6 DEF Job
    <2>8. Goto(w, NextOf(r))
      <3>1. Goto(w, NextOf([[j EXCEPT !.todo = Tail(@)]
                              EXCEPT !.ids = @ \cup Affected(j.op, Hit(k))]))
        BY <1>1, <1>3, <1>9 DEF Found
      <3>2. [[j EXCEPT !.todo = rest] EXCEPT !.ids = @ \cup Affected(j.op, Hit(k))] = r
        BY <2>5, <2>6 DEF Job
      <3> QED  BY <1>2, <3>1, <3>2
    <2>10. \A c \in Hit(k) : c \in Affected(j.op, Hit(k)) => c \in Tells(ev)
      <3>1. j.op # "on" => ev.op # "on"
        BY <1>4, <1>6 DEF Gathers
      <3> QED  BY <1>5, <2>1, <2>4, <3>1 DEF Affected, Tells
    <2>11. Gathers(r)
      <3>1. Stage(r)
        <4>1. ids # {} /\ \A i \in DOMAIN rest : rest[i].what = "children" /\ rest[i].must = FALSE
          BY <1>1, <1>2, <1>3, <1>9, <2>5, NextKey
        <4> QED  BY <2>7, <4>1 DEF Stage
      <3>2. r.ids \subseteq Tells(ev)
        <4>1. Affected(j.op, Hit(k)) \subseteq Hit(k)
          BY DEF Affected
        <4> QED  BY <1>4, <1>6, <2>5, <2>7, <2>10, <4>1 DEF Gathers
      <3> QED  BY <1>4, <1>6, <2>7, <3>1, <3>2 DEF Gathers
    <2>12. ASSUME NEW c \in table \ Lacking(w), Reaches(j, c)
           PROVE  Reaches(r, c)
      <3>1. c \in Tells(ev) /\ c \in Cep
        BY <1>5, <1>6, <2>12
      <3>2. CASE EpOf[c] = k.id
        <4>1. c \notin Reported(ev)
          BY <2>4, <3>1, <3>2
        <4>2. j.op = "on" => TypeOf[c] = "card"
          <5>1. j.op = "on" => ev.op = "on" \/ ev.op = "none"
            BY <1>4, <1>6 DEF Gathers
          <5>2. ev.op # "none"
            BY <1>4, <2>2, Wired DEF Wired, Modules, Sent, Reported
          <5> QED  BY <3>1, <4>1, <5>1, <5>2 DEF Tells
        <4>3. \A X : c \in X => c \in Affected(j.op, X)
          BY <4>2 DEF Affected
        <4>4. c \in Hit(k)
          <5>1. Lacking(w) = Affected(j.op, {x \in table : EpOf[x] = k.id} \ Hit(k))
            BY <1>1, <1>3, <1>9 DEF Lacking
          <5> QED  BY <2>12, <3>2, <4>3, <5>1
        <4>5. c \in ids
          BY <2>5, <4>3, <4>4
        <4> QED  BY <2>7, <3>1, <4>5 DEF Reaches
      <3>3. CASE EpOf[c] # k.id
        <4>1. ~ Finds(k, c)
          BY <1>9, <3>3 DEF Finds
        <4>2. c \in j.ids \/ \E i \in DOMAIN rest : Finds(rest[i], c)
          BY <1>6, <2>12, <4>1
        <4> QED  BY <2>5, <2>7, <3>1, <4>2 DEF Reaches
      <3> QED  BY <3>2, <3>3
    <2> QED  BY <1>4, <1>7, <2>7, <2>8, <2>11, <2>12
  <1>10. CASE k.what = "value"
    <2>1. j.ids = {k.id} /\ rest = <<>>
      BY <1>1, <1>2, <1>3, <1>10, NextKey
    <2>2. PICK r : r = [j EXCEPT !.todo = rest]
      OBVIOUS
    <2>3. r \in Job /\ r.todo = rest /\ r.ev = ev /\ r.ids = j.ids /\ r.op = j.op
      BY <1>4, <2>2 DEF Job
    <2>4. Goto(w, NextOf(r))
      <3>1. Goto(w, NextOf([j EXCEPT !.todo = Tail(@)]))
        BY <1>1, <1>3, <1>10 DEF Found
      <3> QED  BY <1>2, <2>2, <3>1
    <2>5. Gathers(r)
      <3>1. Stage(r)
        <4>1. k.id \in Cep
          BY <1>5, <2>1
        <4> QED  BY <2>1, <2>3, <4>1 DEF Stage
      <3> QED  BY <1>4, <1>6, <2>3, <3>1 DEF Gathers
    <2>6. ASSUME NEW c, Reaches(j, c) PROVE Reaches(r, c)
      <3>1. ~ Finds(k, c)
        BY <1>10 DEF Finds
      <3> QED  BY <1>6, <2>3, <2>6, <3>1 DEF Reaches
    <2> QED  BY <1>4, <1>7, <2>3, <2>4, <2>5, <2>6
  <1>11. k.what \in {"uri", "children", "value"}
    BY DEF Key
  <1> QED  BY <1>8, <1>9, <1>10, <1>11

(* A worker goes on to the job n, or ends: what was sure stays so, or is   *)
(* in doubt from now on.                                                   *)
LEMMA GoesStep ==
  ASSUME IInv, Settled, NEW w \in Worker, job[w] # Idle, NEW n, Goto(w, n),
         UNCHANGED <<table, state, power, bus, queue>>, doubt \subseteq doubt',
         n # Idle => Works(n) /\ n.ev = job[w].ev,
         n # Idle => \A c \in Tells(n.ev) :
                       Says(job[w].op, power[c]) => Says(n.op, power[c]),
         \A c \in table \ doubt' : Sure(job[w], c) => n # Idle /\ Sure(n, c)
  PROVE  Settled'
  <1>1. \A v \in Worker : job'[v] = IF v = w THEN n ELSE job[v]
    BY DEF Goto, IInv, RfTypeOK
  <1>2. Tables'
    BY DEF Settled, Tables
  <1>3. \A v \in Busy' : v \in Busy /\ job'[v].ev = job[v].ev /\ Works(job'[v])
    BY <1>1 DEF Busy, Settled
  <1>4. Apart'
    BY <1>3 DEF Settled, Apart
  <1>5. ASSUME NEW c \in Cep \ doubt' PROVE Ordered(c)'
    <2>1. Ordered(c)
      BY <1>5 DEF Settled
    <2>2. /\ LastSays(bus, c, power[c])'
          /\ (~ Told(bus, c) => LastSays(queue, c, power[c]))'
      BY <2>1 DEF Ordered
    <2>3. ASSUME ~ Told(bus, c), ~ Told(queue, c)
          PROVE  /\ \A v \in Busy' : c \in Tells(job'[v].ev) => Says(job'[v].op, power[c])
                 /\ c \in table /\ (\A v \in Busy' : ~ Sure(job'[v], c)) =>
                      (state[c] # "Off") = power[c]
      <3>1. ASSUME NEW v \in Busy', c \in Tells(job'[v].ev)
            PROVE  Says(job'[v].op, power[c])
        <4>1. v \in Busy /\ c \in Tells(job[v].ev)
          BY <1>3, <3>1
        <4>2. Says(job[v].op, power[c])
          BY <2>1, <2>3, <4>1 DEF Ordered
        <4> QED  BY <1>1, <3>1, <4>1, <4>2 DEF Busy
      <3>2. ASSUME c \in table, \A v \in Busy' : ~ Sure(job'[v], c)
            PROVE  \A v \in Busy : ~ Sure(job[v], c)
        <4> SUFFICES ASSUME NEW v \in Busy, Sure(job[v], c) PROVE FALSE
          OBVIOUS
        <4>1. CASE v = w
          BY <1>1, <1>5, <3>2, <4>1 DEF Busy
        <4>2. CASE v # w
          BY <1>1, <3>2, <4>2 DEF Busy
        <4> QED  BY <4>1, <4>2
      <3> QED  BY <2>1, <2>3, <3>1, <3>2 DEF Ordered
    <2>4. bus' = bus /\ queue' = queue /\ power' = power /\ table' = table /\ state' = state
      OBVIOUS
    <2> QED  BY <2>2, <2>3, <2>4 DEF Ordered
  <1> QED  BY <1>2, <1>3, <1>4, <1>5 DEF Settled

LEMMA RenumberedWorks ==
  ASSUME NEW j \in Job, Works(j), NEW at \in {"check", "sync", "again"}, NEW snum, NEW round,
         NEW synced, NEW stable, NEW r, r = Numbered(j, at, snum, round, synced, stable)
  PROVE  /\ Works(r) /\ r.ev = j.ev /\ r.op = j.op /\ r # Idle
         /\ r.at = at /\ r.round = round /\ r.stable = stable
         /\ \A c : Reaches(r, c) <=> Reaches(j, c)
  <1>1. r = [at |-> at, ev |-> j.ev, todo |-> j.todo, ids |-> j.ids, op |-> j.op,
             snum |-> snum, round |-> round, synced |-> synced, stable |-> stable]
    BY DEF Numbered
  <1>2. /\ r.ev = j.ev /\ r.todo = j.todo /\ r.ids = j.ids /\ r.op = j.op /\ r.at = at
        /\ r.round = round /\ r.stable = stable
    BY <1>1
  <1>3. r # Idle
    BY <1>2 DEF Idle
  <1>4. Works(r)
    BY <1>2 DEF Works, Gathers, Stage
  <1> QED  BY <1>2, <1>3, <1>4 DEF Reaches

LEMMA LookupSettles ==
  ASSUME Wired, IInv, Settled, NEW w \in Worker, Lookup(w)
  PROVE  Settled'
  <1>1. /\ AtStep(w, "lookup") /\ job[w] # Idle /\ job[w].at = "lookup"
        /\ UNCHANGED <<table, state, power, bus, queue>>
    BY DEF Lookup, AtStep, Others
  <1>2. Works(job[w])
    BY <1>1 DEF Settled, Busy
  <1>3. CASE Hit(KeyOf(w)) # {}
    <2>1. doubt' = doubt \cup Lacking(w) /\ Found(w)
      BY <1>3 DEF Lookup
    <2>2. PICK n : Onward(w, n) /\
            \A c \in table \ Lacking(w) : Reaches(job[w], c) => Reaches(n, c)
      BY <1>1, <1>2, <1>3, <2>1, FoundGoes
    <2> QED  BY <1>1, <2>1, <2>2, GoesStep, NotIdle DEF Onward, Sure
  <1>4. CASE Hit(KeyOf(w)) = {}
    <2>1. PICK j \in Job : j = job[w]
      BY <1>1, AtJob
    <2>2. PICK r : r = [j EXCEPT !.at = "check", !.snum = sync]
      OBVIOUS
    <2>3. r = Numbered(j, "check", sync, j.round, j.synced, j.stable)
      BY <2>2 DEF Numbered, Job
    <2>4. Goto(w, r) /\ doubt' = doubt
      BY <1>4, <2>1, <2>2 DEF Lookup
    <2>5. j.round = 0
      BY <1>1, <1>2, <2>1 DEF Works
    <2>6. /\ Works(r) /\ r.ev = j.ev /\ r.op = j.op /\ r # Idle /\ r.at = "check" /\ r.round = 0
          /\ \A c : Reaches(r, c) <=> Reaches(j, c)
      BY <1>2, <2>1, <2>3, <2>5, RenumberedWorks
    <2>7. ~ Relies(r)
      BY <2>6 DEF Relies
    <2> QED  BY <1>1, <2>1, <2>4, <2>6, <2>7, GoesStep DEF Sure
  <1> QED  BY <1>3, <1>4

(* What a lookup fails to find although it is there is marked as doubtful, *)
(* or the job does not depend on this lookup for it.                       *)
LEMMA Unlost ==
  ASSUME Wired, IInv, Settled, NEW w \in Worker, job[w] # Idle,
         job[w].at \in {"lookup", "check", "sync", "again"},
         NEW c \in table, Reaches(job[w], c),
         ~ InTable(KeyOf(w).id) \/ (Hit(KeyOf(w)) = {} /\ c \in cache)
  PROVE  c \in Unplaced(w) \/ (~ Finds(KeyOf(w), c) /\ ~ KeyOf(w).must)
  <1>1. PICK j \in Job : j = job[w]
    BY JobFields
  <1>2. PICK k \in Key : k = KeyOf(w)
    BY <1>1, Keys
  <1>3. Works(j) /\ j.ev \in Sent /\ c \in Cep
    BY <1>1, JobFields DEF Settled, Busy, IInv, RfTypeOK
  <1>4. EpOf[c] = k.id => InTable(k.id)
    BY <1>3 DEF InTable, Settled, Tables
  <1>5. Reaches(j, c) /\ (~ InTable(k.id) \/ (Hit(k) = {} /\ c \in cache))
    BY <1>1, <1>2
  <1>6. CASE k.what = "uri"
    <2>1. k = UriKey(j.ev)
      BY <1>1, <1>2, <1>3, <1>6, NextKey
    <2>2. c \notin Reported(j.ev)
      <3> SUFFICES ASSUME c \in Reported(j.ev) PROVE FALSE
        OBVIOUS
      <3>1. EpOf[c] = k.id /\ UriOf[c] = k.uri
        BY <2>1 DEF UriKey, Reported
      <3>2. c \in cache => c \in Hit(k)
        BY <1>6, <3>1 DEF Hit
      <3> QED  BY <1>4, <1>5, <3>1, <3>2
    <2>3. c \in About(j.ev)
      BY <1>3, <1>5, Reports DEF Reaches
    <2> QED  BY <1>1, <1>2, <1>6, <2>2, <2>3 DEF Unplaced
  <1>7. CASE k.what = "children"
    <2>1. k.must = FALSE
      BY <1>1, <1>2, <1>3, <1>7, NextKey
    <2>2. EpOf[c] # k.id
      <3>1. EpOf[c] = k.id /\ c \in cache => c \in Hit(k)
        BY <1>7 DEF Hit
      <3> QED  BY <1>4, <1>5, <3>1
    <2> QED  BY <1>2, <1>7, <2>1, <2>2 DEF Finds
  <1>8. CASE k.what = "value"
    <2>1. j.ids = {k.id} /\ Tail(j.todo) = <<>>
      BY <1>1, <1>2, <1>3, <1>8, NextKey
    <2>2. c = k.id
      <3>1. c \in j.ids \/ Finds(k, c) \/ \E i \in DOMAIN Tail(j.todo) : Finds(Tail(j.todo)[i], c)
        BY <1>1, <1>2, <1>3, <1>5, NextKey
      <3>2. ~ Finds(k, c)
        BY <1>8 DEF Finds
      <3>3. \A i \in DOMAIN <<>> : FALSE
        OBVIOUS
      <3> QED  BY <2>1, <3>1, <3>2, <3>3
    <2>3. InTable(k.id) /\ (c \in cache => c \in Hit(k))
      BY <1>3, <1>8, <2>2 DEF InTable, Hit
    <2> QED  BY <1>5, <2>3
  <1>9. k.what \in {"uri", "children", "value"}
    BY DEF Key
  <1> QED  BY <1>6, <1>7, <1>8, <1>9

(* The lookup has found nothing: the worker goes on or ends. *)
LEMMA MissedSettles ==
  ASSUME Wired, IInv, Settled, NEW w \in Worker, job[w] # Idle,
         job[w].at \in {"lookup", "check", "sync", "again"}, Missed(w),
         doubt' = doubt \cup Unplaced(w), UNCHANGED <<table, state, power, bus, queue>>,
         \A c \in table : Sure(job[w], c) =>
           ~ InTable(KeyOf(w).id) \/ (Hit(KeyOf(w)) = {} /\ c \in cache)
  PROVE  Settled'
  <1>1. Works(job[w])
    BY DEF Settled, Busy
  <1>2. \A c \in table : Sure(job[w], c) =>
          c \in doubt' \/ (Reaches(job[w], c) /\ ~ Finds(KeyOf(w), c) /\ ~ KeyOf(w).must)
    BY Unlost DEF Sure
  <1>3. CASE Goto(w, Idle) /\ KeyOf(w).must
    BY <1>2, <1>3, GoesStep
  <1>4. CASE \E n : Onward(w, n) /\
               \A c : Reaches(job[w], c) /\ ~ Finds(KeyOf(w), c) => Reaches(n, c)
    <2>1. PICK n : Onward(w, n) /\
            \A c : Reaches(job[w], c) /\ ~ Finds(KeyOf(w), c) => Reaches(n, c)
      BY <1>4
    <2> QED  BY <1>2, <2>1, GoesStep, NotIdle DEF Onward, Sure
  <1> QED  BY <1>1, <1>3, <1>4, MissedGoes

LEMMA CheckSettles ==
  ASSUME Wired, IInv, Settled, NEW w \in Worker, Check(w)
  PROVE  Settled'
  <1>1. /\ AtStep(w, "check") /\ job[w] # Idle /\ job[w].at = "check"
        /\ UNCHANGED <<table, state, power, bus, queue>>
    BY DEF Check, AtStep, Others
  <1>2. CASE InTable(KeyOf(w).id)
    <2>1. PICK j \in Job : j = job[w] /\ j.at = "check" /\ j.round \in 0 .. 1 /\ Works(j)
      BY <1>1, AtJob DEF Settled, Busy
    <2>2. PICK st : st = IF j.round = 0 THEN table ELSE j.stable
      OBVIOUS
    <2>3. PICK r : r = [j EXCEPT !.at = "sync", !.stable = IF j.round = 0 THEN table ELSE @]
      OBVIOUS
    <2>4. r = Numbered(j, "sync", j.snum, j.round, j.synced, st)
      BY <2>2, <2>3 DEF Numbered, Job
    <2>5. Goto(w, r) /\ doubt' = doubt
      BY <1>2, <2>1, <2>3 DEF Check
    <2>6. /\ Works(r) /\ r.ev = j.ev /\ r.op = j.op /\ r # Idle /\ r.at = "sync" /\ r.stable = st
          /\ \A c : Reaches(r, c) <=> Reaches(j, c)
      BY <2>1, <2>4, RenumberedWorks
    <2>7. \A c \in table : Sure(j, c) => Sure(r, c)
      BY <2>1, <2>2, <2>6 DEF Sure, Relies
    <2> QED  BY <1>1, <2>1, <2>5, <2>6, <2>7, GoesStep
  <1>3. CASE ~ InTable(KeyOf(w).id)
    <2>1. Missed(w) /\ doubt' = doubt \cup Unplaced(w)
      BY <1>3 DEF Check
    <2> QED  BY <1>1, <1>3, <2>1, MissedSettles
  <1> QED  BY <1>2, <1>3

LEMMA TrySyncSettles ==
  ASSUME Wired, IInv, Settled, NEW w \in Worker, TrySync(w)
  PROVE  Settled'
  <1>1. /\ AtStep(w, "sync") /\ job[w] # Idle /\ job[w].at = "sync"
        /\ UNCHANGED <<table, state, power, bus, queue, doubt>>
    BY DEF TrySync, AtStep, Others
  <1>2. PICK j \in Job : j = job[w] /\ j.at = "sync" /\ Works(j)
    BY <1>1, AtJob DEF Settled, Busy
  <1>3. PICK b \in BOOLEAN : Goto(w, [j EXCEPT !.at = "again", !.synced = b])
    BY <1>2 DEF TrySync
  <1>4. PICK r : r = [j EXCEPT !.at = "again", !.synced = b]
    OBVIOUS
  <1>5. r = Numbered(j, "again", j.snum, j.round, b, j.stable)
    BY <1>4 DEF Numbered, Job
  <1>6. /\ Works(r) /\ r.ev = j.ev /\ r.op = j.op /\ r # Idle /\ r.at = "again"
        /\ r.stable = j.stable /\ \A c : Reaches(r, c) <=> Reaches(j, c)
    BY <1>2, <1>5, RenumberedWorks
  <1>7. \A c \in table : Sure(j, c) => Sure(r, c)
    BY <1>2, <1>6 DEF Sure, Relies
  <1> QED  BY <1>1, <1>2, <1>3, <1>4, <1>6, <1>7, GoesStep

LEMMA AgainSettles ==
  ASSUME Wired, IInv, Settled, NEW w \in Worker, Again(w)
  PROVE  Settled'
  <1>1. /\ AtStep(w, "again") /\ job[w] # Idle /\ job[w].at = "again"
        /\ UNCHANGED <<table, state, power, bus, queue>>
    BY DEF Again, AtStep, Others
  <1>2. Works(job[w])
    BY <1>1 DEF Settled, Busy
  <1>3. CASE Hit(KeyOf(w)) # {}
    <2>1. doubt' = doubt \cup Lacking(w) /\ Found(w)
      BY <1>3 DEF Again
    <2>2. PICK n : Onward(w, n) /\
            \A c \in table \ Lacking(w) : Reaches(job[w], c) => Reaches(n, c)
      BY <1>1, <1>2, <1>3, <2>1, FoundGoes
    <2> QED  BY <1>1, <2>1, <2>2, GoesStep, NotIdle DEF Onward, Sure
  <1>4. CASE Hit(KeyOf(w)) = {} /\ MayRetry(job[w])
    <2>1. PICK j \in Job : j = job[w] /\ j.at = "again"
      BY <1>1, AtJob
    <2>2. PICK r : r = [j EXCEPT !.at = "check", !.snum = sync, !.round = 1]
      OBVIOUS
    <2>3. r = Numbered(j, "check", sync, 1, j.synced, j.stable)
      BY <2>2 DEF Numbered, Job
    <2>4. Goto(w, r) /\ doubt' = doubt
      BY <1>4, <2>1, <2>2 DEF Again
    <2>5. /\ Works(r) /\ r.ev = j.ev /\ r.op = j.op /\ r # Idle /\ r.stable = j.stable
          /\ \A c : Reaches(r, c) <=> Reaches(j, c)
      BY <1>2, <2>1, <2>3, RenumberedWorks
    <2>6. \A c \in table : Sure(j, c) => Sure(r, c)
      BY <2>1, <2>5 DEF Sure, Relies
    <2> QED  BY <1>1, <2>1, <2>4, <2>5, <2>6, GoesStep
  <1>5. CASE Hit(KeyOf(w)) = {} /\ ~ MayRetry(job[w])
    <2>1. Missed(w) /\ doubt' = doubt \cup Unplaced(w)
      BY <1>5 DEF Again
    <2>2. Covered(job[w], table, cache, sync) /\ job[w].round \in 0 .. 1
          /\ job[w].synced \in BOOLEAN
      BY <1>1, AtJob
    <2>3. job[w].stable \subseteq cache
      BY <1>1, <1>5, <2>2 DEF Covered, MayRetry
    <2>4. \A c \in table : Sure(job[w], c) => c \in cache
      BY <1>1, <2>3 DEF Sure, Relies
    <2> QED  BY <1>1, <1>5, <2>1, <2>4, MissedSettles
  <1> QED  BY <1>3, <1>4, <1>5

LEMMA FailsSettles ==
  ASSUME Wired, IInv, Settled, NEW w \in Worker, Fails(w)
  PROVE  Settled'
  <1>1. /\ job[w] # Idle /\ UNCHANGED <<table, state, power, bus, queue>>
        /\ doubt' = doubt \cup About(job[w].ev)
    BY DEF Fails, LookupFails, NoCredentials, AskFails, UpdateFails, AtStep, Others
  <1>2. \A c \in table : Sure(job[w], c) => c \in doubt'
    BY <1>1, JobFields, Reports DEF Sure, Reaches
  <1>3. Goto(w, Idle) \/ \E n : Onward(w, n)
    <2>1. CASE LookupFails(w)
      <3>1. Missed(w) /\ job[w].at \in {"lookup", "check", "sync", "again"}
        BY <2>1 DEF LookupFails, NoCredentials, AtStep
      <3>2. Works(job[w])
        BY <1>1 DEF Settled, Busy
      <3> QED  BY <1>1, <3>1, <3>2, MissedGoes
    <2> QED  BY <2>1 DEF Fails, AskFails, UpdateFails, Dropped
  <1>4. CASE Goto(w, Idle)
    BY <1>1, <1>2, <1>4, GoesStep
  <1>5. CASE \E n : Onward(w, n)
    <2>1. PICK n : Onward(w, n)
      BY <1>5
    <2> QED  BY <1>1, <1>2, <2>1, GoesStep DEF Onward
  <1> QED  BY <1>3, <1>4, <1>5

(* The answer from Redfish is about the one component of the event. *)
LEMMA AskSettles ==
  ASSUME Wired, IInv, Settled, NEW w \in Worker, Ask(w)
  PROVE  Settled'
  <1>1. /\ AtStep(w, "ask") /\ job[w] # Idle /\ job[w].at = "ask"
        /\ UNCHANGED <<table, state, power, bus, queue, doubt>>
    BY DEF Ask, AtStep, Others
  <1>2. PICK j \in Job : j = job[w] /\ j.at = "ask" /\ Works(j) /\ j.ev \in Sent
    BY <1>1, AtJob, JobFields DEF Settled, Busy
  <1>3. PICK on \in BOOLEAN : on = \A c \in j.ids : power[c]
    OBVIOUS
  <1>4. PICK op : op = IF on THEN "on" ELSE "off"
    OBVIOUS
  <1>5. PICK r : r = [j EXCEPT !.at = "update", !.op = op]
    OBVIOUS
  <1>6. Goto(w, r)
    BY <1>2, <1>3, <1>4, <1>5 DEF Ask
  <1>7. /\ r.ev = j.ev /\ r.todo = j.todo /\ r.ids = j.ids /\ r.op = op /\ r.at = "update"
        /\ r # Idle
    BY <1>5 DEF Job, Idle
  <1>8. j.todo = <<>> /\ j.op = "none" /\ j.ev.op = "none" /\ j.ev.kind = "alert"
    BY <1>2 DEF Works, Gathers, Sent
  <1>9. Works(r) /\ ~ Relies(r) /\ \A c : Reaches(r, c) <=> Reaches(j, c)
    <2>1. op # "none"
      BY <1>4
    <2> QED  BY <1>2, <1>7, <1>8, <2>1 DEF Works, Gathers, Stage, Relies, Reaches
  <1>10. About(j.ev) \subseteq Reported(j.ev)
    BY <1>2, <1>8, Reports
  <1>11. ASSUME NEW c \in Tells(j.ev) PROVE Says(op, power[c])
    <2>1. c \in Reported(j.ev) /\ j.ids \subseteq Reported(j.ev)
      BY <1>2, <1>10, <1>11, Reports DEF Works, Gathers
    <2>2. j.ids # {}
      <3>1. <<UriKey(j.ev)>> # <<>>
        BY HeadOfOne
      <3> QED  BY <1>2, <1>8, <3>1 DEF Works, Gathers, Stage
    <2>3. j.ids = {c}
      BY <1>2, <2>1, <2>2, Reports
    <2>4. on = power[c] /\ power[c] \in BOOLEAN
      BY <1>2, <1>3, <1>10, <1>11, <2>1, <2>3 DEF IInv, RfTypeOK, Reported
    <2> QED  BY <1>4, <2>4 DEF Says
  <1> QED  BY <1>1, <1>2, <1>6, <1>7, <1>9, <1>11, GoesStep DEF Sure

LEMMA UpdateSettles ==
  ASSUME Wired, IInv, Settled, NEW w \in Worker, Update(w)
  PROVE  Settled'
  <1>1. /\ AtStep(w, "update") /\ job[w] # Idle /\ job[w].at = "update" /\ Goto(w, Idle)
        /\ UNCHANGED <<table, power, bus, queue, doubt>>
    BY DEF Update, AtStep
  <1>2. PICK j \in Job : j = job[w] /\ Works(j) /\ w \in Busy
    BY <1>1, AtJob DEF Settled, Busy
  <1>3. j.todo = <<>> /\ j.op \in {"on", "off"} /\ j.ids \subseteq Tells(j.ev)
    BY <1>1, <1>2 DEF Works, Gathers, Job, Op
  <1>4. \A v \in Busy' : v \in Busy /\ v # w /\ job'[v] = job[v]
    BY <1>1 DEF Goto, Busy, IInv, RfTypeOK
  <1>5. \A v \in Busy : v # w => v \in Busy'
    BY <1>1 DEF Goto, Busy, IInv, RfTypeOK
  <1>6. PICK fit \in SUBSET Cep :
          /\ fit = {c \in j.ids : state[c] \in StartStates(j.op)}
          /\ \A c \in Cep : state'[c] = IF c \in fit THEN NewState(j.op) ELSE state[c]
    BY <1>2 DEF Update, Job
  <1>7. \A c \in Cep : state[c] \in {"Empty", "Off", "On", "Ready"}
    BY DEF IInv, RfTypeOK, State
  <1>8. \A c \in Cep : state'[c] = "Empty" <=> state[c] = "Empty"
    BY <1>6, <1>7 DEF StartStates, NewState
  <1>9. Tables'
    BY <1>1, <1>8 DEF Settled, Tables
  <1>10. Apart' /\ \A v \in Busy' : Works(job'[v])
    BY <1>1, <1>4 DEF Settled, Apart
  <1>11. ASSUME NEW c \in Cep \ doubt' PROVE Ordered(c)'
    <2>1. Ordered(c)
      BY <1>1, <1>11 DEF Settled
    <2>2. ASSUME ~ Told(bus, c), ~ Told(queue, c), c \in table,
                 \A v \in Busy' : ~ Sure(job'[v], c)
          PROVE  (state'[c] # "Off") = power[c]
      <3>1. CASE c \in j.ids
        <4>1. (j.op = "on") = power[c]
          BY <1>2, <1>3, <2>1, <2>2, <3>1 DEF Ordered, Says
        <4>2. state[c] \in {"Off", "On", "Ready"}
          BY <1>7, <2>2 DEF Settled, Tables
        <4>3. (state'[c] # "Off") = (j.op = "on")
          <5>1. CASE j.op = "on"
            <6>1. state'[c] # "Off"
              BY <1>6, <3>1, <4>2, <5>1 DEF StartStates, NewState
            <6> QED  BY <5>1, <6>1
          <5>2. CASE j.op = "off"
            <6>1. state'[c] = "Off"
              BY <1>6, <3>1, <4>2, <5>2 DEF StartStates, NewState
            <6> QED  BY <5>2, <6>1
          <5> QED  BY <1>3, <5>1, <5>2
        <4> QED  BY <4>1, <4>3
      <3>2. CASE c \notin j.ids
        <4>1. \A i \in DOMAIN <<>> : FALSE
          OBVIOUS
        <4>2. ~ Reaches(j, c)
          BY <1>3, <3>2, <4>1 DEF Reaches
        <4>3. \A v \in Busy : ~ Sure(job[v], c)
          BY <1>2, <1>4, <1>5, <2>2, <4>2 DEF Sure
        <4>4. state'[c] = state[c]
          BY <1>6, <3>2
        <4> QED  BY <2>1, <2>2, <4>3, <4>4 DEF Ordered
      <3> QED  BY <3>1, <3>2
    <2>3. ASSUME ~ Told(bus, c), ~ Told(queue, c), NEW v \in Busy', c \in Tells(job'[v].ev)
          PROVE  Says(job'[v].op, power[c])
      BY <1>4, <2>1, <2>3 DEF Ordered
    <2>4. LastSays(bus, c, power[c]) /\ (~ Told(bus, c) => LastSays(queue, c, power[c]))
      BY <2>1 DEF Ordered
    <2>5. bus' = bus /\ queue' = queue /\ power' = power /\ table' = table
      BY <1>1
    <2> QED  BY <2>2, <2>3, <2>4, <2>5 DEF Ordered
  <1> QED  BY <1>9, <1>10, <1>11 DEF Settled

LEMMA TakeSettles ==
  ASSUME Wired, IInv, Settled, NEW w \in Worker, Take(w)
  PROVE  Settled'
  <1> DEFINE S == Sent \cup {NoEvent}
  <1>1. /\ queue \in Seq(S) /\ queue # <<>> /\ queue' = Tail(queue) /\ job[w] = Idle
        /\ UNCHANGED <<table, state, power, bus>>
    BY DEF IInv, Take, Others
  <1>2. Head(queue) \in S
    BY <1>1
  <1> HIDE DEF S
  <1>3. \A c, on : /\ Told(queue, c) <=> Of(Head(queue), c) \/ Told(queue', c)
                   /\ LastSays(queue, c, on) => LastSays(queue', c, on)
                   /\ LastSays(queue, c, on) /\ ~ Told(queue', c) /\ Of(Head(queue), c) =>
                        Says(Head(queue).op, on)
    BY <1>1, ToldTail
  <1>4. CASE Head(queue) = NoEvent
    <2>1. UNCHANGED <<job, doubt>>
      BY <1>4 DEF Take
    <2>2. \A c : Told(queue, c) <=> Told(queue', c)
      BY <1>3, <1>4 DEF Of
    <2>3. ASSUME NEW c \in Cep \ doubt PROVE Ordered(c)'
      <3>1. Ordered(c)
        BY <2>3 DEF Settled
      <3>2. Busy' = Busy
        BY <2>1 DEF Busy
      <3> QED  BY <1>1, <1>3, <2>1, <2>2, <3>1, <3>2 DEF Ordered
    <2>4. Tables' /\ Apart' /\ \A v \in Busy' : Works(job'[v])
      BY <1>1, <2>1 DEF Settled, Tables, Apart, Busy
    <2> QED  BY <2>1, <2>3, <2>4 DEF Settled
  <1>5. CASE Head(queue) # NoEvent
    <2>1. PICK ev \in Sent : ev = Head(queue)
      BY <1>2, <1>5 DEF S
    <2>2. PICK j : j = Begin(ev)
      OBVIOUS
    <2>3. /\ Goto(w, j)
          /\ doubt' = doubt \cup (About(ev) \cap UNION {About(job[v].ev) : v \in Busy})
      BY <1>5, <2>1, <2>2 DEF Take, Busy
    <2>4. /\ j.ev = ev /\ j.op = ev.op /\ j.ids = {} /\ j.todo = <<UriKey(ev)>>
          /\ j.at = "lookup" /\ j.round = 0
      BY <2>2 DEF Begin
    <2>5. Works(j) /\ ~ Relies(j)
      <3>1. Works(j)
        BY <2>4 DEF Works, Gathers, Stage
      <3> QED  BY <2>4, <3>1 DEF Relies
    <2>6. \A c \in Tells(ev) : Sure(j, c)
      <3> SUFFICES ASSUME NEW c \in Tells(ev) PROVE Sure(j, c)
        OBVIOUS
      <3>1. PICK t : t = <<UriKey(ev)>>
        OBVIOUS
      <3>2. 1 \in DOMAIN t /\ t[1] = UriKey(ev)
        BY <3>1
      <3>3. Finds(t[1], c)
        BY <3>2 DEF Finds, UriKey
      <3> QED  BY <2>4, <2>5, <3>1, <3>2, <3>3 DEF Sure, Reaches
    <2>7. \A v \in Worker : job'[v] = IF v = w THEN j ELSE job[v]
      BY <2>3 DEF Goto, IInv, RfTypeOK
    <2>8. /\ \A v \in Busy' : v = w \/ (v \in Busy /\ v # w)
          /\ \A v \in Busy : v # w /\ v \in Busy' /\ job'[v] = job[v]
          /\ w \in Busy' /\ job'[w] = j
      <3>1. j # Idle
        BY <2>4 DEF Idle
      <3> QED  BY <1>1, <2>7, <3>1 DEF Busy
    <2>9. Tables'
      BY <1>1 DEF Settled, Tables
    <2>10. Apart'
      <3> SUFFICES ASSUME NEW u \in Busy', NEW v \in Busy', u # v
                   PROVE  About(job'[u].ev) \cap About(job'[v].ev) \subseteq doubt'
        BY DEF Apart
      <3>1. \A x \in Busy : About(ev) \cap About(job[x].ev) \subseteq doubt'
        BY <2>3
      <3> QED  BY <2>3, <2>4, <2>8, <3>1 DEF Settled, Apart
    <2>11. \A v \in Busy' : Works(job'[v])
      BY <2>5, <2>8 DEF Settled
    <2>12. ASSUME NEW c \in Cep \ doubt' PROVE Ordered(c)'
      <3>1. Ordered(c)
        BY <2>3, <2>12 DEF Settled
      <3>2. Of(Head(queue), c) <=> c \in Tells(ev)
        BY <1>5, <2>1 DEF Of
      <3>3. ASSUME ~ Told(bus, c), ~ Told(queue', c), NEW v \in Busy', c \in Tells(job'[v].ev)
            PROVE  Says(job'[v].op, power[c])
        <4>1. CASE v = w
          BY <1>3, <2>1, <2>4, <2>8, <3>1, <3>2, <3>3, <4>1 DEF Ordered
        <4>2. CASE v # w
          <5>1. v \in Busy /\ c \in Tells(job[v].ev) /\ job'[v] = job[v]
            BY <2>8, <3>3, <4>2
          <5>2. job[v].ev \in Sent
            BY <5>1, JobFields DEF Busy
          <5>3. c \notin Tells(ev)
            BY <2>3, <2>12, <5>1, <5>2, Reports
          <5>4. ~ Told(queue, c)
            BY <1>3, <3>2, <3>3, <5>3
          <5> QED  BY <3>1, <3>3, <5>1, <5>4 DEF Ordered
        <4> QED  BY <4>1, <4>2
      <3>4. ASSUME ~ Told(bus, c), ~ Told(queue', c), c \in table,
                   \A v \in Busy' : ~ Sure(job'[v], c)
            PROVE  (state[c] # "Off") = power[c]
        <4>1. c \notin Tells(ev)
          BY <2>6, <2>8, <3>4
        <4>2. ~ Told(queue, c)
          BY <1>3, <3>2, <3>4, <4>1
        <4>3. \A v \in Busy : ~ Sure(job[v], c)
          BY <2>8, <3>4
        <4> QED  BY <3>1, <3>4, <4>2, <4>3 DEF Ordered
      <3>5. LastSays(bus, c, power[c]) /\ (~ Told(bus, c) => LastSays(queue', c, power[c]))
        BY <1>3, <3>1 DEF Ordered
      <3>6. bus' = bus /\ power' = power /\ table' = table /\ state' = state
        BY <1>1
      <3> QED  BY <3>3, <3>4, <3>5, <3>6 DEF Ordered
    <2> QED  BY <2>9, <2>10, <2>11, <2>12 DEF Settled
  <1> QED  BY <1>4, <1>5

-------------------------------------------------------------------------------
(* Steps outside the workers that take no power and no row away. *)
LEMMA OutsideSettles ==
  ASSUME Settled, UNCHANGED <<table, power, job>>, doubt \subseteq doubt',
         \A c \in Cep : /\ state'[c] = "Empty" <=> state[c] = "Empty"
                        /\ state'[c] = "Off" <=> state[c] = "Off",
         \A c \in Cep \ doubt' : Ordered(c) =>
           /\ LastSays(bus', c, power[c])
           /\ ~ Told(bus', c) => LastSays(queue', c, power[c])
           /\ ~ Told(bus', c) /\ ~ Told(queue', c) => ~ Told(bus, c) /\ ~ Told(queue, c)
  PROVE  Settled'
  <1>1. Tables' /\ Apart' /\ \A w \in Busy' : Works(job'[w])
    BY DEF Settled, Tables, Apart, Busy
  <1>2. ASSUME NEW c \in Cep \ doubt' PROVE Ordered(c)'
    <2>1. Ordered(c)
      BY <1>2 DEF Settled
    <2>2. /\ LastSays(bus', c, power'[c])
          /\ ~ Told(bus', c) => LastSays(queue', c, power'[c])
      BY <1>2, <2>1
    <2>3. Busy' = Busy
      BY DEF Busy
    <2>4. ASSUME ~ Told(bus', c), ~ Told(queue', c)
          PROVE  /\ \A w \in Busy' : c \in Tells(job'[w].ev) => Says(job'[w].op, power'[c])
                 /\ c \in table' /\ (\A w \in Busy' : ~ Sure(job'[w], c)) =>
                      (state'[c] # "Off") = power'[c]
      <3>1. ~ Told(bus, c) /\ ~ Told(queue, c)
        BY <1>2, <2>1, <2>4
      <3>2. (state'[c] # "Off") = (state[c] # "Off")
        BY <1>2
      <3> QED  BY <2>1, <2>3, <3>1, <3>2 DEF Ordered
    <2> QED  BY <2>2, <2>4 DEF Ordered
  <1> QED  BY <1>1, <1>2 DEF Settled

LEMMA BootsSettles ==
  ASSUME IInv, Settled, NEW c \in Cep, Boots(c)
  PROVE  Settled'
  <1>1. UNCHANGED <<table, power, bus, queue, job, doubt>>
    BY DEF Boots
  <1>2. ASSUME NEW d \in Cep
        PROVE  /\ state'[d] = "Empty" <=> state[d] = "Empty"
               /\ state'[d] = "Off" <=> state[d] = "Off"
    <2>1. state'[d] = IF d = c THEN "Ready" ELSE state[d]
      BY DEF Boots, IInv, RfTypeOK
    <2> QED  BY <2>1 DEF Boots
  <1>3. \A d \in Cep \ doubt' : Ordered(d) =>
          /\ LastSays(bus', d, power[d])
          /\ ~ Told(bus', d) => LastSays(queue', d, power[d])
          /\ ~ Told(bus', d) /\ ~ Told(queue', d) => ~ Told(bus, d) /\ ~ Told(queue, d)
    BY <1>1 DEF Ordered
  <1> QED  BY <1>1, <1>2, <1>3, OutsideSettles

LEMMA SignalSettles ==
  ASSUME Settled, Signal \/ UNCHANGED rvars
  PROVE  Settled'
  <1>1. UNCHANGED <<table, state, power, bus, queue, job, doubt>>
    BY DEF Signal, rvars
  <1>2. \A d \in Cep \ doubt' : Ordered(d) =>
          /\ LastSays(bus', d, power[d])
          /\ ~ Told(bus', d) => LastSays(queue', d, power[d])
          /\ ~ Told(bus', d) /\ ~ Told(queue', d) => ~ Told(bus, d) /\ ~ Told(queue, d)
    BY <1>1 DEF Ordered
  <1> QED  BY <1>1, <1>2, OutsideSettles

(* The empty message of a closed reader tells of nobody. *)
LEMMA SpinSettles ==
  ASSUME IInv, Settled, Spin
  PROVE  Settled'
  <1> DEFINE S == Sent \cup {NoEvent}
  <1>1. /\ queue \in Seq(S) /\ NoEvent \in S /\ queue' = Append(queue, NoEvent)
        /\ UNCHANGED <<table, state, power, bus, job, doubt>>
    BY DEF IInv, Spin
  <1> HIDE DEF S
  <1>2. \A c : ~ Of(NoEvent, c)
    BY DEF Of
  <1>3. \A c, on : /\ Told(queue', c) <=> Told(queue, c)
                   /\ LastSays(queue, c, on) => LastSays(queue', c, on)
    BY <1>1, <1>2, ToldAppend
  <1>4. \A d \in Cep \ doubt' : Ordered(d) =>
          /\ LastSays(bus', d, power[d])
          /\ ~ Told(bus', d) => LastSays(queue', d, power[d])
          /\ ~ Told(bus', d) /\ ~ Told(queue', d) => ~ Told(bus, d) /\ ~ Told(queue, d)
    BY <1>1, <1>3 DEF Ordered
  <1> QED  BY <1>1, <1>4, OutsideSettles

(* An event goes from the bus to the queue, behind those that are older,   *)
(* or is lost.                                                             *)
LEMMA ReadNextSettles ==
  ASSUME Wired, IInv, Settled, ReadNext
  PROVE  Settled'
  <1> DEFINE S == Sent \cup {NoEvent}
  <1>1. /\ bus \in Seq(Sent) /\ bus # <<>> /\ bus' = Tail(bus) /\ queue \in Seq(S)
        /\ UNCHANGED <<table, state, power, job>>
    BY DEF IInv, ReadNext
  <1>2. Head(bus) \in Sent
    BY <1>1
  <1>3. Head(bus) \in S
    BY <1>2
  <1> HIDE DEF S
  <1>4. PICK ev \in Sent : ev = Head(bus)
    BY <1>2
  <1>5. \A c, on : /\ Told(bus, c) <=> Of(ev, c) \/ Told(bus', c)
                   /\ LastSays(bus, c, on) => LastSays(bus', c, on)
                   /\ LastSays(bus, c, on) /\ ~ Told(bus', c) /\ Of(ev, c) => Says(ev.op, on)
    BY <1>1, <1>4, ToldTail
  <1>6. CASE queue' = Append(queue, Head(bus)) /\ doubt' = doubt
    <2>1. \A c, on :
            /\ Told(queue', c) <=> Told(queue, c) \/ Of(ev, c)
            /\ (Of(ev, c) => Says(ev.op, on)) /\ (~ Of(ev, c) => LastSays(queue, c, on)) =>
                 LastSays(queue', c, on)
      BY <1>1, <1>3, <1>4, <1>6, ToldAppend
    <2>2. \A d \in Cep \ doubt' : Ordered(d) =>
            /\ LastSays(bus', d, power[d])
            /\ ~ Told(bus', d) => LastSays(queue', d, power[d])
            /\ ~ Told(bus', d) /\ ~ Told(queue', d) => ~ Told(bus, d) /\ ~ Told(queue, d)
      BY <1>5, <2>1 DEF Ordered
    <2> QED  BY <1>1, <1>6, <2>2, OutsideSettles
  <1>7. CASE queue' = queue /\ doubt' = doubt \cup About(ev)
    <2>1. \A c \in Cep \ doubt' : ~ Of(ev, c)
      BY <1>7, Reports DEF Of
    <2>2. \A d \in Cep \ doubt' : Ordered(d) =>
            /\ LastSays(bus', d, power[d])
            /\ ~ Told(bus', d) => LastSays(queue', d, power[d])
            /\ ~ Told(bus', d) /\ ~ Told(queue', d) => ~ Told(bus, d) /\ ~ Told(queue, d)
      BY <1>5, <1>7, <2>1 DEF Ordered
    <2> QED  BY <1>1, <1>7, <2>2, OutsideSettles
  <1> QED  BY <1>4, <1>6, <1>7 DEF ReadNext

(* A switch is told of by an event, whatever loses power; a node that does *)
(* not come up with its module was off before.                             *)
LEMMA SwitchTells ==
  ASSUME Wired, IInv, Tables, NEW c \in Cep, Switch(c), NEW ev \in Sent, NEW op \in Op,
         ev = [from |-> EpOf[c], kind |-> FlavourOf[EpOf[c]], uri |-> UriOf[c], op |-> op],
         op = "none" \/ op = IF power[c] THEN "off" ELSE "on"
  PROVE  /\ \A d \in Tells(ev) : Says(op, power'[d])
         /\ \A d \in Cep \ Tells(ev) : power'[d] = power[d]
         /\ \A m \in Modules : ~ power'[m] => \A d \in Within(m) : ~ power'[d]
  <1>1. /\ ev.from = EpOf[c] /\ ev.uri = UriOf[c] /\ ev.op = op /\ ev.kind = FlavourOf[EpOf[c]]
    OBVIOUS
  <1>2. Reported(ev) = {c}
    <2>1. c \in Reported(ev)
      BY <1>1 DEF Reported
    <2> QED  BY <2>1, Reports
  <1>3. \A d \in Cep : power[d] \in BOOLEAN
    BY DEF IInv, RfTypeOK
  <1>4. TypeOf[c] \in {"module", "node"}
    BY DEF Switch
  <1>5. power'[c] = ~ power[c]
    BY DEF Switch
  <1>6. Says(op, power'[c])
    BY <1>3, <1>5 DEF Says
  <1>7. CASE TypeOf[c] = "module"
    <2>1. c \in Modules /\ op = IF power[c] THEN "off" ELSE "on"
      <3>1. c \in Modules /\ FlavourOf[EpOf[c]] = "resource"
        BY <1>7 DEF Wired, Modules
      <3> QED  BY <1>1, <3>1 DEF Sent
    <2>2. \A d \in Cep : d \in About(ev) <=> d = c \/ d \in Within(c)
      BY <1>2, <1>7 DEF About
    <2>3. ASSUME NEW d \in Within(c)
          PROVE  d \in Cep /\ d # c /\ power'[d] = (~ power[c] /\ TypeOf[d] = "card")
      <3>1. d \in Cep /\ d # c
        BY <2>1, <2>3 DEF Within, Wired
      <3> QED  BY <1>7, <2>3, <3>1 DEF Switch
    <2>4. ASSUME NEW d \in Cep, d # c, d \notin Within(c) PROVE power'[d] = power[d]
      BY <2>4 DEF Switch
    <2>5. ASSUME NEW d \in Tells(ev) PROVE Says(op, power'[d])
      <3>1. d \in About(ev) /\ d \in Cep
        BY AboutType, Reports
      <3>2. CASE d = c
        BY <1>6, <3>2
      <3>3. CASE d \in Within(c)
        <4>1. d \notin Reported(ev)
          BY <1>2, <2>3, <3>3
        <4>2. power'[d] = (op = "on")
          BY <1>1, <2>1, <2>3, <2>5, <3>3, <4>1 DEF Tells
        <4> QED  BY <4>2 DEF Says
      <3> QED  BY <2>2, <3>1, <3>2, <3>3
    <2>6. ASSUME NEW d \in Cep \ Tells(ev) PROVE power'[d] = power[d]
      <3>1. d # c
        BY <1>2, <2>6, Reports
      <3>2. CASE d \in Within(c)
        <4>1. op = "on" /\ TypeOf[d] # "card"
          BY <1>1, <2>1, <2>2, <2>6, <3>2 DEF Tells
        <4>2. ~ power[c] /\ ~ power'[d]
          BY <1>3, <2>1, <2>3, <3>2, <4>1
        <4>3. ~ power[d]
          BY <2>1, <3>2, <4>2 DEF Tables
        <4> QED  BY <1>3, <2>3, <3>2, <4>1, <4>3
      <3> QED  BY <2>4, <3>1, <3>2
    <2>7. ASSUME NEW m \in Modules, ~ power'[m], NEW d \in Within(m) PROVE ~ power'[d]
      <3>1. m \in Cep /\ d \in Cep /\ m \notin Within(c)
        BY <2>1, <2>7 DEF Within, Wired, Modules
      <3>2. CASE m = c
        BY <1>5, <2>3, <2>7, <3>2
      <3>3. CASE m # c
        <4>1. d \notin Within(c) /\ d # c
          BY <2>1, <2>7, <3>3 DEF Wired
        <4> QED  BY <2>4, <2>7, <3>1, <3>3, <4>1 DEF Tables
      <3> QED  BY <3>2, <3>3
    <2> QED  BY <2>5, <2>6, <2>7
  <1>8. CASE TypeOf[c] = "node"
    <2>1. Tells(ev) = {c}
      <3>1. About(ev) = {c}
        BY <1>2, <1>8 DEF About
      <3> QED  BY <1>2, <3>1 DEF Tells
    <2>2. ASSUME NEW d \in Cep, d # c PROVE power'[d] = power[d]
      BY <1>8, <2>2 DEF Switch
    <2>3. ASSUME NEW m \in Modules, ~ power'[m], NEW d \in Within(m) PROVE ~ power'[d]
      <3>1. m \in Cep /\ TypeOf[m] = "module" /\ m # c /\ d \in Cep
        BY <1>8 DEF Modules, Within
      <3>2. ~ power[m]
        BY <2>2, <2>3, <3>1
      <3>3. d # c
        BY <1>8, <2>3, <3>1, <3>2 DEF Switch
      <3> QED  BY <2>2, <2>3, <3>1, <3>2, <3>3 DEF Tables
    <2> QED  BY <1>6, <2>1, <2>2, <2>3
  <1> QED  BY <1>4, <1>7, <1>8

LEMMA SwitchSettles ==
  ASSUME Wired, IInv, Settled, NEW c \in Cep, Switch(c)
  PROVE  Settled'
  <1>1. PICK op \in Op : /\ Send(c, op) /\ (op = "none" => FlavourOf[EpOf[c]] = "alert")
                         /\ op = "none" \/ op = IF power[c] THEN "off" ELSE "on"
    BY DEF Switch, Op
  <1>2. PICK ev : ev = [from |-> EpOf[c], kind |-> FlavourOf[EpOf[c]], uri |-> UriOf[c],
                        op |-> op]
    OBVIOUS
  <1>3. ev \in Sent /\ ev.op = op
    BY <1>1, <1>2, EventAssumption DEF Sent, Event
  <1>4. bus' = Append(bus, ev) /\ UNCHANGED <<table, state, queue, job, doubt>>
    BY <1>1, <1>2 DEF Switch, Send
  <1>5. Tables
    BY DEF Settled
  <1>6. /\ \A d \in Tells(ev) : Says(op, power'[d])
        /\ \A d \in Cep \ Tells(ev) : power'[d] = power[d]
        /\ \A m \in Modules : ~ power'[m] => \A d \in Within(m) : ~ power'[d]
    BY <1>1, <1>2, <1>3, <1>5, SwitchTells
  <1>7. Tables' /\ Apart' /\ \A w \in Busy' : Works(job'[w])
    BY <1>4, <1>6 DEF Settled, Tables, Apart, Busy
  <1>8. \A d : Of(ev, d) <=> d \in Tells(ev)
    BY <1>3, EventAssumption DEF Of, Sent
  <1>9. \A d, on :
          /\ Told(bus', d) <=> Told(bus, d) \/ Of(ev, d)
          /\ (Of(ev, d) => Says(ev.op, on)) /\ (~ Of(ev, d) => LastSays(bus, d, on)) =>
               LastSays(bus', d, on)
    BY <1>3, <1>4, ToldAppend DEF IInv
  <1>10. ASSUME NEW d \in Cep \ doubt' PROVE Ordered(d)'
    <2>1. Ordered(d)
      BY <1>4, <1>10 DEF Settled
    <2>2. LastSays(bus', d, power'[d])
      BY <1>3, <1>6, <1>8, <1>9, <1>10, <2>1 DEF Ordered
    <2>3. ~ Told(bus', d) => ~ Told(bus, d) /\ power'[d] = power[d]
      BY <1>6, <1>8, <1>9, <1>10
    <2>4. Busy' = Busy
      BY <1>4 DEF Busy
    <2> QED  BY <1>4, <2>1, <2>2, <2>3, <2>4 DEF Ordered
  <1> QED  BY <1>7, <1>10 DEF Settled

(* Discovery stores the power that it reads. *)
LEMMA StoreSettles ==
  ASSUME IInv, Settled, NEW e \in Endpoint, NEW rows \in SUBSET Cep, Store(e, rows)
  PROVE  Settled'
  <1>1. /\ table' = table \cup rows /\ (e \in Cep => e \in rows) /\ \A c \in rows : EpOf[c] = e
        /\ UNCHANGED <<power, bus, queue, job, doubt>>
    BY DEF Store
  <1>2. \A c \in Cep \ rows : state'[c] = state[c]
    BY DEF Store
  <1>3. \A c \in rows : state'[c] # "Empty" /\ (state'[c] # "Off") = power[c]
    <2> SUFFICES ASSUME NEW c \in rows
                 PROVE  state'[c] # "Empty" /\ (state'[c] # "Off") = power[c]
      OBVIOUS
    <2>1. c \in Cep /\ power[c] \in BOOLEAN
      BY DEF IInv, RfTypeOK
    <2>2. CASE power[c]
      <3>1. state'[c] \in {"Ready", "On"}
        BY <2>1, <2>2 DEF Store
      <3> QED  BY <2>1, <2>2, <3>1
    <2>3. CASE ~ power[c]
      <3>1. state'[c] = "Off"
        BY <2>1, <2>3 DEF Store
      <3> QED  BY <2>1, <2>3, <3>1
    <2> QED  BY <2>2, <2>3
  <1>4. Tables'
    <2>1. \A c \in Cep : c \in table' <=> state'[c] # "Empty"
      BY <1>1, <1>2, <1>3 DEF Settled, Tables
    <2>2. \A c \in table' : EpOf[c] \in Cep => EpOf[c] \in table'
      BY <1>1 DEF Settled, Tables
    <2> QED  BY <1>1, <2>1, <2>2 DEF Settled, Tables
  <1>5. Apart' /\ \A w \in Busy' : Works(job'[w])
    BY <1>1 DEF Settled, Apart, Busy
  <1>6. ASSUME NEW c \in Cep \ doubt' PROVE Ordered(c)'
    <2>1. Ordered(c)
      BY <1>1, <1>6 DEF Settled
    <2>2. Busy' = Busy
      BY <1>1 DEF Busy
    <2>3. CASE c \in rows
      BY <1>1, <1>3, <2>1, <2>2, <2>3 DEF Ordered
    <2>4. CASE c \notin rows
      BY <1>1, <1>2, <1>6, <2>1, <2>2, <2>4 DEF Ordered
    <2> QED  BY <2>3, <2>4
  <1> QED  BY <1>4, <1>5, <1>6 DEF Settled

LEMMA DeleteSettles ==
  ASSUME Wired, IInv, Settled, NEW e \in Endpoint, Delete(e)
  PROVE  Settled'
  <1>1. PICK rows \in SUBSET Cep : rows = {c \in table : EpOf[c] = e}
    BY DEF IInv, RfTypeOK
  <1>2. /\ table' = table \ rows /\ Forget(rows)
        /\ \A c \in Cep : state'[c] = IF c \in rows THEN "Empty" ELSE state[c]
        /\ UNCHANGED <<power, bus, queue, doubt>>
    BY <1>1 DEF Delete
  <1>3. Tables'
    <2>1. \A c \in Cep : c \in table' <=> state'[c] # "Empty"
      BY <1>2 DEF Settled, Tables
    <2>2. ASSUME NEW c \in table', EpOf[c] \in Cep PROVE EpOf[c] \in table'
      <3>1. c \in table /\ c \notin rows /\ c \in Cep /\ EpOf[c] \in table
        BY <1>2, <2>2 DEF Settled, Tables, IInv, RfTypeOK
      <3>2. EpOf[EpOf[c]] = EpOf[c]
        BY <2>2, <3>1, EventAssumption DEF Wired
      <3> QED  BY <1>1, <1>2, <3>1, <3>2
    <2> QED  BY <1>2, <2>1, <2>2 DEF Settled, Tables
  <1>4. ASSUME NEW w \in Busy'
        PROVE  /\ w \in Busy /\ job'[w].ev = job[w].ev /\ job'[w].op = job[w].op
               /\ Works(job'[w])
    <2>1. job[w] # Idle /\ w \in Busy /\ w \in Worker
      BY <1>2, <1>4 DEF Busy, Forget
    <2>2. PICK j \in Job : j = job[w] /\ Works(j)
      BY <2>1, JobFields DEF Settled
    <2>3. PICK r : r = [j EXCEPT !.stable = @ \ rows]
      OBVIOUS
    <2>4. job'[w] = r
      BY <1>2, <2>1, <2>2, <2>3 DEF Forget, Busy
    <2>5. /\ r.at = j.at /\ r.ev = j.ev /\ r.ids = j.ids /\ r.todo = j.todo /\ r.op = j.op
          /\ r.round = j.round
      BY <2>3 DEF Job
    <2>6. Works(r)
      BY <2>2, <2>5 DEF Works, Gathers, Stage
    <2> QED  BY <2>1, <2>2, <2>4, <2>5, <2>6
  <1>5. ASSUME NEW c \in Cep \ rows, NEW w \in Busy, Sure(job[w], c)
        PROVE  w \in Busy' /\ Sure(job'[w], c)
    <2>1. w \in Worker /\ job[w] # Idle
      BY DEF Busy
    <2>2. PICK j \in Job : j = job[w]
      BY <2>1, JobFields
    <2>3. PICK r : r = [j EXCEPT !.stable = @ \ rows]
      OBVIOUS
    <2>4. job'[w] = r
      BY <1>2, <2>1, <2>2, <2>3 DEF Forget
    <2>5. /\ r.at = j.at /\ r.ev = j.ev /\ r.ids = j.ids /\ r.todo = j.todo
          /\ r.round = j.round /\ r.stable = j.stable \ rows /\ j.at # "idle"
      BY <2>3 DEF Job
    <2>6. r # Idle
      BY <2>5 DEF Idle
    <2> QED  BY <1>5, <2>1, <2>2, <2>4, <2>5, <2>6 DEF Busy, Sure, Reaches, Relies
  <1>6. Apart'
    BY <1>2, <1>4 DEF Settled, Apart
  <1>7. ASSUME NEW c \in Cep \ doubt' PROVE Ordered(c)'
    <2>1. Ordered(c)
      BY <1>2, <1>7 DEF Settled
    <2>2. ASSUME c \in table', \A w \in Busy' : ~ Sure(job'[w], c)
          PROVE  /\ c \in table /\ state'[c] = state[c]
                 /\ \A w \in Busy : ~ Sure(job[w], c)
      BY <1>2, <1>5, <1>7, <2>2
    <2> QED  BY <1>2, <1>4, <2>1, <2>2 DEF Ordered
  <1> QED  BY <1>3, <1>4, <1>6, <1>7 DEF Settled

(* What smd had read before it was killed is in doubt. *)
LEMMA RestartSettles ==
  ASSUME IInv, Settled, Restart
  PROVE  Settled'
  <1>1. /\ queue' = <<>> /\ doubt' = doubt \cup UNION {About(ev) : ev \in InHand}
        /\ UNCHANGED <<table, state, power, bus>>
    BY DEF Restart
  <1>2. Busy' = {}
    BY DEF Restart, Busy
  <1>3. ASSUME NEW c \in Cep \ doubt'
        PROVE  ~ Told(queue, c) /\ \A w \in Busy : ~ Sure(job[w], c)
    <2>1. \A ev \in InHand : c \notin Tells(ev)
      BY <1>1, <1>3 DEF Tells
    <2>2. ~ Told(queue, c)
      BY <2>1 DEF Told, Of, InHand
    <2>3. \A w \in Busy : job[w].ev \in InHand
      BY DEF InHand, Busy
    <2> QED  BY <2>1, <2>2, <2>3 DEF Sure, Reaches
  <1>4. \A c, on : ~ Told(queue', c) /\ LastSays(queue', c, on)
    BY <1>1 DEF Told, LastSays
  <1>5. ASSUME NEW c \in Cep \ doubt' PROVE Ordered(c)'
    <2>1. Ordered(c)
      BY <1>1, <1>5 DEF Settled
    <2> QED  BY <1>1, <1>2, <1>3, <1>4, <1>5, <2>1 DEF Ordered
  <1>6. Tables' /\ Apart'
    BY <1>1, <1>2 DEF Settled, Tables, Apart
  <1> QED  BY <1>2, <1>5, <1>6 DEF Settled

LEMMA SettledInit == RfInit => Settled
  <1> SUFFICES ASSUME RfInit PROVE Settled
    OBVIOUS
  <1>1. /\ table = {} /\ state = [c \in Cep |-> "Empty"] /\ bus = <<>> /\ queue = <<>>
        /\ job = [w \in Worker |-> Idle]
    BY DEF RfInit
  <1>2. Busy = {}
    BY <1>1 DEF Busy
  <1>3. ASSUME NEW m \in Modules, ~ power[m], NEW c \in Within(m) PROVE ~ power[c]
    <2>1. PICK on \in BOOLEAN :
            power = [d \in Cep |-> \/ on
                                   \/ TypeOf[d] = "card" /\ \A n \in DOMAIN BmcsOf : d \notin Within(n)]
      BY DEF RfInit
    <2>2. m \in DOMAIN BmcsOf /\ m \in Cep /\ c \in Cep
      BY EventAssumption DEF Modules, Within
    <2> QED  BY <1>3, <2>1, <2>2
  <1>4. Tables
    BY <1>1, <1>3 DEF Tables
  <1>5. \A c, on : ~ Told(<<>>, c) /\ LastSays(<<>>, c, on)
    BY DEF Told, LastSays
  <1> QED  BY <1>1, <1>2, <1>4, <1>5 DEF Settled, Apart, Ordered

LEMMA SettledStep ==
  ASSUME Wired, IInv, Settled, [RfNext]_rvars
  PROVE  Settled'
  <1>1. ASSUME NEW w \in Worker, Work(w) PROVE Settled'
    BY <1>1, TakeSettles, LookupSettles, CheckSettles, TrySyncSettles, AgainSettles, AskSettles,
       UpdateSettles DEF Work
  <1> QED
    BY <1>1, FailsSettles, SwitchSettles, BootsSettles, DeleteSettles, StoreSettles,
       ReadNextSettles, SignalSettles, SpinSettles, RestartSettles DEF RfNext

(* The states follow the power, for any controllers and components that    *)
(* are wired like this: an event that is neither lost nor overtaken, of a  *)
(* component that was discovered, leads to its state, through any races of *)
(* lookups, syncs, discoveries and deletions.                              *)
THEOREM StatesFollow ==
  ASSUME Wired
  PROVE  RfSpec => []StateFollowsPower
  <1>1. RfInit => Settled
    BY SettledInit
  <1>2. IInv /\ Settled /\ [RfNext]_rvars => Settled'
    BY SettledStep
  <1>3. IInv /\ Settled => StateFollowsPower
    <2> SUFFICES ASSUME IInv, Settled, Quiet, NEW c \in table \ doubt
                 PROVE  (state[c] # "Off") = power[c]
      BY DEF StateFollowsPower
    <2>1. bus = <<>> /\ queue = <<>> /\ Busy = {} /\ c \in Cep
      BY DEF Quiet, Busy, IInv, RfTypeOK
    <2>2. ~ Told(<<>>, c)
      BY DEF Told
    <2> QED  BY <2>1, <2>2 DEF Settled, Ordered
  <1> QED  BY <1>1, <1>2, <1>3, InvCorrect, PTL DEF RfSpec

(* ----------------------------- Subscriptions ----------------------------- *)

(* References: the map of a list of subscriptions, entry by entry.          *)

LEMMA LeastCount ==
  ASSUME NEW S \in SUBSET Nat, S # {}
  PROVE  \E n \in S : \A m \in S : n <= m
  <1> DEFINE R == {ss \in Nat \X Nat : ss[1] < ss[2]}
  <1>1. IsWellFoundedOn(R, Nat)
    BY NatLessThanWellFounded DEF OpToRel
  <1>2. PICK x \in S : \A y \in S : ~(<<y, x>> \in R)
    <2> HIDE DEF R
    <2> QED  BY <1>1, WFMin
  <1>3. ASSUME NEW y \in S PROVE x <= y
    <2>1. x \in Nat /\ y \in Nat
      OBVIOUS
    <2>2. <<y, x>> \notin R
      BY <1>2
    <2>3. ~(y < x)
      BY <2>1, <2>2
    <2> QED  BY <2>1, <2>3
  <1> QED  BY <1>3

(* The first so many of the subscriptions. *)
Upto(subs, t, u, n) == {r \in References(subs, t, u) : r[1] <= n}
(* What one subscription has in the map. *)
Weight(sub, t, u) == IF sub # NoSub /\ sub.url = u THEN Count(sub, t) ELSE 0
OwnRefs(sub, id, t, u) == IF sub # NoSub /\ sub.url = u THEN {id} \X (1 .. Count(sub, t)) ELSE {}
Rest(subs, id, t, u) == {r \in References(subs, t, u) : r[1] # id}
Row == SCNPostSubscription \cup {NoSub}

LEMMA CountType ==
  ASSUME NEW sub \in SCNPostSubscription, NEW t \in Trigger
  PROVE  Count(sub, t) \in Nat
BY DEF Count, Trigger, SCNPostSubscription, Lists, TriggerKind

LEMMA WeightType ==
  ASSUME NEW sub \in Row, NEW t \in Trigger, NEW u \in Url
  PROVE  Weight(sub, t, u) \in Nat
BY CountType DEF Weight, Row

LEMMA Column ==
  ASSUME NEW id, NEW n \in Nat
  PROVE  /\ IsFiniteSet({id} \X (1 .. n))
         /\ Cardinality({id} \X (1 .. n)) = n
<1> DEFINE f == [x \in 1 .. n |-> <<id, x>>]
<1>1. f \in Bijection(1 .. n, {id} \X (1 .. n))
  BY DEF Bijection, Injection, Surjection, IsInjective
<1>2. IsFiniteSet(1 .. n) /\ Cardinality(1 .. n) = n
  BY FS_Interval
<1> QED
  BY <1>1, <1>2, FS_Bijection DEF ExistsBijection

LEMMA OwnSize ==
  ASSUME NEW sub \in Row, NEW id, NEW t \in Trigger, NEW u \in Url
  PROVE  /\ IsFiniteSet(OwnRefs(sub, id, t, u))
         /\ Cardinality(OwnRefs(sub, id, t, u)) = Weight(sub, t, u)
<1>1. CASE sub # NoSub /\ sub.url = u
  <2>1. Count(sub, t) \in Nat
    BY <1>1, CountType DEF Row
  <2> QED
    BY <1>1, <2>1, Column DEF OwnRefs, Weight
<1>2. CASE ~(sub # NoSub /\ sub.url = u)
  BY <1>2, FS_EmptySet DEF OwnRefs, Weight
<1> QED
  BY <1>1, <1>2

(* A reference is one of its own subscription. *)
LEMMA InReferences ==
  ASSUME NEW subs \in [Id -> Row], NEW t \in Trigger, NEW u \in Url
  PROVE  \A r : r \in References(subs, t, u) <=>
                  \E id \in Id : r \in OwnRefs(subs[id], id, t, u)
BY Zenon DEF References, OwnRefs

LEMMA OwnFirst ==
  ASSUME NEW sub, NEW id, NEW t, NEW u, NEW r \in OwnRefs(sub, id, t, u)
  PROVE  r[1] = id
BY DEF OwnRefs

LEMMA OfItsOwn ==
  ASSUME NEW subs \in [Id -> Row], NEW t \in Trigger, NEW u \in Url,
         NEW r \in References(subs, t, u)
  PROVE  r[1] \in Id /\ r \in OwnRefs(subs[r[1]], r[1], t, u)
<1>1. PICK id \in Id : r \in OwnRefs(subs[id], id, t, u)
  BY InReferences
<1>2. r[1] = id
  BY <1>1, OwnFirst
<1> QED
  BY <1>1, <1>2

LEMMA OwnInReferences ==
  ASSUME NEW subs \in [Id -> Row], NEW t \in Trigger, NEW u \in Url,
         NEW id \in Id, NEW r \in OwnRefs(subs[id], id, t, u)
  PROVE  r \in References(subs, t, u) /\ r[1] = id
BY InReferences, OwnFirst

LEMMA ReferencesFinite ==
  ASSUME NEW subs \in [Id -> Row], NEW t \in Trigger, NEW u \in Url
  PROVE  IsFiniteSet(References(subs, t, u))
<1> DEFINE Bad == {n \in 0 .. MaxId : ~ IsFiniteSet(Upto(subs, t, u, n))}
<1>0. MaxId \in Nat /\ Id = 1 .. MaxId
  BY SubscriptionsAssumption DEF Id
<1>1. Bad = {}
  <2>1. SUFFICES ASSUME Bad # {} PROVE FALSE
    OBVIOUS
  <2>2. Bad \in SUBSET Nat
    BY <1>0
  <2>3. PICK n \in Bad : \A m \in Bad : n <= m
    BY <2>1, <2>2, LeastCount
  <2>4. n \in 0 .. MaxId /\ ~ IsFiniteSet(Upto(subs, t, u, n))
    BY <2>3
  <2>5. CASE n = 0
    <3>1. Upto(subs, t, u, 0) = {}
      <4>1. \A r \in References(subs, t, u) : r[1] \in 1 .. MaxId
        BY <1>0, OfItsOwn
      <4> QED
        BY <4>1, <1>0 DEF Upto
    <3> QED
      BY <2>4, <2>5, <3>1, FS_EmptySet
  <2>6. CASE n # 0
    <3>1. n \in Id /\ n - 1 \in 0 .. MaxId /\ n - 1 < n
      BY <1>0, <2>4, <2>6
    <3>2. n - 1 \notin Bad
      BY <3>1, <2>3, <2>2
    <3>3. IsFiniteSet(Upto(subs, t, u, n - 1))
      BY <3>1, <3>2
    <3>4. Upto(subs, t, u, n) = Upto(subs, t, u, n - 1) \cup OwnRefs(subs[n], n, t, u)
      <4>1. \A r \in References(subs, t, u) :
              r[1] \in Id /\ (r[1] <= n <=> r[1] <= n - 1 \/ r[1] = n)
        <5>1. \A r \in References(subs, t, u) : r[1] \in Id
          BY OfItsOwn
        <5> QED
          BY <5>1, <3>1, <1>0
      <4>2. \A r \in References(subs, t, u) : r[1] = n <=> r \in OwnRefs(subs[n], n, t, u)
        <5>1. ASSUME NEW r \in References(subs, t, u), r[1] = n
              PROVE  r \in OwnRefs(subs[n], n, t, u)
          BY <5>1, OfItsOwn
        <5>2. ASSUME NEW r \in References(subs, t, u), r \in OwnRefs(subs[n], n, t, u)
              PROVE  r[1] = n
          BY <5>2, OwnFirst
        <5> QED
          BY <5>1, <5>2
      <4>3. \A r \in OwnRefs(subs[n], n, t, u) : r \in References(subs, t, u)
        BY OwnInReferences, <3>1
      <4> QED
        BY <4>1, <4>2, <4>3 DEF Upto
    <3>5. IsFiniteSet(OwnRefs(subs[n], n, t, u))
      BY <3>1, OwnSize
    <3>6. \A S, T : IsFiniteSet(S) /\ IsFiniteSet(T) => IsFiniteSet(S \cup T)
      BY FS_Union
    <3>7. IsFiniteSet(Upto(subs, t, u, n))
      BY <3>3, <3>4, <3>5, <3>6, Zenon
    <3> QED
      BY <3>7, <2>4
  <2> QED
    BY <2>5, <2>6
<1>2. References(subs, t, u) = Upto(subs, t, u, MaxId)
  <2>1. \A r \in References(subs, t, u) : r[1] \in 1 .. MaxId
    BY <1>0, OfItsOwn
  <2> QED
    BY <2>1, <1>0 DEF Upto
<1>3. MaxId \in 0 .. MaxId
  BY <1>0
<1> QED
  BY <1>1, <1>2, <1>3

(* The count of an entry is what one subscription has in it, and the rest. *)
LEMMA CountApart ==
  ASSUME NEW subs \in [Id -> Row], NEW id \in Id, NEW t \in Trigger, NEW u \in Url
  PROVE  /\ Cardinality(Rest(subs, id, t, u)) \in Nat
         /\ Weight(subs[id], t, u) \in Nat
         /\ MapOf(subs)[<<t, u>>] = Cardinality(Rest(subs, id, t, u)) + Weight(subs[id], t, u)
<1> DEFINE A == Rest(subs, id, t, u)
           B == OwnRefs(subs[id], id, t, u)
<1>1. References(subs, t, u) = A \cup B /\ A \cap B = {}
  <2>1. \A r \in References(subs, t, u) : r[1] = id <=> r \in B
    <3>1. ASSUME NEW r \in References(subs, t, u), r[1] = id PROVE r \in B
      BY <3>1, OfItsOwn
    <3>2. ASSUME NEW r \in References(subs, t, u), r \in B PROVE r[1] = id
      BY <3>2, OwnFirst
    <3> QED
      BY <3>1, <3>2
  <2>2. \A r \in B : r \in References(subs, t, u)
    BY OwnInReferences
  <2> QED
    BY <2>1, <2>2 DEF Rest
<1>2. IsFiniteSet(A)
  BY ReferencesFinite, FS_Subset DEF Rest
<1>3. IsFiniteSet(B) /\ Cardinality(B) = Weight(subs[id], t, u)
  BY OwnSize
<1>4. Cardinality(A) \in Nat /\ Cardinality(B) \in Nat
  BY <1>2, <1>3, FS_CardinalityType
<1>5. Cardinality(A \cup B) = Cardinality(A) + Cardinality(B) - Cardinality(A \cap B)
  BY <1>2, <1>3, FS_Union
<1>6. Cardinality(A \cap B) = 0
  BY <1>1, FS_EmptySet
<1>7. MapOf(subs)[<<t, u>>] = Cardinality(References(subs, t, u))
  <2>1. <<t, u>> \in Entry /\ <<t, u>>[1] = t /\ <<t, u>>[2] = u
    BY DEF Entry
  <2> QED
    BY <2>1 DEF MapOf
<1> HIDE DEF A, B
<1>8. MapOf(subs)[<<t, u>>] = Cardinality(A) + Cardinality(B)
  BY <1>1, <1>4, <1>5, <1>6, <1>7
<1> QED
  BY <1>3, <1>4, <1>8 DEF A

(* A change of one subscription leaves the references of the others. *)
LEMMA RestKept ==
  ASSUME NEW subs \in [Id -> Row], NEW id \in Id, NEW t \in Trigger, NEW u \in Url, NEW x \in Row
  PROVE  Rest([subs EXCEPT ![id] = x], id, t, u) = Rest(subs, id, t, u)
<1> DEFINE new == [subs EXCEPT ![id] = x]
<1>1. new \in [Id -> Row] /\ \A i \in Id : i # id => new[i] = subs[i]
  OBVIOUS
<1> HIDE DEF new
<1>2. ASSUME NEW r \in Rest(new, id, t, u) PROVE r \in Rest(subs, id, t, u)
  <2>1. r \in References(new, t, u) /\ r[1] # id
    BY DEF Rest
  <2>2. r[1] \in Id /\ r \in OwnRefs(new[r[1]], r[1], t, u)
    BY <2>1, <1>1, OfItsOwn
  <2>3. r \in OwnRefs(subs[r[1]], r[1], t, u)
    BY <2>1, <2>2, <1>1
  <2> QED
    BY <2>1, <2>2, <2>3, OwnInReferences DEF Rest
<1>3. ASSUME NEW r \in Rest(subs, id, t, u) PROVE r \in Rest(new, id, t, u)
  <2>1. r \in References(subs, t, u) /\ r[1] # id
    BY DEF Rest
  <2>2. r[1] \in Id /\ r \in OwnRefs(subs[r[1]], r[1], t, u)
    BY <2>1, OfItsOwn
  <2>3. r \in OwnRefs(new[r[1]], r[1], t, u)
    BY <2>1, <2>2, <1>1
  <2> QED
    BY <2>1, <2>2, <2>3, <1>1, OwnInReferences DEF Rest
<1> QED
  BY <1>2, <1>3 DEF new

(* The map after such a change. *)
LEMMA MapOfChanged ==
  ASSUME NEW subs \in [Id -> Row], NEW id \in Id, NEW t \in Trigger, NEW u \in Url, NEW x \in Row
  PROVE  /\ MapOf([subs EXCEPT ![id] = x])[<<t, u>>]
              = MapOf(subs)[<<t, u>>] - Weight(subs[id], t, u) + Weight(x, t, u)
         /\ MapOf(subs)[<<t, u>>] \in Nat /\ MapOf(subs)[<<t, u>>] >= Weight(subs[id], t, u)
         /\ Weight(subs[id], t, u) \in Nat /\ Weight(x, t, u) \in Nat
<1> DEFINE new == [subs EXCEPT ![id] = x]
<1>1. new \in [Id -> Row] /\ new[id] = x
  OBVIOUS
<1>2. Rest(new, id, t, u) = Rest(subs, id, t, u)
  BY RestKept
<1>3. /\ Cardinality(Rest(subs, id, t, u)) \in Nat
      /\ Weight(subs[id], t, u) \in Nat
      /\ MapOf(subs)[<<t, u>>] = Cardinality(Rest(subs, id, t, u)) + Weight(subs[id], t, u)
  BY CountApart
<1>4. /\ Weight(new[id], t, u) \in Nat
      /\ MapOf(new)[<<t, u>>] = Cardinality(Rest(new, id, t, u)) + Weight(new[id], t, u)
  BY <1>1, CountApart
<1> HIDE DEF new
<1>5. MapOf(new)[<<t, u>>] = MapOf(subs)[<<t, u>>] - Weight(subs[id], t, u) + Weight(x, t, u)
  BY <1>1, <1>2, <1>3, <1>4
<1> QED
  BY <1>1, <1>3, <1>4, <1>5 DEF new

(* What is added to one subscription is added to the map; and taken off.   *)
LEMMA MapGrows ==
  ASSUME NEW subs \in [Id -> Row], NEW id \in Id, NEW x \in Row, NEW d \in SCNPostSubscription,
         \A t \in Trigger, u \in Url :
           Weight(x, t, u) = Weight(subs[id], t, u) + Weight(d, t, u)
  PROVE  AddSCNMap(MapOf(subs), d) = MapOf([subs EXCEPT ![id] = x])
<1> DEFINE new == [subs EXCEPT ![id] = x]
<1>1. ASSUME NEW e \in Entry PROVE AddSCNMap(MapOf(subs), d)[e] = MapOf(new)[e]
  <2>1. PICK t \in Trigger, u \in Url : e = <<t, u>>
    BY DEF Entry
  <2>2. e[1] = t /\ e[2] = u
    BY <2>1
  <2>3. AddSCNMap(MapOf(subs), d)[e]
          = IF u = d.url THEN MapOf(subs)[e] + Count(d, t) ELSE MapOf(subs)[e]
    BY <2>2 DEF AddSCNMap
  <2>4. /\ MapOf(new)[e] = MapOf(subs)[e] - Weight(subs[id], t, u) + Weight(x, t, u)
        /\ MapOf(subs)[e] \in Nat
        /\ Weight(subs[id], t, u) \in Nat /\ Weight(x, t, u) \in Nat
    BY <2>1, MapOfChanged
  <2>5. Weight(x, t, u) = Weight(subs[id], t, u) + Weight(d, t, u)
    OBVIOUS
  <2>6. Weight(d, t, u) = IF u = d.url THEN Count(d, t) ELSE 0
    BY SubscriptionsAssumption DEF Weight
  <2>7. Weight(d, t, u) \in Nat
    BY WeightType DEF Row
  <2> HIDE DEF new
  <2> QED
    BY <2>3, <2>4, <2>5, <2>6, <2>7
<1> QED
  BY <1>1 DEF AddSCNMap, MapOf

LEMMA MapShrinks ==
  ASSUME NEW subs \in [Id -> Row], NEW id \in Id, NEW x \in Row, NEW d \in SCNPostSubscription,
         \A t \in Trigger, u \in Url :
           Weight(subs[id], t, u) = Weight(x, t, u) + Weight(d, t, u)
  PROVE  RemoveSCNMap(MapOf(subs), d) = MapOf([subs EXCEPT ![id] = x])
<1> DEFINE new == [subs EXCEPT ![id] = x]
<1>1. ASSUME NEW e \in Entry PROVE RemoveSCNMap(MapOf(subs), d)[e] = MapOf(new)[e]
  <2>1. PICK t \in Trigger, u \in Url : e = <<t, u>>
    BY DEF Entry
  <2>2. e[1] = t /\ e[2] = u
    BY <2>1
  <2>3. RemoveSCNMap(MapOf(subs), d)[e]
          = IF u # d.url THEN MapOf(subs)[e]
            ELSE IF MapOf(subs)[e] > Count(d, t) THEN MapOf(subs)[e] - Count(d, t) ELSE 0
    BY <2>2 DEF RemoveSCNMap
  <2>4. /\ MapOf(new)[e] = MapOf(subs)[e] - Weight(subs[id], t, u) + Weight(x, t, u)
        /\ MapOf(subs)[e] \in Nat /\ MapOf(subs)[e] >= Weight(subs[id], t, u)
        /\ Weight(subs[id], t, u) \in Nat /\ Weight(x, t, u) \in Nat
    BY <2>1, MapOfChanged
  <2>5. Weight(subs[id], t, u) = Weight(x, t, u) + Weight(d, t, u)
    OBVIOUS
  <2>6. Weight(d, t, u) = IF u = d.url THEN Count(d, t) ELSE 0
    BY SubscriptionsAssumption DEF Weight
  <2>7. Weight(d, t, u) \in Nat
    BY WeightType DEF Row
  <2> HIDE DEF new
  <2> QED
    BY <2>3, <2>4, <2>5, <2>6, <2>7
<1> QED
  BY <1>1 DEF RemoveSCNMap, MapOf

LEMMA NoWeight ==
  ASSUME NEW t, NEW u
  PROVE  Weight(NoSub, t, u) = 0
BY DEF Weight

(* Nobody subscribes to anything where there is nothing. *)
LEMMA MapOfNothing == MapOf([id \in Id |-> NoSub]) = EmptyMap
<1> DEFINE none == [id \in Id |-> NoSub]
<1>1. ASSUME NEW e \in Entry PROVE Cardinality(References(none, e[1], e[2])) = 0
  <2>1. References(none, e[1], e[2]) = {}
    BY DEF References
  <2> QED
    BY <2>1, FS_EmptySet
<1> QED
  BY <1>1 DEF MapOf, EmptyMap

-------------------------------------------------------------------------------
(* What a request makes of a subscription. *)

LEMMA ListsType ==
  ASSUME NEW sub \in SCNPostSubscription \cup SCNPatchSubscription, NEW k \in TriggerKind, NEW v \in Value
  PROVE  sub.lists \in Lists /\ sub.enabled \in Enabled /\ sub.lists[k][v] \in Nat
BY DEF SCNPostSubscription, SCNPatchSubscription, Lists

LEMMA ListChangesType ==
  ASSUME NEW a \in [Value -> Nat], NEW b \in [Value -> Nat]
  PROVE  /\ Added(a, b) \in [Value -> Nat]
         /\ Removed(a, b) \in [Value -> Nat]
         /\ Replaced(a, b) \in [Value -> Nat]
BY DEF Added, Removed, Replaced

LEMMA PatchType ==
  ASSUME NEW sub \in SCNPostSubscription, NEW p \in SCNPatchSubscription
  PROVE  /\ PatchSCNSubscriptionTx(sub, p) \in SCNPostSubscription
         /\ PatchSCNSubscriptionTx(sub, p).url = sub.url
<1>1. /\ sub.lists \in Lists /\ p.lists \in Lists /\ sub.enabled \in Enabled
      /\ p.enabled \in Enabled /\ p.op \in {"add", "remove", "replace"}
  BY DEF SCNPostSubscription, SCNPatchSubscription
<1>2. \A k \in TriggerKind : /\ Added(sub.lists[k], p.lists[k]) \in [Value -> Nat]
                            /\ Removed(sub.lists[k], p.lists[k]) \in [Value -> Nat]
                            /\ Replaced(sub.lists[k], p.lists[k]) \in [Value -> Nat]
  BY <1>1, ListChangesType DEF Lists
<1>3. ASSUME NEW l \in Lists, NEW en \in Enabled
      PROVE  LET r == [sub EXCEPT !.lists = l, !.enabled = en]
             IN  r \in SCNPostSubscription /\ r.url = sub.url
  BY DEF SCNPostSubscription
<1>4. CASE p.op = "add"
  BY <1>1, <1>2, <1>3, <1>4 DEF PatchSCNSubscriptionTx, Lists, Enabled, SCNPostSubscription
<1>5. CASE p.op = "remove"
  BY <1>1, <1>2, <1>3, <1>5 DEF PatchSCNSubscriptionTx, Lists, Enabled, SCNPostSubscription
<1>6. CASE p.op = "replace"
  BY <1>1, <1>2, <1>3, <1>6 DEF PatchSCNSubscriptionTx, Lists, Enabled, SCNPostSubscription
<1> QED
  BY <1>1, <1>4, <1>5, <1>6

(* A trigger is of a list or of the flag. *)
LEMMA CountOf ==
  ASSUME NEW sub \in SCNPostSubscription, NEW t \in Trigger
  PROVE  \/ /\ t = <<"enabled", "enabled">>
            /\ Count(sub, t) = IF sub.enabled = "yes" THEN 1 ELSE 0
         \/ /\ t[1] \in TriggerKind /\ t[2] \in Value
            /\ Count(sub, t) = sub.lists[t[1]][t[2]]
BY DEF Count, Trigger, TriggerKind

LEMMA SameCounts ==
  ASSUME NEW a \in SCNPostSubscription, NEW b \in SCNPostSubscription,
         NEW d \in SCNPostSubscription, a.url = b.url, d.url = b.url,
         \A k \in TriggerKind, v \in Value : a.lists[k][v] = b.lists[k][v] + d.lists[k][v],
         a.enabled = "yes" <=> b.enabled = "yes" \/ d.enabled = "yes",
         ~(b.enabled = "yes" /\ d.enabled = "yes")
  PROVE  \A t \in Trigger, u \in Url : Weight(a, t, u) = Weight(b, t, u) + Weight(d, t, u)
<1>1. ASSUME NEW t \in Trigger PROVE Count(a, t) = Count(b, t) + Count(d, t)
  <2>1. CASE t = <<"enabled", "enabled">>
    BY <2>1 DEF Count
  <2>2. CASE t # <<"enabled", "enabled">>
    <3>1. t[1] \in TriggerKind /\ t[2] \in Value
      BY <2>2, CountOf
    <3>2. Count(a, t) = a.lists[t[1]][t[2]] /\ Count(b, t) = b.lists[t[1]][t[2]]
          /\ Count(d, t) = d.lists[t[1]][t[2]]
      BY <2>2, CountOf
    <3> QED
      BY <3>1, <3>2
  <2> QED
    BY <2>1, <2>2
<1>2. a # NoSub /\ b # NoSub /\ d # NoSub
  BY SubscriptionsAssumption
<1> QED
  BY <1>1, <1>2 DEF Weight

LEMMA CacheAddType ==
  ASSUME NEW sub \in SCNPostSubscription, NEW p \in SCNPatchSubscription
  PROVE  LET add == CacheAdd(sub, p)
         IN  /\ add.sub \in SCNPostSubscription /\ add.delta \in SCNPostSubscription
             /\ \A t \in Trigger, u \in Url :
                  Weight(add.sub, t, u) = Weight(sub, t, u) + Weight(add.delta, t, u)
<1> DEFINE new == [k \in TriggerKind |->
                     [v \in Value |-> IF sub.lists[k][v] = 0 THEN p.lists[k][v] ELSE 0]]
           sum == [k \in TriggerKind |-> [v \in Value |-> sub.lists[k][v] + new[k][v]]]
           on == p.enabled = "yes" /\ sub.enabled = "no"
           a == [sub EXCEPT !.lists = sum, !.enabled = IF on THEN "yes" ELSE sub.enabled]
           d == [sub EXCEPT !.lists = new, !.enabled = IF on THEN "yes" ELSE "nil"]
<1>1. CacheAdd(sub, p).sub = a /\ CacheAdd(sub, p).delta = d
  BY DEF CacheAdd
<1>2. \A k \in TriggerKind, v \in Value : sub.lists[k][v] \in Nat /\ p.lists[k][v] \in Nat
  BY ListsType
<1>3. new \in Lists /\ sum \in Lists
  BY <1>2 DEF Lists
<1>4. a \in SCNPostSubscription /\ d \in SCNPostSubscription
  BY <1>3 DEF SCNPostSubscription, Enabled
<1>5. /\ a.url = sub.url /\ d.url = sub.url /\ a.lists = sum /\ d.lists = new
      /\ a.enabled = (IF on THEN "yes" ELSE sub.enabled)
      /\ d.enabled = (IF on THEN "yes" ELSE "nil")
  BY DEF SCNPostSubscription
<1>6. \A k \in TriggerKind, v \in Value : a.lists[k][v] = sub.lists[k][v] + d.lists[k][v]
  BY <1>5
<1>7. /\ a.enabled = "yes" <=> sub.enabled = "yes" \/ d.enabled = "yes"
      /\ ~(sub.enabled = "yes" /\ d.enabled = "yes")
  BY <1>5
<1> HIDE DEF a, d
<1>8. \A t \in Trigger, u \in Url : Weight(a, t, u) = Weight(sub, t, u) + Weight(d, t, u)
  BY <1>4, <1>5, <1>6, <1>7, SameCounts
<1> QED
  BY <1>1, <1>4, <1>8

LEMMA CacheRemoveType ==
  ASSUME NEW sub \in SCNPostSubscription, NEW p \in SCNPatchSubscription, p.op = "remove"
  PROVE  LET cut == CacheRemove(sub, p)
         IN  /\ cut.sub = PatchSCNSubscriptionTx(sub, p)
             /\ cut.delta \in SCNPostSubscription
             /\ \A t \in Trigger, u \in Url :
                  Weight(sub, t, u) = Weight(cut.sub, t, u) + Weight(cut.delta, t, u)
<1> DEFINE a == PatchSCNSubscriptionTx(sub, p)
           out == [k \in TriggerKind |-> [v \in Value |->
                     IF sub.lists[k][v] > p.lists[k][v] THEN p.lists[k][v] ELSE sub.lists[k][v]]]
           off == p.enabled = "yes" /\ sub.enabled = "yes"
           d == [sub EXCEPT !.lists = out, !.enabled = IF off THEN "yes" ELSE "nil"]
<1>1. CacheRemove(sub, p).sub = a /\ CacheRemove(sub, p).delta = d
  BY DEF CacheRemove
<1>2. \A k \in TriggerKind, v \in Value : sub.lists[k][v] \in Nat /\ p.lists[k][v] \in Nat
  BY ListsType
<1>3. out \in Lists
  BY <1>2 DEF Lists
<1>4. a \in SCNPostSubscription /\ d \in SCNPostSubscription /\ a.url = sub.url
  BY <1>3, PatchType DEF SCNPostSubscription, Enabled
<1>5. /\ d.url = sub.url /\ d.lists = out
      /\ d.enabled = (IF off THEN "yes" ELSE "nil")
  BY DEF SCNPostSubscription
<1>6. /\ a.enabled = (IF off THEN "no" ELSE sub.enabled)
      /\ \A k \in TriggerKind, v \in Value :
           a.lists[k][v] = IF sub.lists[k][v] > p.lists[k][v]
                           THEN sub.lists[k][v] - p.lists[k][v] ELSE 0
  <2>1. a = [sub EXCEPT !.lists = [k \in TriggerKind |-> Removed(sub.lists[k], p.lists[k])],
                        !.enabled = IF off THEN "no" ELSE sub.enabled]
    BY DEF PatchSCNSubscriptionTx
  <2> HIDE DEF a
  <2>2. /\ a.lists = [k \in TriggerKind |-> Removed(sub.lists[k], p.lists[k])]
        /\ a.enabled = (IF off THEN "no" ELSE sub.enabled)
    BY <2>1 DEF SCNPostSubscription
  <2> QED
    BY <2>2 DEF Removed
<1>7. \A k \in TriggerKind, v \in Value : sub.lists[k][v] = a.lists[k][v] + d.lists[k][v]
  BY <1>2, <1>5, <1>6
<1>8. /\ sub.enabled = "yes" <=> a.enabled = "yes" \/ d.enabled = "yes"
      /\ ~(a.enabled = "yes" /\ d.enabled = "yes")
  BY <1>5, <1>6
<1> HIDE DEF a, d
<1>9. \A t \in Trigger, u \in Url : Weight(sub, t, u) = Weight(a, t, u) + Weight(d, t, u)
  <2>1. sub.url = a.url /\ d.url = a.url
    BY <1>4, <1>5
  <2> HIDE DEF out, off
  <2> QED
    BY <1>4, <1>7, <1>8, <2>1, SameCounts
<1> QED
  BY <1>1, <1>4, <1>9 DEF a

(* A patch that repeats no value adds to the copy what it adds to the row. *)
LEMMA CacheAddAgrees ==
  ASSUME NEW sub \in SCNPostSubscription, NEW p \in SCNPatchSubscription,
         p.op = "add", ~ Repeats(p)
  PROVE  CacheAdd(sub, p).sub = PatchSCNSubscriptionTx(sub, p)
<1> DEFINE sum == [k \in TriggerKind |-> [v \in Value |->
                     sub.lists[k][v] + (IF sub.lists[k][v] = 0 THEN p.lists[k][v] ELSE 0)]]
           put == [k \in TriggerKind |-> Added(sub.lists[k], p.lists[k])]
           on == p.enabled = "yes" /\ sub.enabled = "no"
<1>1. ASSUME NEW k \in TriggerKind, NEW v \in Value PROVE sum[k][v] = put[k][v]
  <2>1. sub.lists[k][v] \in Nat /\ p.lists[k][v] \in Nat /\ ~(p.lists[k][v] > 1)
    BY ListsType DEF Repeats
  <2> QED
    BY <2>1 DEF Added
<1>2. sum = put
  BY <1>1 DEF Added
<1>3. CacheAdd(sub, p).sub = [sub EXCEPT !.lists = sum, !.enabled = IF on THEN "yes" ELSE sub.enabled]
  BY DEF CacheAdd, SCNPostSubscription
<1>4. PatchSCNSubscriptionTx(sub, p)
        = [sub EXCEPT !.lists = put, !.enabled = IF on THEN "yes" ELSE sub.enabled]
  BY DEF PatchSCNSubscriptionTx
<1> QED
  BY <1>2, <1>3, <1>4

(* What replaces one subscription replaces it in the map. *)
LEMMA MapReplaced ==
  ASSUME NEW subs \in [Id -> Row], NEW id \in Id, NEW x \in SCNPostSubscription,
         subs[id] \in SCNPostSubscription
  PROVE  AddSCNMap(RemoveSCNMap(MapOf(subs), subs[id]), x) = MapOf([subs EXCEPT ![id] = x])
<1> DEFINE less == [subs EXCEPT ![id] = NoSub]
<1>1. less \in [Id -> Row] /\ less[id] = NoSub /\ [less EXCEPT ![id] = x] = [subs EXCEPT ![id] = x]
  BY DEF Row
<1>2. RemoveSCNMap(MapOf(subs), subs[id]) = MapOf(less)
  <2>1. NoSub \in Row
    BY DEF Row
  <2>2. \A t \in Trigger, u \in Url :
          Weight(subs[id], t, u) = Weight(NoSub, t, u) + Weight(subs[id], t, u)
    BY NoWeight, WeightType
  <2> QED
    BY <2>1, <2>2, MapShrinks
<1> HIDE DEF less
<1>3. AddSCNMap(MapOf(less), x) = MapOf([less EXCEPT ![id] = x])
  <2>1. x \in Row
    BY DEF Row
  <2>2. \A t \in Trigger, u \in Url : Weight(x, t, u) = Weight(less[id], t, u) + Weight(x, t, u)
    BY <1>1, <2>1, NoWeight, WeightType
  <2> QED
    BY <1>1, <2>1, <2>2, MapGrows
<1> QED
  BY <1>1, <1>2, <1>3

LEMMA MapRemoved ==
  ASSUME NEW subs \in [Id -> Row], NEW id \in Id, subs[id] \in SCNPostSubscription
  PROVE  RemoveSCNMap(MapOf(subs), subs[id]) = MapOf([subs EXCEPT ![id] = NoSub])
<1>1. NoSub \in Row
  BY DEF Row
<1>2. \A t \in Trigger, u \in Url :
        Weight(subs[id], t, u) = Weight(NoSub, t, u) + Weight(subs[id], t, u)
  BY NoWeight, WeightType
<1> QED
  BY <1>1, <1>2, MapShrinks

LEMMA MapAdded ==
  ASSUME NEW subs \in [Id -> Row], NEW id \in Id, NEW x \in SCNPostSubscription, subs[id] = NoSub
  PROVE  AddSCNMap(MapOf(subs), x) = MapOf([subs EXCEPT ![id] = x])
<1>1. x \in Row
  BY DEF Row
<1>2. \A t \in Trigger, u \in Url : Weight(x, t, u) = Weight(subs[id], t, u) + Weight(x, t, u)
  BY <1>1, NoWeight, WeightType
<1> QED
  BY <1>1, <1>2, MapGrows

LEMMA MapTypes ==
  ASSUME NEW map \in [Entry -> Nat], NEW x \in SCNPostSubscription
  PROVE  AddSCNMap(map, x) \in [Entry -> Nat] /\ RemoveSCNMap(map, x) \in [Entry -> Nat]
<1>1. \A e \in Entry : Count(x, e[1]) \in Nat
  BY CountType DEF Entry
<1> QED
  BY <1>1 DEF AddSCNMap, RemoveSCNMap

LEMMA MapOfType ==
  ASSUME NEW subs \in [Id -> Row]
  PROVE  MapOf(subs) \in [Entry -> Nat] /\ EmptyMap \in [Entry -> Nat]
<1>1. ASSUME NEW e \in Entry PROVE Cardinality(References(subs, e[1], e[2])) \in Nat
  BY ReferencesFinite, FS_CardinalityType DEF Entry
<1> QED
  BY <1>1 DEF MapOf, EmptyMap

-------------------------------------------------------------------------------
(* The inductive invariant.                                                *)

(* An id that was not given out is in no list. *)
Fresh ==
  \A id \in Id : id > lastId =>
    scnSubscriptions[id] = NoSub /\ \A i \in Instance : scnSubs[i][id] = NoSub

(* The map of an instance is that of its list, even of a list that is      *)
(* behind the table.                                                       *)
Exact == \A i \in Instance \ garbled : scnSubMap[i] = MapOf(scnSubs[i])

InStep == \A i \in Instance \ (behind \cup garbled) : scnSubs[i] = scnSubscriptions

(* What tells the subscriber: the instance that has the job has the        *)
(* subscription as it is in the table, whatever else it lacks.             *)
SubTold(d) ==
  \/ <<d[1], d[3]>> \in heard \cup gaveUp
  \/ \E s \in sending : s.change = d[1] /\ s.url = d[3]
  \/ \E i \in Instance \ garbled :
       d[1] \in Queued(i) /\ scnSubs[i][d[2]] = scnSubscriptions[d[2]]

Waiting ==
  \A d \in due : Subscribes(scnSubscriptions[d[2]], TriggerOf(d[1]), d[3]) /\ SubTold(d)

ScnIInv == TypeOK /\ Fresh /\ Exact /\ InStep /\ Waiting

(* What a request on one row does, when it makes x of it.                  *)
Keeps(i, id, x) ==
  \/ /\ scnSubs[i][id] = NoSub /\ scnSubscriptions[id] # NoSub
     /\ UNCHANGED copies /\ garbled' = garbled
  \/ \E y \in Row, m \in [Entry -> Nat] :
       /\ Cache(i, [scnSubs[i] EXCEPT ![id] = y], m)
       /\ \/ /\ garbled' = garbled
             /\ scnSubs[i][id] = scnSubscriptions[id] => y = x
             /\ i \notin garbled => m = MapOf([scnSubs[i] EXCEPT ![id] = y])
          \/ garbled' = garbled \cup {i}

OneRow(i, id, x) ==
  /\ scnSubscriptions' = [scnSubscriptions EXCEPT ![id] = x]
  /\ Keeps(i, id, x)
  /\ lastId' \in lastId .. MaxId /\ id <= lastId'
  /\ requests' \in 0 .. MaxRequests
  /\ lockLost' \subseteq Instance
  /\ UNCHANGED pool
  /\ Written(i)

LEMMA OneRowStep ==
  ASSUME ScnIInv, NEW i \in Instance, NEW id \in Id, NEW x \in Row, OneRow(i, id, x)
  PROVE  ScnIInv'
<1>0. /\ scnSubscriptions \in [Id -> Row] /\ scnSubs \in [Instance -> [Id -> Row]]
      /\ scnSubMap \in [Instance -> [Entry -> Nat]] /\ lastId \in 0 .. MaxId
      /\ behind \subseteq Instance /\ garbled \subseteq Instance
      /\ MaxId \in Nat /\ Id = 1 .. MaxId
  BY SubscriptionsAssumption DEF ScnIInv, TypeOK, Row, Id
<1>1. /\ scnSubscriptions' = [scnSubscriptions EXCEPT ![id] = x]
      /\ lastId' \in 0 .. MaxId /\ lastId <= lastId' /\ id <= lastId'
      /\ UNCHANGED pool
      /\ behind' = behind \cup (Instance \ {i})
  BY <1>0 DEF OneRow, Written
<1>2. /\ scnSubs' \in [Instance -> [Id -> Row]]
      /\ scnSubMap' \in [Instance -> [Entry -> Nat]]
      /\ garbled' \subseteq Instance
      /\ \A j \in Instance \ {i} : /\ scnSubs'[j] = scnSubs[j] /\ scnSubMap'[j] = scnSubMap[j]
                                   /\ j \in garbled' <=> j \in garbled
      /\ \A n \in Id \ {id} : scnSubs'[i][n] = scnSubs[i][n]
      /\ i \notin garbled' =>
           /\ i \notin garbled
           /\ scnSubs[i][id] = scnSubscriptions[id] => scnSubs'[i][id] = x
           /\ scnSubMap[i] = MapOf(scnSubs[i]) => scnSubMap'[i] = MapOf(scnSubs'[i])
  <2>1. CASE /\ scnSubs[i][id] = NoSub /\ scnSubscriptions[id] # NoSub
             /\ UNCHANGED copies /\ garbled' = garbled
    <3>1. scnSubs' = scnSubs /\ scnSubMap' = scnSubMap /\ garbled' = garbled
      BY <2>1 DEF copies
    <3>2. scnSubs[i][id] # scnSubscriptions[id]
      BY <2>1
    <3> QED
      BY <1>0, <3>1, <3>2
  <2>2. CASE \E y \in Row, m \in [Entry -> Nat] :
                /\ Cache(i, [scnSubs[i] EXCEPT ![id] = y], m)
                /\ \/ /\ garbled' = garbled
                      /\ scnSubs[i][id] = scnSubscriptions[id] => y = x
                      /\ i \notin garbled => m = MapOf([scnSubs[i] EXCEPT ![id] = y])
                   \/ garbled' = garbled \cup {i}
    <3>0. PICK y \in Row, m \in [Entry -> Nat] :
                /\ Cache(i, [scnSubs[i] EXCEPT ![id] = y], m)
                /\ \/ /\ garbled' = garbled
                      /\ scnSubs[i][id] = scnSubscriptions[id] => y = x
                      /\ i \notin garbled => m = MapOf([scnSubs[i] EXCEPT ![id] = y])
                   \/ garbled' = garbled \cup {i}
      BY <2>2
    <3>1. PICK list \in [Id -> Row] : list = [scnSubs[i] EXCEPT ![id] = y]
      BY <1>0
    <3>2. list[id] = y /\ \A n \in Id \ {id} : list[n] = scnSubs[i][n]
      BY <1>0, <3>1
    <3>3. scnSubs' = [scnSubs EXCEPT ![i] = list] /\ scnSubMap' = [scnSubMap EXCEPT ![i] = m]
      BY <3>0, <3>1 DEF Cache
    <3>4. scnSubs'[i] = list /\ scnSubMap'[i] = m
      BY <1>0, <3>3
    <3>5. i \notin garbled' => i \notin garbled /\ m = MapOf(list)
            /\ (scnSubs[i][id] = scnSubscriptions[id] => y = x)
      BY <3>0, <3>1
    <3> QED
      BY <1>0, <3>0, <3>2, <3>3, <3>4, <3>5
  <2> QED
    BY <2>1, <2>2, Zenon DEF OneRow, Keeps
<1>3. scnSubscriptions' \in [Id -> Row] /\ scnSubscriptions'[id] = x
      /\ \A n \in Id \ {id} : scnSubscriptions'[n] = scnSubscriptions[n]
  BY <1>0, <1>1
<1>4. TypeOK'
  <2>1. due' \subseteq due /\ requests' \in 0 .. MaxRequests /\ lockLost' \subseteq Instance
    BY DEF OneRow, Written
  <2>2. behind' \subseteq Instance
    BY <1>0, <1>1
  <2> QED
    BY <1>1, <1>2, <1>3, <2>1, <2>2 DEF ScnIInv, TypeOK, pool, Row
<1>5. Fresh'
  <2> SUFFICES ASSUME NEW n \in Id, n > lastId'
               PROVE  scnSubscriptions'[n] = NoSub /\ \A j \in Instance : scnSubs'[j][n] = NoSub
    BY DEF Fresh
  <2>1. n \in Nat /\ n # id /\ n > lastId
    BY <1>0, <1>1
  <2>2. scnSubscriptions[n] = NoSub /\ \A j \in Instance : scnSubs[j][n] = NoSub
    BY <2>1 DEF ScnIInv, Fresh
  <2> QED
    BY <1>2, <1>3, <2>1, <2>2
<1>6. Exact'
  BY <1>2 DEF ScnIInv, Exact
<1>7. InStep'
  <2> SUFFICES ASSUME NEW j \in Instance, j \notin behind', j \notin garbled'
               PROVE  scnSubs'[j] = scnSubscriptions'
    BY DEF InStep
  <2>1. j = i /\ i \notin behind /\ i \notin garbled
    BY <1>1, <1>2
  <2>2. scnSubs[i] = scnSubscriptions
    BY <2>1 DEF ScnIInv, InStep
  <2>3. scnSubs'[i][id] = x
    BY <1>2, <2>1, <2>2
  <2>4. \A n \in Id : scnSubs'[i][n] = scnSubscriptions'[n]
    BY <1>2, <1>3, <2>2, <2>3
  <2> QED
    BY <1>2, <1>3, <2>1, <2>4
<1>8. Waiting'
  <2> SUFFICES ASSUME NEW d \in due'
               PROVE  (Subscribes(scnSubscriptions[d[2]], TriggerOf(d[1]), d[3]))' /\ SubTold(d)'
    BY DEF Waiting
  <2>1. /\ d \in due /\ scnSubscriptions'[d[2]] = scnSubscriptions[d[2]]
        /\ d[1] \in Queued(i) => i \notin garbled'
    BY DEF OneRow, Written
  <2>2. Subscribes(scnSubscriptions[d[2]], TriggerOf(d[1]), d[3]) /\ SubTold(d)
    BY <2>1 DEF ScnIInv, Waiting
  <2>3. (Subscribes(scnSubscriptions[d[2]], TriggerOf(d[1]), d[3]))'
    BY <2>1, <2>2 DEF Subscribes, TriggerOf, Count
  <2>4. heard' = heard /\ gaveUp' = gaveUp /\ sending' = sending /\ jobQueue' = jobQueue
    BY <1>1 DEF pool
  <2>5. d[2] \in Id
    BY <2>1 DEF ScnIInv, TypeOK
  <2>6. ASSUME NEW j \in Instance \ garbled, d[1] \in Queued(j),
               scnSubs[j][d[2]] = scnSubscriptions[d[2]]
        PROVE  j \notin garbled' /\ scnSubs'[j][d[2]] = scnSubscriptions'[d[2]]
    <3>1. CASE j # i
      BY <3>1, <2>6, <1>2, <2>1
    <3>2. CASE j = i
      <4>1. i \notin garbled'
        BY <3>2, <2>6, <2>1
      <4>2. CASE d[2] = id
        BY <3>2, <4>1, <4>2, <1>2, <1>3, <2>6
      <4>3. CASE d[2] # id
        BY <3>2, <4>1, <4>3, <1>2, <2>1, <2>5, <2>6
      <4> QED
        BY <3>2, <4>1, <4>2, <4>3
    <3> QED
      BY <3>1, <3>2
  <2>7. SubTold(d)'
    BY <2>2, <2>4, <2>6 DEF SubTold, Queued
  <2> QED
    BY <2>3, <2>7
<1> QED
  BY <1>4, <1>5, <1>6, <1>7, <1>8 DEF ScnIInv

-------------------------------------------------------------------------------
(* Each request on one row.                                                *)

LEMMA ScnState ==
  ASSUME ScnIInv
  PROVE  /\ scnSubscriptions \in [Id -> Row] /\ scnSubs \in [Instance -> [Id -> Row]]
         /\ scnSubMap \in [Instance -> [Entry -> Nat]]
         /\ lastId \in 0 .. MaxId /\ requests \in 0 .. MaxRequests
         /\ lockLost \subseteq Instance
         /\ MaxId \in Nat /\ MaxRequests \in Nat /\ Id = 1 .. MaxId
         /\ \A i \in Instance \ garbled : scnSubMap[i] = MapOf(scnSubs[i])
         /\ \A id \in Id : scnSubscriptions[id] # NoSub => id <= lastId
         /\ \A id \in Id : id > lastId => scnSubscriptions[id] = NoSub
              /\ \A i \in Instance : scnSubs[i][id] = NoSub
<1>1. /\ scnSubscriptions \in [Id -> Row] /\ scnSubs \in [Instance -> [Id -> Row]]
      /\ scnSubMap \in [Instance -> [Entry -> Nat]]
      /\ lastId \in 0 .. MaxId /\ requests \in 0 .. MaxRequests
      /\ lockLost \subseteq Instance
      /\ MaxId \in Nat /\ MaxRequests \in Nat /\ Id = 1 .. MaxId
  BY SubscriptionsAssumption DEF ScnIInv, TypeOK, Row, Id
<1>2. \A id \in Id : id > lastId => scnSubscriptions[id] = NoSub
         /\ \A i \in Instance : scnSubs[i][id] = NoSub
  BY DEF ScnIInv, Fresh
<1>3. \A id \in Id : scnSubscriptions[id] # NoSub => id <= lastId
  BY <1>1, <1>2
<1> QED
  BY <1>1, <1>2, <1>3 DEF ScnIInv, Exact

LEMMA Served ==
  ASSUME ScnIInv, NEW i \in Instance, Serve(i)
  PROVE  requests' \in 0 .. MaxRequests /\ UNCHANGED pool
BY ScnState DEF Serve

LEMMA PostStep ==
  ASSUME ScnIInv, NEW i \in Instance, NEW sub \in NewSubs, Post(i, sub)
  PROVE  ScnIInv'
<1>1. PICK id \in Id : id = lastId + 1
  BY DEF Post
<1>2. sub \in SCNPostSubscription /\ sub \in Row
  BY SubscriptionsAssumption DEF Row
<1>3. /\ Serve(i) /\ lastId' = id /\ lockLost' = lockLost /\ garbled' = garbled /\ Written(i)
      /\ scnSubscriptions' = [scnSubscriptions EXCEPT ![id] = sub]
      /\ Cache(i, [scnSubs[i] EXCEPT ![id] = sub], AddSCNMap(scnSubMap[i], sub))
  BY <1>1 DEF Post, InsertSCNSubscription
<1>4. id > lastId /\ lastId' \in lastId .. MaxId /\ id <= lastId'
  BY <1>1, <1>3, ScnState
<1>5. scnSubs[i][id] = NoSub
  BY <1>4, ScnState
<1>6. AddSCNMap(scnSubMap[i], sub) \in [Entry -> Nat]
  BY <1>2, ScnState, MapTypes
<1>7. i \notin garbled => AddSCNMap(scnSubMap[i], sub) = MapOf([scnSubs[i] EXCEPT ![id] = sub])
  <2>1. scnSubs[i] \in [Id -> Row]
    BY ScnState
  <2>2. i \notin garbled => scnSubMap[i] = MapOf(scnSubs[i])
    BY ScnState
  <2> QED
    BY <1>2, <1>5, <2>1, <2>2, MapAdded
<1>8. Keeps(i, id, sub)
  BY <1>2, <1>3, <1>6, <1>7 DEF Keeps
<1>9. OneRow(i, id, sub)
  BY <1>3, <1>4, <1>8, ScnState, Served DEF OneRow
<1> QED
  BY <1>2, <1>9, OneRowStep

LEMMA PutStep ==
  ASSUME ScnIInv, NEW i \in Instance, NEW sub \in NewSubs, NEW id \in Id, Put(i, id, sub)
  PROVE  ScnIInv'
<1>1. sub \in SCNPostSubscription /\ sub \in Row
  BY SubscriptionsAssumption DEF Row
<1>2. /\ Serve(i) /\ lastId' = lastId /\ lockLost' = lockLost /\ Written(i)
      /\ scnSubscriptions[id] # NoSub
      /\ scnSubscriptions' = [scnSubscriptions EXCEPT ![id] = sub]
      /\ garbled' = IF scnSubs'[i][id] \in {sub, NoSub} THEN garbled ELSE garbled \cup {i}
  BY DEF Put, UpdateSCNSubscription, Exists
<1>3. Keeps(i, id, sub)
  <2>1. CASE scnSubs[i][id] = NoSub
    <3>1. UNCHANGED copies /\ scnSubs' = scnSubs
      BY <2>1 DEF Put, copies
    <3> QED
      BY <2>1, <3>1, <1>2 DEF Keeps
  <2>2. CASE scnSubs[i][id] # NoSub
    <3> DEFINE y == [scnSubs[i][id] EXCEPT !.lists["state"] = sub.lists["state"]]
               m == AddSCNMap(RemoveSCNMap(scnSubMap[i], scnSubs[i][id]), sub)
    <3>1. scnSubs[i] \in [Id -> Row] /\ scnSubs[i][id] \in SCNPostSubscription
      BY <2>2, ScnState DEF Row
    <3>2. y \in SCNPostSubscription
      <4>1. PICK old \in SCNPostSubscription : old = scnSubs[i][id]
        BY <3>1
      <4>2. [old.lists EXCEPT !["state"] = sub.lists["state"]] \in Lists
        BY <1>1, <4>1 DEF SCNPostSubscription, Lists, TriggerKind
      <4> QED
        BY <4>1, <4>2 DEF SCNPostSubscription
    <3>3. Cache(i, [scnSubs[i] EXCEPT ![id] = y], m)
      BY <2>2, <3>1 DEF Put
    <3> HIDE DEF y
    <3>4. m \in [Entry -> Nat]
      BY <1>1, <3>1, ScnState, MapTypes
    <3>5. scnSubs'[i][id] = y
      BY <3>1, <3>3, ScnState DEF Cache
    <3>6. y # NoSub
      BY <3>2, SubscriptionsAssumption
    <3>7. y \in Row
      BY <3>2 DEF Row
    <3>8. CASE y = sub
      <4>1. garbled' = garbled
        BY <1>2, <3>5, <3>8
      <4>2. i \notin garbled => m = MapOf([scnSubs[i] EXCEPT ![id] = sub])
        <5>1. PICK subs \in [Id -> Row] : subs = scnSubs[i]
          BY <3>1
        <5>2. AddSCNMap(RemoveSCNMap(MapOf(subs), subs[id]), sub) = MapOf([subs EXCEPT ![id] = sub])
          BY <1>1, <3>1, <5>1, MapReplaced
        <5>3. i \notin garbled => scnSubMap[i] = MapOf(subs)
          BY <5>1, ScnState
        <5> QED
          BY <5>1, <5>2, <5>3
      <4> HIDE DEF m
      <4> QED
        BY <1>1, <3>3, <3>4, <3>8, <4>1, <4>2 DEF Keeps
    <3>9. CASE y # sub
      <4>1. garbled' = garbled \cup {i}
        BY <1>2, <3>5, <3>6, <3>9
      <4> HIDE DEF m
      <4> QED
        BY <3>3, <3>4, <3>7, <4>1 DEF Keeps
    <3> QED
      BY <3>8, <3>9
  <2> QED
    BY <2>1, <2>2
<1>4. OneRow(i, id, sub)
  BY <1>2, <1>3, ScnState, Served DEF OneRow
<1> QED
  BY <1>1, <1>4, OneRowStep

LEMMA DeleteSubscriptionStep ==
  ASSUME ScnIInv, NEW i \in Instance, NEW id \in Id, DeleteSubscription(i, id)
  PROVE  ScnIInv'
<1>1. NoSub \in Row
  BY DEF Row
<1>2. /\ Serve(i) /\ lastId' = lastId /\ lockLost' = lockLost /\ Written(i)
      /\ scnSubscriptions[id] # NoSub
      /\ scnSubscriptions' = [scnSubscriptions EXCEPT ![id] = NoSub]
      /\ garbled' = garbled
  BY DEF DeleteSubscription, DeleteSCNSubscription, Exists
<1>3. Keeps(i, id, NoSub)
  <2>1. CASE scnSubs[i][id] = NoSub
    BY <2>1, <1>2 DEF Keeps, DeleteSubscription
  <2>2. CASE scnSubs[i][id] # NoSub
    <3> DEFINE m == RemoveSCNMap(scnSubMap[i], scnSubs[i][id])
    <3>1. scnSubs[i] \in [Id -> Row] /\ scnSubs[i][id] \in SCNPostSubscription
      BY <2>2, ScnState DEF Row
    <3>2. m \in [Entry -> Nat]
      BY <3>1, ScnState, MapTypes
    <3>3. i \notin garbled => m = MapOf([scnSubs[i] EXCEPT ![id] = NoSub])
      BY <3>1, ScnState, MapRemoved
    <3>4. Cache(i, [scnSubs[i] EXCEPT ![id] = NoSub], m)
      BY <2>2 DEF DeleteSubscription
    <3> HIDE DEF m
    <3> QED
      BY <1>1, <1>2, <3>2, <3>3, <3>4 DEF Keeps
  <2> QED
    BY <2>1, <2>2
<1>4. OneRow(i, id, NoSub)
  BY <1>2, <1>3, ScnState, Served DEF OneRow
<1> QED
  BY <1>1, <1>4, OneRowStep

LEMMA PatchStep ==
  ASSUME ScnIInv, NEW i \in Instance, NEW id \in Id, NEW p \in Patches, Patch(i, id, p)
  PROVE  ScnIInv'
<1> DEFINE x == PatchSCNSubscriptionTx(scnSubscriptions[id], p)
<1>1. /\ Serve(i) /\ lastId' = lastId /\ lockLost' \subseteq Instance /\ Written(i)
      /\ scnSubscriptions[id] # NoSub
      /\ scnSubscriptions' = [scnSubscriptions EXCEPT ![id] = x]
  BY ScnState DEF Patch, UpdateSCNSubscription, Exists
<1>2. p \in SCNPatchSubscription /\ p.op \in {"add", "remove", "replace"}
  BY SubscriptionsAssumption DEF SCNPatchSubscription
<1>3. x \in SCNPostSubscription /\ x \in Row
  BY <1>1, <1>2, ScnState, PatchType DEF Row
<1>4. scnSubs[i] \in [Id -> Row] /\ scnSubMap[i] \in [Entry -> Nat]
      /\ (i \notin garbled => scnSubMap[i] = MapOf(scnSubs[i]))
  BY ScnState
<1>5. Keeps(i, id, x)
  <2>1. CASE /\ scnSubs[i][id] = NoSub
             /\ UNCHANGED <<copies, lockLost, garbled>>
    BY <2>1, <1>1 DEF Keeps
  <2>2. CASE /\ scnSubs[i][id] # NoSub
             /\ p.op = "remove" => ~MustPanic(scnSubs[i][id], p)
             /\ PatchCopy(i, id, p)
             /\ garbled' = IF p.op = "add" /\ Repeats(p) THEN garbled \cup {i} ELSE garbled
             /\ UNCHANGED lockLost
    <3>1. PICK sub \in SCNPostSubscription : sub = scnSubs[i][id]
      BY <2>2, <1>4 DEF Row
    <3>2. sub = scnSubscriptions[id] => PatchSCNSubscriptionTx(sub, p) = x
      OBVIOUS
    <3> HIDE DEF x
    <3>3. CASE p.op = "add"
      <4> DEFINE y == CacheAdd(sub, p).sub
                 d == CacheAdd(sub, p).delta
                 m == AddSCNMap(scnSubMap[i], d)
      <4>1. /\ y \in SCNPostSubscription /\ d \in SCNPostSubscription
            /\ \A t \in Trigger, u \in Url : Weight(y, t, u) = Weight(sub, t, u) + Weight(d, t, u)
        BY <1>2, CacheAddType
      <4>2. Cache(i, [scnSubs[i] EXCEPT ![id] = y], m)
        BY <2>2, <3>1, <3>3 DEF PatchCopy
      <4>3. ~Repeats(p) => y = PatchSCNSubscriptionTx(sub, p)
        BY <1>2, <3>3, CacheAddAgrees
      <4> HIDE DEF y, d
      <4>4. y \in Row
        BY <4>1 DEF Row
      <4>5. m \in [Entry -> Nat]
        BY <1>4, <4>1, MapTypes
      <4>6. i \notin garbled => m = MapOf([scnSubs[i] EXCEPT ![id] = y])
        BY <1>4, <3>1, <4>1, <4>4, MapGrows
      <4> HIDE DEF m
      <4>7. CASE Repeats(p)
        <5>1. garbled' = garbled \cup {i}
          BY <2>2, <3>3, <4>7
        <5> QED
          BY <4>2, <4>4, <4>5, <5>1 DEF Keeps
      <4>8. CASE ~Repeats(p)
        <5>1. garbled' = garbled /\ (scnSubs[i][id] = scnSubscriptions[id] => y = x)
          BY <2>2, <3>1, <3>2, <4>3, <4>8
        <5> QED
          BY <4>2, <4>4, <4>5, <4>6, <5>1 DEF Keeps
      <4> QED
        BY <4>7, <4>8
    <3>4. CASE p.op = "remove"
      <4> DEFINE y == PatchSCNSubscriptionTx(sub, p)
                 d == CacheRemove(sub, p).delta
                 m == RemoveSCNMap(scnSubMap[i], d)
      <4>1. /\ CacheRemove(sub, p).sub = y /\ d \in SCNPostSubscription
            /\ \A t \in Trigger, u \in Url : Weight(sub, t, u) = Weight(y, t, u) + Weight(d, t, u)
        BY <1>2, <3>4, CacheRemoveType
      <4>2. Cache(i, [scnSubs[i] EXCEPT ![id] = y], m)
        BY <2>2, <3>1, <3>4, <4>1 DEF PatchCopy
      <4>3. y \in Row
        BY <1>2, PatchType DEF Row
      <4>4. garbled' = garbled /\ (scnSubs[i][id] = scnSubscriptions[id] => y = x)
        BY <2>2, <3>1, <3>2, <3>4
      <4> HIDE DEF y, d
      <4>5. m \in [Entry -> Nat]
        BY <1>4, <4>1, MapTypes
      <4>6. i \notin garbled => m = MapOf([scnSubs[i] EXCEPT ![id] = y])
        BY <1>4, <3>1, <4>1, <4>3, MapShrinks
      <4> HIDE DEF m
      <4> QED
        BY <4>2, <4>3, <4>4, <4>5, <4>6 DEF Keeps
    <3>5. CASE p.op = "replace"
      <4> DEFINE y == PatchSCNSubscriptionTx(sub, p)
                 m == AddSCNMap(RemoveSCNMap(scnSubMap[i], sub), y)
      <4>1. y \in SCNPostSubscription /\ y \in Row
        BY <1>2, PatchType DEF Row
      <4>2. Cache(i, [scnSubs[i] EXCEPT ![id] = y], m)
        BY <2>2, <3>1, <3>5 DEF PatchCopy
      <4>4. garbled' = garbled /\ (scnSubs[i][id] = scnSubscriptions[id] => y = x)
        BY <2>2, <3>1, <3>2, <3>5
      <4> HIDE DEF y
      <4>5. m \in [Entry -> Nat]
        BY <1>4, <4>1, MapTypes
      <4>6. i \notin garbled => m = MapOf([scnSubs[i] EXCEPT ![id] = y])
        BY <1>4, <3>1, <4>1, MapReplaced
      <4> HIDE DEF m
      <4> QED
        BY <4>1, <4>2, <4>4, <4>5, <4>6 DEF Keeps
    <3> QED
      BY <1>2, <3>3, <3>4, <3>5
  <2>3. CASE /\ scnSubs[i][id] # NoSub
             /\ p.op = "remove" /\ MayPanic(scnSubs[i][id], p)
             /\ lockLost' = lockLost \cup {i}
             /\ garbled' = garbled \cup {i}
             /\ UNCHANGED copies
    <3>1. scnSubs[i][id] \in Row /\ [scnSubs[i] EXCEPT ![id] = scnSubs[i][id]] = scnSubs[i]
      BY <1>4
    <3>2. /\ [scnSubs EXCEPT ![i] = scnSubs[i]] = scnSubs
          /\ [scnSubMap EXCEPT ![i] = scnSubMap[i]] = scnSubMap
      BY ScnState
    <3>3. Cache(i, [scnSubs[i] EXCEPT ![id] = scnSubs[i][id]], scnSubMap[i])
      BY <2>3, <3>1, <3>2 DEF Cache, copies
    <3> QED
      BY <1>4, <2>3, <3>1, <3>3 DEF Keeps
  <2> QED
    BY <2>1, <2>2, <2>3 DEF Patch
<1> HIDE DEF x
<1>6. OneRow(i, id, x)
  BY <1>1, <1>5, ScnState, Served DEF OneRow
<1> QED
  BY <1>3, <1>6, OneRowStep

-------------------------------------------------------------------------------
(* The other steps.                                                        *)

LEMMA CopyOf ==
  ASSUME ScnIInv, NEW i \in Instance, NEW list \in [Id -> Row], NEW m, Cache(i, list, m),
         m = MapOf(list)
  PROVE  /\ scnSubs' \in [Instance -> [Id -> Row]] /\ scnSubMap' \in [Instance -> [Entry -> Nat]]
         /\ scnSubs'[i] = list /\ scnSubMap'[i] = MapOf(list)
         /\ \A j \in Instance \ {i} : scnSubs'[j] = scnSubs[j] /\ scnSubMap'[j] = scnSubMap[j]
<1>1. m \in [Entry -> Nat]
  BY MapOfType
<1> QED
  BY <1>1, ScnState DEF Cache

LEMMA DeleteAllStep ==
  ASSUME ScnIInv, NEW i \in Instance, DeleteAll(i)
  PROVE  ScnIInv'
<1> DEFINE none == [id \in Id |-> NoSub]
<1>1. none \in [Id -> Row] /\ \A n \in Id : none[n] = NoSub
  BY DEF Row
<1>2. /\ scnSubscriptions' = none /\ Cache(i, none, EmptyMap) /\ garbled' = garbled \ {i}
      /\ Serve(i) /\ Written(i) /\ lockLost' = lockLost /\ lastId' = lastId
  BY DEF DeleteAll, DeleteSCNSubscriptionsAll
<1>3. EmptyMap = MapOf(none)
  BY MapOfNothing
<1> HIDE DEF none
<1>4. /\ scnSubs' \in [Instance -> [Id -> Row]] /\ scnSubMap' \in [Instance -> [Entry -> Nat]]
      /\ scnSubs'[i] = none /\ scnSubMap'[i] = MapOf(none)
      /\ \A j \in Instance \ {i} : scnSubs'[j] = scnSubs[j] /\ scnSubMap'[j] = scnSubMap[j]
  BY <1>1, <1>2, <1>3, CopyOf
<1>5. due' = {}
  <2> SUFFICES ASSUME NEW d \in due' PROVE FALSE
    OBVIOUS
  <2>1. d \in due /\ scnSubscriptions'[d[2]] = scnSubscriptions[d[2]]
    BY <1>2 DEF Written
  <2>2. scnSubscriptions[d[2]] # NoSub
    BY <2>1 DEF ScnIInv, Waiting, Subscribes
  <2>3. d[2] \in Id
    BY <2>1 DEF ScnIInv, TypeOK
  <2> QED
    BY <1>1, <1>2, <2>1, <2>2, <2>3
<1>6. TypeOK'
  <2>1. /\ behind' \subseteq Instance /\ garbled' \subseteq Instance
        /\ requests' \in 0 .. MaxRequests /\ UNCHANGED pool
    BY <1>2, Served DEF Written, ScnIInv, TypeOK
  <2> QED
    BY <1>1, <1>2, <1>4, <1>5, <2>1 DEF ScnIInv, TypeOK, pool, Row
<1>7. Fresh' /\ Exact' /\ InStep' /\ Waiting'
  <2>1. Fresh'
    BY <1>1, <1>2, <1>4 DEF ScnIInv, Fresh
  <2>2. Exact'
    BY <1>2, <1>4 DEF ScnIInv, Exact
  <2>3. InStep'
    BY <1>2, <1>4 DEF InStep, Written
  <2>4. Waiting'
    BY <1>5 DEF Waiting
  <2> QED
    BY <2>1, <2>2, <2>3, <2>4
<1> QED
  BY <1>6, <1>7 DEF ScnIInv

LEMMA RefreshStep ==
  ASSUME ScnIInv, NEW i \in Instance, Refresh(i)
  PROVE  ScnIInv'
<1>1. /\ Cache(i, scnSubscriptions, MapOf(scnSubscriptions))
      /\ behind' = behind \ {i} /\ garbled' = garbled \ {i}
      /\ scnSubscriptions' = scnSubscriptions /\ lastId' = lastId /\ requests' = requests
      /\ lockLost' = lockLost /\ due' = due
      /\ jobQueue' = jobQueue /\ sending' = sending /\ made' = made /\ heard' = heard
      /\ gaveUp' = gaveUp
  BY DEF Refresh, stored, pool
<1>2. /\ scnSubs' \in [Instance -> [Id -> Row]] /\ scnSubMap' \in [Instance -> [Entry -> Nat]]
      /\ scnSubs'[i] = scnSubscriptions /\ scnSubMap'[i] = MapOf(scnSubscriptions)
      /\ \A j \in Instance \ {i} : scnSubs'[j] = scnSubs[j] /\ scnSubMap'[j] = scnSubMap[j]
  BY <1>1, ScnState, CopyOf
<1>3. TypeOK'
  BY <1>1, <1>2 DEF ScnIInv, TypeOK, Row
<1>4. Fresh'
  BY <1>1, <1>2 DEF ScnIInv, Fresh
<1>5. Exact' /\ InStep'
  BY <1>1, <1>2 DEF ScnIInv, Exact, InStep
<1>6. Waiting'
  <2> SUFFICES ASSUME NEW d \in due
               PROVE  (Subscribes(scnSubscriptions[d[2]], TriggerOf(d[1]), d[3]))' /\ SubTold(d)'
    BY <1>1 DEF Waiting
  <2>1. Subscribes(scnSubscriptions[d[2]], TriggerOf(d[1]), d[3]) /\ SubTold(d)
    BY DEF ScnIInv, Waiting
  <2>2. (Subscribes(scnSubscriptions[d[2]], TriggerOf(d[1]), d[3]))'
    BY <1>1, <2>1 DEF Subscribes, TriggerOf, Count
  <2>3. ASSUME NEW j \in Instance \ garbled, scnSubs[j][d[2]] = scnSubscriptions[d[2]]
        PROVE  j \notin garbled' /\ scnSubs'[j][d[2]] = scnSubscriptions'[d[2]]
    BY <1>1, <1>2, <2>3
  <2> QED
    BY <1>1, <2>1, <2>2, <2>3 DEF SubTold, Queued
<1> QED
  BY <1>3, <1>4, <1>5, <1>6 DEF ScnIInv

LEMMA RestartInstanceStep ==
  ASSUME ScnIInv, NEW i \in Instance, RestartInstance(i)
  PROVE  ScnIInv'
<1> DEFINE none == [id \in Id |-> NoSub]
<1>1. none \in [Id -> Row] /\ \A n \in Id : none[n] = NoSub
  BY DEF Row
<1>2. /\ Cache(i, none, EmptyMap) /\ garbled' = garbled \ {i} /\ behind' = behind \cup {i}
      /\ lockLost' = lockLost \ {i} /\ lastId' = lastId /\ scnSubscriptions' = scnSubscriptions
      /\ jobQueue' = [jobQueue EXCEPT ![i] = <<>>]
      /\ sending' = {s \in sending : s.from # i}
      /\ due' = {d \in due : /\ d[1] \notin Queued(i)
                            /\ \A s \in sending : s.from = i => s.change # d[1]}
      /\ made' = made /\ heard' = heard /\ gaveUp' = gaveUp
      /\ requests < MaxRequests /\ requests' = requests + 1
  BY DEF RestartInstance
<1>3. EmptyMap = MapOf(none)
  BY MapOfNothing
<1> HIDE DEF none
<1>4. /\ scnSubs' \in [Instance -> [Id -> Row]] /\ scnSubMap' \in [Instance -> [Entry -> Nat]]
      /\ scnSubs'[i] = none /\ scnSubMap'[i] = MapOf(none)
      /\ \A j \in Instance \ {i} : scnSubs'[j] = scnSubs[j] /\ scnSubMap'[j] = scnSubMap[j]
  BY <1>1, <1>2, <1>3, CopyOf
<1>5. jobQueue' \in [Instance -> Seq(Changes)] /\ \A j \in Instance \ {i} : jobQueue'[j] = jobQueue[j]
  BY <1>2 DEF ScnIInv, TypeOK
<1>6. TypeOK'
  <2>1. behind' \subseteq Instance /\ garbled' \subseteq Instance /\ lockLost' \subseteq Instance
    BY <1>2 DEF ScnIInv, TypeOK
  <2>2. requests' \in 0 .. MaxRequests
    BY <1>2, ScnState
  <2>3. due' \subseteq due /\ sending' \subseteq sending
    BY <1>2
  <2> QED
    BY <1>2, <1>4, <1>5, <2>1, <2>2, <2>3 DEF ScnIInv, TypeOK, Row
<1>7. Fresh'
  BY <1>1, <1>2, <1>4 DEF ScnIInv, Fresh
<1>8. Exact' /\ InStep'
  BY <1>2, <1>4 DEF ScnIInv, Exact, InStep
<1>9. Waiting'
  <2> SUFFICES ASSUME NEW d \in due'
               PROVE  (Subscribes(scnSubscriptions[d[2]], TriggerOf(d[1]), d[3]))' /\ SubTold(d)'
    BY DEF Waiting
  <2>1. /\ d \in due /\ d[1] \notin Queued(i)
        /\ \A s \in sending : s.from = i => s.change # d[1]
    BY <1>2
  <2>2. Subscribes(scnSubscriptions[d[2]], TriggerOf(d[1]), d[3]) /\ SubTold(d)
    BY <2>1 DEF ScnIInv, Waiting
  <2>3. (Subscribes(scnSubscriptions[d[2]], TriggerOf(d[1]), d[3]))'
    BY <1>2, <2>2 DEF Subscribes, TriggerOf, Count
  <2>4. ASSUME NEW s \in sending, s.change = d[1] PROVE s \in sending'
    BY <1>2, <2>1, <2>4
  <2>5. ASSUME NEW j \in Instance \ garbled, d[1] \in Queued(j),
               scnSubs[j][d[2]] = scnSubscriptions[d[2]]
        PROVE  /\ j \notin garbled' /\ scnSubs'[j][d[2]] = scnSubscriptions'[d[2]]
               /\ d[1] \in Queued(j)'
    <3>1. j # i
      BY <2>1, <2>5
    <3> QED
      BY <1>2, <1>4, <1>5, <2>5, <3>1 DEF Queued
  <2> QED
    BY <1>2, <2>2, <2>3, <2>4, <2>5 DEF SubTold
<1> QED
  BY <1>6, <1>7, <1>8, <1>9 DEF ScnIInv

(* What only moves notifications leaves the lists as they are. *)
LEMMA ListsKept ==
  ASSUME ScnIInv, UNCHANGED <<stored, copies, behind, garbled>>
  PROVE  Fresh' /\ Exact' /\ InStep'
<1>1. /\ scnSubscriptions' = scnSubscriptions /\ lastId' = lastId /\ scnSubs' = scnSubs
      /\ scnSubMap' = scnSubMap /\ behind' = behind /\ garbled' = garbled
  BY DEF stored, copies
<1> QED
  BY <1>1 DEF ScnIInv, Fresh, Exact, InStep

LEMMA NotifyStep ==
  ASSUME ScnIInv, NEW i \in Instance, NEW c \in Changes, Notify(i, c)
  PROVE  ScnIInv'
<1>1. /\ scnSubscriptions' = scnSubscriptions /\ lastId' = lastId /\ requests' = requests
      /\ scnSubs' = scnSubs /\ scnSubMap' = scnSubMap /\ lockLost' = lockLost
      /\ sending' = sending /\ heard' = heard /\ gaveUp' = gaveUp
      /\ behind' = behind /\ garbled' = garbled /\ made' = made \cup {c}
  BY DEF Notify, stored, copies
<1>2. Fresh' /\ Exact' /\ InStep'
  BY <1>1, ListsKept DEF stored, copies
<1>3. jobQueue \in [Instance -> Seq(Changes)]
  BY DEF ScnIInv, TypeOK
<1>4. /\ jobQueue' \in [Instance -> Seq(Changes)]
      /\ \A j \in Instance : Queued(j) \subseteq Queued(j)'
      /\ jobQueue' # jobQueue => c \in Queued(i)'
  <2>1. CASE jobQueue' = jobQueue
    BY <1>3, <2>1 DEF Queued
  <2>2. CASE jobQueue' = [jobQueue EXCEPT ![i] = Append(@, c)]
    <3>1. PICK q \in Seq(Changes) : q = jobQueue[i]
      BY <1>3
    <3>0. Append(q, c) \in Seq(Changes)
      OBVIOUS
    <3>2. PICK r \in Seq(Changes) : r = Append(q, c)
      BY <3>0
    <3>3. /\ Len(r) = Len(q) + 1 /\ r[Len(r)] = c /\ Len(q) \in Nat
          /\ \A n \in 1 .. Len(q) : r[n] = q[n]
          /\ DOMAIN q = 1 .. Len(q) /\ DOMAIN r = 1 .. Len(r)
      BY <3>2
    <3>4. jobQueue'[i] = r /\ \A j \in Instance \ {i} : jobQueue'[j] = jobQueue[j]
      BY <1>3, <2>2, <3>1, <3>2
    <3>5. \A v : v \in Queued(i) => v \in Queued(i)'
      <4>1. ASSUME NEW n \in DOMAIN q PROVE q[n] \in Queued(i)'
        <5>1. n \in DOMAIN r /\ r[n] = q[n]
          BY <3>3
        <5> QED
          BY <3>4, <5>1 DEF Queued
      <4> QED
        BY <3>1, <4>1 DEF Queued
    <3>6. c \in Queued(i)'
      <4>1. Len(r) \in DOMAIN r
        BY <3>3
      <4> QED
        BY <3>3, <3>4, <4>1 DEF Queued
    <3>7. \A j \in Instance \ {i} : Queued(j)' = Queued(j)
      BY <3>4 DEF Queued
    <3>8. jobQueue' \in [Instance -> Seq(Changes)]
      BY <1>3, <2>2, <3>1, <3>2
    <3> QED
      BY <3>5, <3>6, <3>7, <3>8
  <2> QED
    BY <2>1, <2>2 DEF Notify
<1>5. \A d \in due' : \/ d \in due
                      \/ /\ d \in {c} \X Id \X Url
                         /\ Subscribes(scnSubscriptions[d[2]], TriggerOf(c), d[3])
                         /\ i \notin behind /\ i \notin garbled
                         /\ c \in Queued(i)'
  <2>1. CASE due' = due
    BY <2>1
  <2>2. CASE due' # due
    <3>1. /\ due' = due \cup {d \in {c} \X Id \X Url :
                                Subscribes(scnSubscriptions[d[2]], TriggerOf(c), d[3])}
          /\ i \notin behind /\ i \notin garbled
          /\ jobQueue' = [jobQueue EXCEPT ![i] = Append(@, c)]
      BY <2>2 DEF Notify
    <3>2. jobQueue' # jobQueue
      <4>1. PICK q \in Seq(Changes) : q = jobQueue[i]
        BY <1>3
      <4>2. Len(Append(q, c)) = Len(q) + 1 /\ Len(q) \in Nat
        OBVIOUS
      <4>3. Append(q, c) # q
        BY <4>2
      <4> QED
        BY <1>3, <3>1, <4>1, <4>3
    <3> QED
      BY <1>4, <3>1, <3>2
  <2> QED
    BY <2>1, <2>2
<1>6. TypeOK'
  <2>1. due' \subseteq Changes \X Id \X Url
    BY <1>5 DEF ScnIInv, TypeOK
  <2> QED
    BY <1>1, <1>4, <2>1 DEF ScnIInv, TypeOK
<1>7. Waiting'
  <2> SUFFICES ASSUME NEW d \in due'
               PROVE  (Subscribes(scnSubscriptions[d[2]], TriggerOf(d[1]), d[3]))' /\ SubTold(d)'
    BY DEF Waiting
  <2>0. Subscribes(scnSubscriptions[d[2]], TriggerOf(d[1]), d[3])
          => (Subscribes(scnSubscriptions[d[2]], TriggerOf(d[1]), d[3]))'
    BY <1>1 DEF Subscribes, TriggerOf, Count
  <2>1. CASE d \in due
    <3>1. Subscribes(scnSubscriptions[d[2]], TriggerOf(d[1]), d[3]) /\ SubTold(d)
      BY <2>1 DEF ScnIInv, Waiting
    <3>2. \A j \in Instance : d[1] \in Queued(j) => d[1] \in Queued(j)'
      BY <1>4
    <3> QED
      BY <1>1, <2>0, <3>1, <3>2 DEF SubTold
  <2>2. CASE d \notin due
    <3>1. /\ d \in {c} \X Id \X Url
          /\ Subscribes(scnSubscriptions[d[2]], TriggerOf(c), d[3])
          /\ i \notin behind /\ i \notin garbled /\ c \in Queued(i)'
      BY <1>5, <2>2
    <3>2. d[1] = c /\ d[2] \in Id
      BY <3>1
    <3>3. scnSubs'[i][d[2]] = scnSubscriptions'[d[2]]
      BY <1>1, <3>1 DEF ScnIInv, InStep
    <3>4. SubTold(d)'
      BY <1>1, <3>1, <3>2, <3>3 DEF SubTold
    <3> QED
      BY <2>0, <3>1, <3>2, <3>4
  <2> QED
    BY <2>1, <2>2
<1> QED
  BY <1>2, <1>6, <1>7 DEF ScnIInv

(* A change names one trigger. *)
LEMMA TriggerType ==
  ASSUME NEW c \in Changes
  PROVE  TriggerOf(c) \in Trigger
<1>1. \A k \in TriggerKind : c[k] = "" \/ c[k] \in Value
  BY SubscriptionsAssumption DEF Change
<1> QED
  BY <1>1 DEF TriggerOf, Trigger, TriggerKind

(* The map of a list has the URL of who subscribes in the list. *)
LEMMA SubscriberInMap ==
  ASSUME NEW subs \in [Id -> Row], NEW id \in Id, NEW t \in Trigger, NEW u \in Url,
         Subscribes(subs[id], t, u)
  PROVE  MapOf(subs)[<<t, u>>] > 0
<1>1. Weight(subs[id], t, u) = Count(subs[id], t) /\ Count(subs[id], t) > 0
  BY DEF Subscribes, Weight
<1>2. /\ Cardinality(Rest(subs, id, t, u)) \in Nat /\ Weight(subs[id], t, u) \in Nat
      /\ MapOf(subs)[<<t, u>>] = Cardinality(Rest(subs, id, t, u)) + Weight(subs[id], t, u)
  BY CountApart
<1> QED
  BY <1>1, <1>2

LEMMA RunStep ==
  ASSUME ScnIInv, NEW i \in Instance, Run(i)
  PROVE  ScnIInv'
<1> DEFINE c == Head(jobQueue[i])
           urls == {u \in Url : scnSubMap[i][<<TriggerOf(c), u>>] > 0}
<1>1. /\ scnSubscriptions' = scnSubscriptions /\ lastId' = lastId /\ requests' = requests
      /\ scnSubs' = scnSubs /\ scnSubMap' = scnSubMap /\ lockLost' = lockLost
      /\ heard' = heard /\ gaveUp' = gaveUp /\ made' = made /\ due' = due
      /\ behind' = behind /\ garbled' = garbled
      /\ sending' = sending \cup [from : {i}, change : {c}, url : urls, try : {1}]
      /\ jobQueue[i] # <<>> /\ jobQueue' = [jobQueue EXCEPT ![i] = Tail(@)]
  BY DEF Run, stored, copies
<1>2. Fresh' /\ Exact' /\ InStep'
  BY <1>1, ListsKept DEF stored, copies
<1>3. jobQueue \in [Instance -> Seq(Changes)]
  BY DEF ScnIInv, TypeOK
<1>4. PICK q \in Seq(Changes) : q = jobQueue[i]
  BY <1>3
<1>5. q # <<>> /\ c = Head(q) /\ Tail(q) \in Seq(Changes) /\ Head(q) \in Changes
  BY <1>1, <1>4
<1>6. PICK r \in Seq(Changes) : r = Tail(q)
  BY <1>5
<1>7. jobQueue' \in [Instance -> Seq(Changes)] /\ jobQueue'[i] = r
      /\ \A j \in Instance \ {i} : jobQueue'[j] = jobQueue[j]
  BY <1>1, <1>3, <1>4, <1>6
<1>8. \A v \in Queued(i) : v = c \/ v \in Queued(i)'
  <2>1. /\ Len(q) \in Nat /\ Len(q) > 0 /\ Len(r) = Len(q) - 1 /\ q[1] = c
        /\ DOMAIN q = 1 .. Len(q) /\ DOMAIN r = 1 .. Len(r)
        /\ \A n \in 1 .. Len(r) : r[n] = q[n + 1]
    BY <1>5, <1>6
  <2>2. ASSUME NEW n \in DOMAIN q, q[n] # c PROVE q[n] \in Queued(i)'
    <3>1. n \in Nat /\ n # 1 /\ 1 <= n /\ n <= Len(q)
      BY <2>1, <2>2
    <3>2. n - 1 \in DOMAIN r /\ (n - 1) + 1 = n
      BY <2>1, <3>1
    <3>3. r[n - 1] = q[n]
      BY <2>1, <3>2
    <3> QED
      BY <1>7, <3>2, <3>3 DEF Queued
  <2> QED
    BY <1>4, <2>2 DEF Queued
<1>9. TypeOK'
  <2>1. sending' \subseteq [from : Instance, change : Changes, url : Url, try : 1 .. 3]
    BY <1>1, <1>5 DEF ScnIInv, TypeOK
  <2> QED
    BY <1>1, <1>7, <2>1 DEF ScnIInv, TypeOK
<1>10. Waiting'
  <2> SUFFICES ASSUME NEW d \in due
               PROVE  (Subscribes(scnSubscriptions[d[2]], TriggerOf(d[1]), d[3]))' /\ SubTold(d)'
    BY <1>1 DEF Waiting
  <2>1. Subscribes(scnSubscriptions[d[2]], TriggerOf(d[1]), d[3]) /\ SubTold(d)
    BY DEF ScnIInv, Waiting
  <2>2. (Subscribes(scnSubscriptions[d[2]], TriggerOf(d[1]), d[3]))'
    BY <1>1, <2>1 DEF Subscribes, TriggerOf, Count
  <2>3. ASSUME NEW j \in Instance \ garbled, d[1] \in Queued(j),
               scnSubs[j][d[2]] = scnSubscriptions[d[2]], d[1] \notin Queued(j)'
        PROVE  \E s \in sending' : s.change = d[1] /\ s.url = d[3]
    <3>1. j = i
      BY <1>7, <2>3 DEF Queued
    <3>2. d[1] = c
      BY <1>8, <2>3, <3>1
    <3>3. d[2] \in Id /\ d[3] \in Url /\ d[1] \in Changes
      BY DEF ScnIInv, TypeOK
    <3>4. scnSubs[i] \in [Id -> Row] /\ scnSubMap[i] = MapOf(scnSubs[i])
      BY <2>3, <3>1, ScnState
    <3>5. Subscribes(scnSubs[i][d[2]], TriggerOf(d[1]), d[3])
      BY <2>1, <2>3, <3>1
    <3>6. scnSubMap[i][<<TriggerOf(d[1]), d[3]>>] > 0
      BY <3>3, <3>4, <3>5, TriggerType, SubscriberInMap
    <3>7. d[3] \in urls
      BY <3>2, <3>3, <3>6
    <3> DEFINE s == [from |-> i, change |-> c, url |-> d[3], try |-> 1]
    <3> HIDE DEF urls, c
    <3>8. s \in sending' /\ s.change = c /\ s.url = d[3]
      BY <1>1, <3>7
    <3> QED
      BY <3>2, <3>8
  <2> QED
    BY <1>1, <2>1, <2>2, <2>3 DEF SubTold
<1> QED
  BY <1>2, <1>9, <1>10 DEF ScnIInv

LEMMA TryStep ==
  ASSUME ScnIInv, Try
  PROVE  ScnIInv'
<1>1. PICK s \in sending : Answered(s) \/ Failed(s)
  BY DEF Try
<1>2. /\ scnSubscriptions' = scnSubscriptions /\ lastId' = lastId /\ requests' = requests
      /\ scnSubs' = scnSubs /\ scnSubMap' = scnSubMap /\ lockLost' = lockLost
      /\ made' = made /\ due' = due /\ jobQueue' = jobQueue
      /\ behind' = behind /\ garbled' = garbled
  BY DEF Try, stored, copies
<1>3. Fresh' /\ Exact' /\ InStep'
  BY <1>2, ListsKept DEF stored, copies
<1>4. s.from \in Instance /\ s.change \in Changes /\ s.url \in Url /\ s.try \in 1 .. 3
      /\ s \in [from : Instance, change : Changes, url : Url, try : 1 .. 3]
  BY DEF ScnIInv, TypeOK
<1>5. /\ heard \subseteq heard' /\ gaveUp \subseteq gaveUp'
      /\ heard' \subseteq Changes \X Url /\ gaveUp' \subseteq Changes \X Url
      /\ sending' \subseteq [from : Instance, change : Changes, url : Url, try : 1 .. 3]
      /\ \A r \in sending : r # s => r \in sending'
      /\ \/ <<s.change, s.url>> \in heard' \cup gaveUp'
         \/ \E r \in sending' : r.change = s.change /\ r.url = s.url
  <2>0. /\ heard \subseteq Changes \X Url /\ gaveUp \subseteq Changes \X Url
        /\ sending \subseteq [from : Instance, change : Changes, url : Url, try : 1 .. 3]
    BY DEF ScnIInv, TypeOK
  <2>1. CASE Answered(s)
    BY <1>4, <2>0, <2>1 DEF Answered
  <2>2. CASE Failed(s) /\ s.try < 3
    <3>1. PICK r : r = [s EXCEPT !.try = s.try + 1]
      OBVIOUS
    <3>2. /\ r \in [from : Instance, change : Changes, url : Url, try : 1 .. 3]
          /\ r.change = s.change /\ r.url = s.url
      BY <1>4, <2>2, <3>1
    <3>3. sending' = (sending \ {s}) \cup {r} /\ gaveUp' = gaveUp
      BY <2>2, <3>1 DEF Failed
    <3>4. heard' = heard \/ heard' = heard \cup {<<s.change, s.url>>}
      BY <2>2 DEF Failed
    <3> QED
      BY <1>4, <2>0, <3>2, <3>3, <3>4
  <2>3. CASE Failed(s) /\ ~(s.try < 3)
    <3>1. sending' = sending \ {s} /\ gaveUp' = gaveUp \cup {<<s.change, s.url>>}
      BY <2>3 DEF Failed
    <3>2. heard' = heard \/ heard' = heard \cup {<<s.change, s.url>>}
      BY <2>3 DEF Failed
    <3> QED
      BY <1>4, <2>0, <3>1, <3>2
  <2> QED
    BY <1>1, <2>1, <2>2, <2>3
<1>6. TypeOK'
  BY <1>2, <1>5 DEF ScnIInv, TypeOK
<1>7. Waiting'
  <2> SUFFICES ASSUME NEW d \in due
               PROVE  (Subscribes(scnSubscriptions[d[2]], TriggerOf(d[1]), d[3]))' /\ SubTold(d)'
    BY <1>2 DEF Waiting
  <2>1. Subscribes(scnSubscriptions[d[2]], TriggerOf(d[1]), d[3]) /\ SubTold(d)
    BY DEF ScnIInv, Waiting
  <2>2. (Subscribes(scnSubscriptions[d[2]], TriggerOf(d[1]), d[3]))'
    BY <1>2, <2>1 DEF Subscribes, TriggerOf, Count
  <2>3. CASE <<d[1], d[3]>> \in heard \cup gaveUp
    BY <1>5, <2>2, <2>3 DEF SubTold
  <2>4. CASE \E r \in sending : r.change = d[1] /\ r.url = d[3]
    <3>1. PICK r \in sending : r.change = d[1] /\ r.url = d[3]
      BY <2>4
    <3> QED
      BY <1>5, <2>2, <3>1 DEF SubTold
  <2>5. CASE \E j \in Instance \ garbled :
               d[1] \in Queued(j) /\ scnSubs[j][d[2]] = scnSubscriptions[d[2]]
    BY <1>2, <2>2, <2>5 DEF SubTold, Queued
  <2> QED
    BY <2>1, <2>3, <2>4, <2>5 DEF SubTold
<1> QED
  BY <1>3, <1>6, <1>7 DEF ScnIInv

-------------------------------------------------------------------------------
LEMMA ScnInit == Init => ScnIInv
<1> SUFFICES ASSUME Init PROVE ScnIInv
  OBVIOUS
<1> DEFINE none == [id \in Id |-> NoSub]
<1>1. none \in [Id -> Row] /\ EmptyMap = MapOf(none) /\ EmptyMap \in [Entry -> Nat]
  <2>1. none \in [Id -> Row]
    BY DEF Row
  <2> HIDE DEF none
  <2> QED
    BY <2>1, MapOfNothing, MapOfType DEF none
<1>2. /\ scnSubscriptions = none /\ scnSubs = [i \in Instance |-> none]
      /\ scnSubMap = [i \in Instance |-> EmptyMap]
      /\ lockLost = {} /\ jobQueue = [i \in Instance |-> <<>>] /\ sending = {}
      /\ lastId = 0 /\ requests = 0
      /\ made = {} /\ heard = {} /\ gaveUp = {} /\ due = {}
      /\ behind = {} /\ garbled = {}
  BY DEF Init
<1>3. \A id \in Id : none[id] = NoSub
  OBVIOUS
<1> HIDE DEF none
<1>4. TypeOK
  <2>0. MaxId \in Nat /\ MaxRequests \in Nat
    BY SubscriptionsAssumption
  <2>1. 0 \in 0 .. MaxId /\ 0 \in 0 .. MaxRequests
    BY <2>0
  <2>2. <<>> \in Seq(Changes)
    OBVIOUS
  <2> QED
    BY <1>1, <1>2, <2>1, <2>2 DEF TypeOK, Row
<1>5. Fresh /\ Exact /\ InStep /\ Waiting
  BY <1>1, <1>2, <1>3 DEF Fresh, Exact, InStep, Waiting
<1> QED
  BY <1>4, <1>5 DEF ScnIInv

LEMMA ScnStep == ScnIInv /\ [Next]_vars => ScnIInv'
<1> SUFFICES ASSUME ScnIInv, [Next]_vars PROVE ScnIInv'
  OBVIOUS
<1>1. CASE Try
  BY <1>1, TryStep
<1>2. ASSUME NEW i \in Instance, Request(i) PROVE ScnIInv'
  <2>1. ASSUME NEW sub \in NewSubs, Post(i, sub) PROVE ScnIInv'
    BY <2>1, PostStep
  <2>2. ASSUME NEW sub \in NewSubs, NEW id \in Id, Put(i, id, sub) PROVE ScnIInv'
    BY <2>2, PutStep
  <2>3. ASSUME NEW id \in Id, NEW p \in Patches, Patch(i, id, p) PROVE ScnIInv'
    BY <2>3, PatchStep
  <2>4. ASSUME NEW id \in Id, DeleteSubscription(i, id) PROVE ScnIInv'
    BY <2>4, DeleteSubscriptionStep
  <2>5. CASE DeleteAll(i)
    BY <2>5, DeleteAllStep
  <2> QED
    BY <1>2, <2>1, <2>2, <2>3, <2>4, <2>5 DEF Request
<1>3. ASSUME NEW i \in Instance, Refresh(i) PROVE ScnIInv'
  BY <1>3, RefreshStep
<1>4. ASSUME NEW i \in Instance, Run(i) PROVE ScnIInv'
  BY <1>4, RunStep
<1>5. ASSUME NEW i \in Instance, RestartInstance(i) PROVE ScnIInv'
  BY <1>5, RestartInstanceStep
<1>6. ASSUME NEW i \in Instance, NEW c \in Changes, Notify(i, c) PROVE ScnIInv'
  BY <1>6, NotifyStep
<1>7. CASE UNCHANGED vars
  <2>1. /\ UNCHANGED <<stored, copies, behind, garbled>> /\ scnSubscriptions' = scnSubscriptions
        /\ scnSubs' = scnSubs /\ scnSubMap' = scnSubMap
        /\ lockLost' = lockLost /\ jobQueue' = jobQueue /\ sending' = sending
        /\ lastId' = lastId /\ requests' = requests /\ made' = made /\ heard' = heard
        /\ gaveUp' = gaveUp /\ due' = due /\ behind' = behind /\ garbled' = garbled
    BY <1>7 DEF vars, stored, copies
  <2>2. TypeOK'
    BY <2>1 DEF ScnIInv, TypeOK
  <2>3. Waiting'
    <3> SUFFICES ASSUME NEW d \in due
                 PROVE  (Subscribes(scnSubscriptions[d[2]], TriggerOf(d[1]), d[3]))' /\ SubTold(d)'
      BY <2>1 DEF Waiting
    <3>1. Subscribes(scnSubscriptions[d[2]], TriggerOf(d[1]), d[3]) /\ SubTold(d)
      BY DEF ScnIInv, Waiting
    <3>2. (Subscribes(scnSubscriptions[d[2]], TriggerOf(d[1]), d[3]))'
      BY <2>1, <3>1 DEF Subscribes, TriggerOf, Count
    <3> QED
      BY <2>1, <3>1, <3>2 DEF SubTold, Queued
  <2> QED
    BY <2>1, <2>2, <2>3, ListsKept DEF ScnIInv
<1> QED
  BY <1>1, <1>2, <1>3, <1>4, <1>5, <1>6, <1>7 DEF Next

(* The inductive invariant: the types; no id in use before it is given     *)
(* out; each map is that of its list; a list that nobody has written       *)
(* behind is the table; what is due has somebody who tells it.             *)
THEOREM ScnInvCorrect == Spec => []ScnIInv
<1>1. Init => ScnIInv
  BY ScnInit
<1>2. ScnIInv /\ [Next]_vars => ScnIInv'
  BY ScnStep
<1> QED
  BY <1>1, <1>2, PTL DEF Spec

(* The table, the copies and the pool hold what they should, for any       *)
(* subscriptions, patches, changes, instances and bounds.                  *)
THEOREM ScnTypeCorrect == Spec => []TypeOK
<1>1. ScnIInv => TypeOK
  BY DEF ScnIInv
<1> QED
  BY <1>1, ScnInvCorrect, PTL

(* Reference counts lose no subscription and keep none (addSCNUrl and      *)
(* removeSCNUrl with the handlers that use them): an instance that is not  *)
(* behind the table and whose copy is not garbled sends by the table.      *)
THEOREM MapsAreCurrent == Spec => []MapIsCurrent
<1>1. ScnIInv => MapIsCurrent
  BY DEF ScnIInv, Exact, InStep, MapIsCurrent
<1> QED
  BY <1>1, ScnInvCorrect, PTL

(* From the update of a component to the first try nobody who subscribes   *)
(* to it is lost (doCompUpdate, JobSCN.Run), while subscriptions of the    *)
(* same URL come and go and copies fall behind.                            *)
THEOREM NobodyIsForgotten == Spec => []NobodyForgotten
<1>1. ScnIInv => NobodyForgotten
  <2> SUFFICES ASSUME ScnIInv, NEW d \in due PROVE OnItsWay(d)
    BY DEF NobodyForgotten
  <2>1. Subscribes(scnSubscriptions[d[2]], TriggerOf(d[1]), d[3]) /\ SubTold(d)
    BY DEF ScnIInv, Waiting
  <2>2. ASSUME NEW i \in Instance \ garbled, scnSubs[i][d[2]] = scnSubscriptions[d[2]]
        PROVE  scnSubMap[i][<<TriggerOf(d[1]), d[3]>>] > 0
    <3>1. d[2] \in Id /\ d[3] \in Url /\ d[1] \in Changes
      BY DEF ScnIInv, TypeOK
    <3>2. scnSubs[i] \in [Id -> Row] /\ scnSubMap[i] = MapOf(scnSubs[i])
      BY ScnState
    <3>3. Subscribes(scnSubs[i][d[2]], TriggerOf(d[1]), d[3])
      BY <2>1, <2>2
    <3> QED
      BY <3>1, <3>2, <3>3, TriggerType, SubscriberInMap
  <2> QED
    BY <2>1, <2>2 DEF SubTold, OnItsWay
<1> QED
  BY <1>1, ScnInvCorrect, PTL
===============================================================================
