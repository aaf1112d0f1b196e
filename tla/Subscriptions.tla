---------------------------- MODULE Subscriptions ----------------------------
(***************************************************************************)
(* State change notifications (SCNs): the scn_subscriptions table, the     *)
(* copy of it that every instance of the service keeps (scnSubs and the    *)
(* map scnSubMap from triggers to URLs with reference counts), the         *)
(* requests that change both, the thread that refreshes the copy, and the  *)
(* jobs of the worker pool that send notifications by the map.             *)
(*                                                                         *)
(* A request holds scnSubLock from before its transaction until the copy   *)
(* is changed, so it is one step.  A job of the pool takes no lock.        *)
(***************************************************************************)
EXTENDS Integers, Sequences, FiniteSets

CONSTANTS
  Instance,      \* instances of the service
  MaxId,         \* bound on the model: subscriptions made
  Url,
  Value,         \* states, roles, ...
  NewSubs,       \* what posts and puts ask for
  Patches,       \* what patches ask for
  Changes,       \* updates of components to be notified
  NoSub,
  QueueLength,   \* jobs the queue of the pool holds
  MaxRequests    \* bound on the model: requests served

(* The lists of a subscription, by what they are compared with, and how    *)
(* often each gives a value: the order decides nothing but the panic of a  *)
(* removal (MayPanic).  Enabled is a pointer to a flag.                    *)
TriggerKind == {"state", "role", "subrole", "swstatus"}
Lists == [TriggerKind -> [Value -> Nat]]
Enabled == {"nil", "no", "yes"}
SCNPostSubscription ==
  [subscriber : STRING, url : Url, lists : Lists, enabled : Enabled]
SCNPatchSubscription ==
  [op : {"add", "remove", "replace"}, lists : Lists, enabled : Enabled]

(* The data of an update that has an SCN.  Without any of these it is one  *)
(* of Enabled.                                                             *)
Change == [TriggerKind -> Value \cup {""}]

ASSUME SubscriptionsAssumption ==
  /\ NewSubs \subseteq SCNPostSubscription
  /\ Patches \subseteq SCNPatchSubscription
  /\ Changes \subseteq Change
  /\ "" \notin Value
  /\ NoSub \notin SCNPostSubscription
  /\ QueueLength \in Nat \ {0} /\ MaxRequests \in Nat /\ MaxId \in Nat

Id == 1 .. MaxId

Trigger == (TriggerKind \X Value) \cup {<<"enabled", "enabled">>}

(* An entry of the map: a trigger and a URL that it goes to.               *)
Entry == Trigger \X Url

VARIABLES
  scnSubscriptions,  \* the table
  scnSubs,           \* the list of each instance, by id
  scnSubMap,         \* the map of each instance: reference counts
  lockLost,          \* instances whose scnSubLock is never unlocked again
  jobQueue,          \* of each instance's worker pool
  sending,           \* requests to subscribers that are under way
  lastId,            \* the last serial id given out
  requests,
  made,     \* changes of components that were notified
  heard,    \* who has heard of what
  gaveUp,   \* who could not be reached
  due,      \* subscriptions that a change is for and that are as they were
  behind,   \* instances that others have written the table behind
  garbled   \* instances whose copy a put or patch has left unlike the table

vars == <<scnSubscriptions, scnSubs, scnSubMap, lockLost, jobQueue, sending,
          lastId, requests, made, heard, gaveUp, due, behind, garbled>>
copies == <<scnSubs, scnSubMap>>
pool == <<jobQueue, sending, made, heard, gaveUp>>
stored == <<scnSubscriptions, lastId, requests>>

-------------------------------------------------------------------------------
(* How often a subscription names a trigger. *)
Count(sub, t) ==
  IF t[1] = "enabled" THEN (IF sub.enabled = "yes" THEN 1 ELSE 0)
  ELSE sub.lists[t[1]][t[2]]

EmptyMap == [e \in Entry |-> 0]

(* addSCNUrl: one entry for each URL, that counts. *)
AddSCNMap(map, sub) ==
  [e \in Entry |-> IF e[2] = sub.url THEN map[e] + Count(sub, e[1]) ELSE map[e]]

(* Mutant of RemoveSCNMap: counts are taken off that were never put on. *)
RemoveSCNMapBlind(map, sub) ==
  [e \in Entry |-> IF e[2] = sub.url THEN map[e] - Count(sub, e[1]) ELSE map[e]]

(* Mutant of RemoveSCNMap: the entry goes with its first subscription. *)
RemoveSCNMapAll(map, sub) ==
  [e \in Entry |-> IF e[2] = sub.url /\ Count(sub, e[1]) > 0 THEN 0 ELSE map[e]]

(* removeSCNUrl: an entry is removed when its count would go below 1, and  *)
(* one that is not there stays away.                                       *)
RemoveSCNMap(map, sub) ==
  [e \in Entry |->
     IF e[2] # sub.url THEN map[e]
     ELSE IF map[e] > Count(sub, e[1]) THEN map[e] - Count(sub, e[1])
     ELSE 0]

(* The map of a list of subscriptions: the references to a URL are those   *)
(* of each subscription that has it.                                       *)
References(subs, t, u) ==
  UNION {{id} \X (1 .. Count(subs[id], t)) :
           id \in {i \in Id : subs[i] # NoSub /\ subs[i].url = u}}
MapOf(subs) == [e \in Entry |-> Cardinality(References(subs, e[1], e[2]))]

Exists(id) == scnSubscriptions[id] # NoSub

(* The unique column sub_url of the table. *)
SubUrl(sub) == <<sub.subscriber, sub.url>>
UrlTaken(sub, id) ==
  \E i \in Id \ {id} : Exists(i) /\ SubUrl(scnSubscriptions[i]) = SubUrl(sub)

TypeOK ==
  /\ scnSubscriptions \in [Id -> SCNPostSubscription \cup {NoSub}]
  /\ scnSubs \in [Instance -> [Id -> SCNPostSubscription \cup {NoSub}]]
  /\ scnSubMap \in [Instance -> [Entry -> Nat]]
  /\ lockLost \subseteq Instance
  /\ jobQueue \in [Instance -> Seq(Changes)]
  /\ sending \subseteq [from : Instance, change : Changes, url : Url, try : 1 .. 3]
  /\ lastId \in 0 .. MaxId /\ requests \in 0 .. MaxRequests
  /\ made \subseteq Changes
  /\ heard \subseteq Changes \X Url /\ gaveUp \subseteq Changes \X Url
  /\ due \subseteq Changes \X Id \X Url
  /\ behind \subseteq Instance /\ garbled \subseteq Instance

Init ==
  /\ scnSubscriptions = [id \in Id |-> NoSub]
  /\ scnSubs = [i \in Instance |-> [id \in Id |-> NoSub]]
  /\ scnSubMap = [i \in Instance |-> EmptyMap]
  /\ lockLost = {}
  /\ jobQueue = [i \in Instance |-> <<>>]
  /\ sending = {}
  /\ lastId = 0 /\ requests = 0
  /\ made = {} /\ heard = {} /\ gaveUp = {} /\ due = {}
  /\ behind = {} /\ garbled = {}

(* The one trigger of a notification: the first of these that it has. *)
TriggerOf(c) ==
  IF c["state"] # "" THEN <<"state", c["state"]>>
  ELSE IF c["role"] # "" THEN <<"role", c["role"]>>
  ELSE IF c["subrole"] # "" THEN <<"subrole", c["subrole"]>>
  ELSE IF c["swstatus"] # "" THEN <<"swstatus", c["swstatus"]>>
  ELSE <<"enabled", "enabled">>

Subscribes(sub, t, u) == sub # NoSub /\ sub.url = u /\ Count(sub, t) > 0

-------------------------------------------------------------------------------
(* What a patch does to one list in the table: a value that is there is    *)
(* not added, and one that is given twice is there the second time; each   *)
(* time a value is given for removal, its first place goes.                *)
Added(list, new) ==
  [v \in Value |-> IF list[v] > 0 \/ new[v] = 0 THEN list[v] ELSE 1]
Removed(list, old) ==
  [v \in Value |-> IF list[v] > old[v] THEN list[v] - old[v] ELSE 0]
Replaced(list, new) == IF \A v \in Value : new[v] = 0 THEN list ELSE new

PatchSCNSubscriptionTx(sub, p) ==
  CASE p.op = "add" ->
         [sub EXCEPT !.lists = [k \in TriggerKind |-> Added(@[k], p.lists[k])],
                     !.enabled = IF p.enabled = "yes" /\ @ = "no" THEN "yes" ELSE @]
    [] p.op = "remove" ->
         [sub EXCEPT !.lists = [k \in TriggerKind |-> Removed(@[k], p.lists[k])],
                     !.enabled = IF p.enabled = "yes" /\ @ = "yes" THEN "no" ELSE @]
    [] p.op = "replace" ->
         [sub EXCEPT !.lists = [k \in TriggerKind |-> Replaced(@[k], p.lists[k])],
                     !.enabled = IF p.enabled # "nil" THEN p.enabled ELSE @]

(* The same in the copy, with what the map is given.  A patch that adds    *)
(* compares with the list as it was before, so a value given twice is      *)
(* added twice.                                                            *)
CacheAdd(sub, p) ==
  LET new == [k \in TriggerKind |->
                [v \in Value |-> IF sub.lists[k][v] = 0 THEN p.lists[k][v] ELSE 0]]
      on == p.enabled = "yes" /\ sub.enabled = "no"
  IN  [sub |-> [sub EXCEPT !.lists = [k \in TriggerKind |->
                                        [v \in Value |-> @[k][v] + new[k][v]]],
                           !.enabled = IF on THEN "yes" ELSE @],
       delta |-> [sub EXCEPT !.lists = new, !.enabled = IF on THEN "yes" ELSE "nil"]]

CacheRemove(sub, p) ==
  LET off == p.enabled = "yes" /\ sub.enabled = "yes"
      Out(k, v) == IF sub.lists[k][v] > p.lists[k][v] THEN p.lists[k][v] ELSE sub.lists[k][v]
  IN  [sub |-> PatchSCNSubscriptionTx(sub, p),
       delta |-> [sub EXCEPT !.lists = [k \in TriggerKind |-> [v \in Value |-> Out(k, v)]],
                             !.enabled = IF off THEN "yes" ELSE "nil"]]

(* A removal looks for the value in the slice as it was before, whose      *)
(* array moves under it: behind what is left there are values that were    *)
(* the last of the list when another was removed.  One of these that is    *)
(* given once more is found past the end, and slicing panics; when none is *)
(* left, one of them is the value removed last.                            *)
Exceeds(sub, p, k, v) == p.lists[k][v] > sub.lists[k][v] /\ sub.lists[k][v] > 0
MayPanic(sub, p) == \E k \in TriggerKind, v \in Value : Exceeds(sub, p, k, v)
MustPanic(sub, p) ==
  \E k \in TriggerKind :
    /\ \E v \in Value : sub.lists[k][v] > 0
    /\ \A v \in Value : sub.lists[k][v] > 0 => Exceeds(sub, p, k, v)

-------------------------------------------------------------------------------
(* The statements on the table; each fails where the unique column says so *)
(* and finds nothing where there is no such row.                           *)
InsertSCNSubscription(id, sub) ==
  /\ ~ UrlTaken(sub, id)
  /\ scnSubscriptions' = [scnSubscriptions EXCEPT ![id] = sub]

UpdateSCNSubscription(id, sub) ==
  /\ Exists(id) /\ ~ UrlTaken(sub, id)
  /\ scnSubscriptions' = [scnSubscriptions EXCEPT ![id] = sub]

DeleteSCNSubscription(id) ==
  /\ Exists(id)
  /\ scnSubscriptions' = [scnSubscriptions EXCEPT ![id] = NoSub]

DeleteSCNSubscriptionsAll == scnSubscriptions' = [id \in Id |-> NoSub]

(* A request served by instance i: it has the lock, and what it commits is *)
(* behind the back of the others.                                          *)
Serve(i) ==
  /\ i \notin lockLost
  /\ requests < MaxRequests
  /\ requests' = requests + 1
  /\ UNCHANGED pool

Queued(i) == {jobQueue[i][n] : n \in DOMAIN jobQueue[i]}

(* What is due is no longer, when the row changes; nor is what an instance *)
(* has still to send by a copy that has just been garbled.                 *)
Written(i) ==
  /\ behind' = behind \cup (Instance \ {i})
  /\ due' = {d \in due : /\ scnSubscriptions'[d[2]] = scnSubscriptions[d[2]]
                         /\ d[1] \in Queued(i) => i \notin garbled'}

Cache(i, list, map) ==
  /\ scnSubs' = [scnSubs EXCEPT ![i] = list]
  /\ scnSubMap' = [scnSubMap EXCEPT ![i] = map]

(* No id is given out twice, so a copy never has the one of a new row.     *)
Post(i, sub) ==
  LET id == lastId + 1
  IN  /\ Serve(i)
      /\ id \in Id
      /\ InsertSCNSubscription(id, sub)
      /\ lastId' = id
      /\ Cache(i, [scnSubs[i] EXCEPT ![id] = sub], AddSCNMap(scnSubMap[i], sub))
      /\ UNCHANGED <<lockLost, garbled>>
      /\ Written(i)

DeleteAll(i) ==
  /\ Serve(i)
  /\ DeleteSCNSubscriptionsAll
  /\ Cache(i, [id \in Id |-> NoSub], EmptyMap)
  /\ garbled' = garbled \ {i}
  /\ Written(i)
  /\ UNCHANGED <<lockLost, lastId>>

(* A put changes the map as it should, but nothing of the list except for  *)
(* the states.                                                             *)
Put(i, id, sub) ==
  /\ Serve(i)
  /\ UpdateSCNSubscription(id, sub)
  /\ IF scnSubs[i][id] = NoSub THEN UNCHANGED copies
     ELSE Cache(i, [scnSubs[i] EXCEPT ![id].lists["state"] = sub.lists["state"]],
                AddSCNMap(RemoveSCNMap(scnSubMap[i], scnSubs[i][id]), sub))
  /\ garbled' = IF scnSubs'[i][id] \in {sub, NoSub} THEN garbled ELSE garbled \cup {i}
  /\ Written(i)
  /\ UNCHANGED <<lockLost, lastId>>

PatchCopy(i, id, p) ==
  LET sub == scnSubs[i][id]
      add == CacheAdd(sub, p)
      cut == CacheRemove(sub, p)
      new == PatchSCNSubscriptionTx(sub, p)
  IN  CASE p.op = "add" ->
             Cache(i, [scnSubs[i] EXCEPT ![id] = add.sub],
                   AddSCNMap(scnSubMap[i], add.delta))
        [] p.op = "remove" ->
             Cache(i, [scnSubs[i] EXCEPT ![id] = cut.sub],
                   RemoveSCNMap(scnSubMap[i], cut.delta))
        [] p.op = "replace" ->
             Cache(i, [scnSubs[i] EXCEPT ![id] = new],
                   AddSCNMap(RemoveSCNMap(scnSubMap[i], sub), new))

Repeats(p) == \E k \in TriggerKind, v \in Value : p.lists[k][v] > 1

(* A panic ends the handler and not the lock: nothing was deferred.  What  *)
(* it has done to the list by then nobody sees: the lock is not free.  A   *)
(* value that is given twice to be added is added once to the table and    *)
(* twice to the copy.                                                      *)
Patch(i, id, p) ==
  /\ Serve(i)
  /\ Exists(id)
  /\ UpdateSCNSubscription(id, PatchSCNSubscriptionTx(scnSubscriptions[id], p))
  /\ \/ /\ scnSubs[i][id] = NoSub
        /\ UNCHANGED <<copies, lockLost, garbled>>
     \/ /\ scnSubs[i][id] # NoSub
        /\ p.op = "remove" => ~MustPanic(scnSubs[i][id], p)
        /\ PatchCopy(i, id, p)
        /\ garbled' = IF p.op = "add" /\ Repeats(p) THEN garbled \cup {i} ELSE garbled
        /\ UNCHANGED lockLost
     \/ /\ scnSubs[i][id] # NoSub
        /\ p.op = "remove" /\ MayPanic(scnSubs[i][id], p)
        /\ lockLost' = lockLost \cup {i}
        /\ garbled' = garbled \cup {i}
        /\ UNCHANGED copies
  /\ Written(i)
  /\ UNCHANGED lastId

DeleteSubscription(i, id) ==
  /\ Serve(i)
  /\ DeleteSCNSubscription(id)
  /\ IF scnSubs[i][id] = NoSub THEN UNCHANGED copies
     ELSE Cache(i, [scnSubs[i] EXCEPT ![id] = NoSub],
                RemoveSCNMap(scnSubMap[i], scnSubs[i][id]))
  /\ UNCHANGED <<lockLost, garbled, lastId>>
  /\ Written(i)

(* Mutant of Refresh: what is in the table is added to the map. *)
RefreshAdds(i) ==
  /\ i \notin lockLost
  /\ Cache(i, scnSubscriptions,
           [e \in Entry |-> IF MapOf(scnSubscriptions)[e] > scnSubMap[i][e]
                             THEN MapOf(scnSubscriptions)[e] ELSE scnSubMap[i][e]])
  /\ behind' = behind \ {i} /\ garbled' = garbled \ {i}
  /\ UNCHANGED <<stored, lockLost, due, pool>>

(* SCNSubscriptionRefresh, every 30 seconds. *)
Refresh(i) ==
  /\ i \notin lockLost
  /\ Cache(i, scnSubscriptions, MapOf(scnSubscriptions))
  /\ behind' = behind \ {i} /\ garbled' = garbled \ {i}
  /\ UNCHANGED <<stored, lockLost, due, pool>>

-------------------------------------------------------------------------------
(* doCompUpdate commits a change and queues its SCN; what Queue returns    *)
(* when the queue is full is not looked at.  Each change is made once.     *)
Notify(i, c) ==
  /\ c \notin made
  /\ made' = made \cup {c}
  /\ IF Len(jobQueue[i]) < QueueLength
     THEN /\ jobQueue' = [jobQueue EXCEPT ![i] = Append(@, c)]
          /\ due' = IF i \in behind \cup garbled THEN due
                    ELSE due \cup {d \in {c} \X Id \X Url :
                                  Subscribes(scnSubscriptions[d[2]], TriggerOf(c), d[3])}
     ELSE UNCHANGED <<jobQueue, due>>
  /\ UNCHANGED <<stored, copies, lockLost, sending, heard, gaveUp, behind, garbled>>

(* Mutant of Run: a URL with a single reference is left out. *)
RunShort(i) ==
  /\ jobQueue[i] # <<>>
  /\ LET c == Head(jobQueue[i])
         urls == {u \in Url : scnSubMap[i][<<TriggerOf(c), u>>] > 1}
     IN  sending' = sending \cup [from : {i}, change : {c}, url : urls, try : {1}]
  /\ jobQueue' = [jobQueue EXCEPT ![i] = Tail(@)]
  /\ UNCHANGED <<stored, copies, lockLost, made, heard, gaveUp, due, behind, garbled>>

(* JobSCN.Run: a goroutine for every URL that the map has for the trigger. *)
Run(i) ==
  /\ jobQueue[i] # <<>>
  /\ LET c == Head(jobQueue[i])
         urls == {u \in Url : scnSubMap[i][<<TriggerOf(c), u>>] > 0}
     IN  sending' = sending \cup [from : {i}, change : {c}, url : urls, try : {1}]
  /\ jobQueue' = [jobQueue EXCEPT ![i] = Tail(@)]
  /\ UNCHANGED <<stored, copies, lockLost, made, heard, gaveUp, due, behind, garbled>>

(* One try.  The subscriber hears of the change and answers; or it does    *)
(* not hear of it, or its answer is lost, and it is tried again.           *)
Answered(s) ==
  /\ heard' = heard \cup {<<s.change, s.url>>}
  /\ sending' = sending \ {s}
  /\ UNCHANGED gaveUp

Failed(s) ==
  /\ \/ heard' = heard
     \/ heard' = heard \cup {<<s.change, s.url>>}
  /\ IF s.try < 3
     THEN /\ sending' = (sending \ {s}) \cup {[s EXCEPT !.try = @ + 1]}
          /\ UNCHANGED gaveUp
     ELSE /\ sending' = sending \ {s}
          /\ gaveUp' = gaveUp \cup {<<s.change, s.url>>}

Try ==
  /\ \E s \in sending : Answered(s) \/ Failed(s)
  /\ UNCHANGED <<stored, copies, lockLost, jobQueue, made, due, behind, garbled>>

(* An instance ends and starts again: its jobs and what it was sending are *)
(* lost, and its copy is empty until the first refresh, which is the first *)
(* thing its thread does.                                                  *)
RestartInstance(i) ==
  /\ requests < MaxRequests
  /\ requests' = requests + 1
  /\ Cache(i, [id \in Id |-> NoSub], EmptyMap)
  /\ lockLost' = lockLost \ {i}
  /\ jobQueue' = [jobQueue EXCEPT ![i] = <<>>]
  /\ sending' = {s \in sending : s.from # i}
  /\ due' = {d \in due : /\ d[1] \notin Queued(i)
                         /\ \A s \in sending : s.from = i => s.change # d[1]}
  /\ behind' = behind \cup {i}
  /\ garbled' = garbled \ {i}
  /\ UNCHANGED <<scnSubscriptions, lastId, made, heard, gaveUp>>

Request(i) ==
  \/ \E sub \in NewSubs : Post(i, sub) \/ \E id \in Id : Put(i, id, sub)
  \/ \E id \in Id, p \in Patches : Patch(i, id, p)
  \/ \E id \in Id : DeleteSubscription(i, id)
  \/ DeleteAll(i)

Next ==
  \/ Try
  \/ \E i \in Instance :
       \/ Request(i) \/ Refresh(i) \/ Run(i) \/ RestartInstance(i)
       \/ \E c \in Changes : Notify(i, c)

Spec == Init /\ [][Next]_vars

(* The refresh thread is a loop, and so are the workers of the pool; a try *)
(* ends, with an answer or its time-out.  Nobody need ask for anything.    *)
Fairness ==
  /\ WF_vars(Try)
  /\ \A i \in Instance : WF_vars(Refresh(i)) /\ WF_vars(Run(i))

FairSpec == Spec /\ Fairness

-------------------------------------------------------------------------------
(* An instance that nobody has written behind since its refresh, whose     *)
(* puts have changed no more than states and whose patches added no value  *)
(* twice, sends by the table: reference counts lose no subscription and    *)
(* keep none, whatever was added, removed, replaced and deleted, with URLs *)
(* shared and values repeated in a subscription (addSCNUrl, removeSCNUrl   *)
(* and the handlers that use them).                                        *)
MapIsCurrent ==
  \A i \in Instance \ (behind \cup garbled) : scnSubMap[i] = MapOf(scnSubscriptions)

(* What keeps a notification that is due on its way: the try that is under *)
(* way, or a job whose instance still finds the URL in its map.            *)
OnItsWay(d) ==
  \/ <<d[1], d[3]>> \in heard \cup gaveUp
  \/ \E s \in sending : s.change = d[1] /\ s.url = d[3]
  \/ \E i \in Instance :
       d[1] \in Queued(i) /\ scnSubMap[i][<<TriggerOf(d[1]), d[3]>>] > 0

(* No subscriber is forgotten between a change and its try: whatever is    *)
(* done to other subscriptions of the same URL, on whatever instance, and  *)
(* whichever copies are behind, the map does not lose the URL before the   *)
(* job has read it.                                                        *)
NobodyForgotten == \A d \in due : OnItsWay(d)

(* Whatever has put a copy out of step, once the requests end every        *)
(* instance comes to send by the table (SCNSubscriptionRefresh).           *)
CopiesConverge ==
  <>[](\A i \in Instance : scnSubMap[i] = MapOf(scnSubscriptions))

(* Who subscribes to a change when it is made and its SCN is queued, and   *)
(* leaves the subscription as it is, hears of it, or cannot be reached in  *)
(* three tries, whatever is done to other subscriptions meanwhile and on   *)
(* whatever instance; unless the instance that has the job ends, or a put  *)
(* or a patch garbles its copy.                                            *)
SubscriberHears ==
  \A c \in Changes, id \in Id, u \in Url :
    (<<c, id, u>> \in due) ~>
      (<<c, u>> \in heard \cup gaveUp \/ <<c, id, u>> \notin due)

(* A request that patches never keeps the later ones and the refresh from  *)
(* the copy: "We'll get corrected by the SCNSubscriptionRefresh() thread." *)
LockIsReleased == lockLost = {}
===============================================================================
