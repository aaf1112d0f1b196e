-------------------------- MODULE StatePollingProofs --------------------------
(***************************************************************************)
(* Proofs about StatePolling, for any nodes, instances, handlers and jobs. *)
(***************************************************************************)
EXTENDS StatePolling, TLAPS

-------------------------------------------------------------------------------
(* The inductive invariant.  A goroutine that does something does it on an *)
(* instance, for a node.                                                   *)
Placed(q) ==
  /\ q.at = "idle" => q = Idle
  /\ q.at # "idle" => q.inst \in Instance /\ q.node \in Node

(* The two goroutines of a job are started together and end together, and  *)
(* keep to the states of their loops.                                      *)
Paired(j) ==
  LET p == proc[Poller(j)]
      k == proc[KeepAlive(j)]
  IN  /\ p.at # "start" /\ k.at \in {"idle", "run", "cancel"}
      /\ p.inst = k.inst /\ p.node = k.node

(* Who sends on a cancelChan will be heard: the poller has neither ended   *)
(* nor taken a cancel already.                                             *)
Heard(j) == cancelSends[j] # 0 => proc[Poller(j)].at \notin {"idle", "stop"}

IInv ==
  /\ TypeOK
  /\ \A q \in Process : Placed(proc[q])
  /\ \A j \in Job : Paired(j) /\ Heard(j)
  /\ ListedIsRunning

-------------------------------------------------------------------------------
(* Goroutines *)

LEMMA Processes ==
  /\ \A h \in Handler : Request(h) \in Process
  /\ \A i \in Instance : Sync(i) \in Process
  /\ \A j \in Job : Poller(j) \in Process /\ KeepAlive(j) \in Process
  BY DEF Process

LEMMA Distinct ==
  /\ \A j, l : Poller(j) = Poller(l) => j = l
  /\ \A j, l : KeepAlive(j) = KeepAlive(l) => j = l
  /\ \A j, x : /\ Poller(j) # KeepAlive(x) /\ Poller(j) # Request(x) /\ Poller(j) # Sync(x)
               /\ KeepAlive(j) # Request(x) /\ KeepAlive(j) # Sync(x)
  BY DEF Poller, KeepAlive, Request, Sync

LEMMA IdleProc == Idle \in Proc /\ Placed(Idle)
  BY DEF Idle, Proc, Step, Placed

LEMMA NoRowType == NoRow.fresh = FALSE /\ NoRow.complete = FALSE
  BY DEF NoRow

(* What a row may become. *)
LEMMA RowType ==
  ASSUME NEW r \in Row \cup {NoRow}, NEW b \in BOOLEAN
  PROVE  /\ (IF r = NoRow THEN r ELSE [r EXCEPT !.complete = b]) \in Row \cup {NoRow}
         /\ (IF r = NoRow THEN r ELSE [r EXCEPT !.fresh = b]) \in Row \cup {NoRow}
  BY DEF Row

(* A new job's id is in use by no goroutine, and listed nowhere. *)
LEMMA NewJobUnused ==
  ASSUME IInv, \E j \in Job : Unused(j)
  PROVE  /\ NewJob \in Job /\ Unused(NewJob)
         /\ cancelSends[NewJob] = 0
         /\ \A i \in Instance, n \in Node : srfpJobList[i][n] # NewJob
  <1>1. NewJob \in Job /\ Unused(NewJob)
    BY DEF NewJob
  <1> HIDE DEF NewJob
  <1>2. proc[Poller(NewJob)] = Idle /\ Idle.at = "idle" /\ Idle.inst = Nowhere
    BY <1>1 DEF Unused, Idle
  <1>3. cancelSends[NewJob] = 0
    BY <1>1, <1>2 DEF IInv, Heard
  <1>4. ASSUME NEW i \in Instance, NEW n \in Node PROVE srfpJobList[i][n] # NewJob
    BY <1>1, <1>2, PollingAssumption DEF IInv, ListedIsRunning
  <1> QED  BY <1>1, <1>3, <1>4

(* The job that is listed for a goroutine's node. *)
LEMMA ListedJob ==
  ASSUME IInv, NEW i \in Instance, NEW n \in Node, srfpJobList[i][n] # NoJob
  PROVE  LET j == srfpJobList[i][n]
         IN  /\ j \in Job /\ cancelSends[j] = 0
             /\ proc[Poller(j)].inst = i /\ proc[Poller(j)].node = n
             /\ proc[Poller(j)].at \notin {"idle", "stop"}
             /\ \A k \in Instance, m \in Node : srfpJobList[k][m] = j => k = i /\ m = n
  <1> DEFINE j == srfpJobList[i][n]
  <1>1. j \in Job
    BY DEF IInv, TypeOK
  <1>2. /\ proc[Poller(j)].inst = i /\ proc[Poller(j)].node = n
        /\ proc[Poller(j)].at # "stop" /\ cancelSends[j] = 0
    BY DEF IInv, ListedIsRunning, At
  <1>3. proc[Poller(j)].at # "idle"
    <2>1. Placed(proc[Poller(j)])
      BY <1>1, Processes DEF IInv
    <2> QED  BY <1>2, <2>1, PollingAssumption DEF Placed, Idle
  <1>4. \A k \in Instance, m \in Node : srfpJobList[k][m] = j => k = i /\ m = n
    BY <1>2 DEF IInv, ListedIsRunning
  <1> QED  BY <1>1, <1>2, <1>3, <1>4

(* A goroutine that comes back does something, or is idle. *)
LEMMA ReturnedType ==
  ASSUME IInv, NEW p \in Process, proc[p].at # "idle"
  PROVE  /\ Returned(p) \in Proc /\ Placed(Returned(p))
         /\ \A j \in Job : p = Poller(j) \/ p = KeepAlive(j) =>
              /\ Returned(p).at = "run"
              /\ Returned(p).inst = proc[p].inst /\ Returned(p).node = proc[p].node
  <1>1. proc[p] \in Proc /\ proc[p].inst \in Instance /\ proc[p].node \in Node
    BY DEF IInv, TypeOK, Placed
  <1>2. PICK u \in Proc : u = [proc[p] EXCEPT !.at = "run"]
    BY <1>1 DEF Proc, Step
  <1>3. u.at = "run" /\ u.inst = proc[p].inst /\ u.node = proc[p].node
    BY <1>1, <1>2 DEF Proc
  <1>4. Placed(u)
    BY <1>1, <1>3 DEF Placed
  <1>5. \A j : p = Poller(j) \/ p = KeepAlive(j) => p[1] \in {"poller", "keepalive"}
    BY DEF Poller, KeepAlive
  <1> QED  BY <1>2, <1>3, <1>4, <1>5, IdleProc DEF Returned

-------------------------------------------------------------------------------
(* Steps *)

(* No job is started, cancelled or ended. *)
LEMMA JobsStay ==
  ASSUME IInv, TypeOK', \A q \in Process : Placed(proc[q])',
         UNCHANGED <<srfpJobList, cancelSends>>,
         \A j \in Job :
           LET p == proc[Poller(j)]
               k == proc[KeepAlive(j)]
           IN  /\ p'.inst = p.inst /\ p'.node = p.node /\ p'.at # "start"
               /\ p'.at = "idle" <=> p.at = "idle"
               /\ p'.at = "stop" <=> p.at = "stop"
               /\ k'.inst = k.inst /\ k'.node = k.node /\ k'.at \in {"idle", "run", "cancel"}
  PROVE  IInv'
  <1>1. ASSUME NEW j \in Job PROVE Paired(j)' /\ Heard(j)'
    BY DEF IInv, Paired, Heard
  <1>2. ListedIsRunning'
    <2> SUFFICES ASSUME NEW i \in Instance, NEW n \in Node, srfpJobList'[i][n] # NoJob
                 PROVE  LET j == srfpJobList'[i][n]
                        IN  /\ proc'[Poller(j)].inst = i /\ proc'[Poller(j)].node = n
                            /\ proc'[Poller(j)].at # "stop" /\ cancelSends'[j] = 0
      BY DEF ListedIsRunning, At
    <2> QED  BY ListedJob
  <1> QED  BY <1>1, <1>2 DEF IInv

(* One goroutine goes on. *)
LEMMA Moves ==
  ASSUME IInv, TypeOK', NEW p \in Process, NEW q \in Proc, Placed(q),
         proc' = [proc EXCEPT ![p] = q],
         UNCHANGED <<srfpJobList, cancelSends>>,
         \A j \in Job :
           /\ p = Poller(j) =>
                /\ q.inst = proc[p].inst /\ q.node = proc[p].node
                /\ q.at \notin {"start", "idle", "stop"} /\ proc[p].at \notin {"idle", "stop"}
           /\ p = KeepAlive(j) =>
                /\ q.inst = proc[p].inst /\ q.node = proc[p].node
                /\ q.at \in {"run", "cancel"}
  PROVE  IInv'
  <1>1. \A r \in Process : proc'[r] = IF r = p THEN q ELSE proc[r]
    BY DEF IInv, TypeOK
  <1>2. \A r \in Process : Placed(proc[r])'
    BY <1>1 DEF IInv, Placed, Idle
  <1>3. ASSUME NEW j \in Job
        PROVE  LET r == proc[Poller(j)]
                   k == proc[KeepAlive(j)]
               IN  /\ r'.inst = r.inst /\ r'.node = r.node /\ r'.at # "start"
                   /\ r'.at = "idle" <=> r.at = "idle"
                   /\ r'.at = "stop" <=> r.at = "stop"
                   /\ k'.inst = k.inst /\ k'.node = k.node
                   /\ k'.at \in {"idle", "run", "cancel"}
    BY <1>1, Processes DEF IInv, Paired
  <1> QED  BY <1>2, <1>3, JobsStay

(* No goroutine does. *)
LEMMA Stands ==
  ASSUME IInv, TypeOK', UNCHANGED <<proc, srfpJobList, cancelSends>>
  PROVE  IInv'
  <1>1. \A q \in Process : Placed(proc[q])'
    BY DEF IInv, Placed
  <1>2. ASSUME NEW j \in Job PROVE Paired(j)
    BY DEF IInv
  <1> QED  BY <1>1, <1>2, JobsStay DEF Paired

LEMMA CompUpdateStep ==
  ASSUME IInv, NEW h \in Handler, NEW i \in Instance, NEW n \in Node, NEW u \in Updates,
         CompUpdate(h, i, n, u[1], u[2])
  PROVE  IInv'
  <1> DEFINE q == [at |-> FollowUp(u[1]), inst |-> i, node |-> n]
  <1>1. u[1] \in HmsState /\ u[2] \in HmsFlag
    BY PollingAssumption
  <1>2. q \in Proc /\ Placed(q)
    BY DEF Proc, Step, Placed, FollowUp
  <1>3. proc' = [proc EXCEPT ![Request(h)] = q] /\ UNCHANGED <<srfpJobList, cancelSends>>
    BY DEF CompUpdate
  <1> HIDE DEF q
  <1>4. updates' \in 0 .. MaxUpdates
    BY PollingAssumption DEF CompUpdate, IInv, TypeOK
  <1>5. TypeOK'
    BY <1>1, <1>2, <1>3, <1>4, Processes DEF CompUpdate, IInv, TypeOK
  <1>6. \A j : Request(h) # Poller(j) /\ Request(h) # KeepAlive(j)
    BY Distinct
  <1> QED  BY <1>2, <1>3, <1>5, <1>6, Processes, Moves

LEMMA StartStep ==
  ASSUME IInv, NEW p \in Process, Start(p)
  PROVE  IInv'
  <1> DEFINE i == proc[p].inst
             n == proc[p].node
             l == NewJob
             run == [at |-> "run", inst |-> i, node |-> n]
             q == Returned(p)
  <1>1. /\ l \in Job /\ Unused(l) /\ cancelSends[l] = 0
        /\ \A k \in Instance, m \in Node : srfpJobList[k][m] # l
    BY NewJobUnused DEF Start
  <1>2. /\ proc[p].at = "start" /\ i \in Instance /\ n \in Node
    BY DEF Start, At, IInv, Placed
  <1>3. q \in Proc /\ Placed(q)
    BY <1>2, ReturnedType
  <1>4. run \in Proc /\ Placed(run)
    BY <1>2 DEF Proc, Step, Placed
  <1>5. /\ row' = [row EXCEPT ![l] = Inserted(n)]
        /\ srfpJobList' = [srfpJobList EXCEPT ![i][n] = l]
        /\ proc' = [proc EXCEPT ![p] = q, ![Poller(l)] = run, ![KeepAlive(l)] = run]
        /\ UNCHANGED <<nodeVars, cancelSends, expired, bounds>>
    BY DEF Start
  <1>6. p # Poller(l) /\ p # KeepAlive(l) /\ \A j \in Job : p # Poller(j) /\ p # KeepAlive(j)
    BY <1>1, <1>2 DEF Unused, Idle, IInv, Paired
  <1> HIDE DEF l, q
  <1>7. \A r \in Process :
          proc'[r] = IF r = Poller(l) \/ r = KeepAlive(l) THEN run
                     ELSE IF r = p THEN q ELSE proc[r]
    BY <1>1, <1>5, <1>6, Processes DEF IInv, TypeOK
  <1>8. TypeOK'
    <2>1. Inserted(n) \in Row
      BY <1>2 DEF Inserted, Row
    <2>2. proc' \in [Process -> Proc]
      BY <1>3, <1>4, <1>5 DEF IInv, TypeOK
    <2> QED  BY <1>1, <1>2, <1>5, <2>1, <2>2 DEF IInv, TypeOK, nodeVars, bounds
  <1>9. \A r \in Process : Placed(proc[r])'
    BY <1>3, <1>4, <1>7 DEF IInv, Placed, Idle
  <1>10. ASSUME NEW j \in Job PROVE Paired(j)' /\ Heard(j)'
    <2>1. CASE j = l
      <3>1. proc'[Poller(j)] = run /\ proc'[KeepAlive(j)] = run
        BY <1>7, <2>1, Processes
      <3> QED  BY <1>1, <1>5, <2>1, <3>1 DEF Paired, Heard
    <2>2. CASE j # l
      <3>1. proc'[Poller(j)] = proc[Poller(j)] /\ proc'[KeepAlive(j)] = proc[KeepAlive(j)]
        BY <1>6, <1>7, <2>2, Processes, Distinct
      <3> QED  BY <1>5, <3>1 DEF IInv, Paired, Heard
    <2> QED  BY <2>1, <2>2
  <1>11. ListedIsRunning'
    <2> SUFFICES ASSUME NEW k \in Instance, NEW m \in Node, srfpJobList'[k][m] # NoJob
                 PROVE  LET j == srfpJobList'[k][m]
                        IN  /\ proc'[Poller(j)].inst = k /\ proc'[Poller(j)].node = m
                            /\ proc'[Poller(j)].at # "stop" /\ cancelSends'[j] = 0
      BY DEF ListedIsRunning, At
    <2>1. CASE k = i /\ m = n
      <3>1. srfpJobList'[k][m] = l /\ proc'[Poller(l)] = run
        BY <1>1, <1>2, <1>5, <1>7, <2>1, Processes DEF IInv, TypeOK
      <3> QED  BY <1>1, <1>5, <2>1, <3>1
    <2>2. CASE ~ (k = i /\ m = n)
      <3> DEFINE j == srfpJobList[k][m]
      <3>1. srfpJobList'[k][m] = j
        BY <1>2, <1>5, <2>2 DEF IInv, TypeOK
      <3>2. j \in Job /\ j # l
        BY <1>1, <3>1 DEF IInv, TypeOK
      <3>3. proc'[Poller(j)] = proc[Poller(j)]
        BY <1>6, <1>7, <3>2, Processes, Distinct
      <3> QED  BY <1>5, <3>1, <3>3, ListedJob
    <2> QED  BY <2>1, <2>2
  <1> QED  BY <1>8, <1>9, <1>10, <1>11 DEF IInv

LEMMA StartFailStep ==
  ASSUME IInv, NEW p \in Process, StartFail(p)
  PROVE  IInv'
  <1>1. proc[p].at = "start" /\ \A j \in Job : p # Poller(j) /\ p # KeepAlive(j)
    BY DEF StartFail, At, IInv, Paired
  <1>2. Returned(p) \in Proc /\ Placed(Returned(p))
    BY <1>1, ReturnedType
  <1>3. TypeOK'
    BY <1>2 DEF StartFail, IInv, TypeOK, nodeVars, bounds
  <1> QED  BY <1>1, <1>2, <1>3, Moves DEF StartFail

LEMMA CancelStep ==
  ASSUME IInv, NEW p \in Process, Cancel(p)
  PROVE  IInv'
  <1> DEFINE i == proc[p].inst
             n == proc[p].node
             l == Listed(p)
             q == Returned(p)
  <1>1. proc[p].at = "cancel" /\ i \in Instance /\ n \in Node
    BY DEF Cancel, At, IInv, Placed
  <1>2. /\ q \in Proc /\ Placed(q)
        /\ \A j \in Job : p = Poller(j) \/ p = KeepAlive(j) =>
             q.at = "run" /\ q.inst = i /\ q.node = n
    BY <1>1, ReturnedType
  <1>3. proc' = [proc EXCEPT ![p] = q] /\ UNCHANGED <<nodeVars, expired, bounds>>
    BY DEF Cancel
  <1> HIDE DEF q
  <1>4. CASE l = NoJob
    <2>1. UNCHANGED <<row, srfpJobList, cancelSends>>
      BY <1>4 DEF Cancel
    <2>2. TypeOK'
      BY <1>2, <1>3, <2>1 DEF IInv, TypeOK, nodeVars, bounds
    <2> QED  BY <1>1, <1>2, <1>3, <2>1, <2>2, Moves
  <1>5. CASE l # NoJob
    <2>1. /\ cancelSends' = [cancelSends EXCEPT ![l] = @ + 1]
          /\ row' = [row EXCEPT ![l] = NoRow]
          /\ srfpJobList' = [srfpJobList EXCEPT ![i][n] = NoJob]
      BY <1>5 DEF Cancel
    <2>2. /\ l \in Job /\ cancelSends[l] = 0
          /\ proc[Poller(l)].at \notin {"idle", "stop"}
          /\ \A k \in Instance, m \in Node : srfpJobList[k][m] = l => k = i /\ m = n
      BY <1>1, <1>5, ListedJob DEF Listed
    <2> HIDE DEF l
    <2>3. \A r \in Process : proc'[r] = IF r = p THEN q ELSE proc[r]
      BY <1>3 DEF IInv, TypeOK
    <2>4. cancelSends' \in [Job -> 0 .. 1] /\ \A j \in Job : j # l => cancelSends'[j] = cancelSends[j]
      BY <2>1, <2>2 DEF IInv, TypeOK
    <2>5. TypeOK'
      BY <1>1, <1>2, <1>3, <2>1, <2>4 DEF IInv, TypeOK, nodeVars, bounds
    <2>6. \A r \in Process : Placed(proc[r])'
      BY <1>2, <2>3 DEF IInv, Placed, Idle
    <2>7. ASSUME NEW j \in Job
          PROVE  /\ Paired(j)' /\ Heard(j)'
                 /\ proc'[Poller(j)].inst = proc[Poller(j)].inst
                 /\ proc'[Poller(j)].node = proc[Poller(j)].node
                 /\ proc[Poller(j)].at # "stop" => proc'[Poller(j)].at # "stop"
      <3>1. Paired(j) /\ Heard(j)
        BY DEF IInv
      <3>2. /\ proc'[Poller(j)] = IF Poller(j) = p THEN q ELSE proc[Poller(j)]
            /\ proc'[KeepAlive(j)] = IF KeepAlive(j) = p THEN q ELSE proc[KeepAlive(j)]
        BY <2>3, Processes
      <3>3. Poller(j) # KeepAlive(j)
        BY Distinct
      <3>4. Paired(j)'
        BY <1>2, <3>1, <3>2, <3>3 DEF Paired
      <3>5. Heard(j)'
        BY <1>2, <2>2, <2>4, <3>1, <3>2 DEF Heard
      <3> QED  BY <1>2, <3>2, <3>4, <3>5
    <2>8. ListedIsRunning'
      <3> SUFFICES ASSUME NEW k \in Instance, NEW m \in Node, srfpJobList'[k][m] # NoJob
                   PROVE  LET j == srfpJobList'[k][m]
                          IN  /\ proc'[Poller(j)].inst = k /\ proc'[Poller(j)].node = m
                              /\ proc'[Poller(j)].at # "stop" /\ cancelSends'[j] = 0
        BY DEF ListedIsRunning, At
      <3> DEFINE j == srfpJobList[k][m]
      <3>1. ~ (k = i /\ m = n) /\ srfpJobList'[k][m] = j
        BY <1>1, <2>1 DEF IInv, TypeOK
      <3>2. /\ j \in Job /\ j # l /\ cancelSends[j] = 0 /\ proc[Poller(j)].at # "stop"
            /\ proc[Poller(j)].inst = k /\ proc[Poller(j)].node = m
        BY <2>2, <3>1, ListedJob
      <3> QED  BY <2>4, <2>7, <3>1, <3>2
    <2> QED  BY <2>5, <2>6, <2>7, <2>8 DEF IInv
  <1> QED  BY <1>4, <1>5

-------------------------------------------------------------------------------
(* doPollRFState and doSRFPKeepAlive *)

LEMMA PollStep ==
  ASSUME IInv, NEW j \in Job,
         PollOff(j) \/ PollUpdate(j) \/ KeepJobAlive(j)
  PROVE  IInv'
  <1>1. /\ row[j] \in Row \cup {NoRow} /\ Poller(j) \in Process /\ KeepAlive(j) \in Process
        /\ proc[Poller(j)] \in Proc /\ proc[KeepAlive(j)] \in Proc
        /\ Placed(proc[Poller(j)]) /\ Placed(proc[KeepAlive(j)])
    BY Processes DEF IInv, TypeOK
  <1>2. ASSUME NEW p \in {Poller(j), KeepAlive(j)}, NEW s \in {"off", "cancel", "run"},
               Goto(p, s), proc[p].at \in {"run", "off", "cancel"},
               UNCHANGED <<srfpJobList, cancelSends>>,
               s # "off" \/ p = Poller(j),
               state' \in [Node -> HmsState], flag' \in [Node -> HmsFlag],
               row' \in [Job -> Row \cup {NoRow}], UNCHANGED <<expired, bounds>>
        PROVE  IInv'
    <2>1. PICK q \in Proc : q = [proc[p] EXCEPT !.at = s]
      BY <1>1, <1>2 DEF Proc, Step
    <2>2. q.at = s /\ q.inst = proc[p].inst /\ q.node = proc[p].node
      BY <1>1, <2>1 DEF Proc
    <2>3. Placed(q)
      BY <1>1, <1>2, <2>2 DEF Placed
    <2>4. proc' = [proc EXCEPT ![p] = q]
      BY <1>2, <2>1 DEF Goto
    <2>5. TypeOK'
      BY <1>2, <2>4 DEF IInv, TypeOK, bounds
    <2>6. \A l \in Job : KeepAlive(j) # Poller(l) /\ Poller(j) # KeepAlive(l)
      BY Distinct
    <2> QED  BY <1>1, <1>2, <2>2, <2>3, <2>4, <2>5, <2>6, Moves
  <1>3. CASE PollOff(j)
    <2>1. row' \in [Job -> Row \cup {NoRow}]
      BY <1>1, <1>3, RowType DEF PollOff, IInv, TypeOK
    <2> QED  BY <1>2, <1>3, <2>1 DEF PollOff, At, IInv, TypeOK, nodeVars
  <1>4. CASE PollUpdate(j)
    <2>1. state' \in [Node -> HmsState] /\ flag' \in [Node -> HmsFlag]
      BY <1>4 DEF PollUpdate, IInv, TypeOK, HmsState, HmsFlag
    <2> QED  BY <1>2, <1>4, <2>1 DEF PollUpdate, At, IInv, TypeOK
  <1>5. CASE KeepJobAlive(j)
    <2>1. CASE state[proc[KeepAlive(j)].node] = "Standby"
      <3>1. /\ UNCHANGED <<nodeVars, proc, srfpJobList, cancelSends, expired, bounds>>
            /\ row' = [row EXCEPT ![j] = IF @ = NoRow THEN @ ELSE [@ EXCEPT !.fresh = TRUE]]
        BY <1>5, <2>1 DEF KeepJobAlive
      <3>2. row' \in [Job -> Row \cup {NoRow}]
        BY <1>1, <3>1, RowType DEF IInv, TypeOK
      <3>3. TypeOK'
        BY <3>1, <3>2 DEF IInv, TypeOK, nodeVars, bounds
      <3> QED  BY <3>1, <3>3, Stands
    <2>2. CASE state[proc[KeepAlive(j)].node] # "Standby"
      BY <1>2, <1>5, <2>2 DEF KeepJobAlive, At, IInv, TypeOK, nodeVars
    <2> QED  BY <2>1, <2>2
  <1> QED  BY <1>3, <1>4, <1>5

(* A row changes, or what JobSync has read. *)
LEMMA RowStep ==
  ASSUME IInv,
         \/ \E j \in Job : PollError(j) \/ Expire(j)
         \/ \E i \in Instance : SyncRead(i)
  PROVE  IInv'
  <1>1. ASSUME NEW j \in Job, PollError(j) \/ Expire(j) PROVE TypeOK'
    <2>1. row[j] \in Row
      BY <1>1, NoRowType DEF PollError, Expire, IInv, TypeOK
    <2>2. [row[j] EXCEPT !.complete = FALSE] \in Row /\ [row[j] EXCEPT !.fresh = FALSE] \in Row
      BY <2>1 DEF Row
    <2>3. row' \in [Job -> Row \cup {NoRow}]
      BY <1>1, <2>2 DEF PollError, Expire, IInv, TypeOK
    <2> QED  BY <1>1, <2>3 DEF PollError, Expire, IInv, TypeOK, nodeVars, bounds
  <1>2. ASSUME NEW i \in Instance, SyncRead(i) PROVE TypeOK'
    <2>1. \A j \in Job : row[j] # NoRow =>
            [job |-> j, node |-> row[j].node, complete |-> row[j].complete]
              \in [job : Job, node : Node, complete : BOOLEAN]
      BY DEF IInv, TypeOK, Row
    <2> QED  BY <1>2, <2>1 DEF SyncRead, IInv, TypeOK, nodeVars, bounds
  <1> QED  BY <1>1, <1>2, Stands DEF PollError, Expire, SyncRead

LEMMA SyncJobStep ==
  ASSUME IInv, NEW i \in Instance, NEW e \in expired[i], SyncJob(i, e)
  PROVE  IInv'
  <1>1. e \in [job : Job, node : Node, complete : BOOLEAN]
    BY DEF IInv, TypeOK
  <1> DEFINE q == [at |-> "start", inst |-> i, node |-> e.node]
  <1>2. q \in Proc /\ Placed(q)
    BY <1>1 DEF Proc, Step, Placed
  <1>3. /\ row' = [row EXCEPT ![e.job] = NoRow]
        /\ expired' = [expired EXCEPT ![i] = @ \ {e}]
        /\ UNCHANGED <<nodeVars, srfpJobList, cancelSends, bounds>>
        /\ proc' = [proc EXCEPT ![Sync(i)] = q] \/ proc' = proc
    BY DEF SyncJob, Remake
  <1> HIDE DEF q
  <1>4. TypeOK'
    BY <1>2, <1>3 DEF IInv, TypeOK, nodeVars, bounds
  <1>5. \A j : Sync(i) # Poller(j) /\ Sync(i) # KeepAlive(j)
    BY Distinct
  <1> QED  BY <1>2, <1>3, <1>4, <1>5, Processes, Moves, Stands

(* The poller of j takes a cancel, or ends with its keep alive: the job is *)
(* no longer listed by then.                                               *)
LEMMA EndStep ==
  ASSUME IInv, NEW j \in Job, Receive(j) \/ Stop(j)
  PROVE  IInv'
  <1> DEFINE p == Poller(j)
             k == KeepAlive(j)
  <1>1. /\ p \in Process /\ k \in Process /\ proc[p] \in Proc /\ Placed(proc[p])
        /\ Paired(j) /\ Heard(j) /\ cancelSends[j] \in 0 .. 1
    BY Processes DEF IInv, TypeOK
  <1>2. \A i \in Instance, n \in Node : srfpJobList[i][n] # j
    BY <1>1, PollingAssumption DEF Receive, Stop, At, IInv, ListedIsRunning
  <1>3. \A i \in Instance, n \in Node : srfpJobList[i][n] # NoJob => srfpJobList[i][n] \in Job
    BY DEF IInv, TypeOK
  <1>4. CASE Receive(j)
    <2>1. PICK q \in Proc : q = [proc[p] EXCEPT !.at = "stop"]
      BY <1>1 DEF Proc, Step
    <2>2. q.at = "stop" /\ q.inst = proc[p].inst /\ q.node = proc[p].node /\ Placed(q)
      BY <1>1, <1>4, <2>1 DEF Proc, Placed, Receive, At
    <2>3. /\ proc' = [proc EXCEPT ![p] = q]
          /\ cancelSends' = [cancelSends EXCEPT ![j] = @ - 1]
          /\ UNCHANGED <<nodeVars, row, srfpJobList, expired, bounds>>
      BY <1>4, <2>1 DEF Receive, Goto
    <2>4. /\ cancelSends' \in [Job -> 0 .. 1] /\ cancelSends'[j] = 0
          /\ \A l \in Job : l # j => cancelSends'[l] = cancelSends[l]
      BY <1>1, <1>4, <2>3 DEF IInv, TypeOK, Receive
    <2>5. TypeOK'
      BY <2>3, <2>4 DEF IInv, TypeOK, nodeVars, bounds
    <2>6. \A r \in Process : proc'[r] = IF r = p THEN q ELSE proc[r]
      BY <2>3 DEF IInv, TypeOK
    <2>7. \A r \in Process : Placed(proc[r])'
      BY <2>2, <2>6 DEF IInv, Placed, Idle
    <2>8. ASSUME NEW l \in Job
          PROVE  /\ Paired(l)' /\ Heard(l)'
                 /\ l # j => proc'[Poller(l)] = proc[Poller(l)]
      BY <2>2, <2>4, <2>6, Processes, Distinct DEF IInv, Paired, Heard
    <2>9. ListedIsRunning'
      BY <1>2, <1>3, <2>3, <2>4, <2>8 DEF IInv, ListedIsRunning, At
    <2> QED  BY <2>5, <2>7, <2>8, <2>9 DEF IInv
  <1>5. CASE Stop(j)
    <2>1. /\ proc' = [proc EXCEPT ![p] = Idle, ![k] = Idle]
          /\ UNCHANGED <<nodeVars, row, srfpJobList, cancelSends, expired, bounds>>
      BY <1>5 DEF Stop
    <2>2. \A r \in Process : proc'[r] = IF r = p \/ r = k THEN Idle ELSE proc[r]
      BY <1>1, <2>1 DEF IInv, TypeOK
    <2>3. TypeOK'
      BY <2>1, IdleProc DEF IInv, TypeOK, nodeVars, bounds
    <2>4. \A r \in Process : Placed(proc[r])'
      BY <2>2, IdleProc DEF IInv, Placed, Idle
    <2>5. cancelSends[j] = 0
      BY <1>1, <1>5 DEF Heard, Stop, At
    <2>6. ASSUME NEW l \in Job, l # j
          PROVE  proc'[Poller(l)] = proc[Poller(l)] /\ proc'[KeepAlive(l)] = proc[KeepAlive(l)]
      BY <2>2, <2>6, Processes, Distinct
    <2>7. ASSUME NEW l \in Job PROVE Paired(l)' /\ Heard(l)'
      <3>1. CASE l = j
        <4>1. proc'[Poller(l)] = Idle /\ proc'[KeepAlive(l)] = Idle /\ cancelSends'[l] = 0
          BY <1>1, <2>1, <2>2, <2>5, <3>1
        <4> QED  BY <4>1 DEF Paired, Heard, Idle
      <3>2. CASE l # j
        BY <2>1, <2>6, <3>2 DEF IInv, Paired, Heard
      <3> QED  BY <3>1, <3>2
    <2>8. ListedIsRunning'
      <3> SUFFICES ASSUME NEW m \in Instance, NEW n \in Node, srfpJobList'[m][n] # NoJob
                   PROVE  LET l == srfpJobList'[m][n]
                          IN  /\ proc'[Poller(l)].inst = m /\ proc'[Poller(l)].node = n
                              /\ proc'[Poller(l)].at # "stop" /\ cancelSends'[l] = 0
        BY DEF ListedIsRunning, At
      <3> DEFINE l == srfpJobList[m][n]
      <3>1. srfpJobList'[m][n] = l /\ l \in Job /\ l # j
        BY <1>2, <1>3, <2>1
      <3>2. proc'[Poller(l)] = proc[Poller(l)] /\ cancelSends' = cancelSends
        BY <2>1, <2>6, <3>1
      <3> QED  BY <3>1, <3>2, ListedJob
    <2> QED  BY <2>3, <2>4, <2>7, <2>8 DEF IInv
  <1> QED  BY <1>4, <1>5

(* What an instance lists it runs itself: a crash leaves the lists of the  *)
(* others alone.                                                           *)
LEMMA CrashStep ==
  ASSUME IInv, NEW i \in Instance, Crash(i)
  PROVE  IInv'
  <1>1. /\ UNCHANGED <<nodeVars, updates>> /\ crashes' \in 0 .. MaxCrashes
        /\ srfpJobList' = [srfpJobList EXCEPT ![i] = [n \in Node |-> NoJob]]
        /\ expired' = [expired EXCEPT ![i] = {}]
    BY PollingAssumption DEF Crash, IInv, TypeOK
  <1>2. /\ proc' \in [Process -> Proc]
        /\ \A r \in Process : proc'[r] = IF proc[r].inst = i THEN Idle ELSE proc[r]
    BY IdleProc DEF Crash, IInv, TypeOK
  <1>3. /\ cancelSends' \in [Job -> 0 .. 1]
        /\ \A j \in Job :
             cancelSends'[j] = IF proc[Poller(j)].inst = i THEN 0 ELSE cancelSends[j]
    BY Processes DEF Crash, IInv, TypeOK
  <1>4. row' \in [Job -> Row \cup {NoRow}]
    <2>1. ASSUME NEW r \in Process, At(r, "start"), \E j \in Job : Unused(j),
                 row' = [row EXCEPT ![NewJob] = Inserted(proc[r].node)]
          PROVE  row' \in [Job -> Row \cup {NoRow}]
      <3>1. proc[r].node \in Node
        BY <2>1 DEF At, IInv, Placed
      <3>2. Inserted(proc[r].node) \in Row
        BY <3>1 DEF Inserted, Row
      <3> QED  BY <2>1, <3>2 DEF IInv, TypeOK
    <2> QED  BY <2>1 DEF Crash, IInv, TypeOK
  <1>5. TypeOK'
    BY <1>1, <1>2, <1>3, <1>4 DEF IInv, TypeOK, nodeVars
  <1>6. \A r \in Process : Placed(proc[r])'
    BY <1>2, IdleProc DEF IInv, Placed, Idle
  <1>7. ASSUME NEW j \in Job PROVE Paired(j)' /\ Heard(j)'
    BY <1>2, <1>3, Processes DEF IInv, Paired, Heard, Idle
  <1>8. ListedIsRunning'
    <2> SUFFICES ASSUME NEW k \in Instance, NEW m \in Node, srfpJobList'[k][m] # NoJob
                 PROVE  LET j == srfpJobList'[k][m]
                        IN  /\ proc'[Poller(j)].inst = k /\ proc'[Poller(j)].node = m
                            /\ proc'[Poller(j)].at # "stop" /\ cancelSends'[j] = 0
      BY DEF ListedIsRunning, At
    <2>1. k # i /\ srfpJobList'[k][m] = srfpJobList[k][m]
      BY <1>1 DEF IInv, TypeOK
    <2> QED  BY <1>2, <1>3, <2>1, ListedJob, Processes
  <1> QED  BY <1>5, <1>6, <1>7, <1>8 DEF IInv

-------------------------------------------------------------------------------
LEMMA InvInit == Init => IInv
  <1> SUFFICES ASSUME Init PROVE IInv
    OBVIOUS
  <1>1. \A q \in Process : proc[q] = Idle
    BY DEF Init
  <1>2. TypeOK
    BY IdleProc, PollingAssumption DEF Init, TypeOK, HmsState, HmsFlag
  <1>3. \A j \in Job : Paired(j) /\ Heard(j)
    BY <1>1, Processes DEF Init, Paired, Heard, Idle
  <1>4. ListedIsRunning
    BY DEF Init, ListedIsRunning
  <1> QED  BY <1>1, <1>2, <1>3, <1>4, IdleProc DEF IInv

LEMMA InvStep == IInv /\ [Next]_vars => IInv'
  <1> SUFFICES ASSUME IInv, [Next]_vars PROVE IInv'
    OBVIOUS
  <1>1. ASSUME NEW p \in Process, JobStep(p) PROVE IInv'
    BY <1>1, StartStep, StartFailStep, CancelStep DEF JobStep
  <1>2. ASSUME NEW i \in Instance, SyncStep(i) \/ Crash(i) PROVE IInv'
    BY <1>2, RowStep, SyncJobStep, CrashStep DEF SyncStep
  <1>3. CASE UNCHANGED vars
    <2>1. TypeOK'
      BY <1>3 DEF IInv, TypeOK, vars, nodeVars, bounds
    <2> QED  BY <1>3, <2>1, Stands DEF vars
  <1> QED  BY <1>1, <1>2, <1>3, CompUpdateStep, PollStep, RowStep, EndStep DEF Next

THEOREM InvCorrect == Spec => []IInv
  <1> QED  BY InvInit, InvStep, PTL DEF Spec

(* Every variable keeps its type. *)
THEOREM TypeCorrect == Spec => []TypeOK
  <1>1. IInv => TypeOK
    BY DEF IInv
  <1> QED  BY <1>1, InvCorrect, PTL

(* A listed job runs on the instance that lists it and has not been        *)
(* cancelled: a node that is listed twice, a restart or a take-over by     *)
(* another instance never leaves a job listed that has ended               *)
(* (cancelStateRFPoll would send to its channel and wait forever).         *)
THEOREM ListedRuns == Spec => []ListedIsRunning
  <1>1. IInv => ListedIsRunning
    BY DEF IInv
  <1> QED  BY <1>1, InvCorrect, PTL

(* The goroutines of a job live and end together, on one instance and for  *)
(* one node, and whoever sends on its cancelChan has a poller that will    *)
(* come round to receive (doPollRFState, doSRFPKeepAlive).                 *)
THEOREM NobodyWaitsAlone ==
  Spec => [](\A j \in Job :
               /\ proc[Poller(j)] = Idle <=> proc[KeepAlive(j)] = Idle
               /\ cancelSends[j] > 0 => proc[Poller(j)].at \in {"run", "off", "cancel"})
  <1>1. ASSUME IInv, NEW j \in Job
        PROVE  /\ proc[Poller(j)] = Idle <=> proc[KeepAlive(j)] = Idle
               /\ cancelSends[j] > 0 => proc[Poller(j)].at \in {"run", "off", "cancel"}
    <2>1. /\ Placed(proc[Poller(j)]) /\ Placed(proc[KeepAlive(j)])
          /\ Paired(j) /\ Heard(j) /\ proc[Poller(j)] \in Proc
      BY <1>1, Processes DEF IInv, TypeOK
    <2>2. proc[Poller(j)] = Idle <=> proc[KeepAlive(j)] = Idle
      BY <2>1, PollingAssumption DEF Placed, Paired, Idle
    <2>3. cancelSends[j] > 0 => proc[Poller(j)].at \in {"run", "off", "cancel"}
      BY <2>1 DEF Heard, Paired, Proc, Step
    <2> QED  BY <2>2, <2>3
  <1>2. IInv => \A j \in Job :
               /\ proc[Poller(j)] = Idle <=> proc[KeepAlive(j)] = Idle
               /\ cancelSends[j] > 0 => proc[Poller(j)].at \in {"run", "off", "cancel"}
    BY <1>1
  <1> QED  BY <1>2, InvCorrect, PTL

-------------------------------------------------------------------------------
(* Why a node is polled once.  Rows are of different nodes, always.  While *)
(* the database serves everyone, a poller that has not been cancelled has  *)
(* its row, and so does its keep alive: what JobSync takes for expired is  *)
(* what nobody runs.                                                       *)
RowsApart ==
  \A j, l \in Job : row[j] # NoRow /\ row[l] # NoRow /\ row[j].node = row[l].node => j = l

HasItsRow(j) ==
  proc[Poller(j)] # Idle /\ ~ Cancelled(j) => row[j] # NoRow /\ row[j].node = proc[Poller(j)].node

ExpiredIsOrphan ==
  /\ \A j \in Job : row[j] # NoRow /\ ~ row[j].fresh => proc[Poller(j)] = Idle
  /\ \A i \in Instance : \A e \in expired[i] : proc[Poller(e.job)] = Idle

Owned ==
  /\ RowsApart
  /\ ~ Outages => ExpiredIsOrphan /\ \A j \in Job : HasItsRow(j)

LEMMA ExpiredJobs ==
  ASSUME IInv, NEW i \in Instance, NEW e \in expired[i]
  PROVE  e.job \in Job
  BY DEF IInv, TypeOK

(* No row and no job is added. *)
LEMMA OwnedStays ==
  ASSUME IInv, IInv', Owned,
         \A j \in Job : row'[j] # NoRow => row[j] # NoRow /\ row'[j].node = row[j].node,
         \A j \in Job : proc[Poller(j)] = Idle => proc'[Poller(j)] = Idle,
         ~ Outages => \A j \in Job :
           /\ row'[j] # NoRow => row'[j].fresh \/ ~ row[j].fresh \/ proc[Poller(j)] = Idle
           /\ proc'[Poller(j)] # Idle /\ ~ Cancelled(j)' =>
                /\ proc'[Poller(j)].node = proc[Poller(j)].node
                /\ ~ Cancelled(j) /\ (row[j] # NoRow => row'[j] # NoRow),
         \A i \in Instance : \A e \in expired'[i] :
           e \in expired[i] \/ (row[e.job] # NoRow /\ ~ row[e.job].fresh)
  PROVE  Owned'
  <1>1. RowsApart'
    BY DEF Owned, RowsApart
  <1>2. ASSUME ~ Outages PROVE ExpiredIsOrphan'
    <2>1. ASSUME NEW j \in Job, row'[j] # NoRow, ~ row'[j].fresh PROVE proc'[Poller(j)] = Idle
      BY <1>2, <2>1 DEF Owned, ExpiredIsOrphan
    <2>2. ASSUME NEW i \in Instance, NEW e \in expired'[i] PROVE proc'[Poller(e.job)] = Idle
      <3>1. e.job \in Job
        BY DEF IInv, TypeOK
      <3> QED  BY <1>2, <3>1 DEF Owned, ExpiredIsOrphan
    <2> QED  BY <2>1, <2>2 DEF ExpiredIsOrphan
  <1>3. ASSUME ~ Outages, NEW j \in Job PROVE HasItsRow(j)'
    <2>1. SUFFICES ASSUME proc'[Poller(j)] # Idle, ~ Cancelled(j)'
                   PROVE  row'[j] # NoRow /\ row'[j].node = proc'[Poller(j)].node
      BY DEF HasItsRow
    <2>2. proc[Poller(j)] # Idle /\ ~ Cancelled(j) /\ proc'[Poller(j)].node = proc[Poller(j)].node
      BY <1>3, <2>1
    <2>3. row[j] # NoRow /\ row[j].node = proc[Poller(j)].node
      BY <1>3, <2>2 DEF Owned, HasItsRow
    <2> QED  BY <1>3, <2>1, <2>2, <2>3
  <1> QED  BY <1>1, <1>2, <1>3 DEF Owned

(* A row is inserted, and its job runs or is lost in a crash. *)
LEMMA OwnedAdds ==
  ASSUME IInv, Owned, NEW l \in Job, NEW n \in Node, Unused(l), ~ HasRow(n),
         row' = [row EXCEPT ![l] = Inserted(n)],
         \A i \in Instance : expired'[i] \subseteq expired[i],
         proc'[Poller(l)] = Idle \/ proc'[Poller(l)].node = n,
         \A j \in Job \ {l} :
           /\ proc[Poller(j)] = Idle => proc'[Poller(j)] = Idle
           /\ proc'[Poller(j)] # Idle /\ ~ Cancelled(j)' =>
                proc'[Poller(j)].node = proc[Poller(j)].node /\ ~ Cancelled(j)
  PROVE  Owned'
  <1>1. /\ row[l] = NoRow
        /\ \A j \in Job : row[j].node # n
        /\ \A j \in Job : row'[j] = IF j = l THEN Inserted(n) ELSE row[j]
    BY DEF Unused, HasRow, IInv, TypeOK
  <1>2. Inserted(n).node = n /\ Inserted(n).fresh = TRUE
    BY DEF Inserted
  <1>3. Inserted(n) # NoRow
    BY <1>2, NoRowType
  <1>4. RowsApart'
    BY <1>1, <1>2, <1>3 DEF Owned, RowsApart
  <1>5. ASSUME ~ Outages PROVE ExpiredIsOrphan'
    <2>1. ASSUME NEW j \in Job, row'[j] # NoRow, ~ row'[j].fresh PROVE proc'[Poller(j)] = Idle
      <3>1. j # l /\ row'[j] = row[j]
        BY <1>1, <1>2, <2>1
      <3> QED  BY <1>5, <2>1, <3>1 DEF Owned, ExpiredIsOrphan
    <2>2. ASSUME NEW i \in Instance, NEW e \in expired'[i] PROVE proc'[Poller(e.job)] = Idle
      <3>1. e \in expired[i] /\ e.job # l
        BY DEF Unused
      <3> QED  BY <1>5, <3>1, ExpiredJobs DEF Owned, ExpiredIsOrphan
    <2> QED  BY <2>1, <2>2 DEF ExpiredIsOrphan
  <1>6. ASSUME ~ Outages, NEW j \in Job PROVE HasItsRow(j)'
    <2>1. CASE j = l
      BY <1>1, <1>2, <1>3, <2>1 DEF HasItsRow
    <2>2. CASE j # l
      <3>1. SUFFICES ASSUME proc'[Poller(j)] # Idle, ~ Cancelled(j)'
                     PROVE  row'[j] # NoRow /\ row'[j].node = proc'[Poller(j)].node
        BY DEF HasItsRow
      <3>2. /\ proc[Poller(j)] # Idle /\ ~ Cancelled(j)
            /\ proc'[Poller(j)].node = proc[Poller(j)].node
        BY <2>2, <3>1
      <3>3. row[j] # NoRow /\ row[j].node = proc[Poller(j)].node
        BY <1>6, <3>2 DEF Owned, HasItsRow
      <3> QED  BY <1>1, <2>2, <3>2, <3>3
    <2> QED  BY <2>1, <2>2
  <1> QED  BY <1>4, <1>5, <1>6 DEF Owned

(* Goroutines go round their loops, and rows are renewed or marked. *)
LEMMA OwnedRuns ==
  ASSUME IInv, IInv', Owned, UNCHANGED <<cancelSends, expired>>,
         \A j \in Job :
           LET p == proc[Poller(j)]
           IN  /\ p'.node = p.node
               /\ p'.at = "idle" <=> p.at = "idle"
               /\ p'.at = "stop" <=> p.at = "stop",
         \A j \in Job : /\ row'[j] = NoRow <=> row[j] = NoRow
                        /\ row'[j].node = row[j].node
                        /\ row'[j].fresh \/ ~ row[j].fresh
  PROVE  Owned'
  <1>1. ASSUME NEW j \in Job
        PROVE  /\ proc[Poller(j)] = Idle <=> proc'[Poller(j)] = Idle
               /\ Cancelled(j)' <=> Cancelled(j)
    <2>1. Placed(proc[Poller(j)]) /\ Placed(proc[Poller(j)])'
      BY Processes DEF IInv
    <2> QED  BY <2>1 DEF Placed, Idle, Cancelled, At
  <1> QED  BY <1>1, OwnedStays

LEMMA OwnedLoops ==
  ASSUME IInv, IInv', Owned,
         \/ \E h \in Handler, i \in Instance, n \in Node, u \in Updates :
              CompUpdate(h, i, n, u[1], u[2])
         \/ \E p \in Process : StartFail(p) \/ (Cancel(p) /\ Listed(p) = NoJob)
         \/ \E j \in Job : PollOff(j) \/ PollUpdate(j) \/ PollError(j) \/ KeepJobAlive(j)
  PROVE  Owned'
  <1>1. ASSUME NEW p \in Process, NEW q, proc' = [proc EXCEPT ![p] = q],
               \A j \in Job : p = Poller(j) => /\ q.node = proc[p].node
                                               /\ q.at \in {"run", "off", "cancel"}
                                               /\ proc[p].at \in {"run", "off", "cancel"},
               UNCHANGED <<cancelSends, expired>>,
               \A j \in Job : /\ row'[j] = NoRow <=> row[j] = NoRow
                              /\ row'[j].node = row[j].node
                              /\ row'[j].fresh \/ ~ row[j].fresh
        PROVE  Owned'
    <2>1. \A j \in Job : proc'[Poller(j)] = IF Poller(j) = p THEN q ELSE proc[Poller(j)]
      BY <1>1, Processes DEF IInv, TypeOK
    <2> QED  BY <1>1, <2>1, OwnedRuns
  <1>2. ASSUME NEW h \in Handler, NEW i \in Instance, NEW n \in Node, NEW u \in Updates,
               CompUpdate(h, i, n, u[1], u[2])
        PROVE  Owned'
    <2>1. \A j : Request(h) # Poller(j)
      BY Distinct
    <2> QED  BY <1>1, <1>2, <2>1, Processes DEF CompUpdate
  <1>3. ASSUME NEW p \in Process, StartFail(p) PROVE Owned'
    <2>1. \A j \in Job : p # Poller(j)
      BY <1>3 DEF StartFail, At, IInv, Paired
    <2> QED  BY <1>1, <1>3, <2>1 DEF StartFail
  <1>4. ASSUME NEW p \in Process, Cancel(p), Listed(p) = NoJob PROVE Owned'
    <2>1. \A j \in Job : p = Poller(j) => Returned(p).at = "run" /\ Returned(p).node = proc[p].node
      BY <1>4, ReturnedType DEF Cancel, At
    <2>2. proc' = [proc EXCEPT ![p] = Returned(p)] /\ UNCHANGED <<row, cancelSends, expired>>
      BY <1>4 DEF Cancel
    <2>3. proc[p].at = "cancel"
      BY <1>4 DEF Cancel, At
    <2> QED  BY <1>1, <2>1, <2>2, <2>3
  <1>5. ASSUME NEW j \in Job, PollOff(j) \/ PollUpdate(j) \/ KeepJobAlive(j) PROVE Owned'
    <2>1. PICK p \in {Poller(j), KeepAlive(j)}, s \in {"run", "off", "cancel"} :
            /\ proc' = [proc EXCEPT ![p].at = s] \/ proc' = proc
            /\ p = Poller(j) => proc[p].at \in {"run", "off"}
      BY <1>5 DEF PollOff, PollUpdate, KeepJobAlive, Goto, At
    <2>2. p \in Process /\ proc[p] \in Proc
      BY Processes DEF IInv, TypeOK
    <2>3. UNCHANGED <<cancelSends, expired>>
      BY <1>5 DEF PollOff, PollUpdate, KeepJobAlive
    <2>4. \/ row' = row
          \/ row' = [row EXCEPT ![j] = IF @ = NoRow THEN @ ELSE [@ EXCEPT !.complete = TRUE]]
          \/ row' = [row EXCEPT ![j] = IF @ = NoRow THEN @ ELSE [@ EXCEPT !.fresh = TRUE]]
      BY <1>5 DEF PollOff, PollUpdate, KeepJobAlive
    <2>5. row[j] # NoRow => row[j] \in Row
      BY DEF IInv, TypeOK
    <2>6. row[j] # NoRow =>
            /\ [row[j] EXCEPT !.complete = TRUE].node = row[j].node
            /\ [row[j] EXCEPT !.complete = TRUE].fresh = row[j].fresh
            /\ [row[j] EXCEPT !.fresh = TRUE].node = row[j].node
            /\ [row[j] EXCEPT !.fresh = TRUE].fresh = TRUE
            /\ [row[j] EXCEPT !.complete = TRUE] # NoRow
            /\ [row[j] EXCEPT !.fresh = TRUE] # NoRow
      BY <2>5, NoRowType DEF Row
    <2>7. \A l \in Job : /\ row'[l] = NoRow <=> row[l] = NoRow
                         /\ row'[l].node = row[l].node
                         /\ row'[l].fresh \/ ~ row[l].fresh
      BY <2>4, <2>6 DEF IInv, TypeOK
    <2>8. PICK q : q = [proc[p] EXCEPT !.at = s]
      OBVIOUS
    <2>9. q.at = s /\ q.node = proc[p].node
      BY <2>2, <2>8 DEF Proc
    <2>10. \A l \in Job : KeepAlive(j) # Poller(l) /\ (Poller(l) = Poller(j) => l = j)
      BY Distinct
    <2>11. CASE proc' = proc
      BY <2>3, <2>7, <2>11, OwnedRuns
    <2>12. CASE proc' = [proc EXCEPT ![p].at = s]
      <3>1. proc' = [proc EXCEPT ![p] = q]
        BY <2>8, <2>12
      <3> QED  BY <1>1, <2>1, <2>2, <2>3, <2>7, <2>9, <2>10, <3>1
    <2> QED  BY <2>1, <2>11, <2>12
  <1>6. ASSUME NEW j \in Job, PollError(j) PROVE Owned'
    <2>1. row[j] \in Row /\ row[j] # NoRow /\ At(Poller(j), "run")
      BY <1>6, NoRowType DEF PollError, IInv, TypeOK
    <2>2. /\ [row[j] EXCEPT !.complete = FALSE].node = row[j].node
          /\ [row[j] EXCEPT !.complete = FALSE].fresh = row[j].fresh
      BY <2>1 DEF Row
    <2>3. /\ UNCHANGED <<proc, cancelSends, expired>>
          /\ row' = [row EXCEPT ![j].complete = FALSE]
      BY <1>6 DEF PollError
    <2>4. \A l \in Job : /\ row'[l].node = row[l].node /\ row'[l].fresh = row[l].fresh
                         /\ row'[l] # NoRow => row[l] # NoRow
                         /\ l # j => row'[l] = row[l]
      BY <2>1, <2>2, <2>3 DEF IInv, TypeOK
    <2>5. ~ Outages => row'[j] # NoRow
      <3>1. proc[Poller(j)] # Idle
        BY <2>1 DEF At, Idle
      <3>2. ~ Outages => row[j].fresh
        BY <2>1, <3>1 DEF Owned, ExpiredIsOrphan
      <3> QED  BY <2>4, <3>2, NoRowType
    <2>6. \A l \in Job : Cancelled(l)' <=> Cancelled(l)
      BY <2>3 DEF Cancelled, At
    <2> QED  BY <2>3, <2>4, <2>5, <2>6, OwnedStays
  <1> QED  BY <1>2, <1>3, <1>4, <1>5, <1>6

(* A job is cancelled: it loses its row as it is sent the cancel. *)
LEMMA OwnedCancel ==
  ASSUME IInv, IInv', Owned, NEW p \in Process, Cancel(p), Listed(p) # NoJob
  PROVE  Owned'
  <1> DEFINE l == Listed(p)
             q == Returned(p)
  <1>1. proc[p].at = "cancel" /\ proc[p].inst \in Instance /\ proc[p].node \in Node
    BY DEF Cancel, At, IInv, Placed
  <1>2. l \in Job /\ cancelSends[l] = 0
    BY <1>1, ListedJob DEF Listed
  <1>3. \A j \in Job : p = Poller(j) => q.at = "run" /\ q.node = proc[p].node
    BY <1>1, ReturnedType
  <1>4. /\ proc' = [proc EXCEPT ![p] = q]
        /\ cancelSends' = [cancelSends EXCEPT ![l] = @ + 1]
        /\ row' = [row EXCEPT ![l] = NoRow]
        /\ UNCHANGED expired
    BY DEF Cancel
  <1> HIDE DEF l, q
  <1>5. /\ cancelSends'[l] = 1
        /\ \A j \in Job : j # l => cancelSends'[j] = cancelSends[j] /\ row'[j] = row[j]
        /\ row'[l] = NoRow
        /\ \A j \in Job : proc'[Poller(j)] = IF Poller(j) = p THEN q ELSE proc[Poller(j)]
    BY <1>2, <1>4, Processes DEF IInv, TypeOK
  <1>6. ASSUME NEW j \in Job PROVE proc[Poller(j)] = Idle => proc'[Poller(j)] = Idle
    BY <1>1, <1>5 DEF Idle
  <1>7. ASSUME NEW j \in Job, ~ Cancelled(j)'
        PROVE  j # l /\ ~ Cancelled(j) /\ proc'[Poller(j)].node = proc[Poller(j)].node
    <2>1. j # l
      BY <1>5, <1>7 DEF Cancelled
    <2>2. proc'[Poller(j)].at = "stop" <=> proc[Poller(j)].at = "stop"
      BY <1>1, <1>3, <1>5
    <2> QED  BY <1>1, <1>3, <1>5, <1>7, <2>1, <2>2 DEF Cancelled, At
  <1> QED  BY <1>4, <1>5, <1>6, <1>7, OwnedStays

(* The goroutines of a job end, which has been cancelled. *)
LEMMA OwnedEnd ==
  ASSUME IInv, IInv', Owned, NEW j \in Job, Receive(j) \/ Stop(j)
  PROVE  Owned'
  <1>1. UNCHANGED <<row, expired>>
    BY DEF Receive, Stop
  <1>2. Cancelled(j) /\ proc[Poller(j)] # Idle
    BY DEF Receive, Stop, Cancelled, At, Idle
  <1>3. proc'[Poller(j)] = Idle \/ Cancelled(j)'
    <2>1. CASE Stop(j)
      <3>1. Poller(j) # KeepAlive(j)
        BY Distinct
      <3> QED  BY <2>1, <3>1, Processes DEF Stop, IInv, TypeOK
    <2>2. CASE Receive(j)
      <3>1. proc[Poller(j)] \in Proc /\ Poller(j) \in Process
        BY Processes DEF IInv, TypeOK
      <3>2. proc'[Poller(j)].at = "stop"
        BY <2>2, <3>1 DEF Receive, Goto, Proc, IInv, TypeOK
      <3> QED  BY <3>2 DEF Cancelled, At
    <2> QED  BY <2>1, <2>2
  <1>4. ASSUME NEW l \in Job, l # j
        PROVE  proc'[Poller(l)] = proc[Poller(l)] /\ cancelSends'[l] = cancelSends[l]
    BY <1>4, Processes, Distinct DEF Receive, Stop, Goto, IInv, TypeOK
  <1>5. ASSUME NEW l \in Job
        PROVE  /\ proc[Poller(l)] = Idle => proc'[Poller(l)] = Idle
               /\ proc'[Poller(l)] # Idle /\ ~ Cancelled(l)' =>
                    proc'[Poller(l)].node = proc[Poller(l)].node /\ ~ Cancelled(l)
    BY <1>2, <1>3, <1>4 DEF Cancelled, At
  <1> QED  BY <1>1, <1>5, OwnedStays

(* JobSync reads what has expired, and deletes one of these rows; a row    *)
(* expires that nobody renews.                                             *)
LEMMA OwnedSync ==
  ASSUME IInv, IInv', Owned,
         \/ \E i \in Instance : SyncRead(i) \/ \E e \in expired[i] : SyncJob(i, e)
         \/ \E j \in Job : Expire(j)
  PROVE  Owned'
  <1>1. ASSUME UNCHANGED cancelSends, \A j \in Job : proc'[Poller(j)] = proc[Poller(j)]
        PROVE  \A j \in Job : Cancelled(j)' <=> Cancelled(j)
    BY <1>1 DEF Cancelled, At
  <1>2. ASSUME NEW i \in Instance, SyncRead(i) PROVE Owned'
    <2>1. UNCHANGED <<proc, row, cancelSends>>
      BY <1>2 DEF SyncRead
    <2>2. \A k \in Instance : \A e \in expired'[k] :
            e \in expired[k] \/ (row[e.job] # NoRow /\ ~ row[e.job].fresh)
      BY <1>2 DEF SyncRead, IInv, TypeOK
    <2> QED  BY <1>1, <2>1, <2>2, OwnedStays
  <1>3. ASSUME NEW i \in Instance, NEW e \in expired[i], SyncJob(i, e) PROVE Owned'
    <2>1. /\ row' = [row EXCEPT ![e.job] = NoRow] /\ UNCHANGED cancelSends
          /\ expired' = [expired EXCEPT ![i] = @ \ {e}]
          /\ \/ proc' = proc
             \/ proc' = [proc EXCEPT ![Sync(i)] = [at |-> "start", inst |-> i, node |-> e.node]]
      BY <1>3 DEF SyncJob, Remake
    <2>2. \A j \in Job : proc'[Poller(j)] = proc[Poller(j)]
      <3>1. PICK q : proc' = proc \/ proc' = [proc EXCEPT ![Sync(i)] = q]
        BY <2>1
      <3>2. \A j \in Job : Poller(j) # Sync(i)
        BY Distinct
      <3> QED  BY <3>1, <3>2, Processes DEF IInv, TypeOK
    <2>3. \A j \in Job : row'[j] = IF j = e.job THEN NoRow ELSE row[j]
      BY <2>1 DEF IInv, TypeOK
    <2>4. \A k \in Instance : expired'[k] \subseteq expired[k]
      BY <2>1 DEF IInv, TypeOK
    <2>5. ~ Outages => proc[Poller(e.job)] = Idle
      BY DEF Owned, ExpiredIsOrphan
    <2> QED  BY <1>1, <2>1, <2>2, <2>3, <2>4, <2>5, OwnedStays
  <1>4. ASSUME NEW j \in Job, Expire(j) PROVE Owned'
    <2>1. UNCHANGED <<proc, cancelSends, expired>> /\ row' = [row EXCEPT ![j].fresh = FALSE]
      BY <1>4 DEF Expire
    <2>2. row[j] \in Row /\ row[j] # NoRow
      BY <1>4, NoRowType DEF Expire, IInv, TypeOK
    <2>3. [row[j] EXCEPT !.fresh = FALSE].node = row[j].node
      BY <2>2 DEF Row
    <2>4. \A l \in Job : /\ row'[l] # NoRow => row[l] # NoRow /\ row'[l].node = row[l].node
                         /\ l # j => row'[l] = row[l]
      BY <2>1, <2>2, <2>3 DEF IInv, TypeOK
    <2>5. ~ Outages => proc[Poller(j)] = Idle
      BY <1>4 DEF Expire, Orphan
    <2> QED  BY <1>1, <2>1, <2>4, <2>5, OwnedStays
  <1> QED  BY <1>2, <1>3, <1>4

(* A job is started, for a node that no row is of. *)
LEMMA OwnedStart ==
  ASSUME IInv, Owned, NEW p \in Process, Start(p)
  PROVE  Owned'
  <1> DEFINE n == proc[p].node
             l == NewJob
             run == [at |-> "run", inst |-> proc[p].inst, node |-> n]
             q == Returned(p)
  <1>1. /\ At(p, "start") /\ ~ HasRow(n)
        /\ row' = [row EXCEPT ![l] = Inserted(n)]
        /\ proc' = [proc EXCEPT ![p] = q, ![Poller(l)] = run, ![KeepAlive(l)] = run]
        /\ UNCHANGED <<cancelSends, expired>>
    BY DEF Start
  <1>2. l \in Job /\ Unused(l) /\ n \in Node
    BY <1>1, NewJobUnused DEF Start, At, IInv, Placed
  <1>3. \A j \in Job : p # Poller(j)
    BY <1>1 DEF At, IInv, Paired
  <1>4. run.node = n
    OBVIOUS
  <1> HIDE DEF l, q, run, n
  <1>5. /\ proc'[Poller(l)] = run
        /\ \A j \in Job \ {l} : proc'[Poller(j)] = proc[Poller(j)]
    BY <1>1, <1>2, <1>3, Processes, Distinct DEF IInv, TypeOK
  <1>6. \A j \in Job \ {l} : Cancelled(j)' <=> Cancelled(j)
    BY <1>1, <1>5 DEF Cancelled, At
  <1> QED  BY <1>1, <1>2, <1>4, <1>5, <1>6, OwnedAdds

(* The pollers of an instance die with it; a row may have been inserted. *)
LEMMA OwnedCrash ==
  ASSUME IInv, IInv', Owned, NEW i \in Instance, Crash(i)
  PROVE  Owned'
  <1>1. \A r \in Process : proc'[r] = IF proc[r].inst = i THEN Idle ELSE proc[r]
    BY DEF Crash, IInv, TypeOK
  <1>2. \A j \in Job : cancelSends'[j] = IF proc[Poller(j)].inst = i THEN 0 ELSE cancelSends[j]
    BY Processes DEF Crash, IInv, TypeOK
  <1>3. \A k \in Instance : expired'[k] \subseteq expired[k]
    BY DEF Crash, IInv, TypeOK
  <1>4. ASSUME NEW j \in Job
        PROVE  /\ proc[Poller(j)] = Idle => proc'[Poller(j)] = Idle
               /\ proc'[Poller(j)] # Idle /\ ~ Cancelled(j)' =>
                    proc'[Poller(j)].node = proc[Poller(j)].node /\ ~ Cancelled(j)
    BY <1>1, <1>2, Processes DEF Cancelled, At
  <1>5. CASE UNCHANGED row
    BY <1>3, <1>4, <1>5, OwnedStays
  <1>6. CASE ~ UNCHANGED row
    <2>1. PICK r \in Process :
            /\ At(r, "start") /\ ~ HasRow(proc[r].node)
            /\ row' = [row EXCEPT ![NewJob] = Inserted(proc[r].node)]
            /\ \E j \in Job : Unused(j)
      BY <1>6 DEF Crash
    <2>2. NewJob \in Job /\ Unused(NewJob) /\ proc[r].node \in Node
      BY <2>1, NewJobUnused DEF At, IInv, Placed
    <2>3. proc'[Poller(NewJob)] = Idle
      BY <1>4, <2>2 DEF Unused
    <2> HIDE DEF NewJob
    <2> DEFINE l == NewJob
               n == proc[r].node
    <2>4. l \in Job /\ Unused(l) /\ n \in Node /\ ~ HasRow(n) /\ proc'[Poller(l)] = Idle
          /\ row' = [row EXCEPT ![l] = Inserted(n)]
      BY <2>1, <2>2, <2>3
    <2> HIDE DEF l, n
    <2> QED  BY <1>3, <1>4, <2>4, OwnedAdds
  <1> QED  BY <1>5, <1>6

(* A node is never polled by two jobs that go on, of whichever instances   *)
(* and however started, as long as none is cut off from the database       *)
(* (doStateRFPoll, JobSync).                                               *)
THEOREM PolledByOne == Spec => []PolledOnce
  <1>1. Init => Owned
    <2> SUFFICES ASSUME Init PROVE Owned
      OBVIOUS
    <2>1. \A j \in Job : row[j] = NoRow /\ proc[Poller(j)] = Idle
      BY Processes DEF Init
    <2>2. \A i \in Instance : expired[i] = {}
      BY DEF Init
    <2> QED  BY <2>1, <2>2 DEF Owned, RowsApart, ExpiredIsOrphan, HasItsRow
  <1>2. IInv /\ IInv' /\ Owned /\ [Next]_vars => Owned'
    <2> SUFFICES ASSUME IInv, IInv', Owned, [Next]_vars PROVE Owned'
      OBVIOUS
    <2>1. CASE UNCHANGED vars
      BY <2>1 DEF vars, Owned, RowsApart, ExpiredIsOrphan, HasItsRow, Cancelled, At
    <2>2. ASSUME NEW p \in Process, JobStep(p) PROVE Owned'
      BY <2>2, OwnedStart, OwnedLoops, OwnedCancel DEF JobStep
    <2>3. ASSUME NEW i \in Instance, SyncStep(i) \/ Crash(i) PROVE Owned'
      BY <2>3, OwnedSync, OwnedCrash DEF SyncStep
    <2> QED  BY <2>1, <2>2, <2>3, OwnedLoops, OwnedEnd, OwnedSync DEF Next
  <1>3. IInv /\ Owned => PolledOnce
    <2> SUFFICES ASSUME IInv, Owned, ~ Outages, NEW n \in Node, NEW j \in Job, NEW l \in Job,
                        Polls(j, n), Polls(l, n)
                 PROVE  j = l
      BY DEF PolledOnce
    <2>1. n # Nowhere
      BY PollingAssumption
    <2>2. row[j] # NoRow /\ row[j].node = n /\ row[l] # NoRow /\ row[l].node = n
      BY <2>1 DEF Polls, Owned, HasItsRow, Idle
    <2> QED  BY <2>2 DEF Owned, RowsApart
  <1> QED  BY <1>1, <1>2, <1>3, InvCorrect, PTL DEF Spec
===============================================================================
