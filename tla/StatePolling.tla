----------------------------- MODULE StatePolling -----------------------------
(***************************************************************************)
(* Node states and the jobs that poll Redfish for nodes in Standby         *)
(* (cmd/smd/state-change.go, JobSync in cmd/smd/smd.go).                   *)
(*                                                                         *)
(* An update of a node's state commits first; only then does its handler   *)
(* start or cancel the polling job, in memory and in the job_sync table;   *)
(* it holds jobLock meanwhile, so each of the two is one step here.  A job *)
(* is two goroutines, the poller and its keep alive, which stop over       *)
(* unbuffered channels.  The instances of HSM share the database, and take *)
(* over jobs whose rows have expired.                                      *)
(***************************************************************************)
EXTENDS Integers, FiniteSets

CONSTANTS
  Node,         \* components of type Node
  Instance,     \* running instances of HSM
  Handler,      \* requests and Redfish events handled at the same time
  Job,          \* job ids: a bound on jobs that exist at the same time
  NoJob,        \* no job
  Nowhere,      \* of a goroutine that does not run
  Updates,      \* the <<state, flag>> pairs that updates ask for
  Outages,      \* may the database fail a running instance for a while?
  MaxUpdates,   \* bound on the model: updates that change something
  MaxCrashes    \* bound on the model: crashes of instances

HmsState == {"On", "Off", "Standby", "Ready", "Halt"}
HmsFlag == {"OK", "Warning", "Alert"}

ASSUME PollingAssumption ==
  /\ NoJob \notin Job
  /\ Nowhere \notin Instance \cup Node
  /\ Updates \subseteq HmsState \X HmsFlag
  /\ Outages \in BOOLEAN
  /\ MaxUpdates \in Nat /\ MaxCrashes \in Nat

(* A goroutine: a request handler, a job's poller or keep alive, or the    *)
(* JobSync thread of an instance.                                          *)
Request(h) == <<"request", h>>
Poller(j) == <<"poller", j>>
KeepAlive(j) == <<"keepalive", j>>
Sync(i) == <<"sync", i>>
Process == {Request(h) : h \in Handler} \cup {Poller(j) : j \in Job}
             \cup {KeepAlive(j) : j \in Job} \cup {Sync(i) : i \in Instance}

VARIABLES
  state, flag,     \* the components table
  row,             \* job_sync: the job's row
  srfpJobList,     \* per instance: the job listed for a node
  cancelSends,     \* per job: goroutines that send on its cancelChan
  proc,            \* what each goroutine is doing
  expired,         \* per instance: what JobSync has left of the answer of GetJobs
  updates, crashes

nodeVars == <<state, flag>>
bounds == <<updates, crashes>>
vars == <<nodeVars, row, srfpJobList, cancelSends, proc, expired, bounds>>

(* A row: is it younger than its lifetime, and is it marked complete? *)
NoRow == [node |-> "none", fresh |-> FALSE, complete |-> FALSE]
Row == [node : Node, fresh : BOOLEAN, complete : BOOLEAN]

Step == {"idle", "run", "off", "start", "cancel", "stop"}
Idle == [at |-> "idle", inst |-> Nowhere, node |-> Nowhere]
Proc == [at : Step, inst : Instance \cup {Nowhere}, node : Node \cup {Nowhere}]

TypeOK ==
  /\ state \in [Node -> HmsState]
  /\ flag \in [Node -> HmsFlag]
  /\ row \in [Job -> Row \cup {NoRow}]
  /\ srfpJobList \in [Instance -> [Node -> Job \cup {NoJob}]]
  /\ cancelSends \in [Job -> 0 .. 1]
  /\ proc \in [Process -> Proc]
  /\ expired \in [Instance -> SUBSET [job : Job, node : Node, complete : BOOLEAN]]
  /\ updates \in 0 .. MaxUpdates
  /\ crashes \in 0 .. MaxCrashes

Init ==
  /\ state = [n \in Node |-> "Ready"]
  /\ flag = [n \in Node |-> "OK"]
  /\ row = [j \in Job |-> NoRow]
  /\ srfpJobList = [i \in Instance |-> [n \in Node |-> NoJob]]
  /\ cancelSends = [j \in Job |-> 0]
  /\ proc = [p \in Process |-> Idle]
  /\ expired = [i \in Instance |-> {}]
  /\ updates = 0
  /\ crashes = 0

-------------------------------------------------------------------------------
At(p, s) == proc[p].at = s
Goto(p, s) == proc' = [proc EXCEPT ![p].at = s]

(* A goroutine that has come back from doStateRFPoll or cancelStateRFPoll: *)
(* pollers and keep alives go on with their loops.                         *)
Returned(p) ==
  IF p[1] \in {"poller", "keepalive"} THEN [proc[p] EXCEPT !.at = "run"] ELSE Idle

(* A job id that stands for a fresh one: no row and no goroutine has it. *)
Unused(j) ==
  /\ row[j] = NoRow
  /\ proc[Poller(j)] = Idle /\ proc[KeepAlive(j)] = Idle
  /\ \A i \in Instance : \A e \in expired[i] : e.job # j

HasRow(n) == \E j \in Job : row[j].node = n

NewJob == CHOOSE j \in Job : Unused(j)
Inserted(n) == [node |-> n, fresh |-> TRUE, complete |-> FALSE]

(* States that an update may start from without force. *)
ValidStartStates(s) ==
  CASE s = "Off" -> {"Off", "On", "Standby", "Halt", "Ready"}
    [] s = "On" -> {"On", "Off", "Standby", "Halt"}
    [] s = "Standby" -> {"Standby", "Ready"}
    [] s = "Halt" -> {"Halt", "Ready"}
    [] s = "Ready" -> {"Ready", "On", "Off", "Standby", "Halt"}

(* Ready with a warning is only for nodes that are Ready. *)
StartStates(s, f) ==
  IF s = "Ready" /\ f = "Warning" THEN {"Ready"} ELSE ValidStartStates(s)

(* UpdateCompStates for one id: a single UPDATE with the conditions in its *)
(* WHERE clause.  It affects the node only if state or flag would change.  *)
Affects(n, s, f) ==
  /\ state[n] \in StartStates(s, f)
  /\ state[n] # s \/ flag[n] # f

(* What the handler does once the update has committed. *)
FollowUp(s) == IF s = "Standby" THEN "start" ELSE "cancel"

(* A state data update by a request or a Redfish event, on any instance:   *)
(* the database part of doCompUpdate.                                      *)
CompUpdate(h, i, n, s, f) ==
  /\ At(Request(h), "idle")
  /\ Affects(n, s, f)
  /\ updates < MaxUpdates
  /\ updates' = updates + 1
  /\ state' = [state EXCEPT ![n] = s]
  /\ flag' = [flag EXCEPT ![n] = f]
  /\ proc' = [proc EXCEPT ![Request(h)] =
                [at |-> FollowUp(s), inst |-> i, node |-> n]]
  /\ UNCHANGED <<row, srfpJobList, cancelSends, expired, crashes>>

-------------------------------------------------------------------------------
(* Mutant of Start: the job is run though its row could not be inserted. *)
StartAnyway(p) ==
  LET n == proc[p].node
      run == [at |-> "run", inst |-> proc[p].inst, node |-> n]
  IN  /\ At(p, "start")
      /\ \E j \in Job : Unused(j)
      /\ row' = IF HasRow(n) THEN row ELSE [row EXCEPT ![NewJob] = Inserted(n)]
      /\ srfpJobList' = [srfpJobList EXCEPT ![run.inst][n] = NewJob]
      /\ proc' = [proc EXCEPT ![p] = Returned(p), ![Poller(NewJob)] = run,
                              ![KeepAlive(NewJob)] = run]
      /\ UNCHANGED <<nodeVars, cancelSends, expired, bounds>>

(* doStateRFPoll: the row is inserted, the job listed and run.  The primary *)
(* key of job_state_rf_poll allows one row per node; a job without a row    *)
(* that is still listed is overwritten.                                     *)
Start(p) ==
  LET n == proc[p].node
      run == [at |-> "run", inst |-> proc[p].inst, node |-> n]
  IN  /\ At(p, "start")
      /\ ~ HasRow(n) /\ \E j \in Job : Unused(j)
      /\ row' = [row EXCEPT ![NewJob] = Inserted(n)]
      /\ srfpJobList' = [srfpJobList EXCEPT ![run.inst][n] = NewJob]
      /\ proc' = [proc EXCEPT ![p] = Returned(p), ![Poller(NewJob)] = run,
                              ![KeepAlive(NewJob)] = run]
      /\ UNCHANGED <<nodeVars, cancelSends, expired, bounds>>

(* InsertJob fails: there will be no new job. *)
StartFail(p) ==
  /\ At(p, "start")
  /\ HasRow(proc[p].node) \/ Outages
  /\ proc' = [proc EXCEPT ![p] = Returned(p)]
  /\ UNCHANGED <<nodeVars, row, srfpJobList, cancelSends, expired, bounds>>

Listed(p) == srfpJobList[proc[p].inst][proc[p].node]

(* Mutant of Cancel: the caller itself sends on cancelChan and waits for   *)
(* the poller.                                                             *)
CancelWaits(p) ==
  LET j == Listed(p)
  IN  /\ At(p, "cancel")
      /\ \/ /\ j = NoJob
            /\ proc' = [proc EXCEPT ![p] = Returned(p)]
            /\ UNCHANGED <<row, srfpJobList>>
         \/ /\ j # NoJob /\ At(Poller(j), "run")
            /\ row' = [row EXCEPT ![j] = NoRow]
            /\ srfpJobList' = [srfpJobList EXCEPT ![proc[p].inst][proc[p].node] = NoJob]
            /\ proc' = [proc EXCEPT ![p] = Returned(p), ![Poller(j)].at = "stop"]
      /\ UNCHANGED <<nodeVars, cancelSends, expired, bounds>>

(* Mutant of Cancel: the job stays listed. *)
CancelListed(p) ==
  LET j == Listed(p)
  IN  /\ At(p, "cancel")
      /\ proc' = [proc EXCEPT ![p] = Returned(p)]
      /\ IF j = NoJob
         THEN UNCHANGED <<row, cancelSends>>
         ELSE /\ cancelSends' = [cancelSends EXCEPT ![j] = @ + 1]
              /\ row' = [row EXCEPT ![j] = NoRow]
      /\ UNCHANGED <<nodeVars, srfpJobList, expired, bounds>>

(* cancelStateRFPoll: a goroutine is spawned to send on cancelChan, so     *)
(* that the poller can itself be the one who cancels; the row is deleted   *)
(* and the job no longer listed.                                           *)
Cancel(p) ==
  LET j == Listed(p)
  IN  /\ At(p, "cancel")
      /\ proc' = [proc EXCEPT ![p] = Returned(p)]
      /\ IF j = NoJob
         THEN UNCHANGED <<row, srfpJobList, cancelSends>>
         ELSE /\ cancelSends' = [cancelSends EXCEPT ![j] = @ + 1]
              /\ row' = [row EXCEPT ![j] = NoRow]
              /\ srfpJobList' = [srfpJobList EXCEPT ![proc[p].inst][proc[p].node] = NoJob]
      /\ UNCHANGED <<nodeVars, expired, bounds>>

-------------------------------------------------------------------------------
(* doPollRFState *)

(* Redfish says off, which it may do of a node in any state by now: the    *)
(* job is marked complete, the update comes next.                          *)
PollOff(j) ==
  LET p == Poller(j)
  IN  /\ At(p, "run")
      /\ row' = [row EXCEPT ![j] = IF @ = NoRow THEN @ ELSE [@ EXCEPT !.complete = TRUE]]
      /\ Goto(p, "off")
      /\ UNCHANGED <<nodeVars, srfpJobList, cancelSends, expired, bounds>>

(* doCompUpdate by the poller: nothing restricts it to nodes in Standby. *)
PollUpdate(j) ==
  LET p == Poller(j)
      n == proc[p].node
  IN  /\ At(p, "off")
      /\ IF Affects(n, "Off", "OK")
         THEN /\ state' = [state EXCEPT ![n] = "Off"]
              /\ flag' = [flag EXCEPT ![n] = "OK"]
              /\ Goto(p, "cancel")
         ELSE /\ Goto(p, "run")
              /\ UNCHANGED <<state, flag>>
      /\ UNCHANGED <<row, srfpJobList, cancelSends, expired, bounds>>

(* The poll fails: the job is in error, and no longer complete. *)
PollError(j) ==
  /\ At(Poller(j), "run")
  /\ row[j].complete
  /\ row' = [row EXCEPT ![j].complete = FALSE]
  /\ UNCHANGED <<nodeVars, srfpJobList, cancelSends, proc, expired, bounds>>

(* The poller takes the cancel, and then waits for its keep alive. *)
Receive(j) ==
  /\ At(Poller(j), "run")
  /\ cancelSends[j] > 0
  /\ cancelSends' = [cancelSends EXCEPT ![j] = @ - 1]
  /\ Goto(Poller(j), "stop")
  /\ UNCHANGED <<nodeVars, row, srfpJobList, expired, bounds>>

(* The stop is sent on kaStopChan: both goroutines end. *)
Stop(j) ==
  /\ At(Poller(j), "stop") /\ At(KeepAlive(j), "run")
  /\ proc' = [proc EXCEPT ![Poller(j)] = Idle, ![KeepAlive(j)] = Idle]
  /\ UNCHANGED <<nodeVars, row, srfpJobList, cancelSends, expired, bounds>>

(* Mutant of KeepJobAlive: it leaves cancelling to the handlers. *)
RenewOnly(j) ==
  /\ At(KeepAlive(j), "run")
  /\ row' = [row EXCEPT ![j] = IF @ = NoRow THEN @ ELSE [@ EXCEPT !.fresh = TRUE]]
  /\ UNCHANGED <<nodeVars, srfpJobList, cancelSends, proc, expired, bounds>>

(* doSRFPKeepAlive: the row's time is renewed while the node is in Standby; *)
(* otherwise the job that is listed for the node is cancelled.              *)
KeepJobAlive(j) ==
  LET p == KeepAlive(j)
  IN  /\ At(p, "run")
      /\ IF state[proc[p].node] = "Standby"
         THEN /\ row' = [row EXCEPT ![j] = IF @ = NoRow THEN @ ELSE [@ EXCEPT !.fresh = TRUE]]
              /\ UNCHANGED proc
         ELSE /\ Goto(p, "cancel")
              /\ UNCHANGED row
      /\ UNCHANGED <<nodeVars, srfpJobList, cancelSends, expired, bounds>>

-------------------------------------------------------------------------------
(* JobSync *)

(* GetJobs(JS_Expired). *)
SyncRead(i) ==
  LET E == {j \in Job : row[j] # NoRow /\ ~ row[j].fresh}
  IN  /\ At(Sync(i), "idle") /\ expired[i] = {} /\ E # {}
      /\ expired' = [expired EXCEPT ![i] =
            {[job |-> j, node |-> row[j].node, complete |-> row[j].complete] : j \in E}]
      /\ UNCHANGED <<nodeVars, row, srfpJobList, cancelSends, proc, bounds>>

Remake(i, e) ==
  proc' = [proc EXCEPT ![Sync(i)] = [at |-> "start", inst |-> i, node |-> e.node]]

(* Mutant of SyncJob: complete jobs are passed over. *)
SyncJobSkips(i, e) ==
  /\ At(Sync(i), "idle")
  /\ e \in expired[i]
  /\ expired' = [expired EXCEPT ![i] = @ \ {e}]
  /\ IF row[e.job] # NoRow /\ ~ e.complete
     THEN Remake(i, e) /\ row' = [row EXCEPT ![e.job] = NoRow]
     ELSE UNCHANGED <<proc, row>>
  /\ UNCHANGED <<nodeVars, srfpJobList, cancelSends, bounds>>

(* An expired job of the list is deleted and made again, unless there was  *)
(* nothing left to delete or the job was complete.                         *)
SyncJob(i, e) ==
  /\ At(Sync(i), "idle")
  /\ e \in expired[i]
  /\ expired' = [expired EXCEPT ![i] = @ \ {e}]
  /\ row' = [row EXCEPT ![e.job] = NoRow]
  /\ IF row[e.job] # NoRow /\ ~ e.complete THEN Remake(i, e) ELSE UNCHANGED proc
  /\ UNCHANGED <<nodeVars, srfpJobList, cancelSends, bounds>>

-------------------------------------------------------------------------------
(* The rest of the world *)

(* A job that nobody runs. *)
Orphan(j) == row[j] # NoRow /\ proc[Poller(j)] = Idle

(* The lifetime of a row (30 seconds) passes without a renewal (every 20   *)
(* seconds, while the node is in Standby and the database lets it).        *)
Expire(j) ==
  /\ row[j].fresh /\ (Outages \/ Orphan(j))
  /\ row' = [row EXCEPT ![j].fresh = FALSE]
  /\ UNCHANGED <<nodeVars, srfpJobList, cancelSends, proc, expired, bounds>>

(* An instance dies with all its goroutines, and starts again.  One that   *)
(* was starting a job may have inserted the row.                           *)
Crash(i) ==
  LET dead == {p \in Process : proc[p].inst = i}
  IN  /\ crashes < MaxCrashes
      /\ crashes' = crashes + 1
      /\ proc' = [p \in Process |-> IF p \in dead THEN Idle ELSE proc[p]]
      /\ cancelSends' = [j \in Job |-> IF Poller(j) \in dead THEN 0 ELSE cancelSends[j]]
      /\ srfpJobList' = [srfpJobList EXCEPT ![i] = [n \in Node |-> NoJob]]
      /\ expired' = [expired EXCEPT ![i] = {}]
      /\ \/ UNCHANGED row
         \/ /\ \E j \in Job : Unused(j)
            /\ \E p \in dead : At(p, "start") /\ ~ HasRow(proc[p].node)
                 /\ row' = [row EXCEPT ![NewJob] = Inserted(proc[p].node)]
      /\ UNCHANGED <<nodeVars, updates>>

-------------------------------------------------------------------------------
(* The steps of doStateRFPoll, cancelStateRFPoll and JobSync. *)
JobStep(p) == Start(p) \/ StartFail(p) \/ Cancel(p)
SyncStep(i) == SyncRead(i) \/ \E e \in expired[i] : SyncJob(i, e)

Next ==
  \/ \E h \in Handler, i \in Instance, n \in Node, u \in Updates :
       CompUpdate(h, i, n, u[1], u[2])
  \/ \E p \in Process : JobStep(p)
  \/ \E j \in Job :
       \/ PollOff(j) \/ PollUpdate(j) \/ PollError(j) \/ Receive(j) \/ Stop(j)
       \/ KeepJobAlive(j)
       \/ Expire(j)
  \/ \E i \in Instance : SyncStep(i) \/ Crash(i)

Spec == Init /\ [][Next]_vars

(* Goroutines run, sync.Mutex starves nobody and JobSync keeps coming      *)
(* round.  Of the cases that are ready Go selects at random, so a poller   *)
(* takes its cancel and a keep alive its stop however often a ticker is    *)
(* ready too.  A row that nobody renews expires.                           *)
Fairness ==
  /\ \A h \in Handler : WF_vars(JobStep(Request(h)))
  /\ \A i \in Instance : WF_vars(JobStep(Sync(i)) \/ SyncStep(i))
  /\ \A j \in Job : /\ WF_vars(PollUpdate(j) \/ JobStep(Poller(j)))
                    /\ WF_vars(KeepJobAlive(j) \/ JobStep(KeepAlive(j)))
                    /\ SF_vars(Receive(j) \/ Stop(j))
                    /\ WF_vars(Orphan(j) /\ Expire(j))

FairSpec == Spec /\ Fairness
-------------------------------------------------------------------------------
(* A listed job is one that runs and has not been cancelled, so a cancel   *)
(* is never sent to a goroutine that is gone, where it would wait forever. *)
ListedIsRunning ==
  \A i \in Instance, n \in Node :
    LET j == srfpJobList[i][n]
    IN  j # NoJob => /\ proc[Poller(j)].inst = i /\ proc[Poller(j)].node = n
                     /\ ~ At(Poller(j), "stop")
                     /\ cancelSends[j] = 0

(* A node is polled once: whichever requests, events and instances start   *)
(* its polling at the same time, and whoever takes it over, all but one of *)
(* its pollers have been cancelled.  (An instance that the database leaves *)
(* out for longer than a row lives goes on polling beside the one that     *)
(* took its job over.)                                                     *)
Cancelled(j) == cancelSends[j] > 0 \/ At(Poller(j), "stop")
Polls(j, n) == proc[Poller(j)].node = n /\ ~ Cancelled(j)

PolledOnce ==
  ~ Outages =>
    \A n \in Node, j, l \in Job : Polls(j, n) /\ Polls(l, n) => j = l

(* A cancel ends both goroutines of its job, and it returns even when it   *)
(* is the poller itself that has made it: nobody waits for a channel       *)
(* forever.                                                                *)
CancelEndsJob ==
  \A j \in Job :
    /\ cancelSends[j] > 0 ~> proc[Poller(j)] = Idle /\ proc[KeepAlive(j)] = Idle
    /\ At(Poller(j), "cancel") ~> ~ At(Poller(j), "cancel")

(* The row of a job whose instance has died goes: the job is taken over by *)
(* another instance or was complete.                                       *)
OrphansTakenOver ==
  \A j \in Job : Orphan(j) ~> ~ Orphan(j)

(* What doCompUpdate says it does when a node leaves Standby: its polling  *)
(* jobs are found and cancelled, those of other instances by their own     *)
(* keep alives.                                                            *)
LeavingStandbyStopsPolling ==
  \A n \in Node :
    <>[](state[n] # "Standby")
      => <>[](\A j \in Job : proc[Poller(j)].node # n)

(* What doCompUpdate says it does when a node goes to Standby: a polling   *)
(* job is started.                                                         *)
StandbyIsPolled ==
  \A n \in Node :
    <>[](state[n] = "Standby")
      => []<>(\E j \in Job : proc[Poller(j)].node = n)
===============================================================================
