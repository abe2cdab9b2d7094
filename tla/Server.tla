------------------------------- MODULE Server -------------------------------
(***************************************************************************)
(* The control plane around the scheduling protocol (internal/server and   *)
(* the Ingestor): deliveries become runs, plans are built for the jobs of  *)
(* a new run, `if:` conditions are decided, and one loop drains the queue. *)
(*                                                                         *)
(* Webhook handlers, the dispatch loop and re-requests run concurrently    *)
(* and meet only in the stores, so a run's jobs are visible to the loop    *)
(* from CreateRun on, while their conditions are decided and their plans   *)
(* stored later, one job after the other.                                  *)
(*                                                                         *)
(* An `if:` is abstracted to what it depends on:                           *)
(*   eager     "github", "never"  the event only, true resp. false         *)
(*             "broken"           does not evaluate                        *)
(*   deferred  "success", "failure", "cancelled", "always"  the functions  *)
(*             "needs"            every needed job's result is success     *)
(*             "broken needs"     does not evaluate                        *)
(***************************************************************************)
EXTENDS Scheduler

CONSTANTS
  Delivery,    \* webhook deliveries, known by their GUID
  DeliveryOf,  \* [RunID -> Delivery]: the IDs a run of the delivery may get
  Handler      \* concurrent webhook handlers

Deferred == {"success", "failure", "cancelled", "always", "needs", "broken needs"}

ASSUME ServerAssumption ==
  /\ DeliveryOf \in [RunID -> Delivery] /\ Delivery # {}
  /\ RunID \cap {"none", "recorded"} = {}
  /\ Condition \in [JobKey -> Deferred \cup {"", "github", "never", "broken"}]

VARIABLES
  receipt,   \* delivery records: "none", "recorded", or the delivery's run
  step,      \* per handler: its next call
  mail,      \* per handler: the delivery it handles
  left,      \* per handler: jobs buildPlans has still to plan
  seen,      \* per handler: the job records buildPlans listed
  ingested,  \* runs whose Ingest returned without an error
  plans,     \* jobs that have an executor plan
  copying,   \* re-requested jobs whose plan is not copied yet
  loop,      \* the dispatch loop's place in DispatchOnce
  queue,     \* queued jobs listed and not looked at yet
  batch,     \* those of the run at hand
  view,      \* the job records of the run at hand
  progress   \* whether this pass changed a job

handlerVars == <<receipt, step, mail, left, seen, ingested>>
loopVars == <<loop, queue, batch, view, progress>>
serverVars == <<vars, handlerVars, plans, copying, loopVars>>

Unread == [j \in JobRunID |-> "absent"]

ServerInit ==
  /\ Init
  /\ receipt = [d \in Delivery |-> "none"]
  /\ step = [h \in Handler |-> "idle"]
  /\ mail = [h \in Handler |-> CHOOSE d \in Delivery : TRUE]
  /\ left = [h \in Handler |-> {}]
  /\ seen = [h \in Handler |-> Unread]
  /\ ingested = {} /\ plans = {} /\ copying = {}
  /\ loop = "idle" /\ queue = {} /\ batch = {} /\ view = Unread /\ progress = FALSE

-----------------------------------------------------------------------------
(***************************************************************************)
(* Conditions.  jobConditionEnv: the status functions see the last needed  *)
(* job that has a failed or cancelled attempt, and of it the first such    *)
(* attempt; needs.<key>.result is that of the latest attempt.              *)
(***************************************************************************)
attempts(key, j, st) ==
  {n \in 1 .. MaxAttempt : /\ key \in JobKey /\ RunOf[key] = RunOfJob(j)
                           /\ st[<<key, n>>] # "absent"}

jobStatus(j, st) ==
  LET deps   == DependsOn[j[1]]
      bad(i) == {n \in attempts(deps[i], j, st) : st[<<deps[i], n>>] \in {"failed", "cancelled"}}
      last   == CHOOSE i \in DOMAIN deps : bad(i) # {} /\ \A h \in DOMAIN deps : h > i => bad(h) = {}
      first  == CHOOSE n \in bad(last) : \A m \in bad(last) : n <= m
  IN  IF \A i \in DOMAIN deps : bad(i) = {} THEN "success"
      ELSE IF st[<<deps[last], first>>] = "failed" THEN "failure" ELSE "cancelled"

needSucceeded(key, j, st) ==
  \E n \in attempts(key, j, st) :
    st[<<key, n>>] = "succeeded" /\ \A m \in attempts(key, j, st) : m <= n

Broken(j) == Condition[j[1]] \in {"broken", "broken needs"}

(***************************************************************************)
(* EvaluateCondition.  A condition that calls no status function and names *)
(* no need is taken as success() && (condition).                           *)
(***************************************************************************)
EvaluateCondition(j, st) ==
  LET cond == Condition[j[1]]
  IN  CASE cond \in {"", "always"} -> TRUE
        [] cond = "never"  -> FALSE
        [] cond = "github" -> jobStatus(j, st) = "success"
        [] cond = "needs"  -> \A i \in DOMAIN DependsOn[j[1]] :
                                needSucceeded(DependsOn[j[1]][i], j, st)
        [] OTHER           -> jobStatus(j, st) = cond

isDeferredCondition(j) == Condition[j[1]] \in Deferred

isEagerCondition(j) == Condition[j[1]] # "" /\ ~isDeferredCondition(j)

Oldest(S) == CHOOSE j \in S : \A i \in S : born[j] <= born[i]

-----------------------------------------------------------------------------
(***************************************************************************)
(* Ingestor.Ingest.  A delivery whose run is known returns at once and     *)
(* changes nothing; any other one, also a replay, goes on to the compiler. *)
(***************************************************************************)
RecordDelivery_RefusesReplay(h, d) ==
  /\ step[h] = "idle" /\ receipt[d] = "none"
  /\ receipt' = [receipt EXCEPT ![d] = "recorded"]
  /\ step' = [step EXCEPT ![h] = "compile"]
  /\ mail' = [mail EXCEPT ![h] = d]
  /\ UNCHANGED <<vars, left, seen, ingested, plans, copying, loopVars>>

RecordDelivery(h, d) ==
  /\ step[h] = "idle" /\ receipt[d] \notin RunID
  /\ receipt' = [receipt EXCEPT ![d] = "recorded"]
  /\ step' = [step EXCEPT ![h] = "compile"]
  /\ mail' = [mail EXCEPT ![h] = d]
  /\ UNCHANGED <<vars, left, seen, ingested, plans, copying, loopVars>>

RunsOf(d) == {r \in RunID : DeliveryOf[r] = d}

(***************************************************************************)
(* The compiler finds jobs, or the handler is done: no workflow matches,   *)
(* or fetching or compiling the workflows failed.                          *)
(***************************************************************************)
Compile(h) ==
  /\ step[h] = "compile" /\ RunsOf(mail[h]) # {}
  /\ step' = [step EXCEPT ![h] = "create"]
  /\ UNCHANGED <<vars, receipt, mail, left, seen, ingested, plans, copying, loopVars>>

CompileStops(h) ==
  /\ step[h] = "compile"
  /\ step' = [step EXCEPT ![h] = "idle"]
  /\ UNCHANGED <<vars, receipt, mail, left, seen, ingested, plans, copying, loopVars>>

(***************************************************************************)
(* The store's CreateRun, which looks the delivery up again, with the new  *)
(* run's ID and the jobs the compiler found.                               *)
(***************************************************************************)
NewRun(h, r) ==
  /\ CreateRun(r)
  /\ receipt' = [receipt EXCEPT ![mail[h]] = r]
  /\ step' = [step EXCEPT ![h] = "list"]

IngestRun_Blind(h) ==
  /\ step[h] = "create"
  /\ \E r \in RunsOf(mail[h]) : NewRun(h, r)
  /\ UNCHANGED <<schedVars, mail, left, seen, ingested, plans, copying, loopVars>>

IngestRun(h) ==
  /\ step[h] = "create"
  /\ IF receipt[mail[h]] \in RunID
     THEN /\ step' = [step EXCEPT ![h] = "idle"]
          /\ UNCHANGED <<storeVars, receipt>>
     ELSE \E r \in RunsOf(mail[h]) : NewRun(h, r)
  /\ UNCHANGED <<schedVars, mail, left, seen, ingested, plans, copying, loopVars>>

(***************************************************************************)
(* buildPlans compiles again, lists the run's jobs and goes through them.  *)
(* A failing compile or fetch ends it, whatever is left.                   *)
(***************************************************************************)
ListJobRuns(h) ==
  /\ step[h] = "list"
  /\ step' = [step EXCEPT ![h] = "plan"]
  /\ left' = [left EXCEPT ![h] = runJobs(receipt[mail[h]], status)]
  /\ seen' = [seen EXCEPT ![h] =
                IF \E j \in left'[h] : isEagerCondition(j) THEN status ELSE Unread]
  /\ UNCHANGED <<vars, receipt, mail, ingested, plans, copying, loopVars>>

Planned(h, j) ==
  /\ left' = [left EXCEPT ![h] = @ \ {j}]
  /\ step' = [step EXCEPT ![h] = IF left[h] = {j} THEN "idle" ELSE "plan"]
  /\ seen' = [seen EXCEPT ![h] = IF left[h] = {j} THEN Unread ELSE @]
  /\ ingested' = IF left[h] = {j} THEN ingested \cup {RunOfJob(j)} ELSE ingested

PlanJob_SkipsDeferred(h) ==
  LET j    == Oldest(left[h])
      skip == isEagerCondition(j) /\ ~EvaluateCondition(j, seen[h])
  IN  /\ step[h] = "plan" /\ Condition[j[1]] # "broken"
      /\ Planned(h, j)
      /\ IF skip
         THEN ApplyObserved(j, "skipped") /\ UNCHANGED plans
         ELSE /\ plans' = IF isDeferredCondition(j) THEN plans ELSE plans \cup {j}
              /\ UNCHANGED storeVars
      /\ UNCHANGED <<schedVars, receipt, mail, copying, loopVars>>

PlanJob(h) ==
  LET j    == Oldest(left[h])
      skip == isEagerCondition(j) /\ ~EvaluateCondition(j, seen[h])
  IN  /\ step[h] = "plan" /\ Condition[j[1]] # "broken"
      /\ Planned(h, j)
      /\ IF skip
         THEN ApplyObserved(j, "skipped") /\ UNCHANGED plans
         ELSE plans' = plans \cup {j} /\ UNCHANGED storeVars
      /\ UNCHANGED <<schedVars, receipt, mail, copying, loopVars>>

BuildPlansFails(h) ==
  /\ step[h] \in {"list", "plan"}
  /\ step' = [step EXCEPT ![h] = "idle"]
  /\ left' = [left EXCEPT ![h] = {}]
  /\ seen' = [seen EXCEPT ![h] = Unread]
  /\ UNCHANGED <<vars, receipt, mail, ingested, plans, copying, loopVars>>

-----------------------------------------------------------------------------
(***************************************************************************)
(* Server.Rerequest: the new attempt first, then a copy of the plan.       *)
(***************************************************************************)
RerequestAttempt(j) ==
  /\ \/ Rerequest(j)
     \/ j[2] < MaxAttempt /\ Exists(<<j[1], j[2] + 1>>) /\ UNCHANGED vars
  /\ copying' = copying \cup {j}
  /\ UNCHANGED <<handlerVars, plans, loopVars>>

CopyPlan_Rebuilds(j) ==
  /\ j \in copying
  /\ copying' = copying \ {j}
  /\ plans' = plans \cup {<<j[1], j[2] + 1>>}
  /\ UNCHANGED <<vars, handlerVars, loopVars>>

CopyPlan(j) ==
  /\ j \in copying
  /\ copying' = copying \ {j}
  /\ plans' = IF j \in plans THEN plans \cup {<<j[1], j[2] + 1>>} ELSE plans
  /\ UNCHANGED <<vars, handlerVars, loopVars>>

-----------------------------------------------------------------------------
(***************************************************************************)
(* DispatchOnce.  First evaluateDeferredConditions: list the queued jobs;  *)
(* run by run, read the run's jobs and decide the conditions whose needed  *)
(* jobs have all ended; start over while a pass changed something.         *)
(***************************************************************************)
ListQueuedJobs ==
  /\ loop \in {"idle", "list"}
  /\ queue' = {j \in JobRunID : status[j] = "queued"}
  /\ loop' = IF queue' = {} THEN "drain" ELSE "run"
  /\ progress' = FALSE
  /\ UNCHANGED <<vars, handlerVars, plans, copying, batch, view>>

LoadRun(r) ==
  /\ loop = "run"
  /\ \E j \in queue : RunOfJob(j) = r
  /\ batch' = {j \in queue : RunOfJob(j) = r /\ isDeferredCondition(j)}
  /\ queue' = {j \in queue : RunOfJob(j) # r}
  /\ view' = IF batch' = {} THEN Unread ELSE status  \* read for conditions only
  /\ loop' = "eval"
  /\ UNCHANGED <<vars, handlerVars, plans, copying, progress>>

depsFinal(j, st) ==
  \A i \in DOMAIN DependsOn[j[1]] :
    \A n \in attempts(DependsOn[j[1]][i], j, st) : st[<<DependsOn[j[1]][i], n>>] \in JobTerminal

EvaluateNext_NotReady ==
  LET j      == Oldest(batch)
      decide == Broken(j) \/ ~EvaluateCondition(j, view)
  IN  /\ loop = "eval" /\ batch # {}
      /\ batch' = batch \ {j}
      /\ progress' = (progress \/ decide)
      /\ IF decide
         THEN ApplyObserved(j, IF Broken(j) THEN "failed" ELSE "skipped")
         ELSE UNCHANGED storeVars
      /\ UNCHANGED <<schedVars, handlerVars, plans, copying, loop, queue, view>>

EvaluateNext_AlwaysProgress ==
  LET j      == Oldest(batch)
      decide == depsFinal(j, view) /\ (Broken(j) \/ ~EvaluateCondition(j, view))
  IN  /\ loop = "eval" /\ batch # {}
      /\ batch' = batch \ {j}
      /\ progress' = TRUE
      /\ IF decide
         THEN ApplyObserved(j, IF Broken(j) THEN "failed" ELSE "skipped")
         ELSE UNCHANGED storeVars
      /\ UNCHANGED <<schedVars, handlerVars, plans, copying, loop, queue, view>>

EvaluateNext ==
  LET j      == Oldest(batch)
      decide == depsFinal(j, view) /\ (Broken(j) \/ ~EvaluateCondition(j, view))
  IN  /\ loop = "eval" /\ batch # {}
      /\ batch' = batch \ {j}
      /\ progress' = (progress \/ decide)
      /\ IF decide
         THEN ApplyObserved(j, IF Broken(j) THEN "failed" ELSE "skipped")
         ELSE UNCHANGED storeVars
      /\ UNCHANGED <<schedVars, handlerVars, plans, copying, loop, queue, view>>

RunEvaluated ==
  /\ loop = "eval" /\ batch = {}
  /\ loop' = IF queue # {} THEN "run" ELSE IF progress THEN "list" ELSE "drain"
  /\ view' = Unread
  /\ UNCHANGED <<vars, handlerVars, plans, copying, queue, batch, progress>>

(***************************************************************************)
(* Then DispatchNext until no job is left or one dispatch fails.           *)
(***************************************************************************)
Drain_KeepsClaim(d) ==
  /\ loop = "drain"
  /\ \/ Claim(d) /\ loop' = IF pc'[d] = "idle" THEN "idle" ELSE "drain"
     \/ (Check(d) \/ Create(d) \/ CreateError(d) \/ Ack(d) \/ AckRefused(d)) /\ UNCHANGED loop
     \/ /\ pc[d] = "release" /\ pc' = [pc EXCEPT ![d] = "idle"] /\ loop' = "idle"
        /\ UNCHANGED <<storeVars, objects, pod, job, gcList, gcDeleted>>
  /\ UNCHANGED <<handlerVars, plans, copying, queue, batch, view, progress>>

Drain(d) ==
  /\ loop = "drain"
  /\ \/ Claim(d) /\ loop' = IF pc'[d] = "idle" THEN "idle" ELSE "drain"
     \/ (Check(d) \/ Create(d) \/ CreateError(d) \/ Ack(d) \/ AckRefused(d)) /\ UNCHANGED loop
     \/ Release(d) /\ loop' = "idle"
  /\ UNCHANGED <<handlerVars, plans, copying, queue, batch, view, progress>>

DispatchOnce ==
  \/ ListQueuedJobs \/ EvaluateNext \/ RunEvaluated
  \/ \E r \in RunID : LoadRun(r)
  \/ \E d \in Dispatcher : Drain(d)

-----------------------------------------------------------------------------
Handle(h) ==
  \/ Compile(h) \/ CompileStops(h) \/ IngestRun(h)
  \/ ListJobRuns(h) \/ PlanJob(h) \/ BuildPlansFails(h)

(***************************************************************************)
(* What meets the control plane from outside.  The collector's sweep works *)
(* on jobs that have ended and is left to module Scheduler.                *)
(***************************************************************************)
Outside ==
  /\ \/ \E j \in JobRunID : PodStep(j)
     \/ \E j \in JobRunID, p \in ObservedPhase : Project(j, p)
     \/ \E r \in RunID : Cancel(r)
  /\ UNCHANGED <<handlerVars, plans, copying, loopVars>>

ServerNext ==
  \/ \E h \in Handler, d \in Delivery : RecordDelivery(h, d)
  \/ \E h \in Handler : Handle(h)
  \/ \E j \in JobRunID : RerequestAttempt(j) \/ CopyPlan(j)
  \/ DispatchOnce
  \/ Outside

ServerSpec == ServerInit /\ [][ServerNext]_serverVars

(***************************************************************************)
(* Fairness.  The loop's goroutine and the handlers keep running, calls on *)
(* the active store do not fail forever; GitHub or an operator redelivers  *)
(* what has no run, and fetching the workflows does not fail forever.      *)
(***************************************************************************)
ServerFairSpec ==
  /\ ServerSpec
  /\ WF_serverVars(DispatchOnce)
  /\ \A d \in Dispatcher : SF_serverVars(Drain(d) /\ Create(d))
  /\ \A h \in Handler : WF_serverVars(Handle(h)) /\ SF_serverVars(Compile(h))
  /\ \A d \in Delivery : SF_serverVars(\E h \in Handler : RecordDelivery(h, d))

-----------------------------------------------------------------------------
(***************************************************************************)
(* The control plane keeps to the scheduling protocol: whatever handlers,  *)
(* re-requests, conditions and the loop do to the two stores is a step of  *)
(* module Scheduler, so all that holds there holds under the server.       *)
(***************************************************************************)
ImplementsScheduler == Spec

(***************************************************************************)
(* A delivery leads to one run, however many handlers work on it and       *)
(* whatever the compiler's failures and the replays (window W0).           *)
(***************************************************************************)
OneRunPerDelivery ==
  \A q, r \in RunID :
    runStatus[q] # "absent" /\ runStatus[r] # "absent" /\ DeliveryOf[q] = DeliveryOf[r] => q = r

(***************************************************************************)
(* Once Ingest has returned without an error, every job of the run has a   *)
(* plan or has ended, whether its condition is decided now or deferred,    *)
(* and whatever the dispatch loop did to the job meanwhile.                *)
(***************************************************************************)
RunsArePlanned ==
  \A r \in ingested : \A j \in runJobs(r, status) :
    j[2] = 1 => j \in plans \/ status[j] \in JobTerminal

(***************************************************************************)
(* A job whose condition is false for the event, or does not evaluate, has *)
(* no plan in any attempt, so none of its steps ever runs: although its    *)
(* jobs are claimable, and may be dispatched or re-requested, before the   *)
(* condition is decided, and no one decides it for a later attempt.        *)
(***************************************************************************)
FalseConditionNeverRuns ==
  \A j \in plans : Condition[j[1]] \notin {"never", "broken"}

(***************************************************************************)
(* A job skipped for its deferred condition is so for the right reason.    *)
(* The records read for the decision are out of date when it is applied,   *)
(* yet the attempts of its needed jobs have ended and the condition is     *)
(* false for their results; only attempts re-requested since may differ.   *)
(***************************************************************************)
SkipIsJustified ==
  \A j \in JobRunID : isDeferredCondition(j) /\ status[j] = "skipped" =>
    \E cut \in [JobKey -> 1 .. MaxAttempt] :
      LET st == [i \in JobRunID |-> IF i[2] <= cut[i[1]] THEN status[i] ELSE "absent"]
      IN  depsFinal(j, st) /\ ~EvaluateCondition(j, st)

(***************************************************************************)
(* Every pass of the dispatch loop ends: the conditions reach a fixed      *)
(* point and the queue is drained, or a failing dispatch ends the pass.    *)
(***************************************************************************)
DispatchOnceReturns == loop # "idle" ~> loop = "idle"

(***************************************************************************)
(* A recorded delivery that matches a workflow gets its run in the end,    *)
(* also when the handler that recorded it failed before creating the run.  *)
(***************************************************************************)
DeliveryBecomesRun ==
  \A d \in Delivery : receipt[d] = "recorded" /\ RunsOf(d) # {} ~> receipt[d] \in RunID

=============================================================================
